---------------------------- MODULE QueueFedAvg ----------------------------
(***************************************************************************)
(* Queue-based FedAvg (condition M2) on the multiprocessing transport.     *)
(*                                                                         *)
(* N workers run applications/logreg/queue_run.py; a daemon thread of the  *)
(* root runs run_logreg_allreduce (core/root_process.py); the root's main  *)
(* thread collects the outcomes (run_root, Phase 4).  They share one       *)
(* queue up (workers -> root) and ONE queue down (root -> workers): a copy *)
(* of an average is not addressed to a worker, whoever calls get takes it. *)
(*                                                                         *)
(* A multiprocessing.Queue has a feeder thread per producer, so up keeps   *)
(* the order of each worker's messages and merges workers arbitrarily;     *)
(* down has one producer and is a FIFO sequence.                           *)
(***************************************************************************)
EXTENDS Integers, Sequences, FiniteSets

CONSTANTS
  Worker,      \* the worker processes
  R,           \* num_iterations = max_iter, the FedAvg rounds
  MayFail,     \* TRUE: a Spark job (fit, scoring) may raise
  MayTimeOut   \* TRUE: get(timeout=...) may raise queue.Empty

ASSUME ConstantsAssumption ==
  /\ IsFiniteSet(Worker) /\ Worker # {}
  /\ R \in Nat \ {0}
  /\ MayFail \in BOOLEAN
  /\ MayTimeOut \in BOOLEAN

VARIABLES
  pc,         \* worker: "fit", "get" (blocked on down), "score", "done", "failed"
  sent,       \* worker: how many of its messages went into up
  got,        \* worker: iterations_done, how many averages it took
  model,      \* worker: the round of the global model it holds, -1 if none
  up,         \* messages in up_queue
  down,       \* down_queue: the rounds of the copies it holds
  coord,      \* coordinator thread: "recv", "send", "done", "dead"
  rounds,     \* coordinator: rounds completed
  msgs,       \* coordinator: messages of the current round
  copies,     \* coordinator: copies of the average still to put
  averaged,   \* history: the messages that made up each round's average
  collected,  \* main thread: workers whose outcome it has read
  main        \* main thread: "collect", "complete", "aborted"

workerVars == <<pc, sent, got, model>>
coordVars  == <<coord, rounds, msgs, copies, averaged>>
mainVars   == <<collected, main>>
vars == <<workerVars, up, down, coordVars, mainVars>>

N == Cardinality(Worker)
Round == 0..(R - 1)
Message == [worker : Worker, iteration : Round]

Init ==
  /\ pc = [w \in Worker |-> "fit"]
  /\ sent = [w \in Worker |-> 0]
  /\ got = [w \in Worker |-> 0]
  /\ model = [w \in Worker |-> -1]
  /\ up = {}
  /\ down = <<>>
  /\ coord = "recv"
  /\ rounds = 0
  /\ msgs = {}
  /\ copies = 0
  /\ averaged = [r \in Round |-> {}]
  /\ collected = {}
  /\ main = "collect"

----------------------------------------------------------------------------
(* Workers *)

\* lr.fit succeeds and the local weights go into up_queue.
Put(w) ==
  /\ pc[w] = "fit"
  /\ up' = up \cup {[worker |-> w, iteration |-> sent[w]]}
  /\ sent' = [sent EXCEPT ![w] = @ + 1]
  /\ pc' = [pc EXCEPT ![w] = "get"]
  /\ UNCHANGED <<got, model, down, coordVars, mainVars>>

\* down_queue.get returns whatever copy is at the head: msg["iteration"] is
\* never looked at.
Get(w) ==
  /\ pc[w] = "get"
  /\ down # <<>>
  /\ model' = [model EXCEPT ![w] = Head(down)]
  /\ down' = Tail(down)
  /\ got' = [got EXCEPT ![w] = @ + 1]
  /\ pc' = [pc EXCEPT ![w] = IF got[w] + 1 = R THEN "score" ELSE "fit"]
  /\ UNCHANGED <<sent, up, coordVars, mainVars>>

\* Mutant: down_queue.get() without a timeout.
GetNeverTimesOut(w) == FALSE /\ pc[w] = "get" /\ UNCHANGED vars

\* queue.Empty after 180 s; worker_process reports an error outcome.
GetTimesOut(w) ==
  /\ MayTimeOut
  /\ pc[w] = "get"
  /\ down = <<>>
  /\ pc' = [pc EXCEPT ![w] = "failed"]
  /\ UNCHANGED <<sent, got, model, up, down, coordVars, mainVars>>

\* Final accuracy job, then the success outcome.
Score(w) ==
  /\ pc[w] = "score"
  /\ pc' = [pc EXCEPT ![w] = "done"]
  /\ UNCHANGED <<sent, got, model, up, down, coordVars, mainVars>>

\* A Spark job raises; worker_process reports an error outcome.
Fail(w) ==
  /\ MayFail
  /\ pc[w] \in {"fit", "score"}
  /\ pc' = [pc EXCEPT ![w] = "failed"]
  /\ UNCHANGED <<sent, got, model, up, down, coordVars, mainVars>>

----------------------------------------------------------------------------
(* Coordinator thread *)

FirstOfItsWorker(m) ==
  \A n \in up : n.worker = m.worker => n.iteration >= m.iteration

\* up_queue.get; worker_id and iteration of the message are never looked at.
Receive(m) ==
  /\ coord = "recv"
  /\ Cardinality(msgs) < N
  /\ m \in up
  /\ FirstOfItsWorker(m)
  /\ up' = up \ {m}
  /\ msgs' = msgs \cup {m}
  /\ UNCHANGED <<workerVars, down, coord, rounds, copies, averaged, mainVars>>

\* Mutant: the round closes without its last message.
CloseRoundEarly ==
  /\ coord = "recv"
  /\ Cardinality(msgs) >= N - 1
  /\ averaged' = [averaged EXCEPT ![rounds] = msgs]
  /\ msgs' = {}
  /\ copies' = N
  /\ coord' = "send"
  /\ UNCHANGED <<workerVars, up, down, rounds, mainVars>>

\* Mutant: the list of messages is not emptied between rounds.
CloseRoundKeepsMessages ==
  /\ coord = "recv"
  /\ Cardinality(msgs) = N
  /\ averaged' = [averaged EXCEPT ![rounds] = msgs]
  /\ copies' = N
  /\ coord' = "send"
  /\ UNCHANGED <<workerVars, up, down, rounds, msgs, mainVars>>

\* N messages make a round, whoever sent them.
CloseRound ==
  /\ coord = "recv"
  /\ Cardinality(msgs) = N
  /\ averaged' = [averaged EXCEPT ![rounds] = msgs]
  /\ msgs' = {}
  /\ copies' = N
  /\ coord' = "send"
  /\ UNCHANGED <<workerVars, up, down, rounds, mainVars>>

\* One of the N puts into the shared down_queue; the last one ends the round.
SendCopy ==
  /\ coord = "send"
  /\ down' = Append(down, rounds)
  /\ copies' = copies - 1
  /\ IF copies = 1
     THEN /\ rounds' = rounds + 1
          /\ coord' = IF rounds + 1 = R THEN "done" ELSE "recv"
     ELSE UNCHANGED <<rounds, coord>>
  /\ UNCHANGED <<workerVars, up, msgs, averaged, mainVars>>

\* queue.Empty after 300 s ends the daemon thread; nothing is stored.
ReceiveTimesOut ==
  /\ MayTimeOut
  /\ coord = "recv"
  /\ Cardinality(msgs) < N
  /\ up = {}
  /\ coord' = "dead"
  /\ UNCHANGED <<workerVars, up, down, rounds, msgs, copies, averaged, mainVars>>

----------------------------------------------------------------------------
(* Main thread of the root *)

\* result_queue.get, in whatever order the workers end.
Collect(w) ==
  /\ main = "collect"
  /\ w \notin collected
  /\ pc[w] \in {"done", "failed"}
  /\ collected' = collected \cup {w}
  /\ UNCHANGED <<workerVars, up, down, coordVars, main>>

\* Mutant: the error outcomes are not looked at.
ConcludeIgnoringErrors ==
  /\ main = "collect"
  /\ collected = Worker
  /\ main' = "complete"
  /\ UNCHANGED <<workerVars, up, down, coordVars, collected>>

\* Any error outcome aborts the run before aggregation; otherwise the result
\* of the coordinator thread is awaited and aggregated.
Conclude ==
  /\ main = "collect"
  /\ collected = Worker
  /\ main' = IF \E w \in Worker : pc[w] = "failed" THEN "aborted" ELSE "complete"
  /\ UNCHANGED <<workerVars, up, down, coordVars, collected>>

Ended == main # "collect" /\ UNCHANGED vars

----------------------------------------------------------------------------
WorkerStep(w) == Put(w) \/ Get(w) \/ GetTimesOut(w) \/ Score(w) \/ Fail(w)
CoordStep == (\E m \in up : Receive(m)) \/ CloseRound \/ SendCopy \/ ReceiveTimesOut
MainStep == (\E w \in Worker : Collect(w)) \/ Conclude

Next == (\E w \in Worker : WorkerStep(w)) \/ CoordStep \/ MainStep \/ Ended

Spec == Init /\ [][Next]_vars

\* The operating system schedules every process and thread; a blocking get
\* whose queue stays non-empty returns.
Fairness ==
  /\ \A w \in Worker : WF_vars(WorkerStep(w))
  /\ WF_vars(CoordStep)
  /\ WF_vars(MainStep)

FairSpec == Spec /\ Fairness

----------------------------------------------------------------------------
(* Properties *)

TypeOK ==
  /\ pc \in [Worker -> {"fit", "get", "score", "done", "failed"}]
  /\ sent \in [Worker -> 0..R]
  /\ got \in [Worker -> 0..R]
  /\ model \in [Worker -> -1..(R - 1)]
  /\ up \in SUBSET Message
  /\ down \in Seq(Round)
  /\ coord \in {"recv", "send", "done", "dead"}
  /\ rounds \in 0..R
  /\ msgs \in SUBSET Message
  /\ copies \in 0..N
  /\ averaged \in [Round -> SUBSET Message]
  /\ collected \in SUBSET Worker
  /\ main \in {"collect", "complete", "aborted"}

\* Workers that have sent a message for which they have not been answered.
Owed == {w \in Worker : sent[w] = got[w] + 1}

\* Every unanswered worker corresponds to exactly one item in flight: a message
\* in up_queue or in the coordinator's list, or a copy it still has to put or
\* that waits in down_queue.  No message or copy is lost or invented.
TokenConservation ==
  Cardinality(up) + Cardinality(msgs) + copies + Len(down) = Cardinality(Owed)

\* The coordinator's last round, complete or being sent.
LatestRound == IF coord = "send" THEN rounds ELSE rounds - 1

\* Although nothing in the code drains it, down_queue never mixes the copies of
\* two rounds, so no worker ever goes back to an average older than the latest.
OneRoundInFlight == \A i \in 1..Len(down) : down[i] = LatestRound

\* Closing a round is a barrier: when the coordinator holds its N messages, no
\* other message is waiting, every copy of the round before has been taken, and
\* every worker is still unanswered.
CloseIsBarrier ==
  Cardinality(msgs) = N => up = {} /\ down = <<>> /\ Owed = Worker

\* Messages sent so far.
SentMessages == {m \in Message : m.iteration < sent[m.worker]}

\* Every message a worker sent is in exactly one place: in up_queue, in the
\* coordinator's list, or in the average of one round.  No local model is lost
\* or averaged twice.
EachMessageAveragedOnce ==
  /\ SentMessages = up \cup msgs \cup UNION {averaged[r] : r \in Round}
  /\ up \cap msgs = {}
  /\ \A r \in Round :
       /\ averaged[r] \cap (up \cup msgs) = {}
       /\ \A s \in Round \ {r} : averaged[r] \cap averaged[s] = {}

\* A run that does not abort has performed all R rounds and taken every copy, so
\* the main thread always finds the coordinator's result: aggregate_logreg_results
\* never falls back to the post-hoc average of the workers' weights.
ResultIsLastAverage ==
  main = "complete" => coord = "done" /\ rounds = R /\ down = <<>>

\* With the timeouts of queue_run.run and run_logreg_allreduce every run ends:
\* main collects an outcome of every worker.
RunEnds == <>(main # "collect")

\* README, Two-Queue Design: down_queue carries the "FedAvg-averaged result,
\* broadcast back"; queue_run.py: "Root computes row-weighted FedAvg" of what
\* each worker pushes per iteration.  So every average takes one message of every
\* worker.  (Refuted: copies are not addressed.)
AverageCoversEveryWorker ==
  \A r \in Round : averaged[r] # {} => {m.worker : m \in averaged[r]} = Worker
=============================================================================
