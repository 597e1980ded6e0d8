------------------------------- MODULE StarPS -------------------------------
(***************************************************************************)
(* Synchronous parameter server in rank 0, point to point.                 *)
(*                                                                         *)
(* sync_mode "ps_sync_fedavg_queue" over MPI: run_logreg_allreduce_mpi in  *)
(* a thread of rank 0 averages whole models, the workers run queue_run.py  *)
(* over MpiWorkerAllreduceAdapter.                                         *)
(* sync_mode "hybrid_ps_allreduce" (P3-10): the thread hybrid_ps._serve    *)
(* averages a scalar only, the dense weights are summed by an Allreduce    *)
(* among the workers.                                                      *)
(*                                                                         *)
(* A model is abstracted to the set of contributions it is the mean of.    *)
(***************************************************************************)
EXTENDS Integers, Sequences, FiniteSets

CONSTANTS
  N,        \* num_workers
  R,        \* num_iterations = max_iter
  Modes     \* the modes a job may be started in

ASSUME ConstantsAssumption ==
  /\ N \in Nat \ {0}
  /\ R \in Nat \ {0}
  /\ Modes \subseteq {"ps_sync_fedavg_queue", "hybrid_ps_allreduce"}

VARIABLES
  sync_mode,  \* the mode of the job
  pc,         \* worker: "load", "gather", "step", "reduce", "push", "wait",
              \*         "done", "failed"
  it,         \* worker: iterations_done
  dense,      \* worker: current_weights of the hybrid mode
  model,      \* worker: what the parameter server last replied
  entered,    \* contributions to each collective of the workers' communicator
  up,         \* worker: messages under tag 30
  down,       \* worker: replies under tag 31
  iteration,  \* server: the round it serves
  msgs,       \* server: messages of the round, in rank order
  sent,       \* server: replies of the round already sent
  final,      \* server: the last average
  collected,  \* main thread: outcomes received, in rank order
  main        \* main thread: "collect", "complete", "aborted"

workerVars == <<pc, it, dense, model>>
serverVars == <<iteration, msgs, sent, final>>
mainVars   == <<collected, main>>
vars == <<sync_mode, workerVars, entered, up, down, serverVars, mainVars>>

Hybrid == sync_mode = "hybrid_ps_allreduce"

Worker == 1..N
Contribution == [worker : Worker, worker_round : 0..(R - 1)]
Collective == 0..R   \* allgather of the row counts, then one Allreduce per round
Reply == [iteration : 0..(R - 1), average : SUBSET Contribution]

\* One contribution of every worker, all made in round k.
Round(k) == {[worker |-> w, worker_round |-> k] : w \in Worker}

Init ==
  /\ sync_mode \in Modes
  /\ pc = [w \in Worker |-> "load"]
  /\ it = [w \in Worker |-> 0]
  /\ dense = [w \in Worker |-> {}]
  /\ model = [w \in Worker |-> {}]
  /\ entered = [c \in Collective |-> {}]
  /\ up = [w \in Worker |-> <<>>]
  /\ down = [w \in Worker |-> <<>>]
  /\ iteration = 0
  /\ msgs = <<>>
  /\ sent = 0
  /\ final = {}
  /\ collected = 0
  /\ main = "collect"

----------------------------------------------------------------------------
(* Workers *)

Mine(w) == [worker |-> w, worker_round |-> it[w]]

\* The partition is loaded; the hybrid mode first exchanges the row counts.
Load(w) ==
  /\ pc[w] = "load"
  /\ IF Hybrid
     THEN /\ entered' = [entered EXCEPT ![0] = @ \cup {Mine(w)}]
          /\ pc' = [pc EXCEPT ![w] = "gather"]
     ELSE pc' = [pc EXCEPT ![w] = "step"] /\ UNCHANGED entered
  /\ UNCHANGED <<sync_mode, it, dense, model, up, down, serverVars, mainVars>>

\* allgather returns when every worker has entered it.
LeaveGather(w) ==
  /\ pc[w] = "gather"
  /\ Cardinality(entered[0]) = N
  /\ pc' = [pc EXCEPT ![w] = "step"]
  /\ UNCHANGED <<sync_mode, it, dense, model, entered, up, down, serverVars, mainVars>>

\* The local step of a hybrid round ends in comm.Allreduce.
EnterReduce(w) ==
  /\ Hybrid
  /\ pc[w] = "step"
  /\ entered' = [entered EXCEPT ![it[w] + 1] = @ \cup {Mine(w)}]
  /\ pc' = [pc EXCEPT ![w] = "reduce"]
  /\ UNCHANGED <<sync_mode, it, dense, model, up, down, serverVars, mainVars>>

\* Mutant: a non-blocking reduction whose buffer is read without waiting.
LeaveReduceEarly(w) ==
  /\ pc[w] = "reduce"
  /\ dense' = [dense EXCEPT ![w] = entered[it[w] + 1]]
  /\ pc' = [pc EXCEPT ![w] = "push"]
  /\ UNCHANGED <<sync_mode, it, model, entered, up, down, serverVars, mainVars>>

\* Allreduce returns the sum of every worker's contribution.
LeaveReduce(w) ==
  /\ pc[w] = "reduce"
  /\ Cardinality(entered[it[w] + 1]) = N
  /\ dense' = [dense EXCEPT ![w] = entered[it[w] + 1]]
  /\ pc' = [pc EXCEPT ![w] = "push"]
  /\ UNCHANGED <<sync_mode, it, model, entered, up, down, serverVars, mainVars>>

\* Mutant: the contribution is sent without waiting for the reply.
PushWithoutWaiting(w) ==
  /\ pc[w] = (IF Hybrid THEN "push" ELSE "step")
  /\ up' = [up EXCEPT ![w] = Append(@, Mine(w))]
  /\ it' = [it EXCEPT ![w] = @ + 1]
  /\ pc' = [pc EXCEPT ![w] = IF it[w] + 1 = R THEN "done" ELSE "step"]
  /\ UNCHANGED <<sync_mode, dense, model, entered, down, serverVars, mainVars>>

\* comm.send of the scalar, or of the whole local model, to rank 0.
Push(w) ==
  /\ pc[w] = (IF Hybrid THEN "push" ELSE "step")
  /\ up' = [up EXCEPT ![w] = Append(@, Mine(w))]
  /\ pc' = [pc EXCEPT ![w] = "wait"]
  /\ UNCHANGED <<sync_mode, it, dense, model, entered, down, serverVars, mainVars>>

\* comm.recv of the reply; the next round starts from it.
Pull(w) ==
  /\ pc[w] = "wait"
  /\ down[w] # <<>>
  /\ model' = [model EXCEPT ![w] = Head(down[w]).average]
  /\ down' = [down EXCEPT ![w] = Tail(@)]
  /\ it' = [it EXCEPT ![w] = @ + 1]
  /\ pc' = [pc EXCEPT ![w] = IF it[w] + 1 = R THEN "done" ELSE "step"]
  /\ UNCHANGED <<sync_mode, dense, entered, up, serverVars, mainVars>>

\* Loading, the local step or, after the last round, the final evaluation raises;
\* run_worker_mpi reports it to rank 0.
Fail(w) ==
  /\ pc[w] \in {"load", "step"} \/ (pc[w] = "done" /\ w > collected)
  /\ pc' = [pc EXCEPT ![w] = "failed"]
  /\ UNCHANGED <<sync_mode, it, dense, model, entered, up, down, serverVars, mainVars>>

----------------------------------------------------------------------------
(* Server thread *)

\* Every reply has been received: the comm.send of the server must have returned.
\* MPI may buffer a message, so it may return before; the code cannot rely on it.
RepliesTaken == \A w \in Worker : down[w] = <<>>

\* comm.recv(source=rank) for the ranks in order; the last one makes the average.
Recv ==
  LET r == Len(msgs) + 1 IN
  /\ iteration < R
  /\ Len(msgs) < N
  /\ up[r] # <<>>
  /\ msgs' = Append(msgs, Head(up[r]))
  /\ up' = [up EXCEPT ![r] = Tail(@)]
  /\ final' = IF r = N THEN {msgs'[i] : i \in 1..N} ELSE final
  /\ UNCHANGED <<sync_mode, workerVars, entered, down, iteration, sent, mainVars>>

\* Mutant: the list of messages is not emptied of rank 1's between rounds.
AnswerKeepingFirstMessage ==
  LET r == sent + 1 IN
  /\ Len(msgs) = N
  /\ down' = [down EXCEPT ![r] = Append(@, [iteration |-> iteration, average |-> final])]
  /\ IF r = N
     THEN iteration' = iteration + 1 /\ msgs' = SubSeq(msgs, 1, 1) /\ sent' = 0
     ELSE sent' = r /\ UNCHANGED <<sync_mode, iteration, msgs>>
  /\ UNCHANGED <<sync_mode, workerVars, entered, up, final, mainVars>>

\* Mutant: the loop over range(1, num_workers) leaves out the last rank.
AnswerAllButLast ==
  LET r == sent + 1 IN
  /\ Len(msgs) = N
  /\ down' = [down EXCEPT ![r] = Append(@, [iteration |-> iteration, average |-> final])]
  /\ IF r >= N - 1
     THEN iteration' = iteration + 1 /\ msgs' = <<>> /\ sent' = 0
     ELSE sent' = r /\ UNCHANGED <<sync_mode, iteration, msgs>>
  /\ UNCHANGED <<sync_mode, workerVars, entered, up, final, mainVars>>

\* comm.send(dest=rank) for the ranks in order; the last one ends the round.
Answer ==
  LET r == sent + 1 IN
  /\ Len(msgs) = N
  /\ down' = [down EXCEPT ![r] = Append(@, [iteration |-> iteration, average |-> final])]
  /\ IF r = N
     THEN iteration' = iteration + 1 /\ msgs' = <<>> /\ sent' = 0
     ELSE sent' = r /\ UNCHANGED <<sync_mode, iteration, msgs>>
  /\ UNCHANGED <<sync_mode, workerVars, entered, up, final, mainVars>>

----------------------------------------------------------------------------
(* Main thread of rank 0 *)

\* comm.recv(source=w_rank, tag=TAG_RESULT) for the ranks in order.
Collect ==
  /\ main = "collect"
  /\ collected < N
  /\ pc[collected + 1] \in {"done", "failed"}
  /\ collected' = collected + 1
  /\ UNCHANGED <<sync_mode, workerVars, entered, up, down, serverVars, main>>

\* Errors end the run with SystemExit(1); otherwise the server thread is joined.
Conclude ==
  /\ main = "collect"
  /\ collected = N
  /\ \/ /\ \E w \in Worker : pc[w] = "failed"
        /\ main' = "aborted"
     \/ /\ \A w \in Worker : pc[w] = "done"
        /\ iteration = R
        /\ main' = "complete"
  /\ UNCHANGED <<sync_mode, workerVars, entered, up, down, serverVars, collected>>

Ended == main # "collect" /\ UNCHANGED vars

----------------------------------------------------------------------------
WorkerStep(w) ==
  \/ Load(w) \/ LeaveGather(w) \/ EnterReduce(w) \/ LeaveReduce(w)
  \/ Push(w) \/ Pull(w)
ServerStep == Recv \/ Answer
MainStep == Collect \/ Conclude

Next ==
  \/ \E w \in Worker : WorkerStep(w) \/ Fail(w)
  \/ ServerStep \/ MainStep
  \/ Ended

Spec == Init /\ [][Next]_vars

\* Every process and thread that can move does.  The server moves for certain only
\* when its send does not depend on a buffer.
Fairness ==
  /\ \A w \in Worker : WF_vars(WorkerStep(w))
  /\ WF_vars(RepliesTaken /\ ServerStep)
  /\ WF_vars(MainStep)

FairSpec == Spec /\ Fairness

----------------------------------------------------------------------------
(* Properties *)

TypeOK ==
  /\ sync_mode \in Modes
  /\ pc \in [Worker -> {"load", "gather", "step", "reduce", "push", "wait", "done", "failed"}]
  /\ it \in [Worker -> 0..R]
  /\ dense \in [Worker -> SUBSET Contribution]
  /\ model \in [Worker -> SUBSET Contribution]
  /\ entered \in [Collective -> SUBSET Contribution]
  /\ up \in [Worker -> Seq(Contribution)]
  /\ down \in [Worker -> Seq(Reply)]
  /\ iteration \in 0..R
  /\ msgs \in Seq(Contribution) /\ Len(msgs) <= N
  /\ sent \in 0..(N - 1)
  /\ final \in SUBSET Contribution
  /\ collected \in 0..N
  /\ main \in {"collect", "complete", "aborted"}

\* "Workers block on the reply before their next round, so per-round tag reuse is
\* safe": what the server has received under one tag is of one round, the round it
\* is serving, and so is the reply a worker finds under the other.
RoundsNotMixed ==
  /\ \A i \in 1..Len(msgs) : msgs[i] = [worker |-> i, worker_round |-> iteration]
  /\ \A w \in Worker : \A i \in 1..Len(down[w]) :
       down[w][i] = [iteration |-> it[w], average |-> Round(it[w])]

\* A worker trains on the mean of one complete round, its last one; in the hybrid
\* mode the weights and the intercept that arrive over two channels are of the same.
\* So is the result: the root takes the server's average, or merges the first
\* worker's weights with the server's intercept (hybrid).
ModelIsLastRound ==
  /\ \A w \in Worker : it[w] > 0 /\ pc[w] \in {"step", "done"} =>
       /\ model[w] = Round(it[w] - 1)
       /\ Hybrid => dense[w] = Round(it[w] - 1)
  /\ main = "complete" =>
       /\ final = Round(R - 1)
       /\ Hybrid => dense[1] = final

\* The rounds are the barrier rounds of SyncRounds: a worker contributes when it
\* sends, a round closes with the average, the reply installs it.
Rounds == INSTANCE SyncRounds WITH
  contributed <- [w \in Worker |-> it[w] + (IF pc[w] = "wait" THEN 1 ELSE 0)],
  closed <- iteration + (IF Len(msgs) = N THEN 1 ELSE 0),
  installed <- it
ImplementsRounds == Rounds!Spec

\* With every process scheduled a run in which nobody fails ends, although no
\* message need be buffered: sends, collectives and rank-ordered receives together
\* do not deadlock.
RunEnds == [](\A w \in Worker : pc[w] # "failed") => <>(main # "collect")

=============================================================================
