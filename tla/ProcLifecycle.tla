---------------------------- MODULE ProcLifecycle ----------------------------
(***************************************************************************)
(* Life of a job over multiprocessing: core/root_process.py run_root and   *)
(* workers/worker_process.py worker_process.                               *)
(*                                                                         *)
(* Seeding in a subprocess, partitioning, spawn, pre-warm barrier (one     *)
(* ready event and one go event per worker), run of the application,       *)
(* collection of the outcomes from two queues that all workers share,      *)
(* join, aggregation.  What the application does between go and its        *)
(* outcome is the subject of QueueFedAvg; here it returns or raises.       *)
(*                                                                         *)
(* A multiprocessing.Queue is a set: each worker puts one item in each of  *)
(* them, and items of different workers arrive in any order.               *)
(***************************************************************************)
EXTENDS Integers, Sequences, FiniteSets

CONSTANT N   \* num_workers

ASSUME ConstantsAssumption == N \in Nat \ {0}

VARIABLES
  pc,            \* worker: "unborn", "init", "go", "run", "timing", "exit"
  ready,         \* workers whose ready_signal is set
  go,            \* workers whose go_signal is set
  result_queue,  \* outcomes put and not yet taken
  timing_queue,  \* workers whose timing is put and not yet taken
  root,          \* root: the phase it is in
  next,          \* root: the index its loop has reached
  results,       \* root: outcomes in the order they were taken
  timings,       \* root: workers, in the order their timings were taken
  exit,          \* root: "running", "complete", "aborted" or "raised"
  use_gossip,    \* K-means with use_gossip: the root aggregates over gossip_queue
  seeder,        \* the seeding subprocess: "unborn", "fit", "feed", "exit" or "dead"
  result_q,      \* what it has put and nobody has taken: "none", "ok" or "error"
  large          \* the seed centroids do not fit into the pipe under result_q

queueVars == <<result_queue, timing_queue>>
seedVars == <<seeder, result_q, large>>
rootVars == <<root, next, results, timings, exit, use_gossip, seedVars>>
vars == <<pc, ready, go, queueVars, rootVars>>

Worker == 1..N
Outcome == [worker : Worker, status : {"success", "error"}]

Init ==
  /\ pc = [w \in Worker |-> "unborn"]
  /\ ready = {} /\ go = {}
  /\ result_queue = {} /\ timing_queue = {}
  /\ use_gossip \in BOOLEAN
  /\ root \in {"seed", "partition"}
  /\ root = "seed" => use_gossip
  /\ next = 1
  /\ results = <<>> /\ timings = <<>>
  /\ exit = "running"
  /\ seeder = "unborn" /\ result_q = "none"
  /\ large \in BOOLEAN

----------------------------------------------------------------------------
(* Workers *)

PutResult(w, status) ==
  /\ result_queue' = result_queue \cup {[worker |-> w, status |-> status]}
  /\ pc' = [pc EXCEPT ![w] = "timing"]

\* The Spark driver comes up and the ready event is set.  If it raises, the error
\* is put as an outcome and the ready event stays unset.
StartSpark(w) ==
  /\ pc[w] = "init"
  /\ \/ /\ ready' = ready \cup {w}
        /\ pc' = [pc EXCEPT ![w] = "go"]
        /\ UNCHANGED result_queue
     \/ PutResult(w, "error") /\ UNCHANGED ready
  /\ UNCHANGED <<go, timing_queue, rootVars>>

WaitGo(w) ==
  /\ pc[w] = "go"
  /\ w \in go
  /\ pc' = [pc EXCEPT ![w] = "run"]
  /\ UNCHANGED <<ready, go, queueVars, rootVars>>

\* Mutant: a worker whose application raises ends without a word.
RunDyingSilently(w) ==
  /\ pc[w] = "run"
  /\ \/ PutResult(w, "success")
     \/ pc' = [pc EXCEPT ![w] = "exit"] /\ UNCHANGED result_queue
  /\ UNCHANGED <<ready, go, timing_queue, rootVars>>

\* run_worker_core returns, or raises and the except branch puts the error.
Run(w) ==
  /\ pc[w] = "run"
  /\ \/ PutResult(w, "success")
     \/ PutResult(w, "error")
  /\ UNCHANGED <<ready, go, timing_queue, rootVars>>

\* Mutant: the except branch also covers the return of the success branch.
PutTimingTwice(w) ==
  /\ pc[w] = "timing"
  /\ timing_queue' = timing_queue \cup {w}
  /\ \/ pc' = [pc EXCEPT ![w] = "exit"] /\ UNCHANGED result_queue
     \/ /\ pc' = pc
        /\ result_queue' = result_queue \cup {[worker |-> w, status |-> "error"]}
  /\ UNCHANGED <<ready, go, rootVars>>

PutTiming(w) ==
  /\ pc[w] = "timing"
  /\ timing_queue' = timing_queue \cup {w}
  /\ pc' = [pc EXCEPT ![w] = "exit"]
  /\ UNCHANGED <<ready, go, result_queue, rootVars>>

----------------------------------------------------------------------------
(* Root *)

\* The loop over the workers goes on, or ends in the next phase.
NextWorker(phase) ==
  IF next = N THEN root' = phase /\ next' = 1 ELSE root' = root /\ next' = next + 1

\* run_root raises: nothing after it is done.
Raise == root' = "end" /\ exit' = "raised"

StartSeeder ==
  /\ root = "seed"
  /\ seeder' = "fit"
  /\ root' = "seedjoin"
  /\ UNCHANGED <<pc, ready, go, queueVars, next, results, timings, exit, use_gossip, result_q, large>>

\* _seeding_worker: the centres or the exception are handed to the feeder thread of
\* the queue; or the subprocess is killed.
SeederPuts ==
  /\ seeder = "fit"
  /\ \/ seeder' = "feed" /\ result_q' \in {"ok", "error"}
     \/ seeder' = "dead" /\ UNCHANGED result_q
  /\ UNCHANGED <<pc, ready, go, queueVars, root, next, results, timings, exit, use_gossip, large>>

\* A subprocess exits when its feeder has written everything into the pipe.
SeederExits ==
  /\ seeder = "feed"
  /\ ~(large /\ result_q = "ok")
  /\ seeder' = "exit"
  /\ UNCHANGED <<pc, ready, go, queueVars, root, next, results, timings, exit, use_gossip, result_q, large>>

\* p.join(), then the exit code.
JoinSeeder ==
  /\ root = "seedjoin"
  /\ \/ seeder = "exit" /\ root' = "seedget" /\ UNCHANGED exit
     \/ seeder = "dead" /\ Raise
  /\ UNCHANGED <<pc, ready, go, queueVars, next, results, timings, use_gossip, seedVars>>

\* get_nowait(): nothing there raises, and so does an error.
TakeSeed ==
  /\ root = "seedget"
  /\ IF result_q = "ok" THEN root' = "partition" /\ UNCHANGED exit ELSE Raise
  /\ result_q' = "none"
  /\ UNCHANGED <<pc, ready, go, queueVars, next, results, timings, use_gossip, seeder, large>>

\* The input is split, or cannot be read.
Partition ==
  /\ root = "partition"
  /\ \/ root' = "spawn" /\ UNCHANGED exit
     \/ Raise
  /\ UNCHANGED <<pc, ready, go, queueVars, next, results, timings, use_gossip, seedVars>>

Spawn ==
  /\ root = "spawn"
  /\ pc' = [pc EXCEPT ![next] = "init"]
  /\ NextWorker("ready")
  /\ UNCHANGED <<ready, go, queueVars, results, timings, exit, use_gossip, seedVars>>

\* sig.wait() without a timeout, for the workers in order.
WaitReady ==
  /\ root = "ready"
  /\ next \in ready
  /\ NextWorker("go")
  /\ UNCHANGED <<pc, ready, go, queueVars, results, timings, exit, use_gossip, seedVars>>

SetGo ==
  /\ root = "go"
  /\ go' = go \cup {next}
  /\ NextWorker("result")
  /\ UNCHANGED <<pc, ready, queueVars, results, timings, exit, use_gossip, seedVars>>

\* result_queue.get(): the outcome of any worker.
GetResult ==
  /\ root = "result"
  /\ \E r \in result_queue :
       /\ result_queue' = result_queue \ {r}
       /\ results' = Append(results, r)
  /\ root' = "timing"
  /\ UNCHANGED <<pc, ready, go, timing_queue, next, timings, exit, use_gossip, seedVars>>

\* timing_queue.get(): the timing of any worker, and the loop goes on.
GetTiming ==
  /\ root = "timing"
  /\ \E w \in timing_queue :
       /\ timing_queue' = timing_queue \ {w}
       /\ timings' = Append(timings, w)
  /\ IF next = N THEN root' = "join" /\ next' = 1 ELSE root' = "result" /\ next' = next + 1
  /\ UNCHANGED <<pc, ready, go, result_queue, results, exit, use_gossip, seedVars>>

\* p.join() for the workers in order.
Join ==
  /\ root = "join"
  /\ pc[next] = "exit"
  /\ NextWorker("joined")
  /\ UNCHANGED <<pc, ready, go, queueVars, results, timings, exit, use_gossip, seedVars>>

Failed == \E i \in 1..Len(results) : results[i].status = "error"

\* With an error the root prints it and returns, otherwise it aggregates: the
\* outcomes, or what the workers have put into gossip_queue.
Conclude ==
  /\ root = "joined"
  /\ IF Failed THEN root' = "end" /\ exit' = "aborted"
     ELSE IF use_gossip THEN root' = "gossip" /\ UNCHANGED exit
     ELSE root' = "end" /\ exit' = "complete"
  /\ UNCHANGED <<pc, ready, go, queueVars, next, results, timings, use_gossip, seedVars>>

\* _collect_states: no worker puts anything into gossip_queue, so the first get
\* times out, and the aggregation and the re-assignment pass are never reached.
GossipTimesOut ==
  /\ root = "gossip"
  /\ Raise
  /\ UNCHANGED <<pc, ready, go, queueVars, next, results, timings, use_gossip, seedVars>>

Ended == root = "end" /\ UNCHANGED vars

----------------------------------------------------------------------------
WorkerStep(w) == StartSpark(w) \/ WaitGo(w) \/ Run(w) \/ PutTiming(w)
RootStep ==
  \/ StartSeeder \/ JoinSeeder \/ TakeSeed \/ Partition \/ Spawn \/ WaitReady \/ SetGo
  \/ GetResult \/ GetTiming \/ Join \/ Conclude \/ GossipTimesOut

SeederStep == SeederPuts \/ SeederExits

Next == (\E w \in Worker : WorkerStep(w)) \/ SeederStep \/ RootStep \/ Ended

Spec == Init /\ [][Next]_vars

\* Every process that can move does.
FairSpec == Spec /\ (\A w \in Worker : WF_vars(WorkerStep(w))) /\ WF_vars(SeederStep) /\ WF_vars(RootStep)

----------------------------------------------------------------------------
(* Properties *)

TypeOK ==
  /\ pc \in [Worker -> {"unborn", "init", "go", "run", "timing", "exit"}]
  /\ ready \in SUBSET Worker /\ go \in SUBSET Worker
  /\ result_queue \in SUBSET Outcome /\ timing_queue \in SUBSET Worker
  /\ root \in {"seed", "seedjoin", "seedget", "partition", "spawn", "ready", "go", "result", "timing",
              "join", "joined", "gossip", "end"}
  /\ use_gossip \in BOOLEAN /\ large \in BOOLEAN
  /\ seeder \in {"unborn", "fit", "feed", "exit", "dead"} /\ result_q \in {"none", "ok", "error"}
  /\ next \in Worker
  /\ results \in Seq(Outcome) /\ timings \in Seq(Worker)
  /\ exit \in {"running", "complete", "aborted", "raised"}

\* Although outcomes and timings are taken from two queues in unrelated orders, when
\* the root has taken N of each it has one of each worker, and nothing is left; so
\* the run is reported complete only if every worker, however late, succeeded.  A run
\* that raises before that has started no worker.
OneOutcomeEach ==
  (root \in {"join", "joined", "gossip", "end"} /\ \E w \in Worker : pc[w] # "unborn") =>
    /\ {results[i].worker : i \in 1..Len(results)} = Worker
    /\ {timings[i] : i \in 1..Len(timings)} = Worker
    /\ Len(results) = N /\ Len(timings) = N
    /\ result_queue = {} /\ timing_queue = {}
    /\ exit = "complete" => \A i \in 1..Len(results) : results[i].status = "success"

\* With every driver up the job ends, whichever workers then fail and whatever becomes
\* of the seeding subprocess, if its centroids fit into the pipe: it is joined before
\* its queue is read.
JobEnds ==
  /\ ~large
  /\ [](\A w \in Worker : pc[w] \in {"timing", "exit"} => w \in ready)
  => <>(root = "end")
=============================================================================
