------------------------------- MODULE AsyncPS -------------------------------
(***************************************************************************)
(* Asynchronous parameter server (sync_mode "ps_async", P3-09).            *)
(*                                                                         *)
(* A daemon thread of MPI rank 0 runs core/async_ps.py _serve; ranks 1..N  *)
(* run the worker loop of applications/logreg/async_ps_run.py or           *)
(* applications/kmeans/async_ps_run.py; the main thread of rank 0 collects *)
(* the outcomes in rank order (core/root_mpi.py, Phase 4).                 *)
(*                                                                         *)
(* The k-means workers share their seed centroids in one broadcast of the  *)
(* workers' sub-communicator before the loop; logreg starts from zeros.    *)
(*                                                                         *)
(* Model payloads are abstracted to the version they are built on, which   *)
(* is what staleness and the damping of the update depend on.              *)
(***************************************************************************)
EXTENDS Integers, Sequences, FiniteSets

CONSTANTS
  N,            \* num_workers
  R,            \* num_iterations = max_iter, the rounds of each worker
  MayFail,      \* TRUE: a worker may raise outside the exchanges
  MayTimeOut    \* TRUE: _serve may run longer than timeout_s

ASSUME ConstantsAssumption ==
  /\ N \in Nat \ {0}
  /\ R \in Nat \ {0}
  /\ MayFail \in BOOLEAN
  /\ MayTimeOut \in BOOLEAN

VARIABLES
  application, \* "logreg" or "kmeans", the same for all ranks
  pc,         \* worker: "load", "seed" (in the broadcast), "step",
              \* "wait" (blocked in recv), "done", "failed"
  entered,    \* workers that have called the broadcast of the seeds
  it,         \* worker: iterations_done
  base,       \* worker: base_version, the version its model is built on
  up,         \* messages under tag 30, at most one per worker
  down,       \* replies under tag 31, at most one per worker
  ps,         \* server thread: "serve", "done", "dead" (TimeoutError)
  version,    \* server: global_version
  updates,    \* server: updates_done
  records,    \* server: one record per applied update
  collected,  \* main thread: outcomes received, in rank order
  main        \* main thread: "collect", "complete", "aborted"

setupVars == <<application, entered>>
workerVars == <<pc, it, base>>
serverVars == <<ps, version, updates, records>>
mainVars   == <<collected, main>>
vars == <<setupVars, workerVars, up, down, serverVars, mainVars>>

Worker == 1..N
Version == Nat
Update == [worker : Worker, worker_round : 0..(R - 1), base_version : Version]
Reply == [worker : Worker, global_version : Version]
Record == [worker_rank : Worker, worker_round : 0..(R - 1), global_version : Version,
           staleness : Version, bootstrap : BOOLEAN]

Init ==
  /\ application \in {"logreg", "kmeans"}
  /\ pc = [w \in Worker |-> "load"]
  /\ entered = {}
  /\ it = [w \in Worker |-> 0]
  /\ base = [w \in Worker |-> 0]
  /\ up = {}
  /\ down = {}
  /\ ps = "serve"
  /\ version = 0
  /\ updates = [w \in Worker |-> 0]
  /\ records = <<>>
  /\ collected = 0
  /\ main = "collect"

----------------------------------------------------------------------------
(* Workers *)

\* Loads and counts its rows; sub-rank 0 (rank 1) also draws the k-means seeds.
Load(w) ==
  /\ pc[w] = "load"
  /\ IF application = "kmeans"
     THEN pc' = [pc EXCEPT ![w] = "seed"] /\ entered' = entered \cup {w}
     ELSE pc' = [pc EXCEPT ![w] = "step"] /\ UNCHANGED entered
  /\ UNCHANGED <<application, it, base, up, down, serverVars, mainVars>>

\* comm.bcast(seed_c, root=0) returns: nobody has the seeds before rank 1 is there.
LeaveBcast(w) ==
  /\ pc[w] = "seed"
  /\ 1 \in entered
  /\ pc' = [pc EXCEPT ![w] = "step"]
  /\ UNCHANGED <<setupVars, it, base, up, down, serverVars, mainVars>>

\* Mutant: the update is sent without the version it is built on.
PushWithoutBase(w) ==
  /\ pc[w] = "step"
  /\ up' = up \cup {[worker |-> w, worker_round |-> it[w], base_version |-> 0]}
  /\ pc' = [pc EXCEPT ![w] = "wait"]
  /\ UNCHANGED <<setupVars, it, base, down, serverVars, mainVars>>

\* Local training step, then comm.send of the update to rank 0.
Push(w) ==
  /\ pc[w] = "step"
  /\ up' = up \cup {[worker |-> w, worker_round |-> it[w], base_version |-> base[w]]}
  /\ pc' = [pc EXCEPT ![w] = "wait"]
  /\ UNCHANGED <<setupVars, it, base, down, serverVars, mainVars>>

\* comm.recv of the reply; the worker continues from the server's model.
Pull(w) ==
  /\ pc[w] = "wait"
  /\ \E r \in down :
       /\ r.worker = w
       /\ down' = down \ {r}
       /\ base' = [base EXCEPT ![w] = r.global_version]
  /\ it' = [it EXCEPT ![w] = @ + 1]
  /\ pc' = [pc EXCEPT ![w] = IF it[w] + 1 = R THEN "done" ELSE "step"]
  /\ UNCHANGED <<setupVars, up, serverVars, mainVars>>

\* Loading, the local step or, after the last round, the final evaluation raises:
\* the outcome that run_worker_mpi sends to the root is an error. A worker that
\* fails while loading never calls the broadcast.
Fail(w) ==
  /\ MayFail
  /\ pc[w] \in {"load", "step"} \/ (pc[w] = "done" /\ w > collected)
  /\ pc' = [pc EXCEPT ![w] = "failed"]
  /\ UNCHANGED <<setupVars, it, base, up, down, serverVars, mainVars>>

----------------------------------------------------------------------------
(* Server thread *)

AllServed == \A w \in Worker : updates[w] >= R

\* Mutant: the server replies only to the update that completes a full round.
ServeAsBarrier(u) ==
  /\ ps = "serve"
  /\ ~AllServed
  /\ u \in up
  /\ up' = up \ {u}
  /\ version' = version + 1
  /\ updates' = [updates EXCEPT ![u.worker] = @ + 1]
  /\ down' = IF (version + 1) % N = 0
             THEN down \cup {[worker |-> w, global_version |-> version'] : w \in Worker}
             ELSE down
  /\ records' = Append(records, [worker_rank |-> u.worker, worker_round |-> u.worker_round,
                                 global_version |-> version',
                                 staleness |-> version - u.base_version,
                                 bootstrap |-> version = 0])
  /\ UNCHANGED <<setupVars, workerVars, ps, mainVars>>

\* An update is received from any source, blended in and answered at once.
\* max(0, version - base) and the check of the rank are kept as in the code:
\* BaseNotAhead shows that neither ever has an effect.
Serve(u) ==
  /\ ps = "serve"
  /\ ~AllServed
  /\ u \in up
  /\ up' = up \ {u}
  /\ version' = version + 1
  /\ updates' = [updates EXCEPT ![u.worker] = @ + 1]
  /\ down' = down \cup {[worker |-> u.worker, global_version |-> version']}
  /\ records' = Append(records, [worker_rank |-> u.worker, worker_round |-> u.worker_round,
                                 global_version |-> version',
                                 staleness |-> IF version >= u.base_version
                                               THEN version - u.base_version ELSE 0,
                                 bootstrap |-> version = 0])
  /\ UNCHANGED <<setupVars, workerVars, ps, mainVars>>

\* The loop condition fails: the thread stores its result.
Finish ==
  /\ ps = "serve"
  /\ AllServed
  /\ ps' = "done"
  /\ UNCHANGED <<setupVars, workerVars, up, down, version, updates, records, mainVars>>

\* timeout_s is measured from the start of _serve, whatever progress it made;
\* TimeoutError ends the thread and nobody answers the workers any more.
ServeTimesOut ==
  /\ MayTimeOut
  /\ ps = "serve"
  /\ ~AllServed
  /\ ps' = "dead"
  /\ UNCHANGED <<setupVars, workerVars, up, down, version, updates, records, mainVars>>

----------------------------------------------------------------------------
(* Main thread of rank 0 *)

\* Mutant: an error outcome is not sent to the root.
CollectOnlyResults ==
  /\ main = "collect"
  /\ collected < N
  /\ pc[collected + 1] = "done"
  /\ collected' = collected + 1
  /\ UNCHANGED <<setupVars, workerVars, up, down, serverVars, main>>

\* comm.recv(source=w_rank, tag=TAG_RESULT) for the ranks in order.
Collect ==
  /\ main = "collect"
  /\ collected < N
  /\ pc[collected + 1] \in {"done", "failed"}
  /\ collected' = collected + 1
  /\ UNCHANGED <<setupVars, workerVars, up, down, serverVars, main>>

\* Mutant: the result store is read without joining the server thread.
ConcludeWithoutJoin ==
  /\ main = "collect"
  /\ collected = N
  /\ main' = IF \E w \in Worker : pc[w] = "failed" THEN "aborted" ELSE "complete"
  /\ UNCHANGED <<setupVars, workerVars, up, down, serverVars, collected>>

\* Errors end the run with SystemExit(1); otherwise the server thread is joined.
\* It has nothing left to wait for, so join(timeout=60) is taken to return.
Conclude ==
  /\ main = "collect"
  /\ collected = N
  /\ \/ /\ \E w \in Worker : pc[w] = "failed"
        /\ main' = "aborted"
     \/ /\ \A w \in Worker : pc[w] # "failed"
        /\ ps \in {"done", "dead"}
        /\ main' = "complete"
  /\ UNCHANGED <<setupVars, workerVars, up, down, serverVars, collected>>

Ended == main # "collect" /\ UNCHANGED vars

----------------------------------------------------------------------------
WorkerStep(w) == Load(w) \/ LeaveBcast(w) \/ Push(w) \/ Pull(w) \/ Fail(w)
ServerStep == (\E u \in up : Serve(u)) \/ Finish \/ ServeTimesOut
MainStep == Collect \/ Conclude

Next == (\E w \in Worker : WorkerStep(w)) \/ ServerStep \/ MainStep \/ Ended

Spec == Init /\ [][Next]_vars

\* A worker is scheduled; a broadcast is sure to return once all have called it.
WorkerFairness(w) ==
  WF_vars(Load(w) \/ (LeaveBcast(w) /\ entered = Worker) \/ Push(w) \/ Pull(w))

\* Fairness of the server and of the workers of a set; the others may straggle
\* for ever.
FairnessOf(S) ==
  /\ \A w \in S : WorkerFairness(w)
  /\ WF_vars((\E u \in up : Serve(u)) \/ Finish)
  /\ WF_vars(MainStep)

\* Rank 1 straggles: nothing forces it to take a step.
StragglerSpec == Spec /\ FairnessOf(Worker \ {1})

----------------------------------------------------------------------------
(* Properties *)

TypeOK ==
  /\ application \in {"logreg", "kmeans"}
  /\ pc \in [Worker -> {"load", "seed", "step", "wait", "done", "failed"}]
  /\ entered \in SUBSET Worker
  /\ it \in [Worker -> 0..R]
  /\ base \in [Worker -> Version]
  /\ up \in SUBSET Update
  /\ down \in SUBSET Reply
  /\ ps \in {"serve", "done", "dead"}
  /\ version \in Version
  /\ updates \in [Worker -> 0..R]
  /\ records \in Seq(Record)
  /\ collected \in 0..N
  /\ main \in {"collect", "complete", "aborted"}

\* Updates of w that have been applied.
Applied(w) == {i \in 1..Len(records) : records[i].worker_rank = w}

\* The version counts the applied updates, and the server's per-worker counters,
\* which decide when it stops, count each worker's share: no update is applied
\* twice, attributed to another worker, or applied without a new version.
VersionCountsUpdates ==
  /\ version = Len(records)
  /\ \A i \in 1..Len(records) : records[i].global_version = i
  /\ \A w \in Worker : updates[w] = Cardinality(Applied(w))

\* v is the version w was last given before version n, 0 if it was given none.
IsLastVersion(w, n, v) ==
  /\ v \in 0..n
  /\ v # 0 => records[v].worker_rank = w
  /\ \A i \in (v + 1)..n : records[i].worker_rank # w

\* The damping of an update uses exactly the number of updates of OTHER workers
\* that were applied since its worker last heard from the server, so a worker that
\* was never overtaken is never damped; only the first update of the run replaces
\* the model.
StalenessCountsOvertakers ==
  \A i \in 1..Len(records) :
    /\ IsLastVersion(records[i].worker_rank, i - 1, i - 1 - records[i].staleness)
    /\ records[i].bootstrap <=> i = 1

\* No worker is ahead of the server: the clamp max(0, ...) never hides anything.
BaseNotAhead ==
  /\ \A w \in Worker : base[w] <= version
  /\ \A u \in up : u.base_version = base[u.worker]

\* Every reply moves its worker to a strictly newer model, which contains the
\* update the worker just sent.
RepliesAdvance ==
  [][\A w \in Worker : it'[w] # it[w] => base'[w] > base[w]]_vars

\* A run without error outcomes has applied R updates of each worker and always
\* has the server's result when it aggregates.
CompleteHasResult == main = "complete" => ps = "done" /\ AllServed

\* core/async_ps.py: "Workers therefore progress at their own pace - fast workers
\* are never blocked behind stragglers".  Every other worker than rank 1 ends its R
\* rounds or reports a failure, whatever rank 1 does.
FastNotBlocked == \A w \in Worker \ {1} : <>(pc[w] \in {"done", "failed"})

\* The workers come together for the seeds where the application shares them. The
\* premise is needed: a rank that straggles or fails before kmeans/async_ps_run.py:78
\* keeps every other worker there.
SeedsShared == application = "kmeans" => <>(entered = Worker)

\* The docstring's claim as the code keeps it: once the workers have got past the
\* broadcast of the seeds, which only k-means has, and while the server has not
\* timed out, no worker waits for a slow or failed rank 1.
FastNotBlockedWhileServed == (SeedsShared /\ [](ps # "dead")) => FastNotBlocked

\* When rank 1 is scheduled too, no worker fails before the broadcast of the seeds,
\* and the server does not time out, the run ends; a failure in the rounds reaches
\* the root instead of blocking it.
RunEnds ==
  /\ WorkerFairness(1)
  /\ SeedsShared
  /\ [](ps # "dead")
  => <>(main # "collect")
=============================================================================
