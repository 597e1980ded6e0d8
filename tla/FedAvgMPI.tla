------------------------------ MODULE FedAvgMPI ------------------------------
(***************************************************************************)
(* Federated averaging over MPI collectives (sync_mode                     *)
(* "ps_sync_fedavg_mpi", the default; P3-08).                              *)
(*                                                                         *)
(* The workers of the sub-communicator run a loop of local training,       *)
(* comm.gather to its rank 0, the mean there, and comm.bcast of the mean   *)
(* (applications/logreg/fedavg_mpi_run.py, applications/kmeans/            *)
(* fedavg_mpi_run.py).  Each worker decides for itself, from what was      *)
(* broadcast, whether the run has converged.  The root of COMM_WORLD takes *)
(* no part in the rounds, it collects the outcomes.                        *)
(*                                                                         *)
(* A model is abstracted to the set of contributions it is the mean of and *)
(* to a level: rounds whose change is within the tolerance have the same.  *)
(***************************************************************************)
EXTENDS Integers, FiniteSets

CONSTANTS
  N,          \* size of the workers' communicator
  R,          \* max_iter
  Levels,     \* values of what the stopping test compares
  EarlyStop,  \* FALSE: loss_tol <= 0 (tol <= 0) disables the test
  Applications  \* the applications a job may run: k-means compares the centroids
                \* with those at the round's start, logistic regression the
                \* global loss with the previous round's

ASSUME ConstantsAssumption ==
  /\ N \in Nat \ {0}
  /\ R \in Nat \ {0}
  /\ Levels # {} /\ Levels \subseteq Nat
  /\ EarlyStop \in BOOLEAN
  /\ Applications \subseteq {"kmeans", "logreg"}

VARIABLES
  application,  \* the application of the job
  pc,         \* worker: "load", "seed", "step", "sync", "done", "failed"
  it,         \* worker: iterations_done
  prev,       \* worker: prev_global_loss / prev_centroids
  model,      \* worker: current_weights / centroids
  gathered,   \* contributions to the gather of each round
  bcast,      \* what rank 0 has broadcast: seed (0), then each round's mean
  collected,  \* COMM_WORLD root: outcomes received, in rank order
  main        \* COMM_WORLD root: "collect", "complete", "aborted"

workerVars == <<pc, it, prev, model>>
mainVars   == <<collected, main>>
vars == <<application, workerVars, gathered, bcast, mainVars>>

KMeans == application = "kmeans"

Worker == 0..(N - 1)
Contribution == [worker : Worker, worker_round : 0..(R - 1)]
None == -1
NoPayload == [level |-> None, average |-> {}]
Payload == [level : Levels \cup {None}, average : SUBSET Contribution]

\* One contribution of every worker, all made in round k.
Round(k) == {[worker |-> w, worker_round |-> k] : w \in Worker}

Init ==
  /\ application \in Applications
  /\ pc = [w \in Worker |-> "load"]
  /\ it = [w \in Worker |-> 0]
  /\ prev = [w \in Worker |-> None]
  /\ model = [w \in Worker |-> {}]
  /\ gathered = [k \in 1..R |-> {}]
  /\ bcast = [k \in 0..R |-> NoPayload]
  /\ collected = 0
  /\ main = "collect"

----------------------------------------------------------------------------
(* Workers *)

\* The partition is loaded; k-means then broadcasts rank 0's seed centroids.
Load(w) ==
  /\ pc[w] = "load"
  /\ pc' = [pc EXCEPT ![w] = IF KMeans THEN "seed" ELSE "step"]
  /\ IF KMeans /\ w = 0
     THEN \E l \in Levels : bcast' = [bcast EXCEPT ![0].level = l]
     ELSE UNCHANGED bcast
  /\ UNCHANGED <<application, it, prev, model, gathered, mainVars>>

\* comm.Bcast of the seed returns.
Seed(w) ==
  /\ pc[w] = "seed"
  /\ bcast[0] # NoPayload
  /\ prev' = [prev EXCEPT ![w] = bcast[0].level]
  /\ pc' = [pc EXCEPT ![w] = "step"]
  /\ UNCHANGED <<application, it, model, gathered, bcast, mainVars>>

\* Local training, then comm.gather: it returns at once on a rank that only sends.
Gather(w) ==
  /\ pc[w] = "step"
  /\ gathered' = [gathered EXCEPT ![it[w] + 1] =
                    @ \cup {[worker |-> w, worker_round |-> it[w]]}]
  /\ pc' = [pc EXCEPT ![w] = "sync"]
  /\ UNCHANGED <<application, it, prev, model, bcast, mainVars>>

\* Mutant: rank 0 averages what has arrived so far.
AverageEarly ==
  /\ pc[0] = "sync"
  /\ bcast[it[0] + 1] = NoPayload
  /\ \E l \in Levels :
       bcast' = [bcast EXCEPT ![it[0] + 1] = [level |-> l, average |-> gathered[it[0] + 1]]]
  /\ UNCHANGED <<application, workerVars, gathered, mainVars>>

\* comm.gather returns on rank 0 with every contribution; the mean is broadcast.
Average ==
  /\ pc[0] = "sync"
  /\ Cardinality(gathered[it[0] + 1]) = N
  /\ bcast[it[0] + 1] = NoPayload
  /\ \E l \in Levels :
       bcast' = [bcast EXCEPT ![it[0] + 1] = [level |-> l, average |-> gathered[it[0] + 1]]]
  /\ UNCHANGED <<application, workerVars, gathered, mainVars>>

\* _loss_converged / centroid_shift < tol; there is no previous loss in round 1.
Converged(before, after) == EarlyStop /\ before = after

\* Mutant: a worker decides from its own loss (info["loss_start"]), which may
\* have converged or not.
InstallDecidingLocally(w) ==
  /\ pc[w] = "sync"
  /\ bcast[it[w] + 1] # NoPayload
  /\ model' = [model EXCEPT ![w] = bcast[it[w] + 1].average]
  /\ prev' = [prev EXCEPT ![w] = bcast[it[w] + 1].level]
  /\ it' = [it EXCEPT ![w] = @ + 1]
  /\ \E converged \in BOOLEAN :
       pc' = [pc EXCEPT ![w] = IF converged \/ it[w] + 1 = R THEN "done" ELSE "step"]
  /\ UNCHANGED <<application, gathered, bcast, mainVars>>

\* Mutant: prev_global_loss is assigned in the first round only.
InstallKeepingFirst(w) ==
  /\ pc[w] = "sync"
  /\ bcast[it[w] + 1] # NoPayload
  /\ model' = [model EXCEPT ![w] = bcast[it[w] + 1].average]
  /\ prev' = IF prev[w] = None THEN [prev EXCEPT ![w] = bcast[it[w] + 1].level] ELSE prev
  /\ it' = [it EXCEPT ![w] = @ + 1]
  /\ pc' = [pc EXCEPT ![w] =
              IF Converged(prev[w], bcast[it[w] + 1].level) \/ it[w] + 1 = R
              THEN "done" ELSE "step"]
  /\ UNCHANGED <<application, gathered, bcast, mainVars>>

\* comm.bcast returns; the worker takes the model over and tests for convergence.
Install(w) ==
  /\ pc[w] = "sync"
  /\ bcast[it[w] + 1] # NoPayload
  /\ model' = [model EXCEPT ![w] = bcast[it[w] + 1].average]
  /\ prev' = [prev EXCEPT ![w] = bcast[it[w] + 1].level]
  /\ it' = [it EXCEPT ![w] = @ + 1]
  /\ pc' = [pc EXCEPT ![w] =
              IF Converged(prev[w], bcast[it[w] + 1].level) \/ it[w] + 1 = R
              THEN "done" ELSE "step"]
  /\ UNCHANGED <<application, gathered, bcast, mainVars>>

\* Loading, the local step or, after the last round, the final evaluation raises;
\* run_worker_mpi reports it to rank 0.
Fail(w) ==
  /\ pc[w] \in {"load", "step"} \/ (pc[w] = "done" /\ w >= collected)
  /\ pc' = [pc EXCEPT ![w] = "failed"]
  /\ UNCHANGED <<application, it, prev, model, gathered, bcast, mainVars>>

----------------------------------------------------------------------------
(* COMM_WORLD root *)

\* comm.recv(source=w_rank, tag=TAG_RESULT) for the ranks in order.
Collect ==
  /\ main = "collect"
  /\ collected < N
  /\ pc[collected] \in {"done", "failed"}
  /\ collected' = collected + 1
  /\ UNCHANGED <<application, workerVars, gathered, bcast, main>>

\* Errors end the run with SystemExit(1), otherwise the results are aggregated.
Conclude ==
  /\ main = "collect"
  /\ collected = N
  /\ main' = IF \E w \in Worker : pc[w] = "failed" THEN "aborted" ELSE "complete"
  /\ UNCHANGED <<application, workerVars, gathered, bcast, collected>>

Ended == main # "collect" /\ UNCHANGED vars

----------------------------------------------------------------------------
WorkerStep(w) ==
  \/ Load(w) \/ Seed(w) \/ Gather(w) \/ (w = 0 /\ Average) \/ Install(w)

Next ==
  \/ \E w \in Worker : WorkerStep(w) \/ Fail(w)
  \/ Collect \/ Conclude
  \/ Ended

Spec == Init /\ [][Next]_vars

\* Every process that can move does.
FairSpec ==
  /\ Spec
  /\ \A w \in Worker : WF_vars(WorkerStep(w))
  /\ WF_vars(Collect \/ Conclude)

----------------------------------------------------------------------------
(* Properties *)

TypeOK ==
  /\ application \in Applications
  /\ pc \in [Worker -> {"load", "seed", "step", "sync", "done", "failed"}]
  /\ it \in [Worker -> 0..R]
  /\ prev \in [Worker -> Levels \cup {None}]
  /\ model \in [Worker -> SUBSET Contribution]
  /\ gathered \in [1..R -> SUBSET Contribution]
  /\ bcast \in [0..R -> Payload]
  /\ collected \in 0..N
  /\ main \in {"collect", "complete", "aborted"}

\* The broadcast of round k is within the tolerance of the one before it.
ConvergedAt(k) ==
  EarlyStop /\ bcast[k].level = bcast[k - 1].level /\ bcast[k - 1].level # None

\* "identical on every rank, so all ranks leave the loop in the same round": a rank
\* leaves in the first round whose broadcast is within the tolerance of the previous
\* round's, or in the last one, with the mean of that round, and never works past it;
\* so the root may take any rank's model.
StopsAtFirstConvergence ==
  \A w \in Worker :
    /\ \A k \in 1..(it[w] - 1) : ~ConvergedAt(k)
    /\ pc[w] = "done" => (it[w] = R \/ ConvergedAt(it[w])) /\ model[w] = Round(it[w] - 1)
    /\ pc[w] \in {"step", "sync"} /\ it[w] > 0 => ~ConvergedAt(it[w])

\* The rounds are the barrier rounds of SyncRounds: gather contributes, the mean
\* at rank 0 closes the round, the return of bcast installs it.
Rounds == INSTANCE SyncRounds WITH
  contributed <- [w \in Worker |-> it[w] + (IF pc[w] = "sync" THEN 1 ELSE 0)],
  closed <- Cardinality({k \in 1..R : bcast[k] # NoPayload}),
  installed <- it
ImplementsRounds == Rounds!Spec

\* "no divergent-time break -> no deadlock": a run in which nobody fails ends.
RunEnds == [](\A w \in Worker : pc[w] # "failed") => <>(main # "collect")
=============================================================================
