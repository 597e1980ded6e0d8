---------------------------- MODULE MpiLifecycle ----------------------------
(***************************************************************************)
(* Life of a job over MPI: core/root_mpi.py run_root_mpi on rank 0,        *)
(* workers/worker_mpi.py run_worker_mpi on ranks 1..N.                     *)
(*                                                                         *)
(* Seeding and partitioning, configuration, start of the workers' Spark    *)
(* drivers, the pre-warm barrier (READY / GO), the split of COMM_WORLD,    *)
(* the run of the application, the collection of the outcomes, the         *)
(* aggregation.  What the application does between GO and its outcome is   *)
(* the subject of the modules of the modes; here it returns, raises, or    *)
(* waits for ever for a worker that has failed.                            *)
(* Sends are buffered.                                                     *)
(***************************************************************************)
EXTENDS Integers, FiniteSets

CONSTANT N   \* num_workers

ASSUME ConstantsAssumption == N \in Nat \ {0}

VARIABLES
  pc,       \* worker: where it is, see TypeOK
  spark,    \* worker: "none", "up" or "failed"
  status,   \* worker: its outcome, "none" until it has one
  net,      \* messages in flight between rank 0 and a worker
  split,    \* ranks that have called comm.Split
  root,     \* rank 0: the phase it is in
  next,     \* rank 0: the rank its loop has reached
  results,  \* rank 0: status received from each worker, "none" until then
  exit,     \* rank 0: "running", "complete", "failed" (SystemExit(1)) or "raised"
  use_gossip, \* K-means with --gossip: rank 0 aggregates what TAG_ALLREDUCE_UP brings
  coupled   \* workers wait for each other or for a thread of rank 0 while the application
            \* runs: every mode but wordcount, nosync_run and the K-means driver

workerVars == <<pc, spark, status>>
rootVars   == <<root, next, results, exit, use_gossip, coupled>>
vars == <<workerVars, net, split, rootVars>>

Worker == 1..N
Tag == {"CONFIG", "READY", "GO", "RESULT", "TIMING"}
Message == [tag : Tag, rank : Worker]
Msg(tag, w) == [tag |-> tag, rank |-> w]

Init ==
  /\ pc = [w \in Worker |-> "config"]
  /\ spark = [w \in Worker |-> "none"]
  /\ status = [w \in Worker |-> "none"]
  /\ net = {}
  /\ split = {}
  /\ use_gossip \in BOOLEAN /\ coupled \in BOOLEAN
  /\ root \in {"seed", "partition"}
  /\ root = "seed" => use_gossip
  /\ next = 1
  /\ results = [w \in Worker |-> "none"]
  /\ exit = "running"

----------------------------------------------------------------------------
(* Workers *)

RecvConfig(w) ==
  /\ pc[w] = "config"
  /\ Msg("CONFIG", w) \in net
  /\ net' = net \ {Msg("CONFIG", w)}
  /\ pc' = [pc EXCEPT ![w] = "init"]
  /\ UNCHANGED <<spark, status, split, rootVars>>

\* The Spark driver comes up or raises; READY is sent in both cases.
StartSpark(w) ==
  /\ pc[w] = "init"
  /\ \/ spark' = [spark EXCEPT ![w] = "up"]
     \/ spark' = [spark EXCEPT ![w] = "failed"]
  /\ net' = net \cup {Msg("READY", w)}
  /\ pc' = [pc EXCEPT ![w] = "go"]
  /\ UNCHANGED <<status, split, rootVars>>

\* GO: a worker with a driver enters Split.  One without reports its error and
\* returns, and never calls Split.
RecvGo(w) ==
  /\ pc[w] = "go"
  /\ Msg("GO", w) \in net
  /\ IF spark[w] = "up"
     THEN /\ net' = net \ {Msg("GO", w)}
          /\ split' = split \cup {w}
          /\ pc' = [pc EXCEPT ![w] = "split"]
          /\ UNCHANGED status
     ELSE /\ net' = (net \ {Msg("GO", w)}) \cup {Msg("RESULT", w), Msg("TIMING", w)}
          /\ status' = [status EXCEPT ![w] = "error"]
          /\ pc' = [pc EXCEPT ![w] = "exit"]
          /\ UNCHANGED split
  /\ UNCHANGED <<spark, rootVars>>

\* Mutant: the sub-communicator is built among the ranks that are there.
LeaveSplitAlone(w) ==
  /\ pc[w] = "split"
  /\ pc' = [pc EXCEPT ![w] = "run"]
  /\ UNCHANGED <<spark, status, net, split, rootVars>>

\* comm.Split returns when every rank of COMM_WORLD has called it.
LeaveSplit(w) ==
  /\ pc[w] = "split"
  /\ split = 0..N
  /\ pc' = [pc EXCEPT ![w] = "run"]
  /\ UNCHANGED <<spark, status, net, split, rootVars>>

\* run_worker_core returns or raises; the outcome and the timing are sent. A worker of a
\* coupled application may never get here, once another has raised and makes no further
\* call: nothing but FairSpec obliges a worker to take this step.
Run(w) ==
  /\ pc[w] = "run"
  /\ \/ status' = [status EXCEPT ![w] = "success"]
     \/ status' = [status EXCEPT ![w] = "error"]
  /\ net' = net \cup {Msg("RESULT", w), Msg("TIMING", w)}
  /\ pc' = [pc EXCEPT ![w] = "exit"]
  /\ UNCHANGED <<spark, split, rootVars>>

----------------------------------------------------------------------------
(* Rank 0 *)

\* The loop over the ranks goes on, or ends in the next phase.
NextRank(phase) ==
  IF next = N THEN root' = phase /\ next' = 1 ELSE root' = root /\ next' = next + 1

\* run_root_mpi raises: nothing after it is done.
Raise == root' = "end" /\ exit' = "raised"

\* The seeding subprocess returns the centres, or fails and rank 0 raises.
Seed ==
  /\ root = "seed"
  /\ \/ root' = "partition" /\ UNCHANGED exit
     \/ Raise
  /\ UNCHANGED <<workerVars, net, split, next, results, use_gossip, coupled>>

\* The input is split, or cannot be read.
Partition ==
  /\ root = "partition"
  /\ \/ root' = "config" /\ UNCHANGED exit
     \/ Raise
  /\ UNCHANGED <<workerVars, net, split, next, results, use_gossip, coupled>>

SendConfig ==
  /\ root = "config"
  /\ net' = net \cup {Msg("CONFIG", next)}
  /\ NextRank("ready")
  /\ UNCHANGED <<workerVars, split, results, exit, use_gossip, coupled>>

RecvReady ==
  /\ root = "ready"
  /\ Msg("READY", next) \in net
  /\ net' = net \ {Msg("READY", next)}
  /\ NextRank("go")
  /\ UNCHANGED <<workerVars, split, results, exit, use_gossip, coupled>>

SendGo ==
  /\ root = "go"
  /\ net' = net \cup {Msg("GO", next)}
  /\ NextRank("split")
  /\ UNCHANGED <<workerVars, split, results, exit, use_gossip, coupled>>

\* Mutant: rank 0 joins no worker subgroup and leaves the call out.
EnterSplitNever ==
  /\ root = "split"
  /\ root' = "collect"
  /\ UNCHANGED <<workerVars, net, split, next, results, exit, use_gossip, coupled>>

\* comm.Split(color=MPI.UNDEFINED): rank 0 takes part and waits like the others.
EnterSplit ==
  /\ root = "split"
  /\ split' = split \cup {0}
  /\ root' = "splitting"
  /\ UNCHANGED <<workerVars, net, next, results, exit, use_gossip, coupled>>

RootLeaveSplit ==
  /\ root = "splitting"
  /\ split = 0..N
  /\ root' = "collect"
  /\ UNCHANGED <<workerVars, net, split, next, results, exit, use_gossip, coupled>>

\* recv(RESULT) then recv(TIMING) from the ranks in order.
Collect ==
  /\ root = "collect"
  /\ {Msg("RESULT", next), Msg("TIMING", next)} \subseteq net
  /\ net' = net \ {Msg("RESULT", next), Msg("TIMING", next)}
  /\ results' = [results EXCEPT ![next] = status[next]]
  /\ NextRank("collected")
  /\ UNCHANGED <<workerVars, split, exit, use_gossip, coupled>>

\* Mutant: only the last outcome is looked at.
ConcludeOnLast ==
  /\ root = "collected"
  /\ root' = "end"
  /\ exit' = IF results[N] = "error" THEN "failed" ELSE "complete"
  /\ UNCHANGED <<workerVars, net, split, next, results, use_gossip, coupled>>

\* Any error aborts with SystemExit(1).  Otherwise the results are aggregated, or the
\* aggregation raises (results without "centres", --gossip without --gossip-fanout).
\* Over gossip, rank 0 receives a state from every rank with TAG_ALLREDUCE_UP.  It
\* waits there for ever: run_worker_core leaves the adapter that would send it unused.
Conclude ==
  /\ root = "collected"
  /\ IF \E w \in Worker : results[w] = "error" THEN root' = "end" /\ exit' = "failed"
     ELSE \/ Raise
          \/ use_gossip /\ root' = "gossip" /\ UNCHANGED exit
          \/ ~use_gossip /\ root' = "end" /\ exit' = "complete"
  /\ UNCHANGED <<workerVars, net, split, next, results, use_gossip, coupled>>

Ended == root = "end" /\ (\A w \in Worker : pc[w] = "exit") /\ UNCHANGED vars

----------------------------------------------------------------------------
WorkerStep(w) ==
  RecvConfig(w) \/ StartSpark(w) \/ RecvGo(w) \/ LeaveSplit(w) \/ Run(w)
RootStep ==
  \/ Seed \/ Partition \/ SendConfig \/ RecvReady \/ SendGo \/ EnterSplit \/ RootLeaveSplit
  \/ Collect \/ Conclude

Next == (\E w \in Worker : WorkerStep(w)) \/ RootStep \/ Ended

Spec == Init /\ [][Next]_vars

\* Every process that can move does, but whether a coupled application returns is for the
\* modules of the modes to say.
FairSpec ==
  /\ Spec
  /\ \A w \in Worker : WF_vars((pc[w] = "run" => ~coupled) /\ WorkerStep(w))
  /\ WF_vars(RootStep)

----------------------------------------------------------------------------
(* Properties *)

TypeOK ==
  /\ pc \in [Worker -> {"config", "init", "go", "split", "run", "exit"}]
  /\ spark \in [Worker -> {"none", "up", "failed"}]
  /\ status \in [Worker -> {"none", "success", "error"}]
  /\ net \in SUBSET Message
  /\ split \in SUBSET (0..N)
  /\ root \in {"seed", "partition", "config", "ready", "go", "split", "splitting",
              "collect", "collected", "gossip", "end"}
  /\ use_gossip \in BOOLEAN /\ coupled \in BOOLEAN
  /\ next \in Worker
  /\ results \in [Worker -> {"none", "success", "error"}]
  /\ exit \in {"running", "complete", "failed", "raised"}

\* "JVM pre-warm barrier": the application runs on every worker or on none: it starts
\* only when every driver is up, so that no driver's start is part of the measured
\* time, and rank 0 has taken its place in the Split.
RunsEverywhereOrNowhere ==
  (\E w \in Worker : pc[w] = "run" \/ status[w] = "success") =>
    0 \in split /\ \A v \in Worker : spark[v] = "up"

\* The exit status says what happened on the workers, and no message of the job is
\* left behind; a run raises before it has sent anything or after every worker has
\* succeeded.
ExitStatusIsTrue ==
  exit # "running" =>
    /\ exit = "failed" <=> \E w \in Worker : status[w] = "error"
    /\ exit = "complete" => \A w \in Worker : status[w] = "success"
    /\ exit = "raised" => (\A w \in Worker : pc[w] = "config")
                            \/ (\A w \in Worker : status[w] = "success")
    /\ net = {}

\* The application ends on every worker it has started on, with or without an error. A
\* coupled one need not: the peers of a worker that raises stay in a collective or a recv
\* of theirs (worker_mpi.py:159), and the server of ps_async may give up.
ApplicationReturns == \A w \in Worker : pc[w] = "run" ~> pc[w] = "exit"

\* With every driver up the job ends: always if its application is not coupled, whichever
\* workers fail in it, and if it is, when it returns on every worker. Except that a job
\* that no worker failed and that aggregates over gossip stays in that aggregation.
JobEnds ==
  ([](\A w \in Worker : spark[w] # "failed") /\ (coupled => ApplicationReturns)) =>
    <>(root = "end" \/ (root = "gossip" /\ \A w \in Worker : status[w] = "success"))

=============================================================================
