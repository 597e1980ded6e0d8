------------------------------- MODULE Dispatch -------------------------------
(***************************************************************************)
(* Which algorithm a job runs, and whether the two sides of it fit: the    *)
(* branches of workers/worker_process.py run_worker_core against those of  *)
(* core/root_process.py run_root (multiprocessing) and core/root_mpi.py    *)
(* run_root_mpi, for every application, sync_mode and transport, from GO   *)
(* to the report.                                                          *)
(*                                                                         *)
(* A worker picks a runner, the root picks a coordinator thread, each from *)
(* the configuration and its transport, and neither tells the other: the   *)
(* worker then waits for what the thread must send, or the thread for what *)
(* no worker sends.  The runners are reduced to what they exchange in a    *)
(* round; their own behaviour is the subject of the modules of the modes.  *)
(* A model is reduced to where it comes from.                              *)
(***************************************************************************)
EXTENDS Integers, FiniteSets

CONSTANTS
  NumWorkers,   \* num_workers
  R    \* rounds: logreg_iter or kmeans_iter

ASSUME DispatchAssumption == NumWorkers \in Nat \ {0} /\ R \in Nat \ {0}

VARIABLES
  cfg,        \* the job: transport, app, sync_mode as the user spelt it, --gossip
  place,      \* worker: "go", "round", "collective", "reply" or "out"
  entered,    \* worker: collectives or ring exchanges it has entered
  model,      \* worker: where its weights and its intercept come from
  outcome,    \* worker: "none", "success" or "error"
  up,         \* messages to the root (TAG_ALLREDUCE_UP, up_queue)
  down,       \* replies of the root (TAG_ALLREDUCE_DOWN, down_queue)
  coord,      \* coordinator thread: what it does, the messages of each round it has
  root,       \* the root's main thread: "collect", "join", "aggregate", "gossip", "end"
  collected,  \* workers whose outcome the root has
  joined,     \* the result of the coordinator was there when it was joined
  exit,       \* "running", "complete", "aborted", "exit 1" or "raised"
  report      \* what the root reports as the model, and the label it puts on it

workerVars == <<place, entered, model, outcome>>
rootVars == <<root, collected, joined, exit, report>>
dispatchVars == <<cfg, workerVars, up, down, coord, rootVars>>

Worker == 1..NumWorkers

----------------------------------------------------------------------------
(* The registry of modes *)

\* _ALIASES: every mode, and how it may be spelt.
Aliases ==
  [none |-> {"none", "no_sync"},
   ps_sync_fedavg_queue |-> {"queue", "fedavg_queue", "ps_sync_fedavg_queue"},
   ps_sync_fedavg_mpi |-> {"mpi_fedavg", "fedavg_mpi", "ps_sync_fedavg_mpi"},
   allreduce_mpi |-> {"mpi", "allreduce", "allreduce_mpi"},
   ps_async |-> {"async", "async_ps", "ps_async"},
   hybrid_ps_allreduce |-> {"hybrid", "hybrid_ps_allreduce"},
   gossip |-> {"gossip", "decentralized"}]

\* normalize_sync_mode, applied by the root and again by every worker.
normalize_sync_mode(s) == CHOOSE mode \in DOMAIN Aliases : s \in Aliases[mode]

RootMode == normalize_sync_mode(cfg.spelt)
WorkerMode == normalize_sync_mode(RootMode)

Config ==
  [transport : {"queues", "mpi"}, app : {"wordcount", "kmeans", "logreg"},
   spelt : UNION {Aliases[mode] : mode \in DOMAIN Aliases}, gossip : BOOLEAN, fanout : BOOLEAN]

----------------------------------------------------------------------------
(* run_worker_core: the branches of a worker.  On queues comm and root_comm are None. *)

OnMpi == cfg.transport = "mpi"

\* Every mode that has no branch of its own runs the Allreduce.
KMeansRunner ==
  CASE WorkerMode \in {"gossip", "ps_async", "hybrid_ps_allreduce"} /\ ~OnMpi -> "refuse"
    [] WorkerMode = "gossip" -> "gossip"
    [] WorkerMode = "hybrid_ps_allreduce" -> "hybrid"
    [] WorkerMode = "ps_async" -> "async"
    [] WorkerMode = "ps_sync_fedavg_mpi" /\ OnMpi -> "fedavg"
    [] OTHER -> "allreduce"

LogregRunner ==
  CASE WorkerMode = "none" -> "nosync"
    [] WorkerMode = "gossip" /\ OnMpi -> "gossip"
    [] WorkerMode = "hybrid_ps_allreduce" /\ OnMpi -> "hybrid"
    [] WorkerMode = "ps_async" /\ OnMpi -> "async"
    [] WorkerMode = "ps_sync_fedavg_mpi" /\ OnMpi -> "fedavg"
    [] WorkerMode = "ps_sync_fedavg_queue" -> "queue"
    [] OTHER -> "refuse"

Runner ==
  CASE cfg.app = "wordcount" -> "wordcount"
    [] cfg.app = "kmeans" -> KMeansRunner
    [] cfg.app = "logreg" -> LogregRunner

\* Runners that cannot run: those that raise, and a collective on comm = None.
CannotRun == Runner = "refuse" \/ (Runner \in {"gossip", "hybrid", "async", "allreduce"} /\ ~OnMpi)

Alone == {"wordcount", "nosync"}
Collective == {"fedavg", "allreduce", "hybrid", "gossip"}
WithRoot == {"queue", "async", "hybrid"}

----------------------------------------------------------------------------
(* The coordinator thread of the root *)

\* Mutant: the parameter servers are those of logistic regression.
CoordinatorLogregOnly ==
  CASE cfg.app = "logreg" /\ RootMode = "ps_sync_fedavg_queue" -> "rounds"
    [] OnMpi /\ cfg.app = "logreg" /\ RootMode = "ps_async" -> "async"
    [] OnMpi /\ cfg.app = "logreg" /\ RootMode = "hybrid_ps_allreduce" -> "scalars"
    [] OTHER -> "none"

\* do_logreg_allreduce (and _p2p), do_logreg_async_ps, do_logreg_hybrid.
Coordinator ==
  CASE cfg.app = "logreg" /\ RootMode = "ps_sync_fedavg_queue" -> "rounds"
    [] OnMpi /\ cfg.app \in {"logreg", "kmeans"} /\ RootMode = "ps_async" -> "async"
    [] OnMpi /\ cfg.app \in {"logreg", "kmeans"} /\ RootMode = "hybrid_ps_allreduce" -> "scalars"
    [] OTHER -> "none"

\* Where a weight vector or an intercept comes from: the worker alone, the average
\* of a round over all workers, the exchange of a round with the neighbours, the
\* asynchronous server at a version, or an average of what the workers ended with.
Source(by, at) == [by |-> by, at |-> at]
None == Source("nobody", 0)

DispatchInit ==
  /\ cfg \in Config
  /\ cfg.gossip => cfg.app = "kmeans"
  /\ cfg.fanout => cfg.gossip
  /\ place = [w \in Worker |-> "go"]
  /\ entered = [w \in Worker |-> 0]
  /\ model = [w \in Worker |-> [weights |-> None, intercept |-> None]]
  /\ outcome = [w \in Worker |-> "none"]
  /\ up = {}
  /\ down = {}
  /\ coord = [state |-> IF Coordinator = "none" THEN "none" ELSE "serving", has |-> {}]
  /\ root = "collect"
  /\ collected = {}
  /\ joined = FALSE
  /\ exit = "running"
  /\ report = [weights |-> None, intercept |-> None, label |-> "none"]

----------------------------------------------------------------------------
(* Workers *)

\* Rounds a worker has behind it.
Rounds(w) == model[w].weights.at

PutOutcome(w, o) ==
  /\ outcome' = [outcome EXCEPT ![w] = o]
  /\ place' = [place EXCEPT ![w] = "out"]

\* run_worker_core is called: it refuses, raises on its partition, or starts.
Start(w) ==
  /\ place[w] = "go"
  /\ \/ PutOutcome(w, "error")
     \/ ~CannotRun /\ place' = [place EXCEPT ![w] = "round"] /\ UNCHANGED outcome
  /\ UNCHANGED <<cfg, entered, model, up, down, coord, rootVars>>

Send(w) == up' = up \cup {[rank |-> w, round |-> Rounds(w)]}

\* A local round, then the first step of the exchange.
Round(w) ==
  /\ place[w] = "round"
  /\ Rounds(w) < R
  /\ CASE Runner \in Alone ->
            /\ model' = [model EXCEPT ![w] = [weights |-> Source("worker", Rounds(w) + 1),
                                             intercept |-> Source("worker", Rounds(w) + 1)]]
            /\ UNCHANGED <<place, entered, up>>
       [] Runner \in Collective ->
            /\ entered' = [entered EXCEPT ![w] = @ + 1]
            /\ place' = [place EXCEPT ![w] = "collective"]
            /\ UNCHANGED <<model, up>>
       [] OTHER ->
            /\ Send(w)
            /\ place' = [place EXCEPT ![w] = "reply"]
            /\ UNCHANGED <<model, entered>>
  /\ UNCHANGED <<cfg, outcome, down, coord, rootVars>>

\* The collective or the exchange with the neighbours on the ring returns.
LeaveCollective(w) ==
  LET r == Rounds(w) + 1
      peers == IF Runner = "gossip"
               THEN {v \in Worker : (v - w) % NumWorkers \in {1, NumWorkers - 1}}
               ELSE Worker
      got == Source(IF Runner = "gossip" THEN "ring" ELSE "average", r) IN
  /\ place[w] = "collective"
  /\ \A v \in peers : entered[v] >= entered[w]
  /\ IF Runner = "hybrid"
     THEN Send(w) /\ place' = [place EXCEPT ![w] = "reply"] /\ UNCHANGED model
     ELSE /\ model' = [model EXCEPT ![w] = [weights |-> got, intercept |-> got]]
          /\ place' = [place EXCEPT ![w] = "round"]
          /\ UNCHANGED up
  /\ UNCHANGED <<cfg, entered, outcome, down, coord, rootVars>>

\* A reply: over MPI the one sent to this rank, on queues any.
TakeReply(w) ==
  /\ place[w] = "reply"
  /\ \E m \in down :
       /\ OnMpi => m.rank = w
       /\ down' = down \ {m}
       /\ model' = [model EXCEPT ![w] = [
            weights |-> Source(IF Runner = "hybrid" THEN "average" ELSE m.model.by, Rounds(w) + 1),
            intercept |-> m.model]]
  /\ place' = [place EXCEPT ![w] = "round"]
  /\ UNCHANGED <<cfg, entered, outcome, up, coord, rootVars>>

\* down_queue.get(timeout=180) finds nothing: another worker is late, or has taken two
\* copies.  comm.recv has no timeout.
ReplyTimesOut(w) ==
  /\ place[w] = "reply"
  /\ ~OnMpi
  /\ down = {}
  /\ PutOutcome(w, "error")
  /\ UNCHANGED <<cfg, entered, model, up, down, coord, rootVars>>

FinishRun(w) ==
  /\ place[w] = "round"
  /\ Rounds(w) = R
  /\ PutOutcome(w, "success")
  /\ UNCHANGED <<cfg, entered, model, up, down, coord, rootVars>>

----------------------------------------------------------------------------
(* The coordinator thread *)

\* The messages of a round are all there: its average is sent to every worker.
Receive ==
  /\ coord.state = "serving"
  /\ \E m \in up :
       LET has == coord.has \cup {m}
           round == (Cardinality(has) - 1) \div NumWorkers
           full == Cardinality(has) % NumWorkers = 0 IN
       /\ up' = up \ {m}
       /\ down' =
            CASE Coordinator = "async" ->
                   down \cup {[rank |-> m.rank, model |-> Source("server", Cardinality(has))]}
              [] Coordinator # "async" /\ full ->
                   down \cup {[rank |-> w, model |-> Source("average", round + 1)] : w \in Worker}
              [] OTHER -> down
       /\ coord' = [coord EXCEPT !.has = has]
  /\ UNCHANGED <<cfg, workerVars, rootVars>>

\* After the last round the thread writes its log and stores its result.
Store ==
  /\ coord.state = "serving"
  /\ Cardinality(coord.has) = NumWorkers * R
  /\ coord' = [coord EXCEPT !.state = "stored"]
  /\ UNCHANGED <<cfg, workerVars, up, down, rootVars>>

\* What it stored.
allreduce_result ==
  [weights |-> CASE Coordinator = "rounds" -> Source("average", R)
                 [] Coordinator = "async" -> Source("server", NumWorkers * R)
                 [] OTHER -> None,
   intercept |-> IF Coordinator = "async" THEN Source("server", NumWorkers * R)
                 ELSE Source("average", R)]

----------------------------------------------------------------------------
(* The root's main thread *)

Collect(w) ==
  /\ root = "collect"
  /\ place[w] = "out"
  /\ w \notin collected
  /\ OnMpi => \A v \in 1..(w - 1) : v \in collected
  /\ collected' = collected \cup {w}
  /\ UNCHANGED <<cfg, workerVars, up, down, coord, root, joined, exit, report>>

\* Any error ends the job: run_root returns, run_root_mpi exits with 1.
Collected ==
  /\ root = "collect"
  /\ collected = Worker
  /\ IF \E w \in Worker : outcome[w] = "error"
     THEN root' = "end" /\ exit' = IF OnMpi THEN "exit 1" ELSE "aborted"
     ELSE root' = "join" /\ UNCHANGED exit
  /\ UNCHANGED <<cfg, workerVars, up, down, coord, collected, joined, report>>

\* allreduce_thread.join(timeout=60): the store has a result, or it is late.
Join ==
  /\ root = "join"
  /\ joined' = (coord.state = "stored")
  /\ root' = "aggregate"
  /\ UNCHANGED <<cfg, workerVars, up, down, coord, collected, exit, report>>

\* Row-weighted average of what the workers ended with.
PostHoc == [weights |-> Source("mean", R), intercept |-> Source("mean", R)]

Labelled(of, label) == [weights |-> of.weights, intercept |-> of.intercept, label |-> label]

\* Mutant: the result of the coordinator goes first.
aggregate_logreg_resultsResultFirst ==
  CASE joined -> Labelled(allreduce_result, "FedAvg")
    [] RootMode = "hybrid_ps_allreduce" -> Labelled(model[1], "Hybrid")
    [] RootMode = "ps_sync_fedavg_mpi" -> Labelled(model[1], "FedAvg")
    [] OTHER -> Labelled(PostHoc, "no sync")

aggregate_logreg_results ==
  CASE RootMode = "hybrid_ps_allreduce" ->
         [weights |-> model[1].weights, label |-> "Hybrid",
          intercept |-> IF joined THEN allreduce_result.intercept ELSE model[1].intercept]
    [] RootMode # "hybrid_ps_allreduce" /\ joined ->
         Labelled(allreduce_result, IF RootMode = "ps_async" THEN "Async" ELSE "FedAvg")
    [] RootMode = "ps_sync_fedavg_mpi" -> Labelled(model[1], "FedAvg")
    [] OTHER -> Labelled(PostHoc, IF RootMode = "gossip" THEN "Gossip" ELSE "no sync")

\* Mutant: run_kmeans_allreduce returns what the other runners do.
HasCentresAlways == TRUE

\* The workers' results have what the aggregation of K-means reads ("centres",
\* "row_count"): those of run_kmeans_allreduce do not.
HasCentres == Runner # "allreduce"

\* Counting words merges the workers' tables; K-means aligns and averages their
\* centres, or waits for them a second time (--gossip); logistic regression takes
\* the model its mode has made.
Aggregate ==
  /\ root = "aggregate"
  /\ IF cfg.gossip
     THEN \* GossipAggregator: min(None, ...) raises; get(timeout) raises on a queue
          \* no worker fills, and waits for ever over MPI
          IF OnMpi /\ cfg.fanout
          THEN root' = "gossip" /\ UNCHANGED <<exit, report>>
          ELSE root' = "end" /\ exit' = "raised" /\ UNCHANGED report
     ELSE /\ root' = "end"
          /\ IF cfg.app = "kmeans" /\ ~HasCentres
             THEN exit' = "raised" /\ UNCHANGED report
             ELSE /\ exit' = "complete"
                  /\ report' = IF cfg.app = "logreg" THEN aggregate_logreg_results
                               ELSE Labelled(PostHoc, cfg.app)
  /\ UNCHANGED <<cfg, workerVars, up, down, coord, collected, joined>>

JobEnded == root = "end" /\ (\A w \in Worker : place[w] = "out") /\ UNCHANGED dispatchVars

----------------------------------------------------------------------------
WorkerStep(w) ==
  \/ Start(w) \/ Round(w) \/ LeaveCollective(w) \/ TakeReply(w) \/ ReplyTimesOut(w) \/ FinishRun(w)
CoordinatorStep == Receive \/ Store
RootStep == (\E w \in Worker : Collect(w)) \/ Collected \/ Join \/ Aggregate

DispatchNext == (\E w \in Worker : WorkerStep(w)) \/ CoordinatorStep \/ RootStep \/ JobEnded

DispatchSpec == DispatchInit /\ [][DispatchNext]_dispatchVars

\* Every process and every thread that can move does.
FairDispatchSpec ==
  /\ DispatchSpec
  /\ \A w \in Worker : WF_dispatchVars(WorkerStep(w))
  /\ WF_dispatchVars(CoordinatorStep)
  /\ WF_dispatchVars(RootStep)

----------------------------------------------------------------------------
(* Properties *)

TypeOK ==
  /\ cfg \in Config
  /\ place \in [Worker -> {"go", "round", "collective", "reply", "out"}]
  /\ entered \in [Worker -> 0..R]
  /\ outcome \in [Worker -> {"none", "success", "error"}]
  /\ \A m \in up : m.rank \in Worker /\ m.round \in 0..(R - 1)
  /\ \A m \in down : m.rank \in Worker
  /\ coord.state \in {"none", "serving", "stored"}
  /\ root \in {"collect", "join", "aggregate", "gossip", "end"}
  /\ collected \in SUBSET Worker
  /\ joined \in BOOLEAN
  /\ exit \in {"running", "complete", "aborted", "exit 1", "raised"}

\* Workers that wait for nobody, or not for ever: a failed one does not hold the others.
Independent ==
  \/ Runner \in Alone
  \/ Runner = "async" /\ cfg.app = "logreg"
  \/ Runner = "queue" /\ ~OnMpi

\* Whatever the application, the mode and the transport, the workers are served: all
\* of them come to their outcome and the root to its end, unless a worker raised in
\* the middle of an exchange, and except the wait of --gossip over MPI.
JobEnds ==
  [](CannotRun \/ Independent \/ \A w \in Worker : outcome[w] # "error") =>
    <>((\A w \in Worker : place[w] = "out") /\ root \in {"end", "gossip"})

\* The algorithm of each mode.
AlgorithmOf ==
  [none |-> "nosync", ps_sync_fedavg_queue |-> "queue", ps_sync_fedavg_mpi |-> "fedavg",
   allreduce_mpi |-> "allreduce", ps_async |-> "async",
   hybrid_ps_allreduce |-> "hybrid", gossip |-> "gossip"]

\* "refusing silent fallback": a job that reports a result under a sync_mode has run
\* that mode and no other.
RunsItsMode ==
  exit = "complete" => cfg.app = "wordcount" \/ Runner = AlgorithmOf[RootMode]

\* The model reported for logistic regression is the one its mode promises: weights
\* and intercept of the last round, averaged over all workers and, over MPI, the same on each;
\* the server's last version; or the average of what independent workers ended with;
\* and nothing is left in the channels.  (If the result of the coordinator is not
\* there within the 60 seconds of the join, the root averages instead.)
ReportIsOfMode ==
  (exit = "complete" /\ cfg.app = "logreg" /\ (Coordinator = "none" \/ joined)) =>
    /\ up = {} /\ down = {}
    /\ report.weights = report.intercept
    /\ CASE RootMode \in {"none", "gossip"} ->
              report.weights = Source("mean", R) /\ \A w \in Worker : Rounds(w) = R
         [] RootMode = "ps_async" ->
              report.weights = Source("server", NumWorkers * R) /\ report.label = "Async"
         [] OTHER -> /\ report.weights = Source("average", R)
                     /\ OnMpi => \A w \in Worker : model[w].weights = report.weights
=============================================================================
