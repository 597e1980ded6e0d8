# MPJ-Spark: a verification project

TLA+ models of the multi-driver protocols of `src/mpj_spark` and of the experiment drivers of
`src/scripts`, TLC configurations that check them on small instances, and TLAPS proofs of the
safety properties of the protocols for every number of workers and rounds.  Paths without a directory
under `src/` are relative to `src/mpj_spark/`.

## The system

A root (process or MPI rank 0) splits the input, starts N workers, each of which runs
its own Spark driver on its partition, lets the workers train together in one of several
synchronisation modes, and aggregates their results. Scripts run such jobs over a design and
collect what they measured.

| Part | Code | State it keeps | Operations | Interacts through |
|---|---|---|---|---|
| MPI job | `core/root_mpi.py`, `workers/worker_mpi.py`, `core/main_mpi.py` | phase of each rank, outcomes, exit status | configure, start Spark, READY/GO, Split, run, collect, exit | tagged point-to-point messages, `Comm.Split` |
| Multiprocessing job, seed centroids | `core/root_process.py`, `workers/worker_process.py` | phase, outcomes, timings | seed in a subprocess, spawn, ready/go events, run, collect, join | events, queues |
| Dispatch, mode registry, aggregation of results | `worker_process.py` 33-291, `core/sync_modes.py`, `root_process.py` 304-363, `root_mpi.py` 277-431 | none; the result of the coordinator thread | choose a runner, choose a coordinator, choose the model to report | nothing: both sides decide alone |
| Queue FedAvg (`ps_sync_fedavg_queue`, multiprocessing) | `applications/logreg/queue_run.py`, `root_process.py` 199-244 | round, messages of the round, copies of the average | put, get, close a round, send copies | `up_queue`, `down_queue`, both shared |
| Asynchronous parameter server (`ps_async`) | `core/async_ps.py`, `applications/*/async_ps_run.py` | version, per-worker counters, update records | push, serve, pull, time out | tags 30 / 31 with rank 0 |
| Synchronous star (`ps_sync_fedavg_queue` over MPI) and hybrid (`hybrid_ps_allreduce`) | `root_mpi.py` 40-107, `core/hybrid_ps.py`, `applications/*/hybrid_run.py` | round, average; dense weights | push, average, answer; Allreduce | tags 30 / 31, workers' communicator |
| FedAvg over collectives (`ps_sync_fedavg_mpi`, the default) | `applications/*/fedavg_mpi_run.py` | round, previous value of the stopping test | gather, mean, bcast, early stop | collectives of the workers |
| Per-iteration Allreduce (`allreduce_mpi`, M3) | `applications/kmeans/allreduce.py`, `convergence.py`, `local_iteration.py`, `applications/logreg/allreduce.py`, `local_gradient.py` | centroids, previous centroids; standardisation, previous loss; metrics | partition, load, Allreduce, replacement of empty clusters, stopping flag, CSV files | collectives, files of a shared directory |
| Partitioning | `core/file_manager.py`, `applications/*/partition.py` | files | round-robin split, load | files |
| Ring gossip (`gossip`) | `core/gossip_protocol.py`, `applications/*/gossip_run.py` | model, round, frozen flag | paired `sendrecv`, mixing | point-to-point on a ring |
| Benchmark sweeps | `src/scripts/resource_benchmark.py`, `doe_kmeans.py`, `doe_logreg.py`, `doe_rightsize.py`, `doe_holdout.py` | CSV of results, lock, data files, counters of a session | generate, preflight, lock, upgrade, resume, run, retry, skip, abort | files, over several sessions |
| Evaluation of the modes | `src/scripts/sync_eval.py`, `baseline_eval.py`, `compare_baseline.py`, `run_sync_benchmark.py`, `analyze_sync_benchmark.py` | `runs.csv`, `rounds.csv`, manifest, run directories | launch, summarise, resume, select, analyse | files, over several sessions |
| Gossip aggregator, re-assignment pass | `core/gossip_aggregator.py`, `root_process.py` 365-451 | accumulated row counts, fanout | collect, blend, reassign | one queue, `TAG_ALLREDUCE_UP` |
| Word count, solvers, metrics, Spark sessions, baselines, command lines | `applications/*`, `benchmarks/`, `utils/`, the other scripts | numeric | local training, output | Spark |

### What is hard here

* **Interleaving of workers on shared channels.** `down_queue` is one queue for all
  workers, its items are not addressed and their round number is not read; `up_queue`
  is counted, not sorted by sender. `async_ps` receives from any source.
* **One tag for all rounds.** The star, the hybrid mode and the ring use one tag per
  direction and no barrier; only the blocking of each party separates the rounds.
* **Collectives called by many loops.** Each rank decides for itself when to stop, or how
  many broadcasts there are; one that decides differently strands the others.
* **Two sides that choose alone.** A worker picks its runner, the root its coordinator thread
  and the model it reports, from two lists of conditions that nothing ties together.
* **Two channels that must agree**: the hybrid mode gets weights from an Allreduce and the
  intercept from the parameter server.
* **Partial failure and timeouts.** A worker may fail before the Spark start, in a round or
  in the final evaluation, while its peers, the server thread and the root wait for it. The
  queues have timeouts (180 s, 300 s), the asynchronous server a deadline, MPI none.
* **Blocking sends.** MPI may or may not buffer a message.
* **Crashes between two writes.** The scripts resume from files that a session may have left
  truncated, without a header, with one of two rows, or with what another attempt wrote.

`PROJECT.json` lists each hazard at its line with the properties that cover it.

### What makes each part correct

* Queue FedAvg: no local model is lost or averaged twice; rounds do not mix; a run that is
  reported complete has made all its rounds; every run ends.
* Asynchronous server: the staleness that damps an update is the number of updates that
  overtook it; once the workers have their seeds a straggler blocks nobody; a complete run has
  the server's result.
* Star and hybrid: a worker trains on the mean of its last complete round, from both
  channels; the protocol is a sequence of barrier rounds; no deadlock without buffering.
* FedAvg over collectives: all ranks stop in the first round that has converged, with the same
  model.
* Allreduce: all ranks make the same calls; as long as the ranks keep their rows, an iteration is
  one of Lloyd's algorithm over the whole file, however unequal the shares, and the loop stops
  at a fixed point; the objective never grows; standardisation is global; the aggregated metrics
  are those of the run.
* Ring: a rank mixes exactly its own round of each neighbour; no deadlock without buffering if
  no rank fails.
* Jobs: the application runs on all workers or on none; the reported outcome is true; the
  job ends; the mode that ran and the model that is reported are those that were asked for.
* Scripts: what was saved is not run again; a resumed session decides as the one before; what
  is reported was measured by the run it is reported for.

## Modules

`SyncRounds` is the abstract specification of a round: workers *contribute* to a round, it
*closes* when all have, and each then *installs* its result. `StarPS` and `FedAvgMPI` are
shown to implement it (`ImplementsRounds`: `INSTANCE SyncRounds WITH ...`, with the
refinement mapping in the module), by TLC on an instance and by proof in general. `Allreduce` is composed of `Shards` (files, partitions,
rows) and `Lloyd` (the k-means computations of a rank, and `IsLloydStep`, what an iteration
over a whole data set is). An `MC<module>` module is the instance a `.cfg` of the same name
gives values to; a `<module>Proofs` module holds the theorems, `MpiJobProofs` those about
`MpiLifecycle`, `Sweep` and `SyncBench`, and `ApplicationProofs` those about `Allreduce` and
`Dispatch`.

| Module | Models | State and actions against the code |
|---|---|---|
| `QueueFedAvg` | queue FedAvg | `Put`/`Get`/`Score` are the loop of `queue_run.run`; `Receive`, `CloseRound`, `SendCopy` the coordinator thread `run_logreg_allreduce`; `Collect`, `Conclude` the end of `run_root`; `GetTimesOut`, `ReceiveTimesOut` the timeouts; `Fail` an exception. A model is the set of messages it averages. `up` is a set, because a `multiprocessing.Queue` fed by several processes keeps only the order of each process; `down` is a sequence, it has one producer. |
| `AsyncPS` | asynchronous server | variable `application`: for k-means `Load` leads into the broadcast of the seeds, which `LeaveBcast` leaves once rank 1 is there. `Push`/`Pull` are the worker loop, `Serve`, `Finish`, `ServeTimesOut` the loop of `_serve`, `Collect`/`Conclude` phase 4 of `run_root_mpi`. A model is the version it is built on. |
| `StarPS` | star and hybrid | variable `sync_mode` selects the mode. `EnterReduce`/`LeaveReduce` are the Allreduce of the hybrid mode, `Push`/`Pull` the exchange with rank 0, `Recv`/`Answer` the server thread, one rank at a time. |
| `FedAvgMPI` | FedAvg over collectives | variable `application` selects the stopping test. `Gather`, `Average` (rank 0), `Install` are the three parts of a round. |
| `Allreduce`, `Shards`, `Lloyd` | M3, k-means and logistic regression | `Enter` computes a rank's buffer and makes its next collective call, the `Leave...` actions are the code after it. `posted` records every call with its buffer, which is what MPI matches and combines. `Partition`, `PointsOf`, `SamplesOf` are the split and the two loaders; `Save`, `LeaveLast` the CSV files and their aggregation. The k-means program is also what a k-means job runs in every mode `run_worker_core` has no other loop for. |
| `RingGossip` | ring gossip | `Load` and, for k-means, the broadcast of the seeds (`LeaveBcast`); then in each round `Step`, for each `sendrecv` `Post` (send half), `Recv` (receive half), `Return`, then `Mix`. `Fail` wherever a rank computes. `net` is one FIFO per ordered pair. |
| `Dispatch` | what a job runs and reports | `Runner` (the branches of `run_worker_core`) against `Coordinator` (the threads of `run_root` / `run_root_mpi`) and `Aggregate`. `Config` is every application, spelling of a mode, transport and `--gossip`. A runner is reduced to what it exchanges in a round. |
| `MpiLifecycle` | MPI job | phases of `run_worker_mpi` and `run_root_mpi`; seeding, partitioning and the application return or raise. Variable `use_gossip` stands for a k-means job with `--gossip`. `coupled` says that the workers wait for each other, or for a thread of rank 0, in the application: `Run` lets each return alone, but nothing makes it. |
| `ProcLifecycle` | multiprocessing job | phases of `worker_process` and `run_root`, and before them the seeding subprocess (`StartSeeder`, `SeederPuts`, `SeederExits`, `JoinSeeder`, `TakeSeed`; `large` says that its payload does not fit into the pipe); the two outcome queues are sets. |
| `Sweep` | the five resumable sweeps | a session is `Open`, `ensure_data`/`WriteChunk`/`CheckSize`, `Preflight`, `Lock`, `prepare_csv`/`Upgrade`, `Load`, then `Skip` or `StartRun`/`RunEnds` for each run of `plan`, `Finish`; `Interrupt` and `Kill` end it from outside. `csv` is what is on disk, `mem` what the session remembers. |
| `SyncBench` | the evaluation scripts | `OpenSession`, `SkipDone`, `Launch`, `LaunchEnds`, `Summarise`/`SummariseKMeans`, `FlushRounds` are `cmd_run` of `sync_eval.py`; `OpenBenchmark`, `LaunchBenchmark`, `StreamEnds`, `AppendRow` are `run_sync_benchmark.py`; `WorkerSaves` writes into the run directory; `CtrlC`, `KillSession` as above, `OrphanSaves` ranks that outlived their session or the `SIGKILL` of their timeout. A metric is the attempt that wrote it; a run in a cell of `M3Cells` writes none into its run directory (`Standalone`). |
| `SyncRounds` | (abstract) | `Contribute`, `Close`, `Install`. |

Definitions whose comment starts with *Mutant* are not part of any specification. Each is a
plausible wrong version of the definition that follows it; put in its place, it must break
the property that `PROJECT.json` pairs it with.

### Abstractions

* Models and gradients are represented by what they were made from (a set of
  contributions, a version, an attempt). Convergence tests of FedAvg compare *levels*: two
  values within the tolerance of each other have the same level. This makes nearness
  transitive, which floating point does not; the properties concern who decides and when, not
  how near.
* In `Allreduce` the points of k-means are computed with: they lie on a line, at multiples of a
  unit that every number of rows divides, so that all means are exact. Rounding, and with it a
  shift between 0 and the tolerance, is not modelled. The line is that of equal coordinates, so that
  a row of one number, which numpy broadcasts to the width of the centroids, is a point of it too.
  `SampleSize` is what `takeSample` draws for the seeds; the checked files are smaller. For logistic regression the
  standardisation is computed, the gradient is left out, and the loss of a rank is arbitrary,
  which lets the loop stop after any epoch.
* A local step either returns or raises. In the modules of the synchronisation modes `Fail` is
  possible wherever the code runs outside an exchange, loading and the final evaluation after the
  last round included.
* An MPI send may complete early (buffered) or only when received. Both are possible in
  every behaviour, and fairness never relies on buffering.
* A collective without a root returns when all have entered it; a rooted one returns on the
  root at once and elsewhere when the root has entered it; a `Reduce` the other way round.
* A CSV file is its first line and the set of its rows; buffered rows reach it at a flush, or
  not at all if the process is killed.

## Runs

Bounds: three workers are the least for which one worker can be overtaken by two, or two
workers can share a round without the third; three rounds the least in which a message of a
round could meet those before and after it. In the asynchronous server two rounds of three
workers give six versions and every order of arrival.

| Run | Instance | Shows |
|---|---|---|
| `QueueFedAvg` | 3 workers, 3 rounds, failures, timeouts | A round closes only when every copy of the previous one was taken, so `down_queue` never holds two rounds; each message is averaged at most once; a complete run has all rounds; every run ends. |
| `QueueFedAvg_covers` (violated) | 2 workers, 3 rounds, no failures | See findings. |
| `AsyncPS` | 3 workers, 2 rounds, both applications, failures, server timeout, rank 1 not scheduled for certain | Staleness counts overtakers, a complete run has the server's result. Once all have come to the broadcast of the k-means seeds (`SeedsShared`), ranks 2 and 3 end whatever rank 1 does then, while the server serves; if rank 1 is scheduled too the run ends. |
| `StarPS` | 3 workers, 3 rounds, both modes, failures | Rounds do not mix under one tag, dense weights and intercept are of the same round, implementation of `SyncRounds`, no deadlock without buffering. |
| `FedAvgMPI` | 3 workers, 4 rounds, 2 levels, both applications, failures | Every rank stops at the first convergence with the mean of that round, implementation of `SyncRounds`, no rank is stranded. Four rounds let the stop come after 1 (k-means), 2, 3 or 4. |
| `Allreduce` | 3 ranks; 4 iterations of 3 clusters over 7 files of 1 to 6 lines; 3 epochs over 4 files, 2 losses; failures | Matched calls are the same call; where the ranks keep their rows an iteration is one of Lloyd over the whole file, with every seed `init_centroids` may choose, and the loop stops at fixed points only; WCSS never grows; global standardisation; aggregation of this run's files; a run without failures ends. The files have duplicates (coinciding seeds, empty clusters, several replacements), far groups that one rank does not see, a header of the width of the rows and one of another, which costs its rank a row, a row of one number at the head of a share, short and long rows, fewer lines than ranks, and no data at all. Within four iterations a loop stops early, after one iteration too many, or is cut off by `max_iter`. |
| `RingGossip` | 4 ranks, 3 rounds, both applications, fanout 1 and 2, freezing, failures | A rank mixes its own round of each neighbour; no deadlock without buffering if no rank fails before its last round. With fanout 2 on four ranks the offsets +2 and -2 are the same rank, so that a link carries two messages a round. |
| `Dispatch` | 3 workers, 2 rounds, every configuration | A job that reports a result has run the mode it was asked for; the reported model is the one this mode promises and the channels are empty; nobody waits for a partner the other side has not started. Two rounds tell the last round from the first. |
| `MpiLifecycle` | 3 workers, driver or application may fail | All or none run, and only with all drivers up; true exit status, no message left; if every driver starts the job ends, or waits in the gossip aggregation, whatever fails in an application whose workers are independent, and if all workers return from one whose workers are coupled. |
| `ProcLifecycle` | 3 workers, seeding, driver or application may fail | One outcome and one timing of each worker although the pairs read may be of two workers, `complete` only when all succeeded; the job ends if every driver starts and the seeds fit into the pipe. |
| `Sweep` | 5 scripts, 3 sessions, 2 at a time, 2 or 3 cells, 2 repetitions, 3 failures | What was saved is not run again; the decisions to skip survive a restart; "ALL DONE" accounts for the design; no run reads half a data file. Three sessions let one session's damage be passed on by a second to a third; three failures reach the limits of retries (2), timeouts (2) and consecutive failures (3). |
| `SyncBench` | 3 tools, 3 sessions one after the other, 2 runs of 2 cells, one of them of `allreduce_mpi`, 2 workers, budgets of 1 and 2 rounds | The summary of a successful run is its own, or empty for `allreduce_mpi`; `select` reads its own rounds, all but the last, of which a run of one round has none; a session leaves out of its plan only what has a row. Two runs let a failed attempt, or an orphan, precede a successful one in its directory; a third adds no new kind of predecessor. |

`CHECK_DEADLOCK FALSE` stands where the system really may stop: after the asynchronous
server has timed out its workers wait for ever; a failed worker of the star, of FedAvg over
MPI, of the ring and of M3 leaves its peers in an exchange; a Spark driver that does not start leaves the
root waiting (`Split`, `sig.wait()`), as does the gossip aggregation over MPI; a root that
raises before it has configured the workers leaves them waiting; the sessions of the scripts
are bounded by the instance. `QueueFedAvg` is checked for deadlock.

### Fairness

Processes and threads are scheduled by the operating system: every one that can move does
(`WF` of its steps). Raising (`Fail`) and, in `AsyncPS`, the server's timeout are never
forced. In `QueueFedAvg` and `Dispatch` a `get` that stays blocked does time out; this is what
the code asks of the queue. In `AsyncPS` rank 1 has no fairness at all: it may straggle for
ever. In `StarPS` and `RingGossip` a sender moves for certain only when its message has been
received. In `Allreduce` a root of a broadcast moves for certain only when all ranks have
entered it, and fairness is only that somebody who must move does. Liveness properties are
conditional on the absence of the failures after which the code does hang, and the condition
is written in the property: `SeedsShared` in `AsyncPS`, that no rank fails before its last round in
`RingGossip`, `ApplicationReturns` for a coupled application in `MpiLifecycle`. `Sweep` and `SyncBench` state no fairness: a session may end at
any point.

## Findings

* **Averages of queue FedAvg need not cover every worker** (`QueueFedAvg_covers`). A worker
  that puts its next model before a slow one has called `get` takes the slow worker's copy;
  it then sends a second message into the same round, which closes over two of its models.
  The starved worker and the coordinator are released only by their timeouts.

Divergences met while modelling, which the conditions of the properties name or which lie
outside the instances:

* Jobs. A failed worker of the star leaves server, peers and root waiting although it reports
  its failure (`worker_mpi.py` 171, `root_mpi.py` 350). A worker without a Spark driver never
  calls `Split`, which all other ranks have entered (`worker_mpi.py` 132, `root_mpi.py` 271).
  With `--gossip`, k-means over MPI waits for states no worker sends (`root_mpi.py` 392-408),
  and without `--gossip-fanout` the aggregator raises at once; over multiprocessing it raises
  `queue.Empty`. `run_root` returns, with exit status 0, when workers have failed.
* Seeds. In the asynchronous mode and on the ring the k-means workers wait for the seeds of the
  first of them in `comm.bcast` (`kmeans/async_ps_run.py` 78, `kmeans/gossip_run.py` 95). "Fast
  workers are never blocked behind stragglers" (`async_ps.py` 12) begins behind that line.
* Dispatch. `run_kmeans_allreduce` returns neither `centres` nor `row_count`, so that
  `aggregate_kmeans_results` raises in every k-means mode that falls back to it, and over
  multiprocessing every k-means job fails because there is no communicator.
  `mpj_spark_mpi.py` is an older entry point whose workers wait for a message nobody sends.
* M3. `prev_centroids` lags one iteration behind (`allreduce.py` 268, `convergence.py` 219):
  the test compares over two iterations. `StopsAtFixedPoint` shows that the loop stops at fixed
  points all the same, one iteration late. `metrics.py` 283 takes an increase of the WCSS for "a
  sync bug or empty-cluster reinitialisation event"; `WcssNeverGrows` shows that the second
  increases nothing, because a cluster that is left empty was the nearest of no row. The first line of a partition decides how many
  columns a row has: a textual one with another number silently drops the whole share, a
  numeric one of more than one number makes the job fail, one of a single number is broadcast, where
  the docstring says that bad lines are dropped. The
  gradient is normalised per rank and then per number of ranks, which is the mean of the data
  set only for equal shares. Started by `main_mpi`, every rank partitions the partition it was
  given, so that each works on a share of rank 0's share.
* Scripts. The benchmark's `allreduce_mpi` run (`run_sync_benchmark.py` 175) starts a module without
  a `__main__` part: it ends with code 0 and no metrics, where `analyze_sync_benchmark.py` 21 says
  that "the module logs per-epoch spark=/sync= splits". A run of one round adds nothing to
  `rounds.csv` (`sync_eval.py` 171), so `select` never finds it. The `SIGKILL` of a timeout
  (`sync_eval.py` 455) reaches `mpirun` only. `done_ids` raises on a CSV without a header; `rounds.csv` keeps the rounds of failed
  attempts under the run id of the successful one; run ids of logistic regression do not carry
  the round budget; nothing keeps two sessions of `sync_eval.py` apart; the manifest of the
  benchmark keeps every row of a cell whose directory a later run has overwritten.

Not a finding but a limit: `timeout_s` of the asynchronous server counts from its start, so
`FastNotBlockedWhileServed` holds only while the server has not timed out.

## Proofs

All theorems hold for every value of the constants that satisfies the assumption of the
module: positive numbers of workers and rounds, a finite set of workers; for the scripts positive
sizes of designs, repetitions and limits, and at least one worker. `AllreduceAssumption` says in
addition that a file is a sequence of lines and that a coordinate is a multiple of
`Unit`, which every number of rows of the file divides. Each theorem is proved from an inductive
invariant, `IInv`, `SweepInv`, `BenchInv` or `DispatchInv`: the initial states have it, one lemma
per action shows that the step keeps it, and it implies what is stated.

* `QueueFedAvgProofs`: `TypeCorrect`, `TokensConserved`, `ClosesAreBarriers`,
  `QueueHoldsLatestAverage`, `MessagesAveragedOnce`, `CompleteMeansAllRounds`. The properties
  are not inductive: that the queue holds one round only depends on the round having closed
  late enough, which depends on counting. The invariant `IInv` adds what relates each worker's
  `sent` and `got` to the messages in `up` and `msgs`, and the token count: unanswered workers
  = messages + pending copies + copies in the queue. N messages in the coordinator's list then
  leave no token for anything else, whence the barrier and the rest. The counting rests on
  lemmas about cardinalities of sets that gain or lose one element.
* `AsyncPSProofs`: `TypeCorrect`, `VersionCorrect`, `StalenessCorrect`, `NeverAhead`,
  `RepliesAlwaysAdvance`, `CompleteRunsHaveResult`. The invariant ties every worker's `base` to
  the last record of that worker (`IsLastVersion`), every item in flight to the state of its
  worker, and the server's counters to the workers' rounds. An append to `records` preserves
  it because it is the last version of its own worker only.
* `StarPSProofs`: `TypeCorrect`, `TagReuseIsSafe` (`RoundsNotMixed`), `TrainsOnLastRound`
  (`ModelIsLastRound`), `ImplementsBarrierRounds` (`ImplementsRounds`), `WorkersInLockstep`.
  Rounds do not mix because a worker and the server alternate; `IInv` makes that exact. The
  server has received `Received(w)` messages of a worker and sent it `Answered(w)` replies, and
  these two numbers with the worker's own counter leave four possibilities (`Exchange`), each
  of which says what is on the two channels. `EnteredInv` says who may be in an Allreduce, and
  a set of N contributions of one round is all of them (`RoundComplete`, by cardinality). The
  refinement is proved action by action: `Push` contributes, the `Recv` of the last rank
  closes, `Pull` installs, everything else stutters.
* `FedAvgMPIProofs`: `TypeCorrect`, `StopsTogether` (`StopsAtFirstConvergence`),
  `SameStopEverywhere`, `ImplementsBarrierRounds`, `WorkersInLockstep`. What rank 0 has
  broadcast is a prefix of the rounds (`Closed`), each the mean of a whole round, and never
  changes; a worker's `prev` is the level of the last broadcast it received. So all evaluate the
  stopping test on the same history, one of them later than another.
* `RingGossipProofs`: `TypeCorrect`, `MixesOwnRound` (`MixesItsRound`),
  `NeighboursWithinARound`, `NothingLeftBehind`. The invariant counts the messages of a link.
  `Sent(s, r)` and `Gone(s, r)` are functions of how many rounds and calls the two ends have
  made (`Through`), the queue holds what lies between, and message number k is of round
  `RoundOf(k)`: k, or half of it on a link that carries two messages a round. This rests on
  arithmetic of the ring: whom a rank sends to in a call waits for it in the same call
  (`SameCall`), and two calls of a round share a link only if they are the last two and
  2 * `MaxDist` = N (`SameLink`). That `Source` enumerates `ring_neighbors` is a lemma too. A
  rank that is alone makes no calls; the theorems include it.
* `MpiJobProofs`, the job: `JobTypeCorrect`, `AllOrNoneRun` (`RunsEverywhereOrNowhere`),
  `ExitStatusTells` (`ExitStatusIsTrue`), `NothingSentTwice`. For each worker there is a ladder
  of what the root has done for it (`Configured`, `Heard`, `Released`, `Collected`,
  `Reported`); `PaceInv` bounds how far the worker is by it and the other way round, and
  `NetInv` gives the messages in flight as a function of both. `NothingSentTwice` justifies
  that the module keeps them in a set.
* `MpiJobProofs`, the sweeps: `SweepTypeCorrect`, `SuccessIsNotRepeated` (`SavedNotRepeated`),
  `SkipsSurvive` (`ResumeSkipsAsBefore`), `DataIsWhole` (`RunsReadWholeData`), `AllDoneIsDone`
  (`AllDoneAccountsForAll`), for any design, number of repetitions and of sessions, and any
  limits. `LoopInv` compares the memory of a session in its loop with what `Load` would
  read from the CSV as it is: timeouts and failed caps in memory are those on disk or more, every
  place of the plan that is no longer to do is accounted for, no place to do has been saved.
  This is inductive only with what the first line of the CSV says about its rows (`CsvInv`),
  also while an upgrade is under way, and with one session at a time behind the lock (`LockInv`).
  The exception in `SuccessIsNotRepeated` is a session of `resource_benchmark.py` that was cut
  while its CSV had no header or was being rewritten. `DataInv` follows the writes of one
  session into its `.tmp` file, as far as no other had it open. That a plan lists every run once
  (`PlanLists`) is proved of cell-major and repetition-major orders of any permutation, by
  division with remainder, and of concatenations for the holdout script.
* `MpiJobProofs`, the evaluation of the modes: `BenchTypeCorrect`, `SummariesAreOwn`
  (`SummaryIsOwn`), `SelectsOwnRounds` (`SelectReadsOwnRounds`), `PlansAreCovered`
  (`PlanCovered`), for any number of sessions, runs, cells and workers. Attempts are numbered as
  they begin; `LiveInv` says that the run under way is the latest of its directory and, unless an
  orphan is there, that what its workers have saved is still in it; `OrphansInv` keeps orphans, of a session that ended
  or of a timeout, apart from finished rows; a cell of `M3Cells` has no files; `RoundsInv` ties `rounds.csv` to `runs.csv` across the two flushes.
* `ProcLifecycleProofs`: `TypeCorrect`, `OneOutcomeOfEach` (`OneOutcomeEach`),
  `JoinAfterDrain`. A worker that has put its outcome has it in the queue or in the root's
  list, not in both; the same of timings. 2 * N `get`s then empty both queues by counting.
* `ApplicationProofs`, the Allreduce loops: `CallsAlwaysMatch` (`CallsMatch`), `AggregatesThisRun`
  (`AggregateIsOfThisRun`), `SameResultEverywhere`, `StopAfterSameIteration`, and about the data
  `CostNeverGrows` (`WcssNeverGrows`), `EveryIterationIsLloyd` (`IterationIsLloyd`),
  `StopsWhereNothingChanges` (`StopsAtFixedPoint`), `StatsAlwaysGlobal` (`StatsAreGlobal`), for
  any file, number of ranks, clusters and iterations.

  *The calls.* There is *one* course S of positions (program counter, iteration, centroids,
  pending replacements, record) that all ranks follow: a rank that has returned from n calls is
  at S[n], its calls are those at the positions before, and S[n] follows from S[n-1] by what the
  matched calls have brought, a root's buffer or a sum, never by a rank's own data. The stopping
  flag is the one place where a rank would decide alone, and its broadcast is what makes this
  inductive.

  *The data.* `DataInv` says of every position what the numbers in it are: the sums and counts
  the ranks have contributed are those of their rows and the centroids of the iteration, `made`
  is what a global update would give, each entry of the record the cost of the centroids it
  started from. From there it is arithmetic about finite sums. `dynamic_partition` deals the lines
  out, so that every row has one owner (`Number` and `Kept`), and the sum over ranks of sums over
  chunks of rows is the sum over the file. The mean of the rows of a cluster is exact, it
  minimises their cost, and the nearest centroid does too; both steps lose cost unless
  nothing moves. Hence the cost never grows, also over a replacement, which moves only a
  centroid that no row is nearest to. When the flag is set the centroids are those of two
  iterations ago; as the cost cannot have risen and fallen in between, it was equal, so the
  last step has not moved a centroid that has rows: a fixed point.

  *Induction.* Sums over finite sets need induction, and the induction theorems of the library
  take an operator. `FiniteInduction` replaces them: a set of subsets that contains the empty
  set and with each member those with one element more contains every finite set. Each lemma
  about sums applies it to the set of the subsets for which it holds.

  *The condition.* `CostNeverGrows` and `StatsAlwaysGlobal` have none. In the other two properties
  it is written down: `SharesKept`, every rank takes for rows the lines that rank 0 would. It is
  true of any file whose lines are all rows and of any header as wide as the rows, and false where
  the first line of a share is of another width (see the divergences); the file `Headed` of the run
  is such a one, and there the two say only that all ranks have the same result.

* `ApplicationProofs`, the dispatch: `DispatchTypeCorrect`, `ModeIsNeverSwapped`
  (`RunsItsMode`), `ReportIsPromised` (`ReportIsOfMode`), for every application, mode, spelling,
  transport and any number of workers and rounds. `Sides` shows that a worker that can run is
  served by the coordinator it expects: a case analysis of the two lists of conditions. That a
  worker that completes could run is `WorkersInv`. For the channels the invariant counts
  (`ReplyInv`): replies in the channel + rounds the workers have behind them = replies the
  coordinator has sent, which is a function of the messages it has (`SentRounds`). On queues a
  worker may take the copy of another, so which reply moved which worker cannot be said, but
  their number can. A coordinator that has stored its result has all NumWorkers * R messages, and
  when all workers have done R rounds no reply is left. `CopiesOf` a new round are new
  (`ClosesRound`), because no reply in the channel is of a later round than the last one closed.

### What stays with TLC

* Liveness (`RunEnds`, `JobEnds`, `AllFinish`, `FastNotBlockedWhileServed`): it rests on
  fairness and on `ENABLED`, which are beyond the proof system used. Every safety property a
  passing run checks is stated by a theorem.

## Not modelled

* Gossip aggregator behind its collection and the re-assignment pass: no job of this commit
  reaches them, because no worker sends what they wait for; that wait is modelled.
* Alignment and averaging of k-means centres at the root, merge of word counts: sequential
  arithmetic without retained state.
* Gradient, loss and the MLlib solvers: floating-point optimisation.
* Spark sessions, single-driver baselines, reports, loggers, `timing_analysis.py`, containers,
  the archived prototypes, `mpj_spark_mpi.py`: no protocol, or superseded.
* Two sessions of the evaluation scripts at a time: nothing holds then.

## Plan

1. Done: `QueueFedAvg`, `AsyncPS` with proofs; `SyncRounds` with proof; `StarPS`, `FedAvgMPI`,
   `RingGossip`, `Allreduce` with `Shards` and `Lloyd`, `Dispatch`, `MpiLifecycle`,
   `ProcLifecycle`, `Sweep`, `SyncBench`.
2. Done: proofs of the safety properties of the star, FedAvg over collectives, the ring, both
   lifecycles, the Allreduce loops, calls and data, the dispatch, the sweeps and the evaluation
   of the modes, with the two refinements of `SyncRounds`.
3. Left: only the parts listed above as not modelled.
