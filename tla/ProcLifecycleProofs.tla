------------------------- MODULE ProcLifecycleProofs -------------------------
(***************************************************************************)
(* Proofs about ProcLifecycle, for any number of workers.  An outcome and  *)
(* a timing are each in one place: not yet put, in the queue, or taken.    *)
(* The root takes N of each without looking whose they are; as none can be *)
(* there twice, it has one of every worker.                                *)
(***************************************************************************)
EXTENDS ProcLifecycle, FiniteSetTheorems, TLAPS

----------------------------------------------------------------------------
(* The inductive invariant *)

HasQueued(w)      == \E r \in result_queue : r.worker = w
HasResult(w)      == \E i \in 1..Len(results) : results[i].worker = w
HasTiming(w)      == \E i \in 1..Len(timings) : timings[i] = w

\* A worker that has put its outcome has it in one of two places, others in none.
ResultInv ==
  /\ \A w \in Worker :
       IF pc[w] \in {"timing", "exit"}
       THEN HasQueued(w) <=> ~HasResult(w)
       ELSE ~HasQueued(w) /\ ~HasResult(w)
  /\ \A r, s \in result_queue : r.worker = s.worker => r = s
  /\ \A i, j \in 1..Len(results) : results[i].worker = results[j].worker => i = j

\* The same of the timings.
TimingInv ==
  /\ \A w \in Worker :
       IF pc[w] = "exit"
       THEN w \in timing_queue <=> ~HasTiming(w)
       ELSE w \notin timing_queue /\ ~HasTiming(w)
  /\ \A i, j \in 1..Len(timings) : timings[i] = timings[j] => i = j

Unstarted == \A w \in Worker : pc[w] = "unborn"
AllTaken  == Len(results) = N /\ Len(timings) = N

\* How many outcomes and timings the root has taken, by where it is; a run ends before
\* any worker is started or when everything is taken.
RootInv ==
  /\ root \in {"seed", "seedjoin", "seedget", "partition"} => Unstarted
  /\ root = "spawn" => \A w \in Worker : w >= next => pc[w] = "unborn"
  /\ root \in {"seed", "seedjoin", "seedget", "partition", "spawn", "ready", "go"} =>
       results = <<>> /\ timings = <<>>
  /\ root = "result" => Len(results) = next - 1 /\ Len(timings) = next - 1
  /\ root = "timing" => Len(results) = next /\ Len(timings) = next - 1
  /\ root \in {"join", "joined", "gossip"} => AllTaken
  /\ root = "end" => Unstarted \/ AllTaken
  /\ exit # "running" => root = "end"
  /\ exit = "complete" => \A i \in 1..Len(results) : results[i].status = "success"

IInv == TypeOK /\ ResultInv /\ TimingInv /\ RootInv

----------------------------------------------------------------------------
(* Helpers *)

\* N different workers are all of them.
LEMMA Pigeonhole ==
  ASSUME NEW f \in [1..N -> Worker], \A i, j \in 1..N : f[i] = f[j] => i = j
  PROVE  {f[i] : i \in 1..N} = Worker
<1> DEFINE S == {f[i] : i \in 1..N}
<1>1. IsFiniteSet(1..N) /\ Cardinality(1..N) = N
  BY ConstantsAssumption, FS_Interval
<1>2. f \in Bijection(1..N, S)
  <2>1. f \in [1..N -> S]
    OBVIOUS
  <2>2. \A s \in S : \E i \in 1..N : f[i] = s
    OBVIOUS
  <2>3. QED  BY <2>1, <2>2 DEF Bijection, Injection, Surjection, IsInjective
<1>3. IsFiniteSet(S) /\ Cardinality(S) = N
  BY <1>1, <1>2, FS_Bijection DEF ExistsBijection
<1>4. S \subseteq Worker
  OBVIOUS
<1>5. QED
  BY <1>1, <1>3, <1>4, FS_Subset DEF Worker

\* What has been taken is an outcome, and a worker.
LEMMA TakenType ==
  ASSUME TypeOK
  PROVE  /\ \A i \in 1..Len(results) : results[i] \in Outcome
         /\ \A i \in 1..Len(timings) : timings[i] \in Worker
<1>1. results \in Seq(Outcome) /\ timings \in Seq(Worker)
  BY DEF TypeOK
<1>2. QED
  BY <1>1

\* What an invariant reads of the root is not changed by the workers.
LEMMA TakenKept ==
  ASSUME UNCHANGED rootVars
  PROVE  \A w : HasResult(w)' = HasResult(w) /\ HasTiming(w)' = HasTiming(w)
BY DEF rootVars, HasResult, HasTiming

\* A worker that has not put its outcome puts it.
LEMMA PutResultInv ==
  ASSUME IInv, NEW w \in Worker, NEW status \in {"success", "error"}, PutResult(w, status),
         pc[w] \notin {"timing", "exit"}, UNCHANGED rootVars
  PROVE  ResultInv' /\ result_queue' \in SUBSET Outcome
<1> DEFINE r0 == [worker |-> w, status |-> status]
<1> USE DEF IInv, ResultInv, PutResult
<1>1. r0 \in Outcome /\ r0.worker = w
  BY DEF Outcome
<1>2. ~HasQueued(w) /\ ~HasResult(w)
  OBVIOUS
<1>3. \A v \in Worker : HasQueued(v)' <=> HasQueued(v) \/ v = w
  BY <1>1 DEF HasQueued
<1>4. pc'[w] = "timing" /\ \A v \in Worker : v # w => pc'[v] = pc[v]
  BY DEF TypeOK
<1>5. \A v \in Worker :
        IF pc'[v] \in {"timing", "exit"}
        THEN HasQueued(v)' <=> ~HasResult(v)'
        ELSE ~HasQueued(v)' /\ ~HasResult(v)'
  BY <1>2, <1>3, <1>4, TakenKept
<1>6. \A r, s \in result_queue' : r.worker = s.worker => r = s
  <2>1. \A r \in result_queue : r.worker # r0.worker
    BY <1>1, <1>2 DEF HasQueued
  <2>2. QED  BY <2>1
<1>7. \A i, j \in 1..Len(results') : results'[i].worker = results'[j].worker => i = j
  BY DEF rootVars
<1>8. result_queue' \in SUBSET Outcome
  BY <1>1 DEF TypeOK
<1>9. QED
  BY <1>5, <1>6, <1>7, <1>8

----------------------------------------------------------------------------
LEMMA InitIInv == Init => IInv
<1> SUFFICES ASSUME Init PROVE IInv  OBVIOUS
<1> USE ConstantsAssumption DEF Init
<1>1. TypeOK
  BY DEF TypeOK, Worker
<1>2. \A w \in Worker : ~HasQueued(w) /\ ~HasResult(w) /\ ~HasTiming(w)
  BY DEF HasQueued, HasResult, HasTiming
<1>3. ResultInv
  BY <1>2 DEF ResultInv
<1>4. TimingInv
  BY <1>2 DEF TimingInv
<1>5. RootInv
  BY DEF RootInv, Unstarted
<1>6. QED
  BY <1>1, <1>3, <1>4, <1>5 DEF IInv

----------------------------------------------------------------------------
(* Steps of a worker *)

\* A worker that moves has been started, and stays started.
LEMMA WorkerRootInv ==
  ASSUME IInv, NEW w \in Worker, UNCHANGED rootVars, pc[w] # "unborn",
         \A v \in Worker : v # w => pc'[v] = pc[v]
  PROVE  RootInv'
BY DEF IInv, TypeOK, RootInv, rootVars, Unstarted, AllTaken

LEMMA StartSparkIInv ==
  ASSUME IInv, NEW w \in Worker, StartSpark(w)
  PROVE  IInv'
<1> USE DEF IInv, StartSpark
<1>1. pc[w] = "init" /\ UNCHANGED rootVars /\ \A v \in Worker : v # w => pc'[v] = pc[v]
  BY DEF TypeOK, PutResult
<1>2. CASE ready' = ready \cup {w} /\ pc' = [pc EXCEPT ![w] = "go"] /\ UNCHANGED result_queue
  <2>1. TypeOK'
    BY <1>2 DEF TypeOK, rootVars, seedVars
  <2>2. pc'[w] = "go" /\ \A v : HasQueued(v)' = HasQueued(v)
    BY <1>2 DEF HasQueued, TypeOK
  <2>3. ResultInv'
    BY <1>1, <1>2, <2>2, TakenKept DEF ResultInv, rootVars
  <2>4. TimingInv'
    BY <1>1, <2>2, TakenKept DEF TimingInv, rootVars
  <2>5. QED  BY <1>1, <2>1, <2>3, <2>4, WorkerRootInv
<1>3. CASE PutResult(w, "error") /\ UNCHANGED ready
  <2>1. ResultInv' /\ result_queue' \in SUBSET Outcome
    BY <1>1, <1>3, PutResultInv
  <2>2. TypeOK'
    BY <1>1, <1>3, <2>1 DEF TypeOK, PutResult, rootVars, seedVars
  <2>3. pc'[w] = "timing"
    BY <1>3 DEF PutResult, TypeOK
  <2>4. TimingInv'
    BY <1>1, <2>3, TakenKept DEF TimingInv, rootVars
  <2>5. QED  BY <1>1, <2>1, <2>2, <2>4, WorkerRootInv
<1>4. QED
  BY <1>2, <1>3

LEMMA WaitGoIInv ==
  ASSUME IInv, NEW w \in Worker, WaitGo(w)
  PROVE  IInv'
<1> USE DEF IInv, WaitGo, queueVars
<1>1. /\ pc[w] = "go" /\ pc'[w] = "run" /\ UNCHANGED rootVars
      /\ \A v \in Worker : v # w => pc'[v] = pc[v]
  BY DEF TypeOK
<1>2. TypeOK'
  BY DEF TypeOK, rootVars, seedVars
<1>3. \A v : HasQueued(v)' = HasQueued(v)
  BY DEF HasQueued
<1>4. ResultInv'
  BY <1>1, <1>3, TakenKept DEF ResultInv, rootVars
<1>5. TimingInv'
  BY <1>1, TakenKept DEF TimingInv, rootVars
<1>6. QED
  BY <1>1, <1>2, <1>4, <1>5, WorkerRootInv

LEMMA RunIInv ==
  ASSUME IInv, NEW w \in Worker, Run(w)
  PROVE  IInv'
<1> USE DEF IInv, Run
<1>1. PICK status \in {"success", "error"} : PutResult(w, status)
  OBVIOUS
<1>2. /\ pc[w] = "run" /\ pc'[w] = "timing" /\ UNCHANGED rootVars
      /\ \A v \in Worker : v # w => pc'[v] = pc[v]
  BY <1>1 DEF TypeOK, PutResult
<1>3. ResultInv' /\ result_queue' \in SUBSET Outcome
  BY <1>1, <1>2, PutResultInv
<1>4. TypeOK'
  BY <1>1, <1>3 DEF TypeOK, PutResult, rootVars, seedVars
<1>5. TimingInv'
  BY <1>2, TakenKept DEF TimingInv, rootVars
<1>6. QED
  BY <1>2, <1>3, <1>4, <1>5, WorkerRootInv

LEMMA PutTimingIInv ==
  ASSUME IInv, NEW w \in Worker, PutTiming(w)
  PROVE  IInv'
<1> USE DEF IInv, PutTiming
<1>1. /\ pc[w] = "timing" /\ pc'[w] = "exit" /\ UNCHANGED rootVars
      /\ \A v \in Worker : v # w => pc'[v] = pc[v]
  BY DEF TypeOK
<1>2. TypeOK'
  BY DEF TypeOK, rootVars, seedVars
<1>3. \A v : HasQueued(v)' = HasQueued(v)
  BY DEF HasQueued
<1>4. ResultInv'
  BY <1>1, <1>3, TakenKept DEF ResultInv, rootVars
<1>5. TimingInv'
  BY <1>1, TakenKept DEF TimingInv, rootVars
<1>6. QED
  BY <1>1, <1>2, <1>4, <1>5, WorkerRootInv

----------------------------------------------------------------------------
(* Steps of the root *)

\* Steps of the root that start no worker and take nothing.
LEMMA OutcomesKept ==
  ASSUME IInv, UNCHANGED <<pc, queueVars, results, timings>>
  PROVE  ResultInv' /\ TimingInv'
BY DEF IInv, ResultInv, TimingInv, HasQueued, HasResult, HasTiming, queueVars

\* The seeding subprocess, the partitioning.
LEMMA BeginIInv ==
  ASSUME IInv, SeederStep \/ StartSeeder \/ JoinSeeder \/ TakeSeed \/ Partition
  PROVE  IInv'
<1> USE DEF IInv
<1>1. UNCHANGED <<pc, ready, go, queueVars, next, results, timings, use_gossip>>
  BY DEF SeederStep, SeederPuts, SeederExits, StartSeeder, JoinSeeder, TakeSeed, Partition, seedVars
<1>2. \/ UNCHANGED <<root, exit>>
      \/ /\ root \in {"seed", "seedjoin", "seedget", "partition"}
         /\ \/ root' \in {"seedjoin", "seedget", "partition", "spawn"} /\ exit' = exit
            \/ root' = "end" /\ exit' = "raised"
  BY DEF SeederStep, SeederPuts, SeederExits, StartSeeder, JoinSeeder, TakeSeed, Partition, Raise
<1>3. /\ seeder' \in {"unborn", "fit", "feed", "exit", "dead"}
      /\ result_q' \in {"none", "ok", "error"} /\ large' = large
  BY DEF SeederStep, SeederPuts, SeederExits, StartSeeder, JoinSeeder, TakeSeed, Partition, seedVars,
     TypeOK
<1>4. TypeOK'
  BY <1>1, <1>2, <1>3 DEF TypeOK, queueVars
<1>5. RootInv'
  BY <1>1, <1>2 DEF RootInv, Unstarted, AllTaken
<1>6. QED
  BY <1>1, <1>4, <1>5, OutcomesKept

LEMMA SpawnIInv ==
  ASSUME IInv, Spawn
  PROVE  IInv'
<1> USE ConstantsAssumption DEF IInv, Spawn, queueVars
<1>1. root = "spawn" /\ next \in Worker /\ pc[next] = "unborn" /\ pc'[next] = "init"
      /\ \A v \in Worker : v # next => pc'[v] = pc[v]
  BY DEF RootInv, TypeOK, Worker
<1>2. \/ root' = "ready" /\ next' = 1
      \/ root' = "spawn" /\ next' = next + 1 /\ next # N
  BY DEF NextWorker
<1>3. TypeOK'
  BY <1>1, <1>2 DEF TypeOK, Worker, seedVars
<1>4. \A v : HasQueued(v)' = HasQueued(v) /\ HasResult(v)' = HasResult(v) /\ HasTiming(v)' = HasTiming(v)
  BY DEF HasQueued, HasResult, HasTiming
<1>5. ResultInv' /\ TimingInv'
  BY <1>1, <1>4 DEF ResultInv, TimingInv
<1>6. RootInv'
  <2>1. \A w \in Worker : w >= next + 1 => w # next /\ w >= next
    BY <1>1 DEF Worker
  <2>2. QED  BY <1>1, <1>2, <2>1 DEF RootInv
<1>7. QED
  BY <1>3, <1>5, <1>6

\* The pre-warm barrier; everything is taken from here on.
LEMMA BarrierIInv ==
  ASSUME IInv, WaitReady \/ SetGo
  PROVE  IInv'
<1> USE ConstantsAssumption DEF IInv
<1>1. UNCHANGED <<pc, ready, queueVars, results, timings, exit, use_gossip, seedVars>>
  BY DEF WaitReady, SetGo
<1>2. /\ go' \in {go, go \cup {next}} /\ root \in {"ready", "go"}
      /\ root' \in {"ready", "go", "result"} /\ (root' = "result" => next' = 1)
      /\ next' \in Worker
  BY DEF WaitReady, SetGo, NextWorker, TypeOK, Worker
<1>3. TypeOK'
  BY <1>1, <1>2 DEF TypeOK, queueVars, seedVars
<1>4. RootInv'
  BY <1>1, <1>2 DEF RootInv
<1>5. QED
  BY <1>1, <1>3, <1>4, OutcomesKept

\* An outcome goes from the queue to the results.
LEMMA GetResultIInv ==
  ASSUME IInv, GetResult
  PROVE  IInv'
<1> USE DEF IInv, GetResult
<1>1. PICK r \in result_queue : result_queue' = result_queue \ {r} /\ results' = Append(results, r)
  OBVIOUS
<1>2. /\ r \in Outcome /\ r.worker \in Worker /\ results \in Seq(Outcome) /\ Len(results) \in Nat
      /\ UNCHANGED <<pc, timings, timing_queue, next, exit>> /\ root = "result" /\ root' = "timing"
  BY DEF TypeOK, Outcome
<1>3. /\ results' \in Seq(Outcome) /\ Len(results') = Len(results) + 1
      /\ results'[Len(results) + 1] = r
      /\ \A i \in 1..Len(results) : results'[i] = results[i]
  BY <1>1, <1>2
<1>4. TypeOK'
  BY <1>1, <1>2, <1>3 DEF TypeOK, seedVars
<1>5. HasQueued(r.worker) /\ ~HasResult(r.worker)
  BY <1>2 DEF ResultInv, HasQueued
<1>6. \A v \in Worker : HasQueued(v)' <=> HasQueued(v) /\ v # r.worker
  BY <1>1, <1>2 DEF HasQueued, ResultInv
<1>7. \A v \in Worker : HasResult(v)' <=> HasResult(v) \/ v = r.worker
  BY <1>2, <1>3 DEF HasResult
<1>8. ResultInv'
  <2>1. \A v \in Worker :
          IF pc'[v] \in {"timing", "exit"}
          THEN HasQueued(v)' <=> ~HasResult(v)'
          ELSE ~HasQueued(v)' /\ ~HasResult(v)'
    BY <1>2, <1>5, <1>6, <1>7 DEF ResultInv
  <2>2. \A q, s \in result_queue' : q.worker = s.worker => q = s
    BY <1>1 DEF ResultInv
  <2>3. \A i, j \in 1..Len(results') : results'[i].worker = results'[j].worker => i = j
    BY <1>2, <1>3, <1>5 DEF ResultInv, HasResult
  <2>4. QED  BY <2>1, <2>2, <2>3 DEF ResultInv
<1>9. TimingInv'
  BY <1>2 DEF TimingInv, HasTiming
<1>10. RootInv'
  BY <1>2, <1>3 DEF RootInv, TypeOK, Worker
<1>11. QED
  BY <1>4, <1>8, <1>9, <1>10

LEMMA GetTimingIInv ==
  ASSUME IInv, GetTiming
  PROVE  IInv'
<1> USE DEF IInv, GetTiming
<1>1. PICK u \in timing_queue : timing_queue' = timing_queue \ {u} /\ timings' = Append(timings, u)
  OBVIOUS
<1>2. /\ u \in Worker /\ timings \in Seq(Worker) /\ Len(timings) \in Nat /\ Len(results) \in Nat
      /\ UNCHANGED <<pc, results, result_queue, exit>> /\ root = "timing" /\ next \in Worker
      /\ \/ next = N /\ root' = "join" /\ next' = 1
         \/ next # N /\ root' = "result" /\ next' = next + 1
  BY DEF TypeOK
<1>3. /\ timings' \in Seq(Worker) /\ Len(timings') = Len(timings) + 1
      /\ timings'[Len(timings) + 1] = u
      /\ \A i \in 1..Len(timings) : timings'[i] = timings[i]
  BY <1>1, <1>2
<1>4. TypeOK'
  BY <1>1, <1>2, <1>3, ConstantsAssumption DEF TypeOK, seedVars, Worker
<1>5. ~HasTiming(u)
  BY <1>2 DEF TimingInv
<1>6. \A v \in Worker : HasTiming(v)' <=> HasTiming(v) \/ v = u
  BY <1>2, <1>3 DEF HasTiming
<1>7. TimingInv'
  <2>1. \A v \in Worker :
          IF pc'[v] = "exit"
          THEN v \in timing_queue' <=> ~HasTiming(v)'
          ELSE v \notin timing_queue' /\ ~HasTiming(v)'
    BY <1>1, <1>2, <1>5, <1>6 DEF TimingInv
  <2>2. \A i, j \in 1..Len(timings') : timings'[i] = timings'[j] => i = j
    BY <1>2, <1>3, <1>5 DEF TimingInv, HasTiming
  <2>3. QED  BY <2>1, <2>2 DEF TimingInv
<1>8. ResultInv'
  BY <1>2 DEF ResultInv, HasQueued, HasResult
<1>9. RootInv'
  BY <1>2, <1>3, ConstantsAssumption DEF RootInv, AllTaken, Worker
<1>10. QED
  BY <1>4, <1>7, <1>8, <1>9

\* Join and judgement.
LEMMA FinishIInv ==
  ASSUME IInv, Join \/ Conclude \/ GossipTimesOut
  PROVE  IInv'
<1> USE ConstantsAssumption DEF IInv
<1>1. UNCHANGED <<pc, ready, go, queueVars, results, timings, use_gossip, seedVars>>
  BY DEF Join, Conclude, GossipTimesOut
<1>2. /\ root \in {"join", "joined", "gossip"}
      /\ \/ root' \in {"join", "joined", "gossip"} /\ exit' = exit
         \/ root' = "end" /\ exit' \in {"aborted", "raised"}
         \/ root' = "end" /\ exit' = "complete" /\ ~Failed
      /\ next' \in Worker
  BY DEF Join, Conclude, GossipTimesOut, NextWorker, Raise, TypeOK, Worker
<1>3. TypeOK'
  BY <1>1, <1>2 DEF TypeOK, queueVars, seedVars
<1>4. ~Failed => \A i \in 1..Len(results) : results[i].status = "success"
  BY TakenType DEF Failed, Outcome
<1>5. RootInv'
  BY <1>1, <1>2, <1>4 DEF RootInv, AllTaken
<1>6. QED
  BY <1>1, <1>3, <1>5, OutcomesKept

----------------------------------------------------------------------------
LEMMA NextIInv == IInv /\ [Next]_vars => IInv'
<1> SUFFICES ASSUME IInv, [Next]_vars PROVE IInv'  OBVIOUS
<1>1. ASSUME NEW w \in Worker, WorkerStep(w)
      PROVE  IInv'
  BY <1>1, StartSparkIInv, WaitGoIInv, RunIInv, PutTimingIInv DEF WorkerStep
<1>2. CASE SeederStep \/ RootStep
  BY <1>2, BeginIInv, SpawnIInv, BarrierIInv, GetResultIInv, GetTimingIInv, FinishIInv DEF RootStep
<1>3. CASE Ended \/ UNCHANGED vars
  <2>1. UNCHANGED vars
    BY <1>3 DEF Ended
  <2>2. UNCHANGED <<pc, queueVars, results, timings>>
    BY <2>1 DEF vars, rootVars
  <2>3. TypeOK' /\ RootInv'
    BY <2>1 DEF IInv, TypeOK, RootInv, Unstarted, AllTaken, vars, queueVars, rootVars, seedVars
  <2>4. QED  BY <2>2, <2>3, OutcomesKept DEF IInv
<1>4. QED
  BY <1>1, <1>2, <1>3 DEF Next

LEMMA Invariant == Spec => []IInv
BY InitIInv, NextIInv, PTL DEF Spec

----------------------------------------------------------------------------
(* Results *)

\* Type correctness: every variable of the multiprocessing job keeps its type.
THEOREM TypeCorrect == Spec => []TypeOK
<1>1. IInv => TypeOK  BY DEF IInv
<1>2. QED  BY <1>1, Invariant, PTL

\* N outcomes and N timings taken are one of each worker.
LEMMA TakenIsOneEach ==
  ASSUME IInv, AllTaken
  PROVE  /\ {results[i].worker : i \in 1..Len(results)} = Worker
         /\ {timings[i] : i \in 1..Len(timings)} = Worker
         /\ result_queue = {} /\ timing_queue = {}
         /\ \A w \in Worker : pc[w] = "exit"
<1> DEFINE f == [i \in 1..N |-> results[i].worker]
<1> DEFINE g == [i \in 1..N |-> timings[i]]
<1> USE DEF IInv, AllTaken
<1>1. f \in [1..N -> Worker] /\ g \in [1..N -> Worker]
  BY TakenType DEF Outcome
<1>2. (\A i, j \in 1..N : f[i] = f[j] => i = j) /\ (\A i, j \in 1..N : g[i] = g[j] => i = j)
  BY DEF ResultInv, TimingInv
<1> HIDE DEF f, g
<1>3. {f[i] : i \in 1..N} = Worker /\ {g[i] : i \in 1..N} = Worker
  BY <1>1, <1>2, Pigeonhole
<1> USE DEF f, g
<1>4. {results[i].worker : i \in 1..Len(results)} = Worker /\ {timings[i] : i \in 1..Len(timings)} = Worker
  BY <1>3
<1>5. \A w \in Worker : HasResult(w) /\ HasTiming(w)
  BY <1>4 DEF HasResult, HasTiming
<1>6. \A w \in Worker : pc[w] = "exit"
  BY <1>5 DEF TimingInv
<1>7. timing_queue = {}
  BY <1>5, <1>6 DEF TimingInv, TypeOK
<1>8. result_queue = {}
  <2>1. \A r \in result_queue : r.worker \in Worker /\ HasQueued(r.worker)
    BY DEF TypeOK, Outcome, HasQueued
  <2>2. QED  BY <1>5, <1>6, <2>1 DEF ResultInv
<1>9. QED
  BY <1>4, <1>6, <1>7, <1>8

\* The 2 * N gets of run_root, from two queues in unrelated orders, bring one outcome and
\* one timing of each worker; a run is complete only if all of them are successes.
THEOREM OneOutcomeOfEach == Spec => []OneOutcomeEach
<1>1. IInv => OneOutcomeEach
  <2> SUFFICES ASSUME IInv, root \in {"join", "joined", "gossip", "end"}, ~Unstarted
               PROVE  OneOutcomeEach
    BY DEF OneOutcomeEach, Unstarted
  <2>1. AllTaken
    BY DEF IInv, RootInv
  <2>2. exit = "complete" => \A i \in 1..Len(results) : results[i].status = "success"
    BY DEF IInv, RootInv
  <2>3. QED  BY <2>1, <2>2, TakenIsOneEach DEF OneOutcomeEach, AllTaken
<1>2. QED  BY <1>1, Invariant, PTL

\* p.join() comes after the queues are drained: when the root reaches it, every worker has
\* put its outcome and its timing and both have been taken, so no worker's queue feeder
\* can keep it alive, and the join loop never waits for a put.
THEOREM JoinAfterDrain ==
  Spec => [](root \in {"join", "joined"} =>
               /\ \A w \in Worker : pc[w] = "exit"
               /\ result_queue = {} /\ timing_queue = {})
<1>1. IInv => (root \in {"join", "joined"} =>
                 /\ \A w \in Worker : pc[w] = "exit"
                 /\ result_queue = {} /\ timing_queue = {})
  BY TakenIsOneEach DEF IInv, RootInv
<1>2. QED  BY <1>1, Invariant, PTL

=============================================================================
