---------------------------- MODULE AsyncPSProofs ----------------------------
(***************************************************************************)
(* Proofs about AsyncPS, for any number of workers and rounds.             *)
(***************************************************************************)
EXTENDS AsyncPS, FiniteSetTheorems, SequenceTheorems, TLAPS

----------------------------------------------------------------------------
(* The inductive invariant *)

\* Where a worker is in its loop, against the server's counter for it.
WorkerInv ==
  \A w \in Worker :
    /\ pc[w] # "wait" => updates[w] = it[w]
    /\ pc[w] = "wait" => updates[w] \in {it[w], it[w] + 1}
    /\ pc[w] \in {"load", "seed", "step", "wait"} => it[w] < R
    /\ pc[w] = "done" => it[w] = R

\* An update in flight is its worker's current one and has not been counted.
UpInv ==
  \A u \in up :
    /\ pc[u.worker] = "wait"
    /\ updates[u.worker] = it[u.worker]
    /\ u.worker_round = it[u.worker]
    /\ u.base_version = base[u.worker]

\* A reply in flight answers its worker's current update.
DownInv ==
  \A r \in down :
    /\ pc[r.worker] = "wait"
    /\ updates[r.worker] = it[r.worker] + 1
    /\ IsLastVersion(r.worker, version, r.global_version)
    /\ r.global_version > base[r.worker]

\* A waiting worker waits for something.
WaitInv ==
  \A w \in Worker : pc[w] = "wait" =>
    IF updates[w] = it[w] THEN \E u \in up : u.worker = w
                          ELSE \E r \in down : r.worker = w

BaseInv ==
  \A w \in Worker :
    /\ base[w] <= version
    /\ updates[w] = it[w] => IsLastVersion(w, version, base[w])

MainInv ==
  /\ \A w \in Worker : w <= collected => pc[w] \in {"done", "failed"}
  /\ ps = "done" => AllServed
  /\ ps = "dead" => ~AllServed
  /\ main = "complete" =>
       collected = N /\ ps \in {"done", "dead"} /\ \A w \in Worker : pc[w] = "done"

IInv ==
  /\ TypeOK
  /\ VersionCountsUpdates
  /\ StalenessCountsOvertakers
  /\ WorkerInv
  /\ UpInv
  /\ DownInv
  /\ WaitInv
  /\ BaseInv
  /\ MainInv

----------------------------------------------------------------------------
(* Facts about the last version of a worker *)

\* IsLastVersion in a given history, so that it can be said of records'.
LastIn(history, w, n, v) ==
  /\ v \in 0..n
  /\ v # 0 => history[v].worker_rank = w
  /\ \A i \in (v + 1)..n : history[i].worker_rank # w

\* A worker has one last version.
LEMMA LastVersionUnique ==
  ASSUME NEW w, NEW n \in Nat, NEW a, NEW b,
         IsLastVersion(w, n, a), IsLastVersion(w, n, b)
  PROVE  a = b
<1>1. a \in 0..n /\ b \in 0..n
  BY DEF IsLastVersion
<1>2. ~(a < b)
  <2> SUFFICES ASSUME a < b PROVE FALSE  OBVIOUS
  <2>1. b \in (a + 1)..n /\ b # 0  BY <1>1
  <2>2. QED  BY <2>1 DEF IsLastVersion
<1>3. ~(b < a)
  <2> SUFFICES ASSUME b < a PROVE FALSE  OBVIOUS
  <2>1. a \in (b + 1)..n /\ a # 0  BY <1>1
  <2>2. QED  BY <2>1 DEF IsLastVersion
<1>4. QED
  BY <1>1, <1>2, <1>3

LEMMA InitIInv == Init => IInv
<1> SUFFICES ASSUME Init PROVE IInv  OBVIOUS
<1> USE DEF Init
<1>1. Len(records) = 0 /\ records \in Seq(Record)
  BY EmptySeq
<1>2. TypeOK
  BY <1>1, ConstantsAssumption DEF TypeOK, Version
<1>3. \A w \in Worker : Applied(w) = {}
  BY <1>1 DEF Applied
<1>4. VersionCountsUpdates
  <2>1. \A w \in Worker : updates[w] = Cardinality(Applied(w))
    BY <1>3, FS_EmptySet
  <2>2. QED  BY <1>1, <2>1 DEF VersionCountsUpdates
<1>5. StalenessCountsOvertakers
  BY <1>1 DEF StalenessCountsOvertakers
<1>6. WorkerInv /\ UpInv /\ DownInv /\ WaitInv
  BY ConstantsAssumption DEF WorkerInv, UpInv, DownInv, WaitInv
<1>7. BaseInv
  BY DEF BaseInv, IsLastVersion
<1>8. MainInv
  BY ConstantsAssumption DEF MainInv, Worker
<1>9. QED
  BY <1>2, <1>4, <1>5, <1>6, <1>7, <1>8 DEF IInv

----------------------------------------------------------------------------
(* Steps of a worker *)

\* The server's own history does not change.
LEMMA HistoryIInv ==
  ASSUME VersionCountsUpdates, StalenessCountsOvertakers,
         UNCHANGED <<version, updates, records>>
  PROVE  VersionCountsUpdates' /\ StalenessCountsOvertakers'
BY DEF VersionCountsUpdates, StalenessCountsOvertakers, Applied, IsLastVersion

LEMMA PushIInv ==
  ASSUME IInv, NEW w \in Worker, Push(w)
  PROVE  IInv'
<1> DEFINE u == [worker |-> w, worker_round |-> it[w], base_version |-> base[w]]
<1> USE DEF IInv, Push, setupVars, serverVars, mainVars
<1>1. updates[w] = it[w] /\ it[w] < R /\ it[w] \in Nat
  BY DEF WorkerInv, TypeOK
<1>2. u \in Update
  BY <1>1, ConstantsAssumption DEF Update, TypeOK
<1>3. TypeOK'
  BY <1>2 DEF TypeOK
<1>4. VersionCountsUpdates' /\ StalenessCountsOvertakers'
  BY HistoryIInv
<1>5. WorkerInv'
  BY <1>1 DEF WorkerInv, TypeOK
<1>6. UpInv'
  BY <1>1 DEF UpInv, TypeOK
<1>7. DownInv'
  BY DEF DownInv, IsLastVersion, TypeOK
<1>8. WaitInv'
  <2>1. u \in up' /\ u.worker = w  OBVIOUS
  <2>2. QED  BY <1>1, <2>1 DEF WaitInv, TypeOK
<1>9. BaseInv' /\ MainInv'
  BY DEF BaseInv, MainInv, IsLastVersion, AllServed, TypeOK
<1>10. QED
  BY <1>3, <1>4, <1>5, <1>6, <1>7, <1>8, <1>9

LEMMA PullIInv ==
  ASSUME IInv, NEW w \in Worker, Pull(w)
  PROVE  IInv' /\ base'[w] > base[w]
<1> USE DEF IInv, Pull, setupVars, serverVars, mainVars
<1> PICK r \in down : /\ r.worker = w
                      /\ down' = down \ {r}
                      /\ base' = [base EXCEPT ![w] = r.global_version]
  OBVIOUS
<1>1. /\ updates[w] = it[w] + 1
      /\ IsLastVersion(w, version, r.global_version)
      /\ r.global_version > base[w]
  BY DEF DownInv
<1>2. /\ it[w] < R /\ it[w] \in Nat /\ it[w] + 1 \in 0..R
      /\ version \in Nat /\ r.global_version \in 0..version
  BY <1>1, ConstantsAssumption DEF WorkerInv, TypeOK, Version, IsLastVersion
<1>3. TypeOK'
  BY <1>2 DEF TypeOK, Version
<1>4. VersionCountsUpdates' /\ StalenessCountsOvertakers'
  BY HistoryIInv
<1>5. WorkerInv'
  <2>1. it'[w] = it[w] + 1 /\ pc'[w] = IF it[w] + 1 = R THEN "done" ELSE "step"
    BY DEF TypeOK
  <2>2. \A v \in Worker \ {w} : it'[v] = it[v] /\ pc'[v] = pc[v]
    BY DEF TypeOK
  <2>3. QED  BY <1>1, <1>2, <2>1, <2>2, ConstantsAssumption DEF WorkerInv
<1>6. UpInv'
  <2>1. \A u \in up : u.worker \in Worker /\ u.worker # w
    BY <1>1, <1>2 DEF UpInv, TypeOK, Update
  <2>2. QED  BY <2>1 DEF UpInv, TypeOK
<1>7. DownInv'
  <2>1. \A q \in down : q.worker = w => q.global_version = r.global_version
    BY <1>2, LastVersionUnique, <1>1 DEF DownInv
  <2>2. \A q \in down : q = [worker |-> q.worker, global_version |-> q.global_version]
                        /\ q.worker \in Worker
    BY DEF TypeOK, Reply
  <2>3. \A q \in down' : q \in down /\ q.worker # w
    BY <2>1, <2>2
  <2>4. QED  BY <2>2, <2>3 DEF DownInv, TypeOK, IsLastVersion
<1>8. WaitInv'
  <2>1. \A v \in Worker \ {w} : it'[v] = it[v] /\ pc'[v] = pc[v]
    BY DEF TypeOK
  <2>2. pc'[w] # "wait"
    BY DEF TypeOK
  <2>3. \A q \in down : q.worker # w => q \in down'
    OBVIOUS
  <2>4. QED  BY <2>1, <2>2, <2>3 DEF WaitInv
<1>9. BaseInv'
  BY <1>1, <1>2 DEF BaseInv, TypeOK, IsLastVersion
<1>10. MainInv'
  BY DEF MainInv, AllServed, TypeOK
<1>11. base'[w] > base[w]
  BY <1>1 DEF TypeOK
<1>12. QED
  BY <1>3, <1>4, <1>5, <1>6, <1>7, <1>8, <1>9, <1>10, <1>11

\* Before the loop, and when it raises, a worker has no message in flight.
LEMMA OutsideIInv ==
  ASSUME IInv, NEW w \in Worker, Load(w) \/ LeaveBcast(w) \/ Fail(w)
  PROVE  IInv' /\ it' = it
<1> USE DEF IInv, Load, LeaveBcast, Fail, setupVars, serverVars, mainVars
<1> it' = it  OBVIOUS
<1>1. TypeOK'
  BY DEF TypeOK
<1>2. VersionCountsUpdates' /\ StalenessCountsOvertakers'
  BY HistoryIInv
<1>3. WorkerInv' /\ WaitInv'
  BY DEF WorkerInv, WaitInv, TypeOK
<1>4. UpInv' /\ DownInv'
  BY DEF UpInv, DownInv, IsLastVersion, TypeOK, Update, Reply
<1>5. BaseInv'
  BY DEF BaseInv, IsLastVersion, TypeOK
<1>6. MainInv'
  <2>1. main # "complete"
    BY ConstantsAssumption DEF MainInv, WorkerInv, Worker, TypeOK
  <2>2. QED
    BY <2>1 DEF MainInv, AllServed, TypeOK
<1>7. QED
  BY <1>1, <1>2, <1>3, <1>4, <1>5, <1>6

----------------------------------------------------------------------------
(* The server applies an update *)

LEMMA ServeIInv ==
  ASSUME IInv, NEW u \in up, Serve(u)
  PROVE  IInv'
<1> DEFINE w == u.worker
           staleness == IF version >= u.base_version THEN version - u.base_version ELSE 0
           rec == [worker_rank |-> w, worker_round |-> u.worker_round,
                   global_version |-> version + 1, staleness |-> staleness,
                   bootstrap |-> version = 0]
           reply == [worker |-> w, global_version |-> version + 1]
<1> USE DEF IInv, Serve, setupVars, workerVars, mainVars
<1>1. /\ w \in Worker
      /\ u.worker_round \in 0..(R - 1)
      /\ pc[w] = "wait"
      /\ updates[w] = it[w] /\ it[w] < R /\ it[w] \in Nat
      /\ u.worker_round = it[w]
      /\ u.base_version = base[w]
  BY DEF UpInv, TypeOK, Update, WorkerInv
<1>2. /\ version \in Nat /\ base[w] \in Nat /\ base[w] <= version
      /\ version = Len(records)
      /\ IsLastVersion(w, version, base[w])
  BY <1>1 DEF BaseInv, TypeOK, Version, VersionCountsUpdates
<1>3. staleness = version - base[w] /\ staleness \in Nat
  BY <1>1, <1>2
<1>4. rec \in Record
  BY <1>1, <1>2, <1>3 DEF Record, Version
<1>5. records' = Append(records, rec)
  OBVIOUS
<1>6. /\ records' \in Seq(Record)
      /\ Len(records') = version + 1
      /\ \A i \in 1..version : records'[i] = records[i]
      /\ records'[version + 1] = rec
  BY <1>2, <1>4, <1>5, AppendProperties DEF TypeOK
<1>7. /\ updates' = [updates EXCEPT ![w] = updates[w] + 1]
      /\ updates'[w] = it[w] + 1
      /\ \A v \in Worker \ {w} : updates'[v] = updates[v]
  BY <1>1 DEF TypeOK
<1>8. TypeOK'
  <2>1. reply \in Reply
    BY <1>1, <1>2 DEF Reply, Version
  <2>2. updates' \in [Worker -> 0..R]
    BY <1>1, <1>7, ConstantsAssumption DEF TypeOK
  <2>3. down' = down \cup {reply}
    OBVIOUS
  <2>4. QED  BY <1>2, <1>6, <2>1, <2>2, <2>3 DEF TypeOK, Version
<1>9. ASSUME NEW v, NEW n \in 0..version, NEW b, IsLastVersion(v, n, b)
      PROVE  LastIn(records', v, n, b)
  BY <1>2, <1>6, <1>9 DEF IsLastVersion, LastIn
<1>10. ASSUME NEW v, NEW b, v # w, IsLastVersion(v, version, b)
       PROVE  LastIn(records', v, version + 1, b)
  <2>1. b \in 0..(version + 1) /\ b \in 0..version
    BY <1>2, <1>10 DEF IsLastVersion
  <2>2. b # 0 => records'[b].worker_rank = v
    BY <2>1, <1>6, <1>10 DEF IsLastVersion
  <2>3. ASSUME NEW i \in (b + 1)..(version + 1)
        PROVE  records'[i].worker_rank # v
    <3>1. CASE i = version + 1
      BY <3>1, <1>6, <1>10
    <3>2. CASE i # version + 1
      BY <3>2, <1>2, <1>6, <1>10, <2>1 DEF IsLastVersion
    <3>3. QED  BY <3>1, <3>2
  <2>4. QED  BY <2>1, <2>2, <2>3 DEF LastIn
<1>11. LastIn(records', w, version + 1, version + 1)
  BY <1>2, <1>6 DEF LastIn
<1>12. \A v, b : LastIn(records', v, version + 1, b) => IsLastVersion(v, version, b)'
  BY DEF LastIn, IsLastVersion
<1>13. VersionCountsUpdates'
  <2>1. \A i \in 1..Len(records') : records'[i].global_version = i
    BY <1>2, <1>6 DEF VersionCountsUpdates
  <2>2. Applied(w)' = Applied(w) \cup {version + 1} /\ version + 1 \notin Applied(w)
    BY <1>2, <1>6 DEF Applied
  <2>3. \A v \in Worker \ {w} : Applied(v)' = Applied(v)
    BY <1>2, <1>6 DEF Applied
  <2>4. \A v \in Worker : IsFiniteSet(Applied(v))
    <3>1. IsFiniteSet(1..Len(records))
      BY <1>2, FS_Interval
    <3>2. QED  BY <3>1, FS_Subset DEF Applied
  <2>5. Cardinality(Applied(w)') = Cardinality(Applied(w)) + 1
    BY <1>1, <2>2, <2>4, FS_AddElement
  <2>6. \A v \in Worker : updates'[v] = Cardinality(Applied(v)')
    BY <1>1, <1>7, <2>3, <2>5 DEF VersionCountsUpdates
  <2>7. QED  BY <1>6, <2>1, <2>6 DEF VersionCountsUpdates
<1>14. StalenessCountsOvertakers'
  <2>1. ASSUME NEW i \in 1..(version + 1)
        PROVE  /\ LastIn(records', records'[i].worker_rank, i - 1,
                         i - 1 - records'[i].staleness)
               /\ records'[i].bootstrap <=> i = 1
    <3>1. CASE i = version + 1
      <4>1. records'[i] = rec /\ i - 1 = version /\ i - 1 - rec.staleness = base[w]
        BY <3>1, <1>2, <1>3, <1>6
      <4>2. LastIn(records', w, version, base[w])
        BY <1>2, <1>9
      <4>3. rec.worker_rank = w /\ (rec.bootstrap <=> i = 1)
        <5>1. rec.worker_rank = w /\ rec.bootstrap = (version = 0)
          BY Zenon
        <5>2. version = 0 <=> i = 1
          BY <3>1, <1>2
        <5>3. QED  BY <5>1, <5>2, Zenon
      <4> HIDE DEF rec
      <4>4. LastIn(records', rec.worker_rank, i - 1, i - 1 - rec.staleness)
        <5>1. \A a, n, b : a = w /\ n = version /\ b = base[w] => LastIn(records', a, n, b)
          BY <4>2, Zenon
        <5>2. QED  BY <5>1, <4>1, <4>3, Zenon
      <4>5. QED  BY <4>1, <4>3, <4>4, Zenon
    <3>2. CASE i # version + 1
      <4>1. i \in 1..version /\ records'[i] = records[i] /\ i - 1 \in 0..version
        BY <3>2, <1>2, <1>6
      <4>2. /\ IsLastVersion(records[i].worker_rank, i - 1, i - 1 - records[i].staleness)
            /\ records[i].bootstrap <=> i = 1
        BY <4>1, <1>2 DEF StalenessCountsOvertakers
      <4>3. LastIn(records', records[i].worker_rank, i - 1, i - 1 - records[i].staleness)
        BY <4>1, <4>2, <1>9
      <4>4. records'[i].bootstrap <=> i = 1
        BY <4>1, <4>2
      <4>5. LastIn(records', records'[i].worker_rank, i - 1, i - 1 - records'[i].staleness)
        BY <4>1, <4>3, Zenon
      <4>6. QED  BY <4>4, <4>5, Zenon
    <3>3. QED  BY <3>1, <3>2, <1>2
  <2>2. QED  BY <2>1, <1>6 DEF StalenessCountsOvertakers, IsLastVersion, LastIn
<1>15. WorkerInv'
  BY <1>1, <1>7 DEF WorkerInv
<1>16. UpInv'
  <2>1. ASSUME NEW q \in up, q.worker = w
        PROVE  q = u
    <3>1. q \in Update /\ u \in Update
      BY DEF TypeOK
    <3>2. q.worker_round = u.worker_round /\ q.base_version = u.base_version
      BY <2>1, <1>1 DEF UpInv
    <3>3. QED  BY <2>1, <3>1, <3>2 DEF Update
  <2>2. ASSUME NEW q \in up'
        PROVE  q \in up /\ q.worker \in Worker \ {w}
    BY <2>1 DEF TypeOK, Update
  <2>3. QED  BY <2>2, <1>7 DEF UpInv
<1>17. DownInv'
  <2>1. ASSUME NEW q \in down
        PROVE  q.worker \in Worker \ {w}
    BY <1>1 DEF DownInv, TypeOK, Reply
  <2>2. ASSUME NEW q \in down
        PROVE  /\ pc[q.worker] = "wait"
               /\ updates'[q.worker] = it[q.worker] + 1
               /\ LastIn(records', q.worker, version + 1, q.global_version)
               /\ q.global_version > base[q.worker]
    BY <2>1, <1>7, <1>10 DEF DownInv
  <2>3. /\ pc[reply.worker] = "wait"
        /\ updates'[reply.worker] = it[reply.worker] + 1
        /\ LastIn(records', reply.worker, version + 1, reply.global_version)
        /\ reply.global_version > base[reply.worker]
    BY <1>1, <1>2, <1>7, <1>11
  <2>4. down' = down \cup {reply}
    OBVIOUS
  <2>5. QED  BY <2>2, <2>3, <2>4, <1>12 DEF DownInv
<1>18. WaitInv'
  <2>1. reply \in down' /\ reply.worker = w
    OBVIOUS
  <2>2. ASSUME NEW v \in Worker \ {w}, pc[v] = "wait"
        PROVE  IF updates'[v] = it[v] THEN \E q \in up' : q.worker = v
                                      ELSE \E q \in down' : q.worker = v
    <3>1. updates'[v] = updates[v]
      BY <1>7
    <3>2. \A q \in up : q.worker = v => q \in up'
      OBVIOUS
    <3>3. \A q \in down : q \in down'
      OBVIOUS
    <3>4. QED  BY <2>2, <3>1, <3>2, <3>3 DEF WaitInv
  <2>3. updates'[w] # it[w]
    BY <1>1, <1>7
  <2>4. ASSUME NEW v \in Worker, pc[v] = "wait"
        PROVE  IF updates'[v] = it[v] THEN \E q \in up' : q.worker = v
                                      ELSE \E q \in down' : q.worker = v
    <3>1. CASE v = w
      BY <3>1, <2>1, <2>3
    <3>2. CASE v # w
      BY <3>2, <2>2, <2>4
    <3>3. QED  BY <3>1, <3>2
  <2>5. QED  BY <2>4 DEF WaitInv
<1>19. BaseInv'
  <2>1. \A v \in Worker : base[v] <= version + 1
    BY <1>2 DEF BaseInv, TypeOK, Version
  <2>2. ASSUME NEW v \in Worker, updates'[v] = it[v]
        PROVE  LastIn(records', v, version + 1, base[v])
    <3>1. v # w /\ updates[v] = it[v]
      BY <2>2, <1>1, <1>7
    <3>2. IsLastVersion(v, version, base[v])
      BY <3>1 DEF BaseInv
    <3>3. QED  BY <3>1, <3>2, <1>10
  <2>3. QED  BY <2>1, <2>2, <1>12 DEF BaseInv
<1>20. MainInv'
  BY DEF MainInv
<1>21. QED
  BY <1>8, <1>13, <1>14, <1>15, <1>16, <1>17, <1>18, <1>19, <1>20

----------------------------------------------------------------------------
(* The other steps of rank 0 *)

LEMMA RootIInv ==
  ASSUME IInv, Finish \/ ServeTimesOut \/ MainStep
  PROVE  IInv'
<1>1. ASSUME UNCHANGED <<pc, it, base, up, down, version, updates, records>>, TypeOK', MainInv'
      PROVE  IInv'
  <2>1. VersionCountsUpdates' /\ StalenessCountsOvertakers'
    BY <1>1, HistoryIInv DEF IInv
  <2>2. WorkerInv' /\ UpInv' /\ WaitInv'
    BY <1>1 DEF IInv, WorkerInv, UpInv, WaitInv
  <2>3. DownInv' /\ BaseInv'
    BY <1>1 DEF IInv, DownInv, BaseInv, IsLastVersion
  <2>4. QED  BY <1>1, <2>1, <2>2, <2>3 DEF IInv
<1>2. CASE Finish \/ ServeTimesOut
  <2> USE <1>2 DEF Finish, ServeTimesOut, setupVars, workerVars, mainVars, IInv
  <2>1. TypeOK'
    BY DEF TypeOK
  <2>2. MainInv'
    BY DEF MainInv, AllServed
  <2>3. QED  BY <2>1, <2>2, <1>1
<1>3. CASE Collect
  <2> USE <1>3 DEF Collect, setupVars, workerVars, serverVars, IInv
  <2>1. TypeOK'
    BY ConstantsAssumption DEF TypeOK
  <2>2. MainInv'
    BY ConstantsAssumption DEF MainInv, AllServed, TypeOK, Worker
  <2>3. QED  BY <2>1, <2>2, <1>1
<1>4. CASE Conclude
  <2> USE <1>4 DEF Conclude, setupVars, workerVars, serverVars, IInv
  <2>1. TypeOK'
    BY DEF TypeOK
  <2>2. MainInv'
    BY DEF MainInv, AllServed, Worker
  <2>3. QED  BY <2>1, <2>2, <1>1
<1>5. QED
  BY <1>2, <1>3, <1>4 DEF MainStep

----------------------------------------------------------------------------
(* The invariant holds in every reachable state *)

LEMMA NextIInv ==
  ASSUME IInv, [Next]_vars
  PROVE  IInv' /\ (\A w \in Worker : it'[w] # it[w] => base'[w] > base[w])
<1>1. ASSUME NEW w \in Worker, WorkerStep(w)
      PROVE  IInv' /\ (\A v \in Worker : it'[v] # it[v] => base'[v] > base[v])
  <2>1. CASE Push(w)
    BY <2>1, PushIInv DEF Push
  <2>2. CASE Pull(w)
    <3>1. \A v \in Worker \ {w} : it'[v] = it[v]
      BY <2>2 DEF Pull, IInv, TypeOK
    <3>2. QED  BY <2>2, <3>1, PullIInv
  <2>3. CASE Load(w) \/ LeaveBcast(w) \/ Fail(w)
    BY <2>3, OutsideIInv
  <2>4. QED  BY <1>1, <2>1, <2>2, <2>3 DEF WorkerStep
<1>2. CASE ServerStep
  BY <1>2, ServeIInv, RootIInv DEF ServerStep, Serve, Finish, ServeTimesOut, workerVars
<1>3. CASE MainStep
  BY <1>3, RootIInv DEF MainStep, Collect, Conclude, workerVars
<1>4. CASE UNCHANGED vars
  <2> USE <1>4 DEF vars, setupVars, workerVars, serverVars, mainVars, IInv
  <2>1. VersionCountsUpdates' /\ StalenessCountsOvertakers'
    BY HistoryIInv
  <2>2. TypeOK' /\ WorkerInv' /\ UpInv' /\ WaitInv' /\ MainInv'
    BY DEF TypeOK, WorkerInv, UpInv, WaitInv, MainInv, AllServed
  <2>3. DownInv' /\ BaseInv'
    BY DEF DownInv, BaseInv, IsLastVersion
  <2>4. QED  BY <2>1, <2>2, <2>3
<1>5. QED
  BY <1>1, <1>2, <1>3, <1>4 DEF Next, Ended

\* Every behaviour of the server thread and its workers satisfies the inductive invariant.
THEOREM Invariance == Spec => []IInv
<1>1. Init => IInv
  BY InitIInv
<1>2. IInv /\ [Next]_vars => IInv'
  BY NextIInv
<1>3. QED
  BY <1>1, <1>2, PTL DEF Spec

\* Every variable keeps its type; no worker is counted more than R updates.
THEOREM TypeCorrect == Spec => []TypeOK
<1>1. IInv => TypeOK
  BY DEF IInv
<1>2. QED  BY <1>1, Invariance, PTL

\* global_version and updates_done count the applied updates.
THEOREM VersionCorrect == Spec => []VersionCountsUpdates
<1>1. IInv => VersionCountsUpdates
  BY DEF IInv
<1>2. QED  BY <1>1, Invariance, PTL

\* The staleness that damps an update is the number of updates that overtook it.
THEOREM StalenessCorrect == Spec => []StalenessCountsOvertakers
<1>1. IInv => StalenessCountsOvertakers
  BY DEF IInv
<1>2. QED  BY <1>1, Invariance, PTL

\* max(0, global_version - base_version) never clamps.
THEOREM NeverAhead == Spec => []BaseNotAhead
<1>1. IInv => BaseNotAhead
  BY DEF IInv, BaseInv, UpInv, BaseNotAhead
<1>2. QED  BY <1>1, Invariance, PTL

\* Every reply moves its worker to a newer global model.
THEOREM RepliesAlwaysAdvance == Spec => RepliesAdvance
<1>1. IInv /\ [Next]_vars =>
        [\A w \in Worker : it'[w] # it[w] => base'[w] > base[w]]_vars
  BY NextIInv
<1>2. QED
  BY <1>1, Invariance, PTL DEF Spec, RepliesAdvance

\* A run without failures ends with the server's result, after R updates of
\* every worker.
THEOREM CompleteRunsHaveResult == Spec => []CompleteHasResult
<1>1. ASSUME IInv
      PROVE  CompleteHasResult
  <2> SUFFICES ASSUME main = "complete"
               PROVE  ps = "done" /\ AllServed
    BY DEF CompleteHasResult
  <2> USE <1>1 DEF IInv
  <2>1. \A w \in Worker : updates[w] = it[w] /\ it[w] = R
    BY DEF MainInv, WorkerInv
  <2>2. AllServed
    BY <2>1, ConstantsAssumption DEF AllServed
  <2>3. QED  BY <2>2 DEF MainInv
<1>2. QED  BY <1>1, Invariance, PTL
=============================================================================
