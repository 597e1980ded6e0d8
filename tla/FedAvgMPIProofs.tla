--------------------------- MODULE FedAvgMPIProofs ---------------------------
(***************************************************************************)
(* Proofs about FedAvgMPI, for any number of workers and rounds, any       *)
(* levels, both applications and with the stopping test on or off.  What   *)
(* has been broadcast is a prefix of the rounds and never changes, so all  *)
(* workers evaluate the stopping test on the same history.                 *)
(***************************************************************************)
EXTENDS FedAvgMPI, FiniteSetTheorems, TLAPS

----------------------------------------------------------------------------
(* The inductive invariant *)

Message(w, k) == [worker |-> w, worker_round |-> k]

\* Rounds a worker has contributed to, and rounds that have been broadcast.
Contributed(w) == it[w] + (IF pc[w] = "sync" THEN 1 ELSE 0)
Closed == it[0] + (IF it[0] < R /\ bcast[it[0] + 1] # NoPayload THEN 1 ELSE 0)

\* Where a worker is in its loop, against its counter.
WorkerInv ==
  \A w \in Worker :
    /\ pc[w] \in {"load", "seed"} => it[w] = 0
    /\ pc[w] \in {"step", "sync"} => it[w] < R
    /\ pc[w] = "done" => it[w] > 0

\* A gather is entered by the workers of its round only.
GatheredInv ==
  \A k \in 1..R :
    /\ gathered[k] \subseteq Round(k - 1)
    /\ \A w \in Worker : Message(w, k - 1) \in gathered[k] => k <= Contributed(w)

\* The rounds that have been broadcast are the first ones; rank 0 is at most one behind
\* its own broadcast.  Every broadcast has a level and is the mean of a whole round.
BcastInv ==
  /\ \A k \in 1..R : bcast[k] # NoPayload <=> k <= Closed
  /\ Closed > it[0] => pc[0] = "sync"
  /\ \A k \in 1..R : bcast[k] # NoPayload =>
       /\ bcast[k].level \in Levels
       /\ bcast[k].average = Round(k - 1)
       /\ \A w \in Worker : k <= Contributed(w)
  /\ bcast[0] # NoPayload => bcast[0].level \in Levels
  /\ pc[0] = "load" => bcast[0] = NoPayload

\* What a worker has comes from the broadcasts it has received.
ReceivedInv ==
  \A w \in Worker :
    /\ it[w] <= Closed
    /\ it[w] > 0 => model[w] = Round(it[w] - 1)
    /\ pc[w] \in {"step", "sync"} => prev[w] = bcast[it[w]].level
    /\ ~KMeans => pc[w] # "seed" /\ bcast[0] = NoPayload
    /\ KMeans /\ pc[w] \in {"step", "sync"} => bcast[0] # NoPayload
    /\ pc[w] = "load" => prev[w] = None

IInv ==
  /\ TypeOK
  /\ WorkerInv
  /\ GatheredInv
  /\ BcastInv
  /\ ReceivedInv
  /\ StopsAtFirstConvergence

----------------------------------------------------------------------------
(* A round *)

\* A complete round is as many contributions as there are workers; so a gather with N
\* contributions of one round has those of all.
LEMMA RoundComplete ==
  ASSUME NEW k, NEW S \in SUBSET Round(k), Cardinality(S) = N
  PROVE  S = Round(k)
<1> DEFINE f == [w \in Worker |-> Message(w, k)]
<1>1. IsFiniteSet(Worker) /\ Cardinality(Worker) = N
  BY ConstantsAssumption, FS_Interval DEF Worker
<1>2. f \in Bijection(Worker, Round(k))
  <2>1. f \in [Worker -> Round(k)]  BY DEF Round, Message
  <2>2. \A v, w \in Worker : f[v] = f[w] => v = w  BY DEF Message
  <2>3. \A m \in Round(k) : \E w \in Worker : f[w] = m  BY DEF Round, Message
  <2>4. QED  BY <2>1, <2>2, <2>3 DEF Bijection, Injection, Surjection, IsInjective
<1>3. IsFiniteSet(Round(k)) /\ Cardinality(Round(k)) = N
  BY <1>1, <1>2, FS_Bijection DEF ExistsBijection
<1>4. QED
  BY <1>3, FS_Subset

LEMMA RoundType ==
  ASSUME NEW k \in 0..(R - 1)
  PROVE  /\ Round(k) \in SUBSET Contribution
         /\ \A w \in Worker : Message(w, k) \in Contribution /\ Message(w, k) \in Round(k)
BY DEF Round, Contribution, Message

\* What every step uses of the types.
LEMMA Facts ==
  ASSUME IInv
  PROVE  /\ N \in Nat \ {0} /\ R \in Nat \ {0} /\ 0 \in Worker
         /\ None \notin Levels /\ NoPayload.level = None
         /\ \A w \in Worker : it[w] \in 0..R /\ Contributed(w) \in 0..R
         /\ Closed \in 0..R
         /\ \A k \in 0..R : bcast[k] \in Payload
<1> USE ConstantsAssumption DEF IInv, TypeOK
<1>1. N \in Nat \ {0} /\ R \in Nat \ {0} /\ 0 \in Worker
  BY DEF Worker
<1>2. None \notin Levels /\ NoPayload.level = None
  BY DEF None, NoPayload
<1>3. \A w \in Worker : it[w] \in 0..R /\ Contributed(w) \in 0..R
  BY DEF WorkerInv, Contributed
<1>4. Closed \in 0..R
  BY <1>1, <1>3 DEF Closed
<1>5. QED
  BY <1>1, <1>2, <1>3, <1>4

----------------------------------------------------------------------------
LEMMA InitIInv == Init => IInv
<1> SUFFICES ASSUME Init PROVE IInv  OBVIOUS
<1> USE ConstantsAssumption DEF Init
<1>1. 0 \in Worker /\ N > 0 /\ R > 0
  BY DEF Worker
<1>2. NoPayload \in Payload
  BY DEF NoPayload, Payload
<1>3. TypeOK
  BY <1>1, <1>2 DEF TypeOK
<1>4. Closed = 0
  BY <1>1 DEF Closed
<1>5. WorkerInv /\ GatheredInv
  BY DEF WorkerInv, GatheredInv
<1>6. BcastInv
  BY <1>1, <1>4 DEF BcastInv
<1>7. ReceivedInv
  BY <1>1, <1>4 DEF ReceivedInv
<1>8. StopsAtFirstConvergence
  BY DEF StopsAtFirstConvergence
<1>9. QED
  BY <1>3, <1>5, <1>6, <1>7, <1>8 DEF IInv

----------------------------------------------------------------------------
(* Steps of a worker *)

\* As long as the counters and what has been received stay, so do the decisions.
LEMMA StopsKept ==
  ASSUME IInv, it' = it, model' = model,
         \A w \in Worker : \A k \in 0..it[w] : it[w] > 0 => bcast'[k] = bcast[k],
         \A w \in Worker : pc'[w] \in {"step", "sync"} /\ it[w] > 0 => pc[w] \in {"step", "sync"},
         \A w \in Worker : pc'[w] = "done" => pc[w] = "done"
  PROVE  StopsAtFirstConvergence'
<1> SUFFICES ASSUME NEW w \in Worker
             PROVE  /\ \A k \in 1..(it[w] - 1) : ~ConvergedAt(k)'
                    /\ pc'[w] = "done" => (it[w] = R \/ ConvergedAt(it[w])') /\ model[w] = Round(it[w] - 1)
                    /\ pc'[w] \in {"step", "sync"} /\ it[w] > 0 => ~ConvergedAt(it[w])'
  BY DEF StopsAtFirstConvergence, ConvergedAt
<1>1. it[w] \in 0..R
  BY Facts
<1>2. \A k \in 1..it[w] : ConvergedAt(k)' <=> ConvergedAt(k)
  BY <1>1 DEF ConvergedAt
<1>3. pc[w] = "done" => it[w] > 0
  BY DEF IInv, WorkerInv
<1>4. QED
  BY <1>1, <1>2, <1>3 DEF IInv, StopsAtFirstConvergence

LEMMA LoadIInv ==
  ASSUME IInv, NEW w \in Worker, Load(w)
  PROVE  IInv'
<1> USE Facts DEF IInv, Load, mainVars
<1>1. pc[w] = "load" /\ it[w] = 0 /\ prev[w] = None
  BY DEF WorkerInv, ReceivedInv
<1>2. \A k \in 1..R : bcast'[k] = bcast[k]
  BY DEF TypeOK
<1>3. KMeans' <=> KMeans
  BY DEF KMeans
<1>4. w = 0 => \A v \in Worker : it[v] = 0
  BY <1>1 DEF BcastInv, ReceivedInv
<1>5. w # 0 \/ ~KMeans => bcast' = bcast
  OBVIOUS
<1>6. KMeans /\ w = 0 => bcast'[0].level \in Levels /\ bcast'[0] \in Payload
  <2> SUFFICES ASSUME KMeans, w = 0 PROVE bcast'[0].level \in Levels /\ bcast'[0] \in Payload
    OBVIOUS
  <2>1. PICK l \in Levels : bcast' = [bcast EXCEPT ![0].level = l]
    OBVIOUS
  <2>2. bcast[0] \in [level : Levels \cup {None}, average : SUBSET Contribution]
    BY DEF Payload
  <2>3. bcast'[0] = [bcast[0] EXCEPT !.level = l]
    BY <2>1 DEF TypeOK
  <2>4. bcast'[0].level = l /\ bcast'[0] \in [level : Levels \cup {None}, average : SUBSET Contribution]
    BY <2>2, <2>3
  <2>5. QED  BY <2>4 DEF Payload
<1>7. KMeans /\ w = 0 => bcast'[0] # NoPayload
  BY <1>6
<1>8. TypeOK'
  <2>1. bcast' \in [0..R -> Payload]
    BY <1>2, <1>5, <1>6 DEF TypeOK
  <2>2. pc' \in [Worker -> {"load", "seed", "step", "sync", "done", "failed"}]
    BY DEF TypeOK
  <2>3. QED  BY <2>1, <2>2 DEF TypeOK
<1>9. WorkerInv'
  BY <1>1 DEF WorkerInv, TypeOK
<1>10. GatheredInv'
  BY <1>1 DEF GatheredInv, Contributed, TypeOK
<1>11. Closed' = Closed
  BY <1>2 DEF Closed
<1>12. BcastInv'
  <2>1. \A v \in Worker : Contributed(v)' = Contributed(v)
    BY <1>1 DEF Contributed, TypeOK
  <2>2. Closed > it[0] => w # 0
    BY <1>1 DEF BcastInv
  <2>3. Closed' > it'[0] => pc'[0] = "sync"
    BY <1>11, <2>2 DEF BcastInv, TypeOK
  <2>4. pc'[0] = "load" => bcast'[0] = NoPayload
    BY <1>1, <1>5 DEF BcastInv, TypeOK
  <2>5. QED
    BY <1>2, <1>5, <1>6, <1>11, <2>1, <2>3, <2>4 DEF BcastInv
<1>13. ReceivedInv'
  <2> SUFFICES ASSUME NEW v \in Worker
               PROVE  /\ it[v] <= Closed
                      /\ it[v] > 0 => model[v] = Round(it[v] - 1)
                      /\ pc'[v] \in {"step", "sync"} => prev[v] = bcast'[it[v]].level
                      /\ ~KMeans => pc'[v] # "seed" /\ bcast'[0] = NoPayload
                      /\ KMeans /\ pc'[v] \in {"step", "sync"} => bcast'[0] # NoPayload
                      /\ pc'[v] = "load" => prev[v] = None
    BY <1>3, <1>11 DEF ReceivedInv
  <2>1. CASE v = w
    BY <1>1, <1>5, <2>1 DEF ReceivedInv, TypeOK
  <2>2. CASE v # w
    <3>1. pc'[v] = pc[v]
      BY <2>2 DEF TypeOK
    <3>2. CASE w = 0 /\ KMeans
      <4>1. bcast[0] = NoPayload /\ bcast'[0] # NoPayload
        BY <1>1, <1>7, <3>2 DEF BcastInv
      <4>2. pc[v] \notin {"step", "sync"}
        BY <3>2, <4>1 DEF ReceivedInv
      <4>3. QED  BY <3>1, <3>2, <4>1, <4>2 DEF ReceivedInv
    <3>3. CASE ~(w = 0 /\ KMeans)
      BY <1>5, <3>1, <3>3 DEF ReceivedInv
    <3>4. QED  BY <3>2, <3>3
  <2>3. QED  BY <2>1, <2>2
<1>14. StopsAtFirstConvergence'
  <2>1. \A v \in Worker : \A k \in 0..it[v] : it[v] > 0 => bcast'[k] = bcast[k]
    BY <1>2, <1>4, <1>5
  <2>2. \A v \in Worker : pc'[v] \in {"step", "sync"} /\ it[v] > 0 => pc[v] \in {"step", "sync"}
    BY <1>1 DEF TypeOK
  <2>3. \A v \in Worker : pc'[v] = "done" => pc[v] = "done"
    BY DEF TypeOK
  <2>4. QED  BY <2>1, <2>2, <2>3, StopsKept
<1>15. QED
  BY <1>8, <1>9, <1>10, <1>12, <1>13, <1>14

LEMMA SeedIInv ==
  ASSUME IInv, NEW w \in Worker, Seed(w)
  PROVE  IInv'
<1> USE Facts DEF IInv, Seed, mainVars
<1>1. pc[w] = "seed" /\ it[w] = 0 /\ KMeans /\ 0 < R
  BY DEF WorkerInv, ReceivedInv
<1>2. bcast[0].level \in Levels
  BY DEF BcastInv
<1>3. TypeOK'
  BY <1>2 DEF TypeOK
<1>4. WorkerInv'
  BY <1>1 DEF WorkerInv, TypeOK
<1>5. \A v \in Worker : Contributed(v)' = Contributed(v)
  BY <1>1 DEF Contributed, TypeOK
<1>6. Closed' = Closed
  BY DEF Closed
<1>7. GatheredInv'
  BY <1>5 DEF GatheredInv
<1>8. BcastInv'
  BY <1>1, <1>5, <1>6 DEF BcastInv, TypeOK
<1>9. ReceivedInv'
  BY <1>1, <1>6 DEF ReceivedInv, TypeOK, KMeans
<1>10. StopsAtFirstConvergence'
  BY <1>1, StopsKept DEF TypeOK
<1>11. QED
  BY <1>3, <1>4, <1>7, <1>8, <1>9, <1>10

LEMMA GatherIInv ==
  ASSUME IInv, NEW w \in Worker, Gather(w)
  PROVE  IInv'
<1> USE Facts DEF IInv, Gather, mainVars
<1>1. pc[w] = "step" /\ it[w] \in 0..(R - 1)
  BY DEF WorkerInv
<1>2. /\ Message(w, it[w]) \in Contribution /\ Message(w, it[w]) \in Round(it[w])
      /\ gathered' = [gathered EXCEPT ![it[w] + 1] = gathered[it[w] + 1] \cup {Message(w, it[w])}]
  BY <1>1, RoundType DEF Message
<1>3. TypeOK'
  <2>1. gathered[it[w] + 1] \cup {Message(w, it[w])} \in SUBSET Contribution
    BY <1>1, <1>2 DEF TypeOK
  <2>2. gathered' \in [1..R -> SUBSET Contribution]
    BY <1>2, <2>1 DEF TypeOK
  <2>3. QED  BY <2>2 DEF TypeOK
<1>4. WorkerInv'
  BY <1>1 DEF WorkerInv, TypeOK
<1>5. \A v \in Worker : Contributed(v)' = IF v = w THEN it[w] + 1 ELSE Contributed(v)
  BY <1>1 DEF Contributed, TypeOK
<1>6. Contributed(w) = it[w]
  BY <1>1 DEF Contributed
<1>7. Closed' = Closed
  BY DEF Closed
<1>8. GatheredInv'
  <2> SUFFICES ASSUME NEW k \in 1..R
               PROVE  /\ gathered'[k] \subseteq Round(k - 1)
                      /\ \A v \in Worker : Message(v, k - 1) \in gathered'[k] => k <= Contributed(v)'
    BY DEF GatheredInv
  <2>1. gathered[k] \subseteq Round(k - 1)
        /\ \A v \in Worker : Message(v, k - 1) \in gathered[k] => k <= Contributed(v)
    BY DEF GatheredInv
  <2>2. CASE k = it[w] + 1
    <3>1. gathered'[k] = gathered[k] \cup {Message(w, k - 1)} /\ Message(w, k - 1) \in Round(k - 1)
      BY <1>1, <1>2, <2>2 DEF TypeOK
    <3>2. \A v \in Worker : Message(v, k - 1) = Message(w, k - 1) => v = w
      BY DEF Message
    <3>3. QED  BY <1>1, <1>5, <1>6, <2>1, <2>2, <3>1, <3>2
  <2>3. CASE k # it[w] + 1
    <3>1. gathered'[k] = gathered[k]
      BY <1>2, <2>3 DEF TypeOK
    <3>2. QED  BY <1>1, <1>5, <1>6, <2>1, <3>1
  <2>4. QED  BY <2>2, <2>3
<1>9. BcastInv'
  <2>1. \A v \in Worker : Contributed(v) <= Contributed(v)'
    BY <1>5, <1>6
  <2>2. Closed' > it'[0] => pc'[0] = "sync"
    BY <1>7 DEF BcastInv, TypeOK
  <2>3. pc'[0] = "load" => pc[0] = "load"
    BY DEF TypeOK
  <2>4. \A v \in Worker : Contributed(v)' \in Int
    BY <1>5
  <2>5. QED  BY <1>7, <2>1, <2>2, <2>3, <2>4 DEF BcastInv
<1>10. ReceivedInv'
  BY <1>1, <1>7 DEF ReceivedInv, TypeOK, KMeans
<1>11. StopsAtFirstConvergence'
  BY <1>1, StopsKept DEF TypeOK
<1>12. QED
  BY <1>3, <1>4, <1>8, <1>9, <1>10, <1>11

\* Rank 0 broadcasts the mean of a whole round, which nobody has received before.
LEMMA AverageIInv ==
  ASSUME IInv, Average
  PROVE  IInv'
<1> DEFINE k0 == it[0] + 1
<1> USE Facts DEF IInv, Average, workerVars, mainVars
<1>1. pc[0] = "sync" /\ it[0] \in 0..(R - 1) /\ k0 \in 1..R
  BY DEF WorkerInv
<1>2. gathered[k0] = Round(it[0])
  <2>1. gathered[k0] \in SUBSET Round(it[0])
    BY <1>1 DEF GatheredInv
  <2>2. QED  BY <2>1, RoundComplete
<1>3. \A w \in Worker : k0 <= Contributed(w)
  <2>1. \A w \in Worker : Message(w, it[0]) \in gathered[k0]
    BY <1>1, <1>2, RoundType
  <2>2. QED  BY <1>1, <2>1 DEF GatheredInv
<1>4. PICK l \in Levels : bcast' = [bcast EXCEPT ![k0] = [level |-> l, average |-> Round(it[0])]]
  BY <1>2
<1>5. /\ bcast'[k0] = [level |-> l, average |-> Round(it[0])] /\ bcast'[k0] # NoPayload
      /\ \A k \in 0..R : k # k0 => bcast'[k] = bcast[k]
  <2>1. bcast'[k0] = [level |-> l, average |-> Round(it[0])] /\ \A k \in 0..R : k # k0 => bcast'[k] = bcast[k]
    BY <1>1, <1>4 DEF TypeOK
  <2>2. [level |-> l, average |-> Round(it[0])].level # NoPayload.level
    OBVIOUS
  <2>3. QED  BY <2>1, <2>2
<1>6. Closed = it[0] /\ Closed' = k0
  BY <1>1, <1>5 DEF Closed, workerVars
<1>7. TypeOK'
  <2>1. bcast'[k0] \in Payload
    BY <1>1, <1>5, RoundType DEF Payload
  <2>2. bcast' \in [0..R -> Payload]
    BY <1>1, <1>4, <1>5, <2>1 DEF TypeOK
  <2>3. QED  BY <2>2 DEF TypeOK
<1>8. WorkerInv' /\ GatheredInv'
  BY DEF WorkerInv, GatheredInv, Contributed
<1>9. \A w \in Worker : Contributed(w)' = Contributed(w) /\ it[w] <= it[0]
  BY <1>6 DEF Contributed, ReceivedInv
<1>10. BcastInv'
  <2>1. \A k \in 1..R : bcast'[k] # NoPayload <=> k <= k0
    BY <1>1, <1>5, <1>6 DEF BcastInv
  <2>2. \A k \in 1..R : bcast'[k] # NoPayload =>
          /\ bcast'[k].level \in Levels
          /\ bcast'[k].average = Round(k - 1)
          /\ \A w \in Worker : k <= Contributed(w)
    <3> SUFFICES ASSUME NEW k \in 1..R, bcast'[k] # NoPayload
                 PROVE  /\ bcast'[k].level \in Levels
                        /\ bcast'[k].average = Round(k - 1)
                        /\ \A w \in Worker : k <= Contributed(w)
      OBVIOUS
    <3>1. CASE k = k0
      BY <1>1, <1>3, <1>5, <3>1
    <3>2. CASE k # k0
      BY <1>5, <3>2 DEF BcastInv
    <3>3. QED  BY <3>1, <3>2
  <2>3. bcast'[0] = bcast[0]
    BY <1>1, <1>5
  <2>4. QED
    BY <1>1, <1>6, <1>9, <2>1, <2>2, <2>3 DEF BcastInv
<1>11. ReceivedInv'
  <2>1. \A w \in Worker : bcast'[it[w]] = bcast[it[w]]
    BY <1>1, <1>5, <1>9
  <2>2. bcast'[0] = bcast[0]
    BY <1>1, <1>5
  <2>3. QED
    BY <1>1, <1>6, <1>9, <2>1, <2>2 DEF ReceivedInv, KMeans
<1>12. StopsAtFirstConvergence'
  <2>1. \A w \in Worker : \A k \in 0..it[w] : bcast'[k] = bcast[k]
    BY <1>1, <1>5, <1>9
  <2>2. QED  BY <2>1, StopsKept
<1>13. QED
  BY <1>7, <1>8, <1>10, <1>11, <1>12

\* A worker takes a broadcast over and tests it against the one before.
LEMMA InstallIInv ==
  ASSUME IInv, NEW w \in Worker, Install(w)
  PROVE  IInv'
<1> DEFINE k1 == it[w] + 1
<1> USE Facts DEF IInv, Install, mainVars
<1>1. /\ pc[w] = "sync" /\ it[w] \in 0..(R - 1) /\ k1 \in 1..R
      /\ bcast[k1] # NoPayload /\ k1 <= Closed
      /\ bcast[k1].level \in Levels /\ bcast[k1].average = Round(it[w])
  BY DEF WorkerInv, BcastInv
<1>2. /\ it'[w] = k1 /\ model'[w] = Round(k1 - 1) /\ prev'[w] = bcast[k1].level
      /\ pc'[w] = IF Converged(prev[w], bcast[k1].level) \/ k1 = R THEN "done" ELSE "step"
  BY <1>1 DEF TypeOK
<1>3. \A v \in Worker : v # w =>
        it'[v] = it[v] /\ model'[v] = model[v] /\ prev'[v] = prev[v] /\ pc'[v] = pc[v]
  BY DEF TypeOK
<1>4. Converged(prev[w], bcast[k1].level) <=> ConvergedAt(k1)
  <2>1. prev[w] = bcast[k1 - 1].level
    BY <1>1 DEF ReceivedInv
  <2>2. QED  BY <1>1, <2>1 DEF Converged, ConvergedAt
<1>5. TypeOK'
  <2>1. Round(it[w]) \in SUBSET Contribution
    BY <1>1, RoundType
  <2>2. QED  BY <1>1, <2>1 DEF TypeOK
<1>6. WorkerInv'
  BY <1>1, <1>2, <1>3 DEF WorkerInv
<1>7. \A v \in Worker : Contributed(v)' = Contributed(v)
  BY <1>1, <1>2, <1>3 DEF Contributed
<1>8. GatheredInv'
  BY <1>7 DEF GatheredInv
<1>9. Closed' = Closed /\ (Closed' > it'[0] => pc'[0] = "sync")
  <2>1. CASE w = 0
    <3>1. Closed = k1
      BY <1>1, <2>1 DEF Closed
    <3>2. k1 < R => bcast[k1 + 1] = NoPayload
      BY <1>1, <3>1 DEF BcastInv
    <3>3. QED  BY <1>1, <1>2, <2>1, <3>1, <3>2 DEF Closed
  <2>2. CASE w # 0
    BY <1>3, <2>2 DEF Closed, BcastInv
  <2>3. QED  BY <2>1, <2>2
<1>10. BcastInv'
  <2>1. pc'[0] = "load" => pc[0] = "load"
    BY <1>2, <1>3
  <2>2. QED  BY <1>7, <1>9, <2>1 DEF BcastInv
<1>11. ReceivedInv'
  BY <1>1, <1>2, <1>3, <1>9 DEF ReceivedInv, KMeans
<1>12. StopsAtFirstConvergence'
  <2> SUFFICES ASSUME NEW v \in Worker
               PROVE  /\ \A k \in 1..(it'[v] - 1) : ~ConvergedAt(k)
                      /\ pc'[v] = "done" =>
                           (it'[v] = R \/ ConvergedAt(it'[v])) /\ model'[v] = Round(it'[v] - 1)
                      /\ pc'[v] \in {"step", "sync"} /\ it'[v] > 0 => ~ConvergedAt(it'[v])
    BY DEF StopsAtFirstConvergence, ConvergedAt
  <2>1. CASE v = w
    BY <1>1, <1>2, <1>4, <2>1 DEF StopsAtFirstConvergence
  <2>2. CASE v # w
    BY <1>3, <2>2 DEF StopsAtFirstConvergence
  <2>3. QED  BY <2>1, <2>2
<1>13. QED
  BY <1>5, <1>6, <1>8, <1>10, <1>11, <1>12

LEMMA FailIInv ==
  ASSUME IInv, NEW w \in Worker, Fail(w)
  PROVE  IInv'
<1> USE Facts DEF IInv, Fail, mainVars
<1>1. /\ pc[w] \in {"load", "step", "done"} /\ pc'[w] = "failed"
      /\ \A v \in Worker : v # w => pc'[v] = pc[v]
  BY DEF TypeOK
<1>2. TypeOK'
  BY DEF TypeOK
<1>3. \A v \in Worker : Contributed(v)' = Contributed(v)
  BY <1>1 DEF Contributed
<1>4. Closed' = Closed
  BY DEF Closed
<1>5. WorkerInv' /\ GatheredInv'
  BY <1>1, <1>3 DEF WorkerInv, GatheredInv
<1>6. BcastInv'
  <2>1. Closed' > it'[0] => pc'[0] = "sync"
    BY <1>1, <1>4 DEF BcastInv
  <2>2. pc'[0] = "load" => pc[0] = "load"
    BY <1>1
  <2>3. QED  BY <1>3, <1>4, <2>1, <2>2 DEF BcastInv
<1>7. ReceivedInv'
  BY <1>1, <1>4 DEF ReceivedInv, KMeans
<1>8. StopsAtFirstConvergence'
  BY <1>1, StopsKept
<1>9. QED
  BY <1>2, <1>5, <1>6, <1>7, <1>8

----------------------------------------------------------------------------
(* All steps *)

\* The root of COMM_WORLD takes no part in the rounds.
LEMMA RootIInv ==
  ASSUME IInv, Collect \/ Conclude \/ Ended \/ UNCHANGED vars
  PROVE  IInv'
<1> USE Facts DEF IInv
<1>1. UNCHANGED <<application, workerVars, gathered, bcast>>
  BY DEF Collect, Conclude, Ended, vars
<1>2. TypeOK'
  BY <1>1 DEF TypeOK, Collect, Conclude, Ended, vars, workerVars, mainVars
<1>3. WorkerInv' /\ GatheredInv' /\ BcastInv' /\ ReceivedInv' /\ StopsAtFirstConvergence'
  BY <1>1 DEF WorkerInv, GatheredInv, BcastInv, ReceivedInv, StopsAtFirstConvergence, ConvergedAt,
     Contributed, Closed, KMeans, workerVars
<1>4. QED
  BY <1>2, <1>3

LEMMA NextIInv == IInv /\ [Next]_vars => IInv'
<1> SUFFICES ASSUME IInv, [Next]_vars PROVE IInv'  OBVIOUS
<1>1. ASSUME NEW w \in Worker, WorkerStep(w) \/ Fail(w)
      PROVE  IInv'
  BY <1>1, LoadIInv, SeedIInv, GatherIInv, AverageIInv, InstallIInv, FailIInv DEF WorkerStep
<1>2. QED
  BY <1>1, RootIInv DEF Next

LEMMA Invariant == Spec => []IInv
BY InitIInv, NextIInv, PTL DEF Spec

----------------------------------------------------------------------------
(* Results *)

\* Type correctness: every variable of the MPI rounds keeps its type.
THEOREM TypeCorrect == Spec => []TypeOK
<1>1. IInv => TypeOK  BY DEF IInv
<1>2. QED  BY <1>1, Invariant, PTL

\* Each rank stops on its own test (_loss_converged, centroid_shift < tol), and yet in the
\* first round that has converged, or the last, with the mean of that round.
THEOREM StopsTogether == Spec => []StopsAtFirstConvergence
<1>1. IInv => StopsAtFirstConvergence  BY DEF IInv
<1>2. QED  BY <1>1, Invariant, PTL

\* "identical on every rank": two ranks that have finished did as many rounds and hold
\* the same model, so the result of rank 0 speaks for all; and while one rank has
\* finished, no other works past its last round, so no collective is left half entered.
THEOREM SameStopEverywhere ==
  Spec => [](\A v, w \in Worker : pc[v] = "done" =>
               /\ pc[w] = "done" => it[v] = it[w] /\ model[v] = model[w]
               /\ pc[w] \in {"step", "sync"} => it[w] < it[v])
<1>1. ASSUME IInv, NEW v \in Worker, NEW w \in Worker, pc[v] = "done"
      PROVE  /\ pc[w] = "done" => it[v] = it[w] /\ model[v] = model[w]
             /\ pc[w] \in {"step", "sync"} => it[w] < it[v]
  <2>1. it[v] \in 1..R /\ it[w] \in 0..R /\ (it[v] = R \/ ConvergedAt(it[v]))
    BY <1>1, Facts DEF IInv, WorkerInv, StopsAtFirstConvergence
  <2>2. CASE pc[w] = "done"
    <3>1. it[w] \in 1..R /\ (it[w] = R \/ ConvergedAt(it[w]))
      BY <1>1, <2>2, Facts DEF IInv, WorkerInv, StopsAtFirstConvergence
    <3>2. ~(it[v] < it[w]) /\ ~(it[w] < it[v])
      BY <1>1, <2>1, <3>1, Facts DEF IInv, StopsAtFirstConvergence
    <3>3. it[v] = it[w]
      BY <2>1, <3>1, <3>2, Facts
    <3>4. model[v] = model[w]
      BY <1>1, <2>2, <3>3 DEF IInv, StopsAtFirstConvergence
    <3>5. QED  BY <2>2, <3>3, <3>4
  <2>3. CASE pc[w] \in {"step", "sync"}
    <3>1. it[w] < R /\ (it[w] > 0 => ~ConvergedAt(it[w]))
      BY <1>1, <2>3 DEF IInv, WorkerInv, StopsAtFirstConvergence
    <3>2. it[w] # it[v] /\ ~(it[v] < it[w])
      BY <1>1, <2>1, <3>1, Facts DEF IInv, StopsAtFirstConvergence
    <3>3. QED  BY <2>1, <2>3, <3>2, Facts
  <2>4. QED  BY <2>2, <2>3
<1>2. IInv => \A v, w \in Worker : pc[v] = "done" =>
               /\ pc[w] = "done" => it[v] = it[w] /\ model[v] = model[w]
               /\ pc[w] \in {"step", "sync"} => it[w] < it[v]
  BY <1>1
<1>3. QED
  BY <1>2, Invariant, PTL

----------------------------------------------------------------------------
(* The rounds are barrier rounds *)

ContributedBar == [w \in Worker |-> it[w] + (IF pc[w] = "sync" THEN 1 ELSE 0)]
ClosedBar == Cardinality({k \in 1..R : bcast[k] # NoPayload})

\* The number of broadcasts, when they are those of the first c rounds.
LEMMA FirstRounds ==
  ASSUME NEW b, NEW c \in 0..R, \A k \in 1..R : b[k] # NoPayload <=> k <= c
  PROVE  Cardinality({k \in 1..R : b[k] # NoPayload}) = c
<1>1. {k \in 1..R : b[k] # NoPayload} = 1..c
  BY ConstantsAssumption
<1>2. Cardinality(1..c) = IF 1 > c THEN 0 ELSE c - 1 + 1
  BY FS_Interval
<1>3. Cardinality(1..c) = c
  BY <1>2, ConstantsAssumption
<1>4. QED
  BY <1>1, <1>3, Zenon

LEMMA BarClosed ==
  ASSUME IInv
  PROVE  ClosedBar = Closed
BY Facts, FirstRounds DEF IInv, BcastInv, ClosedBar

LEMMA BarInit == Init => Rounds!Init
<1> SUFFICES ASSUME Init PROVE Rounds!Init  OBVIOUS
<1>1. ContributedBar = [w \in Worker |-> 0]
  BY DEF Init, ContributedBar
<1>2. ClosedBar = 0
  <2>1. \A k \in 1..R : bcast[k] # NoPayload <=> k <= 0
    BY ConstantsAssumption DEF Init
  <2>2. QED  BY <2>1, FirstRounds, ConstantsAssumption DEF ClosedBar
<1>3. QED
  BY <1>1, <1>2 DEF Rounds!Init, Init, ContributedBar, ClosedBar

\* Entering the gather contributes.
LEMMA BarGather ==
  ASSUME IInv, NEW w \in Worker, Gather(w)
  PROVE  Rounds!Contribute(w)
<1> USE Facts DEF IInv, Gather
<1>1. pc[w] = "step" /\ it[w] \in 0..(R - 1)
  BY DEF WorkerInv
<1>2. ContributedBar[w] = it[w]
  BY <1>1 DEF ContributedBar
<1>3. ContributedBar' = [ContributedBar EXCEPT ![w] = ContributedBar[w] + 1]
  BY <1>1, <1>2 DEF ContributedBar, TypeOK
<1>4. ClosedBar' = ClosedBar
  BY DEF ClosedBar
<1>5. QED
  BY <1>1, <1>2, <1>3, <1>4 DEF Rounds!Contribute, ContributedBar, ClosedBar

\* The mean of rank 0 closes the round: every worker has contributed to it and none to
\* the next.
LEMMA BarAverage ==
  ASSUME IInv, Average
  PROVE  Rounds!Close
<1> DEFINE k0 == it[0] + 1
<1> USE Facts DEF Average, workerVars
<1>1. IInv'
  BY AverageIInv
<1>2. pc[0] = "sync" /\ it[0] \in 0..(R - 1)
  BY DEF IInv, WorkerInv
<1>3. Closed = it[0]
  BY <1>2 DEF IInv, Closed
<1>4. bcast'[k0] # NoPayload /\ \A k \in 1..R : k # k0 => bcast'[k] = bcast[k]
  <2>1. PICK l \in Levels : bcast' = [bcast EXCEPT ![k0] = [level |-> l, average |-> gathered[k0]]]
    BY DEF Average
  <2>2. bcast'[k0] = [level |-> l, average |-> gathered[k0]]
        /\ \A k \in 1..R : k # k0 => bcast'[k] = bcast[k]
    BY <1>2, <2>1 DEF IInv, TypeOK
  <2>3. [level |-> l, average |-> gathered[k0]].level # NoPayload.level
    OBVIOUS
  <2>4. QED  BY <2>2, <2>3
<1>5. ClosedBar = it[0] /\ ClosedBar' = k0
  <2>1. \A k \in 1..R : bcast'[k] # NoPayload <=> k <= k0
    BY <1>2, <1>3, <1>4 DEF IInv, BcastInv
  <2>2. Cardinality({k \in 1..R : bcast'[k] # NoPayload}) = k0
    <3> HIDE DEF Average
    <3>1. k0 \in 0..R
      BY <1>2
    <3>2. QED  BY <2>1, <3>1, FirstRounds
  <2>3. QED  BY <1>3, <2>2, BarClosed DEF ClosedBar
<1>6. \A w \in Worker : ContributedBar[w] = k0
  <2> SUFFICES ASSUME NEW w \in Worker PROVE ContributedBar[w] = k0  OBVIOUS
  <2>1. k0 <= Contributed(w)
    BY <1>1, <1>2, <1>4 DEF IInv, BcastInv, Contributed
  <2>2. it[w] <= it[0]
    BY <1>3 DEF IInv, ReceivedInv
  <2>3. QED  BY <1>2, <2>1, <2>2 DEF Contributed, ContributedBar
<1>7. ContributedBar' = ContributedBar /\ it' = it
  BY DEF ContributedBar
<1>8. ClosedBar < R /\ ClosedBar' = ClosedBar + 1 /\ \A w \in Worker : ContributedBar[w] = ClosedBar + 1
  BY <1>2, <1>5, <1>6
<1>9. QED
  BY <1>7, <1>8 DEF Rounds!Close, ContributedBar, ClosedBar

\* The return of the broadcast installs the model of a closed round.
LEMMA BarInstall ==
  ASSUME IInv, NEW w \in Worker, Install(w)
  PROVE  Rounds!Install(w)
<1> USE Facts DEF IInv, Install
<1>1. pc[w] = "sync" /\ it[w] \in 0..(R - 1) /\ it[w] + 1 <= Closed
  BY DEF WorkerInv, BcastInv
<1>2. it[w] < ClosedBar
  BY <1>1, BarClosed
<1>3. it' = [it EXCEPT ![w] = it[w] + 1]
  OBVIOUS
<1>4. ContributedBar' = ContributedBar
  <2>1. pc'[w] # "sync" /\ it'[w] = it[w] + 1
    BY <1>1 DEF TypeOK
  <2>2. \A v \in Worker : v # w => pc'[v] = pc[v] /\ it'[v] = it[v]
    BY DEF TypeOK
  <2>3. QED  BY <1>1, <2>1, <2>2 DEF ContributedBar
<1>5. ClosedBar' = ClosedBar
  BY DEF ClosedBar
<1>6. QED
  BY <1>2, <1>3, <1>4, <1>5 DEF Rounds!Install, ContributedBar, ClosedBar

\* Loading, the seed broadcast, failures and the root are outside the rounds.
LEMMA BarOther ==
  ASSUME IInv,
         \/ \E w \in Worker : Load(w) \/ Seed(w) \/ Fail(w)
         \/ Collect \/ Conclude \/ Ended \/ UNCHANGED vars
  PROVE  UNCHANGED Rounds!vars
<1> USE Facts DEF IInv, TypeOK
<1>1. it' = it
  BY DEF Load, Seed, Fail, Collect, Conclude, Ended, vars, workerVars
<1>2. \A v \in Worker : pc'[v] = "sync" <=> pc[v] = "sync"
  BY DEF Load, Seed, Fail, Collect, Conclude, Ended, vars, workerVars
<1>3. \A k \in 1..R : bcast'[k] = bcast[k]
  BY DEF Load, Seed, Fail, Collect, Conclude, Ended, vars, workerVars
<1>4. ContributedBar' = ContributedBar /\ ClosedBar' = ClosedBar
  BY <1>1, <1>2, <1>3 DEF ContributedBar, ClosedBar
<1>5. QED
  BY <1>1, <1>4 DEF Rounds!vars, ContributedBar, ClosedBar

\* gather, mean and bcast make barrier rounds: no rank contributes twice to a round or
\* before it has the last model, and a round closes over the contributions of all.
THEOREM ImplementsBarrierRounds == Spec => ImplementsRounds
<1>1. IInv /\ [Next]_vars => [Rounds!Next]_(Rounds!vars)
  <2> SUFFICES ASSUME IInv, [Next]_vars PROVE [Rounds!Next]_(Rounds!vars)  OBVIOUS
  <2>1. ASSUME NEW w \in Worker, WorkerStep(w) \/ Fail(w)
        PROVE  Rounds!Next \/ UNCHANGED Rounds!vars
    BY <2>1, BarGather, BarAverage, BarInstall, BarOther DEF WorkerStep, Rounds!Next
  <2>2. CASE Collect \/ Conclude \/ Ended \/ UNCHANGED vars
    BY <2>2, BarOther
  <2>3. QED
    BY <2>1, <2>2 DEF Next
<1>2. QED
  BY BarInit, <1>1, Invariant, PTL DEF Spec, ImplementsRounds, Rounds!Spec

\* So the collectives hold the ranks together: none trains on from a model that is not
\* of the last closed round, and none is more than one round ahead of another.
THEOREM WorkersInLockstep == Spec => []Rounds!Lockstep
<1>1. IInv => Rounds!Lockstep
  <2> SUFFICES ASSUME IInv, NEW w \in Worker
               PROVE  /\ it[w] <= ClosedBar /\ ClosedBar <= ContributedBar[w]
                      /\ ContributedBar[w] <= it[w] + 1
    BY DEF Rounds!Lockstep, ContributedBar, ClosedBar
  <2>1. ClosedBar = Closed /\ Closed \in 0..R /\ it[w] \in 0..R /\ R \in Nat
    BY BarClosed, Facts, ConstantsAssumption DEF IInv, TypeOK, Closed
  <2>2. it[w] <= Closed
    BY DEF IInv, ReceivedInv
  <2>3. Closed > 0 => Closed <= Contributed(w)
    <3>1. Closed > 0 => Closed \in 1..R
      BY <2>1
    <3>2. Closed > 0 => bcast[Closed] # NoPayload
      BY <2>1, <3>1 DEF IInv, BcastInv
    <3>3. QED  BY <3>1, <3>2 DEF IInv, BcastInv
  <2>4. ContributedBar[w] = Contributed(w)
    BY DEF ContributedBar, Contributed
  <2>5. Contributed(w) = it[w] \/ Contributed(w) = it[w] + 1
    BY <2>1 DEF Contributed
  <2>6. QED  BY <2>1, <2>2, <2>3, <2>4, <2>5
<1>2. QED
  BY <1>1, Invariant, PTL

==============================================================================
