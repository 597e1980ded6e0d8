------------------------- MODULE QueueFedAvgProofs -------------------------
(***************************************************************************)
(* Proofs about QueueFedAvg, for every set of workers and every number of  *)
(* rounds.  The argument counts tokens: a worker that sent a message and   *)
(* has not been answered owns one token, which is its message or a copy of *)
(* an average, anybody's.  There are N workers, so when the coordinator    *)
(* holds N messages it holds every token and both queues are empty.        *)
(***************************************************************************)
EXTENDS QueueFedAvg, FiniteSetTheorems, SequenceTheorems, TLAPS

----------------------------------------------------------------------------
(* The inductive invariant *)

\* Where a worker is in its loop, against its two counters.
WorkerInv ==
  \A w \in Worker :
    /\ pc[w] = "fit" => sent[w] = got[w] /\ got[w] < R
    /\ pc[w] = "get" => sent[w] = got[w] + 1
    /\ pc[w] \in {"score", "done"} => sent[w] = R /\ got[w] = R
    /\ pc[w] = "failed" => sent[w] \in {got[w], got[w] + 1}

CoordInv ==
  /\ Cardinality(msgs) <= N
  /\ coord \in {"recv", "dead"} => copies = 0 /\ rounds < R
  /\ coord = "send" => copies \in 1..N /\ msgs = {} /\ rounds < R
  /\ coord = "done" => copies = 0 /\ msgs = {} /\ rounds = R

FiniteInv ==
  /\ IsFiniteSet(up)
  /\ IsFiniteSet(msgs)
  /\ IsFiniteSet(SentMessages)

\* Rounds the coordinator has not reached have no average.
FutureInv == \A r \in Round : r > LatestRound => averaged[r] = {}

\* Messages sent: N for each round closed, and those not averaged yet.
Closed == N * rounds + (IF coord = "send" THEN N ELSE 0)

ProgressInv ==
  Cardinality(SentMessages) = Closed + Cardinality(up) + Cardinality(msgs)

MainInv == main = "complete" => \A w \in Worker : pc[w] = "done"

CollectInv == \A w \in collected : pc[w] \in {"done", "failed"}

IInv ==
  /\ TypeOK
  /\ WorkerInv
  /\ CoordInv
  /\ FiniteInv
  /\ TokenConservation
  /\ OneRoundInFlight
  /\ EachMessageAveragedOnce
  /\ FutureInv
  /\ ProgressInv
  /\ MainInv
  /\ CollectInv

----------------------------------------------------------------------------
(* Finite sets *)

\* The number of workers is a positive number, and a subset of the workers is
\* no larger; when it is as large it is all of them.
LEMMA WorkersFinite ==
  /\ N \in Nat \ {0}
  /\ \A S \in SUBSET Worker :
       /\ IsFiniteSet(S)
       /\ Cardinality(S) \in Nat
       /\ Cardinality(S) <= N
       /\ Cardinality(S) = N => S = Worker
<1>1. N \in Nat /\ N # 0
  BY ConstantsAssumption, FS_CardinalityType, FS_EmptySet DEF N
<1>2. ASSUME NEW S \in SUBSET Worker
      PROVE  /\ IsFiniteSet(S)
             /\ Cardinality(S) \in Nat
             /\ Cardinality(S) <= N
             /\ Cardinality(S) = N => S = Worker
  <2>1. IsFiniteSet(S) /\ Cardinality(S) <= N /\ (Cardinality(S) = N => S = Worker)
    BY ConstantsAssumption, FS_Subset DEF N
  <2>2. QED  BY <2>1, FS_CardinalityType
<1>3. QED  BY <1>1, <1>2

\* What the counting uses of IInv: every term of the sums is a number.
LEMMA Counts ==
  ASSUME TypeOK, FiniteInv
  PROVE  /\ Cardinality(up) \in Nat
         /\ Cardinality(msgs) \in Nat
         /\ Cardinality(SentMessages) \in Nat
         /\ Len(down) \in Nat
         /\ copies \in Nat
         /\ Owed \in SUBSET Worker
         /\ IsFiniteSet(Owed)
         /\ Cardinality(Owed) \in Nat
         /\ Cardinality(Owed) <= N
<1>1. Owed \in SUBSET Worker  BY DEF Owed
<1>2. /\ Cardinality(up) \in Nat
      /\ Cardinality(msgs) \in Nat
      /\ Cardinality(SentMessages) \in Nat
  BY FS_CardinalityType DEF FiniteInv
<1>3. Len(down) \in Nat  BY DEF TypeOK
<1>4. copies \in Nat  BY WorkersFinite DEF TypeOK
<1>5. QED  BY <1>1, <1>2, <1>3, <1>4, WorkersFinite

LEMMA ProductNat ==
  ASSUME NEW a \in Nat, NEW b \in Nat
  PROVE  a * b \in Nat
OBVIOUS

LEMMA ClosedNat ==
  ASSUME TypeOK
  PROVE  Closed \in Nat
<1>1. N \in Nat /\ rounds \in Nat
  BY WorkersFinite, ConstantsAssumption DEF TypeOK
<1>2. N * rounds \in Nat
  BY <1>1, ProductNat
<1>3. QED  BY <1>1, <1>2 DEF Closed

----------------------------------------------------------------------------
(* Initial states *)

LEMMA InitIInv == Init => IInv
<1> SUFFICES ASSUME Init PROVE IInv  OBVIOUS
<1> USE DEF Init
<1>1. TypeOK
  BY ConstantsAssumption, WorkersFinite, EmptySeq DEF TypeOK, Round, Message
<1>2. SentMessages = {}
  BY ConstantsAssumption DEF SentMessages, Message, Round
<1>3. Owed = {}
  BY DEF Owed
<1>4. Cardinality({}) = 0 /\ IsFiniteSet({})
  BY FS_EmptySet
<1>5. WorkerInv
  BY ConstantsAssumption DEF WorkerInv
<1>6. CoordInv
  BY <1>4, ConstantsAssumption, WorkersFinite DEF CoordInv
<1>7. FiniteInv
  BY <1>2, <1>4 DEF FiniteInv
<1>8. TokenConservation
  BY <1>3, <1>4, EmptySeq DEF TokenConservation
<1>9. OneRoundInFlight
  BY EmptySeq DEF OneRoundInFlight
<1>10. EachMessageAveragedOnce /\ FutureInv
  BY <1>2 DEF EachMessageAveragedOnce, FutureInv
<1>11. ProgressInv
  BY <1>2, <1>4, WorkersFinite DEF ProgressInv, Closed
<1>12. MainInv /\ CollectInv
  BY DEF MainInv, CollectInv
<1>13. QED
  BY <1>1, <1>5, <1>6, <1>7, <1>8, <1>9, <1>10, <1>11, <1>12 DEF IInv

----------------------------------------------------------------------------
(* A worker sends: one more unanswered worker, one more message *)

LEMMA PutIInv ==
  ASSUME IInv, NEW w \in Worker, Put(w)
  PROVE  IInv'
<1> DEFINE m == [worker |-> w, iteration |-> sent[w]]
<1> USE DEF IInv, Put, coordVars, mainVars
<1>1. sent[w] = got[w] /\ got[w] < R /\ sent[w] \in Nat /\ got[w] \in Nat
  BY DEF WorkerInv, TypeOK
<1>2. m \in Message
  BY <1>1, ConstantsAssumption DEF Message, Round
<1>3. TypeOK'
  BY <1>1, <1>2, ConstantsAssumption DEF TypeOK
<1>4. m \notin SentMessages
  BY <1>1 DEF SentMessages
<1>5. SentMessages' = SentMessages \cup {m}
  <2>1. ASSUME NEW n \in Message
        PROVE  n.iteration < sent'[n.worker] <=> n.iteration < sent[n.worker] \/ n = m
    <3>1. /\ n.worker \in Worker
          /\ n.iteration \in 0..(R-1)
          /\ n = [worker |-> n.worker, iteration |-> n.iteration]
      BY DEF Message, Round
    <3>2. CASE n.worker = w
      <4>1. sent'[n.worker] = sent[w] + 1  BY <3>2, <1>1 DEF TypeOK
      <4>2. n = m <=> n.iteration = sent[w]  BY <3>1, <3>2
      <4>3. QED  BY <4>1, <4>2, <3>1, <3>2, <1>1, ConstantsAssumption
    <3>3. CASE n.worker # w
      <4>1. sent'[n.worker] = sent[n.worker]  BY <3>1, <3>3 DEF TypeOK
      <4>2. n # m  BY <3>3
      <4>3. QED  BY <4>1, <4>2
    <3>4. QED  BY <3>2, <3>3
  <2>2. QED  BY <2>1, <1>2 DEF SentMessages
<1>6. m \notin up
  BY <1>4 DEF EachMessageAveragedOnce
<1>7. /\ IsFiniteSet(up') /\ Cardinality(up') = Cardinality(up) + 1
      /\ IsFiniteSet(SentMessages')
      /\ Cardinality(SentMessages') = Cardinality(SentMessages) + 1
  BY <1>4, <1>5, <1>6, FS_AddElement DEF FiniteInv
<1>8. Owed' = Owed \cup {w} /\ w \notin Owed
  BY <1>1 DEF Owed, TypeOK
<1>9. Cardinality(Owed') = Cardinality(Owed) + 1
  BY <1>8, Counts, FS_AddElement
<1>10. WorkerInv'
  BY <1>1 DEF WorkerInv, TypeOK
<1>11. CoordInv'
  BY DEF CoordInv
<1>12. FiniteInv'
  BY <1>7 DEF FiniteInv
<1>13. TokenConservation'
  BY <1>7, <1>9, Counts DEF TokenConservation
<1>14. OneRoundInFlight' /\ FutureInv'
  BY DEF OneRoundInFlight, FutureInv, LatestRound
<1>15. EachMessageAveragedOnce'
  <2>1. m \notin msgs /\ \A r \in Round : m \notin averaged[r]
    BY <1>4 DEF EachMessageAveragedOnce
  <2>2. SentMessages' = up' \cup msgs' \cup UNION {averaged'[r] : r \in Round}
    BY <1>5 DEF EachMessageAveragedOnce
  <2>3. QED  BY <2>1, <2>2 DEF EachMessageAveragedOnce
<1>16. ProgressInv'
  <2>1. Closed' = Closed
    BY DEF Closed
  <2>2. QED  BY <1>7, <2>1, Counts, ClosedNat DEF ProgressInv
<1>17. MainInv' /\ CollectInv'
  BY DEF MainInv, CollectInv, TypeOK
<1>18. QED
  BY <1>3, <1>10, <1>11, <1>12, <1>13, <1>14, <1>15, <1>16, <1>17

----------------------------------------------------------------------------
(* A worker takes a copy: one unanswered worker and one copy less *)

LEMMA GetIInv ==
  ASSUME IInv, NEW w \in Worker, Get(w)
  PROVE  IInv'
<1> USE DEF IInv, Get, coordVars, mainVars
<1>1. /\ sent[w] = got[w] + 1
      /\ sent[w] \in 0..R /\ got[w] \in 0..R /\ got[w] + 1 \in 0..R
  BY ConstantsAssumption DEF WorkerInv, TypeOK
<1>2. /\ Head(down) \in Round
      /\ Tail(down) \in Seq(Round)
      /\ Len(Tail(down)) = Len(down) - 1
      /\ \A i \in 1..Len(Tail(down)) : Tail(down)[i] = down[i + 1]
  BY HeadTailProperties DEF TypeOK
<1>3. TypeOK'
  BY <1>1, <1>2 DEF TypeOK, Round
<1>4. SentMessages' = SentMessages
  BY DEF SentMessages
<1>5. Owed' = Owed \ {w} /\ w \in Owed
  BY <1>1 DEF Owed, TypeOK
<1>6. Cardinality(Owed') = Cardinality(Owed) - 1
  BY <1>5, Counts, FS_RemoveElement
<1>7. WorkerInv'
  <2>1. /\ got'[w] = got[w] + 1 /\ sent'[w] = sent[w]
        /\ pc'[w] = IF got[w] + 1 = R THEN "score" ELSE "fit"
    BY DEF TypeOK
  <2>2. \A v \in Worker \ {w} : got'[v] = got[v] /\ sent'[v] = sent[v] /\ pc'[v] = pc[v]
    BY DEF TypeOK
  <2>3. QED  BY <1>1, <2>1, <2>2, ConstantsAssumption DEF WorkerInv
<1>8. CoordInv' /\ FiniteInv'
  BY <1>4 DEF CoordInv, FiniteInv
<1>9. TokenConservation'
  BY <1>2, <1>6, Counts DEF TokenConservation
<1>10. OneRoundInFlight'
  <2>1. Len(down) \in Nat /\ Len(Tail(down)) \in Nat  BY <1>2, LenProperties DEF TypeOK
  <2>2. LatestRound' = LatestRound  BY DEF LatestRound
  <2>3. QED  BY <1>2, <2>1, <2>2 DEF OneRoundInFlight
<1>11. EachMessageAveragedOnce' /\ FutureInv'
  BY <1>4 DEF EachMessageAveragedOnce, FutureInv, LatestRound
<1>12. ProgressInv'
  BY <1>4 DEF ProgressInv, Closed
<1>13. MainInv' /\ CollectInv'
  BY DEF MainInv, CollectInv, TypeOK
<1>14. QED
  BY <1>3, <1>7, <1>8, <1>9, <1>10, <1>11, <1>12, <1>13

----------------------------------------------------------------------------
(* Steps of a worker or of the main thread that touch no queue *)

LEMMA QuietIInv ==
  ASSUME IInv,
         UNCHANGED <<sent, got, model, up, down, rounds, msgs, copies, averaged>>,
         coord' = coord \/ (coord = "recv" /\ coord' = "dead"),
         TypeOK', WorkerInv', MainInv', CollectInv'
  PROVE  IInv'
<1>1. SentMessages' = SentMessages /\ Owed' = Owed
  BY DEF SentMessages, Owed
<1>2. LatestRound' = LatestRound /\ Closed' = Closed
  BY DEF LatestRound, Closed
<1>3. CoordInv' /\ FiniteInv'
  BY <1>1 DEF IInv, CoordInv, FiniteInv
<1>4. TokenConservation' /\ ProgressInv'
  BY <1>1, <1>2 DEF IInv, TokenConservation, ProgressInv
<1>5. OneRoundInFlight' /\ FutureInv'
  BY <1>2 DEF IInv, OneRoundInFlight, FutureInv
<1>6. EachMessageAveragedOnce'
  BY <1>1 DEF IInv, EachMessageAveragedOnce
<1>7. QED
  BY <1>3, <1>4, <1>5, <1>6 DEF IInv

\* A worker that times out, scores or fails, and a coordinator that times out.
LEMMA EndIInv ==
  ASSUME IInv,
         \/ \E w \in Worker : GetTimesOut(w) \/ Score(w) \/ Fail(w)
         \/ ReceiveTimesOut
  PROVE  IInv'
<1>1. ASSUME NEW w \in Worker, GetTimesOut(w) \/ Score(w) \/ Fail(w)
      PROVE  IInv'
  <2> USE <1>1 DEF IInv, GetTimesOut, Score, Fail, coordVars, mainVars
  <2>1. TypeOK'
    BY DEF TypeOK
  <2>2. WorkerInv'
    BY DEF WorkerInv, TypeOK
  <2>3. MainInv' /\ CollectInv'
    BY DEF MainInv, CollectInv, TypeOK
  <2>4. QED
    BY <2>1, <2>2, <2>3, QuietIInv
<1>2. ASSUME ReceiveTimesOut
      PROVE  IInv'
  <2> USE <1>2 DEF IInv, ReceiveTimesOut, workerVars, mainVars
  <2>1. TypeOK'
    BY DEF TypeOK
  <2>2. WorkerInv' /\ MainInv' /\ CollectInv'
    BY DEF WorkerInv, MainInv, CollectInv
  <2>3. QED
    BY <2>1, <2>2, QuietIInv
<1>3. QED
  BY <1>1, <1>2

LEMMA MainIInv ==
  ASSUME IInv, MainStep
  PROVE  IInv'
<1> USE DEF IInv, workerVars, coordVars
<1>1. ASSUME NEW w \in Worker, Collect(w)
      PROVE  IInv'
  <2> USE <1>1 DEF Collect
  <2>1. TypeOK'
    BY DEF TypeOK
  <2>2. WorkerInv' /\ MainInv' /\ CollectInv'
    BY DEF WorkerInv, MainInv, CollectInv
  <2>3. QED
    BY <2>1, <2>2, QuietIInv
<1>2. ASSUME Conclude
      PROVE  IInv'
  <2> USE <1>2 DEF Conclude
  <2>1. TypeOK'
    BY DEF TypeOK
  <2>2. MainInv'
    BY DEF MainInv, CollectInv
  <2>3. WorkerInv' /\ CollectInv'
    BY DEF WorkerInv, CollectInv
  <2>4. QED
    BY <2>1, <2>2, <2>3, QuietIInv
<1>3. QED
  BY <1>1, <1>2 DEF MainStep

----------------------------------------------------------------------------
(* The coordinator receives, closes a round, sends a copy *)

LEMMA ReceiveIInv ==
  ASSUME IInv, NEW m \in up, Receive(m)
  PROVE  IInv'
<1> USE DEF IInv, Receive, workerVars, mainVars
<1>1. SentMessages' = SentMessages /\ Owed' = Owed
  BY DEF SentMessages, Owed
<1>2. LatestRound' = LatestRound /\ Closed' = Closed
  BY DEF LatestRound, Closed
<1>3. TypeOK'
  BY DEF TypeOK
<1>4. m \notin msgs
  BY DEF EachMessageAveragedOnce
<1>5. /\ IsFiniteSet(up') /\ Cardinality(up') = Cardinality(up) - 1
      /\ IsFiniteSet(msgs') /\ Cardinality(msgs') = Cardinality(msgs) + 1
  BY <1>4, FS_AddElement, FS_RemoveElement DEF FiniteInv
<1>6. WorkerInv' /\ MainInv' /\ CollectInv'
  BY DEF WorkerInv, MainInv, CollectInv
<1>7. CoordInv'
  BY <1>5, Counts, WorkersFinite DEF CoordInv
<1>8. FiniteInv'
  BY <1>1, <1>5 DEF FiniteInv
<1>9. TokenConservation' /\ ProgressInv'
  BY <1>1, <1>2, <1>5, Counts, ClosedNat DEF TokenConservation, ProgressInv
<1>10. OneRoundInFlight' /\ FutureInv'
  BY <1>2 DEF OneRoundInFlight, FutureInv
<1>11. EachMessageAveragedOnce'
  <2>1. up' \cup msgs' = up \cup msgs
    OBVIOUS
  <2>2. SentMessages' = up' \cup msgs' \cup UNION {averaged'[r] : r \in Round}
    BY <1>1, <2>1 DEF EachMessageAveragedOnce
  <2>3. up' \cap msgs' = {}
    BY DEF EachMessageAveragedOnce
  <2>4. QED
    BY <2>1, <2>2, <2>3 DEF EachMessageAveragedOnce
<1>12. QED
  BY <1>3, <1>6, <1>7, <1>8, <1>9, <1>10, <1>11

\* The heart of the argument: with N messages in its list the coordinator holds
\* every token there is.
LEMMA BarrierAtClose ==
  ASSUME TypeOK, FiniteInv, TokenConservation
  PROVE  CloseIsBarrier
<1> SUFFICES ASSUME Cardinality(msgs) = N
             PROVE  up = {} /\ down = <<>> /\ Owed = Worker
  BY DEF CloseIsBarrier
<1>1. /\ Cardinality(up) = 0
      /\ Len(down) = 0
      /\ Cardinality(Owed) = N
  BY Counts, WorkersFinite DEF TokenConservation
<1>2. up = {}
  BY <1>1, FS_EmptySet DEF FiniteInv
<1>3. down = <<>>
  BY <1>1, EmptySeq DEF TypeOK
<1>4. Owed = Worker
  BY <1>1, Counts, WorkersFinite
<1>5. QED
  BY <1>2, <1>3, <1>4

LEMMA CloseRoundIInv ==
  ASSUME IInv, CloseRound
  PROVE  IInv'
<1> USE DEF IInv, CloseRound, workerVars, mainVars
<1>1. SentMessages' = SentMessages /\ Owed' = Owed
  BY DEF SentMessages, Owed
<1>2. rounds \in Round /\ rounds \in Nat /\ N \in Nat /\ N # 0
  BY ConstantsAssumption, WorkersFinite DEF CoordInv, TypeOK, Round
<1>3. TypeOK'
  BY <1>2 DEF TypeOK
<1>4. up = {} /\ down = <<>>
  BY BarrierAtClose DEF CloseIsBarrier
<1>5. Cardinality({}) = 0 /\ IsFiniteSet({})
  BY FS_EmptySet
<1>6. averaged[rounds] = {}
  BY <1>2 DEF FutureInv, LatestRound
<1>7. WorkerInv' /\ MainInv' /\ CollectInv'
  BY DEF WorkerInv, MainInv, CollectInv
<1>8. CoordInv'
  BY <1>2, <1>5 DEF CoordInv
<1>9. FiniteInv'
  BY <1>1, <1>5 DEF FiniteInv
<1>10. copies = 0
  BY DEF CoordInv
<1>11. TokenConservation'
  BY <1>1, <1>2, <1>5, <1>10, Counts DEF TokenConservation
<1>12. OneRoundInFlight'
  BY <1>4, EmptySeq DEF OneRoundInFlight
<1>13. FutureInv'
  <2>1. LatestRound' = rounds /\ LatestRound = rounds - 1
    BY DEF LatestRound
  <2>2. ASSUME NEW r \in Round, r > rounds
        PROVE  averaged'[r] = {}
    BY <2>1, <2>2, <1>2 DEF FutureInv, TypeOK, Round
  <2>3. QED  BY <2>1, <2>2 DEF FutureInv
<1>14. ProgressInv'
  <2>1. Closed' = N * rounds + N /\ Closed = N * rounds
    BY <1>2, ProductNat DEF Closed
  <2>2. N * rounds \in Nat
    BY <1>2, ProductNat
  <2>3. QED
    BY <1>1, <1>2, <1>4, <1>5, <2>1, <2>2, Counts DEF ProgressInv
<1>15. EachMessageAveragedOnce'
  <2>1. averaged'[rounds] = msgs /\ \A r \in Round \ {rounds} : averaged'[r] = averaged[r]
    BY <1>2 DEF TypeOK
  <2>2. UNION {averaged'[r] : r \in Round} = msgs \cup UNION {averaged[r] : r \in Round}
    BY <1>2, <1>6, <2>1
  <2>3. SentMessages' = up' \cup msgs' \cup UNION {averaged'[r] : r \in Round}
    BY <1>1, <2>2 DEF EachMessageAveragedOnce
  <2>4. \A r \in Round : averaged'[r] \cap (up' \cup msgs') = {}
    BY <1>4
  <2>5. \A r \in Round : \A s \in Round \ {r} : averaged'[r] \cap averaged'[s] = {}
    BY <2>1 DEF EachMessageAveragedOnce
  <2>6. up' \cap msgs' = {}
    OBVIOUS
  <2>7. QED
    BY <2>3, <2>4, <2>5, <2>6 DEF EachMessageAveragedOnce
<1>16. QED
  BY <1>3, <1>7, <1>8, <1>9, <1>11, <1>12, <1>13, <1>14, <1>15

LEMMA SendCopyIInv ==
  ASSUME IInv, SendCopy
  PROVE  IInv'
<1> USE DEF IInv, SendCopy, workerVars, mainVars
<1>1. SentMessages' = SentMessages /\ Owed' = Owed
  BY DEF SentMessages, Owed
<1>2. /\ rounds \in Round /\ rounds \in Nat /\ rounds + 1 \in 0..R
      /\ N \in Nat \ {0} /\ copies \in 1..N /\ msgs = {}
  BY ConstantsAssumption, WorkersFinite DEF CoordInv, TypeOK, Round
<1>3. /\ down' \in Seq(Round)
      /\ Len(down') = Len(down) + 1
      /\ \A i \in 1..Len(down) : down'[i] = down[i]
      /\ down'[Len(down) + 1] = rounds
  BY <1>2, AppendProperties DEF TypeOK
<1>4. TypeOK'
  BY <1>2, <1>3 DEF TypeOK
<1>5. LatestRound' = LatestRound /\ LatestRound = rounds
  BY <1>2 DEF LatestRound
<1>6. Closed' = Closed
  <2>1. N * (rounds + 1) = N * rounds + N
    BY <1>2
  <2>2. N * rounds \in Nat
    BY <1>2, ProductNat
  <2>3. QED
    BY <1>2, <2>1, <2>2 DEF Closed
<1>7. WorkerInv' /\ MainInv' /\ CollectInv'
  BY DEF WorkerInv, MainInv, CollectInv
<1>8. CoordInv'
  BY <1>2, ConstantsAssumption DEF CoordInv
<1>9. FiniteInv'
  BY <1>1 DEF FiniteInv
<1>10. TokenConservation' /\ ProgressInv'
  <2>1. TokenConservation'
    <3>1. Cardinality(up) + Cardinality(msgs) + copies + Len(down) = Cardinality(Owed)
      BY DEF TokenConservation
    <3>2. Cardinality(up) + Cardinality(msgs) + (copies - 1) + (Len(down) + 1)
            = Cardinality(Owed)
      BY <3>1, <1>2, Counts
    <3>3. QED  BY <3>2, <1>1, <1>3 DEF TokenConservation
  <2>2. ProgressInv'
    BY <1>1, <1>6 DEF ProgressInv
  <2>3. QED  BY <2>1, <2>2
<1>11. OneRoundInFlight'
  BY <1>3, <1>5, Counts DEF OneRoundInFlight
<1>12. FutureInv' /\ EachMessageAveragedOnce'
  BY <1>1, <1>5 DEF FutureInv, EachMessageAveragedOnce
<1>13. QED
  BY <1>4, <1>7, <1>8, <1>9, <1>10, <1>11, <1>12

----------------------------------------------------------------------------
(* The invariant holds in every reachable state *)

LEMMA NextIInv ==
  ASSUME IInv, [Next]_vars
  PROVE  IInv'
<1>1. ASSUME NEW w \in Worker, WorkerStep(w)
      PROVE  IInv'
  BY <1>1, PutIInv, GetIInv, EndIInv DEF WorkerStep
<1>2. ASSUME CoordStep
      PROVE  IInv'
  BY <1>2, ReceiveIInv, CloseRoundIInv, SendCopyIInv, EndIInv DEF CoordStep
<1>3. CASE MainStep
  BY <1>3, MainIInv
<1>4. CASE UNCHANGED vars
  <2> USE <1>4 DEF vars, workerVars, coordVars, mainVars
  <2>1. TypeOK' /\ WorkerInv' /\ MainInv' /\ CollectInv'
    BY DEF IInv, TypeOK, WorkerInv, MainInv, CollectInv
  <2>2. QED  BY <2>1, QuietIInv
<1>5. QED
  BY <1>1, <1>2, <1>3, <1>4 DEF Next, Ended

\* Every behaviour of the coordinator, its workers and the main thread satisfies the
\* inductive invariant.
THEOREM Invariance == Spec => []IInv
<1>1. Init => IInv
  BY InitIInv
<1>2. IInv /\ [Next]_vars => IInv'
  BY NextIInv
<1>3. QED
  BY <1>1, <1>2, PTL DEF Spec

\* Every variable keeps its type, for any workers and rounds: counters never pass R
\* and down_queue only ever holds rounds that exist.
THEOREM TypeCorrect == Spec => []TypeOK
<1>1. IInv => TypeOK
  BY DEF IInv
<1>2. QED  BY <1>1, Invariance, PTL

\* run_logreg_allreduce and queue_run.run lose and invent no message: the items in
\* flight are as many as the unanswered workers.
THEOREM TokensConserved == Spec => []TokenConservation
<1>1. IInv => TokenConservation
  BY DEF IInv
<1>2. QED  BY <1>1, Invariance, PTL

\* The close of a round is a barrier for all N workers although the coordinator
\* only counts messages.
THEOREM ClosesAreBarriers == Spec => []CloseIsBarrier
<1>1. IInv => CloseIsBarrier
  BY BarrierAtClose DEF IInv
<1>2. QED  BY <1>1, Invariance, PTL

\* down_queue holds copies of the latest average only.
THEOREM QueueHoldsLatestAverage == Spec => []OneRoundInFlight
<1>1. IInv => OneRoundInFlight
  BY DEF IInv
<1>2. QED  BY <1>1, Invariance, PTL

\* No local model is lost or enters two averages.
THEOREM MessagesAveragedOnce == Spec => []EachMessageAveragedOnce
<1>1. IInv => EachMessageAveragedOnce
  BY DEF IInv
<1>2. QED  BY <1>1, Invariance, PTL

----------------------------------------------------------------------------
(* A completed run *)

LEMMA MessageCount ==
  /\ IsFiniteSet(Message)
  /\ Cardinality(Message) = N * R
<1> DEFINE pairs == Worker \X Round
           f == [p \in pairs |-> [worker |-> p[1], iteration |-> p[2]]]
<1>1. IsFiniteSet(Round) /\ Cardinality(Round) = R
  BY ConstantsAssumption, FS_Interval DEF Round
<1>2. IsFiniteSet(pairs) /\ Cardinality(pairs) = N * R
  BY <1>1, ConstantsAssumption, FS_Product DEF N
<1>3. f \in Bijection(pairs, Message)
  <2>1. f \in [pairs -> Message]
    BY DEF Message
  <2>2. ASSUME NEW p \in pairs, NEW q \in pairs, f[p] = f[q]
        PROVE  p = q
    BY <2>2
  <2>3. ASSUME NEW m \in Message
        PROVE  \E p \in pairs : f[p] = m
    <3>1. <<m.worker, m.iteration>> \in pairs
      BY DEF Message
    <3>2. f[<<m.worker, m.iteration>>] = m
      BY <3>1 DEF Message
    <3>3. QED  BY <3>1, <3>2
  <2>4. QED
    BY <2>1, <2>2, <2>3 DEF Bijection, Injection, Surjection, IsInjective
<1>4. QED
  BY <1>2, <1>3, FS_Bijection DEF ExistsBijection

LEMMA LastAverage ==
  ASSUME IInv
  PROVE  ResultIsLastAverage
<1> SUFFICES ASSUME main = "complete"
             PROVE  coord = "done" /\ rounds = R /\ down = <<>>
  BY DEF ResultIsLastAverage
<1> USE DEF IInv
<1>1. \A w \in Worker : sent[w] = R /\ got[w] = R
  BY DEF MainInv, WorkerInv
<1>2. Owed = {}
  BY <1>1, ConstantsAssumption DEF Owed
<1>3. Cardinality(up) = 0 /\ Cardinality(msgs) = 0 /\ copies = 0 /\ Len(down) = 0
  BY <1>2, FS_EmptySet, Counts DEF TokenConservation
<1>4. SentMessages = Message
  <2>1. ASSUME NEW m \in Message
        PROVE  m.iteration < sent[m.worker]
    <3>1. m.worker \in Worker /\ m.iteration \in 0..(R - 1)
      BY DEF Message, Round
    <3>2. QED  BY <1>1, <3>1, ConstantsAssumption
  <2>2. QED  BY <2>1 DEF SentMessages
<1>5. N * R = Closed
  BY <1>3, <1>4, MessageCount, ClosedNat DEF ProgressInv
<1>6. coord # "send"
  BY <1>3, WorkersFinite DEF CoordInv
<1>7. N * R = N * rounds
  <2>1. N * rounds \in Nat
    BY WorkersFinite, ConstantsAssumption, ProductNat DEF TypeOK
  <2>2. QED  BY <1>5, <1>6, <2>1 DEF Closed
<1>8. rounds = R
  <2>1. ASSUME NEW a \in Nat \ {0}, NEW b \in Nat, NEW c \in Nat, a * b = a * c
        PROVE  b = c
    BY <2>1
  <2>2. rounds \in Nat
    BY ConstantsAssumption DEF TypeOK
  <2>3. QED  BY <1>7, <2>1, <2>2, WorkersFinite, ConstantsAssumption
<1>9. coord = "done"
  BY <1>6, <1>8, ConstantsAssumption DEF CoordInv, TypeOK
<1>10. down = <<>>
  BY <1>3, EmptySeq DEF TypeOK
<1>11. QED
  BY <1>8, <1>9, <1>10

\* A run that completes has its R rounds behind it and the coordinator's result.
THEOREM CompleteMeansAllRounds == Spec => []ResultIsLastAverage
<1>1. IInv => ResultIsLastAverage
  BY LastAverage
<1>2. QED  BY <1>1, Invariance, PTL
=============================================================================
