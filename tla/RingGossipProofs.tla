--------------------------- MODULE RingGossipProofs ---------------------------
(***************************************************************************)
(* Proofs about RingGossip, for any number of ranks, fanout and number of  *)
(* rounds.  The messages of a link are counted: those its sender has       *)
(* posted and those its receiver has taken are both a matter of how many   *)
(* calls the rank has made, and as both ends make the calls of a link at   *)
(* the same places of a round, the k-th message taken is of the round in   *)
(* which it is taken.                                                      *)
(***************************************************************************)
EXTENDS RingGossip, SequenceTheorems, TLAPS

----------------------------------------------------------------------------
(* The messages of a link *)

CallIndex == 0..(Calls - 1)

Linked(s, r) == \E c \in CallIndex : Dest(s, c) = r
CallTo(s, r) == CHOOSE c \in CallIndex : Dest(s, c) = r

\* Where the offsets +d and -d meet the link is used by the last two calls of a round.
Antipodal(s, r) == 2 * MaxDist = N /\ r = Dest(s, Calls - 1)

\* Messages on the link from s to r in t rounds and the first n calls of the next.
Through(t, n, s, r) ==
  IF Antipodal(s, r)
  THEN 2 * t + (IF n > Calls - 2 THEN 1 ELSE 0) + (IF n > Calls - 1 THEN 1 ELSE 0)
  ELSE IF Linked(s, r) THEN t + (IF n > CallTo(s, r) THEN 1 ELSE 0)
  ELSE 0

\* The round of the message that k others precede.
RoundOf(k, s, r) == IF Antipodal(s, r) THEN k \div 2 ELSE k

\* Calls of its round whose send half, and whose receive half, a rank has made.
Posted(r) == IF pc[r] \in {"recv", "send"} THEN call[r] + 1 ELSE call[r]
Received(r) == IF pc[r] = "send" THEN call[r] + 1 ELSE call[r]

Sent(s, r)  == Through(it[s], Posted(s), s, r)
Gone(s, r) == Through(it[r], Received(r), s, r)

----------------------------------------------------------------------------
(* The inductive invariant *)

Message(s, t) == [rank |-> s, worker_round |-> t]

\* The queue q holds what is under way when n messages are sent and g of them gone.
Holds(q, n, g, s, r) ==
  /\ Len(q) = n - g
  /\ \A i \in 1..Len(q) : q[i] = Message(s, RoundOf(g + i - 1, s, r))

LinkInv == \A s, r \in Rank : Holds(net[<<s, r>>], Sent(s, r), Gone(s, r), s, r)

RankInv ==
  \A r \in Rank :
    /\ pc[r] \in {"load", "seed", "step", "done"} => call[r] = 0
    /\ pc[r] \in {"post", "recv", "send"} => call[r] < Calls
    /\ pc[r] = "mix" => call[r] = Calls
    /\ pc[r] \in {"load", "seed", "step", "post", "recv", "send", "mix"} => it[r] < R
    /\ pc[r] = "done" => it[r] = R
    /\ pc[r] \in {"post", "recv", "send", "mix"} =>
         got[r] = {Message(Source(r, c), it[r]) : c \in 0..(Received(r) - 1)}

IInv == TypeOK /\ LinkInv /\ RankInv

----------------------------------------------------------------------------
(* The ring *)

LEMMA CallsOfARound ==
  ASSUME fanout \in Fanouts
  PROVE  /\ MaxDist \in Nat /\ 2 * MaxDist <= N
         /\ Calls = 2 * MaxDist /\ Calls \in Nat
BY ConstantsAssumption DEF MaxDist, Calls

\* A step of d along the ring, in either direction.
LEMMA RingArithmetic ==
  ASSUME NEW r \in Rank, NEW d \in Nat, d >= 1, 2 * d <= N
  PROVE  /\ (r + d) % N = IF r + d < N THEN r + d ELSE r + d - N
         /\ (r - d) % N = IF r - d >= 0 THEN r - d ELSE r - d + N
BY ConstantsAssumption DEF Rank

\* In one direction different steps lead to different ranks; in opposite directions to
\* the same only if together they are once around the ring.
LEMMA StepsDiffer ==
  ASSUME NEW n \in Nat, NEW s \in Nat, s < n, NEW d \in Nat, NEW e \in Nat,
         d >= 1, 2 * d <= n, e >= 1, 2 * e <= n
  PROVE  /\ (IF s + d < n THEN s + d ELSE s + d - n) = (IF s + e < n THEN s + e ELSE s + e - n)
              => d = e
         /\ (IF s - d >= 0 THEN s - d ELSE s - d + n) = (IF s - e >= 0 THEN s - e ELSE s - e + n)
              => d = e
         /\ (IF s + d < n THEN s + d ELSE s + d - n) = (IF s - e >= 0 THEN s - e ELSE s - e + n)
              => d + e = n
OBVIOUS

LEMMA BackAndForth ==
  ASSUME NEW n \in Nat, NEW s \in Nat, s < n, NEW d \in Nat, d >= 1, 2 * d <= n,
         NEW u \in Nat, NEW v \in Nat,
         u = (IF s + d < n THEN s + d ELSE s + d - n), v = (IF s - d >= 0 THEN s - d ELSE s - d + n)
  PROVE  /\ (IF u - d >= 0 THEN u - d ELSE u - d + n) = s
         /\ (IF v + d < n THEN v + d ELSE v + d - n) = s
OBVIOUS

LEMMA Halves ==
  ASSUME NEW c \in Nat
  PROVE  c \div 2 \in Nat /\ c % 2 \in {0, 1} /\ c = 2 * (c \div 2) + (c % 2)
OBVIOUS

LEMMA DistanceFacts ==
  ASSUME fanout \in Fanouts, NEW c \in CallIndex
  PROVE  /\ Distance(c) \in Nat /\ Distance(c) >= 1 /\ Distance(c) <= MaxDist
         /\ 2 * Distance(c) <= N
         /\ c \in Nat /\ c % 2 \in {0, 1} /\ c = 2 * (Distance(c) - 1) + (c % 2)
<1>1. c \in Nat /\ c <= 2 * MaxDist - 1 /\ MaxDist \in Nat /\ 2 * MaxDist <= N
  BY CallsOfARound DEF CallIndex
<1>2. c \div 2 \in Nat /\ c % 2 \in {0, 1} /\ c = 2 * (c \div 2) + (c % 2)
  BY <1>1, Halves
<1>3. Distance(c) = 1 + c \div 2
  BY DEF Distance
<1> DEFINE h == c \div 2
<1> DEFINE x == c % 2
<1> HIDE DEF h, x
<1>4. h \in Nat /\ x \in {0, 1} /\ c = 2 * h + x /\ Distance(c) = 1 + h
  BY <1>2, <1>3 DEF h, x
<1>5. 1 + h <= MaxDist
  BY <1>1, <1>4
<1>6. /\ Distance(c) \in Nat /\ Distance(c) >= 1 /\ Distance(c) <= MaxDist
      /\ 2 * Distance(c) <= N /\ c = 2 * (Distance(c) - 1) + x
  BY <1>1, <1>4, <1>5, ConstantsAssumption
<1>7. QED  BY <1>1, <1>2, <1>6 DEF x

\* Whom a rank sends to in a call waits for it in the same call.
LEMMA SameCall ==
  ASSUME fanout \in Fanouts, NEW s \in Rank, NEW c \in CallIndex
  PROVE  /\ Dest(s, c) \in Rank /\ Source(s, c) \in Rank
         /\ Source(Dest(s, c), c) = s /\ Dest(Source(s, c), c) = s
         /\ Dest(s, c) # s /\ Source(s, c) # s
<1> DEFINE d == Distance(c)
<1>1. d \in Nat /\ d >= 1 /\ 2 * d <= N /\ c % 2 \in {0, 1}
  BY DistanceFacts
<1> HIDE DEF d
<1>2. ASSUME NEW r \in Rank
      PROVE  /\ (r + d) % N = IF r + d < N THEN r + d ELSE r + d - N
             /\ (r - d) % N = IF r - d >= 0 THEN r - d ELSE r - d + N
             /\ (r + d) % N \in Rank /\ (r - d) % N \in Rank
             /\ (r + d) % N # r /\ (r - d) % N # r
  <2>1. /\ (r + d) % N = IF r + d < N THEN r + d ELSE r + d - N
        /\ (r - d) % N = IF r - d >= 0 THEN r - d ELSE r - d + N
    BY <1>1, RingArithmetic
  <2>2. r \in Int /\ 0 <= r /\ r < N /\ N \in Nat
    BY ConstantsAssumption DEF Rank
  <2>3. (r + d) % N \in Rank /\ (r - d) % N \in Rank
    BY <1>1, <2>1, <2>2 DEF Rank
  <2>4. (r + d) % N # r /\ (r - d) % N # r
    BY <1>1, <2>1, <2>2
  <2>5. QED  BY <2>1, <2>3, <2>4
<1>3. (((s + d) % N) - d) % N = s /\ (((s - d) % N) + d) % N = s
  <2>1. /\ (((s + d) % N) - d) % N =
             IF ((s + d) % N) - d >= 0 THEN ((s + d) % N) - d ELSE ((s + d) % N) - d + N
        /\ (((s - d) % N) + d) % N =
             IF ((s - d) % N) + d < N THEN ((s - d) % N) + d ELSE ((s - d) % N) + d - N
    BY <1>2
  <2>2. s \in Int /\ 0 <= s /\ s < N /\ N \in Nat
    BY ConstantsAssumption DEF Rank
  <2> DEFINE u == (s + d) % N
  <2> DEFINE v == (s - d) % N
  <2>3. /\ u \in Nat /\ v \in Nat /\ s \in Nat
        /\ u = (IF s + d < N THEN s + d ELSE s + d - N)
        /\ v = (IF s - d >= 0 THEN s - d ELSE s - d + N)
    <3>1. Rank \subseteq Nat
      BY DEF Rank
    <3>2. QED  BY <1>2, <3>1
  <2> HIDE DEF u, v
  <2>4. /\ (IF u - d >= 0 THEN u - d ELSE u - d + N) = s
        /\ (IF v + d < N THEN v + d ELSE v + d - N) = s
    BY <1>1, <2>2, <2>3, BackAndForth
  <2>5. QED  BY <2>1, <2>4 DEF u, v
<1>4. CASE c % 2 = 0
  BY <1>2, <1>3, <1>4 DEF Dest, Source, d
<1>5. CASE c % 2 = 1
  BY <1>2, <1>3, <1>5 DEF Dest, Source, d
<1>6. QED  BY <1>1, <1>4, <1>5

\* Two calls of a round use the same link only where the offsets +d and -d meet.
LEMMA SameLink ==
  ASSUME fanout \in Fanouts, NEW s \in Rank, NEW b \in CallIndex, NEW c \in CallIndex,
         Dest(s, b) = Dest(s, c), b < c
  PROVE  2 * MaxDist = N /\ b = Calls - 2 /\ c = Calls - 1
<1> DEFINE d == Distance(b)
<1> DEFINE e == Distance(c)
<1>1. /\ d \in Nat /\ d >= 1 /\ d <= MaxDist /\ 2 * d <= N /\ b % 2 \in {0, 1}
      /\ b = 2 * (d - 1) + (b % 2)
  BY DistanceFacts
<1>2. /\ e \in Nat /\ e >= 1 /\ e <= MaxDist /\ 2 * e <= N /\ c % 2 \in {0, 1}
      /\ c = 2 * (e - 1) + (c % 2)
  BY DistanceFacts
<1>3. /\ Dest(s, b) = IF b % 2 = 0 THEN (s + d) % N ELSE (s - d) % N
      /\ Dest(s, c) = IF c % 2 = 0 THEN (s + e) % N ELSE (s - e) % N
  BY DEF Dest
<1> HIDE DEF d, e
<1>4. /\ (s + d) % N = IF s + d < N THEN s + d ELSE s + d - N
      /\ (s - d) % N = IF s - d >= 0 THEN s - d ELSE s - d + N
      /\ (s + e) % N = IF s + e < N THEN s + e ELSE s + e - N
      /\ (s - e) % N = IF s - e >= 0 THEN s - e ELSE s - e + N
  BY <1>1, <1>2, RingArithmetic
<1>5. /\ s \in Int /\ 0 <= s /\ s < N /\ N \in Nat /\ Calls = 2 * MaxDist
      /\ MaxDist \in Nat /\ 2 * MaxDist <= N
  BY ConstantsAssumption, CallsOfARound DEF Rank
<1> DEFINE x == b % 2
<1> DEFINE y == c % 2
<1>6. x \in {0, 1} /\ y \in {0, 1} /\ b = 2 * (d - 1) + x /\ c = 2 * (e - 1) + y /\ s \in Nat
  BY <1>1, <1>2, <1>5
<1> DEFINE up(k)   == IF s + k < N THEN s + k ELSE s + k - N
<1> DEFINE down(k) == IF s - k >= 0 THEN s - k ELSE s - k + N
<1>7. /\ up(d) = up(e) => d = e
      /\ down(d) = down(e) => d = e
      /\ up(d) = down(e) => d + e = N
      /\ up(e) = down(d) => e + d = N
  BY <1>1, <1>2, <1>5, <1>6, StepsDiffer
<1>8. /\ Dest(s, b) = IF x = 0 THEN up(d) ELSE down(d)
      /\ Dest(s, c) = IF y = 0 THEN up(e) ELSE down(e)
  BY <1>3, <1>4
<1> HIDE DEF up, down, x, y
<1>9. CASE x = y
  <2>1. d = e
    BY <1>6, <1>9, <1>7, <1>8
  <2>2. b = c
    BY <2>1, <1>6, <1>9
  <2>3. QED  BY <2>2, <1>6, <1>1, <1>2
<1>10. CASE x # y
  <2>1. d + e = N
    BY <1>1, <1>2, <1>6, <1>10, <1>7, <1>8
  <2>2. d = MaxDist /\ e = MaxDist /\ 2 * MaxDist = N
    <3>1. d <= MaxDist /\ e <= MaxDist /\ d \in Nat /\ e \in Nat
      BY <1>1, <1>2
    <3>2. QED  BY <2>1, <3>1, <1>5
  <2>3. x = 0 /\ y = 1
    BY <2>2, <1>6, <1>10, <1>5
  <2>4. QED  BY <2>2, <2>3, <1>5, <1>6
<1>11. QED  BY <1>9, <1>10

LEMMA LastCallsMeet ==
  ASSUME fanout \in Fanouts, NEW s \in Rank, 2 * MaxDist = N
  PROVE  Dest(s, Calls - 2) = Dest(s, Calls - 1)
<1>1. /\ MaxDist \in Nat /\ MaxDist >= 1 /\ Calls = 2 * MaxDist
  BY CallsOfARound, ConstantsAssumption
<1>2. /\ (Calls - 2) % 2 = 0 /\ (Calls - 1) % 2 = 1
      /\ Distance(Calls - 2) = MaxDist /\ Distance(Calls - 1) = MaxDist
  BY <1>1 DEF Distance
<1>3. /\ (s + MaxDist) % N = IF s + MaxDist < N THEN s + MaxDist ELSE s + MaxDist - N
      /\ (s - MaxDist) % N = IF s - MaxDist >= 0 THEN s - MaxDist ELSE s - MaxDist + N
  BY <1>1, RingArithmetic
<1>4. s \in Int /\ 0 <= s /\ s < N /\ N \in Nat
  BY ConstantsAssumption DEF Rank
<1>5. QED  BY <1>1, <1>2, <1>3, <1>4 DEF Dest

\* A call of a rank uses its link once more, and no other; a round ends where the next
\* begins; the messages before a call on its link are those of the rounds before, and in
\* its own round that of the call before if the link has two.
LEMMA OneCall ==
  ASSUME fanout \in Fanouts, NEW s \in Rank, NEW r \in Rank, NEW t \in Nat, NEW c \in CallIndex
  PROVE  /\ Through(t, c, s, r) \in Nat
         /\ Through(t, c + 1, s, r) = Through(t, c, s, r) + (IF Dest(s, c) = r THEN 1 ELSE 0)
         /\ Dest(s, c) = r => RoundOf(Through(t, c, s, r), s, r) = t
<1>1. Calls \in Nat /\ Calls >= 2 /\ c \in Nat /\ c <= Calls - 1
  BY CallsOfARound DEF CallIndex
<1>2. CASE Antipodal(s, r)
  <2>1. Calls - 1 \in CallIndex /\ Calls - 2 \in CallIndex
    BY <1>1 DEF CallIndex
  <2>2. Dest(s, Calls - 1) = r /\ Dest(s, Calls - 2) = r
    BY <1>2, LastCallsMeet DEF Antipodal
  <2>3. Dest(s, c) = r <=> c \in {Calls - 2, Calls - 1}
    <3>1. ASSUME Dest(s, c) = r, c # Calls - 1
          PROVE  c = Calls - 2
      <4>1. c < Calls - 1
        BY <1>1, <3>1
      <4>2. QED  BY <4>1, <3>1, <2>1, <2>2, SameLink
    <3>2. QED  BY <3>1, <2>2
  <2>4. Through(t, c, s, r) = 2 * t + (IF c = Calls - 1 THEN 1 ELSE 0)
    BY <1>1, <1>2 DEF Through
  <2>5. Through(t, c + 1, s, r) =
          2 * t + (IF c = Calls - 1 THEN 2 ELSE IF c = Calls - 2 THEN 1 ELSE 0)
    BY <1>1, <1>2 DEF Through
  <2>6. RoundOf(Through(t, c, s, r), s, r) = t
    BY <1>2, <2>4 DEF RoundOf
  <2>7. QED  BY <1>1, <2>3, <2>4, <2>5, <2>6
<1>3. CASE ~Antipodal(s, r) /\ Linked(s, r)
  <2> DEFINE b == CallTo(s, r)
  <2>1. b \in CallIndex /\ Dest(s, b) = r
    BY <1>3 DEF CallTo, Linked
  <2>2. Dest(s, c) = r <=> c = b
    <3>1. ASSUME Dest(s, c) = r, c # b
          PROVE  FALSE
      <4>1. b < c \/ c < b
        BY <1>1, <2>1, <3>1 DEF CallIndex
      <4>2. 2 * MaxDist = N /\ (b = Calls - 1 \/ c = Calls - 1)
        BY <4>1, <2>1, <3>1, SameLink
      <4>3. r = Dest(s, Calls - 1)
        BY <4>2, <2>1, <3>1
      <4>4. QED  BY <4>2, <4>3, <1>3 DEF Antipodal
    <3>2. QED  BY <3>1, <2>1
  <2>3. b \in Nat
    BY <1>1, <2>1 DEF CallIndex
  <2>4. /\ Through(t, c, s, r) = t + (IF c > b THEN 1 ELSE 0)
        /\ Through(t, c + 1, s, r) = t + (IF c + 1 > b THEN 1 ELSE 0)
    BY <1>3 DEF Through
  <2> HIDE DEF b
  <2>5. QED  BY <1>1, <1>3, <2>2, <2>3, <2>4 DEF RoundOf
<1>4. CASE ~Antipodal(s, r) /\ ~Linked(s, r)
  BY <1>4 DEF Through, Linked
<1>5. QED  BY <1>2, <1>3, <1>4

LEMMA OneRound ==
  ASSUME fanout \in Fanouts, NEW s \in Rank, NEW r \in Rank, NEW t \in Nat
  PROVE  /\ Through(t + 1, 0, s, r) = Through(t, Calls, s, r)
         /\ Through(t, Calls, s, r) \in Nat /\ Through(t, 0, s, r) \in Nat
         /\ Through(0, 0, s, r) = 0
<1>1. Calls \in Nat /\ (2 * MaxDist = N => Calls >= 2)
  BY CallsOfARound, ConstantsAssumption
<1>2. CASE Antipodal(s, r)
  <2>1. Calls \in Nat /\ Calls >= 2
    BY <1>1, <1>2 DEF Antipodal
  <2>2. QED  BY <1>2, <2>1 DEF Through
<1>3. CASE ~Antipodal(s, r) /\ Linked(s, r)
  <2>1. CallTo(s, r) \in CallIndex
    BY <1>3 DEF CallTo, Linked
  <2>2. CallTo(s, r) \in 0..(Calls - 1)
    BY <2>1 DEF CallIndex
  <2>3. QED  BY <1>1, <1>3, <2>2 DEF Through
<1>4. CASE ~Antipodal(s, r) /\ ~Linked(s, r)
  BY <1>4 DEF Through
<1>5. QED  BY <1>2, <1>3, <1>4

----------------------------------------------------------------------------
(* The invariant is inductive *)

\* A message is added at the end of a queue; the first one is taken from it.
LEMMA OneSent ==
  ASSUME NEW q \in Seq(State), NEW n \in Nat, NEW g \in Nat, NEW s, NEW r, NEW t,
         Holds(q, n, g, s, r), RoundOf(n, s, r) = t, Message(s, t) \in State
  PROVE  Holds(Append(q, Message(s, t)), n + 1, g, s, r)
<1> DEFINE a == Append(q, Message(s, t))
<1>1. /\ Len(a) = Len(q) + 1 /\ a[Len(q) + 1] = Message(s, t) /\ Len(q) \in Nat
      /\ \A i \in 1..Len(q) : a[i] = q[i]
  BY AppendProperties
<1> HIDE DEF a
<1>2. Len(q) = n - g
  BY DEF Holds
<1>3. ASSUME NEW i \in 1..Len(a)
      PROVE  a[i] = Message(s, RoundOf(g + i - 1, s, r))
  <2>1. CASE i = Len(q) + 1
    <3>1. g + i - 1 = n
      BY <1>2, <2>1
    <3>2. QED  BY <3>1, <2>1, <1>1
  <2>2. CASE i \in 1..Len(q)
    BY <2>2, <1>1 DEF Holds
  <2>3. QED  BY <2>1, <2>2, <1>1
<1>4. QED  BY <1>1, <1>2, <1>3 DEF Holds, a

LEMMA OneTaken ==
  ASSUME NEW q \in Seq(State), q # <<>>, NEW n \in Nat, NEW g \in Nat, NEW s, NEW r,
         Holds(q, n, g, s, r)
  PROVE  Head(q) = Message(s, RoundOf(g, s, r)) /\ Holds(Tail(q), n, g + 1, s, r)
<1> DEFINE a == Tail(q)
<1>1. /\ Len(q) \in Nat /\ Len(q) > 0 /\ Head(q) = q[1]
      /\ Len(a) = Len(q) - 1 /\ \A i \in 1..Len(a) : a[i] = q[i + 1]
  BY HeadTailProperties, EmptySeq
<1> HIDE DEF a
<1>2. Head(q) = Message(s, RoundOf(g, s, r))
  <2>1. 1 \in 1..Len(q) /\ g + 1 - 1 = g
    BY <1>1
  <2>2. QED  BY <1>1, <2>1 DEF Holds
<1>3. ASSUME NEW i \in 1..Len(a)
      PROVE  a[i] = Message(s, RoundOf((g + 1) + i - 1, s, r))
  <2>1. i + 1 \in 1..Len(q) /\ g + (i + 1) - 1 = (g + 1) + i - 1
    BY <1>1
  <2>2. QED  BY <1>1, <2>1 DEF Holds
<1>4. QED  BY <1>1, <1>2, <1>3 DEF Holds, a

\* The ring does not change.
SentNext(s, r) == Through(it'[s], Posted(s)', s, r)
GoneNext(s, r) == Through(it'[r], Received(r)', s, r)

LEMMA SameRing ==
  ASSUME fanout' = fanout
  PROVE  /\ Calls' = Calls
         /\ (\A s, r \in Rank : Holds(net'[<<s, r>>], SentNext(s, r), GoneNext(s, r), s, r)) => LinkInv'
<1>1. MaxDist' = MaxDist /\ Calls' = Calls /\ CallIndex' = CallIndex
  BY DEF MaxDist, Calls, CallIndex
<1>2. \A s, r : /\ Antipodal(s, r)' <=> Antipodal(s, r)
                /\ Linked(s, r)' <=> Linked(s, r)
  BY <1>1 DEF Antipodal, Linked
<1>3. \A s, r : CallTo(s, r)' = CallTo(s, r)
  BY <1>1 DEF CallTo
<1>4. \A s, r : Sent(s, r)' = SentNext(s, r) /\ Gone(s, r)' = GoneNext(s, r)
  BY <1>1, <1>2, <1>3 DEF Sent, Gone, Through, SentNext, GoneNext
<1>5. \A k, s, r : RoundOf(k, s, r)' = RoundOf(k, s, r)
  BY <1>2 DEF RoundOf
<1>6. (\A s, r \in Rank : Holds(net'[<<s, r>>], SentNext(s, r), GoneNext(s, r), s, r)) => LinkInv'
  BY <1>4, <1>5 DEF LinkInv, Holds, Message
<1>7. QED  BY <1>1, <1>6

\* How often a link is used is a number.
LEMMA LinkNumbers ==
  ASSUME TypeOK, RankInv, NEW s \in Rank, NEW r \in Rank
  PROVE  Sent(s, r) \in Nat /\ Gone(s, r) \in Nat
<1>1. \A t \in Nat, n \in 0..Calls : Through(t, n, s, r) \in Nat
  <2> SUFFICES ASSUME NEW t \in Nat, NEW n \in 0..Calls
               PROVE  Through(t, n, s, r) \in Nat
    OBVIOUS
  <2>1. Calls \in Nat /\ fanout \in Fanouts
    BY CallsOfARound DEF TypeOK
  <2>2. CASE n = Calls
    BY <2>1, <2>2, OneRound
  <2>3. CASE n \in CallIndex
    BY <2>1, <2>3, OneCall
  <2>4. QED  BY <2>1, <2>2, <2>3 DEF CallIndex
<1>2. Calls \in Nat
  BY CallsOfARound DEF TypeOK
<1>3. \A q \in Rank : it[q] \in Nat /\ Posted(q) \in 0..Calls /\ Received(q) \in 0..Calls
  BY <1>2 DEF TypeOK, RankInv, Posted, Received
<1>4. QED  BY <1>1, <1>3 DEF Sent, Gone

LEMMA InitIInv == Init => IInv
<1> SUFFICES ASSUME Init PROVE IInv  OBVIOUS
<1> USE DEF Init
<1>1. Calls \in Nat
  BY CallsOfARound
<1>2. TypeOK
  <2>1. net \in [Rank \X Rank -> Seq(State)]
    BY EmptySeq
  <2>2. QED  BY <1>1, <2>1, ConstantsAssumption DEF TypeOK
<1>3. LinkInv
  <2> SUFFICES ASSUME NEW s \in Rank, NEW r \in Rank
               PROVE  Holds(net[<<s, r>>], Sent(s, r), Gone(s, r), s, r)
    BY DEF LinkInv
  <2>1. net[<<s, r>>] = <<>> /\ Len(net[<<s, r>>]) = 0
    BY EmptySeq
  <2>2. Sent(s, r) = 0 /\ Gone(s, r) = 0
    BY OneRound DEF Sent, Gone, Posted, Received
  <2>3. QED  BY <2>1, <2>2 DEF Holds
<1>4. RankInv
  BY ConstantsAssumption DEF RankInv
<1>5. QED  BY <1>2, <1>3, <1>4 DEF IInv

\* Outside the exchanges, and when a rank fails, no message is posted or taken.
LEMMA OutsideKeeps ==
  ASSUME IInv, NEW r \in Rank, Load(r) \/ LeaveBcast(r) \/ Fail(r)
  PROVE  IInv'
<1>1. /\ pc[r] \in {"load", "seed", "step", "mix", "done"}
      /\ UNCHANGED <<application, fanout, it, call, got, frozen, net>>
  BY DEF Load, LeaveBcast, Fail, jobVars
<1>2. TypeOK /\ LinkInv /\ RankInv
  BY DEF IInv
<1>3. PICK next \in {"seed", "step", "failed"} :
        /\ pc' = [pc EXCEPT ![r] = next]
        /\ next # "failed" => pc[r] \in {"load", "seed"}
  BY DEF Load, LeaveBcast, Fail
<1>4. entered' \in SUBSET Rank
  BY <1>2 DEF Load, LeaveBcast, Fail, TypeOK
<1>5. Calls \in Nat /\ Calls' = Calls
  BY <1>1, <1>2, CallsOfARound, SameRing DEF TypeOK
<1>6. TypeOK'
  BY <1>1, <1>2, <1>3, <1>4, <1>5 DEF TypeOK
<1>7. pc'[r] = next /\ \A q \in Rank \ {r} : pc'[q] = pc[q]
  BY <1>2, <1>3 DEF TypeOK
<1>8. \A q \in Rank : Posted(q)' = Posted(q) /\ Received(q)' = Received(q)
  BY <1>1, <1>7 DEF Posted, Received
<1>9. LinkInv'
  <2>1. \A s, q \in Rank : SentNext(s, q) = Sent(s, q) /\ GoneNext(s, q) = Gone(s, q)
    BY <1>1, <1>8 DEF Sent, Gone, SentNext, GoneNext
  <2>2. QED  BY <1>1, <1>2, <2>1, SameRing DEF LinkInv
<1>10. RankInv'
  BY <1>1, <1>2, <1>3, <1>5, <1>7, <1>8 DEF RankInv, Message
<1>11. QED  BY <1>6, <1>9, <1>10 DEF IInv

LEMMA StepKeeps ==
  ASSUME IInv, NEW r \in Rank, Step(r)
  PROVE  IInv'
<1>1. /\ pc[r] = "step" /\ got' = [got EXCEPT ![r] = {}]
      /\ pc' = [pc EXCEPT ![r] = IF Calls = 0 THEN "mix" ELSE "post"]
      /\ UNCHANGED <<application, fanout, entered, it, call, frozen, net>>
  BY DEF Step, jobVars
<1>2. TypeOK /\ LinkInv /\ RankInv
  BY DEF IInv
<1>3. Calls \in Nat /\ Calls' = Calls
  BY <1>1, <1>2, CallsOfARound, SameRing DEF TypeOK
<1>4. TypeOK'
  BY <1>1, <1>2, <1>3 DEF TypeOK
<1>5. \A q \in Rank : Posted(q)' = Posted(q) /\ Received(q)' = Received(q)
  BY <1>1, <1>2, <1>3 DEF TypeOK, Posted, Received
<1>6. LinkInv'
  <2>1. \A s, q \in Rank : SentNext(s, q) = Sent(s, q) /\ GoneNext(s, q) = Gone(s, q)
    BY <1>1, <1>5 DEF Sent, Gone, SentNext, GoneNext
  <2>2. QED  BY <1>1, <1>2, <2>1, SameRing DEF LinkInv
<1>7. RankInv'
  <2>1. \A q \in Rank \ {r} : /\ pc'[q] = pc[q] /\ call'[q] = call[q] /\ got'[q] = got[q]
                              /\ it'[q] = it[q] /\ Received(q)' = Received(q)
    BY <1>1, <1>2, <1>5 DEF TypeOK
  <2>2. /\ pc'[r] \in {"post", "mix"} /\ (pc'[r] = "post" => call'[r] < Calls)
        /\ (pc'[r] = "mix" => call'[r] = Calls)
        /\ got'[r] = {} /\ it'[r] = it[r] /\ Received(r)' = 0
    <3>1. /\ pc'[r] = (IF Calls = 0 THEN "mix" ELSE "post") /\ call'[r] = 0
          /\ got'[r] = {} /\ it'[r] = it[r]
      BY <1>1, <1>2 DEF TypeOK, RankInv
    <3>2. Received(r)' = 0
      BY <3>1 DEF Received
    <3>3. QED  BY <1>3, <3>1, <3>2
  <2>3. got'[r] = {Message(Source(r, c), it'[r]) : c \in 0..(Received(r)' - 1)}
    BY <2>2
  <2>4. QED  BY <1>1, <1>2, <1>3, <2>1, <2>2, <2>3 DEF RankInv, Message
<1>8. QED  BY <1>4, <1>6, <1>7 DEF IInv

LEMMA PostKeeps ==
  ASSUME IInv, NEW r \in Rank, Post(r)
  PROVE  IInv'
<1> DEFINE c == call[r]
<1> DEFINE link == <<r, Dest(r, c)>>
<1>1. /\ pc[r] = "post" /\ pc' = [pc EXCEPT ![r] = "recv"]
      /\ net' = [net EXCEPT ![link] = Append(net[link], Message(r, it[r]))]
      /\ UNCHANGED <<application, fanout, entered, it, call, got, frozen>>
  BY DEF Post, Mine, Message, jobVars, IInv, TypeOK
<1>2. TypeOK /\ LinkInv /\ RankInv
  BY DEF IInv
<1>3. Calls \in Nat /\ Calls' = Calls /\ fanout \in Fanouts
  BY <1>1, <1>2, CallsOfARound, SameRing DEF TypeOK
<1>4. c \in CallIndex /\ it[r] \in 0..(R - 1) /\ it[r] \in Nat
  BY <1>1, <1>2, <1>3, ConstantsAssumption DEF TypeOK, RankInv, CallIndex
<1>5. link \in Rank \X Rank
  BY <1>3, <1>4, SameCall
<1>6. Message(r, it[r]) \in State
  BY <1>4 DEF Message, State
<1> HIDE DEF link
<1>7. TypeOK'
  <2>1. net' \in [Rank \X Rank -> Seq(State)]
    <3>1. Append(net[link], Message(r, it[r])) \in Seq(State)
      BY <1>2, <1>5, <1>6, AppendProperties DEF TypeOK
    <3>2. QED  BY <1>1, <1>2, <3>1 DEF TypeOK
  <2>2. QED  BY <1>1, <1>2, <1>3, <2>1 DEF TypeOK
<1>8. /\ Posted(r) = c /\ Posted(r)' = c + 1
      /\ \A q \in Rank \ {r} : Posted(q)' = Posted(q)
      /\ \A q \in Rank : Received(q)' = Received(q)
  <2>1. pc[r] = "post" /\ pc'[r] = "recv" /\ call' = call /\ c = call[r]
    BY <1>1, <1>2 DEF TypeOK
  <2>2. \A q \in Rank \ {r} : pc'[q] = pc[q]
    BY <1>1, <1>2 DEF TypeOK
  <2>3. Posted(r) = c /\ Received(r) = c
    BY <2>1 DEF Posted, Received
  <2>4. Posted(r)' = c + 1
    BY <2>1 DEF Posted
  <2>5. Received(r)' = c
    BY <2>1 DEF Received
  <2>6. \A q \in Rank \ {r} : Posted(q)' = Posted(q)
    BY <2>1, <2>2 DEF Posted
  <2>7. \A q \in Rank \ {r} : Received(q)' = Received(q)
    BY <2>1, <2>2 DEF Received
  <2>8. QED  BY <2>3, <2>4, <2>5, <2>6, <2>7
<1>9. ASSUME NEW a \in Rank, NEW b \in Rank
      PROVE  Holds(net'[<<a, b>>], SentNext(a, b), GoneNext(a, b), a, b)
  <2>1. GoneNext(a, b) = Gone(a, b)
    BY <1>1, <1>8 DEF Gone, GoneNext
  <2>2. /\ net[<<a, b>>] \in Seq(State) /\ Holds(net[<<a, b>>], Sent(a, b), Gone(a, b), a, b)
        /\ Sent(a, b) \in Nat /\ Gone(a, b) \in Nat
    BY <1>2, LinkNumbers DEF TypeOK, LinkInv
  <2>3. CASE <<a, b>> # link
    <3>1. net'[<<a, b>>] = net[<<a, b>>]
      BY <1>1, <1>2, <2>3 DEF TypeOK
    <3>2. SentNext(a, b) = Sent(a, b)
      <4>1. CASE a # r
        BY <4>1, <1>1, <1>8 DEF Sent, SentNext
      <4>2. CASE a = r
        <5>1. Dest(r, c) # b
          BY <4>2, <2>3 DEF link
        <5>2. Through(it[r], c + 1, r, b) = Through(it[r], c, r, b) + 0
          BY <5>1, <1>3, <1>4, OneCall
        <5>3. QED  BY <4>2, <5>2, <2>2, <1>1, <1>8 DEF Sent, SentNext
      <4>3. QED  BY <4>1, <4>2
    <3>3. QED  BY <2>1, <2>2, <3>1, <3>2
  <2>4. CASE <<a, b>> = link
    <3>1. a = r /\ b = Dest(r, c)
      BY <2>4 DEF link
    <3>2. net'[<<a, b>>] = Append(net[<<a, b>>], Message(a, it[a]))
      BY <1>1, <1>2, <1>5, <2>4, <3>1 DEF TypeOK
    <3>3. SentNext(a, b) = Sent(a, b) + 1
      <4>1. Through(it[r], c + 1, r, b) = Through(it[r], c, r, b) + 1
        BY <3>1, <1>3, <1>4, OneCall
      <4>2. QED  BY <4>1, <3>1, <1>1, <1>8 DEF Sent, SentNext
    <3>4. RoundOf(Sent(a, b), a, b) = it[a]
      BY <3>1, <1>3, <1>4, <1>8, OneCall DEF Sent
    <3>5. QED  BY <2>1, <2>2, <3>1, <3>2, <3>3, <3>4, <1>6, OneSent
  <2>5. QED  BY <2>3, <2>4
<1>10. LinkInv'
  BY <1>1, <1>9, SameRing
<1>11. RankInv'
  <2>1. \A q \in Rank \ {r} : pc'[q] = pc[q]
    BY <1>1, <1>2 DEF TypeOK
  <2>2. pc'[r] = "recv"
    BY <1>1, <1>2 DEF TypeOK
  <2>3. QED  BY <1>1, <1>2, <1>3, <1>8, <2>1, <2>2 DEF RankInv, Message
<1>12. QED  BY <1>7, <1>10, <1>11 DEF IInv
LEMMA RecvKeeps ==
  ASSUME IInv, NEW r \in Rank, Recv(r)
  PROVE  IInv'
<1> DEFINE c == call[r]
<1> DEFINE s == Source(r, c)
<1> DEFINE link == <<s, r>>
<1>1. /\ pc[r] = "recv" /\ pc' = [pc EXCEPT ![r] = "send"]
      /\ net[link] # <<>> /\ net' = [net EXCEPT ![link] = Tail(net[link])]
      /\ UNCHANGED <<application, fanout, entered, it, call, frozen>>
  BY DEF Recv, jobVars, IInv, TypeOK
<1>2. TypeOK /\ LinkInv /\ RankInv
  BY DEF IInv
<1>3. Calls \in Nat /\ Calls' = Calls /\ fanout \in Fanouts
  BY <1>1, <1>2, CallsOfARound, SameRing DEF TypeOK
<1>4. c \in CallIndex /\ c \in Nat /\ it[r] \in 0..(R - 1) /\ it[r] \in Nat
  BY <1>1, <1>2, <1>3, ConstantsAssumption DEF TypeOK, RankInv, CallIndex
<1>5. s \in Rank /\ Dest(s, c) = r /\ link \in Rank \X Rank
  BY <1>3, <1>4, SameCall
<1>6. \A a \in Rank : Dest(a, c) = r => a = s
  BY <1>3, <1>4, SameCall
<1>7. /\ net[link] \in Seq(State) /\ Holds(net[link], Sent(s, r), Gone(s, r), s, r)
      /\ Sent(s, r) \in Nat /\ Gone(s, r) \in Nat
  BY <1>2, <1>5, LinkNumbers DEF TypeOK, LinkInv
<1>8. Received(r) = c
  BY <1>1 DEF Received
<1>9. RoundOf(Gone(s, r), s, r) = it[r]
  BY <1>3, <1>4, <1>5, <1>8, OneCall DEF Gone
<1> DEFINE msg == Message(s, it[r])
<1>10. Head(net[link]) = msg /\ Holds(Tail(net[link]), Sent(s, r), Gone(s, r) + 1, s, r)
  BY <1>1, <1>7, <1>9, OneTaken
<1>11. got[r] = {Message(Source(r, b), it[r]) : b \in 0..(c - 1)}
  BY <1>1, <1>2, <1>8 DEF RankInv
<1>12. got' = [got EXCEPT ![r] = got[r] \cup {msg}]
  <2>1. got' = [got EXCEPT ![r] = IF \E g \in got[r] : g.rank = msg.rank
                                  THEN got[r] ELSE got[r] \cup {msg}]
    BY <1>2, <1>10 DEF Recv, TypeOK
  <2>2. \A g \in got[r] : g.rank = msg.rank => g = msg
    BY <1>11 DEF Message
  <2>3. (IF \E g \in got[r] : g.rank = msg.rank THEN got[r] ELSE got[r] \cup {msg})
          = got[r] \cup {msg}
    BY <2>2
  <2>4. QED  BY <2>1, <2>3
<1>13. msg \in State
  BY <1>4, <1>5 DEF Message, State
<1> HIDE DEF link, s, msg
<1>14. TypeOK'
  <2>1. net' \in [Rank \X Rank -> Seq(State)]
    <3>1. Tail(net[link]) \in Seq(State)
      BY <1>1, <1>7, HeadTailProperties
    <3>2. QED  BY <1>1, <1>2, <3>1 DEF TypeOK
  <2>2. got' \in [Rank -> SUBSET State]
    BY <1>2, <1>12, <1>13 DEF TypeOK
  <2>3. QED  BY <1>1, <1>2, <1>3, <2>1, <2>2 DEF TypeOK
<1>15. /\ Received(r)' = c + 1
       /\ \A q \in Rank \ {r} : Received(q)' = Received(q)
       /\ \A q \in Rank : Posted(q)' = Posted(q)
  <2>1. pc'[r] = "send" /\ call' = call
    BY <1>1, <1>2 DEF TypeOK
  <2>2. \A q \in Rank \ {r} : pc'[q] = pc[q]
    BY <1>1, <1>2 DEF TypeOK
  <2>3. Received(r)' = c + 1
    BY <2>1 DEF Received
  <2>4. Posted(r)' = Posted(r)
    BY <1>1, <2>1 DEF Posted
  <2>5. \A q \in Rank \ {r} : Posted(q)' = Posted(q)
    BY <2>1, <2>2 DEF Posted
  <2>6. \A q \in Rank \ {r} : Received(q)' = Received(q)
    BY <2>1, <2>2 DEF Received
  <2>7. QED  BY <2>3, <2>4, <2>5, <2>6
<1>16. ASSUME NEW a \in Rank, NEW b \in Rank
       PROVE  Holds(net'[<<a, b>>], SentNext(a, b), GoneNext(a, b), a, b)
  <2>1. SentNext(a, b) = Sent(a, b)
    BY <1>1, <1>15 DEF Sent, SentNext
  <2>2. Holds(net[<<a, b>>], Sent(a, b), Gone(a, b), a, b) /\ Gone(a, b) \in Nat
    BY <1>2, LinkNumbers DEF LinkInv
  <2>3. CASE <<a, b>> # link
    <3>1. net'[<<a, b>>] = net[<<a, b>>]
      BY <1>1, <1>2, <2>3 DEF TypeOK
    <3>2. GoneNext(a, b) = Gone(a, b)
      <4>1. CASE b # r
        BY <4>1, <1>1, <1>15 DEF Gone, GoneNext
      <4>2. CASE b = r
        <5>1. Dest(a, c) # r
          BY <4>2, <2>3, <1>6 DEF link
        <5>2. Through(it[r], c + 1, a, r) = Through(it[r], c, a, r) + 0
          BY <5>1, <1>3, <1>4, OneCall
        <5>3. QED  BY <4>2, <5>2, <2>2, <1>1, <1>8, <1>15 DEF Gone, GoneNext
      <4>3. QED  BY <4>1, <4>2
    <3>3. QED  BY <2>1, <2>2, <3>1, <3>2
  <2>4. CASE <<a, b>> = link
    <3>1. a = s /\ b = r
      BY <2>4 DEF link
    <3>2. net'[<<a, b>>] = Tail(net[link])
      BY <1>1, <1>2, <1>5, <2>4 DEF TypeOK
    <3>3. GoneNext(a, b) = Gone(a, b) + 1
      <4>1. Through(it[r], c + 1, s, r) = Through(it[r], c, s, r) + 1
        BY <1>3, <1>4, <1>5, OneCall
      <4>2. QED  BY <4>1, <3>1, <1>1, <1>8, <1>15 DEF Gone, GoneNext
    <3>4. QED  BY <1>10, <2>1, <3>1, <3>2, <3>3
  <2>5. QED  BY <2>3, <2>4
<1>17. LinkInv'
  BY <1>1, <1>16, SameRing
<1>18. RankInv'
  <2>1. \A q \in Rank \ {r} : pc'[q] = pc[q] /\ got'[q] = got[q]
    BY <1>1, <1>2, <1>12 DEF TypeOK
  <2>2. pc'[r] = "send" /\ got'[r] = got[r] \cup {msg}
    BY <1>1, <1>2, <1>12 DEF TypeOK
  <2>3. got'[r] = {Message(Source(r, b), it[r]) : b \in 0..c}
    <3>1. 0..c = (0..(c - 1)) \cup {c}
      BY <1>4
    <3>2. QED  BY <1>11, <2>2, <3>1 DEF msg, s
  <2>4. Received(r)' - 1 = c
    BY <1>4, <1>15
  <2>5. ASSUME NEW q \in Rank \ {r}
        PROVE  /\ pc'[q] = pc[q] /\ got'[q] = got[q] /\ it'[q] = it[q] /\ call'[q] = call[q]
               /\ Received(q)' = Received(q)
    BY <1>1, <1>15, <2>1
  <2>6. /\ it'[r] = it[r] /\ call'[r] = call[r] /\ call[r] < Calls /\ it[r] < R
        /\ got'[r] = {Message(Source(r, b), it'[r]) : b \in 0..(Received(r)' - 1)}
    BY <1>1, <1>2, <2>3, <2>4 DEF RankInv
  <2>7. QED  BY <1>2, <1>3, <2>2, <2>5, <2>6 DEF RankInv, Message
<1>19. QED  BY <1>14, <1>17, <1>18 DEF IInv

LEMMA ReturnKeeps ==
  ASSUME IInv, NEW r \in Rank, Return(r)
  PROVE  IInv'
<1>1. /\ pc[r] = "send" /\ call' = [call EXCEPT ![r] = call[r] + 1]
      /\ pc' = [pc EXCEPT ![r] = IF call[r] + 1 = Calls THEN "mix" ELSE "post"]
      /\ UNCHANGED <<application, fanout, entered, it, got, frozen, net>>
  BY DEF Return, jobVars, IInv, TypeOK
<1>2. TypeOK /\ LinkInv /\ RankInv
  BY DEF IInv
<1>3. Calls \in Nat /\ Calls' = Calls
  BY <1>1, <1>2, CallsOfARound, SameRing DEF TypeOK
<1>4. call[r] \in Nat /\ call[r] < Calls /\ call[r] + 1 \in 0..Calls
  BY <1>1, <1>2, <1>3 DEF TypeOK, RankInv
<1>5. TypeOK'
  BY <1>1, <1>2, <1>3, <1>4 DEF TypeOK
<1>6. \A q \in Rank \ {r} : pc'[q] = pc[q] /\ call'[q] = call[q]
  BY <1>1, <1>2 DEF TypeOK
<1>7. /\ call'[r] = call[r] + 1
      /\ pc'[r] = IF call[r] + 1 = Calls THEN "mix" ELSE "post"
  BY <1>1, <1>2 DEF TypeOK
<1>8. \A q \in Rank : Posted(q)' = Posted(q) /\ Received(q)' = Received(q)
  <2>1. Posted(r) = call[r] + 1 /\ Received(r) = call[r] + 1
    BY <1>1 DEF Posted, Received
  <2>2. pc'[r] \in {"mix", "post"}
    BY <1>7
  <2>3. Posted(r)' = call'[r] /\ Received(r)' = call'[r]
    BY <2>2 DEF Posted, Received
  <2>4. \A q \in Rank \ {r} : Posted(q)' = Posted(q) /\ Received(q)' = Received(q)
    BY <1>6 DEF Posted, Received
  <2>5. QED  BY <2>1, <2>3, <2>4, <1>7
<1>9. LinkInv'
  <2>1. \A s, q \in Rank : SentNext(s, q) = Sent(s, q) /\ GoneNext(s, q) = Gone(s, q)
    BY <1>1, <1>8 DEF Sent, Gone, SentNext, GoneNext
  <2>2. QED  BY <1>1, <1>2, <2>1, SameRing DEF LinkInv
<1>10. RankInv'
  <2>1. /\ pc'[r] \in {"post", "mix"} /\ (pc'[r] = "post" => call'[r] < Calls)
        /\ (pc'[r] = "mix" => call'[r] = Calls)
    BY <1>3, <1>4, <1>7
  <2>2. it[r] < R /\ got[r] = {Message(Source(r, c), it[r]) : c \in 0..(Received(r) - 1)}
    BY <1>1, <1>2 DEF RankInv
  <2>3. QED  BY <1>1, <1>2, <1>3, <1>6, <1>8, <2>1, <2>2 DEF RankInv, Message
<1>11. QED  BY <1>5, <1>9, <1>10 DEF IInv

LEMMA MixKeeps ==
  ASSUME IInv, NEW r \in Rank, Mix(r)
  PROVE  IInv'
<1>1. /\ pc[r] = "mix" /\ it' = [it EXCEPT ![r] = it[r] + 1]
      /\ pc' = [pc EXCEPT ![r] = IF it[r] + 1 = R THEN "done" ELSE "step"]
      /\ call' = [call EXCEPT ![r] = 0]
      /\ UNCHANGED <<application, fanout, entered, got, net>>
  BY DEF Mix, jobVars, IInv, TypeOK
<1>2. TypeOK /\ LinkInv /\ RankInv
  BY DEF IInv
<1>3. Calls \in Nat /\ Calls' = Calls /\ fanout \in Fanouts
  BY <1>1, <1>2, CallsOfARound, SameRing DEF TypeOK
<1>4. it[r] \in Nat /\ it[r] < R /\ it[r] + 1 \in 0..R
  BY <1>1, <1>2, ConstantsAssumption DEF TypeOK, RankInv
<1>5. frozen' \in [Rank -> BOOLEAN]
  <2>1. PICK still \in BOOLEAN : frozen' = [frozen EXCEPT ![r] = frozen[r] \/ still]
    BY <1>2 DEF Mix, TypeOK
  <2>2. frozen \in [Rank -> BOOLEAN]
    BY <1>2 DEF TypeOK
  <2>3. QED  BY <2>1, <2>2
<1>6. TypeOK'
  BY <1>1, <1>2, <1>3, <1>4, <1>5 DEF TypeOK
<1>7. \A q \in Rank \ {r} : pc'[q] = pc[q] /\ it'[q] = it[q] /\ call'[q] = call[q]
  BY <1>1, <1>2 DEF TypeOK
<1>8. /\ it'[r] = it[r] + 1 /\ call'[r] = 0
      /\ pc'[r] = IF it[r] + 1 = R THEN "done" ELSE "step"
  BY <1>1, <1>2 DEF TypeOK
<1>9. /\ \A q \in Rank \ {r} : Posted(q)' = Posted(q) /\ Received(q)' = Received(q)
      /\ Posted(r) = Calls /\ Received(r) = Calls /\ Posted(r)' = 0 /\ Received(r)' = 0
  <2>1. \A q \in Rank \ {r} : Posted(q)' = Posted(q) /\ Received(q)' = Received(q)
    BY <1>1, <1>3, <1>7 DEF Posted, Received
  <2>2. Posted(r) = Calls /\ Received(r) = Calls
    BY <1>1, <1>2 DEF Posted, Received, RankInv
  <2>3. pc'[r] \in {"step", "done"}
    BY <1>8
  <2>4. Posted(r)' = 0 /\ Received(r)' = 0
    BY <2>3, <1>8 DEF Posted, Received
  <2>5. QED  BY <2>1, <2>2, <2>4
<1>10. LinkInv'
  <2>1. ASSUME NEW s \in Rank, NEW q \in Rank
        PROVE  Through(it[r] + 1, 0, s, q) = Through(it[r], Calls, s, q)
    BY <1>3, <1>4, OneRound
  <2>2. \A s, q \in Rank : SentNext(s, q) = Sent(s, q)
    BY <1>7, <1>8, <1>9, <2>1 DEF Sent, SentNext
  <2>3. \A s, q \in Rank : GoneNext(s, q) = Gone(s, q)
    BY <1>7, <1>8, <1>9, <2>1 DEF Gone, GoneNext
  <2>4. QED  BY <1>1, <1>2, <2>2, <2>3, SameRing DEF LinkInv
<1>11. RankInv'
  <2>1. pc'[r] = "done" => it'[r] = R
    BY <1>8
  <2>2. pc'[r] = "step" => it'[r] < R
    BY <1>4, <1>8, ConstantsAssumption
  <2>3. pc'[r] \in {"step", "done"}
    BY <1>8
  <2>4. QED  BY <1>1, <1>2, <1>3, <1>7, <1>8, <1>9, <2>1, <2>2, <2>3 DEF RankInv, Message
<1>12. QED  BY <1>6, <1>10, <1>11 DEF IInv

LEMMA NextIInv == IInv /\ [Next]_vars => IInv'
<1> SUFFICES ASSUME IInv, [Next]_vars PROVE IInv'  OBVIOUS
<1>1. ASSUME NEW r \in Rank, RankStep(r)
      PROVE  IInv'
  BY <1>1, OutsideKeeps, StepKeeps, PostKeeps, RecvKeeps, ReturnKeeps, MixKeeps
     DEF RankStep, Progress
<1>2. CASE UNCHANGED vars
  <2>1. UNCHANGED <<application, fanout, entered, pc, it, call, got, frozen, net>>
    BY <1>2 DEF vars, jobVars
  <2>2. TypeOK /\ LinkInv /\ RankInv
    BY DEF IInv
  <2>3. Calls' = Calls
    BY <2>1, SameRing
  <2>4. TypeOK'
    BY <2>1, <2>2, <2>3 DEF TypeOK
  <2>5. \A q \in Rank : Posted(q)' = Posted(q) /\ Received(q)' = Received(q)
    BY <2>1, <2>3 DEF Posted, Received
  <2>6. \A s, q \in Rank : SentNext(s, q) = Sent(s, q) /\ GoneNext(s, q) = Gone(s, q)
    BY <2>1, <2>5 DEF Sent, Gone, SentNext, GoneNext
  <2>7. LinkInv'
    BY <2>1, <2>2, <2>6, SameRing DEF LinkInv
  <2>8. RankInv'
    BY <2>1, <2>2, <2>3, <2>5 DEF RankInv, Message
  <2>9. QED  BY <2>4, <2>7, <2>8 DEF IInv
<1>3. QED  BY <1>1, <1>2 DEF Next, Ended

LEMMA Invariant == Spec => []IInv
BY InitIInv, NextIInv, PTL DEF Spec
----------------------------------------------------------------------------
(* What follows from it *)

\* The calls of a round receive from the ring neighbours and from nobody else.
LEMMA SourcesAreNeighbours ==
  ASSUME fanout \in Fanouts, NEW r \in Rank
  PROVE  ring_neighbors(r) = {Source(r, c) : c \in CallIndex}
<1>1. MaxDist \in Nat /\ 2 * MaxDist <= N /\ Calls = 2 * MaxDist
  BY CallsOfARound
<1>2. ASSUME NEW c \in CallIndex
      PROVE  Source(r, c) \in ring_neighbors(r)
  <2>1. Distance(c) \in 1..MaxDist /\ Source(r, c) # r
    BY <1>1, DistanceFacts, SameCall
  <2>2. Source(r, c) \in {(r + Distance(c)) % N, (r - Distance(c)) % N}
    BY DEF Source
  <2> DEFINE Peers == UNION {{(r + d) % N, (r - d) % N} : d \in 1..MaxDist}
  <2>3. Source(r, c) \in Peers
    BY <2>1, <2>2
  <2>4. ring_neighbors(r) = Peers \ {r}
    BY DEF ring_neighbors
  <2> HIDE DEF Peers
  <2>5. QED  BY <2>1, <2>3, <2>4
<1>3. ASSUME NEW p \in ring_neighbors(r)
      PROVE  \E c \in CallIndex : p = Source(r, c)
  <2>1. PICK d \in 1..MaxDist : p \in {(r + d) % N, (r - d) % N}
    BY DEF ring_neighbors
  <2>2. d \in Nat /\ 1 <= d /\ d <= MaxDist
    BY <1>1, <2>1
  <2>3. /\ 2 * d - 2 \in CallIndex /\ (2 * d - 2) % 2 = 0 /\ (2 * d - 2) \div 2 = d - 1
        /\ 2 * d - 1 \in CallIndex /\ (2 * d - 1) % 2 = 1 /\ (2 * d - 1) \div 2 = d - 1
    BY <1>1, <2>2 DEF CallIndex
  <2>4. Distance(2 * d - 2) = d /\ Distance(2 * d - 1) = d
    BY <2>2, <2>3 DEF Distance
  <2>5. Source(r, 2 * d - 2) = (r - d) % N /\ Source(r, 2 * d - 1) = (r + d) % N
    BY <2>3, <2>4 DEF Source
  <2>6. QED  BY <2>1, <2>3, <2>5
<1>4. QED  BY <1>2, <1>3

\* In t rounds and a part of the next a link between neighbours carries as many messages
\* for each round, one or two.
LEMMA RoundsOnALink ==
  ASSUME fanout \in Fanouts, NEW s \in Rank, NEW r \in Rank, Linked(s, r)
  PROVE  \E k \in {1, 2} :
           \A t \in Nat, n \in 0..Calls :
             k * t <= Through(t, n, s, r) /\ Through(t, n, s, r) <= k * t + k
<1>1. Calls \in Nat
  BY CallsOfARound
<1>2. CASE Antipodal(s, r)
  <2>1. ASSUME NEW t \in Nat, NEW n \in 0..Calls
        PROVE  2 * t <= Through(t, n, s, r) /\ Through(t, n, s, r) <= 2 * t + 2
    BY <1>1, <1>2 DEF Through
  <2>2. QED  BY <2>1
<1>3. CASE ~Antipodal(s, r)
  <2>1. ASSUME NEW t \in Nat, NEW n \in 0..Calls
        PROVE  1 * t <= Through(t, n, s, r) /\ Through(t, n, s, r) <= 1 * t + 1
    <3>1. Through(t, n, s, r) = t + (IF n > CallTo(s, r) THEN 1 ELSE 0)
      BY <1>3 DEF Through
    <3>2. QED  BY <3>1
  <2>2. QED  BY <2>1
<1>4. QED  BY <1>2, <1>3

\* Every variable of the ring keeps its type: a rank makes no more than R rounds and
\* 2 * MaxDist calls in each.
THEOREM TypeCorrect == Spec => []TypeOK
<1>1. IInv => TypeOK
  BY DEF IInv
<1>2. QED  BY <1>1, Invariant, PTL

\* What consensus_mix is given is the state that each ring neighbour made in the same
\* round, once, for every size of the ring, fanout and interleaving, although every
\* message has the same tag and no barrier keeps the ranks together.
THEOREM MixesOwnRound == Spec => []MixesItsRound
<1>1. IInv => MixesItsRound
  <2> SUFFICES ASSUME IInv, NEW r \in Rank, pc[r] = "mix"
               PROVE  got[r] = {[rank |-> p, worker_round |-> it[r]] : p \in ring_neighbors(r)}
    BY DEF MixesItsRound
  <2>1. fanout \in Fanouts
    BY DEF IInv, TypeOK
  <2>2. Received(r) = Calls
    BY DEF Received, IInv, RankInv
  <2>3. got[r] = {Message(Source(r, c), it[r]) : c \in 0..(Calls - 1)}
    BY <2>2 DEF IInv, RankInv
  <2>4. ring_neighbors(r) = {Source(r, c) : c \in 0..(Calls - 1)}
    BY <2>1, SourcesAreNeighbours DEF CallIndex
  <2>5. QED  BY <2>3, <2>4 DEF Message
<1>2. QED  BY <1>1, Invariant, PTL

\* Without a barrier the blocking sendrecv calls still hold a rank back: it is never more
\* than one round ahead of a ring neighbour.
THEOREM NeighboursWithinARound ==
  Spec => [](\A r \in Rank : \A p \in ring_neighbors(r) : it[r] <= it[p] + 1)
<1> DEFINE Near == \A r \in Rank : \A p \in ring_neighbors(r) : it[r] <= it[p] + 1
<1>1. IInv => Near
  <2> SUFFICES ASSUME IInv, NEW r \in Rank, NEW p \in ring_neighbors(r)
               PROVE  it[r] <= it[p] + 1
    OBVIOUS
  <2>1. TypeOK /\ LinkInv /\ RankInv /\ fanout \in Fanouts
    BY DEF IInv, TypeOK
  <2>2. PICK c \in CallIndex : p = Source(r, c)
    BY <2>1, SourcesAreNeighbours
  <2>3. p \in Rank /\ Dest(p, c) = r
    BY <2>1, <2>2, SameCall
  <2>4. Linked(p, r)
    BY <2>3 DEF Linked
  <2>5. Calls \in Nat
    BY <2>1, CallsOfARound
  <2>6. /\ it[r] \in Nat /\ Received(r) \in 0..Calls
        /\ it[p] \in Nat /\ Posted(p) \in 0..Calls
    <3>1. \A q \in Rank : /\ it[q] \in Nat /\ call[q] \in 0..Calls
                          /\ pc[q] \in {"post", "recv", "send"} => call[q] < Calls
      BY <2>1 DEF TypeOK, RankInv
    <3>2. \A q \in Rank : Received(q) \in 0..Calls
      BY <2>5, <3>1 DEF Received
    <3>3. \A q \in Rank : Posted(q) \in 0..Calls
      BY <2>5, <3>1 DEF Posted
    <3>4. QED  BY <2>3, <3>1, <3>2, <3>3
  <2>7. Sent(p, r) \in Nat /\ Gone(p, r) \in Nat
    BY <2>1, <2>3, LinkNumbers
  <2>8. Gone(p, r) <= Sent(p, r)
    <3>1. Len(net[<<p, r>>]) = Sent(p, r) - Gone(p, r)
      BY <2>1, <2>3 DEF LinkInv, Holds
    <3>2. net[<<p, r>>] \in Seq(State)
      BY <2>1, <2>3 DEF TypeOK
    <3>3. Len(net[<<p, r>>]) \in Nat
      BY <3>2, LenProperties
    <3>4. QED  BY <2>7, <3>1, <3>3
  <2>9. PICK k \in {1, 2} :
          \A t \in Nat, n \in 0..Calls :
            k * t <= Through(t, n, p, r) /\ Through(t, n, p, r) <= k * t + k
    BY <2>1, <2>3, <2>4, RoundsOnALink
  <2>10. k * it[r] <= Gone(p, r) /\ Sent(p, r) <= k * it[p] + k
    BY <2>6, <2>9 DEF Gone, Sent
  <2>11. k * it[r] <= k * it[p] + k
    BY <2>6, <2>7, <2>8, <2>10
  <2>12. QED  BY <2>6, <2>11
<1>2. QED  BY <1>1, Invariant, PTL

\* When every rank has made its rounds no message is under way: each sendrecv was matched,
\* so a later exchange under the same tag could not read a state of this run.
THEOREM NothingLeftBehind ==
  Spec => []((\A r \in Rank : pc[r] = "done") => \A link \in Rank \X Rank : net[link] = <<>>)
<1> DEFINE Empty == (\A r \in Rank : pc[r] = "done") =>
                      \A link \in Rank \X Rank : net[link] = <<>>
<1>1. IInv => Empty
  <2> SUFFICES ASSUME IInv, \A r \in Rank : pc[r] = "done", NEW s \in Rank, NEW r \in Rank
               PROVE  net[<<s, r>>] = <<>>
    OBVIOUS
  <2>1. TypeOK /\ LinkInv /\ RankInv
    BY DEF IInv
  <2>2. it[s] = R /\ it[r] = R /\ Posted(s) = 0 /\ Received(r) = 0
    BY <2>1 DEF RankInv, Posted, Received
  <2>3. Sent(s, r) = Gone(s, r) /\ Gone(s, r) \in Nat
    BY <2>1, <2>2, LinkNumbers DEF Sent, Gone
  <2>4. Len(net[<<s, r>>]) = 0
    BY <2>1, <2>3 DEF LinkInv, Holds
  <2>5. net[<<s, r>>] \in Seq(State)
    BY <2>1 DEF TypeOK
  <2>6. QED  BY <2>4, <2>5, EmptySeq
<1>2. QED  BY <1>1, Invariant, PTL
=============================================================================
