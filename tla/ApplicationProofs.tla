-------------------------- MODULE ApplicationProofs --------------------------
(***************************************************************************)
(* Proofs about what a job runs and reports.                               *)
(*                                                                         *)
(* Allreduce, for any number of ranks, files, clusters, iterations and     *)
(* losses: there is one course of the program, the same for all ranks.     *)
(* Where a rank is after n calls, and what it has computed, is a function  *)
(* of what the calls matched with them have brought, never of the rank.    *)
(* What the calls bring is what the rows of all ranks amount to, because   *)
(* the partitions share out the lines of the file and a sum may be taken   *)
(* block by block.  Facts about sums are proved by induction over finite   *)
(* sets, each for the set of the subsets it holds of.                      *)
(*                                                                         *)
(* Dispatch, for any number of workers and rounds: the messages the        *)
(* coordinator has taken count its rounds, every round it closed left a    *)
(* reply for each worker, and every reply is still in the channel or has   *)
(* taken its worker one round on.  So a coordinator that has all messages  *)
(* leaves the channels empty, whoever took whose copy.                     *)
(***************************************************************************)
EXTENDS Allreduce, Dispatch,
        SequenceTheorems, FiniteSetTheorems, WellFoundedInduction, TLAPS

----------------------------------------------------------------------------
(* Sums over finite sets *)

LEMMA Smallest ==
  ASSUME NEW T, T \subseteq Nat, T # {}
  PROVE  \E n \in T : \A m \in T : n <= m
<1>1. PICK n \in T : \A m \in T : <<m, n>> \notin OpToRel(<, Nat)
  BY NatLessThanWellFounded, WFMin
<1>2. \A m \in T : ~(m < n)
  BY <1>1 DEF OpToRel
<1>3. QED  BY <1>2

\* What holds of the empty set and goes on holding when an element is added holds.
LEMMA FiniteInduction ==
  ASSUME NEW S, IsFiniteSet(S), NEW H, {} \in H,
         \A T \in SUBSET S : \A x \in S \ T : T \in H => T \cup {x} \in H
  PROVE  S \in H
<1> DEFINE bad == {n \in Nat : \E T \in SUBSET S : T \notin H /\ Cardinality(T) = n}
<1>1. SUFFICES ASSUME S \notin H PROVE FALSE
  OBVIOUS
<1>2. Cardinality(S) \in bad
  BY <1>1, FS_CardinalityType
<1>3. PICK n \in bad : \A m \in bad : n <= m
  BY <1>2, Smallest
<1>4. PICK T \in SUBSET S : T \notin H /\ Cardinality(T) = n
  BY <1>3
<1>5. PICK x \in T : TRUE
  BY <1>4
<1>6. IsFiniteSet(T)
  BY FS_Subset
<1>7. Cardinality(T \ {x}) = n - 1 /\ n - 1 \in Nat
  <2>1. IsFiniteSet(T \ {x}) /\ Cardinality(T \ {x}) = n - 1
    BY <1>4, <1>5, <1>6, FS_RemoveElement
  <2>2. QED  BY <2>1, FS_CardinalityType
<1>8. T \ {x} \in H
  BY <1>3, <1>7
<1>9. T \in H
  <2>1. (T \ {x}) \cup {x} = T /\ T \ {x} \in SUBSET S /\ x \in S \ (T \ {x})
    BY <1>5
  <2>2. QED  BY <2>1, <1>8
<1>10. QED  BY <1>4, <1>9

Some(s) == CHOOSE x \in s : TRUE

\* g is what the fold computes for the subsets of S.
IsFold(g, f, S) ==
  g = [s \in SUBSET S |-> IF s = {} THEN 0 ELSE f[Some(s)] + g[s \ {Some(s)}]]

LEMMA SumIsFold == ASSUME NEW f PROVE SumFunction(f) = (CHOOSE g : IsFold(g, f, DOMAIN f))[DOMAIN f]
BY DEF SumFunction, SumFunctionOnSet, FoldFunctionOnSet, MapThenFoldSet, IsFold, Some

LEMMA FoldExists ==
  ASSUME NEW S, IsFiniteSet(S), NEW f \in [S -> Int]
  PROVE \E g \in [SUBSET S -> Int] : IsFold(g, f, S)
<1> DEFINE B(g, s) == IF s = {} THEN 0 ELSE f[Some(s)] + g[s \ {Some(s)}]
           Good(n) == \E g \in [SUBSET S -> Int] : \A s \in SUBSET S : Cardinality(s) <= n => g[s] = B(g, s)
           bad == {n \in Nat : ~Good(n)}
<1>1. \A s \in SUBSET S : IsFiniteSet(s) /\ Cardinality(s) \in Nat
  BY FS_Subset, FS_CardinalityType
<1>2. \A s \in SUBSET S : s # {} => Some(s) \in s
  BY DEF Some
<1>3. \A s \in SUBSET S : s # {} => s \ {Some(s)} \in SUBSET S /\ Cardinality(s \ {Some(s)}) = Cardinality(s) - 1
  BY <1>1, <1>2, FS_RemoveElement
<1>4. \A s \in SUBSET S : Cardinality(s) = 0 <=> s = {}
  BY <1>1, FS_EmptySet
<1>5. Good(0)
  <2> DEFINE g == [s \in SUBSET S |-> 0]
  <2>1. g \in [SUBSET S -> Int]
    OBVIOUS
  <2>2. \A s \in SUBSET S : Cardinality(s) <= 0 => g[s] = B(g, s)
    BY <1>1, <1>4
  <2>3. QED BY <2>1, <2>2
<1>6. ASSUME NEW n \in Nat, Good(n)
      PROVE  Good(n + 1)
  <2>1. PICK g \in [SUBSET S -> Int] : \A s \in SUBSET S : Cardinality(s) <= n => g[s] = B(g, s)
    BY <1>6
  <2> DEFINE h == [s \in SUBSET S |-> IF Cardinality(s) = n + 1 THEN B(g, s) ELSE g[s]]
  <2>2. h \in [SUBSET S -> Int]
    <3>1. ASSUME NEW s \in SUBSET S PROVE B(g, s) \in Int
      BY <1>2, <1>3
    <3>2. QED BY <3>1
  <2>3. ASSUME NEW s \in SUBSET S, Cardinality(s) <= n + 1
        PROVE  h[s] = B(h, s)
    <3>1. CASE s = {}
      BY <3>1, <1>4, <2>1
    <3>2. CASE s # {}
      <4>1. h[s \ {Some(s)}] = g[s \ {Some(s)}]
        BY <3>2, <1>1, <1>3, <2>3
      <4>2. B(h, s) = B(g, s)
        BY <4>1
      <4>3. h[s] = B(g, s)
        BY <2>1, <2>3, <1>1
      <4>4. QED BY <4>2, <4>3
    <3>3. QED BY <3>1, <3>2
  <2>4. QED BY <2>2, <2>3
<1> HIDE DEF Good
<1>7. Good(Cardinality(S))
  <2>1. SUFFICES ASSUME ~Good(Cardinality(S)) PROVE FALSE
    OBVIOUS
  <2>2. Cardinality(S) \in bad
    BY <2>1, FS_CardinalityType
  <2>3. PICK n \in bad : \A m \in bad : n <= m
    BY <2>2, Smallest
  <2>4. n # 0 /\ n - 1 \in Nat
    BY <1>5
  <2>5. Good(n - 1)
    BY <2>3, <2>4
  <2>6. Good(n - 1 + 1)
    BY <2>4, <2>5, <1>6
  <2>7. QED BY <2>3, <2>6
<1>8. PICK g \in [SUBSET S -> Int] : \A s \in SUBSET S : Cardinality(s) <= Cardinality(S) => g[s] = B(g, s)
  BY <1>7 DEF Good
<1>9. \A s \in SUBSET S : Cardinality(s) <= Cardinality(S)
  BY FS_Subset
<1>10. g = [s \in SUBSET S |-> B(g, s)]
  BY <1>8, <1>9
<1>11. QED BY <1>10 DEF IsFold

LEMMA FoldSums ==
  ASSUME NEW S, IsFiniteSet(S), NEW f \in [S -> Int], NEW g, IsFold(g, f, S)
  PROVE  /\ g[{}] = 0
         /\ \A T \in SUBSET S : g[T] \in Int /\ \A x \in T : g[T] = f[x] + g[T \ {x}]
<1>1. \A s \in SUBSET S : IsFiniteSet(s) /\ Cardinality(s) \in Nat
  BY FS_Subset, FS_CardinalityType
<1>2. \A s \in SUBSET S : s # {} => Some(s) \in s
  BY DEF Some
<1>3. \A s \in SUBSET S : \A x \in s : s \ {x} \in SUBSET S /\ Cardinality(s \ {x}) = Cardinality(s) - 1
  BY <1>1, FS_RemoveElement
<1>4. g[{}] = 0 /\ \A s \in SUBSET S : s # {} => g[s] = f[Some(s)] + g[s \ {Some(s)}]
  BY DEF IsFold
<1> DEFINE Good(T) == g[T] \in Int /\ \A x \in T : g[T] = f[x] + g[T \ {x}]
           bad == {n \in Nat : \E T \in SUBSET S : ~Good(T) /\ Cardinality(T) = n}
<1>5. SUFFICES ASSUME NEW U \in SUBSET S, ~Good(U) PROVE FALSE
  BY <1>4
<1>6. Cardinality(U) \in bad
  BY <1>1, <1>5
<1>7. PICK n \in bad : \A m \in bad : n <= m
  BY <1>6, Smallest
<1>8. PICK T \in SUBSET S : ~Good(T) /\ Cardinality(T) = n
  BY <1>7
<1>9. T # {}
  <2>1. Good({})
    BY <1>4
  <2>2. QED  BY <2>1, <1>8
<1>10. \A V \in SUBSET S : Cardinality(V) < n => Good(V)
  BY <1>1, <1>7
<1>11. \A x \in T : Good(T \ {x})
  BY <1>3, <1>8, <1>10
<1> DEFINE c == Some(T)
<1>12. c \in T /\ g[T] = f[c] + g[T \ {c}]
  BY <1>2, <1>4, <1>9
<1> HIDE DEF c
<1>13. g[T] \in Int
  <2>1. f[c] \in Int /\ g[T \ {c}] \in Int
    BY <1>11, <1>12
  <2>2. QED  BY <2>1, <1>12
<1>14. ASSUME NEW x \in T
       PROVE  g[T] = f[x] + g[T \ {x}]
  <2>1. CASE x = c
    BY <2>1, <1>12
  <2>2. CASE x # c
    <3>1. g[T \ {c}] = f[x] + g[(T \ {c}) \ {x}]
      BY <2>2, <1>11, <1>12
    <3>2. g[T \ {x}] = f[c] + g[(T \ {x}) \ {c}]
      BY <2>2, <1>11, <1>12
    <3>3. (T \ {c}) \ {x} = (T \ {x}) \ {c}
      OBVIOUS
    <3>4. g[(T \ {c}) \ {x}] \in Int
      <4>1. Cardinality((T \ {c}) \ {x}) < n
        <5>1. Cardinality(T \ {c}) = n - 1 /\ T \ {c} \in SUBSET S
          BY <1>3, <1>8, <1>12
        <5>2. Cardinality((T \ {c}) \ {x}) = Cardinality(T \ {c}) - 1
          BY <5>1, <1>3, <2>2
        <5>3. QED  BY <5>1, <5>2, <1>1
      <4>2. QED  BY <4>1, <1>10
    <3>5. f[x] \in Int /\ f[c] \in Int
      BY <1>12
    <3>6. g[T] = f[c] + (f[x] + g[(T \ {c}) \ {x}])
      BY <3>1, <1>12
    <3>7. g[T \ {x}] = f[c] + g[(T \ {c}) \ {x}]
      BY <3>2, <3>3
    <3>8. \A a, b, d \in Int : a + (b + d) = b + (a + d)
      OBVIOUS
    <3>9. QED  BY <3>4, <3>5, <3>6, <3>7, <3>8
  <2>3. QED  BY <2>1, <2>2
<1>15. QED  BY <1>8, <1>13, <1>14

LEMMA FoldUnique ==
  ASSUME NEW S, IsFiniteSet(S), NEW f \in [S -> Int], NEW g, IsFold(g, f, S),
         NEW U, IsFiniteSet(U), NEW e \in [U -> Int], NEW h, IsFold(h, e, U),
         U \subseteq S, \A x \in U : f[x] = e[x]
  PROVE  g[U] = h[U]
<1>1. /\ g[{}] = 0 /\ h[{}] = 0
      /\ \A T \in SUBSET S : g[T] \in Int /\ \A x \in T : g[T] = f[x] + g[T \ {x}]
      /\ \A T \in SUBSET U : h[T] \in Int /\ \A x \in T : h[T] = e[x] + h[T \ {x}]
  BY FoldSums
<1> DEFINE H == {T \in SUBSET U : g[T] = h[T]}
<1>2. {} \in H
  BY <1>1
<1>3. ASSUME NEW T \in SUBSET U, NEW x \in U \ T, T \in H
      PROVE  T \cup {x} \in H
  <2>1. (T \cup {x}) \ {x} = T
    OBVIOUS
  <2>2. T \cup {x} \in SUBSET U /\ T \cup {x} \in SUBSET S /\ x \in T \cup {x}
    OBVIOUS
  <2>3. g[T \cup {x}] = f[x] + g[(T \cup {x}) \ {x}] /\ h[T \cup {x}] = e[x] + h[(T \cup {x}) \ {x}]
    BY <2>2, <1>1
  <2>4. g[T \cup {x}] = f[x] + g[T] /\ h[T \cup {x}] = e[x] + h[T]
    BY <2>1, <2>3
  <2>5. QED  BY <2>2, <2>4, <1>3
<1> HIDE DEF H
<1>4. U \in H
  BY <1>2, <1>3, FiniteInduction
<1>5. QED  BY <1>4 DEF H

\* The sum of f over T.
SumOver(f, T) == SumFunction([i \in T |-> f[i]])

LEMMA SumOverFold ==
  ASSUME NEW T, IsFiniteSet(T), NEW f, \A i \in T : f[i] \in Int
  PROVE  \E g : IsFold(g, [i \in T |-> f[i]], T) /\ SumOver(f, T) = g[T]
<1> DEFINE e == [i \in T |-> f[i]]
<1>1. e \in [T -> Int] /\ DOMAIN e = T
  OBVIOUS
<1> HIDE DEF e
<1>2. \E g : IsFold(g, e, T)
  BY <1>1, FoldExists
<1>3. PICK g : g = CHOOSE h : IsFold(h, e, T)
  OBVIOUS
<1>4. IsFold(g, e, T)
  BY <1>2, <1>3
<1>5. SumFunction(e) = g[T]
  BY <1>1, <1>3, SumIsFold
<1>6. QED  BY <1>4, <1>5 DEF SumOver, e

LEMMA SumOverEmpty == \A f : SumOver(f, {}) = 0
<1> SUFFICES ASSUME NEW f PROVE SumOver(f, {}) = 0
  OBVIOUS
<1>1. IsFiniteSet({})
  BY FS_EmptySet
<1>2. PICK g : IsFold(g, [i \in {} |-> f[i]], {}) /\ SumOver(f, {}) = g[{}]
  BY <1>1, SumOverFold
<1>3. QED  BY <1>2 DEF IsFold

LEMMA SumOverAdd ==
  ASSUME NEW T, IsFiniteSet(T), NEW x, x \notin T, NEW f, \A i \in T \cup {x} : f[i] \in Int
  PROVE  SumOver(f, T \cup {x}) = SumOver(f, T) + f[x] /\ SumOver(f, T) \in Int
<1> DEFINE V == T \cup {x}
           e == [i \in T |-> f[i]]
           v == [i \in V |-> f[i]]
<1>1. IsFiniteSet(V)
  BY FS_AddElement
<1>2. e \in [T -> Int] /\ v \in [V -> Int] /\ T \subseteq V /\ V \ {x} = T /\ x \in V
      /\ (\A i \in T : e[i] = v[i]) /\ v[x] = f[x]
  OBVIOUS
<1>3. PICK g : IsFold(g, e, T) /\ SumOver(f, T) = g[T]
  BY SumOverFold
<1>4. PICK h : IsFold(h, v, V) /\ SumOver(f, V) = h[V]
  BY <1>1, SumOverFold
<1> HIDE DEF e, v, V
<1>5. g[T] \in Int
  BY <1>2, <1>3, FoldSums
<1>6. h[T] = g[T]
  BY <1>1, <1>2, <1>3, <1>4, FoldUnique
<1>7. h[V] = v[x] + h[V \ {x}]
  BY <1>1, <1>2, <1>4, FoldSums
<1>8. f[x] \in Int
  OBVIOUS
<1>9. h[V] = f[x] + g[T]
  BY <1>2, <1>6, <1>7
<1>10. SumOver(f, V) = SumOver(f, T) + f[x] /\ SumOver(f, T) \in Int
  BY <1>3, <1>4, <1>5, <1>8, <1>9
<1>11. QED  BY <1>10 DEF V

LEMMA SumOverInt ==
  ASSUME NEW T, IsFiniteSet(T), NEW f, \A i \in T : f[i] \in Int
  PROVE  SumOver(f, T) \in Int
<1> DEFINE H == {V \in SUBSET T : SumOver(f, V) \in Int}
<1>1. {} \in H
  BY SumOverEmpty
<1>2. ASSUME NEW V \in SUBSET T, NEW x \in T \ V, V \in H
      PROVE  V \cup {x} \in H
  <2>1. SumOver(f, V \cup {x}) = SumOver(f, V) + f[x]
    BY FS_Subset, SumOverAdd
  <2>2. QED  BY <2>1, <1>2
<1> HIDE DEF H
<1>3. T \in H
  BY <1>1, <1>2, FiniteInduction
<1>4. QED  BY <1>3 DEF H

LEMMA SumOverSame ==
  ASSUME NEW T, NEW f, NEW e, \A i \in T : f[i] = e[i]
  PROVE  SumOver(f, T) = SumOver(e, T)
<1>1. [i \in T |-> f[i]] = [i \in T |-> e[i]]
  OBVIOUS
<1>2. QED  BY <1>1 DEF SumOver

LEMMA SumOverUnion ==
  ASSUME NEW A, NEW B, IsFiniteSet(A), IsFiniteSet(B), A \cap B = {},
         NEW f, \A i \in A \cup B : f[i] \in Int
  PROVE  SumOver(f, A \cup B) = SumOver(f, A) + SumOver(f, B)
<1> DEFINE H == {V \in SUBSET B : SumOver(f, A \cup V) = SumOver(f, A) + SumOver(f, V)}
<1>1. {} \in H
  <2>1. SumOver(f, A) \in Int /\ A \cup {} = A
    BY SumOverInt
  <2>2. QED  BY <2>1, SumOverEmpty
<1>2. ASSUME NEW V \in SUBSET B, NEW x \in B \ V, V \in H
      PROVE  V \cup {x} \in H
  <2>1. IsFiniteSet(V) /\ IsFiniteSet(A \cup V)
    BY FS_Subset, FS_Union
  <2>2. SumOver(f, V \cup {x}) = SumOver(f, V) + f[x] /\ SumOver(f, V) \in Int
    BY <2>1, SumOverAdd
  <2>3. x \notin A \cup V /\ \A i \in (A \cup V) \cup {x} : f[i] \in Int
    OBVIOUS
  <2>4. SumOver(f, (A \cup V) \cup {x}) = SumOver(f, A \cup V) + f[x]
    BY <2>1, <2>3, SumOverAdd
  <2>5. (A \cup V) \cup {x} = A \cup (V \cup {x}) /\ f[x] \in Int
    OBVIOUS
  <2>6. SumOver(f, A) \in Int
    BY SumOverInt
  <2>7. SumOver(f, A \cup (V \cup {x})) = SumOver(f, A) + SumOver(f, V) + f[x]
    BY <2>4, <2>5, <1>2
  <2>8. SumOver(f, A \cup (V \cup {x})) = SumOver(f, A) + SumOver(f, V \cup {x})
    BY <2>2, <2>5, <2>6, <2>7
  <2>9. QED  BY <2>8
<1> HIDE DEF H
<1>3. B \in H
  BY <1>1, <1>2, FiniteInduction
<1>4. QED  BY <1>3 DEF H

\* The sum over all blocks is the sum of those over the blocks.
LEMMA SumOverBlocks ==
  ASSUME NEW J, IsFiniteSet(J), NEW P, NEW S, IsFiniteSet(S), \A j \in J : P[j] \subseteq S,
         \A j, k \in J : j # k => P[j] \cap P[k] = {},
         NEW f, \A i \in S : f[i] \in Int
  PROVE  SumOver(f, UNION {P[j] : j \in J}) = SumFunction([j \in J |-> SumOver(f, P[j])])
<1> DEFINE p == [j \in J |-> SumOver(f, P[j])]
           H == {L \in SUBSET J : SumOver(f, UNION {P[j] : j \in L}) = SumOver(p, L)}
<1>0. \A j \in J : p[j] = SumOver(f, P[j]) /\ p[j] \in Int /\ IsFiniteSet(P[j])
  BY FS_Subset, SumOverInt
<1>1. {} \in H
  <2>1. UNION {P[j] : j \in {}} = {}
    OBVIOUS
  <2>2. QED  BY <2>1, SumOverEmpty
<1> HIDE DEF p
<1>2. ASSUME NEW L \in SUBSET J, NEW x \in J \ L, L \in H
      PROVE  L \cup {x} \in H
  <2> DEFINE U == UNION {P[j] : j \in L}
  <2>1. UNION {P[j] : j \in L \cup {x}} = U \cup P[x]
    OBVIOUS
  <2>2. U \subseteq S /\ U \cap P[x] = {}
    OBVIOUS
  <2>3. IsFiniteSet(L) /\ IsFiniteSet(U) /\ IsFiniteSet(P[x])
    BY <1>0, <2>2, FS_Subset
  <2>4. \A i \in U \cup P[x] : f[i] \in Int
    BY <2>2
  <2> HIDE DEF U
  <2>5. SumOver(f, U \cup P[x]) = SumOver(f, U) + SumOver(f, P[x])
    BY <2>2, <2>3, <2>4, SumOverUnion
  <2>6. \A j \in L \cup {x} : p[j] \in Int
    BY <1>0
  <2>7. SumOver(p, L \cup {x}) = SumOver(p, L) + p[x]
    BY <2>3, <2>6, SumOverAdd
  <2>8. SumOver(f, U) = SumOver(p, L)
    BY <1>2 DEF U
  <2>9. SumOver(f, U \cup P[x]) = SumOver(p, L \cup {x})
    BY <2>5, <2>7, <2>8, <1>0
  <2>10. QED  BY <2>1, <2>9
<1> HIDE DEF H
<1>3. J \in H
  BY <1>1, <1>2, FiniteInduction
<1>4. SumOver(f, UNION {P[j] : j \in J}) = SumOver(p, J)
  BY <1>3 DEF H
<1>5. [j \in J |-> p[j]] = p
  BY DEF p
<1>6. QED  BY <1>4, <1>5 DEF SumOver, p

\* The sum does not depend on what the summands are called.
LEMMA SumOverRenamed ==
  ASSUME NEW T, IsFiniteSet(T), NEW b, \A s, t \in T : b[s] = b[t] => s = t,
         NEW f, \A t \in T : f[b[t]] \in Int
  PROVE  SumOver(f, {b[t] : t \in T}) = SumOver([t \in T |-> f[b[t]]], T)
<1> DEFINE e == [t \in T |-> f[b[t]]]
           H == {V \in SUBSET T : /\ SumOver(f, {b[t] : t \in V}) = SumOver(e, V)
                                  /\ IsFiniteSet({b[t] : t \in V})}
<1>0. \A t \in T : e[t] = f[b[t]] /\ e[t] \in Int
  OBVIOUS
<1>1. {} \in H
  <2>1. {b[t] : t \in {}} = {}
    OBVIOUS
  <2>2. QED  BY <2>1, SumOverEmpty, FS_EmptySet
<1> HIDE DEF e
<1>2. ASSUME NEW V \in SUBSET T, NEW x \in T \ V, V \in H
      PROVE  V \cup {x} \in H
  <2> DEFINE U == {b[t] : t \in V}
  <2>1. {b[t] : t \in V \cup {x}} = U \cup {b[x]}
    OBVIOUS
  <2>2. b[x] \notin U /\ \A i \in U \cup {b[x]} : f[i] \in Int
    OBVIOUS
  <2>3. IsFiniteSet(V) /\ IsFiniteSet(U) /\ SumOver(f, U) = SumOver(e, V)
    BY <1>2, FS_Subset
  <2> HIDE DEF U
  <2>4. SumOver(f, U \cup {b[x]}) = SumOver(f, U) + f[b[x]] /\ IsFiniteSet(U \cup {b[x]})
    BY <2>2, <2>3, SumOverAdd, FS_AddElement
  <2>5. \A i \in V \cup {x} : e[i] \in Int
    BY <1>0
  <2>6. SumOver(e, V \cup {x}) = SumOver(e, V) + e[x]
    BY <2>3, <2>5, SumOverAdd
  <2>7. e[x] = f[b[x]]
    BY <1>0
  <2>8. SumOver(f, U \cup {b[x]}) = SumOver(e, V \cup {x})
    BY <2>3, <2>4, <2>6, <2>7
  <2>9. QED  BY <2>1, <2>4, <2>8
<1> HIDE DEF H
<1>3. T \in H
  BY <1>1, <1>2, FiniteInduction
<1>4. QED  BY <1>3 DEF H, e

\* A sum of smaller numbers is smaller, and as large only if each of them is.
LEMMA SumOverMonotone ==
  ASSUME NEW T, IsFiniteSet(T), NEW f, NEW e,
         \A i \in T : f[i] \in Int /\ e[i] \in Int /\ f[i] <= e[i]
  PROVE  /\ SumOver(f, T) <= SumOver(e, T)
         /\ SumOver(f, T) = SumOver(e, T) => \A i \in T : f[i] = e[i]
<1> DEFINE H == {V \in SUBSET T : /\ SumOver(f, V) <= SumOver(e, V)
                                  /\ SumOver(f, V) = SumOver(e, V) => \A i \in V : f[i] = e[i]}
<1>1. {} \in H
  <2>1. SumOver(f, {}) = 0 /\ SumOver(e, {}) = 0
    BY SumOverEmpty
  <2>2. QED  BY <2>1
<1>2. ASSUME NEW V \in SUBSET T, NEW x \in T \ V, V \in H
      PROVE  V \cup {x} \in H
  <2>1. IsFiniteSet(V)
    BY FS_Subset
  <2>2. SumOver(f, V \cup {x}) = SumOver(f, V) + f[x] /\ SumOver(f, V) \in Int
    BY <2>1, SumOverAdd
  <2>3. SumOver(e, V \cup {x}) = SumOver(e, V) + e[x] /\ SumOver(e, V) \in Int
    BY <2>1, SumOverAdd
  <2>4. f[x] \in Int /\ e[x] \in Int /\ f[x] <= e[x] /\ SumOver(f, V) <= SumOver(e, V)
    BY <1>2
  <2>5. SumOver(f, V \cup {x}) <= SumOver(e, V \cup {x})
    BY <2>2, <2>3, <2>4
  <2>6. ASSUME SumOver(f, V \cup {x}) = SumOver(e, V \cup {x})
        PROVE  \A i \in V \cup {x} : f[i] = e[i]
    <3>1. SumOver(f, V) = SumOver(e, V) /\ f[x] = e[x]
      BY <2>2, <2>3, <2>4, <2>6
    <3>2. QED  BY <3>1, <1>2
  <2>7. QED  BY <2>5, <2>6
<1> HIDE DEF H
<1>3. T \in H
  BY <1>1, <1>2, FiniteInduction
<1>4. QED  BY <1>3 DEF H

\* A common divisor of the summands divides the sum.
LEMMA SumOverDivides ==
  ASSUME NEW T, IsFiniteSet(T), NEW f, NEW d \in Nat \ {0},
         \A i \in T : f[i] \in Int /\ (f[i] % d) = 0
  PROVE  (SumOver(f, T) % d) = 0
<1> DEFINE H == {V \in SUBSET T : (SumOver(f, V) % d) = 0}
<1>1. {} \in H
  BY SumOverEmpty
<1>2. ASSUME NEW V \in SUBSET T, NEW x \in T \ V, V \in H
      PROVE  V \cup {x} \in H
  <2>1. SumOver(f, V \cup {x}) = SumOver(f, V) + f[x] /\ SumOver(f, V) \in Int
    BY FS_Subset, SumOverAdd
  <2>2. \A a, c \in Int : (a % d) = 0 /\ (c % d) = 0 => ((a + c) % d) = 0
    OBVIOUS
  <2>3. QED  BY <2>1, <2>2, <1>2
<1> HIDE DEF H
<1>3. T \in H
  BY <1>1, <1>2, FiniteInduction
<1>4. QED  BY <1>3 DEF H

LEMMA SumOverOnes ==
  ASSUME NEW T, IsFiniteSet(T), NEW f, \A i \in T : f[i] = 1
  PROVE  SumOver(f, T) = Cardinality(T)
<1> DEFINE H == {V \in SUBSET T : SumOver(f, V) = Cardinality(V)}
<1>1. {} \in H
  BY SumOverEmpty, FS_EmptySet
<1>2. ASSUME NEW V \in SUBSET T, NEW x \in T \ V, V \in H
      PROVE  V \cup {x} \in H
  <2>0. IsFiniteSet(V) /\ \A i \in V \cup {x} : f[i] \in Int
    BY FS_Subset
  <2>1. SumOver(f, V \cup {x}) = SumOver(f, V) + f[x] /\ IsFiniteSet(V)
    BY <2>0, SumOverAdd
  <2>2. Cardinality(V \cup {x}) = Cardinality(V) + 1
    BY <2>1, FS_AddElement
  <2>3. QED  BY <2>1, <2>2, <1>2
<1> HIDE DEF H
<1>3. T \in H
  BY <1>1, <1>2, FiniteInduction
<1>4. QED  BY <1>3 DEF H

\* The squared distances from c are those from m, and what lies between c and m.
LEMMA SumOfSquares ==
  ASSUME NEW T, IsFiniteSet(T), NEW x, \A i \in T : x[i] \in Int, NEW c \in Int, NEW m \in Int
  PROVE  SumOver([i \in T |-> (x[i] - c) * (x[i] - c)], T)
           = SumOver([i \in T |-> (x[i] - m) * (x[i] - m)], T)
             + 2 * (m - c) * (SumOver(x, T) - Cardinality(T) * m) + Cardinality(T) * ((c - m) * (c - m))
<1> DEFINE f == [i \in T |-> (x[i] - c) * (x[i] - c)]
           e == [i \in T |-> (x[i] - m) * (x[i] - m)]
           Eq(V) == SumOver(f, V) = SumOver(e, V) + 2 * (m - c) * (SumOver(x, V) - Cardinality(V) * m)
                                    + Cardinality(V) * ((c - m) * (c - m))
           H == {V \in SUBSET T : Eq(V)}
<1>0. /\ \A i \in T : f[i] = (x[i] - c) * (x[i] - c) /\ e[i] = (x[i] - m) * (x[i] - m)
      /\ \A i \in T : f[i] \in Int /\ e[i] \in Int
  OBVIOUS
<1> HIDE DEF f, e
<1>1. {} \in H
  <2>1. SumOver(f, {}) = 0 /\ SumOver(e, {}) = 0 /\ SumOver(x, {}) = 0 /\ Cardinality({}) = 0
    BY SumOverEmpty, FS_EmptySet
  <2>2. 0 = 0 + 2 * (m - c) * (0 - 0 * m) + 0 * ((c - m) * (c - m))
    OBVIOUS
  <2>3. QED  BY <2>1, <2>2
<1>2. ASSUME NEW V \in SUBSET T, NEW z \in T \ V, V \in H
      PROVE  V \cup {z} \in H
  <2>1. IsFiniteSet(V)
    BY FS_Subset
  <2>2. SumOver(f, V \cup {z}) = SumOver(f, V) + f[z] /\ SumOver(f, V) \in Int
    BY <1>0, <2>1, SumOverAdd
  <2>3. SumOver(e, V \cup {z}) = SumOver(e, V) + e[z] /\ SumOver(e, V) \in Int
    BY <1>0, <2>1, SumOverAdd
  <2>4. SumOver(x, V \cup {z}) = SumOver(x, V) + x[z] /\ SumOver(x, V) \in Int
    BY <2>1, SumOverAdd
  <2>5. Cardinality(V \cup {z}) = Cardinality(V) + 1 /\ Cardinality(V) \in Int
    BY <2>1, FS_AddElement, FS_CardinalityType
  <2>6. \A A, B, X, k, y \in Int :
          A = B + 2 * (m - c) * (X - k * m) + k * ((c - m) * (c - m)) =>
          A + (y - c) * (y - c) = (B + (y - m) * (y - m))
             + 2 * (m - c) * ((X + y) - (k + 1) * m) + (k + 1) * ((c - m) * (c - m))
    OBVIOUS
  <2>7. Eq(V) /\ x[z] \in Int
    BY <1>2
  <2>8. SumOver(f, V) + (x[z] - c) * (x[z] - c) = (SumOver(e, V) + (x[z] - m) * (x[z] - m))
             + 2 * (m - c) * ((SumOver(x, V) + x[z]) - (Cardinality(V) + 1) * m)
             + (Cardinality(V) + 1) * ((c - m) * (c - m))
    BY <2>2, <2>3, <2>4, <2>5, <2>6, <2>7
  <2>9. f[z] = (x[z] - c) * (x[z] - c) /\ e[z] = (x[z] - m) * (x[z] - m)
    BY <1>0
  <2>10. Eq(V \cup {z})
    BY <2>2, <2>3, <2>4, <2>5, <2>8, <2>9
  <2>11. QED  BY <2>10
<1> HIDE DEF H
<1>3. T \in H
  BY <1>1, <1>2, FiniteInduction
<1>4. QED  BY <1>3 DEF H, f, e

----------------------------------------------------------------------------
(* The rows of a rank and what it makes of them *)

\* Rows as the loaders leave them.
AreRows(rows) ==
  /\ rows = [i \in DOMAIN rows |-> rows[i]]
  /\ DOMAIN rows \subseteq Nat /\ IsFiniteSet(DOMAIN rows)
  /\ \A i \in DOMAIN rows : rows[i].x \in Int

Points(rows) == [i \in DOMAIN rows |-> rows[i].x]
Own(rows, c, j) == {i \in DOMAIN rows : Nearest(rows[i].x, c) = j}
Centroids == [Cluster -> Int]

LEMMA Squares == \A a \in Int : a * a \in Nat /\ (a * a = 0 => a = 0)
OBVIOUS

LEMMA MinIsSmallest ==
  ASSUME NEW T, T \subseteq Nat, T # {}
  PROVE  Min(T) \in T /\ \A n \in T : Min(T) <= n
BY Smallest DEF Min

LEMMA NearestIsNearest ==
  ASSUME NEW x \in Int, NEW c \in Centroids
  PROVE  /\ Nearest(x, c) \in Cluster
         /\ \A i \in Cluster : Distance(x, c[Nearest(x, c)]) <= Distance(x, c[i])
         /\ Min({Distance(x, c[j]) : j \in Cluster}) = Distance(x, c[Nearest(x, c)])
         /\ \A i \in Cluster : Distance(x, c[i]) \in Nat
<1> DEFINE D == {Distance(x, c[j]) : j \in Cluster}
           M == {j \in Cluster : \A i \in Cluster : Distance(x, c[j]) <= Distance(x, c[i])}
<1>1. \A i \in Cluster : Distance(x, c[i]) \in Nat
  <2>1. \A i \in Cluster : x - c[i] \in Int
    BY DEF Centroids
  <2>2. QED  BY <2>1, Squares DEF Distance
<1>2. 1 \in Cluster /\ Cluster \subseteq Nat
  BY LloydAssumption DEF Cluster
<1>3. D \subseteq Nat /\ D # {}
  BY <1>1, <1>2
<1>4. Min(D) \in D /\ \A n \in D : Min(D) <= n
  BY <1>3, MinIsSmallest
<1>5. PICK j \in Cluster : Min(D) = Distance(x, c[j])
  BY <1>4
<1>6. M # {} /\ M \subseteq Nat
  <2>1. \A i \in Cluster : Distance(x, c[i]) \in D
    OBVIOUS
  <2>2. \A i \in Cluster : Distance(x, c[j]) <= Distance(x, c[i])
    BY <1>4, <1>5, <2>1
  <2>3. QED  BY <1>2, <2>2
<1>7. Min(M) \in M
  BY <1>6, MinIsSmallest
<1>8. Nearest(x, c) \in M
  BY <1>7 DEF Nearest
<1>9. Min(D) = Distance(x, c[Nearest(x, c)])
  <2>1. Distance(x, c[Nearest(x, c)]) \in D
    BY <1>8
  <2>2. Min(D) <= Distance(x, c[Nearest(x, c)])
    BY <1>4, <2>1
  <2>3. Distance(x, c[Nearest(x, c)]) <= Min(D)
    BY <1>5, <1>8
  <2>4. QED  BY <1>1, <1>5, <1>8, <2>2, <2>3
<1>10. QED  BY <1>1, <1>8, <1>9

LEMMA SumOfPoints ==
  ASSUME NEW rows, NEW T, T \subseteq DOMAIN rows
  PROVE  SumOfRows(rows, T) = SumOver(Points(rows), T)
<1>1. [i \in T |-> Points(rows)[i]] = [i \in T |-> rows[i].x]
  BY DEF Points
<1>2. QED  BY <1>1 DEF SumOfRows, SumOver

\* Every row is in one chunk.
LEMMA ChunksArePartition ==
  ASSUME NEW rows, AreRows(rows)
  PROVE  /\ IsFiniteSet(Chunks(rows)) /\ \A chunk \in Chunks(rows) : chunk \subseteq DOMAIN rows
         /\ UNION Chunks(rows) = DOMAIN rows
         /\ \A a, b \in Chunks(rows) : a # b => a \cap b = {}
<1> DEFINE D == DOMAIN rows
           Before(i) == Cardinality({k \in D : k < i})
           last == (NumRows(rows) - 1) \div ChunkRows
           Chunk(n) == {i \in D : (Before(i) \div ChunkRows) = n}
<1>1. Chunks(rows) = {Chunk(n) : n \in 0..last}
  BY DEF Chunks
<1>2. IsFiniteSet(D) /\ D \subseteq Nat /\ ChunkRows \in Nat \ {0}
  BY LloydAssumption DEF AreRows
<1>3. NumRows(rows) = Cardinality(D) /\ Cardinality(D) \in Nat
  BY <1>2, FS_CardinalityType DEF NumRows
<1>4. ASSUME NEW i \in D
      PROVE  (Before(i) \div ChunkRows) \in 0..last
  <2>1. {k \in D : k < i} \in SUBSET (D \ {i})
    BY <1>2
  <2>2. IsFiniteSet(D \ {i}) /\ Cardinality(D \ {i}) = Cardinality(D) - 1
    BY <1>2, FS_RemoveElement
  <2>3. IsFiniteSet({k \in D : k < i}) /\ Before(i) <= Cardinality(D) - 1
    BY <2>1, <2>2, FS_Subset
  <2>4. Before(i) \in Nat
    BY <2>3, FS_CardinalityType
  <2> HIDE DEF Before
  <2>5. \A a, b \in Nat : a <= b => (a \div ChunkRows) \in 0..(b \div ChunkRows)
    BY <1>2
  <2>6. Cardinality(D) - 1 \in Nat
    BY <1>3, <2>3, <2>4
  <2>7. QED  BY <1>3, <2>3, <2>4, <2>5, <2>6
<1> HIDE DEF Before, last
<1>5. IsFiniteSet(Chunks(rows))
  <2>1. Chunks(rows) \in SUBSET (SUBSET D)
    BY <1>1
  <2>2. IsFiniteSet(SUBSET D)
    BY <1>2, FS_SUBSET
  <2>3. QED  BY <2>1, <2>2, FS_Subset
<1>6. \A chunk \in Chunks(rows) : chunk \subseteq D
  BY <1>1
<1>7. UNION Chunks(rows) = D
  BY <1>1, <1>4
<1>8. \A a, b \in Chunks(rows) : a # b => a \cap b = {}
  BY <1>1
<1>9. QED  BY <1>5, <1>6, <1>7, <1>8

\* What the chunks add up to is what the rows of a cluster do.
LEMMA LocalSumsAreSums ==
  ASSUME NEW rows, AreRows(rows), NEW c, NEW j \in Cluster
  PROVE  /\ LocalSums(rows, c)[j] = SumOver(Points(rows), Own(rows, c, j))
         /\ LocalCounts(rows, c)[j] = Cardinality(Own(rows, c, j))
<1> DEFINE J == Chunks(rows)
           P == [chunk \in J |-> {i \in chunk : Labels(rows, c)[i] = j}]
           ones == [i \in DOMAIN rows |-> 1]
<1>1. /\ IsFiniteSet(J) /\ \A chunk \in J : chunk \subseteq DOMAIN rows
      /\ UNION J = DOMAIN rows
      /\ \A a, b \in J : a # b => a \cap b = {}
  BY ChunksArePartition
<1> HIDE DEF J
<1>2. /\ \A chunk \in J : P[chunk] = {i \in chunk : Labels(rows, c)[i] = j}
      /\ \A chunk \in J : P[chunk] \subseteq DOMAIN rows /\ P[chunk] = chunk \cap Own(rows, c, j)
  BY <1>1 DEF Labels, Own
<1> HIDE DEF P
<1>3. \A a, b \in J : a # b => P[a] \cap P[b] = {}
  BY <1>1, <1>2
<1>4. UNION {P[chunk] : chunk \in J} = Own(rows, c, j)
  BY <1>1, <1>2 DEF Own
<1>5. IsFiniteSet(DOMAIN rows) /\ \A i \in DOMAIN rows : Points(rows)[i] \in Int /\ ones[i] = 1 /\ ones[i] \in Int
  BY DEF AreRows, Points
<1> HIDE DEF ones
<1>6. SumOver(Points(rows), Own(rows, c, j)) = SumFunction([chunk \in J |-> SumOver(Points(rows), P[chunk])])
  BY <1>1, <1>2, <1>3, <1>4, <1>5, SumOverBlocks
<1>7. SumOver(ones, Own(rows, c, j)) = SumFunction([chunk \in J |-> SumOver(ones, P[chunk])])
  BY <1>1, <1>2, <1>3, <1>4, <1>5, SumOverBlocks
<1>8. [chunk \in J |-> SumOver(Points(rows), P[chunk])] = [chunk \in J |-> SumOfRows(rows, {i \in chunk : Labels(rows, c)[i] = j})]
  BY <1>2, SumOfPoints
<1>9. \A T \in SUBSET (DOMAIN rows) : SumOver(ones, T) = Cardinality(T)
  BY <1>5, FS_Subset, SumOverOnes
<1>10. [chunk \in J |-> SumOver(ones, P[chunk])] = [chunk \in J |-> Cardinality({i \in chunk : Labels(rows, c)[i] = j})]
  BY <1>2, <1>9
<1>11. SumOver(ones, Own(rows, c, j)) = Cardinality(Own(rows, c, j))
  BY <1>9 DEF Own
<1>12. LocalSums(rows, c)[j] = SumFunction([chunk \in J |-> SumOfRows(rows, {i \in chunk : Labels(rows, c)[i] = j})])
  BY DEF LocalSums, J
<1>13. LocalCounts(rows, c)[j] = SumFunction([chunk \in J |-> Cardinality({i \in chunk : Labels(rows, c)[i] = j})])
  BY DEF LocalCounts, J
<1>14. QED  BY <1>6, <1>7, <1>8, <1>10, <1>11, <1>12, <1>13

Costs(rows, c) == [i \in DOMAIN rows |-> Distance(rows[i].x, c[Nearest(rows[i].x, c)])]

LEMMA WcssIsSum ==
  ASSUME NEW rows, AreRows(rows), NEW c \in Centroids
  PROVE  /\ Wcss(rows, c) = SumOver(Costs(rows, c), DOMAIN rows)
         /\ \A i \in DOMAIN rows : Costs(rows, c)[i] \in Int
<1>1. ASSUME NEW i \in DOMAIN rows
      PROVE  /\ Min({Distance(rows[i].x, c[j]) : j \in Cluster}) = Costs(rows, c)[i]
             /\ Costs(rows, c)[i] \in Int
  <2>1. rows[i].x \in Int
    BY DEF AreRows
  <2>2. Costs(rows, c)[i] = Distance(rows[i].x, c[Nearest(rows[i].x, c)])
    BY DEF Costs
  <2>3. /\ Min({Distance(rows[i].x, c[j]) : j \in Cluster}) = Distance(rows[i].x, c[Nearest(rows[i].x, c)])
        /\ Nearest(rows[i].x, c) \in Cluster
        /\ \A j \in Cluster : Distance(rows[i].x, c[j]) \in Nat
    BY <2>1, NearestIsNearest
  <2>4. QED  BY <2>2, <2>3
<1>2. [i \in DOMAIN rows |-> Min({Distance(rows[i].x, c[j]) : j \in Cluster})] =
      [i \in DOMAIN rows |-> Costs(rows, c)[i]]
  BY <1>1
<1>3. QED  BY <1>1, <1>2 DEF Wcss, SumOver

\* The rows of the clusters are the rows.
LEMMA OwnRows ==
  ASSUME NEW rows, AreRows(rows), NEW c \in Centroids
  PROVE  /\ \A j \in Cluster : Own(rows, c, j) \subseteq DOMAIN rows /\ IsFiniteSet(Own(rows, c, j))
         /\ \A j, k \in Cluster : j # k => Own(rows, c, j) \cap Own(rows, c, k) = {}
         /\ UNION {Own(rows, c, j) : j \in Cluster} = DOMAIN rows
         /\ IsFiniteSet(Cluster)
<1>1. \A i \in DOMAIN rows : Nearest(rows[i].x, c) \in Cluster
  BY NearestIsNearest DEF AreRows
<1>2. UNION {Own(rows, c, j) : j \in Cluster} = DOMAIN rows
  BY <1>1 DEF Own
<1>3. \A j \in Cluster : Own(rows, c, j) \in SUBSET (DOMAIN rows)
  BY DEF Own
<1>4. IsFiniteSet(DOMAIN rows)
  BY DEF AreRows
<1>5. IsFiniteSet(Cluster)
  BY LloydAssumption, FS_Interval DEF Cluster
<1>6. \A j, k \in Cluster : j # k => Own(rows, c, j) \cap Own(rows, c, k) = {}
  BY DEF Own
<1>7. \A j \in Cluster : IsFiniteSet(Own(rows, c, j))
  BY <1>3, <1>4, FS_Subset
<1>8. QED  BY <1>2, <1>3, <1>5, <1>6, <1>7

\* What the rows of T cost with their centroid at d.
CostAt(rows, T, d) == SumOver([i \in T |-> Distance(rows[i].x, d)], T)

\* With the mean in place of a centroid the rows of a cluster cost less.
LEMMA MeanCostsLess ==
  ASSUME NEW rows, AreRows(rows), NEW T, T \subseteq DOMAIN rows, NEW c \in Int, NEW m \in Int,
         T = {} \/ m * Cardinality(T) = SumOver(Points(rows), T)
  PROVE  /\ CostAt(rows, T, m) \in Int /\ CostAt(rows, T, c) \in Int
         /\ CostAt(rows, T, m) <= CostAt(rows, T, c)
         /\ CostAt(rows, T, m) = CostAt(rows, T, c) => T = {} \/ m = c
<1> DEFINE x == [i \in T |-> rows[i].x]
           f(d) == [i \in T |-> (x[i] - d) * (x[i] - d)]
           k == Cardinality(T)
           X == SumOver(x, T)
<1>1. IsFiniteSet(T) /\ k \in Nat /\ (k = 0 <=> T = {})
  BY FS_Subset, FS_CardinalityType, FS_EmptySet DEF AreRows
<1>2. \A i \in T : x[i] = rows[i].x /\ x[i] = Points(rows)[i] /\ x[i] \in Int
  BY DEF AreRows, Points
<1> HIDE DEF x
<1>3. \A d \in Int : /\ f(d) = [i \in T |-> Distance(rows[i].x, d)]
                     /\ \A i \in T : f(d)[i] \in Int
  BY <1>2 DEF Distance
<1>4. SumOver(f(c), T) = SumOver(f(m), T) + 2 * (m - c) * (X - k * m) + k * ((c - m) * (c - m))
  BY <1>1, <1>2, SumOfSquares
<1>5. \A d \in Int : SumOver(f(d), T) \in Int
  BY <1>1, <1>3, SumOverInt
<1>6. X \in Int /\ X = SumOver(Points(rows), T)
  BY <1>1, <1>2, SumOverInt, SumOverSame
<1> HIDE DEF f, X, k
<1>7. CASE T = {}
  <2>1. SumOver(f(c), T) = 0 /\ SumOver(f(m), T) = 0
    BY <1>7, SumOverEmpty
  <2>2. QED  BY <2>1, <1>3, <1>5, <1>7 DEF CostAt
<1>8. CASE T # {}
  <2>1. X - k * m = 0
    BY <1>1, <1>6, <1>8 DEF k
  <2>2. 2 * (m - c) * (X - k * m) = 0
    BY <2>1
  <2>3. SumOver(f(c), T) = SumOver(f(m), T) + k * ((c - m) * (c - m))
    BY <1>1, <1>4, <1>5, <2>2
  <2>4. k * ((c - m) * (c - m)) \in Nat /\ (k * ((c - m) * (c - m)) = 0 => c = m)
    <3>1. (c - m) * (c - m) \in Nat /\ ((c - m) * (c - m) = 0 => c - m = 0)
      BY Squares
    <3>2. \A a, b \in Nat : a # 0 => a * b \in Nat /\ (a * b = 0 => b = 0)
      OBVIOUS
    <3>3. k # 0 /\ k \in Nat
      BY <1>1, <1>8
    <3>4. k * ((c - m) * (c - m)) \in Nat /\ (k * ((c - m) * (c - m)) = 0 => (c - m) * (c - m) = 0)
      BY <3>1, <3>2, <3>3
    <3>5. c - m = 0 => c = m
      OBVIOUS
    <3>6. QED  BY <3>1, <3>4, <3>5
  <2>5. SumOver(f(m), T) <= SumOver(f(c), T) /\ (SumOver(f(m), T) = SumOver(f(c), T) => m = c)
    BY <1>5, <2>3, <2>4
  <2>6. QED  BY <2>5, <1>3, <1>5 DEF CostAt
<1>9. QED  BY <1>7, <1>8

\* metrics.py, wcss_series: no iteration of Lloyd's algorithm makes the cost grow,
\* and one that does not lower it leaves every centroid with rows where it is.
LEMMA StepCostsLess ==
  ASSUME NEW rows, AreRows(rows), NEW from \in Centroids, NEW to \in Centroids, NEW spare,
         IsLloydStep(rows, from, to, spare)
  PROVE  /\ Wcss(rows, to) \in Int /\ Wcss(rows, from) \in Int
         /\ Wcss(rows, to) <= Wcss(rows, from)
         /\ Wcss(rows, to) = Wcss(rows, from) =>
              \A j \in Cluster : Own(rows, from, j) # {} => to[j] = from[j]
<1> DEFINE D == DOMAIN rows
           h == Costs(rows, to)
           g == [i \in D |-> Distance(rows[i].x, to[Nearest(rows[i].x, from)])]
           f == Costs(rows, from)
           P == [j \in Cluster |-> Own(rows, from, j)]
           A == [j \in Cluster |-> SumOver(g, P[j])]
           B == [j \in Cluster |-> SumOver(f, P[j])]
<1>1. /\ IsFiniteSet(D) /\ \A i \in D : rows[i].x \in Int
      /\ \A i \in D : Nearest(rows[i].x, from) \in Cluster
      /\ \A i \in D : h[i] \in Int /\ f[i] \in Int
      /\ Wcss(rows, to) = SumOver(h, D) /\ Wcss(rows, from) = SumOver(f, D)
  BY NearestIsNearest, WcssIsSum DEF AreRows
<1>2. ASSUME NEW i \in D
      PROVE  g[i] \in Int /\ h[i] <= g[i]
  <2>1. Nearest(rows[i].x, from) \in Cluster /\ rows[i].x \in Int
    BY <1>1
  <2>2. g[i] = Distance(rows[i].x, to[Nearest(rows[i].x, from)])
    OBVIOUS
  <2>3. h[i] = Distance(rows[i].x, to[Nearest(rows[i].x, to)])
    BY DEF Costs
  <2>4. /\ \A k \in Cluster : Distance(rows[i].x, to[Nearest(rows[i].x, to)]) <= Distance(rows[i].x, to[k])
        /\ \A k \in Cluster : Distance(rows[i].x, to[k]) \in Nat
    BY <2>1, NearestIsNearest
  <2>5. QED  BY <2>1, <2>2, <2>3, <2>4
<1>3. SumOver(h, D) <= SumOver(g, D) /\ SumOver(h, D) \in Int /\ SumOver(g, D) \in Int /\ SumOver(f, D) \in Int
  <2> HIDE DEF g, h, f
  <2>1. QED  BY <1>1, <1>2, SumOverMonotone, SumOverInt
<1>4. /\ \A j \in Cluster : P[j] = Own(rows, from, j) /\ P[j] \subseteq D /\ IsFiniteSet(P[j])
      /\ \A j, k \in Cluster : j # k => P[j] \cap P[k] = {}
      /\ UNION {P[j] : j \in Cluster} = D
      /\ IsFiniteSet(Cluster)
  <2>1. {P[j] : j \in Cluster} = {Own(rows, from, j) : j \in Cluster}
    OBVIOUS
  <2>2. QED  BY <2>1, OwnRows
<1> HIDE DEF P
<1>5. SumOver(g, D) = SumOver(A, Cluster) /\ SumOver(f, D) = SumOver(B, Cluster)
  <2> HIDE DEF g, f
  <2>0. /\ IsFiniteSet(Cluster) /\ IsFiniteSet(D) /\ \A j \in Cluster : P[j] \subseteq D
        /\ \A j, k \in Cluster : j # k => P[j] \cap P[k] = {}
        /\ \A i \in D : f[i] \in Int /\ g[i] \in Int
    BY <1>1, <1>2, <1>4
  <2> HIDE DEF D
  <2>1. SumOver(g, UNION {P[j] : j \in Cluster}) = SumFunction([j \in Cluster |-> SumOver(g, P[j])])
    BY <2>0, SumOverBlocks
  <2>2. SumOver(f, UNION {P[j] : j \in Cluster}) = SumFunction([j \in Cluster |-> SumOver(f, P[j])])
    BY <2>0, SumOverBlocks
  <2>3. A = [j \in Cluster |-> A[j]] /\ B = [j \in Cluster |-> B[j]]
    OBVIOUS
  <2>4. /\ SumFunction([j \in Cluster |-> SumOver(g, P[j])]) = SumOver(A, Cluster)
        /\ SumFunction([j \in Cluster |-> SumOver(f, P[j])]) = SumOver(B, Cluster)
    BY <2>3 DEF SumOver
  <2>5. QED  BY <2>1, <2>2, <2>4, <1>4
<1>6. ASSUME NEW j \in Cluster
      PROVE  /\ A[j] \in Int /\ B[j] \in Int /\ A[j] <= B[j]
             /\ A[j] = B[j] => P[j] = {} \/ to[j] = from[j]
  <2>1. /\ [i \in P[j] |-> Distance(rows[i].x, to[j])] = [i \in P[j] |-> g[i]]
        /\ [i \in P[j] |-> Distance(rows[i].x, from[j])] = [i \in P[j] |-> f[i]]
    BY <1>4 DEF Own, Costs
  <2>2. CostAt(rows, P[j], to[j]) = A[j] /\ CostAt(rows, P[j], from[j]) = B[j]
    <3>1. /\ SumOver([i \in P[j] |-> g[i]], P[j]) = SumOver(g, P[j])
          /\ SumOver([i \in P[j] |-> f[i]], P[j]) = SumOver(f, P[j])
      <4> HIDE DEF g, f
      <4>1. QED  BY SumOverSame
    <3>2. A[j] = SumOver(g, P[j]) /\ B[j] = SumOver(f, P[j])
      OBVIOUS
    <3>3. QED  BY <2>1, <3>1, <3>2 DEF CostAt
  <2>3. P[j] = {} \/ to[j] * Cardinality(P[j]) = SumOver(Points(rows), P[j])
    <3>1. {i \in D : Labels(rows, from)[i] = j} = P[j]
      BY <1>4 DEF Labels, Own
    <3>2. P[j] = {} \/ to[j] * Cardinality(P[j]) = SumOfRows(rows, P[j])
      BY <3>1 DEF IsLloydStep
    <3>3. QED  BY <3>2, <1>4, SumOfPoints
  <2>4. from[j] \in Int /\ to[j] \in Int
    BY DEF Centroids
  <2> HIDE DEF A, B
  <2>5. QED  BY <1>4, <2>2, <2>3, <2>4, MeanCostsLess
<1>7. SumOver(A, Cluster) <= SumOver(B, Cluster)
      /\ (SumOver(A, Cluster) = SumOver(B, Cluster) => \A j \in Cluster : A[j] = B[j])
  <2> HIDE DEF A, B
  <2>1. QED  BY <1>4, <1>6, SumOverMonotone
<1>8. Wcss(rows, to) <= Wcss(rows, from)
  <2> HIDE DEF A, B, f, g, h
  <2>1. QED  BY <1>1, <1>3, <1>5, <1>7
<1>9. ASSUME Wcss(rows, to) = Wcss(rows, from), NEW j \in Cluster, Own(rows, from, j) # {}
      PROVE  to[j] = from[j]
  <2> HIDE DEF A, B, f, g, h
  <2>1. SumOver(A, Cluster) = SumOver(B, Cluster)
    BY <1>1, <1>3, <1>5, <1>7, <1>9
  <2>2. QED  BY <2>1, <1>4, <1>6, <1>7, <1>9
<1>10. QED
  <2> HIDE DEF A, B, f, g, h
  <2>1. QED  BY <1>1, <1>3, <1>8, <1>9

\* Centroids that come back after two iterations have not moved.
LEMMA ReturnIsFixedPoint ==
  ASSUME NEW rows, AreRows(rows), NEW a \in Centroids, NEW b \in Centroids, NEW spare,
         IsLloydStep(rows, a, b, spare), IsLloydStep(rows, b, a, spare)
  PROVE  IsLloydStep(rows, a, a, spare)
<1>1. Wcss(rows, a) = Wcss(rows, b)
  BY StepCostsLess
<1>2. /\ \A j \in Cluster : Own(rows, a, j) # {} => b[j] = a[j]
      /\ \A j \in Cluster : Own(rows, b, j) # {} => a[j] = b[j]
  BY <1>1, StepCostsLess
<1>3. \A c, j : {i \in DOMAIN rows : Labels(rows, c)[i] = j} = Own(rows, c, j)
  BY DEF Labels, Own
<1>4. ASSUME NEW j \in Cluster
      PROVE  IF Own(rows, a, j) = {} THEN a[j] \in spare
             ELSE a[j] * Cardinality(Own(rows, a, j)) = SumOfRows(rows, Own(rows, a, j))
  <2>1. /\ Own(rows, a, j) = {} => b[j] \in spare
        /\ Own(rows, a, j) # {} => b[j] * Cardinality(Own(rows, a, j)) = SumOfRows(rows, Own(rows, a, j))
        /\ Own(rows, b, j) = {} => a[j] \in spare
    BY <1>3 DEF IsLloydStep
  <2>2. CASE Own(rows, a, j) # {}
    BY <2>1, <2>2, <1>2
  <2>3. CASE Own(rows, a, j) = {}
    BY <2>1, <2>3, <1>2
  <2>4. QED  BY <2>2, <2>3
<1>5. QED  BY <1>3, <1>4 DEF IsLloydStep

----------------------------------------------------------------------------
(* The rows of all ranks *)

LEMMA ZeroIsRank == 0 \in Rank /\ Rank \subseteq Nat
BY AllreduceAssumption DEF Rank

LEMMA RanksAreFinite == IsFiniteSet(Rank)
BY AllreduceAssumption, FS_Interval DEF Rank

\* The line of the file that is the k-th of partition q.
Number(q, k) == (k - 1) * N + q + 1

Lines == Seq(LineType)

\* The seeds are rows, whatever the sample was.
LEMMA SeedsAreRows ==
  ASSUME NEW rows, NEW s \in Seeds(rows)
  PROVE  s \in [Cluster -> Coordinates(rows)]
<1>1. PICK sample \in Samples(rows) : s \in [Cluster -> Coordinates(sample)]
  BY DEF Seeds
<1>2. PICK numbers \in SUBSET DOMAIN rows : sample = [i \in numbers |-> rows[i]]
  BY DEF Samples
<1>3. Coordinates(sample) \subseteq Coordinates(rows)
  BY <1>2 DEF Coordinates
<1>4. QED  BY <1>1, <1>3

LEMMA PartitionLines ==
  ASSUME file \in Lines, NEW q \in Rank
  PROVE  /\ IsFiniteSet(DOMAIN Partition(file, N, q))
         /\ DOMAIN Partition(file, N, q) \subseteq Nat
         /\ \A k \in DOMAIN Partition(file, N, q) :
              /\ Number(q, k) \in DOMAIN file
              /\ Partition(file, N, q)[k] = file[Number(q, k)]
         /\ \A k, l \in DOMAIN Partition(file, N, q) : Number(q, k) = Number(q, l) => k = l
<1>1. N \in Nat \ {0} /\ q \in 0..(N - 1)
  BY AllreduceAssumption DEF Rank
<1>2. Len(file) \in Nat /\ DOMAIN file = 1..Len(file)
  BY DEF Lines
<1> DEFINE D == 1..((Len(file) - q + N - 1) \div N)
<1>3. Partition(file, N, q) = [i \in D |-> file[(i - 1) * N + q + 1]]
  BY DEF Partition
<1>4. DOMAIN Partition(file, N, q) = D
  BY <1>3
<1>5. D \subseteq Nat /\ IsFiniteSet(D)
  <2>1. ((Len(file) - q + N - 1) \div N) \in Int
    BY <1>1, <1>2
  <2>2. QED  BY <2>1, FS_Interval
<1>6. ASSUME NEW k \in D
      PROVE  Number(q, k) \in DOMAIN file /\ Partition(file, N, q)[k] = file[Number(q, k)]
  <2> DEFINE e == (Len(file) - q + N - 1) \div N
  <2>1. e \in Int /\ e * N <= Len(file) - q + N - 1
    <3>1. \A a \in Int : (a \div N) \in Int /\ (a \div N) * N <= a
      BY <1>1
    <3>2. Len(file) - q + N - 1 \in Int
      BY <1>1, <1>2
    <3>3. QED  BY <3>1, <3>2
  <2> HIDE DEF e
  <2>2. k \in 1..e
    BY DEF e
  <2>3. k * N <= e * N /\ k * N >= N
    <3>1. \A a, b \in Int : a <= b => a * N <= b * N
      BY <1>1
    <3>2. k \in Int /\ k <= e /\ 1 <= k /\ 1 * N = N
      BY <2>2, <1>1
    <3>3. QED  BY <3>1, <3>2, <2>1
  <2>4. (k - 1) * N = k * N - N
    BY <1>1, <2>2
  <2>5. Number(q, k) = k * N - N + q + 1 /\ k * N \in Int
    BY <1>1, <2>2, <2>4 DEF Number
  <2>6. Number(q, k) \in 1..Len(file)
    BY <1>1, <1>2, <2>1, <2>3, <2>5
  <2>7. QED  BY <1>2, <1>3, <2>6 DEF Number
<1>7. ASSUME NEW k \in D, NEW l \in D, Number(q, k) = Number(q, l)
      PROVE  k = l
  <2>1. k - 1 \in Int /\ l - 1 \in Int /\ (k - 1) * N = (l - 1) * N
    BY <1>1, <1>5, <1>7 DEF Number
  <2>2. \A a, b \in Int : a * N = b * N => a = b
    BY <1>1
  <2>3. k - 1 = l - 1
    BY <2>1, <2>2
  <2>4. QED  BY <2>3, <1>5
<1>8. QED  BY <1>4, <1>5, <1>6, <1>7

\* Every line is in one partition.
LEMMA LineHasPlace ==
  ASSUME file \in Lines, NEW m \in DOMAIN file
  PROVE  \E q \in Rank : \E k \in DOMAIN Partition(file, N, q) : Number(q, k) = m
<1>1. N \in Nat \ {0}
  BY AllreduceAssumption
<1>2. Len(file) \in Nat /\ DOMAIN file = 1..Len(file) /\ m \in 1..Len(file)
  BY DEF Lines
<1> DEFINE q == (m - 1) % N
           k == ((m - 1) \div N) + 1
<1>3. /\ q \in 0..(N - 1) /\ ((m - 1) \div N) \in Nat
      /\ m - 1 = ((m - 1) \div N) * N + q
  <2>1. \A a \in Nat : (a % N) \in 0..(N - 1) /\ (a \div N) \in Nat /\ a = (a \div N) * N + (a % N)
    BY <1>1
  <2>2. PICK a \in Nat : a = m - 1
    BY <1>2
  <2>3. (a % N) \in 0..(N - 1) /\ (a \div N) \in Nat /\ a = (a \div N) * N + (a % N)
    BY <2>1
  <2>4. QED  BY <2>2, <2>3
<1>4. k \in Nat \ {0} /\ k - 1 = (m - 1) \div N
  BY <1>3
<1> HIDE DEF q, k
<1>5. q \in Rank
  BY <1>3 DEF Rank
<1>6. Number(q, k) = m
  <2>1. m - 1 = (k - 1) * N + q
    BY <1>3, <1>4
  <2>2. (k - 1) * N \in Int
    BY <1>1, <1>4
  <2>3. QED  BY <2>1, <2>2, <1>2, <1>3 DEF Number
<1>7. k \in 1..((Len(file) - q + N - 1) \div N)
  <2>1. (k - 1) * N = k * N - N /\ k * N \in Int
    BY <1>1, <1>4
  <2>2. k * N <= Len(file) - q + N - 1
    BY <2>1, <1>1, <1>2, <1>3, <1>6 DEF Number
  <2>3. \A a, b \in Int : a * N <= b => a <= (b \div N)
    BY <1>1
  <2>0. q \in 0..(N - 1)
    BY <1>3
  <2>7. Len(file) - q + N - 1 \in Int
    BY <2>0, <1>1, <1>2
  <2>4. PICK b \in Int : b = Len(file) - q + N - 1
    BY <2>7
  <2>5. k <= (b \div N) /\ (b \div N) \in Int
    <3>1. k * N <= b /\ k \in Int
      BY <2>2, <2>4, <1>4
    <3>2. QED  BY <3>1, <2>3, <1>1
  <2>6. QED  BY <2>4, <2>5, <1>4
<1>8. k \in DOMAIN Partition(file, N, q)
  BY <1>7 DEF Partition
<1>9. QED  BY <1>5, <1>6, <1>8

LEMMA PlacesDiffer ==
  ASSUME NEW q \in Rank, NEW p \in Rank, NEW k \in Int, NEW l \in Int, Number(q, k) = Number(p, l)
  PROVE  q = p
<1>1. N \in Nat \ {0} /\ q \in 0..(N - 1) /\ p \in 0..(N - 1)
  BY AllreduceAssumption DEF Rank
<1>2. (k - 1) * N + q = (l - 1) * N + p /\ k - 1 \in Int /\ l - 1 \in Int
  BY <1>1 DEF Number
<1>3. \A a, b \in Int : a * N - b * N = (a - b) * N
  BY <1>1
<1>4. (k - 1 - (l - 1)) * N = p - q
  BY <1>1, <1>2, <1>3
<1>5. \A a \in Int : a * N < N /\ a * N > -N => a = 0
  BY <1>1
<1>6. k - 1 - (l - 1) = 0
  BY <1>1, <1>2, <1>4, <1>5
<1>7. QED  BY <1>1, <1>4, <1>6

\* The lines of the file that some rank takes for a row.
Taken(q) == {Number(q, k) : k \in DOMAIN Rows(q)}
Kept == UNION {Taken(q) : q \in Rank}
KeptRows == [m \in Kept |-> file[m]]

LEMMA LinesHavePoints ==
  ASSUME file \in Lines
  PROVE  DOMAIN file = 1..Len(file) /\ Len(file) \in Nat /\ \A m \in DOMAIN file : file[m].x \in Int
<1>1. DOMAIN file = 1..Len(file) /\ Len(file) \in Nat
  BY DEF Lines
<1>2. \A m \in 1..Len(file) : file[m] \in LineType
  <2>1. \A S, s : s \in Seq(S) => \A m \in 1..Len(s) : s[m] \in S
    OBVIOUS
  <2>2. QED  BY <2>1 DEF Lines
<1>3. \A l \in LineType : l.x \in Int
  BY DEF LineType
<1>4. QED  BY <1>1, <1>2, <1>3

LEMMA LinesAreRows ==
  ASSUME NEW lines, NEW columns,
         IsFiniteSet(DOMAIN lines), DOMAIN lines \subseteq Nat, \A i \in DOMAIN lines : lines[i].x \in Int
  PROVE  AreRows(Parsed(lines, columns))
<1> DEFINE D == {k \in DOMAIN lines : lines[k].numeric /\ lines[k].columns = columns}
<1>1. Parsed(lines, columns) = [i \in D |-> lines[i]]
  BY DEF Parsed
<1>2. IsFiniteSet(D) /\ D \subseteq DOMAIN lines
  BY FS_Subset
<1> HIDE DEF D
<1>3. QED  BY <1>1, <1>2 DEF AreRows

\* A row of a rank is a line of the file.
LEMMA RowsAreLines ==
  ASSUME file \in Lines, NEW q \in Rank
  PROVE  /\ AreRows(Rows(q)) /\ DOMAIN Rows(q) \subseteq DOMAIN Partition(file, N, q)
         /\ \A k \in DOMAIN Rows(q) : Rows(q)[k] = file[Number(q, k)] /\ Number(q, k) \in DOMAIN file
         /\ \A k, l \in DOMAIN Rows(q) : Number(q, k) = Number(q, l) => k = l
<1> DEFINE L == Partition(file, N, q)
<1>1. PICK columns : Rows(q) = Parsed(L, columns)
  BY DEF Rows, PointsOf, SamplesOf
<1>2. /\ IsFiniteSet(DOMAIN L) /\ DOMAIN L \subseteq Nat
      /\ \A k \in DOMAIN L : L[k] = file[Number(q, k)] /\ Number(q, k) \in DOMAIN file
      /\ \A k, l \in DOMAIN L : Number(q, k) = Number(q, l) => k = l
  BY PartitionLines
<1> HIDE DEF L
<1>3. \A k \in DOMAIN L : L[k].x \in Int
  BY <1>2, LinesHavePoints
<1>4. AreRows(Rows(q))
  BY <1>1, <1>2, <1>3, LinesAreRows
<1>5. DOMAIN Rows(q) \subseteq DOMAIN L /\ \A k \in DOMAIN Rows(q) : Rows(q)[k] = L[k]
  BY <1>1 DEF Parsed
<1>6. QED  BY <1>2, <1>4, <1>5 DEF L

LEMMA KeptAreRows ==
  ASSUME file \in Lines
  PROVE  /\ AreRows(KeptRows) /\ Kept \subseteq DOMAIN file
         /\ \A q \in Rank : \A k \in DOMAIN Rows(q) :
              Number(q, k) \in Kept /\ KeptRows[Number(q, k)] = Rows(q)[k]
<1>1. Kept \subseteq DOMAIN file
  BY RowsAreLines DEF Kept, Taken
<1>2. IsFiniteSet(DOMAIN file) /\ DOMAIN file \subseteq Nat /\ \A m \in DOMAIN file : file[m].x \in Int
  <2>1. DOMAIN file = 1..Len(file) /\ Len(file) \in Nat
    BY LinesHavePoints
  <2>2. IsFiniteSet(DOMAIN file)
    BY <2>1, FS_Interval
  <2>3. QED  BY <2>1, <2>2, LinesHavePoints
<1>3. IsFiniteSet(Kept)
  BY <1>1, <1>2, FS_Subset
<1>4. AreRows(KeptRows)
  BY <1>1, <1>2, <1>3 DEF AreRows, KeptRows
<1>5. \A q \in Rank : \A k \in DOMAIN Rows(q) :
        Number(q, k) \in Kept /\ KeptRows[Number(q, k)] = Rows(q)[k]
  <2> SUFFICES ASSUME NEW q \in Rank, NEW k \in DOMAIN Rows(q)
               PROVE  Number(q, k) \in Kept /\ KeptRows[Number(q, k)] = Rows(q)[k]
    OBVIOUS
  <2>1. Number(q, k) \in Kept
    BY DEF Kept, Taken
  <2>2. Rows(q)[k] = file[Number(q, k)]
    BY RowsAreLines
  <2>3. QED  BY <2>1, <2>2 DEF KeptRows
<1>6. QED  BY <1>1, <1>4, <1>5

\* What the ranks add up to is the sum over the lines they have, each counted once.
LEMMA MergedSum ==
  ASSUME file \in Lines, NEW T, \A q \in Rank : T[q] \subseteq DOMAIN Rows(q),
         NEW e, NEW f, \A q \in Rank : \A k \in T[q] : e[q][k] \in Int /\ f[Number(q, k)] = e[q][k]
  PROVE  SumFunction([q \in Rank |-> SumOver(e[q], T[q])]) =
           SumOver(f, UNION {{Number(q, k) : k \in T[q]} : q \in Rank})
<1> DEFINE P == [q \in Rank |-> {Number(q, k) : k \in T[q]}]
           S == UNION {P[q] : q \in Rank}
<1>1. ASSUME NEW q \in Rank
      PROVE  SumOver(e[q], T[q]) = SumOver(f, P[q])
  <2>1. PICK b : b = [k \in T[q] |-> Number(q, k)]
    OBVIOUS
  <2>2. /\ DOMAIN Rows(q) \subseteq Nat /\ IsFiniteSet(DOMAIN Rows(q))
        /\ \A k, l \in DOMAIN Rows(q) : Number(q, k) = Number(q, l) => k = l
    BY RowsAreLines DEF AreRows
  <2>3. T[q] \subseteq DOMAIN Rows(q)
    OBVIOUS
  <2>4. IsFiniteSet(T[q])
    BY <2>2, <2>3, FS_Subset
  <2>5. \A k \in T[q] : b[k] = Number(q, k) /\ f[b[k]] = e[q][k] /\ e[q][k] \in Int
    BY <2>1
  <2>6. \A k, l \in T[q] : b[k] = b[l] => k = l
    BY <2>2, <2>3, <2>5
  <2>7. P[q] = {b[k] : k \in T[q]}
    BY <2>5
  <2>8. \A k \in T[q] : f[b[k]] \in Int
    BY <2>5
  <2> HIDE DEF P
  <2>9. SumOver(f, {b[k] : k \in T[q]}) = SumOver([k \in T[q] |-> f[b[k]]], T[q])
    BY <2>4, <2>6, <2>8, SumOverRenamed
  <2>10. SumOver([k \in T[q] |-> f[b[k]]], T[q]) = SumOver(e[q], T[q])
    BY <2>5, SumOverSame
  <2>11. QED  BY <2>7, <2>9, <2>10
<1>2. ASSUME NEW q \in Rank, NEW p \in Rank, q # p
      PROVE  P[q] \cap P[p] = {}
  <2> SUFFICES ASSUME NEW k \in T[q], NEW l \in T[p], Number(q, k) = Number(p, l) PROVE FALSE
    OBVIOUS
  <2>1. k \in Int /\ l \in Int
    BY RowsAreLines DEF AreRows
  <2>2. QED  BY <2>1, <1>2, PlacesDiffer
<1>3. S \subseteq Kept
  BY DEF Kept, Taken
<1>4. IsFiniteSet(S)
  <2>1. IsFiniteSet(Kept)
    BY KeptAreRows DEF AreRows, KeptRows
  <2>2. QED  BY <2>1, <1>3, FS_Subset
<1>5. \A q \in Rank : P[q] \subseteq S
  OBVIOUS
<1>6. \A i \in S : f[i] \in Int
  OBVIOUS
<1>7. S = UNION {{Number(q, k) : k \in T[q]} : q \in Rank}
  OBVIOUS
<1>8. S = UNION {P[q] : q \in Rank}
  OBVIOUS
<1> HIDE DEF P, S
<1>9. SumOver(f, UNION {P[q] : q \in Rank}) = SumFunction([q \in Rank |-> SumOver(f, P[q])])
  BY <1>2, <1>4, <1>5, <1>6, RanksAreFinite, SumOverBlocks
<1>10. [q \in Rank |-> SumOver(f, P[q])] = [q \in Rank |-> SumOver(e[q], T[q])]
  BY <1>1
<1>11. QED  BY <1>7, <1>8, <1>9, <1>10

LEMMA OwnMerge ==
  ASSUME file \in Lines, NEW c, NEW j \in Cluster
  PROVE  UNION {{Number(q, k) : k \in Own(Rows(q), c, j)} : q \in Rank} = Own(KeptRows, c, j)
<1>1. \A q \in Rank : \A k \in DOMAIN Rows(q) :
        Number(q, k) \in Kept /\ KeptRows[Number(q, k)] = Rows(q)[k]
  BY KeptAreRows
<1>2. DOMAIN KeptRows = Kept
  BY DEF KeptRows
<1>3. \A q \in Rank : \A k \in DOMAIN Rows(q) : k \in Own(Rows(q), c, j) <=> Number(q, k) \in Own(KeptRows, c, j)
  BY <1>1, <1>2 DEF Own
<1>4. \A q \in Rank : Own(Rows(q), c, j) \subseteq DOMAIN Rows(q)
  BY DEF Own
<1>5. Own(KeptRows, c, j) \subseteq Kept
  BY <1>2 DEF Own
<1>6. \A m \in Own(KeptRows, c, j) : \E q \in Rank : \E k \in Own(Rows(q), c, j) : m = Number(q, k)
  BY <1>3, <1>5 DEF Kept, Taken
<1>7. QED  BY <1>3, <1>4, <1>6

\* allreduce_centroids: the sums and counts of the ranks add up to those of all rows.
LEMMA ClustersMerge ==
  ASSUME file \in Lines, NEW c, NEW j \in Cluster
  PROVE  /\ SumFunction([q \in Rank |-> LocalSums(Rows(q), c)[j]]) =
              SumOver(Points(KeptRows), Own(KeptRows, c, j))
         /\ SumFunction([q \in Rank |-> LocalCounts(Rows(q), c)[j]]) = Cardinality(Own(KeptRows, c, j))
<1>1. PICK T : T = [q \in Rank |-> Own(Rows(q), c, j)]
  OBVIOUS
<1>2. PICK e : e = [q \in Rank |-> Points(Rows(q))]
  OBVIOUS
<1>3. PICK o : o = [q \in Rank |-> [k \in T[q] |-> 1]]
  OBVIOUS
<1>4. PICK ones : ones = [m \in Kept |-> 1]
  OBVIOUS
<1>5. \A q \in Rank : T[q] \subseteq DOMAIN Rows(q) /\ T[q] = Own(Rows(q), c, j)
  BY <1>1 DEF Own
<1>6. ASSUME NEW q \in Rank, NEW k \in T[q]
      PROVE  /\ e[q][k] \in Int /\ Points(KeptRows)[Number(q, k)] = e[q][k]
             /\ o[q][k] \in Int /\ ones[Number(q, k)] = o[q][k]
  <2>1. k \in DOMAIN Rows(q) /\ Number(q, k) \in Kept /\ KeptRows[Number(q, k)] = Rows(q)[k]
        /\ Rows(q)[k].x \in Int
    BY <1>5, KeptAreRows, RowsAreLines DEF AreRows
  <2>2. e[q][k] = Rows(q)[k].x
    BY <2>1, <1>2 DEF Points
  <2>3. Points(KeptRows)[Number(q, k)] = KeptRows[Number(q, k)].x
    BY <2>1 DEF Points, KeptRows
  <2>4. o[q][k] = 1 /\ ones[Number(q, k)] = 1
    BY <2>1, <1>3, <1>4
  <2>5. QED  BY <2>1, <2>2, <2>3, <2>4
<1>7. {{Number(q, k) : k \in T[q]} : q \in Rank} = {{Number(q, k) : k \in Own(Rows(q), c, j)} : q \in Rank}
  BY <1>5
<1>8. SumFunction([q \in Rank |-> SumOver(e[q], T[q])]) =
        SumOver(Points(KeptRows), UNION {{Number(q, k) : k \in T[q]} : q \in Rank})
  BY <1>5, <1>6, MergedSum
<1>9. SumFunction([q \in Rank |-> SumOver(o[q], T[q])]) =
        SumOver(ones, UNION {{Number(q, k) : k \in T[q]} : q \in Rank})
  BY <1>5, <1>6, MergedSum
<1>10. ASSUME NEW q \in Rank
       PROVE  /\ LocalSums(Rows(q), c)[j] = SumOver(e[q], T[q])
              /\ LocalCounts(Rows(q), c)[j] = SumOver(o[q], T[q])
  <2>1. AreRows(Rows(q))
    BY RowsAreLines
  <2>2. /\ LocalSums(Rows(q), c)[j] = SumOver(Points(Rows(q)), Own(Rows(q), c, j))
        /\ LocalCounts(Rows(q), c)[j] = Cardinality(Own(Rows(q), c, j))
    BY <2>1, LocalSumsAreSums
  <2>3. IsFiniteSet(T[q]) /\ \A k \in T[q] : o[q][k] = 1
    BY <2>1, <1>3, <1>5, FS_Subset DEF AreRows
  <2>4. SumOver(o[q], T[q]) = Cardinality(T[q])
    BY <2>3, SumOverOnes
  <2>5. QED  BY <2>2, <2>4, <1>2, <1>5
<1>11. /\ [q \in Rank |-> LocalSums(Rows(q), c)[j]] = [q \in Rank |-> SumOver(e[q], T[q])]
       /\ [q \in Rank |-> LocalCounts(Rows(q), c)[j]] = [q \in Rank |-> SumOver(o[q], T[q])]
  BY <1>10
<1>12. UNION {{Number(q, k) : k \in T[q]} : q \in Rank} = Own(KeptRows, c, j)
  BY <1>7, OwnMerge
<1>13. SumOver(ones, Own(KeptRows, c, j)) = Cardinality(Own(KeptRows, c, j))
  <2>1. AreRows(KeptRows)
    BY KeptAreRows
  <2>2. Own(KeptRows, c, j) \subseteq Kept /\ IsFiniteSet(Kept)
    BY <2>1 DEF Own, KeptRows, AreRows
  <2>3. IsFiniteSet(Own(KeptRows, c, j)) /\ \A m \in Own(KeptRows, c, j) : ones[m] = 1
    BY <2>2, <1>4, FS_Subset
  <2>4. QED  BY <2>3, SumOverOnes
<1>14. QED  BY <1>8, <1>9, <1>11, <1>12, <1>13

LEMMA RowsMerge ==
  ASSUME file \in Lines
  PROVE  UNION {{Number(q, k) : k \in DOMAIN Rows(q)} : q \in Rank} = Kept
BY DEF Kept, Taken

\* _compute_local_wcss: the same of the costs.
LEMMA WcssMerges ==
  ASSUME file \in Lines, NEW c \in Centroids
  PROVE  /\ SumFunction([q \in Rank |-> Wcss(Rows(q), c)]) = Wcss(KeptRows, c)
         /\ Wcss(KeptRows, c) \in Int
<1>1. PICK T : T = [q \in Rank |-> DOMAIN Rows(q)]
  OBVIOUS
<1>2. PICK e : e = [q \in Rank |-> Costs(Rows(q), c)]
  OBVIOUS
<1>3. \A q \in Rank : T[q] \subseteq DOMAIN Rows(q) /\ T[q] = DOMAIN Rows(q)
  BY <1>1
<1>4. ASSUME NEW q \in Rank
      PROVE  /\ \A k \in T[q] : e[q][k] \in Int
             /\ Wcss(Rows(q), c) = SumOver(e[q], T[q])
  <2>1. AreRows(Rows(q))
    BY RowsAreLines
  <2>2. QED  BY <2>1, <1>2, <1>3, WcssIsSum
<1>5. ASSUME NEW q \in Rank, NEW k \in T[q]
      PROVE  Costs(KeptRows, c)[Number(q, k)] = e[q][k]
  <2>1. k \in DOMAIN Rows(q) /\ Number(q, k) \in Kept /\ KeptRows[Number(q, k)] = Rows(q)[k]
    BY <1>3, KeptAreRows
  <2>2. e[q][k] = Distance(Rows(q)[k].x, c[Nearest(Rows(q)[k].x, c)])
    BY <2>1, <1>2 DEF Costs
  <2>3. Costs(KeptRows, c)[Number(q, k)] =
          Distance(KeptRows[Number(q, k)].x, c[Nearest(KeptRows[Number(q, k)].x, c)])
    BY <2>1 DEF Costs, KeptRows
  <2>4. QED  BY <2>1, <2>2, <2>3
<1>6. SumFunction([q \in Rank |-> SumOver(e[q], T[q])]) =
        SumOver(Costs(KeptRows, c), UNION {{Number(q, k) : k \in T[q]} : q \in Rank})
  BY <1>3, <1>4, <1>5, MergedSum
<1>7. {{Number(q, k) : k \in T[q]} : q \in Rank} = {{Number(q, k) : k \in DOMAIN Rows(q)} : q \in Rank}
  BY <1>3
<1>8. [q \in Rank |-> Wcss(Rows(q), c)] = [q \in Rank |-> SumOver(e[q], T[q])]
  BY <1>4
<1>9. DOMAIN KeptRows = Kept /\ AreRows(KeptRows)
  BY KeptAreRows DEF KeptRows
<1>10. Wcss(KeptRows, c) = SumOver(Costs(KeptRows, c), Kept)
       /\ \A i \in Kept : Costs(KeptRows, c)[i] \in Int
  BY <1>9, WcssIsSum
<1>11. Wcss(KeptRows, c) \in Int
  BY <1>9, <1>10, SumOverInt DEF AreRows
<1>12. QED  BY <1>6, <1>7, <1>8, <1>10, <1>11, RowsMerge

\* What the ranks say about their rows adds up to what there is to say about all.
LEMMA ValuesMerge ==
  ASSUME file \in Lines, NEW e, NEW f,
         \A q \in Rank : \A k \in DOMAIN Rows(q) : e[q][k] \in Int /\ f[Number(q, k)] = e[q][k]
  PROVE  SumFunction([q \in Rank |-> SumOver(e[q], DOMAIN Rows(q))]) = SumOver(f, Kept)
<1>1. PICK T : T = [q \in Rank |-> DOMAIN Rows(q)]
  OBVIOUS
<1>2. \A q \in Rank : T[q] = DOMAIN Rows(q) /\ T[q] \subseteq DOMAIN Rows(q)
  BY <1>1
<1>0. \A q \in Rank : \A k \in T[q] : e[q][k] \in Int /\ f[Number(q, k)] = e[q][k]
  BY <1>2
<1>3. SumFunction([q \in Rank |-> SumOver(e[q], T[q])]) =
        SumOver(f, UNION {{Number(q, k) : k \in T[q]} : q \in Rank})
  <2>1. \A q \in Rank : T[q] \subseteq DOMAIN Rows(q)
    BY <1>2
  <2>2. QED  BY <1>0, <2>1, MergedSum
<1>4. /\ {{Number(q, k) : k \in T[q]} : q \in Rank} = {{Number(q, k) : k \in DOMAIN Rows(q)} : q \in Rank}
      /\ [q \in Rank |-> SumOver(e[q], T[q])] = [q \in Rank |-> SumOver(e[q], DOMAIN Rows(q))]
  BY <1>2
<1>5. QED  BY <1>3, <1>4, RowsMerge

PointSquares(rows) == [i \in DOMAIN rows |-> rows[i].x * rows[i].x]

\* _broadcast_global_stats: so do their sums, sums of squares and numbers of rows.
LEMMA StatsMerge ==
  ASSUME file \in Lines
  PROVE  /\ SumFunction([q \in Rank |-> SumOfRows(Rows(q), DOMAIN Rows(q))]) = SumOfRows(KeptRows, Kept)
         /\ SumFunction([q \in Rank |-> SumFunction(PointSquares(Rows(q)))]) = SumFunction(PointSquares(KeptRows))
         /\ SumFunction([q \in Rank |-> NumRows(Rows(q))]) = NumRows(KeptRows)
<1>1. ASSUME NEW q \in Rank, NEW k \in DOMAIN Rows(q)
      PROVE  /\ Number(q, k) \in Kept /\ KeptRows[Number(q, k)] = Rows(q)[k]
             /\ Rows(q)[k].x \in Int
  BY KeptAreRows, RowsAreLines DEF AreRows
<1>2. DOMAIN KeptRows = Kept /\ IsFiniteSet(Kept)
  BY KeptAreRows DEF KeptRows, AreRows
<1>3. SumFunction([q \in Rank |-> SumOfRows(Rows(q), DOMAIN Rows(q))]) = SumOfRows(KeptRows, Kept)
  <2>1. PICK e : e = [q \in Rank |-> Points(Rows(q))]
    OBVIOUS
  <2>2. \A q \in Rank : \A k \in DOMAIN Rows(q) : e[q][k] \in Int /\ Points(KeptRows)[Number(q, k)] = e[q][k]
    BY <1>1, <1>2, <2>1 DEF Points
  <2>3. SumFunction([q \in Rank |-> SumOver(e[q], DOMAIN Rows(q))]) = SumOver(Points(KeptRows), Kept)
    BY <2>2, ValuesMerge
  <2>4. SumOver(Points(KeptRows), Kept) = SumOfRows(KeptRows, Kept)
    BY <1>2, SumOfPoints
  <2>5. \A q \in Rank : SumOver(e[q], DOMAIN Rows(q)) = SumOfRows(Rows(q), DOMAIN Rows(q))
    BY <2>1, SumOfPoints
  <2>6. [q \in Rank |-> SumOver(e[q], DOMAIN Rows(q))] = [q \in Rank |-> SumOfRows(Rows(q), DOMAIN Rows(q))]
    BY <2>5
  <2>7. QED  BY <2>3, <2>4, <2>6
<1>4. SumFunction([q \in Rank |-> SumFunction(PointSquares(Rows(q)))]) = SumFunction(PointSquares(KeptRows))
  <2>1. PICK e : e = [q \in Rank |-> PointSquares(Rows(q))]
    OBVIOUS
  <2>2. ASSUME NEW q \in Rank, NEW k \in DOMAIN Rows(q)
        PROVE  e[q][k] \in Int /\ PointSquares(KeptRows)[Number(q, k)] = e[q][k]
    <3>1. e[q][k] = Rows(q)[k].x * Rows(q)[k].x
      BY <2>1 DEF PointSquares
    <3>2. PointSquares(KeptRows)[Number(q, k)] = KeptRows[Number(q, k)].x * KeptRows[Number(q, k)].x
      BY <1>1, <1>2 DEF PointSquares
    <3>3. QED  BY <1>1, <3>1, <3>2
  <2>3. SumFunction([q \in Rank |-> SumOver(e[q], DOMAIN Rows(q))]) = SumOver(PointSquares(KeptRows), Kept)
    BY <2>2, ValuesMerge
  <2>4. \A rows : [i \in DOMAIN rows |-> PointSquares(rows)[i]] = PointSquares(rows)
    BY DEF PointSquares
  <2>5. \A rows : SumOver(PointSquares(rows), DOMAIN rows) = SumFunction(PointSquares(rows))
    BY <2>4 DEF SumOver
  <2>6. [q \in Rank |-> SumOver(e[q], DOMAIN Rows(q))] = [q \in Rank |-> SumFunction(PointSquares(Rows(q)))]
    BY <2>1, <2>5
  <2>7. QED  BY <2>3, <2>5, <2>6, <1>2
<1>5. SumFunction([q \in Rank |-> NumRows(Rows(q))]) = NumRows(KeptRows)
  <2>1. PICK e : e = [q \in Rank |-> [k \in DOMAIN Rows(q) |-> 1]]
    OBVIOUS
  <2>2. PICK ones : ones = [m \in Kept |-> 1]
    OBVIOUS
  <2>3. \A q \in Rank : \A k \in DOMAIN Rows(q) : e[q][k] = 1 /\ e[q][k] \in Int /\ ones[Number(q, k)] = e[q][k]
    BY <1>1, <2>1, <2>2
  <2>4. SumFunction([q \in Rank |-> SumOver(e[q], DOMAIN Rows(q))]) = SumOver(ones, Kept)
    BY <2>3, ValuesMerge
  <2>5. SumOver(ones, Kept) = Cardinality(Kept)
    BY <1>2, <2>2, SumOverOnes
  <2>6. ASSUME NEW q \in Rank
        PROVE  SumOver(e[q], DOMAIN Rows(q)) = NumRows(Rows(q))
    <3>1. IsFiniteSet(DOMAIN Rows(q))
      BY RowsAreLines DEF AreRows
    <3>2. QED  BY <3>1, <2>3, SumOverOnes DEF NumRows
  <2>7. [q \in Rank |-> SumOver(e[q], DOMAIN Rows(q))] = [q \in Rank |-> NumRows(Rows(q))]
    BY <2>6
  <2>8. QED  BY <2>4, <2>5, <2>7, <1>2 DEF NumRows
<1>6. QED  BY <1>3, <1>4, <1>5

\* The rows that every rank finds when it reads the lines of so many columns are those
\* of the file.
LEMMA AllTaken ==
  ASSUME file \in Lines, NEW columns, \A q \in Rank : Rows(q) = Parsed(Partition(file, N, q), columns)
  PROVE  KeptRows = Parsed(file, columns)
<1> DEFINE D == {m \in DOMAIN file : file[m].numeric /\ file[m].columns = columns}
<1>1. Parsed(file, columns) = [m \in D |-> file[m]]
  BY DEF Parsed
<1>2. \A q \in Rank : DOMAIN Rows(q) = {k \in DOMAIN Partition(file, N, q) :
          Partition(file, N, q)[k].numeric /\ Partition(file, N, q)[k].columns = columns}
  BY DEF Parsed
<1>3. \A q \in Rank : \A k \in DOMAIN Partition(file, N, q) :
        Number(q, k) \in DOMAIN file /\ Partition(file, N, q)[k] = file[Number(q, k)]
  BY PartitionLines
<1>4. Kept \subseteq D
  <2>1. ASSUME NEW q \in Rank, NEW k \in DOMAIN Rows(q)
        PROVE  Number(q, k) \in D
    <3>1. k \in DOMAIN Partition(file, N, q) /\ Partition(file, N, q)[k].numeric
          /\ Partition(file, N, q)[k].columns = columns
      BY <1>2
    <3>2. QED  BY <3>1, <1>3
  <2>2. QED  BY <2>1 DEF Kept, Taken
<1>5. ASSUME NEW m \in D
      PROVE  m \in Kept
  <2>1. PICK q \in Rank : \E k \in DOMAIN Partition(file, N, q) : Number(q, k) = m
    BY LineHasPlace
  <2>2. PICK k \in DOMAIN Partition(file, N, q) : Number(q, k) = m
    BY <2>1
  <2>3. k \in DOMAIN Rows(q)
    BY <2>2, <1>2, <1>3
  <2>4. QED  BY <2>2, <2>3 DEF Kept, Taken
<1>6. Kept = D
  BY <1>4, <1>5
<1>7. QED  BY <1>1, <1>6 DEF KeptRows

LEMMA KeptAreAll ==
  ASSUME file \in Lines, app = "kmeans" => SharesKept
  PROVE  KeptRows = AllRows
<1>1. CASE app = "kmeans"
  BY <1>1, AllTaken DEF SharesKept, AllRows
<1>2. CASE app # "kmeans"
  <2>1. \A q \in Rank : Rows(q) = Parsed(Partition(file, N, q), NumFeatures(file) + 1)
    BY <1>2 DEF Rows, SamplesOf
  <2>2. AllRows = Parsed(file, NumFeatures(file) + 1)
    BY <1>2 DEF AllRows, SamplesOf
  <2>3. QED  BY <2>1, <2>2, AllTaken
<1>3. QED  BY <1>1, <1>2

----------------------------------------------------------------------------
(* The course of the program *)

\* The operation that follows op in the source.
NextOp(op) ==
  LET ops == Setup[app] \o Loop[app]
      i == CHOOSE j \in DOMAIN ops : ops[j] = op
  IN ops[i + 1]

\* Where a rank is and what it has computed; its writing of the output left aside.
Position(r) ==
  [op |-> IF app = "logreg" /\ pc[r] = "done" THEN "output" ELSE pc[r],
   iteration |-> iteration[r], centroids |-> centroids[r], prev |-> prev[r],
   made |-> made[r], empty |-> empty[r], total |-> total[r], record |-> record[r]]

Zeros == [j \in Cluster |-> 0]
AtStart ==
  [op |-> "scatter", iteration |-> 1, centroids |-> Zeros, prev |-> Zeros,
   made |-> Zeros, empty |-> {}, total |-> 0, record |-> <<>>]

\* What rank 0 has passed to the n-th call, and the sum of what all ranks have.
Sent(n) == posted[0][n].buffer
SumOf(n) == [j \in DOMAIN Sent(n) |-> SumFunction([q \in Rank |-> posted[q][n].buffer[j]])]

LeftEmpty(n) == {j \in Cluster : SumOf(n)[j] = 0}
StopsAfter(p, n) == Sent(n)[1] = 1 \/ p.iteration = Last

\* Where the n-th call leads from position p.
OpAfter(p, n) ==
  CASE p.op = "counts"       -> AfterCounts(LeftEmpty(n))
    [] p.op = "replacement"  -> AfterCounts(p.empty \ {Min(p.empty)})
    [] p.op = "flag"         -> IF StopsAfter(p, n) THEN EndOfLoop ELSE Loop[app][1]
    [] p.op = "last_Barrier" -> "done"
    [] OTHER                 -> NextOp(p.op)

Means(p, n) ==
  [j \in Cluster |-> IF j \in LeftEmpty(n) THEN 0 ELSE p.made[j] \div SumOf(n)[j]]

Following(p, n) ==
  [op |-> OpAfter(p, n),
   iteration |-> IF p.op = "flag" /\ ~StopsAfter(p, n) THEN p.iteration + 1 ELSE p.iteration,
   centroids |-> CASE p.op = "Bcast_seed"              -> Sent(n)
                   [] p.op = "flag" /\ app = "kmeans"  -> p.made
                   [] OTHER                            -> p.centroids,
   prev |-> IF p.op = "flag" /\ app = "kmeans" THEN p.centroids ELSE p.prev,
   made |-> CASE p.op = "sums"        -> SumOf(n)
              [] p.op = "counts"      -> Means(p, n)
              [] p.op = "replacement" -> [p.made EXCEPT ![Min(p.empty)] = Sent(n)[1]]
              [] OTHER                -> p.made,
   empty |-> CASE p.op = "counts"      -> LeftEmpty(n)
               [] p.op = "replacement" -> p.empty \ {Min(p.empty)}
               [] OTHER                -> p.empty,
   total |-> IF p.op \in {"wcss", "loss"} THEN SumOf(n)[1] ELSE p.total,
   record |-> IF p.op = "flag" THEN Append(p.record, p.total) ELSE p.record]

----------------------------------------------------------------------------
(* The inductive invariant *)

\* Calls a rank has returned from.
Returned(r) == Len(posted[r]) - (IF waiting[r] THEN 1 ELSE 0)
Reached(n) == \E r \in Rank : Returned(r) >= n

\* Those whose buffer counts in the n-th call, made at op, have made it.
Settled(n, op) ==
  /\ op \in Rooted => Len(posted[0]) >= n
  /\ op \notin Rooted \cup {"Reduce_stats"} => \A q \in Rank : Len(posted[q]) >= n

IsSequence(s) == \E T : s \in Seq(T)

PerRank ==
  /\ pc = [r \in Rank |-> pc[r]] /\ iteration = [r \in Rank |-> iteration[r]]
  /\ centroids = [r \in Rank |-> centroids[r]] /\ prev = [r \in Rank |-> prev[r]]
  /\ made = [r \in Rank |-> made[r]] /\ empty = [r \in Rank |-> empty[r]]
  /\ total = [r \in Rank |-> total[r]] /\ record = [r \in Rank |-> record[r]]

Shape ==
  /\ app \in {"kmeans", "logreg"}
  /\ PerRank
  /\ saved = [r \in Rank |-> saved[r]]
  /\ posted = [r \in Rank |-> posted[r]] /\ waiting \in [Rank -> BOOLEAN]
  /\ \A r \in Rank : IsSequence(posted[r]) /\ (waiting[r] => posted[r] # <<>>)

Ends == {"last_Barrier", "output", "done"}
KmeansOps == {"scatter", "bcast_d", "Bcast_seed", "Barrier", "sums", "counts", "replacement",
              "wcss", "flag", "last_Barrier", "done"}
LogregOps == {"scatter", "Reduce_stats", "Bcast_stats", "Barrier", "gradient", "loss", "flag",
              "output"}
Ops == IF app = "kmeans" THEN KmeansOps ELSE LogregOps

\* The call a rank makes at a position.
IsCallAt(call, p) ==
  /\ call.op = p.op /\ call.iteration = p.iteration
  /\ call.cluster = IF p.op = "replacement" THEN Min(p.empty) ELSE 0

\* A rank that has failed keeps what it has computed.
IsAt(r, p) == Position(r) = p \/ Position(r) = [p EXCEPT !.op = "failed"]

\* All ranks follow the course S: their calls are the calls at its positions, they are
\* at its positions, and each position follows from the one before.
Course(S) ==
  /\ S[0] = AtStart
  /\ \A r \in Rank : IsAt(r, S[Returned(r)])
  /\ \A r \in Rank : \A i \in 1..Len(posted[r]) : IsCallAt(posted[r][i], S[i - 1])
  /\ \A n \in Nat \ {0} : Reached(n) =>
       /\ S[n] = Following(S[n - 1], n)
       /\ Settled(n, S[n - 1].op)
       /\ S[n - 1].op \notin {"output", "done"}

\* A position of the course: nothing is recorded before the loop, something behind it.
IsPosition(p) ==
  /\ p.op \in Ops
  /\ IsSequence(p.record)
  /\ p.op \in {"scatter", "bcast_d", "Bcast_seed"} => p.record = <<>>
  /\ p.op \in Ends => p.record # <<>>

\* From an earlier position to a later one the record grows, and as long as it does not,
\* the centroids stay.
Precedes(p, q) ==
  /\ Len(p.record) <= Len(q.record)
  /\ Len(p.record) = Len(q.record) /\ q.record # <<>> =>
       p.record = q.record /\ p.centroids = q.centroids

Positions(S) ==
  \A n \in Nat : Reached(n) => IsPosition(S[n]) /\ \A m \in 0..n : Precedes(S[m], S[n])

\* K-means saves before the last Barrier; behind it rank 0 reads what all have saved.
OutputInv(S) ==
  /\ \A r \in Rank : \A i \in 1..Len(posted[r]) :
       posted[r][i].op = "last_Barrier" => saved[r] = S[i - 1].record
  /\ AggregateIsOfThisRun

\* Mean and variance of all rows that the ranks have.
LocalStats(q) ==
  <<SumOfRows(Rows(q), DOMAIN Rows(q)), SumFunction(PointSquares(Rows(q))), NumRows(Rows(q))>>
GlobalStats ==
  Standardisation(<<SumOfRows(KeptRows, Kept), SumFunction(PointSquares(KeptRows)), NumRows(KeptRows)>>)

\* What the rows of the ranks amount to with centroids c.
ClusterSums(c)   == [j \in Cluster |-> SumOver(Points(KeptRows), Own(KeptRows, c, j))]
ClusterCounts(c) == [j \in Cluster |-> Cardinality(Own(KeptRows, c, j))]

\* Where an empty cluster may get its centroid from.
Spare == Coordinates(Rows(0))

\* What rank q passes to the call at position p.
Carries(q, buffer, p) ==
  /\ p.op = "Bcast_seed" /\ q = 0 => buffer \in Centroids
  /\ p.op = "Reduce_stats" => buffer = LocalStats(q)
  /\ p.op = "Bcast_stats" /\ q = 0 => buffer = GlobalStats
  /\ p.op = "sums" => buffer = LocalSums(Rows(q), p.centroids)
  /\ p.op = "counts" => buffer = LocalCounts(Rows(q), p.centroids)
  /\ p.op = "replacement" /\ q = 0 => \E x \in Spare : buffer = <<x>>
  /\ p.op = "wcss" => buffer = <<Wcss(Rows(q), p.centroids)>>
  /\ p.op = "flag" /\ q = 0 /\ app = "kmeans" => buffer = Flag(p.iteration > 1 /\ p.made = p.prev)

\* The new centroids, as far as p has them: means, or rows of rank 0 for empty clusters.
HasMeans(p) ==
  /\ p.made \in Centroids /\ p.empty \subseteq Cluster
  /\ \A j \in Cluster :
       LET own == Own(KeptRows, p.centroids, j) IN
       /\ own # {} => j \notin p.empty /\ p.made[j] * Cardinality(own) = SumOver(Points(KeptRows), own)
       /\ own = {} => j \in p.empty \/ p.made[j] \in Spare

\* What k-means has computed at position p.
IsComputed(p) ==
  /\ p.centroids \in Centroids
  /\ p.op = "counts" => p.made = ClusterSums(p.centroids)
  /\ p.op \in {"replacement", "wcss", "flag"} =>
       HasMeans(p) /\ (p.op = "replacement" <=> p.empty # {})
  /\ p.op = "flag" => p.total = Wcss(KeptRows, p.centroids)
  /\ p.op \notin Ends => p.iteration = Len(p.record) + 1
  /\ p.record # <<>> =>
       /\ p.prev \in Centroids
       /\ IsLloydStep(KeptRows, p.prev, p.centroids, Spare)
       /\ p.record[Len(p.record)] = Wcss(KeptRows, p.prev)
  /\ \A t \in 2..Len(p.record) : p.record[t] <= p.record[t - 1]
  /\ p.op \in Ends /\ Len(p.record) < max_iter =>
       IsLloydStep(KeptRows, p.centroids, p.centroids, Spare)

\* Who standardises does so with mean and variance of all rows.
HasStats(r) ==
  /\ r = 0 /\ pc[r] = "Bcast_stats" => stats[r] = GlobalStats
  /\ pc[r] \in {"Barrier", "gradient", "loss", "flag", "output", "done"} => stats[r] = GlobalStats

\* What the n-th call, made at position p, brings to k-means.
Brings(p, n) ==
  /\ p.op = "Bcast_seed"  => Sent(n) \in Centroids
  /\ p.op = "sums"        => SumOf(n) = ClusterSums(p.centroids)
  /\ p.op = "counts"      => SumOf(n) = ClusterCounts(p.centroids)
  /\ p.op = "replacement" => Sent(n)[1] \in Spare
  /\ p.op = "wcss"        => SumOf(n)[1] = Wcss(KeptRows, p.centroids)
  /\ p.op = "flag"        => (Sent(n)[1] = 1 <=> p.iteration > 1 /\ p.made = p.prev)

\* The calls carry what the positions of the course ask for, the positions hold what an
\* iteration over all rows would have computed, and the statistics are those of all rows.
CallsCarry(S) ==
  \A q \in Rank : \A i \in 1..Len(posted[q]) : Carries(q, posted[q][i].buffer, S[i - 1])

Computed(S) == app = "kmeans" => \A n \in Nat : Reached(n) => IsComputed(S[n])

DataInv(S) ==
  /\ file \in Files[app]
  /\ CallsCarry(S)
  /\ Computed(S)
  /\ stats = [r \in Rank |-> stats[r]]
  /\ app = "logreg" => \A r \in Rank : HasStats(r)

IInv == Shape /\ \E S : Course(S) /\ Positions(S) /\ OutputInv(S) /\ DataInv(S)

----------------------------------------------------------------------------
(* Lemmas about the definitions *)

\* The operations of a program follow each other as they are written down.
LEMMA Joined ==
  ASSUME NEW S, NEW s \in Seq(S), NEW l \in Seq(S)
  PROVE  /\ DOMAIN (s \o l) = 1..(Len(s) + Len(l))
         /\ \A i \in 1..Len(s) : (s \o l)[i] = s[i]
         /\ \A i \in 1..Len(l) : (s \o l)[Len(s) + i] = l[i]
<1> DEFINE o == s \o l
<1>1. /\ o \in Seq(S) /\ Len(o) = Len(s) + Len(l)
      /\ \A i \in 1 .. Len(s) + Len(l) : o[i] = IF i <= Len(s) THEN s[i] ELSE l[i - Len(s)]
  BY ConcatProperties
<1> HIDE DEF o
<1>2. DOMAIN o = 1..(Len(s) + Len(l))
  BY <1>1
<1>3. \A i \in 1..Len(s) : o[i] = s[i]
  BY <1>1
<1>4. \A i \in 1..Len(l) : o[Len(s) + i] = l[i]
  BY <1>1
<1>5. QED  BY <1>2, <1>3, <1>4 DEF o

LEMMA OnlyIndex ==
  ASSUME NEW ops, NEW n \in Nat, DOMAIN ops = 1..n, NEW i \in 1..n,
         \A j \in 1..n : ops[j] = ops[i] => j = i
  PROVE  (CHOOSE j \in DOMAIN ops : ops[j] = ops[i]) = i
OBVIOUS

LEMMA KmeansList ==
  ASSUME NEW s, s = <<"scatter", "bcast_d", "Bcast_seed", "Barrier">>,
         NEW l, l = <<"sums", "counts", "wcss", "flag">>
  PROVE  /\ DOMAIN (s \o l) = 1..8
         /\ (s \o l)[1] = "scatter" /\ (s \o l)[2] = "bcast_d" /\ (s \o l)[3] = "Bcast_seed"
         /\ (s \o l)[4] = "Barrier" /\ (s \o l)[5] = "sums" /\ (s \o l)[6] = "counts"
         /\ (s \o l)[7] = "wcss" /\ (s \o l)[8] = "flag"
<1> DEFINE T == {"scatter", "bcast_d", "Bcast_seed", "Barrier",
                 "sums", "counts", "wcss", "flag"}
<1>1. s \in Seq(T)
  OBVIOUS
<1>2. l \in Seq(T)
  OBVIOUS
<1>3. Len(s) = 4
  OBVIOUS
<1>4. Len(l) = 4
  OBVIOUS
<1>5. s[1] = "scatter" /\ s[2] = "bcast_d" /\ s[3] = "Bcast_seed" /\ s[4] = "Barrier"
  OBVIOUS
<1>6. l[1] = "sums" /\ l[2] = "counts" /\ l[3] = "wcss" /\ l[4] = "flag"
  OBVIOUS
<1> HIDE DEF T
<1> DEFINE o == s \o l
<1>7. /\ DOMAIN o = 1..(Len(s) + Len(l)) /\ \A i \in 1..Len(s) : o[i] = s[i]
      /\ \A i \in 1..Len(l) : o[Len(s) + i] = l[i]
  BY <1>1, <1>2, Joined
<1> HIDE DEF o
<1>8. DOMAIN o = 1..8
  BY <1>3, <1>4, <1>7
<1>9. o[1] = s[1] /\ o[2] = s[2] /\ o[3] = s[3] /\ o[4] = s[4]
  BY <1>3, <1>7
<1>10. o[5] = l[1] /\ o[6] = l[2] /\ o[7] = l[3] /\ o[8] = l[4]
  BY <1>3, <1>4, <1>7
<1>11. QED  BY <1>5, <1>6, <1>8, <1>9, <1>10 DEF o

LEMMA KmeansOrder ==
  ASSUME app = "kmeans"
  PROVE  /\ NextOp("scatter") = "bcast_d" /\ NextOp("bcast_d") = "Bcast_seed"
         /\ NextOp("Bcast_seed") = "Barrier" /\ NextOp("Barrier") = "sums"
         /\ NextOp("sums") = "counts" /\ NextOp("counts") = "wcss"
         /\ NextOp("wcss") = "flag"
         /\ Loop[app][1] = "sums"
<1>1. Setup[app] = <<"scatter", "bcast_d", "Bcast_seed", "Barrier">>
  BY DEF Setup
<1>2. Loop[app] = <<"sums", "counts", "wcss", "flag">>
  BY DEF Loop
<1> DEFINE o == Setup[app] \o Loop[app]
<1>3. /\ DOMAIN o = 1..8
      /\ o[1] = "scatter" /\ o[2] = "bcast_d" /\ o[3] = "Bcast_seed" /\ o[4] = "Barrier"
      /\ o[5] = "sums" /\ o[6] = "counts" /\ o[7] = "wcss" /\ o[8] = "flag"
  BY <1>1, <1>2, KmeansList
<1>4. ASSUME NEW i \in 1..7
      PROVE  NextOp(o[i]) = o[i + 1]
  <2> HIDE DEF o
  <2>1. \A j \in 1..8 : o[j] = o[i] => j = i
    BY <1>3
  <2>2. (CHOOSE j \in DOMAIN o : o[j] = o[i]) = i
    BY <1>3, <2>1, OnlyIndex
  <2>3. QED  BY <2>2 DEF NextOp, o
<1> HIDE DEF o
<1>5. NextOp(o[1]) = o[2]
  BY <1>4
<1>6. NextOp(o[2]) = o[3]
  BY <1>4
<1>7. NextOp(o[3]) = o[4]
  BY <1>4
<1>8. NextOp(o[4]) = o[5]
  BY <1>4
<1>9. NextOp(o[5]) = o[6]
  BY <1>4
<1>10. NextOp(o[6]) = o[7]
  BY <1>4
<1>11. NextOp(o[7]) = o[8]
  BY <1>4
<1>12. Loop[app][1] = "sums"
  <2>1. \A l : l = <<"sums", "counts", "wcss", "flag">> => l[1] = "sums"
    OBVIOUS
  <2>2. QED  BY <2>1, <1>2
<1>13. QED
  BY <1>3, <1>5, <1>6, <1>7, <1>8, <1>9, <1>10, <1>11, <1>12

LEMMA LogregList ==
  ASSUME NEW s, s = <<"scatter", "Reduce_stats", "Bcast_stats", "Barrier">>,
         NEW l, l = <<"gradient", "loss", "flag">>
  PROVE  /\ DOMAIN (s \o l) = 1..7
         /\ (s \o l)[1] = "scatter" /\ (s \o l)[2] = "Reduce_stats" /\ (s \o l)[3] = "Bcast_stats"
         /\ (s \o l)[4] = "Barrier" /\ (s \o l)[5] = "gradient" /\ (s \o l)[6] = "loss"
         /\ (s \o l)[7] = "flag"
<1> DEFINE T == {"scatter", "Reduce_stats", "Bcast_stats", "Barrier",
                 "gradient", "loss", "flag"}
<1>1. s \in Seq(T)
  OBVIOUS
<1>2. l \in Seq(T)
  OBVIOUS
<1>3. Len(s) = 4
  OBVIOUS
<1>4. Len(l) = 3
  OBVIOUS
<1>5. s[1] = "scatter" /\ s[2] = "Reduce_stats" /\ s[3] = "Bcast_stats" /\ s[4] = "Barrier"
  OBVIOUS
<1>6. l[1] = "gradient" /\ l[2] = "loss" /\ l[3] = "flag"
  OBVIOUS
<1> HIDE DEF T
<1> DEFINE o == s \o l
<1>7. /\ DOMAIN o = 1..(Len(s) + Len(l)) /\ \A i \in 1..Len(s) : o[i] = s[i]
      /\ \A i \in 1..Len(l) : o[Len(s) + i] = l[i]
  BY <1>1, <1>2, Joined
<1> HIDE DEF o
<1>8. DOMAIN o = 1..7
  BY <1>3, <1>4, <1>7
<1>9. o[1] = s[1] /\ o[2] = s[2] /\ o[3] = s[3] /\ o[4] = s[4]
  BY <1>3, <1>7
<1>10. o[5] = l[1] /\ o[6] = l[2] /\ o[7] = l[3]
  BY <1>3, <1>4, <1>7
<1>11. QED  BY <1>5, <1>6, <1>8, <1>9, <1>10 DEF o

LEMMA LogregOrder ==
  ASSUME app = "logreg"
  PROVE  /\ NextOp("scatter") = "Reduce_stats" /\ NextOp("Reduce_stats") = "Bcast_stats"
         /\ NextOp("Bcast_stats") = "Barrier" /\ NextOp("Barrier") = "gradient"
         /\ NextOp("gradient") = "loss" /\ NextOp("loss") = "flag"
         /\ Loop[app][1] = "gradient"
<1>1. Setup[app] = <<"scatter", "Reduce_stats", "Bcast_stats", "Barrier">>
  BY DEF Setup
<1>2. Loop[app] = <<"gradient", "loss", "flag">>
  BY DEF Loop
<1> DEFINE o == Setup[app] \o Loop[app]
<1>3. /\ DOMAIN o = 1..7
      /\ o[1] = "scatter" /\ o[2] = "Reduce_stats" /\ o[3] = "Bcast_stats" /\ o[4] = "Barrier"
      /\ o[5] = "gradient" /\ o[6] = "loss" /\ o[7] = "flag"
  BY <1>1, <1>2, LogregList
<1>4. ASSUME NEW i \in 1..6
      PROVE  NextOp(o[i]) = o[i + 1]
  <2> HIDE DEF o
  <2>1. \A j \in 1..7 : o[j] = o[i] => j = i
    BY <1>3
  <2>2. (CHOOSE j \in DOMAIN o : o[j] = o[i]) = i
    BY <1>3, <2>1, OnlyIndex
  <2>3. QED  BY <2>2 DEF NextOp, o
<1> HIDE DEF o
<1>5. NextOp(o[1]) = o[2]
  BY <1>4
<1>6. NextOp(o[2]) = o[3]
  BY <1>4
<1>7. NextOp(o[3]) = o[4]
  BY <1>4
<1>8. NextOp(o[4]) = o[5]
  BY <1>4
<1>9. NextOp(o[5]) = o[6]
  BY <1>4
<1>10. NextOp(o[6]) = o[7]
  BY <1>4
<1>11. Loop[app][1] = "gradient"
  <2>1. \A l : l = <<"gradient", "loss", "flag">> => l[1] = "gradient"
    OBVIOUS
  <2>2. QED  BY <2>1, <1>2
<1>12. QED
  BY <1>3, <1>5, <1>6, <1>7, <1>8, <1>9, <1>10, <1>11

LEMMA AfterIsNextOp ==
  ASSUME NEW r \in Rank
  PROVE  After(r) = NextOp(pc[r])
BY DEF After, NextOp

\* Of a sequence that grows by one element the others stay.
LEMMA AppendIsSequence ==
  ASSUME NEW s, NEW e, IsSequence(s)
  PROVE  /\ IsSequence(Append(s, e)) /\ Len(Append(s, e)) = Len(s) + 1 /\ Len(s) \in Nat
         /\ Append(s, e)[Len(s) + 1] = e
         /\ \A i \in 1..Len(s) : Append(s, e)[i] = s[i]
<1>1. PICK T : s \in Seq(T)
  BY DEF IsSequence
<1>2. s \in Seq(T \cup {e}) /\ e \in T \cup {e}
  BY <1>1, SeqMonotonic
<1>3. /\ Append(s, e) \in Seq(T \cup {e}) /\ Len(Append(s, e)) = Len(s) + 1
      /\ Append(s, e)[Len(s) + 1] = e /\ \A i \in 1..Len(s) : Append(s, e)[i] = s[i]
  BY <1>2, AppendProperties
<1>4. IsSequence(Append(s, e))
  BY <1>3 DEF IsSequence
<1>5. Len(s) \in Nat
  BY <1>1
<1>6. QED  BY <1>3, <1>4, <1>5

\* What follows in the source is neither the end of the loop nor that of the program.
Sequential == Ops \ {"counts", "replacement", "flag", "last_Barrier", "output", "done"}

LEMMA NextOpInProgram ==
  ASSUME app \in {"kmeans", "logreg"}, NEW op \in Sequential
  PROVE  NextOp(op) \in Ops \ {"last_Barrier", "output", "done", "failed"}
<1>1. CASE app = "kmeans"
  BY <1>1, KmeansOrder DEF Sequential, Ops, KmeansOps
<1>2. CASE app = "logreg"
  BY <1>2, LogregOrder DEF Sequential, Ops, LogregOps
<1>3. QED  BY <1>1, <1>2

LEMMA LoopInProgram ==
  ASSUME app \in {"kmeans", "logreg"}
  PROVE  Loop[app][1] \in Ops \ {"last_Barrier", "output", "done", "failed"}
<1>1. CASE app = "kmeans"
  BY <1>1, KmeansOrder DEF Ops, KmeansOps
<1>2. CASE app = "logreg"
  BY <1>2, LogregOrder DEF Ops, LogregOps
<1>3. QED  BY <1>1, <1>2

----------------------------------------------------------------------------
(* A rank that returns from a call is where the course leads from there *)

\* Of the rank that returns, and of the others.
Advances(r) ==
  /\ Position(r)' = Following(Position(r), Len(posted[r]))
  /\ \A q \in Rank \ {r} : pc[q]' = pc[q] /\ Position(q)' = Position(q)
  /\ PerRank'

Moves(r) ==
  LeaveScatter(r) \/ LeaveSetup(r) \/ LeaveReduce(r) \/ LeaveStats(r) \/ LeaveGradient(r)

\* Position(r) becomes f.
UpdatesTo(r, f) ==
  /\ pc' = [pc EXCEPT ![r] = f.op] /\ iteration' = [iteration EXCEPT ![r] = f.iteration]
  /\ centroids' = [centroids EXCEPT ![r] = f.centroids] /\ prev' = [prev EXCEPT ![r] = f.prev]
  /\ made' = [made EXCEPT ![r] = f.made] /\ empty' = [empty EXCEPT ![r] = f.empty]
  /\ total' = [total EXCEPT ![r] = f.total] /\ record' = [record EXCEPT ![r] = f.record]

LEMMA UpdateAdvances ==
  ASSUME Shape, NEW r \in Rank, UpdatesTo(r, Following(Position(r), Len(posted[r]))), app' = app,
         Following(Position(r), Len(posted[r])).op # "done" \/ app # "logreg"
  PROVE  Advances(r)
<1> DEFINE f == Following(Position(r), Len(posted[r]))
<1>1. f = [op |-> f.op, iteration |-> f.iteration, centroids |-> f.centroids, prev |-> f.prev,
           made |-> f.made, empty |-> f.empty, total |-> f.total, record |-> f.record]
  BY DEF Following
<1> HIDE DEF f
<1>2. /\ pc'[r] = f.op /\ iteration'[r] = f.iteration /\ centroids'[r] = f.centroids
      /\ prev'[r] = f.prev /\ made'[r] = f.made /\ empty'[r] = f.empty
      /\ total'[r] = f.total /\ record'[r] = f.record
  BY DEF f, UpdatesTo, Shape, PerRank
<1>3. Position(r)' = f
  BY <1>1, <1>2 DEF Position, f
<1>4. \A q \in Rank \ {r} : pc[q]' = pc[q] /\ Position(q)' = Position(q)
  BY DEF Position, Shape, PerRank, UpdatesTo
<1>5. PerRank'
  BY DEF Shape, PerRank, UpdatesTo
<1>6. QED  BY <1>3, <1>4, <1>5 DEF Advances, f

LEMMA MovesAdvance ==
  ASSUME Shape, NEW r \in Rank, pc[r] \in Ops, Moves(r)
  PROVE  Advances(r)
<1> DEFINE p == Position(r)
<1> DEFINE n == Len(posted[r])
<1> DEFINE f == Following(p, n)
<1>1. /\ pc' = [pc EXCEPT ![r] = NextOp(pc[r])]
      /\ UNCHANGED <<app, iteration, centroids, prev, made, empty, total, record>>
      /\ pc[r] \in {"scatter", "bcast_d", "Barrier", "Reduce_stats", "Bcast_stats", "gradient"}
  BY AfterIsNextOp DEF Moves, LeaveScatter, LeaveSetup, LeaveReduce, LeaveStats, LeaveGradient,
    Returns, Goto, km
<1>2. /\ p.op = pc[r] /\ p.iteration = iteration[r] /\ p.centroids = centroids[r]
      /\ p.prev = prev[r]
      /\ p.made = made[r] /\ p.empty = empty[r] /\ p.total = total[r] /\ p.record = record[r]
  BY <1>1 DEF Position
<1>3. f.op = NextOp(pc[r])
  BY <1>1, <1>2 DEF Following, OpAfter, StopsAfter
<1>4. /\ f.iteration = iteration[r] /\ f.centroids = centroids[r] /\ f.prev = prev[r]
      /\ f.made = made[r] /\ f.empty = empty[r] /\ f.total = total[r] /\ f.record = record[r]
  BY <1>1, <1>2 DEF Following, Means, StopsAfter
<1>5. NextOp(pc[r]) # "done"
  BY <1>1, NextOpInProgram DEF Shape, PerRank, Sequential
<1> HIDE DEF p, n, f
<1>6. UpdatesTo(r, f)
  BY <1>1, <1>3, <1>4 DEF UpdatesTo, Shape, PerRank
<1>7. QED
  BY <1>1, <1>3, <1>5, <1>6, UpdateAdvances DEF p, n, f

LEMMA SeedAdvances ==
  ASSUME Shape, NEW r \in Rank, pc[r] \in Ops, LeaveSeed(r)
  PROVE  Advances(r)
<1> DEFINE p == Position(r)
<1> DEFINE n == Len(posted[r])
<1> DEFINE f == Following(p, n)
<1>1. /\ pc' = [pc EXCEPT ![r] = NextOp(pc[r])]
      /\ centroids' = [centroids EXCEPT ![r] = Sent(n)]
      /\ UNCHANGED <<app, iteration, prev, made, empty, total, record>>
      /\ pc[r] = "Bcast_seed"
  BY AfterIsNextOp DEF LeaveSeed, Returns, Goto, FromRoot, Sent
<1>2. /\ p.op = pc[r] /\ p.iteration = iteration[r] /\ p.centroids = centroids[r]
      /\ p.prev = prev[r]
      /\ p.made = made[r] /\ p.empty = empty[r] /\ p.total = total[r] /\ p.record = record[r]
  BY <1>1 DEF Position
<1>3. f.op = NextOp(pc[r])
  BY <1>1, <1>2 DEF Following, OpAfter, StopsAfter
<1>4. /\ f.centroids = Sent(n)
      /\ f.iteration = iteration[r] /\ f.prev = prev[r] /\ f.made = made[r]
      /\ f.empty = empty[r] /\ f.total = total[r] /\ f.record = record[r]
  BY <1>1, <1>2 DEF Following, Means, StopsAfter
<1>5. NextOp(pc[r]) # "done"
  BY <1>1, NextOpInProgram DEF Shape, PerRank, Sequential
<1> HIDE DEF p, n, f
<1>6. UpdatesTo(r, f)
  BY <1>1, <1>3, <1>4 DEF UpdatesTo, Shape, PerRank
<1>7. QED
  BY <1>1, <1>3, <1>5, <1>6, UpdateAdvances DEF p, n, f

LEMMA SumsAdvance ==
  ASSUME Shape, NEW r \in Rank, pc[r] \in Ops, LeaveSums(r)
  PROVE  Advances(r)
<1> DEFINE p == Position(r)
<1> DEFINE n == Len(posted[r])
<1> DEFINE f == Following(p, n)
<1>1. /\ pc' = [pc EXCEPT ![r] = NextOp(pc[r])]
      /\ made' = [made EXCEPT ![r] = SumOf(n)]
      /\ UNCHANGED <<app, iteration, centroids, prev, empty, total, record>>
      /\ pc[r] = "sums"
  BY AfterIsNextOp DEF LeaveSums, Returns, Goto, FromRoot, Reduced, Sent, SumOf
<1>2. /\ p.op = pc[r] /\ p.iteration = iteration[r] /\ p.centroids = centroids[r]
      /\ p.prev = prev[r]
      /\ p.made = made[r] /\ p.empty = empty[r] /\ p.total = total[r] /\ p.record = record[r]
  BY <1>1 DEF Position
<1>3. f.op = NextOp(pc[r])
  BY <1>1, <1>2 DEF Following, OpAfter, StopsAfter
<1>4. /\ f.made = SumOf(n)
      /\ f.iteration = iteration[r] /\ f.centroids = centroids[r] /\ f.prev = prev[r]
      /\ f.empty = empty[r] /\ f.total = total[r] /\ f.record = record[r]
  BY <1>1, <1>2 DEF Following, Means, StopsAfter
<1>5. NextOp(pc[r]) # "done"
  BY <1>1, NextOpInProgram DEF Shape, PerRank, Sequential
<1> HIDE DEF p, n, f
<1>6. UpdatesTo(r, f)
  BY <1>1, <1>3, <1>4 DEF UpdatesTo, Shape, PerRank
<1>7. QED
  BY <1>1, <1>3, <1>5, <1>6, UpdateAdvances DEF p, n, f

LEMMA CountsAdvance ==
  ASSUME Shape, NEW r \in Rank, pc[r] \in Ops, LeaveCounts(r)
  PROVE  Advances(r)
<1> DEFINE p == Position(r)
<1> DEFINE n == Len(posted[r])
<1> DEFINE f == Following(p, n)
<1> DEFINE left == LeftEmpty(n)
<1> DEFINE m == [j \in Cluster |-> IF j \in left THEN 0 ELSE made[r][j] \div SumOf(n)[j]]
<1>0. Reduced(r) = SumOf(n)
  BY DEF Reduced, SumOf, FromRoot, Sent
<1>1. /\ pc' = [pc EXCEPT ![r] = AfterCounts(left)]
      /\ made' = [made EXCEPT ![r] = m] /\ empty' = [empty EXCEPT ![r] = left]
      /\ UNCHANGED <<app, iteration, centroids, prev, total, record>>
      /\ pc[r] = "counts"
  BY <1>0 DEF LeaveCounts, Returns, Goto, LeftEmpty, Shape, PerRank
<1>2. /\ p.op = pc[r] /\ p.iteration = iteration[r] /\ p.centroids = centroids[r]
      /\ p.prev = prev[r]
      /\ p.made = made[r] /\ p.empty = empty[r] /\ p.total = total[r] /\ p.record = record[r]
  BY <1>1 DEF Position
<1>3. f.op = AfterCounts(left)
  BY <1>1, <1>2 DEF Following, OpAfter, StopsAfter
<1>4. /\ f.made = m
      /\ f.empty = left
      /\ f.iteration = iteration[r] /\ f.centroids = centroids[r] /\ f.prev = prev[r]
      /\ f.total = total[r] /\ f.record = record[r]
  BY <1>1, <1>2 DEF Following, Means, StopsAfter
<1>5. AfterCounts(left) # "done"
  BY DEF AfterCounts
<1> HIDE DEF p, n, f, m, left
<1>6. UpdatesTo(r, f)
  BY <1>1, <1>3, <1>4 DEF UpdatesTo, Shape, PerRank
<1>7. QED
  BY <1>1, <1>3, <1>5, <1>6, UpdateAdvances DEF p, n, f

LEMMA ReplacementAdvances ==
  ASSUME Shape, NEW r \in Rank, pc[r] \in Ops, LeaveReplacement(r)
  PROVE  Advances(r)
<1> DEFINE p == Position(r)
<1> DEFINE n == Len(posted[r])
<1> DEFINE f == Following(p, n)
<1> DEFINE j == Min(empty[r])
<1> DEFINE left == empty[r] \ {j}
<1> DEFINE m == [made[r] EXCEPT ![j] = Sent(n)[1]]
<1>1. /\ pc' = [pc EXCEPT ![r] = AfterCounts(left)]
      /\ made' = [made EXCEPT ![r] = m] /\ empty' = [empty EXCEPT ![r] = left]
      /\ UNCHANGED <<app, iteration, centroids, prev, total, record>>
      /\ pc[r] = "replacement"
  BY DEF LeaveReplacement, Returns, Goto, NextEmpty, FromRoot, Sent, Shape, PerRank
<1>2. /\ p.op = pc[r] /\ p.iteration = iteration[r] /\ p.centroids = centroids[r]
      /\ p.prev = prev[r]
      /\ p.made = made[r] /\ p.empty = empty[r] /\ p.total = total[r] /\ p.record = record[r]
  BY <1>1 DEF Position
<1>3. f.op = AfterCounts(left)
  BY <1>1, <1>2 DEF Following, OpAfter, StopsAfter
<1>4. /\ f.made = m
      /\ f.empty = left
      /\ f.iteration = iteration[r] /\ f.centroids = centroids[r] /\ f.prev = prev[r]
      /\ f.total = total[r] /\ f.record = record[r]
  BY <1>1, <1>2 DEF Following, Means, StopsAfter
<1>5. AfterCounts(left) # "done"
  BY DEF AfterCounts
<1> HIDE DEF p, n, f, m, left
<1>6. UpdatesTo(r, f)
  BY <1>1, <1>3, <1>4 DEF UpdatesTo, Shape, PerRank
<1>7. QED
  BY <1>1, <1>3, <1>5, <1>6, UpdateAdvances DEF p, n, f

LEMMA TotalAdvances ==
  ASSUME Shape, NEW r \in Rank, pc[r] \in Ops, LeaveTotal(r)
  PROVE  Advances(r)
<1> DEFINE p == Position(r)
<1> DEFINE n == Len(posted[r])
<1> DEFINE f == Following(p, n)
<1> DEFINE x == SumOf(n)[1]
<1>0. Reduced(r) = SumOf(n)
  BY DEF Reduced, SumOf, FromRoot, Sent
<1>1. /\ pc' = [pc EXCEPT ![r] = NextOp(pc[r])]
      /\ total' = [total EXCEPT ![r] = x]
      /\ UNCHANGED <<app, iteration, centroids, prev, made, empty, record>>
      /\ pc[r] \in {"wcss", "loss"}
  BY <1>0, AfterIsNextOp DEF LeaveTotal, Returns, Goto, km
<1>2. /\ p.op = pc[r] /\ p.iteration = iteration[r] /\ p.centroids = centroids[r]
      /\ p.prev = prev[r]
      /\ p.made = made[r] /\ p.empty = empty[r] /\ p.total = total[r] /\ p.record = record[r]
  BY <1>1 DEF Position
<1>3. f.op = NextOp(pc[r])
  BY <1>1, <1>2 DEF Following, OpAfter, StopsAfter
<1>4. /\ f.total = x
      /\ f.iteration = iteration[r] /\ f.centroids = centroids[r] /\ f.prev = prev[r]
      /\ f.made = made[r] /\ f.empty = empty[r] /\ f.record = record[r]
  BY <1>1, <1>2 DEF Following, Means, StopsAfter
<1>5. NextOp(pc[r]) # "done"
  BY <1>1, NextOpInProgram DEF Shape, PerRank, Sequential
<1> HIDE DEF p, n, f, x
<1>6. UpdatesTo(r, f)
  BY <1>1, <1>3, <1>4 DEF UpdatesTo, Shape, PerRank
<1>7. QED
  BY <1>1, <1>3, <1>5, <1>6, UpdateAdvances DEF p, n, f

LEMMA FlagAdvances ==
  ASSUME Shape, NEW r \in Rank, pc[r] \in Ops, LeaveFlag(r)
  PROVE  Advances(r)
<1> DEFINE p == Position(r)
<1> DEFINE n == Len(posted[r])
<1> DEFINE f == Following(p, n)
<1> DEFINE stop == Sent(n)[1] = 1 \/ iteration[r] = Last
<1> DEFINE op == IF stop THEN EndOfLoop ELSE Loop[app][1]
<1> DEFINE t == IF stop THEN iteration[r] ELSE iteration[r] + 1
<1> DEFINE h == Append(record[r], total[r])
<1> DEFINE v == IF app = "kmeans" THEN centroids[r] ELSE prev[r]
<1> DEFINE c == IF app = "kmeans" THEN made[r] ELSE centroids[r]
<1>1. /\ pc' = [pc EXCEPT ![r] = op]
      /\ iteration' = [iteration EXCEPT ![r] = t] /\ centroids' = [centroids EXCEPT ![r] = c]
      /\ prev' = [prev EXCEPT ![r] = v] /\ record' = [record EXCEPT ![r] = h]
      /\ UNCHANGED <<app, made, empty, total>>
      /\ pc[r] = "flag"
  BY DEF LeaveFlag, Returns, Continue, Goto, FromRoot, Sent, Shape, PerRank
<1>2. /\ p.op = pc[r] /\ p.iteration = iteration[r] /\ p.centroids = centroids[r]
      /\ p.prev = prev[r]
      /\ p.made = made[r] /\ p.empty = empty[r] /\ p.total = total[r] /\ p.record = record[r]
  BY <1>1 DEF Position
<1>3. f.op = op
  BY <1>1, <1>2 DEF Following, OpAfter, StopsAfter
<1>4. /\ f.iteration = t
      /\ f.centroids = c
      /\ f.prev = v
      /\ f.record = h
      /\ f.made = made[r] /\ f.empty = empty[r] /\ f.total = total[r]
  BY <1>1, <1>2 DEF Following, Means, StopsAfter
<1>5. op # "done"
  BY LoopInProgram DEF Shape, PerRank, EndOfLoop
<1> HIDE DEF p, n, f, op, t, h, v, c
<1>6. UpdatesTo(r, f)
  BY <1>1, <1>3, <1>4 DEF UpdatesTo, Shape, PerRank
<1>7. QED
  BY <1>1, <1>3, <1>5, <1>6, UpdateAdvances DEF p, n, f

LEMMA LastAdvances ==
  ASSUME Shape, NEW r \in Rank, pc[r] \in Ops, LeaveLast(r)
  PROVE  Advances(r)
<1> DEFINE p == Position(r)
<1> DEFINE n == Len(posted[r])
<1> DEFINE f == Following(p, n)
<1>1. /\ pc' = [pc EXCEPT ![r] = "done"]
      /\ UNCHANGED <<app, iteration, centroids, prev, made, empty, total, record>>
      /\ pc[r] = "last_Barrier"
  BY DEF LeaveLast, Returns, Goto, km
<1>2. /\ p.op = pc[r] /\ p.iteration = iteration[r] /\ p.centroids = centroids[r]
      /\ p.prev = prev[r]
      /\ p.made = made[r] /\ p.empty = empty[r] /\ p.total = total[r] /\ p.record = record[r]
  BY <1>1 DEF Position
<1>3. f.op = "done"
  BY <1>1, <1>2 DEF Following, OpAfter, StopsAfter
<1>4. /\ f.iteration = iteration[r] /\ f.centroids = centroids[r] /\ f.prev = prev[r]
      /\ f.made = made[r] /\ f.empty = empty[r] /\ f.total = total[r] /\ f.record = record[r]
  BY <1>1, <1>2 DEF Following, Means, StopsAfter
<1>5. app # "logreg"
  BY <1>1 DEF Ops, LogregOps, Shape, PerRank
<1> HIDE DEF p, n, f
<1>6. UpdatesTo(r, f)
  BY <1>1, <1>3, <1>4 DEF UpdatesTo, Shape, PerRank
<1>7. QED
  BY <1>1, <1>3, <1>5, <1>6, UpdateAdvances DEF p, n, f

LEMMA LeaveAdvances ==
  ASSUME Shape, NEW r \in Rank, Leave(r), pc[r] \in Ops
  PROVE  Advances(r)
BY MovesAdvance, SeedAdvances, SumsAdvance, CountsAdvance, ReplacementAdvances,
  TotalAdvances, FlagAdvances, LastAdvances DEF Leave, Moves

\* A rank returns from a call once what the call brings it has been passed to it.
LEMMA LeaveReturns ==
  ASSUME NEW r \in Rank, Leave(r)
  PROVE  /\ UNCHANGED <<app, file, posted, saved>>
         /\ waiting[r] /\ waiting' = [waiting EXCEPT ![r] = FALSE]
         /\ Settled(Len(posted[r]), pc[r])
         /\ pc[r] \notin {"output", "done", "failed"}
<1>1. PICK op : Returns(r, op) /\ op \notin {"output", "done", "failed"}
  BY DEF Leave, LeaveScatter, LeaveSetup, LeaveSeed, LeaveReduce, LeaveStats, LeaveSums,
    LeaveCounts, LeaveReplacement, LeaveGradient, LeaveTotal, LeaveFlag, LeaveLast
<1>2. UNCHANGED <<app, file, posted, saved>>
  BY DEF Leave, LeaveScatter, LeaveSetup, LeaveSeed, LeaveReduce, LeaveStats, LeaveSums,
    LeaveCounts, LeaveReplacement, LeaveGradient, LeaveTotal, LeaveFlag, LeaveLast
<1>3. Settled(Len(posted[r]), pc[r])
  BY <1>1 DEF Returns, Settled, AllIn, Made, Rooted
<1>4. QED
  BY <1>1, <1>2, <1>3 DEF Returns

----------------------------------------------------------------------------
(* What the course amounts to *)

LEMMA PastPositions ==
  ASSUME Shape, NEW r \in Rank, NEW k \in Nat, k <= Returned(r)
  PROVE  Reached(k)
BY DEF Reached

LEMMA ReturnedFacts ==
  ASSUME Shape, NEW r \in Rank
  PROVE  /\ Len(posted[r]) \in Nat /\ Returned(r) \in Nat
         /\ waiting[r] => Len(posted[r]) = Returned(r) + 1
         /\ ~waiting[r] => Len(posted[r]) = Returned(r)
         /\ Returned(r) <= Len(posted[r]) /\ Len(posted[r]) <= Returned(r) + 1
<1>1. IsSequence(posted[r]) /\ (waiting[r] => posted[r] # <<>>) /\ waiting[r] \in BOOLEAN
  BY DEF Shape, PerRank
<1>2. PICK T : posted[r] \in Seq(T)
  BY <1>1 DEF IsSequence
<1>3. Len(posted[r]) \in Nat /\ (posted[r] # <<>> => Len(posted[r]) > 0)
  BY <1>2, EmptySeq
<1>4. waiting[r] => Returned(r) = Len(posted[r]) - 1
  BY DEF Returned
<1>5. ~waiting[r] => Returned(r) = Len(posted[r])
  BY <1>3 DEF Returned
<1>6. QED
  <2>1. CASE waiting[r]
    BY <2>1, <1>1, <1>3, <1>4
  <2>2. CASE ~waiting[r]
    BY <2>2, <1>3, <1>5
  <2>3. QED  BY <2>1, <2>2

LEMMA PositionOp ==
  ASSUME Shape, NEW S, Course(S), Positions(S), NEW r \in Rank, pc[r] # "failed"
  PROVE  /\ Position(r) = S[Returned(r)] /\ IsPosition(S[Returned(r)])
         /\ pc[r] \notin {"output", "done"} => S[Returned(r)].op = pc[r] /\ pc[r] \in Ops
<1>1. Returned(r) \in Nat /\ Reached(Returned(r))
  BY ReturnedFacts, PastPositions
<1>2. IsPosition(S[Returned(r)])
  BY <1>1 DEF Positions
<1>3. Position(r) = S[Returned(r)]
  <2>1. Position(r).op # "failed"
    BY DEF Position
  <2>2. IsAt(r, S[Returned(r)])
    BY DEF Course
  <2>3. DOMAIN S[Returned(r)] = DOMAIN Position(r) \/ Position(r) = S[Returned(r)]
    BY <2>2 DEF IsAt
  <2>4. "op" \in DOMAIN Position(r)
    BY DEF Position
  <2>5. QED  BY <2>1, <2>2, <2>3, <2>4 DEF IsAt
<1>4. pc[r] \notin {"output", "done"} => S[Returned(r)].op = pc[r] /\ pc[r] \in Ops
  BY <1>2, <1>3 DEF Position, IsPosition
<1>5. QED  BY <1>2, <1>3, <1>4

\* What a call leads to is settled as soon as somebody has returned from it.
LEMMA FollowingKept ==
  ASSUME NEW p, NEW n \in Nat \ {0}, Settled(n, p.op), app' = app, 0 \in Rank,
         \A q \in Rank : Len(posted[q]) >= n => posted'[q][n] = posted[q][n]
  PROVE  Following(p, n)' = Following(p, n)
<1>1. /\ NextOp(p.op)' = NextOp(p.op) /\ EndOfLoop' = EndOfLoop /\ Last' = Last
      /\ (Loop[app][1])' = Loop[app][1]
  BY DEF NextOp, EndOfLoop, Last
<1>2. p.op \in {"Bcast_seed", "replacement", "flag"} => Sent(n)' = Sent(n)
  BY DEF Settled, Rooted, Sent
<1>3. p.op \in {"sums", "counts", "wcss", "loss"} => SumOf(n)' = SumOf(n)
  <2> SUFFICES ASSUME p.op \in {"sums", "counts", "wcss", "loss"}
               PROVE  SumOf(n)' = SumOf(n)
    OBVIOUS
  <2>1. \A q \in Rank : posted'[q][n] = posted[q][n]
    BY DEF Settled, Rooted
  <2>2. Sent(n)' = Sent(n)
    BY <2>1 DEF Sent
  <2>3. \A j : [q \in Rank |-> posted'[q][n].buffer[j]] = [q \in Rank |-> posted[q][n].buffer[j]]
    BY <2>1
  <2>4. QED  BY <2>2, <2>3 DEF SumOf
<1>4. p.op = "counts" => LeftEmpty(n)' = LeftEmpty(n) /\ Means(p, n)' = Means(p, n)
  BY <1>3 DEF LeftEmpty, Means
<1>5. p.op = "flag" => StopsAfter(p, n)' = StopsAfter(p, n)
  BY <1>1, <1>2 DEF StopsAfter
<1>6. OpAfter(p, n)' = OpAfter(p, n)
  BY <1>1, <1>4, <1>5 DEF OpAfter, AfterCounts
<1>7. QED
  BY <1>2, <1>3, <1>4, <1>5, <1>6 DEF Following

----------------------------------------------------------------------------
(* Steps that lead nobody further *)

LEMMA CourseKept ==
  ASSUME Shape, NEW S, Course(S), Positions(S), app' = app,
         \A r \in Rank : Returned(r)' = Returned(r) /\ Len(posted'[r]) >= Len(posted[r]),
         \A r \in Rank : Len(posted'[r]) \in Nat,
         \A r \in Rank : \A i \in 1..Len(posted[r]) : posted'[r][i] = posted[r][i],
         \A r \in Rank : IsAt(r, S[Returned(r)])',
         \A r \in Rank : \A i \in 1..Len(posted'[r]) : IsCallAt(posted'[r][i], S[i - 1])
  PROVE  Course(S)' /\ Positions(S)'
<1>1. \A n \in Nat : Reached(n)' = Reached(n)
  BY DEF Reached
<1>2. Positions(S)'
  BY <1>1 DEF Positions, IsPosition, Ops
<1>3. ASSUME NEW n \in Nat \ {0}, Reached(n)
      PROVE  /\ S[n] = Following(S[n - 1], n)'
             /\ Settled(n, S[n - 1].op)'
             /\ S[n - 1].op \notin {"output", "done"}
  <2>1. /\ S[n] = Following(S[n - 1], n) /\ Settled(n, S[n - 1].op)
        /\ S[n - 1].op \notin {"output", "done"}
    BY <1>3 DEF Course
  <2>2. \A q \in Rank : Len(posted[q]) \in Nat
    BY ReturnedFacts
  <2>3. \A q \in Rank : Len(posted[q]) >= n => posted'[q][n] = posted[q][n]
    BY <2>2
  <2>4. Following(S[n - 1], n)' = Following(S[n - 1], n)
    BY <2>1, <2>3, FollowingKept, ZeroIsRank
  <2>5. Settled(n, S[n - 1].op)'
    BY <2>1, <2>2, ZeroIsRank DEF Settled
  <2>6. QED  BY <2>1, <2>4, <2>5
<1>4. Course(S)'
  BY <1>1, <1>3 DEF Course, IsCallAt, AtStart, Zeros
<1>5. QED  BY <1>2, <1>4

LEMMA EnterKeeps ==
  ASSUME Shape, NEW S, Course(S), Positions(S), OutputInv(S), NEW r \in Rank, Enter(r)
  PROVE  Shape' /\ Course(S)' /\ Positions(S)' /\ OutputInv(S)'
<1>1. PICK buffer : posted' = [posted EXCEPT ![r] = Append(posted[r], Call(r, buffer))]
  BY DEF Enter, Shape, PerRank
<1>2. /\ pc[r] \notin {"output", "done", "failed"} /\ ~waiting[r]
      /\ waiting' = [waiting EXCEPT ![r] = TRUE]
      /\ UNCHANGED <<app, pc, iteration, centroids, prev, made, empty, total, record, aggregate>>
  BY DEF Enter, km
<1> DEFINE k == Len(posted[r])
<1>3. /\ k \in Nat /\ Returned(r) = k /\ Position(r) = S[k] /\ S[k].op = pc[r]
  BY <1>2, ReturnedFacts, PositionOp
<1> DEFINE c == Call(r, buffer)
<1>4. IsCallAt(c, S[k])
  <2>1. /\ S[k].op = pc[r] /\ S[k].iteration = iteration[r] /\ S[k].empty = empty[r]
    BY <1>3 DEF Position
  <2>2. QED  BY <2>1 DEF IsCallAt, Call, NextEmpty
<1> HIDE DEF c
<1>5. IsSequence(posted[r])
  BY DEF Shape, PerRank
<1>6. /\ IsSequence(posted'[r]) /\ Len(posted'[r]) = k + 1 /\ posted'[r][k + 1] = c
      /\ \A i \in 1..k : posted'[r][i] = posted[r][i]
  <2>1. posted'[r] = Append(posted[r], c)
    BY <1>1 DEF Shape, PerRank, c
  <2>2. QED  BY <2>1, <1>5, AppendIsSequence
<1>7. \A q \in Rank \ {r} : posted'[q] = posted[q] /\ waiting'[q] = waiting[q]
  BY <1>1, <1>2 DEF Shape, PerRank
<1>8. waiting'[r] = TRUE /\ waiting' \in [Rank -> BOOLEAN]
  BY <1>2 DEF Shape, PerRank
<1>9. saved' = [q \in Rank |-> saved'[q]]
  BY DEF Enter, Save, Shape, PerRank
<1>10. posted' = [q \in Rank |-> posted'[q]]
  BY <1>1 DEF Shape, PerRank
<1>11. posted'[r] # <<>>
  <2>1. PICK T : posted'[r] \in Seq(T)
    BY <1>6 DEF IsSequence
  <2>2. QED  BY <2>1, <1>3, <1>6
<1>12. Shape'
  BY <1>2, <1>6, <1>7, <1>8, <1>9, <1>10, <1>11 DEF Shape, PerRank
<1>13. \A q \in Rank : Returned(q)' = Returned(q)
  <2>1. Returned(r)' = k
    BY <1>3, <1>6, <1>8 DEF Returned
  <2>2. \A q \in Rank \ {r} : Returned(q)' = Returned(q)
    BY <1>7 DEF Returned
  <2>3. QED  BY <2>1, <2>2, <1>3
<1>14. \A q \in Rank : IsAt(q, S[Returned(q)])'
  <2>1. \A q \in Rank : IsAt(q, S[Returned(q)])
    BY DEF Course
  <2>2. QED  BY <2>1, <1>2, <1>13 DEF IsAt, Position
<1>15. ASSUME NEW q \in Rank, NEW i \in 1..Len(posted'[q])
       PROVE  IsCallAt(posted'[q][i], S[i - 1])
  <2>1. CASE q # r
    BY <2>1, <1>7 DEF Course
  <2>2. CASE q = r /\ i <= k
    <3>1. i \in 1..k /\ posted'[q][i] = posted[r][i]
      BY <2>2, <1>3, <1>6
    <3>2. IsCallAt(posted[r][i], S[i - 1])
      BY <3>1 DEF Course
    <3>3. QED  BY <3>1, <3>2
  <2>3. CASE q = r /\ i = k + 1
    BY <2>3, <1>3, <1>4, <1>6
  <2>4. QED  BY <2>1, <2>2, <2>3, <1>3, <1>6
<1>16. \A q \in Rank : /\ Len(posted[q]) \in Nat /\ Len(posted'[q]) >= Len(posted[q])
                       /\ Len(posted'[q]) \in Nat
                       /\ \A i \in 1..Len(posted[q]) : posted'[q][i] = posted[q][i]
  <2>1. \A q \in Rank : Len(posted[q]) \in Nat
    BY ReturnedFacts
  <2>2. QED  BY <2>1, <1>3, <1>6, <1>7
<1>17. Course(S)' /\ Positions(S)'
  BY <1>2, <1>13, <1>14, <1>15, <1>16, CourseKept
<1>18. ASSUME NEW q \in Rank, NEW i \in 1..Len(posted'[q]), posted'[q][i].op = "last_Barrier"
       PROVE  saved'[q] = S[i - 1].record
  <2>1. CASE q # r
    <3>1. saved'[q] = saved[q]
      BY <2>1 DEF Enter, Save, Shape, PerRank
    <3>2. QED  BY <3>1, <2>1, <1>7, <1>18 DEF OutputInv
  <2>2. CASE q = r /\ i = k + 1
    <3>1. pc[r] = "last_Barrier"
      BY <2>2, <1>6, <1>18 DEF c, Call
    <3>2. saved'[r] = record[r]
      BY <3>1 DEF Enter, Save, Shape, PerRank
    <3>3. QED  BY <2>2, <3>2, <1>3 DEF Position
  <2>3. CASE q = r /\ i <= k
    <3>1. S[i - 1].op = "last_Barrier"
      BY <2>3, <1>15, <1>18 DEF IsCallAt
    <3>2. Reached(i) /\ i \in Nat \ {0}
      BY <2>3, <1>3, PastPositions
    <3>3. S[i] = Following(S[i - 1], i)
      BY <3>2 DEF Course
    <3>4. S[i].op = "done"
      BY <3>1, <3>3 DEF Following, OpAfter
    <3>5. CASE i = k
      BY <3>4, <3>5, <1>2, <1>3
    <3>6. CASE i < k
      <4>1. Reached(i + 1) /\ i + 1 \in Nat \ {0}
        BY <3>6, <2>3, <1>3, PastPositions
      <4>2. S[i].op \notin {"output", "done"}
        BY <4>1, <3>2 DEF Course
      <4>3. QED  BY <4>2, <3>4
    <3>7. QED  BY <3>5, <3>6, <2>3, <1>3
  <2>4. QED  BY <2>1, <2>2, <2>3, <1>3, <1>6
<1>19. AggregateIsOfThisRun'
  BY <1>2 DEF OutputInv, AggregateIsOfThisRun
<1>20. OutputInv(S)'
  BY <1>18, <1>19 DEF OutputInv
<1>21. QED  BY <1>12, <1>17, <1>20

LEMMA OutputKeeps ==
  ASSUME Shape, NEW S, Course(S), Positions(S), OutputInv(S), NEW r \in Rank, Output(r)
  PROVE  Shape' /\ Course(S)' /\ Positions(S)' /\ OutputInv(S)'
<1>1. /\ pc[r] = "output" /\ pc' = [pc EXCEPT ![r] = "done"]
      /\ UNCHANGED <<app, waiting, posted, iteration, centroids, prev, made, empty, total, record,
                     aggregate>>
      /\ saved' = [saved EXCEPT ![r] = record[r]]
  BY DEF Output, Goto, Save, km
<1>2. app = "logreg"
  <2>1. Position(r) = S[Returned(r)] /\ IsPosition(S[Returned(r)])
    BY <1>1, PositionOp
  <2>2. "output" \in Ops
    BY <1>1, <2>1 DEF Position, IsPosition
  <2>3. QED  BY <2>2 DEF Ops, KmeansOps, Shape, PerRank
<1>3. Shape'
  BY <1>1 DEF Shape, PerRank
<1>4. \A q \in Rank : Position(q)' = Position(q) /\ Returned(q)' = Returned(q)
  BY <1>1, <1>2 DEF Position, Returned, Shape, PerRank
<1>5. \A q \in Rank : IsAt(q, S[Returned(q)])'
  <2>1. \A q \in Rank : IsAt(q, S[Returned(q)])
    BY DEF Course
  <2>2. QED  BY <2>1, <1>4 DEF IsAt
<1>6. \A q \in Rank : Len(posted[q]) \in Nat
  BY ReturnedFacts
<1>7. \A q \in Rank : \A i \in 1..Len(posted[q]) : IsCallAt(posted[q][i], S[i - 1])
  BY DEF Course
<1>8. Course(S)' /\ Positions(S)'
  BY <1>1, <1>4, <1>5, <1>6, <1>7, CourseKept
<1>9. ASSUME NEW q \in Rank, NEW i \in 1..Len(posted[q])
      PROVE  posted[q][i].op # "last_Barrier"
  <2>1. IsCallAt(posted[q][i], S[i - 1])
    BY <1>7
  <2>2. i - 1 \in Nat /\ i - 1 <= Returned(q)
    BY ReturnedFacts
  <2>3. S[i - 1].op \in Ops
    BY <2>2, PastPositions DEF Positions, IsPosition
  <2>4. QED  BY <2>1, <2>3, <1>2 DEF IsCallAt, Ops, LogregOps
<1>10. OutputInv(S)'
  BY <1>1, <1>2, <1>9 DEF OutputInv, AggregateIsOfThisRun
<1>11. QED  BY <1>3, <1>8, <1>10

\* What a rank raises ends its part; what it has passed to the others stays.
LEMMA FailKeeps ==
  ASSUME Shape, NEW S, Course(S), Positions(S), OutputInv(S), NEW r \in Rank, Fail(r)
  PROVE  Shape' /\ Course(S)' /\ Positions(S)' /\ OutputInv(S)'
<1>1. /\ pc' = [pc EXCEPT ![r] = "failed"]
      /\ UNCHANGED <<app, waiting, posted, iteration, centroids, prev, made, empty, total, record,
                     saved, aggregate>>
  BY DEF Fail, km
<1>2. Shape'
  BY <1>1 DEF Shape, PerRank
<1>3. \A q \in Rank : Returned(q)' = Returned(q)
  BY <1>1 DEF Returned
<1>4. \A q \in Rank \ {r} : Position(q)' = Position(q) /\ pc'[q] = pc[q]
  BY <1>1 DEF Position, Shape, PerRank
<1>5. Position(r)' = [Position(r) EXCEPT !.op = "failed"]
  BY <1>1 DEF Position, Shape, PerRank
<1>6. \A q \in Rank : IsAt(q, S[Returned(q)])
  BY DEF Course
<1>7. IsAt(r, S[Returned(r)])'
  <2>1. CASE Position(r) = S[Returned(r)]
    BY <2>1, <1>3, <1>5 DEF IsAt
  <2>2. CASE Position(r) = [S[Returned(r)] EXCEPT !.op = "failed"]
    BY <2>2, <1>3, <1>5 DEF IsAt
  <2>3. QED  BY <2>1, <2>2, <1>6 DEF IsAt
<1>8. \A q \in Rank : IsAt(q, S[Returned(q)])'
  BY <1>3, <1>4, <1>6, <1>7 DEF IsAt
<1>9. \A q \in Rank : Len(posted[q]) \in Nat
  BY ReturnedFacts
<1>10. \A q \in Rank : \A i \in 1..Len(posted[q]) : IsCallAt(posted[q][i], S[i - 1])
  BY DEF Course
<1>11. Course(S)' /\ Positions(S)'
  BY <1>1, <1>3, <1>8, <1>9, <1>10, CourseKept
<1>12. pc'[0] = "done" => pc[0] = "done"
  BY <1>1, ZeroIsRank DEF Shape, PerRank
<1>13. OutputInv(S)'
  BY <1>1, <1>12 DEF OutputInv, AggregateIsOfThisRun
<1>14. QED  BY <1>2, <1>11, <1>13

----------------------------------------------------------------------------
(* The position a call leads to *)

\* Who is first to return from a call extends the course by where it leads.
LEMMA NextPosition ==
  ASSUME app \in {"kmeans", "logreg"}, NEW p, IsPosition(p), p.op \notin {"output", "done"}, NEW n
  PROVE  IsPosition(Following(p, n)) /\ Precedes(p, Following(p, n))
<1> DEFINE f == Following(p, n)
<1>1. /\ f.op = OpAfter(p, n)
      /\ f.record = IF p.op = "flag" THEN Append(p.record, p.total) ELSE p.record
      /\ p.op \notin {"flag", "Bcast_seed"} => f.centroids = p.centroids
  BY DEF Following
<1>2. /\ p.op \in Ops /\ IsSequence(p.record)
      /\ p.op \in {"scatter", "bcast_d", "Bcast_seed"} => p.record = <<>>
      /\ p.op \in Ends => p.record # <<>>
  BY DEF IsPosition
<1> HIDE DEF f
<1>3. CASE p.op \in {"counts", "replacement"}
  <2>1. app = "kmeans"
    BY <1>2, <1>3 DEF Ops, LogregOps
  <2>2. f.op \in {"wcss", "replacement"}
    BY <1>1, <1>3 DEF OpAfter, AfterCounts
  <2>3. f.op \in Ops /\ f.record = p.record /\ f.centroids = p.centroids
    BY <2>1, <2>2, <1>1, <1>3 DEF Ops, KmeansOps
  <2>4. IsPosition(f)
    BY <2>2, <2>3, <1>2 DEF IsPosition, Ends
  <2>5. QED  BY <2>3, <2>4, <1>2 DEF Precedes, IsSequence, f
<1>4. CASE p.op = "flag"
  <2>1. /\ IsSequence(f.record) /\ Len(f.record) = Len(p.record) + 1 /\ Len(p.record) \in Nat
    BY <1>1, <1>2, <1>4, AppendIsSequence
  <2>2. f.record # <<>>
    <3>1. PICK T : f.record \in Seq(T)
      BY <2>1 DEF IsSequence
    <3>2. QED  BY <3>1, <2>1
  <2>3. f.op = EndOfLoop \/ f.op = Loop[app][1]
    BY <1>1, <1>4 DEF OpAfter
  <2>4. f.op \in Ops /\ f.op \notin {"scatter", "bcast_d", "Bcast_seed"}
    <3>1. CASE app = "kmeans"
      BY <3>1, <2>3, KmeansOrder DEF EndOfLoop, Ops, KmeansOps
    <3>2. CASE app = "logreg"
      BY <3>2, <2>3, LogregOrder DEF EndOfLoop, Ops, LogregOps
    <3>3. QED  BY <3>1, <3>2
  <2>5. QED  BY <2>1, <2>2, <2>4 DEF IsPosition, Precedes, f
<1>5. CASE p.op = "last_Barrier"
  <2>1. app = "kmeans"
    BY <1>2, <1>5 DEF Ops, LogregOps
  <2>2. f.op = "done" /\ f.record = p.record /\ f.centroids = p.centroids
    BY <1>1, <1>5 DEF OpAfter
  <2>3. p.record # <<>>
    BY <1>2, <1>5 DEF Ends
  <2>4. IsPosition(f)
    BY <2>1, <2>2, <2>3, <1>2 DEF IsPosition, Ops, KmeansOps
  <2>5. QED  BY <2>2, <2>4, <1>2 DEF Precedes, IsSequence, f
<1>6. CASE p.op \in Sequential
  <2>1. f.op = NextOp(p.op) /\ f.record = p.record
    BY <1>1, <1>6 DEF OpAfter, Sequential
  <2>2. f.op \in Ops \ {"last_Barrier", "output", "done", "failed"}
    BY <2>1, <1>6, NextOpInProgram
  <2>3. f.op \in {"scatter", "bcast_d", "Bcast_seed"} => p.op \in {"scatter", "bcast_d"}
    <3>1. CASE app = "kmeans"
      BY <3>1, <2>1, <1>6, KmeansOrder DEF Sequential, Ops, KmeansOps
    <3>2. CASE app = "logreg"
      BY <3>2, <2>1, <1>6, LogregOrder DEF Sequential, Ops, LogregOps
    <3>3. QED  BY <3>1, <3>2
  <2>4. IsPosition(f)
    BY <2>1, <2>2, <2>3, <1>2 DEF IsPosition, Ends
  <2>5. p.op = "Bcast_seed" \/ f.centroids = p.centroids
    BY <1>1, <1>6 DEF Sequential
  <2>6. QED  BY <2>1, <2>4, <2>5, <1>2 DEF Precedes, IsSequence, f
<1>7. QED
  BY <1>2, <1>3, <1>4, <1>5, <1>6 DEF Sequential, f

LEMMA PrecedesTransitive ==
  ASSUME NEW a, NEW b, NEW c, IsSequence(a.record), IsSequence(b.record), IsSequence(c.record),
         Precedes(a, b), Precedes(b, c)
  PROVE  Precedes(a, c)
<1>1. Len(a.record) \in Nat /\ Len(b.record) \in Nat /\ Len(c.record) \in Nat
  BY DEF IsSequence
<1>2. Len(a.record) <= Len(c.record)
  BY <1>1 DEF Precedes
<1>3. ASSUME Len(a.record) = Len(c.record), c.record # <<>>
      PROVE  a.record = c.record /\ a.centroids = c.centroids
  <2>1. Len(a.record) = Len(b.record) /\ Len(b.record) = Len(c.record)
    BY <1>1, <1>3 DEF Precedes
  <2>2. b.record = c.record /\ b.centroids = c.centroids
    BY <2>1, <1>3 DEF Precedes
  <2>3. QED  BY <2>1, <2>2, <1>3 DEF Precedes
<1>4. QED  BY <1>2, <1>3 DEF Precedes

----------------------------------------------------------------------------
(* What the calls carry and what the ranks compute of it *)

LEMMA FileFacts ==
  ASSUME app \in {"kmeans", "logreg"}, file \in Files[app]
  PROVE  /\ file \in Lines /\ \A n \in 1..Len(file) : (Unit % n) = 0
         /\ \A m \in DOMAIN file : (file[m].x % Unit) = 0
         /\ Unit \in Nat \ {0}
<1>1. file \in Files.kmeans \cup Files.logreg
  OBVIOUS
<1>2. QED  BY <1>1, AllreduceAssumption DEF Lines

\* The number of rows divides a sum over them, if every term is a multiple of Unit.
LEMMA SumIsExact ==
  ASSUME app \in {"kmeans", "logreg"}, file \in Files[app], NEW T, T \subseteq Kept, T # {},
         NEW g, \A m \in T : g[m] \in Int /\ (g[m] % Unit) = 0
  PROVE  /\ Cardinality(T) \in Nat \ {0} /\ SumOver(g, T) \in Int
         /\ (SumOver(g, T) \div Cardinality(T)) * Cardinality(T) = SumOver(g, T)
<1>1. /\ file \in Lines /\ \A n \in 1..Len(file) : (Unit % n) = 0
      /\ \A m \in DOMAIN file : (file[m].x % Unit) = 0
      /\ Unit \in Nat \ {0}
  BY FileFacts
<1>2. Kept \subseteq DOMAIN file /\ DOMAIN file = 1..Len(file) /\ Len(file) \in Nat
      /\ \A m \in DOMAIN file : file[m].x \in Int
  BY <1>1, KeptAreRows, LinesHavePoints
<1>3. IsFiniteSet(T) /\ Cardinality(T) \in Nat \ {0} /\ Cardinality(T) <= Len(file)
  <2>1. IsFiniteSet(1..Len(file)) /\ Cardinality(1..Len(file)) = Len(file)
    <3>1. \A n \in Nat : IsFiniteSet(1..n) /\ Cardinality(1..n) = n
      BY FS_Interval
    <3>2. QED  BY <3>1, <1>2
  <2>2. T \subseteq 1..Len(file)
    BY <1>2
  <2>3. IsFiniteSet(T) /\ Cardinality(T) <= Len(file)
    BY <2>1, <2>2, FS_Subset
  <2>4. Cardinality(T) \in Nat /\ Cardinality(T) # 0
    BY <2>3, FS_CardinalityType, FS_EmptySet
  <2>5. QED  BY <2>3, <2>4
<1>5. SumOver(g, T) \in Int
  BY <1>3, SumOverInt
<1>6. (SumOver(g, T) % Unit) = 0
  BY <1>1, <1>3, SumOverDivides
<1>7. (Unit % Cardinality(T)) = 0
  <2>1. Cardinality(T) \in 1..Len(file)
    BY <1>2, <1>3
  <2>2. QED  BY <2>1, <1>1
<1>8. \A s \in Int, u \in Nat \ {0}, n \in Nat \ {0} : (s % u) = 0 /\ (u % n) = 0 => (s \div n) * n = s
  <2> SUFFICES ASSUME NEW s \in Int, NEW u \in Nat \ {0}, NEW n \in Nat \ {0}, (s % u) = 0, (u % n) = 0
               PROVE  (s \div n) * n = s
    OBVIOUS
  <2>1. PICK a \in Int : s = a * u
    <3>1. s = (s \div u) * u /\ (s \div u) \in Int
      OBVIOUS
    <3>2. QED  BY <3>1
  <2>2. PICK b \in Int : u = b * n
    <3>1. u = (u \div n) * n /\ (u \div n) \in Int
      OBVIOUS
    <3>2. QED  BY <3>1
  <2>3. s = (a * b) * n /\ a * b \in Int
    <3>1. \A x, y, z \in Int : x * (y * z) = (x * y) * z
      OBVIOUS
    <3>2. s = a * (b * n)
      BY <2>1, <2>2
    <3>3. QED  BY <3>1, <3>2
  <2>4. \A c \in Int : ((c * n) \div n) = c
    OBVIOUS
  <2>5. (s \div n) = a * b
    BY <2>3, <2>4
  <2>6. QED  BY <2>3, <2>5
<1>9. QED
  <2>1. PICK s \in Int : s = SumOver(g, T)
    BY <1>5
  <2>2. PICK n \in Nat \ {0} : n = Cardinality(T)
    BY <1>3
  <2>3. (s \div n) * n = s
    BY <2>1, <2>2, <1>1, <1>6, <1>7, <1>8
  <2>4. QED  BY <2>1, <2>2, <2>3

\* So the means of the clusters are exact.
LEMMA MeanIsExact ==
  ASSUME app \in {"kmeans", "logreg"}, file \in Files[app], NEW T, T \subseteq Kept, T # {}
  PROVE  /\ Cardinality(T) \in Nat \ {0} /\ SumOver(Points(KeptRows), T) \in Int
         /\ (SumOver(Points(KeptRows), T) \div Cardinality(T)) * Cardinality(T) =
              SumOver(Points(KeptRows), T)
<1>1. \A m \in T : Points(KeptRows)[m] \in Int /\ (Points(KeptRows)[m] % Unit) = 0
  <2>1. /\ \A m \in DOMAIN file : (file[m].x % Unit) = 0 /\ file[m].x \in Int
        /\ Kept \subseteq DOMAIN file
    BY FileFacts, KeptAreRows, LinesHavePoints
  <2>2. QED  BY <2>1 DEF Points, KeptRows
<1>2. QED  BY <1>1, SumIsExact

LEMMA RestComputed ==
  ASSUME NEW p, IsComputed(p), NEW f,
         f.centroids = p.centroids, f.record = p.record, f.prev = p.prev, f.iteration = p.iteration,
         p.op \notin Ends, f.op \notin Ends,
         f.op = "counts" => f.made = ClusterSums(f.centroids),
         f.op \in {"replacement", "wcss", "flag"} => HasMeans(f) /\ (f.op = "replacement" <=> f.empty # {}),
         f.op = "flag" => f.total = Wcss(KeptRows, f.centroids)
  PROVE  IsComputed(f)
BY DEF IsComputed

\* The second Allreduce: clusters with rows get their mean, the others are left empty.
LEMMA CountsComputed ==
  ASSUME app = "kmeans", file \in Files[app], NEW p, IsComputed(p), p.op = "counts",
         NEW n, SumOf(n) = ClusterCounts(p.centroids)
  PROVE  IsComputed(Following(p, n))
<1> DEFINE f == Following(p, n)
           own(j) == Own(KeptRows, p.centroids, j)
<1>1. /\ f.op = AfterCounts(LeftEmpty(n)) /\ f.iteration = p.iteration /\ f.centroids = p.centroids
      /\ f.prev = p.prev /\ f.made = Means(p, n) /\ f.empty = LeftEmpty(n) /\ f.record = p.record
  BY DEF Following, OpAfter
<1> HIDE DEF f
<1>2. \A j \in Cluster : SumOf(n)[j] = Cardinality(own(j)) /\ p.made[j] = SumOver(Points(KeptRows), own(j))
  BY DEF ClusterCounts, ClusterSums, IsComputed
<1>3. ASSUME NEW j \in Cluster
      PROVE  /\ j \in LeftEmpty(n) <=> own(j) = {}
             /\ own(j) # {} => /\ Means(p, n)[j] \in Int
                               /\ Means(p, n)[j] * Cardinality(own(j)) = SumOver(Points(KeptRows), own(j))
             /\ own(j) = {} => Means(p, n)[j] = 0
  <2>1. own(j) \subseteq Kept /\ IsFiniteSet(Kept)
    BY FileFacts, KeptAreRows DEF Own, KeptRows, AreRows
  <2>2. j \in LeftEmpty(n) <=> Cardinality(own(j)) = 0
    BY <1>2 DEF LeftEmpty
  <2>3. Cardinality(own(j)) = 0 <=> own(j) = {}
    BY <2>1, FS_Subset, FS_EmptySet
  <2>4. Means(p, n)[j] = IF own(j) = {} THEN 0
                         ELSE SumOver(Points(KeptRows), own(j)) \div Cardinality(own(j))
    BY <1>2, <2>2, <2>3 DEF Means
  <2> HIDE DEF own
  <2>5. ASSUME own(j) # {}
        PROVE  /\ Means(p, n)[j] \in Int
               /\ Means(p, n)[j] * Cardinality(own(j)) = SumOver(Points(KeptRows), own(j))
    <3>1. /\ Cardinality(own(j)) \in Nat \ {0} /\ SumOver(Points(KeptRows), own(j)) \in Int
          /\ (SumOver(Points(KeptRows), own(j)) \div Cardinality(own(j))) * Cardinality(own(j)) =
               SumOver(Points(KeptRows), own(j))
      BY <2>1, <2>5, MeanIsExact
    <3>2. QED  BY <3>1, <2>4, <2>5
  <2>6. QED  BY <2>2, <2>3, <2>4, <2>5
<1> HIDE DEF own
<1>4. f.made \in Centroids
  <2>1. \A j \in Cluster : Means(p, n)[j] \in Int
    BY <1>3
  <2>2. Means(p, n) = [j \in Cluster |-> Means(p, n)[j]]
    BY DEF Means
  <2>3. QED  BY <2>1, <2>2, <1>1 DEF Centroids
<1>5. HasMeans(f)
  <2>1. \A j \in Cluster : Own(KeptRows, f.centroids, j) = own(j)
    BY <1>1 DEF own
  <2>2. f.empty \subseteq Cluster
    BY <1>1 DEF LeftEmpty
  <2>3. QED  BY <1>1, <1>3, <1>4, <2>1, <2>2 DEF HasMeans
<1>6. f.op \in {"replacement", "wcss"} /\ (f.op = "replacement" <=> f.empty # {})
  BY <1>1 DEF AfterCounts
<1>7. QED
  BY <1>1, <1>5, <1>6, RestComputed DEF f, Ends

\* One Bcast for each empty cluster: it gets a row of rank 0.
LEMMA ReplacementComputed ==
  ASSUME NEW p, IsComputed(p), p.op = "replacement", NEW n, Sent(n)[1] \in Spare, Spare \subseteq Int
  PROVE  IsComputed(Following(p, n))
<1> DEFINE f == Following(p, n)
           m == Min(p.empty)
<1>1. /\ f.op = AfterCounts(p.empty \ {m}) /\ f.iteration = p.iteration /\ f.centroids = p.centroids
      /\ f.prev = p.prev /\ f.made = [p.made EXCEPT ![m] = Sent(n)[1]] /\ f.empty = p.empty \ {m}
      /\ f.record = p.record
  BY DEF Following, OpAfter
<1>2. HasMeans(p) /\ p.empty # {}
  BY DEF IsComputed
<1>3. m \in p.empty /\ m \in Cluster
  <2>1. p.empty \subseteq Nat /\ p.empty \subseteq Cluster
    BY <1>2, LloydAssumption DEF HasMeans, Cluster
  <2>2. QED  BY <1>2, <2>1, MinIsSmallest
<1> HIDE DEF f, m
<1>4. f.made \in Centroids /\ f.made[m] \in Spare /\ \A j \in Cluster : j # m => f.made[j] = p.made[j]
  BY <1>1, <1>2, <1>3 DEF HasMeans, Centroids
<1>5. HasMeans(f)
  <2>1. f.empty \subseteq Cluster
    BY <1>1, <1>2 DEF HasMeans
  <2>2. ASSUME NEW j \in Cluster, Own(KeptRows, p.centroids, j) # {}
        PROVE  /\ j \notin f.empty
               /\ f.made[j] * Cardinality(Own(KeptRows, p.centroids, j)) =
                    SumOver(Points(KeptRows), Own(KeptRows, p.centroids, j))
    <3>1. /\ j \notin p.empty
          /\ p.made[j] * Cardinality(Own(KeptRows, p.centroids, j)) =
               SumOver(Points(KeptRows), Own(KeptRows, p.centroids, j))
      BY <1>2, <2>2 DEF HasMeans
    <3>2. QED  BY <3>1, <1>1, <1>3, <1>4
  <2>3. ASSUME NEW j \in Cluster, Own(KeptRows, p.centroids, j) = {}
        PROVE  j \in f.empty \/ f.made[j] \in Spare
    <3>1. j \in p.empty \/ p.made[j] \in Spare
      BY <1>2, <2>3 DEF HasMeans
    <3>2. QED  BY <3>1, <1>1, <1>4
  <2>4. QED  BY <1>1, <1>4, <2>1, <2>2, <2>3 DEF HasMeans
<1>6. f.op \in {"replacement", "wcss"} /\ (f.op = "replacement" <=> f.empty # {})
  BY <1>1 DEF AfterCounts
<1>7. QED
  BY <1>1, <1>5, <1>6, RestComputed DEF f, Ends

\* Once no cluster is left empty the new centroids are an iteration of Lloyd's algorithm.
LEMMA MeansAreStep ==
  ASSUME NEW p, HasMeans(p), p.empty = {}
  PROVE  IsLloydStep(KeptRows, p.centroids, p.made, Spare)
<1> DEFINE own(j) == {i \in DOMAIN KeptRows : Labels(KeptRows, p.centroids)[i] = j}
<1>1. \A j \in Cluster : own(j) = Own(KeptRows, p.centroids, j)
  BY DEF Labels, Own
<1>2. \A j \in Cluster : SumOfRows(KeptRows, own(j)) = SumOver(Points(KeptRows), own(j))
  <2>1. \A j \in Cluster : own(j) \subseteq DOMAIN KeptRows
    OBVIOUS
  <2> HIDE DEF own
  <2>2. QED  BY <2>1, SumOfPoints
<1>3. ASSUME NEW j \in Cluster
      PROVE  IF own(j) = {} THEN p.made[j] \in Spare
             ELSE p.made[j] * Cardinality(own(j)) = SumOfRows(KeptRows, own(j))
  <2>1. CASE own(j) = {}
    BY <2>1, <1>1 DEF HasMeans
  <2>2. CASE own(j) # {}
    <3>1. p.made[j] * Cardinality(Own(KeptRows, p.centroids, j)) =
            SumOver(Points(KeptRows), Own(KeptRows, p.centroids, j))
      BY <2>2, <1>1 DEF HasMeans
    <3>2. QED  BY <3>1, <2>2, <1>1, <1>2
  <2>3. QED  BY <2>1, <2>2
<1>4. QED  BY <1>3 DEF IsLloydStep

\* The flag arrives: the cost of the next iteration cannot be larger, and centroids that
\* are those of two iterations ago have not moved since.
LEMMA FlagComputed ==
  ASSUME app = "kmeans", file \in Files[app], NEW p, IsPosition(p), IsComputed(p), p.op = "flag",
         NEW n, Sent(n)[1] = 1 <=> p.iteration > 1 /\ p.made = p.prev
  PROVE  IsComputed(Following(p, n))
<1> DEFINE f == Following(p, n)
           k == Len(p.record)
<1>1. /\ f.op = (IF StopsAfter(p, n) THEN EndOfLoop ELSE Loop[app][1])
      /\ f.iteration = (IF StopsAfter(p, n) THEN p.iteration ELSE p.iteration + 1)
      /\ f.centroids = p.made /\ f.prev = p.centroids /\ f.record = Append(p.record, p.total)
  BY DEF Following, OpAfter
<1>2. f.op = (IF StopsAfter(p, n) THEN "last_Barrier" ELSE "sums")
  BY <1>1, KmeansOrder DEF EndOfLoop
<1>3. IsSequence(p.record)
  BY DEF IsPosition
<1>4. /\ p.centroids \in Centroids /\ HasMeans(p) /\ p.empty = {} /\ p.made \in Centroids
      /\ p.total = Wcss(KeptRows, p.centroids) /\ p.iteration = k + 1
  BY DEF IsComputed, HasMeans, Ends
<1>5. p.record # <<>> =>
        /\ p.prev \in Centroids /\ IsLloydStep(KeptRows, p.prev, p.centroids, Spare)
        /\ p.record[k] = Wcss(KeptRows, p.prev)
  BY DEF IsComputed
<1>6. \A t \in 2..k : p.record[t] <= p.record[t - 1]
  BY DEF IsComputed
<1> HIDE DEF f, k
<1>7. /\ k \in Nat /\ Len(f.record) = k + 1 /\ f.record[k + 1] = p.total
      /\ \A i \in 1..k : f.record[i] = p.record[i]
  BY <1>1, <1>3, AppendIsSequence DEF k
<1>8. k # 0 => p.record # <<>>
  BY DEF k
<1>9. IsLloydStep(KeptRows, p.centroids, p.made, Spare)
  BY <1>4, MeansAreStep
<1>10. AreRows(KeptRows)
  BY FileFacts, KeptAreRows
<1>11. ASSUME NEW t \in 2..Len(f.record)
       PROVE  f.record[t] <= f.record[t - 1]
  <2>1. CASE t <= k
    <3>1. t \in 2..k /\ t \in 1..k /\ t - 1 \in 1..k
      BY <2>1, <1>7
    <3>2. QED  BY <3>1, <1>6, <1>7
  <2>2. CASE t = k + 1
    <3>1. k # 0 /\ k \in 1..k /\ t - 1 = k
      BY <2>2, <1>7
    <3>2. /\ p.prev \in Centroids /\ IsLloydStep(KeptRows, p.prev, p.centroids, Spare)
          /\ p.record[k] = Wcss(KeptRows, p.prev)
      BY <3>1, <1>5, <1>8
    <3>3. Wcss(KeptRows, p.centroids) <= Wcss(KeptRows, p.prev)
      BY <3>2, <1>4, <1>10, StepCostsLess
    <3>4. f.record[t] = Wcss(KeptRows, p.centroids)
      BY <2>2, <1>4, <1>7
    <3>5. f.record[t - 1] = Wcss(KeptRows, p.prev)
      BY <3>1, <3>2, <1>7
    <3>6. QED  BY <3>3, <3>4, <3>5
  <2>3. QED  BY <2>1, <2>2, <1>7
<1>12. ASSUME f.op \in Ends, Len(f.record) < max_iter
       PROVE  IsLloydStep(KeptRows, f.centroids, f.centroids, Spare)
  <2>1. StopsAfter(p, n)
    BY <1>2, <1>12 DEF Ends
  <2>2. p.iteration # Last
    BY <1>4, <1>7, <1>12 DEF Last
  <2>3. p.iteration > 1 /\ p.made = p.prev
    BY <2>1, <2>2 DEF StopsAfter
  <2>4. p.record # <<>>
    BY <2>3, <1>4, <1>7, <1>8
  <2>5. IsLloydStep(KeptRows, p.prev, p.centroids, Spare) /\ p.prev \in Centroids
    BY <2>4, <1>5
  <2>6. IsLloydStep(KeptRows, p.centroids, p.prev, Spare)
    BY <2>3, <1>9
  <2>7. IsLloydStep(KeptRows, p.prev, p.prev, Spare)
    BY <2>5, <2>6, <1>4, <1>10, ReturnIsFixedPoint
  <2>8. QED  BY <2>3, <2>7, <1>1
<1>13. f.centroids \in Centroids /\ f.prev \in Centroids
  BY <1>1, <1>4
<1>14. f.op \notin {"counts", "replacement", "wcss", "flag"}
  BY <1>2
<1>15. f.op \notin Ends => f.iteration = Len(f.record) + 1
  BY <1>1, <1>2, <1>4, <1>7 DEF Ends
<1>16. IsLloydStep(KeptRows, f.prev, f.centroids, Spare)
  BY <1>1, <1>9
<1>17. f.record[Len(f.record)] = Wcss(KeptRows, f.prev)
  BY <1>1, <1>4, <1>7
<1>18. IsComputed(f)
  BY <1>11, <1>12, <1>13, <1>14, <1>15, <1>16, <1>17 DEF IsComputed
<1>19. QED  BY <1>18 DEF f

\* A call that brings what its position asks for leads to a position that is computed.
LEMMA NextComputed ==
  ASSUME app = "kmeans", file \in Files[app], NEW p, IsPosition(p), IsComputed(p),
         p.op \notin {"output", "done"}, NEW n, Brings(p, n)
  PROVE  IsComputed(Following(p, n))
<1> DEFINE f == Following(p, n)
<1>1. /\ f.op = OpAfter(p, n)
      /\ p.op # "flag" => f.iteration = p.iteration /\ f.prev = p.prev /\ f.record = p.record
      /\ p.op \notin {"Bcast_seed", "flag"} => f.centroids = p.centroids
      /\ p.op = "Bcast_seed" => f.centroids = Sent(n)
      /\ p.op \notin {"sums", "counts", "replacement"} => f.made = p.made
      /\ p.op = "sums" => f.made = SumOf(n)
      /\ p.op \notin {"counts", "replacement"} => f.empty = p.empty
      /\ p.op = "wcss" => f.total = SumOf(n)[1]
  BY DEF Following
<1>2. p.op \in KmeansOps
  BY DEF IsPosition, Ops
<1>3. CASE p.op \in {"scatter", "bcast_d", "Barrier"}
  <2>1. f.op \in {"bcast_d", "Bcast_seed", "sums"}
    BY <1>1, <1>3, KmeansOrder DEF OpAfter
  <2>2. p.op \notin Ends
    BY <1>3 DEF Ends
  <2> HIDE DEF f
  <2>3. IsComputed(f)
    BY <1>1, <1>3, <2>1, <2>2, RestComputed DEF Ends
  <2>4. QED  BY <2>3 DEF f
<1>4. CASE p.op = "Bcast_seed"
  <2>1. f.op = "Barrier"
    BY <1>1, <1>4, KmeansOrder DEF OpAfter
  <2>2. p.record = <<>> /\ Sent(n) \in Centroids
    BY <1>4 DEF IsPosition, Brings
  <2>3. f.record = p.record /\ f.iteration = p.iteration /\ f.centroids = Sent(n)
    BY <1>1, <1>4
  <2>4. p.iteration = Len(p.record) + 1 /\ \A t \in 2..Len(p.record) : p.record[t] <= p.record[t - 1]
    BY <1>4 DEF IsComputed, Ends
  <2> HIDE DEF f
  <2>5. IsComputed(f)
    BY <2>1, <2>2, <2>3, <2>4 DEF IsComputed, Ends
  <2>6. QED  BY <2>5 DEF f
<1>5. CASE p.op = "sums"
  <2>1. f.op = "counts"
    BY <1>1, <1>5, KmeansOrder DEF OpAfter
  <2>2. SumOf(n) = ClusterSums(p.centroids)
    BY <1>5 DEF Brings
  <2> HIDE DEF f
  <2>3. IsComputed(f)
    BY <1>1, <1>5, <2>1, <2>2, RestComputed DEF Ends
  <2>4. QED  BY <2>3 DEF f
<1>6. CASE p.op = "counts"
  BY <1>6, CountsComputed DEF Brings
<1>7. CASE p.op = "replacement"
  <2>1. Spare \subseteq Int
    BY FileFacts, RowsAreLines, ZeroIsRank DEF Spare, Coordinates, AreRows
  <2>2. QED  BY <2>1, <1>7, ReplacementComputed DEF Brings
<1>8. CASE p.op = "wcss"
  <2>1. f.op = "flag"
    BY <1>1, <1>8, KmeansOrder DEF OpAfter
  <2>2. SumOf(n)[1] = Wcss(KeptRows, p.centroids)
    BY <1>8 DEF Brings
  <2>3. HasMeans(p) /\ p.empty = {}
    BY <1>8 DEF IsComputed
  <2> HIDE DEF f
  <2>4. HasMeans(f) /\ f.empty = {}
    BY <1>1, <1>8, <2>3 DEF HasMeans
  <2>5. IsComputed(f)
    BY <1>1, <1>8, <2>1, <2>2, <2>3, <2>4, RestComputed DEF Ends
  <2>6. QED  BY <2>5 DEF f
<1>9. CASE p.op = "flag"
  BY <1>9, FlagComputed DEF Brings
<1>10. CASE p.op = "last_Barrier"
  <2>1. f.op = "done"
    BY <1>1, <1>10 DEF OpAfter
  <2> HIDE DEF f
  <2>2. f.centroids = p.centroids /\ f.record = p.record /\ f.prev = p.prev
    BY <1>1, <1>10
  <2>3. IsComputed(f)
    BY <1>10, <2>1, <2>2 DEF IsComputed, Ends
  <2>4. QED  BY <2>3 DEF f
<1>11. QED
  BY <1>2, <1>3, <1>4, <1>5, <1>6, <1>7, <1>8, <1>9, <1>10 DEF KmeansOps

\* What all have passed to a call is what the definitions of k-means ask of it.
LEMMA CallBrings ==
  ASSUME app = "kmeans", file \in Files[app], NEW S, CallsCarry(S), NEW n \in Nat \ {0},
         \A q \in Rank : Len(posted[q]) \in Nat, Settled(n, S[n - 1].op),
         S[n - 1].centroids \in Centroids
  PROVE  Brings(S[n - 1], n)
<1>0. PICK p : p = S[n - 1]
  OBVIOUS
<1>1. ASSUME NEW q \in Rank, Len(posted[q]) >= n
      PROVE  Carries(q, posted[q][n].buffer, p)
  BY <1>0, <1>1 DEF CallsCarry
<1>2. p.op \in Rooted => Carries(0, Sent(n), p)
  BY <1>0, <1>1, ZeroIsRank DEF Settled, Sent
<1>3. p.op \notin Rooted \cup {"Reduce_stats"} => \A q \in Rank : Carries(q, posted[q][n].buffer, p)
  BY <1>0, <1>1 DEF Settled
<1>4. file \in Lines
  BY FileFacts
<1>5. p.op = "Bcast_seed" => Sent(n) \in Centroids
  BY <1>2 DEF Carries, Rooted
<1>6. ASSUME p.op = "sums"
      PROVE  SumOf(n) = ClusterSums(p.centroids)
  <2>1. \A q \in Rank : posted[q][n].buffer = LocalSums(Rows(q), p.centroids)
    BY <1>3, <1>6 DEF Carries, Rooted
  <2>2. DOMAIN Sent(n) = Cluster
    BY <2>1, ZeroIsRank DEF Sent, LocalSums
  <2>3. \A j \in Cluster : [q \in Rank |-> posted[q][n].buffer[j]] = [q \in Rank |-> LocalSums(Rows(q), p.centroids)[j]]
    BY <2>1
  <2>4. \A j \in Cluster : SumFunction([q \in Rank |-> LocalSums(Rows(q), p.centroids)[j]]) =
                             SumOver(Points(KeptRows), Own(KeptRows, p.centroids, j))
    BY <1>4, ClustersMerge
  <2>5. QED  BY <2>1, <2>2, <2>3, <2>4 DEF SumOf, ClusterSums
<1>7. ASSUME p.op = "counts"
      PROVE  SumOf(n) = ClusterCounts(p.centroids)
  <2>1. \A q \in Rank : posted[q][n].buffer = LocalCounts(Rows(q), p.centroids)
    BY <1>3, <1>7 DEF Carries, Rooted
  <2>2. DOMAIN Sent(n) = Cluster
    BY <2>1, ZeroIsRank DEF Sent, LocalCounts
  <2>3. \A j \in Cluster : [q \in Rank |-> posted[q][n].buffer[j]] = [q \in Rank |-> LocalCounts(Rows(q), p.centroids)[j]]
    BY <2>1
  <2>4. \A j \in Cluster : SumFunction([q \in Rank |-> LocalCounts(Rows(q), p.centroids)[j]]) =
                             Cardinality(Own(KeptRows, p.centroids, j))
    BY <1>4, ClustersMerge
  <2>5. QED  BY <2>2, <2>3, <2>4 DEF SumOf, ClusterCounts
<1>8. p.op = "replacement" => Sent(n)[1] \in Spare
  BY <1>2 DEF Carries, Rooted
<1>9. ASSUME p.op = "wcss"
      PROVE  SumOf(n)[1] = Wcss(KeptRows, p.centroids)
  <2>1. \A q \in Rank : posted[q][n].buffer = <<Wcss(Rows(q), p.centroids)>>
    BY <1>3, <1>9 DEF Carries, Rooted
  <2>2. 1 \in DOMAIN Sent(n)
    BY <2>1, ZeroIsRank DEF Sent
  <2>3. [q \in Rank |-> posted[q][n].buffer[1]] = [q \in Rank |-> Wcss(Rows(q), p.centroids)]
    BY <2>1
  <2>4. SumFunction([q \in Rank |-> Wcss(Rows(q), p.centroids)]) = Wcss(KeptRows, p.centroids)
    BY <1>0, <1>4, WcssMerges
  <2>5. QED  BY <2>2, <2>3, <2>4 DEF SumOf
<1>10. p.op = "flag" => (Sent(n)[1] = 1 <=> p.iteration > 1 /\ p.made = p.prev)
  BY <1>2 DEF Carries, Rooted, Flag
<1>11. QED
  BY <1>0, <1>5, <1>6, <1>7, <1>8, <1>9, <1>10 DEF Brings

\* The rows stay, and with them what they amount to.
LEMMA RowsKept ==
  ASSUME app' = app, file' = file
  PROVE  /\ \A q : Rows(q)' = Rows(q)
         /\ Kept' = Kept /\ KeptRows' = KeptRows /\ Spare' = Spare
         /\ \A q : LocalStats(q)' = LocalStats(q)
         /\ GlobalStats' = GlobalStats
<1>1. \A q : Rows(q)' = Rows(q)
  BY DEF Rows
<1>2. Kept' = Kept
  BY <1>1 DEF Kept, Taken
<1>3. KeptRows' = KeptRows
  BY <1>2 DEF KeptRows
<1>4. QED  BY <1>1, <1>2, <1>3 DEF Spare, LocalStats, GlobalStats

LEMMA DataKept ==
  ASSUME app' = app, file' = file
  PROVE  /\ \A p : IsComputed(p)' <=> IsComputed(p)
         /\ \A q, b, p : Carries(q, b, p)' <=> Carries(q, b, p)
<1>1. /\ \A q : Rows(q)' = Rows(q)
      /\ KeptRows' = KeptRows /\ Spare' = Spare
      /\ \A q : LocalStats(q)' = LocalStats(q)
      /\ GlobalStats' = GlobalStats
  BY RowsKept
<1>2. \A p : HasMeans(p)' <=> HasMeans(p)
  BY <1>1 DEF HasMeans
<1>3. \A c : ClusterSums(c)' = ClusterSums(c)
  BY <1>1 DEF ClusterSums
<1>4. \A p : IsComputed(p)' <=> IsComputed(p)
  BY <1>1, <1>2, <1>3 DEF IsComputed
<1>5. \A q, b, p : Carries(q, b, p)' <=> Carries(q, b, p)
  BY <1>1 DEF Carries
<1>6. QED  BY <1>4, <1>5

\* A rank passes to a call what the position it is at asks of it.
LEMMA EnterCarries ==
  ASSUME app \in {"kmeans", "logreg"}, file \in Files[app], NEW r \in Rank, NEW p, p = Position(r),
         pc[r] \notin {"output", "done", "failed"}, pc[r] \in Ops, ~Raises(r),
         app = "logreg" => HasStats(r), NEW buffer \in Contribution(r)
  PROVE  Carries(r, buffer, p)
<1>1. /\ p.op = pc[r] /\ p.iteration = iteration[r] /\ p.centroids = centroids[r]
      /\ p.prev = prev[r] /\ p.made = made[r]
  BY DEF Position
<1>2. pc[r] = "Bcast_seed" /\ r = 0 => buffer \in Centroids
  <2> SUFFICES ASSUME pc[r] = "Bcast_seed", r = 0 PROVE buffer \in Centroids
    OBVIOUS
  <2>1. buffer \in Seeds(Rows(0))
    BY DEF Contribution
  <2>2. Coordinates(Rows(0)) \subseteq Int
    BY FileFacts, RowsAreLines, ZeroIsRank DEF Coordinates, AreRows
  <2>3. buffer \in [Cluster -> Coordinates(Rows(0))]
    BY <2>1, SeedsAreRows
  <2>4. QED  BY <2>2, <2>3 DEF Centroids
<1>3. pc[r] = "Reduce_stats" => buffer = LocalStats(r)
  BY DEF Contribution, LocalStats, PointSquares
<1>4. pc[r] = "Bcast_stats" /\ r = 0 => buffer = GlobalStats
  <2> SUFFICES ASSUME pc[r] = "Bcast_stats", r = 0 PROVE buffer = GlobalStats
    OBVIOUS
  <2>1. app = "logreg"
    BY DEF Ops, KmeansOps
  <2>2. buffer = stats[r]
    BY DEF Contribution
  <2>3. QED  BY <2>1, <2>2 DEF HasStats
<1>5. pc[r] = "sums" => buffer = LocalSums(Rows(r), centroids[r])
  BY DEF Contribution
<1>6. pc[r] = "counts" => buffer = LocalCounts(Rows(r), centroids[r])
  BY DEF Contribution
<1>7. pc[r] = "replacement" /\ r = 0 => \E x \in Spare : buffer = <<x>>
  BY DEF Contribution, Spare
<1>8. pc[r] = "wcss" => buffer = <<Wcss(Rows(r), centroids[r])>>
  BY DEF Contribution
<1>9. pc[r] = "flag" /\ r = 0 /\ app = "kmeans" => buffer = Flag(iteration[r] > 1 /\ made[r] = prev[r])
  BY DEF Contribution, KMeansConverged, Flag
<1>10. QED
  BY <1>1, <1>2, <1>3, <1>4, <1>5, <1>6, <1>7, <1>8, <1>9 DEF Carries

LEMMA EnterData ==
  ASSUME Shape, NEW S, Course(S), Positions(S), DataInv(S), NEW r \in Rank, Enter(r)
  PROVE  DataInv(S)'
<1>1. PICK buffer \in Contribution(r) : posted' = [posted EXCEPT ![r] = Append(posted[r], Call(r, buffer))]
  BY DEF Enter, Shape, PerRank
<1>2. /\ pc[r] \notin {"output", "done", "failed"} /\ ~waiting[r] /\ ~Raises(r)
      /\ waiting' = [waiting EXCEPT ![r] = TRUE]
      /\ UNCHANGED <<app, file, pc, stats>>
  BY DEF Enter
<1> DEFINE k == Len(posted[r])
<1>3. /\ k \in Nat /\ Returned(r) = k /\ Position(r) = S[k] /\ pc[r] \in Ops
  BY <1>2, ReturnedFacts, PositionOp
<1>4. app \in {"kmeans", "logreg"} /\ file \in Files[app] /\ (app = "logreg" => HasStats(r))
  BY DEF Shape, DataInv
<1>5. Carries(r, buffer, S[k])
  BY <1>2, <1>3, <1>4, EnterCarries
<1> DEFINE c == Call(r, buffer)
<1>6. c.buffer = buffer
  BY DEF Call
<1> HIDE DEF c
<1>7. /\ Len(posted'[r]) = k + 1 /\ posted'[r][k + 1] = c
      /\ \A i \in 1..k : posted'[r][i] = posted[r][i]
  <2>1. posted'[r] = Append(posted[r], c) /\ IsSequence(posted[r])
    BY <1>1 DEF Shape, PerRank, c
  <2>2. QED  BY <2>1, AppendIsSequence
<1>8. \A q \in Rank \ {r} : posted'[q] = posted[q] /\ waiting'[q] = waiting[q]
  BY <1>1, <1>2 DEF Shape, PerRank
<1>9. waiting'[r] = TRUE
  BY <1>2 DEF Shape
<1>10. \A q \in Rank : Returned(q)' = Returned(q)
  <2>1. Returned(r)' = k
    <3>1. Len(posted'[r]) = k + 1 /\ k \in Nat
      BY <1>3, <1>7
    <3>2. Returned(r)' = Len(posted'[r]) - 1
      BY <1>9 DEF Returned
    <3>3. QED  BY <3>1, <3>2
  <2>2. \A q \in Rank \ {r} : Returned(q)' = Returned(q)
    BY <1>8 DEF Returned
  <2>3. QED  BY <2>1, <2>2, <1>3
<1>11. \A n \in Nat : Reached(n)' = Reached(n)
  BY <1>10 DEF Reached
<1>12. ASSUME NEW q \in Rank, NEW i \in 1..Len(posted'[q])
       PROVE  Carries(q, posted'[q][i].buffer, S[i - 1])
  <2>1. CASE q # r
    BY <2>1, <1>8 DEF DataInv, CallsCarry
  <2>2. CASE q = r /\ i <= k
    <3>1. i \in 1..k /\ posted'[q][i] = posted[r][i]
      BY <2>2, <1>3, <1>7
    <3>2. Carries(r, posted[r][i].buffer, S[i - 1])
      BY <3>1 DEF DataInv, CallsCarry
    <3>3. QED  BY <3>1, <3>2, <2>2
  <2>3. CASE q = r /\ i = k + 1
    BY <2>3, <1>3, <1>5, <1>6, <1>7
  <2>4. QED  BY <2>1, <2>2, <2>3, <1>3, <1>7
<1>13. CallsCarry(S)'
  BY <1>2, <1>12, DataKept DEF CallsCarry
<1>14. Computed(S)'
  <2>1. app' = "kmeans" => \A n \in Nat : Reached(n)' => IsComputed(S[n])
    BY <1>2, <1>11 DEF DataInv, Computed
  <2>2. \A p : IsComputed(p)' <=> IsComputed(p)
    BY <1>2, DataKept
  <2>3. QED  BY <2>1, <2>2 DEF Computed
<1>15. app' = "logreg" => \A q \in Rank : HasStats(q)'
  <2>1. GlobalStats' = GlobalStats
    BY <1>2, RowsKept
  <2>2. QED  BY <2>1, <1>2 DEF DataInv, HasStats
<1>16. QED  BY <1>2, <1>4, <1>13, <1>14, <1>15 DEF DataInv

\* Neither the output of logistic regression nor a failure changes what was computed.
LEMMA StillData ==
  ASSUME Shape, NEW S, DataInv(S), UNCHANGED <<app, file, waiting, posted, stats>>,
         \A q \in Rank : pc'[q] = pc[q] \/ pc'[q] = "failed" \/ (pc[q] = "output" /\ pc'[q] = "done")
  PROVE  DataInv(S)'
<1>1. \A n \in Nat : Reached(n)' = Reached(n)
  BY DEF Reached, Returned
<1>2. CallsCarry(S)'
  <2>1. \A q, b, p : Carries(q, b, p)' <=> Carries(q, b, p)
    BY DataKept
  <2>2. QED  BY <2>1 DEF DataInv, CallsCarry
<1>3. Computed(S)'
  <2>1. \A p : IsComputed(p)' <=> IsComputed(p)
    BY DataKept
  <2>2. QED  BY <2>1, <1>1 DEF DataInv, Computed
<1>4. app' = "logreg" => \A q \in Rank : HasStats(q)'
  <2>1. GlobalStats' = GlobalStats
    BY RowsKept
  <2>2. QED  BY <2>1 DEF DataInv, HasStats
<1>5. QED  BY <1>2, <1>3, <1>4 DEF DataInv

\* _broadcast_global_stats: rank 0 makes mean and variance of what all have passed.
LEMMA ReducedStats ==
  ASSUME app = "logreg", file \in Files[app], NEW n \in Nat \ {0}, n = Len(posted[0]),
         \A q \in Rank : posted[q][n].buffer = LocalStats(q)
  PROVE  Standardisation(Reduced(0)) = GlobalStats
<1>1. FromRoot(0) = LocalStats(0)
  BY ZeroIsRank DEF FromRoot
<1>2. \A q : /\ DOMAIN LocalStats(q) = 1..3
             /\ LocalStats(q)[1] = SumOfRows(Rows(q), DOMAIN Rows(q))
             /\ LocalStats(q)[2] = SumFunction(PointSquares(Rows(q)))
             /\ LocalStats(q)[3] = NumRows(Rows(q))
  BY DEF LocalStats
<1>3. \A j \in 1..3 : Reduced(0)[j] = SumFunction([q \in Rank |-> posted[q][n].buffer[j]])
  BY <1>1, <1>2 DEF Reduced
<1>4. /\ [q \in Rank |-> posted[q][n].buffer[1]] = [q \in Rank |-> SumOfRows(Rows(q), DOMAIN Rows(q))]
      /\ [q \in Rank |-> posted[q][n].buffer[2]] = [q \in Rank |-> SumFunction(PointSquares(Rows(q)))]
      /\ [q \in Rank |-> posted[q][n].buffer[3]] = [q \in Rank |-> NumRows(Rows(q))]
  BY <1>2
<1>5. /\ Reduced(0)[1] = SumOfRows(KeptRows, Kept)
      /\ Reduced(0)[2] = SumFunction(PointSquares(KeptRows))
      /\ Reduced(0)[3] = NumRows(KeptRows)
  <2>1. /\ SumFunction([q \in Rank |-> SumOfRows(Rows(q), DOMAIN Rows(q))]) = SumOfRows(KeptRows, Kept)
        /\ SumFunction([q \in Rank |-> SumFunction(PointSquares(Rows(q)))]) = SumFunction(PointSquares(KeptRows))
        /\ SumFunction([q \in Rank |-> NumRows(Rows(q))]) = NumRows(KeptRows)
    BY FileFacts, StatsMerge
  <2>2. 1 \in 1..3 /\ 2 \in 1..3 /\ 3 \in 1..3
    OBVIOUS
  <2>3. QED  BY <1>3, <1>4, <2>1, <2>2
<1>6. PICK s : s = <<SumOfRows(KeptRows, Kept), SumFunction(PointSquares(KeptRows)), NumRows(KeptRows)>>
  OBVIOUS
<1>7. s[1] = Reduced(0)[1] /\ s[2] = Reduced(0)[2] /\ s[3] = Reduced(0)[3]
  BY <1>5, <1>6
<1>8. PICK t : t = Reduced(0)
  OBVIOUS
<1>9. s[1] = t[1] /\ s[2] = t[2] /\ s[3] = t[3]
  BY <1>7, <1>8
<1>10. Standardisation(s) = Standardisation(t)
  BY <1>9 DEF Standardisation
<1>11. QED  BY <1>6, <1>8, <1>10 DEF GlobalStats

LEMMA LeaveKeepsStats ==
  ASSUME Shape, app = "logreg", NEW S, DataInv(S), NEW r \in Rank, Leave(r), pc[r] \in Ops,
         Len(posted[r]) \in Nat \ {0}, S[Len(posted[r]) - 1].op = pc[r]
  PROVE  stats' = [q \in Rank |-> stats'[q]] /\ \A q \in Rank : HasStats(q)'
<1> DEFINE m == Len(posted[r])
<1>1. /\ stats = [q \in Rank |-> stats[q]] /\ pc = [q \in Rank |-> pc[q]]
      /\ \A q \in Rank : HasStats(q)
      /\ file \in Files[app] /\ app' = app /\ file' = file
  BY LeaveReturns DEF Shape, PerRank, DataInv
<1>2. \A q \in Rank : \A i \in 1..Len(posted[q]) : Carries(q, posted[q][i].buffer, S[i - 1])
  BY DEF DataInv, CallsCarry
<1>3. GlobalStats' = GlobalStats
  BY <1>1, RowsKept
<1>4. pc[r] \in {"scatter", "Reduce_stats", "Bcast_stats", "Barrier", "gradient", "loss", "flag"}
  BY LeaveReturns DEF Ops, LogregOps
<1>5. \A q \in Rank \ {r} : pc'[q] = pc[q]
  BY LeaveAdvances DEF Advances
<1>6. CASE pc[r] = "scatter"
  <2>1. LeaveScatter(r)
    BY <1>6 DEF Leave, LeaveScatter, LeaveSetup, LeaveSeed, LeaveReduce, LeaveStats, LeaveSums,
      LeaveCounts, LeaveReplacement, LeaveGradient, LeaveTotal, LeaveFlag, LeaveLast, Returns
  <2>2. stats' = stats /\ pc'[r] = "Reduce_stats"
    BY <2>1, <1>1, <1>6, AfterIsNextOp, LogregOrder DEF LeaveScatter, Goto
  <2>3. QED  BY <2>2, <1>1, <1>3, <1>5 DEF HasStats
<1>7. CASE pc[r] = "Reduce_stats"
  <2>1. LeaveReduce(r)
    BY <1>7 DEF Leave, LeaveScatter, LeaveSetup, LeaveSeed, LeaveReduce, LeaveStats, LeaveSums,
      LeaveCounts, LeaveReplacement, LeaveGradient, LeaveTotal, LeaveFlag, LeaveLast, Returns
  <2>2. pc'[r] = "Bcast_stats"
    BY <2>1, <1>1, <1>7, AfterIsNextOp, LogregOrder DEF LeaveReduce, Goto
  <2>3. stats' = IF r = 0 THEN [stats EXCEPT ![0] = Standardisation(Reduced(0))] ELSE stats
    BY <2>1 DEF LeaveReduce
  <2>4. ASSUME r = 0
        PROVE  Standardisation(Reduced(0)) = GlobalStats
    <3>1. AllIn(0)
      BY <2>1, <2>4 DEF LeaveReduce, Returns, Rooted
    <3>2. \A q \in Rank : m \in 1..Len(posted[q])
      <4>1. \A q \in Rank : Len(posted[q]) \in Nat
        BY ReturnedFacts
      <4>2. QED  BY <3>1, <4>1, <2>4 DEF AllIn, Made
    <3>3. S[m - 1].op = "Reduce_stats"
      BY <1>7
    <3>4. \A q \in Rank : posted[q][m].buffer = LocalStats(q)
      BY <3>2, <3>3, <1>2 DEF Carries
    <3>5. QED  BY <3>4, <2>4, <1>1, ReducedStats
  <2>5. r = 0 => stats'[0] = GlobalStats
    BY <2>3, <2>4, <1>1, ZeroIsRank
  <2>6. stats' = [q \in Rank |-> stats'[q]] /\ \A q \in Rank \ {r} : stats'[q] = stats[q]
    BY <2>3, <1>1
  <2>7. HasStats(r)'
    BY <2>2, <2>5, <1>3 DEF HasStats
  <2>8. \A q \in Rank \ {r} : HasStats(q)'
    BY <2>6, <1>1, <1>3, <1>5 DEF HasStats
  <2>9. QED  BY <2>6, <2>7, <2>8
<1>8. CASE pc[r] = "Bcast_stats"
  <2>1. LeaveStats(r)
    BY <1>8 DEF Leave, LeaveScatter, LeaveSetup, LeaveSeed, LeaveReduce, LeaveStats, LeaveSums,
      LeaveCounts, LeaveReplacement, LeaveGradient, LeaveTotal, LeaveFlag, LeaveLast, Returns
  <2>2. stats' = [stats EXCEPT ![r] = posted[0][m].buffer]
    BY <2>1 DEF LeaveStats, FromRoot
  <2>3. m \in 1..Len(posted[0])
    <3>1. Len(posted[0]) \in Nat
      BY ReturnedFacts, ZeroIsRank
    <3>2. Settled(m, "Bcast_stats")
      BY <1>8, LeaveReturns
    <3>3. QED  BY <3>1, <3>2 DEF Settled, Rooted
  <2>4. posted[0][m].buffer = GlobalStats
    <3>1. Carries(0, posted[0][m].buffer, S[m - 1])
      BY <2>3, <1>2, ZeroIsRank
    <3>2. QED  BY <3>1, <1>8 DEF Carries
  <2>5. stats' = [q \in Rank |-> stats'[q]] /\ stats'[r] = GlobalStats
        /\ \A q \in Rank \ {r} : stats'[q] = stats[q]
    BY <2>2, <2>4, <1>1
  <2>6. QED  BY <2>5, <1>1, <1>3, <1>5 DEF HasStats
<1>9. CASE pc[r] \in {"Barrier", "gradient", "loss", "flag"}
  <2>1. stats' = stats
    BY <1>9 DEF Leave, LeaveScatter, LeaveSetup, LeaveSeed, LeaveReduce, LeaveStats, LeaveSums,
      LeaveCounts, LeaveReplacement, LeaveGradient, LeaveTotal, LeaveFlag, LeaveLast, Returns
  <2>2. stats[r] = GlobalStats
    BY <1>1, <1>9 DEF HasStats
  <2>3. QED  BY <2>1, <2>2, <1>1, <1>3, <1>5 DEF HasStats
<1>10. QED  BY <1>4, <1>6, <1>7, <1>8, <1>9

\* A rank that returns from a call has computed what the call asks for.
LEMMA LeaveData ==
  ASSUME Shape, NEW S, Course(S), Positions(S), DataInv(S), NEW r \in Rank, Leave(r), pc[r] \in Ops,
         NEW m, m = Len(posted[r]), m \in Nat \ {0}, Reached(m - 1), S[m - 1].op = pc[r],
         NEW T, T[m] = Following(S[m - 1], m), \A n \in Nat : Reached(n) => T[n] = S[n],
         \A n \in Nat : Reached(n)' => Reached(n) \/ n = m,
         \A q \in Rank : \A i \in 1..Len(posted[q]) : T[i - 1] = S[i - 1]
  PROVE  DataInv(T)'
<1>1. /\ UNCHANGED <<app, file, posted>> /\ Settled(m, pc[r])
      /\ pc[r] \notin {"output", "done", "failed"}
  BY LeaveReturns
<1>2. /\ file \in Files[app] /\ CallsCarry(S)
      /\ app \in {"kmeans", "logreg"}
      /\ app = "kmeans" => \A n \in Nat : Reached(n) => IsComputed(S[n])
  BY DEF DataInv, Computed, Shape
<1>3. \A p : IsComputed(p)' <=> IsComputed(p)
  BY <1>1, DataKept
<1>4. \A q, b, p : Carries(q, b, p)' <=> Carries(q, b, p)
  BY <1>1, DataKept
<1>5. CallsCarry(T)'
  <2>1. \A q \in Rank : \A i \in 1..Len(posted[q]) : Carries(q, posted[q][i].buffer, T[i - 1])
    BY <1>2 DEF CallsCarry
  <2>2. QED  BY <2>1, <1>1, <1>4 DEF CallsCarry
<1>6. ASSUME app = "kmeans", NEW n \in Nat, Reached(n)'
      PROVE  IsComputed(T[n])
  <2>1. CASE Reached(n)
    BY <2>1, <1>2, <1>6
  <2>2. CASE n = m
    <3>1. m - 1 \in Nat /\ IsPosition(S[m - 1]) /\ IsComputed(S[m - 1])
      BY <1>2, <1>6 DEF Positions
    <3>2. \A q \in Rank : Len(posted[q]) \in Nat
      BY ReturnedFacts
    <3>3. S[m - 1].centroids \in Centroids
      BY <3>1 DEF IsComputed
    <3>4. Brings(S[m - 1], m)
      BY <3>2, <3>3, <1>1, <1>2, <1>6, CallBrings
    <3>5. IsComputed(Following(S[m - 1], m))
      BY <3>1, <3>4, <1>1, <1>2, <1>6, NextComputed
    <3>6. QED  BY <3>5, <2>2
  <2>3. QED  BY <2>1, <2>2, <1>6
<1>7. Computed(T)'
  BY <1>1, <1>3, <1>6 DEF Computed
<1>8. app = "logreg" => \A q \in Rank : HasStats(q)'
  BY LeaveKeepsStats
<1>9. stats' = [q \in Rank |-> stats'[q]]
  <2>1. CASE app = "logreg"
    BY <2>1, LeaveKeepsStats
  <2>2. CASE app = "kmeans"
    <3>1. pc[r] \notin {"Reduce_stats", "Bcast_stats"}
      BY <2>2 DEF Ops, KmeansOps
    <3>2. stats' = stats
      BY <3>1 DEF Leave, LeaveScatter, LeaveSetup, LeaveSeed, LeaveReduce, LeaveStats, LeaveSums,
        LeaveCounts, LeaveReplacement, LeaveGradient, LeaveTotal, LeaveFlag, LeaveLast, Returns
    <3>3. QED  BY <3>2 DEF DataInv
  <2>3. QED  BY <2>1, <2>2, <1>2
<1>10. QED
  BY <1>1, <1>2, <1>5, <1>7, <1>8, <1>9 DEF DataInv

----------------------------------------------------------------------------
(* The invariant is kept *)

LEMMA LeaveKeeps ==
  ASSUME Shape, NEW S, Course(S), Positions(S), OutputInv(S), DataInv(S), NEW r \in Rank, Leave(r)
  PROVE  Shape' /\ \E T : Course(T)' /\ Positions(T)' /\ OutputInv(T)' /\ DataInv(T)'
<1> DEFINE m == Len(posted[r])
<1> DEFINE p == S[m - 1]
<1> DEFINE f == Following(p, m)
<1>1. /\ UNCHANGED <<app, posted, saved>> /\ waiting[r]
      /\ waiting' = [waiting EXCEPT ![r] = FALSE] /\ Settled(m, pc[r])
      /\ pc[r] \notin {"output", "done", "failed"}
  BY LeaveReturns
<1>2. m \in Nat \ {0} /\ Returned(r) = m - 1 /\ m - 1 \in Nat
  BY <1>1, ReturnedFacts
<1>3. /\ Position(r) = p /\ p.op = pc[r] /\ pc[r] \in Ops /\ IsPosition(p)
  BY <1>1, <1>2, PositionOp
<1>4. Advances(r)
  BY <1>3, LeaveAdvances
<1>5. Position(r)' = f /\ \A q \in Rank \ {r} : pc'[q] = pc[q] /\ Position(q)' = Position(q)
  BY <1>3, <1>4 DEF Advances
<1>6. Shape'
  BY <1>1, <1>4 DEF Shape, Advances
<1>7. Returned(r)' = m /\ \A q \in Rank \ {r} : Returned(q)' = Returned(q)
  <2>1. waiting'[r] = FALSE /\ \A q \in Rank \ {r} : waiting'[q] = waiting[q]
    BY <1>1 DEF Shape
  <2>2. Returned(r)' = m - 0
    BY <2>1, <1>1, <1>2 DEF Returned
  <2>3. \A q \in Rank \ {r} : Returned(q)' = Returned(q)
    BY <2>1, <1>1 DEF Returned
  <2>4. QED  BY <2>2, <2>3, <1>2
<1> HIDE DEF f, p, m
<1>8. PICK T : T = [n \in Nat |-> IF n = m THEN f ELSE S[n]]
  OBVIOUS
<1>9. /\ \A n \in Nat : Reached(n) => T[n] = S[n]
      /\ T[m] = f /\ T[m - 1] = p /\ T[0] = AtStart
  <2>1. Reached(m) => S[m] = f
    BY <1>2 DEF Course, f, p
  <2>2. \A n \in Nat : n # m => T[n] = S[n]
    BY <1>8
  <2>3. T[m] = f
    BY <1>2, <1>8
  <2>4. T[m - 1] = p /\ T[0] = AtStart
    BY <2>2, <1>2 DEF p, Course
  <2>5. QED  BY <2>1, <2>2, <2>3, <2>4
<1>10. \A n \in Nat : n < m => Reached(n)
  BY <1>2, PastPositions
<1>11. \A n \in Nat : Reached(n)' => Reached(n) \/ n = m
  <2>1. SUFFICES ASSUME NEW n \in Nat, NEW q \in Rank, Returned(q)' >= n
                 PROVE  Reached(n) \/ n = m
    BY DEF Reached
  <2>2. CASE q = r
    BY <2>1, <2>2, <1>2, <1>7, <1>10
  <2>3. CASE q # r
    BY <2>1, <2>3, <1>7 DEF Reached
  <2>4. QED  BY <2>2, <2>3
<1>12. \A n \in Nat, k \in Nat : Reached(n) /\ k <= n => Reached(k)
  <2>1. \A q \in Rank : Returned(q) \in Nat
    BY ReturnedFacts
  <2>2. QED  BY <2>1 DEF Reached
<1>13. \A q \in Rank : \A i \in 1..Len(posted[q]) :
         i - 1 \in Nat /\ Reached(i - 1) /\ T[i - 1] = S[i - 1]
  <2>1. SUFFICES ASSUME NEW q \in Rank, NEW i \in 1..Len(posted[q])
                 PROVE  i - 1 \in Nat /\ Reached(i - 1)
    BY <1>9
  <2>2. i - 1 \in Nat /\ i - 1 <= Returned(q)
    BY ReturnedFacts
  <2>3. QED  BY <2>2, PastPositions
<1>14. \A q \in Rank : IsAt(q, T[Returned(q)])'
  <2>1. IsAt(r, T[Returned(r)])'
    BY <1>5, <1>7, <1>9 DEF IsAt
  <2>2. ASSUME NEW q \in Rank \ {r}
        PROVE  IsAt(q, T[Returned(q)])'
    <3>1. Returned(q) \in Nat /\ Reached(Returned(q))
      BY ReturnedFacts, PastPositions
    <3>2. T[Returned(q)] = S[Returned(q)] /\ IsAt(q, S[Returned(q)])
      BY <3>1, <1>9 DEF Course
    <3>3. QED  BY <3>2, <1>5, <1>7 DEF IsAt
  <2>3. QED  BY <2>1, <2>2
<1>15. \A q \in Rank : \A i \in 1..Len(posted'[q]) : IsCallAt(posted'[q][i], T[i - 1])
  <2>1. \A q \in Rank : \A i \in 1..Len(posted[q]) : IsCallAt(posted[q][i], S[i - 1])
    BY DEF Course
  <2>2. QED  BY <2>1, <1>1, <1>13
<1>16. ASSUME NEW n \in Nat \ {0}, Reached(n)'
       PROVE  /\ T[n] = Following(T[n - 1], n)'
              /\ Settled(n, T[n - 1].op)'
              /\ T[n - 1].op \notin {"output", "done"}
  <2>1. T[n] = Following(T[n - 1], n) /\ Settled(n, T[n - 1].op)
        /\ T[n - 1].op \notin {"output", "done"}
    <3>1. CASE Reached(n)
      <4>1. Reached(n - 1) /\ n - 1 \in Nat
        BY <3>1, <1>12
      <4>2. T[n] = S[n] /\ T[n - 1] = S[n - 1]
        BY <4>1, <3>1, <1>9
      <4>3. QED  BY <4>2, <3>1 DEF Course
    <3>2. CASE n = m
      BY <3>2, <1>1, <1>3, <1>9 DEF f, m
    <3>3. QED  BY <3>1, <3>2, <1>11, <1>16
  <2>2. Following(T[n - 1], n)' = Following(T[n - 1], n)
    BY <2>1, <1>1, FollowingKept, ZeroIsRank
  <2>3. Settled(n, T[n - 1].op)'
    BY <2>1, <1>1 DEF Settled
  <2>4. QED  BY <2>1, <2>2, <2>3
<1>17. Course(T)'
  BY <1>9, <1>14, <1>15, <1>16 DEF Course, IsCallAt, AtStart, Zeros
<1>18. IsPosition(f) /\ Precedes(p, f)
  BY <1>1, <1>3, NextPosition DEF f, Shape
<1>19. ASSUME NEW n \in Nat, Reached(n)'
       PROVE  IsPosition(T[n]) /\ \A k \in 0..n : Precedes(T[k], T[n])
  <2>1. CASE Reached(n)
    <3>1. IsPosition(S[n]) /\ \A k \in 0..n : Precedes(S[k], S[n])
      BY <2>1 DEF Positions
    <3>2. \A k \in 0..n : T[k] = S[k]
      BY <2>1, <1>9, <1>12
    <3>3. QED  BY <3>1, <3>2
  <2>2. CASE n = m
    <3>1. IsPosition(T[n])
      BY <2>2, <1>9, <1>18
    <3>2. ASSUME NEW k \in 0..(m - 1)
          PROVE  Precedes(T[k], T[m])
      <4>1. T[k] = S[k] /\ IsPosition(S[k])
        BY <1>2, <1>9, <1>10 DEF Positions
      <4>2. Precedes(S[k], p)
        BY <1>2, <1>10 DEF Positions, p
      <4>3. Precedes(S[k], f)
        BY <4>1, <4>2, <1>3, <1>18, PrecedesTransitive DEF IsPosition
      <4>4. QED  BY <4>1, <4>3, <1>9
    <3>3. Precedes(T[m], T[m])
      BY <1>9, <1>18 DEF Precedes, IsPosition, IsSequence
    <3>4. QED  BY <3>1, <3>2, <3>3, <2>2, <1>2
  <2>3. QED  BY <2>1, <2>2, <1>11, <1>19
<1>20. Positions(T)'
  BY <1>1, <1>19 DEF Positions, IsPosition, Precedes, Ops
<1>21. \A q \in Rank : \A i \in 1..Len(posted[q]) :
         posted[q][i].op = "last_Barrier" => saved[q] = T[i - 1].record
  BY <1>13 DEF OutputInv
<1>22. AggregateIsOfThisRun'
  <2> SUFFICES ASSUME pc'[0] = "done", app = "kmeans"
               PROVE  aggregate' = [q \in Rank |-> record'[0]]
    BY <1>1 DEF AggregateIsOfThisRun
  <2>1. CASE r = 0 /\ pc[0] = "last_Barrier"
    <3>1. LeaveLast(0)
      BY <2>1 DEF Leave, LeaveScatter, LeaveSetup, LeaveSeed, LeaveReduce, LeaveStats, LeaveSums,
        LeaveCounts, LeaveReplacement, LeaveGradient, LeaveTotal, LeaveFlag, LeaveLast, Returns
    <3>2. /\ aggregate' = [q \in {v \in Rank : saved[v] # NoFile} |-> saved[q]]
          /\ record' = record /\ \A q \in Rank : Len(posted[q]) >= m
      BY <3>1, <2>1 DEF LeaveLast, Returns, AllIn, Made, Rooted, m
    <3>3. p.record = record[0] /\ p.op = "last_Barrier" /\ p.record # <<>>
      BY <2>1, <1>3 DEF Position, IsPosition, Ends
    <3>4. ASSUME NEW q \in Rank
          PROVE  saved[q] = record[0]
      <4>1. m \in 1..Len(posted[q])
        BY <3>2, <1>2, ReturnedFacts
      <4>2. posted[q][m].op = "last_Barrier"
        BY <4>1, <3>3 DEF Course, IsCallAt, p
      <4>3. saved[q] = S[m - 1].record
        BY <4>1, <4>2 DEF OutputInv
      <4>4. QED  BY <4>3, <3>3 DEF p
    <3>5. {v \in Rank : saved[v] # NoFile} = Rank
      BY <3>3, <3>4 DEF NoFile
    <3>6. QED  BY <3>2, <3>4, <3>5
  <2>2. CASE r = 0 /\ pc[0] # "last_Barrier"
    <3>1. f.op = "done"
      BY <2>2, <1>1, <1>5 DEF Position
    <3>2. f.op # "done"
      <4>1. f.op = OpAfter(p, m) /\ p.op \in Ops \ {"last_Barrier", "output", "done"}
        BY <2>2, <1>1, <1>3 DEF f, Following
      <4>2. CASE p.op \in Sequential
        BY <4>1, <4>2, NextOpInProgram DEF OpAfter, Sequential
      <4>3. CASE p.op \in {"counts", "replacement", "flag"}
        BY <4>1, <4>3, LoopInProgram DEF OpAfter, AfterCounts, EndOfLoop
      <4>4. QED  BY <4>1, <4>2, <4>3 DEF Sequential
    <3>3. QED  BY <3>1, <3>2
  <2>3. CASE r # 0
    <3>1. pc[0] = "done" /\ record'[0] = record[0]
      BY <2>3, <1>5, ZeroIsRank DEF Position
    <3>2. aggregate' = aggregate
      BY <2>3 DEF Leave, LeaveScatter, LeaveSetup, LeaveSeed, LeaveReduce, LeaveStats, LeaveSums,
        LeaveCounts, LeaveReplacement, LeaveGradient, LeaveTotal, LeaveFlag, LeaveLast
    <3>3. QED  BY <3>1, <3>2 DEF OutputInv, AggregateIsOfThisRun
  <2>4. QED  BY <2>1, <2>2, <2>3
<1>23. OutputInv(T)'
  BY <1>1, <1>21, <1>22 DEF OutputInv
<1>24. DataInv(T)'
  <2>1. m = Len(posted[r]) /\ Reached(m - 1) /\ S[m - 1].op = pc[r]
    BY <1>2, <1>3, <1>10 DEF m, p
  <2>2. T[m] = Following(S[m - 1], m)
    BY <1>9 DEF f, p
  <2>3. \A q \in Rank : \A i \in 1..Len(posted[q]) : T[i - 1] = S[i - 1]
    BY <1>13
  <2>4. QED  BY <2>1, <2>2, <2>3, <1>2, <1>3, <1>9, <1>11, LeaveData
<1>25. QED  BY <1>6, <1>17, <1>20, <1>23, <1>24

----------------------------------------------------------------------------
(* The theorems *)

LEMMA InitIInv == Init => IInv
<1> SUFFICES ASSUME Init PROVE IInv  OBVIOUS
<1>1. PICK S : S = [n \in Nat |-> AtStart]
  OBVIOUS
<1>2. \A r \in Rank : /\ posted[r] = <<>> /\ ~waiting[r] /\ Len(posted[r]) = 0
                      /\ Position(r) = AtStart
  BY DEF Init, Position, AtStart, Zeros
<1>3. IsSequence(<<>>) /\ Len(<<>>) = 0
  BY EmptySeq DEF IsSequence
<1>4. Shape
  <2>1. PerRank
    BY DEF Init, PerRank
  <2>2. saved = [r \in Rank |-> saved[r]] /\ app \in {"kmeans", "logreg"}
    BY DEF Init
  <2>3. posted = [r \in Rank |-> posted[r]] /\ waiting \in [Rank -> BOOLEAN]
    BY DEF Init
  <2>4. QED  BY <1>2, <1>3, <2>1, <2>2, <2>3 DEF Shape
<1>5. \A r \in Rank : Returned(r) = 0
  BY <1>2 DEF Returned
<1>6. \A n \in Nat : Reached(n) => n = 0
  BY <1>5 DEF Reached
<1>7. Course(S)
  BY <1>1, <1>2, <1>5, <1>6 DEF Course, IsAt
<1>8. IsPosition(AtStart)
  BY <1>3, <1>4 DEF IsPosition, AtStart, Ops, KmeansOps, LogregOps, Ends, Shape
<1>9. Positions(S)
  BY <1>1, <1>3, <1>6, <1>8 DEF Positions, Precedes, AtStart
<1>10. OutputInv(S)
  BY <1>2, ZeroIsRank DEF OutputInv, AggregateIsOfThisRun, Init
<1>11. IsComputed(AtStart)
  <2>1. Zeros \in Centroids
    BY DEF Zeros, Centroids
  <2>2. AtStart.op = "scatter" /\ AtStart.record = <<>> /\ AtStart.centroids = Zeros /\ AtStart.iteration = 1
    BY DEF AtStart
  <2>3. QED  BY <2>1, <2>2, <1>3 DEF IsComputed, Ends
<1>12. DataInv(S)
  <2>1. file \in Files[app] /\ stats = [r \in Rank |-> stats[r]]
    BY DEF Init
  <2>2. CallsCarry(S)
    BY <1>2 DEF CallsCarry
  <2>3. Computed(S)
    BY <1>1, <1>6, <1>11 DEF Computed
  <2>4. \A r \in Rank : HasStats(r)
    BY DEF Init, HasStats
  <2>5. QED  BY <2>1, <2>2, <2>3, <2>4 DEF DataInv
<1>13. QED  BY <1>4, <1>7, <1>9, <1>10, <1>12 DEF IInv

LEMMA NextIInv == IInv /\ [Next]_vars => IInv'
<1> SUFFICES ASSUME IInv, [Next]_vars PROVE IInv'  OBVIOUS
<1>1. Shape
  BY DEF IInv
<1>2. PICK S : Course(S) /\ Positions(S) /\ OutputInv(S) /\ DataInv(S)
  BY DEF IInv
<1>3. ASSUME NEW r \in Rank, Enter(r) \/ Output(r) \/ Fail(r)
      PROVE  IInv'
  <2>1. Shape' /\ Course(S)' /\ Positions(S)' /\ OutputInv(S)'
    BY <1>1, <1>2, <1>3, EnterKeeps, OutputKeeps, FailKeeps
  <2>2. CASE Enter(r)
    BY <2>1, <2>2, <1>1, <1>2, EnterData DEF IInv
  <2>3. CASE Output(r) \/ Fail(r)
    <3>1. /\ UNCHANGED <<app, file, waiting, posted, stats>>
          /\ \A q \in Rank : pc'[q] = pc[q] \/ pc'[q] = "failed" \/ (pc[q] = "output" /\ pc'[q] = "done")
      BY <2>3, <1>1 DEF Output, Fail, Goto, Shape, PerRank
    <3>2. DataInv(S)'
      BY <3>1, <1>1, <1>2, StillData
    <3>3. QED  BY <2>1, <3>2 DEF IInv
  <2>4. QED  BY <1>3, <2>2, <2>3
<1>4. ASSUME NEW r \in Rank, Leave(r)
      PROVE  IInv'
  BY <1>1, <1>2, <1>4, LeaveKeeps DEF IInv
<1>5. CASE UNCHANGED vars
  <2>1. Shape'
    BY <1>1, <1>5 DEF vars, km, Shape, PerRank
  <2>2. \A r \in Rank : Position(r)' = Position(r) /\ Returned(r)' = Returned(r)
    BY <1>5 DEF vars, km, Position, Returned
  <2>3. \A r \in Rank : Len(posted[r]) \in Nat
    BY <1>1, ReturnedFacts
  <2>4. Course(S)' /\ Positions(S)'
    <3>1. posted' = posted /\ app' = app
      BY <1>5 DEF vars
    <3>2. \A r \in Rank : IsAt(r, S[Returned(r)])'
      BY <1>2, <2>2 DEF Course, IsAt
    <3>3. \A r \in Rank : \A i \in 1..Len(posted[r]) : IsCallAt(posted[r][i], S[i - 1])
      BY <1>2 DEF Course
    <3>4. QED  BY <1>1, <1>2, <2>2, <2>3, <3>1, <3>2, <3>3, CourseKept
  <2>5. OutputInv(S)'
    BY <1>2, <1>5 DEF vars, OutputInv, AggregateIsOfThisRun
  <2>6. DataInv(S)'
    <3>1. UNCHANGED <<app, file, waiting, posted, stats>> /\ \A q \in Rank : pc'[q] = pc[q]
      BY <1>5 DEF vars
    <3>2. QED  BY <3>1, <1>1, <1>2, StillData
  <2>7. QED  BY <2>1, <2>4, <2>5, <2>6 DEF IInv
<1>6. QED
  BY <1>3, <1>4, <1>5 DEF Next, Ended

LEMMA Invariant == Spec => []IInv
BY InitIInv, NextIInv, PTL DEF Spec

\* convergence.py: for any files, number of ranks and bound of the loop, the calls that
\* MPI matches are the same call, of the same iteration and for the same cluster.
THEOREM CallsAlwaysMatch == Spec => []CallsMatch
<1>1. IInv => CallsMatch
  <2> SUFFICES ASSUME IInv PROVE CallsMatch  OBVIOUS
  <2>1. PICK S : Course(S)
    BY DEF IInv
  <2>2. ASSUME NEW q \in Rank, NEW i \in DOMAIN posted[q]
        PROVE  IsCallAt(posted[q][i], S[i - 1])
    <3>1. IsSequence(posted[q])
      BY DEF IInv, Shape
    <3>2. i \in 1..Len(posted[q])
      BY <3>1 DEF IsSequence
    <3>3. QED  BY <3>2, <2>1 DEF Course
  <2>3. QED  BY <2>2 DEF CallsMatch, IsCallAt
<1>2. QED
  BY <1>1, Invariant, PTL

\* metrics.py, aggregate_across_ranks: rank 0 averages what all ranks have recorded in
\* this run, never a file of an earlier one, and all have recorded the same.
THEOREM AggregatesThisRun == Spec => []AggregateIsOfThisRun
<1>1. IInv => AggregateIsOfThisRun
  BY DEF IInv, OutputInv
<1>2. QED
  BY <1>1, Invariant, PTL

\* What a rank has computed is what the course says of where it is, even if it has failed.
LEMMA OnCourse ==
  ASSUME Shape, NEW S, Course(S), Positions(S), NEW v \in Rank
  PROVE  /\ Returned(v) \in Nat /\ Reached(Returned(v)) /\ IsPosition(S[Returned(v)])
         /\ S[Returned(v)].record = record[v] /\ S[Returned(v)].centroids = centroids[v]
         /\ S[Returned(v)].prev = prev[v]
<1>1. Returned(v) \in Nat /\ Reached(Returned(v))
  BY ReturnedFacts, PastPositions
<1>2. IsPosition(S[Returned(v)])
  BY <1>1 DEF Positions
<1>3. PICK s : s = S[Returned(v)]
  OBVIOUS
<1>4. Position(v) = s \/ Position(v) = [s EXCEPT !.op = "failed"]
  BY <1>3 DEF Course, IsAt
<1>5. /\ Position(v).record = record[v] /\ Position(v).centroids = centroids[v]
      /\ Position(v).prev = prev[v]
      /\ {"record", "centroids", "prev"} \subseteq DOMAIN Position(v)
  BY DEF Position
<1>6. s.record = record[v] /\ s.centroids = centroids[v] /\ s.prev = prev[v]
  <2>1. CASE Position(v) = s
    BY <2>1, <1>5
  <2>2. CASE Position(v) = [s EXCEPT !.op = "failed"]
    <3>1. DOMAIN Position(v) = DOMAIN s
      BY <2>2
    <3>2. QED  BY <2>2, <3>1, <1>5
  <2>3. QED  BY <2>1, <2>2, <1>4
<1>7. QED  BY <1>1, <1>2, <1>3, <1>6

LEMMA SameResult ==
  ASSUME IInv, NEW q \in Rank, NEW r \in Rank, Len(record[q]) = Len(record[r]), record[r] # <<>>
  PROVE  record[q] = record[r] /\ centroids[q] = centroids[r]
<1>1. Shape
  BY DEF IInv
<1>2. PICK S : Course(S) /\ Positions(S)
  BY DEF IInv
<1>3. \A v \in Rank :
        /\ Returned(v) \in Nat /\ Reached(Returned(v)) /\ IsPosition(S[Returned(v)])
        /\ S[Returned(v)].record = record[v] /\ S[Returned(v)].centroids = centroids[v]
  BY <1>1, <1>2, OnCourse
<1>4. CASE Returned(q) <= Returned(r)
  <2>1. Precedes(S[Returned(q)], S[Returned(r)])
    BY <1>2, <1>3, <1>4 DEF Positions
  <2>2. QED  BY <2>1, <1>3 DEF Precedes
<1>5. CASE Returned(r) <= Returned(q)
  <2>1. Precedes(S[Returned(r)], S[Returned(q)])
    BY <1>2, <1>3, <1>5 DEF Positions
  <2>2. record[q] # <<>>
    <3>1. IsSequence(record[q]) /\ IsSequence(record[r])
      BY <1>3 DEF IsPosition
    <3>2. QED  BY <3>1 DEF IsSequence
  <2>3. QED  BY <2>1, <2>2, <1>3 DEF Precedes
<1>6. QED  BY <1>3, <1>4, <1>5

\* allreduce.py: ranks that have recorded as many iterations have recorded the same
\* and hold the same centroids, although none has sent its own to another.
THEOREM SameResultEverywhere ==
  Spec => [](\A q, r \in Rank : Len(record[q]) = Len(record[r]) /\ record[r] # <<>> =>
               record[q] = record[r] /\ centroids[q] = centroids[r])
<1> DEFINE Same ==
      \A q, r \in Rank : Len(record[q]) = Len(record[r]) /\ record[r] # <<>> =>
        record[q] = record[r] /\ centroids[q] = centroids[r]
<1>1. IInv => Same
  BY SameResult
<1>2. QED
  BY <1>1, Invariant, PTL

\* broadcast_convergence: ranks that have left the loop have left it after the same
\* iteration, whatever each of them would have decided.
THEOREM StopAfterSameIteration ==
  Spec => [](\A q, r \in Rank : pc[q] \in Ends /\ pc[r] \in Ends => record[q] = record[r])
<1> DEFINE Same == \A q, r \in Rank : pc[q] \in Ends /\ pc[r] \in Ends => record[q] = record[r]
<1>1. IInv => Same
  <2> SUFFICES ASSUME IInv PROVE Same  OBVIOUS
  <2>1. Shape
    BY DEF IInv
  <2>2. PICK S : Course(S) /\ Positions(S)
    BY DEF IInv
  <2>3. ASSUME NEW v \in Rank, pc[v] \in Ends
        PROVE  /\ Returned(v) \in Nat /\ Reached(Returned(v))
               /\ S[Returned(v)].record = record[v] /\ S[Returned(v)].op \in Ends
    <3>1. Returned(v) \in Nat /\ Reached(Returned(v))
      BY <2>1, ReturnedFacts, PastPositions
    <3>2. Position(v) = S[Returned(v)]
      BY <2>1, <2>2, <2>3, PositionOp DEF Ends
    <3>3. Position(v).record = record[v] /\ Position(v).op \in Ends
      BY <2>3 DEF Position, Ends
    <3>4. QED  BY <3>1, <3>2, <3>3
  <2>4. ASSUME NEW m \in Nat, NEW n \in Nat, m <= n, Reached(n), S[m].op \in Ends
        PROVE  S[n].record = S[m].record
    <3>1. \A k \in Nat : k <= n => Reached(k)
      <4>1. \A v \in Rank : Returned(v) \in Nat
        BY <2>1, ReturnedFacts
      <4>2. QED  BY <4>1, <2>4 DEF Reached
    <3>2. CASE m = n
      BY <3>2
    <3>3. CASE m < n
      <4>1. m + 1 \in Nat \ {0} /\ Reached(m + 1)
        BY <3>1, <3>3
      <4>2. S[m + 1] = Following(S[m], m + 1) /\ S[m].op = "last_Barrier"
        BY <4>1, <2>2, <2>4 DEF Course, Ends
      <4>3. S[m + 1].op = "done" /\ S[m + 1].record = S[m].record
        BY <4>2 DEF Following, OpAfter
      <4>4. ~(m + 1 < n)
        <5> SUFFICES ASSUME m + 1 < n PROVE FALSE  OBVIOUS
        <5>1. m + 2 \in Nat \ {0} /\ Reached(m + 2)
          BY <3>1
        <5>2. S[m + 1].op # "done"
          BY <5>1, <2>2 DEF Course
        <5>3. QED  BY <5>2, <4>3
      <4>5. QED  BY <3>3, <4>3, <4>4
    <3>4. QED  BY <2>4, <3>2, <3>3
  <2>5. ASSUME NEW q \in Rank, NEW r \in Rank, pc[q] \in Ends, pc[r] \in Ends
        PROVE  record[q] = record[r]
    <3>1. Returned(q) <= Returned(r) \/ Returned(r) <= Returned(q)
      BY <2>3, <2>5
    <3>2. QED  BY <3>1, <2>3, <2>4, <2>5
  <2>6. QED  BY <2>5
<1>2. QED
  BY <1>1, Invariant, PTL

\* metrics.py, wcss_series: the global cost that the ranks record never grows from one
\* iteration to the next, whatever lines the ranks have dropped and whichever rows of
\* rank 0 the empty clusters have been given.
THEOREM CostNeverGrows == Spec => []WcssNeverGrows
<1>1. IInv => WcssNeverGrows
  <2> SUFFICES ASSUME IInv, app = "kmeans", NEW r \in Rank
               PROVE  \A t \in 2..Len(record[r]) : record[r][t] <= record[r][t - 1]
    BY DEF WcssNeverGrows
  <2>1. PICK S : Shape /\ Course(S) /\ Positions(S) /\ DataInv(S)
    BY DEF IInv
  <2>2. /\ Returned(r) \in Nat /\ Reached(Returned(r))
        /\ S[Returned(r)].record = record[r]
    BY <2>1, OnCourse
  <2>3. IsComputed(S[Returned(r)])
    BY <2>1, <2>2 DEF DataInv, Computed
  <2>4. QED  BY <2>2, <2>3 DEF IsComputed
<1>2. QED
  BY <1>1, Invariant, PTL

\* allreduce.py: as long as the ranks keep the rows of their shares, every iteration a rank
\* has completed is one of Lloyd's algorithm over the whole file, and the cost it has
\* recorded is that of the centroids the iteration started from; in any case the ranks
\* have the same result.
THEOREM EveryIterationIsLloyd == Spec => []IterationIsLloyd
<1>1. IInv => IterationIsLloyd
  <2> SUFFICES ASSUME IInv, NEW r \in Rank, app = "kmeans", record[r] # <<>>
               PROVE  /\ SharesKept =>
                           /\ IsLloydStep(AllRows, prev[r], centroids[r], Coordinates(Rows(0)))
                           /\ record[r][Len(record[r])] = Wcss(AllRows, prev[r])
                      /\ \A q \in Rank : Len(record[q]) = Len(record[r]) => centroids[q] = centroids[r]
    BY DEF IterationIsLloyd
  <2>1. PICK S : Shape /\ Course(S) /\ Positions(S) /\ DataInv(S)
    BY DEF IInv
  <2>2. PICK s : s = S[Returned(r)]
    OBVIOUS
  <2>3. /\ Returned(r) \in Nat /\ Reached(Returned(r))
        /\ s.record = record[r] /\ s.centroids = centroids[r] /\ s.prev = prev[r]
    BY <2>1, <2>2, OnCourse
  <2>4. IsComputed(s)
    BY <2>1, <2>2, <2>3 DEF DataInv, Computed
  <2>5. /\ IsLloydStep(KeptRows, prev[r], centroids[r], Spare)
        /\ record[r][Len(record[r])] = Wcss(KeptRows, prev[r])
    BY <2>3, <2>4 DEF IsComputed
  <2>6. SharesKept => KeptRows = AllRows
    BY <2>1, FileFacts, KeptAreAll DEF DataInv
  <2>7. \A q \in Rank : Len(record[q]) = Len(record[r]) => centroids[q] = centroids[r]
    BY SameResult
  <2>8. QED  BY <2>5, <2>6, <2>7 DEF Spare
<1>2. QED
  BY <1>1, Invariant, PTL

\* convergence.py: as long as the ranks keep the rows of their shares, a loop that stops
\* before max_iter has stopped where another iteration over the whole file would change
\* nothing, although the criterion compares centroids
\* that are two iterations apart: if they have come back, the cost has not changed, so
\* no centroid has moved.
THEOREM StopsWhereNothingChanges == Spec => []StopsAtFixedPoint
<1>1. IInv => StopsAtFixedPoint
  <2> SUFFICES ASSUME IInv, SharesKept, NEW r \in Rank, app = "kmeans",
                      pc[r] \in {"last_Barrier", "done"}, Len(record[r]) < max_iter
               PROVE  IsLloydStep(AllRows, centroids[r], centroids[r], Coordinates(Rows(0)))
    BY DEF StopsAtFixedPoint
  <2>1. PICK S : Shape /\ Course(S) /\ Positions(S) /\ DataInv(S)
    BY DEF IInv
  <2>2. PICK s : s = S[Returned(r)]
    OBVIOUS
  <2>3. /\ Returned(r) \in Nat /\ Reached(Returned(r)) /\ IsPosition(s)
        /\ s.record = record[r] /\ s.centroids = centroids[r]
    BY <2>1, <2>2, OnCourse
  <2>4. s.op \in Ends
    <3>1. Position(r) = s
      BY <2>1, <2>2, PositionOp
    <3>2. QED  BY <3>1 DEF Position, Ends
  <2>5. IsComputed(s)
    BY <2>1, <2>2, <2>3 DEF DataInv, Computed
  <2>6. IsLloydStep(KeptRows, centroids[r], centroids[r], Spare)
    BY <2>3, <2>4, <2>5 DEF IsComputed, IsPosition
  <2>7. KeptRows = AllRows
    BY <2>1, FileFacts, KeptAreAll DEF DataInv
  <2>8. QED  BY <2>6, <2>7 DEF Spare
<1>2. QED
  BY <1>1, Invariant, PTL

\* The mean and the variance that _broadcast_global_stats makes of sums are those of the
\* rows: n * mean is their sum, n * variance that of the squared deviations.
LEMMA StatsOfRows ==
  ASSUME app = "logreg", file \in Files[app], NEW mean, mean = GlobalStats[1],
         NEW deviations, deviations = SumFunction([i \in Kept |-> Distance(KeptRows[i].x, mean)])
  PROVE  /\ NumRows(KeptRows) * mean = SumOfRows(KeptRows, Kept)
         /\ IF deviations = 0 THEN GlobalStats[2] = 1
            ELSE NumRows(KeptRows) * GlobalStats[2] = deviations
<1>1. /\ \A m \in DOMAIN file : (file[m].x % Unit) = 0 /\ file[m].x \in Int
      /\ Kept \subseteq DOMAIN file /\ IsFiniteSet(Kept) /\ Unit \in Nat \ {0}
  BY FileFacts, KeptAreRows, LinesHavePoints DEF AreRows, KeptRows
<1>2. PICK x : x = [i \in Kept |-> file[i].x]
  OBVIOUS
<1>3. PICK y : y = [i \in Kept |-> x[i] * x[i]]
  OBVIOUS
<1>4. \A i \in Kept : /\ x[i] \in Int /\ (x[i] % Unit) = 0 /\ KeptRows[i].x = x[i]
                      /\ y[i] = x[i] * x[i]
  BY <1>1, <1>2, <1>3 DEF KeptRows
<1>5. \A i \in Kept : y[i] \in Int /\ (y[i] % Unit) = 0
  <2>1. ASSUME NEW a \in Int, (a % Unit) = 0
        PROVE  a * a \in Int /\ ((a * a) % Unit) = 0
    <3>1. PICK b \in Int : a = b * Unit
      <4>1. a = (a \div Unit) * Unit /\ (a \div Unit) \in Int
        BY <2>1, <1>1
      <4>2. QED  BY <4>1
    <3>2. a * a = (b * a) * Unit /\ b * a \in Int
      <4>1. \A u, v, w \in Int : (u * w) * v = (u * v) * w
        OBVIOUS
      <4>2. QED  BY <4>1, <3>1, <1>1
    <3>3. \A c \in Int : ((c * Unit) % Unit) = 0
      BY <1>1
    <3>4. QED  BY <3>2, <3>3
  <2>2. QED  BY <2>1, <1>4
<1>6. PICK n : n = Cardinality(Kept)
  OBVIOUS
<1>7. PICK X : X = SumOver(x, Kept)
  OBVIOUS
<1>8. PICK Y : Y = SumOver(y, Kept)
  OBVIOUS
<1>9. /\ NumRows(KeptRows) = n /\ SumOfRows(KeptRows, Kept) = X
      /\ SumFunction(PointSquares(KeptRows)) = Y
  <2>1. DOMAIN KeptRows = Kept
    BY DEF KeptRows
  <2>2. [i \in Kept |-> KeptRows[i].x] = [i \in Kept |-> x[i]]
    BY <1>4
  <2>3. [i \in Kept |-> KeptRows[i].x * KeptRows[i].x] = [i \in Kept |-> y[i]]
    BY <1>4
  <2>4. QED  BY <2>1, <2>2, <2>3, <1>6, <1>7, <1>8 DEF NumRows, SumOfRows, PointSquares, SumOver
<1>10. n \in Nat /\ X \in Int /\ Y \in Int
  <2>1. n \in Nat
    BY <1>1, <1>6, FS_CardinalityType
  <2>2. X \in Int
    BY <1>1, <1>4, <1>7, SumOverInt
  <2>3. Y \in Int
    BY <1>1, <1>5, <1>8, SumOverInt
  <2>4. QED  BY <2>1, <2>2, <2>3
<1>11. PICK k \in Nat \ {0} : k = IF n > 1 THEN n ELSE 1
  BY <1>10
<1>12. (X \div k) \in Int /\ (Y \div k) \in Int
  BY <1>10, <1>11
<1>13. PICK variance \in Int : variance = (Y \div k) - mean * mean
  <2>1. mean \in Int
    BY <1>9, <1>11, <1>12 DEF GlobalStats, Standardisation
  <2>2. QED  BY <2>1, <1>12
<1>14. /\ mean = (X \div k) /\ mean \in Int
       /\ GlobalStats[2] = IF variance = 0 THEN 1 ELSE variance
  BY <1>9, <1>11, <1>12, <1>13 DEF GlobalStats, Standardisation
<1>15. n * mean = X /\ n * (Y \div k) = Y
  <2>1. CASE Kept = {}
    <3>1. n = 0 /\ X = 0 /\ Y = 0
      BY <2>1, <1>6, <1>7, <1>8, FS_EmptySet, SumOverEmpty
    <3>2. QED  BY <3>1, <1>12, <1>14
  <2>2. CASE Kept # {}
    <3>1. n \in Nat \ {0} /\ (X \div n) * n = X /\ (Y \div n) * n = Y
      BY <2>2, <1>4, <1>5, <1>6, <1>7, <1>8, SumIsExact
    <3>2. k = n
      BY <3>1, <1>11
    <3>3. \A a, b \in Int : a * b = b * a
      OBVIOUS
    <3>4. QED  BY <3>1, <3>2, <3>3, <1>10, <1>12, <1>14
  <2>3. QED  BY <2>1, <2>2
<1>16. Y = deviations + n * (mean * mean) /\ deviations \in Int
  <2>1. [i \in Kept |-> (x[i] - 0) * (x[i] - 0)] = [i \in Kept |-> y[i]]
    BY <1>4
  <2>2. SumOver([i \in Kept |-> (x[i] - 0) * (x[i] - 0)], Kept) = Y
    <3>1. SumOver([i \in Kept |-> y[i]], Kept) = SumOver(y, Kept)
      BY SumOverSame
    <3>2. QED  BY <2>1, <3>1, <1>8
  <2>3. PICK d : d = [i \in Kept |-> (x[i] - mean) * (x[i] - mean)]
    OBVIOUS
  <2>4. SumOver(d, Kept) = deviations
    <3>1. [i \in Kept |-> Distance(KeptRows[i].x, mean)] = [i \in Kept |-> d[i]]
      BY <1>4, <2>3 DEF Distance
    <3>2. QED  BY <3>1 DEF SumOver
  <2>5. SumOver(d, Kept) \in Int
    <3>1. \A i \in Kept : d[i] \in Int
      BY <1>4, <1>14, <2>3
    <3>2. QED  BY <3>1, <1>1, SumOverInt
  <2>6. ASSUME NEW c \in Int
        PROVE  SumOver([i \in Kept |-> (x[i] - c) * (x[i] - c)], Kept)
                 = SumOver([i \in Kept |-> (x[i] - mean) * (x[i] - mean)], Kept)
                   + 2 * (mean - c) * (SumOver(x, Kept) - Cardinality(Kept) * mean)
                   + Cardinality(Kept) * ((c - mean) * (c - mean))
    <3>1. IsFiniteSet(Kept) /\ (\A i \in Kept : x[i] \in Int) /\ mean \in Int
      BY <1>1, <1>4, <1>14
    <3>2. QED  BY <3>1, ZenonT(40), SumOfSquares
  <2>7. Y = deviations + 2 * (mean - 0) * (X - n * mean) + n * ((0 - mean) * (0 - mean))
    <3>1. PICK z \in Int : z = 0
      OBVIOUS
    <3>2. SumOver([i \in Kept |-> (x[i] - z) * (x[i] - z)], Kept) = Y
      BY <2>2, <3>1
    <3>3. Y = deviations + 2 * (mean - z) * (X - n * mean) + n * ((z - mean) * (z - mean))
      BY <3>2, <2>3, <2>4, <2>6, <1>6, <1>7
    <3>4. QED  BY <3>1, <3>3
  <2>8. X - n * mean = 0 /\ 2 * (mean - 0) * 0 = 0 /\ (0 - mean) * (0 - mean) = mean * mean
    BY <1>10, <1>14, <1>15
  <2>9. n * (mean * mean) \in Int
    BY <1>10, <1>14
  <2>10. Y = deviations + 0 + n * (mean * mean)
    BY <2>7, <2>8
  <2>11. QED  BY <2>4, <2>5, <2>9, <2>10
<1>17. n * variance = deviations
  <2>1. \A a, b, c \in Int : a * (b - c) = a * b - a * c
    OBVIOUS
  <2>2. mean * mean \in Int /\ n * (mean * mean) \in Int
    BY <1>10, <1>14
  <2>3. n * variance = n * (Y \div k) - n * (mean * mean)
    BY <2>1, <2>2, <1>10, <1>12, <1>13
  <2>4. QED  BY <2>2, <2>3, <1>10, <1>15, <1>16
<1>18. deviations = 0 => variance = 0
  <2>1. CASE n = 0
    <3>1. Kept = {}
      BY <2>1, <1>1, <1>6, FS_EmptySet
    <3>2. X = 0 /\ Y = 0 /\ k = 1
      BY <3>1, <2>1, <1>7, <1>8, <1>11, SumOverEmpty
    <3>3. mean = 0 /\ (Y \div k) = 0
      BY <3>2, <1>14
    <3>4. QED  BY <3>3, <1>13
  <2>2. CASE n # 0
    <3>1. \A a \in Nat \ {0} : \A b \in Int : a * b = 0 => b = 0
      OBVIOUS
    <3>2. QED  BY <3>1, <2>2, <1>10, <1>13, <1>17
  <2>3. QED  BY <2>1, <2>2
<1>19. variance = 0 => deviations = 0
  BY <1>10, <1>17
<1>20. QED
  BY <1>9, <1>14, <1>15, <1>17, <1>18, <1>19

\* load_and_cache_rdd: from the Barrier on every rank standardises its rows with the mean
\* and the variance of all rows of the file, however the lines are shared out.
THEOREM StatsAlwaysGlobal == Spec => []StatsAreGlobal
<1>1. IInv => StatsAreGlobal
  <2> SUFFICES ASSUME IInv, NEW r \in Rank, app = "logreg",
                      pc[r] \in {"Barrier", "gradient", "loss", "flag", "output", "done"},
                      NEW mean, mean = stats[r][1],
                      NEW deviations,
                      deviations = SumFunction([i \in DOMAIN AllRows |-> Distance(AllRows[i].x, mean)])
               PROVE  /\ NumRows(AllRows) * mean = SumOfRows(AllRows, DOMAIN AllRows)
                      /\ IF deviations = 0 THEN stats[r][2] = 1
                         ELSE NumRows(AllRows) * stats[r][2] = deviations
    BY DEF StatsAreGlobal
  <2>1. file \in Files[app] /\ HasStats(r)
    BY DEF IInv, DataInv
  <2>2. stats[r] = GlobalStats
    BY <2>1 DEF HasStats
  <2>3. KeptRows = AllRows /\ DOMAIN KeptRows = Kept
    BY <2>1, FileFacts, KeptAreAll DEF KeptRows
  <2>4. deviations = SumFunction([i \in Kept |-> Distance(KeptRows[i].x, mean)])
    BY <2>3
  <2>5. /\ NumRows(KeptRows) * mean = SumOfRows(KeptRows, Kept)
        /\ IF deviations = 0 THEN GlobalStats[2] = 1
           ELSE NumRows(KeptRows) * GlobalStats[2] = deviations
    BY <2>1, <2>2, <2>4, StatsOfRows
  <2>6. QED  BY <2>2, <2>3, <2>5
<1>2. QED
  BY <1>1, Invariant, PTL

----------------------------------------------------------------------------
(* Dispatch: its inductive invariant *)

Message == [rank : Worker, round : 0..(R - 1)]
Origin == [by : {"nobody", "worker", "average", "ring", "server"}, at : Nat]
Reply == [rank : Worker, model : Origin]

JobTypeOK ==
  /\ cfg \in Config
  /\ place \in [Worker -> {"go", "round", "collective", "reply", "out"}]
  /\ entered \in [Worker -> 0..R]
  /\ model \in [Worker -> [weights : Origin, intercept : Origin]]
  /\ outcome \in [Worker -> {"none", "success", "error"}]
  /\ up \subseteq Message
  /\ down \subseteq Reply
  /\ coord \in [state : {"none", "serving", "stored"}, has : SUBSET Message]
  /\ root \in {"collect", "join", "aggregate", "gossip", "end"}
  /\ collected \subseteq Worker
  /\ joined \in BOOLEAN
  /\ exit \in {"running", "complete", "aborted", "exit 1", "raised"}

\* How far a worker is, and that one whose runner cannot run ends with an error.
WorkersInv ==
  \A w \in Worker :
    /\ CannotRun => place[w] \in {"go", "out"} /\ outcome[w] # "success"
    /\ place[w] = "out" <=> outcome[w] # "none"
    /\ outcome[w] = "success" => Rounds(w) = R
    /\ Rounds(w) <= R
    /\ place[w] = "go" => Rounds(w) = 0
    /\ place[w] \in {"go", "round"} => entered[w] <= Rounds(w)
    /\ place[w] \in {"collective", "reply"} => entered[w] <= Rounds(w) + 1
    /\ place[w] = "collective" => Runner \in Collective /\ Rounds(w) < R
    /\ place[w] = "reply" => Runner \in WithRoot /\ Rounds(w) < R

\* Where a model comes from that some round has made.
ModelInv ==
  /\ \A w \in Worker : Rounds(w) > 0 =>
       /\ Runner \in {"fedavg", "hybrid", "queue"} => model[w].weights.by = "average"
       /\ Runner = "fedavg" => model[w].intercept = model[w].weights
  /\ Runner = "queue" => \A m \in down : m.model.by = "average"

\* A message is in one place, and its worker waits or has gone on.
MessageInv ==
  /\ up \cap coord.has = {}
  /\ \A m \in up \cup coord.has :
       /\ m.round <= Rounds(m.rank)
       /\ place[m.rank] \in {"go", "round", "collective"} => m.round < Rounds(m.rank)

\* The rounds the workers have behind them.
Behind == {m \in Message : m.round < Rounds(m.rank)}

\* The rounds, or versions, the coordinator has sent; each to all workers, or to one.
SentRounds == IF Coordinator = "async" THEN Cardinality(coord.has)
        ELSE Cardinality(coord.has) \div NumWorkers
Copies == IF Coordinator = "async" THEN 1 ELSE NumWorkers

\* A reply is in the channel, or has taken its worker to the next round; whose reply it was
\* does not matter.
ReplyInv ==
  /\ IsFiniteSet(down)
  /\ \A m \in down : m.model.at <= SentRounds
  /\ IF Runner \in WithRoot /\ ~CannotRun
     THEN Cardinality(down) + Cardinality(Behind) = Copies * SentRounds
     ELSE up = {} /\ down = {} /\ coord.has = {}

CoordInv ==
  /\ coord.state = "none" <=> Coordinator = "none"
  /\ coord.state = "stored" => Cardinality(coord.has) = NumWorkers * R

\* What the root concludes from.
RootInv ==
  /\ \A w \in collected : place[w] = "out"
  /\ root # "collect" => collected = Worker
  /\ root \in {"join", "aggregate", "gossip"} \/ exit = "complete" =>
       \A w \in Worker : outcome[w] = "success"
  /\ exit # "running" <=> root = "end"
  /\ joined => coord.state = "stored"
  /\ exit = "complete" =>
       /\ cfg.app = "kmeans" => HasCentres
       /\ cfg.app = "logreg" => report = aggregate_logreg_results

DispatchInv ==
  /\ JobTypeOK /\ WorkersInv /\ ModelInv /\ MessageInv /\ ReplyInv /\ CoordInv /\ RootInv

----------------------------------------------------------------------------
(* The two sides of a job *)

LEMMA ModeFacts ==
  ASSUME cfg \in Config
  PROVE  RootMode \in DOMAIN Aliases /\ WorkerMode = RootMode
<1>1. DOMAIN Aliases = {"none", "ps_sync_fedavg_queue", "ps_sync_fedavg_mpi", "allreduce_mpi",
                        "ps_async", "hybrid_ps_allreduce", "gossip"}
  BY DEF Aliases
<1>2. PICK mode \in DOMAIN Aliases : cfg.spelt \in Aliases[mode]
  BY DEF Config
<1>3. RootMode \in DOMAIN Aliases
  BY <1>2 DEF RootMode, normalize_sync_mode
<1>4. \A m \in DOMAIN Aliases : m \in Aliases[m]
  BY <1>1 DEF Aliases
<1>5. \A m, n \in DOMAIN Aliases : m \in Aliases[n] => m = n
  BY <1>1 DEF Aliases
<1>6. WorkerMode = RootMode
  BY <1>3, <1>4, <1>5 DEF WorkerMode, normalize_sync_mode
<1>7. QED  BY <1>3, <1>6

\* A worker that can run is served by the coordinator it expects, or by none.
LEMMA Sides ==
  ASSUME cfg \in Config
  PROVE  /\ Coordinator \in {"none", "rounds", "async", "scalars"}
         /\ Runner \in {"wordcount", "nosync", "queue", "async", "hybrid", "fedavg", "allreduce",
                        "gossip", "refuse"}
         /\ ~CannotRun =>
              /\ Runner # "refuse"
              /\ Runner = "queue" <=> Coordinator = "rounds"
              /\ Runner = "async" <=> Coordinator = "async"
              /\ Runner = "hybrid" <=> Coordinator = "scalars"
<1>1. cfg.app \in {"wordcount", "kmeans", "logreg"}
  BY DEF Config
<1>2. RootMode \in {"none", "ps_sync_fedavg_queue", "ps_sync_fedavg_mpi", "allreduce_mpi",
                    "ps_async", "hybrid_ps_allreduce", "gossip"}
  BY ModeFacts DEF Aliases
<1>3. Coordinator \in {"none", "rounds", "async", "scalars"}
  BY DEF Coordinator
<1>4. CASE cfg.app = "wordcount"
  BY <1>3, <1>4 DEF Runner, Coordinator, CannotRun
<1>5. CASE cfg.app = "kmeans"
  BY <1>2, <1>3, <1>5, ModeFacts DEF Runner, KMeansRunner, Coordinator, CannotRun
<1>6. CASE cfg.app = "logreg"
  BY <1>2, <1>3, <1>6, ModeFacts DEF Runner, LogregRunner, Coordinator, CannotRun
<1>7. QED  BY <1>1, <1>4, <1>5, <1>6

LEMMA ConfigKept ==
  ASSUME cfg' = cfg
  PROVE  /\ Runner' = Runner /\ Coordinator' = Coordinator /\ RootMode' = RootMode
         /\ Copies' = Copies /\ (CannotRun' <=> CannotRun) /\ (OnMpi' <=> OnMpi)
         /\ HasCentres' <=> HasCentres
<1>1. RootMode' = RootMode /\ WorkerMode' = WorkerMode /\ (OnMpi' <=> OnMpi)
  BY DEF RootMode, WorkerMode, OnMpi
<1>2. Runner' = Runner /\ Coordinator' = Coordinator
  BY <1>1 DEF Runner, KMeansRunner, LogregRunner, Coordinator
<1>3. QED  BY <1>1, <1>2 DEF CannotRun, Copies, HasCentres

----------------------------------------------------------------------------
(* Counting *)

LEMMA MessagesAre == IsFiniteSet(Message) /\ Cardinality(Message) = NumWorkers * R
<1> USE DispatchAssumption
<1>1. IsFiniteSet(Worker) /\ Cardinality(Worker) = NumWorkers
  BY FS_Interval DEF Worker
<1>2. IsFiniteSet(0..(R - 1)) /\ Cardinality(0..(R - 1)) = R
  BY FS_Interval
<1>3. IsFiniteSet(Worker \X (0..(R - 1))) /\ Cardinality(Worker \X (0..(R - 1))) = NumWorkers * R
  BY <1>1, <1>2, FS_Product
<1> DEFINE f == [p \in Worker \X (0..(R - 1)) |-> [rank |-> p[1], round |-> p[2]]]
<1>4. f \in Bijection(Worker \X (0..(R - 1)), Message)
  <2>1. f \in [Worker \X (0..(R - 1)) -> Message]
    BY DEF Message
  <2>2. \A p, q \in Worker \X (0..(R - 1)) : f[p] = f[q] => p = q
    OBVIOUS
  <2>3. \A m \in Message : f[<<m.rank, m.round>>] = m /\ <<m.rank, m.round>> \in Worker \X (0..(R - 1))
    BY DEF Message
  <2>4. QED  BY <2>1, <2>2, <2>3 DEF Bijection, Injection, Surjection, IsInjective
<1>5. QED
  BY <1>3, <1>4, FS_Bijection DEF ExistsBijection

LEMMA SubsetsOfMessages ==
  ASSUME NEW S \in SUBSET Message
  PROVE  /\ IsFiniteSet(S) /\ Cardinality(S) \in Nat /\ Cardinality(S) <= NumWorkers * R
         /\ Cardinality(S) = NumWorkers * R => S = Message
         /\ \A m \in Message \ S : Cardinality(S \cup {m}) = Cardinality(S) + 1
BY MessagesAre, FS_Subset, FS_CardinalityType, FS_AddElement

\* Counting up to a multiple.
LEMMA NextMultiple ==
  ASSUME NEW n \in Nat \ {0}, NEW c \in Nat
  PROVE  /\ c \div n \in Nat
         /\ (c + 1) % n = 0 => (c + 1) \div n = (c \div n) + 1
         /\ (c + 1) % n # 0 => (c + 1) \div n = c \div n
<1> DEFINE q == c \div n  r == c % n
<1> DEFINE q1 == (c + 1) \div n  r1 == (c + 1) % n
<1>1. q \in Int /\ r \in 0..(n - 1) /\ c = n * q + r
  OBVIOUS
<1>2. q1 \in Int /\ r1 \in 0..(n - 1) /\ c + 1 = n * q1 + r1
  OBVIOUS
<1> HIDE DEF q, r, q1, r1
<1>3. n * (q1 - q) = 1 + r - r1
  BY <1>1, <1>2
<1>4. q1 - q \in Int /\ 1 + r - r1 <= n /\ 1 + r - r1 > -n
  BY <1>1, <1>2
<1>5. q1 - q <= 1
  BY <1>1, <1>2, <1>3, <1>4
<1>6. q1 - q > -1
  BY <1>1, <1>2, <1>3, <1>4
<1>7. q1 = q \/ q1 = q + 1
  BY <1>1, <1>2, <1>5, <1>6
<1>8. q \in Nat
  BY <1>1
<1>9. r1 = 0 => q1 = q + 1
  BY <1>1, <1>2, <1>3, <1>7
<1>10. q1 = q + 1 => r1 = 0
  BY <1>1, <1>2, <1>3
<1>11. QED  BY <1>7, <1>8, <1>9, <1>10 DEF q, r, q1, r1

\* A worker that goes on has one more round behind it.
LEMMA BehindGrows ==
  ASSUME NEW w \in Worker, JobTypeOK, JobTypeOK', Rounds(w) < R, Rounds(w)' = Rounds(w) + 1,
         \A v \in Worker : v # w => Rounds(v)' = Rounds(v)
  PROVE  Cardinality(Behind') = Cardinality(Behind) + 1
<1> DEFINE m == [rank |-> w, round |-> Rounds(w)]
<1>1. \A v \in Worker : Rounds(v) \in Nat
  BY DEF JobTypeOK, Origin, Rounds
<1>2. m \in Message \ Behind
  BY <1>1, DispatchAssumption DEF Message, Behind
<1>3. Behind' = Behind \cup {m}
  BY <1>1, DispatchAssumption DEF Message, Behind
<1>4. QED
  BY <1>2, <1>3, SubsetsOfMessages DEF Behind

LEMMA BehindKept ==
  ASSUME \A v \in Worker : Rounds(v)' = Rounds(v)
  PROVE  Behind' = Behind
BY DEF Behind, Message

----------------------------------------------------------------------------
LEMMA InitDispatchInv == DispatchInit => DispatchInv
<1> SUFFICES ASSUME DispatchInit PROVE DispatchInv  OBVIOUS
<1> USE DispatchAssumption DEF DispatchInit, None, Source
<1>1. JobTypeOK
  <2>1. coord \in [state : {"none", "serving", "stored"}, has : SUBSET Message]
    OBVIOUS
  <2>2. model \in [Worker -> [weights : Origin, intercept : Origin]]
    BY DEF Origin
  <2>3. /\ entered \in [Worker -> 0..R] /\ outcome \in [Worker -> {"none", "success", "error"}]
        /\ place \in [Worker -> {"go", "round", "collective", "reply", "out"}]
    OBVIOUS
  <2>4. cfg \in Config /\ joined \in BOOLEAN /\ up = {} /\ down = {} /\ collected = {}
    OBVIOUS
  <2>5. root = "collect" /\ exit = "running"
    OBVIOUS
  <2> HIDE DEF DispatchInit
  <2>6. QED  BY <2>1, <2>2, <2>3, <2>4, <2>5 DEF JobTypeOK
<1>2. \A w \in Worker : Rounds(w) = 0
  BY DEF Rounds
<1>3. WorkersInv
  BY <1>2 DEF WorkersInv
<1>4. ModelInv
  BY <1>2 DEF ModelInv
<1>5. MessageInv
  BY DEF MessageInv
<1>6. ReplyInv
  <2>1. Cardinality(down) = 0 /\ IsFiniteSet(down) /\ Cardinality(coord.has) = 0
    BY FS_EmptySet
  <2>2. Behind = {}
    BY <1>2 DEF Behind, Message
  <2>3. Cardinality(Behind) = 0
    BY <2>2, FS_EmptySet
  <2>4. SentRounds = 0 /\ Copies \in Nat
    <3>1. 0 \div NumWorkers = 0
      OBVIOUS
    <3>2. QED  BY <2>1, <3>1 DEF SentRounds, Copies
  <2>5. Copies * SentRounds = 0
    BY <2>4
  <2>6. QED  BY <2>1, <2>3, <2>5 DEF ReplyInv
<1>7. CoordInv
  BY DEF CoordInv
<1>8. RootInv
  BY DEF RootInv
<1>9. QED
  BY <1>1, <1>3, <1>4, <1>5, <1>6, <1>7, <1>8 DEF DispatchInv

----------------------------------------------------------------------------
(* Steps of a worker *)

LEMMA RoundsType ==
  ASSUME JobTypeOK
  PROVE  /\ \A w \in Worker : /\ model[w] \in [weights : Origin, intercept : Origin]
                              /\ Rounds(w) \in Nat /\ Rounds(w) = model[w].weights.at
                              /\ entered[w] \in Nat
         /\ \A m \in up \cup coord.has : m.rank \in Worker /\ m.round \in Nat
<1>1. \A w \in Worker : /\ model[w] \in [weights : Origin, intercept : Origin]
                        /\ Rounds(w) \in Nat /\ Rounds(w) = model[w].weights.at
  BY DEF JobTypeOK, Origin, Rounds
<1>2. \A w \in Worker : entered[w] \in Nat
  <2>1. \A w \in Worker : entered[w] \in 0..R
    BY DEF JobTypeOK
  <2>2. QED  BY <2>1, DispatchAssumption
<1>3. up \cup coord.has \subseteq Message
  BY DEF JobTypeOK
<1>4. \A m \in Message : m.rank \in Worker /\ m.round \in Nat
  BY DispatchAssumption DEF Message
<1>5. QED  BY <1>1, <1>2, <1>3, <1>4

\* While some worker moves the root is collecting.
LEMMA WorkerMoves ==
  ASSUME DispatchInv, NEW w \in Worker, place[w] # "out",
         \A v \in Worker : v # w => place'[v] = place[v],
         UNCHANGED <<cfg, coord, rootVars>>
  PROVE  /\ CoordInv' /\ RootInv'
         /\ SentRounds' = SentRounds /\ Copies' = Copies /\ Coordinator' = Coordinator /\ Runner' = Runner
         /\ CannotRun' <=> CannotRun
<1>1. /\ Runner' = Runner /\ Coordinator' = Coordinator /\ Copies' = Copies
      /\ CannotRun' <=> CannotRun
  BY ConfigKept
<1>2. SentRounds' = SentRounds
  BY <1>1 DEF SentRounds
<1>3. CoordInv'
  BY <1>1 DEF DispatchInv, CoordInv
<1>4. w \notin collected /\ outcome[w] # "success"
  BY DEF DispatchInv, RootInv, WorkersInv
<1>5. root = "collect" /\ exit = "running"
  BY <1>4 DEF DispatchInv, RootInv
<1>6. RootInv'
  BY <1>4, <1>5 DEF DispatchInv, RootInv, rootVars, JobTypeOK
<1>7. QED  BY <1>1, <1>2, <1>3, <1>6

\* A worker that only changes its place, and may put its outcome.
LEMMA StartInv ==
  ASSUME DispatchInv, NEW w \in Worker, Start(w) \/ ReplyTimesOut(w) \/ FinishRun(w)
  PROVE  DispatchInv'
<1> USE DEF DispatchInv
<1>1. /\ place[w] # "out" /\ place'[w] \in {"round", "out"}
      /\ UNCHANGED <<cfg, entered, model, up, down, coord, rootVars>>
      /\ (place[w] = "round" /\ Rounds(w) = R) \/ outcome'[w] # "success"
      /\ place'[w] = "out" <=> outcome'[w] # "none"
      /\ place'[w] = "round" => ~CannotRun /\ place[w] = "go"
      /\ place' \in [Worker -> {"go", "round", "collective", "reply", "out"}]
      /\ outcome' \in [Worker -> {"none", "success", "error"}]
      /\ \A v \in Worker : v # w => place'[v] = place[v] /\ outcome'[v] = outcome[v]
  <2>1. outcome[w] = "none" \/ place[w] = "out"
    BY DEF WorkersInv, JobTypeOK
  <2>2. QED
    BY <2>1 DEF Start, ReplyTimesOut, FinishRun, PutOutcome, JobTypeOK
<1>2. /\ CoordInv' /\ RootInv' /\ SentRounds' = SentRounds /\ Copies' = Copies /\ Runner' = Runner
      /\ CannotRun' <=> CannotRun
  BY <1>1, WorkerMoves
<1>3. JobTypeOK'
  BY <1>1 DEF JobTypeOK, rootVars
<1>4. \A v \in Worker : Rounds(v)' = Rounds(v)
  BY <1>1 DEF Rounds
<1>5. WorkersInv'
  BY <1>1, <1>2, <1>4 DEF WorkersInv
<1>6. ModelInv'
  BY <1>1, <1>2, <1>4 DEF ModelInv
<1>7. MessageInv'
  BY <1>1, <1>4, RoundsType DEF MessageInv
<1>8. ReplyInv'
  <2>1. Behind' = Behind
    BY <1>4, BehindKept
  <2>2. QED  BY <1>1, <1>2, <2>1 DEF ReplyInv
<1>9. QED
  BY <1>2, <1>3, <1>5, <1>6, <1>7, <1>8

\* A round of a worker that asks nobody, or the end of one that asks only the other workers.
LEMMA GoesOnAlone ==
  ASSUME DispatchInv, NEW w \in Worker, Rounds(w) < R, ~CannotRun, Runner \notin WithRoot,
         place[w] # "out", place' \in [Worker -> {"go", "round", "collective", "reply", "out"}],
         place'[w] = "round", \A v \in Worker : v # w => place'[v] = place[v],
         NEW m \in [weights : Origin, intercept : Origin], m.weights.at = Rounds(w) + 1,
         model' = [model EXCEPT ![w] = m], entered[w] <= Rounds(w) + 1,
         Runner = "fedavg" => m.weights.by = "average" /\ m.intercept = m.weights,
         UNCHANGED <<cfg, entered, outcome, up, down, coord, rootVars>>
  PROVE  DispatchInv'
<1> USE DEF DispatchInv
<1>1. /\ CoordInv' /\ RootInv' /\ SentRounds' = SentRounds /\ Copies' = Copies /\ Runner' = Runner
      /\ CannotRun' <=> CannotRun
  BY WorkerMoves
<1>2. /\ model' \in [Worker -> [weights : Origin, intercept : Origin]]
      /\ Rounds(w)' = Rounds(w) + 1 /\ model'[w] = m
      /\ \A v \in Worker : v # w => model'[v] = model[v] /\ Rounds(v)' = Rounds(v)
  BY DEF JobTypeOK, Rounds
<1>3. JobTypeOK'
  BY <1>2 DEF JobTypeOK, rootVars
<1>4. WorkersInv'
  BY <1>1, <1>2, RoundsType, DispatchAssumption DEF WorkersInv
<1>5. ModelInv'
  <2>1. Runner \notin {"hybrid", "queue"}
    BY DEF WithRoot
  <2>2. QED  BY <1>1, <1>2, <2>1 DEF ModelInv
<1>6. up = {} /\ down = {} /\ coord.has = {}
  BY DEF ReplyInv
<1>7. MessageInv'
  BY <1>6 DEF MessageInv
<1>8. ReplyInv'
  BY <1>1, <1>6 DEF ReplyInv
<1>9. QED
  BY <1>1, <1>3, <1>4, <1>5, <1>7, <1>8

\* A worker sends what it has to the coordinator, and waits.
LEMMA SendInv ==
  ASSUME DispatchInv, NEW w \in Worker, Rounds(w) < R, ~CannotRun, Runner \in WithRoot,
         place[w] \in {"round", "collective"}, Send(w), place' = [place EXCEPT ![w] = "reply"],
         UNCHANGED <<cfg, entered, model, outcome, down, coord, rootVars>>
  PROVE  DispatchInv'
<1> USE DEF DispatchInv
<1> DEFINE m == [rank |-> w, round |-> Rounds(w)]
<1>1. /\ place'[w] = "reply" /\ \A v \in Worker : v # w => place'[v] = place[v]
      /\ place' \in [Worker -> {"go", "round", "collective", "reply", "out"}]
  BY DEF JobTypeOK
<1>2. /\ CoordInv' /\ RootInv' /\ SentRounds' = SentRounds /\ Copies' = Copies /\ Runner' = Runner
      /\ CannotRun' <=> CannotRun
  BY <1>1, WorkerMoves
<1>3. up' = up \cup {m} /\ m \in Message /\ m \notin coord.has
  BY RoundsType, DispatchAssumption DEF Send, Message, MessageInv
<1>4. JobTypeOK'
  BY <1>1, <1>3 DEF JobTypeOK, rootVars
<1>5. \A v \in Worker : Rounds(v)' = Rounds(v)
  BY DEF Rounds
<1>6. WorkersInv'
  BY <1>1, <1>2, <1>5, RoundsType DEF WorkersInv
<1>7. ModelInv'
  BY <1>2, <1>5 DEF ModelInv
<1>8. MessageInv'
  BY <1>1, <1>3, <1>5, RoundsType DEF MessageInv
<1>9. ReplyInv'
  <2>1. Behind' = Behind
    BY <1>5, BehindKept
  <2>2. QED  BY <1>2, <2>1 DEF ReplyInv
<1>10. QED
  BY <1>2, <1>4, <1>6, <1>7, <1>8, <1>9

LEMMA RoundInv ==
  ASSUME DispatchInv, NEW w \in Worker, Round(w)
  PROVE  DispatchInv'
<1> USE DEF DispatchInv, Round
<1>1. place[w] = "round" /\ Rounds(w) < R /\ ~CannotRun /\ Rounds(w) \in Nat
  BY RoundsType DEF WorkersInv
<1>11. entered[w] \in Nat /\ entered[w] <= Rounds(w)
  <2>1. entered[w] \in Nat
    BY RoundsType
  <2>2. QED  BY <1>1, <2>1 DEF WorkersInv
<1>2. CASE Runner \in Alone
  <2> DEFINE m == [weights |-> Source("worker", Rounds(w) + 1),
                   intercept |-> Source("worker", Rounds(w) + 1)]
  <2>1. /\ model' = [model EXCEPT ![w] = m]
        /\ UNCHANGED <<cfg, place, entered, outcome, up, down, coord, rootVars>>
    BY <1>2 DEF Alone, Collective
  <2>2. m \in [weights : Origin, intercept : Origin] /\ m.weights.at = Rounds(w) + 1
    BY <1>1 DEF Source, Origin
  <2>3. Runner \notin WithRoot /\ Runner # "fedavg"
    BY <1>2 DEF Alone, WithRoot
  <2>4. entered[w] <= Rounds(w) + 1
    BY <1>1, <1>11
  <2>5. place' \in [Worker -> {"go", "round", "collective", "reply", "out"}]
    BY <2>1 DEF JobTypeOK
  <2> HIDE DEF m, Round, DispatchInv
  <2>6. QED  BY <1>1, <2>1, <2>2, <2>3, <2>4, <2>5, GoesOnAlone
<1>3. CASE Runner \in Collective
  <2>1. /\ entered' = [entered EXCEPT ![w] = @ + 1] /\ place' = [place EXCEPT ![w] = "collective"]
        /\ UNCHANGED <<cfg, model, outcome, up, down, coord, rootVars>>
    BY <1>3 DEF Collective, Alone
  <2>2. /\ place'[w] = "collective" /\ \A v \in Worker : v # w => place'[v] = place[v]
        /\ place' \in [Worker -> {"go", "round", "collective", "reply", "out"}]
    BY <2>1 DEF JobTypeOK
  <2>3. /\ CoordInv' /\ RootInv' /\ SentRounds' = SentRounds /\ Copies' = Copies /\ Runner' = Runner
        /\ CannotRun' <=> CannotRun
    BY <1>1, <2>1, <2>2, WorkerMoves
  <2>4. \A v \in Worker : Rounds(v)' = Rounds(v)
    BY <2>1 DEF Rounds
  <2>5. /\ entered' \in [Worker -> 0..R] /\ entered'[w] = entered[w] + 1
        /\ \A v \in Worker : v # w => entered'[v] = entered[v]
    <3>1. entered[w] + 1 \in 0..R
      BY <1>1, <1>11, DispatchAssumption
    <3>2. QED  BY <2>1, <3>1 DEF JobTypeOK
  <2>6. JobTypeOK'
    BY <2>1, <2>2, <2>5 DEF JobTypeOK, rootVars
  <2>7. WorkersInv'
    BY <1>1, <1>11, <1>3, <2>1, <2>2, <2>3, <2>4, <2>5, RoundsType DEF WorkersInv
  <2>8. ModelInv'
    BY <2>1, <2>3, <2>4 DEF ModelInv
  <2>9. MessageInv'
    BY <1>1, <2>1, <2>2, <2>4, RoundsType DEF MessageInv
  <2>10. ReplyInv'
    <3>1. Behind' = Behind
      BY <2>4, BehindKept
    <3>2. QED  BY <2>1, <2>3, <3>1 DEF ReplyInv
  <2>11. QED
    BY <2>3, <2>6, <2>7, <2>8, <2>9, <2>10
<1>4. CASE Runner \notin Alone \cup Collective
  <2>1. Runner \in WithRoot
    BY <1>1, <1>4, Sides DEF Alone, Collective, WithRoot, CannotRun, JobTypeOK
  <2>2. /\ Send(w) /\ place' = [place EXCEPT ![w] = "reply"]
        /\ UNCHANGED <<cfg, entered, model, outcome, down, coord, rootVars>>
    BY <1>4
  <2> HIDE DEF Round, DispatchInv
  <2>3. QED  BY <1>1, <2>1, <2>2, SendInv
<1>5. QED  BY <1>2, <1>3, <1>4

LEMMA LeaveInv ==
  ASSUME DispatchInv, NEW w \in Worker, LeaveCollective(w)
  PROVE  DispatchInv'
<1> USE DEF DispatchInv
<1>1. /\ place[w] = "collective" /\ Runner \in Collective /\ ~CannotRun
      /\ Rounds(w) \in Nat /\ Rounds(w) < R /\ entered[w] \in Nat
  BY RoundsType DEF LeaveCollective, WorkersInv
<1>2. CASE Runner = "hybrid"
  <2>1. /\ Send(w) /\ place' = [place EXCEPT ![w] = "reply"]
        /\ UNCHANGED <<cfg, entered, model, outcome, down, coord, rootVars>>
    BY <1>2 DEF LeaveCollective
  <2>2. Runner \in WithRoot
    BY <1>2 DEF WithRoot
  <2> HIDE DEF DispatchInv
  <2>3. QED  BY <1>1, <2>1, <2>2, SendInv
<1>3. CASE Runner # "hybrid"
  <2> DEFINE by == IF Runner = "gossip" THEN "ring" ELSE "average"
  <2> DEFINE m == [weights |-> Source(by, Rounds(w) + 1), intercept |-> Source(by, Rounds(w) + 1)]
  <2>1. /\ model' = [model EXCEPT ![w] = m] /\ place' = [place EXCEPT ![w] = "round"]
        /\ UNCHANGED <<cfg, entered, outcome, up, down, coord, rootVars>>
    BY <1>3 DEF LeaveCollective
  <2>2. m \in [weights : Origin, intercept : Origin] /\ m.weights.at = Rounds(w) + 1
    BY <1>1 DEF Source, Origin
  <2>3. Runner \notin WithRoot
    BY <1>1, <1>3 DEF Collective, WithRoot
  <2>4. Runner = "fedavg" => m.weights.by = "average" /\ m.intercept = m.weights
    BY DEF Source
  <2>5. entered[w] <= Rounds(w) + 1
    BY <1>1 DEF WorkersInv
  <2>6. /\ place' \in [Worker -> {"go", "round", "collective", "reply", "out"}]
        /\ place'[w] = "round" /\ \A v \in Worker : v # w => place'[v] = place[v]
    BY <2>1 DEF JobTypeOK
  <2> HIDE DEF m, DispatchInv
  <2>7. QED  BY <1>1, <2>1, <2>2, <2>3, <2>4, <2>5, <2>6, GoesOnAlone
<1>4. QED  BY <1>2, <1>3

\* Whoever takes a reply, there is one less in the channel and one round more behind.
LEMMA TakeReplyInv ==
  ASSUME DispatchInv, NEW w \in Worker, TakeReply(w)
  PROVE  DispatchInv'
<1> USE DEF DispatchInv
<1> DEFINE got(m) == [weights |-> Source(IF Runner = "hybrid" THEN "average" ELSE m.model.by, Rounds(w) + 1),
                      intercept |-> m.model]
<1>1. /\ place[w] = "reply" /\ Runner \in WithRoot /\ ~CannotRun
      /\ Rounds(w) \in Nat /\ Rounds(w) < R /\ entered[w] \in Nat
  BY RoundsType DEF TakeReply, WorkersInv
<1>2. PICK m \in down : down' = down \ {m} /\ model' = [model EXCEPT ![w] = got(m)]
  BY DEF TakeReply
<1>3. /\ place' = [place EXCEPT ![w] = "round"]
      /\ UNCHANGED <<cfg, entered, outcome, up, coord, rootVars>>
  BY DEF TakeReply
<1>4. /\ place' \in [Worker -> {"go", "round", "collective", "reply", "out"}]
      /\ place'[w] = "round" /\ \A v \in Worker : v # w => place'[v] = place[v]
  BY <1>3 DEF JobTypeOK
<1>5. /\ CoordInv' /\ RootInv' /\ SentRounds' = SentRounds /\ Copies' = Copies /\ Runner' = Runner
      /\ CannotRun' <=> CannotRun
  BY <1>1, <1>3, <1>4, WorkerMoves
<1>6. /\ got(m) \in [weights : Origin, intercept : Origin]
      /\ got(m).weights.at = Rounds(w) + 1
  <2>1. m.model \in Origin
    BY DEF JobTypeOK, Reply
  <2>2. QED  BY <1>1, <2>1 DEF Source, Origin
<1>7. Runner \in {"hybrid", "queue"} => got(m).weights.by = "average"
  BY DEF Source, ModelInv
<1> HIDE DEF got
<1>8. /\ model' \in [Worker -> [weights : Origin, intercept : Origin]]
      /\ Rounds(w)' = Rounds(w) + 1 /\ model'[w] = got(m)
      /\ \A v \in Worker : v # w => model'[v] = model[v] /\ Rounds(v)' = Rounds(v)
  BY <1>2, <1>6 DEF JobTypeOK, Rounds
<1>9. JobTypeOK'
  BY <1>2, <1>3, <1>4, <1>8 DEF JobTypeOK, rootVars
<1>10. WorkersInv'
  BY <1>1, <1>3, <1>4, <1>5, <1>8, DispatchAssumption DEF WorkersInv
<1>11. ModelInv'
  <2>1. Runner # "fedavg"
    BY <1>1 DEF WithRoot
  <2>2. QED  BY <1>2, <1>5, <1>7, <1>8, <2>1 DEF ModelInv
<1>12. MessageInv'
  BY <1>1, <1>3, <1>4, <1>8, RoundsType DEF MessageInv
<1>13. ReplyInv'
  <2>1. Cardinality(Behind') = Cardinality(Behind) + 1 /\ Cardinality(Behind) \in Nat
    BY <1>1, <1>8, <1>9, BehindGrows, SubsetsOfMessages DEF Behind
  <2>2. /\ IsFiniteSet(down') /\ Cardinality(down') = Cardinality(down) - 1
        /\ Cardinality(down) \in Nat
    BY <1>2, FS_RemoveElement, FS_CardinalityType DEF ReplyInv
  <2>3. Cardinality(down') + Cardinality(Behind') = Copies * SentRounds
    BY <1>1, <2>1, <2>2 DEF ReplyInv
  <2>4. QED  BY <1>1, <1>2, <1>5, <2>2, <2>3 DEF ReplyInv
<1>14. QED
  BY <1>5, <1>9, <1>10, <1>11, <1>12, <1>13

----------------------------------------------------------------------------
(* Steps of the coordinator and of the root *)

\* The workers and what is sent are left alone.
LEMMA RootMoves ==
  ASSUME DispatchInv, UNCHANGED <<cfg, workerVars, up, down, coord>>
  PROVE  /\ WorkersInv' /\ ModelInv' /\ MessageInv' /\ ReplyInv' /\ CoordInv'
         /\ \A w \in Worker : place'[w] = place[w] /\ outcome'[w] = outcome[w]
<1> USE DEF DispatchInv, workerVars
<1>1. /\ Runner' = Runner /\ Coordinator' = Coordinator /\ Copies' = Copies
      /\ CannotRun' <=> CannotRun
  BY ConfigKept
<1>2. \A w \in Worker : Rounds(w)' = Rounds(w)
  BY DEF Rounds
<1>3. Behind' = Behind /\ SentRounds' = SentRounds
  BY <1>1, <1>2, BehindKept DEF SentRounds
<1>4. WorkersInv' /\ ModelInv' /\ MessageInv' /\ CoordInv'
  <2>1. WorkersInv'
    BY <1>1, <1>2 DEF WorkersInv
  <2>2. ModelInv'
    BY <1>1, <1>2 DEF ModelInv
  <2>3. MessageInv'
    BY <1>2, RoundsType DEF MessageInv
  <2>4. CoordInv'
    BY <1>1 DEF CoordInv
  <2>5. QED  BY <2>1, <2>2, <2>3, <2>4
<1>5. ReplyInv'
  BY <1>1, <1>3 DEF ReplyInv
<1>6. QED  BY <1>4, <1>5

LEMMA CollectInv ==
  ASSUME DispatchInv, NEW w \in Worker, Collect(w)
  PROVE  DispatchInv'
<1> USE DEF DispatchInv, Collect
<1>1. WorkersInv' /\ ModelInv' /\ MessageInv' /\ ReplyInv' /\ CoordInv'
  BY RootMoves
<1>2. JobTypeOK'
  BY DEF JobTypeOK, workerVars
<1>3. RootInv'
  BY DEF RootInv, workerVars
<1>4. QED  BY <1>1, <1>2, <1>3

LEMMA CollectedInv ==
  ASSUME DispatchInv, Collected
  PROVE  DispatchInv'
<1> USE DEF DispatchInv, Collected
<1>1. WorkersInv' /\ ModelInv' /\ MessageInv' /\ ReplyInv' /\ CoordInv'
  BY RootMoves
<1>2. JobTypeOK'
  BY DEF JobTypeOK, workerVars
<1>3. \A w \in Worker : outcome[w] \in {"success", "error"}
  BY DEF RootInv, WorkersInv, JobTypeOK
<1>4. exit = "running"
  BY DEF RootInv
<1>5. RootInv'
  BY <1>3, <1>4 DEF RootInv, workerVars
<1>6. QED  BY <1>1, <1>2, <1>5

LEMMA JoinInv ==
  ASSUME DispatchInv, Join
  PROVE  DispatchInv'
<1> USE DEF DispatchInv, Join
<1>1. WorkersInv' /\ ModelInv' /\ MessageInv' /\ ReplyInv' /\ CoordInv'
  BY RootMoves
<1>2. JobTypeOK'
  BY DEF JobTypeOK, workerVars
<1>3. RootInv'
  BY DEF RootInv, workerVars
<1>4. QED  BY <1>1, <1>2, <1>3

LEMMA ReportKept ==
  ASSUME UNCHANGED <<cfg, model, joined>>
  PROVE  aggregate_logreg_results' = aggregate_logreg_results
<1>1. Coordinator' = Coordinator /\ RootMode' = RootMode
  BY ConfigKept
<1>2. allreduce_result' = allreduce_result
  BY <1>1 DEF allreduce_result
<1>3. QED  BY <1>1, <1>2 DEF aggregate_logreg_results, Labelled, PostHoc

LEMMA AggregateInv ==
  ASSUME DispatchInv, Aggregate
  PROVE  DispatchInv'
<1> USE DEF DispatchInv
<1>1. /\ UNCHANGED <<cfg, workerVars, up, down, coord, collected, joined>>
      /\ root = "aggregate"
      /\ \/ root' = "gossip" /\ exit' = exit
         \/ root' = "end" /\ exit' = "raised"
         \/ /\ root' = "end" /\ exit' = "complete"
            /\ cfg.app = "kmeans" => HasCentres
            /\ cfg.app = "logreg" => report' = aggregate_logreg_results
  BY DEF Aggregate
<1>2. WorkersInv' /\ ModelInv' /\ MessageInv' /\ ReplyInv' /\ CoordInv'
  BY <1>1, RootMoves
<1>3. JobTypeOK'
  BY <1>1 DEF JobTypeOK, workerVars
<1>4. aggregate_logreg_results' = aggregate_logreg_results /\ (HasCentres' <=> HasCentres)
  BY <1>1, ReportKept, ConfigKept DEF workerVars
<1>5. exit = "running"
  BY <1>1 DEF RootInv
<1>6. RootInv'
  BY <1>1, <1>4, <1>5 DEF RootInv, workerVars
<1>7. QED  BY <1>2, <1>3, <1>6

LEMMA StoreInv ==
  ASSUME DispatchInv, Store
  PROVE  DispatchInv'
<1> USE DEF DispatchInv
<1>1. /\ UNCHANGED <<cfg, workerVars, up, down, rootVars>>
      /\ coord.state = "serving" /\ coord'.state = "stored" /\ coord'.has = coord.has
      /\ coord' \in [state : {"none", "serving", "stored"}, has : SUBSET Message]
      /\ Cardinality(coord.has) = NumWorkers * R
  BY DEF Store, JobTypeOK
<1>2. /\ Runner' = Runner /\ Coordinator' = Coordinator /\ Copies' = Copies
      /\ CannotRun' <=> CannotRun
  BY <1>1, ConfigKept
<1>3. JobTypeOK'
  BY <1>1 DEF JobTypeOK, workerVars, rootVars
<1>4. \A w \in Worker : Rounds(w)' = Rounds(w)
  BY <1>1 DEF Rounds, workerVars
<1>5. Behind' = Behind /\ SentRounds' = SentRounds
  BY <1>1, <1>2, <1>4, BehindKept DEF SentRounds
<1>6. WorkersInv' /\ ModelInv' /\ MessageInv' /\ CoordInv'
  <2>1. WorkersInv'
    BY <1>1, <1>2, <1>4 DEF WorkersInv, workerVars
  <2>2. ModelInv'
    BY <1>1, <1>2, <1>4 DEF ModelInv, workerVars
  <2>3. MessageInv'
    BY <1>1, <1>4, RoundsType DEF MessageInv, workerVars
  <2>4. CoordInv'
    BY <1>1, <1>2 DEF CoordInv
  <2>5. QED  BY <2>1, <2>2, <2>3, <2>4
<1>7. ReplyInv'
  BY <1>1, <1>2, <1>5 DEF ReplyInv
<1>8. RootInv'
  <2>1. aggregate_logreg_results' = aggregate_logreg_results /\ (HasCentres' <=> HasCentres)
    BY <1>1, ReportKept, ConfigKept DEF workerVars, rootVars
  <2>2. QED  BY <1>1, <2>1 DEF RootInv, workerVars, rootVars
<1>9. QED  BY <1>3, <1>6, <1>7, <1>8

\* What the coordinator sends of a round or a version.
CopiesOf(from, S) == {[rank |-> w, model |-> from] : w \in S}

\* Copies of a new round are not in the channel yet.
LEMMA ClosesRound ==
  ASSUME IsFiniteSet(down), NEW n \in Nat, \A m \in down : m.model.at <= n,
         NEW from \in Origin, from.at = n + 1, NEW S \in SUBSET Worker
  PROVE  /\ IsFiniteSet(down \cup CopiesOf(from, S))
         /\ \A m \in CopiesOf(from, S) : m \in Reply /\ m.model = from
         /\ Cardinality(down \cup CopiesOf(from, S)) = Cardinality(down) + Cardinality(S)
<1> DEFINE copies == CopiesOf(from, S)
<1> USE DEF CopiesOf
<1> DEFINE f == [w \in S |-> [rank |-> w, model |-> from]]
<1>1. IsFiniteSet(S)
  <2>1. IsFiniteSet(Worker)
    BY FS_Interval, DispatchAssumption DEF Worker
  <2>2. QED  BY <2>1, FS_Subset
<1>2. f \in Bijection(S, copies)
  <2>1. f \in [S -> copies]
    OBVIOUS
  <2>2. \A v, w \in S : f[v] = f[w] => v = w
    OBVIOUS
  <2>3. \A m \in copies : \E w \in S : f[w] = m
    OBVIOUS
  <2>4. QED  BY <2>1, <2>2, <2>3 DEF Bijection, Injection, Surjection, IsInjective
<1>3. IsFiniteSet(copies) /\ Cardinality(copies) = Cardinality(S)
  BY <1>1, <1>2, FS_Bijection DEF ExistsBijection
<1>4. \A m \in copies : m \in Reply /\ m.model = from
  BY DEF Reply
<1>5. down \cap copies = {}
  BY <1>4
<1> HIDE DEF copies
<1>6. Cardinality(down \cap copies) = 0
  BY <1>5, FS_EmptySet
<1>7. Cardinality(down) \in Nat /\ Cardinality(copies) \in Nat
  BY <1>3, FS_CardinalityType
<1>8. /\ IsFiniteSet(down \cup copies)
      /\ Cardinality(down \cup copies)
           = Cardinality(down) + Cardinality(copies) - Cardinality(down \cap copies)
  BY <1>3, FS_Union
<1>9. Cardinality(down \cup copies) = Cardinality(down) + Cardinality(S)
  BY <1>3, <1>6, <1>7, <1>8
<1>10. QED  BY <1>4, <1>8, <1>9 DEF copies

LEMMA ReceiveInv ==
  ASSUME DispatchInv, Receive
  PROVE  DispatchInv'
<1> USE DEF DispatchInv
<1> DEFINE c == Cardinality(coord.has)
<1>1. PICK m \in up :
        LET has == coord.has \cup {m}
            round == (Cardinality(has) - 1) \div NumWorkers
            full == Cardinality(has) % NumWorkers = 0 IN
        /\ up' = up \ {m}
        /\ down' =
             CASE Coordinator = "async" ->
                    down \cup {[rank |-> m.rank, model |-> Source("server", Cardinality(has))]}
               [] Coordinator # "async" /\ full ->
                    down \cup {[rank |-> w, model |-> Source("average", round + 1)] : w \in Worker}
               [] OTHER -> down
        /\ coord' = [coord EXCEPT !.has = has]
  BY DEF Receive
<1>2. coord.state = "serving" /\ UNCHANGED <<cfg, workerVars, rootVars>>
  BY DEF Receive
<1>3. m \in Message /\ m \notin coord.has /\ m.rank \in Worker
  BY RoundsType DEF JobTypeOK, MessageInv
<1>4. /\ coord'.state = coord.state /\ coord'.has = coord.has \cup {m}
      /\ coord' \in [state : {"none", "serving", "stored"}, has : SUBSET Message]
  BY <1>1, <1>3 DEF JobTypeOK
<1>5. c \in Nat /\ Cardinality(coord'.has) = c + 1
  BY <1>3, <1>4, SubsetsOfMessages DEF JobTypeOK
<1>6. /\ Runner' = Runner /\ Coordinator' = Coordinator /\ Copies' = Copies
      /\ CannotRun' <=> CannotRun
  BY <1>2, ConfigKept
<1>7. Runner \in WithRoot /\ ~CannotRun
  BY DEF ReplyInv
<1>8. \A w \in Worker : Rounds(w)' = Rounds(w)
  BY <1>2 DEF Rounds, workerVars
<1>9. Behind' = Behind /\ Cardinality(Behind) \in Nat
  BY <1>8, BehindKept, SubsetsOfMessages DEF Behind
<1>10. IsFiniteSet(down) /\ Cardinality(down) \in Nat
  BY FS_CardinalityType DEF ReplyInv
<1>11. /\ SentRounds \in Nat /\ IsFiniteSet(down') /\ down' \subseteq Reply
       /\ \A r \in down' : r.model.at <= SentRounds'
       /\ Cardinality(down') + Cardinality(Behind) = Copies * SentRounds'
       /\ Coordinator = "rounds" => \A r \in down' \ down : r.model.by = "average"
  <2>1. CASE Coordinator = "async"
    <3> DEFINE from == Source("server", c + 1)
    <3>1. SentRounds = c /\ SentRounds' = c + 1 /\ Copies = 1
      BY <1>5, <1>6, <2>1 DEF SentRounds, Copies
    <3>2. from \in Origin /\ from.at = c + 1
      BY <1>5 DEF Source, Origin
    <3>3. {m.rank} \in SUBSET Worker /\ Cardinality({m.rank}) = 1
      BY <1>3, FS_Singleton
    <3>4. down' = down \cup CopiesOf(from, {m.rank})
      BY <1>1, <1>4, <1>5, <2>1 DEF CopiesOf
    <3> HIDE DEF from
    <3>6. \A r \in down : r.model.at \in Nat /\ r.model.at <= c
      BY <3>1 DEF ReplyInv, JobTypeOK, Reply, Origin
    <3>5. /\ IsFiniteSet(down') /\ Cardinality(down') = Cardinality(down) + 1
          /\ \A r \in down' : r \in down \/ (r \in Reply /\ r.model = from)
      <4> HIDE DEF DispatchInv, c
      <4>1. \A r \in down : r.model.at <= c
        BY <3>6
      <4>2. /\ IsFiniteSet(down \cup CopiesOf(from, {m.rank}))
            /\ \A r \in CopiesOf(from, {m.rank}) : r \in Reply /\ r.model = from
            /\ Cardinality(down \cup CopiesOf(from, {m.rank}))
                 = Cardinality(down) + Cardinality({m.rank})
        BY <1>5, <1>10, <3>2, <3>3, <4>1, ClosesRound
      <4>3. QED  BY <3>3, <3>4, <4>2
    <3>7. Cardinality(down) + Cardinality(Behind) = c
      BY <1>5, <1>7, <3>1 DEF ReplyInv
    <3>8. Cardinality(down') + Cardinality(Behind) = Copies * SentRounds'
      BY <1>5, <1>9, <1>10, <3>1, <3>5, <3>7
    <3>9. down' \subseteq Reply
      BY <3>5 DEF JobTypeOK
    <3>10. QED
      BY <1>5, <2>1, <3>1, <3>2, <3>5, <3>6, <3>8, <3>9
  <2>2. CASE Coordinator # "async" /\ (c + 1) % NumWorkers = 0
    <3> DEFINE n == c \div NumWorkers
    <3> DEFINE from == Source("average", n + 1)
    <3>1. n \in Nat /\ (c + 1) \div NumWorkers = n + 1
      BY <1>5, <2>2, NextMultiple, DispatchAssumption
    <3>2. SentRounds = n /\ SentRounds' = n + 1 /\ Copies = NumWorkers
      BY <1>5, <1>6, <2>2, <3>1 DEF SentRounds, Copies
    <3>3. from \in Origin /\ from.at = n + 1 /\ from.by = "average"
      BY <3>1 DEF Source, Origin
    <3>4. Worker \in SUBSET Worker /\ Cardinality(Worker) = NumWorkers
      BY FS_Interval, DispatchAssumption DEF Worker
    <3>5. down' = down \cup CopiesOf(from, Worker)
      <4>1. (c + 1) - 1 = c
        BY <1>5
      <4>2. QED  BY <1>1, <1>4, <1>5, <2>2, <4>1 DEF CopiesOf
    <3> HIDE DEF from, n
    <3>7. \A r \in down : r.model.at \in Nat /\ r.model.at <= n
      BY <3>2 DEF ReplyInv, JobTypeOK, Reply, Origin
    <3>6. /\ IsFiniteSet(down') /\ Cardinality(down') = Cardinality(down) + NumWorkers
          /\ \A r \in down' : r \in down \/ (r \in Reply /\ r.model = from)
      <4> HIDE DEF DispatchInv, c
      <4>1. \A r \in down : r.model.at <= n
        BY <3>7
      <4>2. /\ IsFiniteSet(down \cup CopiesOf(from, Worker))
            /\ \A r \in CopiesOf(from, Worker) : r \in Reply /\ r.model = from
            /\ Cardinality(down \cup CopiesOf(from, Worker))
                 = Cardinality(down) + Cardinality(Worker)
        BY <1>10, <3>1, <3>3, <3>4, <4>1, ClosesRound
      <4>3. QED  BY <3>4, <3>5, <4>2
    <3>8. Cardinality(down) + Cardinality(Behind) = NumWorkers * n
      BY <1>7, <3>2 DEF ReplyInv
    <3>9. Cardinality(down') + Cardinality(Behind) = Copies * SentRounds'
      BY <1>9, <1>10, <3>1, <3>2, <3>6, <3>8, DispatchAssumption
    <3>10. down' \subseteq Reply
      BY <3>6 DEF JobTypeOK
    <3>11. QED
      BY <3>1, <3>2, <3>3, <3>6, <3>7, <3>9, <3>10
  <2>3. CASE Coordinator # "async" /\ (c + 1) % NumWorkers # 0
    <3>1. c \div NumWorkers \in Nat /\ (c + 1) \div NumWorkers = c \div NumWorkers
      BY <1>5, <2>3, NextMultiple, DispatchAssumption
    <3>2. SentRounds \in Nat /\ SentRounds' = SentRounds
      BY <1>5, <1>6, <2>3, <3>1 DEF SentRounds
    <3>3. down' = down
      BY <1>1, <1>4, <1>5, <2>3
    <3>4. QED
      BY <1>7, <1>10, <3>2, <3>3 DEF ReplyInv, JobTypeOK
  <2>4. QED  BY <2>1, <2>2, <2>3
<1>12. JobTypeOK'
  BY <1>1, <1>2, <1>4, <1>11 DEF JobTypeOK, workerVars, rootVars
<1>13. WorkersInv'
  BY <1>2, <1>6, <1>8 DEF WorkersInv, workerVars
<1>14. ModelInv'
  <2>1. Runner = "queue" => Coordinator = "rounds"
    BY <1>7, Sides DEF JobTypeOK
  <2>2. QED  BY <1>2, <1>6, <1>8, <1>11, <2>1 DEF ModelInv, workerVars
<1>15. MessageInv'
  <2>1. up' \cap coord'.has = {} /\ up' \cup coord'.has = up \cup coord.has
    BY <1>1, <1>4 DEF MessageInv
  <2>2. QED  BY <1>2, <1>8, <2>1, RoundsType DEF MessageInv, workerVars
<1>16. ReplyInv'
  BY <1>6, <1>7, <1>9, <1>11 DEF ReplyInv
<1>17. CoordInv'
  BY <1>2, <1>4, <1>6 DEF CoordInv
<1>18. RootInv'
  <2>1. aggregate_logreg_results' = aggregate_logreg_results /\ (HasCentres' <=> HasCentres)
    BY <1>2, ReportKept, ConfigKept DEF workerVars, rootVars
  <2>2. QED  BY <1>2, <1>4, <2>1 DEF RootInv, workerVars, rootVars
<1>19. QED
  BY <1>12, <1>13, <1>14, <1>15, <1>16, <1>17, <1>18

LEMMA NextDispatchInv == DispatchInv /\ [DispatchNext]_dispatchVars => DispatchInv'
<1> SUFFICES ASSUME DispatchInv, [DispatchNext]_dispatchVars PROVE DispatchInv'
  OBVIOUS
<1>1. ASSUME NEW w \in Worker, WorkerStep(w) PROVE DispatchInv'
  <2>1. CASE Start(w) \/ ReplyTimesOut(w) \/ FinishRun(w)
    BY <2>1, StartInv
  <2>2. CASE Round(w)
    BY <2>2, RoundInv
  <2>3. CASE LeaveCollective(w)
    BY <2>3, LeaveInv
  <2>4. CASE TakeReply(w)
    BY <2>4, TakeReplyInv
  <2>5. QED  BY <1>1, <2>1, <2>2, <2>3, <2>4 DEF WorkerStep
<1>2. CASE Receive
  BY <1>2, ReceiveInv
<1>3. CASE Store
  BY <1>3, StoreInv
<1>4. ASSUME NEW w \in Worker, Collect(w) PROVE DispatchInv'
  BY <1>4, CollectInv
<1>5. CASE Collected
  BY <1>5, CollectedInv
<1>6. CASE Join
  BY <1>6, JoinInv
<1>7. CASE Aggregate
  BY <1>7, AggregateInv
<1>8. CASE UNCHANGED dispatchVars
  <2>1. UNCHANGED <<cfg, workerVars, up, down, coord, rootVars>>
    BY <1>8 DEF dispatchVars
  <2>2. WorkersInv' /\ ModelInv' /\ MessageInv' /\ ReplyInv' /\ CoordInv'
    BY <2>1, RootMoves
  <2>3. JobTypeOK'
    BY <2>1 DEF DispatchInv, JobTypeOK, workerVars, rootVars
  <2>4. aggregate_logreg_results' = aggregate_logreg_results /\ (HasCentres' <=> HasCentres)
    BY <2>1, ReportKept, ConfigKept DEF workerVars, rootVars
  <2>5. RootInv'
    BY <2>1, <2>4 DEF DispatchInv, RootInv, workerVars, rootVars
  <2>6. QED  BY <2>2, <2>3, <2>5 DEF DispatchInv
<1>9. CASE JobEnded
  BY <1>8, <1>9 DEF JobEnded
<1>10. QED
  BY <1>1, <1>2, <1>3, <1>4, <1>5, <1>6, <1>7, <1>8, <1>9
     DEF DispatchNext, CoordinatorStep, RootStep

LEMMA DispatchInvariant == DispatchSpec => []DispatchInv
<1>1. QED  BY InitDispatchInv, NextDispatchInv, PTL DEF DispatchSpec

----------------------------------------------------------------------------
(* What a job has run and reports *)

LEMMA TypeFollows == DispatchInv => TypeOK
<1> SUFFICES ASSUME DispatchInv PROVE TypeOK  OBVIOUS
<1>1. \A m \in up : m.rank \in Worker /\ m.round \in 0..(R - 1)
  BY DEF DispatchInv, JobTypeOK, Message
<1>2. \A m \in down : m.rank \in Worker
  BY DEF DispatchInv, JobTypeOK, Reply
<1>3. QED  BY <1>1, <1>2 DEF DispatchInv, JobTypeOK, TypeOK

\* A job that completes: every worker could run, and has.
LEMMA CompleteJob ==
  ASSUME DispatchInv, exit = "complete"
  PROVE  /\ ~CannotRun
         /\ \A w \in Worker : place[w] = "out" /\ Rounds(w) = R
         /\ cfg.app = "kmeans" => Runner # "allreduce"
         /\ cfg.app = "logreg" => report = aggregate_logreg_results
<1> USE DEF DispatchInv
<1>1. \A w \in Worker : outcome[w] = "success"
  BY DEF RootInv
<1>2. \A w \in Worker : place[w] = "out" /\ Rounds(w) = R /\ ~CannotRun
  BY <1>1 DEF WorkersInv
<1>3. 1 \in Worker
  BY DispatchAssumption DEF Worker
<1>4. QED  BY <1>2, <1>3 DEF RootInv, HasCentres

LEMMA ModeIsRun == DispatchInv => RunsItsMode
<1> SUFFICES ASSUME DispatchInv, exit = "complete", cfg.app # "wordcount"
             PROVE  Runner = AlgorithmOf[RootMode]
  BY DEF RunsItsMode
<1>1. ~CannotRun /\ (cfg.app = "kmeans" => Runner # "allreduce")
  BY CompleteJob
<1>2. cfg \in Config /\ cfg.app \in {"kmeans", "logreg"}
  BY DEF DispatchInv, JobTypeOK, Config
<1>3. /\ RootMode \in {"none", "ps_sync_fedavg_queue", "ps_sync_fedavg_mpi", "allreduce_mpi",
                       "ps_async", "hybrid_ps_allreduce", "gossip"}
      /\ WorkerMode = RootMode
  BY <1>2, ModeFacts DEF Aliases
<1> HIDE DEF DispatchInv
<1>4. CASE cfg.app = "kmeans"
  BY <1>1, <1>3, <1>4 DEF Runner, KMeansRunner, CannotRun, AlgorithmOf
<1>5. CASE cfg.app = "logreg"
  BY <1>1, <1>3, <1>5 DEF Runner, LogregRunner, CannotRun, AlgorithmOf
<1>6. QED  BY <1>2, <1>4, <1>5

\* A job that completes with all its messages received leaves nothing in the channels.
LEMMA ChannelsEmptied ==
  ASSUME DispatchInv, exit = "complete", Coordinator = "none" \/ joined
  PROVE  up = {} /\ down = {}
<1>1. ~CannotRun /\ \A w \in Worker : Rounds(w) = R
  BY CompleteJob
<1>2. cfg \in Config
  BY DEF DispatchInv, JobTypeOK
<1>3. CASE Coordinator = "none"
  <2>1. Runner \notin WithRoot
    BY <1>1, <1>2, <1>3, Sides DEF WithRoot
  <2>2. QED  BY <2>1 DEF DispatchInv, ReplyInv
<1>4. CASE joined
  <2>1. coord.state = "stored" /\ Cardinality(coord.has) = NumWorkers * R
    BY <1>4 DEF DispatchInv, RootInv, CoordInv
  <2>2. coord.has = Message
    BY <2>1, SubsetsOfMessages DEF DispatchInv, JobTypeOK
  <2>3. up = {}
    BY <2>2 DEF DispatchInv, JobTypeOK, MessageInv
  <2>4. Coordinator # "none"
    BY <2>1 DEF DispatchInv, CoordInv
  <2>5. Runner \in WithRoot
    BY <1>1, <1>2, <2>4, Sides DEF WithRoot
  <2>6. Cardinality(down) + Cardinality(Behind) = Copies * SentRounds /\ IsFiniteSet(down)
    BY <1>1, <2>5 DEF DispatchInv, ReplyInv
  <2>7. Behind = Message
    <3>1. \A m \in Message : m.round < R /\ m.rank \in Worker
      BY DispatchAssumption DEF Message
    <3>2. QED  BY <1>1, <3>1 DEF Behind
  <2>8. Copies * SentRounds = NumWorkers * R
    <3>1. (NumWorkers * R) \div NumWorkers = R
      BY DispatchAssumption
    <3>2. QED  BY <2>1, <3>1, DispatchAssumption DEF Copies, SentRounds
  <2>9. Cardinality(down) = 0
    BY <2>6, <2>7, <2>8, MessagesAre, FS_CardinalityType, DispatchAssumption
  <2>10. down = {}
    BY <2>6, <2>9, FS_EmptySet
  <2>11. QED  BY <2>3, <2>10
<1>5. QED  BY <1>3, <1>4

\* The coordinators leave what they made; the other modes leave what their workers have.
LEMMA ReportFollows == DispatchInv => ReportIsOfMode
<1> SUFFICES ASSUME DispatchInv, exit = "complete", cfg.app = "logreg",
                    Coordinator = "none" \/ joined
             PROVE  /\ up = {} /\ down = {}
                    /\ report.weights = report.intercept
                    /\ CASE RootMode \in {"none", "gossip"} ->
                              /\ report.weights = Source("mean", R)
                              /\ \A w \in Worker : Rounds(w) = R
                         [] RootMode = "ps_async" ->
                              /\ report.weights = Source("server", NumWorkers * R)
                              /\ report.label = "Async"
                         [] OTHER -> /\ report.weights = Source("average", R)
                                     /\ OnMpi => \A w \in Worker : model[w].weights = report.weights
  BY DEF ReportIsOfMode
<1>1. up = {} /\ down = {}
  BY ChannelsEmptied
<1>2. ~CannotRun /\ (\A w \in Worker : Rounds(w) = R) /\ report = aggregate_logreg_results
  BY CompleteJob
<1>3. Runner = AlgorithmOf[RootMode]
  BY ModeIsRun DEF RunsItsMode
<1>4. /\ cfg \in Config /\ WorkerMode = RootMode
      /\ RootMode \in {"none", "ps_sync_fedavg_queue", "ps_sync_fedavg_mpi", "allreduce_mpi",
                       "ps_async", "hybrid_ps_allreduce", "gossip"}
  BY ModeFacts DEF DispatchInv, JobTypeOK, Aliases
<1>5. joined => Coordinator # "none"
  BY DEF DispatchInv, RootInv, CoordInv
<1>6. \A w \in Worker :
        /\ Runner \in {"fedavg", "hybrid", "queue"} => model[w].weights = Source("average", R)
        /\ Runner = "fedavg" => model[w].intercept = model[w].weights
  <2>1. \A w \in Worker : model[w].weights \in Origin /\ model[w].weights.at = R
    BY <1>2, RoundsType DEF DispatchInv
  <2>2. QED  BY <1>2, <2>1, DispatchAssumption DEF DispatchInv, ModelInv, Origin, Source
<1>7. 1 \in Worker
  BY DispatchAssumption DEF Worker
<1>8. RootMode # "allreduce_mpi"
  BY <1>3, <1>4 DEF AlgorithmOf, Runner, LogregRunner
<1> HIDE DEF DispatchInv
<1>9. CASE RootMode \in {"none", "gossip"}
  <2>1. Coordinator = "none"
    BY <1>9 DEF Coordinator
  <2>2. report.weights = Source("mean", R) /\ report.intercept = Source("mean", R)
    BY <1>2, <1>5, <1>9, <2>1 DEF aggregate_logreg_results, Labelled, PostHoc
  <2>3. QED  BY <1>1, <1>2, <1>9, <2>2
<1>10. CASE RootMode = "ps_async"
  <2>1. OnMpi
    BY <1>2, <1>3, <1>10 DEF CannotRun, AlgorithmOf
  <2>2. Coordinator = "async" /\ joined
    BY <1>10, <2>1 DEF Coordinator
  <2>3. /\ report.weights = Source("server", NumWorkers * R) /\ report.label = "Async"
        /\ report.intercept = Source("server", NumWorkers * R)
    BY <1>2, <1>10, <2>2 DEF aggregate_logreg_results, Labelled, allreduce_result
  <2>4. QED  BY <1>1, <1>10, <2>3
<1>11. CASE RootMode = "ps_sync_fedavg_queue"
  <2>1. Coordinator = "rounds" /\ joined
    BY <1>11 DEF Coordinator
  <2>2. report.weights = Source("average", R) /\ report.intercept = Source("average", R)
    BY <1>2, <1>11, <2>1 DEF aggregate_logreg_results, Labelled, allreduce_result
  <2>3. Runner = "queue"
    BY <1>3, <1>11 DEF AlgorithmOf
  <2>4. QED  BY <1>1, <1>6, <1>11, <2>2, <2>3
<1>12. CASE RootMode = "ps_sync_fedavg_mpi"
  <2>1. Coordinator = "none" /\ Runner = "fedavg"
    BY <1>3, <1>12 DEF Coordinator, AlgorithmOf
  <2>2. report.weights = model[1].weights /\ report.intercept = model[1].intercept
    BY <1>2, <1>5, <1>12, <2>1 DEF aggregate_logreg_results, Labelled
  <2>3. QED  BY <1>1, <1>6, <1>7, <1>12, <2>1, <2>2
<1>13. CASE RootMode = "hybrid_ps_allreduce"
  <2>1. OnMpi /\ Runner = "hybrid"
    BY <1>2, <1>3, <1>13 DEF CannotRun, AlgorithmOf
  <2>2. Coordinator = "scalars" /\ joined
    BY <1>13, <2>1 DEF Coordinator
  <2>3. report.weights = model[1].weights /\ report.intercept = Source("average", R)
    BY <1>2, <1>13, <2>2 DEF aggregate_logreg_results, allreduce_result
  <2>4. QED  BY <1>1, <1>6, <1>7, <1>13, <2>1, <2>3
<1>14. QED  BY <1>4, <1>8, <1>9, <1>10, <1>11, <1>12, <1>13

\* What a worker waits for, sends and has is of its kind, whatever the application, the mode
\* and the transport (run_worker_core, run_root, run_root_mpi).
THEOREM DispatchTypeCorrect == DispatchSpec => []TypeOK
<1>1. QED  BY DispatchInvariant, TypeFollows, PTL

\* "refusing silent fallback": for any number of workers and rounds, a job that reports a
\* result under a sync_mode has run that mode and no other.
THEOREM ModeIsNeverSwapped == DispatchSpec => []RunsItsMode
<1>1. QED  BY DispatchInvariant, ModeIsRun, PTL

\* The model that the root reports for logistic regression is the one its mode promises, of
\* the last round or version, and every message and reply of the job has been received.
THEOREM ReportIsPromised == DispatchSpec => []ReportIsOfMode
<1>1. QED  BY DispatchInvariant, ReportFollows, PTL

=============================================================================
