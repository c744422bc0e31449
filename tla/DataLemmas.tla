----------------------------- MODULE DataLemmas -----------------------------
(***************************************************************************)
(* Facts about the data that the proofs share: queues, and sums over       *)
(* finite sets and over queues.                                            *)
(*                                                                         *)
(* What a sum is rests on induction.  The induction theorems of the        *)
(* library take the induction hypothesis as an operator; Induction below   *)
(* takes it as a set, and follows from WFMin, that every set of numbers    *)
(* has a least element.                                                    *)
(***************************************************************************)
EXTENDS Integers, Sequences, FiniteSetsExt, FiniteSetTheorems, WellFoundedInduction, TLAPS

LEMMA ElementOfQueue ==
  ASSUME NEW S, NEW q \in Seq(S), NEW n \in DOMAIN q
  PROVE  q[n] \in S
OBVIOUS

LEMMA WiderQueue ==
  ASSUME NEW S, NEW T, S \subseteq T, NEW q \in Seq(S)
  PROVE  q \in Seq(T)
OBVIOUS

LEMMA SameQueue ==
  ASSUME NEW S, NEW q \in Seq(S), NEW r \in Seq(S), Len(q) = Len(r),
         \A n \in 1..Len(q) : q[n] = r[n]
  PROVE  q = r
OBVIOUS

\* Taking the first element.
LEMMA QueueHead ==
  ASSUME NEW S, NEW q \in Seq(S), q # <<>>
  PROVE  /\ Head(q) \in S /\ Head(q) = q[1] /\ 1 \in DOMAIN q
         /\ Tail(q) \in Seq(S)
         /\ \A n \in DOMAIN Tail(q) : n + 1 \in DOMAIN q /\ Tail(q)[n] = q[n + 1] /\ n \in Nat /\ n + 1 # 1
         /\ \A n \in DOMAIN q : n = 1 \/ (n - 1 \in DOMAIN Tail(q) /\ Tail(q)[n - 1] = q[n])
OBVIOUS

\* Adding one at the end.
LEMMA QueueLast ==
  ASSUME NEW S, NEW q \in Seq(S), NEW c \in S
  PROVE  /\ Append(q, c) \in Seq(S)
         /\ DOMAIN Append(q, c) = DOMAIN q \cup {Len(q) + 1} /\ Len(q) + 1 \notin DOMAIN q
         /\ \A n \in DOMAIN q : Append(q, c)[n] = q[n]
         /\ Append(q, c)[Len(q) + 1] = c
OBVIOUS

LEMMA Joined ==
  ASSUME NEW S, NEW q \in Seq(S), NEW r \in Seq(S)
  PROVE  q \o r \in Seq(S) /\ Len(q \o r) = Len(q) + Len(r)
OBVIOUS

\* A queue of one joined to another.
LEMMA OneMore ==
  ASSUME NEW S, NEW q \in Seq(S), NEW w \in Seq(S), Len(w) = 1
  PROVE  q \o w = Append(q, w[1])
<1>1. ASSUME NEW c \in S PROVE q \o <<c>> = Append(q, c)
  OBVIOUS
<1>2. DOMAIN w = 1..Len(w)  OBVIOUS
<1>3. w[1] \in S
  <2>1. 1 \in DOMAIN w  BY <1>2
  <2> QED  BY <2>1, ElementOfQueue
<1>4. w = <<w[1]>>
  <2>1. <<w[1]>> \in Seq(S) /\ Len(<<w[1]>>) = 1 /\ <<w[1]>>[1] = w[1]  BY <1>3
  <2> QED  BY <2>1, SameQueue
<1>5. q \o <<w[1]>> = Append(q, w[1])  BY <1>1, <1>3
<1> QED  BY <1>4, <1>5

LEMMA QueueFinite ==
  ASSUME NEW S, NEW q \in Seq(S)
  PROVE  IsFiniteSet({q[n] : n \in DOMAIN q})
<1> DEFINE T == {q[n] : n \in DOMAIN q}
<1>1. DOMAIN q = 1..Len(q) /\ Len(q) \in Nat  OBVIOUS
<1>2. q = [n \in 1..Len(q) |-> q[n]]  OBVIOUS
<1>3. \A n \in 1..Len(q) : q[n] \in T  BY <1>1
<1>4. \A t \in T : \E n \in 1..Len(q) : q[n] = t  BY <1>1
<1> HIDE DEF T
<1>5. q \in [1..Len(q) -> T]  BY <1>2, <1>3
<1>6. q \in Surjection(1..Len(q), T)  BY <1>4, <1>5 DEF Surjection
<1>7. IsFiniteSet(1..Len(q))  BY <1>1, FS_Interval
<1>8. IsFiniteSet(T)  BY <1>6, <1>7, FS_Surjection
<1> QED  BY <1>8 DEF T

\* What a read takes, and what it leaves.
LEMMA Cut ==
  ASSUME NEW S, NEW seq \in Seq(S), NEW n \in 0..Len(seq)
  PROVE  /\ SubSeq(seq, 1, n) \in Seq(S) /\ Len(SubSeq(seq, 1, n)) = n
         /\ \A k \in 1..n : SubSeq(seq, 1, n)[k] = seq[k]
         /\ n = Len(seq) => SubSeq(seq, 1, n) = seq
         /\ n = 0 => SubSeq(seq, 1, n) = <<>>
OBVIOUS

LEMMA Rest ==
  ASSUME NEW S, NEW seq \in Seq(S), NEW n \in 0..Len(seq)
  PROVE  /\ SubSeq(seq, n + 1, Len(seq)) \in Seq(S)
         /\ Len(SubSeq(seq, n + 1, Len(seq))) = Len(seq) - n
         /\ n = Len(seq) => SubSeq(seq, n + 1, Len(seq)) = <<>>
OBVIOUS
-----------------------------------------------------------------------------
(* The places of a queue that hold what is in P: how many there are.       *)

PlacesIn(q, P) == {n \in DOMAIN q : q[n] \in P}

LEMMA PlacesFinite ==
  ASSUME NEW S, NEW q \in Seq(S), NEW P
  PROVE  /\ IsFiniteSet(PlacesIn(q, P)) /\ Cardinality(PlacesIn(q, P)) \in Nat
         /\ Cardinality(PlacesIn(q, P)) <= Len(q)
         /\ Cardinality(PlacesIn(<<>>, P)) = 0
<1>1. DOMAIN q = 1..Len(q) /\ Len(q) \in Nat  OBVIOUS
<1>2. IsFiniteSet(1..Len(q)) /\ Cardinality(1..Len(q)) = Len(q)  BY <1>1, FS_Interval
<1>3. PlacesIn(q, P) \subseteq 1..Len(q)  BY <1>1 DEF PlacesIn
<1>4. PlacesIn(<<>>, P) = {}  BY DEF PlacesIn
<1> QED  BY <1>2, <1>3, <1>4, FS_Subset, FS_CardinalityType, FS_EmptySet

LEMMA PlacesLast ==
  ASSUME NEW S, NEW q \in Seq(S), NEW c \in S, NEW P
  PROVE  Cardinality(PlacesIn(Append(q, c), P))
           = Cardinality(PlacesIn(q, P)) + IF c \in P THEN 1 ELSE 0
<1> DEFINE m == Len(q) + 1
<1>1. /\ DOMAIN Append(q, c) = DOMAIN q \cup {m} /\ m \notin DOMAIN q
      /\ \A n \in DOMAIN q : Append(q, c)[n] = q[n]
      /\ Append(q, c)[m] = c
  BY QueueLast
<1>2. IsFiniteSet(PlacesIn(q, P)) /\ Cardinality(PlacesIn(q, P)) \in Nat  BY PlacesFinite
<1> HIDE DEF m
<1>3. CASE c \notin P
  <2>1. PlacesIn(Append(q, c), P) = PlacesIn(q, P)  BY <1>1, <1>3 DEF PlacesIn
  <2> QED  BY <1>2, <1>3, <2>1
<1>4. CASE c \in P
  <2>1. PlacesIn(Append(q, c), P) = PlacesIn(q, P) \cup {m} /\ m \notin PlacesIn(q, P)
    BY <1>1, <1>4 DEF PlacesIn
  <2> QED  BY <1>2, <1>4, <2>1, FS_AddElement
<1> QED  BY <1>3, <1>4

LEMMA PlacesHead ==
  ASSUME NEW S, NEW q \in Seq(S), q # <<>>, NEW P
  PROVE  Cardinality(PlacesIn(q, P))
           = Cardinality(PlacesIn(Tail(q), P)) + IF Head(q) \in P THEN 1 ELSE 0
<1> DEFINE T == PlacesIn(q, P) \ {1}
           U == PlacesIn(Tail(q), P)
           f == [n \in T |-> n - 1]
<1>1. /\ Head(q) = q[1] /\ 1 \in DOMAIN q
      /\ Tail(q) \in Seq(S)
      /\ \A n \in DOMAIN Tail(q) :
           n + 1 \in DOMAIN q /\ Tail(q)[n] = q[n + 1] /\ n \in Nat /\ n + 1 # 1
      /\ \A n \in DOMAIN q : n = 1 \/ (n - 1 \in DOMAIN Tail(q) /\ Tail(q)[n - 1] = q[n])
  BY QueueHead
<1>2. IsFiniteSet(PlacesIn(q, P)) /\ Cardinality(PlacesIn(q, P)) \in Nat  BY PlacesFinite
<1>3. IsFiniteSet(T)  BY <1>2, FS_Subset
<1>4. Cardinality(T) = Cardinality(U)
  <2>1. \A n \in T : n - 1 \in U  BY <1>1 DEF PlacesIn
  <2>2. \A n \in U : n + 1 \in T  BY <1>1 DEF PlacesIn
  <2>3. \A n \in T : n \in Int  BY DEF PlacesIn
  <2>4. \A n \in U : n \in Int  BY <1>1 DEF PlacesIn
  <2> HIDE DEF T, U
  <2>5. f \in [T -> U]  BY <2>1
  <2>6. f \in Bijection(T, U)
    <3>1. \A m, n \in T : f[m] = f[n] => m = n  BY <2>3
    <3>2. \A n \in U : \E m \in T : f[m] = n
      <4> SUFFICES ASSUME NEW n \in U PROVE \E m \in T : f[m] = n
        OBVIOUS
      <4>1. n + 1 \in T /\ f[n + 1] = n  BY <2>2, <2>4
      <4> QED  BY <4>1
    <3> HIDE DEF f
    <3> QED  BY <2>5, <3>1, <3>2 DEF Bijection, Injection, Surjection, IsInjective
  <2> QED  BY <1>3, <2>6, FS_Bijection DEF ExistsBijection
<1>5. CASE Head(q) \in P
  <2>1. 1 \in PlacesIn(q, P)  BY <1>1, <1>5 DEF PlacesIn
  <2>2. Cardinality(T) = Cardinality(PlacesIn(q, P)) - 1  BY <1>2, <2>1, FS_RemoveElement
  <2> HIDE DEF T, U
  <2>3. Cardinality(PlacesIn(q, P)) = Cardinality(U) + 1  BY <1>2, <1>4, <2>2
  <2> QED  BY <1>5, <2>3 DEF U
<1>6. CASE Head(q) \notin P
  <2>1. T = PlacesIn(q, P)  BY <1>1, <1>6 DEF PlacesIn
  <2> HIDE DEF T, U
  <2>2. Cardinality(PlacesIn(q, P)) = Cardinality(U) + 0  BY <1>2, <1>4, <2>1
  <2> QED  BY <1>6, <2>2 DEF U
<1> QED  BY <1>5, <1>6
-----------------------------------------------------------------------------

LEMMA LeastNumber ==
  ASSUME NEW T \in SUBSET Nat, T # {}
  PROVE  \E n \in T : \A m \in T : n <= m
<1> DEFINE U == {1..n : n \in T}
<1>1. U # {} /\ U \subseteq FiniteSubsetsOf(Nat)
  <2>1. ASSUME NEW n \in T PROVE IsFiniteSet(1..n) /\ 1..n \subseteq Nat
    BY FS_Interval
  <2> QED BY <2>1 DEF FiniteSubsetsOf
<1> HIDE DEF U
<1>2. PICK x \in U : \A y \in U : <<y, x>> \notin StrictSubsetOrdering(Nat)
  BY <1>1, FS_StrictSubsetOrderingWellFounded, WFMin
<1>3. PICK n \in T : x = 1..n
  BY DEF U
<1>4. ASSUME NEW m \in T, m < n PROVE FALSE
  <2>1. 1..m \in U BY DEF U
  <2>2. 1..m \subseteq 1..n /\ n \in 1..n /\ n \notin 1..m BY <1>4
  <2>3. 1..m \subseteq Nat /\ 1..n \subseteq Nat OBVIOUS
  <2> QED BY <1>2, <1>3, <2>1, <2>2, <2>3 DEF StrictSubsetOrdering
<1> QED BY <1>3, <1>4

LEMMA Induction ==
  ASSUME NEW P, 0 \in P, \A n \in Nat : n \in P => n + 1 \in P
  PROVE  Nat \subseteq P
<1> DEFINE T == Nat \ P
<1>1. SUFFICES ASSUME T # {} PROVE FALSE
  OBVIOUS
<1>2. PICK n \in T : \A m \in T : n <= m
  BY <1>1, LeastNumber
<1>3. n # 0 /\ n - 1 \in Nat /\ n - 1 \in P
  BY <1>2
<1> QED BY <1>2, <1>3

\* The element a sum over a set takes first.
Pick(s) == CHOOSE x \in s : TRUE

\* What a sum of f over each part of S is.
IsSum(g, f, S) ==
  g = [s \in SUBSET S |-> IF s = {} THEN 0 ELSE f[Pick(s)] + g[s \ {Pick(s)}]]

LEMMA PickIn == \A s : s # {} => Pick(s) \in s
BY DEF Pick

LEMMA SumExists ==
  ASSUME NEW S, IsFiniteSet(S), NEW f
  PROVE  \E g : IsSum(g, f, S)
<1> DEFINE Small(n) == {s \in SUBSET S : Cardinality(s) <= n}
           Next(g, s) == IF s = {} THEN 0 ELSE f[Pick(s)] + g[s \ {Pick(s)}]
           Upto(g, n) == g = [s \in Small(n) |-> Next(g, s)]
           P == {n \in Nat : \E g : Upto(g, n)}
<1>0. ASSUME NEW s \in SUBSET S
      PROVE  /\ IsFiniteSet(s) /\ Cardinality(s) \in Nat /\ Cardinality(s) <= Cardinality(S)
             /\ Cardinality(s) = 0 <=> s = {}
             /\ s # {} => s \ {Pick(s)} \in SUBSET S /\ Cardinality(s \ {Pick(s)}) = Cardinality(s) - 1
  <2>1. IsFiniteSet(s) /\ Cardinality(s) <= Cardinality(S)  BY FS_Subset
  <2>2. Cardinality(s) \in Nat  BY <2>1, FS_CardinalityType
  <2>3. Cardinality(s) = 0 <=> s = {}  BY <2>1, FS_EmptySet
  <2>4. s # {} => Cardinality(s \ {Pick(s)}) = Cardinality(s) - 1
    BY <2>1, PickIn, FS_RemoveElement
  <2> QED BY <2>1, <2>2, <2>3, <2>4
<1>1. 0 \in P
  <2>1. Upto([s \in Small(0) |-> 0], 0)
    BY <1>0
  <2> QED BY <2>1
<1>2. ASSUME NEW n \in Nat, n \in P PROVE n + 1 \in P
  <2>1. PICK g : Upto(g, n)
    BY <1>2
  <2> DEFINE h == [s \in Small(n + 1) |-> Next(g, s)]
  <2>2. ASSUME NEW s \in Small(n + 1) PROVE h[s] = Next(h, s)
    <3>1. s # {} => s \ {Pick(s)} \in Small(n) /\ s \ {Pick(s)} \in Small(n + 1)
      BY <1>0
    <3>2. ASSUME NEW t \in Small(n) PROVE t \in Small(n + 1) /\ h[t] = g[t]
      <4>1. t \in Small(n + 1)
        <5>1. t \in SUBSET S /\ Cardinality(t) <= n  OBVIOUS
        <5>2. Cardinality(t) \in Nat  BY <1>0, <5>1
        <5> QED  BY <5>1, <5>2
      <4>2. h[t] = Next(g, t)  BY <4>1
      <4>3. g[t] = Next(g, t)  BY <2>1
      <4> QED  BY <4>1, <4>2, <4>3
    <3> QED BY <3>1, <3>2
  <2>3. Upto(h, n + 1)
    BY <2>2
  <2> HIDE DEF h, Upto
  <2> QED BY <2>3, n + 1 \in Nat
<1> HIDE DEF P
<1>3. Cardinality(S) \in P
  BY <1>1, <1>2, Induction, FS_CardinalityType
<1>4. Small(Cardinality(S)) = SUBSET S
  BY <1>0
<1> QED BY <1>3, <1>4 DEF P, IsSum

Terms(f, S) == \A x \in S : f[x] \in Int

\* The sums do not depend on the order in which terms are taken.
AnyOrder(g, f, S) ==
  /\ g[{}] = 0
  /\ \A s \in SUBSET S : g[s] \in Int
  /\ \A s \in SUBSET S : \A x \in s : g[s] = f[x] + g[s \ {x}]

LEMMA SumTakesAny ==
  ASSUME NEW S, IsFiniteSet(S), NEW f, Terms(f, S), NEW g, IsSum(g, f, S)
  PROVE  AnyOrder(g, f, S)
<1> USE DEF Terms
<1> DEFINE Holds(s) == g[s] \in Int /\ \A x \in s : g[s] = f[x] + g[s \ {x}]
           P == {n \in Nat : \A s \in SUBSET S : Cardinality(s) <= n => Holds(s)}
<1>0. ASSUME NEW s \in SUBSET S
      PROVE  /\ Cardinality(s) \in Nat
             /\ Cardinality(s) = 0 <=> s = {}
             /\ \A x \in s : s \ {x} \in SUBSET S /\ Cardinality(s \ {x}) = Cardinality(s) - 1
  <2>1. IsFiniteSet(s)  BY FS_Subset
  <2> QED BY <2>1, FS_CardinalityType, FS_EmptySet, FS_RemoveElement
<1>1. ASSUME NEW s \in SUBSET S
      PROVE  g[s] = IF s = {} THEN 0 ELSE f[Pick(s)] + g[s \ {Pick(s)}]
  BY DEF IsSum
<1>2. 0 \in P
  <2>1. ASSUME NEW s \in SUBSET S, Cardinality(s) <= 0 PROVE Holds(s)
    <3>1. s = {}  BY <1>0, <2>1
    <3>2. g[s] = 0  BY <1>1, <3>1
    <3> QED  BY <3>1, <3>2
  <2> QED  BY <2>1
<1>3. ASSUME NEW n \in Nat, n \in P PROVE n + 1 \in P
  <2> SUFFICES ASSUME NEW s \in SUBSET S, Cardinality(s) <= n + 1 PROVE Holds(s)
    BY n + 1 \in Nat
  <2>1. Cardinality(s) <= n + 1  OBVIOUS
  <2>2. CASE s = {}
    <3>1. g[s] = 0  BY <1>1, <2>2
    <3> QED  BY <2>2, <3>1
  <2>3. CASE s # {}
    <3> DEFINE p == Pick(s)
    <3>1. p \in s /\ g[s] = f[p] + g[s \ {p}]
      BY <1>1, <2>3, PickIn
    <3> HIDE DEF p
    <3>2. \A x \in s : s \ {x} \in SUBSET S /\ Holds(s \ {x})
      <4>1. \A x \in s : s \ {x} \in SUBSET S /\ Cardinality(s \ {x}) <= n
        BY <1>0, <2>1
      <4> QED  BY <1>3, <4>1
    <3>3. g[s] \in Int
      BY <3>1, <3>2
    <3>4. ASSUME NEW x \in s PROVE g[s] = f[x] + g[s \ {x}]
      <4>1. CASE x = p
        BY <3>1, <4>1
      <4>2. CASE x # p
        <5>1. g[s \ {p}] = f[x] + g[(s \ {p}) \ {x}]  BY <3>1, <3>2, <4>2
        <5>2. g[s \ {x}] = f[p] + g[(s \ {x}) \ {p}]  BY <3>1, <3>2, <4>2
        <5>3. (s \ {x}) \ {p} = (s \ {p}) \ {x}  OBVIOUS
        <5>4. f[x] \in Int /\ f[p] \in Int /\ g[(s \ {p}) \ {x}] \in Int
          <6>1. /\ (s \ {p}) \ {x} \in SUBSET S
                /\ Cardinality((s \ {p}) \ {x}) = Cardinality(s \ {p}) - 1
                /\ Cardinality(s \ {p}) = Cardinality(s) - 1
                /\ Cardinality(s) \in Nat
            BY <1>0, <3>1, <3>2, <4>2
          <6>2. Cardinality((s \ {p}) \ {x}) <= n
            BY <2>1, <6>1
          <6> QED  BY <1>3, <3>1, <6>1, <6>2
        <5>5. \A u, v, w \in Int : u + (v + w) = v + (u + w)  OBVIOUS
        <5>6. g[s] = f[p] + (f[x] + g[(s \ {p}) \ {x}])  BY <3>1, <5>1
        <5>7. g[s \ {x}] = f[p] + g[(s \ {p}) \ {x}]  BY <5>2, <5>3
        <5> QED  BY <5>4, <5>5, <5>6, <5>7
      <4> QED  BY <4>1, <4>2
    <3> QED  BY <3>3, <3>4
  <2> QED BY <2>2, <2>3
<1> HIDE DEF P
<1>4. ASSUME NEW s \in SUBSET S PROVE Holds(s)
  <2>1. Cardinality(s) \in P BY <1>0, <1>2, <1>3, Induction
  <2> QED BY <1>0, <2>1 DEF P
<1>5. g[{}] = 0  BY <1>1
<1> QED BY <1>4, <1>5 DEF AnyOrder

Sum(f, S) == MapThenSumSet(LAMBDA x : f[x], S)

LEMMA SumIs ==
  ASSUME NEW S, IsFiniteSet(S), NEW f
  PROVE  \E g : IsSum(g, f, S) /\ Sum(f, S) = g[S]
<1>1. IsSum(CHOOSE g : IsSum(g, f, S), f, S)
  BY SumExists
<1>2. Sum(f, S) = (CHOOSE g : IsSum(g, f, S))[S]
  BY DEF Sum, MapThenSumSet, MapThenFoldSet, IsSum, Pick
<1> QED BY <1>1, <1>2

\* Sums over a part of the terms, each at least as large.
LEMMA SumCompare ==
  ASSUME NEW S, IsFiniteSet(S), NEW f, Terms(f, S), NEW g, IsSum(g, f, S),
         NEW U, IsFiniteSet(U), NEW d, Terms(d, U), NEW h, IsSum(h, d, U),
         NEW T, T \subseteq S, T \subseteq U, \A x \in T : f[x] <= d[x]
  PROVE  g[T] <= h[T]
<1> DEFINE P == {n \in Nat : \A s \in SUBSET T : Cardinality(s) = n => g[s] <= h[s]}
<1>0. ASSUME NEW s \in SUBSET T
      PROVE  /\ Cardinality(s) \in Nat
             /\ Cardinality(s) = 0 <=> s = {}
             /\ \A x \in s : s \ {x} \in SUBSET T /\ Cardinality(s \ {x}) = Cardinality(s) - 1
  <2>1. s \in SUBSET S /\ IsFiniteSet(s)  BY FS_Subset
  <2> QED BY <2>1, FS_CardinalityType, FS_EmptySet, FS_RemoveElement
<1>1. /\ g[{}] = 0 /\ h[{}] = 0
      /\ \A s \in SUBSET T : g[s] \in Int /\ h[s] \in Int
      /\ \A s \in SUBSET T : \A x \in s : g[s] = f[x] + g[s \ {x}] /\ h[s] = d[x] + h[s \ {x}]
  <2>1. AnyOrder(g, f, S) /\ AnyOrder(h, d, U)  BY SumTakesAny
  <2> QED  BY <2>1 DEF AnyOrder
<1>2. 0 \in P
  <2>1. ASSUME NEW s \in SUBSET T, Cardinality(s) = 0 PROVE g[s] <= h[s]
    <3>1. s = {}  BY <1>0, <2>1
    <3> QED  BY <1>1, <3>1
  <2> QED  BY <2>1
<1>3. ASSUME NEW n \in Nat, n \in P PROVE n + 1 \in P
  <2>1. ASSUME NEW s \in SUBSET T, Cardinality(s) = n + 1 PROVE g[s] <= h[s]
    <3>1. PICK x \in s : TRUE
      <4>1. s # {}  BY <1>0, <2>1
      <4> QED  BY <4>1
    <3>2. s \ {x} \in SUBSET T /\ g[s \ {x}] <= h[s \ {x}]
      <4>1. s \ {x} \in SUBSET T /\ Cardinality(s \ {x}) = n  BY <1>0, <2>1, <3>1
      <4> QED  BY <1>3, <4>1
    <3>3. g[s] = f[x] + g[s \ {x}] /\ h[s] = d[x] + h[s \ {x}]  BY <1>1, <3>1
    <3>4. /\ f[x] \in Int /\ d[x] \in Int /\ f[x] <= d[x]
          /\ g[s \ {x}] \in Int /\ h[s \ {x}] \in Int
      BY <1>1, <3>1, <3>2 DEF Terms
    <3>5. \A a, b, u, v \in Int : a <= b /\ u <= v => a + u <= b + v  OBVIOUS
    <3> QED  BY <3>2, <3>3, <3>4, <3>5
  <2> QED  BY <2>1
<1> HIDE DEF P
<1>4. Cardinality(T) \in P
  BY <1>0, <1>2, <1>3, Induction
<1> QED  BY <1>4 DEF P

LEMMA SumAtMost ==
  ASSUME NEW S, IsFiniteSet(S), NEW f, NEW d,
         Terms(f, S), Terms(d, S), \A x \in S : f[x] <= d[x]
  PROVE  Sum(f, S) <= Sum(d, S)
<1>1. PICK g : IsSum(g, f, S) /\ Sum(f, S) = g[S]  BY SumIs
<1>2. PICK h : IsSum(h, d, S) /\ Sum(d, S) = h[S]  BY SumIs
<1> QED  BY <1>1, <1>2, SumCompare

LEMMA SumTypes ==
  ASSUME NEW S, IsFiniteSet(S), NEW f, Terms(f, S)
  PROVE  Sum(f, S) \in Int
<1>1. PICK g : IsSum(g, f, S) /\ Sum(f, S) = g[S]  BY SumIs
<1>2. AnyOrder(g, f, S)  BY <1>1, SumTakesAny
<1> QED  BY <1>1, <1>2 DEF AnyOrder

LEMMA SumEmpty == \A f : Sum(f, {}) = 0
<1>1. ASSUME NEW f PROVE Sum(f, {}) = 0
  <2>1. IsFiniteSet({})  BY FS_EmptySet
  <2>2. PICK g : IsSum(g, f, {}) /\ Sum(f, {}) = g[{}]  BY <2>1, SumIs
  <2>3. AnyOrder(g, f, {})  BY <2>1, <2>2, SumTakesAny DEF Terms
  <2> QED  BY <2>2, <2>3 DEF AnyOrder
<1> QED  BY <1>1

LEMMA SumSame ==
  ASSUME NEW S, IsFiniteSet(S), NEW f, NEW d, Terms(f, S), \A x \in S : f[x] = d[x]
  PROVE  Sum(f, S) = Sum(d, S)
<1>0. Terms(d, S) /\ \A x \in S : f[x] <= d[x] /\ d[x] <= f[x]  BY DEF Terms
<1>1. Sum(f, S) <= Sum(d, S) /\ Sum(d, S) <= Sum(f, S)  BY <1>0, SumAtMost
<1>2. Sum(f, S) \in Int /\ Sum(d, S) \in Int  BY <1>0, SumTypes
<1> QED  BY <1>1, <1>2

LEMMA SumTakeOut ==
  ASSUME NEW S, IsFiniteSet(S), NEW f, Terms(f, S), NEW x \in S
  PROVE  Sum(f, S) = f[x] + Sum(f, S \ {x})
<1> DEFINE T == S \ {x}
<1>0. T \in SUBSET S /\ IsFiniteSet(T) /\ Terms(f, T)  BY FS_Subset DEF Terms
<1>1. PICK g : IsSum(g, f, S) /\ Sum(f, S) = g[S]  BY SumIs
<1>2. PICK h : IsSum(h, f, T) /\ Sum(f, T) = h[T]  BY <1>0, SumIs
<1>3. AnyOrder(g, f, S) /\ AnyOrder(h, f, T)  BY <1>0, <1>1, <1>2, SumTakesAny
<1>4. g[S] = f[x] + g[T] /\ g[T] \in Int /\ h[T] \in Int  BY <1>3 DEF AnyOrder
<1>5. \A y \in T : f[y] <= f[y]  BY <1>0 DEF Terms
<1> HIDE DEF T
<1>6. g[T] <= h[T] /\ h[T] <= g[T]  BY <1>0, <1>1, <1>2, <1>5, SumCompare
<1>7. Sum(f, S) = f[x] + Sum(f, T)  BY <1>1, <1>2, <1>4, <1>6
<1> QED  BY <1>7 DEF T

LEMMA SumOfZeros ==
  ASSUME NEW S, IsFiniteSet(S), NEW f, \A x \in S : f[x] = 0
  PROVE  Sum(f, S) = 0
<1> DEFINE P == {n \in Nat : \A s \in SUBSET S : Cardinality(s) = n => Sum(f, s) = 0}
<1>0. ASSUME NEW s \in SUBSET S PROVE IsFiniteSet(s) /\ Cardinality(s) \in Nat
  BY FS_Subset, FS_CardinalityType
<1>1. 0 \in P
  <2>1. ASSUME NEW s \in SUBSET S, Cardinality(s) = 0 PROVE Sum(f, s) = 0
    <3>1. s = {}  BY <1>0, <2>1, FS_EmptySet
    <3> QED  BY <3>1, SumEmpty
  <2> QED  BY <2>1
<1>2. ASSUME NEW n \in Nat, n \in P PROVE n + 1 \in P
  <2>1. ASSUME NEW s \in SUBSET S, Cardinality(s) = n + 1 PROVE Sum(f, s) = 0
    <3>1. PICK x \in s : TRUE
      <4>1. s # {}  BY <2>1, FS_EmptySet
      <4> QED  BY <4>1
    <3>2. s \ {x} \in SUBSET S /\ Cardinality(s \ {x}) = n
      <4>1. Cardinality(s \ {x}) = Cardinality(s) - 1  BY <1>0, <3>1, FS_RemoveElement
      <4> QED  BY <2>1, <4>1
    <3>3. Sum(f, s \ {x}) = 0  BY <1>2, <3>2
    <3>4. Terms(f, s) /\ f[x] = 0  BY <3>1 DEF Terms
    <3>5. Sum(f, s) = f[x] + Sum(f, s \ {x})  BY <1>0, <3>1, <3>4, SumTakeOut
    <3> QED  BY <3>3, <3>4, <3>5
  <2> QED  BY <2>1
<1> HIDE DEF P
<1>3. Cardinality(S) \in P  BY <1>0, <1>1, <1>2, Induction
<1> QED  BY <1>3 DEF P

LEMMA SumOfNumbers ==
  ASSUME NEW S, IsFiniteSet(S), NEW f, \A x \in S : f[x] \in Nat
  PROVE  Sum(f, S) \in Nat
<1> DEFINE zero == [x \in S |-> 0]
<1>1. \A x \in S : zero[x] = 0  OBVIOUS
<1> HIDE DEF zero
<1>2. Terms(f, S) /\ Terms(zero, S) /\ \A x \in S : zero[x] <= f[x]
  BY <1>1 DEF Terms
<1>3. Sum(f, S) \in Int /\ Sum(zero, S) <= Sum(f, S) /\ Sum(zero, S) = 0
  BY <1>1, <1>2, SumTypes, SumAtMost, SumOfZeros
<1> QED  BY <1>3

LEMMA SumPutIn ==
  ASSUME NEW S, IsFiniteSet(S), NEW x, x \notin S, NEW f, Terms(f, S \cup {x})
  PROVE  Sum(f, S \cup {x}) = f[x] + Sum(f, S)
<1>1. IsFiniteSet(S \cup {x})  BY FS_AddElement
<1>2. (S \cup {x}) \ {x} = S /\ x \in S \cup {x}  OBVIOUS
<1>3. Sum(f, S \cup {x}) = f[x] + Sum(f, (S \cup {x}) \ {x})  BY <1>1, <1>2, SumTakeOut
<1> QED  BY <1>2, <1>3

LEMMA SumReplaced ==
  ASSUME NEW S, IsFiniteSet(S), NEW f, Terms(f, S), NEW d, Terms(d, S),
         NEW x \in S, \A y \in S \ {x} : f[y] = d[y]
  PROVE  Sum(d, S) = Sum(f, S) - f[x] + d[x]
<1> DEFINE T == S \ {x}
<1>1. IsFiniteSet(T) /\ Terms(f, T) /\ Terms(d, T)  BY FS_Subset DEF Terms
<1>2. Sum(f, T) = Sum(d, T) /\ Sum(f, T) \in Int
  <2> HIDE DEF T
  <2>1. \A y \in T : f[y] = d[y] BY DEF T
  <2> QED BY <1>1, <2>1, SumSame, SumTypes
<1>3. Sum(f, S) = f[x] + Sum(f, T) /\ Sum(d, S) = d[x] + Sum(d, T)  BY SumTakeOut
<1>4. f[x] \in Int /\ d[x] \in Int  BY DEF Terms
<1> QED  BY <1>2, <1>3, <1>4

\* The sum of the steps from F[0] to F[n].
LEMMA SumOfSteps ==
  ASSUME NEW n \in Nat, NEW F, \A i \in 0..n : F[i] \in Int,
         NEW f, \A i \in 1..n : f[i] = F[i] - F[i - 1]
  PROVE  Sum(f, 1..n) = F[n] - F[0]
<1> DEFINE P == {k \in Nat : k <= n => Sum(f, 1..k) = F[k] - F[0]}
<1>1. 0 \in P
  <2>1. 1..0 = {} /\ F[0] \in Int  OBVIOUS
  <2> QED  BY <2>1, SumEmpty
<1>2. ASSUME NEW k \in Nat, k \in P PROVE k + 1 \in P
  <2>1. ASSUME k + 1 <= n PROVE Sum(f, 1..(k + 1)) = F[k + 1] - F[0]
    <3>1. 1..(k + 1) = 1..k \cup {k + 1} /\ k + 1 \notin 1..k  OBVIOUS
    <3>2. F[k] \in Int /\ F[k + 1] \in Int /\ F[0] \in Int /\ f[k + 1] = F[k + 1] - F[k]
      <4>1. k \in 0..n /\ k + 1 \in 1..n /\ k + 1 \in 0..n /\ 0 \in 0..n /\ (k + 1) - 1 = k  BY <2>1
      <4> QED  BY <4>1
    <3>3. Terms(f, 1..k \cup {k + 1})
      <4>1. ASSUME NEW i \in 1..k \cup {k + 1} PROVE f[i] \in Int
        <5>1. i \in 1..n /\ i \in 0..n /\ i - 1 \in 0..n  BY <2>1
        <5>2. F[i] \in Int /\ F[i - 1] \in Int /\ f[i] = F[i] - F[i - 1]  BY <5>1
        <5> QED  BY <5>2
      <4> QED  BY <4>1 DEF Terms
    <3>4. IsFiniteSet(1..k)  BY FS_Interval
    <3>5. Sum(f, 1..k \cup {k + 1}) = f[k + 1] + Sum(f, 1..k)  BY <3>1, <3>3, <3>4, SumPutIn
    <3>6. Sum(f, 1..k) = F[k] - F[0]  BY <1>2, <2>1
    <3>7. Sum(f, 1..(k + 1)) = Sum(f, 1..k \cup {k + 1})  BY <3>1
    <3> QED  BY <3>2, <3>5, <3>6, <3>7
  <2> QED  BY <2>1
<1> HIDE DEF P
<1>3. n \in P  BY <1>1, <1>2, Induction
<1> QED  BY <1>3 DEF P

\* The first of the terms taken away, and the others moved down.
LEMMA SumOfTail ==
  ASSUME NEW n \in Nat, NEW f, Terms(f, 1..(n + 1)), NEW d, \A i \in 1..n : d[i] = f[i + 1]
  PROVE  Sum(f, 1..(n + 1)) = f[1] + Sum(d, 1..n)
<1> DEFINE F == [i \in 0..(n + 1) |-> Sum(f, 1..i)]
           G == [i \in 0..n |-> F[i + 1]]
<1>1. \A i \in 0..(n + 1) : IsFiniteSet(1..i) /\ Terms(f, 1..i) /\ F[i] \in Int
  <2>1. ASSUME NEW i \in 0..(n + 1) PROVE IsFiniteSet(1..i) /\ Terms(f, 1..i)
    <3>1. 1..i \subseteq 1..(n + 1)  OBVIOUS
    <3> QED  BY <3>1, FS_Interval DEF Terms
  <2>2. ASSUME NEW i \in 0..(n + 1) PROVE F[i] \in Int
    BY <2>1, SumTypes
  <2> QED  BY <2>1, <2>2
<1>2. ASSUME NEW i \in 1..(n + 1) PROVE F[i] = f[i] + F[i - 1]
  <2>1. /\ 1..i = 1..(i - 1) \cup {i} /\ i \notin 1..(i - 1)
        /\ i \in 0..(n + 1) /\ i - 1 \in 0..(n + 1)
    OBVIOUS
  <2>2. IsFiniteSet(1..(i - 1)) /\ Terms(f, 1..(i - 1) \cup {i})  BY <1>1, <2>1
  <2>3. Sum(f, 1..(i - 1) \cup {i}) = f[i] + Sum(f, 1..(i - 1))  BY <2>1, <2>2, SumPutIn
  <2> QED  BY <2>1, <2>3
<1>3. F[0] = 0
  <2>1. 1..0 = {} /\ 0 \in 0..(n + 1)  OBVIOUS
  <2> QED  BY <2>1, SumEmpty
<1>4. \A i \in 0..(n + 1) : F[i] \in Int  BY <1>1
<1>5. F[n + 1] = Sum(f, 1..(n + 1))  OBVIOUS
<1> HIDE DEF F
<1>6. \A i \in 0..n : G[i] = F[i + 1] /\ G[i] \in Int
  BY <1>4
<1>7. ASSUME NEW i \in 1..n PROVE d[i] = G[i] - G[i - 1]
  <2>1. i \in 0..n /\ i - 1 \in 0..n /\ (i - 1) + 1 = i /\ i + 1 \in 1..(n + 1) /\ (i + 1) - 1 = i
    OBVIOUS
  <2>2. G[i] = F[i + 1] /\ G[i - 1] = F[i]  BY <1>6, <2>1
  <2>3. F[i + 1] = f[i + 1] + F[i]  BY <1>2, <2>1
  <2>4. f[i + 1] \in Int /\ F[i] \in Int  BY <1>4, <2>1 DEF Terms
  <2> QED  BY <2>2, <2>3, <2>4
<1> HIDE DEF G
<1>8. Sum(d, 1..n) = G[n] - G[0]  BY <1>6, <1>7, SumOfSteps
<1>9. G[n] = F[n + 1] /\ G[0] = F[1] /\ F[1] = f[1] + F[0] /\ f[1] \in Int /\ F[n + 1] \in Int
  <2>1. 0 \in 0..n /\ n \in 0..n /\ 1 \in 1..(n + 1) /\ n + 1 \in 0..(n + 1) /\ 0 + 1 = 1 /\ 1 - 1 = 0  OBVIOUS
  <2> QED  BY <1>2, <1>4, <1>6, <2>1 DEF Terms
<1> QED  BY <1>3, <1>5, <1>8, <1>9

-----------------------------------------------------------------------------
(* What is in P before place p of a queue, and in R from there on.         *)

MixedPlaces(q, P, R, p) == {n \in DOMAIN q : IF n < p THEN q[n] \in P ELSE q[n] \in R}
Mixed(q, P, R, p) == Cardinality(MixedPlaces(q, P, R, p))

\* The same, as the places of another queue.
MarkAt(n, c, P, R, p) == IF IF n < p THEN c \in P ELSE c \in R THEN 1 ELSE 0
Marks(q, P, R, p) == [n \in DOMAIN q |-> MarkAt(n, q[n], P, R, p)]

LEMMA MixedIs ==
  ASSUME NEW S, NEW q \in Seq(S), NEW P, NEW R, NEW p
  PROVE  /\ Marks(q, P, R, p) \in Seq({0, 1}) /\ Len(Marks(q, P, R, p)) = Len(q)
         /\ Mixed(q, P, R, p) = Cardinality(PlacesIn(Marks(q, P, R, p), {1}))
         /\ Mixed(q, P, R, p) \in Nat
<1> DEFINE m == Marks(q, P, R, p)
<1>1. DOMAIN q = 1..Len(q) /\ Len(q) \in Nat  OBVIOUS
<1>2. /\ DOMAIN m = 1..Len(q)
      /\ \A n \in 1..Len(q) : m[n] \in {0, 1} /\ m[n] = MarkAt(n, q[n], P, R, p)
      /\ m = [n \in 1..Len(q) |-> m[n]]
  BY <1>1 DEF Marks, MarkAt
<1>3. MixedPlaces(q, P, R, p) = PlacesIn(m, {1})
  <2>1. \A n \in 1..Len(q) : m[n] \in {1} <=> IF n < p THEN q[n] \in P ELSE q[n] \in R
    BY <1>2 DEF MarkAt
  <2> HIDE DEF m
  <2> QED  BY <1>1, <1>2, <2>1 DEF MixedPlaces, PlacesIn
<1> HIDE DEF m
<1>4. m \in Seq({0, 1}) /\ Len(m) = Len(q)  BY <1>1, <1>2
<1>5. Cardinality(PlacesIn(m, {1})) \in Nat  BY <1>4, PlacesFinite
<1> QED  BY <1>3, <1>4, <1>5 DEF Mixed, m

LEMMA MixedEnds ==
  ASSUME NEW S, NEW q \in Seq(S), NEW P, NEW R
  PROVE  /\ Mixed(q, P, R, 1) = Cardinality(PlacesIn(q, R))
         /\ Mixed(q, P, R, Len(q) + 1) = Cardinality(PlacesIn(q, P))
<1>1. DOMAIN q = 1..Len(q) /\ Len(q) \in Nat  OBVIOUS
<1>2. MixedPlaces(q, P, R, 1) = PlacesIn(q, R)  BY <1>1 DEF MixedPlaces, PlacesIn
<1>3. MixedPlaces(q, P, R, Len(q) + 1) = PlacesIn(q, P)  BY <1>1 DEF MixedPlaces, PlacesIn
<1> QED  BY <1>2, <1>3 DEF Mixed

LEMMA MixedLast ==
  ASSUME NEW S, NEW q \in Seq(S), NEW c \in S, NEW P, NEW R, NEW p \in 1..(Len(q) + 1)
  PROVE  Mixed(Append(q, c), P, R, p) = Mixed(q, P, R, p) + IF c \in R THEN 1 ELSE 0
<1> DEFINE m == Marks(q, P, R, p)
           k == Len(q) + 1
           d == MarkAt(k, c, P, R, p)
<1>1. Append(q, c) \in Seq(S)  OBVIOUS
<1>2. m \in Seq({0, 1}) /\ Len(m) = Len(q)  BY MixedIs
<1>3. Len(q) \in Nat /\ d \in {0, 1} /\ (d \in {1} <=> c \in R)  BY DEF MarkAt
<1>4. /\ DOMAIN m = 1..Len(q) /\ DOMAIN q = 1..Len(q)
      /\ \A n \in 1..Len(q) : m[n] = MarkAt(n, q[n], P, R, p)
  BY DEF Marks
<1>5. /\ Len(Append(q, c)) = k /\ Append(q, c)[k] = c
      /\ \A n \in 1..Len(q) : Append(q, c)[n] = q[n]
      /\ \A n \in 1..k : n = k \/ n \in 1..Len(q)
  OBVIOUS
<1>6. /\ Append(m, d) \in Seq({0, 1}) /\ Len(Append(m, d)) = k /\ Append(m, d)[k] = d
      /\ \A n \in 1..Len(q) : Append(m, d)[n] = m[n]
  <2> HIDE DEF m, d
  <2> QED  BY <1>2, <1>3
<1>7. Marks(Append(q, c), P, R, p) = Append(m, d)
  <2> DEFINE r == Marks(Append(q, c), P, R, p)
  <2>1. r \in Seq({0, 1}) /\ Len(r) = k  BY <1>1, <1>5, MixedIs
  <2>2. \A n \in 1..k : r[n] = MarkAt(n, Append(q, c)[n], P, R, p)
    <3>1. DOMAIN Append(q, c) = 1..k  BY <1>1, <1>5
    <3> QED  BY <3>1 DEF Marks
  <2> HIDE DEF m, d, k, r
  <2>3. \A n \in 1..k : r[n] = Append(m, d)[n]
    <3>1. d = MarkAt(k, c, P, R, p)  BY DEF d
    <3> QED  BY <1>4, <1>5, <1>6, <2>2, <3>1
  <2>4. r = Append(m, d)  BY <1>6, <2>1, <2>3, SameQueue
  <2> QED  BY <2>4 DEF r
<1>8. Mixed(q, P, R, p) = Cardinality(PlacesIn(m, {1}))  BY MixedIs
<1>9. Mixed(Append(q, c), P, R, p) = Cardinality(PlacesIn(Append(m, d), {1}))
  BY <1>1, <1>7, MixedIs
<1> HIDE DEF m, d
<1>10. Cardinality(PlacesIn(Append(m, d), {1}))
         = Cardinality(PlacesIn(m, {1})) + IF d \in {1} THEN 1 ELSE 0
  BY <1>2, <1>3, PlacesLast
<1> QED  BY <1>3, <1>8, <1>9, <1>10

LEMMA MixedHead ==
  ASSUME NEW S, NEW q \in Seq(S), q # <<>>, NEW P, NEW R, NEW p \in 1..Len(q)
  PROVE  Mixed(q, P, R, p + 1) = Mixed(Tail(q), P, R, p) + IF Head(q) \in P THEN 1 ELSE 0
<1> DEFINE m == Marks(q, P, R, p + 1)
<1>1. Tail(q) \in Seq(S) /\ Len(Tail(q)) = Len(q) - 1
  OBVIOUS
<1>2. m \in Seq({0, 1}) /\ Len(m) = Len(q)  BY MixedIs
<1>3. /\ DOMAIN q = 1..Len(q) /\ DOMAIN Tail(q) = 1..(Len(q) - 1) /\ 1 \in 1..Len(q)
      /\ \A n \in 1..(Len(q) - 1) : Tail(q)[n] = q[n + 1] /\ n + 1 \in 1..Len(q)
      /\ Head(q) = q[1] /\ 1 < p + 1
  OBVIOUS
<1>4. \A n \in 1..Len(q) : m[n] = MarkAt(n, q[n], P, R, p + 1)
  BY <1>3 DEF Marks
<1> HIDE DEF m
<1>5. /\ m # <<>> /\ Head(m) = m[1]
      /\ Tail(m) \in Seq({0, 1}) /\ Len(Tail(m)) = Len(q) - 1
      /\ \A n \in 1..(Len(q) - 1) : Tail(m)[n] = m[n + 1]
  <2>1. Len(m) \in Nat /\ Len(m) # 0  BY <1>2
  <2>2. m # <<>>  BY <2>1
  <2> QED  BY <1>2, <2>2
<1>6. \A n \in 1..(Len(q) - 1) : MarkAt(n + 1, q[n + 1], P, R, p + 1) = MarkAt(n, q[n + 1], P, R, p)
  <2>1. \A n \in 1..(Len(q) - 1) : n < p <=> n + 1 < p + 1  OBVIOUS
  <2> QED  BY <2>1 DEF MarkAt
<1>7. Tail(m) = Marks(Tail(q), P, R, p)
  <2> DEFINE r == Marks(Tail(q), P, R, p)
  <2>1. r \in Seq({0, 1}) /\ Len(r) = Len(q) - 1  BY <1>1, MixedIs
  <2>2. \A n \in 1..(Len(q) - 1) : r[n] = MarkAt(n, q[n + 1], P, R, p)
    BY <1>3 DEF Marks
  <2> HIDE DEF r
  <2>3. \A n \in 1..(Len(q) - 1) : Tail(m)[n] = r[n]
    BY <1>3, <1>4, <1>5, <1>6, <2>2
  <2>4. Tail(m) = r  BY <1>5, <2>1, <2>3, SameQueue
  <2> QED  BY <2>4 DEF r
<1>8. Head(m) \in {1} <=> Head(q) \in P
  BY <1>3, <1>4, <1>5 DEF MarkAt
<1>9. Mixed(q, P, R, p + 1) = Cardinality(PlacesIn(m, {1}))  BY MixedIs DEF m
<1>10. Mixed(Tail(q), P, R, p) = Cardinality(PlacesIn(Tail(m), {1}))
  <2>1. Mixed(Tail(q), P, R, p) = Cardinality(PlacesIn(Marks(Tail(q), P, R, p), {1}))
    BY <1>1, MixedIs
  <2> QED  BY <1>7, <2>1
<1>11. Cardinality(PlacesIn(m, {1}))
        = Cardinality(PlacesIn(Tail(m), {1})) + IF Head(m) \in {1} THEN 1 ELSE 0
  BY <1>2, <1>5, PlacesHead
<1> QED  BY <1>8, <1>9, <1>10, <1>11

\* There are as many images as elements, if they differ.
LEMMA ImageSize ==
  ASSUME NEW S, IsFiniteSet(S), NEW f, \A x, y \in S : f[x] = f[y] => x = y
  PROVE  IsFiniteSet({f[x] : x \in S}) /\ Cardinality({f[x] : x \in S}) = Cardinality(S)
<1> DEFINE T == {f[x] : x \in S}
           g == [x \in S |-> f[x]]
<1>1. g \in Bijection(S, T)
  <2>1. g \in [S -> T] /\ (\A x, y \in S : g[x] = g[y] => x = y) /\ \A t \in T : \E x \in S : g[x] = t
    OBVIOUS
  <2> HIDE DEF g, T
  <2> QED  BY <2>1 DEF Bijection, Injection, Surjection, IsInjective
<1> HIDE DEF T
<1>2. Cardinality(T) = Cardinality(S) /\ IsFiniteSet(T)
  BY <1>1, FS_Bijection DEF ExistsBijection
<1> QED  BY <1>2 DEF T

\* Terms that are 0 can be left out.
LEMMA SumOfMore ==
  ASSUME NEW S, IsFiniteSet(S), NEW T, IsFiniteSet(T), NEW f, Terms(f, S),
         \A x \in T \ S : f[x] = 0
  PROVE  Sum(f, S \cup T) = Sum(f, S)
<1> DEFINE P == {n \in Nat : \A s \in SUBSET (T \ S) : Cardinality(s) = n =>
                               Sum(f, S \cup s) = Sum(f, S)}
<1>0. ASSUME NEW s \in SUBSET (T \ S)
      PROVE  IsFiniteSet(s) /\ Cardinality(s) \in Nat /\ IsFiniteSet(S \cup s) /\ Terms(f, S \cup s)
  <2>1. IsFiniteSet(s)  BY FS_Subset
  <2>2. IsFiniteSet(S \cup s)  BY <2>1, FS_Union
  <2>3. Terms(f, S \cup s)  BY DEF Terms
  <2> QED  BY <2>1, <2>2, <2>3, FS_CardinalityType
<1>1. 0 \in P
  <2>1. ASSUME NEW s \in SUBSET (T \ S), Cardinality(s) = 0 PROVE Sum(f, S \cup s) = Sum(f, S)
    <3>1. IsFiniteSet(s)  BY <1>0
    <3>2. s = {}  BY <2>1, <3>1, FS_EmptySet
    <3>3. S \cup s = S  BY <3>2
    <3> QED  BY <3>3
  <2> QED  BY <2>1
<1>2. ASSUME NEW n \in Nat, n \in P PROVE n + 1 \in P
  <2>1. ASSUME NEW s \in SUBSET (T \ S), Cardinality(s) = n + 1 PROVE Sum(f, S \cup s) = Sum(f, S)
    <3>1. PICK x \in s : TRUE
      <4>1. s # {}  BY <2>1, FS_EmptySet
      <4> QED  BY <4>1
    <3> DEFINE r == s \ {x}
    <3>2. r \in SUBSET (T \ S) /\ Cardinality(r) = n
      <4>1. Cardinality(s \ {x}) = Cardinality(s) - 1  BY <1>0, <3>1, FS_RemoveElement
      <4> QED  BY <2>1, <4>1
    <3>3. Sum(f, S \cup r) = Sum(f, S)
      <4> HIDE DEF r
      <4> QED  BY <1>2, <3>2
    <3>4. /\ x \notin S \cup r /\ (S \cup r) \cup {x} = S \cup s /\ f[x] = 0
      BY <3>1
    <3>5. IsFiniteSet(S \cup r) /\ Terms(f, (S \cup r) \cup {x})
      <4>1. Terms(f, S \cup s)  BY <1>0
      <4>2. IsFiniteSet(S \cup r)
        <5> HIDE DEF r
        <5> QED  BY <1>0, <3>2
      <4> QED  BY <3>4, <4>1, <4>2
    <3>6. Sum(f, S \cup r) \in Int
      <4> HIDE DEF r
      <4> QED  BY <1>0, <3>2, SumTypes
    <3>7. Sum(f, (S \cup r) \cup {x}) = f[x] + Sum(f, S \cup r)
      <4> HIDE DEF r
      <4> QED  BY <3>4, <3>5, SumPutIn
    <3> DEFINE U == (S \cup r) \cup {x}
               V == S \cup s
    <3>8. U = V  BY <3>4
    <3> HIDE DEF U, V
    <3>9. Sum(f, V) = f[x] + Sum(f, S \cup r)  BY <3>7, <3>8 DEF U
    <3> HIDE DEF r
    <3>10. Sum(f, V) = Sum(f, S)  BY <3>3, <3>4, <3>6, <3>9
    <3> QED  BY <3>10 DEF V
  <2> QED  BY <2>1
<1> HIDE DEF P
<1>3. IsFiniteSet(T \ S) /\ Cardinality(T \ S) \in Nat  BY FS_Subset, FS_CardinalityType
<1>4. Cardinality(T \ S) \in P  BY <1>1, <1>2, <1>3, Induction
<1>5. S \cup (T \ S) = S \cup T  OBVIOUS
<1> QED  BY <1>4, <1>5 DEF P

-----------------------------------------------------------------------------
(* What the elements of a queue are worth together.                        *)

Along(q, v) == [n \in DOMAIN q |-> v[q[n]]]
Worth(q, v) == Sum(Along(q, v), DOMAIN q)

LEMMA WorthIs ==
  ASSUME NEW S, NEW q \in Seq(S), NEW v, \A c \in S : v[c] \in Int
  PROVE  /\ Worth(q, v) = Sum(Along(q, v), 1..Len(q)) /\ Worth(q, v) \in Int
         /\ IsFiniteSet(1..Len(q)) /\ Len(q) \in Nat /\ Terms(Along(q, v), 1..Len(q))
         /\ \A n \in 1..Len(q) : Along(q, v)[n] = v[q[n]] /\ v[q[n]] \in Int
<1>1. Len(q) \in Nat /\ DOMAIN q = 1..Len(q)  OBVIOUS
<1>2. IsFiniteSet(1..Len(q))  BY <1>1, FS_Interval
<1>3. Worth(q, v) = Sum(Along(q, v), 1..Len(q))  BY <1>1 DEF Worth
<1>4. \A n \in 1..Len(q) : Along(q, v)[n] = v[q[n]] /\ v[q[n]] \in Int
  <2>1. \A n \in 1..Len(q) : q[n] \in S  BY <1>1, ElementOfQueue
  <2> QED  BY <1>1, <2>1 DEF Along
<1>5. Terms(Along(q, v), 1..Len(q))  BY <1>4 DEF Terms
<1> QED  BY <1>1, <1>2, <1>3, <1>4, <1>5, SumTypes

LEMMA WorthOfNumbers ==
  ASSUME NEW S, NEW q \in Seq(S), NEW v, \A c \in S : v[c] \in Nat
  PROVE  Worth(q, v) \in Nat
<1>1. \A n \in 1..Len(q) : q[n] \in S  BY ElementOfQueue
<1>2. /\ Worth(q, v) = Sum(Along(q, v), 1..Len(q)) /\ IsFiniteSet(1..Len(q))
      /\ \A n \in 1..Len(q) : Along(q, v)[n] = v[q[n]]
  BY WorthIs
<1>3. \A n \in 1..Len(q) : Along(q, v)[n] \in Nat  BY <1>1, <1>2
<1> QED  BY <1>2, <1>3, SumOfNumbers

LEMMA WorthLast ==
  ASSUME NEW S, NEW q \in Seq(S), NEW c \in S, NEW v, \A d \in S : v[d] \in Int
  PROVE  Worth(Append(q, c), v) = Worth(q, v) + v[c]
<1> DEFINE n == Len(q)
           p == Append(q, c)
<1>1. p \in Seq(S) /\ Len(p) = n + 1 /\ n \in Nat /\ p[n + 1] = c
      /\ \A i \in 1..n : p[i] = q[i]
  OBVIOUS
<1> HIDE DEF p
<1>2. /\ Worth(p, v) = Sum(Along(p, v), 1..(n + 1)) /\ Worth(q, v) = Sum(Along(q, v), 1..n)
      /\ Terms(Along(p, v), 1..(n + 1)) /\ Worth(q, v) \in Int
  BY <1>1, WorthIs
<1>3. 1..(n + 1) = (1..n) \cup {n + 1} /\ n + 1 \notin 1..n /\ IsFiniteSet(1..n)
  <2>1. n \in Nat  BY <1>1
  <2> HIDE DEF n
  <2>2. 1..(n + 1) = (1..n) \cup {n + 1} /\ n + 1 \notin 1..n  BY <2>1
  <2> QED  BY <2>1, <2>2, FS_Interval
<1>4. Sum(Along(p, v), 1..(n + 1)) = Along(p, v)[n + 1] + Sum(Along(p, v), 1..n)
  <2> HIDE DEF n
  <2>1. Terms(Along(p, v), (1..n) \cup {n + 1})  BY <1>2, <1>3
  <2>2. Sum(Along(p, v), (1..n) \cup {n + 1}) = Along(p, v)[n + 1] + Sum(Along(p, v), 1..n)
    BY <1>3, <2>1, SumPutIn
  <2> QED  BY <1>3, <2>2
<1>5. Along(p, v)[n + 1] = v[c]
  <2>1. n + 1 \in 1..Len(p)  BY <1>1
  <2> QED  BY <1>1, <2>1, WorthIs
<1>6. Sum(Along(p, v), 1..n) = Sum(Along(q, v), 1..n)
  <2>1. \A i \in 1..n : Along(p, v)[i] = Along(q, v)[i] /\ Along(p, v)[i] \in Int
    <3> SUFFICES ASSUME NEW i \in 1..n
                 PROVE  Along(p, v)[i] = Along(q, v)[i] /\ Along(p, v)[i] \in Int
      OBVIOUS
    <3>1. i \in 1..Len(p) /\ i \in 1..Len(q)  BY <1>1
    <3>2. Along(p, v)[i] = v[p[i]] /\ Along(q, v)[i] = v[q[i]] /\ v[p[i]] \in Int
      BY <1>1, <3>1, WorthIs
    <3> QED  BY <1>1, <3>2
  <2> QED  BY <1>3, <2>1, SumSame DEF Terms
<1>7. v[c] \in Int  OBVIOUS
<1> QED  BY <1>2, <1>4, <1>5, <1>6, <1>7 DEF p

LEMMA WorthHead ==
  ASSUME NEW S, NEW q \in Seq(S), q # <<>>, NEW v, \A d \in S : v[d] \in Int
  PROVE  Worth(q, v) = v[Head(q)] + Worth(Tail(q), v)
<1> DEFINE n == Len(q) - 1
           p == Tail(q)
<1>1. p \in Seq(S) /\ Len(p) = n /\ n \in Nat /\ Len(q) = n + 1 /\ Head(q) = q[1]
      /\ \A i \in 1..n : p[i] = q[i + 1]
  OBVIOUS
<1> HIDE DEF n, p
<1>2. /\ Worth(q, v) = Sum(Along(q, v), 1..(n + 1)) /\ Worth(p, v) = Sum(Along(p, v), 1..n)
      /\ Terms(Along(q, v), 1..(n + 1))
  BY <1>1, WorthIs
<1>3. \A i \in 1..n : Along(p, v)[i] = Along(q, v)[i + 1]
  <2> SUFFICES ASSUME NEW i \in 1..n PROVE Along(p, v)[i] = Along(q, v)[i + 1]
    OBVIOUS
  <2>1. i \in 1..Len(p) /\ i + 1 \in 1..Len(q)  BY <1>1
  <2>2. Along(p, v)[i] = v[p[i]]  BY <1>1, <2>1, WorthIs
  <2>3. Along(q, v)[i + 1] = v[q[i + 1]]
    <3> DEFINE k == i + 1
    <3> HIDE DEF k
    <3>1. k \in 1..Len(q)  BY <2>1 DEF k
    <3>2. Along(q, v)[k] = v[q[k]]  BY <3>1, WorthIs
    <3> QED  BY <3>2 DEF k
  <2> QED  BY <1>1, <2>2, <2>3
<1>4. Sum(Along(q, v), 1..(n + 1)) = Along(q, v)[1] + Sum(Along(p, v), 1..n)
  BY <1>1, <1>2, <1>3, SumOfTail
<1>5. Along(q, v)[1] = v[Head(q)]
  <2>1. 1 \in 1..Len(q)  BY <1>1
  <2> QED  BY <1>1, <2>1, WorthIs
<1> QED  BY <1>2, <1>4, <1>5 DEF p
=============================================================================
