-------------------------- MODULE BufferUserProofs --------------------------
(***************************************************************************)
(* The promises of BufferPool to a thread that uses it as BufferUser says, *)
(* for any set of blocks and sizes and any capacity.                       *)
(*                                                                         *)
(* The invariants of BufferUser are inductive together: that a fresh block *)
(* of malloc aliases nothing needs BlocksFit (what is pooled or held is    *)
(* not free), and that needs NoAliasing (what is freed is neither pooled   *)
(* nor held elsewhere).                                                    *)
(***************************************************************************)
EXTENDS BufferUser, SequenceTheorems, TLAPS

Inv == UserTypeOK /\ NoAliasing /\ BlocksFit /\ NoLeak /\ WithinCapacity

-----------------------------------------------------------------------------
(* What the three operations on a vector do to its elements.               *)

LEMMA BackOfVector ==
  ASSUME NEW S, NEW v \in Seq(S), v # <<>>
  PROVE  /\ Len(v) \in Nat \ {0}
         /\ Newest(v) \in S /\ Newest(v) = v[Len(v)]
         /\ Older(v) \in Seq(S)
         /\ Len(Older(v)) = Len(v) - 1
         /\ \A i \in 1..(Len(v) - 1) : Older(v)[i] = v[i]
<1>1. Len(v) \in Nat \ {0}
  BY EmptySeq, LenProperties
<1>2. \A i \in 1..Len(v) : v[i] \in S
  BY ElementOfSeq
<1>3. Newest(v) \in S /\ Newest(v) = v[Len(v)]
  BY <1>1, <1>2 DEF Newest
<1>4. /\ SubSeq(v, 1, Len(v) - 1) \in Seq(S)
      /\ Len(SubSeq(v, 1, Len(v) - 1)) = Len(v) - 1
      /\ \A i \in 1..(Len(v) - 1) : SubSeq(v, 1, Len(v) - 1)[i] = v[i]
  <2> DEFINE n == Len(v) - 1
             front == SubSeq(v, 1, n)
  <2>1. n \in Nat /\ \A i \in 1..n : v[i] \in S
    BY <1>1, <1>2
  <2> HIDE DEF n
  <2>2. /\ front \in Seq(S)
        /\ Len(front) = IF 1 <= n THEN n - 1 + 1 ELSE 0
        /\ \A i \in 1..(n - 1 + 1) : front[i] = v[1 + i - 1]
    BY <2>1, SubSeqProperties
  <2>3. Len(front) = n /\ \A i \in 1..n : front[i] = v[i]
    BY <2>1, <2>2
  <2> QED
    BY <2>2, <2>3 DEF n
<1> QED
  BY <1>1, <1>3, <1>4 DEF Older

LEMMA PushBack ==
  ASSUME NEW S, NEW v \in Seq(S), NEW a \in S
  PROVE  /\ Append(v, a) \in Seq(S)
         /\ Len(Append(v, a)) = Len(v) + 1
         /\ Append(v, a)[Len(v) + 1] = a
         /\ \A i \in 1..Len(v) : Append(v, a)[i] = v[i]
  OBVIOUS

-----------------------------------------------------------------------------
(* The invariant holds of a new pool.                                      *)

LEMMA InitialPoolsAreFresh ==
  ASSUME NEW p \in InitialPools
  PROVE  /\ p \in [Sizes -> Seq(Addr)]
         /\ \A s \in Sizes : Len(p[s]) \in Nat /\ Len(p[s]) <= InitialCapacity
         /\ Disjoint(p)
<1>1. InitialCapacity \in Nat
  BY PoolAssumption
<1>2. /\ p \in [Sizes -> {<<>>} \cup [1..InitialCapacity -> Addr]]
      /\ \A s \in Sizes : Len(p[s]) = IF s \in Managed THEN InitialCapacity ELSE 0
      /\ Disjoint(p)
  BY DEF InitialPools
<1>3. ASSUME NEW s \in Sizes PROVE p[s] \in Seq(Addr)
  <2>1. CASE p[s] = <<>>
    BY <2>1
  <2>2. CASE p[s] \in [1..InitialCapacity -> Addr]
    BY <1>1, <2>2
  <2> QED
    BY <1>2, <2>1, <2>2
<1> QED
  BY <1>1, <1>2, <1>3

LEMMA InvInit == UserInit => Inv
<1> SUFFICES ASSUME UserInit PROVE Inv
  OBVIOUS
<1>1. pools \in InitialPools
  BY EnoughBlocks DEF UserInit, PoolInit
<1>2. /\ pools \in [Sizes -> Seq(Addr)]
      /\ \A s \in Sizes : Len(pools[s]) <= InitialCapacity
      /\ Disjoint(pools)
  BY <1>1, InitialPoolsAreFresh
<1>3. \A a \in Addr : heap[a] = IF \E s \in Sizes : a \in Pooled(s)
                                THEN CHOOSE s \in Sizes : a \in Pooled(s)
                                ELSE Unallocated
  BY DEF UserInit, PoolInit
<1>4. heap \in [Addr -> Sizes \cup {Unallocated}]
  BY DEF UserInit, PoolInit
<1>5. ASSUME NEW s \in Sizes, NEW a \in Pooled(s)
      PROVE  a \in Addr /\ heap[a] = s
  <2>1. PICK i \in DOMAIN pools[s] : pools[s][i] = a
    BY DEF Pooled, Range
  <2>2. a \in Addr
    BY <1>2, <2>1, LenProperties
  <2>3. ASSUME NEW t \in Sizes, a \in Pooled(t) PROVE t = s
    <3>1. PICK j \in DOMAIN pools[t] : pools[t][j] = a
      BY <2>3 DEF Pooled, Range
    <3> QED
      BY <1>2, <2>1, <3>1 DEF Disjoint
  <2> QED
    BY <1>3, <2>2, <2>3
<1>6. held = {} /\ alive = TRUE
  BY DEF UserInit
<1> QED
  BY <1>2, <1>3, <1>4, <1>5, <1>6
     DEF Inv, UserTypeOK, PoolTypeOK, NoAliasing, BlocksFit, NoLeak, WithinCapacity
-----------------------------------------------------------------------------
(* allocate                                                                *)

LEMMA TakenIsHeld ==
  ASSUME NEW H, NEW a, NEW size
  PROVE  \E h \in H \cup {[buf |-> a, size |-> size]} : h.buf = a
<1> WITNESS [buf |-> a, size |-> size] \in H \cup {[buf |-> a, size |-> size]}
<1> QED
  OBVIOUS

LEMMA InvTake ==
  ASSUME Inv, NEW size \in Sizes, Take(size)
  PROVE  Inv'
<1> USE DEF Inv, UserTypeOK, PoolTypeOK
<1>1. PICK a \in Addr : /\ Allocate(size, a)
                        /\ held' = held \cup {[buf |-> a, size |-> size]}
  BY DEF Take
<1>2. alive' \in BOOLEAN
  BY DEF Take
<1>3. held' \subseteq Holding
  BY <1>1 DEF Holding
<1>4. Unallocated \notin Sizes
  BY PoolAssumption
<1>5. CASE HasPooled(size) /\ a = Newest(pools[size])
           /\ pools' = [pools EXCEPT ![size] = Older(@)] /\ UNCHANGED heap
  <2> DEFINE n == Len(pools[size])
  <2>1. /\ n \in Nat \ {0} /\ a = pools[size][n]
        /\ pools'[size] \in Seq(Addr) /\ Len(pools'[size]) = n - 1
        /\ \A i \in 1..(n - 1) : pools'[size][i] = pools[size][i]
    BY <1>5, BackOfVector DEF HasPooled
  <2>2. /\ pools' \in [Sizes -> Seq(Addr)]
        /\ \A s \in Sizes \ {size} : pools'[s] = pools[s]
    BY <1>5, <2>1
  <2>3. ASSUME NEW s \in Sizes PROVE Len(pools'[s]) <= Len(pools[s])
    <3>1. Len(pools[s]) \in Nat
      BY LenProperties
    <3> QED
      BY <2>1, <2>2, <3>1
  <2>4. \A s \in Sizes : \A i \in DOMAIN pools'[s] :
           i \in DOMAIN pools[s] /\ pools'[s][i] = pools[s][i]
    <3> SUFFICES ASSUME NEW s \in Sizes, NEW i \in DOMAIN pools'[s]
                 PROVE  i \in DOMAIN pools[s] /\ pools'[s][i] = pools[s][i]
      OBVIOUS
    <3>1. DOMAIN pools[size] = 1..n /\ DOMAIN pools'[size] = 1..(n - 1)
      BY <2>1, LenProperties
    <3> QED
      BY <2>1, <2>2, <3>1
  <2>5. Disjoint(pools')
    BY <2>4 DEF Disjoint, NoAliasing
  <2>6. \A s \in Sizes : a \notin Pooled(s)'
    <3> SUFFICES ASSUME NEW s \in Sizes, NEW i \in DOMAIN pools'[s], pools'[s][i] = a
                 PROVE  FALSE
      BY DEF Pooled, Range
    <3>1. n \in DOMAIN pools[size] /\ pools[size][n] = a
      BY <2>1, LenProperties
    <3>2. i \in DOMAIN pools[s] /\ pools[s][i] = a
      BY <2>4
    <3>3. s = size /\ i = n
      BY <3>1, <3>2 DEF Disjoint, NoAliasing
    <3> QED
      BY <2>1, <3>3, LenProperties
  <2>7. \A s \in Sizes : Pooled(s)' \subseteq Pooled(s)
    BY <2>4 DEF Pooled, Range
  <2>8. \A s \in Sizes : \A b \in Pooled(s) : b = a \/ b \in Pooled(s)'
    <3> SUFFICES ASSUME NEW s \in Sizes, NEW i \in DOMAIN pools[s], pools[s][i] # a
                 PROVE  pools[s][i] \in Pooled(s)'
      BY DEF Pooled, Range
    <3>1. CASE s # size
      BY <2>2, <3>1 DEF Pooled, Range
    <3>2. CASE s = size
      <4>1. i \in 1..(n - 1)
        BY <2>1, <3>2, LenProperties
      <4>2. i \in DOMAIN pools'[size]
        BY <2>1, <4>1, LenProperties
      <4> QED
        BY <2>1, <3>2, <4>1, <4>2 DEF Pooled, Range
    <3> QED
      BY <3>1, <3>2
  <2>9. a \in Pooled(size) /\ heap' = heap
    BY <1>5, <2>1, LenProperties DEF Pooled, Range
  <2>10. NoAliasing'
    BY <1>1, <2>5, <2>6, <2>7, <2>9 DEF NoAliasing
  <2>11. BlocksFit'
    BY <1>1, <2>7, <2>9 DEF BlocksFit
  <2>12. NoLeak'
    <3> SUFFICES ASSUME NEW b \in Addr, heap'[b] # Unallocated,
                        \A s \in Sizes : b \notin Pooled(s)'
                 PROVE  \E h \in held' : h.buf = b
      BY DEF NoLeak
    <3>1. CASE b = a
      <4>1. \E h \in held \cup {[buf |-> a, size |-> size]} : h.buf = a
        BY TakenIsHeld
      <4> QED
        BY <1>1, <3>1, <4>1
    <3>2. CASE b # a
      BY <1>1, <2>8, <2>9, <3>2 DEF NoLeak
    <3> QED
      BY <3>1, <3>2
  <2>13. WithinCapacity'
    <3> SUFFICES ASSUME NEW s \in Sizes PROVE Len(pools'[s]) <= InitialCapacity
      BY DEF WithinCapacity
    <3>1. Len(pools[s]) \in Nat /\ Len(pools'[s]) \in Nat
      BY <2>2, LenProperties
    <3> QED
      BY <2>3, <3>1, PoolAssumption DEF WithinCapacity
  <2> QED
    BY <1>2, <1>3, <2>2, <2>9, <2>10, <2>11, <2>12, <2>13
<1>6. CASE ~HasPooled(size) /\ Malloc(size, a) /\ UNCHANGED pools
  <2>1. heap[a] = Unallocated /\ heap' = [heap EXCEPT ![a] = size]
    BY <1>6 DEF Malloc
  <2>2. \A s \in Sizes : a \notin Pooled(s)
    BY <1>4, <2>1 DEF BlocksFit
  <2>3. \A h \in held : h.buf # a
    BY <1>4, <2>1 DEF BlocksFit, Holding
  <2>4. \A s \in Sizes : Pooled(s)' = Pooled(s)
    BY <1>6 DEF Pooled
  <2>5. \A s \in Sizes : Pooled(s) \subseteq Addr
    BY LenProperties DEF Pooled, Range
  <2>6. NoAliasing'
    BY <1>1, <1>6, <2>2, <2>3, <2>4 DEF NoAliasing
  <2>7. BlocksFit'
    BY <1>1, <2>1, <2>2, <2>3, <2>4, <2>5 DEF BlocksFit, Holding
  <2>8. NoLeak'
    <3> SUFFICES ASSUME NEW b \in Addr, heap'[b] # Unallocated,
                        \A s \in Sizes : b \notin Pooled(s)'
                 PROVE  \E h \in held' : h.buf = b
      BY DEF NoLeak
    <3>1. CASE b = a
      <4>1. \E h \in held \cup {[buf |-> a, size |-> size]} : h.buf = a
        BY TakenIsHeld
      <4> QED
        BY <1>1, <3>1, <4>1
    <3>2. CASE b # a
      BY <1>1, <2>1, <2>4, <3>2 DEF NoLeak
    <3> QED
      BY <3>1, <3>2
  <2> QED
    BY <1>2, <1>3, <1>6, <2>1, <2>6, <2>7, <2>8 DEF WithinCapacity
<1> QED
  BY <1>1, <1>5, <1>6 DEF Allocate

\* A block that allocate returns is not one that its caller already holds.
LEMMA TakenWasNotHeld ==
  ASSUME Inv, NEW size \in Sizes, NEW a \in Addr, Allocate(size, a)
  PROVE  \A h \in held : h.buf # a
<1> USE DEF Inv, UserTypeOK, PoolTypeOK
<1>1. CASE HasPooled(size) /\ a = Newest(pools[size])
  <2>1. pools[size] \in Seq(Addr) /\ pools[size] # <<>>  BY <1>1 DEF HasPooled
  <2>2. a \in Pooled(size)
    <3>1. Len(pools[size]) \in Nat \ {0} /\ a = pools[size][Len(pools[size])]
      BY <1>1, <2>1, BackOfVector
    <3> QED  BY <2>1, <3>1, LenProperties DEF Pooled, Range
  <2> QED  BY <2>2 DEF NoAliasing
<1>2. CASE Malloc(size, a)
  <2>1. heap[a] = Unallocated  BY <1>2 DEF Malloc
  <2> QED  BY <2>1, PoolAssumption DEF BlocksFit, Holding
<1> QED
  BY <1>1, <1>2 DEF Allocate

-----------------------------------------------------------------------------
(* deallocate                                                              *)

LEMMA InvGiveBack ==
  ASSUME Inv, NEW h \in held, GiveBack(h)
  PROVE  Inv'
<1> USE DEF Inv, UserTypeOK, PoolTypeOK
<1> DEFINE a == h.buf
           size == h.size
<1>1. /\ Deallocate(a, size)
      /\ held' = held \ {h}
      /\ alive' = alive
  BY DEF GiveBack
<1>2. a \in Addr /\ size \in Sizes /\ heap[a] = size
  BY DEF Holding, BlocksFit
<1>3. /\ \A s \in Sizes : a \notin Pooled(s)
      /\ \A g \in held' : g \in held /\ g.buf # a
  BY <1>1 DEF NoAliasing
<1> HIDE DEF a, size
<1>4. CASE HasRoom(size) /\ pools' = [pools EXCEPT ![size] = Append(@, a)] /\ UNCHANGED heap
  <2> DEFINE n == Len(pools[size])
  <2>1. /\ n \in Nat /\ n < InitialCapacity
        /\ pools'[size] \in Seq(Addr) /\ Len(pools'[size]) = n + 1
        /\ pools'[size][n + 1] = a
        /\ \A i \in 1..n : pools'[size][i] = pools[size][i]
    BY <1>2, <1>4, PushBack, LenProperties DEF HasRoom
  <2>2. /\ pools' \in [Sizes -> Seq(Addr)]
        /\ \A s \in Sizes \ {size} : pools'[s] = pools[s]
    BY <1>2, <1>4, <2>1
  <2>3. DOMAIN pools[size] = 1..n /\ DOMAIN pools'[size] = 1..(n + 1)
    BY <1>2, <2>1, LenProperties
  <2>4. ASSUME NEW s \in Sizes, NEW i \in DOMAIN pools'[s]
        PROVE  \/ s = size /\ i = n + 1 /\ pools'[s][i] = a
               \/ i \in DOMAIN pools[s] /\ pools'[s][i] = pools[s][i]
    <3>1. CASE s # size
      BY <2>2, <3>1
    <3>2. CASE s = size
      <4>1. i \in 1..(n + 1)
        BY <2>3, <3>2
      <4>2. i = n + 1 \/ i \in 1..n
        BY <2>1, <4>1
      <4> QED
        BY <2>1, <2>3, <3>2, <4>2
    <3> QED
      BY <3>1, <3>2
  <2>5. ASSUME NEW s \in Sizes, NEW i \in DOMAIN pools[s]
        PROVE  pools[s][i] # a
    BY <1>3 DEF Pooled, Range
  <2>6. Disjoint(pools')
    <3> SUFFICES ASSUME NEW s \in Sizes, NEW t \in Sizes,
                        NEW i \in DOMAIN pools'[s], NEW j \in DOMAIN pools'[t],
                        pools'[s][i] = pools'[t][j]
                 PROVE  s = t /\ i = j
      BY DEF Disjoint
    <3>1. CASE i \in DOMAIN pools[s] /\ pools'[s][i] = pools[s][i]
      <4>1. j \in DOMAIN pools[t] /\ pools'[t][j] = pools[t][j]
        BY <2>4, <2>5, <3>1
      <4>2. pools[s][i] = pools[t][j]
        BY <3>1, <4>1
      <4>3. Disjoint(pools)
        BY DEF NoAliasing
      <4> QED
        BY <3>1, <4>1, <4>2, <4>3 DEF Disjoint
    <3>2. CASE s = size /\ i = n + 1 /\ pools'[s][i] = a
      BY <2>4, <2>5, <3>2
    <3> QED
      BY <2>4, <3>1, <3>2
  <2>7. ASSUME NEW s \in Sizes, NEW b \in Pooled(s)'
        PROVE  b \in Pooled(s) \/ (s = size /\ b = a)
    BY <2>4 DEF Pooled, Range
  <2>8. ASSUME NEW s \in Sizes, NEW b \in Pooled(s)
        PROVE  b \in Pooled(s)'
    <3>1. PICK i \in DOMAIN pools[s] : pools[s][i] = b
      BY DEF Pooled, Range
    <3>2. i \in DOMAIN pools'[s] /\ pools'[s][i] = b
      <4>1. CASE s # size
        BY <2>2, <3>1, <4>1
      <4>2. CASE s = size
        <5>1. i \in 1..n
          BY <2>3, <3>1, <4>2
        <5>2. i \in 1..(n + 1)
          BY <2>1, <5>1
        <5> QED
          BY <2>1, <2>3, <3>1, <4>2, <5>1, <5>2
      <4> QED
        BY <4>1, <4>2
    <3> QED
      BY <3>2 DEF Pooled, Range
  <2>9. a \in Pooled(size)'
    BY <2>1, <2>3 DEF Pooled, Range
  <2>10. NoAliasing'
    BY <1>1, <1>3, <2>6, <2>7 DEF NoAliasing
  <2>11. BlocksFit'
    BY <1>1, <1>2, <1>4, <2>7 DEF BlocksFit
  <2>12. NoLeak'
    <3> SUFFICES ASSUME NEW b \in Addr, heap'[b] # Unallocated,
                        \A s \in Sizes : b \notin Pooled(s)'
                 PROVE  \E g \in held' : g.buf = b
      BY DEF NoLeak
    <3>1. b # a /\ heap[b] # Unallocated /\ \A s \in Sizes : b \notin Pooled(s)
      BY <1>2, <1>4, <2>8, <2>9
    <3>2. PICK g \in held : g.buf = b
      BY <3>1 DEF NoLeak
    <3> QED
      BY <1>1, <3>1, <3>2 DEF a
  <2>13. WithinCapacity'
    <3> SUFFICES ASSUME NEW s \in Sizes PROVE Len(pools'[s]) <= InitialCapacity
      BY DEF WithinCapacity
    <3>1. CASE s = size
      BY <2>1, <3>1, PoolAssumption
    <3>2. CASE s # size
      BY <2>2, <3>2 DEF WithinCapacity
    <3> QED
      BY <3>1, <3>2
  <2> QED
    BY <1>1, <1>4, <2>2, <2>10, <2>11, <2>12, <2>13
<1>5. CASE ~HasRoom(size) /\ Free(a) /\ UNCHANGED pools
  <2>1. heap' = [heap EXCEPT ![a] = Unallocated] /\ pools' = pools
    BY <1>5 DEF Free
  <2>2. \A s \in Sizes : Pooled(s)' = Pooled(s)
    BY <2>1 DEF Pooled
  <2>3. NoAliasing'
    BY <1>1, <2>1, <2>2 DEF NoAliasing
  <2>4. \A s \in Sizes : Pooled(s) \subseteq Addr
    BY LenProperties DEF Pooled, Range
  <2>5. BlocksFit'
    BY <1>1, <1>3, <2>1, <2>2, <2>4 DEF BlocksFit, Holding
  <2>6. NoLeak'
    <3> SUFFICES ASSUME NEW b \in Addr, heap'[b] # Unallocated,
                        \A s \in Sizes : b \notin Pooled(s)'
                 PROVE  \E g \in held' : g.buf = b
      BY DEF NoLeak
    <3>1. b # a /\ heap[b] # Unallocated
      BY <1>2, <2>1
    <3>2. PICK g \in held : g.buf = b
      BY <2>2, <3>1 DEF NoLeak
    <3> QED
      BY <1>1, <3>1, <3>2 DEF a
  <2> QED
    BY <1>1, <2>1, <2>3, <2>5, <2>6 DEF WithinCapacity
<1> QED
  BY <1>1, <1>4, <1>5 DEF Deallocate

-----------------------------------------------------------------------------
(* The destructor                                                          *)

LEMMA InvLeaveScope ==
  ASSUME Inv, LeaveScope
  PROVE  Inv'
<1> USE DEF Inv, UserTypeOK, PoolTypeOK
<1>1. /\ pools' = [s \in Sizes |-> <<>>]
      /\ heap' = [a \in Addr |-> IF \E s \in Sizes : a \in Pooled(s)
                                  THEN Unallocated ELSE heap[a]]
      /\ held' = held /\ alive' = FALSE
  BY DEF LeaveScope, DestroyPool
<1>2. \A s \in Sizes : Pooled(s)' = {} /\ pools'[s] = <<>> /\ Len(pools'[s]) = 0
  BY <1>1 DEF Pooled, Range
<1>3. /\ pools' \in [Sizes -> Seq(Addr)]
      /\ heap' \in [Addr -> Sizes \cup {Unallocated}]
  BY <1>1
<1>4. NoAliasing'
  <2>1. Disjoint(pools')
    BY <1>2 DEF Disjoint
  <2> QED
    BY <1>1, <1>2, <2>1 DEF NoAliasing
<1>5. BlocksFit'
  BY <1>1, <1>2 DEF BlocksFit, NoAliasing, Holding
<1>6. NoLeak'
  BY <1>1 DEF NoLeak
<1>7. WithinCapacity'
  BY <1>2, PoolAssumption DEF WithinCapacity
<1> QED
  BY <1>1, <1>3, <1>4, <1>5, <1>6, <1>7

-----------------------------------------------------------------------------

LEMMA InvStep == Inv /\ [UserNext]_userVars => Inv'
<1> SUFFICES ASSUME Inv, [UserNext]_userVars PROVE Inv'
  OBVIOUS
<1>1. CASE \E size \in Sizes : Take(size)
  BY <1>1, InvTake
<1>2. CASE \E h \in held : GiveBack(h)
  BY <1>2, InvGiveBack
<1>3. CASE LeaveScope
  BY <1>3, InvLeaveScope
<1>4. CASE UNCHANGED userVars
  BY <1>4 DEF userVars, Inv, UserTypeOK, PoolTypeOK, NoAliasing, BlocksFit,
              NoLeak, WithinCapacity, Pooled
<1> QED
  BY <1>1, <1>2, <1>3, <1>4 DEF UserNext

(***************************************************************************)
(* The pool keeps every promise of BufferUser (buffer_pool.hpp): its       *)
(* vectors and what it handed out never overlap.                           *)
(***************************************************************************)
THEOREM PoolKeepsPromises == UserSpec => []Inv
  BY InvInit, InvStep, PTL DEF UserSpec

(***************************************************************************)
(* No block has two owners, for any number of blocks, sizes and capacity.  *)
(***************************************************************************)
THEOREM PoolNeverAliases == UserSpec => []NoAliasing
  BY PoolKeepsPromises, PTL DEF Inv

(***************************************************************************)
(* No live block is lost, whichever branch allocate and deallocate take.   *)
(***************************************************************************)
THEOREM PoolNeverLeaks == UserSpec => []NoLeak
  BY PoolKeepsPromises, PTL DEF Inv

(***************************************************************************)
(* No block in use was freed, or is smaller than its holder believes.      *)
(***************************************************************************)
THEOREM PoolBlocksFit == UserSpec => []BlocksFit
  BY PoolKeepsPromises, PTL DEF Inv

(***************************************************************************)
(* The vectors hold blocks of the address space only, and what is held is  *)
(* a block with a size the pool manages or allocates.                      *)
(***************************************************************************)
THEOREM PoolTypesHold == UserSpec => []UserTypeOK
  BY PoolKeepsPromises, PTL DEF Inv
=============================================================================
