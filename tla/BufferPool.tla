------------------------------ MODULE BufferPool ------------------------------
(***************************************************************************)
(* BufferPool (src/buffer_pool.hpp): one vector of recycled heap blocks    *)
(* for each buffer size named to the constructor, backed by malloc/free.   *)
(* Both io_uring programs keep one pool per thread, and the blocks double  *)
(* as the user_data of the ring's operations.                              *)
(*                                                                         *)
(* The heap records the size each live block was malloc'ed with.  The name *)
(* of a block carries no meaning, so malloc returns a representative one.  *)
(***************************************************************************)
EXTENDS Integers, Sequences, Functions

CONSTANTS
  Addr,             \* names of heap blocks
  Sizes,            \* the sizes callers ever ask for
  BufferSizes,      \* the sizes passed to the constructor
  InitialCapacity,  \* initial_capacity, and so the capacity of each vector
  AllocateMalloc    \* the ALLOCATE_MALLOC build option

Unallocated == "unallocated"

\* The vectors that exist: with ALLOCATE_MALLOC the constructor makes none.
Managed == IF AllocateMalloc THEN {} ELSE BufferSizes

\* The blocks the constructor mallocs are pairwise different.
Disjoint(p) ==
  \A s, t \in Sizes : \A i \in DOMAIN p[s], j \in DOMAIN p[t] :
    p[s][i] = p[t][j] => s = t /\ i = j

InitialPools ==
  {p \in [Sizes -> {<<>>} \cup [1..InitialCapacity -> Addr]] :
     /\ \A s \in Sizes : Len(p[s]) = IF s \in Managed THEN InitialCapacity ELSE 0
     /\ Disjoint(p)}

ASSUME PoolAssumption ==
  /\ Unallocated \notin Sizes
  /\ BufferSizes \subseteq Sizes
  /\ InitialCapacity \in Nat
  /\ AllocateMalloc \in BOOLEAN

ASSUME EnoughBlocks == InitialPools # {}

VARIABLES
  pools,  \* pools[s]: the vector of size s, its back at the end
  heap    \* heap[a]: the size a was malloc'ed with, or Unallocated

poolVars == <<pools, heap>>

Pooled(s) == Range(pools[s])

PoolTypeOK ==
  /\ pools \in [Sizes -> Seq(Addr)]
  /\ heap \in [Addr -> Sizes \cup {Unallocated}]

-----------------------------------------------------------------------------

PoolInit ==
  /\ pools = CHOOSE p \in InitialPools : TRUE
  /\ heap = [a \in Addr |-> IF \E s \in Sizes : a \in Pooled(s)
                              THEN CHOOSE s \in Sizes : a \in Pooled(s)
                              ELSE Unallocated]

\* std::malloc(size), which is assumed to succeed: the code never looks.
Malloc(size, a) ==
  /\ \E b \in Addr : heap[b] = Unallocated
  /\ a = CHOOSE b \in Addr : heap[b] = Unallocated
  /\ heap' = [heap EXCEPT ![a] = size]

Free(a) == heap' = [heap EXCEPT ![a] = Unallocated]

\* The last block of a vector, and what pop_back() leaves of it.
Newest(v) == v[Len(v)]
Older(v) == SubSeq(v, 1, Len(v) - 1)

HasPooled(size) == size \in Managed /\ pools[size] # <<>>

\* allocate(size) returns a.
AllocateForgetsPop(size, a) ==          \* mutant: pop_back() is missing
  \/ HasPooled(size) /\ a = Newest(pools[size]) /\ UNCHANGED poolVars
  \/ ~HasPooled(size) /\ Malloc(size, a) /\ UNCHANGED pools

Allocate(size, a) ==
  \/ /\ HasPooled(size)
     /\ a = Newest(pools[size])
     /\ pools' = [pools EXCEPT ![size] = Older(@)]
     /\ UNCHANGED heap
  \/ /\ ~HasPooled(size)
     /\ Malloc(size, a)
     /\ UNCHANGED pools

HasRoom(size) == size \in Managed /\ Len(pools[size]) < InitialCapacity

\* deallocate(a, size): back to the vector while it has capacity.
DeallocatePushesAndFrees(a, size) ==    \* mutant: the return is missing
  /\ pools' = IF HasRoom(size) THEN [pools EXCEPT ![size] = Append(@, a)] ELSE pools
  /\ Free(a)

DeallocateDropsBlock(a, size) ==        \* mutant: the fallback free() is missing
  /\ pools' = IF HasRoom(size) THEN [pools EXCEPT ![size] = Append(@, a)] ELSE pools
  /\ UNCHANGED heap

Deallocate(a, size) ==
  \/ /\ HasRoom(size)
     /\ pools' = [pools EXCEPT ![size] = Append(@, a)]
     /\ UNCHANGED heap
  \/ /\ ~HasRoom(size)
     /\ Free(a)
     /\ UNCHANGED pools

\* Mutant of DestroyPool: only what the constructor made is cleared.
DestroyManaged ==
  /\ pools' = [s \in Managed |-> <<>>]
  /\ heap' = [a \in Addr |-> IF \E s \in Managed : a \in Pooled(s)
                               THEN Unallocated ELSE heap[a]]

\* ~BufferPool(): frees what the vectors hold; blocks still out stay live.
DestroyPool ==
  /\ pools' = [s \in Sizes |-> <<>>]
  /\ heap' = [a \in Addr |-> IF \E s \in Sizes : a \in Pooled(s)
                               THEN Unallocated ELSE heap[a]]
=============================================================================
