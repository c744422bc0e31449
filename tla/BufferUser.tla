------------------------------ MODULE BufferUser ------------------------------
(***************************************************************************)
(* The contract between a BufferPool and the thread that owns it.  The     *)
(* thread takes a block of a size, holds it (as user_data of an operation  *)
(* the kernel may still be executing), and gives it back once, under the   *)
(* same size.  Under that discipline the pool keeps its promises below.    *)
(* The client and the server threads are shown to follow it: each is       *)
(* checked to implement this specification.                                *)
(***************************************************************************)
EXTENDS BufferPool

VARIABLES
  held,   \* the blocks handed out and not yet given back, with their sizes
  alive   \* FALSE once the pool was destroyed at the end of its scope

userVars == <<pools, heap, held, alive>>

Holding == [buf : Addr, size : Sizes]

UserTypeOK ==
  /\ PoolTypeOK
  /\ held \subseteq Holding
  /\ alive \in BOOLEAN

UserInit == PoolInit /\ held = {} /\ alive = TRUE

Take(size) ==
  /\ alive
  /\ \E a \in Addr : Allocate(size, a) /\ held' = held \cup {[buf |-> a, size |-> size]}
  /\ UNCHANGED alive

GiveBack(h) ==
  /\ alive
  /\ Deallocate(h.buf, h.size)
  /\ held' = held \ {h}
  /\ UNCHANGED alive

LeaveScope ==
  /\ alive
  /\ DestroyPool
  /\ alive' = FALSE
  /\ UNCHANGED held

UserNext ==
  \/ \E size \in Sizes : Take(size)
  \/ \E h \in held : GiveBack(h)
  \/ LeaveScope

UserSpec == UserInit /\ [][UserNext]_userVars

-----------------------------------------------------------------------------

(***************************************************************************)
(* No block has two owners: the vectors hold no block twice, no block in a *)
(* vector is also held by the thread or the kernel, and no block was       *)
(* handed out twice (buffer_pool.hpp allocate/deallocate).                 *)
(***************************************************************************)
NoAliasing ==
  /\ Disjoint(pools)
  /\ \A h \in held : \A s \in Sizes : h.buf \notin Pooled(s)
  /\ \A g, h \in held : g.buf = h.buf => g = h

(***************************************************************************)
(* A block is live for as long as a vector or the thread can reach it, and *)
(* it is as large as the vector or the caller believes, so recycling never *)
(* hands out a block that is too small or freed.                           *)
(***************************************************************************)
BlocksFit ==
  /\ \A s \in Sizes : \A a \in Pooled(s) : heap[a] = s
  /\ \A h \in held : heap[h.buf] = h.size

(***************************************************************************)
(* Every live block is reachable: in a vector or held.  allocate and       *)
(* deallocate lose no block, whichever branch they take.                   *)
(***************************************************************************)
NoLeak ==
  \A a \in Addr : heap[a] # Unallocated =>
    \/ \E s \in Sizes : a \in Pooled(s)
    \/ \E h \in held : h.buf = a

(***************************************************************************)
(* A vector never outgrows the capacity reserved at construction, so the   *)
(* size < capacity test of deallocate keeps push_back from reallocating.   *)
(***************************************************************************)
WithinCapacity == \A s \in Sizes : Len(pools[s]) <= InitialCapacity
=============================================================================
