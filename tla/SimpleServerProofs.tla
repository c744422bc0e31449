-------------------------- MODULE SimpleServerProofs --------------------------
(***************************************************************************)
(* Safety of one handler thread, for every RING_SIZE from 4 up, every      *)
(* number of requests and any client.                                      *)
(*                                                                         *)
(* What the handler believes of a completion is what its buffer says.      *)
(* That this is true (TypesOK) rests on no two operations sharing a buffer *)
(* (Apart), and this on the promises of the pool, which hold only for      *)
(* those who use it as BufferUser says.  So the three are proved together, *)
(* each step of the handler being one of BufferUser or none.               *)
(***************************************************************************)
EXTENDS SimpleServer, DataLemmas

Held == {[buf |-> o.data, size |-> "page"] : o \in Outstanding}
Alive == pc \in {"start", "serve", "exited"}
User == INSTANCE BufferUserProofs WITH held <- Held, alive <- Alive

Cqe == [op : {"read", "write"}, data : Addr, res : Int]

RingOK ==
  /\ pc \in {"start", "serve", "return", "finished", "exited"}
  /\ mem = [a \in Addr |-> [event_type |-> mem[a].event_type, word |-> mem[a].word]]
  /\ inflight \subseteq Op /\ cq \in Seq(Cqe)
  /\ pc = "start" => cq = <<>>

Apart ==
  /\ \A o, p \in inflight : o.data = p.data => o = p
  /\ \A m, n \in DOMAIN cq : cq[m].data = cq[n].data => m = n
  /\ \A o \in inflight : \A n \in DOMAIN cq : o.data # cq[n].data

TypesOK ==
  /\ \A o \in inflight : mem[o.data].event_type = o.op
  /\ \A n \in DOMAIN cq : mem[cq[n].data].event_type = cq[n].op

ReadsOK ==
  /\ pc = "start" => \A o \in inflight : o.op = "read"
  /\ pc = "start" => IsFiniteSet(inflight) /\ Cardinality(inflight) <= RingSize \div 4
  /\ pc # "start" => Cardinality(ReadsOutstanding) = RingSize \div 4

ServerInv == RingOK /\ Apart /\ TypesOK /\ ReadsOK /\ User!Inv

-----------------------------------------------------------------------------
(* The completion queue, and what is outstanding.                          *)

\* Outstanding, by places in the queue.
LEMMA OutstandingIs ==
  Outstanding = inflight \cup {OpOf(cq[n]) : n \in DOMAIN cq}
BY DEF Outstanding, Range

LEMMA Completions ==
  ASSUME RingOK, NEW n \in DOMAIN cq
  PROVE  /\ cq[n].op \in {"read", "write"} /\ cq[n].data \in Addr /\ cq[n].res \in Int
         /\ OpOf(cq[n]) \in Op /\ OpOf(cq[n]).data = cq[n].data /\ OpOf(cq[n]).op = cq[n].op
<1>1. cq \in Seq(Cqe)  BY DEF RingOK
<1>2. cq[n] \in Cqe  BY <1>1, ElementOfQueue
<1> QED  BY <1>2 DEF Cqe, OpOf, Op

\* Two operations are the same if they have the same buffer.
LEMMA OutstandingApart ==
  ASSUME RingOK, Apart, NEW o \in Outstanding, NEW p \in Outstanding, o.data = p.data
  PROVE  o = p
<1>1. \A n \in DOMAIN cq : OpOf(cq[n]).data = cq[n].data  BY Completions
<1> QED  BY <1>1, OutstandingIs DEF Apart

LEMMA OutstandingTypes ==
  ASSUME RingOK, TypesOK, NEW o \in Outstanding
  PROVE  o \in Op /\ mem[o.data].event_type = o.op
<1>1. \A n \in DOMAIN cq : /\ OpOf(cq[n]) \in Op /\ OpOf(cq[n]).data = cq[n].data
                           /\ OpOf(cq[n]).op = cq[n].op
  BY Completions
<1> QED  BY <1>1, OutstandingIs DEF RingOK, TypesOK

-----------------------------------------------------------------------------

\* The assumptions of the pool, as BufferUserProofs makes them.
LEMMA PoolAssumptions ==
  /\ User!InitialPools # {} /\ User!Unallocated \notin Sizes
  /\ BufferSizes \subseteq Sizes /\ InitialCapacity \in Nat /\ AllocateMalloc \in BOOLEAN
BY EnoughBlocks, PoolAssumption
   DEF User!InitialPools, InitialPools, User!Managed, Managed, User!Disjoint, Disjoint,
       User!Unallocated, Unallocated

\* What a step of the handler is to its pool.
UserStep == User!UserNext \/ UNCHANGED <<pools, heap, Held, Alive>>

LEMMA PoolIsKept == User!Inv /\ UserStep => User!Inv'
BY User!InvStep, PoolAssumptions DEF User!userVars, UserStep

LEMMA SamePool ==
  /\ User!PoolInit <=> PoolInit
  /\ \A size, a : User!Allocate(size, a) <=> Allocate(size, a)
  /\ \A size, a : User!Deallocate(a, size) <=> Deallocate(a, size)
  /\ User!DestroyPool <=> DestroyPool
<1>1. User!PoolInit <=> PoolInit
  BY DEF User!PoolInit, PoolInit, User!InitialPools, InitialPools, User!Managed, Managed,
         User!Disjoint, Disjoint, User!Unallocated, Unallocated, User!Pooled, Pooled,
         Range, User!Range
<1>2. \A size, a : User!Allocate(size, a) <=> Allocate(size, a)
  BY DEF User!Allocate, Allocate, User!HasPooled, HasPooled, User!Managed, Managed,
         User!Malloc, Malloc, User!Unallocated, Unallocated, User!Newest, Newest,
         User!Older, Older, User!poolVars
<1>3. \A size, a : User!Deallocate(a, size) <=> Deallocate(a, size)
  BY DEF User!Deallocate, Deallocate, User!HasRoom, HasRoom, User!Managed, Managed,
         User!Free, Free, User!Unallocated, Unallocated
<1>4. User!DestroyPool <=> DestroyPool
  BY DEF User!DestroyPool, DestroyPool, User!Pooled, Pooled, User!Unallocated, Unallocated,
         Range, User!Range
<1> QED
  BY <1>1, <1>2, <1>3, <1>4

-----------------------------------------------------------------------------

LEMMA InvInit == ServerInit => ServerInv
<1> SUFFICES ASSUME ServerInit PROVE ServerInv
  OBVIOUS
<1>1. Held = {}
  BY DEF ServerInit, Held, Outstanding, Range
<1>2. User!Inv
  <2>1. User!UserInit  BY <1>1, SamePool DEF ServerInit, User!UserInit, Alive
  <2> QED  BY <2>1, User!InvInit, PoolAssumptions
<1>3. RingOK
  <2>1. \A a \in Addr : mem[a] = [event_type |-> mem[a].event_type, word |-> mem[a].word]
    BY DEF ServerInit, Blank
  <2> QED  BY <2>1 DEF ServerInit, RingOK
<1>4. ReadsOK
  <2>1. IsFiniteSet({}) /\ Cardinality({}) = 0  BY FS_EmptySet
  <2>2. RingSize \div 4 \in Nat  BY ServerAssumption
  <2> QED  BY <2>1, <2>2 DEF ServerInit, ReadsOK
<1> QED
  BY <1>2, <1>3, <1>4 DEF ServerInit, ServerInv, Apart, TypesOK

\* Steps of the handler and of the kernel that leave the pool alone.
LEMMA InvOutside ==
  ASSUME ServerInv, RingOK', Apart', TypesOK', UNCHANGED <<poolVars, Outstanding, Alive>>,
         pc' = "start" => pc = "start" /\ inflight' = inflight,
         pc' # "start" => pc # "start" \/ Cardinality(ReadsOutstanding) = RingSize \div 4
  PROVE  ServerInv' /\ UserStep
<1>1. UNCHANGED <<pools, heap, Held, Alive>>
  BY DEF poolVars, Held
<1>2. UserStep /\ User!Inv'
  BY <1>1, PoolIsKept DEF ServerInv, UserStep
<1>3. ReadsOK'
  BY DEF ServerInv, ReadsOK, ReadsOutstanding
<1> QED
  BY <1>2, <1>3 DEF ServerInv

LEMMA InvComplete ==
  ASSUME ServerInv, Running, NEW o \in inflight, NEW res \in Int, Complete(o, res),
         UNCHANGED <<pc, poolVars>>,
         mem' = [a \in Addr |-> [event_type |-> mem[a].event_type, word |-> mem'[a].word]]
  PROVE  ServerInv' /\ UserStep
<1> DEFINE c == [op |-> o.op, data |-> o.data, res |-> res]
<1>0. RingOK /\ Apart /\ TypesOK  BY DEF ServerInv
<1>1. inflight' = inflight \ {o} /\ cq' = Append(cq, c)  BY DEF Complete
<1>2. o \in Op /\ c \in Cqe  BY <1>0 DEF RingOK, Op, Cqe
<1>3. c.data = o.data /\ c.op = o.op /\ OpOf(c) = o  BY <1>2 DEF OpOf, Op
<1> HIDE DEF c
<1> DEFINE m == Len(cq) + 1
<1>4. /\ cq' \in Seq(Cqe) /\ DOMAIN cq' = DOMAIN cq \cup {m} /\ m \notin DOMAIN cq
      /\ \A n \in DOMAIN cq : cq'[n] = cq[n]
      /\ cq'[m] = c
  BY <1>0, <1>1, <1>2, QueueLast DEF RingOK
<1> HIDE DEF m
<1>5. RingOK'
  <2>1. \A a \in Addr : mem'[a] = [event_type |-> mem[a].event_type, word |-> mem'[a].word]
    OBVIOUS
  <2>2. mem' = [a \in Addr |-> [event_type |-> mem'[a].event_type, word |-> mem'[a].word]]
    BY <2>1
  <2> QED  BY <1>0, <1>1, <1>4, <2>2 DEF RingOK, Running
<1>6. Apart'
  BY <1>0, <1>1, <1>3, <1>4 DEF Apart
<1>7. TypesOK'
  <2>1. \A a \in Addr : mem'[a].event_type = mem[a].event_type  OBVIOUS
  <2>2. \A p \in inflight : p.data \in Addr  BY <1>0 DEF RingOK, Op
  <2>3. \A n \in DOMAIN cq : cq[n].data \in Addr
    BY <1>0, Completions
  <2> QED  BY <1>0, <1>1, <1>3, <1>4, <2>1, <2>2, <2>3 DEF TypesOK
<1>8. Outstanding' = Outstanding
  <2>1. Outstanding' = inflight' \cup {OpOf(cq'[n]) : n \in DOMAIN cq'}
    BY DEF Outstanding, Range, OpOf
  <2>2. {OpOf(cq'[n]) : n \in DOMAIN cq'} = {OpOf(cq[n]) : n \in DOMAIN cq} \cup {o}
    BY <1>3, <1>4
  <2> QED  BY <1>1, <2>1, <2>2, OutstandingIs
<1> QED
  BY <1>5, <1>6, <1>7, <1>8, InvOutside DEF Running, Alive

\* What writing one field of a block does to what the blocks say.
LEMMA FieldOfBlock ==
  ASSUME NEW m, m = [a \in Addr |-> [event_type |-> m[a].event_type, word |-> m[a].word]],
         NEW b \in Addr, NEW v
  PROVE  /\ [m EXCEPT ![b].event_type = v] =
              [a \in Addr |-> [event_type |-> IF a = b THEN v ELSE m[a].event_type,
                               word |-> m[a].word]]
         /\ [m EXCEPT ![b].word = v] =
              [a \in Addr |-> [event_type |-> m[a].event_type,
                               word |-> IF a = b THEN v ELSE m[a].word]]
<1>1. m[b] = [event_type |-> m[b].event_type, word |-> m[b].word]  OBVIOUS
<1>2. [m[b] EXCEPT !.event_type = v] = [event_type |-> v, word |-> m[b].word]
  BY <1>1
<1>3. [m[b] EXCEPT !.word = v] = [event_type |-> m[b].event_type, word |-> v]
  BY <1>1
<1>4. \A a \in Addr : m[a] = [event_type |-> m[a].event_type, word |-> m[a].word]
  OBVIOUS
<1>5. m = [a \in Addr |-> m[a]]  OBVIOUS
<1> QED  BY <1>2, <1>3, <1>4, <1>5

LEMMA InvKernel == ServerInv /\ ServerKernel => ServerInv' /\ UserStep
<1> SUFFICES ASSUME ServerInv, ServerKernel PROVE ServerInv' /\ UserStep
  OBVIOUS
<1>0. mem = [a \in Addr |-> [event_type |-> mem[a].event_type, word |-> mem[a].word]]
  BY DEF ServerInv, RingOK
<1>1. CASE KernelRead
  <2>1. PICK o \in inflight, n \in 1..RequestUnits :
          /\ mem' = [mem EXCEPT ![o.data].word =
                [i \in 1..RequestUnits |-> IF i <= n THEN SubSeq(toServer, 1, n)[i] ELSE @[i]]]
          /\ Complete(o, n)
    BY <1>1 DEF KernelRead
  <2> DEFINE w == [i \in 1..RequestUnits |->
                     IF i <= n THEN SubSeq(toServer, 1, n)[i] ELSE mem[o.data].word[i]]
  <2>2. mem' = [mem EXCEPT ![o.data].word = w]  BY <2>1
  <2> HIDE DEF w
  <2>3. o.data \in Addr  BY DEF ServerInv, RingOK, Op
  <2>4. mem' = [a \in Addr |-> [event_type |-> mem[a].event_type,
                                word |-> IF a = o.data THEN w ELSE mem[a].word]]
    BY <1>0, <2>2, <2>3, FieldOfBlock
  <2>5. \A a \in Addr : mem'[a].word = IF a = o.data THEN w ELSE mem[a].word  BY <2>4
  <2>6. mem' = [a \in Addr |-> [event_type |-> mem[a].event_type, word |-> mem'[a].word]]
    BY <2>4, <2>5
  <2>7. n \in Int /\ RequestUnits \in Nat  BY <2>1, TcpAssumption
  <2> QED
    BY <1>1, <2>1, <2>6, <2>7, InvComplete DEF KernelRead
<1>2. CASE KernelReadEnd \/ KernelWrite
  <2>1. PICK o \in inflight, res \in {0, Error} \cup 1..PageUnits : Complete(o, res)
    BY <1>2 DEF KernelReadEnd, KernelWrite
  <2>2. res \in Int  BY TcpAssumption DEF Error
  <2>3. mem' = mem /\ Running /\ UNCHANGED <<pc, poolVars>>
    BY <1>2 DEF KernelReadEnd, KernelWrite
  <2>4. mem' = [a \in Addr |-> [event_type |-> mem[a].event_type, word |-> mem'[a].word]]
    BY <1>0, <2>3
  <2> QED
    BY <2>1, <2>2, <2>3, <2>4, InvComplete
<1> QED
  BY <1>1, <1>2 DEF ServerKernel

-----------------------------------------------------------------------------

\* A block that allocate returns is not one that the handler or the kernel has.
LEMMA FreshBlock ==
  ASSUME ServerInv, NEW a \in Addr, Allocate("page", a)
  PROVE  /\ \A o \in Outstanding : o.data # a
         /\ \A o \in inflight : o.data # a
         /\ \A n \in DOMAIN cq : cq[n].data # a
<1>1. User!Allocate("page", a)  BY SamePool
<1>2. \A h \in Held : h.buf # a
  BY <1>1, User!TakenWasNotHeld, PoolAssumptions, ServerAssumption DEF ServerInv
<1>3. ASSUME NEW o \in Outstanding PROVE o.data # a
  <2>1. [buf |-> o.data, size |-> "page"] \in Held  BY DEF Held
  <2> QED  BY <1>2, <2>1
<1>4. \A n \in DOMAIN cq : OpOf(cq[n]) \in Outstanding /\ OpOf(cq[n]).data = cq[n].data
  BY OutstandingIs, Completions DEF ServerInv
<1> QED  BY <1>3, <1>4, OutstandingIs

\* Allocating for one more operation is Take.
LEMMA TakesFromPool ==
  ASSUME ServerInv, NEW a \in Addr, Allocate("page", a), NEW o, o.data = a,
         Outstanding' = Outstanding \cup {o}, Alive, Alive'
  PROVE  UserStep /\ User!Inv'
<1>1. Held' = Held \cup {[buf |-> a, size |-> "page"]}  BY DEF Held
<1>2. User!Allocate("page", a)  BY SamePool
<1>3. User!Take("page")  BY <1>1, <1>2 DEF User!Take
<1>4. User!UserNext  BY <1>3, ServerAssumption DEF User!UserNext
<1> QED  BY <1>4, PoolIsKept DEF ServerInv, UserStep

LEMMA InvPostRead == ServerInv /\ PostRead => ServerInv' /\ UserStep
<1> SUFFICES ASSUME ServerInv, PostRead PROVE ServerInv' /\ UserStep
  OBVIOUS
<1>0. RingOK /\ Apart /\ TypesOK /\ ReadsOK  BY DEF ServerInv
<1>1. PICK a \in Addr :
        /\ Allocate("page", a)
        /\ mem' = [mem EXCEPT ![a].event_type = "read"]
        /\ inflight' = inflight \cup {add_read_request(a)}
  BY DEF PostRead
<1> DEFINE o == [op |-> "read", data |-> a]
<1>2. /\ inflight' = inflight \cup {o} /\ o \in Op /\ o.data = a /\ o.op = "read"
  BY <1>1 DEF add_read_request, Op
<1> HIDE DEF o
<1>3. pc = "start" /\ pc' = "start" /\ cq' = cq /\ cq = <<>>
  BY <1>0 DEF PostRead, RingOK
<1>4. \A p \in inflight : p.data # a  BY <1>1, FreshBlock
<1>5. /\ mem' = [b \in Addr |-> [event_type |-> mem'[b].event_type, word |-> mem'[b].word]]
      /\ \A b \in Addr : mem'[b].event_type = IF b = a THEN "read" ELSE mem[b].event_type
  <2>1. mem = [b \in Addr |-> [event_type |-> mem[b].event_type, word |-> mem[b].word]]
    BY <1>0 DEF RingOK
  <2>2. mem' = [b \in Addr |-> [event_type |-> IF b = a THEN "read" ELSE mem[b].event_type,
                                word |-> mem[b].word]]
    BY <1>1, <2>1, FieldOfBlock
  <2>3. \A b \in Addr : /\ mem'[b].event_type = IF b = a THEN "read" ELSE mem[b].event_type
                        /\ mem'[b].word = mem[b].word
    BY <2>2
  <2> QED  BY <2>2, <2>3
<1>6. RingOK'
  BY <1>0, <1>2, <1>3, <1>5 DEF RingOK
<1>7. Apart'
  BY <1>0, <1>2, <1>3, <1>4 DEF Apart
<1>8. TypesOK'
  <2>1. \A p \in inflight : p.data \in Addr  BY <1>0 DEF RingOK, Op
  <2> QED  BY <1>0, <1>2, <1>3, <1>4, <1>5, <2>1 DEF TypesOK
<1>9. ReadsOK'
  <2>1. o \notin inflight  BY <1>2, <1>4
  <2>2. /\ IsFiniteSet(inflight \cup {o})
        /\ Cardinality(inflight \cup {o}) = Cardinality(inflight) + 1
    BY <1>0, <1>3, <2>1, FS_AddElement DEF ReadsOK
  <2>3. Cardinality(inflight) \in Nat  BY <1>0, <1>3, FS_CardinalityType DEF ReadsOK
  <2>4. Cardinality(inflight) < RingSize \div 4 /\ RingSize \div 4 \in Nat
    BY ServerAssumption DEF PostRead
  <2>5. Cardinality(inflight') <= RingSize \div 4  BY <1>2, <2>2, <2>3, <2>4
  <2> QED  BY <1>0, <1>2, <1>3, <2>2, <2>5 DEF ReadsOK
<1>10. UserStep /\ User!Inv'
  <2>1. Outstanding' = Outstanding \cup {o}  BY <1>2, <1>3 DEF Outstanding
  <2> QED  BY <1>1, <1>2, <1>3, <2>1, TakesFromPool DEF Alive
<1> QED
  BY <1>6, <1>7, <1>8, <1>9, <1>10 DEF ServerInv

LEMMA InvSubmitReads == ServerInv /\ SubmitReads => ServerInv' /\ UserStep
<1> SUFFICES ASSUME ServerInv, SubmitReads PROVE ServerInv' /\ UserStep
  OBVIOUS
<1>1. /\ pc = "start" /\ pc' = "serve" /\ Cardinality(inflight) = RingSize \div 4
      /\ UNCHANGED <<mem, inflight, cq, poolVars>>
  BY DEF SubmitReads, ringVars
<1>2. ReadsOutstanding = inflight
  <2>1. cq = <<>>  BY <1>1 DEF ServerInv, RingOK
  <2>2. Outstanding = inflight  BY <2>1, OutstandingIs
  <2> QED  BY <1>1, <2>2 DEF ServerInv, ReadsOK, ReadsOutstanding
<1> QED
  BY <1>1, <1>2, InvOutside
     DEF ServerInv, RingOK, Apart, TypesOK, Outstanding, Alive

-----------------------------------------------------------------------------

\* What taking the first completion off the queue leaves.
LEMMA Taken ==
  ASSUME ServerInv, cq # <<>>, cq' = Tail(cq)
  PROVE  /\ Head(cq).data \in Addr /\ Head(cq).op = mem[Head(cq).data].event_type
         /\ OpOf(Head(cq)) \in Outstanding
         /\ cq' \in Seq(Cqe)
         /\ \A n \in DOMAIN cq' : cq'[n].data \in Addr /\ cq'[n].data # Head(cq).data
         /\ \A o \in inflight : o.data # Head(cq).data
         /\ \A n \in DOMAIN cq' : cq'[n].op = mem[cq'[n].data].event_type
         /\ \A m, n \in DOMAIN cq' : cq'[m].data = cq'[n].data => m = n
         /\ \A n \in DOMAIN cq' : \E m \in DOMAIN cq : cq'[n] = cq[m]
         /\ {OpOf(cq[n]) : n \in DOMAIN cq}
              = {OpOf(Head(cq))} \cup {OpOf(cq'[n]) : n \in DOMAIN cq'}
<1>0. RingOK /\ Apart /\ TypesOK  BY DEF ServerInv
<1>1. /\ Head(cq) = cq[1] /\ 1 \in DOMAIN cq /\ cq' \in Seq(Cqe)
      /\ \A n \in DOMAIN cq' : n + 1 \in DOMAIN cq /\ cq'[n] = cq[n + 1] /\ n \in Nat /\ n + 1 # 1
      /\ \A n \in DOMAIN cq : n = 1 \/ (n - 1 \in DOMAIN cq' /\ cq'[n - 1] = cq[n])
  BY <1>0, QueueHead DEF RingOK
<1>2. Head(cq).data \in Addr /\ Head(cq).op = mem[Head(cq).data].event_type
  BY <1>0, <1>1, Completions DEF TypesOK
<1>3. OpOf(Head(cq)) \in Outstanding  BY <1>1, OutstandingIs
<1>4. \A n \in DOMAIN cq' : cq'[n].data \in Addr /\ cq'[n].data # Head(cq).data
  BY <1>0, <1>1, Completions DEF Apart
<1>5. \A o \in inflight : o.data # Head(cq).data  BY <1>0, <1>1 DEF Apart
<1>6. \A n \in DOMAIN cq' : cq'[n].op = mem[cq'[n].data].event_type
  BY <1>0, <1>1 DEF TypesOK
<1>7. \A m, n \in DOMAIN cq' : cq'[m].data = cq'[n].data => m = n
  <2> SUFFICES ASSUME NEW m \in DOMAIN cq', NEW n \in DOMAIN cq', cq'[m].data = cq'[n].data
               PROVE  m = n
    OBVIOUS
  <2>1. m + 1 = n + 1  BY <1>0, <1>1 DEF Apart
  <2>2. m \in Nat /\ n \in Nat  BY <1>1
  <2> QED  BY <2>1, <2>2
<1>8. {OpOf(cq[n]) : n \in DOMAIN cq}
         = {OpOf(Head(cq))} \cup {OpOf(cq'[n]) : n \in DOMAIN cq'}
  BY <1>1
<1>9. \A n \in DOMAIN cq' : \E m \in DOMAIN cq : cq'[n] = cq[m]
  BY <1>1
<1> QED
  BY <1>1, <1>2, <1>3, <1>4, <1>5, <1>6, <1>7, <1>8, <1>9

LEMMA InvHandleRead == ServerInv /\ HandleRead => ServerInv' /\ UserStep
<1> SUFFICES ASSUME ServerInv, HandleRead PROVE ServerInv' /\ UserStep
  OBVIOUS
<1>0. RingOK /\ Apart /\ TypesOK /\ ReadsOK  BY DEF ServerInv
<1>1. /\ pc = "serve" /\ pc' = "serve" /\ cq # <<>> /\ cq' = Tail(cq)
      /\ mem[Head(cq).data].event_type = "read"
  BY DEF HandleRead, Completed
<1> DEFINE d == Head(cq).data
           r == [op |-> "read", data |-> d]
<1>2. PICK a \in Addr :
        /\ Allocate("page", a)
        /\ mem' = [mem EXCEPT ![a] = [event_type |-> "write",
                                      word |-> Request(PageNumber(mem[d].word))]]
        /\ inflight' = inflight \cup {add_write_request(a), add_read_request(d)}
  BY DEF HandleRead, Answer
<1> DEFINE w == [op |-> "write", data |-> a]
<1>3. d \in Addr /\ OpOf(Head(cq)) = r /\ r \in Outstanding
  BY <1>1, Taken DEF OpOf
<1>4. /\ inflight' = inflight \cup {w, r}
      /\ w \in Op /\ w.data = a /\ w.op = "write"
      /\ r \in Op /\ r.data = d /\ r.op = "read"
  BY <1>2, <1>3 DEF add_write_request, add_read_request, Op
<1>5. a # d /\ (\A o \in inflight : o.data # a) /\ \A n \in DOMAIN cq' : cq'[n].data # a
  <2>1. /\ \A o \in Outstanding : o.data # a /\ \A n \in DOMAIN cq : cq[n].data # a
        /\ \A o \in inflight : o.data # a
    BY <1>2, FreshBlock
  <2>2. \A n \in DOMAIN cq' : \E m \in DOMAIN cq : cq'[n] = cq[m]  BY <1>1, Taken
  <2> QED  BY <1>3, <1>4, <2>1, <2>2
<1>6. /\ \A b \in Addr : b # a => mem'[b] = mem[b]
      /\ mem'[a].event_type = "write"
      /\ mem' = [b \in Addr |-> [event_type |-> mem'[b].event_type, word |-> mem'[b].word]]
  <2>1. mem = [b \in Addr |-> [event_type |-> mem[b].event_type, word |-> mem[b].word]]
    BY <1>0 DEF RingOK
  <2> DEFINE v == Request(PageNumber(mem[d].word))
  <2>2. mem' = [mem EXCEPT ![a] = [event_type |-> "write", word |-> v]]  BY <1>2
  <2> HIDE DEF v, d
  <2>3. \A b \in Addr : mem[b] = [event_type |-> mem[b].event_type, word |-> mem[b].word]
    BY <2>1
  <2>4. /\ \A b \in Addr : b # a => mem'[b] = mem[b]
        /\ mem'[a] = [event_type |-> "write", word |-> v]
        /\ mem' = [b \in Addr |-> mem'[b]]
    BY <2>1, <2>2
  <2>5. \A b \in Addr : mem'[b] = [event_type |-> mem'[b].event_type, word |-> mem'[b].word]
    <3>1. ASSUME NEW b \in Addr
          PROVE  mem'[b] = [event_type |-> mem'[b].event_type, word |-> mem'[b].word]
      BY <2>3, <2>4
    <3> QED  BY <3>1
  <2> QED  BY <2>4, <2>5
<1> HIDE DEF d, r, w
<1>7. RingOK'
  <2>1. cq' \in Seq(Cqe)  BY <1>1, Taken
  <2> QED  BY <1>0, <1>1, <1>4, <1>6, <2>1 DEF RingOK
<1>8. Apart'
  <2>1. /\ \A m, n \in DOMAIN cq' : cq'[m].data = cq'[n].data => m = n
        /\ \A n \in DOMAIN cq' : cq'[n].data # d
        /\ \A o \in inflight : o.data # d
    BY <1>1, Taken DEF d
  <2>2. \A o \in inflight : \A n \in DOMAIN cq' : o.data # cq'[n].data
    <3>1. \A n \in DOMAIN cq' : \E m \in DOMAIN cq : cq'[n] = cq[m]  BY <1>1, Taken
    <3> QED  BY <1>0, <3>1 DEF Apart
  <2> QED  BY <1>0, <1>4, <1>5, <2>1, <2>2 DEF Apart
<1>9. TypesOK'
  <2>1. \A o \in inflight : o.data \in Addr /\ mem[o.data].event_type = o.op
    BY <1>0 DEF RingOK, Op, TypesOK
  <2>2. \A n \in DOMAIN cq' : /\ cq'[n].data \in Addr
                              /\ cq'[n].op = mem[cq'[n].data].event_type
    BY <1>1, Taken
  <2>3. mem'[d].event_type = "read"
    <3>1. mem[d].event_type = "read"  BY <1>1 DEF d
    <3> QED  BY <1>3, <1>5, <1>6, <3>1
  <2> QED  BY <1>4, <1>5, <1>6, <2>1, <2>2, <2>3 DEF TypesOK
<1>10. Outstanding' = Outstanding \cup {w}
  <2>1. Outstanding' = inflight' \cup {OpOf(cq'[n]) : n \in DOMAIN cq'}
    BY DEF Outstanding, Range, OpOf
  <2>2. {OpOf(cq[n]) : n \in DOMAIN cq} = {r} \cup {OpOf(cq'[n]) : n \in DOMAIN cq'}
    BY <1>1, <1>3, Taken
  <2> QED  BY <1>4, <2>1, <2>2, OutstandingIs
<1>11. ReadsOK'
  <2>1. ReadsOutstanding' = ReadsOutstanding  BY <1>4, <1>10 DEF ReadsOutstanding
  <2> QED  BY <1>0, <1>1, <2>1 DEF ReadsOK
<1>12. UserStep /\ User!Inv'
  BY <1>1, <1>2, <1>4, <1>10, TakesFromPool DEF Alive
<1> QED
  BY <1>7, <1>8, <1>9, <1>11, <1>12 DEF ServerInv

LEMMA InvHandleWrite == ServerInv /\ HandleWrite => ServerInv' /\ UserStep
<1> SUFFICES ASSUME ServerInv, HandleWrite PROVE ServerInv' /\ UserStep
  OBVIOUS
<1>0. RingOK /\ Apart /\ TypesOK /\ ReadsOK  BY DEF ServerInv
<1> DEFINE d == Head(cq).data
           w == OpOf(Head(cq))
           h == [buf |-> d, size |-> "page"]
<1>1. /\ pc = "serve" /\ pc' = "serve" /\ cq # <<>> /\ cq' = Tail(cq) /\ inflight' = inflight
      /\ mem[d].event_type = "write" /\ Deallocate(d, "page")
      /\ mem' = [mem EXCEPT ![d] = Blank]
  BY DEF HandleWrite, Completed
<1>2. d \in Addr /\ w \in Outstanding /\ w.data = d /\ w.op = "write"
  BY <1>1, Taken DEF OpOf
<1>3. /\ \A b \in Addr : b # d => mem'[b] = mem[b]
      /\ mem' = [b \in Addr |-> [event_type |-> mem'[b].event_type, word |-> mem'[b].word]]
  <2>1. mem = [b \in Addr |-> [event_type |-> mem[b].event_type, word |-> mem[b].word]]
    BY <1>0 DEF RingOK
  <2> HIDE DEF d
  <2>2. \A b \in Addr : mem[b] = [event_type |-> mem[b].event_type, word |-> mem[b].word]
    BY <2>1
  <2>3. /\ \A b \in Addr : b # d => mem'[b] = mem[b]
        /\ mem'[d] = Blank
        /\ mem' = [b \in Addr |-> mem'[b]]
    BY <1>1, <1>2, <2>1
  <2>4. Blank = [event_type |-> Blank.event_type, word |-> Blank.word]  BY DEF Blank
  <2>5. ASSUME NEW b \in Addr
        PROVE  mem'[b] = [event_type |-> mem'[b].event_type, word |-> mem'[b].word]
    BY <2>2, <2>3, <2>4
  <2> QED  BY <2>3, <2>5
<1>4. RingOK'
  <2>1. cq' \in Seq(Cqe)  BY <1>1, Taken
  <2> QED  BY <1>0, <1>1, <1>3, <2>1 DEF RingOK
<1>5. Apart'
  <2>1. \A m, n \in DOMAIN cq' : cq'[m].data = cq'[n].data => m = n  BY <1>1, Taken
  <2>2. \A n \in DOMAIN cq' : \E m \in DOMAIN cq : cq'[n] = cq[m]  BY <1>1, Taken
  <2> QED  BY <1>0, <1>1, <2>1, <2>2 DEF Apart
<1>6. TypesOK'
  <2>1. \A o \in inflight : o.data \in Addr /\ o.data # d /\ mem[o.data].event_type = o.op
    BY <1>0, <1>1, Taken DEF RingOK, Op, TypesOK
  <2>2. \A n \in DOMAIN cq' : /\ cq'[n].data \in Addr /\ cq'[n].data # d
                              /\ cq'[n].op = mem[cq'[n].data].event_type
    BY <1>1, Taken
  <2> QED  BY <1>1, <1>3, <2>1, <2>2 DEF TypesOK
<1> HIDE DEF d, w
<1>7. Outstanding' = Outstanding \ {w}
  <2>1. Outstanding' = inflight' \cup {OpOf(cq'[n]) : n \in DOMAIN cq'}
    BY DEF Outstanding, Range, OpOf
  <2>2. {OpOf(cq[n]) : n \in DOMAIN cq} = {w} \cup {OpOf(cq'[n]) : n \in DOMAIN cq'}
    BY <1>1, Taken DEF w
  <2>3. \A o \in inflight : o # w  BY <1>1, <1>2, Taken DEF d
  <2>4. \A n \in DOMAIN cq' : OpOf(cq'[n]) # w
    BY <1>1, <1>2, Taken DEF d, OpOf
  <2> QED  BY <1>1, <2>1, <2>2, <2>3, <2>4, OutstandingIs
<1>8. ReadsOK'
  <2>1. ReadsOutstanding' = ReadsOutstanding  BY <1>2, <1>7 DEF ReadsOutstanding
  <2> QED  BY <1>0, <1>1, <2>1 DEF ReadsOK
<1>9. UserStep
  <2>1. Held' = Held \ {h}
    <3>1. ASSUME NEW o \in Outstanding PROVE o = w <=> o.data = d
      BY <1>0, <1>2, OutstandingApart
    <3>2. Held' = {[buf |-> o.data, size |-> "page"] : o \in Outstanding \ {w}}
      BY <1>7 DEF Held
    <3>3. \A o \in Outstanding : [buf |-> o.data, size |-> "page"] = h <=> o.data = d
      OBVIOUS
    <3> QED  BY <1>2, <3>1, <3>2, <3>3 DEF Held
  <2>2. h \in Held  BY <1>2 DEF Held
  <2>3. User!Deallocate(h.buf, h.size)  BY <1>1, SamePool DEF d
  <2>4. User!GiveBack(h)  BY <1>1, <2>1, <2>3 DEF User!GiveBack, Alive
  <2> QED  BY <2>2, <2>4 DEF UserStep, User!UserNext
<1>10. User!Inv'
  BY <1>9, PoolIsKept DEF ServerInv
<1> QED
  BY <1>4, <1>5, <1>6, <1>8, <1>9, <1>10 DEF ServerInv

LEMMA InvHandleEof == ServerInv /\ HandleEof => ServerInv' /\ UserStep
<1> SUFFICES ASSUME ServerInv, HandleEof PROVE ServerInv' /\ UserStep
  OBVIOUS
<1>1. /\ pc = "serve" /\ pc' = "return" /\ DestroyPool
      /\ UNCHANGED <<mem, inflight, cq>>
  BY DEF HandleEof, Completed, ringVars
<1>2. UserStep
  <2>1. Held' = Held  BY <1>1 DEF Held, Outstanding
  <2>2. User!LeaveScope  BY <1>1, <2>1, SamePool DEF User!LeaveScope, Alive
  <2> QED  BY <2>2 DEF UserStep, User!UserNext
<1>3. User!Inv'
  BY <1>2, PoolIsKept DEF ServerInv
<1> QED
  BY <1>1, <1>2, <1>3
     DEF ServerInv, RingOK, Apart, TypesOK, ReadsOK, ReadsOutstanding, Outstanding

\* The process exits, the ring goes, or only the client moves.
LEMMA InvRest ==
  ASSUME ServerInv, HandleInvalid \/ QueueExit \/ UNCHANGED serverVars
  PROVE  ServerInv' /\ UserStep
<1>1. /\ UNCHANGED <<mem, inflight, cq, poolVars>>
      /\ \/ pc' = pc
         \/ pc = "serve" /\ pc' = "exited"
         \/ pc = "return" /\ pc' = "finished"
  BY DEF HandleInvalid, QueueExit, Completed, serverVars, ringVars
<1>2. RingOK' /\ Apart' /\ TypesOK'
  BY <1>1 DEF ServerInv, RingOK, Apart, TypesOK
<1>3. UNCHANGED <<Outstanding, Alive>>
  BY <1>1 DEF Outstanding, Alive
<1> QED
  BY <1>1, <1>2, <1>3, InvOutside

LEMMA InvStep ==
  ServerInv /\ (ServerStep \/ UNCHANGED serverVars) => ServerInv' /\ UserStep
BY InvPostRead, InvSubmitReads, InvHandleRead, InvHandleEof, InvHandleWrite, InvRest, InvKernel
   DEF ServerStep, ServerThread, LocalStep

\* What the client does, it does to the connection.
LEMMA StepOfHandler ==
  [ServerStep \/ AnyClient]_<<serverVars, tcpVars>> => ServerStep \/ UNCHANGED serverVars
BY DEF AnyClient

\* BufferUser and BufferUserProofs say the same of the handler's pool.
LEMMA SameUser == /\ Pool!UserInit <=> User!UserInit
                  /\ Pool!UserNext <=> User!UserNext
<1>1. Pool!PoolInit <=> User!PoolInit
  BY DEF Pool!PoolInit, User!PoolInit, Pool!InitialPools, User!InitialPools, Pool!Managed,
         User!Managed, Pool!Disjoint, User!Disjoint, Pool!Unallocated, User!Unallocated,
         Pool!Pooled, User!Pooled, Pool!Range, User!Range
<1>2. \A size, a : Pool!Allocate(size, a) <=> User!Allocate(size, a)
  BY DEF Pool!Allocate, User!Allocate, Pool!HasPooled, User!HasPooled, Pool!Managed,
         User!Managed, Pool!Malloc, User!Malloc, Pool!Unallocated, User!Unallocated,
         Pool!Newest, User!Newest, Pool!Older, User!Older
<1>3. \A size, a : Pool!Deallocate(a, size) <=> User!Deallocate(a, size)
  BY DEF Pool!Deallocate, User!Deallocate, Pool!HasRoom, User!HasRoom, Pool!Managed,
         User!Managed, Pool!Free, User!Free, Pool!Unallocated, User!Unallocated
<1>4. Pool!DestroyPool <=> User!DestroyPool
  BY DEF Pool!DestroyPool, User!DestroyPool, Pool!Pooled, User!Pooled, Pool!Unallocated,
         User!Unallocated, Pool!Range, User!Range
<1>5. Pool!UserInit <=> User!UserInit
  BY <1>1 DEF Pool!UserInit, User!UserInit, Held, Alive
<1>6. \A size : Pool!Take(size) <=> User!Take(size)
  BY <1>2 DEF Pool!Take, User!Take, Held, Alive
<1>7. \A h : Pool!GiveBack(h) <=> User!GiveBack(h)
  BY <1>3 DEF Pool!GiveBack, User!GiveBack, Held, Alive
<1>8. Pool!LeaveScope <=> User!LeaveScope
  BY <1>4 DEF Pool!LeaveScope, User!LeaveScope, Held, Alive
<1> QED
  BY <1>5, <1>6, <1>7, <1>8 DEF Pool!UserNext, User!UserNext, Held

(***************************************************************************)
(* The handler's ring, what its buffers say and its pool agree.            *)
(***************************************************************************)
THEOREM HandlerIsSound == ServerSpec => []ServerInv
<1>1. ServerStart => ServerInv  BY InvInit DEF ServerStart
<1> QED  BY <1>1, InvStep, StepOfHandler, PTL DEF ServerSpec

(***************************************************************************)
(* The handler uses its pool as BufferUser says (simple_iou_server.cpp     *)
(* event_loop and handle_client), so that the pool keeps its promises.     *)
(***************************************************************************)
THEOREM HandlerUsesPool == ServerSpec => UsesPool
<1>1. ServerStart => Pool!UserInit
  <2> SUFFICES ASSUME ServerStart PROVE Pool!UserInit
    OBVIOUS
  <2>1. Outstanding = {}  BY DEF ServerStart, ServerInit, Outstanding, Range
  <2> QED  BY <2>1, SameUser, SamePool DEF ServerStart, ServerInit, User!UserInit, Held, Alive
<1>2. UserStep => [Pool!UserNext]_(Pool!userVars)
  BY SameUser DEF UserStep, Held, Alive, Pool!userVars
<1> QED
  BY <1>1, <1>2, HandlerIsSound, InvStep, StepOfHandler, PTL DEF ServerSpec, UsesPool, Pool!UserSpec

(***************************************************************************)
(* The switch on event_type takes each completion for what it is           *)
(* (simple_iou_server.cpp event_loop), for any number of reads and writes. *)
(***************************************************************************)
THEOREM HandlerDispatches == ServerSpec => []DispatchedByOp
<1>1. ServerInv => DispatchedByOp
  BY OutstandingTypes DEF ServerInv, DispatchedByOp
<1> QED  BY <1>1, HandlerIsSound, PTL

(***************************************************************************)
(* As many reads stay posted as were posted at first (simple_iou_server    *)
(* add_read_request), for any ring.                                        *)
(***************************************************************************)
THEOREM HandlerKeepsReads == ServerSpec => []ReadsKeptPosted
<1>1. ServerInv => ReadsKeptPosted  BY DEF ServerInv, ReadsOK, ReadsKeptPosted
<1> QED  BY <1>1, HandlerIsSound, PTL

(***************************************************************************)
(* The kernel never sends another page than the one the answer was queued  *)
(* for (simple_iou_server.cpp handle_client), for any ring and client.     *)
(***************************************************************************)
THEOREM HandlerAnswersStable == ServerSpec => AnswersStable
<1>1. ServerInv /\ [ServerStep \/ AnyClient]_<<serverVars, tcpVars>> =>
        \A o \in inflight \cap inflight' : o.op = "write" => mem'[o.data] = mem[o.data]
  <2> SUFFICES ASSUME ServerInv, [ServerStep \/ AnyClient]_<<serverVars, tcpVars>>,
                      NEW o \in inflight, o \in inflight', o.op = "write"
               PROVE  mem'[o.data] = mem[o.data]
    OBVIOUS
  <2>0. /\ RingOK /\ Apart /\ TypesOK /\ o.data \in Addr
        /\ mem = [a \in Addr |-> [event_type |-> mem[a].event_type, word |-> mem[a].word]]
    BY DEF ServerInv, RingOK, Op
  <2> DEFINE SameBut(a) == \A b \in Addr : b # a => mem'[b] = mem[b]
  <2>1. CASE PostRead
    <3>1. PICK a \in Addr : /\ Allocate("page", a)
                            /\ mem' = [mem EXCEPT ![a].event_type = "read"]
      BY <2>1 DEF PostRead
    <3> QED  BY <2>0, <3>1, FreshBlock
  <2>2. CASE HandleRead
    <3>1. PICK a \in Addr : /\ Allocate("page", a)
                            /\ \E v : mem' = [mem EXCEPT ![a] = v]
      BY <2>2 DEF HandleRead, Answer
    <3> QED  BY <2>0, <3>1, FreshBlock
  <2>3. CASE HandleWrite
    <3>1. Head(cq).data # o.data  BY <2>3, Taken DEF HandleWrite, Completed
    <3> QED  BY <2>0, <2>3, <3>1 DEF HandleWrite
  <2>4. CASE KernelRead
    <3>1. PICK r \in inflight, n \in 1..RequestUnits :
            /\ r.op = "read"
            /\ mem' = [mem EXCEPT ![r.data].word =
                  [i \in 1..RequestUnits |-> IF i <= n THEN SubSeq(toServer, 1, n)[i] ELSE @[i]]]
      BY <2>4 DEF KernelRead
    <3>2. r.data # o.data  BY <2>0, <3>1 DEF Apart
    <3> QED  BY <2>0, <3>1, <3>2
  <2>5. CASE mem' = mem
    BY <2>5
  <2> QED
    BY <2>1, <2>2, <2>3, <2>4, <2>5
       DEF ServerStep, ServerThread, LocalStep, ServerKernel, SubmitReads, HandleEof,
           HandleInvalid, QueueExit, KernelReadEnd, KernelWrite, AnyClient, serverVars
<1> QED
  BY <1>1, HandlerIsSound, PTL DEF ServerSpec, AnswersStable
=============================================================================
