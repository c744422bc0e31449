--------------------------- MODULE SimpleIouProofs ---------------------------
(***************************************************************************)
(* Safety of one client thread of simple_iou_client against any server,    *)
(* and of the pair that it makes with a handler of simple_iou_server, for  *)
(* every RING_SIZE from 4 up and every number of requests.                 *)
(*                                                                         *)
(* The client.  SqeAvailable is not inductive: it says nothing of a queue  *)
(* that is being filled.  SqBound adds how much each of the two loops may  *)
(* still add: the first puts in at most what it moves send_index ahead of  *)
(* recv_index, the second at most what it moves recv_index back up to it.  *)
(* That the thread gives back what it took, under the same size, rests on  *)
(* what the buffer says (TypesOK), which rests on no two operations        *)
(* sharing one (Apart), and this on the promises of the pool to those who  *)
(* use it as BufferUser says.                                              *)
(*                                                                         *)
(* The pair.  Each side keeps its own invariant whatever the other does    *)
(* (SidesOK).  That no request is lost or doubled is Conserved: a count of *)
(* the requests by where they are, and the pages that are under way, each  *)
(* once.  The windows of the client bound the rest, and only because what  *)
(* comes back was asked for: PagesBack and UnitsOK count the units on      *)
(* their way back against the answers sent, WindowsOK the operations of    *)
(* the client, WorkOK and QueueOK what the handler has and will get to do. *)
(***************************************************************************)
EXTENDS SimpleIou, SequenceTheorems, DataLemmas

(* One client thread.                                                      *)
Ahead == send_index - recv_index

IndexOK ==
  /\ send_index \in Nat /\ recv_index \in Nat
  /\ sq \in Seq(Op)
  /\ recv_index <= send_index

SqBound ==
  /\ Ahead <= RingSize \div 4
  /\ pc = "send" => Len(sq) <= Ahead
  /\ pc = "recv" => Len(sq) + Ahead <= 2 * (RingSize \div 4)
  /\ pc \notin {"send", "recv"} => sq = <<>>

SqInv == IndexOK /\ SqBound

LEMMA QuarterOfRing ==
  /\ RingSize \div 4 \in Nat
  /\ RingSize \div 4 < RingSize
  /\ 2 * (RingSize \div 4) <= RingSize
  BY ClientAssumption

LEMMA PrepareAddsOne ==
  ASSUME sq \in Seq(Op), NEW op \in {"send", "recv"}, NEW page, Prepare(op, page)
  PROVE  sq' \in Seq(Op) /\ Len(sq') = Len(sq) + 1
<1>1. PICK a \in Addr : sq' = Append(sq, [op |-> op, data |-> a, got |-> 0])
  BY DEF Prepare
<1>2. [op |-> op, data |-> a, got |-> 0] \in Op
  BY TcpAssumption DEF Op
<1> QED
  BY <1>1, <1>2

LEMMA SqInvInit == ClientInit => SqInv
<1> SUFFICES ASSUME ClientInit PROVE SqInv
  OBVIOUS
<1> QED
  BY QuarterOfRing DEF ClientInit, SqInv, IndexOK, SqBound, Ahead

LEMMA SqInvStep == SqInv /\ (ClientStep \/ UNCHANGED clientVars) => SqInv'
<1> SUFFICES ASSUME SqInv, ClientStep \/ UNCHANGED clientVars PROVE SqInv'
  OBVIOUS
<1> USE QuarterOfRing DEF SqInv, IndexOK, SqBound, Ahead
<1>1. CASE PrepSend
  <2>1. sq' \in Seq(Op) /\ Len(sq') = Len(sq) + 1
    BY <1>1, PrepareAddsOne DEF PrepSend
  <2>2. /\ pc = "send" /\ pc' = "send" /\ recv_index' = recv_index
        /\ send_index' = send_index + 1
        /\ send_index - recv_index < RingSize \div 4
    BY <1>1 DEF PrepSend, MaySend
  <2> QED
    BY <2>1, <2>2, LenProperties
<1>2. CASE EndSends
  BY <1>2, LenProperties DEF EndSends, ringVars
<1>3. CASE PrepRecv
  <2>1. sq' \in Seq(Op) /\ Len(sq') = Len(sq) + 1
    BY <1>3, PrepareAddsOne DEF PrepRecv
  <2>2. /\ pc = "recv" /\ pc' = "recv" /\ send_index' = send_index
        /\ recv_index' = recv_index + 1
        /\ recv_index < send_index
    BY <1>3 DEF PrepRecv, MayRecv
  <2> QED
    BY <2>1, <2>2, LenProperties
<1>4. CASE Submit
  BY <1>4 DEF Submit
<1>5. CASE Reap
  BY <1>5 DEF Reap
<1>6. CASE EndReap
  BY <1>6 DEF EndReap
<1>7. CASE Fail \/ Exit
  BY <1>7 DEF Fail, Exit, ringVars
<1>8. CASE ClientKernel
  BY <1>8 DEF ClientKernel, KernelSend, KernelRecv, KernelRecvEnd, threadVars
<1>9. CASE UNCHANGED clientVars
  BY <1>9 DEF clientVars, threadVars, ringVars
<1> QED
  BY <1>1, <1>2, <1>3, <1>4, <1>5, <1>6, <1>7, <1>8, <1>9
     DEF ClientStep, ClientThread, LocalStep

\* What the server does, it does to the connection.
LEMMA StepOfThread ==
  [ClientStep \/ AnyServer]_<<clientVars, tcpVars>> => ClientStep \/ UNCHANGED clientVars
BY DEF AnyServer

(***************************************************************************)
(* io_uring_get_sqe never returns null in send_receive_data                *)
(* (simple_iou_client.cpp), which does not look, for any size of the ring  *)
(* and any number of requests, whatever the server does.                   *)
(***************************************************************************)
THEOREM SqeAlwaysAvailable == ClientSpec => []SqeAvailable
<1>1. SqInv => SqeAvailable
  <2> SUFFICES ASSUME SqInv, PreparesNext PROVE Len(sq) < RingSize
    BY DEF SqeAvailable
  <2>1. CASE pc = "send" /\ MaySend
    BY <2>1, QuarterOfRing, LenProperties, ClientAssumption
       DEF SqInv, IndexOK, SqBound, Ahead, MaySend
  <2>2. CASE pc = "recv" /\ MayRecv
    BY <2>2, QuarterOfRing, LenProperties, ClientAssumption
       DEF SqInv, IndexOK, SqBound, Ahead, MayRecv
  <2> QED
    BY <2>1, <2>2 DEF PreparesNext
<1> QED
  BY <1>1, SqInvInit, SqInvStep, StepOfThread, PTL DEF ClientSpec, ClientStart

-----------------------------------------------------------------------------

HeldBy(o) == [buf |-> o.data, size |-> SizeOf[o.op]]
Held == {HeldBy(o) : o \in Outstanding}
Alive == pc # "closed"
User == INSTANCE BufferUserProofs WITH held <- Held, alive <- Alive

Block == [event_type : {"none", "send", "recv"}, page : Page \cup {NoPage}]

RingOK ==
  /\ send_index \in 0..NumRequests /\ recv_index \in 0..NumRequests
  /\ iterations_received \in Nat /\ total_received \in Nat /\ reaped \in Nat
  /\ pc \in {"send", "recv", "reap", "exit", "closed", "failed"}
  /\ mem \in [Addr -> Block]
  /\ sq \in Seq(Op) /\ inflight \subseteq Op /\ cq \in Seq(Cqe)

Apart ==
  /\ \A m, n \in DOMAIN sq : sq[m].data = sq[n].data => m = n
  /\ \A o, p \in inflight : o.data = p.data => o = p
  /\ \A m, n \in DOMAIN cq : cq[m].data = cq[n].data => m = n
  /\ \A m \in DOMAIN sq : \A o \in inflight : sq[m].data # o.data
  /\ \A m \in DOMAIN sq : \A n \in DOMAIN cq : sq[m].data # cq[n].data
  /\ \A o \in inflight : \A n \in DOMAIN cq : o.data # cq[n].data

TypesOK == \A o \in Outstanding : mem[o.data].event_type = o.op

\* The requests outstanding are for pages already asked for, each for another.
Asking == {o.data : o \in {p \in Outstanding : p.op = "send"}}
PagesOK ==
  /\ \A a \in Asking : mem[a].page \in StartIndex..(StartIndex + send_index - 1)
  /\ \A a, b \in Asking : mem[a].page = mem[b].page => a = b

ClientInv == RingOK /\ Apart /\ TypesOK /\ PagesOK /\ User!Inv

-----------------------------------------------------------------------------

LEMMA OutstandingIs ==
  Outstanding = {sq[n] : n \in DOMAIN sq} \cup inflight \cup {cq[n] : n \in DOMAIN cq}
BY DEF Outstanding, Range

LEMMA OperationShape ==
  ASSUME RingOK, NEW o \in Outstanding
  PROVE  o.op \in {"send", "recv"} /\ o.data \in Addr /\ SizeOf[o.op] \in Sizes
<1>1. \A n \in DOMAIN sq : sq[n] \in Op  BY ElementOfQueue DEF RingOK
<1>2. \A n \in DOMAIN cq : cq[n] \in Cqe  BY ElementOfQueue DEF RingOK
<1>3. o \in Op \cup Cqe  BY <1>1, <1>2, OutstandingIs DEF RingOK
<1>4. o.op \in {"send", "recv"} /\ o.data \in Addr  BY <1>3 DEF Op, Cqe
<1> QED  BY <1>4, ClientAssumption DEF SizeOf

\* The assumptions of the pool, as BufferUserProofs makes them.
LEMMA PoolAssumptions ==
  /\ User!InitialPools # {} /\ User!Unallocated \notin Sizes
  /\ BufferSizes \subseteq Sizes /\ InitialCapacity \in Nat /\ AllocateMalloc \in BOOLEAN
BY EnoughBlocks, PoolAssumption
   DEF User!InitialPools, InitialPools, User!Managed, Managed, User!Disjoint, Disjoint,
       User!Unallocated, Unallocated

\* What a step of the thread is to its pool.
UserStep == User!UserNext \/ UNCHANGED <<pools, heap, Held, Alive>>

LEMMA PoolIsKept == User!Inv /\ UserStep => User!Inv'
BY User!InvStep, PoolAssumptions DEF User!userVars, UserStep

LEMMA SamePool ==
  /\ User!PoolInit <=> PoolInit
  /\ User!PoolTypeOK <=> PoolTypeOK
  /\ \A size, a : User!Allocate(size, a) <=> Allocate(size, a)
  /\ \A size, a : User!Deallocate(a, size) <=> Deallocate(a, size)
  /\ User!DestroyPool <=> DestroyPool
<1>1. User!PoolInit <=> PoolInit
  BY DEF User!PoolInit, PoolInit, User!InitialPools, InitialPools, User!Managed, Managed,
         User!Disjoint, Disjoint, User!Unallocated, Unallocated, User!Pooled, Pooled,
         Range, User!Range
<1>2. \A size, a : User!Allocate(size, a) <=> Allocate(size, a)
  BY DEF User!Allocate, Allocate, User!HasPooled, HasPooled, User!Managed, Managed,
         User!Malloc, Malloc, User!Unallocated, Unallocated, User!Newest, Newest,
         User!Older, Older, User!poolVars
<1>3. \A size, a : User!Deallocate(a, size) <=> Deallocate(a, size)
  BY DEF User!Deallocate, Deallocate, User!HasRoom, HasRoom, User!Managed, Managed,
         User!Free, Free, User!Unallocated, Unallocated
<1>4. User!DestroyPool <=> DestroyPool
  BY DEF User!DestroyPool, DestroyPool, User!Pooled, Pooled, User!Unallocated, Unallocated,
         Range, User!Range
<1>5. User!PoolTypeOK <=> PoolTypeOK
  BY DEF User!PoolTypeOK, PoolTypeOK, User!Unallocated, Unallocated
<1> QED
  BY <1>1, <1>2, <1>3, <1>4, <1>5

LEMMA InvInit == ClientInit => ClientInv
<1> SUFFICES ASSUME ClientInit PROVE ClientInv
  OBVIOUS
<1>1. Outstanding = {} /\ Held = {} /\ Asking = {}
  BY DEF ClientInit, Held, Outstanding, Asking, Range
<1>2. User!Inv
  <2>1. User!UserInit  BY <1>1, SamePool DEF ClientInit, User!UserInit, Alive
  <2> QED  BY <2>1, User!InvInit, PoolAssumptions
<1>3. RingOK
  BY ClientAssumption DEF ClientInit, RingOK, Block, Blank
<1> QED
  BY <1>1, <1>2, <1>3 DEF ClientInit, ClientInv, Apart, TypesOK, PagesOK

-----------------------------------------------------------------------------

\* Steps that leave the pool, the buffers and what is outstanding alone.
LEMMA InvOutside ==
  ASSUME ClientInv, RingOK', Apart', UNCHANGED <<poolVars, mem, Held, Alive, Asking>>,
         send_index' = send_index,
         \A o \in Outstanding' : \E p \in Outstanding : o.data = p.data /\ o.op = p.op
  PROVE  ClientInv' /\ UserStep
<1>1. UserStep  BY DEF UserStep, poolVars
<1>2. User!Inv'  BY <1>1, PoolIsKept DEF ClientInv
<1>3. TypesOK'  BY DEF ClientInv, TypesOK
<1>4. PagesOK'  BY DEF ClientInv, PagesOK
<1> QED
  BY <1>1, <1>2, <1>3, <1>4 DEF ClientInv

\* An operation goes to the completion queue.
LEMMA InvComplete ==
  ASSUME ClientInv, NEW o \in inflight, NEW res, Complete(o, res),
         res \in {Error} \cup (0..(PageUnits + RequestUnits)),
         UNCHANGED <<threadVars, mem, sq, reaped, poolVars>>
  PROVE  ClientInv' /\ UserStep
<1> DEFINE c == [op |-> o.op, data |-> o.data, res |-> res]
<1>0. RingOK /\ Apart  BY DEF ClientInv
<1>1. inflight' = inflight \ {o} /\ cq' = Append(cq, c)  BY DEF Complete
<1>2. c \in Cqe /\ c.data = o.data /\ c.op = o.op  BY <1>0 DEF RingOK, Op, Cqe
<1> HIDE DEF c
<1> DEFINE m == Len(cq) + 1
<1>3. /\ cq' \in Seq(Cqe) /\ DOMAIN cq' = DOMAIN cq \cup {m} /\ m \notin DOMAIN cq
      /\ \A n \in DOMAIN cq : cq'[n] = cq[n]
      /\ cq'[m] = c
  BY <1>0, <1>1, <1>2, QueueLast DEF RingOK
<1> HIDE DEF m
<1>4. RingOK'
  BY <1>0, <1>1, <1>3 DEF RingOK, threadVars
<1>5. Apart'
  BY <1>0, <1>1, <1>2, <1>3 DEF Apart
<1>6. Outstanding' \cup {o} = Outstanding \cup {c} /\ o \in Outstanding /\ c \in Outstanding'
  <2>1. Outstanding' = {sq'[n] : n \in DOMAIN sq'} \cup inflight' \cup {cq'[n] : n \in DOMAIN cq'}
    BY DEF Outstanding, Range
  <2>2. {cq'[n] : n \in DOMAIN cq'} = {cq[n] : n \in DOMAIN cq} \cup {c}
    BY <1>3
  <2> QED  BY <1>1, <2>1, <2>2, OutstandingIs
<1>7. HeldBy(o) = HeldBy(c)  BY <1>2 DEF HeldBy
<1>8. Held' = Held
  BY <1>2, <1>6, <1>7 DEF Held, HeldBy
<1>9. Asking' = Asking
  BY <1>2, <1>6 DEF Asking
<1>10. \A q \in Outstanding' : \E p \in Outstanding : q.data = p.data /\ q.op = p.op
  BY <1>2, <1>6
<1> QED
  BY <1>4, <1>5, <1>8, <1>9, <1>10, InvOutside DEF threadVars, Alive

LEMMA InvKernel == ClientInv /\ ClientKernel => ClientInv' /\ UserStep
<1> SUFFICES ASSUME ClientInv, ClientKernel PROVE ClientInv' /\ UserStep
  OBVIOUS
<1>0. RingOK /\ Apart /\ RequestUnits \in Nat \ {0} /\ PageUnits \in Nat \ {0}
  BY TcpAssumption DEF ClientInv
<1>1. UNCHANGED <<threadVars, mem, sq, reaped, poolVars>>
  BY DEF ClientKernel, KernelSend, KernelRecv, KernelRecvEnd
<1>2. CASE \E o \in inflight : \E res \in {Error} \cup (0..(PageUnits + RequestUnits)) :
              Complete(o, res)
  BY <1>1, <1>2, InvComplete
<1>3. CASE KernelSend
  <2>1. \A res \in {RequestUnits, Error} : res \in {Error} \cup (0..(PageUnits + RequestUnits))
    BY <1>0
  <2> QED  BY <1>2, <1>3, <2>1 DEF KernelSend
<1>4. CASE KernelRecvEnd
  <2>1. PICK o \in inflight, res \in {0, Error} : Complete(o, IF o.got > 0 THEN o.got ELSE res)
    BY <1>4 DEF KernelRecvEnd
  <2>2. o.got \in 0..PageUnits  BY <1>0 DEF RingOK, Op
  <2>3. (IF o.got > 0 THEN o.got ELSE res) \in {Error} \cup (0..(PageUnits + RequestUnits))
    BY <1>0, <2>2
  <2> QED  BY <1>2, <2>1, <2>3
<1>5. CASE KernelRecv
  <2>0. PICK o \in inflight : \E n \in 1..(PageUnits - o.got) :
          IF o.got + n = PageUnits THEN Complete(o, PageUnits)
          ELSE /\ inflight' = (inflight \ {o}) \cup {[o EXCEPT !.got = @ + n]}
               /\ UNCHANGED cq
    BY <1>5 DEF KernelRecv
  <2>1. PICK n \in 1..(PageUnits - o.got) :
          IF o.got + n = PageUnits THEN Complete(o, PageUnits)
          ELSE /\ inflight' = (inflight \ {o}) \cup {[o EXCEPT !.got = @ + n]}
               /\ UNCHANGED cq
    BY <2>0
  <2>2. CASE o.got + n = PageUnits
    <3>1. PageUnits \in 0..(PageUnits + RequestUnits)  BY <1>0
    <3> QED  BY <1>2, <2>1, <2>2, <3>1
  <2>3. CASE o.got + n # PageUnits
    <3> DEFINE q == [o EXCEPT !.got = @ + n]
    <3>1. inflight' = (inflight \ {o}) \cup {q} /\ cq' = cq /\ sq' = sq
      BY <1>1, <2>1, <2>3
    <3>2. q \in Op /\ q.data = o.data /\ q.op = o.op
      <4>1. o \in Op /\ o.got \in 0..PageUnits  BY <1>0 DEF RingOK, Op
      <4>2. o.got + n \in 0..PageUnits  BY <1>0, <2>1, <4>1
      <4> QED  BY <4>1, <4>2 DEF Op
    <3> HIDE DEF q
    <3>3. RingOK'  BY <1>0, <1>1, <3>1, <3>2 DEF RingOK, threadVars
    <3>4. Apart'  BY <1>0, <3>1, <3>2 DEF Apart
    <3>5. Outstanding' \cup {o} = Outstanding \cup {q} /\ o \in Outstanding /\ q \in Outstanding'
      <4>1. Outstanding' = {sq'[m] : m \in DOMAIN sq'} \cup inflight' \cup {cq'[m] : m \in DOMAIN cq'}
        BY DEF Outstanding, Range
      <4> QED  BY <3>1, <4>1, OutstandingIs
    <3>6. HeldBy(o) = HeldBy(q)  BY <3>2 DEF HeldBy
    <3>7. Held' = Held  BY <3>2, <3>5, <3>6 DEF Held, HeldBy
    <3>8. Asking' = Asking  BY <3>2, <3>5 DEF Asking
    <3>9. \A r \in Outstanding' : \E p \in Outstanding : r.data = p.data /\ r.op = p.op
      BY <3>2, <3>5
    <3> QED
      BY <1>1, <3>3, <3>4, <3>7, <3>8, <3>9, InvOutside DEF threadVars, Alive
  <2> QED  BY <2>2, <2>3
<1> QED
  BY <1>3, <1>4, <1>5 DEF ClientKernel

\* The loops between two operations, the submission, the end of a pass, a
\* failure, and what the server does.
LEMMA InvRest ==
  ASSUME ClientInv,
         EndSends \/ Submit \/ EndReap \/ Fail \/ UNCHANGED clientVars
  PROVE  ClientInv' /\ UserStep
<1>0. RingOK /\ Apart  BY DEF ClientInv
<1>1. /\ UNCHANGED <<mem, poolVars, cq, send_index, recv_index, iterations_received, total_received>>
      /\ pc' \in {"send", "recv", "reap", "exit", "failed"} \/ pc' = pc
      /\ pc = "closed" => pc' = "closed"
      /\ reaped' \in {0, reaped}
      /\ \/ sq' = sq /\ inflight' = inflight
         \/ sq' = <<>> /\ inflight' = inflight \cup {sq[n] : n \in DOMAIN sq}
  BY DEF EndSends, Submit, EndReap, Fail, clientVars, threadVars, ringVars, Range
<1>2. RingOK'
  <2>1. \A n \in DOMAIN sq : sq[n] \in Op  BY <1>0, ElementOfQueue DEF RingOK
  <2>2. sq' \in Seq(Op)
    <3>1. <<>> \in Seq(Op)  OBVIOUS
    <3>2. sq' \in {sq, <<>>}  BY <1>1
    <3> QED  BY <1>0, <3>1, <3>2 DEF RingOK
  <2>3. pc' \in {"send", "recv", "reap", "exit", "closed", "failed"}  BY <1>0, <1>1 DEF RingOK
  <2> QED  BY <1>0, <1>1, <2>1, <2>2, <2>3 DEF RingOK
<1>3. Apart'
  BY <1>0, <1>1 DEF Apart
<1>4. Outstanding' = Outstanding
  <2>1. Outstanding' = {sq'[n] : n \in DOMAIN sq'} \cup inflight' \cup {cq'[n] : n \in DOMAIN cq'}
    BY DEF Outstanding, Range
  <2> QED  BY <1>1, <2>1, OutstandingIs
<1>5. pc' = "closed" <=> pc = "closed"
  BY <1>1
<1> QED
  BY <1>1, <1>2, <1>3, <1>4, <1>5, InvOutside DEF Held, HeldBy, Asking, Alive

-----------------------------------------------------------------------------

\* A block that allocate returns is not one that the thread or the kernel has.
LEMMA FreshBlock ==
  ASSUME ClientInv, NEW size \in Sizes, NEW a \in Addr, Allocate(size, a)
  PROVE  \A o \in Outstanding : o.data # a
<1>1. User!Allocate(size, a)  BY SamePool
<1>2. \A h \in Held : h.buf # a
  BY <1>1, User!TakenWasNotHeld, PoolAssumptions DEF ClientInv
<1> SUFFICES ASSUME NEW o \in Outstanding PROVE o.data # a
  OBVIOUS
<1>3. HeldBy(o) \in Held /\ HeldBy(o).buf = o.data  BY DEF Held, HeldBy
<1> QED  BY <1>2, <1>3

LEMMA InvPrepare ==
  ASSUME ClientInv, NEW op \in {"send", "recv"}, NEW page \in Page \cup {NoPage},
         Prepare(op, page), pc \in {"send", "recv"},
         send_index' \in 0..NumRequests, recv_index' \in 0..NumRequests,
         send_index <= send_index',
         op = "send" => page = StartIndex + send_index /\ send_index' = send_index + 1,
         UNCHANGED <<pc, iterations_received, total_received, inflight, cq, reaped>>
  PROVE  ClientInv' /\ UserStep
<1>0. RingOK /\ Apart /\ TypesOK /\ PagesOK  BY DEF ClientInv
<1>1. PICK a \in Addr :
        /\ Allocate(SizeOf[op], a)
        /\ mem' = [mem EXCEPT ![a] = [event_type |-> op, page |-> page]]
        /\ sq' = Append(sq, [op |-> op, data |-> a, got |-> 0])
  BY DEF Prepare
<1> DEFINE o == [op |-> op, data |-> a, got |-> 0]
           m == Len(sq) + 1
<1>2. o \in Op /\ o.op = op /\ o.data = a  BY TcpAssumption DEF Op
<1>3. sq' = Append(sq, o)  BY <1>1
<1> HIDE DEF o
<1>4. /\ sq' \in Seq(Op) /\ DOMAIN sq' = DOMAIN sq \cup {m} /\ m \notin DOMAIN sq
      /\ \A n \in DOMAIN sq : sq'[n] = sq[n]
      /\ sq'[m] = o
  BY <1>0, <1>2, <1>3, QueueLast DEF RingOK
<1> HIDE DEF m
<1>5. SizeOf[op] \in Sizes  BY ClientAssumption DEF SizeOf
<1>6. \A p \in Outstanding : p.data # a  BY <1>1, <1>5, FreshBlock
<1>7. /\ \A n \in DOMAIN sq : sq[n].data # a
      /\ \A p \in inflight : p.data # a
      /\ \A n \in DOMAIN cq : cq[n].data # a
  BY <1>6, OutstandingIs
<1>8. /\ mem' \in [Addr -> Block] /\ mem'[a].event_type = op /\ mem'[a].page = page
      /\ \A b \in Addr : b # a => mem'[b] = mem[b]
  <2>1. [event_type |-> op, page |-> page] \in Block  BY DEF Block
  <2> QED  BY <1>0, <1>1, <2>1 DEF RingOK
<1>9. RingOK'
  BY <1>0, <1>4, <1>8 DEF RingOK
<1>10. Apart'
  BY <1>0, <1>2, <1>4, <1>7 DEF Apart
<1>11. Outstanding' = Outstanding \cup {o}
  <2>1. Outstanding' = {sq'[n] : n \in DOMAIN sq'} \cup inflight' \cup {cq'[n] : n \in DOMAIN cq'}
    BY DEF Outstanding, Range
  <2>2. {sq'[n] : n \in DOMAIN sq'} = {sq[n] : n \in DOMAIN sq} \cup {o}
    BY <1>4
  <2> QED  BY <2>1, <2>2, OutstandingIs
<1>12. \A p \in Outstanding : p.data \in Addr /\ p.data # a /\ mem'[p.data] = mem[p.data]
  BY <1>0, <1>6, <1>8, OperationShape
<1>13. TypesOK'
  BY <1>0, <1>2, <1>8, <1>11, <1>12 DEF TypesOK
<1>14. PagesOK'
  <2>1. Asking' = IF op = "send" THEN Asking \cup {a} ELSE Asking
    BY <1>2, <1>11 DEF Asking
  <2>2. \A b \in Asking : mem'[b] = mem[b]  BY <1>12 DEF Asking
  <2>3. send_index \in Nat /\ send_index' \in Nat /\ StartIndex \in Nat
    BY <1>0, ClientAssumption DEF RingOK
  <2>4. \A b \in Asking : mem'[b].page \in StartIndex..(StartIndex + send_index' - 1)
    BY <1>0, <2>2, <2>3 DEF PagesOK
  <2>5. CASE op = "send"
    <3>1. mem'[a].page = StartIndex + send_index /\ send_index' = send_index + 1
      BY <1>8, <2>5
    <3>2. \A b \in Asking : mem'[b].page \in StartIndex..(StartIndex + send_index - 1)
      BY <1>0, <2>2 DEF PagesOK
    <3>3. \A b \in Asking : mem'[b].page # mem'[a].page  BY <2>3, <3>1, <3>2
    <3>4. mem'[a].page \in StartIndex..(StartIndex + send_index' - 1)  BY <2>3, <3>1
    <3> QED  BY <1>0, <2>1, <2>2, <2>4, <2>5, <3>3, <3>4 DEF PagesOK
  <2>6. CASE op # "send"
    BY <1>0, <2>1, <2>2, <2>4, <2>6 DEF PagesOK
  <2> QED  BY <2>5, <2>6
<1>15. UserStep
  <2>1. Held' = Held \cup {[buf |-> a, size |-> SizeOf[op]]}
    BY <1>2, <1>11 DEF Held, HeldBy
  <2>2. User!Allocate(SizeOf[op], a)  BY <1>1, SamePool
  <2>3. User!Take(SizeOf[op])  BY <2>1, <2>2 DEF User!Take, Alive
  <2> QED  BY <1>5, <2>3 DEF UserStep, User!UserNext
<1>16. User!Inv'  BY <1>15, PoolIsKept DEF ClientInv
<1> QED
  BY <1>9, <1>10, <1>13, <1>14, <1>15, <1>16 DEF ClientInv

LEMMA InvPrepSend == ClientInv /\ PrepSend => ClientInv' /\ UserStep
<1> SUFFICES ASSUME ClientInv, PrepSend PROVE ClientInv' /\ UserStep
  OBVIOUS
<1>1. send_index \in 0..NumRequests /\ send_index < NumRequests /\ recv_index \in 0..NumRequests
  BY DEF ClientInv, RingOK, PrepSend, MaySend
<1>2. StartIndex \in Nat /\ NumRequests \in Nat  BY ClientAssumption
<1>3. StartIndex + send_index \in Page  BY <1>1, <1>2 DEF Page
<1>4. send_index' = send_index + 1 /\ recv_index' = recv_index  BY DEF PrepSend
<1>5. send_index' \in 0..NumRequests /\ send_index <= send_index'  BY <1>1, <1>2, <1>4
<1> QED
  BY <1>1, <1>3, <1>4, <1>5, InvPrepare DEF PrepSend

LEMMA InvPrepRecv == ClientInv /\ SqInv /\ PrepRecv => ClientInv' /\ UserStep
<1> SUFFICES ASSUME ClientInv, SqInv, PrepRecv PROVE ClientInv' /\ UserStep
  OBVIOUS
<1>1. send_index \in 0..NumRequests /\ recv_index \in 0..NumRequests /\ recv_index < send_index
  BY DEF ClientInv, RingOK, PrepRecv, MayRecv
<1>2. NumRequests \in Nat  BY ClientAssumption
<1>3. recv_index' = recv_index + 1 /\ send_index' = send_index  BY DEF PrepRecv
<1>4. recv_index' \in 0..NumRequests /\ send_index <= send_index'  BY <1>1, <1>2, <1>3
<1> QED
  BY <1>1, <1>3, <1>4, InvPrepare DEF PrepRecv

-----------------------------------------------------------------------------

\* What taking the first completion off the queue leaves.
LEMMA Taken ==
  ASSUME ClientInv, cq # <<>>, cq' = Tail(cq), UNCHANGED <<sq, inflight>>
  PROVE  /\ Head(cq) \in Outstanding /\ Head(cq) \in Cqe
         /\ cq' \in Seq(Cqe)
         /\ \A o \in Outstanding' : o.data # Head(cq).data
         /\ Outstanding' = Outstanding \ {Head(cq)}
         /\ Apart'
<1>0. RingOK /\ Apart  BY DEF ClientInv
<1>1. /\ Head(cq) = cq[1] /\ 1 \in DOMAIN cq /\ cq' \in Seq(Cqe) /\ Head(cq) \in Cqe
      /\ \A n \in DOMAIN cq' : n + 1 \in DOMAIN cq /\ cq'[n] = cq[n + 1] /\ n \in Nat /\ n + 1 # 1
      /\ \A n \in DOMAIN cq : n = 1 \/ (n - 1 \in DOMAIN cq' /\ cq'[n - 1] = cq[n])
  BY <1>0, QueueHead DEF RingOK
<1>2. Outstanding' = {sq[n] : n \in DOMAIN sq} \cup inflight \cup {cq'[n] : n \in DOMAIN cq'}
  BY DEF Outstanding, Range
<1>3. /\ \A n \in DOMAIN cq' : cq'[n].data # Head(cq).data
      /\ \A n \in DOMAIN sq : sq[n].data # Head(cq).data
      /\ \A o \in inflight : o.data # Head(cq).data
  BY <1>0, <1>1 DEF Apart
<1>4. \A o \in Outstanding' : o.data # Head(cq).data
  BY <1>2, <1>3
<1>5. Outstanding' \cup {Head(cq)} = Outstanding
  <2>1. {cq[n] : n \in DOMAIN cq} = {Head(cq)} \cup {cq'[n] : n \in DOMAIN cq'}
    <3>1. \A n \in DOMAIN cq : cq[n] = Head(cq) \/ \E k \in DOMAIN cq' : cq'[k] = cq[n]
      BY <1>1
    <3>2. \A k \in DOMAIN cq' : \E n \in DOMAIN cq : cq[n] = cq'[k]
      BY <1>1
    <3>3. \E n \in DOMAIN cq : cq[n] = Head(cq)
      BY <1>1
    <3> QED  BY <3>1, <3>2, <3>3
  <2> QED  BY <1>2, <2>1, OutstandingIs
<1>6. Outstanding' = Outstanding \ {Head(cq)}
  BY <1>4, <1>5
<1>7. \A m, n \in DOMAIN cq' : cq'[m].data = cq'[n].data => m = n
  <2> SUFFICES ASSUME NEW m \in DOMAIN cq', NEW n \in DOMAIN cq', cq'[m].data = cq'[n].data
               PROVE  m = n
    OBVIOUS
  <2>1. m + 1 = n + 1  BY <1>0, <1>1 DEF Apart
  <2>2. m \in Nat /\ n \in Nat  BY <1>1
  <2> QED  BY <2>1, <2>2
<1>8. \A n \in DOMAIN cq' : \E m \in DOMAIN cq : cq'[n] = cq[m]
  BY <1>1
<1>9. Apart'
  BY <1>0, <1>7, <1>8 DEF Apart
<1> QED
  BY <1>1, <1>4, <1>5, <1>6, <1>9

LEMMA InvReap == ClientInv /\ Reap => ClientInv' /\ UserStep
<1> SUFFICES ASSUME ClientInv, Reap PROVE ClientInv' /\ UserStep
  OBVIOUS
<1>0. RingOK /\ Apart /\ TypesOK /\ PagesOK  BY DEF ClientInv
<1> DEFINE c == Head(cq)
<1>1. /\ pc = "reap" /\ pc' = "reap" /\ cq # <<>> /\ c.res >= 0 /\ cq' = Tail(cq)
      /\ Count(c) /\ Deallocate(c.data, SizeOf[TypeOf(c)])
      /\ mem' = [mem EXCEPT ![c.data] = Blank] /\ reaped' = reaped + 1
      /\ UNCHANGED <<send_index, recv_index, sq, inflight>>
  BY DEF Reap, GiveBack
<1>2. /\ c \in Outstanding /\ c \in Cqe /\ cq' \in Seq(Cqe) /\ Apart'
      /\ Outstanding' = Outstanding \ {c}
      /\ \A o \in Outstanding' : o.data # c.data
  BY <1>1, Taken
<1>3. c.data \in Addr /\ c.op \in {"send", "recv"} /\ TypeOf(c) = c.op
  BY <1>0, <1>2 DEF Cqe, TypesOK, TypeOf
<1> HIDE DEF c
<1>4. RingOK'
  <2>1. c.res \in Int  BY <1>2, TcpAssumption DEF Cqe, Error
  <2>2. iterations_received' \in Nat /\ total_received' \in Nat
    BY <1>0, <1>1, <2>1 DEF Count, RingOK
  <2>3. Blank \in Block  BY DEF Blank, Block
  <2>4. mem' \in [Addr -> Block]  BY <1>0, <1>1, <2>3 DEF RingOK
  <2> QED  BY <1>0, <1>1, <1>2, <2>2, <2>4 DEF RingOK
<1>5. \A o \in Outstanding' : o \in Outstanding /\ mem'[o.data] = mem[o.data]
  <2>1. \A o \in Outstanding' : o \in Outstanding /\ o.data \in Addr /\ o.data # c.data
    BY <1>0, <1>2, OperationShape
  <2> QED  BY <1>0, <1>1, <2>1 DEF RingOK
<1>6. TypesOK'  BY <1>0, <1>5 DEF TypesOK
<1>7. PagesOK'
  <2>1. \A a \in Asking' : a \in Asking /\ mem'[a] = mem[a]  BY <1>5 DEF Asking
  <2> QED  BY <1>0, <1>1, <2>1 DEF PagesOK
<1>8. UserStep
  <2>1. Held' = Held \ {HeldBy(c)}
    <3>1. Held' = {HeldBy(o) : o \in Outstanding \ {c}}  BY <1>2 DEF Held, HeldBy
    <3>2. \A o \in Outstanding \ {c} : HeldBy(o).buf # HeldBy(c).buf
      BY <1>2 DEF HeldBy
    <3>3. \A o \in Outstanding \ {c} : HeldBy(o) # HeldBy(c)  BY <3>2
    <3> QED  BY <1>2, <3>1, <3>3 DEF Held
  <2>2. HeldBy(c) \in Held  BY <1>2 DEF Held
  <2>3. User!Deallocate(HeldBy(c).buf, HeldBy(c).size)
    BY <1>1, <1>3, SamePool DEF HeldBy
  <2>4. User!GiveBack(HeldBy(c))  BY <1>1, <2>1, <2>3 DEF User!GiveBack, Alive
  <2> QED  BY <2>2, <2>4 DEF UserStep, User!UserNext
<1>9. User!Inv'  BY <1>8, PoolIsKept DEF ClientInv
<1> QED
  BY <1>2, <1>4, <1>6, <1>7, <1>8, <1>9 DEF ClientInv

\* Leaving the scope destroys the pool; what is outstanding stays so.
LEMMA InvExit == ClientInv /\ Exit => ClientInv' /\ UserStep
<1> SUFFICES ASSUME ClientInv, Exit PROVE ClientInv' /\ UserStep
  OBVIOUS
<1>1. /\ pc = "exit" /\ pc' = "closed" /\ DestroyPool
      /\ UNCHANGED <<send_index, recv_index, iterations_received, total_received, mem,
                     sq, inflight, cq, reaped>>
  BY DEF Exit, ringVars
<1>2. Outstanding' = Outstanding  BY <1>1 DEF Outstanding
<1>3. UserStep
  <2>1. Held' = Held  BY <1>2 DEF Held, HeldBy
  <2>2. User!LeaveScope  BY <1>1, <2>1, SamePool DEF User!LeaveScope, Alive
  <2> QED  BY <2>2 DEF UserStep, User!UserNext
<1>4. User!Inv'  BY <1>3, PoolIsKept DEF ClientInv
<1>5. Asking' = Asking  BY <1>2 DEF Asking
<1>6. TypesOK' /\ PagesOK'  BY <1>1, <1>2, <1>5 DEF ClientInv, TypesOK, PagesOK
<1>7. RingOK' /\ Apart'  BY <1>1 DEF ClientInv, RingOK, Apart
<1> QED
  BY <1>3, <1>4, <1>6, <1>7 DEF ClientInv

LEMMA InvStep ==
  ClientInv /\ SqInv /\ (ClientStep \/ UNCHANGED clientVars) => ClientInv' /\ UserStep
BY InvPrepSend, InvPrepRecv, InvReap, InvExit, InvKernel, InvRest
   DEF ClientStep, ClientThread, LocalStep

\* BufferUser and BufferUserProofs say the same of the thread's pool.
LEMMA SameUser == /\ Pool!UserInit <=> User!UserInit
                  /\ Pool!UserNext <=> User!UserNext
<1>1. Pool!PoolInit <=> User!PoolInit
  BY DEF Pool!PoolInit, User!PoolInit, Pool!InitialPools, User!InitialPools, Pool!Managed,
         User!Managed, Pool!Disjoint, User!Disjoint, Pool!Unallocated, User!Unallocated,
         Pool!Pooled, User!Pooled, Pool!Range, User!Range
<1>2. \A size, a : Pool!Allocate(size, a) <=> User!Allocate(size, a)
  BY DEF Pool!Allocate, User!Allocate, Pool!HasPooled, User!HasPooled, Pool!Managed,
         User!Managed, Pool!Malloc, User!Malloc, Pool!Unallocated, User!Unallocated,
         Pool!Newest, User!Newest, Pool!Older, User!Older
<1>3. \A size, a : Pool!Deallocate(a, size) <=> User!Deallocate(a, size)
  BY DEF Pool!Deallocate, User!Deallocate, Pool!HasRoom, User!HasRoom, Pool!Managed,
         User!Managed, Pool!Free, User!Free, Pool!Unallocated, User!Unallocated
<1>4. Pool!DestroyPool <=> User!DestroyPool
  BY DEF Pool!DestroyPool, User!DestroyPool, Pool!Pooled, User!Pooled, Pool!Unallocated,
         User!Unallocated, Pool!Range, User!Range
<1>5. Pool!UserInit <=> User!UserInit
  BY <1>1 DEF Pool!UserInit, User!UserInit, Held, HeldBy, Alive
<1>6. \A size : Pool!Take(size) <=> User!Take(size)
  BY <1>2 DEF Pool!Take, User!Take, Held, HeldBy, Alive
<1>7. \A h : Pool!GiveBack(h) <=> User!GiveBack(h)
  BY <1>3 DEF Pool!GiveBack, User!GiveBack, Held, HeldBy, Alive
<1>8. Pool!LeaveScope <=> User!LeaveScope
  BY <1>4 DEF Pool!LeaveScope, User!LeaveScope, Held, HeldBy, Alive
<1> QED
  BY <1>5, <1>6, <1>7, <1>8 DEF Pool!UserNext, User!UserNext, Held, HeldBy

(***************************************************************************)
(* The thread's ring, what its buffers say and its pool agree.             *)
(***************************************************************************)
THEOREM ClientIsSound == ClientSpec => [](SqInv /\ ClientInv)
<1>1. ClientStart => SqInv /\ ClientInv  BY SqInvInit, InvInit DEF ClientStart
<1>2. /\ SqInv /\ ClientInv
      /\ [ClientStep \/ AnyServer]_<<clientVars, tcpVars>>
      => (SqInv /\ ClientInv)'
  BY SqInvStep, InvStep, StepOfThread
<1> QED  BY <1>1, <1>2, PTL DEF ClientSpec

(***************************************************************************)
(* The counters, the queues, the blocks and the pool keep their types      *)
(* (simple_iou_client.cpp send_receive_data).                              *)
(***************************************************************************)
THEOREM ClientWellTyped == ClientSpec => []ClientTypeOK
<1>1. ClientInv => ClientTypeOK
  <2> SUFFICES ASSUME ClientInv PROVE ClientTypeOK
    OBVIOUS
  <2>1. PoolTypeOK  BY SamePool DEF ClientInv, User!Inv, User!UserTypeOK
  <2> QED  BY <2>1 DEF ClientInv, RingOK, Block, ClientTypeOK
<1> QED  BY <1>1, ClientIsSound, PTL

(***************************************************************************)
(* The thread uses its pool as BufferUser says (simple_iou_client.cpp      *)
(* send_receive_data), so that the pool keeps its promises.                *)
(***************************************************************************)
THEOREM ClientUsesPool == ClientSpec => UsesPool
<1>1. ClientStart => Pool!UserInit
  <2> SUFFICES ASSUME ClientStart PROVE Pool!UserInit
    OBVIOUS
  <2>1. Held = {}  BY DEF ClientStart, ClientInit, Held, HeldBy, Outstanding, Range
  <2>2. pc # "closed"  BY DEF ClientStart, ClientInit
  <2>3. User!PoolInit  BY SamePool DEF ClientStart, ClientInit
  <2> QED  BY <2>1, <2>2, <2>3, SameUser DEF User!UserInit, Alive
<1>2. UserStep => [Pool!UserNext]_(Pool!userVars)
  BY SameUser DEF UserStep, Held, HeldBy, Alive, Pool!userVars
<1> QED
  BY <1>1, <1>2, ClientIsSound, InvStep, StepOfThread, PTL DEF ClientSpec, UsesPool, Pool!UserSpec

(***************************************************************************)
(* The requests outstanding are for pages of the thread's range, each for  *)
(* another (simple_iou_client.cpp, the send loop), for any range.          *)
(***************************************************************************)
THEOREM ClientRequestsOnce == ClientSpec => []PagesRequestedOnce
<1>1. ClientInv => PagesRequestedOnce
  <2> SUFFICES ASSUME ClientInv,
                      NEW o \in Outstanding, NEW p \in Outstanding, o.op = "send", p.op = "send"
               PROVE  /\ mem[o.data].page \in Page
                      /\ mem[o.data].page = mem[p.data].page => o.data = p.data
    BY DEF PagesRequestedOnce
  <2>1. o.data \in Asking /\ p.data \in Asking  BY DEF Asking
  <2>2. send_index \in 0..NumRequests /\ StartIndex \in Nat /\ NumRequests \in Nat
    BY ClientAssumption DEF ClientInv, RingOK
  <2>3. mem[o.data].page \in StartIndex..(StartIndex + send_index - 1)
    BY <2>1 DEF ClientInv, PagesOK
  <2>4. mem[o.data].page \in Page  BY <2>2, <2>3 DEF Page
  <2> QED  BY <2>1, <2>4 DEF ClientInv, PagesOK
<1> QED  BY <1>1, ClientIsSound, PTL

(***************************************************************************)
(* No step writes into the buffer of an operation from when it is queued   *)
(* until its completion is looked at (simple_iou_client.cpp                *)
(* send_receive_data, buffer_pool.hpp allocate), for any ring and server.  *)
(***************************************************************************)
THEOREM ClientBuffersStable == ClientSpec => BuffersStable
<1>1. ClientInv /\ [ClientStep \/ AnyServer]_<<clientVars, tcpVars>> =>
        \A a \in InUse : a \in InUse' => mem'[a] = mem[a]
  <2> SUFFICES ASSUME ClientInv, [ClientStep \/ AnyServer]_<<clientVars, tcpVars>>,
                      NEW a \in InUse, a \in InUse'
               PROVE  mem'[a] = mem[a]
    OBVIOUS
  <2>0. PICK o \in Outstanding : o.data = a  BY DEF InUse
  <2>1. a \in Addr /\ mem \in [Addr -> Block]
    BY <2>0, OperationShape DEF ClientInv, RingOK
  <2>2. ASSUME NEW op \in {"send", "recv"}, NEW page, Prepare(op, page)
        PROVE  mem'[a] = mem[a]
    <3>1. PICK b \in Addr : /\ Allocate(SizeOf[op], b)
                            /\ mem' = [mem EXCEPT ![b] = [event_type |-> op, page |-> page]]
      BY <2>2 DEF Prepare
    <3>2. SizeOf[op] \in Sizes  BY ClientAssumption DEF SizeOf
    <3>3. a # b  BY <2>0, <3>1, <3>2, FreshBlock
    <3> QED  BY <2>1, <3>1, <3>3
  <2>3. CASE PrepSend \/ PrepRecv
    BY <2>2, <2>3 DEF PrepSend, PrepRecv
  <2>4. CASE Reap
    <3>1. /\ cq # <<>> /\ cq' = Tail(cq) /\ UNCHANGED <<sq, inflight>>
          /\ mem' = [mem EXCEPT ![Head(cq).data] = Blank]
      BY <2>4 DEF Reap
    <3>2. PICK p \in Outstanding' : p.data = a  BY DEF InUse
    <3>3. Head(cq).data # a  BY <3>1, <3>2, Taken
    <3> QED  BY <2>1, <3>1, <3>3
  <2>5. CASE mem' = mem
    BY <2>5
  <2> QED
    BY <2>3, <2>4, <2>5
       DEF ClientStep, ClientThread, LocalStep, ClientKernel, EndSends, Submit, EndReap, Fail,
           Exit, KernelSend, KernelRecv, KernelRecvEnd, AnyServer, clientVars
<1> QED
  BY <1>1, ClientIsSound, PTL DEF ClientSpec, BuffersStable

-----------------------------------------------------------------------------
(* The pair.                                                               *)

SP == INSTANCE SimpleServerProofs
        WITH pc <- s_pc, mem <- s_mem, inflight <- s_inflight, cq <- s_cq,
             pools <- s_pools, heap <- s_heap,
             MaxPage <- StartIndex + NumRequests, Verify <- FALSE, MaxRequests <- 0

Quarter == RingSize \div 4
Half == RingSize \div 2
Window == Quarter + Half
Up == pc # "closed"

ServerCqe == [op : {"read", "write"}, data : Addr, res : Int]
ServerOp == [op : {"read", "write"}, data : Addr]
GotRead == {c \in ServerCqe : c.op = "read" /\ c.res # 0}
Written == {c \in ServerCqe : c.op = "write"}
Reads == {c \in ServerCqe : c.op = "read"}

\* The buffers of the requests that the client has not sent yet.
UnsentData == {o.data : o \in Unsent}

\* The answers that the kernel of the server has not sent yet.
Queued == {o \in s_inflight : o.op = "write"}

\* The connection closes in one order: the client, then the handler.
LinkOK ==
  /\ link \in [End -> Link]
  /\ s_pc \in {"start", "serve", "return", "finished"} /\ pc # "failed"
  /\ Up => link = [e \in End |-> "open"] /\ s_pc \in {"start", "serve"}
  /\ ~Up => /\ link["client"] = "closed" /\ link["server"] \in {"fin", "rst", "dead", "closed"}
            /\ link["server"] = "closed" => s_pc = "finished"

\* Up to then no operation fails, and receives bring whole pages.
ResultsOK ==
  /\ \A n \in DOMAIN s_cq : s_cq[n].res >= 1
  /\ \A n \in DOMAIN cq : cq[n].res >= 0 /\ (cq[n].op = "recv" => cq[n].res = PageUnits)
  /\ \A n \in DOMAIN sq : sq[n].got = 0
  /\ \A o \in inflight : o.op = "send" => o.got = 0

DataOK ==
  /\ toServer \in Seq(Int \X Int) /\ toClient \in Nat /\ write_req_num \in Nat
  /\ IsFiniteSet(inflight) /\ IsFiniteSet(UnsentData) /\ IsFiniteSet(Queued)

\* Each request is in one place.
CountOK ==
  /\ send_index = Cardinality(UnsentData) + Len(toServer)
                    + Cardinality(PlacesIn(s_cq, Reads)) + write_req_num
  /\ Cardinality(Queued) <= write_req_num

\* What was sent back to the client, a page for each answer, and for none that is queued.
Sent == write_req_num - Cardinality(Queued)
Back == total_received + Unreaped + toClient
PagesBack == total_received = PageUnits * iterations_received
UnitsOK == Back <= PageUnits * Sent

\* The windows of the client.
Receiving == {o.data : o \in {p \in Outstanding : p.op = "recv"}}
WindowsOK ==
  /\ iterations_received <= recv_index /\ recv_index - iterations_received <= Half
  /\ IsFiniteSet(Asking) /\ IsFiniteSet(Receiving)
  /\ Cardinality(Receiving) = recv_index - iterations_received
  /\ pc \in {"send", "recv", "exit"} =>
       reaped = 0 /\ Cardinality(Asking) + iterations_received <= send_index
  /\ reaped + Cardinality(Asking) + Cardinality(Receiving) <= Quarter + 2 * Half
  /\ pc = "exit" => /\ send_index >= NumRequests
                    /\ total_received >= NumRequests * PageUnits \/ recv_index >= NumRequests

\* The pages that are under way, each once.
Answering == {o.data : o \in Queued} \cup {s_cq[n].data : n \in DOMAIN s_cq}
PageOf(a) == s_mem[a].word[1][1]
AskedFor(p) == p \in StartIndex..(StartIndex + send_index - 1)
WordOf(p) == [i \in 1..RequestUnits |-> <<p, i>>]
PagesUnique ==
  /\ \A k \in DOMAIN toServer : toServer[k] = <<toServer[k][1], 1>> /\ AskedFor(toServer[k][1])
  /\ \A a \in Answering : s_mem[a].word = WordOf(PageOf(a)) /\ AskedFor(PageOf(a))
  /\ \A k, l \in DOMAIN toServer : toServer[k][1] = toServer[l][1] => k = l
  /\ \A a, b \in Answering : PageOf(a) = PageOf(b) => a = b
  /\ \A a \in Answering : \A k \in DOMAIN toServer : PageOf(a) # toServer[k][1]
  /\ \A b \in UnsentData : \A k \in DOMAIN toServer : mem[b].page # toServer[k][1]
  /\ \A b \in UnsentData : \A a \in Answering : mem[b].page # PageOf(a)

\* The work of the handler: for every place in its completion queue, the requests
\* before it and the answers from there on, with those queued, fit the windows; so
\* do the requests that were completed and those it can still read.
Reset == IF link["server"] = "rst" THEN 1 ELSE 0
WorkOK == Cardinality(PlacesIn(s_cq, GotRead)) + Cardinality(Queued) + Len(toServer) + Reset <= Window
QueueOK == \A p \in 1..(Len(s_cq) + 1) :
             Mixed(s_cq, GotRead, Written, p) + Cardinality(Queued) <= Window

-----------------------------------------------------------------------------
(* The handler of the pair is that of SimpleServerProofs.                  *)

LEMMA ServerAssumptions ==
  /\ SP!ServerAssumption /\ SP!TcpAssumption /\ SP!PoolAssumption /\ SP!EnoughBlocks
BY ClientAssumption, TcpAssumption, PoolAssumption, EnoughBlocks
   DEF SP!ServerAssumption, SP!TcpAssumption, SP!PoolAssumption, SP!EnoughBlocks,
       SP!InitialPools, InitialPools, SP!Managed, Managed, SP!Disjoint, Disjoint,
       SP!Unallocated, Unallocated

LEMMA SameServerPool ==
  /\ S!PoolInit <=> SP!PoolInit
  /\ \A size, a : S!Allocate(size, a) <=> SP!Allocate(size, a)
  /\ \A size, a : S!Deallocate(a, size) <=> SP!Deallocate(a, size)
  /\ S!DestroyPool <=> SP!DestroyPool
<1>1. S!PoolInit <=> SP!PoolInit
  BY DEF S!PoolInit, SP!PoolInit, S!InitialPools, SP!InitialPools, S!Managed, SP!Managed,
         S!Disjoint, SP!Disjoint, S!Unallocated, SP!Unallocated, S!Pooled, SP!Pooled,
         S!Range, SP!Range
<1>2. \A size, a : S!Allocate(size, a) <=> SP!Allocate(size, a)
  BY DEF S!Allocate, SP!Allocate, S!HasPooled, SP!HasPooled, S!Managed, SP!Managed,
         S!Malloc, SP!Malloc, S!Unallocated, SP!Unallocated, S!Newest, SP!Newest,
         S!Older, SP!Older
<1>3. \A size, a : S!Deallocate(a, size) <=> SP!Deallocate(a, size)
  BY DEF S!Deallocate, SP!Deallocate, S!HasRoom, SP!HasRoom, S!Managed, SP!Managed,
         S!Free, SP!Free, S!Unallocated, SP!Unallocated
<1>4. S!DestroyPool <=> SP!DestroyPool
  BY DEF S!DestroyPool, SP!DestroyPool, S!Pooled, SP!Pooled, S!Unallocated, SP!Unallocated,
         S!Range, SP!Range
<1> QED
  BY <1>1, <1>2, <1>3, <1>4

LEMMA SameConnection ==
  /\ S!TcpInit <=> TcpInit
  /\ \A units : S!ServerRead(units) <=> ServerRead(units)
  /\ \A res : S!ServerReadEnd(res) <=> ServerReadEnd(res)
  /\ \A res : S!ServerSend(res) <=> ServerSend(res)
  /\ S!ServerClose <=> ServerClose
<1>1. \A units : S!ServerRead(units) <=> ServerRead(units)
  BY DEF S!ServerRead, ServerRead, S!Smaller, Smaller
<1>2. \A res : S!ServerReadEnd(res) <=> ServerReadEnd(res)
  BY DEF S!ServerReadEnd, ServerReadEnd, S!ReadEnd, ReadEnd, S!Mark, Mark, S!Error, Error
<1>3. \A res : S!ServerSend(res) <=> ServerSend(res)
  BY DEF S!ServerSend, ServerSend, S!SendInVain, SendInVain, S!Broken, Broken, S!Mark, Mark,
         S!Error, Error, S!Smaller, Smaller
<1>4. S!ServerClose <=> ServerClose
  BY DEF S!ServerClose, ServerClose, S!Hangup, Hangup
<1>5. S!TcpInit <=> TcpInit
  BY DEF S!TcpInit, TcpInit, S!End, End
<1> QED
  BY <1>1, <1>2, <1>3, <1>4, <1>5

LEMMA SameConnectionThere ==
  /\ \A units : SP!ServerRead(units) <=> ServerRead(units)
  /\ \A res : SP!ServerReadEnd(res) <=> ServerReadEnd(res)
  /\ \A res : SP!ServerSend(res) <=> ServerSend(res)
  /\ SP!ServerClose <=> ServerClose
<1>1. \A units : SP!ServerRead(units) <=> ServerRead(units)
  BY DEF SP!ServerRead, ServerRead, SP!Smaller, Smaller
<1>2. \A res : SP!ServerReadEnd(res) <=> ServerReadEnd(res)
  BY DEF SP!ServerReadEnd, ServerReadEnd, SP!ReadEnd, ReadEnd, SP!Mark, Mark, SP!Error, Error
<1>3. \A res : SP!ServerSend(res) <=> ServerSend(res)
  BY DEF SP!ServerSend, ServerSend, SP!SendInVain, SendInVain, SP!Broken, Broken, SP!Mark, Mark,
         SP!Error, Error, SP!Smaller, Smaller
<1>4. SP!ServerClose <=> ServerClose
  BY DEF SP!ServerClose, ServerClose, SP!Hangup, Hangup
<1> QED
  BY <1>1, <1>2, <1>3, <1>4

LEMMA SameSets ==
  /\ \A T : S!Cardinality(T) = Cardinality(T) /\ SP!Cardinality(T) = Cardinality(T)
  /\ \A T : SP!IsFiniteSet(T) <=> IsFiniteSet(T)
BY DEF S!Cardinality, SP!Cardinality, Cardinality, SP!IsFiniteSet, IsFiniteSet

LEMMA SameServer ==
  /\ S!ServerInit => SP!ServerInit
  /\ S!ServerStep => SP!ServerStep
<1>1. S!ServerInit => SP!ServerInit
  BY SameServerPool DEF S!ServerInit, SP!ServerInit, S!Blank, SP!Blank, S!Junk, SP!Junk
<1>2. S!PostRead => SP!PostRead
  BY SameServerPool, SameSets DEF S!PostRead, SP!PostRead, S!add_read_request, SP!add_read_request
<1>3. S!SubmitReads => SP!SubmitReads
  BY SameSets DEF S!SubmitReads, SP!SubmitReads, S!ringVars, SP!ringVars, S!poolVars, SP!poolVars
<1>4. \A type : S!Completed(type) <=> SP!Completed(type)
  BY DEF S!Completed, SP!Completed
<1>5. \A w : S!PageNumber(w) = SP!PageNumber(w)
  BY DEF S!PageNumber, SP!PageNumber, S!Request, SP!Request, S!NoRequest, SP!NoRequest
<1>6. \A a : S!Answer(a) => SP!Answer(a)
  BY <1>5, SameServerPool DEF S!Answer, SP!Answer, S!MayAccept, SP!MayAccept, S!Request, SP!Request,
         S!add_read_request, SP!add_read_request, S!add_write_request, SP!add_write_request
<1>7. S!HandleRead => SP!HandleRead
  BY <1>4, <1>6 DEF S!HandleRead, SP!HandleRead
<1>8. S!HandleEof => SP!HandleEof
  BY <1>4, SameServerPool DEF S!HandleEof, SP!HandleEof, S!ringVars, SP!ringVars
<1>9. S!HandleWrite => SP!HandleWrite
  BY <1>4, SameServerPool DEF S!HandleWrite, SP!HandleWrite, S!Blank, SP!Blank, S!Junk, SP!Junk
<1>10. S!HandleInvalid => SP!HandleInvalid
  BY <1>4, <1>5 DEF S!HandleInvalid, SP!HandleInvalid, S!MayRefuse, SP!MayRefuse,
         S!NoRequest, SP!NoRequest, S!ringVars, SP!ringVars, S!poolVars, SP!poolVars
<1>11. S!QueueExit => SP!QueueExit
  BY DEF S!QueueExit, SP!QueueExit, S!ringVars, SP!ringVars, S!poolVars, SP!poolVars
<1>12. \A o, res : S!Complete(o, res) <=> SP!Complete(o, res)
  BY DEF S!Complete, SP!Complete
<1>13. S!KernelRead => SP!KernelRead
  BY <1>12, SameConnection, SameConnectionThere DEF S!KernelRead, SP!KernelRead, S!Running, SP!Running, S!poolVars, SP!poolVars
<1>14. S!KernelReadEnd => SP!KernelReadEnd
  BY <1>12, SameConnection, SameConnectionThere DEF S!KernelReadEnd, SP!KernelReadEnd, S!Running, SP!Running, S!poolVars, SP!poolVars,
         S!Error, SP!Error
<1>15. S!KernelWrite => SP!KernelWrite
  BY <1>12, SameConnection, SameConnectionThere DEF S!KernelWrite, SP!KernelWrite, S!Running, SP!Running, S!poolVars, SP!poolVars,
         S!Error, SP!Error
<1> QED
  BY <1>1, <1>2, <1>3, <1>7, <1>8, <1>9, <1>10, <1>11, <1>13, <1>14, <1>15,
     SameConnection, SameConnectionThere
     DEF S!ServerStep, SP!ServerStep, S!ServerThread, SP!ServerThread, S!LocalStep, SP!LocalStep,
         S!ServerKernel, SP!ServerKernel, S!tcpVars, SP!tcpVars

\* Each side keeps its own invariant, whatever the other does.
SidesOK == SqInv /\ ClientInv /\ SP!ServerInv

LEMMA SidesInit == Init => SidesOK
BY SqInvInit, InvInit, SameServer, SP!InvInit, ServerAssumptions
   DEF Init, SidesOK

LEMMA SidesStep == SidesOK /\ [Next]_vars => SidesOK'
<1> SUFFICES ASSUME SidesOK, [Next]_vars PROVE SidesOK'
  OBVIOUS
<1>1. ClientStep \/ UNCHANGED clientVars
  BY DEF Next, vars
<1>2. SP!ServerStep \/ UNCHANGED SP!serverVars
  BY SameServer DEF Next, vars, serverSide, SP!serverVars, SP!poolVars
<1>3. SqInv' /\ ClientInv'
  BY <1>1, SqInvStep, InvStep DEF SidesOK
<1>4. SP!ServerInv'
  BY <1>2, SP!InvStep, ServerAssumptions DEF SidesOK
<1> QED  BY <1>3, <1>4 DEF SidesOK
-----------------------------------------------------------------------------
(* What the steps of the client do to the requests and receives under way. *)

LEMMA UnsentIs ==
  /\ Unsent = {o \in {sq[n] : n \in DOMAIN sq} \cup inflight : o.op = "send"}
  /\ UnsentData \subseteq Asking
BY OutstandingIs DEF Unsent, UnsentData, Asking, Range

LEMMA PrepareIs ==
  ASSUME SidesOK, NEW op \in {"send", "recv"}, NEW page, Prepare(op, page),
         UNCHANGED <<inflight, cq>>
  PROVE  \E a \in Addr :
           /\ a \notin Asking /\ a \notin Receiving
           /\ Asking' = Asking \cup IF op = "send" THEN {a} ELSE {}
           /\ Receiving' = Receiving \cup IF op = "recv" THEN {a} ELSE {}
           /\ UnsentData' = UnsentData \cup IF op = "send" THEN {a} ELSE {}
           /\ mem'[a].page = page /\ \A b \in UnsentData : mem'[b] = mem[b]
           /\ \A n \in DOMAIN sq' : sq'[n].got = 0 \/ \E m \in DOMAIN sq : sq'[n] = sq[m]
<1>0. RingOK /\ ClientInv  BY DEF SidesOK, ClientInv
<1>1. PICK a \in Addr :
        /\ Allocate(SizeOf[op], a)
        /\ mem' = [mem EXCEPT ![a] = [event_type |-> op, page |-> page]]
        /\ sq' = Append(sq, [op |-> op, data |-> a, got |-> 0])
  BY DEF Prepare
<1> DEFINE o == [op |-> op, data |-> a, got |-> 0]
           m == Len(sq) + 1
<1>2. o \in Op /\ o.op = op /\ o.data = a /\ o.got = 0  BY TcpAssumption DEF Op
<1>3. sq' = Append(sq, o)  BY <1>1
<1> HIDE DEF o
<1>4. /\ DOMAIN sq' = DOMAIN sq \cup {m} /\ m \notin DOMAIN sq
      /\ \A n \in DOMAIN sq : sq'[n] = sq[n]
      /\ sq'[m] = o
  BY <1>0, <1>2, <1>3, QueueLast DEF RingOK
<1> HIDE DEF m
<1>5. \A p \in Outstanding : p.data # a
  <2>1. SizeOf[op] \in Sizes  BY ClientAssumption DEF SizeOf
  <2> QED  BY <1>0, <1>1, <2>1, FreshBlock
<1>6. {sq'[n] : n \in DOMAIN sq'} = {sq[n] : n \in DOMAIN sq} \cup {o}
  BY <1>4
<1>7. Outstanding' = Outstanding \cup {o} /\ Unsent' = Unsent \cup {p \in {o} : p.op = "send"}
  <2>1. /\ Outstanding' = {sq'[n] : n \in DOMAIN sq'} \cup inflight' \cup {cq'[n] : n \in DOMAIN cq'}
        /\ Unsent' = {p \in {sq'[n] : n \in DOMAIN sq'} \cup inflight' : p.op = "send"}
    BY DEF Outstanding, Unsent, Range
  <2> QED  BY <1>6, <2>1, OutstandingIs, UnsentIs
<1>8. a \notin Asking /\ a \notin Receiving  BY <1>5 DEF Asking, Receiving
<1>9. /\ Asking' = Asking \cup IF op = "send" THEN {a} ELSE {}
      /\ Receiving' = Receiving \cup IF op = "recv" THEN {a} ELSE {}
      /\ UnsentData' = UnsentData \cup IF op = "send" THEN {a} ELSE {}
  <2>1. CASE op = "send"  BY <1>2, <1>7, <2>1 DEF Asking, Receiving, UnsentData
  <2>2. CASE op = "recv"  BY <1>2, <1>7, <2>2 DEF Asking, Receiving, UnsentData
  <2> QED  BY <2>1, <2>2
<1>10. mem'[a].page = page /\ \A b \in UnsentData : mem'[b] = mem[b]
  <2>1. \A b \in UnsentData : b \in Addr /\ b # a
    <3>1. \A p \in Outstanding : p.data \in Addr  BY <1>0, OperationShape
    <3> QED  BY <1>8, <3>1, UnsentIs DEF Asking
  <2> QED  BY <1>0, <1>1, <2>1 DEF RingOK
<1>11. \A n \in DOMAIN sq' : sq'[n].got = 0 \/ \E k \in DOMAIN sq : sq'[n] = sq[k]
  BY <1>2, <1>4
<1> QED  BY <1>8, <1>9, <1>10, <1>11

LEMMA ReapIs ==
  ASSUME SidesOK, Reap
  PROVE  /\ UnsentData' = UnsentData
         /\ \A b \in UnsentData : mem'[b] = mem[b]
         /\ Head(cq).op = "send" =>
              /\ Head(cq).data \in Asking /\ Asking' = Asking \ {Head(cq).data}
              /\ Receiving' = Receiving
              /\ UNCHANGED <<iterations_received, total_received>>
         /\ Head(cq).op = "recv" =>
              /\ Head(cq).data \in Receiving /\ Receiving' = Receiving \ {Head(cq).data}
              /\ Asking' = Asking
              /\ iterations_received' = iterations_received + 1
              /\ total_received' = total_received + Head(cq).res
         /\ Head(cq).op \in {"send", "recv"} /\ Head(cq) \in Cqe
<1>0. RingOK /\ Apart /\ TypesOK /\ ClientInv  BY DEF SidesOK, ClientInv
<1> DEFINE c == Head(cq)
<1>1. /\ cq # <<>> /\ cq' = Tail(cq) /\ Count(c) /\ mem' = [mem EXCEPT ![c.data] = Blank]
      /\ UNCHANGED <<sq, inflight>>
  BY DEF Reap
<1>2. /\ c \in Outstanding /\ c \in Cqe
      /\ Outstanding' = Outstanding \ {c}
      /\ \A o \in Outstanding' : o.data # c.data
  BY <1>0, <1>1, Taken
<1>3. c.op \in {"send", "recv"} /\ TypeOf(c) = c.op
  BY <1>0, <1>2 DEF Cqe, TypesOK, TypeOf
<1> HIDE DEF c
<1>4. Unsent' = Unsent /\ UnsentData' = UnsentData
  BY <1>1 DEF Unsent, UnsentData
<1>5. \A b \in UnsentData : mem'[b] = mem[b]
  <2>1. \A b \in UnsentData : b # c.data
    <3>1. \A o \in Unsent : o \in Outstanding'  BY <1>1, UnsentIs DEF Unsent, Outstanding
    <3> QED  BY <1>2, <3>1 DEF UnsentData
  <2>2. \A b \in UnsentData : b \in Addr
    <3>1. \A p \in Outstanding : p.data \in Addr  BY <1>0, OperationShape
    <3> QED  BY <3>1, UnsentIs DEF Asking
  <2> QED  BY <1>0, <1>1, <2>1, <2>2 DEF RingOK
<1>6. CASE c.op = "send"
  BY <1>1, <1>2, <1>3, <1>4, <1>5, <1>6 DEF Asking, Receiving, Count, c
<1>7. CASE c.op = "recv"
  BY <1>1, <1>2, <1>3, <1>4, <1>5, <1>7 DEF Asking, Receiving, Count, c
<1> QED  BY <1>3, <1>6, <1>7 DEF c

LEMMA SubmitIs ==
  ASSUME Submit
  PROVE  UNCHANGED <<Asking, Receiving, UnsentData, mem>>
<1>1. /\ inflight' = inflight \cup {sq[n] : n \in DOMAIN sq} /\ sq' = <<>> /\ cq' = cq /\ mem' = mem
  BY DEF Submit, Range
<1>2. /\ Outstanding' = {sq'[n] : n \in DOMAIN sq'} \cup inflight' \cup {cq'[n] : n \in DOMAIN cq'}
      /\ Unsent' = {p \in {sq'[n] : n \in DOMAIN sq'} \cup inflight' : p.op = "send"}
  BY DEF Outstanding, Unsent, Range
<1>3. Outstanding' = Outstanding /\ Unsent' = Unsent
  BY <1>1, <1>2, OutstandingIs, UnsentIs
<1> QED  BY <1>1, <1>3 DEF Asking, Receiving, UnsentData

\* An operation of the client completes.
LEMMA CompleteIs ==
  ASSUME SidesOK, NEW o \in inflight, NEW res, Complete(o, res),
         res \in {Error} \cup (0..(PageUnits + RequestUnits)), UNCHANGED <<sq, mem>>
  PROVE  /\ UNCHANGED <<Asking, Receiving>>
         /\ o.op = "recv" => UnsentData' = UnsentData
         /\ o.op = "send" => o.data \in UnsentData /\ UnsentData' = UnsentData \ {o.data}
         /\ \A n \in DOMAIN cq' : (cq'[n].op = o.op /\ cq'[n].res = res) \/ \E m \in DOMAIN cq : cq'[n] = cq[m]
<1>0. RingOK /\ Apart  BY DEF SidesOK, ClientInv
<1> DEFINE c == [op |-> o.op, data |-> o.data, res |-> res]
<1>1. inflight' = inflight \ {o} /\ cq' = Append(cq, c)  BY DEF Complete
<1>2. c \in Cqe /\ c.data = o.data /\ c.op = o.op /\ c.res = res  BY <1>0 DEF RingOK, Op, Cqe
<1> HIDE DEF c
<1> DEFINE k == Len(cq) + 1
<1>3. /\ DOMAIN cq' = DOMAIN cq \cup {k} /\ k \notin DOMAIN cq
      /\ \A n \in DOMAIN cq : cq'[n] = cq[n]
      /\ cq'[k] = c
  BY <1>0, <1>1, <1>2, QueueLast DEF RingOK
<1> HIDE DEF k
<1>4. /\ Outstanding' \cup {o} = Outstanding \cup {c} /\ o \in Outstanding /\ c \in Outstanding'
      /\ Unsent' = Unsent \ {o}
  <2>1. /\ Outstanding' = {sq'[n] : n \in DOMAIN sq'} \cup inflight' \cup {cq'[n] : n \in DOMAIN cq'}
        /\ Unsent' = {p \in {sq'[n] : n \in DOMAIN sq'} \cup inflight' : p.op = "send"}
    BY DEF Outstanding, Unsent, Range
  <2>2. {cq'[n] : n \in DOMAIN cq'} = {cq[n] : n \in DOMAIN cq} \cup {c}
    BY <1>3
  <2>3. \A n \in DOMAIN sq : sq[n] # o  BY <1>0 DEF Apart
  <2> QED  BY <1>1, <2>1, <2>2, <2>3, OutstandingIs, UnsentIs
<1>5. Asking' = Asking /\ Receiving' = Receiving
  BY <1>2, <1>4 DEF Asking, Receiving
<1>6. \A p \in Unsent : p.data = o.data => p = o
  BY <1>0, UnsentIs DEF Apart
<1>7. o.op = "send" => o.data \in UnsentData /\ UnsentData' = UnsentData \ {o.data}
  <2> SUFFICES ASSUME o.op = "send"
               PROVE  o.data \in UnsentData /\ UnsentData' = UnsentData \ {o.data}
    OBVIOUS
  <2>1. o \in Unsent  BY UnsentIs
  <2> QED  BY <1>4, <1>6, <2>1 DEF UnsentData
<1>8. o.op = "recv" => UnsentData' = UnsentData
  <2> SUFFICES ASSUME o.op = "recv" PROVE UnsentData' = UnsentData
    OBVIOUS
  <2>1. o \notin Unsent  BY UnsentIs
  <2> QED  BY <1>4, <2>1 DEF UnsentData
<1> QED  BY <1>2, <1>3, <1>5, <1>7, <1>8

-----------------------------------------------------------------------------
(* What the steps of the handler do to the answers under way.              *)

ServerFacts ==
  /\ SP!RingOK /\ SP!Apart /\ SP!TypesOK /\ SP!ReadsOK
  /\ s_cq \in Seq(ServerCqe) /\ s_inflight \subseteq ServerOp

LEMMA ServerHas == SidesOK => ServerFacts
BY DEF SidesOK, SP!ServerInv, ServerFacts, SP!RingOK, SP!Cqe, ServerCqe, SP!Op, ServerOp

LEMMA PostReadIs ==
  ASSUME SidesOK, S!PostRead
  PROVE  Queued' = Queued /\ Answering = {} /\ Answering' = {} /\ s_cq = <<>>
<1>0. ServerFacts  BY ServerHas
<1>1. /\ s_pc = "start" /\ s_cq' = s_cq
      /\ \E a \in Addr : s_inflight' = s_inflight \cup {S!add_read_request(a)}
  BY DEF S!PostRead
<1>2. s_cq = <<>> /\ \A o \in s_inflight : o.op = "read"
  BY <1>0, <1>1 DEF ServerFacts, SP!RingOK, SP!ReadsOK
<1>3. \A o \in s_inflight' : o.op = "read"
  BY <1>1, <1>2 DEF S!add_read_request
<1>4. Queued = {} /\ Queued' = {}  BY <1>2, <1>3 DEF Queued
<1> QED  BY <1>1, <1>2, <1>4 DEF Answering

\* A buffer of the handler or of its kernel is used by one operation.
LEMMA HandleReadIs ==
  ASSUME SidesOK, S!HandleRead
  PROVE  /\ Head(s_cq).data \in Answering /\ Head(s_cq) \in GotRead
         /\ \E w : w \notin Queued /\ Queued' = Queued \cup {w}
         /\ \E a \in Addr :
              /\ a \notin Answering
              /\ Answering' = (Answering \ {Head(s_cq).data}) \cup {a}
              /\ s_mem'[a].word = WordOf(S!PageNumber(s_mem[Head(s_cq).data].word))
              /\ \A b \in Answering : s_mem'[b] = s_mem[b]
<1>0. ServerFacts /\ SP!ServerInv  BY ServerHas DEF SidesOK
<1>1. /\ s_cq # <<>> /\ s_cq' = Tail(s_cq)
      /\ s_mem[Head(s_cq).data].event_type = "read" /\ Head(s_cq).res # 0
  BY DEF S!HandleRead, S!Completed
<1> DEFINE d == Head(s_cq).data
           r == [op |-> "read", data |-> d]
<1>2. PICK a \in Addr :
        /\ S!Allocate("page", a)
        /\ s_mem' = [s_mem EXCEPT ![a] = [event_type |-> "write",
                                          word |-> S!Request(S!PageNumber(s_mem[d].word))]]
        /\ s_inflight' = s_inflight \cup {S!add_write_request(a), S!add_read_request(d)}
  BY DEF S!HandleRead, S!Answer
<1> DEFINE w == [op |-> "write", data |-> a]
<1>3. s_inflight' = s_inflight \cup {w, r} /\ w.op = "write" /\ r.op = "read" /\ w.data = a
  BY <1>2 DEF S!add_write_request, S!add_read_request
<1>4. /\ Head(s_cq) = s_cq[1] /\ 1 \in DOMAIN s_cq
      /\ \A n \in DOMAIN s_cq' : n + 1 \in DOMAIN s_cq /\ s_cq'[n] = s_cq[n + 1] /\ n + 1 # 1
      /\ \A n \in DOMAIN s_cq : n = 1 \/ (n - 1 \in DOMAIN s_cq' /\ s_cq'[n - 1] = s_cq[n])
      /\ Head(s_cq) \in ServerCqe
  BY <1>0, <1>1, QueueHead DEF ServerFacts
<1>5. Head(s_cq) \in GotRead
  <2>1. Head(s_cq).op = "read"
    BY <1>0, <1>1, <1>4 DEF ServerFacts, SP!TypesOK
  <2> QED  BY <1>1, <1>4, <2>1 DEF GotRead
<1>6. /\ \A o \in s_inflight : o.data # a
      /\ \A n \in DOMAIN s_cq : s_cq[n].data # a
  <2>1. SP!Allocate("page", a)  BY <1>2, SameServerPool
  <2> QED  BY <1>0, <2>1, SP!FreshBlock, ServerAssumptions
<1> HIDE DEF w, r
<1>7. w \notin Queued /\ Queued' = Queued \cup {w}
  BY <1>3, <1>6 DEF Queued
<1>8. a \notin Answering /\ d \in Answering
  BY <1>4, <1>6 DEF Answering, Queued
<1>9. Answering' = (Answering \ {d}) \cup {a}
  <2>1. {o.data : o \in Queued'} = {o.data : o \in Queued} \cup {a}
    BY <1>3, <1>7
  <2>2. /\ {s_cq[n].data : n \in DOMAIN s_cq} = {d} \cup {s_cq'[n].data : n \in DOMAIN s_cq'}
        /\ \A n \in DOMAIN s_cq' : s_cq'[n].data # d
    <3>1. \A n \in DOMAIN s_cq' : s_cq'[n].data # d
      BY <1>0, <1>4 DEF ServerFacts, SP!Apart
    <3> QED  BY <1>4, <3>1
  <2>3. \A o \in Queued : o.data # d
    BY <1>0, <1>4 DEF ServerFacts, SP!Apart, Queued
  <2>4. Answering' = {o.data : o \in Queued'} \cup {s_cq'[n].data : n \in DOMAIN s_cq'}
    BY DEF Answering
  <2> HIDE DEF d
  <2> QED  BY <2>1, <2>2, <2>3, <2>4 DEF Answering
<1>10. /\ s_mem'[a].word = WordOf(S!PageNumber(s_mem[d].word))
       /\ \A b \in Answering : s_mem'[b] = s_mem[b]
  <2>1. DOMAIN s_mem = Addr
    <3>1. s_mem = [b \in Addr |-> [event_type |-> s_mem[b].event_type, word |-> s_mem[b].word]]
      BY <1>0 DEF ServerFacts, SP!RingOK
    <3> QED  BY <3>1
  <2>2. S!Request(S!PageNumber(s_mem[d].word)) = WordOf(S!PageNumber(s_mem[d].word))
    BY DEF S!Request, WordOf
  <2>3. \A b \in Answering : b # a  BY <1>8
  <2> DEFINE u == S!Request(S!PageNumber(s_mem[d].word))
  <2>4. s_mem' = [s_mem EXCEPT ![a] = [event_type |-> "write", word |-> u]]  BY <1>2
  <2> HIDE DEF u
  <2>5. s_mem'[a].word = u  BY <2>1, <2>4
  <2>6. \A b \in Answering : s_mem'[b] = s_mem[b]  BY <2>3, <2>4
  <2> QED  BY <2>2, <2>5, <2>6 DEF u
<1> QED  BY <1>5, <1>7, <1>8, <1>9, <1>10

LEMMA HandleWriteIs ==
  ASSUME SidesOK, S!HandleWrite
  PROVE  /\ Queued' = Queued /\ Answering' \subseteq Answering
         /\ \A b \in Answering' : s_mem'[b] = s_mem[b]
         /\ Head(s_cq) \in Written
<1>0. ServerFacts  BY ServerHas
<1> DEFINE d == Head(s_cq).data
<1>1. /\ s_cq # <<>> /\ s_cq' = Tail(s_cq) /\ s_inflight' = s_inflight
      /\ s_mem[d].event_type = "write" /\ s_mem' = [s_mem EXCEPT ![d] = S!Blank]
  BY DEF S!HandleWrite, S!Completed
<1>4. /\ Head(s_cq) = s_cq[1] /\ 1 \in DOMAIN s_cq
      /\ \A n \in DOMAIN s_cq' : n + 1 \in DOMAIN s_cq /\ s_cq'[n] = s_cq[n + 1] /\ n + 1 # 1
      /\ Head(s_cq) \in ServerCqe
  BY <1>0, <1>1, QueueHead DEF ServerFacts
<1>5. Head(s_cq) \in Written
  <2>1. Head(s_cq).op = "write"
    BY <1>0, <1>1, <1>4 DEF ServerFacts, SP!TypesOK
  <2> QED  BY <1>4, <2>1 DEF Written
<1>6. Queued' = Queued  BY <1>1 DEF Queued
<1>7. Answering' \subseteq Answering /\ \A b \in Answering' : b # d
  <2>1. Answering' = {o.data : o \in Queued'} \cup {s_cq'[n].data : n \in DOMAIN s_cq'}
    BY DEF Answering
  <2>2. /\ \A n \in DOMAIN s_cq' : s_cq'[n].data # d
        /\ \A o \in Queued : o.data # d
    BY <1>0, <1>4 DEF ServerFacts, SP!Apart, Queued
  <2>3. \A n \in DOMAIN s_cq' : \E m \in DOMAIN s_cq : s_cq'[n] = s_cq[m]  BY <1>4
  <2> HIDE DEF d
  <2> QED  BY <1>6, <2>1, <2>2, <2>3 DEF Answering
<1>8. \A b \in Answering' : s_mem'[b] = s_mem[b]
  BY <1>1, <1>7
<1> QED  BY <1>5, <1>6, <1>7, <1>8

\* An operation of the handler completes.
Completion(o, res) == [op |-> o.op, data |-> o.data, res |-> res]

LEMMA ServerCompleteIs ==
  ASSUME SidesOK, NEW o \in s_inflight, NEW res \in Int, S!Complete(o, res)
  PROVE  /\ o \in ServerOp /\ Completion(o, res) \in ServerCqe
         /\ s_cq' = Append(s_cq, Completion(o, res))
         /\ Answering' = Answering \cup {o.data}
         /\ o.op = "read" => o.data \notin Answering /\ Queued' = Queued
         /\ o.op = "write" => o \in Queued /\ Queued' = Queued \ {o}
<1>0. ServerFacts  BY ServerHas
<1> DEFINE c == Completion(o, res)
           k == Len(s_cq) + 1
<1>1. s_inflight' = s_inflight \ {o} /\ s_cq' = Append(s_cq, c)
  BY DEF S!Complete, Completion
<1>2. o \in ServerOp /\ c \in ServerCqe /\ c.data = o.data
  BY <1>0 DEF ServerFacts, ServerOp, ServerCqe, Completion
<1> HIDE DEF c
<1>3. /\ DOMAIN s_cq' = DOMAIN s_cq \cup {k}
      /\ \A n \in DOMAIN s_cq : s_cq'[n] = s_cq[n]
      /\ s_cq'[k] = c /\ k \notin DOMAIN s_cq
  BY <1>0, <1>1, <1>2, QueueLast DEF ServerFacts
<1> HIDE DEF k
<1>4. {s_cq'[n].data : n \in DOMAIN s_cq'} = {s_cq[n].data : n \in DOMAIN s_cq} \cup {o.data}
  BY <1>2, <1>3
<1>5. Queued' = Queued \ {o}  BY <1>1 DEF Queued
<1>6. Answering' = Answering \cup {o.data}
  <2>1. Answering' = {p.data : p \in Queued'} \cup {s_cq'[n].data : n \in DOMAIN s_cq'}
    BY DEF Answering
  <2> QED  BY <1>4, <1>5, <2>1 DEF Answering
<1>7. o.op = "read" => o.data \notin Answering /\ Queued' = Queued
  <2>1. o.op = "read" => o \notin Queued  BY DEF Queued
  <2> QED  BY <1>0, <1>5, <2>1 DEF ServerFacts, SP!Apart, Answering, Queued
<1>8. o.op = "write" => o \in Queued  BY DEF Queued
<1> QED  BY <1>1, <1>2, <1>5, <1>6, <1>7, <1>8 DEF c

LEMMA KernelReadIs ==
  ASSUME RequestUnits = 1, SidesOK, DataOK, S!KernelRead
  PROVE  /\ toServer # <<>> /\ toServer' = Tail(toServer) /\ UNCHANGED <<toClient, link>>
         /\ Queued' = Queued
         /\ \E a \in Addr :
              /\ a \notin Answering /\ Answering' = Answering \cup {a}
              /\ s_mem'[a].word = [i \in 1..RequestUnits |-> toServer[1]]
              /\ \A b \in Answering : s_mem'[b] = s_mem[b]
         /\ \E c \in ServerCqe : c.op = "read" /\ c.res = 1 /\ s_cq' = Append(s_cq, c)
<1>0. ServerFacts  BY ServerHas
<1>1. PICK o \in s_inflight, n \in 1..RequestUnits :
        /\ o.op = "read" /\ n <= Len(toServer)
        /\ S!ServerRead(SubSeq(toServer, 1, n))
        /\ s_mem' = [s_mem EXCEPT ![o.data].word =
                       [i \in 1..RequestUnits |-> IF i <= n THEN SubSeq(toServer, 1, n)[i] ELSE @[i]]]
        /\ S!Complete(o, n)
  BY DEF S!KernelRead
<1>2. n = 1 /\ toServer \in Seq(Int \X Int) /\ Len(toServer) >= 1 /\ n \in Int
  BY <1>1 DEF DataOK
<1>3. /\ toServer # <<>> /\ 1 \in 0..Len(toServer)
      /\ Len(SubSeq(toServer, 1, 1)) = 1 /\ SubSeq(toServer, 1, 1)[1] = toServer[1]
      /\ SubSeq(toServer, 2, Len(toServer)) = Tail(toServer)
  BY <1>2
<1>4. /\ toServer' = Tail(toServer) /\ UNCHANGED <<toClient, link>>
  <2>1. ServerRead(SubSeq(toServer, 1, n))  BY <1>1, SameConnection
  <2> QED  BY <1>2, <1>3, <2>1 DEF ServerRead
<1>5. /\ o \in ServerOp /\ Completion(o, n) \in ServerCqe
      /\ s_cq' = Append(s_cq, Completion(o, n))
      /\ Answering' = Answering \cup {o.data}
      /\ o.data \notin Answering /\ Queued' = Queued
  BY <1>1, <1>2, ServerCompleteIs
<1>6. Completion(o, n).op = "read" /\ Completion(o, n).res = 1
  BY <1>1, <1>2 DEF Completion
<1>7. o.data \in Addr  BY <1>5 DEF ServerOp
<1>8. /\ s_mem'[o.data].word = [i \in 1..RequestUnits |-> toServer[1]]
      /\ \A b \in Answering : s_mem'[b] = s_mem[b]
  <2>0. s_mem = [b \in Addr |-> [event_type |-> s_mem[b].event_type, word |-> s_mem[b].word]]
    BY <1>0 DEF ServerFacts, SP!RingOK
  <2> DEFINE u == [i \in 1..RequestUnits |-> IF i <= n THEN SubSeq(toServer, 1, n)[i] ELSE s_mem[o.data].word[i]]
  <2>1. s_mem' = [s_mem EXCEPT ![o.data].word = u]  BY <1>1
  <2>2. u = [i \in 1..RequestUnits |-> toServer[1]]
    <3>1. \A i \in 1..RequestUnits : i = 1 /\ i <= n  BY <1>2
    <3> QED  BY <1>2, <1>3, <3>1
  <2> HIDE DEF u
  <2>3. s_mem'[o.data].word = u
    <3>1. s_mem[o.data] = [event_type |-> s_mem[o.data].event_type, word |-> s_mem[o.data].word]
          /\ DOMAIN s_mem = Addr
      BY <1>7, <2>0
    <3>2. s_mem'[o.data] = [s_mem[o.data] EXCEPT !.word = u]  BY <1>7, <2>1, <3>1
    <3>3. DOMAIN s_mem[o.data] = {"event_type", "word"}  BY <3>1
    <3> QED  BY <3>2, <3>3
  <2>4. \A b \in Answering : s_mem'[b] = s_mem[b]
    <3>1. \A b \in Answering : b # o.data  BY <1>5
    <3> QED  BY <2>1, <3>1
  <2> QED  BY <2>2, <2>3, <2>4
<1> QED  BY <1>3, <1>4, <1>5, <1>6, <1>7, <1>8

LEMMA KernelReadEndIs ==
  ASSUME SidesOK, S!KernelReadEnd
  PROVE  /\ Queued' = Queued
         /\ \E c \in ServerCqe, res \in {0, Error} :
              c.op = "read" /\ c.res = res /\ s_cq' = Append(s_cq, c) /\ ServerReadEnd(res)
<1>1. PICK o \in s_inflight, res \in {0, Error} :
        o.op = "read" /\ S!ServerReadEnd(res) /\ S!Complete(o, res)
  BY DEF S!KernelReadEnd, S!Error, Error
<1>2. res \in Int  BY DEF Error
<1>3. /\ Completion(o, res) \in ServerCqe /\ s_cq' = Append(s_cq, Completion(o, res))
      /\ Queued' = Queued
  BY <1>1, <1>2, ServerCompleteIs
<1>4. Completion(o, res).op = "read" /\ Completion(o, res).res = res  BY <1>1 DEF Completion
<1> QED  BY <1>1, <1>3, <1>4, SameConnection

LEMMA KernelWriteIs ==
  ASSUME SidesOK, S!KernelWrite
  PROVE  \E o \in Queued, c \in ServerCqe, res \in {Error} \cup 1..PageUnits :
           /\ Queued' = Queued \ {o} /\ Answering' = Answering
           /\ c.op = "write" /\ c.res = res /\ s_cq' = Append(s_cq, c)
           /\ ServerSend(res)
<1>1. PICK o \in s_inflight, res \in {Error} \cup 1..PageUnits :
        o.op = "write" /\ S!ServerSend(res) /\ S!Complete(o, res)
  BY DEF S!KernelWrite, S!Error, Error
<1>2. res \in Int  BY TcpAssumption DEF Error
<1>3. /\ Completion(o, res) \in ServerCqe /\ s_cq' = Append(s_cq, Completion(o, res))
      /\ Answering' = Answering \cup {o.data}
      /\ o \in Queued /\ Queued' = Queued \ {o}
  BY <1>1, <1>2, ServerCompleteIs
<1>4. Completion(o, res).op = "write" /\ Completion(o, res).res = res  BY <1>1 DEF Completion
<1>5. o.data \in Answering  BY <1>3 DEF Answering
<1>6. Answering' = Answering  BY <1>3, <1>5
<1>7. ServerSend(res)  BY <1>1, SameConnection
<1> QED  BY <1>3, <1>4, <1>6, <1>7

-----------------------------------------------------------------------------
(* Requests are conserved: what the steps of each side preserve.           *)

Conserved ==
  /\ LinkOK /\ DataOK
  /\ Up => ResultsOK /\ CountOK /\ PagesUnique

\* A step that moves no request.
LEMMA PagesKept ==
  ASSUME PagesUnique, toServer' = toServer, send_index' = send_index,
         UnsentData' \subseteq UnsentData, \A b \in UnsentData : mem'[b] = mem[b],
         Answering' \subseteq Answering, \A a \in Answering' : s_mem'[a].word = s_mem[a].word
  PROVE  PagesUnique'
<1>1. \A a \in Answering' : a \in Answering /\ PageOf(a)' = PageOf(a)
  BY DEF PageOf
<1>2. \A p : AskedFor(p)' <=> AskedFor(p)
  BY DEF AskedFor
<1> QED  BY <1>1, <1>2 DEF PagesUnique

LEMMA ServerSame ==
  ASSUME UNCHANGED serverSide
  PROVE  UNCHANGED <<Queued, Answering, s_mem, s_cq, s_pc, write_req_num>>
BY DEF serverSide, Queued, Answering

LEMMA ClientSame ==
  ASSUME UNCHANGED clientVars
  PROVE  UNCHANGED <<UnsentData, Asking, Receiving, mem, sq, inflight, cq, reaped, pc,
                     send_index, recv_index, iterations_received, total_received>>
BY DEF clientVars, threadVars, ringVars, Unsent, UnsentData, Asking, Receiving, Outstanding

LEMMA QuietClient ==
  ASSUME Conserved, Up, UNCHANGED serverSide, UNCHANGED <<toServer, link>>,
         UnsentData' = UnsentData, send_index' = send_index,
         \A b \in UnsentData : mem'[b] = mem[b],
         ResultsOK', IsFiniteSet(inflight'), toClient' \in Nat,
         pc' \in {"send", "recv", "reap", "exit"}
  PROVE  Conserved'
<1>1. UNCHANGED <<Queued, Answering, s_mem, s_cq, s_pc, write_req_num>>  BY ServerSame
<1>2. LinkOK'  BY <1>1 DEF Conserved, LinkOK, Up
<1>3. DataOK'  BY <1>1 DEF Conserved, DataOK
<1>4. CountOK'  BY <1>1 DEF Conserved, CountOK
<1>5. PagesUnique'  BY <1>1, PagesKept DEF Conserved
<1> QED  BY <1>2, <1>3, <1>4, <1>5 DEF Conserved

\* The requests that the client has, and those that are on their way.
LEMMA Types ==
  ASSUME SidesOK
  PROVE  /\ send_index \in Nat /\ recv_index \in Nat /\ StartIndex \in Nat /\ NumRequests \in Nat
         /\ iterations_received \in Nat /\ total_received \in Nat /\ reaped \in Nat
         /\ PageUnits \in Nat \ {0} /\ RequestUnits \in Nat \ {0} /\ SockBuf \in Nat \ {0}
         /\ inflight \subseteq Op /\ cq \in Seq(Cqe) /\ sq \in Seq(Op)
         /\ recv_index <= send_index /\ send_index <= NumRequests
         /\ \A b \in UnsentData : /\ b \in Addr /\ mem[b].page \in Int
                                  /\ AskedFor(mem[b].page)
         /\ \A a, b \in UnsentData : mem[a].page = mem[b].page => a = b
<1>1. ClientInv /\ RingOK /\ PagesOK /\ SqInv  BY DEF SidesOK, ClientInv
<1>2. \A b \in Asking : b \in Addr
  BY <1>1, OperationShape DEF Asking
<1>3. \A b \in Asking : mem[b].page \in Int
  <2>1. Page \subseteq Int /\ NoPage \in Int  BY ClientAssumption DEF Page, NoPage
  <2> QED  BY <1>1, <1>2, <2>1 DEF RingOK, Block
<1>4. \A b \in UnsentData : b \in Asking  BY UnsentIs
<1>5. send_index \in Nat /\ recv_index \in Nat /\ send_index <= NumRequests
  BY <1>1, ClientAssumption DEF RingOK
<1>6. \A b \in Asking : AskedFor(mem[b].page)  BY <1>1 DEF PagesOK, AskedFor
<1>7. \A a, b \in Asking : mem[a].page = mem[b].page => a = b  BY <1>1 DEF PagesOK
<1> QED  BY <1>1, <1>2, <1>3, <1>4, <1>5, <1>6, <1>7, ClientAssumption, TcpAssumption
            DEF RingOK, SqInv, IndexOK

LEMMA ConservedPrepSend ==
  ASSUME SidesOK, Conserved, Up, PrepSend, UNCHANGED tcpVars, UNCHANGED serverSide
  PROVE  Conserved'
<1>0. LinkOK /\ DataOK /\ ResultsOK /\ CountOK /\ PagesUnique  BY DEF Conserved
<1>1. /\ pc = "send" /\ pc' = "send" /\ Prepare("send", StartIndex + send_index)
      /\ send_index' = send_index + 1 /\ UNCHANGED <<inflight, cq>>
      /\ UNCHANGED <<toServer, toClient, link>>
  BY DEF PrepSend, tcpVars
<1>2. PICK a \in Addr :
         /\ a \notin Asking
         /\ UnsentData' = UnsentData \cup {a}
         /\ mem'[a].page = StartIndex + send_index /\ \A b \in UnsentData : mem'[b] = mem[b]
         /\ \A n \in DOMAIN sq' : sq'[n].got = 0 \/ \E m \in DOMAIN sq : sq'[n] = sq[m]
  BY <1>1, PrepareIs
<1>3. UNCHANGED <<Queued, Answering, s_mem, s_cq, s_pc, write_req_num>>  BY ServerSame
<1>4. a \notin UnsentData  BY <1>2, UnsentIs
<1>5. LinkOK' /\ Up'  BY <1>0, <1>1, <1>3 DEF LinkOK, Up
<1>6. /\ IsFiniteSet(UnsentData') /\ Cardinality(UnsentData') = Cardinality(UnsentData) + 1
      /\ Cardinality(UnsentData) \in Nat
  BY <1>0, <1>2, <1>4, FS_AddElement, FS_CardinalityType DEF DataOK
<1>7. DataOK'  BY <1>0, <1>1, <1>3, <1>6 DEF DataOK
<1>8. ResultsOK'  BY <1>0, <1>1, <1>2, <1>3 DEF ResultsOK
<1>9. CountOK'
  <2>1. Len(toServer) \in Nat /\ Cardinality(PlacesIn(s_cq, Reads)) \in Nat /\ write_req_num \in Nat
    <3>1. s_cq \in Seq(ServerCqe)  BY ServerHas DEF ServerFacts
    <3>2. Cardinality(PlacesIn(s_cq, Reads)) \in Nat  BY <3>1, PlacesFinite
    <3>3. Len(toServer) \in Nat /\ write_req_num \in Nat  BY <1>0 DEF DataOK
    <3> QED  BY <3>2, <3>3
  <2> QED  BY <1>0, <1>1, <1>3, <1>6, <2>1 DEF CountOK
<1>10. PagesUnique'
  <2>1. send_index \in Nat /\ StartIndex \in Nat  BY Types
  <2>2. \A p : AskedFor(p) => AskedFor(p)' /\ p # StartIndex + send_index
    BY <1>1, <2>1 DEF AskedFor
  <2>3. \A b \in Answering : PageOf(b)' = PageOf(b) /\ s_mem'[b] = s_mem[b]  BY <1>3 DEF PageOf
  <2>4. \A k \in DOMAIN toServer : AskedFor(toServer[k][1])  BY <1>0 DEF PagesUnique
  <2>5. \A b \in Answering : AskedFor(PageOf(b))  BY <1>0 DEF PagesUnique
  <2>6. \A b \in UnsentData' : b = a \/ (b \in UnsentData /\ mem'[b] = mem[b])  BY <1>2
  <2> QED  BY <1>0, <1>1, <1>2, <1>3, <2>2, <2>3, <2>4, <2>5, <2>6 DEF PagesUnique
<1> QED  BY <1>5, <1>7, <1>8, <1>9, <1>10 DEF Conserved

\* The request words of the pair are of one unit.
LEMMA SendIs ==
  ASSUME RequestUnits = 1, DataOK, link["client"] = "open", NEW page \in Int, NEW res,
         ClientSend(Word(page), res)
  PROVE  /\ toServer' = Append(toServer, <<page, 1>>) /\ <<page, 1>> \in Int \X Int
         /\ UNCHANGED <<toClient, link>> /\ res = 1
<1> DEFINE w == Word(page)
<1>1. w \in Seq(Int \X Int) /\ Len(w) = 1 /\ w[1] = <<page, 1>> /\ <<page, 1>> \in Int \X Int
  BY DEF Word
<1> HIDE DEF w
<1>2. /\ toServer' = toServer \o w /\ res = Len(w) /\ UNCHANGED <<toClient, link>>
  BY DEF ClientSend, SendInVain, Broken, w
<1>3. toServer \o w = Append(toServer, <<page, 1>>)
  BY <1>1, OneMore DEF DataOK
<1> QED  BY <1>1, <1>2, <1>3

LEMMA ConservedKernelSend ==
  ASSUME RequestUnits = 1, SidesOK, Conserved, Up, KernelSend, UNCHANGED serverSide
  PROVE  Conserved'
<1>0. LinkOK /\ DataOK /\ ResultsOK /\ CountOK /\ PagesUnique  BY DEF Conserved
<1>1. PICK o \in inflight, res \in {RequestUnits, Error} :
        /\ o.op = "send"
        /\ ClientSend(Word(mem[o.data].page), res)
        /\ Complete(o, res)
  BY DEF KernelSend
<1> DEFINE p == mem[o.data].page
           x == <<p, 1>>
<1>2. UNCHANGED <<pc, send_index, mem, sq>>  BY DEF KernelSend, threadVars
<1>3. UNCHANGED <<Queued, Answering, s_mem, s_cq, s_pc, write_req_num>>  BY ServerSame
<1>4. o.data \in UnsentData /\ p \in Int /\ AskedFor(p)
  <2>1. o.data \in UnsentData  BY <1>1, UnsentIs DEF UnsentData
  <2> QED  BY <2>1, Types
<1>5. link["client"] = "open"  BY <1>0 DEF LinkOK, End
<1>6. toServer' = Append(toServer, x) /\ x \in Int \X Int /\ UNCHANGED <<toClient, link>> /\ res = 1
  BY <1>0, <1>1, <1>4, <1>5, SendIs
<1>7. /\ UnsentData' = UnsentData \ {o.data}
      /\ \A n \in DOMAIN cq' : (cq'[n].op = o.op /\ cq'[n].res = res) \/ \E m \in DOMAIN cq : cq'[n] = cq[m]
  <2>1. res \in {Error} \cup (0..(PageUnits + RequestUnits))
    BY TcpAssumption
  <2> QED  BY <1>1, <1>2, <2>1, CompleteIs
<1>8. LinkOK' /\ Up'  BY <1>0, <1>2, <1>3, <1>6 DEF LinkOK, Up
<1>9. /\ IsFiniteSet(UnsentData') /\ Cardinality(UnsentData') = Cardinality(UnsentData) - 1
      /\ Cardinality(UnsentData) \in Nat
  BY <1>0, <1>4, <1>7, FS_RemoveElement, FS_CardinalityType DEF DataOK
<1> DEFINE k == Len(toServer) + 1
<1>10. /\ toServer' \in Seq(Int \X Int) /\ Len(toServer') = Len(toServer) + 1
       /\ Len(toServer) \in Nat
       /\ DOMAIN toServer' = DOMAIN toServer \cup {k} /\ k \notin DOMAIN toServer
       /\ \A n \in DOMAIN toServer : toServer'[n] = toServer[n]
       /\ toServer'[k] = x
  <2>1. toServer \in Seq(Int \X Int)  BY <1>0 DEF DataOK
  <2> HIDE DEF x
  <2>2. Len(Append(toServer, x)) = Len(toServer) + 1 /\ Len(toServer) \in Nat
    BY <1>6, <2>1
  <2> QED  BY <1>6, <2>1, <2>2, QueueLast
<1>11. x[1] = p /\ x = <<x[1], 1>>  OBVIOUS
<1> HIDE DEF p, x, k
<1>12. DataOK'
  <2>1. IsFiniteSet(inflight')
    <3>1. inflight' = inflight \ {o}  BY <1>1 DEF Complete
    <3> QED  BY <1>0, <3>1, FS_RemoveElement, FS_Subset DEF DataOK
  <2> QED  BY <1>0, <1>3, <1>6, <1>9, <1>10, <2>1 DEF DataOK
<1>13. ResultsOK'
  <2>1. inflight' = inflight \ {o}  BY <1>1 DEF Complete
  <2> QED  BY <1>0, <1>1, <1>2, <1>3, <1>6, <1>7, <2>1 DEF ResultsOK
<1>14. CountOK'
  <2>1. Cardinality(PlacesIn(s_cq, Reads)) \in Nat /\ write_req_num \in Nat
    <3>1. s_cq \in Seq(ServerCqe)  BY ServerHas DEF ServerFacts
    <3> QED  BY <1>0, <3>1, PlacesFinite DEF DataOK
  <2> QED  BY <1>0, <1>2, <1>3, <1>9, <1>10, <2>1 DEF CountOK
<1>15. PagesUnique'
  <2>1. \A q : AskedFor(q)' <=> AskedFor(q)  BY <1>2 DEF AskedFor
  <2>2. \A b \in Answering : PageOf(b)' = PageOf(b) /\ s_mem'[b] = s_mem[b]  BY <1>3 DEF PageOf
  <2>3. \A b \in UnsentData' : b \in UnsentData /\ b # o.data /\ mem'[b] = mem[b]  BY <1>2, <1>7
  <2>4. \A b \in UnsentData' : mem[b].page # p  BY <1>4, <2>3, Types DEF p
  <2>5. \A l \in DOMAIN toServer : toServer[l][1] # p
    BY <1>0, <1>4 DEF PagesUnique, p
  <2>6. \A a \in Answering : PageOf(a) # p
    BY <1>0, <1>4 DEF PagesUnique, p
  <2>7. \A n \in DOMAIN toServer' : (n \in DOMAIN toServer /\ toServer'[n] = toServer[n]) \/ (n = k /\ toServer'[n] = x)
    BY <1>10
  <2>8. \A n \in DOMAIN toServer' : toServer'[n] = <<toServer'[n][1], 1>> /\ AskedFor(toServer'[n][1])
    BY <1>0, <1>4, <1>11, <2>7 DEF PagesUnique
  <2>9. \A m, n \in DOMAIN toServer' : toServer'[m][1] = toServer'[n][1] => m = n
    BY <1>0, <1>11, <2>5, <2>7 DEF PagesUnique
  <2>10. \A a \in Answering : \A n \in DOMAIN toServer' : PageOf(a) # toServer'[n][1]
    BY <1>0, <1>11, <2>6, <2>7 DEF PagesUnique
  <2>11. \A b \in UnsentData' : \A n \in DOMAIN toServer' : mem[b].page # toServer'[n][1]
    BY <1>0, <1>11, <2>3, <2>4, <2>7 DEF PagesUnique
  <2> QED  BY <1>0, <1>3, <2>1, <2>2, <2>3, <2>8, <2>9, <2>10, <2>11 DEF PagesUnique
<1> QED  BY <1>8, <1>12, <1>13, <1>14, <1>15 DEF Conserved

\* The other steps of the client, up to its exit, move no request.
LEMMA ConservedQuiet ==
  ASSUME SidesOK, Conserved, Up, EndSends \/ PrepRecv \/ Submit \/ EndReap,
         UNCHANGED tcpVars, UNCHANGED serverSide
  PROVE  Conserved'
<1>0. LinkOK /\ DataOK /\ ResultsOK /\ CountOK /\ PagesUnique  BY DEF Conserved
<1>1. UNCHANGED <<toServer, toClient, link>> /\ toClient \in Nat
  BY <1>0 DEF tcpVars, DataOK
<1>2. UNCHANGED <<Queued, Answering, s_mem, s_cq, s_pc, write_req_num>>  BY ServerSame
<1>3. CASE EndSends \/ EndReap
  <2>1. /\ UNCHANGED <<send_index, mem, sq, inflight, cq>>
        /\ pc' \in {"send", "recv", "reap", "exit"}
    BY <1>3 DEF EndSends, EndReap, ringVars
  <2>2. UnsentData' = UnsentData  BY <2>1 DEF Unsent, UnsentData
  <2>3. ResultsOK'  BY <1>0, <1>2, <2>1 DEF ResultsOK
  <2> QED  BY <1>0, <1>1, <2>1, <2>2, <2>3, QuietClient DEF DataOK
<1>4. CASE PrepRecv
  <2>1. /\ Prepare("recv", NoPage) /\ UNCHANGED <<pc, send_index, inflight, cq>> /\ pc = "recv"
    BY <1>4 DEF PrepRecv
  <2>2. /\ UnsentData' = UnsentData
        /\ \A b \in UnsentData : mem'[b] = mem[b]
        /\ \A n \in DOMAIN sq' : sq'[n].got = 0 \/ \E m \in DOMAIN sq : sq'[n] = sq[m]
    BY <2>1, PrepareIs
  <2>3. ResultsOK'  BY <1>0, <1>2, <2>1, <2>2 DEF ResultsOK
  <2> QED  BY <1>0, <1>1, <2>1, <2>2, <2>3, QuietClient DEF DataOK
<1>5. CASE Submit
  <2>1. /\ UNCHANGED <<send_index, mem, cq>> /\ pc' = "reap" /\ sq' = <<>>
        /\ inflight' = inflight \cup {sq[n] : n \in DOMAIN sq}
    BY <1>5 DEF Submit, Range
  <2>2. UnsentData' = UnsentData  BY <1>5, SubmitIs
  <2>3. ResultsOK'
    <3>1. \A o \in inflight' : o.op = "send" => o.got = 0
      BY <1>0, <2>1 DEF ResultsOK
    <3> QED  BY <1>0, <1>2, <2>1, <3>1 DEF ResultsOK
  <2>4. IsFiniteSet(inflight')
    <3>1. IsFiniteSet({sq[n] : n \in DOMAIN sq})  BY Types, QueueFinite
    <3> QED  BY <1>0, <2>1, <3>1, FS_Union DEF DataOK
  <2> QED  BY <1>0, <1>1, <2>1, <2>2, <2>3, <2>4, QuietClient
<1> QED  BY <1>3, <1>4, <1>5

LEMMA ConservedReap ==
  ASSUME SidesOK, Conserved, Up, Reap, UNCHANGED tcpVars, UNCHANGED serverSide
  PROVE  Conserved'
<1>0. LinkOK /\ DataOK /\ ResultsOK /\ CountOK /\ PagesUnique  BY DEF Conserved
<1>1. UNCHANGED <<toServer, toClient, link>> /\ toClient \in Nat
  BY <1>0 DEF tcpVars, DataOK
<1>2. UNCHANGED <<Queued, Answering, s_mem, s_cq, s_pc, write_req_num>>  BY ServerSame
<1>3. UNCHANGED <<send_index, sq, inflight>> /\ pc' = "reap" /\ cq # <<>> /\ cq' = Tail(cq)
  BY DEF Reap
<1>4. UnsentData' = UnsentData /\ \A b \in UnsentData : mem'[b] = mem[b]
  BY ReapIs
<1>5. \A n \in DOMAIN cq' : \E m \in DOMAIN cq : cq'[n] = cq[m]
  BY <1>3, Types, QueueHead
<1>6. ResultsOK'  BY <1>0, <1>2, <1>3, <1>5 DEF ResultsOK
<1> QED  BY <1>0, <1>1, <1>3, <1>4, <1>6, QuietClient DEF DataOK

LEMMA ConservedKernelRecv ==
  ASSUME SidesOK, Conserved, Up, KernelRecv, UNCHANGED serverSide
  PROVE  Conserved'
<1>0. LinkOK /\ DataOK /\ ResultsOK /\ CountOK /\ PagesUnique  BY DEF Conserved
<1>1. PICK o \in inflight : \E n \in 1..(PageUnits - o.got) :
        /\ o.op = "recv"
        /\ ClientReceive(n)
        /\ IF o.got + n = PageUnits
           THEN Complete(o, PageUnits)
           ELSE /\ inflight' = (inflight \ {o}) \cup {[o EXCEPT !.got = @ + n]}
                /\ UNCHANGED cq
  BY DEF KernelRecv
<1>2. PICK n \in 1..(PageUnits - o.got) :
        /\ o.op = "recv"
        /\ ClientReceive(n)
        /\ IF o.got + n = PageUnits
           THEN Complete(o, PageUnits)
           ELSE /\ inflight' = (inflight \ {o}) \cup {[o EXCEPT !.got = @ + n]}
                /\ UNCHANGED cq
  BY <1>1
<1>3. UNCHANGED <<pc, send_index, mem, sq>> /\ pc \in {"send", "recv", "reap", "exit"}
  BY DEF KernelRecv, threadVars, Running
<1>4. UNCHANGED <<toServer, link>> /\ toClient' \in Nat
  <2>1. o.got \in 0..PageUnits  BY Types DEF Op
  <2>2. n \in Nat  BY <2>1, Types
  <2> QED  BY <1>0, <1>2, <2>2 DEF ClientReceive, DataOK
<1>5. UNCHANGED <<Queued, Answering, s_mem, s_cq, s_pc, write_req_num>>  BY ServerSame
<1>6. \A b \in UnsentData : mem'[b] = mem[b]  BY <1>3
<1>7. CASE o.got + n = PageUnits
  <2>1. Complete(o, PageUnits)  BY <1>2, <1>7
  <2>2. PageUnits \in {Error} \cup (0..(PageUnits + RequestUnits))  BY TcpAssumption
  <2>3. /\ UnsentData' = UnsentData
        /\ \A k \in DOMAIN cq' : (cq'[k].op = o.op /\ cq'[k].res = PageUnits) \/ \E m \in DOMAIN cq : cq'[k] = cq[m]
    BY <1>2, <1>3, <2>1, <2>2, CompleteIs
  <2>4. inflight' = inflight \ {o}  BY <2>1 DEF Complete
  <2>5. ResultsOK'
    <3>1. PageUnits >= 0  BY TcpAssumption
    <3>2. \A k \in DOMAIN cq' : cq'[k].res >= 0 /\ (cq'[k].op = "recv" => cq'[k].res = PageUnits)
      BY <1>0, <2>3, <3>1 DEF ResultsOK
    <3> QED  BY <1>0, <1>3, <1>5, <2>4, <3>2 DEF ResultsOK
  <2>6. IsFiniteSet(inflight')  BY <1>0, <2>4, FS_RemoveElement DEF DataOK
  <2> QED  BY <1>3, <1>4, <1>6, <2>3, <2>5, <2>6, QuietClient
<1>8. CASE o.got + n # PageUnits
  <2> DEFINE q == [o EXCEPT !.got = @ + n]
  <2>1. inflight' = (inflight \ {o}) \cup {q} /\ cq' = cq  BY <1>2, <1>8
  <2>2. q.op = "recv"
    <3>1. o \in Op  BY Types
    <3> QED  BY <1>2, <3>1 DEF Op
  <2> HIDE DEF q
  <2>3. Unsent' = Unsent
    <3>1. Unsent' = {p \in {sq'[m] : m \in DOMAIN sq'} \cup inflight' : p.op = "send"}
      BY DEF Unsent, Range
    <3> QED  BY <1>2, <1>3, <2>1, <2>2, <3>1, UnsentIs
  <2>4. UnsentData' = UnsentData  BY <2>3 DEF UnsentData
  <2>5. ResultsOK'
    <3>1. \A p \in inflight' : p.op = "send" => p.got = 0  BY <1>0, <2>1, <2>2 DEF ResultsOK
    <3> QED  BY <1>0, <1>3, <1>5, <2>1, <3>1 DEF ResultsOK
  <2>6. IsFiniteSet(inflight')
    <3>1. IsFiniteSet(inflight \ {o})  BY <1>0, FS_RemoveElement DEF DataOK
    <3> QED  BY <2>1, <3>1, FS_AddElement
  <2> QED  BY <1>3, <1>4, <1>6, <2>4, <2>5, <2>6, QuietClient
<1> QED  BY <1>7, <1>8

\* What the client does last: it closes, with nothing failed.
LEMMA ConservedExit ==
  ASSUME SidesOK, Conserved, Up, Exit, UNCHANGED serverSide
  PROVE  Conserved'
<1>0. LinkOK /\ DataOK  BY DEF Conserved
<1>1. /\ pc' = "closed" /\ ClientClose /\ UNCHANGED <<send_index, mem, sq, inflight, cq>>
  BY DEF Exit, ringVars
<1>2. UNCHANGED <<Queued, Answering, s_mem, s_cq, s_pc, write_req_num>>  BY ServerSame
<1>3. /\ link' = [link EXCEPT !["client"] = "closed", !["server"] = IF toClient > 0 THEN "rst" ELSE "fin"]
      /\ link \in [End -> Link]
  BY <1>0, <1>1 DEF ClientClose, Hangup, LinkOK, End, Link
<1>4. LinkOK'
  <2>1. /\ link'["client"] = "closed" /\ link'["server"] \in {"rst", "fin"}
        /\ link' \in [End -> Link]
    BY <1>3 DEF End, Link
  <2> QED  BY <1>0, <1>1, <1>2, <2>1 DEF LinkOK, Up
<1>5. DataOK'
  <2>1. toClient' = 0 /\ \E n \in 0..Len(toServer) : toServer' = SubSeq(toServer, 1, n)
    BY <1>1 DEF ClientClose
  <2>2. toServer' \in Seq(Int \X Int)  BY <1>0, <2>1, Cut DEF DataOK
  <2>3. UnsentData' = UnsentData  BY <1>1 DEF Unsent, UnsentData
  <2> QED  BY <1>0, <1>1, <1>2, <2>1, <2>2, <2>3 DEF DataOK
<1> QED  BY <1>1, <1>4, <1>5 DEF Conserved, Up

\* The steps the client takes are those before its exit, and nothing fails.
LEMMA ClientUp ==
  ASSUME SidesOK, Conserved, ClientStep
  PROVE  /\ Up /\ LinkOK /\ DataOK /\ ResultsOK /\ CountOK /\ PagesUnique
         /\ ~Fail /\ ~KernelRecvEnd
<1>0. LinkOK /\ DataOK  BY DEF Conserved
<1>1. pc # "failed" /\ pc \in {"send", "recv", "reap", "exit", "closed", "failed"}
  BY <1>0 DEF LinkOK, SidesOK, ClientInv, RingOK
<1>2. Up
  BY DEF Up, ClientStep, ClientThread, LocalStep, ClientKernel, PrepSend, EndSends, PrepRecv,
         Submit, Reap, EndReap, Fail, Exit, KernelSend, KernelRecv, KernelRecvEnd, Running
<1>3. ResultsOK /\ CountOK /\ PagesUnique /\ link = [e \in End |-> "open"]
  BY <1>0, <1>2 DEF Conserved, LinkOK
<1>4. ~Fail
  <2> SUFFICES ASSUME Fail PROVE FALSE
    OBVIOUS
  <2>1. cq # <<>> /\ Head(cq).res < 0  BY DEF Fail
  <2>2. Head(cq) = cq[1] /\ 1 \in DOMAIN cq  BY <2>1, Types, QueueHead
  <2>3. cq[1].res >= 0  BY <1>3, <2>2 DEF ResultsOK
  <2>4. cq[1].res \in Int
    <3>1. cq[1] \in Cqe  BY <2>2, Types, ElementOfQueue
    <3> QED  BY <3>1, TcpAssumption DEF Cqe, Error
  <2> QED  BY <2>1, <2>2, <2>3, <2>4
<1>5. ~KernelRecvEnd
  BY <1>3 DEF KernelRecvEnd, ClientReceiveEnd, ReadEnd, End
<1> QED  BY <1>0, <1>2, <1>3, <1>4, <1>5

LEMMA ConservedClient ==
  ASSUME RequestUnits = 1, SidesOK, Conserved, ClientStep, UNCHANGED serverSide
  PROVE  Conserved'
BY ClientUp, ConservedPrepSend, ConservedQuiet, ConservedReap, ConservedKernelSend,
   ConservedKernelRecv, ConservedExit
   DEF ClientStep, ClientThread, LocalStep, ClientKernel

\* The steps of the handler, up to the end of its client and after it.
LEMMA ConservedLocal ==
  ASSUME SidesOK, Conserved, S!PostRead \/ S!SubmitReads \/ S!HandleWrite,
         UNCHANGED tcpVars, UNCHANGED clientVars
  PROVE  Conserved'
<1>0. LinkOK /\ DataOK /\ s_cq \in Seq(ServerCqe)
  BY ServerHas DEF Conserved, ServerFacts
<1>1. UNCHANGED <<toServer, toClient, link, write_req_num>>
  BY DEF tcpVars, S!PostRead, S!SubmitReads, S!HandleWrite
<1>2. UNCHANGED <<UnsentData, mem, sq, inflight, cq, pc, send_index>>  BY ClientSame
<1>3. s_pc' \in {s_pc, "serve"} /\ s_pc \in {"start", "serve"}
  BY DEF S!PostRead, S!SubmitReads, S!HandleWrite, S!Completed
<1>4. /\ Queued' = Queued /\ Answering' \subseteq Answering
      /\ \A a \in Answering' : s_mem'[a].word = s_mem[a].word
      /\ Cardinality(PlacesIn(s_cq', Reads)) = Cardinality(PlacesIn(s_cq, Reads))
      /\ \A n \in DOMAIN s_cq' : \E m \in DOMAIN s_cq : s_cq'[n] = s_cq[m]
  <2>1. CASE S!PostRead
    <3>1. s_cq' = s_cq  BY <2>1 DEF S!PostRead
    <3> QED  BY <2>1, <3>1, PostReadIs
  <2>2. CASE S!SubmitReads
    <3>1. UNCHANGED <<s_inflight, s_cq, s_mem>>  BY <2>2 DEF S!SubmitReads, S!ringVars
    <3> QED  BY <3>1 DEF Queued, Answering
  <2>3. CASE S!HandleWrite
    <3>1. s_cq # <<>> /\ s_cq' = Tail(s_cq)  BY <2>3 DEF S!HandleWrite, S!Completed
    <3>2. Head(s_cq) \notin Reads  BY <2>3, HandleWriteIs DEF Written, Reads
    <3>3. Cardinality(PlacesIn(s_cq, Reads)) = Cardinality(PlacesIn(s_cq', Reads)) + 0
      BY <1>0, <3>1, <3>2, PlacesHead
    <3>4. s_cq' \in Seq(ServerCqe) /\ \A n \in DOMAIN s_cq' : \E m \in DOMAIN s_cq : s_cq'[n] = s_cq[m]
      BY <1>0, <3>1, QueueHead
    <3>5. Cardinality(PlacesIn(s_cq', Reads)) \in Nat  BY <3>4, PlacesFinite
    <3> QED  BY <2>3, <3>3, <3>4, <3>5, HandleWriteIs
  <2> QED  BY <2>1, <2>2, <2>3
<1>5. LinkOK'  BY <1>0, <1>1, <1>2, <1>3 DEF LinkOK, Up
<1>6. DataOK'  BY <1>0, <1>1, <1>2, <1>4 DEF DataOK
<1>7. ASSUME Up PROVE ResultsOK' /\ CountOK' /\ PagesUnique'
  <2>0. ResultsOK /\ CountOK /\ PagesUnique  BY <1>7 DEF Conserved
  <2>1. ResultsOK'  BY <1>2, <1>4, <2>0 DEF ResultsOK
  <2>2. CountOK'  BY <1>1, <1>2, <1>4, <2>0 DEF CountOK
  <2>3. PagesUnique'  BY <1>1, <1>2, <1>4, <2>0, PagesKept
  <2> QED  BY <2>1, <2>2, <2>3
<1> QED  BY <1>2, <1>5, <1>6, <1>7 DEF Conserved, Up

LEMMA ConservedHandleRead ==
  ASSUME SidesOK, Conserved, S!HandleRead, UNCHANGED tcpVars, UNCHANGED clientVars
  PROVE  Conserved'
<1>0. LinkOK /\ DataOK /\ s_cq \in Seq(ServerCqe)
  BY ServerHas DEF Conserved, ServerFacts
<1>1. /\ UNCHANGED <<toServer, toClient, link, s_pc>> /\ write_req_num' = write_req_num + 1
      /\ s_cq # <<>> /\ s_cq' = Tail(s_cq)
  BY DEF tcpVars, S!HandleRead, S!Completed
<1>2. UNCHANGED <<UnsentData, mem, sq, inflight, cq, pc, send_index>>  BY ClientSame
<1> DEFINE d == Head(s_cq).data
<1>3. PICK w : w \notin Queued /\ Queued' = Queued \cup {w}
  BY HandleReadIs
<1>4. PICK a \in Addr :
        /\ a \notin Answering
        /\ Answering' = (Answering \ {d}) \cup {a}
        /\ s_mem'[a].word = WordOf(S!PageNumber(s_mem[d].word))
        /\ \A b \in Answering : s_mem'[b] = s_mem[b]
  BY HandleReadIs
<1>5. d \in Answering /\ Head(s_cq) \in Reads
  BY HandleReadIs DEF GotRead, Reads
<1> HIDE DEF d
<1>6. LinkOK'  BY <1>0, <1>1, <1>2 DEF LinkOK, Up
<1>7. /\ IsFiniteSet(Queued') /\ Cardinality(Queued') = Cardinality(Queued) + 1
      /\ Cardinality(Queued) \in Nat /\ write_req_num \in Nat
  BY <1>0, <1>3, FS_AddElement, FS_CardinalityType DEF DataOK
<1>8. DataOK'  BY <1>0, <1>1, <1>2, <1>7 DEF DataOK
<1>9. ASSUME Up PROVE ResultsOK' /\ CountOK' /\ PagesUnique'
  <2>0. ResultsOK /\ CountOK /\ PagesUnique  BY <1>9 DEF Conserved
  <2>1. \A n \in DOMAIN s_cq' : \E m \in DOMAIN s_cq : s_cq'[n] = s_cq[m]
    BY <1>0, <1>1, QueueHead
  <2>2. ResultsOK'  BY <1>2, <2>0, <2>1 DEF ResultsOK
  <2>3. CountOK'
    <3>1. Cardinality(PlacesIn(s_cq, Reads)) = Cardinality(PlacesIn(s_cq', Reads)) + 1
      BY <1>0, <1>1, <1>5, PlacesHead
    <3>2. Cardinality(PlacesIn(s_cq', Reads)) \in Nat
      <4>1. s_cq' \in Seq(ServerCqe)  BY <1>0, <1>1, QueueHead
      <4> QED  BY <4>1, PlacesFinite
    <3>3. Cardinality(UnsentData) \in Nat /\ Len(toServer) \in Nat
      BY <1>0, FS_CardinalityType DEF DataOK
    <3> QED  BY <1>1, <1>2, <1>7, <2>0, <3>1, <3>2, <3>3 DEF CountOK
  <2>4. PagesUnique'
    <3>1. PageOf(a)' = PageOf(d) /\ s_mem'[a].word = WordOf(PageOf(a)')
      <4>1. s_mem[d].word = WordOf(PageOf(d))  BY <1>5, <2>0 DEF PagesUnique
      <4>2. \A p : WordOf(p) = S!Request(p) /\ WordOf(p)[1][1] = p
        BY TcpAssumption DEF WordOf, S!Request
      <4>3. S!PageNumber(s_mem[d].word) = PageOf(d)
        BY <4>1, <4>2 DEF S!PageNumber, PageOf
      <4>4. s_mem'[a].word = WordOf(PageOf(d))  BY <1>4, <4>3
      <4> QED  BY <4>2, <4>4 DEF PageOf
    <3>2. \A b \in Answering : PageOf(b)' = PageOf(b) /\ s_mem'[b] = s_mem[b]
      BY <1>4 DEF PageOf
    <3>3. \A b \in Answering' : b = a \/ (b \in Answering /\ b # d)  BY <1>4
    <3>4. \A q : AskedFor(q)' <=> AskedFor(q)  BY <1>2 DEF AskedFor
    <3>5. \A b \in Answering' : s_mem'[b].word = WordOf(PageOf(b)') /\ AskedFor(PageOf(b)')
      BY <1>5, <2>0, <3>1, <3>2, <3>3 DEF PagesUnique
    <3>6. \A b, c \in Answering' : PageOf(b)' = PageOf(c)' => b = c
      BY <1>5, <2>0, <3>1, <3>2, <3>3 DEF PagesUnique
    <3>7. \A b \in Answering' : \A k \in DOMAIN toServer : PageOf(b)' # toServer[k][1]
      BY <1>5, <2>0, <3>1, <3>2, <3>3 DEF PagesUnique
    <3>8. \A b \in UnsentData : \A c \in Answering' : mem[b].page # PageOf(c)'
      BY <1>5, <2>0, <3>1, <3>2, <3>3 DEF PagesUnique
    <3> QED  BY <1>1, <1>2, <2>0, <3>4, <3>5, <3>6, <3>7, <3>8 DEF PagesUnique
  <2> QED  BY <2>2, <2>3, <2>4
<1> QED  BY <1>2, <1>6, <1>8, <1>9 DEF Conserved, Up

LEMMA ConservedKernelRead ==
  ASSUME RequestUnits = 1, SidesOK, Conserved, S!KernelRead, UNCHANGED clientVars
  PROVE  Conserved'
<1>0. LinkOK /\ DataOK /\ s_cq \in Seq(ServerCqe)
  BY ServerHas DEF Conserved, ServerFacts
<1>1. /\ toServer # <<>> /\ toServer' = Tail(toServer) /\ UNCHANGED <<toClient, link>>
      /\ Queued' = Queued
  BY <1>0, KernelReadIs
<1>2. UNCHANGED <<UnsentData, mem, sq, inflight, cq, pc, send_index>>  BY ClientSame
<1>3. UNCHANGED <<s_pc, write_req_num>>  BY DEF S!KernelRead
<1>4. PICK a \in Addr :
        /\ a \notin Answering /\ Answering' = Answering \cup {a}
        /\ s_mem'[a].word = [i \in 1..RequestUnits |-> toServer[1]]
        /\ \A b \in Answering : s_mem'[b] = s_mem[b]
  BY <1>0, KernelReadIs
<1>5. PICK c \in ServerCqe : c.op = "read" /\ c.res = 1 /\ s_cq' = Append(s_cq, c)
  BY <1>0, KernelReadIs
<1>6. /\ Head(toServer) = toServer[1] /\ 1 \in DOMAIN toServer
      /\ toServer' \in Seq(Int \X Int)
      /\ \A n \in DOMAIN toServer' :
           n + 1 \in DOMAIN toServer /\ toServer'[n] = toServer[n + 1] /\ n \in Nat /\ n + 1 # 1
      /\ Len(toServer') = Len(toServer) - 1 /\ Len(toServer) \in Nat
  <2>1. toServer \in Seq(Int \X Int)  BY <1>0 DEF DataOK
  <2>2. Len(Tail(toServer)) = Len(toServer) - 1 /\ Len(toServer) \in Nat  BY <1>1, <2>1
  <2> QED  BY <1>1, <2>1, <2>2, QueueHead
<1>7. LinkOK'  BY <1>0, <1>1, <1>2, <1>3 DEF LinkOK, Up
<1>8. DataOK'  BY <1>0, <1>1, <1>2, <1>3, <1>6 DEF DataOK
<1>9. ASSUME Up PROVE ResultsOK' /\ CountOK' /\ PagesUnique'
  <2>0. ResultsOK /\ CountOK /\ PagesUnique  BY <1>9 DEF Conserved
  <2>1. ResultsOK'
    <3>1. \A n \in DOMAIN s_cq' : s_cq'[n] = c \/ (n \in DOMAIN s_cq /\ s_cq'[n] = s_cq[n])
      BY <1>0, <1>5, QueueLast
    <3>2. \A n \in DOMAIN s_cq' : s_cq'[n].res >= 1  BY <1>5, <2>0, <3>1 DEF ResultsOK
    <3> QED  BY <1>2, <2>0, <3>2 DEF ResultsOK
  <2>2. CountOK'
    <3>1. c \in Reads  BY <1>5 DEF Reads
    <3>2. Cardinality(PlacesIn(s_cq', Reads)) = Cardinality(PlacesIn(s_cq, Reads)) + 1
      BY <1>0, <1>5, <3>1, PlacesLast
    <3>3. Cardinality(UnsentData) \in Nat /\ Cardinality(PlacesIn(s_cq, Reads)) \in Nat /\ write_req_num \in Nat
      BY <1>0, PlacesFinite, FS_CardinalityType DEF DataOK
    <3> QED  BY <1>1, <1>2, <1>3, <1>6, <2>0, <3>2, <3>3 DEF CountOK
  <2>3. PagesUnique'
    <3> DEFINE p == toServer[1][1]
    <3>1. toServer[1] = <<p, 1>> /\ AskedFor(p)  BY <1>6, <2>0 DEF PagesUnique
    <3> HIDE DEF p
    <3>2. PageOf(a)' = p /\ s_mem'[a].word = WordOf(p)
      <4>1. s_mem'[a].word = WordOf(p)
        <5>1. \A i \in 1..RequestUnits : i = 1  OBVIOUS
        <5> QED  BY <1>4, <3>1, <5>1 DEF WordOf
      <4>2. WordOf(p)[1][1] = p  BY TcpAssumption DEF WordOf
      <4> QED  BY <4>1, <4>2 DEF PageOf
    <3>3. \A b \in Answering : PageOf(b)' = PageOf(b) /\ s_mem'[b] = s_mem[b]
      BY <1>4 DEF PageOf
    <3>4. \A q : AskedFor(q)' <=> AskedFor(q)  BY <1>2 DEF AskedFor
    <3>5. \A k \in DOMAIN toServer' : toServer'[k][1] # p
      BY <1>6, <2>0 DEF PagesUnique, p
    <3>6. \A b \in Answering : PageOf(b) # p  BY <1>6, <2>0 DEF PagesUnique, p
    <3>7. \A b \in UnsentData : mem[b].page # p  BY <1>6, <2>0 DEF PagesUnique, p
    <3>8. \A b \in Answering' : b = a \/ b \in Answering  BY <1>4
    <3>9. \A k \in DOMAIN toServer' : toServer'[k] = <<toServer'[k][1], 1>> /\ AskedFor(toServer'[k][1])
      BY <1>6, <2>0 DEF PagesUnique
    <3>10. \A k, l \in DOMAIN toServer' : toServer'[k][1] = toServer'[l][1] => k = l
      <4> SUFFICES ASSUME NEW k \in DOMAIN toServer', NEW l \in DOMAIN toServer',
                          toServer'[k][1] = toServer'[l][1]
                   PROVE  k = l
        OBVIOUS
      <4>1. k + 1 = l + 1  BY <1>6, <2>0 DEF PagesUnique
      <4>2. k \in Nat /\ l \in Nat  BY <1>6
      <4> QED  BY <4>1, <4>2
    <3>11. \A b \in Answering' : s_mem'[b].word = WordOf(PageOf(b)') /\ AskedFor(PageOf(b)')
      BY <2>0, <3>1, <3>2, <3>3, <3>8 DEF PagesUnique
    <3>12. \A b, e \in Answering' : PageOf(b)' = PageOf(e)' => b = e
      BY <2>0, <3>2, <3>3, <3>6, <3>8 DEF PagesUnique
    <3>13. \A b \in Answering' : \A k \in DOMAIN toServer' : PageOf(b)' # toServer'[k][1]
      BY <1>6, <2>0, <3>2, <3>3, <3>5, <3>8 DEF PagesUnique
    <3>14. \A b \in UnsentData : \A k \in DOMAIN toServer' : mem[b].page # toServer'[k][1]
      BY <1>6, <2>0 DEF PagesUnique
    <3>15. \A b \in UnsentData : \A e \in Answering' : mem[b].page # PageOf(e)'
      BY <2>0, <3>2, <3>3, <3>7, <3>8 DEF PagesUnique
    <3> QED  BY <1>2, <3>4, <3>9, <3>10, <3>11, <3>12, <3>13, <3>14, <3>15 DEF PagesUnique
  <2> QED  BY <2>1, <2>2, <2>3
<1> QED  BY <1>2, <1>7, <1>8, <1>9 DEF Conserved, Up

\* A page sent in part or whole, or in vain.
LEMMA ServerSendIs ==
  ASSUME DataOK, LinkOK, NEW res \in {Error} \cup 1..PageUnits, ServerSend(res)
  PROVE  /\ toServer' = toServer /\ toClient' \in Nat
         /\ link["server"] = "open" =>
              link' = link /\ res \in 1..PageUnits /\ toClient' = toClient + res
         /\ link["server"] # "open" =>
              /\ toClient' = toClient /\ link' \in [End -> Link]
              /\ link'["client"] = link["client"] /\ link'["server"] \in {"fin", "dead"}
<1>1. /\ toClient \in Nat /\ link \in [End -> Link] /\ PageUnits \in Nat \ {0} /\ SockBuf \in Nat \ {0}
  BY TcpAssumption DEF DataOK, LinkOK
<1>2. CASE link["server"] = "open"
  <2>1. /\ toClient < SockBuf /\ res = Smaller(PageUnits, SockBuf - toClient)
        /\ toClient' = toClient + res /\ UNCHANGED <<toServer, link>>
    BY <1>2 DEF ServerSend, SendInVain, Broken
  <2>2. res \in 1..PageUnits  BY <1>1, <2>1 DEF Smaller
  <2> QED  BY <1>1, <1>2, <2>1, <2>2
<1>3. CASE link["server"] # "open"
  <2>1. /\ UNCHANGED <<toServer, toClient>>
        /\ \E s \in {"fin", "dead"} : link' = [link EXCEPT !["server"] = s]
    BY <1>3 DEF ServerSend, SendInVain, Mark
  <2>2. PICK s \in {"fin", "dead"} : link' = [link EXCEPT !["server"] = s]  BY <2>1
  <2>3. link'["server"] = s /\ link'["client"] = link["client"] /\ link' \in [End -> Link]
    BY <1>1, <2>2 DEF End, Link
  <2> QED  BY <1>1, <1>3, <2>1, <2>2, <2>3
<1> QED  BY <1>2, <1>3

LEMMA ConservedKernelWrite ==
  ASSUME SidesOK, Conserved, S!KernelWrite, UNCHANGED clientVars
  PROVE  Conserved'
<1>0. LinkOK /\ DataOK /\ s_cq \in Seq(ServerCqe)
  BY ServerHas DEF Conserved, ServerFacts
<1>1. UNCHANGED <<UnsentData, mem, sq, inflight, cq, pc, send_index>>  BY ClientSame
<1>2. UNCHANGED <<s_pc, s_mem, write_req_num>> /\ s_pc \in {"serve", "return"}
  BY DEF S!KernelWrite, S!Running
<1>3. PICK o \in Queued, c \in ServerCqe, res \in {Error} \cup 1..PageUnits :
        /\ Queued' = Queued \ {o} /\ Answering' = Answering
        /\ c.op = "write" /\ c.res = res /\ s_cq' = Append(s_cq, c)
        /\ ServerSend(res)
  BY KernelWriteIs
<1>4. /\ toServer' = toServer /\ toClient' \in Nat
      /\ link["server"] = "open" =>
           link' = link /\ res \in 1..PageUnits /\ toClient' = toClient + res
      /\ link["server"] # "open" =>
           /\ toClient' = toClient /\ link' \in [End -> Link]
           /\ link'["client"] = link["client"] /\ link'["server"] \in {"fin", "dead"}
  BY <1>0, <1>3, ServerSendIs
<1>5. Up => link["server"] = "open"  BY <1>0 DEF LinkOK, End
<1>6. LinkOK'
  <2>1. CASE link["server"] = "open"  BY <1>0, <1>1, <1>2, <1>4, <2>1 DEF LinkOK, Up
  <2>2. CASE link["server"] # "open"  BY <1>0, <1>1, <1>2, <1>4, <1>5, <2>2 DEF LinkOK, Up
  <2> QED  BY <2>1, <2>2
<1>7. /\ IsFiniteSet(Queued') /\ Cardinality(Queued') = Cardinality(Queued) - 1
      /\ Cardinality(Queued) \in Nat
  BY <1>0, <1>3, FS_RemoveElement, FS_CardinalityType DEF DataOK
<1>8. DataOK'  BY <1>0, <1>1, <1>2, <1>4, <1>7 DEF DataOK
<1>9. ASSUME Up PROVE ResultsOK' /\ CountOK' /\ PagesUnique'
  <2>0. ResultsOK /\ CountOK /\ PagesUnique  BY <1>9 DEF Conserved
  <2>1. ResultsOK'
    <3>1. \A n \in DOMAIN s_cq' : s_cq'[n] = c \/ (n \in DOMAIN s_cq /\ s_cq'[n] = s_cq[n])
      BY <1>0, <1>3, QueueLast
    <3>2. c.res >= 1  BY <1>3, <1>4, <1>5, <1>9
    <3>3. \A n \in DOMAIN s_cq' : s_cq'[n].res >= 1  BY <2>0, <3>1, <3>2 DEF ResultsOK
    <3> QED  BY <1>1, <2>0, <3>3 DEF ResultsOK
  <2>2. CountOK'
    <3>1. c \notin Reads  BY <1>3 DEF Reads
    <3>2. Cardinality(PlacesIn(s_cq', Reads)) = Cardinality(PlacesIn(s_cq, Reads)) + 0
      BY <1>0, <1>3, <3>1, PlacesLast
    <3>3. Cardinality(PlacesIn(s_cq, Reads)) \in Nat /\ write_req_num \in Nat
      BY <1>0, PlacesFinite DEF DataOK
    <3> QED  BY <1>1, <1>2, <1>4, <1>7, <2>0, <3>2, <3>3 DEF CountOK
  <2>3. PagesUnique'  BY <1>1, <1>2, <1>3, <1>4, <2>0, PagesKept
  <2> QED  BY <2>1, <2>2, <2>3
<1> QED  BY <1>1, <1>6, <1>8, <1>9 DEF Conserved, Up

\* What happens to the handler only when its client is gone.
LEMMA ConservedEof ==
  ASSUME SidesOK, Conserved,
         (S!HandleEof /\ UNCHANGED tcpVars) \/ (S!QueueExit /\ ServerClose) \/ S!KernelReadEnd,
         UNCHANGED clientVars
  PROVE  Conserved' /\ ~Up
<1>0. LinkOK /\ DataOK /\ s_cq \in Seq(ServerCqe)
  BY ServerHas DEF Conserved, ServerFacts
<1>1. UNCHANGED <<UnsentData, mem, sq, inflight, cq, pc, send_index>>  BY ClientSame
<1>2. CASE S!HandleEof /\ UNCHANGED tcpVars
  <2>1. /\ UNCHANGED <<toServer, toClient, link, s_mem, s_inflight, s_cq, write_req_num>>
        /\ s_pc = "serve" /\ s_pc' = "return" /\ s_cq # <<>> /\ Head(s_cq).res = 0
    BY <1>2 DEF S!HandleEof, S!Completed, tcpVars, S!ringVars
  <2>2. ~Up
    <3>1. Head(s_cq) = s_cq[1] /\ 1 \in DOMAIN s_cq  BY <1>0, <2>1, QueueHead
    <3> QED  BY <2>1, <3>1 DEF Conserved, ResultsOK
  <2>3. LinkOK'  BY <1>0, <1>1, <2>1, <2>2 DEF LinkOK, Up
  <2>4. Queued' = Queued  BY <2>1 DEF Queued
  <2>5. DataOK'  BY <1>0, <1>1, <2>1, <2>4 DEF DataOK
  <2> QED  BY <1>1, <2>2, <2>3, <2>5 DEF Conserved, Up
<1>3. CASE S!QueueExit /\ ServerClose
  <2>1. /\ UNCHANGED <<s_mem, s_inflight, s_cq, write_req_num>>
        /\ s_pc = "return" /\ s_pc' = "finished" /\ ServerClose
    BY <1>3 DEF S!QueueExit, S!ringVars
  <2>2. ~Up  BY <1>0, <2>1 DEF LinkOK
  <2>3. /\ link' = [link EXCEPT !["server"] = "closed",
                                !["client"] = IF @ # "open" THEN @
                                              ELSE IF toServer # <<>> THEN "rst" ELSE "fin"]
        /\ toServer' = <<>> /\ toClient' \in IF toServer = <<>> THEN {toClient} ELSE 0..toClient
    BY <2>1 DEF ServerClose, Hangup
  <2>4. LinkOK'
    <3>1. link["client"] = "closed" /\ link \in [End -> Link]  BY <1>0, <2>2 DEF LinkOK
    <3>2. link' = [link EXCEPT !["server"] = "closed", !["client"] = "closed"]
      BY <2>3, <3>1
    <3>3. link'["server"] = "closed" /\ link'["client"] = "closed" /\ link' \in [End -> Link]
      BY <3>1, <3>2 DEF End, Link
    <3> QED  BY <1>0, <1>1, <2>1, <2>2, <3>3 DEF LinkOK, Up
  <2>5. Queued' = Queued  BY <2>1 DEF Queued
  <2>6. toClient' \in Nat /\ toServer' \in Seq(Int \X Int)
    <3>1. toClient \in Nat  BY <1>0 DEF DataOK
    <3> QED  BY <2>3, <3>1
  <2>7. DataOK'  BY <1>0, <1>1, <2>1, <2>5, <2>6 DEF DataOK
  <2> QED  BY <1>1, <2>2, <2>4, <2>7 DEF Conserved, Up
<1>4. CASE S!KernelReadEnd
  <2>1. PICK c \in ServerCqe, res \in {0, Error} :
          c.op = "read" /\ c.res = res /\ s_cq' = Append(s_cq, c) /\ ServerReadEnd(res)
    BY <1>4, KernelReadEndIs
  <2>2. Queued' = Queued  BY <1>4, KernelReadEndIs
  <2>3. UNCHANGED <<s_pc, write_req_num>> /\ s_pc \in {"serve", "return"}
    BY <1>4 DEF S!KernelReadEnd, S!Running
  <2>4. /\ UNCHANGED <<toServer, toClient>>
        /\ \/ link["server"] \in {"fin", "dead"} /\ link' = link
           \/ link["server"] = "rst" /\ link' = [link EXCEPT !["server"] = "dead"]
    BY <2>1 DEF ServerReadEnd, ReadEnd, Mark
  <2>5. ~Up
    <3>1. Up => link["server"] = "open"  BY <1>0 DEF LinkOK, End
    <3> QED  BY <2>4, <3>1
  <2>6. LinkOK'
    <3>1. link["client"] = "closed" /\ link \in [End -> Link]  BY <1>0, <2>5 DEF LinkOK
    <3>2. link' \in [End -> Link] /\ link'["client"] = "closed" /\ link'["server"] \in {"fin", "dead"}
      BY <2>4, <3>1 DEF End, Link
    <3> QED  BY <1>0, <1>1, <2>3, <2>5, <3>2 DEF LinkOK, Up
  <2>7. DataOK'  BY <1>0, <1>1, <2>2, <2>3, <2>4 DEF DataOK
  <2> QED  BY <1>1, <2>5, <2>6, <2>7 DEF Conserved, Up
<1> QED  BY <1>2, <1>3, <1>4

LEMMA ConservedServer ==
  ASSUME RequestUnits = 1, SidesOK, Conserved, S!ServerStep, UNCHANGED clientVars
  PROVE  Conserved'
<1>1. ~S!HandleInvalid  BY DEF S!HandleInvalid, S!MayRefuse
<1> QED
  BY <1>1, ConservedLocal, ConservedHandleRead, ConservedKernelRead, ConservedKernelWrite,
     ConservedEof, SameConnection
     DEF S!ServerStep, S!ServerThread, S!LocalStep, S!ServerKernel, S!tcpVars, tcpVars

LEMMA ConservedInit == Init => Conserved
<1> SUFFICES ASSUME Init PROVE Conserved
  OBVIOUS
<1>1. /\ pc \in {"send", "exit"} /\ s_pc = "start" /\ link = [e \in End |-> "open"]
      /\ toServer = <<>> /\ toClient = 0 /\ send_index = 0 /\ write_req_num = 0
      /\ sq = <<>> /\ cq = <<>> /\ inflight = {} /\ s_cq = <<>> /\ s_inflight = {}
  BY DEF Init, ClientInit, S!ServerInit, TcpInit
<1>2. UnsentData = {} /\ Queued = {} /\ Answering = {}
  BY <1>1 DEF Unsent, UnsentData, Queued, Answering, Range
<1>3. IsFiniteSet({}) /\ Cardinality({}) = 0  BY FS_EmptySet
<1>4. Cardinality(PlacesIn(s_cq, Reads)) = 0
  <2>1. <<>> \in Seq(ServerCqe)  OBVIOUS
  <2> QED  BY <1>1, <2>1, PlacesFinite
<1>5. LinkOK  BY <1>1 DEF LinkOK, Up, End, Link
<1>6. DataOK  BY <1>1, <1>2, <1>3 DEF DataOK
<1>7. ResultsOK  BY <1>1 DEF ResultsOK
<1>8. CountOK  BY <1>1, <1>2, <1>3, <1>4 DEF CountOK
<1>9. PagesUnique  BY <1>1, <1>2 DEF PagesUnique
<1> QED  BY <1>5, <1>6, <1>7, <1>8, <1>9 DEF Conserved

LEMMA ConservedStep ==
  ASSUME RequestUnits = 1, SidesOK, Conserved, [Next]_vars
  PROVE  Conserved'
<1>1. CASE UNCHANGED vars
  <2>1. UNCHANGED <<clientVars, serverSide, tcpVars>>  BY <1>1 DEF vars
  <2>2. UNCHANGED <<UnsentData, mem, sq, inflight, cq, pc, send_index>>  BY <2>1, ClientSame
  <2>3. UNCHANGED <<Queued, Answering, s_mem, s_cq, s_pc, write_req_num>>  BY <2>1, ServerSame
  <2>4. UNCHANGED <<toServer, toClient, link>>  BY <2>1 DEF tcpVars
  <2>5. LinkOK' /\ DataOK'  BY <2>2, <2>3, <2>4 DEF Conserved, LinkOK, DataOK, Up
  <2>6. ASSUME Up PROVE ResultsOK' /\ CountOK' /\ PagesUnique'
    <3>1. ResultsOK /\ CountOK /\ PagesUnique  BY <2>6 DEF Conserved
    <3> QED  BY <2>2, <2>3, <2>4, <3>1, PagesKept DEF ResultsOK, CountOK
  <2> QED  BY <2>2, <2>5, <2>6 DEF Conserved, Up
<1> QED  BY <1>1, ConservedClient, ConservedServer DEF Next

-----------------------------------------------------------------------------

LEMMA UnsentSize ==
  ASSUME SidesOK, DataOK
  PROVE  Cardinality(Unsent) = Cardinality(UnsentData)
<1>1. Apart  BY DEF SidesOK, ClientInv
<1>2. IsFiniteSet(Unsent)
  <2>1. IsFiniteSet({sq[n] : n \in DOMAIN sq})  BY Types, QueueFinite
  <2>2. IsFiniteSet({sq[n] : n \in DOMAIN sq} \cup inflight)  BY <2>1, FS_Union DEF DataOK
  <2> QED  BY <2>2, UnsentIs, FS_Subset
<1>3. \A o, p \in Unsent : o.data = p.data => o = p
  BY <1>1, UnsentIs DEF Apart
<1> DEFINE f == [o \in Unsent |-> o.data]
<1>4. \A o, p \in Unsent : f[o] = f[p] => o = p  BY <1>3
<1>5. {f[o] : o \in Unsent} = UnsentData  BY DEF UnsentData
<1> HIDE DEF f
<1>6. Cardinality({f[o] : o \in Unsent}) = Cardinality(Unsent)  BY <1>2, <1>4, ImageSize
<1> QED  BY <1>5, <1>6

\* The pages under way, one after the other.
LEMMA PagesUnderWayAre ==
  ASSUME SidesOK, DataOK
  PROVE  /\ Len(toServer) \in Nat /\ Len(s_cq) \in Nat
         /\ DOMAIN toServer = 1..Len(toServer) /\ DOMAIN s_cq = 1..Len(s_cq)
         /\ DOMAIN PagesUnderWay = 1..(Len(toServer) + Len(s_cq))
         /\ \A i \in DOMAIN PagesUnderWay :
              PagesUnderWay[i] = IF i <= Len(toServer) THEN toServer[i][1]
                                 ELSE PageOf(s_cq[i - Len(toServer)].data)
<1>1. toServer \in Seq(Int \X Int) /\ s_cq \in Seq(ServerCqe)
  BY ServerHas DEF DataOK, ServerFacts
<1> DEFINE n == Len(toServer)
           m == Len(s_cq)
           A == [i \in 1..n |-> toServer[i][1]]
           B == [i \in 1..m |-> PageOf(s_cq[i].data)]
           V == {A[i] : i \in 1..n} \cup {B[i] : i \in 1..m}
<1>2. n \in Nat /\ m \in Nat /\ DOMAIN toServer = 1..n /\ DOMAIN s_cq = 1..m  BY <1>1
<1>3. PagesUnderWay = A \o B  BY DEF PagesUnderWay, PageOf
<1>4. /\ \A i \in 1..n : A[i] = toServer[i][1]
      /\ \A i \in 1..m : B[i] = PageOf(s_cq[i].data)
  OBVIOUS
<1>5. A \in [1..n -> V] /\ B \in [1..m -> V]  OBVIOUS
<1>6. A \in Seq(V) /\ B \in Seq(V) /\ Len(A) = n /\ Len(B) = m
  <2> HIDE DEF A, B, V, n, m
  <2> QED  BY <1>2, <1>5
<1> HIDE DEF A, B, V
<1>7. /\ DOMAIN (A \o B) = 1..(n + m)
      /\ \A i \in 1..(n + m) : (A \o B)[i] = IF i <= n THEN A[i] ELSE B[i - n]
  <2>1. A \o B \in Seq(V) /\ Len(A \o B) = n + m  BY <1>6
  <2> HIDE DEF n, m
  <2>2. DOMAIN (A \o B) = 1..(n + m)  BY <2>1
  <2> QED  BY <1>6, <2>2
<1> HIDE DEF n, m
<1>8. \A i \in 1..(n + m) : (i <= n => i \in 1..n) /\ (~(i <= n) => i - n \in 1..m)
  BY <1>2
<1>9. \A i \in 1..(n + m) :
        (A \o B)[i] = IF i <= n THEN toServer[i][1] ELSE PageOf(s_cq[i - n].data)
  BY <1>4, <1>7, <1>8
<1> QED  BY <1>2, <1>3, <1>7, <1>9 DEF n, m

(***************************************************************************)
(* While the connection is up, no request is lost and none is answered     *)
(* twice (simple_iou_client.cpp send_receive_data, simple_iou_server.cpp   *)
(* event_loop), for any size of the ring and any number of requests, if    *)
(* request words are read whole.                                           *)
(***************************************************************************)
THEOREM PairConservesRequests ==
  ASSUME RequestUnits = 1
  PROVE  Spec => []RequestsConserved
<1>1. SidesOK /\ Conserved => RequestsConserved
  <2> SUFFICES ASSUME SidesOK, Conserved, link = [e \in End |-> "open"]
               PROVE  /\ send_index = Cardinality(Unsent) + Len(toServer) \div RequestUnits
                                        + Cardinality(Requested) + write_req_num
                      /\ IsInjective(PagesUnderWay)
                      /\ \A o \in {w \in Writing : w \in s_inflight} :
                           \A i \in DOMAIN PagesUnderWay :
                             PagesUnderWay[i] # s_mem[o.data].word[1][1]
    BY DEF RequestsConserved
  <2>0. Up /\ LinkOK /\ DataOK /\ CountOK /\ PagesUnique
    <3>1. link["client"] # "closed"  BY DEF End
    <3> QED  BY <3>1 DEF Conserved, LinkOK
  <2>1. ServerFacts  BY ServerHas
  <2>2. Requested = PlacesIn(s_cq, Reads)
    <3>1. \A i \in DOMAIN s_cq : s_cq[i] \in ServerCqe  BY <2>1, ElementOfQueue DEF ServerFacts
    <3> QED  BY <3>1 DEF Requested, PlacesIn, Reads
  <2>3. Len(toServer) \div RequestUnits = Len(toServer)
    <3>1. Len(toServer) \in Nat  BY <2>0, PagesUnderWayAre
    <3>2. \A k \in Nat : k \div 1 = k  OBVIOUS
    <3> QED  BY <3>1, <3>2
  <2>4. send_index = Cardinality(Unsent) + Len(toServer) \div RequestUnits
                       + Cardinality(Requested) + write_req_num
    BY <2>0, <2>2, <2>3, UnsentSize DEF CountOK
  <2> DEFINE n == Len(toServer)
  <2>5. /\ DOMAIN PagesUnderWay = 1..(n + Len(s_cq)) /\ n \in Nat /\ Len(s_cq) \in Nat
        /\ \A i \in DOMAIN PagesUnderWay :
             \/ i \in DOMAIN toServer /\ PagesUnderWay[i] = toServer[i][1] /\ i <= n
             \/ /\ i - n \in DOMAIN s_cq /\ ~(i <= n)
                /\ PagesUnderWay[i] = PageOf(s_cq[i - n].data)
    <3>1. \A i \in 1..(n + Len(s_cq)) :
            (i <= n => i \in DOMAIN toServer) /\ (~(i <= n) => i - n \in DOMAIN s_cq)
      BY <2>0, PagesUnderWayAre
    <3> QED  BY <2>0, <3>1, PagesUnderWayAre
  <2> HIDE DEF n
  <2>6. \A k \in DOMAIN s_cq : s_cq[k].data \in Answering  BY DEF Answering
  <2>7. ASSUME NEW i \in DOMAIN PagesUnderWay, NEW j \in DOMAIN PagesUnderWay,
               PagesUnderWay[i] = PagesUnderWay[j]
        PROVE  i = j
    <3>1. i \in Int /\ j \in Int  BY <2>5
    <3>2. CASE i <= n /\ j <= n  BY <2>0, <2>5, <2>7, <3>2 DEF PagesUnique
    <3>3. CASE i <= n /\ ~(j <= n)  BY <2>0, <2>5, <2>6, <2>7, <3>3 DEF PagesUnique
    <3>4. CASE ~(i <= n) /\ j <= n  BY <2>0, <2>5, <2>6, <2>7, <3>4 DEF PagesUnique
    <3>5. CASE ~(i <= n) /\ ~(j <= n)
      <4>1. s_cq[i - n].data = s_cq[j - n].data  BY <2>0, <2>5, <2>6, <2>7, <3>5 DEF PagesUnique
      <4>2. i - n = j - n  BY <2>1, <2>5, <3>5, <4>1 DEF ServerFacts, SP!Apart
      <4> QED  BY <2>5, <3>1, <4>2
    <3> QED  BY <3>2, <3>3, <3>4, <3>5
  <2>8. ASSUME NEW o \in Writing, o \in s_inflight, NEW i \in DOMAIN PagesUnderWay
        PROVE  PagesUnderWay[i] # s_mem[o.data].word[1][1]
    <3>1. o.data \in Answering  BY <2>8 DEF Writing, Answering, Queued
    <3>2. s_mem[o.data].word[1][1] = PageOf(o.data)  BY DEF PageOf
    <3>3. CASE i <= n  BY <2>0, <2>5, <3>1, <3>2, <3>3 DEF PagesUnique
    <3>4. CASE ~(i <= n)
      <4>1. o.data # s_cq[i - n].data  BY <2>1, <2>5, <2>8, <3>4 DEF ServerFacts, SP!Apart
      <4> QED  BY <2>0, <2>5, <2>6, <3>1, <3>2, <3>4, <4>1 DEF PagesUnique
    <3> QED  BY <3>3, <3>4
  <2> QED  BY <2>4, <2>7, <2>8 DEF IsInjective
<1> QED
  BY <1>1, SidesInit, SidesStep, ConservedInit, ConservedStep, PTL DEF Spec

-----------------------------------------------------------------------------
(* What the windows of the client bound.                                   *)

-----------------------------------------------------------------------------
(* What the client was sent and has not counted.                           *)

Gots == [o \in Op |-> o.got]
Units == [c \in Cqe |-> Brought(c)]

LEMMA OpShape == ASSUME NEW o \in Op
                 PROVE  o.got \in 0..PageUnits /\ o.got \in Nat /\ Gots[o] = o.got
BY TcpAssumption DEF Op, Gots

LEMMA CqeShape == ASSUME NEW c \in Cqe
                  PROVE  Units[c] = Brought(c) /\ Brought(c) \in Int /\ c.res \in Int
                         /\ c.op \in {"send", "recv"}
BY TcpAssumption DEF Cqe, Units, Brought, Error

LEMMA UnreapedIs ==
  ASSUME NEW I \in SUBSET Op, IsFiniteSet(I), NEW q \in Seq(Cqe)
  PROVE  /\ Total([o \in I |-> o.got]) = Sum(Gots, I)
         /\ Total([i \in DOMAIN q |-> Brought(q[i])]) = Worth(q, Units)
         /\ Sum(Gots, I) \in Nat /\ Worth(q, Units) \in Int
         /\ Terms(Gots, I)
<1>1. \A o \in I : Gots[o] = o.got /\ o.got \in Nat  BY OpShape
<1>2. Total([o \in I |-> o.got]) = Sum(Gots, I)
  <2> DEFINE f == [o \in I |-> o.got]
  <2>1. DOMAIN f = I /\ \A o \in I : f[o] = Gots[o] /\ f[o] \in Int  BY <1>1
  <2> HIDE DEF f
  <2>2. Total(f) = Sum(f, I)  BY <2>1 DEF Total, Sum
  <2>3. Sum(f, I) = Sum(Gots, I)  BY <2>1, SumSame DEF Terms
  <2> QED  BY <2>2, <2>3 DEF f
<1>3. Total([i \in DOMAIN q |-> Brought(q[i])]) = Worth(q, Units)
  <2> DEFINE f == [i \in DOMAIN q |-> Brought(q[i])]
  <2>1. \A i \in DOMAIN q : Units[q[i]] = Brought(q[i])  BY ElementOfQueue, CqeShape
  <2>2. f = Along(q, Units)  BY <2>1 DEF Along
  <2>3. DOMAIN Along(q, Units) = DOMAIN q  BY DEF Along
  <2> HIDE DEF f
  <2>4. Total(Along(q, Units)) = Sum(Along(q, Units), DOMAIN q)  BY <2>3 DEF Total, Sum
  <2> QED  BY <2>2, <2>4 DEF Worth, f
<1>4. Sum(Gots, I) \in Nat  BY <1>1, SumOfNumbers
<1>5. Worth(q, Units) \in Int
  <2>1. \A c \in Cqe : Units[c] \in Int  BY CqeShape
  <2> QED  BY <2>1, WorthIs
<1>6. Terms(Gots, I)  BY <1>1 DEF Terms
<1> QED  BY <1>2, <1>3, <1>4, <1>5, <1>6

LEMMA UnreapedNow ==
  ASSUME SidesOK, DataOK
  PROVE  /\ Unreaped = Sum(Gots, inflight) + Worth(cq, Units)
         /\ Sum(Gots, inflight) \in Nat /\ Worth(cq, Units) \in Int /\ Unreaped \in Int
<1>1. inflight \in SUBSET Op /\ IsFiniteSet(inflight) /\ cq \in Seq(Cqe)
  BY Types DEF DataOK
<1>2. /\ Total([o \in inflight |-> o.got]) = Sum(Gots, inflight)
      /\ Total([i \in DOMAIN cq |-> Brought(cq[i])]) = Worth(cq, Units)
      /\ Sum(Gots, inflight) \in Nat /\ Worth(cq, Units) \in Int
  BY <1>1, UnreapedIs
<1> QED  BY <1>2 DEF Unreaped

LEMMA UnreapedNext ==
  ASSUME SidesOK', DataOK'
  PROVE  Unreaped' = Sum(Gots, inflight') + Worth(cq', Units)
<1>1. inflight' \in SUBSET Op /\ IsFiniteSet(inflight') /\ cq' \in Seq(Cqe)
  BY DEF SidesOK, ClientInv, RingOK, DataOK
<1>2. /\ Total([o \in inflight' |-> o.got]) = Sum(Gots, inflight')
      /\ Total([i \in DOMAIN cq' |-> Brought(cq'[i])]) = Worth(cq', Units)
  BY <1>1, UnreapedIs
<1> QED  BY <1>2 DEF Unreaped

\* While nothing failed it is a number of units.
LEMMA WholeUnits ==
  ASSUME NEW q \in Seq(Cqe),
         \A n \in DOMAIN q : q[n].res >= 0 /\ (q[n].op = "recv" => q[n].res = PageUnits)
  PROVE  Worth(q, Units) \in Nat
<1>1. PageUnits \in Nat  BY TcpAssumption
<1> DEFINE U == {c \in Cqe : Brought(c) \in Nat}
<1>2. \A n \in DOMAIN q : q[n] \in U
  <2> SUFFICES ASSUME NEW n \in DOMAIN q PROVE q[n] \in U
    OBVIOUS
  <2>1. q[n] \in Cqe  BY ElementOfQueue
  <2> QED  BY <1>1, <2>1 DEF Brought
<1>3. q \in Seq(U)
  <2> HIDE DEF U
  <2>1. q = [n \in 1..Len(q) |-> q[n]] /\ Len(q) \in Nat /\ DOMAIN q = 1..Len(q)  OBVIOUS
  <2> QED  BY <1>2, <2>1
<1>4. \A c \in U : Units[c] \in Nat  BY CqeShape
<1> HIDE DEF U
<1> QED  BY <1>3, <1>4, WorthOfNumbers

LEMMA UnreapedIsNat ==
  /\ SidesOK /\ DataOK /\ ResultsOK => Unreaped \in Nat
  /\ SidesOK' /\ DataOK' /\ ResultsOK' => Unreaped' \in Nat
<1>1. ASSUME SidesOK, DataOK, ResultsOK PROVE Unreaped \in Nat
  <2>1. cq \in Seq(Cqe)  BY <1>1, Types
  <2>2. Worth(cq, Units) \in Nat  BY <1>1, <2>1, WholeUnits DEF ResultsOK
  <2> QED  BY <1>1, <2>2, UnreapedNow
<1>2. ASSUME SidesOK', DataOK', ResultsOK' PROVE Unreaped' \in Nat
  <2>1. inflight' \in SUBSET Op /\ IsFiniteSet(inflight') /\ cq' \in Seq(Cqe)
    BY <1>2 DEF SidesOK, ClientInv, RingOK, DataOK
  <2>2. Worth(cq', Units) \in Nat  BY <1>2, <2>1, WholeUnits DEF ResultsOK
  <2>3. Sum(Gots, inflight') \in Nat  BY <2>1, UnreapedIs
  <2> QED  BY <1>2, <2>2, <2>3, UnreapedNext
<1> QED  BY <1>1, <1>2

LEMMA NothingUnreaped ==
  ASSUME SidesOK, DataOK, inflight = {}, cq = <<>>
  PROVE  Unreaped = 0
<1>1. DOMAIN <<>> = {}  OBVIOUS
<1>2. Sum(Gots, {}) = 0 /\ Worth(<<>>, Units) = 0  BY <1>1, SumEmpty DEF Worth
<1> QED  BY <1>2, UnreapedNow

\* Only the steps of the client and of its kernel change it, Submit apart.
LEMMA UnreapedSame ==
  ASSUME UNCHANGED <<inflight, cq>>
  PROVE  Unreaped' = Unreaped
BY DEF Unreaped

LEMMA UnreapedSubmit ==
  ASSUME SidesOK, SidesOK', DataOK, DataOK', ResultsOK, Submit
  PROVE  Unreaped' = Unreaped
<1> DEFINE J == {sq[n] : n \in DOMAIN sq}
<1>1. inflight' = inflight \cup J /\ cq' = cq  BY DEF Submit, Range
<1>2. sq \in Seq(Op) /\ inflight \in SUBSET Op /\ IsFiniteSet(inflight)  BY Types DEF DataOK
<1>3. IsFiniteSet(J)  BY <1>2, QueueFinite
<1>4. \A o \in J : Gots[o] = 0
  <2>1. \A n \in DOMAIN sq : sq[n] \in Op /\ sq[n].got = 0  BY <1>2, ElementOfQueue DEF ResultsOK
  <2> QED  BY <2>1, OpShape
<1> HIDE DEF J
<1>5. Terms(Gots, inflight)  BY <1>2, Types, UnreapedIs
<1>6. Sum(Gots, inflight \cup J) = Sum(Gots, inflight)  BY <1>2, <1>3, <1>4, <1>5, SumOfMore
<1>7. Sum(Gots, inflight') = Sum(Gots, inflight)  BY <1>1, <1>6
<1>8. Worth(cq', Units) = Worth(cq, Units)  BY <1>1
<1>9. Unreaped' = Sum(Gots, inflight') + Worth(cq', Units)  BY UnreapedNext
<1> QED  BY <1>7, <1>8, <1>9, UnreapedNow

\* The queues of a ring after a completion.
LEMMA WorthCompletes ==
  ASSUME NEW q \in Seq(Cqe), NEW c \in Cqe
  PROVE  Worth(Append(q, c), Units) = Worth(q, Units) + Brought(c)
<1>1. \A d \in Cqe : Units[d] \in Int  BY CqeShape
<1> QED  BY <1>1, WorthLast, CqeShape

LEMMA GotsWithout ==
  ASSUME NEW I \in SUBSET Op, IsFiniteSet(I), NEW o \in I
  PROVE  Sum(Gots, I) = o.got + Sum(Gots, I \ {o}) /\ IsFiniteSet(I \ {o})
         /\ Sum(Gots, I \ {o}) \in Nat
<1>1. Terms(Gots, I) /\ Gots[o] = o.got
  <2>1. <<>> \in Seq(Cqe)  OBVIOUS
  <2>2. o \in Op  OBVIOUS
  <2> QED  BY <2>1, <2>2, UnreapedIs, OpShape
<1>2. IsFiniteSet(I \ {o}) /\ I \ {o} \in SUBSET Op  BY FS_RemoveElement
<1>3. Sum(Gots, I \ {o}) \in Nat
  <2>1. <<>> \in Seq(Cqe)  OBVIOUS
  <2> QED  BY <1>2, <2>1, UnreapedIs
<1> QED  BY <1>1, <1>2, <1>3, SumTakeOut

LEMMA UnreapedCompletes ==
  ASSUME SidesOK, SidesOK', DataOK, DataOK', NEW o \in inflight,
         NEW res \in {Error} \cup (0..(PageUnits + RequestUnits)), Complete(o, res)
  PROVE  Unreaped' = Unreaped - o.got + IF o.op = "recv" THEN res ELSE 0
<1> DEFINE c == [op |-> o.op, data |-> o.data, res |-> res]
<1>1. inflight' = inflight \ {o} /\ cq' = Append(cq, c)  BY DEF Complete
<1>2. inflight \in SUBSET Op /\ IsFiniteSet(inflight) /\ cq \in Seq(Cqe)  BY Types DEF DataOK
<1>3. c \in Cqe /\ c.op = o.op /\ c.res = res
  <2>1. o \in Op  BY <1>2
  <2> QED  BY <2>1 DEF Op, Cqe
<1> HIDE DEF c
<1>4. Worth(cq', Units) = Worth(cq, Units) + Brought(c)  BY <1>1, <1>2, <1>3, WorthCompletes
<1>5. Sum(Gots, inflight) = o.got + Sum(Gots, inflight \ {o}) /\ Sum(Gots, inflight \ {o}) \in Nat
  BY <1>2, GotsWithout
<1>6. Sum(Gots, inflight') = Sum(Gots, inflight \ {o})  BY <1>1
<1>7. Unreaped' = Sum(Gots, inflight') + Worth(cq', Units)  BY UnreapedNext
<1>8. o.got \in Nat /\ Brought(c) \in Int /\ Brought(c) = IF o.op = "recv" THEN res ELSE 0
  <2>1. o \in Op  BY <1>2
  <2> QED  BY <1>3, <2>1, OpShape, CqeShape DEF Brought
<1> QED  BY <1>4, <1>5, <1>6, <1>7, <1>8, UnreapedNow

\* A receive takes units from the stream, and keeps them until they are a page.
LEMMA KernelRecvIs ==
  ASSUME SidesOK, SidesOK', DataOK, DataOK', KernelRecv
  PROVE  /\ UNCHANGED <<Asking, Receiving>>
         /\ \E n \in Nat : Unreaped' = Unreaped + n /\ toClient' = toClient - n /\ n <= toClient
<1>0. UNCHANGED <<mem, sq>>  BY DEF KernelRecv
<1>1. PICK o \in inflight : \E n \in 1..(PageUnits - o.got) :
        /\ o.op = "recv"
        /\ ClientReceive(n)
        /\ IF o.got + n = PageUnits
           THEN Complete(o, PageUnits)
           ELSE /\ inflight' = (inflight \ {o}) \cup {[o EXCEPT !.got = @ + n]}
                /\ UNCHANGED cq
  BY DEF KernelRecv
<1>2. PICK n \in 1..(PageUnits - o.got) :
        /\ o.op = "recv"
        /\ ClientReceive(n)
        /\ IF o.got + n = PageUnits
           THEN Complete(o, PageUnits)
           ELSE /\ inflight' = (inflight \ {o}) \cup {[o EXCEPT !.got = @ + n]}
                /\ UNCHANGED cq
  BY <1>1
<1>3. /\ inflight \in SUBSET Op /\ IsFiniteSet(inflight) /\ PageUnits \in Nat /\ cq \in Seq(Cqe)
  BY Types DEF DataOK
<1>4. /\ o \in Op /\ o.got \in 0..PageUnits /\ o.got \in Nat /\ n \in Nat /\ n + o.got <= PageUnits
  <2>1. o \in Op  BY <1>3
  <2>2. o.got \in 0..PageUnits  BY <2>1, OpShape
  <2> QED  BY <1>3, <2>1, <2>2
<1>5. toClient' = toClient - n /\ n <= toClient /\ toClient \in Nat
  BY <1>2 DEF ClientReceive, DataOK
<1>6. CASE o.got + n = PageUnits
  <2>1. Complete(o, PageUnits)  BY <1>2, <1>6
  <2>2. PageUnits \in {Error} \cup (0..(PageUnits + RequestUnits))  BY TcpAssumption
  <2>3. UNCHANGED <<Asking, Receiving>>  BY <1>0, <2>1, <2>2, CompleteIs
  <2>4. Unreaped' = Unreaped - o.got + PageUnits  BY <1>2, <2>1, <2>2, UnreapedCompletes
  <2>5. Unreaped \in Int  BY UnreapedNow
  <2>6. Unreaped' = Unreaped + n  BY <1>3, <1>4, <1>6, <2>4, <2>5
  <2> QED  BY <1>4, <1>5, <2>3, <2>6
<1>7. CASE o.got + n # PageUnits
  <2> DEFINE p == [o EXCEPT !.got = @ + n]
             I == inflight \ {o}
  <2>1. inflight' = I \cup {p} /\ cq' = cq  BY <1>2, <1>7
  <2>2. p.op = o.op /\ p.data = o.data /\ p.got = o.got + n /\ p \in Op
    <3>1. o = [op |-> o.op, data |-> o.data, got |-> o.got]  BY <1>4 DEF Op
    <3>2. p = [op |-> o.op, data |-> o.data, got |-> o.got + n]  BY <3>1
    <3>3. o.got + n \in 0..PageUnits  BY <1>3, <1>4
    <3> HIDE DEF p
    <3>4. o.op \in {"send", "recv"} /\ o.data \in Addr  BY <1>4 DEF Op
    <3> QED  BY <3>2, <3>3, <3>4 DEF Op
  <2> HIDE DEF p
  <2>3. p \notin I
    <3>1. Apart  BY DEF SidesOK, ClientInv
    <3> QED  BY <2>2, <3>1 DEF Apart
  <2>4. UNCHANGED <<Asking, Receiving>>
    <3>1. Outstanding' = {sq'[k] : k \in DOMAIN sq'} \cup inflight' \cup {cq'[k] : k \in DOMAIN cq'}
      BY DEF Outstanding, Range
    <3>2. Outstanding' \cup {o} = Outstanding \cup {p} /\ o \in Outstanding /\ p \in Outstanding'
      BY <1>0, <2>1, <3>1, OutstandingIs
    <3> QED  BY <2>2, <3>2 DEF Asking, Receiving
  <2>5. Sum(Gots, inflight) = o.got + Sum(Gots, I) /\ Sum(Gots, I) \in Nat /\ IsFiniteSet(I)
    BY <1>3, GotsWithout
  <2>6. Sum(Gots, inflight') = p.got + Sum(Gots, I)
    <3>1. inflight' \in SUBSET Op /\ IsFiniteSet(inflight')
      BY DEF SidesOK, ClientInv, RingOK, DataOK
    <3>2. Terms(Gots, inflight')  BY <1>3, <3>1, UnreapedIs
    <3> HIDE DEF I
    <3>3. Terms(Gots, I \cup {p})  BY <2>1, <3>2
    <3>4. Sum(Gots, I \cup {p}) = Gots[p] + Sum(Gots, I)  BY <2>3, <2>5, <3>3, SumPutIn
    <3> QED  BY <2>1, <2>2, <3>4, OpShape
  <2>7. Worth(cq', Units) = Worth(cq, Units)  BY <2>1
  <2> HIDE DEF I
  <2>8. Unreaped' = Unreaped + n
    BY <1>4, <2>2, <2>5, <2>6, <2>7, UnreapedNow, UnreapedNext
  <2> QED  BY <1>4, <1>5, <2>4, <2>8
<1> QED  BY <1>6, <1>7

\* What is reaped was brought.
LEMMA UnreapedReap ==
  ASSUME SidesOK, SidesOK', DataOK, DataOK', Reap
  PROVE  Unreaped' = Unreaped - Brought(Head(cq)) /\ Brought(Head(cq)) \in Int
<1>1. cq # <<>> /\ cq' = Tail(cq) /\ inflight' = inflight  BY DEF Reap
<1>2. cq \in Seq(Cqe)  BY Types
<1>3. \A d \in Cqe : Units[d] \in Int  BY CqeShape
<1>4. Worth(cq, Units) = Units[Head(cq)] + Worth(Tail(cq), Units)  BY <1>1, <1>2, <1>3, WorthHead
<1>5. Head(cq) \in Cqe  BY <1>1, <1>2, QueueHead
<1>6. Units[Head(cq)] = Brought(Head(cq)) /\ Brought(Head(cq)) \in Int  BY <1>5, CqeShape
<1>7. Worth(cq', Units) = Worth(Tail(cq), Units)  BY <1>1
<1>8. Sum(Gots, inflight') = Sum(Gots, inflight)  BY <1>1
<1>9. Worth(Tail(cq), Units) \in Int
  <2>1. Tail(cq) \in Seq(Cqe)  BY <1>1, <1>2, QueueHead
  <2> QED  BY <1>3, <2>1, WorthIs
<1> QED  BY <1>4, <1>6, <1>7, <1>8, <1>9, UnreapedNow, UnreapedNext

\* What was sent back to the client moves, from the stream to the kernel and on to the
\* counter; the client loses none, up to its exit.
LEMMA BackKept ==
  ASSUME RequestUnits = 1, SidesOK, SidesOK', Conserved, Conserved', ClientStep, ~Exit
  PROVE  Back' = Back
<1>0. Up /\ LinkOK /\ DataOK /\ DataOK' /\ ResultsOK /\ ~Fail /\ ~KernelRecvEnd
  BY ClientUp DEF Conserved
<1>1. total_received \in Nat /\ Unreaped \in Int /\ toClient \in Nat
  BY <1>0, Types, UnreapedNow DEF DataOK
<1>2. CASE (PrepSend \/ EndSends \/ PrepRecv \/ EndReap) /\ UNCHANGED tcpVars
  <2>1. UNCHANGED <<total_received, inflight, cq, toClient>>
    BY <1>2 DEF PrepSend, EndSends, PrepRecv, EndReap, tcpVars, ringVars
  <2> QED  BY <2>1, UnreapedSame DEF Back
<1>3. CASE Submit /\ UNCHANGED tcpVars
  <2>1. UNCHANGED <<total_received, toClient>>  BY <1>3 DEF Submit, tcpVars
  <2> QED  BY <1>0, <1>3, <2>1, UnreapedSubmit DEF Back
<1>4. CASE Reap /\ UNCHANGED tcpVars
  <2>1. toClient' = toClient  BY <1>4 DEF tcpVars
  <2>2. Unreaped' = Unreaped - Brought(Head(cq)) /\ Brought(Head(cq)) \in Int
    BY <1>0, <1>4, UnreapedReap
  <2>3. total_received' = total_received + Brought(Head(cq))
    BY <1>1, <1>4, ReapIs DEF Brought
  <2> QED  BY <1>1, <2>1, <2>2, <2>3 DEF Back
<1>5. CASE KernelSend
  <2>1. PICK o \in inflight, res \in {RequestUnits, Error} :
          o.op = "send" /\ ClientSend(Word(mem[o.data].page), res) /\ Complete(o, res)
    BY <1>5 DEF KernelSend
  <2>2. toClient' = toClient  BY <2>1 DEF ClientSend
  <2>3. total_received' = total_received  BY <1>5 DEF KernelSend, threadVars
  <2>4. res \in {Error} \cup (0..(PageUnits + RequestUnits))  BY TcpAssumption
  <2>5. Unreaped' = Unreaped - o.got + 0  BY <1>0, <2>1, <2>4, UnreapedCompletes
  <2>6. o.got = 0  BY <1>0, <2>1 DEF ResultsOK
  <2>7. Unreaped' = Unreaped  BY <1>1, <2>5, <2>6
  <2> QED  BY <2>2, <2>3, <2>7 DEF Back
<1>6. CASE KernelRecv
  <2>1. total_received' = total_received  BY <1>6 DEF KernelRecv, threadVars
  <2>2. PICK n \in Nat : Unreaped' = Unreaped + n /\ toClient' = toClient - n
    BY <1>0, <1>6, KernelRecvIs
  <2> QED  BY <1>1, <2>1, <2>2 DEF Back
<1>7. \/ (PrepSend \/ EndSends \/ PrepRecv \/ EndReap) /\ UNCHANGED tcpVars
      \/ Submit /\ UNCHANGED tcpVars
      \/ Reap /\ UNCHANGED tcpVars
      \/ KernelSend
      \/ KernelRecv
  BY <1>0 DEF ClientStep, ClientThread, LocalStep, ClientKernel
<1> QED  BY <1>2, <1>3, <1>4, <1>5, <1>6, <1>7

-----------------------------------------------------------------------------
(* The windows: what the round trip bounds.                                *)

LEMMA RingParts ==
  /\ Quarter \in Nat /\ Half \in Nat /\ Window \in Nat
  /\ 2 * Quarter + Half <= RingSize
BY ClientAssumption DEF Quarter, Half, Window

\* A page that was received was asked for, and its request sent and answered.
LEMMA ReceivedIsSent ==
  ASSUME SidesOK, Conserved, Up, PagesBack, UnitsOK
  PROVE  /\ iterations_received \in Nat /\ Sent \in Nat /\ iterations_received <= Sent
         /\ toClient > 0 => iterations_received < Sent
         /\ Sent <= write_req_num /\ write_req_num <= send_index
         /\ Cardinality(UnsentData) \in Nat /\ Cardinality(UnsentData) + write_req_num <= send_index
<1>1. LinkOK /\ DataOK /\ ResultsOK /\ CountOK  BY DEF Conserved
<1>2. Unreaped \in Nat  BY <1>1, UnreapedIsNat
<1>3. /\ PageUnits \in Nat \ {0} /\ iterations_received \in Nat /\ total_received \in Nat
      /\ toClient \in Nat /\ write_req_num \in Nat
  BY <1>1, Types DEF DataOK
<1>4. Cardinality(UnsentData) \in Nat /\ Cardinality(Queued) \in Nat /\ Len(toServer) \in Nat
  BY <1>1, FS_CardinalityType DEF DataOK
<1>5. Cardinality(PlacesIn(s_cq, Reads)) \in Nat
  BY ServerHas, PlacesFinite DEF ServerFacts
<1>6. Sent \in Nat /\ Sent <= write_req_num  BY <1>1, <1>3, <1>4 DEF CountOK, Sent
<1>7. Cardinality(UnsentData) + write_req_num <= send_index /\ write_req_num <= send_index
  BY <1>1, <1>3, <1>4, <1>5 DEF CountOK
<1>8. total_received + toClient <= PageUnits * Sent
  <2>1. Back <= PageUnits * Sent  BY DEF UnitsOK
  <2>2. PageUnits * Sent \in Nat  BY <1>3, <1>6
  <2> QED  BY <1>2, <1>3, <2>1, <2>2 DEF Back
<1>9. \A i, s \in Nat, p \in Nat \ {0} : p * i <= p * s => i <= s
  OBVIOUS
<1>10. PageUnits * iterations_received + toClient <= PageUnits * Sent
  BY <1>8 DEF PagesBack
<1>11. PageUnits * iterations_received \in Nat /\ PageUnits * Sent \in Nat  BY <1>3, <1>6
<1>12. iterations_received <= Sent
  BY <1>3, <1>6, <1>9, <1>10, <1>11
<1>13. toClient > 0 => iterations_received # Sent
  BY <1>3, <1>10, <1>11
<1> QED  BY <1>3, <1>4, <1>6, <1>7, <1>12, <1>13

\* At the end of a pass the client holds no completion, and its queue is empty.
LEMMA NothingReaped ==
  ASSUME SidesOK, pc = "reap", cq = <<>>
  PROVE  Asking = UnsentData
<1>1. Outstanding = {sq[n] : n \in DOMAIN sq} \cup inflight \cup {cq[n] : n \in DOMAIN cq}
  BY OutstandingIs
<1>2. {cq[n] : n \in DOMAIN cq} = {}  OBVIOUS
<1>3. {o \in Outstanding : o.op = "send"} = Unsent  BY <1>1, <1>2, UnsentIs
<1> QED  BY <1>3 DEF Asking, UnsentData

LEMMA WindowTypes ==
  ASSUME SidesOK, WindowsOK
  PROVE  /\ Cardinality(Asking) \in Nat /\ Cardinality(Receiving) \in Nat
         /\ send_index \in Nat /\ recv_index \in Nat /\ iterations_received \in Nat
         /\ reaped \in Nat /\ Quarter \in Nat /\ Half \in Nat
         /\ recv_index <= send_index /\ send_index - recv_index <= Quarter
<1>1. Cardinality(Asking) \in Nat /\ Cardinality(Receiving) \in Nat
  BY FS_CardinalityType DEF WindowsOK
<1>2. send_index - recv_index <= Quarter  BY DEF SidesOK, SqInv, SqBound, Ahead, Quarter
<1> QED  BY <1>1, <1>2, Types, RingParts

LEMMA WindowsPrepSend ==
  ASSUME SidesOK, WindowsOK, PrepSend
  PROVE  WindowsOK'
<1>1. /\ pc = "send" /\ send_index - recv_index < Quarter /\ send_index' = send_index + 1
      /\ Prepare("send", StartIndex + send_index)
      /\ UNCHANGED <<pc, recv_index, iterations_received, inflight, cq, reaped>>
  BY DEF PrepSend, MaySend, Quarter
<1>2. PICK a \in Addr :
        /\ a \notin Asking /\ Asking' = Asking \cup {a} /\ Receiving' = Receiving
  <2>1. \E a \in Addr : /\ a \notin Asking
                        /\ Asking' = Asking \cup IF "send" = "send" THEN {a} ELSE {}
                        /\ Receiving' = Receiving \cup IF "send" = "recv" THEN {a} ELSE {}
    BY <1>1, PrepareIs
  <2> QED  BY <2>1
<1>3. IsFiniteSet(Asking') /\ Cardinality(Asking') = Cardinality(Asking) + 1
  BY <1>2, FS_AddElement DEF WindowsOK
<1>4. /\ reaped = 0 /\ Cardinality(Asking) + iterations_received <= send_index
      /\ recv_index - iterations_received <= Half
      /\ Cardinality(Receiving) = recv_index - iterations_received
  BY <1>1 DEF WindowsOK
<1>5. reaped' + Cardinality(Asking') + Cardinality(Receiving') <= Quarter + 2 * Half
  BY <1>1, <1>2, <1>3, <1>4, WindowTypes
<1>6. Cardinality(Asking') + iterations_received' <= send_index'
  BY <1>1, <1>3, <1>4, WindowTypes
<1> QED  BY <1>1, <1>2, <1>3, <1>5, <1>6 DEF WindowsOK

LEMMA WindowsPrepRecv ==
  ASSUME SidesOK, WindowsOK, PrepRecv
  PROVE  WindowsOK'
<1>1. /\ pc = "recv" /\ recv_index - iterations_received < Half /\ recv_index' = recv_index + 1
      /\ Prepare("recv", NoPage)
      /\ UNCHANGED <<pc, send_index, iterations_received, inflight, cq, reaped>>
  BY DEF PrepRecv, MayRecv, Half
<1>2. PICK a \in Addr :
        /\ a \notin Receiving /\ Receiving' = Receiving \cup {a} /\ Asking' = Asking
  <2>1. \E a \in Addr : /\ a \notin Receiving
                        /\ Asking' = Asking \cup IF "recv" = "send" THEN {a} ELSE {}
                        /\ Receiving' = Receiving \cup IF "recv" = "recv" THEN {a} ELSE {}
    BY <1>1, PrepareIs
  <2> QED  BY <2>1
<1>3. IsFiniteSet(Receiving') /\ Cardinality(Receiving') = Cardinality(Receiving) + 1
  BY <1>2, FS_AddElement DEF WindowsOK
<1>4. /\ reaped = 0 /\ Cardinality(Asking) + iterations_received <= send_index
      /\ Cardinality(Receiving) = recv_index - iterations_received
      /\ iterations_received <= recv_index
  BY <1>1 DEF WindowsOK
<1>5. reaped' + Cardinality(Asking') + Cardinality(Receiving') <= Quarter + 2 * Half
  BY <1>1, <1>2, <1>3, <1>4, WindowTypes
<1>6. /\ iterations_received' <= recv_index' /\ recv_index' - iterations_received' <= Half
      /\ Cardinality(Receiving') = recv_index' - iterations_received'
  BY <1>1, <1>3, <1>4, WindowTypes
<1> QED  BY <1>1, <1>2, <1>3, <1>4, <1>5, <1>6 DEF WindowsOK

LEMMA WindowsReap ==
  ASSUME SidesOK, WindowsOK, Reap
  PROVE  WindowsOK'
<1>1. /\ pc = "reap" /\ pc' = "reap" /\ reaped' = reaped + 1
      /\ UNCHANGED <<send_index, recv_index>>
  BY DEF Reap
<1> DEFINE d == Head(cq).data
<1>2. CASE Head(cq).op = "send"
  <2>1. /\ d \in Asking /\ Asking' = Asking \ {d} /\ Receiving' = Receiving
        /\ iterations_received' = iterations_received
    BY <1>2, ReapIs
  <2>2. IsFiniteSet(Asking') /\ Cardinality(Asking') = Cardinality(Asking) - 1
    BY <2>1, FS_RemoveElement DEF WindowsOK
  <2> QED  BY <1>1, <2>1, <2>2, WindowTypes DEF WindowsOK
<1>3. CASE Head(cq).op = "recv"
  <2>1. /\ d \in Receiving /\ Receiving' = Receiving \ {d} /\ Asking' = Asking
        /\ iterations_received' = iterations_received + 1
    BY <1>3, ReapIs
  <2>2. /\ IsFiniteSet(Receiving') /\ Cardinality(Receiving') = Cardinality(Receiving) - 1
        /\ Cardinality(Receiving') \in Nat
    BY <2>1, FS_RemoveElement, FS_CardinalityType DEF WindowsOK
  <2> QED  BY <1>1, <2>1, <2>2, WindowTypes DEF WindowsOK
<1> QED  BY <1>2, <1>3, ReapIs

LEMMA WindowsEndReap ==
  ASSUME SidesOK, Conserved, Up, PagesBack, WindowsOK, UnitsOK, EndReap
  PROVE  WindowsOK'
<1>1. /\ pc = "reap" /\ cq = <<>> /\ reaped' = 0
      /\ pc' = IF AllReceived \/ AllSubmitted THEN "exit" ELSE "send"
      /\ UNCHANGED <<send_index, recv_index, iterations_received, total_received>>
      /\ UNCHANGED <<mem, sq, inflight, cq>>
  BY DEF EndReap
<1>2. Asking' = Asking /\ Receiving' = Receiving
  BY <1>1 DEF Asking, Receiving, Outstanding
<1>3. Cardinality(Asking) + iterations_received <= send_index
  <2>1. Cardinality(Asking) = Cardinality(UnsentData)  BY <1>1, NothingReaped
  <2>2. /\ Cardinality(UnsentData) \in Nat /\ iterations_received \in Nat /\ Sent \in Nat
        /\ iterations_received <= Sent /\ Sent <= write_req_num
        /\ Cardinality(UnsentData) + write_req_num <= send_index
    BY ReceivedIsSent
  <2>3. send_index \in Nat /\ write_req_num \in Nat  BY Types DEF Conserved, DataOK
  <2> QED  BY <2>1, <2>2, <2>3
<1>4. AllReceived \/ AllSubmitted =>
        /\ send_index >= NumRequests
        /\ total_received >= NumRequests * PageUnits \/ recv_index >= NumRequests
  BY DEF AllReceived, AllSubmitted
<1>5. reaped' + Cardinality(Asking) + Cardinality(Receiving) <= Quarter + 2 * Half
  BY <1>1, WindowTypes DEF WindowsOK
<1> QED  BY <1>1, <1>2, <1>3, <1>4, <1>5 DEF WindowsOK

\* The other steps of the client, and of its kernel.
LEMMA WindowsQuiet ==
  ASSUME WindowsOK, UNCHANGED <<Asking, Receiving, iterations_received, recv_index, send_index, reaped>>,
         pc' \in {pc, "reap", "closed"} \/ (pc = "send" /\ pc' = "recv"),
         total_received' = total_received
  PROVE  WindowsOK'
BY DEF WindowsOK

LEMMA WindowsClient ==
  ASSUME SidesOK, SidesOK', Conserved, Conserved', PagesBack, WindowsOK, UnitsOK, ClientStep
  PROVE  WindowsOK'
<1>0. /\ Up /\ DataOK /\ DataOK' /\ ~Fail /\ ~KernelRecvEnd /\ LinkOK
  BY ClientUp DEF Conserved
<1>1. CASE EndSends
  <2>1. /\ UNCHANGED <<sq, inflight, cq, iterations_received, recv_index, send_index, reaped, total_received>>
        /\ pc = "send" /\ pc' = "recv"
    BY <1>1 DEF EndSends, ringVars
  <2>2. UNCHANGED <<Asking, Receiving>>  BY <2>1 DEF Asking, Receiving, Outstanding
  <2> QED  BY <2>1, <2>2, WindowsQuiet
<1>2. CASE Submit
  <2>1. /\ UNCHANGED <<iterations_received, recv_index, send_index, reaped, total_received>>
        /\ pc' = "reap"
    BY <1>2 DEF Submit
  <2>2. UNCHANGED <<Asking, Receiving>>  BY <1>2, SubmitIs
  <2> QED  BY <2>1, <2>2, WindowsQuiet
<1>3. CASE Exit
  <2>1. /\ UNCHANGED <<sq, inflight, cq, iterations_received, recv_index, send_index, reaped, total_received>>
        /\ pc' = "closed"
    BY <1>3 DEF Exit, ringVars
  <2>2. UNCHANGED <<Asking, Receiving>>  BY <2>1 DEF Asking, Receiving, Outstanding
  <2> QED  BY <2>1, <2>2, WindowsQuiet
<1>4. CASE KernelSend
  <2>1. PICK o \in inflight, res \in {RequestUnits, Error} :
          o.op = "send" /\ ClientSend(Word(mem[o.data].page), res) /\ Complete(o, res)
    BY <1>4 DEF KernelSend
  <2>2. UNCHANGED <<mem, sq, pc, iterations_received, recv_index, send_index, reaped, total_received>>
    BY <1>4 DEF KernelSend, threadVars
  <2>3. res \in {Error} \cup (0..(PageUnits + RequestUnits))  BY TcpAssumption
  <2>4. UNCHANGED <<Asking, Receiving>>  BY <2>1, <2>2, <2>3, CompleteIs
  <2> QED  BY <2>2, <2>4, WindowsQuiet
<1>5. CASE KernelRecv
  <2>1. UNCHANGED <<pc, iterations_received, recv_index, send_index, reaped, total_received>>
    BY <1>5 DEF KernelRecv, threadVars
  <2>2. UNCHANGED <<Asking, Receiving>>  BY <1>0, <1>5, KernelRecvIs
  <2> QED  BY <2>1, <2>2, WindowsQuiet
<1> QED
  BY <1>0, <1>1, <1>2, <1>3, <1>4, <1>5, WindowsPrepSend, WindowsPrepRecv, WindowsReap, WindowsEndReap
     DEF ClientStep, ClientThread, LocalStep, ClientKernel

LEMMA PagesBackClient ==
  ASSUME SidesOK, Conserved, PagesBack, ClientStep
  PROVE  PagesBack'
<1>0. Up /\ ResultsOK /\ ~Fail /\ ~KernelRecvEnd  BY ClientUp
<1>1. CASE Reap
  <2>1. cq # <<>> /\ Head(cq) = cq[1] /\ 1 \in DOMAIN cq
    <3>1. cq # <<>>  BY <1>1 DEF Reap
    <3> QED  BY <3>1, Types, QueueHead
  <2>2. CASE Head(cq).op = "send"
    <3>1. UNCHANGED <<iterations_received, total_received>>  BY <1>1, <2>2, ReapIs
    <3> QED  BY <3>1 DEF PagesBack
  <2>3. CASE Head(cq).op = "recv"
    <3>1. iterations_received' = iterations_received + 1
          /\ total_received' = total_received + Head(cq).res
      BY <1>1, <2>3, ReapIs
    <3>2. Head(cq).res = PageUnits  BY <1>0, <2>1, <2>3 DEF ResultsOK
    <3>3. \A p, i \in Nat : p * (i + 1) = p * i + p  OBVIOUS
    <3>4. PageUnits \in Nat /\ iterations_received \in Nat  BY Types
    <3>5. PageUnits * (iterations_received + 1) = PageUnits * iterations_received + PageUnits
      BY <3>3, <3>4
    <3> QED  BY <3>1, <3>2, <3>5 DEF PagesBack
  <2> QED  BY <1>1, <2>2, <2>3, ReapIs
<1>2. CASE ~Reap
  <2>1. UNCHANGED <<iterations_received, total_received>>
    BY <1>0, <1>2 DEF ClientStep, ClientThread, LocalStep, ClientKernel, PrepSend, EndSends, PrepRecv,
       Submit, EndReap, Exit, KernelSend, KernelRecv, threadVars
  <2> QED  BY <2>1 DEF PagesBack
<1> QED  BY <1>1, <1>2

\* What was sent back while the client lives: each page for an answer taken off the queue.
LEMMA UnitsClient ==
  ASSUME RequestUnits = 1, SidesOK, SidesOK', Conserved, Conserved', UnitsOK,
         ClientStep, UNCHANGED serverSide, Up'
  PROVE  UnitsOK'
<1>1. ~Exit  BY DEF Exit, Up
<1>2. Back' = Back  BY <1>1, BackKept
<1>3. Sent' = Sent  BY ServerSame DEF Sent
<1> QED  BY <1>2, <1>3 DEF UnitsOK

LEMMA UnitsServer ==
  ASSUME SidesOK, Conserved, UnitsOK, S!ServerStep, UNCHANGED clientVars, Up
  PROVE  UnitsOK'
<1>0. /\ LinkOK /\ DataOK /\ PageUnits \in Nat \ {0} /\ total_received \in Nat
      /\ Unreaped \in Int /\ toClient \in Nat /\ write_req_num \in Nat
      /\ Cardinality(Queued) \in Nat
  BY Types, UnreapedNow, FS_CardinalityType DEF Conserved, DataOK
<1>1. total_received' = total_received /\ Unreaped' = Unreaped
  BY ClientSame, UnreapedSame
<1>2. CASE S!HandleRead /\ UNCHANGED tcpVars
  <2>1. toClient' = toClient /\ write_req_num' = write_req_num + 1
    BY <1>2 DEF tcpVars, S!HandleRead
  <2>2. PICK w : w \notin Queued /\ Queued' = Queued \cup {w}  BY <1>2, HandleReadIs
  <2>3. Cardinality(Queued') = Cardinality(Queued) + 1
    BY <1>0, <2>2, FS_AddElement DEF DataOK
  <2>4. Sent' = Sent  BY <1>0, <2>1, <2>3 DEF Sent
  <2> QED  BY <1>1, <2>1, <2>4 DEF UnitsOK, Back
<1>3. CASE S!KernelWrite
  <2>1. PICK o \in Queued, c \in ServerCqe, res \in {Error} \cup 1..PageUnits :
          Queued' = Queued \ {o} /\ ServerSend(res)
    BY <1>3, KernelWriteIs
  <2>2. toClient' = toClient + res /\ res \in 1..PageUnits
    <3>1. link["server"] = "open"  BY <1>0 DEF LinkOK, End
    <3> QED  BY <1>0, <2>1, <3>1, ServerSendIs
  <2>3. Cardinality(Queued') = Cardinality(Queued) - 1
    BY <1>0, <2>1, FS_RemoveElement DEF DataOK
  <2>4. write_req_num' = write_req_num  BY <1>3 DEF S!KernelWrite
  <2>5. Sent' = Sent + 1 /\ Sent \in Int  BY <1>0, <2>3, <2>4 DEF Sent
  <2>6. Back' = Back + res /\ Back \in Int  BY <1>0, <1>1, <2>2 DEF Back
  <2>7. \A p \in Nat, s \in Int : p * (s + 1) = p * s + p /\ p * s \in Int  OBVIOUS
  <2>8. PageUnits * Sent' = PageUnits * Sent + PageUnits /\ PageUnits * Sent \in Int
    BY <1>0, <2>5, <2>7
  <2> QED  BY <1>0, <2>2, <2>6, <2>8 DEF UnitsOK
<1>4. CASE (S!PostRead \/ S!SubmitReads \/ S!HandleWrite) /\ UNCHANGED tcpVars
  <2>1. UNCHANGED <<toClient, write_req_num>>
    BY <1>4 DEF tcpVars, S!PostRead, S!SubmitReads, S!HandleWrite
  <2>2. Queued' = Queued
    <3>1. S!SubmitReads => Queued' = Queued  BY DEF S!SubmitReads, S!ringVars, Queued
    <3> QED  BY <1>4, <3>1, PostReadIs, HandleWriteIs
  <2> QED  BY <1>1, <2>1, <2>2 DEF UnitsOK, Back, Sent
<1>5. CASE S!KernelRead
  <2>1. UNCHANGED <<toClient, write_req_num>> /\ Queued' = Queued
    <3>1. PICK o \in s_inflight, n \in 1..RequestUnits :
            o.op = "read" /\ S!ServerRead(SubSeq(toServer, 1, n)) /\ S!Complete(o, n)
      BY <1>5 DEF S!KernelRead
    <3>2. n \in Int  BY TcpAssumption
    <3>3. Queued' = Queued  BY <3>1, <3>2, ServerCompleteIs
    <3>4. toClient' = toClient  BY <3>1 DEF S!ServerRead
    <3> QED  BY <1>5, <3>3, <3>4 DEF S!KernelRead
  <2> QED  BY <1>1, <2>1 DEF UnitsOK, Back, Sent
<1>6. ~((S!HandleEof /\ UNCHANGED tcpVars) \/ (S!QueueExit /\ ServerClose) \/ S!KernelReadEnd)
  BY ConservedEof
<1>7. ~S!HandleInvalid  BY DEF S!HandleInvalid, S!MayRefuse
<1>8. \/ S!HandleRead /\ UNCHANGED tcpVars
      \/ S!KernelWrite
      \/ (S!PostRead \/ S!SubmitReads \/ S!HandleWrite) /\ UNCHANGED tcpVars
      \/ S!KernelRead
  BY <1>6, <1>7, SameConnection
     DEF S!ServerStep, S!ServerThread, S!LocalStep, S!ServerKernel, S!tcpVars, tcpVars
<1> QED  BY <1>2, <1>3, <1>4, <1>5, <1>8

\* While the client lives, what it was not sent yet is within its windows.
LEMMA WorkInWindows ==
  ASSUME SidesOK, Conserved, Up, PagesBack, UnitsOK, WindowsOK
  PROVE  /\ WorkOK
         /\ toClient > 0 =>
              Cardinality(PlacesIn(s_cq, GotRead)) + Cardinality(Queued) + Len(toServer) + 1 <= Window
<1>0. LinkOK /\ DataOK /\ CountOK /\ s_cq \in Seq(ServerCqe)
  BY ServerHas DEF Conserved, ServerFacts
<1>1. Reset = 0  BY <1>0 DEF LinkOK, End, Reset
<1>2. /\ Cardinality(PlacesIn(s_cq, GotRead)) \in Nat /\ Cardinality(PlacesIn(s_cq, Reads)) \in Nat
      /\ Cardinality(PlacesIn(s_cq, GotRead)) <= Cardinality(PlacesIn(s_cq, Reads))
  <2>1. PlacesIn(s_cq, GotRead) \subseteq PlacesIn(s_cq, Reads)
    BY DEF PlacesIn, GotRead, Reads
  <2> QED  BY <1>0, <2>1, PlacesFinite, FS_Subset
<1>3. Cardinality(Queued) \in Nat /\ Len(toServer) \in Nat /\ write_req_num \in Nat
  BY <1>0, FS_CardinalityType DEF DataOK
<1>4. /\ Cardinality(UnsentData) \in Nat /\ iterations_received \in Nat /\ Sent \in Nat
      /\ iterations_received <= Sent
  BY ReceivedIsSent
<1>5. send_index - iterations_received <= Window
  BY WindowTypes DEF WindowsOK, Window
<1>6. Cardinality(PlacesIn(s_cq, GotRead)) + Cardinality(Queued) + Len(toServer) + Sent <= send_index
  BY <1>0, <1>2, <1>3, <1>4 DEF CountOK, Sent
<1>7. send_index \in Nat /\ Window \in Nat  BY Types, RingParts
<1>8. ASSUME toClient > 0
      PROVE  Cardinality(PlacesIn(s_cq, GotRead)) + Cardinality(Queued) + Len(toServer) + 1 <= Window
  <2>1. iterations_received < Sent  BY <1>8, ReceivedIsSent
  <2> QED  BY <1>2, <1>3, <1>4, <1>5, <1>6, <1>7, <2>1
<1>9. WorkOK
  <2> DEFINE g == Cardinality(PlacesIn(s_cq, GotRead))
             q == Cardinality(Queued)
  <2>1. g \in Nat /\ q \in Nat /\ g + q + Len(toServer) + Sent <= send_index
    BY <1>2, <1>3, <1>6
  <2> HIDE DEF g, q
  <2>2. g + q + Len(toServer) + 0 <= Window  BY <1>3, <1>4, <1>5, <1>7, <2>1
  <2> QED  BY <1>1, <2>2 DEF WorkOK, g, q
<1> QED  BY <1>8, <1>9

LEMMA WorkTypes ==
  ASSUME SidesOK, DataOK
  PROVE  /\ s_cq \in Seq(ServerCqe) /\ Len(s_cq) \in Nat
         /\ Cardinality(PlacesIn(s_cq, GotRead)) \in Nat
         /\ Cardinality(Queued) \in Nat /\ IsFiniteSet(Queued) /\ Len(toServer) \in Nat
         /\ Reset \in 0..1 /\ Window \in Nat
         /\ \A p : Mixed(s_cq, GotRead, Written, p) \in Nat
<1>1. s_cq \in Seq(ServerCqe)  BY ServerHas DEF ServerFacts
<1>2. Cardinality(PlacesIn(s_cq, GotRead)) \in Nat  BY <1>1, PlacesFinite
<1>3. \A p : Mixed(s_cq, GotRead, Written, p) \in Nat  BY <1>1, MixedIs
<1>4. Reset \in 0..1  BY DEF Reset
<1>5. Cardinality(Queued) \in Nat /\ IsFiniteSet(Queued) /\ Len(toServer) \in Nat /\ Len(s_cq) \in Nat
  BY <1>1, FS_CardinalityType DEF DataOK
<1> QED  BY <1>1, <1>2, <1>3, <1>4, <1>5, RingParts

\* A step that completes and handles nothing.
LEMMA QuietWork ==
  ASSUME SidesOK, DataOK, UNCHANGED s_cq, Queued' = Queued,
         Len(toServer') \in Nat, Len(toServer') <= Len(toServer), Reset' \in 0..Reset
  PROVE  /\ WorkOK => WorkOK'
         /\ QueueOK => QueueOK'
<1>1. WorkOK => WorkOK'  BY WorkTypes DEF WorkOK
<1>2. QueueOK => QueueOK'  BY DEF QueueOK
<1> QED  BY <1>1, <1>2

\* A completion is handled.
LEMMA TakenWork ==
  ASSUME SidesOK, DataOK, s_cq # <<>>, s_cq' = Tail(s_cq), UNCHANGED <<toServer, link>>,
         IF Head(s_cq) \in GotRead THEN Cardinality(Queued') = Cardinality(Queued) + 1
                                   ELSE Queued' = Queued,
         WorkOK, QueueOK
  PROVE  WorkOK' /\ QueueOK'
<1>0. s_cq \in Seq(ServerCqe) /\ Tail(s_cq) \in Seq(ServerCqe)  BY WorkTypes, QueueHead
<1> DEFINE one == IF Head(s_cq) \in GotRead THEN 1 ELSE 0
           m == Len(s_cq)
<1>1. Cardinality(Queued') = Cardinality(Queued) + one /\ one \in Nat  BY WorkTypes
<1>2. Cardinality(PlacesIn(s_cq, GotRead)) = Cardinality(PlacesIn(s_cq', GotRead)) + one
  BY <1>0, PlacesHead
<1>3. Reset' = Reset  BY DEF Reset
<1>4. Cardinality(PlacesIn(s_cq', GotRead)) \in Nat  BY <1>0, PlacesFinite
<1>5. \A p \in 1..m :
        /\ Mixed(s_cq, GotRead, Written, p + 1) = Mixed(s_cq', GotRead, Written, p) + one
        /\ Mixed(s_cq', GotRead, Written, p) \in Nat
  <2>1. \A p \in 1..m : Mixed(s_cq, GotRead, Written, p + 1)
                          = Mixed(Tail(s_cq), GotRead, Written, p) + one
    BY <1>0, MixedHead
  <2>2. \A p \in 1..m : Mixed(Tail(s_cq), GotRead, Written, p) \in Nat
    BY <1>0, MixedIs
  <2>3. s_cq' = Tail(s_cq)  OBVIOUS
  <2> HIDE DEF one, m
  <2> QED  BY <2>1, <2>2, <2>3
<1>6. m \in Nat /\ Len(s_cq') + 1 = m  BY <1>0
<1> HIDE DEF one, m
<1>7. WorkOK'  BY <1>1, <1>2, <1>3, <1>4, WorkTypes DEF WorkOK
<1>8. QueueOK'
  <2> SUFFICES ASSUME NEW p \in 1..m
               PROVE  Mixed(s_cq', GotRead, Written, p) + Cardinality(Queued') <= Window
    BY <1>6 DEF QueueOK
  <2>1. p + 1 \in 1..(m + 1)  BY <1>6
  <2>2. Mixed(s_cq, GotRead, Written, p + 1) + Cardinality(Queued) <= Window
    BY <2>1 DEF QueueOK, m
  <2> QED  BY <1>1, <1>5, <2>2, WorkTypes
<1> QED  BY <1>7, <1>8

\* A completion is posted: of a request that was on its way or told a reset, of the
\* end of the stream, or of an answer that was queued.
LEMMA PostedWork ==
  ASSUME SidesOK, DataOK, NEW c \in ServerCqe, s_cq' = Append(s_cq, c),
         NEW l \in Nat, NEW r \in 0..1, Len(toServer') = l, Reset' = r,
         Cardinality(Queued') = Cardinality(Queued) - (IF c \in Written THEN 1 ELSE 0),
         l + r + (IF c \in GotRead THEN 1 ELSE 0) <= Len(toServer) + Reset,
         WorkOK, QueueOK
  PROVE  WorkOK' /\ QueueOK'
<1>0. s_cq \in Seq(ServerCqe) /\ Append(s_cq, c) \in Seq(ServerCqe)  BY WorkTypes
<1> DEFINE got == IF c \in GotRead THEN 1 ELSE 0
           wrote == IF c \in Written THEN 1 ELSE 0
           m == Len(s_cq)
           q == Cardinality(Queued)
           g == Cardinality(PlacesIn(s_cq, GotRead))
           M(p) == Mixed(s_cq, GotRead, Written, p)
<1>1. Cardinality(PlacesIn(s_cq', GotRead)) = g + got
  BY <1>0, PlacesLast
<1>2. \A p \in 1..(m + 1) : Mixed(s_cq', GotRead, Written, p) = M(p) + wrote
  BY <1>0, MixedLast
<1>3. m \in Nat /\ Len(s_cq') = m + 1  BY <1>0
<1>4. Mixed(s_cq', GotRead, Written, Len(s_cq') + 1) = Cardinality(PlacesIn(s_cq', GotRead))
  BY <1>0, MixedEnds
<1>5. /\ got \in Nat /\ wrote \in Nat /\ Cardinality(Queued') = q - wrote
      /\ l + r + got <= Len(toServer) + Reset
  OBVIOUS
<1>6. /\ g \in Nat /\ q \in Nat /\ Len(toServer) \in Nat /\ Reset \in Nat /\ Window \in Nat
      /\ g + q + Len(toServer) + Reset <= Window
  BY WorkTypes DEF WorkOK
<1>7. \A p : M(p) \in Nat  BY WorkTypes
<1>8. \A p \in 1..(m + 1) : M(p) + q <= Window  BY DEF QueueOK
<1> HIDE DEF got, wrote, m, q, g, M
<1>9. (g + got) + (q - wrote) + l + r <= Window  BY <1>5, <1>6
<1>10. WorkOK'  BY <1>1, <1>5, <1>9 DEF WorkOK
<1>11. QueueOK'
  <2> SUFFICES ASSUME NEW p \in 1..(m + 2)
               PROVE  Mixed(s_cq', GotRead, Written, p) + Cardinality(Queued') <= Window
    <3>1. Len(s_cq') + 1 = m + 2  BY <1>3
    <3> QED  BY <3>1 DEF QueueOK
  <2>1. CASE p \in 1..(m + 1)
    <3>1. (M(p) + wrote) + (q - wrote) <= Window  BY <1>5, <1>6, <1>7, <1>8, <2>1
    <3> QED  BY <1>2, <1>5, <2>1, <3>1
  <2>2. CASE p = m + 2
    <3>1. Mixed(s_cq', GotRead, Written, p) = g + got
      <4>1. Len(s_cq') + 1 = m + 2  BY <1>3
      <4> QED  BY <1>1, <1>4, <2>2, <4>1
    <3>2. (g + got) + (q - wrote) <= Window  BY <1>5, <1>6, <1>9
    <3> QED  BY <1>5, <3>1, <3>2
  <2> QED  BY <1>3, <2>1, <2>2
<1> QED  BY <1>10, <1>11

LEMMA WorkServer ==
  ASSUME RequestUnits = 1, SidesOK, Conserved, WorkOK, QueueOK, S!ServerStep, UNCHANGED clientVars
  PROVE  WorkOK' /\ QueueOK'
<1>0. LinkOK /\ DataOK /\ s_cq \in Seq(ServerCqe)
  BY WorkTypes DEF Conserved
<1>1. /\ Len(toServer) \in Nat /\ Reset \in 0..1 /\ IsFiniteSet(Queued) /\ Cardinality(Queued) \in Nat
  BY <1>0, WorkTypes
<1>2. CASE (S!PostRead \/ S!SubmitReads \/ S!HandleEof) /\ UNCHANGED tcpVars
  <2>1. UNCHANGED <<toServer, link, s_cq>>
    BY <1>2 DEF tcpVars, S!PostRead, S!SubmitReads, S!HandleEof, S!ringVars
  <2>2. Queued' = Queued
    <3>1. S!SubmitReads \/ S!HandleEof => Queued' = Queued
      BY DEF S!SubmitReads, S!HandleEof, S!ringVars, Queued
    <3> QED  BY <1>2, <3>1, PostReadIs
  <2>3. Reset' = Reset  BY <2>1 DEF Reset
  <2>4. Reset' \in 0..Reset /\ Len(toServer') <= Len(toServer) /\ Len(toServer') \in Nat
    BY <1>1, <2>1, <2>3
  <2> QED  BY <1>0, <2>1, <2>2, <2>4, QuietWork
<1>3. CASE S!QueueExit /\ ServerClose
  <2>1. s_cq' = s_cq /\ Queued' = Queued  BY <1>3 DEF S!QueueExit, S!ringVars, Queued
  <2>2. toServer' = <<>> /\ Reset' = 0
    <3>1. link' = [link EXCEPT !["server"] = "closed",
                               !["client"] = IF @ # "open" THEN @
                                             ELSE IF toServer # <<>> THEN "rst" ELSE "fin"]
          /\ toServer' = <<>>
      BY <1>3 DEF ServerClose, Hangup
    <3>2. link'["server"] = "closed"  BY <1>0, <3>1 DEF LinkOK, End
    <3> QED  BY <3>1, <3>2 DEF Reset
  <2>3. Reset' \in 0..Reset /\ Len(toServer') <= Len(toServer) /\ Len(toServer') \in Nat
    <3>1. Len(toServer') = 0  BY <2>2
    <3> QED  BY <1>1, <2>2, <3>1
  <2> QED  BY <1>0, <2>1, <2>3, QuietWork
<1>4. CASE (S!HandleRead \/ S!HandleWrite) /\ UNCHANGED tcpVars
  <2>1. s_cq # <<>> /\ s_cq' = Tail(s_cq) /\ UNCHANGED <<toServer, link>>
    BY <1>4 DEF tcpVars, S!HandleRead, S!HandleWrite, S!Completed
  <2>2. CASE S!HandleRead
    <3>1. Head(s_cq) \in GotRead  BY <2>2, HandleReadIs
    <3>2. PICK w : w \notin Queued /\ Queued' = Queued \cup {w}  BY <2>2, HandleReadIs
    <3>3. Cardinality(Queued') = Cardinality(Queued) + 1  BY <1>1, <3>2, FS_AddElement
    <3> QED  BY <1>0, <2>1, <3>1, <3>3, TakenWork
  <2>3. CASE S!HandleWrite
    <3>1. Head(s_cq) \notin GotRead  BY <2>3, HandleWriteIs DEF Written, GotRead
    <3>2. Queued' = Queued  BY <2>3, HandleWriteIs
    <3> QED  BY <1>0, <2>1, <3>1, <3>2, TakenWork
  <2> QED  BY <1>4, <2>2, <2>3
<1>5. CASE S!KernelRead
  <2>1. /\ toServer # <<>> /\ toServer' = Tail(toServer) /\ link' = link /\ Queued' = Queued
    BY <1>0, <1>5, KernelReadIs
  <2>2. PICK c \in ServerCqe : c.op = "read" /\ c.res = 1 /\ s_cq' = Append(s_cq, c)
    BY <1>0, <1>5, KernelReadIs
  <2>3. Len(toServer') = Len(toServer) - 1 /\ Len(toServer') \in Nat
    <3>1. toServer \in Seq(Int \X Int)  BY <1>0 DEF DataOK
    <3> QED  BY <2>1, <3>1
  <2>4. c \in GotRead /\ c \notin Written  BY <2>2 DEF GotRead, Written
  <2>5. Reset' = Reset  BY <2>1 DEF Reset
  <2>6. PICK l \in Nat, r \in 0..1 : /\ Len(toServer') = l /\ Reset' = r
                                    /\ l = Len(toServer) - 1 /\ r = Reset
    BY <1>1, <2>3, <2>5
  <2>7. l + r + (IF c \in GotRead THEN 1 ELSE 0) <= Len(toServer) + Reset
    BY <1>1, <2>4, <2>6
  <2>8. Cardinality(Queued') = Cardinality(Queued) - (IF c \in Written THEN 1 ELSE 0)
    BY <1>1, <2>1, <2>4
  <2> QED  BY <1>0, <2>2, <2>6, <2>7, <2>8, PostedWork
<1>6. CASE S!KernelReadEnd
  <2>1. PICK c \in ServerCqe, res \in {0, Error} :
          c.op = "read" /\ c.res = res /\ s_cq' = Append(s_cq, c) /\ ServerReadEnd(res)
    BY <1>6, KernelReadEndIs
  <2>2. Queued' = Queued  BY <1>6, KernelReadEndIs
  <2>3. /\ toServer' = toServer
        /\ \/ link["server"] \in {"fin", "dead"} /\ res = 0 /\ link' = link
           \/ link["server"] = "rst" /\ link' = [link EXCEPT !["server"] = "dead"]
    BY <2>1 DEF ServerReadEnd, ReadEnd, Mark
  <2>4. c \notin Written  BY <2>1 DEF Written
  <2>5. PICK r \in 0..1 : Reset' = r /\ r + (IF c \in GotRead THEN 1 ELSE 0) <= Reset
    <3>1. CASE link["server"] \in {"fin", "dead"} /\ res = 0 /\ link' = link
      BY <2>1, <3>1 DEF Reset, GotRead
    <3>2. CASE link["server"] = "rst" /\ link' = [link EXCEPT !["server"] = "dead"]
      <4>1. link'["server"] = "dead"  BY <1>0, <3>2 DEF LinkOK, End
      <4>2. Reset' = 0  BY <4>1 DEF Reset
      <4>3. Reset = 1  BY <3>2 DEF Reset
      <4> QED  BY <4>2, <4>3
    <3> QED  BY <2>3, <3>1, <3>2
  <2>6. PICK l \in Nat : Len(toServer') = l /\ l = Len(toServer)  BY <1>1, <2>3
  <2>7. l + r + (IF c \in GotRead THEN 1 ELSE 0) <= Len(toServer) + Reset
    <3> DEFINE got == IF c \in GotRead THEN 1 ELSE 0
    <3>1. got \in Nat /\ r + got <= Reset /\ r \in Nat /\ Reset \in Nat  BY <1>1, <2>5
    <3> HIDE DEF got
    <3>2. l + r + got <= Len(toServer) + Reset  BY <1>1, <2>6, <3>1
    <3> QED  BY <3>2 DEF got
  <2>8. Cardinality(Queued') = Cardinality(Queued) - (IF c \in Written THEN 1 ELSE 0)
    BY <1>1, <2>2, <2>4
  <2> QED  BY <1>0, <2>1, <2>5, <2>6, <2>7, <2>8, PostedWork
<1>7. CASE S!KernelWrite
  <2>1. PICK o \in Queued, c \in ServerCqe, res \in {Error} \cup 1..PageUnits :
          /\ Queued' = Queued \ {o} /\ c.op = "write" /\ s_cq' = Append(s_cq, c)
          /\ ServerSend(res)
    BY <1>7, KernelWriteIs
  <2>2. Cardinality(Queued') = Cardinality(Queued) - 1 /\ Cardinality(Queued') \in Nat
    BY <1>1, <2>1, FS_RemoveElement, FS_CardinalityType
  <2>3. toServer' = toServer /\ Reset' \in 0..Reset
    <3>1. CASE link["server"] = "open"
      BY <1>0, <2>1, <3>1, ServerSendIs DEF Reset
    <3>2. CASE link["server"] # "open"
      <4>1. toServer' = toServer /\ link'["server"] \in {"fin", "dead"}
        BY <1>0, <2>1, <3>2, ServerSendIs
      <4>2. Reset' = 0  BY <4>1 DEF Reset
      <4> QED  BY <1>1, <4>1, <4>2
    <3> QED  BY <3>1, <3>2
  <2>4. c \in Written /\ c \notin GotRead  BY <2>1 DEF Written, GotRead
  <2>5. PICK l \in Nat, r \in 0..1 : /\ Len(toServer') = l /\ Reset' = r
                                    /\ l = Len(toServer) /\ r <= Reset
    BY <1>1, <2>3
  <2>6. l + r + (IF c \in GotRead THEN 1 ELSE 0) <= Len(toServer) + Reset
    BY <1>1, <2>4, <2>5
  <2>7. Cardinality(Queued') = Cardinality(Queued) - (IF c \in Written THEN 1 ELSE 0)
    BY <1>1, <2>2, <2>4
  <2> QED  BY <1>0, <2>1, <2>5, <2>6, <2>7, PostedWork
<1>8. ~S!HandleInvalid  BY DEF S!HandleInvalid, S!MayRefuse
<1>9. \/ (S!PostRead \/ S!SubmitReads \/ S!HandleEof) /\ UNCHANGED tcpVars
      \/ S!QueueExit /\ ServerClose
      \/ (S!HandleRead \/ S!HandleWrite) /\ UNCHANGED tcpVars
      \/ S!KernelRead \/ S!KernelReadEnd \/ S!KernelWrite
  BY <1>8, SameConnection
     DEF S!ServerStep, S!ServerThread, S!LocalStep, S!ServerKernel, S!tcpVars, tcpVars
<1> QED  BY <1>2, <1>3, <1>4, <1>5, <1>6, <1>7, <1>9

\* When the client closes, a reset stands for one request that was not sent yet.
LEMMA WorkClient ==
  ASSUME SidesOK, Conserved, PagesBack, WindowsOK, QueueOK, Up => UnitsOK,
         ClientStep, UNCHANGED serverSide
  PROVE  QueueOK' /\ (~Up' => WorkOK')
<1>0. Up /\ LinkOK /\ DataOK  BY ClientUp
<1>1. s_cq' = s_cq /\ Queued' = Queued  BY ServerSame
<1>2. QueueOK'  BY <1>1 DEF QueueOK
<1>3. ASSUME ~Up' PROVE WorkOK'
  <2>1. ClientClose
    BY <1>0, <1>3 DEF ClientStep, ClientThread, LocalStep, ClientKernel, PrepSend, EndSends, PrepRecv,
       Submit, Reap, EndReap, Fail, Exit, KernelSend, KernelRecv, KernelRecvEnd, threadVars, Up
  <2>2. PICK n \in 0..Len(toServer) : toServer' = SubSeq(toServer, 1, n)
    BY <2>1 DEF ClientClose
  <2>3. PICK l \in Nat : Len(toServer') = l /\ l <= Len(toServer)
    <3>1. toServer \in Seq(Int \X Int)  BY <1>0 DEF DataOK
    <3>2. Len(SubSeq(toServer, 1, n)) = n  BY <3>1, Cut
    <3> QED  BY <2>2, <3>1, <3>2
  <2>4. PICK r \in 0..1 : Reset' = r /\ (r = 1 => toClient > 0)
    <3>1. link' = [link EXCEPT !["client"] = "closed",
                               !["server"] = IF @ # "open" THEN @
                                             ELSE IF toClient > 0 THEN "rst" ELSE "fin"]
      BY <2>1 DEF ClientClose, Hangup
    <3>2. link'["server"] = IF toClient > 0 THEN "rst" ELSE "fin"
      BY <1>0, <3>1 DEF LinkOK, End
    <3> QED  BY <3>2 DEF Reset
  <2> DEFINE g == Cardinality(PlacesIn(s_cq, GotRead))
             q == Cardinality(Queued)
  <2>5. g \in Nat /\ q \in Nat /\ Len(toServer) \in Nat /\ Reset \in 0..1 /\ Window \in Nat
    BY <1>0, WorkTypes
  <2>6. /\ g + q + Len(toServer) + Reset <= Window
        /\ toClient > 0 => g + q + Len(toServer) + 1 <= Window
    BY <1>0, WorkInWindows DEF WorkOK
  <2>7. Cardinality(PlacesIn(s_cq', GotRead)) = g /\ Cardinality(Queued') = q  BY <1>1
  <2> HIDE DEF g, q
  <2>8. g + q + l + r <= Window  BY <2>3, <2>4, <2>5, <2>6
  <2> QED  BY <2>3, <2>4, <2>7, <2>8 DEF WorkOK
<1> QED  BY <1>2, <1>3

-----------------------------------------------------------------------------

\* What the kernel of the server has is a finite set.
LEMMA ServerInflight ==
  ASSUME IsFiniteSet(s_inflight), S!ServerStep
  PROVE  IsFiniteSet(s_inflight')
<1>1. ASSUME NEW o, NEW p PROVE IsFiniteSet(s_inflight \cup {o, p}) /\ IsFiniteSet(s_inflight \ {o})
  <2>1. IsFiniteSet(s_inflight \cup {o})  BY FS_AddElement
  <2>2. IsFiniteSet((s_inflight \cup {o}) \cup {p})  BY <2>1, FS_AddElement
  <2>3. s_inflight \cup {o, p} = (s_inflight \cup {o}) \cup {p}  OBVIOUS
  <2>4. s_inflight \ {o} \in SUBSET s_inflight  OBVIOUS
  <2>5. IsFiniteSet(s_inflight \ {o})  BY <2>4, FS_Subset
  <2>6. IsFiniteSet(s_inflight \cup {o, p})  BY <2>2, <2>3
  <2> QED  BY <2>5, <2>6
<1>2. \/ s_inflight' = s_inflight
      \/ \E o, p : s_inflight' = s_inflight \cup {o, p}
      \/ \E o : s_inflight' = s_inflight \ {o}
  <2>1. CASE S!PostRead
    <3>1. PICK a \in Addr : s_inflight' = s_inflight \cup {S!add_read_request(a)}
      BY <2>1 DEF S!PostRead
    <3>2. s_inflight' = s_inflight \cup {S!add_read_request(a), S!add_read_request(a)}  BY <3>1
    <3> QED  BY <3>2
  <2>2. CASE S!HandleRead
    <3>1. PICK a, b : s_inflight' = s_inflight \cup {S!add_write_request(a), S!add_read_request(b)}
      BY <2>2 DEF S!HandleRead, S!Answer
    <3> QED  BY <3>1
  <2>3. CASE S!SubmitReads \/ S!HandleEof \/ S!HandleWrite \/ S!HandleInvalid \/ S!QueueExit
    BY <2>3 DEF S!SubmitReads, S!HandleEof, S!HandleWrite, S!HandleInvalid, S!QueueExit, S!ringVars
  <2>4. CASE S!ServerKernel
    BY <2>4 DEF S!ServerKernel, S!KernelRead, S!KernelReadEnd, S!KernelWrite, S!Complete
  <2> QED  BY <2>1, <2>2, <2>3, <2>4 DEF S!ServerStep, S!ServerThread, S!LocalStep
<1>3. CASE s_inflight' = s_inflight  BY <1>3
<1>4. CASE \E o, p : s_inflight' = s_inflight \cup {o, p}
  <2>1. PICK o, p : s_inflight' = s_inflight \cup {o, p}  BY <1>4
  <2>2. IsFiniteSet(s_inflight \cup {o, p})  BY <1>1
  <2> QED  BY <2>1, <2>2
<1>5. CASE \E o : s_inflight' = s_inflight \ {o}
  <2>1. PICK o : s_inflight' = s_inflight \ {o}  BY <1>5
  <2>2. IsFiniteSet(s_inflight \ {o})  BY <1>1
  <2> QED  BY <2>1, <2>2
<1> QED  BY <1>2, <1>3, <1>4, <1>5

PairOK ==
  /\ IsFiniteSet(s_inflight)
  /\ SidesOK /\ Conserved /\ PagesBack /\ WindowsOK /\ QueueOK
  /\ Up => UnitsOK
  /\ ~Up => WorkOK

LEMMA PairInit == Init => PairOK
<1> SUFFICES ASSUME Init PROVE PairOK
  OBVIOUS
<1>1. SidesOK /\ Conserved  BY SidesInit, ConservedInit
<1>2. /\ pc \in {"send", "exit"} /\ (pc = "exit" => ~(NumRequests > 0))
      /\ send_index = 0 /\ recv_index = 0 /\ iterations_received = 0 /\ total_received = 0
      /\ toClient = 0 /\ sq = <<>> /\ cq = <<>> /\ inflight = {} /\ reaped = 0
      /\ write_req_num = 0 /\ s_cq = <<>> /\ s_inflight = {}
  BY DEF Init, ClientInit, S!ServerInit, TcpInit
<1>3. PageUnits \in Nat /\ NumRequests \in Nat  BY <1>1, Types
<1>4. PageUnits * 0 = 0 /\ 0 * PageUnits = 0  BY <1>3
<1>5. Asking = {} /\ Receiving = {}  BY <1>2 DEF Asking, Receiving, Outstanding, Range
<1>6. Queued = {}  BY <1>2 DEF Queued
<1>7. IsFiniteSet({}) /\ Cardinality({}) = 0  BY FS_EmptySet
<1>8. PagesBack  BY <1>2, <1>4 DEF PagesBack
<1>9. WindowsOK
  <2>1. 0 <= Half /\ 0 <= Quarter + 2 * Half  BY RingParts
  <2>2. pc = "exit" => 0 >= NumRequests  BY <1>2, <1>3
  <2> QED  BY <1>2, <1>5, <1>7, <2>1, <2>2 DEF WindowsOK
<1>10. QueueOK
  <2>1. \A p : Mixed(s_cq, GotRead, Written, p) = 0
    <3>1. \A p : MixedPlaces(<<>>, GotRead, Written, p) = {}  BY DEF MixedPlaces
    <3> QED  BY <1>2, <1>7, <3>1 DEF Mixed
  <2> QED  BY <1>6, <1>7, <2>1, RingParts DEF QueueOK
<1>11. UnitsOK
  <2>1. Unreaped = 0  BY <1>1, <1>2, NothingUnreaped DEF Conserved
  <2>2. Back = 0  BY <1>2, <2>1 DEF Back
  <2>3. Sent = 0  BY <1>2, <1>6, <1>7 DEF Sent
  <2> QED  BY <1>4, <2>2, <2>3 DEF UnitsOK
<1>12. Up  BY <1>2 DEF Up
<1> QED  BY <1>1, <1>2, <1>7, <1>8, <1>9, <1>10, <1>11, <1>12 DEF PairOK

LEMMA PairStep ==
  ASSUME RequestUnits = 1, PairOK, [Next]_vars
  PROVE  PairOK'
<1>1. /\ SidesOK /\ Conserved /\ PagesBack /\ WindowsOK /\ QueueOK
      /\ Up => UnitsOK
      /\ ~Up => WorkOK
      /\ IsFiniteSet(s_inflight)
  BY DEF PairOK
<1>2. SidesOK' /\ Conserved'  BY <1>1, SidesStep, ConservedStep
<1>3. CASE ClientStep /\ UNCHANGED serverSide
  <2>1. Up  BY <1>1, <1>3, ClientUp
  <2>2. PagesBack' /\ WindowsOK'  BY <1>1, <1>2, <1>3, <2>1, PagesBackClient, WindowsClient
  <2>3. Up' => UnitsOK'  BY <1>1, <1>2, <1>3, <2>1, UnitsClient
  <2>4. QueueOK' /\ (~Up' => WorkOK')  BY <1>1, <1>3, WorkClient
  <2>5. s_inflight' = s_inflight  BY <1>3 DEF serverSide
  <2> QED  BY <1>1, <1>2, <2>2, <2>3, <2>4, <2>5 DEF PairOK
<1>4. ASSUME UNCHANGED clientVars PROVE PagesBack' /\ WindowsOK' /\ Up' = Up
  BY <1>1, <1>4, ClientSame DEF PagesBack, WindowsOK, Up
<1>5. CASE S!ServerStep /\ UNCHANGED clientVars
  <2>1. PagesBack' /\ WindowsOK' /\ Up' = Up  BY <1>4, <1>5
  <2>2. Up' => UnitsOK'  BY <1>1, <1>5, <2>1, UnitsServer
  <2>3. WorkOK  BY <1>1, WorkInWindows
  <2>4. QueueOK' /\ WorkOK'  BY <1>1, <1>5, <2>3, WorkServer
  <2>5. IsFiniteSet(s_inflight')  BY <1>1, <1>5, ServerInflight
  <2> QED  BY <1>2, <2>1, <2>2, <2>4, <2>5 DEF PairOK
<1>6. CASE UNCHANGED vars
  <2>1. UNCHANGED clientVars /\ UNCHANGED serverSide /\ UNCHANGED tcpVars  BY <1>6 DEF vars
  <2>2. PagesBack' /\ WindowsOK' /\ Up' = Up  BY <1>4, <2>1
  <2>3. UNCHANGED <<Queued, s_cq, write_req_num, total_received, inflight, cq, toClient, toServer, link>>
    BY <2>1, ClientSame, ServerSame DEF tcpVars
  <2>4. UnitsOK => UnitsOK'  BY <2>3, UnreapedSame DEF UnitsOK, Back, Sent
  <2>5. QueueOK' /\ (WorkOK => WorkOK')  BY <1>1, <2>3 DEF QueueOK, WorkOK, Reset
  <2>6. s_inflight' = s_inflight  BY <2>1 DEF serverSide
  <2> QED  BY <1>1, <1>2, <2>2, <2>4, <2>5, <2>6 DEF PairOK
<1> QED  BY <1>3, <1>5, <1>6 DEF Next

(***************************************************************************)
(* No completion queue overflows (simple_iou_client.cpp reaps what is      *)
(* there without waiting, simple_iou_server.cpp queues an answer for each  *)
(* request it reads): the windows of the client bound both queues, for any *)
(* size of the ring, if request words are read whole.                      *)
(***************************************************************************)
THEOREM QueuesNeverOverflow ==
  ASSUME RequestUnits = 1
  PROVE  Spec => []CqNeverOverflows
<1>1. PairOK => CqNeverOverflows
  <2> SUFFICES ASSUME PairOK PROVE CqNeverOverflows
    OBVIOUS
  <2>0. /\ SidesOK /\ DataOK /\ LinkOK /\ WindowsOK /\ QueueOK /\ ServerFacts
    BY ServerHas DEF PairOK, Conserved
  <2>1. Len(cq) + reaped <= Quarter + 2 * Half
    <3>1. cq \in Seq(Cqe) /\ reaped \in Nat  BY <2>0, Types
    <3>2. DOMAIN cq = 1..Len(cq) /\ Len(cq) \in Nat  BY <3>1
    <3>3. IsFiniteSet(1..Len(cq)) /\ Cardinality(1..Len(cq)) = Len(cq)
      <4> DEFINE m == Len(cq)
      <4>1. m \in Nat  BY <3>2
      <4> HIDE DEF m
      <4>2. IsFiniteSet(1..m) /\ Cardinality(1..m) = m  BY <4>1, FS_Interval
      <4> QED  BY <4>2 DEF m
    <3> DEFINE f == [n \in 1..Len(cq) |-> cq[n].data]
               D == {f[n] : n \in 1..Len(cq)}
    <3>4. \A m, n \in 1..Len(cq) : f[m] = f[n] => m = n
      <4>1. Apart  BY <2>0 DEF SidesOK, ClientInv
      <4> QED  BY <3>2, <4>1 DEF Apart
    <3>5. D \subseteq Asking \cup Receiving
      <4>1. \A n \in DOMAIN cq : cq[n] \in Cqe  BY <3>1, ElementOfQueue
      <4>2. \A n \in DOMAIN cq : cq[n] \in Outstanding /\ cq[n].op \in {"send", "recv"}
        BY <4>1, OutstandingIs DEF Cqe
      <4> QED  BY <3>2, <4>2 DEF Asking, Receiving
    <3> HIDE DEF f
    <3>6. Cardinality(D) = Len(cq)  BY <3>3, <3>4, ImageSize
    <3> HIDE DEF D
    <3>7. /\ IsFiniteSet(Asking \cup Receiving)
          /\ Cardinality(Asking \cup Receiving) <= Cardinality(Asking) + Cardinality(Receiving)
      <4>1. IsFiniteSet(Asking) /\ IsFiniteSet(Receiving)  BY <2>0 DEF WindowsOK
      <4>2. /\ IsFiniteSet(Asking \cup Receiving)
            /\ Cardinality(Asking \cup Receiving)
                 = Cardinality(Asking) + Cardinality(Receiving) - Cardinality(Asking \cap Receiving)
        BY <4>1, FS_Union
      <4>3. IsFiniteSet(Asking \cap Receiving)
        <5>1. Asking \cap Receiving \in SUBSET Asking  OBVIOUS
        <5> QED  BY <4>1, <5>1, FS_Subset
      <4>4. Cardinality(Asking \cap Receiving) \in Nat /\ Cardinality(Asking) \in Nat
            /\ Cardinality(Receiving) \in Nat
        BY <4>1, <4>3, FS_CardinalityType
      <4> QED  BY <4>2, <4>4
    <3>8. Len(cq) <= Cardinality(Asking \cup Receiving)  BY <3>5, <3>6, <3>7, FS_Subset
    <3>9. Cardinality(Asking \cup Receiving) \in Nat  BY <3>7, FS_CardinalityType
    <3>10. reaped + Cardinality(Asking) + Cardinality(Receiving) <= Quarter + 2 * Half
      BY <2>0 DEF WindowsOK
    <3> QED  BY <2>0, <3>1, <3>2, <3>7, <3>8, <3>9, <3>10, WindowTypes
  <2>2. Len(s_cq) <= RingSize
    <3>0. s_cq \in Seq(ServerCqe)  BY <2>0 DEF ServerFacts
    <3>1. DOMAIN s_cq = 1..Len(s_cq) /\ Len(s_cq) \in Nat  BY <3>0
    <3>2. Cardinality(PlacesIn(s_cq, Written)) <= Window
      <4>1. 1 \in 1..(Len(s_cq) + 1)  BY <3>1
      <4>2. Mixed(s_cq, GotRead, Written, 1) + Cardinality(Queued) <= Window
        BY <2>0, <4>1 DEF QueueOK
      <4>3. Mixed(s_cq, GotRead, Written, 1) = Cardinality(PlacesIn(s_cq, Written))
        BY <3>0, MixedEnds
      <4> QED  BY <2>0, <4>2, <4>3, WorkTypes
    <3>3. Cardinality(PlacesIn(s_cq, Reads)) <= Quarter
      <4>1. CASE s_pc = "start"
        <5>1. s_cq = <<>>  BY <2>0, <4>1 DEF ServerFacts, SP!RingOK
        <5>2. Cardinality(PlacesIn(s_cq, Reads)) = 0  BY <3>0, <5>1, PlacesFinite
        <5> QED  BY <5>2, RingParts
      <4>2. CASE s_pc # "start"
        <5> DEFINE P == PlacesIn(s_cq, Reads)
                   f == [n \in P |-> S!OpOf(s_cq[n])]
                   D == {f[n] : n \in P}
        <5>1. SP!Cardinality(SP!ReadsOutstanding) = RingSize \div 4
          BY <2>0, <4>2 DEF ServerFacts, SP!ReadsOK
        <5>2. Cardinality(SP!ReadsOutstanding) = Quarter  BY <5>1, SameSets DEF Quarter
        <5>3. \A n \in P : /\ s_cq[n] \in ServerCqe /\ s_cq[n].op = "read"
                           /\ f[n] = [op |-> s_cq[n].op, data |-> s_cq[n].data]
          BY DEF PlacesIn, Reads, S!OpOf
        <5>4. IsFiniteSet(P)  BY <3>0, PlacesFinite
        <5>5. \A m, n \in P : f[m] = f[n] => m = n
          <6>1. \A m, n \in DOMAIN s_cq : s_cq[m].data = s_cq[n].data => m = n
            BY <2>0 DEF ServerFacts, SP!Apart
          <6>2. P \subseteq DOMAIN s_cq  BY DEF PlacesIn
          <6>3. \A n \in P : f[n].data = s_cq[n].data
            <7> SUFFICES ASSUME NEW n \in P PROVE f[n].data = s_cq[n].data
              OBVIOUS
            <7>1. f[n] = [op |-> s_cq[n].op, data |-> s_cq[n].data]  BY <5>3
            <7> HIDE DEF f, P
            <7> QED  BY <7>1
          <6> HIDE DEF f, P
          <6> QED  BY <6>1, <6>2, <6>3
        <5>6. \A o : o \in SP!ReadsOutstanding <=>
                 (o \in s_inflight \/ \E n \in DOMAIN s_cq : o = S!OpOf(s_cq[n])) /\ o.op = "read"
          <6>1. \A c : SP!OpOf(c) = S!OpOf(c)  BY DEF SP!OpOf, S!OpOf
          <6> HIDE DEF f, P
          <6>2. SP!Outstanding = s_inflight \cup {SP!OpOf(s_cq[n]) : n \in DOMAIN s_cq}
            BY SP!OutstandingIs, ServerAssumptions
          <6>3. \A o : o \in SP!Outstanding <=>
                   (o \in s_inflight \/ \E n \in DOMAIN s_cq : o = SP!OpOf(s_cq[n]))
            BY <6>2
          <6>4. \A o : o \in SP!ReadsOutstanding <=> o \in SP!Outstanding /\ o.op = "read"
            BY DEF SP!ReadsOutstanding
          <6> QED  BY <6>1, <6>3, <6>4
        <5>7. D \subseteq SP!ReadsOutstanding
          <6>1. \A n \in P : n \in DOMAIN s_cq /\ f[n] = S!OpOf(s_cq[n]) /\ f[n].op = "read"
            BY <5>3 DEF PlacesIn
          <6> HIDE DEF f, P
          <6> QED  BY <5>6, <6>1
        <5>8. SP!ReadsOutstanding \subseteq s_inflight \cup D
          <6> SUFFICES ASSUME NEW n \in DOMAIN s_cq, S!OpOf(s_cq[n]).op = "read"
                       PROVE  S!OpOf(s_cq[n]) \in D
            BY <5>6
          <6>1. s_cq[n] \in ServerCqe /\ s_cq[n].op = "read"
            BY <3>0, ElementOfQueue DEF S!OpOf
          <6>2. n \in P  BY <6>1 DEF PlacesIn, Reads
          <6> QED  BY <6>2
        <5> HIDE DEF f
        <5>9. IsFiniteSet(D) /\ Cardinality(D) = Cardinality(P)  BY <5>4, <5>5, ImageSize
        <5> HIDE DEF D, P
        <5>10. IsFiniteSet(s_inflight \cup D)  BY <5>9, FS_Union DEF PairOK
        <5>11. IsFiniteSet(SP!ReadsOutstanding)  BY <5>8, <5>10, FS_Subset
        <5>12. Cardinality(D) <= Cardinality(SP!ReadsOutstanding)  BY <5>7, <5>11, FS_Subset
        <5> QED  BY <5>2, <5>9, <5>12 DEF P
      <4> QED  BY <4>1, <4>2
    <3>4. Len(s_cq) <= Cardinality(PlacesIn(s_cq, Reads)) + Cardinality(PlacesIn(s_cq, Written))
      <4> DEFINE A == PlacesIn(s_cq, Reads)
                 B == PlacesIn(s_cq, Written)
      <4>1. \A n \in DOMAIN s_cq : s_cq[n] \in Reads \/ s_cq[n] \in Written
        <5>1. \A n \in DOMAIN s_cq : s_cq[n] \in ServerCqe  BY <3>0, ElementOfQueue
        <5> QED  BY <5>1 DEF Reads, Written, ServerCqe
      <4>2. A \cup B = 1..Len(s_cq) /\ A \cap B \in SUBSET A  BY <3>1, <4>1 DEF PlacesIn
      <4>3. IsFiniteSet(A) /\ IsFiniteSet(B) /\ Cardinality(A) \in Nat /\ Cardinality(B) \in Nat
        BY <3>0, PlacesFinite
      <4> HIDE DEF A, B
      <4>4. Cardinality(A \cup B) = Cardinality(A) + Cardinality(B) - Cardinality(A \cap B)
        BY <4>3, FS_Union
      <4>5. Cardinality(A \cap B) \in Nat  BY <4>2, <4>3, FS_Subset, FS_CardinalityType
      <4>6. Cardinality(1..Len(s_cq)) = Len(s_cq)
        <5> DEFINE m == Len(s_cq)
        <5>1. m \in Nat  BY <3>1
        <5> HIDE DEF m
        <5>2. Cardinality(1..m) = m  BY <5>1, FS_Interval
        <5> QED  BY <5>2 DEF m
      <4>7. Len(s_cq) = Cardinality(A) + Cardinality(B) - Cardinality(A \cap B)
        BY <4>2, <4>4, <4>6
      <4>8. Len(s_cq) <= Cardinality(A) + Cardinality(B)
        <5> DEFINE x == Cardinality(A \cap B)
        <5> HIDE DEF x
        <5> QED  BY <4>3, <4>5, <4>7 DEF x
      <4> QED  BY <4>8 DEF A, B
    <3>5. Cardinality(PlacesIn(s_cq, Reads)) \in Nat /\ Cardinality(PlacesIn(s_cq, Written)) \in Nat
      BY <3>0, PlacesFinite
    <3> QED  BY <3>1, <3>2, <3>3, <3>4, <3>5, RingParts, ClientAssumption DEF Window
  <2> QED  BY <2>1, <2>2 DEF CqNeverOverflows, Quarter, Half
<1> QED  BY <1>1, PairInit, PairStep, PTL DEF Spec

\* The units that the exchange counts as sent back.
Answered == total_received + IF pc = "closed" THEN 0 ELSE Unreaped + toClient

LEMMA AnsweredIs ==
  ASSUME SidesOK, DataOK
  PROVE  /\ Answered \in Int /\ Back \in Int
         /\ Up => Answered = Back
         /\ ~Up => Answered = total_received
<1>1. total_received \in Nat /\ Unreaped \in Int /\ toClient \in Nat
  BY Types, UnreapedNow DEF DataOK
<1> QED  BY <1>1 DEF Answered, Back, Up

LEMMA AnsweredNext ==
  ASSUME SidesOK', DataOK'
  PROVE  /\ Up' => Answered' = Back'
         /\ ~Up' => Answered' = total_received'
<1>1. total_received' \in Nat  BY DEF SidesOK, ClientInv, RingOK
<1>2. toClient' \in Nat  BY DEF DataOK
<1>3. Unreaped' \in Int
  <2>1. inflight' \in SUBSET Op /\ IsFiniteSet(inflight') /\ cq' \in Seq(Cqe)
    BY DEF SidesOK, ClientInv, RingOK, DataOK
  <2>2. Sum(Gots, inflight') \in Nat /\ Worth(cq', Units) \in Int  BY <2>1, UnreapedIs
  <2> QED  BY <2>2, UnreapedNext
<1>4. Up' => Answered' = total_received' + (Unreaped' + toClient')  BY DEF Answered, Up
<1>5. ~Up' => Answered' = total_received' + 0  BY DEF Answered, Up
<1>6. ASSUME NEW t \in Nat, NEW u \in Int, NEW c \in Nat
      PROVE  t + (u + c) = t + u + c /\ t + 0 = t
  OBVIOUS
<1>7. PICK t \in Nat, u \in Int, c \in Nat : total_received' = t /\ Unreaped' = u /\ toClient' = c
  BY <1>1, <1>2, <1>3
<1> QED  BY <1>4, <1>5, <1>6, <1>7 DEF Back

\* The exchange that the pair implements, spelled out.
Asks == /\ Up /\ send_index < NumRequests
        /\ send_index * PageUnits < total_received + Window * PageUnits
        /\ send_index' = send_index + 1
        /\ UNCHANGED <<Answered, total_received, pc>>
Answers == /\ Up /\ Answered' \in (Answered + 1)..(send_index * PageUnits)
           /\ UNCHANGED <<send_index, total_received, pc>>
Receives == /\ Up /\ total_received' \in (total_received + 1)..Answered
            /\ UNCHANGED <<send_index, Answered, pc>>
Finishes == /\ Up /\ send_index = NumRequests
            /\ total_received + Half * PageUnits >= NumRequests * PageUnits
            /\ pc' = "closed" /\ Answered' = total_received
            /\ UNCHANGED <<send_index, total_received>>
Keeps == UNCHANGED <<send_index, Answered, total_received>> /\ Up' = Up

LEMMA ExchangeIs ==
  /\ send_index = 0 /\ total_received = 0 /\ Answered = 0 /\ Up => Exchange!ExchangeInit
  /\ Asks \/ Answers \/ Receives \/ Finishes \/ Keeps
       => [Exchange!ExchangeNext]_(Exchange!exchangeVars)
<1>1. Asks => Exchange!Ask
  BY DEF Asks, Exchange!Ask, Answered, Up, Window, Quarter, Half
<1>2. Answers => Exchange!AnswerUnits
  BY DEF Answers, Exchange!AnswerUnits, Answered, Up
<1>3. Receives => Exchange!Receive
  BY DEF Receives, Exchange!Receive, Answered, Up
<1>4. Finishes => Exchange!Finish
  BY DEF Finishes, Exchange!Finish, Answered, Up, Half
<1>5. Keeps => UNCHANGED Exchange!exchangeVars
  BY DEF Keeps, Exchange!exchangeVars, Answered, Up
<1>6. send_index = 0 /\ total_received = 0 /\ Answered = 0 /\ Up => Exchange!ExchangeInit
  BY DEF Exchange!ExchangeInit, Answered, Up
<1> QED  BY <1>1, <1>2, <1>3, <1>4, <1>5, <1>6 DEF Exchange!ExchangeNext

\* A window of pages, in units.
LEMMA WindowInUnits ==
  ASSUME NEW p \in Nat \ {0}, NEW a \in Nat, NEW w \in Nat, NEW i \in Nat
  PROVE  /\ a < w + i => a * p < p * i + w * p
         /\ a <= w + i => a * p <= p * i + w * p
<1>1. PICK d \in Int : d = w + i - a  OBVIOUS
<1>2. w = d + a - i  BY <1>1
<1>3. p * i + w * p = p * i + (d + a - i) * p  BY <1>2
<1>4. p * i + (d + a - i) * p = d * p + a * p  BY <1>1
<1>5. d > 0 => d * p > 0  BY <1>1
<1>6. d >= 0 => d * p >= 0  BY <1>1
<1>7. a * p \in Int /\ d * p \in Int  BY <1>1
<1> QED  BY <1>1, <1>3, <1>4, <1>5, <1>6, <1>7

LEMMA ClientExchanges ==
  ASSUME RequestUnits = 1, PairOK, PairOK', ClientStep, UNCHANGED serverSide
  PROVE  Asks \/ Receives \/ Finishes \/ Keeps
<1>0. /\ SidesOK /\ SidesOK' /\ Conserved /\ Conserved' /\ WindowsOK /\ PagesBack
      /\ DataOK /\ DataOK' /\ ResultsOK /\ Up /\ UnitsOK /\ LinkOK
      /\ ~Fail /\ ~KernelRecvEnd
  BY ClientUp DEF PairOK, Conserved
<1>1. /\ PageUnits \in Nat \ {0} /\ total_received \in Nat /\ iterations_received \in Nat
      /\ send_index \in Nat /\ NumRequests \in Nat /\ send_index <= NumRequests
  BY <1>0, Types
<1>2. ~Exit => Back' = Back  BY <1>0, BackKept
<1>3. Exit \/ (Up' /\ Answered' = Answered)
  <2>1. ~Exit => Up'
    BY <1>0 DEF ClientStep, ClientThread, LocalStep, ClientKernel, PrepSend, EndSends, PrepRecv,
       Submit, Reap, EndReap, KernelSend, KernelRecv, threadVars, Up
  <2> QED  BY <1>0, <1>2, <2>1, AnsweredIs, AnsweredNext
<1>4. CASE PrepSend
  <2>1. /\ pc' = pc /\ total_received' = total_received /\ send_index' = send_index + 1
        /\ send_index < NumRequests /\ send_index - recv_index < Quarter
    BY <1>4 DEF PrepSend, MaySend, Quarter
  <2>2. send_index < Window + iterations_received
    BY <1>0, <2>1, WindowTypes DEF WindowsOK, Window
  <2>3. send_index * PageUnits < PageUnits * iterations_received + Window * PageUnits
    BY <1>1, <2>2, WindowInUnits, RingParts
  <2>4. ~Exit  BY <1>4 DEF PrepSend, Exit
  <2> QED  BY <1>0, <1>3, <2>1, <2>3, <2>4 DEF Asks, PagesBack
<1>5. CASE Exit
  <2>1. /\ pc = "exit" /\ pc' = "closed" /\ UNCHANGED <<send_index, total_received>>
    BY <1>5 DEF Exit
  <2>2. send_index = NumRequests  BY <1>0, <1>1, <2>1 DEF WindowsOK
  <2>3. total_received + Half * PageUnits >= NumRequests * PageUnits
    <3>1. Half \in Nat /\ Half * PageUnits \in Nat /\ NumRequests * PageUnits \in Nat
      BY <1>1, RingParts
    <3>2. CASE total_received >= NumRequests * PageUnits  BY <1>1, <3>1, <3>2
    <3>3. CASE recv_index >= NumRequests
      <4>1. NumRequests <= Half + iterations_received
        BY <1>0, <1>1, <3>3, WindowTypes DEF WindowsOK
      <4>2. NumRequests * PageUnits <= PageUnits * iterations_received + Half * PageUnits
        BY <1>1, <3>1, <4>1, WindowInUnits
      <4> QED  BY <1>0, <1>1, <3>1, <4>2 DEF PagesBack
    <3> QED  BY <1>0, <2>1, <3>2, <3>3 DEF WindowsOK
  <2>4. Answered' = total_received
    BY <1>0, <2>1, AnsweredNext DEF Up
  <2> QED  BY <1>0, <2>1, <2>2, <2>3, <2>4 DEF Finishes
<1>6. CASE Reap
  <2>0. ~Exit /\ pc' = pc /\ send_index' = send_index  BY <1>6 DEF Reap, Exit
  <2>1. Up' /\ Answered' = Answered  BY <1>3, <2>0
  <2>2. CASE Head(cq).op = "send"
    BY <1>0, <1>6, <2>0, <2>1, <2>2, ReapIs DEF Keeps
  <2>3. CASE Head(cq).op = "recv"
    <3>1. total_received' = total_received + Head(cq).res  BY <1>0, <1>6, <2>3, ReapIs
    <3>2. Head(cq).res = PageUnits
      <4>1. cq # <<>>  BY <1>6 DEF Reap
      <4>2. Head(cq) = cq[1] /\ 1 \in DOMAIN cq  BY <1>0, <4>1, Types, QueueHead
      <4> QED  BY <1>0, <2>3, <4>2 DEF ResultsOK
    <3>3. PICK u \in Nat, c \in Nat : Unreaped' = u /\ toClient' = c
      <4>1. SidesOK' /\ DataOK' /\ ResultsOK'  BY <1>0, <2>1 DEF Conserved
      <4>2. Unreaped' \in Nat  BY <4>1, UnreapedIsNat
      <4>3. toClient' \in Nat  BY <1>0 DEF DataOK
      <4> QED  BY <4>2, <4>3
    <3> DEFINE t == total_received + PageUnits
    <3>4. total_received' = t /\ t \in Nat /\ total_received + 1 <= t  BY <1>1, <3>1, <3>2
    <3> HIDE DEF t
    <3>5. Answered' = t + u + c  BY <1>0, <2>1, <3>3, <3>4, AnsweredNext DEF Back
    <3>6. Answered = t + u + c  BY <2>1, <3>5
    <3>7. t \in (total_received + 1)..Answered  BY <1>1, <3>3, <3>4, <3>6
    <3> QED  BY <1>0, <2>0, <2>1, <3>4, <3>7 DEF Receives
  <2> QED  BY <1>0, <1>6, <2>2, <2>3, ReapIs
<1>7. CASE ~PrepSend /\ ~Exit /\ ~Reap
  <2>1. UNCHANGED <<send_index, total_received>>
    BY <1>0, <1>7 DEF ClientStep, ClientThread, LocalStep, ClientKernel, EndSends, PrepRecv,
       Submit, EndReap, KernelSend, KernelRecv, threadVars
  <2> QED  BY <1>0, <1>3, <1>7, <2>1 DEF Keeps
<1> QED  BY <1>4, <1>5, <1>6, <1>7

LEMMA ServerExchanges ==
  ASSUME RequestUnits = 1, PairOK, PairOK', S!ServerStep, UNCHANGED clientVars
  PROVE  Answers \/ Keeps
<1>0. /\ SidesOK /\ SidesOK' /\ Conserved /\ Conserved' /\ PagesBack /\ DataOK /\ DataOK' /\ LinkOK
      /\ Up => UnitsOK
      /\ Up' => UnitsOK'
  BY DEF PairOK, Conserved
<1>1. UNCHANGED <<pc, send_index, total_received, inflight, cq>> /\ Up' = Up  BY ClientSame DEF Up
<1>2. CASE ~Up
  <2>1. Answered' = Answered  BY <1>0, <1>1, <1>2, AnsweredIs, AnsweredNext
  <2> QED  BY <1>1, <2>1 DEF Keeps
<1>3. CASE Up /\ toClient' = toClient
  <2>1. Answered' = Answered  BY <1>1, <1>3, UnreapedSame DEF Answered
  <2> QED  BY <1>1, <2>1 DEF Keeps
<1>4. CASE Up /\ S!KernelWrite
  <2>0. /\ PageUnits \in Nat \ {0} /\ total_received \in Nat /\ send_index \in Nat
        /\ Unreaped \in Int /\ toClient \in Nat /\ write_req_num \in Nat
        /\ Cardinality(Queued) \in Nat /\ IsFiniteSet(Queued)
    BY <1>0, Types, UnreapedNow, FS_CardinalityType DEF DataOK
  <2>1. PICK o \in Queued, c \in ServerCqe, res \in {Error} \cup 1..PageUnits :
          Queued' = Queued \ {o} /\ ServerSend(res)
    BY <1>0, <1>4, KernelWriteIs
  <2>2. toClient' = toClient + res /\ res \in 1..PageUnits
    <3>1. link["server"] = "open"  BY <1>0, <1>4 DEF LinkOK, End
    <3> QED  BY <1>0, <2>1, <3>1, ServerSendIs
  <2>3. Cardinality(Queued') = Cardinality(Queued) - 1 /\ Cardinality(Queued) >= 1
    <3>1. Cardinality(Queued') = Cardinality(Queued) - 1  BY <2>0, <2>1, FS_RemoveElement
    <3>2. Cardinality(Queued') \in Nat  BY <2>0, <2>1, FS_RemoveElement, FS_CardinalityType
    <3> QED  BY <2>0, <3>1, <3>2
  <2>4. write_req_num' = write_req_num  BY <1>4 DEF S!KernelWrite
  <2>5. PICK s \in Int : Sent' = s /\ s = Sent + 1 /\ s <= write_req_num
    BY <2>0, <2>3, <2>4 DEF Sent
  <2>6. s <= send_index
    <3>1. write_req_num <= send_index  BY <1>0, <1>4, ReceivedIsSent DEF PairOK
    <3> QED  BY <2>0, <2>5, <3>1
  <2>7. PICK b \in Int : Answered' = b /\ b = Answered + res
    <3>1. Answered = total_received + (Unreaped + toClient)  BY <1>4 DEF Answered, Up
    <3>2. Answered' = total_received + (Unreaped + (toClient + res))
      <4>1. Unreaped' = Unreaped  BY <1>1, UnreapedSame
      <4> QED  BY <1>1, <1>4, <2>2, <4>1 DEF Answered, Up
    <3> QED  BY <2>0, <2>2, <3>1, <3>2
  <2>8. b <= PageUnits * s
    <3>1. Back' <= PageUnits * Sent'  BY <1>0, <1>1, <1>4 DEF UnitsOK
    <3>2. Answered' = Back'  BY <1>0, <1>1, <1>4, AnsweredNext
    <3> QED  BY <2>5, <2>7, <3>1, <3>2
  <2>9. PageUnits * s <= send_index * PageUnits
    <3>1. \A p \in Nat, x, y \in Int : x <= y => p * x <= y * p
      <4>1. \A p \in Nat, d \in Nat : p * d >= 0  OBVIOUS
      <4>2. ASSUME NEW p \in Nat, NEW x \in Int, NEW y \in Int, x <= y PROVE p * x <= y * p
        <5>1. PICK d \in Nat : y = x + d
          <6>1. y - x \in Nat /\ y = x + (y - x)  BY <4>2
          <6> QED  BY <6>1
        <5>2. y * p = p * x + p * d  BY <4>2, <5>1
        <5>3. p * d \in Nat /\ p * x \in Int  BY <4>1, <4>2, <5>1
        <5> QED  BY <5>2, <5>3
      <4> QED  BY <4>2
    <3> QED  BY <2>0, <2>6, <3>1
  <2>10. b \in (Answered + 1)..(send_index * PageUnits)
    <3>1. Answered \in Int  BY <1>0, AnsweredIs
    <3>2. PageUnits * s \in Int /\ send_index * PageUnits \in Int  BY <2>0
    <3> QED  BY <2>2, <2>7, <2>8, <2>9, <3>1, <3>2
  <2> QED  BY <1>1, <1>4, <2>7, <2>10 DEF Answers
<1>5. ASSUME Up, ~S!KernelWrite PROVE toClient' = toClient
  <2>1. ~((S!HandleEof /\ UNCHANGED tcpVars) \/ (S!QueueExit /\ ServerClose) \/ S!KernelReadEnd)
    BY <1>0, <1>5, ConservedEof
  <2>2. ~S!HandleInvalid  BY DEF S!HandleInvalid, S!MayRefuse
  <2>3. S!KernelRead => toClient' = toClient  BY DEF S!KernelRead, S!ServerRead
  <2> QED
    BY <1>5, <2>1, <2>2, <2>3, SameConnection
       DEF S!ServerStep, S!ServerThread, S!LocalStep, S!ServerKernel, S!tcpVars, tcpVars
<1> QED  BY <1>2, <1>3, <1>4, <1>5

(***************************************************************************)
(* The pair exchanges pages as PageExchange promises (simple_iou_client    *)
(* .cpp send_receive_data, simple_iou_server.cpp event_loop): never more   *)
(* pages in flight than the windows allow, never more units sent back than *)
(* asked for, and an end that gives up at most on a receive window.  For   *)
(* any size of the ring, if request words are read whole.                  *)
(***************************************************************************)
THEOREM PairExchangesPages ==
  ASSUME RequestUnits = 1
  PROVE  Spec => ExchangesPages
<1>1. Init => Exchange!ExchangeInit
  <2> SUFFICES ASSUME Init PROVE Exchange!ExchangeInit
    OBVIOUS
  <2>1. PairOK  BY PairInit
  <2>2. send_index = 0 /\ total_received = 0 /\ pc # "closed" /\ toClient = 0 /\ write_req_num = 0
        /\ cq = <<>> /\ inflight = {}
    BY DEF Init, ClientInit, S!ServerInit, TcpInit
  <2>3. Unreaped = 0  BY <2>1, <2>2, NothingUnreaped DEF PairOK, Conserved
  <2>4. Answered = 0 /\ Up  BY <2>2, <2>3 DEF Answered, Up
  <2> QED  BY <2>2, <2>4, ExchangeIs
<1>2. PairOK /\ PairOK' /\ [Next]_vars => [Exchange!ExchangeNext]_(Exchange!exchangeVars)
  <2> SUFFICES ASSUME PairOK, PairOK', [Next]_vars
               PROVE  Asks \/ Answers \/ Receives \/ Finishes \/ Keeps
    BY ExchangeIs
  <2>1. CASE UNCHANGED vars
    <3>1. UNCHANGED clientVars /\ toClient' = toClient  BY <2>1 DEF vars, tcpVars
    <3>2. UNCHANGED <<send_index, total_received, pc, inflight, cq>>  BY <3>1, ClientSame
    <3>3. Answered' = Answered  BY <3>1, <3>2, UnreapedSame DEF Answered
    <3> QED  BY <3>2, <3>3 DEF Keeps, Up
  <2> QED  BY <2>1, ClientExchanges, ServerExchanges DEF Next
<1>3. PairOK /\ [Next]_vars => PairOK'  BY PairStep
<1> QED
  BY <1>1, <1>2, <1>3, PairInit, PTL DEF Spec, ExchangesPages, Exchange!ExchangeSpec
=============================================================================
