----------------------------- MODULE SimpleClient -----------------------------
(***************************************************************************)
(* send_receive_data of src/simple_iou_client.cpp: one client thread, its  *)
(* io_uring and its BufferPool.  The thread fills the submission queue in  *)
(* two loops (a send of a page number, a recv of a page), submits, reaps   *)
(* the completions that are there, without waiting, and starts over.  The  *)
(* kernel executes submitted operations in any order.                      *)
(*                                                                         *)
(* An operation names its buffer only (user_data); what the thread knows   *)
(* of it, event_type, is read back from that buffer.  VERIFY is 0.         *)
(***************************************************************************)
EXTENDS Tcp, BufferPool, FiniteSets

CONSTANTS
  RingSize,     \* RING_SIZE
  StartIndex,   \* start_index, the first page of this thread's range
  NumRequests   \* num_requests = end_index - start_index

\* Below 4 the windows RING_SIZE / 4 and RING_SIZE / 2 are empty or never open.
ASSUME ClientAssumption == /\ RingSize \in Nat /\ RingSize >= 4
                           /\ StartIndex \in Nat
                           /\ NumRequests \in Nat
                           /\ {"req", "page"} \subseteq Sizes

VARIABLES
  pc,                   \* where the thread is
  send_index,           \* requests prepared
  recv_index,           \* receives prepared
  iterations_received,  \* receives reaped
  total_received,       \* units received by the reaped receives
  mem,                  \* mem[a]: event_type and buffer[0] of the RequestData at a
  sq,                   \* operations prepared and not yet submitted
  inflight,             \* operations the kernel has, with the units they got
  cq,                   \* completions posted and not yet looked at
  reaped                \* completions looked at, before io_uring_cq_advance

threadVars == <<pc, send_index, recv_index, iterations_received, total_received>>
ringVars == <<sq, inflight, cq, reaped>>
clientVars == <<threadVars, mem, ringVars, poolVars>>

Page == StartIndex..(StartIndex + NumRequests - 1)
NoPage == -1
SizeOf == [send |-> "req", recv |-> "page"]
Word(page) == [i \in 1..RequestUnits |-> <<page, i>>]

\* What a block holds that is not in use is not modelled.
Blank == [event_type |-> "none", page |-> NoPage]

Op == [op : {"send", "recv"}, data : Addr, got : 0..PageUnits]
Cqe == [op : {"send", "recv"}, data : Addr, res : {Error} \cup (0..(PageUnits + RequestUnits))]

\* What the kernel holds a pointer to, from io_uring_get_sqe to io_uring_cqe_get_data.
Outstanding == Range(sq) \cup inflight \cup Range(cq)
Running == pc \in {"send", "recv", "reap", "exit"}

ClientTypeOK ==
  /\ PoolTypeOK
  /\ pc \in {"send", "recv", "reap", "exit", "closed", "failed"}
  /\ send_index \in 0..NumRequests
  /\ recv_index \in 0..NumRequests
  /\ iterations_received \in Nat
  /\ total_received \in Nat
  /\ mem \in [Addr -> [event_type : {"none", "send", "recv"}, page : Page \cup {NoPage}]]
  /\ sq \in Seq(Op)
  /\ inflight \subseteq Op
  /\ cq \in Seq(Cqe)
  /\ reaped \in Nat

ClientInit ==
  /\ PoolInit
  /\ pc = IF NumRequests > 0 THEN "send" ELSE "exit"
  /\ send_index = 0 /\ recv_index = 0
  /\ iterations_received = 0 /\ total_received = 0
  /\ mem = [a \in Addr |-> Blank]
  /\ sq = <<>> /\ inflight = {} /\ cq = <<>> /\ reaped = 0

-----------------------------------------------------------------------------

(***************************************************************************)
(* The two submission loops.  The code does not look whether               *)
(* io_uring_get_sqe returned null: SqeAvailable, below, is what it counts  *)
(* on, so the actions have no guard for it either.                         *)
(***************************************************************************)
MaySendUnbounded == send_index < NumRequests            \* mutant: no window
MaySend == send_index < NumRequests /\ send_index - recv_index < RingSize \div 4

MayRecvAhead == recv_index < NumRequests                \* mutant: no window
MayRecv == recv_index < send_index
           /\ recv_index - iterations_received < RingSize \div 2

\* Allocate and fill a RequestData, and queue the operation on it.
Prepare(op, page) ==
  \E a \in Addr :
    /\ Allocate(SizeOf[op], a)
    /\ mem' = [mem EXCEPT ![a] = [event_type |-> op, page |-> page]]
    /\ sq' = Append(sq, [op |-> op, data |-> a, got |-> 0])

PrepSendByReceived ==                   \* mutant: the wrong counter names the page
  /\ pc = "send" /\ MaySend
  /\ Prepare("send", StartIndex + iterations_received)
  /\ send_index' = send_index + 1
  /\ UNCHANGED <<pc, recv_index, iterations_received, total_received, inflight, cq, reaped>>

PrepSendTooLate ==                      \* mutant: send_index++ comes first
  /\ pc = "send" /\ MaySend
  /\ Prepare("send", StartIndex + send_index + 1)
  /\ send_index' = send_index + 1
  /\ UNCHANGED <<pc, recv_index, iterations_received, total_received, inflight, cq, reaped>>

PrepSend ==
  /\ pc = "send" /\ MaySend
  /\ Prepare("send", StartIndex + send_index)
  /\ send_index' = send_index + 1
  /\ UNCHANGED <<pc, recv_index, iterations_received, total_received, inflight, cq, reaped>>

EndSends ==
  /\ pc = "send" /\ ~MaySend
  /\ pc' = "recv"
  /\ UNCHANGED <<send_index, recv_index, iterations_received, total_received,
                 mem, ringVars, poolVars>>

PrepRecv ==
  /\ pc = "recv" /\ MayRecv
  /\ Prepare("recv", NoPage)
  /\ recv_index' = recv_index + 1
  /\ UNCHANGED <<pc, send_index, iterations_received, total_received, inflight, cq, reaped>>

\* A pass that prepared nothing does not call io_uring_submit.
SubmitForgetsQueue ==                   \* mutant: io_uring_submit leaves the queue
  /\ pc = "recv" /\ ~MayRecv
  /\ inflight' = inflight \cup Range(sq)
  /\ pc' = "reap"
  /\ UNCHANGED <<send_index, recv_index, iterations_received, total_received,
                 mem, sq, cq, reaped, poolVars>>

Submit ==
  /\ pc = "recv" /\ ~MayRecv
  /\ inflight' = inflight \cup Range(sq)
  /\ sq' = <<>>
  /\ pc' = "reap"
  /\ UNCHANGED <<send_index, recv_index, iterations_received, total_received,
                 mem, cq, reaped, poolVars>>

-----------------------------------------------------------------------------

(***************************************************************************)
(* The reap loop reads the tail of the completion queue again at each      *)
(* step, and advances the head only when it found the queue empty.         *)
(***************************************************************************)
\* The buffer of a completion says what was completed.
TypeOf(c) == mem[c.data].event_type

CountNonEmpty(c) ==                     \* mutant: end of file is no iteration
  IF TypeOf(c) = "recv" /\ c.res > 0
  THEN /\ iterations_received' = iterations_received + 1
       /\ total_received' = total_received + c.res
  ELSE UNCHANGED <<iterations_received, total_received>>

Count(c) ==
  IF TypeOf(c) = "recv"
  THEN /\ iterations_received' = iterations_received + 1
       /\ total_received' = total_received + c.res
  ELSE UNCHANGED <<iterations_received, total_received>>

GiveBackAsRequest(c) == Deallocate(c.data, "req")   \* mutant: whatever it was
GiveBack(c) == Deallocate(c.data, SizeOf[TypeOf(c)])

Reap ==
  /\ pc = "reap" /\ cq # <<>> /\ Head(cq).res >= 0
  /\ Count(Head(cq))
  /\ GiveBack(Head(cq))
  /\ mem' = [mem EXCEPT ![Head(cq).data] = Blank]
  /\ cq' = Tail(cq)
  /\ reaped' = reaped + 1
  /\ UNCHANGED <<pc, send_index, recv_index, sq, inflight>>

\* exit(EXIT_FAILURE): the process goes, with every thread of it.
Fail ==
  /\ pc = "reap" /\ cq # <<>> /\ Head(cq).res < 0
  /\ pc' = "failed"
  /\ ClientClose
  /\ UNCHANGED <<send_index, recv_index, iterations_received, total_received,
                 mem, ringVars, poolVars>>

AllSent == send_index >= NumRequests    \* mutant: || became && in the loop condition
AllSubmitted == send_index >= NumRequests /\ recv_index >= NumRequests
AllReceived == total_received >= NumRequests * PageUnits /\ send_index >= NumRequests

\* io_uring_cq_advance, the early break, and the condition of the outer loop.
EndReap ==
  /\ pc = "reap" /\ cq = <<>>
  /\ pc' = IF AllReceived \/ AllSubmitted THEN "exit" ELSE "send"
  /\ reaped' = 0
  /\ UNCHANGED <<send_index, recv_index, iterations_received, total_received,
                 mem, sq, inflight, cq, poolVars>>

\* io_uring_queue_exit cancels what the kernel has, close, ~BufferPool.  What
\* was not reaped is never given back to the pool, nor freed.
Exit ==
  /\ pc = "exit"
  /\ pc' = "closed"
  /\ ClientClose
  /\ DestroyPool
  /\ UNCHANGED <<send_index, recv_index, iterations_received, total_received,
                 mem, ringVars>>

-----------------------------------------------------------------------------

(***************************************************************************)
(* External: the kernel's side of the ring.                                *)
(***************************************************************************)
Complete(o, res) ==
  /\ inflight' = inflight \ {o}
  /\ cq' = Append(cq, [op |-> o.op, data |-> o.data, res |-> res])

KernelSend ==
  /\ Running
  /\ \E o \in inflight : \E res \in {RequestUnits, Error} :
       /\ o.op = "send"
       /\ ClientSend(Word(mem[o.data].page), res)
       /\ Complete(o, res)
  /\ UNCHANGED <<threadVars, mem, sq, reaped, poolVars>>

\* MSG_WAITALL: a recv that got less than a page stays with the kernel.
KernelRecv ==
  /\ Running
  /\ \E o \in inflight : \E n \in 1..(PageUnits - o.got) :
       /\ o.op = "recv"
       /\ ClientReceive(n)
       /\ IF o.got + n = PageUnits
          THEN Complete(o, PageUnits)
          ELSE /\ inflight' = (inflight \ {o}) \cup {[o EXCEPT !.got = @ + n]}
               /\ UNCHANGED cq
  /\ UNCHANGED <<threadVars, mem, sq, reaped, poolVars>>

\* A recv at the end of the stream returns what it got, or else the end itself.
KernelRecvEnd ==
  /\ Running
  /\ \E o \in inflight : \E res \in {0, Error} :
       /\ o.op = "recv"
       /\ ClientReceiveEnd(res)
       /\ Complete(o, IF o.got > 0 THEN o.got ELSE res)
  /\ UNCHANGED <<threadVars, mem, sq, reaped, poolVars>>

-----------------------------------------------------------------------------

\* The steps of the thread that leave the connection alone.
LocalStep == PrepSend \/ EndSends \/ PrepRecv \/ Submit \/ Reap \/ EndReap

ClientThread == (LocalStep /\ UNCHANGED tcpVars) \/ Fail \/ Exit

ClientKernel == KernelSend \/ KernelRecv \/ KernelRecvEnd
ClientStep == ClientThread \/ ClientKernel

(***************************************************************************)
(* The thread facing a server of which nothing is assumed: it sends page   *)
(* data that nobody asked for, and hangs up at any time.                   *)
(***************************************************************************)
AnyServer ==
  /\ UNCHANGED clientVars
  /\ \/ /\ link["server"] = "open" /\ toClient < SockBuf
        /\ toClient' = toClient + 1
        /\ UNCHANGED <<toServer, link>>
     \/ \E units \in {SubSeq(toServer, 1, n) : n \in 1..Len(toServer)} : ServerRead(units)
     \/ link["server"] # "closed" /\ ServerClose

ClientStart == ClientInit /\ TcpInit
ClientSpec ==
  /\ ClientStart
  /\ [][ClientStep \/ AnyServer]_<<clientVars, tcpVars>>

-----------------------------------------------------------------------------

(***************************************************************************)
(* io_uring_get_sqe never returns null: whenever a submission loop goes    *)
(* around again, the submission queue has room.  The two windows together  *)
(* guarantee it, whatever the server does.                                 *)
(***************************************************************************)
PreparesNext == (pc = "send" /\ MaySend) \/ (pc = "recv" /\ MayRecv)
SqeAvailable == PreparesNext => Len(sq) < RingSize

(***************************************************************************)
(* No step writes into the buffer of an operation from the moment it is    *)
(* queued until its completion is looked at, when event_type is read back  *)
(* from that buffer: allocate hands out no such block, and the loops fill  *)
(* no other.                                                               *)
(***************************************************************************)
InUse == {o.data : o \in Outstanding}
BuffersStable ==
  [][\A a \in InUse : a \in InUse' => mem'[a] = mem[a]]_clientVars

(***************************************************************************)
(* Every request sent is for a page of this thread's range, and for a page *)
(* that no other request outstanding is for.                               *)
(***************************************************************************)
PagesRequestedOnce ==
  \A o, p \in {q \in Outstanding : q.op = "send"} :
    /\ mem[o.data].page \in Page
    /\ mem[o.data].page = mem[p.data].page => o.data = p.data

(***************************************************************************)
(* The thread uses its pool as BufferUser says: what it holds is what is   *)
(* outstanding.  So the promises of the pool hold for it: the kernel never *)
(* writes into a block that was freed, or recycled for another operation.  *)
(***************************************************************************)
Pool == INSTANCE BufferUser
          WITH held  <- {[buf |-> o.data, size |-> SizeOf[o.op]] : o \in Outstanding},
               alive <- pc # "closed"
UsesPool == Pool!UserSpec
=============================================================================
