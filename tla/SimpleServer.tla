----------------------------- MODULE SimpleServer -----------------------------
(***************************************************************************)
(* handle_client and event_loop of src/simple_iou_server.cpp: one handler  *)
(* thread, its io_uring and its BufferPool.  The thread posts RING_SIZE/4  *)
(* reads of a request word, then takes completions one at a time: a read   *)
(* is answered by a write of the page and posted again, a finished write   *)
(* gives its buffer back.  Each handler submits what it queued before it   *)
(* returns, so the submission queue is empty between two steps.            *)
(*                                                                         *)
(* The result of a read matters only when it is 0, that of a write never.  *)
(***************************************************************************)
EXTENDS Tcp, BufferPool, FiniteSets

CONSTANTS
  RingSize,     \* RING_SIZE
  MaxPage,      \* NUM_REQUESTS, to which VERIFY compares page numbers
  Verify,       \* the VERIFY build option
  MaxRequests   \* bound: how much AnyClient sends

ASSUME ServerAssumption == /\ RingSize \in Nat /\ RingSize >= 4
                           /\ MaxPage \in Nat /\ MaxRequests \in Nat
                           /\ Verify \in BOOLEAN
                           /\ "page" \in Sizes

VARIABLES
  pc,            \* where the thread is
  mem,           \* mem[a]: event_type and buffer of the RequestData at a
  inflight,      \* operations the kernel has
  cq,            \* completions posted and not yet seen
  write_req_num  \* answers queued so far

ringVars == <<inflight, cq>>
serverVars == <<pc, mem, inflight, cq, write_req_num, poolVars>>

\* A buffer's first word, as units; Junk is what malloc left there, and what
\* a block not in use is said to hold.
Request(page) == [i \in 1..RequestUnits |-> <<page, i>>]
Junk == [i \in 1..RequestUnits |-> <<-1, i>>]
Blank == [event_type |-> "none", word |-> Junk]

\* The int32_t that memcpy takes from a buffer: a page number, or some number
\* that was never sent, when the units are not those of one request.
NoRequest == -1
PageNumber(word) == IF word = Request(word[1][1]) THEN word[1][1] ELSE NoRequest

Op == [op : {"read", "write"}, data : Addr]
OpOf(c) == [op |-> c.op, data |-> c.data]

\* What the kernel holds a pointer to, until the thread has handled it.
Outstanding == inflight \cup {OpOf(c) : c \in Range(cq)}
Running == pc \in {"serve", "return"}

ServerInit ==
  /\ PoolInit
  /\ pc = "start"
  /\ mem = [a \in Addr |-> Blank]
  /\ inflight = {} /\ cq = <<>> /\ write_req_num = 0

-----------------------------------------------------------------------------

\* The operations that the two helpers queue; each also says in its buffer
\* (event_type) what it is.
add_read_request(req) == [op |-> "read", data |-> req]
add_write_request(req) == [op |-> "write", data |-> req]

\* One turn of the loop that posts the first reads, into page-sized buffers.
PostRead ==
  /\ pc = "start" /\ Cardinality(inflight) < RingSize \div 4
  /\ \E a \in Addr :
       /\ Allocate("page", a)
       /\ mem' = [mem EXCEPT ![a].event_type = "read"]
       /\ inflight' = inflight \cup {add_read_request(a)}
  /\ UNCHANGED <<pc, cq, write_req_num>>

SubmitReads ==
  /\ pc = "start" /\ Cardinality(inflight) = RingSize \div 4
  /\ pc' = "serve"
  /\ UNCHANGED <<mem, ringVars, write_req_num, poolVars>>

\* The completion at the head of the queue is one of the given event_type.
Completed(type) ==
  pc = "serve" /\ cq # <<>> /\ mem[Head(cq).data].event_type = type

\* Whether VERIFY lets a number through; one never sent may be any number.
MayAccept(page) == Verify => page <= MaxPage
MayRefuse(page) == Verify /\ (page > MaxPage \/ page = NoRequest)

AnswerInPlace(req) ==                   \* mutant: the read buffer is also the response
  /\ MayAccept(PageNumber(mem[req].word))
  /\ mem' = [mem EXCEPT ![req].event_type = "write"]
  /\ inflight' = inflight \cup {add_write_request(req), add_read_request(req)}
  /\ UNCHANGED poolVars

AnswerWithoutRead(req) ==               \* mutant: the read is not posted again
  /\ MayAccept(PageNumber(mem[req].word))
  /\ \E response \in Addr :
       /\ Allocate("page", response)
       /\ mem' = [mem EXCEPT ![response] = [event_type |-> "write",
                                            word |-> Request(PageNumber(mem[req].word))]]
       /\ inflight' = inflight \cup {add_write_request(response)}

\* The page is written from a buffer of its own, and the read posted again.
Answer(req) ==
  /\ MayAccept(PageNumber(mem[req].word))
  /\ \E response \in Addr :
       /\ Allocate("page", response)
       /\ mem' = [mem EXCEPT ![response] = [event_type |-> "write",
                                            word |-> Request(PageNumber(mem[req].word))]]
       /\ inflight' = inflight \cup {add_write_request(response), add_read_request(req)}

\* Any result but 0 counts as a request, an error or part of a word included.
HandleRead ==
  /\ Completed("read") /\ Head(cq).res # 0
  /\ Answer(Head(cq).data)
  /\ write_req_num' = write_req_num + 1
  /\ cq' = Tail(cq)
  /\ UNCHANGED pc

\* exit(EXIT_FAILURE) ends the process, and every connection it has.
HandleInvalid ==
  /\ Completed("read") /\ Head(cq).res # 0
  /\ MayRefuse(PageNumber(mem[Head(cq).data].word))
  /\ pc' = "exited"
  /\ UNCHANGED <<mem, ringVars, write_req_num, poolVars>>

HandleEofPostsAgain ==                  \* mutant: end of file is an empty request
  /\ Completed("read") /\ Head(cq).res = 0
  /\ inflight' = inflight \cup {add_read_request(Head(cq).data)}
  /\ cq' = Tail(cq)
  /\ UNCHANGED <<pc, mem, write_req_num, poolVars>>

\* close(client_socket), return true, ~BufferPool: the operations the kernel
\* still has keep the connection and their buffers.
HandleEof ==
  /\ Completed("read") /\ Head(cq).res = 0
  /\ pc' = "return"
  /\ DestroyPool
  /\ UNCHANGED <<mem, ringVars, write_req_num>>

\* A failed or a short write is a write like any other.
HandleWriteKeepsBuffer ==               \* mutant: the response is not given back
  /\ Completed("write")
  /\ cq' = Tail(cq)
  /\ UNCHANGED <<pc, mem, inflight, write_req_num, poolVars>>

HandleWrite ==
  /\ Completed("write")
  /\ Deallocate(Head(cq).data, "page")
  /\ mem' = [mem EXCEPT ![Head(cq).data] = Blank]
  /\ cq' = Tail(cq)
  /\ UNCHANGED <<pc, inflight, write_req_num>>

\* io_uring_queue_exit drops the last references to the connection.
QueueExit ==
  /\ pc = "return"
  /\ pc' = "finished"
  /\ UNCHANGED <<mem, ringVars, write_req_num, poolVars>>

-----------------------------------------------------------------------------

(***************************************************************************)
(* External: the kernel's side of the ring.                                *)
(***************************************************************************)
Complete(o, res) ==
  /\ inflight' = inflight \ {o}
  /\ cq' = Append(cq, [op |-> o.op, data |-> o.data, res |-> res])

\* Units past those that were read stay what they were.
KernelRead ==
  /\ Running
  /\ \E o \in inflight, n \in 1..RequestUnits :
       LET units == SubSeq(toServer, 1, n)
       IN /\ o.op = "read" /\ n <= Len(toServer)
          /\ ServerRead(units)
          /\ mem' = [mem EXCEPT ![o.data].word =
                       [i \in 1..RequestUnits |-> IF i <= n THEN units[i] ELSE @[i]]]
          /\ Complete(o, n)
  /\ UNCHANGED <<pc, write_req_num, poolVars>>

KernelReadEnd ==
  /\ Running
  /\ \E o \in inflight, res \in {0, Error} :
       o.op = "read" /\ ServerReadEnd(res) /\ Complete(o, res)
  /\ UNCHANGED <<pc, mem, write_req_num, poolVars>>

KernelWrite ==
  /\ Running
  /\ \E o \in inflight, res \in {Error} \cup 1..PageUnits :
       o.op = "write" /\ ServerSend(res) /\ Complete(o, res)
  /\ UNCHANGED <<pc, mem, write_req_num, poolVars>>

-----------------------------------------------------------------------------

LocalStep == PostRead \/ SubmitReads \/ HandleRead \/ HandleEof \/ HandleWrite

ServerThread == \/ LocalStep /\ UNCHANGED tcpVars
                \/ (HandleInvalid \/ QueueExit) /\ ServerClose

ServerKernel == KernelRead \/ KernelReadEnd \/ KernelWrite
ServerStep == ServerThread \/ ServerKernel

(***************************************************************************)
(* The thread facing a client of which nothing is assumed: it asks for any *)
(* page, for one out of range too, reads when it likes and closes at any   *)
(* time.  MaxRequests bounds what it asks for.                             *)
(***************************************************************************)
AnyClient ==
  /\ UNCHANGED serverVars
  /\ link["client"] # "closed"
  /\ \/ /\ write_req_num + Len(toServer) + Len(cq) < MaxRequests
        /\ \E page \in {0, MaxPage + 1} : ClientSend(Request(page), RequestUnits)
     \/ toClient > 0 /\ ClientReceive(1)
     \/ ClientClose

ServerStart == ServerInit /\ TcpInit
ServerSpec ==
  /\ ServerStart
  /\ [][ServerStep \/ AnyClient]_<<serverVars, tcpVars>>

\* The thread and the kernel are scheduled; nothing is assumed of the client.
FairServerSpec ==
  /\ ServerSpec
  /\ WF_<<serverVars, tcpVars>>(ServerThread)
  /\ WF_<<serverVars, tcpVars>>(KernelRead \/ KernelReadEnd)
  /\ WF_<<serverVars, tcpVars>>(KernelWrite)

-----------------------------------------------------------------------------

(***************************************************************************)
(* Reads are neither lost nor multiplied: as many as were posted at first  *)
(* are outstanding for as long as the handler serves, whatever results     *)
(* they bring (add_read_request at the end of the READ_EVENT case).        *)
(***************************************************************************)
ReadsOutstanding == {o \in Outstanding : o.op = "read"}
ReadsKeptPosted == pc = "serve" => Cardinality(ReadsOutstanding) = RingSize \div 4

(***************************************************************************)
(* The switch on req->event_type dispatches each completion to the handler *)
(* of the operation it completes: no buffer was recycled in between.       *)
(***************************************************************************)
DispatchedByOp == \A o \in Outstanding : mem[o.data].event_type = o.op

(***************************************************************************)
(* The page number of an answer does not change between the moment the     *)
(* write is queued and the moment the kernel has sent it: reads that       *)
(* complete meanwhile land in buffers of their own.                        *)
(***************************************************************************)
AnswersStable ==
  [][\A o \in inflight \cap inflight' :
       o.op = "write" => mem'[o.data] = mem[o.data]]_serverVars

(***************************************************************************)
(* The thread uses its pool as BufferUser says, with what is outstanding   *)
(* as what it holds.  The pool is destroyed when event_loop returns, while *)
(* the kernel still has operations: their buffers are not among those      *)
(* freed.                                                                  *)
(***************************************************************************)
Pool == INSTANCE BufferUser
          WITH held  <- {[buf |-> o.data, size |-> "page"] : o \in Outstanding},
               alive <- pc \in {"start", "serve", "exited"}
UsesPool == Pool!UserSpec

(***************************************************************************)
(* Once the client has closed, the handler returns, whatever was still     *)
(* unread, unsent or failing, and so finished_threads gets to its count.   *)
(***************************************************************************)
HandlerReturns == link["client"] = "closed" ~> pc \in {"finished", "exited"}
=============================================================================
