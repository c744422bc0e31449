------------------------------- MODULE IouPages -------------------------------
(***************************************************************************)
(* client_iou.cpp and server_iou.cpp: the page protocol on io_uring, for   *)
(* one thread of the client and its handler.  The client works in batches: *)
(* it submits the sends, then as many receives, and waits until as many    *)
(* receives completed.  The handler keeps reads posted and answers each    *)
(* request with a write of what is on its stack.                           *)
(*                                                                         *)
(* Both rings are set up with SQPOLL: a kernel thread takes submitted      *)
(* operations whenever it likes, in any order, and a write finds the stack *)
(* as it is then.  The response and each of the two iovec arrays are taken *)
(* to keep their place on the stack from one turn of the loop to the next. *)
(*                                                                         *)
(* A request is one unit, read whole.  A response is two units, its header *)
(* and its page, written whole: all responses fit the buffers of a socket. *)
(* A receive may get one unit only.                                        *)
(***************************************************************************)
EXTENDS PageData, Sequences, FiniteSetsExt

CONSTANTS
  NumRequests,  \* requests of the thread
  BatchSize,    \* BATCH_SIZE
  NumReads,     \* reads the handler posts (64)
  ClientPages,  \* PAGE_COUNT of the client
  ServerPages   \* PAGE_COUNT of the server

ASSUME IouPagesAssumption ==
  /\ {NumRequests, BatchSize, NumReads, ClientPages} \subseteq Nat \ {0}
  /\ ServerPages \in Nat

VARIABLES
  c_pc,       \* where the client thread is
  i,          \* first request of the batch
  j,          \* responses counted in the batch
  responses,  \* responses[k]: the units received into buffer k
  sends,      \* requests whose send the kernel has yet to do
  recvs,      \* buffers the kernel has yet to receive into
  c_cq,       \* completions the client has yet to see
  s_pc,       \* where the handler is
  request,    \* the request it answers
  stack,      \* the response, and where the iovec of a found page points
  reads,      \* number of reads the kernel has yet to do
  writes,     \* writes[status]: number of writes the kernel has yet to do
  s_cq,       \* completions the handler has yet to see
  toServer, toClient, link

clientSide == <<c_pc, i, j, responses, sends, recvs, c_cq>>
serverSide == <<s_pc, request, stack, reads, writes, s_cq>>
network == <<toServer, toClient, link>>
pagesVars == <<clientSide, serverSide, network>>

T == INSTANCE Tcp WITH toClient <- Len(toClient),
                       RequestUnits <- 1, PageUnits <- 2, SockBuf <- 2 * NumRequests

Request == 0..(NumRequests - 1)
Status == {SUCCESS, INVALID_PAGE_NUMBER}

\* GetPageResponse response{}: zeros.
Blank == [header |-> [request_id |-> 0, status |-> 0, page_number |-> 0],
          content |-> [b \in Byte |-> 0]]

\* setup_socket has no socket to return, or connect fails at once: the thread
\* returns before it sends anything.
NotConnected ==
  /\ c_pc = "closed" /\ s_pc = "closed" /\ reads = 0
  /\ link = [e \in T!End |-> "closed"]

\* The connect was under way (EINPROGRESS) and was refused: nobody asks, and
\* the first operation fails.
Refused ==
  /\ c_pc = "send" /\ s_pc = "closed" /\ reads = 0
  /\ link = [client |-> "rst", server |-> "closed"]

Posted ==
  /\ c_pc = "send" /\ s_pc = "wait" /\ reads = NumReads
  /\ link = [e \in T!End |-> "open"]

PagesInit ==
  /\ i = 0 /\ j = 0
  /\ responses = [k \in Request |-> <<>>]
  /\ sends = {} /\ recvs = {} /\ c_cq = <<>>
  /\ request = 0
  /\ stack = [response |-> Blank, page |-> Blank.content]
  /\ writes = [status \in Status |-> 0] /\ s_cq = <<>>
  /\ toServer = <<>> /\ toClient = <<>>
  /\ Posted \/ Refused \/ NotConnected

-----------------------------------------------------------------------------

batch_end == T!Smaller(NumRequests, i + BatchSize)
Batch == i..(batch_end - 1)

send_requests ==
  /\ c_pc = "send" /\ i < NumRequests
  /\ sends' = sends \cup Batch
  /\ c_pc' = "post"
  /\ UNCHANGED <<i, j, responses, recvs, c_cq, serverSide, network>>

PostReceives ==
  /\ c_pc = "post"
  /\ recvs' = recvs \cup Batch
  /\ c_pc' = "reap" /\ j' = 0
  /\ UNCHANGED <<i, responses, sends, c_cq, serverSide, network>>

\* The thread leaves, or throws and ends the process: its ring and its
\* connection go.
Leave(how) ==
  /\ c_pc' = how
  /\ sends' = {} /\ recvs' = {} /\ c_cq' = <<>>
  /\ toClient' = <<>> /\ T!ClientClose
  /\ UNCHANGED <<i, responses, serverSide>>

CountedEach(cqe) == j + 1           \* mutant: the j-- is missing
Counted(cqe) == IF cqe.event_type = "SEND" THEN j ELSE j + 1

Reap ==
  /\ c_pc = "reap" /\ c_cq # <<>> /\ Head(c_cq).res # T!Error
  /\ c_cq' = Tail(c_cq)
  /\ j' = Counted(Head(c_cq))
  /\ IF j' = Cardinality(Batch) THEN c_pc' = "send" /\ i' = batch_end
     ELSE UNCHANGED <<c_pc, i>>
  /\ UNCHANGED <<responses, sends, recvs, serverSide, network>>

Throw ==
  /\ c_pc = "reap" /\ c_cq # <<>> /\ Head(c_cq).res = T!Error
  /\ Leave("thrown") /\ UNCHANGED j

Return ==
  /\ c_pc = "send" /\ i >= NumRequests
  /\ Leave("closed") /\ UNCHANGED j

ClientStep == send_requests \/ PostReceives \/ Reap \/ Throw \/ Return

\* Another thread of the client throws.
ClientDies == c_pc \in {"send", "post", "reap"} /\ Leave("thrown") /\ UNCHANGED j

-----------------------------------------------------------------------------

ClientDone(event_type, res) ==
  c_cq' = Append(c_cq, [event_type |-> event_type, res |-> res])

KernelSend ==
  \E k \in sends, res \in {1, T!Error} :
    /\ UNCHANGED toClient
    /\ T!ClientSend(<<k>>, res)
    /\ sends' = sends \ {k}
    /\ ClientDone("SEND", res)
    /\ UNCHANGED <<c_pc, i, j, responses, recvs, serverSide>>

KernelRecv ==
  \E k \in recvs, n \in 1..T!Smaller(2, Len(toClient)) :
    /\ toClient' = SubSeq(toClient, n + 1, Len(toClient))
    /\ T!ClientReceive(n)
    /\ responses' = [responses EXCEPT ![k] = SubSeq(toClient, 1, n)]
    /\ recvs' = recvs \ {k}
    /\ ClientDone("RECEIVE", n)
    /\ UNCHANGED <<c_pc, i, j, sends, serverSide>>

KernelRecvEnd ==
  \E k \in recvs, res \in {0, T!Error} :
    /\ UNCHANGED toClient
    /\ T!ClientReceiveEnd(res)
    /\ recvs' = recvs \ {k}
    /\ ClientDone("RECEIVE", res)
    /\ UNCHANGED <<c_pc, i, j, responses, sends, serverSide>>

-----------------------------------------------------------------------------

Found(k) == k % ClientPages < ServerPages

\* The response on the stack is made anew before it is filled in.
HandleRead ==
  /\ s_pc = "wait" /\ s_cq # <<>>
  /\ Head(s_cq).event_type = "READ" /\ Head(s_cq).res # 0
  /\ request' = Head(s_cq).request
  /\ s_cq' = Tail(s_cq)
  /\ stack' = [stack EXCEPT !.response = Blank]
  /\ s_pc' = "answer"
  /\ UNCHANGED <<reads, writes, clientSide, network>>

Header(k, status) ==
  [request_id |-> Swap(k), status |-> Swap(status), page_number |-> Swap(k % ClientPages)]

AnswerFound ==
  /\ Found(request)
  /\ stack' = [response |-> [Blank EXCEPT !.header = Header(request, SUCCESS)],
               page |-> PageContent(ServerPages, request % ClientPages)]
  /\ writes' = [writes EXCEPT ![SUCCESS] = @ + 1]

AnswerInvalidLogsOnly ==            \* mutant: the error is not sent
  ~Found(request) /\ UNCHANGED <<stack, writes>>

AnswerInvalid ==
  /\ ~Found(request)
  /\ stack' = [stack EXCEPT !.response =
                 [header |-> Header(request, INVALID_PAGE_NUMBER), content |-> ErrorContent]]
  /\ writes' = [writes EXCEPT ![INVALID_PAGE_NUMBER] = @ + 1]

AnswerWithoutRead ==                \* mutant: the read is not posted again
  /\ s_pc = "answer"
  /\ AnswerFound \/ AnswerInvalid
  /\ s_pc' = "wait"
  /\ UNCHANGED <<request, reads, s_cq, clientSide, network>>

Answer ==
  /\ s_pc = "answer"
  /\ AnswerFound \/ AnswerInvalid
  /\ reads' = reads + 1
  /\ s_pc' = "wait"
  /\ UNCHANGED <<request, s_cq, clientSide, network>>

HandleWrite ==
  /\ s_pc = "wait" /\ s_cq # <<>> /\ Head(s_cq).event_type = "WRITE"
  /\ s_cq' = Tail(s_cq)
  /\ UNCHANGED <<s_pc, request, stack, reads, writes, clientSide, network>>

\* The handler returns, and its ring and its connection go.
HandlerLeaves ==
  /\ s_pc' = "closed"
  /\ reads' = 0 /\ writes' = [status \in Status |-> 0] /\ s_cq' = <<>>
  /\ \E n \in 0..Len(toClient) : toClient' = SubSeq(toClient, 1, n)
  /\ T!ServerClose
  /\ UNCHANGED <<request, stack, clientSide>>

HandleEof ==
  /\ s_pc = "wait" /\ s_cq # <<>>
  /\ Head(s_cq).event_type = "READ" /\ Head(s_cq).res = 0
  /\ HandlerLeaves

HandlerStep == HandleRead \/ Answer \/ HandleWrite \/ HandleEof

\* main of the server exits when accept fails.
ServerDies == s_pc # "closed" /\ HandlerLeaves

-----------------------------------------------------------------------------

ServerDone(event_type, res, k) ==
  s_cq' = Append(s_cq, [event_type |-> event_type, res |-> res, request |-> k])

KernelRead ==
  \E k \in Request :
    /\ reads > 0
    /\ UNCHANGED toClient
    /\ T!ServerRead(<<k>>)
    /\ reads' = reads - 1
    /\ ServerDone("READ", 1, k)
    /\ UNCHANGED <<s_pc, request, stack, writes, clientSide>>

\* On an error the buffer holds whatever malloc left there.
KernelReadEnd ==
  \E res \in {0, T!Error}, k \in Request :
    /\ reads > 0
    /\ UNCHANGED toClient
    /\ T!ServerReadEnd(res)
    /\ res = 0 => k = 0
    /\ reads' = reads - 1
    /\ ServerDone("READ", res, k)
    /\ UNCHANGED <<s_pc, request, stack, writes, clientSide>>

\* What a write sends: two pieces if the page was found, one if not.
OnStack(status) ==
  << <<"header", stack.response.header>>,
     <<"content", IF status = SUCCESS THEN stack.page ELSE stack.response.content>> >>

KernelWrite ==
  \E status \in Status, res \in {2, T!Error} :
    /\ writes[status] > 0
    /\ toClient' = IF link["server"] = "open" THEN toClient \o OnStack(status) ELSE toClient
    /\ T!ServerSend(res)
    /\ writes' = [writes EXCEPT ![status] = @ - 1]
    /\ ServerDone("WRITE", res, 0)
    /\ UNCHANGED <<s_pc, request, stack, reads, clientSide>>

-----------------------------------------------------------------------------

PagesNext ==
  \/ ClientStep \/ ClientDies \/ KernelSend \/ KernelRecv \/ KernelRecvEnd
  \/ HandlerStep \/ ServerDies \/ KernelRead \/ KernelReadEnd \/ KernelWrite
PagesSpec == PagesInit /\ [][PagesNext]_pagesVars

FairPagesSpec ==
  /\ PagesSpec
  /\ WF_pagesVars(ClientStep) /\ WF_pagesVars(KernelSend)
  /\ WF_pagesVars(KernelRecv \/ KernelRecvEnd)
  /\ WF_pagesVars(HandlerStep) /\ WF_pagesVars(KernelWrite)
  /\ WF_pagesVars(KernelRead \/ KernelReadEnd)

-----------------------------------------------------------------------------

IouTypeOK ==
  /\ c_pc \in {"send", "post", "reap", "closed", "thrown"}
  /\ i \in 0..NumRequests /\ j \in 0..BatchSize
  /\ \A k \in Request : Len(responses[k]) \in 0..2
  /\ sends \subseteq Request /\ recvs \subseteq Batch
  /\ s_pc \in {"wait", "answer", "closed"}
  /\ request \in Request
  /\ reads \in 0..NumReads
  /\ \A status \in Status : writes[status] \in 0..NumRequests
  /\ link \in [T!End -> T!Link]

(***************************************************************************)
(* When a batch is over, its response buffers are settled: no receive into *)
(* one of them is still with the kernel, although completions of sends are *)
(* seen in between and some stay behind for the next batch                 *)
(* (client_iou.cpp receive_responses).                                     *)
(***************************************************************************)
BuffersSettle == [][\A k \in 0..(i - 1) : responses'[k] = responses[k]]_pagesVars

(***************************************************************************)
(* While the connection stands, there are as many responses as requests:   *)
(* the requests sent, less those not read yet and those whose answer is    *)
(* not written yet, are as many as the responses whose two units were      *)
(* received or wait to be.  This is a balance of numbers; it does not say  *)
(* that a response answers the request it was counted for, and it need not *)
(* (AnswersDistinct).                                                      *)
(***************************************************************************)
Sent == (IF c_pc = "send" THEN i ELSE batch_end) - Cardinality(sends)
BeingAnswered ==
  Cardinality({n \in DOMAIN s_cq : s_cq[n].event_type = "READ"})
  + (IF s_pc = "answer" THEN 1 ELSE 0) + writes[SUCCESS] + writes[INVALID_PAGE_NUMBER]
UnitsReceived == MapThenSumSet(LAMBDA k : Len(responses[k]), Request)
ResponseUnitsBalance ==
  (\A e \in T!End : link[e] = "open") =>
    2 * (Sent - Len(toServer) - BeingAnswered) = Len(toClient) + UnitsReceived

(***************************************************************************)
(* "Correct responses: {}" (client_iou.cpp line 205) counts answers to     *)
(* different requests.  It does not: a write finds the response of a later *)
(* request on the stack, or one that was only just made.                   *)
(***************************************************************************)
verify_responses(k) ==
  /\ Len(responses[k]) = 2
  /\ responses[k][1][1] = "header" /\ responses[k][2][1] = "content"
  /\ verify(responses[k][2][2], Swap(responses[k][1][2].page_number), ClientPages)
CorrectResponses == {k \in Request : verify_responses(k)}
AnswersDistinct ==
  c_pc = "closed" =>
    \A k, l \in CorrectResponses :
      responses[k][1][2].request_id = responses[l][1][2].request_id => k = l

(***************************************************************************)
(* The client thread ends, whatever becomes of its connection (short       *)
(* receives end its batches early, but never late), and its handler        *)
(* returns.                                                                *)
(***************************************************************************)
BothEnd == <>[](c_pc \in {"closed", "thrown"} /\ s_pc = "closed")
=============================================================================
