---------------------------- MODULE IouPagesProofs ----------------------------
(***************************************************************************)
(* The batches of client_iou.cpp settle, and the numbers of its requests   *)
(* and of the units of their responses balance, for every number of        *)
(* requests, any size of the batches and any server.                       *)
(*                                                                         *)
(* receive_responses knows neither which receive a completion is of, nor   *)
(* whether it belongs to this batch: it only counts.  Why that is enough   *)
(* is Counting: what was counted, what the kernel still has and what waits *)
(* to be seen are together as many as the batch posted.                    *)
(*                                                                         *)
(* The handler answers what a read got, an error included.  That it never  *)
(* answers more than was asked is Load: a read fails only on a connection  *)
(* that was reset, and the client resets one only with an answer unread.   *)
(***************************************************************************)
EXTENDS IouPages, DataLemmas

Cqe == [event_type : {"SEND", "RECEIVE"}, res : Int]

\* How many receives completed, in a completion queue of the client.
ReceivesIn(q) == Cardinality(PlacesIn(q, {c \in Cqe : c.event_type = "RECEIVE"}))

PagesOK ==
  /\ c_pc \in {"send", "post", "reap", "closed", "thrown"}
  /\ i \in 0..NumRequests /\ j \in 0..BatchSize
  /\ responses = [k \in Request |-> responses[k]]
  /\ sends \subseteq Request /\ recvs \subseteq Batch
  /\ c_cq \in Seq(Cqe)

Counting ==
  /\ c_pc \in {"post", "reap"} => i < NumRequests
  /\ c_pc = "reap" =>
       j + Cardinality(recvs) + ReceivesIn(c_cq) = Cardinality(Batch)
  /\ c_pc # "reap" => recvs = {} /\ ReceivesIn(c_cq) = 0

BatchInv == PagesOK /\ Counting

-----------------------------------------------------------------------------

LEMMA ReceivesCount ==
  ASSUME NEW q \in Seq(Cqe)
  PROVE  /\ ReceivesIn(q) \in Nat /\ ReceivesIn(<<>>) = 0
         /\ \A c \in Cqe : ReceivesIn(Append(q, c)) =
                             ReceivesIn(q) + IF c.event_type = "RECEIVE" THEN 1 ELSE 0
         /\ q # <<>> => /\ Head(q) \in Cqe /\ Tail(q) \in Seq(Cqe)
                        /\ ReceivesIn(q) = ReceivesIn(Tail(q))
                                           + IF Head(q).event_type = "RECEIVE" THEN 1 ELSE 0
<1> DEFINE P == {c \in Cqe : c.event_type = "RECEIVE"}
<1>1. \A c \in Cqe : c \in P <=> c.event_type = "RECEIVE"  OBVIOUS
<1>2. \A r : ReceivesIn(r) = Cardinality(PlacesIn(r, P))  BY DEF ReceivesIn
<1> HIDE DEF P
<1>3. ReceivesIn(q) \in Nat /\ ReceivesIn(<<>>) = 0  BY <1>2, PlacesFinite
<1>4. ASSUME NEW c \in Cqe
      PROVE  ReceivesIn(Append(q, c)) = ReceivesIn(q) + IF c.event_type = "RECEIVE" THEN 1 ELSE 0
  BY <1>1, <1>2, PlacesLast
<1>5. ASSUME q # <<>>
      PROVE  /\ Head(q) \in Cqe /\ Tail(q) \in Seq(Cqe)
             /\ ReceivesIn(q) = ReceivesIn(Tail(q))
                                + IF Head(q).event_type = "RECEIVE" THEN 1 ELSE 0
  <2>1. Head(q) \in Cqe /\ Tail(q) \in Seq(Cqe)  BY <1>5, QueueHead
  <2>2. Cardinality(PlacesIn(q, P))
          = Cardinality(PlacesIn(Tail(q), P)) + IF Head(q) \in P THEN 1 ELSE 0
    BY <1>5, PlacesHead
  <2> QED  BY <1>1, <1>2, <2>1, <2>2
<1> QED  BY <1>3, <1>4, <1>5

\* The requests of a batch.
LEMMA BatchIs ==
  ASSUME i \in 0..NumRequests
  PROVE  /\ batch_end \in i..NumRequests
         /\ IsFiniteSet(Batch) /\ Cardinality(Batch) = batch_end - i
         /\ Cardinality(Batch) \in 0..BatchSize
         /\ \A k \in Batch : k >= i /\ k \in Request
<1>1. NumRequests \in Nat \ {0} /\ BatchSize \in Nat \ {0}  BY IouPagesAssumption
<1>2. batch_end \in i..NumRequests /\ batch_end - i <= BatchSize
  BY <1>1 DEF batch_end, T!Smaller
<1> HIDE DEF batch_end
<1>3. IsFiniteSet(Batch)  BY <1>2, FS_Interval DEF Batch
<1>4. Cardinality(Batch) = batch_end - i
  <2>1. i \in Int /\ batch_end - 1 \in Int  BY <1>1, <1>2
  <2>2. Cardinality(i..(batch_end - 1)) = IF i > batch_end - 1 THEN 0 ELSE (batch_end - 1) - i + 1
    BY <2>1, FS_Interval
  <2> QED  BY <1>1, <1>2, <2>2 DEF Batch
<1>5. \A k \in Batch : k >= i /\ k \in Request  BY <1>1, <1>2 DEF Batch, Request
<1> QED  BY <1>1, <1>2, <1>3, <1>4, <1>5

-----------------------------------------------------------------------------

LEMMA BatchInvInit == PagesInit => BatchInv
<1> SUFFICES ASSUME PagesInit PROVE BatchInv
  OBVIOUS
<1>1. c_cq = <<>> /\ <<>> \in Seq(Cqe)  BY DEF PagesInit
<1>2. ReceivesIn(c_cq) = 0  BY <1>1, ReceivesCount
<1> QED  BY <1>1, <1>2, IouPagesAssumption DEF PagesInit, Posted, Refused, NotConnected, BatchInv, PagesOK, Counting

\* The steps of the server, which the client does not see.
LEMMA InvServer ==
  ASSUME BatchInv, UNCHANGED clientSide
  PROVE  BatchInv'
BY DEF clientSide, BatchInv, PagesOK, Counting, Batch, batch_end, ReceivesIn, PlacesIn, T!Smaller

LEMMA InvLeave ==
  ASSUME BatchInv, NEW how \in {"closed", "thrown"}, Leave(how), j' = j
  PROVE  BatchInv'
<1>1. /\ c_pc' = how /\ sends' = {} /\ recvs' = {} /\ c_cq' = <<>>
      /\ i' = i /\ responses' = responses
  BY DEF Leave
<1>2. ReceivesIn(c_cq)' = 0 /\ c_cq' \in Seq(Cqe)
  <2>1. ReceivesIn(c_cq)' = ReceivesIn(<<>>) /\ <<>> \in Seq(Cqe)
    BY <1>1 DEF ReceivesIn, PlacesIn
  <2> QED  BY <1>1, <2>1, ReceivesCount
<1>3. PagesOK'  BY <1>1, <1>2 DEF BatchInv, PagesOK
<1>4. Counting'  BY <1>1, <1>2 DEF Counting
<1> QED  BY <1>3, <1>4 DEF BatchInv

LEMMA InvPost == BatchInv /\ (send_requests \/ PostReceives) => BatchInv'
<1> SUFFICES ASSUME BatchInv, send_requests \/ PostReceives PROVE BatchInv'
  OBVIOUS
<1>1. /\ UNCHANGED <<i, responses, c_cq>> /\ PagesOK /\ recvs = {} /\ ReceivesIn(c_cq) = 0
      /\ i < NumRequests
  BY DEF send_requests, PostReceives, BatchInv, Counting
<1>2. Batch' = Batch /\ Cardinality(Batch) \in Nat /\ Batch \subseteq Request
  <2>1. Batch' = Batch  BY <1>1 DEF Batch, batch_end
  <2> QED  BY <1>1, <2>1, BatchIs DEF PagesOK
<1>3. ReceivesIn(c_cq)' = 0 /\ Cardinality({}) = 0
  BY <1>1, FS_EmptySet DEF ReceivesIn, PlacesIn
<1>4. CASE send_requests
  BY <1>1, <1>2, <1>3, <1>4 DEF send_requests, BatchInv, PagesOK, Counting
<1>5. CASE PostReceives
  <2>1. recvs' = Batch /\ c_pc' = "reap" /\ j' = 0 /\ sends' = sends
    BY <1>1, <1>5 DEF PostReceives
  <2>2. 0 \in 0..BatchSize  BY IouPagesAssumption
  <2> QED  BY <1>1, <1>2, <1>3, <2>1, <2>2 DEF BatchInv, PagesOK, Counting
<1> QED  BY <1>4, <1>5

\* A completion is posted.
LEMMA InvDone ==
  ASSUME BatchInv, NEW t \in {"SEND", "RECEIVE"}, NEW res \in Int, ClientDone(t, res),
         t = "SEND" => recvs' = recvs,
         t = "RECEIVE" => \E k \in recvs : recvs' = recvs \ {k},
         UNCHANGED <<c_pc, i, j>>, sends' \subseteq sends,
         responses' = [k \in Request |-> responses'[k]]
  PROVE  BatchInv'
<1>0. PagesOK /\ Counting  BY DEF BatchInv
<1> DEFINE c == [event_type |-> t, res |-> res]
<1>1. c \in Cqe /\ c.event_type = t /\ c_cq' = Append(c_cq, c)  BY DEF Cqe, ClientDone
<1> HIDE DEF c
<1>2. /\ c_cq' \in Seq(Cqe)
      /\ ReceivesIn(c_cq)' = ReceivesIn(c_cq) + IF t = "RECEIVE" THEN 1 ELSE 0
      /\ ReceivesIn(c_cq) \in Nat
  <2>1. ReceivesIn(c_cq)' = ReceivesIn(Append(c_cq, c))  BY <1>1 DEF ReceivesIn, PlacesIn
  <2>2. c_cq \in Seq(Cqe)  BY <1>0 DEF PagesOK
  <2> QED  BY <1>1, <2>1, <2>2, ReceivesCount
<1>3. Batch' = Batch /\ IsFiniteSet(Batch)
  BY <1>0, BatchIs DEF Batch, batch_end, PagesOK
<1>4. PagesOK'
  BY <1>0, <1>2, <1>3 DEF PagesOK
<1>5. CASE t = "SEND"
  <2>1. ReceivesIn(c_cq)' = ReceivesIn(c_cq)  BY <1>2, <1>5
  <2> QED  BY <1>0, <1>2, <1>3, <1>4, <1>5, <2>1 DEF BatchInv, Counting
<1>6. CASE t = "RECEIVE"
  <2>1. PICK k \in recvs : recvs' = recvs \ {k}  BY <1>6
  <2>2. c_pc = "reap" /\ c_pc' = "reap" /\ i' = i /\ j' = j  BY <1>0, <2>1 DEF Counting
  <2>3. IsFiniteSet(recvs)  BY <1>0, <1>3, FS_Subset DEF PagesOK
  <2>4. Cardinality(recvs') = Cardinality(recvs) - 1 /\ Cardinality(recvs) \in Nat
    BY <2>1, <2>3, FS_RemoveElement, FS_CardinalityType
  <2>6. j \in Nat  BY <1>0 DEF PagesOK
  <2>7. /\ i < NumRequests
        /\ j + Cardinality(recvs) + ReceivesIn(c_cq) = Cardinality(Batch)
    BY <1>0, <2>2 DEF Counting
  <2>8. j' + Cardinality(recvs') + ReceivesIn(c_cq)' = Cardinality(Batch')
    BY <1>2, <1>3, <1>6, <2>2, <2>4, <2>6, <2>7
  <2>9. Counting'  BY <2>2, <2>7, <2>8 DEF Counting
  <2> QED  BY <1>4, <2>9 DEF BatchInv
<1> QED  BY <1>5, <1>6

LEMMA InvReap == BatchInv /\ Reap => BatchInv'
<1> SUFFICES ASSUME BatchInv, Reap PROVE BatchInv'
  OBVIOUS
<1>0. PagesOK /\ Counting  BY DEF BatchInv
<1>1. /\ c_pc = "reap" /\ c_cq # <<>> /\ c_cq' = Tail(c_cq)
      /\ j' = IF Head(c_cq).event_type = "SEND" THEN j ELSE j + 1
      /\ UNCHANGED <<responses, sends, recvs>>
      /\ i < NumRequests
      /\ j + Cardinality(recvs) + ReceivesIn(c_cq) = Cardinality(Batch)
  BY <1>0 DEF Reap, Counted, Counting
<1>2. /\ Head(c_cq) \in Cqe /\ c_cq' \in Seq(Cqe)
      /\ ReceivesIn(c_cq) = ReceivesIn(c_cq)'
           + IF Head(c_cq).event_type = "RECEIVE" THEN 1 ELSE 0
      /\ ReceivesIn(c_cq)' \in Nat
  <2>1. ReceivesIn(c_cq)' = ReceivesIn(Tail(c_cq))  BY <1>1 DEF ReceivesIn, PlacesIn
  <2>2. c_cq \in Seq(Cqe)  BY <1>0 DEF PagesOK
  <2> QED  BY <1>1, <2>1, <2>2, ReceivesCount
<1>3. /\ IsFiniteSet(Batch) /\ Cardinality(Batch) \in 0..BatchSize /\ batch_end \in 0..NumRequests
      /\ IsFiniteSet(recvs) /\ Cardinality(recvs) \in Nat
  <2>1. IsFiniteSet(Batch) /\ Cardinality(Batch) \in 0..BatchSize /\ batch_end \in i..NumRequests
    BY <1>0, BatchIs DEF PagesOK
  <2> QED  BY <1>0, <2>1, FS_Subset, FS_CardinalityType DEF PagesOK
<1>5. j \in Nat /\ j' \in Nat  BY <1>0, <1>1 DEF PagesOK
<1>6. Head(c_cq).event_type \in {"SEND", "RECEIVE"}  BY <1>2 DEF Cqe
<1>7. j' + Cardinality(recvs) + ReceivesIn(c_cq)' = Cardinality(Batch)
  <2>1. CASE Head(c_cq).event_type = "SEND"
    BY <1>1, <1>2, <1>3, <1>5, <2>1
  <2>2. CASE Head(c_cq).event_type = "RECEIVE"
    BY <1>1, <1>2, <1>3, <1>5, <2>2
  <2> QED  BY <1>6, <2>1, <2>2
<1>10. j' \in 0..BatchSize
  <2>1. BatchSize \in Nat  BY IouPagesAssumption
  <2>2. j' <= Cardinality(Batch)  BY <1>2, <1>3, <1>5, <1>7
  <2> QED  BY <1>3, <1>5, <2>1, <2>2
<1>8. CASE j' = Cardinality(Batch)
  <2>1. c_pc' = "send" /\ i' = batch_end  BY <1>8 DEF Reap
  <2>2. Cardinality(recvs) = 0 /\ ReceivesIn(c_cq)' = 0
    BY <1>2, <1>3, <1>5, <1>7, <1>8
  <2>3. recvs' = {}
    BY <1>1, <1>3, <2>2, FS_EmptySet
  <2> QED
    BY <1>0, <1>1, <1>2, <1>3, <1>10, <2>1, <2>2, <2>3 DEF BatchInv, PagesOK, Counting
<1>9. CASE j' # Cardinality(Batch)
  <2>1. c_pc' = c_pc /\ i' = i  BY <1>9 DEF Reap
  <2>2. Batch' = Batch  BY <2>1 DEF Batch, batch_end
  <2> QED
    BY <1>0, <1>1, <1>2, <1>10, <1>7, <2>1, <2>2 DEF BatchInv, PagesOK, Counting
<1> QED  BY <1>8, <1>9

LEMMA InvReceived ==
  BatchInv /\ (KernelSend \/ KernelRecv \/ KernelRecvEnd) => BatchInv'
<1> SUFFICES ASSUME BatchInv, KernelSend \/ KernelRecv \/ KernelRecvEnd PROVE BatchInv'
  OBVIOUS
<1>0. /\ responses = [k \in Request |-> responses[k]]
      /\ \A res \in {0, 1, T!Error} : res \in Int
  BY DEF BatchInv, PagesOK, T!Error
<1>1. CASE KernelSend
  <2>1. PICK res \in {1, T!Error} : ClientDone("SEND", res)
    BY <1>1 DEF KernelSend
  <2>2. UNCHANGED <<c_pc, i, j, responses, recvs>> /\ sends' \subseteq sends
    BY <1>1 DEF KernelSend
  <2> QED  BY <1>0, <2>1, <2>2, InvDone
<1>2. CASE KernelRecvEnd
  <2>1. PICK k \in recvs, res \in {0, T!Error} :
          recvs' = recvs \ {k} /\ ClientDone("RECEIVE", res)
    BY <1>2 DEF KernelRecvEnd
  <2>2. UNCHANGED <<c_pc, i, j, responses, sends>>  BY <1>2 DEF KernelRecvEnd
  <2> QED  BY <1>0, <2>1, <2>2, InvDone
<1>3. CASE KernelRecv
  <2>1. PICK k \in recvs, n \in 1..T!Smaller(2, Len(toClient)) :
          /\ responses' = [responses EXCEPT ![k] = SubSeq(toClient, 1, n)]
          /\ recvs' = recvs \ {k}
          /\ ClientDone("RECEIVE", n)
          /\ UNCHANGED <<c_pc, i, j, sends>>
    BY <1>3 DEF KernelRecv
  <2>2. responses' = [l \in Request |-> responses'[l]]  BY <1>0, <2>1
  <2>3. n \in Int  BY <2>1
  <2> QED  BY <2>1, <2>2, <2>3, InvDone
<1> QED  BY <1>1, <1>2, <1>3

LEMMA BatchInvStep == BatchInv /\ [PagesNext]_pagesVars => BatchInv'
<1> SUFFICES ASSUME BatchInv, [PagesNext]_pagesVars PROVE BatchInv'
  OBVIOUS
<1>1. CASE send_requests \/ PostReceives
  BY <1>1, InvPost
<1>2. CASE Reap
  BY <1>2, InvReap
<1>3. CASE Throw \/ Return \/ ClientDies
  BY <1>3, InvLeave DEF Throw, Return, ClientDies
<1>4. CASE KernelSend \/ KernelRecv \/ KernelRecvEnd
  BY <1>4, InvReceived
<1>5. CASE UNCHANGED clientSide
  BY <1>5, InvServer
<1>6. HandlerStep \/ ServerDies \/ KernelRead \/ KernelReadEnd \/ KernelWrite
        \/ UNCHANGED pagesVars => UNCHANGED clientSide
  BY DEF HandlerStep, HandleRead, Answer, HandleWrite, HandleEof, ServerDies, HandlerLeaves,
         KernelRead, KernelReadEnd, KernelWrite, pagesVars
<1> QED
  BY <1>1, <1>2, <1>3, <1>4, <1>5, <1>6 DEF PagesNext, ClientStep

(***************************************************************************)
(* When a batch is over no receive into its buffers is still with the      *)
(* kernel (client_iou.cpp receive_responses), however completions of sends *)
(* and receives come in, and whatever the receives got.                    *)
(***************************************************************************)
THEOREM BatchesSettle == PagesSpec => BuffersSettle
<1>1. BatchInv /\ [PagesNext]_pagesVars =>
        \A k \in 0..(i - 1) : responses'[k] = responses[k]
  <2> SUFFICES ASSUME BatchInv, [PagesNext]_pagesVars, NEW k \in 0..(i - 1)
               PROVE  responses'[k] = responses[k]
    OBVIOUS
  <2>0. /\ responses = [l \in Request |-> responses[l]] /\ recvs \subseteq Batch
        /\ i \in 0..NumRequests /\ NumRequests \in Nat
    BY IouPagesAssumption DEF BatchInv, PagesOK
  <2>1. CASE KernelRecv
    <3>1. PICK r \in recvs : \E v : responses' = [responses EXCEPT ![r] = v]
      BY <2>1 DEF KernelRecv
    <3>2. r >= i /\ r # k  BY <2>0, BatchIs
    <3>3. k \in Request  BY <2>0 DEF Request
    <3> QED  BY <2>0, <3>1, <3>2, <3>3
  <2>2. CASE responses' = responses
    BY <2>2
  <2>3. ~KernelRecv => responses' = responses
    BY DEF PagesNext, ClientStep, send_requests, PostReceives, Reap, Throw, Return, ClientDies,
           Leave, KernelSend, KernelRecvEnd, HandlerStep, HandleRead, Answer, HandleWrite,
           HandleEof, ServerDies, HandlerLeaves, KernelRead, KernelReadEnd, KernelWrite,
           pagesVars, clientSide
  <2> QED  BY <2>1, <2>2, <2>3
<1> QED
  BY <1>1, BatchInvInit, BatchInvStep, PTL DEF PagesSpec, BuffersSettle
-----------------------------------------------------------------------------
(* The requests and their answers.                                         *)

ServerCqe == [event_type : {"READ", "WRITE"}, res : Int, request : Request]

\* How many reads completed, in a completion queue of the handler, and how
\* many of them it takes for a request.
ReadsIn(q) == Cardinality(PlacesIn(q, {c \in ServerCqe : c.event_type = "READ"}))
DataIn(q) == Cardinality(PlacesIn(q, {c \in ServerCqe : c.event_type = "READ" /\ c.res # 0}))

Headers == {Blank.header} \cup {Header(k, status) : k \in Request, status \in Status}
Contents == {Blank.content, ErrorContent}
            \cup {PageContent(ServerPages, k % ClientPages) : k \in {l \in Request : Found(l)}}
Piece == ({"header"} \X Headers) \cup ({"content"} \X Contents)

NetworkOK ==
  /\ s_pc \in {"wait", "answer", "closed"} /\ request \in Request
  /\ stack \in [response : [header : Headers, content : Contents], page : Contents]
  /\ reads \in Nat /\ writes \in [Status -> Nat]
  /\ s_cq \in Seq(ServerCqe)
  /\ toServer \in Seq(Request) /\ toClient \in Seq(Piece)
  /\ link \in [T!End -> T!Link]
  /\ link["client"] = "open" <=> link["server"] = "open"

\* What buffer k holds, and that nothing is there before it is received into.
Fresh(k) ==
  \/ k \in recvs
  \/ c_pc \in {"send", "post"} /\ k >= i
  \/ c_pc = "reap" /\ k >= batch_end
BuffersOK ==
  /\ responses \in [Request -> Seq(Piece)]
  /\ \A k \in Request : Len(responses[k]) <= 2 /\ (Fresh(k) => Len(responses[k]) = 0)
  /\ \A k \in sends : k < IF c_pc = "send" THEN i ELSE batch_end

Busy == IF s_pc = "answer" THEN 1 ELSE 0
Reset == IF link["server"] = "rst" THEN 1 ELSE 0
Writes == writes[SUCCESS] + writes[INVALID_PAGE_NUMBER]

Load ==
  /\ s_pc # "closed" => reads + ReadsIn(s_cq) + Busy <= NumReads
  /\ s_pc = "closed" => reads = 0
  /\ DataIn(s_cq) + Busy + Writes + Len(toServer) + Reset <= NumRequests

Units == Sum([k \in Request |-> Len(responses[k])], Request)
Conserved ==
  link["server"] = "open" =>
    2 * (Sent - Len(toServer) - (ReadsIn(s_cq) + Busy + Writes)) = Len(toClient) + Units

PagesInv == BatchInv /\ NetworkOK /\ BuffersOK /\ Load /\ Conserved

-----------------------------------------------------------------------------

LEMMA ReadsCount ==
  ASSUME NEW q \in Seq(ServerCqe)
  PROVE  /\ ReadsIn(q) \in Nat /\ DataIn(q) \in Nat /\ DataIn(q) <= ReadsIn(q)
         /\ ReadsIn(<<>>) = 0 /\ DataIn(<<>>) = 0
         /\ \A c \in ServerCqe :
              /\ ReadsIn(Append(q, c)) = ReadsIn(q) + IF c.event_type = "READ" THEN 1 ELSE 0
              /\ DataIn(Append(q, c)) =
                   DataIn(q) + IF c.event_type = "READ" /\ c.res # 0 THEN 1 ELSE 0
         /\ q # <<>> =>
              /\ Head(q) \in ServerCqe /\ Tail(q) \in Seq(ServerCqe)
              /\ ReadsIn(q) = ReadsIn(Tail(q)) + IF Head(q).event_type = "READ" THEN 1 ELSE 0
              /\ DataIn(q) = DataIn(Tail(q))
                   + IF Head(q).event_type = "READ" /\ Head(q).res # 0 THEN 1 ELSE 0
<1> DEFINE R == {c \in ServerCqe : c.event_type = "READ"}
           D == {c \in ServerCqe : c.event_type = "READ" /\ c.res # 0}
<1>1. \A c \in ServerCqe : /\ c \in R <=> c.event_type = "READ"
                           /\ c \in D <=> c.event_type = "READ" /\ c.res # 0
  OBVIOUS
<1>2. \A r : ReadsIn(r) = Cardinality(PlacesIn(r, R)) /\ DataIn(r) = Cardinality(PlacesIn(r, D))
  BY DEF ReadsIn, DataIn
<1>3. DataIn(q) <= ReadsIn(q)
  <2>1. PlacesIn(q, D) \subseteq PlacesIn(q, R)  BY DEF PlacesIn
  <2> HIDE DEF R, D
  <2>2. IsFiniteSet(PlacesIn(q, R))  BY PlacesFinite
  <2>3. Cardinality(PlacesIn(q, D)) <= Cardinality(PlacesIn(q, R))  BY <2>1, <2>2, FS_Subset
  <2> QED  BY <1>2, <2>3
<1> HIDE DEF R, D
<1>4. /\ ReadsIn(q) \in Nat /\ DataIn(q) \in Nat
      /\ ReadsIn(<<>>) = 0 /\ DataIn(<<>>) = 0
  BY <1>2, PlacesFinite
<1>5. ASSUME NEW c \in ServerCqe
      PROVE  /\ ReadsIn(Append(q, c)) = ReadsIn(q) + IF c.event_type = "READ" THEN 1 ELSE 0
             /\ DataIn(Append(q, c)) =
                  DataIn(q) + IF c.event_type = "READ" /\ c.res # 0 THEN 1 ELSE 0
  <2>1. /\ Cardinality(PlacesIn(Append(q, c), R))
             = Cardinality(PlacesIn(q, R)) + IF c \in R THEN 1 ELSE 0
        /\ Cardinality(PlacesIn(Append(q, c), D))
             = Cardinality(PlacesIn(q, D)) + IF c \in D THEN 1 ELSE 0
    BY PlacesLast
  <2> QED  BY <1>1, <1>2, <2>1
<1>6. ASSUME q # <<>>
      PROVE  /\ Head(q) \in ServerCqe /\ Tail(q) \in Seq(ServerCqe)
             /\ ReadsIn(q) = ReadsIn(Tail(q)) + IF Head(q).event_type = "READ" THEN 1 ELSE 0
             /\ DataIn(q) = DataIn(Tail(q))
                  + IF Head(q).event_type = "READ" /\ Head(q).res # 0 THEN 1 ELSE 0
  <2>1. Head(q) \in ServerCqe /\ Tail(q) \in Seq(ServerCqe)  BY <1>6, QueueHead
  <2>2. /\ Cardinality(PlacesIn(q, R))
             = Cardinality(PlacesIn(Tail(q), R)) + IF Head(q) \in R THEN 1 ELSE 0
        /\ Cardinality(PlacesIn(q, D))
             = Cardinality(PlacesIn(Tail(q), D)) + IF Head(q) \in D THEN 1 ELSE 0
    BY <1>6, PlacesHead
  <2> QED  BY <1>1, <1>2, <2>1, <2>2
<1> QED  BY <1>3, <1>4, <1>5, <1>6

\* The numbers that the accounts are kept in.
LEMMA Numbers ==
  ASSUME BatchInv, NetworkOK, BuffersOK
  PROVE  /\ Sent \in Int /\ Sent <= NumRequests /\ NumRequests \in Nat
         /\ Units \in Nat
         /\ IsFiniteSet(Request) /\ IsFiniteSet(sends) /\ Cardinality(sends) \in Nat
         /\ ReadsIn(s_cq) \in Nat /\ DataIn(s_cq) \in Nat /\ DataIn(s_cq) <= ReadsIn(s_cq)
         /\ Busy \in {0, 1} /\ Reset \in {0, 1} /\ Writes \in Nat
         /\ writes[SUCCESS] \in Nat /\ writes[INVALID_PAGE_NUMBER] \in Nat
         /\ Len(toServer) \in Nat /\ Len(toClient) \in Nat
<1>1. NumRequests \in Nat /\ i \in 0..NumRequests /\ batch_end \in 0..NumRequests
  BY IouPagesAssumption, BatchIs DEF BatchInv, PagesOK
<1>2. IsFiniteSet(Request)  BY <1>1, FS_Interval DEF Request
<1>3. IsFiniteSet(sends) /\ Cardinality(sends) \in Nat
  BY <1>2, FS_Subset, FS_CardinalityType DEF BatchInv, PagesOK
<1>4. Sent \in Int /\ Sent <= NumRequests  BY <1>1, <1>3 DEF Sent
<1>5. Units \in Nat
  <2> DEFINE f == [k \in Request |-> Len(responses[k])]
  <2>1. \A k \in Request : f[k] \in Nat  BY DEF BuffersOK
  <2> HIDE DEF f
  <2>2. Sum(f, Request) \in Nat  BY <1>2, <2>1, SumOfNumbers
  <2> QED  BY <2>2 DEF Units, f
<1>6. /\ ReadsIn(s_cq) \in Nat /\ DataIn(s_cq) \in Nat /\ DataIn(s_cq) <= ReadsIn(s_cq)
  BY ReadsCount DEF NetworkOK
<1>7. /\ writes[SUCCESS] \in Nat /\ writes[INVALID_PAGE_NUMBER] \in Nat /\ Writes \in Nat
  BY DEF NetworkOK, Writes, Status
<1>8. Len(toServer) \in Nat /\ Len(toClient) \in Nat  BY DEF NetworkOK
<1> QED  BY <1>1, <1>2, <1>3, <1>4, <1>5, <1>6, <1>7, <1>8 DEF Busy, Reset

-----------------------------------------------------------------------------
(* The client thread.                                                      *)

LEMMA TurnsKeepAccounts ==
  ASSUME PagesInv, send_requests \/ PostReceives \/ Reap
  PROVE  PagesInv'
<1>0. BatchInv /\ NetworkOK /\ BuffersOK /\ Load /\ Conserved  BY DEF PagesInv
<1>1. BatchInv'  BY <1>0, InvPost, InvReap
<1>2. UNCHANGED <<responses, serverSide, network>>
  BY DEF send_requests, PostReceives, Reap
<1>3. NetworkOK'  BY <1>0, <1>2 DEF NetworkOK, serverSide, network
<1>4. /\ ReadsIn(s_cq)' = ReadsIn(s_cq) /\ DataIn(s_cq)' = DataIn(s_cq)
      /\ Busy' = Busy /\ Writes' = Writes /\ Reset' = Reset /\ Units' = Units
  BY <1>2 DEF serverSide, network, ReadsIn, DataIn, PlacesIn, Busy, Writes, Reset, Units
<1>5. Load'
  BY <1>0, <1>2, <1>4 DEF Load, serverSide, network
<1>6. /\ i \in 0..NumRequests /\ NumRequests \in Nat /\ sends \subseteq Request
      /\ batch_end \in i..NumRequests /\ IsFiniteSet(Batch) /\ Cardinality(Batch) = batch_end - i
      /\ IsFiniteSet(sends) /\ Cardinality(sends) \in Nat
  BY <1>0, BatchIs, Numbers DEF BatchInv, PagesOK
<1> HIDE DEF batch_end
<1>7. CASE send_requests
  <2>1. /\ c_pc = "send" /\ c_pc' = "post" /\ sends' = sends \cup Batch
        /\ UNCHANGED <<i, recvs>>
    BY <1>7 DEF send_requests
  <2>2. batch_end' = batch_end  BY <2>1 DEF batch_end
  <2>3. BuffersOK'
    <3>1. \A k \in Request : Fresh(k)' => Fresh(k)  BY <1>6, <2>1, <2>2 DEF Fresh
    <3>2. \A k \in sends' : k < batch_end  BY <1>0, <1>6, <2>1 DEF BuffersOK, Batch, Request
    <3> QED  BY <1>0, <1>2, <2>1, <2>2, <3>1, <3>2 DEF BuffersOK
  <2>4. Sent' = Sent
    <3>1. sends \cap Batch = {}  BY <1>0, <1>6, <2>1 DEF BuffersOK, Batch, Request
    <3>2. Cardinality(sends \cup Batch) = Cardinality(sends) + Cardinality(Batch) - Cardinality(sends \cap Batch)
      BY <1>6, FS_Union
    <3>3. Cardinality(sends') = Cardinality(sends) + (batch_end - i)
      <4>1. Cardinality(sends \cap Batch) = 0  BY <3>1, FS_EmptySet
      <4>2. batch_end - i \in Nat  BY <1>6
      <4> QED  BY <1>6, <2>1, <3>2, <4>1, <4>2
    <3> QED  BY <1>6, <2>1, <2>2, <3>3 DEF Sent
  <2>5. Conserved'  BY <1>0, <1>2, <1>4, <2>4 DEF Conserved, serverSide, network
  <2> QED  BY <1>1, <1>3, <1>5, <2>3, <2>5 DEF PagesInv
<1>8. CASE PostReceives
  <2>1. /\ c_pc = "post" /\ c_pc' = "reap" /\ recvs' = Batch
        /\ UNCHANGED <<i, sends>>
    <3>1. recvs = {} /\ c_pc = "post"  BY <1>0, <1>8 DEF PostReceives, BatchInv, Counting
    <3> QED  BY <1>8, <3>1 DEF PostReceives
  <2>2. batch_end' = batch_end  BY <2>1 DEF batch_end
  <2>3. BuffersOK'
    <3>1. \A k \in Request : Fresh(k)' => Fresh(k)
      BY <1>6, <2>1, <2>2 DEF Fresh, Batch, Request
    <3> QED  BY <1>0, <1>2, <2>1, <2>2, <3>1 DEF BuffersOK
  <2>4. Sent' = Sent  BY <2>1, <2>2 DEF Sent
  <2>5. Conserved'  BY <1>0, <1>2, <1>4, <2>4 DEF Conserved, serverSide, network
  <2> QED  BY <1>1, <1>3, <1>5, <2>3, <2>5 DEF PagesInv
<1>9. CASE Reap
  <2>1. /\ c_pc = "reap" /\ UNCHANGED <<sends, recvs>>
        /\ \/ c_pc' = "send" /\ i' = batch_end
           \/ c_pc' = "reap" /\ i' = i
    BY <1>9 DEF Reap
  <2>2. c_pc' = "reap" => batch_end' = batch_end  BY <2>1 DEF batch_end
  <2>3. BuffersOK'
    <3>1. \A k \in Request : Fresh(k)' => Fresh(k)
      BY <1>6, <2>1, <2>2 DEF Fresh, Request
    <3> QED  BY <1>0, <1>2, <2>1, <2>2, <3>1 DEF BuffersOK
  <2>4. Sent' = Sent  BY <2>1, <2>2 DEF Sent
  <2>5. Conserved'  BY <1>0, <1>2, <1>4, <2>4 DEF Conserved, serverSide, network
  <2> QED  BY <1>1, <1>3, <1>5, <2>3, <2>5 DEF PagesInv
<1> QED  BY <1>7, <1>8, <1>9

\* The client leaves: it resets the connection only with an answer unread,
\* which makes up for the one read that this fails.
LEMMA LeavingKeepsAccounts ==
  ASSUME PagesInv, NEW how \in {"closed", "thrown"}, Leave(how), j' = j
  PROVE  PagesInv'
<1>0. BatchInv /\ NetworkOK /\ BuffersOK /\ Load /\ Conserved  BY DEF PagesInv
<1>1. BatchInv'  BY <1>0, InvLeave
<1>2. /\ c_pc' = how /\ sends' = {} /\ recvs' = {} /\ toClient' = <<>>
      /\ UNCHANGED <<i, responses, serverSide>>
      /\ link' = [link EXCEPT !["client"] = "closed",
                              !["server"] = IF @ # "open" THEN @
                                            ELSE IF Len(toClient) > 0 THEN "rst" ELSE "fin"]
  BY DEF Leave, T!ClientClose, T!Hangup
<1>3. PICK n \in 0..Len(toServer) : toServer' = SubSeq(toServer, 1, n)
  BY DEF Leave, T!ClientClose
<1>4. toServer' \in Seq(Request) /\ Len(toServer') <= Len(toServer) /\ Len(toServer') \in Nat
  BY <1>0, <1>3, Cut DEF NetworkOK
<1>5. /\ link' \in [T!End -> T!Link] /\ link'["client"] # "open" /\ link'["server"] # "open"
      /\ link'["server"] = "rst" =>
           link["server"] = "rst" \/ (link["server"] = "open" /\ Len(toClient) > 0)
  BY <1>0, <1>2 DEF NetworkOK, T!End, T!Link
<1>6. NetworkOK'
  <2>1. <<>> \in Seq(Piece)  OBVIOUS
  <2> QED  BY <1>0, <1>2, <1>4, <1>5, <2>1 DEF NetworkOK, serverSide
<1>7. BuffersOK'
  <2>1. \A k \in Request : ~Fresh(k)'  BY <1>2 DEF Fresh
  <2> QED  BY <1>0, <1>2, <2>1 DEF BuffersOK
<1>8. /\ ReadsIn(s_cq)' = ReadsIn(s_cq) /\ DataIn(s_cq)' = DataIn(s_cq)
      /\ Busy' = Busy /\ Writes' = Writes
  BY <1>2 DEF serverSide, ReadsIn, DataIn, PlacesIn, Busy, Writes
<1>9. Load'
  <2>1. s_pc' = s_pc /\ reads' = reads  BY <1>2 DEF serverSide
  <2>2. DataIn(s_cq) + Busy + Writes + Len(toServer') + Reset' <= NumRequests
    <3>1. CASE link["server"] = "open" /\ link'["server"] = "rst"
      <4>1. 2 * (Sent - Len(toServer) - (ReadsIn(s_cq) + Busy + Writes)) = Len(toClient) + Units
            /\ Len(toClient) > 0 /\ Reset' = 1
        BY <1>0, <1>5, <3>1 DEF Conserved, Reset
      <4>2. /\ DataIn(s_cq) \in Nat /\ ReadsIn(s_cq) \in Nat /\ DataIn(s_cq) <= ReadsIn(s_cq)
            /\ Busy \in Nat /\ Writes \in Nat /\ Len(toServer) \in Nat /\ Len(toClient) \in Nat
            /\ Units \in Nat /\ Sent \in Int /\ Sent <= NumRequests /\ NumRequests \in Nat
        BY <1>0, Numbers
      <4>3. Sent - Len(toServer) - (ReadsIn(s_cq) + Busy + Writes) >= 1
        BY <4>1, <4>2
      <4>4. DataIn(s_cq) + Busy + Writes + Len(toServer) <= Sent - 1  BY <4>3, <4>2
      <4>5. DataIn(s_cq) + Busy + Writes + Len(toServer') <= NumRequests - 1
        BY <1>4, <4>4, <4>2
      <4>6. Reset' = 1  BY <4>1
      <4> QED  BY <1>4, <4>5, <4>2, <4>6
    <3>2. CASE ~(link["server"] = "open" /\ link'["server"] = "rst")
      <4>1. Reset' = Reset \/ Reset' = 0  BY <1>5, <3>2 DEF Reset
      <4>2. DataIn(s_cq) + Busy + Writes + Len(toServer) + Reset <= NumRequests
        BY <1>0 DEF Load
      <4>3. /\ DataIn(s_cq) \in Nat /\ Busy \in Nat /\ Writes \in Nat /\ NumRequests \in Nat
            /\ Len(toServer) \in Nat /\ Reset \in {0, 1}
        BY <1>0, Numbers
      <4> QED  BY <1>4, <4>1, <4>2, <4>3
    <3> QED  BY <3>1, <3>2
  <2> QED  BY <1>0, <1>8, <2>1, <2>2 DEF Load
<1>10. Conserved'  BY <1>5 DEF Conserved
<1> QED  BY <1>1, <1>6, <1>7, <1>9, <1>10 DEF PagesInv

-----------------------------------------------------------------------------
(* The kernel of the client.                                               *)

\* An operation of endpoint e that reaches nobody, or finds the end.
LEMMA LinkMoves ==
  ASSUME NetworkOK, NEW e \in T!End, NEW size, NEW res,
         T!SendInVain(e, size, res) \/ T!ReadEnd(e, res)
  PROVE  /\ link' \in [T!End -> T!Link]
         /\ link[e] # "open"
         /\ \A d \in T!End : link'[d] = "open" <=> link[d] = "open"
         /\ link'["server"] = "rst" => link["server"] = "rst"
         /\ T!ReadEnd("server", res) =>
              (res = 0 \/ (link["server"] = "rst" /\ link'["server"] # "rst"))
BY DEF NetworkOK, T!SendInVain, T!ReadEnd, T!Mark, T!Broken, T!End, T!Link

LEMMA SendKeepsAccounts == PagesInv /\ KernelSend => PagesInv'
<1> SUFFICES ASSUME PagesInv, KernelSend PROVE PagesInv'
  OBVIOUS
<1>0. BatchInv /\ NetworkOK /\ BuffersOK /\ Load /\ Conserved  BY DEF PagesInv
<1>1. BatchInv'  BY <1>0, InvReceived
<1>2. PICK k \in sends, res \in {1, T!Error} :
        /\ T!ClientSend(<<k>>, res) /\ sends' = sends \ {k}
        /\ UNCHANGED <<toClient, c_pc, i, responses, recvs, serverSide>>
  BY DEF KernelSend
<1>3. k \in Request  BY <1>0 DEF BatchInv, PagesOK
<1>4. /\ ReadsIn(s_cq)' = ReadsIn(s_cq) /\ DataIn(s_cq)' = DataIn(s_cq)
      /\ Busy' = Busy /\ Writes' = Writes /\ Units' = Units
      /\ s_pc' = s_pc /\ reads' = reads
  BY <1>2 DEF serverSide, ReadsIn, DataIn, PlacesIn, Busy, Writes, Units
<1>5. BuffersOK'
  <2>1. \A l \in Request : Fresh(l)' <=> Fresh(l)  BY <1>2 DEF Fresh, batch_end
  <2>2. batch_end' = batch_end  BY <1>2 DEF batch_end
  <2> QED  BY <1>0, <1>2, <2>1, <2>2 DEF BuffersOK
<1>6. /\ Sent \in Int /\ Units \in Nat /\ ReadsIn(s_cq) \in Nat /\ DataIn(s_cq) \in Nat
      /\ DataIn(s_cq) <= ReadsIn(s_cq) /\ Busy \in Nat /\ Writes \in Nat /\ NumRequests \in Nat
      /\ Len(toServer) \in Nat /\ Len(toClient) \in Nat /\ Reset \in {0, 1}
  BY <1>0, Numbers
<1>7. CASE T!SendInVain("client", 1, res) /\ UNCHANGED <<toServer>>
  <2>1. /\ link' \in [T!End -> T!Link] /\ link["client"] # "open"
        /\ \A d \in T!End : link'[d] = "open" <=> link[d] = "open"
        /\ link'["server"] = "rst" => link["server"] = "rst"
    BY <1>0, <1>7, LinkMoves DEF T!End
  <2>2. NetworkOK'  BY <1>0, <1>2, <1>7, <2>1 DEF NetworkOK, serverSide, T!End
  <2>3. Conserved'  BY <1>0, <2>1 DEF Conserved, NetworkOK, T!End
  <2>4. Reset' \in {0, Reset}  BY <2>1 DEF Reset
  <2>5. Load'
    <3>1. DataIn(s_cq) + Busy + Writes + Len(toServer) + Reset <= NumRequests  BY <1>0 DEF Load
    <3>2. DataIn(s_cq) + Busy + Writes + Len(toServer) + Reset' <= NumRequests
      BY <1>6, <2>4, <3>1
    <3> QED  BY <1>0, <1>4, <1>7, <3>2 DEF Load
  <2> QED  BY <1>1, <1>5, <2>2, <2>3, <2>5 DEF PagesInv
<1>8. CASE /\ link["client"] = "open" /\ UNCHANGED link
           /\ toServer' = toServer \o <<k>>
  <2>1. toServer' \in Seq(Request) /\ Len(toServer') = Len(toServer) + 1
    BY <1>0, <1>3, <1>8 DEF NetworkOK
  <2>2. NetworkOK'  BY <1>0, <1>2, <1>8, <2>1 DEF NetworkOK, serverSide
  <2>3. Sent' = Sent + 1 /\ Sent' <= NumRequests
    <3>1. IsFiniteSet(sends) /\ Cardinality(sends) \in Nat  BY <1>0, Numbers
    <3>2. Cardinality(sends') = Cardinality(sends) - 1 /\ Cardinality(sends') \in Nat
      <4>1. IsFiniteSet(sends \ {k})  BY <3>1, FS_Subset
      <4> QED  BY <1>2, <3>1, <4>1, FS_RemoveElement, FS_CardinalityType
    <3>3. batch_end' = batch_end /\ i' = i /\ c_pc' = c_pc  BY <1>2 DEF batch_end
    <3>4. i \in 0..NumRequests /\ batch_end \in i..NumRequests
      BY <1>0, BatchIs, <1>6 DEF BatchInv, PagesOK
    <3> HIDE DEF batch_end
    <3> QED  BY <1>6, <3>1, <3>2, <3>3, <3>4 DEF Sent
  <2>4. link["server"] = "open" /\ link'["server"] = "open"  BY <1>0, <1>8 DEF NetworkOK
  <2>5. 2 * (Sent - Len(toServer) - (ReadsIn(s_cq) + Busy + Writes)) = Len(toClient) + Units
    BY <1>0, <2>4 DEF Conserved
  <2>6. 2 * (Sent' - Len(toServer') - (ReadsIn(s_cq) + Busy + Writes)) = Len(toClient) + Units
    <3>1. Sent' - Len(toServer') = Sent - Len(toServer)  BY <1>6, <2>1, <2>3
    <3> QED  BY <2>5, <3>1
  <2>7. Conserved'
    BY <1>2, <1>4, <2>6 DEF Conserved
  <2>8. Load'
    <3>1. Sent' <= NumRequests /\ Sent' \in Int /\ Len(toServer') \in Nat  BY <1>6, <2>1, <2>3
    <3>2. Sent' - Len(toServer') - (ReadsIn(s_cq) + Busy + Writes) >= 0
      BY <1>6, <2>6, <3>1
    <3>3. DataIn(s_cq) + Busy + Writes + Len(toServer') + 0 <= NumRequests
      BY <1>6, <3>1, <3>2
    <3>4. Reset' = 0  BY <2>4 DEF Reset
    <3> QED  BY <1>0, <1>4, <3>3, <3>4 DEF Load
  <2> QED  BY <1>1, <1>5, <2>2, <2>7, <2>8 DEF PagesInv
<1>9. Len(<<k>>) = 1  OBVIOUS
<1> QED  BY <1>2, <1>7, <1>8, <1>9 DEF T!ClientSend

LEMMA ReceiveKeepsAccounts == PagesInv /\ KernelRecv => PagesInv'
<1> SUFFICES ASSUME PagesInv, KernelRecv PROVE PagesInv'
  OBVIOUS
<1>0. BatchInv /\ NetworkOK /\ BuffersOK /\ Load /\ Conserved  BY DEF PagesInv
<1>1. BatchInv'  BY <1>0, InvReceived
<1>2. PICK k \in recvs, n \in 1..T!Smaller(2, Len(toClient)) :
        /\ toClient' = SubSeq(toClient, n + 1, Len(toClient))
        /\ responses' = [responses EXCEPT ![k] = SubSeq(toClient, 1, n)]
        /\ recvs' = recvs \ {k}
        /\ UNCHANGED <<toServer, link, c_pc, i, sends, serverSide>>
  BY DEF KernelRecv, T!ClientReceive
<1>3. k \in Request /\ Fresh(k)
  BY <1>0, BatchIs DEF BatchInv, PagesOK, Fresh
<1>4. n \in 1..2 /\ n \in 0..Len(toClient)
  <2>1. Len(toClient) \in Nat  BY <1>0, Numbers
  <2> QED  BY <2>1 DEF T!Smaller
<1>5. /\ toClient' \in Seq(Piece) /\ Len(toClient') = Len(toClient) - n
      /\ SubSeq(toClient, 1, n) \in Seq(Piece) /\ Len(SubSeq(toClient, 1, n)) = n
  BY <1>0, <1>2, <1>4, Cut, Rest DEF NetworkOK
<1>6. responses \in [Request -> Seq(Piece)] /\ Len(responses[k]) = 0
  BY <1>0, <1>3 DEF BuffersOK
<1>7. /\ ReadsIn(s_cq)' = ReadsIn(s_cq) /\ DataIn(s_cq)' = DataIn(s_cq)
      /\ Busy' = Busy /\ Writes' = Writes /\ Reset' = Reset /\ Sent' = Sent
  BY <1>2 DEF serverSide, ReadsIn, DataIn, PlacesIn, Busy, Writes, Reset, Sent, batch_end
<1>8. NetworkOK'  BY <1>0, <1>2, <1>5 DEF NetworkOK, serverSide
<1>9. Load'  BY <1>0, <1>2, <1>7 DEF Load, serverSide
<1>10. BuffersOK'
  <2>1. \A l \in Request : Fresh(l)' => Fresh(l)  BY <1>2 DEF Fresh, batch_end
  <2>2. c_pc = "reap" /\ k < batch_end
    <3>1. k \in Batch /\ c_pc = "reap"  BY <1>0 DEF BatchInv, PagesOK, Counting
    <3>2. i \in 0..NumRequests /\ NumRequests \in Nat /\ batch_end \in i..NumRequests
      BY <1>0, BatchIs, Numbers DEF BatchInv, PagesOK
    <3> HIDE DEF batch_end
    <3> QED  BY <3>1, <3>2 DEF Batch
  <2>3. ~Fresh(k)'
    <3>1. batch_end' = batch_end /\ c_pc' = "reap" /\ k \notin recvs'
      BY <1>2, <2>2 DEF batch_end
    <3>2. k \in Nat /\ batch_end \in Int
      BY <1>0, <1>3, BatchIs DEF BatchInv, PagesOK, Request
    <3> HIDE DEF batch_end
    <3> QED  BY <2>2, <3>1, <3>2 DEF Fresh
  <2>4. responses' \in [Request -> Seq(Piece)] /\ responses'[k] = SubSeq(toClient, 1, n)
        /\ \A l \in Request \ {k} : responses'[l] = responses[l]
    BY <1>2, <1>3, <1>5, <1>6
  <2>5. batch_end' = batch_end  BY <1>2 DEF batch_end
  <2>6. ASSUME NEW l \in Request
        PROVE  Len(responses'[l]) <= 2 /\ (Fresh(l)' => Len(responses'[l]) = 0)
    <3>1. CASE l = k  BY <1>4, <1>5, <2>3, <2>4, <3>1
    <3>2. CASE l # k  BY <1>0, <2>1, <2>4, <3>2 DEF BuffersOK
    <3> QED  BY <3>1, <3>2
  <2> QED  BY <1>0, <1>2, <2>4, <2>5, <2>6 DEF BuffersOK
<1>11. Units' = Units + n
  <2> DEFINE f == [l \in Request |-> Len(responses[l])]
             d == [l \in Request |-> Len(responses'[l])]
  <2>1. \A l \in Request : f[l] \in Int /\ d[l] \in Int
    BY <1>0, <1>10 DEF BuffersOK
  <2>2. f[k] = 0 /\ d[k] = n /\ \A l \in Request \ {k} : f[l] = d[l]
    BY <1>2, <1>3, <1>5, <1>6
  <2>3. Units = Sum(f, Request) /\ Units' = Sum(d, Request)  BY DEF Units
  <2> HIDE DEF f, d
  <2>4. Terms(f, Request) /\ Terms(d, Request)  BY <2>1 DEF Terms
  <2>5. IsFiniteSet(Request) /\ Units \in Nat  BY <1>0, Numbers
  <2>6. Sum(d, Request) = Sum(f, Request) - f[k] + d[k]
    BY <1>3, <2>2, <2>4, <2>5, SumReplaced
  <2> QED  BY <1>4, <2>2, <2>3, <2>5, <2>6
<1>12. Conserved'
  <2>1. Len(toClient') + Units' = Len(toClient) + Units
    <3>1. Len(toClient) \in Nat /\ Units \in Nat  BY <1>0, Numbers
    <3> QED  BY <1>4, <1>5, <1>11, <3>1
  <2> QED  BY <1>0, <1>2, <1>7, <2>1 DEF Conserved
<1> QED  BY <1>1, <1>8, <1>9, <1>10, <1>12 DEF PagesInv

LEMMA ReceiveEndKeepsAccounts == PagesInv /\ KernelRecvEnd => PagesInv'
<1> SUFFICES ASSUME PagesInv, KernelRecvEnd PROVE PagesInv'
  OBVIOUS
<1>0. BatchInv /\ NetworkOK /\ BuffersOK /\ Load /\ Conserved  BY DEF PagesInv
<1>1. BatchInv'  BY <1>0, InvReceived
<1>2. PICK k \in recvs, res \in {0, T!Error} :
        /\ T!ReadEnd("client", res) /\ recvs' = recvs \ {k}
        /\ UNCHANGED <<toServer, toClient, c_pc, i, responses, sends, serverSide>>
  BY DEF KernelRecvEnd, T!ClientReceiveEnd
<1>3. /\ link' \in [T!End -> T!Link] /\ link["client"] # "open"
      /\ \A d \in T!End : link'[d] = "open" <=> link[d] = "open"
      /\ link'["server"] = link["server"]
  <2>1. link'["server"] = link["server"]
    BY <1>0, <1>2 DEF T!ReadEnd, T!Mark, NetworkOK, T!End
  <2> QED  BY <1>0, <1>2, <2>1, LinkMoves DEF T!End
<1>4. /\ ReadsIn(s_cq)' = ReadsIn(s_cq) /\ DataIn(s_cq)' = DataIn(s_cq)
      /\ Busy' = Busy /\ Writes' = Writes /\ Reset' = Reset
  BY <1>2, <1>3 DEF serverSide, ReadsIn, DataIn, PlacesIn, Busy, Writes, Reset
<1>5. NetworkOK'  BY <1>0, <1>2, <1>3 DEF NetworkOK, serverSide, T!End
<1>6. Load'  BY <1>0, <1>2, <1>4 DEF Load, serverSide
<1>7. BuffersOK'
  <2>1. \A l \in Request : Fresh(l)' => Fresh(l)  BY <1>2 DEF Fresh, batch_end
  <2>2. batch_end' = batch_end  BY <1>2 DEF batch_end
  <2> QED  BY <1>0, <1>2, <2>1, <2>2 DEF BuffersOK
<1>8. Conserved'  BY <1>0, <1>3 DEF Conserved, NetworkOK, T!End
<1> QED  BY <1>1, <1>5, <1>6, <1>7, <1>8 DEF PagesInv

-----------------------------------------------------------------------------
(* The handler.                                                            *)

\* What a step of the handler or of its kernel leaves alone.
LEMMA ClientUntouched ==
  ASSUME PagesInv, UNCHANGED clientSide
  PROVE  BatchInv' /\ BuffersOK' /\ Sent' = Sent /\ Units' = Units
<1>1. BatchInv'  BY InvServer DEF PagesInv
<1>2. /\ UNCHANGED <<c_pc, i, sends, recvs, responses>> /\ batch_end' = batch_end
      /\ \A k : Fresh(k)' <=> Fresh(k)
  BY DEF clientSide, Fresh, batch_end
<1>3. BuffersOK'  BY <1>2 DEF PagesInv, BuffersOK
<1> QED  BY <1>1, <1>2, <1>3 DEF Sent, Units

LEMMA LeavingHandlerKeepsAccounts ==
  ASSUME PagesInv, HandlerLeaves
  PROVE  PagesInv'
<1>0. BatchInv /\ NetworkOK /\ BuffersOK /\ Load /\ Conserved  BY DEF PagesInv
<1>1. /\ s_pc' = "closed" /\ reads' = 0 /\ writes' = [status \in Status |-> 0] /\ s_cq' = <<>>
      /\ toServer' = <<>> /\ UNCHANGED <<request, stack, clientSide>>
      /\ link' = [link EXCEPT !["server"] = "closed",
                              !["client"] = IF @ # "open" THEN @
                                            ELSE IF toServer # <<>> THEN "rst" ELSE "fin"]
  BY DEF HandlerLeaves, T!ServerClose, T!Hangup
<1>2. PICK n \in 0..Len(toClient) : toClient' = SubSeq(toClient, 1, n)
  BY DEF HandlerLeaves
<1>3. toClient' \in Seq(Piece)  BY <1>0, <1>2, Cut DEF NetworkOK
<1>4. link' \in [T!End -> T!Link] /\ link'["client"] # "open" /\ link'["server"] = "closed"
  BY <1>0, <1>1 DEF NetworkOK, T!End, T!Link
<1>5. NetworkOK'
  <2>1. <<>> \in Seq(Request) /\ <<>> \in Seq(ServerCqe)  OBVIOUS
  <2> QED  BY <1>0, <1>1, <1>3, <1>4, <2>1 DEF NetworkOK
<1>6. Load'
  <2>1. Len(toServer') = 0 /\ Busy' = 0 /\ Reset' = 0 /\ Writes' = 0
    BY <1>1, <1>4 DEF Busy, Reset, Writes, Status
  <2>2. DataIn(s_cq)' = 0
    <3>1. DataIn(s_cq)' = DataIn(<<>>) /\ <<>> \in Seq(ServerCqe)
      BY <1>1 DEF DataIn, PlacesIn
    <3> QED  BY <3>1, ReadsCount
  <2> QED  BY <1>1, <2>1, <2>2, IouPagesAssumption DEF Load
<1>7. BatchInv' /\ BuffersOK'  BY <1>1, ClientUntouched
<1>8. Conserved'  BY <1>4 DEF Conserved
<1> QED  BY <1>5, <1>6, <1>7, <1>8 DEF PagesInv

LEMMA HandlingKeepsAccounts ==
  ASSUME PagesInv, HandleRead \/ HandleWrite
  PROVE  PagesInv'
<1>0. BatchInv /\ NetworkOK /\ BuffersOK /\ Load /\ Conserved  BY DEF PagesInv
<1> DEFINE c == Head(s_cq)
<1>1. /\ s_pc = "wait" /\ s_cq # <<>> /\ s_cq' = Tail(s_cq)
      /\ UNCHANGED <<reads, writes, clientSide, network>>
      /\ \/ /\ c.event_type = "READ" /\ c.res # 0
            /\ s_pc' = "answer" /\ request' = c.request
            /\ stack' = [stack EXCEPT !.response = Blank]
         \/ /\ c.event_type = "WRITE"
            /\ UNCHANGED <<s_pc, request, stack>>
  BY DEF HandleRead, HandleWrite
<1>2. c \in ServerCqe /\ s_cq' \in Seq(ServerCqe)
  BY <1>0, <1>1, ReadsCount DEF NetworkOK
<1>3. /\ ReadsIn(s_cq) = ReadsIn(s_cq)' + IF c.event_type = "READ" THEN 1 ELSE 0
      /\ DataIn(s_cq) = DataIn(s_cq)' + IF c.event_type = "READ" /\ c.res # 0 THEN 1 ELSE 0
      /\ ReadsIn(s_cq)' \in Nat /\ DataIn(s_cq)' \in Nat
  <2>1. /\ ReadsIn(s_cq)' = ReadsIn(Tail(s_cq)) /\ DataIn(s_cq)' = DataIn(Tail(s_cq))
        /\ Tail(s_cq) \in Seq(ServerCqe)
    BY <1>1, <1>2 DEF ReadsIn, DataIn, PlacesIn
  <2> QED  BY <1>0, <1>1, <2>1, ReadsCount DEF NetworkOK
<1>4. NetworkOK'
  <2>1. stack' \in [response : [header : Headers, content : Contents], page : Contents]
    <3>1. Blank \in [header : Headers, content : Contents]
      BY DEF Blank, Headers, Contents
    <3>2. stack \in [response : [header : Headers, content : Contents], page : Contents]
      BY <1>0 DEF NetworkOK
    <3> HIDE DEF Blank
    <3> QED  BY <1>1, <3>1, <3>2
  <2>2. c.request \in Request  BY <1>2 DEF ServerCqe
  <2> HIDE DEF c
  <2> QED  BY <1>0, <1>1, <1>2, <2>1, <2>2 DEF NetworkOK, network
<1>5. BatchInv' /\ BuffersOK' /\ Sent' = Sent /\ Units' = Units  BY <1>1, ClientUntouched
<1>6. Writes' = Writes /\ Reset' = Reset  BY <1>1 DEF Writes, Reset, network
<1>7. ReadsIn(s_cq)' + Busy' = ReadsIn(s_cq) + Busy /\ DataIn(s_cq)' + Busy' = DataIn(s_cq) + Busy
  BY <1>1, <1>3 DEF Busy
<1>8. /\ s_pc # "closed" /\ s_pc' # "closed" /\ reads' = reads
      /\ toServer' = toServer /\ toClient' = toClient /\ link' = link
  BY <1>1 DEF network
<1> HIDE DEF c
<1>9. /\ ReadsIn(s_cq) \in Nat /\ DataIn(s_cq) \in Nat /\ Busy \in {0, 1} /\ Busy' \in {0, 1}
      /\ Writes \in Nat /\ Len(toServer) \in Nat /\ Reset \in {0, 1} /\ reads \in Nat
  BY <1>0, Numbers DEF Busy, NetworkOK
<1>10. Load'
  <2>1. /\ reads + ReadsIn(s_cq) + Busy <= NumReads
        /\ DataIn(s_cq) + Busy + Writes + Len(toServer) + Reset <= NumRequests
    BY <1>0, <1>8 DEF Load
  <2>2. reads + ReadsIn(s_cq)' + Busy' = reads + ReadsIn(s_cq) + Busy
    BY <1>3, <1>7, <1>9
  <2>3. DataIn(s_cq)' + Busy' + Writes + Len(toServer) + Reset
          = DataIn(s_cq) + Busy + Writes + Len(toServer) + Reset
    BY <1>3, <1>7, <1>9
  <2> QED  BY <1>6, <1>8, <2>1, <2>2, <2>3 DEF Load
<1>11. Conserved'
  <2>1. ReadsIn(s_cq)' + Busy' + Writes = ReadsIn(s_cq) + Busy + Writes
    BY <1>3, <1>7, <1>9
  <2> QED  BY <1>0, <1>5, <1>6, <1>8, <2>1 DEF Conserved
<1> QED  BY <1>4, <1>5, <1>10, <1>11 DEF PagesInv

\* An answer takes the place of the request, and the read is posted again.
LEMMA AnsweringKeepsAccounts == PagesInv /\ Answer => PagesInv'
<1> SUFFICES ASSUME PagesInv, Answer PROVE PagesInv'
  OBVIOUS
<1>0. BatchInv /\ NetworkOK /\ BuffersOK /\ Load /\ Conserved  BY DEF PagesInv
<1>1. /\ s_pc = "answer" /\ s_pc' = "wait" /\ reads' = reads + 1
      /\ UNCHANGED <<request, s_cq, clientSide, toServer, toClient, link>>
  BY DEF Answer, network
<1>2. request \in Request /\ writes \in [Status -> Nat] /\ reads \in Nat
      /\ stack \in [response : [header : Headers, content : Contents], page : Contents]
  BY <1>0 DEF NetworkOK
<1>3. /\ stack' \in [response : [header : Headers, content : Contents], page : Contents]
      /\ \E status \in Status : writes' = [writes EXCEPT ![status] = @ + 1]
  <2>1. CASE AnswerFound
    <3>1. Header(request, SUCCESS) \in Headers  BY <1>2 DEF Headers, Status
    <3>2. PageContent(ServerPages, request % ClientPages) \in Contents /\ Blank.content \in Contents
      BY <1>2, <2>1 DEF Contents, AnswerFound
    <3>3. [Blank EXCEPT !.header = Header(request, SUCCESS)]
            = [header |-> Header(request, SUCCESS), content |-> Blank.content]
      BY DEF Blank
    <3> HIDE DEF Blank
    <3> QED  BY <2>1, <3>1, <3>2, <3>3 DEF AnswerFound, Status
  <2>2. CASE AnswerInvalid
    <3>1. Header(request, INVALID_PAGE_NUMBER) \in Headers /\ ErrorContent \in Contents
      BY <1>2 DEF Headers, Status, Contents
    <3> QED  BY <1>2, <2>2, <3>1 DEF AnswerInvalid, Status
  <2> QED  BY <2>1, <2>2 DEF Answer
<1>4. Writes' = Writes + 1 /\ writes' \in [Status -> Nat]
  <2>1. PICK status \in Status : writes' = [writes EXCEPT ![status] = @ + 1]  BY <1>3
  <2>2. SUCCESS # INVALID_PAGE_NUMBER  BY DEF SUCCESS, INVALID_PAGE_NUMBER
  <2>3. /\ writes[SUCCESS] \in Nat /\ writes[INVALID_PAGE_NUMBER] \in Nat
        /\ status \in {SUCCESS, INVALID_PAGE_NUMBER}
    BY <1>2 DEF Status
  <2> QED  BY <1>2, <2>1, <2>2, <2>3 DEF Writes, Status
<1>5. NetworkOK'  BY <1>0, <1>1, <1>2, <1>3, <1>4 DEF NetworkOK
<1>6. BatchInv' /\ BuffersOK' /\ Sent' = Sent /\ Units' = Units  BY <1>1, ClientUntouched
<1>7. /\ ReadsIn(s_cq)' = ReadsIn(s_cq) /\ DataIn(s_cq)' = DataIn(s_cq) /\ Reset' = Reset
      /\ Busy = 1 /\ Busy' = 0
  BY <1>1 DEF ReadsIn, DataIn, PlacesIn, Reset, Busy
<1>8. /\ ReadsIn(s_cq) \in Nat /\ DataIn(s_cq) \in Nat
      /\ Writes \in Nat /\ Len(toServer) \in Nat /\ Reset \in {0, 1} /\ NumReads \in Nat
  BY <1>0, Numbers, IouPagesAssumption
<1>9. Load'
  <2>1. /\ reads + ReadsIn(s_cq) + 1 <= NumReads
        /\ DataIn(s_cq) + 1 + Writes + Len(toServer) + Reset <= NumRequests
    BY <1>0, <1>1, <1>7 DEF Load
  <2>2. (reads + 1) + ReadsIn(s_cq) + 0 <= NumReads  BY <1>2, <1>8, <2>1
  <2>3. DataIn(s_cq) + 1 + Writes + Len(toServer) + Reset
          = DataIn(s_cq) + 0 + (Writes + 1) + Len(toServer) + Reset
    BY <1>8
  <2> QED  BY <1>1, <1>4, <1>7, <2>1, <2>2, <2>3 DEF Load
<1>10. Conserved'
  <2>1. ReadsIn(s_cq) + 1 + Writes = ReadsIn(s_cq) + 0 + (Writes + 1)  BY <1>8
  <2> QED  BY <1>0, <1>1, <1>4, <1>6, <1>7, <2>1 DEF Conserved
<1> QED  BY <1>5, <1>6, <1>9, <1>10 DEF PagesInv

\* A completion is added to the queue of the handler.
LEMMA ServerDoneCounts ==
  ASSUME PagesInv, NEW event_type \in {"READ", "WRITE"}, NEW res \in Int, NEW k \in Request,
         ServerDone(event_type, res, k)
  PROVE  /\ s_cq' \in Seq(ServerCqe)
         /\ ReadsIn(s_cq)' = ReadsIn(s_cq) + IF event_type = "READ" THEN 1 ELSE 0
         /\ DataIn(s_cq)' = DataIn(s_cq) + IF event_type = "READ" /\ res # 0 THEN 1 ELSE 0
<1> DEFINE c == [event_type |-> event_type, res |-> res, request |-> k]
<1>1. c \in ServerCqe /\ c.event_type = event_type /\ c.res = res /\ s_cq' = Append(s_cq, c)
  BY DEF ServerCqe, ServerDone
<1> HIDE DEF c
<1>2. s_cq \in Seq(ServerCqe)  BY DEF PagesInv, NetworkOK
<1>3. ReadsIn(s_cq)' = ReadsIn(Append(s_cq, c)) /\ DataIn(s_cq)' = DataIn(Append(s_cq, c))
  BY <1>1 DEF ReadsIn, DataIn, PlacesIn
<1> QED  BY <1>1, <1>2, <1>3, ReadsCount

LEMMA ReadKeepsAccounts == PagesInv /\ KernelRead => PagesInv'
<1> SUFFICES ASSUME PagesInv, KernelRead PROVE PagesInv'
  OBVIOUS
<1>0. BatchInv /\ NetworkOK /\ BuffersOK /\ Load /\ Conserved  BY DEF PagesInv
<1>1. PICK k \in Request :
        /\ reads > 0 /\ reads' = reads - 1 /\ T!ServerRead(<<k>>) /\ ServerDone("READ", 1, k)
        /\ UNCHANGED <<toClient, s_pc, request, stack, writes, clientSide>>
  BY DEF KernelRead
<1>2. toServer' = SubSeq(toServer, 2, Len(toServer)) /\ link' = link /\ Len(toServer) >= 1
  <2>1. PICK n \in 1..T!Smaller(1, Len(toServer)) : <<k>> = SubSeq(toServer, 1, n)
    BY <1>1 DEF T!ServerRead
  <2>2. Len(toServer) \in Nat  BY <1>0, Numbers
  <2>3. Len(toServer) >= 1  BY <2>1, <2>2 DEF T!Smaller
  <2>4. Len(<<k>>) + 1 = 2  OBVIOUS
  <2> QED  BY <1>1, <2>3, <2>4 DEF T!ServerRead
<1>3. toServer' \in Seq(Request) /\ Len(toServer') = Len(toServer) - 1
  <2>1. toServer \in Seq(Request) /\ 1 \in 0..Len(toServer)  BY <1>0, <1>2 DEF NetworkOK
  <2>2. SubSeq(toServer, 1 + 1, Len(toServer)) \in Seq(Request)
        /\ Len(SubSeq(toServer, 1 + 1, Len(toServer))) = Len(toServer) - 1
    BY <2>1, Rest
  <2> QED  BY <1>2, <2>2
<1>4. /\ s_cq' \in Seq(ServerCqe)
      /\ ReadsIn(s_cq)' = ReadsIn(s_cq) + 1 /\ DataIn(s_cq)' = DataIn(s_cq) + 1
  BY <1>1, ServerDoneCounts
<1>5. NetworkOK'  BY <1>0, <1>1, <1>2, <1>3, <1>4 DEF NetworkOK
<1>6. BatchInv' /\ BuffersOK' /\ Sent' = Sent /\ Units' = Units  BY <1>1, ClientUntouched
<1>7. Busy' = Busy /\ Writes' = Writes /\ Reset' = Reset  BY <1>1, <1>2 DEF Busy, Writes, Reset
<1>8. /\ ReadsIn(s_cq) \in Nat /\ DataIn(s_cq) \in Nat /\ Busy \in {0, 1} /\ reads \in Nat
      /\ Writes \in Nat /\ Len(toServer) \in Nat /\ Reset \in {0, 1} /\ Sent \in Int
  BY <1>0, Numbers DEF NetworkOK
<1>9. Load'
  <2>1. s_pc # "closed"  BY <1>0, <1>1, <1>8 DEF Load
  <2>2. (reads - 1) + (ReadsIn(s_cq) + 1) + Busy = reads + ReadsIn(s_cq) + Busy  BY <1>8
  <2>3. (DataIn(s_cq) + 1) + Busy + Writes + (Len(toServer) - 1) + Reset
          = DataIn(s_cq) + Busy + Writes + Len(toServer) + Reset
    BY <1>8
  <2> QED  BY <1>0, <1>1, <1>3, <1>4, <1>7, <2>1, <2>2, <2>3 DEF Load
<1>10. Conserved'
  <2>1. Sent - (Len(toServer) - 1) - ((ReadsIn(s_cq) + 1) + Busy + Writes)
          = Sent - Len(toServer) - (ReadsIn(s_cq) + Busy + Writes)
    BY <1>8
  <2> QED  BY <1>0, <1>1, <1>2, <1>3, <1>4, <1>6, <1>7, <2>1 DEF Conserved
<1> QED  BY <1>5, <1>6, <1>9, <1>10 DEF PagesInv

LEMMA ReadEndKeepsAccounts == PagesInv /\ KernelReadEnd => PagesInv'
<1> SUFFICES ASSUME PagesInv, KernelReadEnd PROVE PagesInv'
  OBVIOUS
<1>0. BatchInv /\ NetworkOK /\ BuffersOK /\ Load /\ Conserved  BY DEF PagesInv
<1>1. PICK res \in {0, T!Error}, k \in Request :
        /\ reads > 0 /\ reads' = reads - 1 /\ T!ReadEnd("server", res) /\ ServerDone("READ", res, k)
        /\ UNCHANGED <<toServer, toClient, s_pc, request, stack, writes, clientSide>>
  BY DEF KernelReadEnd, T!ServerReadEnd
<1>2. /\ link' \in [T!End -> T!Link] /\ link["server"] # "open"
      /\ \A d \in T!End : link'[d] = "open" <=> link[d] = "open"
      /\ link'["server"] = "rst" => link["server"] = "rst"
      /\ res = 0 \/ (link["server"] = "rst" /\ link'["server"] # "rst")
  BY <1>0, <1>1, LinkMoves DEF T!End
<1>3. res \in Int  BY DEF T!Error
<1>4. /\ s_cq' \in Seq(ServerCqe)
      /\ ReadsIn(s_cq)' = ReadsIn(s_cq) + 1
      /\ DataIn(s_cq)' = DataIn(s_cq) + IF res # 0 THEN 1 ELSE 0
  BY <1>1, <1>3, ServerDoneCounts
<1>8. /\ ReadsIn(s_cq) \in Nat /\ DataIn(s_cq) \in Nat /\ Busy \in {0, 1} /\ reads \in Nat
      /\ Writes \in Nat /\ Len(toServer) \in Nat /\ Reset \in {0, 1}
  BY <1>0, Numbers DEF NetworkOK
<1>5. NetworkOK'  BY <1>0, <1>1, <1>2, <1>4, <1>8 DEF NetworkOK, T!End
<1>6. BatchInv' /\ BuffersOK'  BY <1>1, ClientUntouched
<1>7. Busy' = Busy /\ Writes' = Writes  BY <1>1 DEF Busy, Writes
<1>9. Load'
  <2>1. s_pc # "closed"  BY <1>0, <1>1, <1>8 DEF Load
  <2>2. (reads - 1) + (ReadsIn(s_cq) + 1) + Busy = reads + ReadsIn(s_cq) + Busy  BY <1>8
  <2>3. DataIn(s_cq)' + Reset' <= DataIn(s_cq) + Reset /\ DataIn(s_cq)' + Reset' \in Nat
    BY <1>2, <1>4, <1>8 DEF Reset
  <2>4. DataIn(s_cq)' \in Nat /\ Reset' \in Nat  BY <1>4, <1>8 DEF Reset
  <2>5. DataIn(s_cq) + Busy + Writes + Len(toServer) + Reset <= NumRequests  BY <1>0 DEF Load
  <2>6. DataIn(s_cq)' + Busy + Writes + Len(toServer) + Reset' <= NumRequests
    <3>1. NumRequests \in Nat  BY IouPagesAssumption
    <3> QED  BY <1>8, <2>3, <2>4, <2>5, <3>1
  <2> QED  BY <1>0, <1>1, <1>4, <1>7, <2>1, <2>2, <2>6 DEF Load
<1>10. Conserved'  BY <1>2 DEF Conserved, T!End
<1> QED  BY <1>5, <1>6, <1>9, <1>10 DEF PagesInv

LEMMA WriteKeepsAccounts == PagesInv /\ KernelWrite => PagesInv'
<1> SUFFICES ASSUME PagesInv, KernelWrite PROVE PagesInv'
  OBVIOUS
<1>0. BatchInv /\ NetworkOK /\ BuffersOK /\ Load /\ Conserved  BY DEF PagesInv
<1>1. PICK status \in Status, res \in {2, T!Error} :
        /\ writes[status] > 0
        /\ toClient' = IF link["server"] = "open" THEN toClient \o OnStack(status) ELSE toClient
        /\ T!ServerSend(res)
        /\ writes' = [writes EXCEPT ![status] = @ - 1]
        /\ ServerDone("WRITE", res, 0)
        /\ UNCHANGED <<s_pc, request, stack, reads, clientSide>>
  BY DEF KernelWrite
<1>2. res \in Int /\ 0 \in Request
  BY IouPagesAssumption DEF T!Error, Request
<1>3. /\ s_cq' \in Seq(ServerCqe)
      /\ ReadsIn(s_cq)' = ReadsIn(s_cq) + 0 /\ DataIn(s_cq)' = DataIn(s_cq) + 0
  BY <1>1, <1>2, ServerDoneCounts
<1>4. Writes' = Writes - 1 /\ writes' \in [Status -> Nat]
  <2>1. SUCCESS # INVALID_PAGE_NUMBER  BY DEF SUCCESS, INVALID_PAGE_NUMBER
  <2>2. /\ writes \in [Status -> Nat] /\ status \in {SUCCESS, INVALID_PAGE_NUMBER}
        /\ writes[SUCCESS] \in Nat /\ writes[INVALID_PAGE_NUMBER] \in Nat
    BY <1>0 DEF NetworkOK, Status
  <2> QED  BY <1>1, <2>1, <2>2 DEF Writes, Status
<1>5. /\ ReadsIn(s_cq) \in Nat /\ DataIn(s_cq) \in Nat /\ Busy \in {0, 1} /\ Sent \in Int
      /\ Writes \in Nat /\ Len(toServer) \in Nat /\ Len(toClient) \in Nat
      /\ Reset \in {0, 1} /\ Units \in Nat /\ NumRequests \in Nat
  BY <1>0, Numbers
<1>6. BatchInv' /\ BuffersOK' /\ Sent' = Sent /\ Units' = Units  BY <1>1, ClientUntouched
<1>7. Busy' = Busy  BY <1>1 DEF Busy
<1>8. ASSUME toServer' = toServer, Reset' \in {0, Reset}  PROVE Load'
  <2>1. DataIn(s_cq) + Busy + Writes + Len(toServer) + Reset <= NumRequests  BY <1>0 DEF Load
  <2>2. DataIn(s_cq) + Busy + (Writes - 1) + Len(toServer) + Reset' <= NumRequests
    BY <1>5, <1>8, <2>1
  <2>3. ReadsIn(s_cq)' = ReadsIn(s_cq) /\ DataIn(s_cq)' = DataIn(s_cq)  BY <1>3, <1>5
  <2> QED  BY <1>0, <1>1, <1>4, <1>7, <1>8, <2>2, <2>3 DEF Load
<1>9. CASE link["server"] = "open"
  <2>1. /\ toClient' = toClient \o OnStack(status) /\ UNCHANGED <<toServer, link>>
    BY <1>1, <1>9 DEF T!ServerSend, T!SendInVain, T!Broken
  <2>2. OnStack(status) \in Seq(Piece) /\ Len(OnStack(status)) = 2
    <3>1. stack \in [response : [header : Headers, content : Contents], page : Contents]
      BY <1>0 DEF NetworkOK
    <3>2. <<"header", stack.response.header>> \in Piece  BY <3>1 DEF Piece
    <3>3. <<"content", IF status = SUCCESS THEN stack.page ELSE stack.response.content>> \in Piece
      BY <3>1 DEF Piece
    <3> HIDE DEF Piece
    <3> QED  BY <3>2, <3>3 DEF OnStack
  <2>3. toClient' \in Seq(Piece) /\ Len(toClient') = Len(toClient) + 2
    <3>1. toClient \in Seq(Piece)  BY <1>0 DEF NetworkOK
    <3> QED  BY <2>1, <2>2, <3>1, Joined
  <2>4. NetworkOK'  BY <1>0, <1>1, <1>3, <1>4, <2>1, <2>3 DEF NetworkOK
  <2>5. Load'
    <3>1. Reset' = Reset  BY <2>1 DEF Reset
    <3> QED  BY <1>8, <2>1, <3>1
  <2>6. Conserved'
    <3>1. 2 * (Sent - Len(toServer) - (ReadsIn(s_cq) + Busy + Writes)) = Len(toClient) + Units
      BY <1>0, <1>9 DEF Conserved
    <3>2. \A a, b, c \in Int : 2 * (a - b - (c - 1)) = 2 * (a - b - c) + 2  OBVIOUS
    <3>3. ReadsIn(s_cq)' + Busy' + Writes' = (ReadsIn(s_cq) + Busy + Writes) - 1
      BY <1>3, <1>4, <1>5, <1>7
    <3>4. 2 * (Sent - Len(toServer) - ((ReadsIn(s_cq) + Busy + Writes) - 1))
            = 2 * (Sent - Len(toServer) - (ReadsIn(s_cq) + Busy + Writes)) + 2
      <4>1. Len(toServer) \in Int /\ ReadsIn(s_cq) + Busy + Writes \in Int  BY <1>5
      <4> QED  BY <1>5, <3>2, <4>1
    <3>5. 2 * (Sent - Len(toServer) - (ReadsIn(s_cq)' + Busy' + Writes')) = Len(toClient') + Units
      BY <1>5, <2>3, <3>1, <3>3, <3>4
    <3> QED  BY <1>6, <2>1, <3>5 DEF Conserved
  <2> QED  BY <1>6, <2>4, <2>5, <2>6 DEF PagesInv
<1>10. CASE link["server"] # "open"
  <2>1. T!SendInVain("server", 2, res) /\ UNCHANGED <<toServer, toClient>>
    BY <1>1, <1>10 DEF T!ServerSend
  <2>2. /\ link' \in [T!End -> T!Link]
        /\ \A d \in T!End : link'[d] = "open" <=> link[d] = "open"
        /\ link'["server"] = "rst" => link["server"] = "rst"
    BY <1>0, <2>1, LinkMoves DEF T!End
  <2>3. NetworkOK'  BY <1>0, <1>1, <1>3, <1>4, <2>1, <2>2 DEF NetworkOK, T!End
  <2>4. Load'
    <3>1. Reset' \in {0, Reset}  BY <2>2 DEF Reset
    <3> QED  BY <1>8, <2>1, <3>1
  <2>5. Conserved'  BY <1>10, <2>2 DEF Conserved, T!End
  <2> QED  BY <1>6, <2>3, <2>4, <2>5 DEF PagesInv
<1> QED  BY <1>9, <1>10

-----------------------------------------------------------------------------

LEMMA PagesInvInit == PagesInit => PagesInv
<1> SUFFICES ASSUME PagesInit PROVE PagesInv
  OBVIOUS
<1>0. BatchInv /\ NumRequests \in Nat \ {0} /\ NumReads \in Nat \ {0}
  BY BatchInvInit, IouPagesAssumption
<1>1. /\ c_pc \in {"send", "closed"} /\ i = 0 /\ responses = [k \in Request |-> <<>>]
      /\ sends = {} /\ recvs = {} /\ request = 0 /\ s_cq = <<>>
      /\ stack = [response |-> Blank, page |-> Blank.content]
      /\ writes = [status \in Status |-> 0] /\ toServer = <<>> /\ toClient = <<>>
      /\ \/ c_pc = "send" /\ s_pc = "wait" /\ reads = NumReads /\ link = [e \in T!End |-> "open"]
         \/ s_pc = "closed" /\ reads = 0 /\ link = [client |-> "rst", server |-> "closed"]
         \/ s_pc = "closed" /\ reads = 0 /\ link = [e \in T!End |-> "closed"]
  BY DEF PagesInit, Posted, Refused, NotConnected
<1>2. link \in [T!End -> T!Link] /\ (link["client"] = "open" <=> link["server"] = "open")
      /\ link["server"] # "rst" /\ (link["server"] = "open" => s_pc = "wait")
  <2>1. CASE link = [e \in T!End |-> "open"]  BY <1>1, <2>1 DEF T!End, T!Link
  <2>2. CASE link = [client |-> "rst", server |-> "closed"]  BY <2>2 DEF T!End, T!Link
  <2>3. CASE link = [e \in T!End |-> "closed"]  BY <1>1, <2>3 DEF T!End, T!Link
  <2> QED  BY <1>1, <2>1, <2>2, <2>3
<1>3. stack \in [response : [header : Headers, content : Contents], page : Contents]
  <2>1. Blank \in [header : Headers, content : Contents] /\ Blank.content \in Contents
    BY DEF Blank, Headers, Contents
  <2> HIDE DEF Blank
  <2> QED  BY <1>1, <2>1
<1>4. NetworkOK
  <2>1. <<>> \in Seq(ServerCqe) /\ <<>> \in Seq(Request) /\ <<>> \in Seq(Piece)  OBVIOUS
  <2>2. 0 \in Request  BY <1>0 DEF Request
  <2> QED  BY <1>0, <1>1, <1>2, <1>3, <2>1, <2>2 DEF NetworkOK
<1>5. BuffersOK
  <2>1. <<>> \in Seq(Piece) /\ Len(<<>>) = 0  OBVIOUS
  <2> QED  BY <1>1, <2>1 DEF BuffersOK
<1>6. ReadsIn(s_cq) = 0 /\ DataIn(s_cq) = 0 /\ Busy = 0 /\ Writes = 0 /\ Reset = 0
  <2>1. <<>> \in Seq(ServerCqe)  OBVIOUS
  <2>2. ReadsIn(s_cq) = 0 /\ DataIn(s_cq) = 0  BY <1>1, <2>1, ReadsCount
  <2> QED  BY <1>1, <1>2, <2>2 DEF Busy, Writes, Reset, Status
<1>7. Load  BY <1>0, <1>1, <1>6 DEF Load
<1>8. Conserved
  <2>0. CASE \E e \in T!End : link[e] # "open"  BY <2>0, <1>2 DEF Conserved, T!End
  <2>1. ASSUME \A e \in T!End : link[e] = "open" PROVE Sent = 0
    <3>1. c_pc = "send"  BY <1>1, <2>1 DEF T!End
    <3> QED  BY <1>1, <3>1, FS_EmptySet DEF Sent
  <2>2. Units = 0
    <3> DEFINE f == [k \in Request |-> Len(responses[k])]
    <3>1. \A k \in Request : f[k] = 0  BY <1>1
    <3>2. IsFiniteSet(Request)  BY <1>0, FS_Interval DEF Request
    <3> HIDE DEF f
    <3>3. Sum(f, Request) = 0  BY <3>1, <3>2, SumOfZeros
    <3> QED  BY <3>3 DEF Units, f
  <2> QED  BY <1>1, <1>6, <2>0, <2>1, <2>2 DEF Conserved
<1> QED  BY <1>0, <1>4, <1>5, <1>7, <1>8 DEF PagesInv

LEMMA PagesInvStep == PagesInv /\ [PagesNext]_pagesVars => PagesInv'
<1> SUFFICES ASSUME PagesInv, [PagesNext]_pagesVars PROVE PagesInv'
  OBVIOUS
<1>1. CASE send_requests \/ PostReceives \/ Reap  BY <1>1, TurnsKeepAccounts
<1>2. CASE Throw \/ Return \/ ClientDies
  BY <1>2, LeavingKeepsAccounts DEF Throw, Return, ClientDies
<1>3. CASE KernelSend \/ KernelRecv \/ KernelRecvEnd
  BY <1>3, SendKeepsAccounts, ReceiveKeepsAccounts, ReceiveEndKeepsAccounts
<1>4. CASE HandleEof \/ ServerDies
  BY <1>4, LeavingHandlerKeepsAccounts DEF HandleEof, ServerDies
<1>5. CASE HandleRead \/ HandleWrite  BY <1>5, HandlingKeepsAccounts
<1>6. CASE Answer  BY <1>6, AnsweringKeepsAccounts
<1>7. CASE KernelRead \/ KernelReadEnd \/ KernelWrite
  BY <1>7, ReadKeepsAccounts, ReadEndKeepsAccounts, WriteKeepsAccounts
<1>8. CASE UNCHANGED pagesVars
  <2>1. BatchInv' /\ BuffersOK' /\ Sent' = Sent /\ Units' = Units
    BY <1>8, ClientUntouched DEF pagesVars
  <2>2. /\ NetworkOK' /\ Load'
        /\ ReadsIn(s_cq)' = ReadsIn(s_cq) /\ Busy' = Busy /\ Writes' = Writes
    BY <1>8 DEF pagesVars, serverSide, network, PagesInv, NetworkOK, BuffersOK, clientSide, Load,
                ReadsIn, DataIn, PlacesIn, Busy, Writes, Reset
  <2>3. Conserved'
    BY <1>8, <2>1, <2>2 DEF pagesVars, network, PagesInv, Conserved
  <2> QED  BY <2>1, <2>2, <2>3 DEF PagesInv
<1> QED
  BY <1>1, <1>2, <1>3, <1>4, <1>5, <1>6, <1>7, <1>8 DEF PagesNext, ClientStep, HandlerStep

\* No response is longer than two units, and nobody has more to do than
\* there are requests.
LEMMA InvTypes == PagesInv => IouTypeOK
<1> SUFFICES ASSUME PagesInv PROVE IouTypeOK
  OBVIOUS
<1>1. PagesOK /\ NetworkOK /\ BuffersOK /\ Load  BY DEF PagesInv, BatchInv
<1>2. /\ ReadsIn(s_cq) \in Nat /\ DataIn(s_cq) \in Nat /\ Busy \in {0, 1} /\ Reset \in {0, 1}
      /\ writes[SUCCESS] \in Nat /\ writes[INVALID_PAGE_NUMBER] \in Nat
      /\ Len(toServer) \in Nat
  BY <1>1, Numbers DEF PagesInv
<1>3. NumReads \in Nat /\ NumRequests \in Nat  BY IouPagesAssumption
<1>4. reads \in 0..NumReads  BY <1>1, <1>2, <1>3 DEF Load, NetworkOK
<1>5. \A status \in Status : writes[status] \in 0..NumRequests
  <2>1. DataIn(s_cq) + Busy + (writes[SUCCESS] + writes[INVALID_PAGE_NUMBER])
          + Len(toServer) + Reset <= NumRequests
    BY <1>1 DEF Load, Writes
  <2> HIDE DEF SUCCESS, INVALID_PAGE_NUMBER
  <2>2. writes[SUCCESS] <= NumRequests /\ writes[INVALID_PAGE_NUMBER] <= NumRequests
    BY <1>2, <1>3, <2>1
  <2> QED  BY <1>2, <1>3, <2>2 DEF Status
<1>6. \A k \in Request : Len(responses[k]) \in 0..2
  <2>1. \A k \in Request : responses[k] \in Seq(Piece) /\ Len(responses[k]) <= 2
    BY <1>1 DEF BuffersOK
  <2>2. \A q \in Seq(Piece) : Len(q) \in Nat  OBVIOUS
  <2>3. \A n \in Nat : n <= 2 => n \in 0..2  OBVIOUS
  <2> QED  BY <2>1, <2>2, <2>3
<1> QED  BY <1>1, <1>4, <1>5, <1>6 DEF IouTypeOK, PagesOK, NetworkOK

(***************************************************************************)
(* In every batch the client counts no more receives than it posted, the   *)
(* handler keeps no more reads than it started with, and has no more       *)
(* writes under way than there are requests, although it answers failed    *)
(* reads like requests (server_iou.cpp, client_iou.cpp).                   *)
(***************************************************************************)
THEOREM PagesTypesHold == PagesSpec => []IouTypeOK
BY PagesInvInit, PagesInvStep, InvTypes, PTL DEF PagesSpec

\* The sum that the model takes, and that of the lemmas.
LEMMA UnitsAre ==
  ASSUME IsFiniteSet(Request)
  PROVE  UnitsReceived = Units
<1> DEFINE f == [k \in Request |-> Len(responses[k])]
           E(g) == g = [s \in SUBSET Request |->
                          IF s = {} THEN 0 ELSE Len(responses[Pick(s)]) + g[s \ {Pick(s)}]]
<1>1. \A g : E(g) <=> IsSum(g, f, Request)
  <2>1. \A s \in SUBSET Request : s # {} => f[Pick(s)] = Len(responses[Pick(s)])
    BY PickIn
  <2> HIDE DEF f
  <2> QED  BY <2>1 DEF IsSum
<1>2. (CHOOSE g : E(g)) = (CHOOSE g : IsSum(g, f, Request))  BY <1>1, Zenon
<1>3. UnitsReceived = (CHOOSE g : E(g))[Request]
  BY DEF UnitsReceived, MapThenSumSet, MapThenFoldSet, Pick
<1>4. Sum(f, Request) = (CHOOSE g : IsSum(g, f, Request))[Request]
  BY DEF Sum, MapThenSumSet, MapThenFoldSet, IsSum, Pick
<1> QED  BY <1>2, <1>3, <1>4 DEF Units

LEMMA InvBalances == PagesInv => ResponseUnitsBalance
<1> SUFFICES ASSUME PagesInv, \A e \in T!End : link[e] = "open"
             PROVE  2 * (Sent - Len(toServer) - BeingAnswered) = Len(toClient) + UnitsReceived
  BY DEF ResponseUnitsBalance
<1>1. 2 * (Sent - Len(toServer) - (ReadsIn(s_cq) + Busy + Writes)) = Len(toClient) + Units
  BY DEF PagesInv, Conserved, T!End
<1>2. UnitsReceived = Units  BY UnitsAre, Numbers DEF PagesInv
<1>3. BeingAnswered = ReadsIn(s_cq) + Busy + Writes
  <2>1. {n \in DOMAIN s_cq : s_cq[n].event_type = "READ"}
          = PlacesIn(s_cq, {c \in ServerCqe : c.event_type = "READ"})
    <3>1. \A n \in DOMAIN s_cq : s_cq[n] \in ServerCqe  BY DEF PagesInv, NetworkOK
    <3> QED  BY <3>1 DEF PlacesIn
  <2>2. ReadsIn(s_cq) \in Nat /\ Busy \in {0, 1}
        /\ writes[SUCCESS] \in Nat /\ writes[INVALID_PAGE_NUMBER] \in Nat
    BY Numbers DEF PagesInv
  <2>3. BeingAnswered = ReadsIn(s_cq) + Busy + writes[SUCCESS] + writes[INVALID_PAGE_NUMBER]
    BY <2>1 DEF BeingAnswered, ReadsIn, Busy
  <2> QED  BY <2>2, <2>3 DEF Writes
<1> QED  BY <1>1, <1>2, <1>3

(***************************************************************************)
(* For any number of requests, any batches, and however completions of the *)
(* two rings come in: while the connection stands, the requests sent are   *)
(* as many as those on their way, those being answered and the responses   *)
(* sent back, two units each, together.  Which request a response answers  *)
(* is another matter (server_iou.cpp line 88).                             *)
(***************************************************************************)
THEOREM ResponsesBalance == PagesSpec => []ResponseUnitsBalance
BY PagesInvInit, PagesInvStep, InvBalances, PTL DEF PagesSpec
=============================================================================
