---------------------------- MODULE MaxThroughput ----------------------------
(***************************************************************************)
(* max_client.cpp and max_server.cpp: the one-way baseline.  Client        *)
(* threads send pages as fast as a window of RING_SIZE allows; handler     *)
(* threads read whatever arrives and add its size to one atomic counter,   *)
(* which main polls until enough was received, and then joins them.        *)
(*                                                                         *)
(* All sends share a buffer and only the sign of their result is looked    *)
(* at, so a client's ring is a few counters.  Data counts in units, of     *)
(* which the kernel takes as many as fit: sends and reads may come short.  *)
(* A connection may break at any moment, a connect may fail.               *)
(***************************************************************************)
EXTENDS Integers, Sequences, FiniteSetsExt

CONSTANTS
  ClientThreads,  \* CLIENT_THREADS, the same in both builds
  NumRequests,    \* NUM_REQUESTS
  RingSize,       \* RING_SIZE
  PageUnits,      \* units of a page
  SockBuf,        \* units that fit between send and read
  Enough          \* the percentage at which main stops to poll, 95 in the code

ASSUME MaxAssumption ==
  /\ ClientThreads \in Nat \ {0} /\ NumRequests \in Nat
  /\ RingSize \in Nat \ {0} /\ PageUnits \in Nat \ {0} /\ SockBuf \in Nat \ {0}
  /\ Enough \in 0..100

VARIABLES
  client,   \* client[t]: where thread t is, its counters, and its ring in counters
  link,     \* link[t]: the connection of thread t
  stream,   \* stream[t]: units sent and not yet read
  handler,  \* handler[t]: the handler of that connection, its reads and completions
  server,   \* main of the server
  total_bytes_received,
  taken,    \* history: units that went into the streams
  lost      \* history: units that sends which came short left out

maxVars == <<client, link, stream, handler, server, total_bytes_received, taken, lost>>

Thread == 1..ClientThreads
Expected == NumRequests * PageUnits
Error == -1

Smaller(m, n) == IF m < n THEN m ELSE n
Total(f) == MapThenSumSet(LAMBDA x : f[x], DOMAIN f)

requests_per_thread == NumRequests \div ClientThreads
local_num_requests(t) ==
  IF t = ClientThreads THEN NumRequests - (ClientThreads - 1) * requests_per_thread
  ELSE requests_per_thread

MaxTypeOK ==
  /\ client \in [Thread -> [pc : {"connect", "submit", "reap", "exit", "closed", "gone"},
                            sent : 0..NumRequests, completed : 0..NumRequests,
                            inflight : 0..RingSize, good : 0..RingSize, bad : 0..RingSize]]
  /\ link \in [Thread -> {"none", "open", "fin", "broken"}]
  /\ stream \in [Thread -> 0..SockBuf]
  /\ \A t \in Thread : /\ handler[t].pc \in {"none", "serve", "finished"}
                       /\ handler[t].reads \in 0..RingSize
                       /\ \A i \in DOMAIN handler[t].cq : handler[t].cq[i] \in Error..PageUnits
  /\ server \in {"accept", "poll", "join", "done"}
  /\ total_bytes_received \in 0..Expected
  /\ taken \in 0..Expected /\ lost \in 0..Expected

MaxInit ==
  /\ client = [t \in Thread |-> [pc |-> "connect", sent |-> 0, completed |-> 0,
                                 inflight |-> 0, good |-> 0, bad |-> 0]]
  /\ link = [t \in Thread |-> "none"]
  /\ stream = [t \in Thread |-> 0]
  /\ handler = [t \in Thread |-> [pc |-> "none", reads |-> 0, cq |-> <<>>]]
  /\ server = "accept"
  /\ total_bytes_received = 0
  /\ taken = 0 /\ lost = 0

-----------------------------------------------------------------------------

\* Where a client's outer loop goes when that many requests are completed.
Continue(t, completed) == IF completed < local_num_requests(t) THEN "submit" ELSE "exit"

Connect(t) ==
  /\ client[t].pc = "connect"
  /\ client' = [client EXCEPT ![t].pc = Continue(t, 0)]
  /\ link' = [link EXCEPT ![t] = "open"]
  /\ UNCHANGED <<stream, handler, server, total_bytes_received, taken, lost>>

\* The thread returns; the others, and the server, are not told.
ConnectFails(t) ==
  /\ client[t].pc = "connect"
  /\ client' = [client EXCEPT ![t].pc = "gone"]
  /\ UNCHANGED <<link, stream, handler, server, total_bytes_received, taken, lost>>

\* The window: what is not completed, which includes every send that failed.
\* The ring was submitted and has room for a whole window, so that
\* io_uring_get_sqe never returns null and the break after it is not taken.
RoomIgnoresWindow(t) == local_num_requests(t) - client[t].sent   \* mutant: no window

Room(t) == Smaller(local_num_requests(t) - client[t].sent,
                   RingSize - (client[t].sent - client[t].completed))

\* The inner loop, up to the window, and io_uring_submit.
Submit(t) ==
  /\ client[t].pc = "submit"
  /\ client' = [client EXCEPT ![t].pc = "reap",
                              ![t].sent = @ + Room(t),
                              ![t].inflight = @ + Room(t)]
  /\ UNCHANGED <<link, stream, handler, server, total_bytes_received, taken, lost>>

\* Mutant of Reaped: counts passes of the loop instead of completions.
ReapedOncePerPass(c) == c.completed + Smaller(c.good, 1)

\* A failed send is printed and not counted, nor sent again.
Reaped(c) == c.completed + c.good

\* io_uring_for_each_cqe and io_uring_cq_advance, for all that is there.
Reap(t) ==
  /\ client[t].pc = "reap"
  /\ client' = [client EXCEPT ![t].pc = Continue(t, Reaped(client[t])),
                              ![t].completed = Reaped(client[t]),
                              ![t].good = 0, ![t].bad = 0]
  /\ UNCHANGED <<link, stream, handler, server, total_bytes_received, taken, lost>>

Exit(t) ==
  /\ client[t].pc = "exit"
  /\ client' = [client EXCEPT ![t].pc = "closed"]
  /\ link' = [link EXCEPT ![t] = IF @ = "open" THEN "fin" ELSE @]
  /\ UNCHANGED <<stream, handler, server, total_bytes_received, taken, lost>>

-----------------------------------------------------------------------------

\* External: the kernel of the client.
KernelSend(t) ==
  /\ client[t].inflight > 0 /\ link[t] = "open" /\ stream[t] < SockBuf
  /\ LET n == Smaller(PageUnits, SockBuf - stream[t])
     IN /\ stream' = [stream EXCEPT ![t] = @ + n]
        /\ taken' = taken + n
        /\ lost' = lost + PageUnits - n
  /\ client' = [client EXCEPT ![t].inflight = @ - 1, ![t].good = @ + 1]
  /\ UNCHANGED <<link, handler, server, total_bytes_received>>

KernelSendFails(t) ==
  /\ client[t].inflight > 0 /\ link[t] = "broken"
  /\ client' = [client EXCEPT ![t].inflight = @ - 1, ![t].bad = @ + 1]
  /\ UNCHANGED <<link, stream, handler, server, total_bytes_received, taken, lost>>

\* The connection is reset, and what it carried is dropped.
Break(t) ==
  /\ link[t] = "open"
  /\ link' = [link EXCEPT ![t] = "broken"]
  /\ stream' = [stream EXCEPT ![t] = 0]
  /\ UNCHANGED <<client, handler, server, total_bytes_received, taken, lost>>

\* External: the kernel of the server.  A read gets what is there, up to a page.
ReadDone(t, res) ==
  handler' = [handler EXCEPT ![t].reads = @ - 1, ![t].cq = Append(@, res)]

Reading(t) == handler[t].pc = "serve" /\ handler[t].reads > 0

KernelRead(t) ==
  /\ Reading(t) /\ stream[t] > 0
  /\ ReadDone(t, Smaller(PageUnits, stream[t]))
  /\ stream' = [stream EXCEPT ![t] = @ - Smaller(PageUnits, @)]
  /\ UNCHANGED <<client, link, server, total_bytes_received, taken, lost>>

KernelReadEnd(t) ==
  /\ Reading(t) /\ stream[t] = 0 /\ link[t] \in {"fin", "broken"}
  /\ ReadDone(t, IF link[t] = "fin" THEN 0 ELSE Error)
  /\ UNCHANGED <<client, link, stream, server, total_bytes_received, taken, lost>>

-----------------------------------------------------------------------------

CountPage(res) == PageUnits             \* mutant: a read is a page
CountRead(res) == res                   \* total_bytes_received += cqe->res

HandleDataPostsNone(t) ==               \* mutant: the read is not posted again
  /\ handler[t].pc = "serve" /\ handler[t].cq # <<>> /\ Head(handler[t].cq) > 0
  /\ total_bytes_received' = total_bytes_received + CountRead(Head(handler[t].cq))
  /\ handler' = [handler EXCEPT ![t].cq = Tail(@)]
  /\ UNCHANGED <<client, link, stream, server, taken, lost>>

HandleData(t) ==
  /\ handler[t].pc = "serve" /\ handler[t].cq # <<>> /\ Head(handler[t].cq) > 0
  /\ total_bytes_received' = total_bytes_received + CountRead(Head(handler[t].cq))
  /\ handler' = [handler EXCEPT ![t].cq = Tail(@), ![t].reads = @ + 1]
  /\ UNCHANGED <<client, link, stream, server, taken, lost>>

\* End of file or an error: close, return from event_loop, queue_exit.  What
\* else completed is not looked at.
HandleEnd(t) ==
  /\ handler[t].pc = "serve" /\ handler[t].cq # <<>> /\ Head(handler[t].cq) <= 0
  /\ handler' = [handler EXCEPT ![t].pc = "finished", ![t].cq = Tail(@)]
  /\ UNCHANGED <<client, link, stream, server, total_bytes_received, taken, lost>>

-----------------------------------------------------------------------------

Accepted == {t \in Thread : handler[t].pc # "none"}

\* A handler starts with a loop that posts one read for each entry of the ring.
Started == [pc |-> "serve", reads |-> RingSize, cq |-> <<>>]

\* accept takes an established connection and starts its handler thread.
Accept(t) ==
  /\ server = "accept" /\ link[t] # "none" /\ handler[t].pc = "none"
  /\ handler' = [handler EXCEPT ![t] = Started]
  /\ server' = IF Accepted \cup {t} = Thread THEN "poll" ELSE "accept"
  /\ UNCHANGED <<client, link, stream, total_bytes_received, taken, lost>>

EndPoll ==
  /\ server = "poll"
  /\ total_bytes_received >= Expected \/ total_bytes_received * 100 >= Enough * Expected
  /\ server' = "join"
  /\ UNCHANGED <<client, link, stream, handler, total_bytes_received, taken, lost>>

\* Mutant of JoinAll: as simple_iou_server does, the handlers are not joined.
LeaveUnjoined ==
  /\ server = "join"
  /\ server' = "done"
  /\ UNCHANGED <<client, link, stream, handler, total_bytes_received, taken, lost>>

JoinAll ==
  /\ server = "join" /\ \A t \in Thread : handler[t].pc = "finished"
  /\ server' = "done"
  /\ UNCHANGED <<client, link, stream, handler, total_bytes_received, taken, lost>>

ClientThread(t) == Submit(t) \/ Reap(t) \/ Exit(t)
HandlerThread(t) == HandleData(t) \/ HandleEnd(t)
SendKernel(t) == KernelSend(t) \/ KernelSendFails(t)
ReadKernel(t) == KernelRead(t) \/ KernelReadEnd(t)
Main == EndPoll \/ JoinAll \/ \E t \in Thread : Accept(t)

MaxNext ==
  \/ \E t \in Thread : ClientThread(t) \/ HandlerThread(t)
  \/ \E t \in Thread : SendKernel(t) \/ ReadKernel(t)
  \/ \E t \in Thread : Connect(t) \/ ConnectFails(t) \/ Break(t)
  \/ Main

MaxFairness ==
  /\ \A t \in Thread :
       /\ WF_maxVars(Connect(t) \/ ConnectFails(t))
       /\ WF_maxVars(ClientThread(t)) /\ WF_maxVars(HandlerThread(t))
       /\ WF_maxVars(SendKernel(t)) /\ WF_maxVars(ReadKernel(t))
  /\ WF_maxVars(Main)

MaxSpec == MaxInit /\ [][MaxNext]_maxVars /\ MaxFairness

-----------------------------------------------------------------------------

Whole(t) == link[t] # "broken"
Undisturbed == \A t \in Thread : Whole(t) /\ client[t].pc # "gone"

\* The units that completed reads brought, and the handler has not counted.
Brought(res) == IF res > 0 THEN res ELSE 0
Completed ==
  [t \in Thread |-> Total([i \in DOMAIN handler[t].cq |-> Brought(handler[t].cq[i])])]

(***************************************************************************)
(* The shared counter, the streams and the completions that handlers have  *)
(* not looked at add up to what the clients got rid of, on connections     *)
(* that did not break: concurrent handlers count every unit once.          *)
(***************************************************************************)
UnitsConserved ==
  /\ (\A t \in Thread : Whole(t)) =>
       total_bytes_received + Total(stream) + Total(Completed) = taken
  /\ total_bytes_received <= taken

(***************************************************************************)
(* The server ends with everything counted: the join waits for handlers    *)
(* that the polling loop no longer cares for, and a handler returns only   *)
(* when the client is done and all it sent was read.                       *)
(***************************************************************************)
AllCountedAtEnd ==
  server = "done" =>
    /\ \A t \in Thread : Whole(t) => client[t].pc = "closed" /\ stream[t] = 0
    /\ (\A t \in Thread : Whole(t)) => total_bytes_received = taken

(***************************************************************************)
(* Undisturbed, every client thread completes its requests and closes.     *)
(***************************************************************************)
AllSent == <>(~Undisturbed \/ \A t \in Thread : client[t].pc = "closed")

(***************************************************************************)
(* Undisturbed, the server ends, unless the sends that came short, which   *)
(* the clients count as completed, lost so much that main polls for ever.  *)
(***************************************************************************)
Tolerable == {n \in 0..Expected : (Expected - n) * 100 >= Enough * Expected}
MaxServerEnds == <>(~Undisturbed \/ server = "done" \/ lost \notin Tolerable)
=============================================================================
