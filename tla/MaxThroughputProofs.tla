------------------------ MODULE MaxThroughputProofs ------------------------
(***************************************************************************)
(* What the one-way pair promises, for any number of threads, requests and *)
(* entries of the rings.                                                   *)
(*                                                                         *)
(* Nothing is counted twice because what a handler adds, it takes off the  *)
(* queue of its completions, and the sums over the threads change by what  *)
(* one thread does: UnitsHeld.  That a handler which returned left nothing *)
(* behind rests on the order of the completions: once a read saw the end,  *)
(* the stream is empty for good and no later read brings anything: EndsOK. *)
(* The counters are bounded by the requests, whose division among the      *)
(* threads adds up to the whole: CountsOK and SendsCounted.                *)
(***************************************************************************)
EXTENDS MaxThroughput, DataLemmas

HandlerStates == [pc : {"none", "serve", "finished"}, reads : 0..RingSize,
                  cq : Seq(Error..PageUnits)]
ClientStates == [pc : {"connect", "submit", "reap", "exit", "closed", "gone"},
                 sent : 0..NumRequests, completed : 0..NumRequests,
                 inflight : 0..RingSize, good : 0..RingSize, bad : 0..RingSize]

StatesOK ==
  /\ client \in [Thread -> ClientStates]
  /\ link \in [Thread -> {"none", "open", "fin", "broken"}]
  /\ stream \in [Thread -> 0..SockBuf]
  /\ handler \in [Thread -> HandlerStates]
  /\ server \in {"accept", "poll", "join", "done"}
  /\ total_bytes_received \in Nat /\ taken \in Nat /\ lost \in Nat

\* The window of a thread: what it sent is completed, failed or in its ring.
WindowOK(c, n) ==
  /\ c.sent <= n /\ c.sent - c.completed <= RingSize
  /\ c.completed + c.inflight + c.good + c.bad <= c.sent

CountsOK ==
  \A t \in Thread : /\ WindowOK(client[t], local_num_requests(t))
                    /\ handler[t].reads + Len(handler[t].cq) <= RingSize

LinksOK ==
  /\ \A t \in Thread : /\ client[t].pc = "connect" => link[t] = "none"
                       /\ link[t] = "fin" => client[t].pc = "closed"
                       /\ handler[t].pc = "none" => handler[t].cq = <<>>
  /\ server = "done" => \A t \in Thread : handler[t].pc = "finished"

\* Where a read saw the end of a stream, nothing comes after it.
Over(t) == link[t] = "fin" /\ stream[t] = 0
OnlyEnds(q) == \A j \in DOMAIN q : q[j] <= 0
EndsLast(q) == \A i, j \in DOMAIN q : q[i] <= 0 /\ j > i => q[j] <= 0
EndsAt(h, over) == /\ EndsLast(h.cq)
                   /\ (\E i \in DOMAIN h.cq : h.cq[i] <= 0) => over
                   /\ h.pc = "finished" => over /\ OnlyEnds(h.cq)
EndsOK == \A t \in Thread : Whole(t) => EndsAt(handler[t], Over(t))

\* What every send that was taken amounts to.
SentUnits == [t \in Thread |-> (client[t].completed + client[t].good) * PageUnits]
SendsCounted == taken + lost = Total(SentUnits)

UnitsHeld ==
  /\ total_bytes_received + Total(stream) + Total(Completed) <= taken
  /\ (\A t \in Thread : Whole(t)) =>
       total_bytes_received + Total(stream) + Total(Completed) = taken

MaxInv == StatesOK /\ CountsOK /\ LinksOK /\ EndsOK /\ SendsCounted /\ UnitsHeld

-----------------------------------------------------------------------------
(* Sums over the threads, and over the completions of one.                 *)

LEMMA TotalIs == \A f : Total(f) = Sum(f, DOMAIN f)
BY DEF Total, Sum

LEMMA ThreadsFinite == IsFiniteSet(Thread)
<1>1. ClientThreads \in Nat  BY MaxAssumption
<1> QED  BY <1>1, FS_Interval DEF Thread

LEMMA TotalType ==
  ASSUME NEW f \in [Thread -> Nat]
  PROVE  Total(f) \in Nat
<1>1. Total(f) = Sum(f, Thread)  BY TotalIs
<1> QED  BY <1>1, ThreadsFinite, SumOfNumbers

LEMMA TotalChanges ==
  ASSUME NEW f \in [Thread -> Nat], NEW d \in [Thread -> Nat], NEW t \in Thread,
         \A u \in Thread \ {t} : d[u] = f[u]
  PROVE  Total(d) = Total(f) - f[t] + d[t]
<1>1. Total(f) = Sum(f, Thread) /\ Total(d) = Sum(d, Thread)  BY TotalIs
<1>2. Terms(f, Thread) /\ Terms(d, Thread)  BY DEF Terms
<1>3. Sum(d, Thread) = Sum(f, Thread) - f[t] + d[t]
  BY <1>2, ThreadsFinite, SumReplaced
<1> QED  BY <1>1, <1>3

LEMMA TotalOfZeros ==
  ASSUME NEW f \in [Thread -> Nat], \A t \in Thread : f[t] = 0
  PROVE  Total(f) = 0
<1>1. Total(f) = Sum(f, Thread)  BY TotalIs
<1> QED  BY <1>1, ThreadsFinite, SumOfZeros

\* What the completions of one handler brought.
Shares(q) == [i \in DOMAIN q |-> Brought(q[i])]
Bytes(q) == Total(Shares(q))

LEMMA BytesIs ==
  ASSUME NEW q \in Seq(Int)
  PROVE  /\ Bytes(q) = Sum(Shares(q), 1..Len(q)) /\ Bytes(q) \in Nat
         /\ IsFiniteSet(1..Len(q)) /\ Len(q) \in Nat
         /\ \A i \in 1..Len(q) : Shares(q)[i] = Brought(q[i]) /\ Brought(q[i]) \in Nat
<1>1. Len(q) \in Nat /\ DOMAIN q = 1..Len(q)  OBVIOUS
<1>2. IsFiniteSet(1..Len(q))  BY <1>1, FS_Interval
<1>3. DOMAIN Shares(q) = 1..Len(q)  BY <1>1 DEF Shares
<1>4. Bytes(q) = Sum(Shares(q), 1..Len(q))  BY <1>3, TotalIs DEF Bytes
<1>5. ASSUME NEW i \in 1..Len(q) PROVE Shares(q)[i] = Brought(q[i]) /\ Brought(q[i]) \in Nat
  <2>1. q[i] \in Int  BY <1>1, ElementOfQueue
  <2> QED  BY <1>1, <2>1 DEF Shares, Brought
<1>6. Sum(Shares(q), 1..Len(q)) \in Nat  BY <1>2, <1>5, SumOfNumbers
<1> QED  BY <1>1, <1>2, <1>4, <1>5, <1>6

LEMMA BytesOfEnds ==
  ASSUME NEW q \in Seq(Int), \A i \in DOMAIN q : q[i] <= 0
  PROVE  Bytes(q) = 0
<1>1. \A i \in 1..Len(q) : Shares(q)[i] = 0
  <2> SUFFICES ASSUME NEW i \in 1..Len(q) PROVE Shares(q)[i] = 0
    OBVIOUS
  <2>1. i \in DOMAIN q /\ q[i] \in Int  OBVIOUS
  <2>2. Shares(q)[i] = Brought(q[i])  BY BytesIs
  <2>3. ~(q[i] > 0)  BY <2>1
  <2> QED  BY <2>2, <2>3 DEF Brought
<1> QED  BY <1>1, BytesIs, SumOfZeros

UnitsOf == [r \in Int |-> Brought(r)]

LEMMA BytesAreWorth ==
  /\ \A r \in Int : UnitsOf[r] = Brought(r) /\ UnitsOf[r] \in Int
  /\ \A q \in Seq(Int) : Bytes(q) = Worth(q, UnitsOf)
<1>1. \A r \in Int : UnitsOf[r] = Brought(r) /\ UnitsOf[r] \in Int  BY DEF Brought, UnitsOf
<1>2. ASSUME NEW q \in Seq(Int) PROVE Bytes(q) = Worth(q, UnitsOf)
  <2>1. \A i \in DOMAIN q : q[i] \in Int  BY ElementOfQueue
  <2>2. Shares(q) = Along(q, UnitsOf)  BY <1>1, <2>1 DEF Shares, Along
  <2>3. Bytes(q) = Sum(Shares(q), DOMAIN q)  BY BytesIs
  <2> QED  BY <2>2, <2>3 DEF Worth
<1> QED  BY <1>1, <1>2

LEMMA BytesLast ==
  ASSUME NEW q \in Seq(Int), NEW r \in Int
  PROVE  Bytes(Append(q, r)) = Bytes(q) + Brought(r)
<1>1. Append(q, r) \in Seq(Int)  OBVIOUS
<1>2. Worth(Append(q, r), UnitsOf) = Worth(q, UnitsOf) + UnitsOf[r]
  BY BytesAreWorth, WorthLast
<1> QED  BY <1>1, <1>2, BytesAreWorth

LEMMA BytesHead ==
  ASSUME NEW q \in Seq(Int), q # <<>>
  PROVE  Bytes(q) = Brought(Head(q)) + Bytes(Tail(q))
<1>1. Tail(q) \in Seq(Int) /\ Head(q) \in Int  OBVIOUS
<1>2. Worth(q, UnitsOf) = UnitsOf[Head(q)] + Worth(Tail(q), UnitsOf)
  BY BytesAreWorth, WorthHead
<1> QED  BY <1>1, <1>2, BytesAreWorth

-----------------------------------------------------------------------------
(* The counters, thread by thread.                                         *)

LEMMA SharesAreNumbers ==
  /\ requests_per_thread \in Nat
  /\ \A t \in Thread : local_num_requests(t) \in 0..NumRequests
<1>1. /\ ClientThreads \in Nat \ {0} /\ NumRequests \in Nat  BY MaxAssumption
<1>2. /\ requests_per_thread \in Nat
      /\ ClientThreads * requests_per_thread <= NumRequests
  BY <1>1 DEF requests_per_thread
<1>3. /\ (ClientThreads - 1) * requests_per_thread \in Nat
      /\ (ClientThreads - 1) * requests_per_thread + requests_per_thread
           = ClientThreads * requests_per_thread
  BY <1>1, <1>2
<1> HIDE DEF requests_per_thread
<1>4. requests_per_thread <= NumRequests
      /\ NumRequests - (ClientThreads - 1) * requests_per_thread \in 0..NumRequests
  BY <1>1, <1>2, <1>3
<1> QED  BY <1>1, <1>2, <1>4 DEF local_num_requests

\* The step of one thread, as a change of its counters.
LEMMA ClientMoves ==
  ASSUME StatesOK, CountsOK, NEW t \in Thread, NEW c, client' = [client EXCEPT ![t] = c],
         c \in ClientStates, WindowOK(c, local_num_requests(t))
  PROVE  /\ client' \in [Thread -> ClientStates]
         /\ \A u \in Thread : WindowOK(client'[u], local_num_requests(u))
         /\ client'[t] = c /\ \A u \in Thread \ {t} : client'[u] = client[u]
BY DEF StatesOK, CountsOK

\* Room for each counter.
Counters(s, n, i, g, d) ==
  /\ s \in Nat /\ n \in Nat /\ i \in Nat /\ g \in Nat /\ d \in Nat
  /\ s - n <= RingSize /\ n + i + g + d <= s /\ s <= NumRequests

LEMMA CountersFit ==
  ASSUME NEW s, NEW n, NEW i, NEW g, NEW d, Counters(s, n, i, g, d)
  PROVE  /\ s \in 0..NumRequests /\ n \in 0..NumRequests
         /\ i \in 0..RingSize /\ g \in 0..RingSize /\ d \in 0..RingSize
BY MaxAssumption DEF Counters

\* The counters of a thread, as numbers with their relations.
LEMMA ClientCounters ==
  ASSUME StatesOK, CountsOK, NEW t \in Thread
  PROVE  /\ client[t] \in ClientStates /\ WindowOK(client[t], local_num_requests(t))
         /\ local_num_requests(t) \in Nat /\ local_num_requests(t) <= NumRequests
         /\ NumRequests \in Nat /\ RingSize \in Nat /\ PageUnits \in Nat
BY SharesAreNumbers, MaxAssumption DEF StatesOK, CountsOK

LEMMA SubmitStep ==
  ASSUME StatesOK, CountsOK, NEW t \in Thread, Submit(t)
  PROVE  \E c : /\ client' = [client EXCEPT ![t] = c] /\ c \in ClientStates
                /\ WindowOK(c, local_num_requests(t)) /\ client[t].pc = "submit"
                /\ c.pc = "reap" /\ c.completed = client[t].completed
                /\ c.good = client[t].good
<1> DEFINE b == client[t]
           n == local_num_requests(t)
           m == Room(t)
           c == [b EXCEPT !.pc = "reap", !.sent = @ + m, !.inflight = @ + m]
<1>1. client' = [client EXCEPT ![t] = c]
  BY DEF Submit, ClientStates, StatesOK
<1>2. /\ b \in ClientStates /\ WindowOK(b, n) /\ n \in Nat /\ n <= NumRequests
      /\ NumRequests \in Nat /\ RingSize \in Nat
  BY ClientCounters
<1>3. m \in Nat /\ m <= n - b.sent /\ m <= RingSize - (b.sent - b.completed)
  <2>1. m = Smaller(n - b.sent, RingSize - (b.sent - b.completed))  BY DEF Room
  <2> HIDE DEF b, n, m
  <2> QED  BY <1>2, <2>1 DEF Smaller, ClientStates, WindowOK
<1>4. c \in ClientStates /\ WindowOK(c, n)
  <2> HIDE DEF b, n, m
  <2>1. /\ b.sent \in Nat /\ b.completed \in Nat /\ b.inflight \in Nat
        /\ b.good \in Nat /\ b.bad \in Nat
    BY <1>2 DEF ClientStates
  <2>2. Counters(b.sent + m, b.completed, b.inflight + m, b.good, b.bad)
    BY <1>2, <1>3, <2>1 DEF WindowOK, Counters
  <2>3. c \in ClientStates  BY <1>2, <2>2, CountersFit DEF ClientStates
  <2>4. /\ c.sent = b.sent + m /\ c.completed = b.completed
        /\ c.inflight = b.inflight + m /\ c.good = b.good /\ c.bad = b.bad
    BY <1>2 DEF ClientStates
  <2>5. b.sent + m <= n  BY <1>2, <1>3, <2>1
  <2> QED  BY <2>2, <2>3, <2>4, <2>5 DEF WindowOK, Counters
<1>5. client[t].pc = "submit"  BY DEF Submit
<1>6. c.pc = "reap" /\ c.completed = b.completed /\ c.good = b.good
  <2> HIDE DEF b
  <2> QED  BY <1>2 DEF ClientStates
<1> QED  BY <1>1, <1>4, <1>5, <1>6

LEMMA ReapStep ==
  ASSUME StatesOK, CountsOK, NEW t \in Thread, Reap(t)
  PROVE  \E c : /\ client' = [client EXCEPT ![t] = c] /\ c \in ClientStates
                /\ WindowOK(c, local_num_requests(t)) /\ client[t].pc = "reap"
                /\ c.pc \in {"submit", "exit"} /\ c.good = 0
                /\ c.completed = client[t].completed + client[t].good
<1> DEFINE b == client[t]
           n == local_num_requests(t)
           p == Continue(t, Reaped(b))
           r == Reaped(b)
           c == [b EXCEPT !.pc = p, !.completed = r, !.good = 0, !.bad = 0]
<1>1. client' = [client EXCEPT ![t] = c]
  BY DEF Reap, ClientStates, StatesOK
<1>2. /\ b \in ClientStates /\ WindowOK(b, n) /\ n \in Nat /\ n <= NumRequests
      /\ NumRequests \in Nat /\ RingSize \in Nat
  BY ClientCounters
<1>3. p \in {"submit", "exit"}  BY DEF Continue
<1>4. c \in ClientStates /\ WindowOK(c, n) /\ r = b.completed + b.good
  <2>1. r = b.completed + b.good  BY DEF Reaped
  <2> HIDE DEF b, n, p, r
  <2>2. /\ b.sent \in Nat /\ b.completed \in Nat /\ b.inflight \in Nat
        /\ b.good \in Nat /\ b.bad \in Nat
    BY <1>2 DEF ClientStates
  <2>3. Counters(b.sent, r, b.inflight, 0, 0)
    BY <1>2, <2>1, <2>2 DEF WindowOK, Counters
  <2>4. c \in ClientStates  BY <1>2, <1>3, <2>3, CountersFit DEF ClientStates
  <2>5. /\ c.sent = b.sent /\ c.completed = r
        /\ c.inflight = b.inflight /\ c.good = 0 /\ c.bad = 0
    BY <1>2 DEF ClientStates
  <2>6. b.sent <= n  BY <1>2 DEF WindowOK
  <2> QED  BY <2>1, <2>3, <2>4, <2>5, <2>6 DEF WindowOK, Counters
<1>5. client[t].pc = "reap"  BY DEF Reap
<1>6. c.pc = p /\ c.completed = r /\ c.good = 0
  <2> HIDE DEF b, p, r
  <2> QED  BY <1>2 DEF ClientStates
<1> QED  BY <1>1, <1>3, <1>4, <1>5, <1>6

\* The other steps of a thread and of its kernel.
Changed(b, p, i, g, d) == [b EXCEPT !.pc = p, !.inflight = i, !.good = g, !.bad = d]

Moves(t, c, p, g) ==
  /\ client' = [client EXCEPT ![t] = c] /\ c \in ClientStates
  /\ WindowOK(c, local_num_requests(t))
  /\ c.pc = p /\ c.completed = client[t].completed /\ c.good = g

States == {"connect", "submit", "reap", "exit", "closed", "gone"}

LEMMA CounterStep ==
  ASSUME StatesOK, CountsOK, NEW t \in Thread, NEW p, NEW i, NEW g, NEW d,
         NEW b, b = client[t],
         /\ client' = [client EXCEPT ![t] = Changed(b, p, i, g, d)]
         /\ p \in States
         /\ i \in Nat /\ g \in Nat /\ d \in Nat /\ i + g + d = b.inflight + b.good + b.bad
  PROVE  \E c : Moves(t, c, p, g)
<1> DEFINE n == local_num_requests(t)
           c == [b EXCEPT !.pc = p, !.inflight = i, !.good = g, !.bad = d]
<1>1. client' = [client EXCEPT ![t] = c]  BY DEF Changed
<1>2. /\ b \in ClientStates /\ WindowOK(b, n) /\ n \in Nat /\ n <= NumRequests
      /\ NumRequests \in Nat /\ RingSize \in Nat
  BY ClientCounters
<1>3. c \in ClientStates /\ WindowOK(c, n)
  <2>1. i \in Nat /\ g \in Nat /\ d \in Nat /\ i + g + d = b.inflight + b.good + b.bad
        /\ p \in {"connect", "submit", "reap", "exit", "closed", "gone"}
    BY DEF States
  <2> HIDE DEF n
  <2>2. /\ b.sent \in Nat /\ b.completed \in Nat /\ b.inflight \in Nat
        /\ b.good \in Nat /\ b.bad \in Nat
    BY <1>2 DEF ClientStates
  <2>3. Counters(b.sent, b.completed, i, g, d)
    BY <1>2, <2>1, <2>2 DEF WindowOK, Counters
  <2>4. c \in ClientStates  BY <1>2, <2>1, <2>3, CountersFit DEF ClientStates
  <2>5. /\ c.sent = b.sent /\ c.completed = b.completed
        /\ c.inflight = i /\ c.good = g /\ c.bad = d
    BY <1>2 DEF ClientStates
  <2>6. b.sent <= n  BY <1>2 DEF WindowOK
  <2> QED  BY <2>3, <2>4, <2>5, <2>6 DEF WindowOK, Counters
<1>4. c.pc = p /\ c.completed = b.completed /\ c.good = g
  BY <1>2 DEF ClientStates
<1> QED  BY <1>1, <1>3, <1>4 DEF Moves

-----------------------------------------------------------------------------
(* A step of a thread or of its kernel changes two terms of a sum or none. *)

LEMMA HandlerOf ==
  ASSUME StatesOK, NEW t \in Thread
  PROVE  /\ handler[t] \in HandlerStates /\ handler[t].cq \in Seq(Int)
         /\ handler[t].cq \in Seq(Error..PageUnits) /\ handler[t].reads \in Nat
         /\ Len(handler[t].cq) \in Nat /\ stream[t] \in Nat
<1>1. handler[t] \in HandlerStates /\ stream[t] \in 0..SockBuf  BY DEF StatesOK
<1>2. handler[t].cq \in Seq(Error..PageUnits) /\ handler[t].reads \in 0..RingSize
  BY <1>1 DEF HandlerStates
<1>3. Error..PageUnits \subseteq Int  OBVIOUS
<1>4. handler[t].cq \in Seq(Int)
  BY <1>2, <1>3, WiderQueue
<1> QED  BY <1>1, <1>2, <1>4

LEMMA SumsTyped ==
  ASSUME StatesOK
  PROVE  /\ stream \in [Thread -> Nat] /\ Completed \in [Thread -> Nat]
         /\ SentUnits \in [Thread -> Nat]
         /\ Total(stream) \in Nat /\ Total(Completed) \in Nat
         /\ \A t \in Thread : Completed[t] = Bytes(handler[t].cq)
<1>1. stream \in [Thread -> Nat]  BY HandlerOf DEF StatesOK
<1>2. \A t \in Thread : Completed[t] = Bytes(handler[t].cq) /\ Bytes(handler[t].cq) \in Nat
  BY HandlerOf, BytesIs DEF Completed, Bytes, Shares
<1>3. Completed \in [Thread -> Nat]
  <2>1. Completed = [t \in Thread |-> Completed[t]]  BY DEF Completed
  <2> QED  BY <1>2, <2>1
<1>4. SentUnits \in [Thread -> Nat]
  <2>1. ASSUME NEW t \in Thread PROVE (client[t].completed + client[t].good) * PageUnits \in Nat
    <3>1. client[t] \in ClientStates  BY DEF StatesOK
    <3>2. client[t].completed \in Nat /\ client[t].good \in Nat  BY <3>1 DEF ClientStates
    <3> QED  BY <3>2, MaxAssumption
  <2> QED  BY <2>1 DEF SentUnits
<1> QED  BY <1>1, <1>2, <1>3, <1>4, TotalType

LEMMA QuietClientStep ==
  ASSUME MaxInv, NEW t \in Thread, NEW c,
         client' = [client EXCEPT ![t] = c], c \in ClientStates,
         WindowOK(c, local_num_requests(t)),
         c.completed + c.good = client[t].completed + client[t].good,
         link' \in [Thread -> {"none", "open", "fin", "broken"}],
         \A u \in Thread : /\ link'[u] = "broken" <=> link[u] = "broken"
                           /\ link[u] = "fin" => link'[u] = "fin"
                           /\ client'[u].pc = "connect" => link'[u] = "none"
                           /\ link'[u] = "fin" => client'[u].pc = "closed",
         UNCHANGED <<stream, handler, server, total_bytes_received, taken, lost>>
  PROVE  MaxInv'
<1> USE DEF MaxInv
<1>1. /\ client' \in [Thread -> ClientStates] /\ client'[t] = c
      /\ \A u \in Thread : WindowOK(client'[u], local_num_requests(u))
      /\ \A u \in Thread \ {t} : client'[u] = client[u]
  BY ClientMoves
<1>2. StatesOK'
  BY <1>1 DEF StatesOK, HandlerStates, ClientStates
<1>3. CountsOK'
  BY <1>1 DEF CountsOK, WindowOK, local_num_requests, requests_per_thread
<1>4. LinksOK'
  BY DEF LinksOK
<1>5. EndsOK'
  <2> SUFFICES ASSUME NEW u \in Thread, Whole(u)' PROVE EndsAt(handler[u], Over(u)')
    BY DEF EndsOK, EndsAt, EndsLast, OnlyEnds
  <2>1. Whole(u)  BY DEF Whole
  <2>2. Over(u) => Over(u)'  BY DEF Over
  <2> QED  BY <2>1, <2>2 DEF EndsOK, EndsAt
<1>6. SentUnits' = SentUnits
  <2>1. \A u \in Thread : client'[u].completed + client'[u].good
                            = client[u].completed + client[u].good
    BY <1>1
  <2> QED  BY <2>1 DEF SentUnits
<1>7. SendsCounted'
  BY <1>6 DEF SendsCounted
<1>8. UnitsHeld'
  <2>1. Completed' = Completed  BY DEF Completed
  <2> QED  BY <2>1 DEF UnitsHeld, Whole
<1> QED  BY <1>2, <1>3, <1>4, <1>5, <1>7, <1>8

LEMMA KernelSendStep ==
  ASSUME MaxInv, NEW t \in Thread, KernelSend(t)
  PROVE  MaxInv'
<1> USE DEF MaxInv
<1> DEFINE n == Smaller(PageUnits, SockBuf - stream[t])
           b == client[t]
<1>1. /\ b \in ClientStates /\ b.inflight > 0 /\ link[t] = "open" /\ stream[t] < SockBuf
      /\ stream' = [stream EXCEPT ![t] = @ + n] /\ taken' = taken + n
      /\ lost' = lost + PageUnits - n
      /\ UNCHANGED <<link, handler, server, total_bytes_received>>
  BY ClientCounters DEF KernelSend
<1>2. /\ n \in Nat /\ n <= PageUnits /\ stream[t] + n <= SockBuf /\ stream[t] \in Nat
      /\ PageUnits \in Nat /\ taken \in Nat /\ lost \in Nat /\ SockBuf \in Nat
  <2>1. stream[t] \in 0..SockBuf /\ taken \in Nat /\ lost \in Nat  BY DEF StatesOK
  <2> QED  BY <1>1, <2>1, MaxAssumption DEF Smaller
<1> HIDE DEF n
<1>3. client' = [client EXCEPT
                   ![t] = Changed(b, b.pc, b.inflight - 1, b.good + 1, b.bad)]
  <2>1. client' = [client EXCEPT ![t] = [b EXCEPT !.inflight = @ - 1, !.good = @ + 1]]
    BY DEF KernelSend, StatesOK, ClientStates
  <2>2. [b EXCEPT !.inflight = @ - 1, !.good = @ + 1]
          = Changed(b, b.pc, b.inflight - 1, b.good + 1, b.bad)
    <3> HIDE DEF b
    <3> QED  BY <1>1 DEF ClientStates, Changed
  <2> QED  BY <2>1, <2>2
<1>4. PICK c : Moves(t, c, b.pc, b.good + 1)
  <2>1. /\ b.pc \in States
        /\ b.inflight \in Nat /\ b.good \in Nat /\ b.bad \in Nat
    <3> HIDE DEF b
    <3> QED  BY <1>1 DEF ClientStates, States
  <2>2. /\ b.inflight - 1 \in Nat /\ b.good + 1 \in Nat
        /\ (b.inflight - 1) + (b.good + 1) + b.bad = b.inflight + b.good + b.bad
    BY <1>1, <2>1
  <2> DEFINE i == b.inflight - 1
             g == b.good + 1
  <2>3. client' = [client EXCEPT ![t] = Changed(b, b.pc, i, g, b.bad)]  BY <1>3
  <2>4. i \in Nat /\ g \in Nat /\ i + g + b.bad = b.inflight + b.good + b.bad  BY <2>2
  <2>6. b = client[t]  OBVIOUS
  <2> HIDE DEF i, g, b
  <2>5. PICK c : Moves(t, c, b.pc, g)
    BY <2>1, <2>3, <2>4, <2>6, CounterStep
  <2> QED  BY <2>5 DEF g
<1>5. /\ client' \in [Thread -> ClientStates] /\ client'[t] = c
      /\ \A u \in Thread : WindowOK(client'[u], local_num_requests(u))
      /\ \A u \in Thread \ {t} : client'[u] = client[u]
  BY <1>4, ClientMoves DEF Moves
<1>6. /\ stream' \in [Thread -> 0..SockBuf] /\ stream'[t] = stream[t] + n
      /\ \A u \in Thread \ {t} : stream'[u] = stream[u]
  BY <1>1, <1>2 DEF StatesOK
<1>7. StatesOK'
  <2>1. taken + n \in Nat /\ lost + PageUnits - n \in Nat  BY <1>2
  <2>2. client' \in [Thread -> ClientStates']  BY <1>5 DEF ClientStates
  <2>3. handler' \in [Thread -> HandlerStates']  BY <1>1 DEF StatesOK, HandlerStates
  <2> QED  BY <1>1, <1>6, <2>1, <2>2, <2>3 DEF StatesOK
<1>8. CountsOK'
  BY <1>1, <1>5 DEF CountsOK, WindowOK, local_num_requests, requests_per_thread
<1>9. LinksOK'
  BY <1>1, <1>4, <1>5 DEF LinksOK, Moves
<1>10. EndsOK'
  <2> SUFFICES ASSUME NEW u \in Thread, Whole(u)' PROVE EndsAt(handler[u], Over(u)')
    BY <1>1 DEF EndsOK, EndsAt, EndsLast, OnlyEnds
  <2>1. Whole(u)  BY <1>1 DEF Whole
  <2>2. Over(u) => Over(u)'  BY <1>1, <1>6 DEF Over
  <2> QED  BY <2>1, <2>2 DEF EndsOK, EndsAt
<1>11. SendsCounted'
  <2>1. SentUnits \in [Thread -> Nat] /\ SentUnits' \in [Thread -> Nat]
    <3>1. SentUnits \in [Thread -> Nat]  BY SumsTyped
    <3>2. StatesOK => SentUnits \in [Thread -> Nat]  BY SumsTyped
    <3>3. ASSUME NEW u \in Thread
          PROVE  (client'[u].completed + client'[u].good) * PageUnits \in Nat
      <4>1. client'[u].completed \in Nat /\ client'[u].good \in Nat
        BY <1>5 DEF ClientStates
      <4> QED  BY <1>2, <4>1
    <3> QED  BY <3>1, <3>3 DEF SentUnits
  <2>2. SentUnits'[t] = SentUnits[t] + PageUnits
    <3>1. b.completed \in Nat /\ b.good \in Nat
      <4> HIDE DEF b
      <4> QED  BY <1>1 DEF ClientStates
    <3>2. (b.completed + (b.good + 1)) * PageUnits = (b.completed + b.good) * PageUnits + PageUnits
      <4>1. \A m, p \in Nat : (m + 1) * p = m * p + p  OBVIOUS
      <4>2. b.completed + (b.good + 1) = (b.completed + b.good) + 1
            /\ b.completed + b.good \in Nat
        BY <3>1
      <4> QED  BY <1>2, <4>1, <4>2
    <3> QED  BY <1>4, <1>5, <3>2 DEF SentUnits, Moves
  <2>3. \A u \in Thread \ {t} : SentUnits'[u] = SentUnits[u]
    BY <1>5 DEF SentUnits
  <2>4. Total(SentUnits') = Total(SentUnits) - SentUnits[t] + SentUnits'[t]
    BY <2>1, <2>3, TotalChanges
  <2>5. Total(SentUnits) \in Nat /\ SentUnits[t] \in Nat  BY <2>1, TotalType
  <2>6. Total(SentUnits)' = Total(SentUnits')  OBVIOUS
  <2> QED  BY <1>1, <1>2, <2>2, <2>4, <2>5, <2>6 DEF SendsCounted
<1>12. UnitsHeld'
  <2>1. Total(stream') = Total(stream) - stream[t] + stream'[t]
    <3>1. stream \in [Thread -> Nat] /\ stream' \in [Thread -> Nat]
      BY <1>6, SumsTyped
    <3> QED  BY <1>6, <3>1, TotalChanges
  <2>2. Total(stream) \in Nat /\ Total(Completed) \in Nat /\ total_bytes_received \in Nat
    BY SumsTyped DEF StatesOK
  <2>3. Total(stream)' = Total(stream') /\ Total(Completed)' = Total(Completed)
    <3>1. Completed' = Completed  BY <1>1 DEF Completed
    <3> QED  BY <3>1
  <2>4. (\A u \in Thread : Whole(u))' => \A u \in Thread : Whole(u)  BY <1>1 DEF Whole
  <2> QED  BY <1>1, <1>2, <1>6, <2>1, <2>2, <2>3, <2>4 DEF UnitsHeld
<1> QED  BY <1>7, <1>8, <1>9, <1>10, <1>11, <1>12

\* The steps of a thread that leave what is sent and received alone.
LEMMA LinksKept ==
  ASSUME MaxInv, NEW t \in Thread, NEW c, client' = [client EXCEPT ![t] = c],
         c \in ClientStates, c.pc \notin {"connect", "closed"},
         client[t].pc \notin {"closed"}, link' = link
  PROVE  \A u \in Thread : /\ client'[u].pc = "connect" => link'[u] = "none"
                           /\ link'[u] = "fin" => client'[u].pc = "closed"
BY DEF MaxInv, StatesOK, LinksOK

LEMMA SubmitKeeps ==
  ASSUME MaxInv, NEW t \in Thread, Submit(t)
  PROVE  MaxInv'
<1>1. PICK c : /\ client' = [client EXCEPT ![t] = c] /\ c \in ClientStates
               /\ WindowOK(c, local_num_requests(t)) /\ client[t].pc = "submit"
               /\ c.pc = "reap" /\ c.completed = client[t].completed
               /\ c.good = client[t].good
  BY SubmitStep DEF MaxInv
<1>2. UNCHANGED <<link, stream, handler, server, total_bytes_received, taken, lost>>
  BY DEF Submit
<1>3. \A u \in Thread : /\ client'[u].pc = "connect" => link'[u] = "none"
                        /\ link'[u] = "fin" => client'[u].pc = "closed"
  BY <1>1, <1>2, LinksKept
<1>4. link' \in [Thread -> {"none", "open", "fin", "broken"}]  BY <1>2 DEF MaxInv, StatesOK
<1> QED  BY <1>1, <1>2, <1>3, <1>4, QuietClientStep

LEMMA ReapKeeps ==
  ASSUME MaxInv, NEW t \in Thread, Reap(t)
  PROVE  MaxInv'
<1>1. PICK c : /\ client' = [client EXCEPT ![t] = c] /\ c \in ClientStates
               /\ WindowOK(c, local_num_requests(t)) /\ client[t].pc = "reap"
               /\ c.pc \in {"submit", "exit"} /\ c.good = 0
               /\ c.completed = client[t].completed + client[t].good
  BY ReapStep DEF MaxInv
<1>2. UNCHANGED <<link, stream, handler, server, total_bytes_received, taken, lost>>
  BY DEF Reap
<1>3. \A u \in Thread : /\ client'[u].pc = "connect" => link'[u] = "none"
                        /\ link'[u] = "fin" => client'[u].pc = "closed"
  BY <1>1, <1>2, LinksKept
<1>4. link' \in [Thread -> {"none", "open", "fin", "broken"}]  BY <1>2 DEF MaxInv, StatesOK
<1>5. c.completed + c.good = client[t].completed + client[t].good
  <2>1. c.completed \in Nat  BY <1>1 DEF ClientStates
  <2> QED  BY <1>1, <2>1
<1> QED  BY <1>1, <1>2, <1>3, <1>4, <1>5, QuietClientStep

\* A step that changes nothing of a thread but where it is, or fails a send.
LEMMA MovesOnly ==
  ASSUME MaxInv, NEW t \in Thread, NEW p \in States, NEW i \in Nat, NEW d \in Nat,
         i + d = client[t].inflight + client[t].bad,
         client' = [client EXCEPT ![t] = Changed(client[t], p, i, client[t].good, d)]
  PROVE  \E c : Moves(t, c, p, client[t].good)
<1> DEFINE b == client[t]
           g == b.good
<1>1. b \in ClientStates  BY ClientCounters DEF MaxInv
<1>2. g \in Nat /\ b.inflight \in Nat /\ b.bad \in Nat
  <2> HIDE DEF b
  <2> QED  BY <1>1 DEF ClientStates
<1>3. i + g + d = b.inflight + b.good + b.bad  BY <1>2
<1>4. client' = [client EXCEPT ![t] = Changed(b, p, i, g, d)] /\ b = client[t]  OBVIOUS
<1> HIDE DEF b, g
<1>5. \E c : Moves(t, c, p, g)  BY <1>2, <1>3, <1>4, CounterStep DEF MaxInv
<1> QED  BY <1>5 DEF b, g

LEMMA MovesKeeps ==
  ASSUME MaxInv, NEW t \in Thread, NEW p, NEW c, Moves(t, c, p, client[t].good),
         NEW l \in {"none", "open", "fin", "broken"}, link' = [link EXCEPT ![t] = l],
         l = "broken" <=> link[t] = "broken", link[t] = "fin" => l = "fin",
         l = "fin" => p = "closed", p = "connect" => l = "none",
         UNCHANGED <<stream, handler, server, total_bytes_received, taken, lost>>
  PROVE  MaxInv'
<1>1. /\ client' = [client EXCEPT ![t] = c] /\ c \in ClientStates
      /\ WindowOK(c, local_num_requests(t)) /\ c.pc = p
      /\ c.completed + c.good = client[t].completed + client[t].good
  BY DEF Moves
<1>2. /\ client \in [Thread -> ClientStates]
      /\ link \in [Thread -> {"none", "open", "fin", "broken"}]
  BY DEF MaxInv, StatesOK
<1>3. \A u \in Thread : /\ client[u].pc = "connect" => link[u] = "none"
                        /\ link[u] = "fin" => client[u].pc = "closed"
  BY DEF MaxInv, LinksOK
<1>4. client'[t].pc = p /\ \A u \in Thread \ {t} : client'[u] = client[u]
  BY <1>1, <1>2
<1>5. link' \in [Thread -> {"none", "open", "fin", "broken"}]
      /\ link'[t] = l /\ \A u \in Thread \ {t} : link'[u] = link[u]
  BY <1>2
<1>6. \A u \in Thread : /\ link'[u] = "broken" <=> link[u] = "broken"
                        /\ link[u] = "fin" => link'[u] = "fin"
                        /\ client'[u].pc = "connect" => link'[u] = "none"
                        /\ link'[u] = "fin" => client'[u].pc = "closed"
  BY <1>3, <1>4, <1>5
<1> QED  BY <1>1, <1>5, <1>6, QuietClientStep

LEMMA PcKeeps ==
  ASSUME MaxInv, NEW t \in Thread, NEW p \in States, client' = [client EXCEPT ![t].pc = p],
         NEW l \in {"none", "open", "fin", "broken"}, link' = [link EXCEPT ![t] = l],
         l = "broken" <=> link[t] = "broken", link[t] = "fin" => l = "fin",
         l = "fin" => p = "closed", p = "connect" => l = "none",
         UNCHANGED <<stream, handler, server, total_bytes_received, taken, lost>>
  PROVE  MaxInv'
<1> DEFINE b == client[t]
<1>1. b \in ClientStates /\ client \in [Thread -> ClientStates]  BY DEF MaxInv, StatesOK
<1>2. client' = [client EXCEPT ![t] = [b EXCEPT !.pc = p]]  BY <1>1
<1>3. b.inflight \in Nat /\ b.bad \in Nat
      /\ [b EXCEPT !.pc = p] = Changed(b, p, b.inflight, b.good, b.bad)
  <2> HIDE DEF b
  <2>1. b.inflight \in Nat /\ b.bad \in Nat  BY <1>1 DEF ClientStates
  <2>2. p \in {"connect", "submit", "reap", "exit", "closed", "gone"}  BY DEF States
  <2>3. [b EXCEPT !.pc = p] = Changed(b, p, b.inflight, b.good, b.bad)
    BY <1>1, <2>2 DEF ClientStates, Changed
  <2> QED  BY <2>1, <2>3
<1>4. PICK c : Moves(t, c, p, b.good)  BY <1>2, <1>3, MovesOnly
<1> QED  BY <1>4, MovesKeeps

LEMMA ConnectKeeps ==
  ASSUME MaxInv, NEW t \in Thread, Connect(t) \/ ConnectFails(t) \/ Exit(t)
  PROVE  MaxInv'
<1>1. /\ link \in [Thread -> {"none", "open", "fin", "broken"}]
      /\ client \in [Thread -> ClientStates]
  BY DEF MaxInv, StatesOK
<1>2. /\ client[t].pc = "connect" => link[t] = "none"
      /\ link[t] = "fin" => client[t].pc = "closed"
  BY DEF MaxInv, LinksOK
<1>3. CASE Connect(t)
  <2> DEFINE p == Continue(t, 0)
  <2>1. p \in States /\ p # "connect"  BY DEF Continue, States
  <2> HIDE DEF p
  <2>2. client' = [client EXCEPT ![t].pc = p] /\ link' = [link EXCEPT ![t] = "open"]
        /\ UNCHANGED <<stream, handler, server, total_bytes_received, taken, lost>>
        /\ link[t] = "none"
    BY <1>2, <1>3 DEF Connect, p
  <2> QED  BY <2>1, <2>2, PcKeeps
<1>4. CASE ConnectFails(t)
  <2>1. client' = [client EXCEPT ![t].pc = "gone"] /\ link' = [link EXCEPT ![t] = link[t]]
        /\ UNCHANGED <<stream, handler, server, total_bytes_received, taken, lost>>
        /\ link[t] = "none" /\ "gone" \in States
    BY <1>1, <1>2, <1>4 DEF ConnectFails, States
  <2> QED  BY <2>1, PcKeeps
<1>5. CASE Exit(t)
  <2> DEFINE l == IF link[t] = "open" THEN "fin" ELSE link[t]
  <2>1. l \in {"none", "open", "fin", "broken"} /\ (l = "broken" <=> link[t] = "broken")
        /\ (link[t] = "fin" => l = "fin")
    BY <1>1
  <2>2. client' = [client EXCEPT ![t].pc = "closed"] /\ link' = [link EXCEPT ![t] = l]
        /\ UNCHANGED <<stream, handler, server, total_bytes_received, taken, lost>>
        /\ "closed" \in States
    BY <1>1, <1>5 DEF Exit, States
  <2> HIDE DEF l
  <2> QED  BY <2>1, <2>2, PcKeeps
<1> QED  BY <1>3, <1>4, <1>5

LEMMA SendFailsKeeps ==
  ASSUME MaxInv, NEW t \in Thread, KernelSendFails(t)
  PROVE  MaxInv'
<1> DEFINE b == client[t]
           i == b.inflight - 1
           d == b.bad + 1
<1>1. /\ b \in ClientStates /\ client \in [Thread -> ClientStates]
      /\ link \in [Thread -> {"none", "open", "fin", "broken"}]
  BY DEF MaxInv, StatesOK
<1>2. b.pc \in States /\ b.inflight \in Nat /\ b.good \in Nat /\ b.bad \in Nat
  <2> HIDE DEF b
  <2> QED  BY <1>1 DEF ClientStates, States
<1>3. /\ client' = [client EXCEPT ![t] = [b EXCEPT !.inflight = @ - 1, !.bad = @ + 1]]
      /\ b.inflight > 0 /\ link[t] = "broken" /\ link' = [link EXCEPT ![t] = "broken"]
      /\ UNCHANGED <<stream, handler, server, total_bytes_received, taken, lost>>
  BY <1>1 DEF KernelSendFails, ClientStates
<1>4. [b EXCEPT !.inflight = @ - 1, !.bad = @ + 1] = Changed(b, b.pc, i, b.good, d)
  <2> HIDE DEF b
  <2> QED  BY <1>1 DEF ClientStates, Changed
<1>5. i \in Nat /\ d \in Nat /\ i + d = b.inflight + b.bad  BY <1>2, <1>3
<1>6. client' = [client EXCEPT ![t] = Changed(b, b.pc, i, b.good, d)]  BY <1>3, <1>4
<1> HIDE DEF i, d
<1>7. PICK c : Moves(t, c, b.pc, b.good)  BY <1>2, <1>5, <1>6, MovesOnly
<1>8. b.pc # "connect"  BY <1>3 DEF MaxInv, LinksOK
<1> QED  BY <1>3, <1>7, <1>8, MovesKeeps

-----------------------------------------------------------------------------
(* A step of a handler or of its kernel.                                   *)

LEMMA HandlerMoves ==
  ASSUME MaxInv, NEW t \in Thread, NEW h \in HandlerStates,
         handler' = [handler EXCEPT ![t] = h], h.reads + Len(h.cq) <= RingSize,
         handler[t].pc # "finished", h.pc # "none",
         NEW n \in Nat, n <= stream[t], stream' = [stream EXCEPT ![t] = n],
         total_bytes_received' \in Nat,
         total_bytes_received' + n + Bytes(h.cq)
           = total_bytes_received + stream[t] + Bytes(handler[t].cq),
         Whole(t) => EndsAt(h, link[t] = "fin" /\ n = 0),
         server' = server \/ server' \in {"accept", "poll"},
         UNCHANGED <<client, link, taken, lost>>
  PROVE  MaxInv'
<1> USE DEF MaxInv
<1>1. /\ handler' \in [Thread -> HandlerStates] /\ handler'[t] = h
      /\ \A u \in Thread \ {t} : handler'[u] = handler[u]
  BY DEF StatesOK
<1>2. /\ stream' \in [Thread -> 0..SockBuf] /\ stream'[t] = n
      /\ \A u \in Thread \ {t} : stream'[u] = stream[u]
  <2>1. stream[t] \in 0..SockBuf /\ stream \in [Thread -> 0..SockBuf]  BY DEF StatesOK
  <2>2. n \in 0..SockBuf  BY <2>1, MaxAssumption
  <2> QED  BY <2>1, <2>2
<1>3. StatesOK'
  <2>1. handler' \in [Thread -> HandlerStates']  BY <1>1 DEF HandlerStates
  <2>2. client' \in [Thread -> ClientStates']  BY DEF StatesOK, ClientStates
  <2>3. server' \in {"accept", "poll", "join", "done"}  BY DEF StatesOK
  <2> QED  BY <1>2, <2>1, <2>2, <2>3 DEF StatesOK
<1>4. CountsOK'
  BY <1>1 DEF CountsOK, WindowOK, local_num_requests, requests_per_thread
<1>5. LinksOK'
  <2>1. server' # "done"  BY DEF LinksOK
  <2> QED  BY <1>1, <2>1 DEF LinksOK
<1>6. EndsOK'
  <2> SUFFICES ASSUME NEW u \in Thread, Whole(u)' PROVE EndsAt(handler'[u], Over(u)')
    BY DEF EndsOK, EndsAt, EndsLast, OnlyEnds
  <2>1. Whole(u)  BY DEF Whole
  <2>2. CASE u = t
    <3>1. Over(u)' <=> link[t] = "fin" /\ n = 0  BY <1>2, <2>2 DEF Over
    <3> QED  BY <1>1, <2>1, <2>2, <3>1 DEF EndsAt
  <2>3. CASE u # t
    <3>1. Over(u)' <=> Over(u)  BY <1>2, <2>3 DEF Over
    <3> QED  BY <1>1, <2>1, <2>3, <3>1 DEF EndsOK, EndsAt
  <2> QED  BY <2>2, <2>3
<1>7. SendsCounted'
  <2>1. SentUnits' = SentUnits  BY DEF SentUnits
  <2> QED  BY <2>1 DEF SendsCounted
<1>8. UnitsHeld'
  <2>1. stream \in [Thread -> Nat] /\ stream' \in [Thread -> Nat]
    BY <1>2, SumsTyped
  <2>2. Total(stream') = Total(stream) - stream[t] + n
    BY <1>2, <2>1, TotalChanges
  <2>3. Completed \in [Thread -> Nat] /\ Completed[t] = Bytes(handler[t].cq)
    BY SumsTyped
  <2>4. /\ Completed' \in [Thread -> Nat] /\ Completed'[t] = Bytes(h.cq)
        /\ \A u \in Thread \ {t} : Completed'[u] = Completed[u]
    <3>1. \A u \in Thread : Completed'[u] = Bytes(handler'[u].cq)
      BY DEF Completed, Bytes, Shares
    <3>2. \A u \in Thread : Completed[u] = Bytes(handler[u].cq)
      BY SumsTyped
    <3>3. \A u \in Thread \ {t} : Completed'[u] = Completed[u]
      BY <1>1, <3>1, <3>2
    <3>4. Bytes(h.cq) \in Nat
      <4>1. h.cq \in Seq(Error..PageUnits) /\ Error..PageUnits \subseteq Int
        BY DEF HandlerStates
      <4>2. h.cq \in Seq(Int)  BY <4>1, WiderQueue
      <4> QED  BY <4>2, BytesIs
    <3>5. Completed' = [u \in Thread |-> Completed'[u]]  BY DEF Completed
    <3>6. \A u \in Thread : Completed'[u] \in Nat
      BY <1>1, <2>3, <3>1, <3>3, <3>4
    <3> QED  BY <1>1, <3>1, <3>3, <3>5, <3>6
  <2>5. Total(Completed') = Total(Completed) - Bytes(handler[t].cq) + Bytes(h.cq)
    BY <2>3, <2>4, TotalChanges
  <2>6. /\ Total(stream) \in Nat /\ Total(Completed) \in Nat /\ total_bytes_received \in Nat
        /\ taken \in Nat /\ stream[t] \in Nat
        /\ Bytes(handler[t].cq) \in Nat /\ Bytes(h.cq) \in Nat
    BY <2>1, <2>3, <2>4, SumsTyped DEF StatesOK
  <2>7. total_bytes_received' + Total(stream') + Total(Completed')
          = total_bytes_received + Total(stream) + Total(Completed)
    <3>2. Total(stream') \in Nat /\ Total(Completed') \in Nat
      BY <2>1, <2>4, TotalType
    <3> DEFINE b == Total(stream')
               e == Total(Completed')
               c == Total(stream)
               f == Total(Completed)
               m == Bytes(handler[t].cq)
               k == Bytes(h.cq)
               d == stream[t]
               p == total_bytes_received'
               q == total_bytes_received
    <3>3. /\ b \in Nat /\ e \in Nat /\ c \in Nat /\ f \in Nat /\ m \in Nat /\ k \in Nat
          /\ d \in Nat /\ p \in Nat /\ q \in Nat /\ n \in Nat
      BY <2>6, <3>2
    <3>4. b = c - d + n /\ e = f - m + k  BY <2>2, <2>5
    <3>5. p + n + k = q + d + m
      OBVIOUS
    <3> HIDE DEF b, c, e, f, k, m, d, p, q
    <3>6. b + d = c + n /\ e + m = f + k
      BY <3>3, <3>4
    <3>7. p + b + e = q + c + f
      BY <3>3, <3>5, <3>6
    <3> QED  BY <3>7 DEF b, c, e, f, p, q
  <2>8. (\A u \in Thread : Whole(u))' => \A u \in Thread : Whole(u)  BY DEF Whole
  <2>9. (total_bytes_received + Total(stream) + Total(Completed))'
          = total_bytes_received' + Total(stream') + Total(Completed')
    OBVIOUS
  <2> QED  BY <2>7, <2>8, <2>9 DEF UnitsHeld
<1> QED  BY <1>3, <1>4, <1>5, <1>6, <1>7, <1>8

LEMMA ReadKeeps ==
  ASSUME MaxInv, NEW t \in Thread, KernelRead(t) \/ KernelReadEnd(t)
  PROVE  MaxInv'
<1> DEFINE b == handler[t]
           q == b.cq
<1>1. /\ handler \in [Thread -> HandlerStates] /\ stream \in [Thread -> 0..SockBuf]
      /\ b \in HandlerStates /\ q \in Seq(Error..PageUnits) /\ q \in Seq(Int)
      /\ b.reads \in 0..RingSize /\ Len(q) \in Nat /\ stream[t] \in Nat
      /\ b.reads + Len(q) <= RingSize /\ PageUnits \in Nat \ {0} /\ RingSize \in Nat
      /\ total_bytes_received \in Nat
  BY HandlerOf, MaxAssumption DEF MaxInv, StatesOK, CountsOK, HandlerStates
<1>2. Whole(t) => EndsAt(b, Over(t))
  BY DEF MaxInv, EndsOK
<1>3. \E res \in Error..PageUnits : \E n \in Nat :
        /\ ReadDone(t, res) /\ Reading(t)
        /\ stream' = [stream EXCEPT ![t] = n] /\ n <= stream[t]
        /\ n + Brought(res) = stream[t]
        /\ \/ res > 0 /\ stream[t] > 0
           \/ res <= 0 /\ n = 0 /\ stream[t] = 0 /\ link[t] \in {"fin", "broken"}
        /\ UNCHANGED <<client, link, server, total_bytes_received, taken, lost>>
  <2>1. CASE KernelRead(t)
    <3> DEFINE res == Smaller(PageUnits, stream[t])
               n == stream[t] - res
    <3>1. stream[t] > 0 /\ ReadDone(t, res) /\ Reading(t)
          /\ stream' = [stream EXCEPT ![t] = n]
          /\ UNCHANGED <<client, link, server, total_bytes_received, taken, lost>>
      BY <2>1 DEF KernelRead
    <3>2. res \in Nat /\ res > 0 /\ res <= PageUnits /\ res <= stream[t]
      BY <1>1, <3>1 DEF Smaller
    <3> HIDE DEF res
    <3>3. res \in Error..PageUnits /\ Brought(res) = res
      BY <1>1, <3>2 DEF Error, Brought
    <3>4. n \in Nat /\ n <= stream[t] /\ n + res = stream[t]  BY <1>1, <3>2
    <3> QED  BY <3>1, <3>2, <3>3, <3>4
  <2>2. CASE KernelReadEnd(t)
    <3> DEFINE res == IF link[t] = "fin" THEN 0 ELSE Error
    <3>1. /\ stream[t] = 0 /\ ReadDone(t, res) /\ Reading(t) /\ link[t] \in {"fin", "broken"}
          /\ UNCHANGED <<client, link, stream, server, total_bytes_received, taken, lost>>
      BY <2>2 DEF KernelReadEnd
    <3>2. res \in Error..PageUnits /\ res <= 0 /\ Brought(res) = 0
      <4>1. res = 0 \/ res = -1  BY DEF Error
      <4> HIDE DEF res
      <4> QED  BY <1>1, <4>1 DEF Error, Brought
    <3> HIDE DEF res
    <3>3. /\ stream' = [stream EXCEPT ![t] = 0] /\ 0 \in Nat /\ 0 <= stream[t]
          /\ 0 + Brought(res) = stream[t]
      BY <1>1, <3>1, <3>2
    <3> HIDE DEF b, q
    <3> QED  BY <3>1, <3>2, <3>3
  <2> QED  BY <2>1, <2>2
<1>4. PICK res \in Error..PageUnits, n \in Nat :
        /\ ReadDone(t, res) /\ Reading(t)
        /\ stream' = [stream EXCEPT ![t] = n] /\ n <= stream[t]
        /\ n + Brought(res) = stream[t]
        /\ \/ res > 0 /\ stream[t] > 0
           \/ res <= 0 /\ n = 0 /\ stream[t] = 0 /\ link[t] \in {"fin", "broken"}
        /\ UNCHANGED <<client, link, server, total_bytes_received, taken, lost>>
  BY <1>3
<1> DEFINE p == Append(q, res)
           h == [b EXCEPT !.reads = b.reads - 1, !.cq = p]
<1>5. handler' = [handler EXCEPT ![t] = h] /\ b.pc = "serve" /\ b.reads > 0
  BY <1>1, <1>4 DEF ReadDone, Reading, HandlerStates
<1>6. /\ p \in Seq(Error..PageUnits) /\ Len(p) = Len(q) + 1 /\ DOMAIN p = 1..(Len(q) + 1)
      /\ DOMAIN q = 1..Len(q)
      /\ \A i \in DOMAIN q : p[i] = q[i] /\ q[i] \in Int
      /\ p[Len(q) + 1] = res /\ res \in Int
  BY <1>1
<1> HIDE DEF b, p
<1>7. /\ h \in HandlerStates /\ h.reads = b.reads - 1 /\ h.cq = p /\ h.pc = b.pc
  <2>1. b.reads - 1 \in 0..RingSize  BY <1>1, <1>5
  <2> QED  BY <1>1, <1>6, <2>1 DEF HandlerStates
<1>8. h.reads + Len(h.cq) <= RingSize
  BY <1>1, <1>6, <1>7
<1>9. total_bytes_received + n + Bytes(h.cq) = total_bytes_received + stream[t] + Bytes(q)
  <2>1. Bytes(p) = Bytes(q) + Brought(res) /\ Bytes(q) \in Nat
    BY <1>1, <1>6, BytesLast, BytesIs DEF p
  <2>2. Brought(res) \in Nat  BY <1>6 DEF Brought
  <2> QED  BY <1>1, <1>4, <1>7, <2>1, <2>2
<1>10. ASSUME Whole(t) PROVE EndsAt(h, link[t] = "fin" /\ n = 0)
  <2>1. /\ EndsLast(q)
        /\ (\E i \in DOMAIN q : q[i] <= 0) => Over(t)
    BY <1>2, <1>10 DEF EndsAt
  <2>2. link[t] # "broken" /\ (Over(t) <=> link[t] = "fin" /\ stream[t] = 0)
    BY <1>10 DEF Whole, Over
  <2>3. \A i \in DOMAIN p : i \in DOMAIN q \/ i = Len(q) + 1
    BY <1>1, <1>6
  <2>4. EndsLast(p)
    <3> SUFFICES ASSUME NEW i \in DOMAIN p, NEW j \in DOMAIN p, p[i] <= 0, j > i
                 PROVE  p[j] <= 0
      BY DEF EndsLast
    <3>1. i \in DOMAIN q  BY <1>1, <1>6, <2>3
    <3>2. stream[t] = 0  BY <1>6, <2>1, <2>2, <3>1
    <3>3. CASE j \in DOMAIN q  BY <1>6, <2>1, <3>1, <3>3 DEF EndsLast
    <3>4. CASE j = Len(q) + 1  BY <1>4, <1>6, <3>2, <3>4
    <3> QED  BY <2>3, <3>3, <3>4
  <2>5. ASSUME NEW i \in DOMAIN p, p[i] <= 0 PROVE link[t] = "fin" /\ n = 0
    <3>1. CASE i \in DOMAIN q
      <4>1. link[t] = "fin" /\ stream[t] = 0  BY <1>6, <2>1, <2>2, <2>5, <3>1
      <4> QED  BY <1>4, <4>1
    <3>2. CASE i = Len(q) + 1
      <4>1. ~(res > 0)  BY <1>6, <2>5, <3>2
      <4> QED  BY <1>4, <2>2, <4>1
    <3> QED  BY <2>3, <3>1, <3>2
  <2>6. h.pc # "finished"  BY <1>5, <1>7
  <2> QED  BY <1>7, <2>4, <2>5, <2>6 DEF EndsAt
<1> HIDE DEF h, q
<1>11. handler[t].pc # "finished" /\ handler[t] = b /\ handler[t].cq = q
  BY <1>5 DEF b, q
<1> QED  BY <1>1, <1>4, <1>5, <1>7, <1>8, <1>9, <1>10, <1>11, HandlerMoves

\* A completion is looked at: its units go to the counter, or it ends the handler.
LEMMA HandleKeeps ==
  ASSUME MaxInv, NEW t \in Thread, HandleData(t) \/ HandleEnd(t)
  PROVE  MaxInv'
<1> DEFINE b == handler[t]
           q == b.cq
           p == Tail(q)
           res == Head(q)
<1>1. /\ handler \in [Thread -> HandlerStates] /\ stream \in [Thread -> 0..SockBuf]
      /\ b \in HandlerStates /\ q \in Seq(Error..PageUnits) /\ q \in Seq(Int)
      /\ b.reads \in 0..RingSize /\ Len(q) \in Nat /\ stream[t] \in Nat
      /\ b.reads + Len(q) <= RingSize /\ RingSize \in Nat
      /\ total_bytes_received \in Nat
  BY HandlerOf, MaxAssumption DEF MaxInv, StatesOK, CountsOK, HandlerStates
<1>2. Whole(t) => EndsAt(b, Over(t))
  BY DEF MaxInv, EndsOK
<1>3. /\ b.pc = "serve" /\ q # <<>>
      /\ UNCHANGED <<client, link, stream, server, taken, lost>>
  BY DEF HandleData, HandleEnd
<1>4. /\ p \in Seq(Error..PageUnits) /\ Len(p) = Len(q) - 1 /\ DOMAIN p = 1..(Len(q) - 1)
      /\ DOMAIN q = 1..Len(q) /\ Len(q) >= 1 /\ res = q[1] /\ res \in Int
      /\ \A i \in DOMAIN p : p[i] = q[i + 1] /\ i + 1 \in DOMAIN q /\ i + 1 > 1
  <2> HIDE DEF b, q
  <2>1. p \in Seq(Error..PageUnits) /\ Len(p) = Len(q) - 1  BY <1>1, <1>3
  <2>2. DOMAIN q = 1..Len(q) /\ Len(q) >= 1 /\ res = q[1]  BY <1>1, <1>3
  <2>3. res \in Int  BY <1>1, <2>2
  <2>4. DOMAIN p = 1..(Len(q) - 1)  BY <2>1
  <2>5. \A i \in 1..(Len(q) - 1) : p[i] = q[i + 1] /\ i + 1 \in 1..Len(q) /\ i + 1 > 1
    BY <1>1, <1>3
  <2> QED  BY <2>1, <2>2, <2>3, <2>4, <2>5
<1> DEFINE h == IF res > 0 THEN [b EXCEPT !.cq = p, !.reads = b.reads + 1]
                ELSE [b EXCEPT !.pc = "finished", !.cq = p]
<1>5. /\ handler' = [handler EXCEPT ![t] = h]
      /\ total_bytes_received' = total_bytes_received + Brought(res)
      /\ res > 0 <=> ~(res <= 0)
  <2>1. CASE HandleData(t)
    <3>1. res > 0 /\ total_bytes_received' = total_bytes_received + res
      BY <2>1 DEF HandleData, CountRead
    <3>2. handler' = [handler EXCEPT ![t] = [b EXCEPT !.cq = p, !.reads = b.reads + 1]]
      BY <1>1, <2>1 DEF HandleData, HandlerStates
    <3>3. ~(res <= 0) /\ Brought(res) = res  BY <1>4, <3>1 DEF Brought
    <3> QED  BY <3>1, <3>2, <3>3
  <2>2. CASE HandleEnd(t)
    <3>1. res <= 0 /\ ~(res > 0)  BY <1>4, <2>2 DEF HandleEnd
    <3>2. Brought(res) = 0 /\ total_bytes_received + 0 = total_bytes_received
      BY <1>1, <3>1 DEF Brought
    <3> QED  BY <1>1, <2>2, <3>1, <3>2 DEF HandleEnd, HandlerStates
  <2> QED  BY <2>1, <2>2
<1> HIDE DEF b, p, res
<1>6. /\ h \in HandlerStates /\ h.cq = p
      /\ h.reads = IF res > 0 THEN b.reads + 1 ELSE b.reads
      /\ h.pc = IF res > 0 THEN "serve" ELSE "finished"
  <2>1. b.reads + 1 \in 0..RingSize  BY <1>1, <1>4
  <2> QED  BY <1>1, <1>3, <1>4, <2>1 DEF HandlerStates
<1>7. h.reads + Len(h.cq) <= RingSize
  <2>1. b.reads \in Nat  BY <1>1
  <2> HIDE DEF h
  <2> QED  BY <1>1, <1>4, <1>6, <2>1
<1>8. Brought(res) \in Nat  BY <1>4 DEF Brought
<1>9. total_bytes_received' + stream[t] + Bytes(h.cq)
        = total_bytes_received + stream[t] + Bytes(q)
  <2>1. Bytes(q) = Brought(res) + Bytes(p)
    BY <1>1, <1>3, BytesHead DEF p, res
  <2>2. Bytes(p) \in Nat
    <3>1. p \in Seq(Int)  BY <1>1, <1>3 DEF p
    <3> QED  BY <3>1, BytesIs
  <2> HIDE DEF h, q
  <2> QED  BY <1>1, <1>5, <1>6, <1>8, <2>1, <2>2
<1>10. ASSUME Whole(t) PROVE EndsAt(h, link[t] = "fin" /\ stream[t] = 0)
  <2>1. EndsLast(q)  BY <1>2, <1>10 DEF EndsAt
  <2>2. (\E i \in DOMAIN q : q[i] <= 0) => Over(t)
    BY <1>2, <1>10 DEF EndsAt
  <2>3. 1 \in DOMAIN q  BY <1>1, <1>4
  <2>4. EndsLast(p)
    <3> SUFFICES ASSUME NEW i \in DOMAIN p, NEW j \in DOMAIN p, p[i] <= 0, j > i
                 PROVE  p[j] <= 0
      BY DEF EndsLast
    <3>1. i + 1 \in DOMAIN q /\ j + 1 \in DOMAIN q /\ q[i + 1] <= 0
      BY <1>4
    <3>3. j + 1 > i + 1  BY <1>1, <1>4
    <3>2. q[j + 1] <= 0  BY <2>1, <3>1, <3>3 DEF EndsLast
    <3> QED  BY <1>4, <3>2
  <2>5. (\E i \in DOMAIN p : p[i] <= 0) => Over(t)
    BY <1>4, <2>2
  <2>6. ASSUME h.pc = "finished" PROVE Over(t) /\ OnlyEnds(p)
    <3>1. q[1] <= 0  BY <1>4, <1>5, <1>6, <2>6
    <3>2. \A i \in DOMAIN p : q[i + 1] <= 0  BY <1>4, <2>1, <2>3, <3>1 DEF EndsLast
    <3> QED  BY <1>4, <2>2, <2>3, <3>1, <3>2 DEF OnlyEnds
  <2> QED  BY <1>6, <2>4, <2>5, <2>6 DEF EndsAt, Over
<1> HIDE DEF h, q
<1>11. /\ handler[t].pc # "finished" /\ handler[t] = b /\ handler[t].cq = q
       /\ stream' = [stream EXCEPT ![t] = stream[t]] /\ stream[t] <= stream[t]
       /\ total_bytes_received' \in Nat
  BY <1>1, <1>3, <1>5, <1>8 DEF b, q
<1> QED
  BY <1>1, <1>3, <1>5, <1>6, <1>7, <1>9, <1>10, <1>11, HandlerMoves

LEMMA AcceptKeeps ==
  ASSUME MaxInv, NEW t \in Thread, Accept(t)
  PROVE  MaxInv'
<1>1. /\ handler \in [Thread -> HandlerStates] /\ stream \in [Thread -> 0..SockBuf]
      /\ handler[t] \in HandlerStates /\ handler[t].cq \in Seq(Int)
      /\ handler[t].reads \in Nat /\ Len(handler[t].cq) \in Nat /\ stream[t] \in Nat
      /\ handler[t].reads + Len(handler[t].cq) <= RingSize /\ RingSize \in Nat
      /\ total_bytes_received \in Nat
  BY HandlerOf, MaxAssumption DEF MaxInv, StatesOK, CountsOK, HandlerStates
<1>2. /\ handler[t].pc = "none" /\ handler' = [handler EXCEPT ![t] = Started]
      /\ server' \in {"accept", "poll"}
      /\ UNCHANGED <<client, link, stream, total_bytes_received, taken, lost>>
  BY DEF Accept
<1>3. handler[t].cq = <<>>
  BY <1>2 DEF MaxInv, LinksOK
<1>4. Started \in HandlerStates /\ Started.cq = <<>> /\ Started.reads + Len(Started.cq) <= RingSize
      /\ Started.pc = "serve"
  BY <1>1 DEF Started, HandlerStates
<1>5. EndsAt(Started, link[t] = "fin" /\ stream[t] = 0)
  BY <1>4 DEF EndsAt, EndsLast
<1>6. Bytes(handler[t].cq) \in Nat /\ Bytes(Started.cq) = Bytes(handler[t].cq)
  BY <1>1, <1>3, <1>4, BytesIs
<1>7. /\ stream' = [stream EXCEPT ![t] = stream[t]] /\ stream[t] <= stream[t]
      /\ total_bytes_received' \in Nat
      /\ total_bytes_received' + stream[t] + Bytes(Started.cq)
           = total_bytes_received + stream[t] + Bytes(handler[t].cq)
  BY <1>1, <1>2, <1>6
<1> QED  BY <1>1, <1>2, <1>4, <1>5, <1>7, HandlerMoves

-----------------------------------------------------------------------------
(* The other steps, and the whole.                                         *)

LEMMA BreakKeeps ==
  ASSUME MaxInv, NEW t \in Thread, Break(t)
  PROVE  MaxInv'
<1> USE DEF MaxInv
<1>1. /\ link[t] = "open" /\ link' = [link EXCEPT ![t] = "broken"]
      /\ stream' = [stream EXCEPT ![t] = 0]
      /\ UNCHANGED <<client, handler, server, total_bytes_received, taken, lost>>
  BY DEF Break
<1>2. /\ link' \in [Thread -> {"none", "open", "fin", "broken"}] /\ link'[t] = "broken"
      /\ \A u \in Thread \ {t} : link'[u] = link[u]
      /\ stream' \in [Thread -> 0..SockBuf] /\ stream'[t] = 0
      /\ \A u \in Thread \ {t} : stream'[u] = stream[u]
  <2>1. 0 \in 0..SockBuf  BY MaxAssumption
  <2> QED  BY <1>1, <2>1 DEF StatesOK
<1>3. StatesOK'
  <2>1. client' \in [Thread -> ClientStates']  BY <1>1 DEF StatesOK, ClientStates
  <2>2. handler' \in [Thread -> HandlerStates']  BY <1>1 DEF StatesOK, HandlerStates
  <2> QED  BY <1>1, <1>2, <2>1, <2>2 DEF StatesOK
<1>4. CountsOK'
  BY <1>1 DEF CountsOK, WindowOK, local_num_requests, requests_per_thread
<1>5. LinksOK'
  BY <1>1, <1>2 DEF LinksOK
<1>6. EndsOK'
  <2> SUFFICES ASSUME NEW u \in Thread, Whole(u)' PROVE EndsAt(handler[u], Over(u)')
    BY <1>1 DEF EndsOK, EndsAt, EndsLast, OnlyEnds
  <2>1. u # t /\ Whole(u)  BY <1>2 DEF Whole
  <2>2. Over(u)' <=> Over(u)  BY <1>2, <2>1 DEF Over
  <2> QED  BY <2>1, <2>2 DEF EndsOK, EndsAt
<1>7. SendsCounted'
  <2>1. SentUnits' = SentUnits  BY <1>1 DEF SentUnits
  <2> QED  BY <1>1, <2>1 DEF SendsCounted
<1>8. UnitsHeld'
  <2>1. stream \in [Thread -> Nat] /\ stream' \in [Thread -> Nat] /\ stream[t] \in Nat
    BY <1>2, SumsTyped
  <2>2. Total(stream') = Total(stream) - stream[t] + 0
    BY <1>2, <2>1, TotalChanges
  <2>3. Completed' = Completed  BY <1>1 DEF Completed
  <2>4. ~(\A u \in Thread : Whole(u))'  BY <1>2 DEF Whole
  <2>5. /\ Total(stream) \in Nat /\ Total(Completed) \in Nat /\ total_bytes_received \in Nat
        /\ taken \in Nat
    BY SumsTyped DEF StatesOK
  <2>6. total_bytes_received + Total(stream') + Total(Completed) <= taken
    <3> DEFINE a == Total(stream')
               b == Total(stream)
               c == Total(Completed)
               d == stream[t]
    <3>1. a = b - d + 0 /\ b \in Nat /\ c \in Nat /\ d \in Nat
      BY <2>1, <2>2, <2>5
    <3>2. total_bytes_received + b + c <= taken  BY DEF UnitsHeld
    <3> HIDE DEF a, b, c, d
    <3>3. total_bytes_received + a + c <= taken  BY <2>5, <3>1, <3>2
    <3> QED  BY <3>3 DEF a, c
  <2>7. Total(stream)' = Total(stream') /\ Total(Completed)' = Total(Completed)
    BY <2>3
  <2> QED  BY <1>1, <2>4, <2>6, <2>7 DEF UnitsHeld
<1> QED  BY <1>3, <1>4, <1>5, <1>6, <1>7, <1>8

LEMMA MainKeeps ==
  ASSUME MaxInv, EndPoll \/ JoinAll \/ UNCHANGED maxVars
  PROVE  MaxInv'
<1>1. /\ UNCHANGED <<client, link, stream, handler, total_bytes_received, taken, lost>>
      /\ server' = "done" => \A t \in Thread : handler[t].pc = "finished"
      /\ server' \in {"accept", "poll", "join", "done"}
  BY DEF EndPoll, JoinAll, maxVars, MaxInv, StatesOK, LinksOK
<1>2. StatesOK' /\ CountsOK'
  BY <1>1 DEF MaxInv, StatesOK, CountsOK, ClientStates, HandlerStates, WindowOK,
              local_num_requests, requests_per_thread
<1>3. LinksOK' /\ EndsOK'
  BY <1>1 DEF MaxInv, LinksOK, EndsOK, EndsAt, EndsLast, OnlyEnds, Over, Whole
<1>4. Completed' = Completed /\ SentUnits' = SentUnits
  BY <1>1 DEF Completed, SentUnits
<1>5. SendsCounted' /\ UnitsHeld'
  BY <1>1, <1>4 DEF MaxInv, SendsCounted, UnitsHeld, Whole
<1> QED  BY <1>2, <1>3, <1>5 DEF MaxInv

LEMMA MaxInvInit == MaxInit => MaxInv
<1> SUFFICES ASSUME MaxInit PROVE MaxInv
  OBVIOUS
<1>1. 0 \in 0..NumRequests /\ 0 \in 0..RingSize /\ 0 \in 0..SockBuf /\ RingSize \in Nat
  BY MaxAssumption
<1>2. StatesOK
  BY <1>1 DEF MaxInit, StatesOK, ClientStates, HandlerStates
<1>3. CountsOK
  BY <1>1, SharesAreNumbers DEF MaxInit, CountsOK, WindowOK
<1>4. LinksOK /\ EndsOK
  BY DEF MaxInit, LinksOK, EndsOK, EndsAt, EndsLast, OnlyEnds
<1>5. SendsCounted
  <2>1. \A t \in Thread : SentUnits[t] = 0
    <3>1. (0 + 0) * PageUnits = 0  BY MaxAssumption
    <3> QED  BY <3>1 DEF MaxInit, SentUnits
  <2>2. Total(SentUnits) = 0  BY <1>2, <2>1, SumsTyped, TotalOfZeros
  <2> QED  BY <2>2 DEF MaxInit, SendsCounted
<1>6. UnitsHeld
  <2>1. Total(stream) = 0
    <3>1. \A t \in Thread : stream[t] = 0  BY DEF MaxInit
    <3> QED  BY <1>2, <3>1, SumsTyped, TotalOfZeros
  <2>2. Total(Completed) = 0
    <3>1. \A t \in Thread : Completed[t] = 0
      <4> SUFFICES ASSUME NEW t \in Thread PROVE Completed[t] = 0
        OBVIOUS
      <4>1. handler[t].cq = <<>>  BY DEF MaxInit
      <4>2. <<>> \in Seq(Int) /\ \A i \in DOMAIN <<>> : <<>>[i] <= 0  OBVIOUS
      <4>3. Bytes(<<>>) = 0  BY <4>2, BytesOfEnds
      <4> QED  BY <1>2, <4>1, <4>3, SumsTyped
    <3> QED  BY <1>2, <3>1, SumsTyped, TotalOfZeros
  <2> QED  BY <2>1, <2>2 DEF MaxInit, UnitsHeld
<1> QED  BY <1>2, <1>3, <1>4, <1>5, <1>6 DEF MaxInv

LEMMA MaxInvStep == MaxInv /\ [MaxNext]_maxVars => MaxInv'
<1> SUFFICES ASSUME MaxInv, [MaxNext]_maxVars PROVE MaxInv'
  OBVIOUS
<1>1. ASSUME NEW t \in Thread,
             \/ Submit(t) \/ Reap(t) \/ Exit(t) \/ Connect(t) \/ ConnectFails(t)
             \/ KernelSend(t) \/ KernelSendFails(t)
      PROVE  MaxInv'
  BY <1>1, SubmitKeeps, ReapKeeps, ConnectKeeps, KernelSendStep, SendFailsKeeps
<1>2. ASSUME NEW t \in Thread,
             \/ KernelRead(t) \/ KernelReadEnd(t) \/ HandleData(t) \/ HandleEnd(t)
             \/ Accept(t) \/ Break(t)
      PROVE  MaxInv'
  BY <1>2, ReadKeeps, HandleKeeps, AcceptKeeps, BreakKeeps
<1>3. CASE EndPoll \/ JoinAll \/ UNCHANGED maxVars
  BY <1>3, MainKeeps
<1> QED
  BY <1>1, <1>2, <1>3
     DEF MaxNext, ClientThread, HandlerThread, SendKernel, ReadKernel, Main

-----------------------------------------------------------------------------
(* What follows from the invariant.                                        *)

\* The shares of the threads are all of the requests.
LEMMA SharesAddUp ==
  Total([t \in Thread |-> local_num_requests(t) * PageUnits]) = Expected
<1> DEFINE c == ClientThreads
           r == requests_per_thread
           End(k) == IF k = c THEN NumRequests ELSE k * r
           f == [t \in Thread |-> local_num_requests(t) * PageUnits]
           F == [k \in 0..c |-> End(k) * PageUnits]
<1>1. c \in Nat \ {0} /\ r \in Nat /\ NumRequests \in Nat /\ PageUnits \in Nat
  BY SharesAreNumbers, MaxAssumption
<1>2. Total(f) = Sum(f, 1..c)  BY TotalIs DEF Thread
<1> HIDE DEF r, c
<1>3. \A k \in 0..c : End(k) \in Int /\ F[k] \in Int
  BY <1>1
<1>4. ASSUME NEW k \in 1..c PROVE f[k] = F[k] - F[k - 1]
  <2>1. k \in 0..c /\ k - 1 \in 0..c /\ k - 1 # c /\ k \in Int  BY <1>1
  <2>2. F[k] = End(k) * PageUnits /\ F[k - 1] = ((k - 1) * r) * PageUnits
    BY <2>1
  <2>3. f[k] = local_num_requests(k) * PageUnits  BY DEF Thread, c
  <2>4. local_num_requests(k) = End(k) - (k - 1) * r
    <3>1. CASE k = c
      BY <3>1 DEF local_num_requests, c, r
    <3>2. CASE k # c
      <4>1. k * r - (k - 1) * r = r  BY <1>1, <2>1
      <4> QED  BY <3>2, <4>1 DEF local_num_requests, c, r
    <3> QED  BY <3>1, <3>2
  <2>5. End(k) \in Int /\ (k - 1) * r \in Int  BY <1>1, <1>3, <2>1
  <2> HIDE DEF F, f, End
  <2>6. (End(k) - (k - 1) * r) * PageUnits = End(k) * PageUnits - ((k - 1) * r) * PageUnits
    BY <1>1, <2>5
  <2> QED  BY <2>2, <2>3, <2>4, <2>6
<1>5. F[0] = 0 /\ F[c] = Expected
  <2>1. 0 \in 0..c /\ c \in 0..c /\ 0 # c /\ (0 * r) * PageUnits = 0  BY <1>1
  <2> QED  BY <2>1 DEF Expected
<1> HIDE DEF f, F
<1>6. Sum(f, 1..c) = F[c] - F[0]  BY <1>1, <1>3, <1>4, SumOfSteps
<1>7. Expected \in Nat  BY <1>1 DEF Expected
<1>8. Total(f) = Expected  BY <1>2, <1>5, <1>6, <1>7
<1> QED  BY <1>8 DEF f

LEMMA SentAtMostExpected ==
  ASSUME StatesOK, CountsOK
  PROVE  Total(SentUnits) <= Expected
<1> DEFINE f == [t \in Thread |-> local_num_requests(t) * PageUnits]
<1>1. \A t \in Thread : f[t] \in Int /\ SentUnits[t] \in Int /\ SentUnits[t] <= f[t]
  <2> SUFFICES ASSUME NEW t \in Thread
               PROVE  f[t] \in Int /\ SentUnits[t] \in Int /\ SentUnits[t] <= f[t]
    OBVIOUS
  <2> DEFINE b == client[t]
             n == local_num_requests(t)
             m == b.completed + b.good
  <2>1. /\ b \in ClientStates /\ WindowOK(b, n) /\ n \in Nat /\ PageUnits \in Nat
    BY ClientCounters
  <2>2. SentUnits[t] = m * PageUnits /\ f[t] = n * PageUnits  BY DEF SentUnits
  <2>3. m \in Nat /\ m <= n
    <3> HIDE DEF b, n
    <3>1. /\ b.sent \in Nat /\ b.completed \in Nat /\ b.inflight \in Nat
          /\ b.good \in Nat /\ b.bad \in Nat
      BY <2>1 DEF ClientStates
    <3> QED  BY <2>1, <3>1 DEF WindowOK
  <2> HIDE DEF n, m, f
  <2>4. m * PageUnits <= n * PageUnits /\ m * PageUnits \in Int /\ n * PageUnits \in Int
    <3>1. \A x, y, z \in Nat : x <= y => x * z <= y * z  OBVIOUS
    <3> QED  BY <2>1, <2>3, <3>1
  <2> QED  BY <2>2, <2>4
<1>2. Terms(f, Thread) /\ Terms(SentUnits, Thread)  BY <1>1 DEF Terms
<1>3. Total(f) = Sum(f, Thread) /\ Total(SentUnits) = Sum(SentUnits, Thread)
  BY TotalIs DEF SentUnits
<1>4. Total(f) = Expected  BY SharesAddUp
<1> HIDE DEF f
<1>5. Sum(SentUnits, Thread) <= Sum(f, Thread)
  BY <1>1, <1>2, ThreadsFinite, SumAtMost
<1> QED  BY <1>3, <1>4, <1>5

LEMMA InvTyped == MaxInv => MaxTypeOK
<1> SUFFICES ASSUME MaxInv PROVE MaxTypeOK
  OBVIOUS
<1>1. taken + lost <= Expected /\ taken \in Nat /\ lost \in Nat /\ Expected \in Nat
      /\ total_bytes_received \in Nat
  BY SentAtMostExpected, MaxAssumption DEF MaxInv, SendsCounted, StatesOK, Expected
<1>2. total_bytes_received <= taken
  <2>1. Total(stream) \in Nat /\ Total(Completed) \in Nat  BY SumsTyped DEF MaxInv
  <2>2. total_bytes_received + Total(stream) + Total(Completed) <= taken
    BY DEF MaxInv, UnitsHeld
  <2> QED  BY <1>1, <2>1, <2>2
<1>3. total_bytes_received \in 0..Expected /\ taken \in 0..Expected /\ lost \in 0..Expected
  BY <1>1, <1>2
<1>4. \A t \in Thread : /\ handler[t].pc \in {"none", "serve", "finished"}
                        /\ handler[t].reads \in 0..RingSize
                        /\ \A i \in DOMAIN handler[t].cq : handler[t].cq[i] \in Error..PageUnits
  <2> SUFFICES ASSUME NEW t \in Thread
               PROVE  /\ handler[t].pc \in {"none", "serve", "finished"}
                      /\ handler[t].reads \in 0..RingSize
                      /\ \A i \in DOMAIN handler[t].cq : handler[t].cq[i] \in Error..PageUnits
    OBVIOUS
  <2>1. handler[t] \in HandlerStates /\ handler[t].cq \in Seq(Error..PageUnits)
    BY HandlerOf DEF MaxInv
  <2>2. \A i \in DOMAIN handler[t].cq : handler[t].cq[i] \in Error..PageUnits
    BY <2>1, ElementOfQueue
  <2> QED  BY <2>1, <2>2 DEF HandlerStates
<1> QED  BY <1>3, <1>4 DEF MaxInv, StatesOK, MaxTypeOK, ClientStates

LEMMA InvConserves == MaxInv => UnitsConserved
<1> SUFFICES ASSUME MaxInv PROVE UnitsConserved
  OBVIOUS
<1>1. /\ Total(stream) \in Nat /\ Total(Completed) \in Nat
      /\ total_bytes_received \in Nat /\ taken \in Nat
  BY SumsTyped DEF MaxInv, StatesOK
<1>2. total_bytes_received + Total(stream) + Total(Completed) <= taken
  BY DEF MaxInv, UnitsHeld
<1>3. total_bytes_received <= taken  BY <1>1, <1>2
<1> QED  BY <1>3 DEF MaxInv, UnitsHeld, UnitsConserved

\* Every handler returned at an end, with nothing left behind it.
LEMMA InvCountsAll == MaxInv => AllCountedAtEnd
<1> SUFFICES ASSUME MaxInv, server = "done" PROVE AllCountedAtEnd
  BY DEF AllCountedAtEnd
<1>1. ASSUME NEW t \in Thread, Whole(t)
      PROVE  Over(t) /\ OnlyEnds(handler[t].cq)
  <2>1. handler[t].pc = "finished"  BY DEF MaxInv, LinksOK
  <2> QED  BY <1>1, <2>1 DEF MaxInv, EndsOK, EndsAt
<1>2. \A t \in Thread : Whole(t) => client[t].pc = "closed" /\ stream[t] = 0
  BY <1>1 DEF MaxInv, LinksOK, Over
<1>3. ASSUME \A t \in Thread : Whole(t) PROVE total_bytes_received = taken
  <2>1. stream \in [Thread -> Nat] /\ Completed \in [Thread -> Nat]
    BY SumsTyped DEF MaxInv
  <2>2. Total(stream) = 0  BY <1>2, <1>3, <2>1, TotalOfZeros
  <2>3. \A t \in Thread : Completed[t] = 0
    <3> SUFFICES ASSUME NEW t \in Thread PROVE Completed[t] = 0
      OBVIOUS
    <3>1. handler[t].cq \in Seq(Int) /\ Completed[t] = Bytes(handler[t].cq)
      BY HandlerOf, SumsTyped DEF MaxInv
    <3>2. \A i \in DOMAIN handler[t].cq : handler[t].cq[i] <= 0
      BY <1>1, <1>3 DEF OnlyEnds
    <3> QED  BY <3>1, <3>2, BytesOfEnds
  <2>4. Total(Completed) = 0  BY <2>1, <2>3, TotalOfZeros
  <2>5. total_bytes_received + Total(stream) + Total(Completed) = taken
    BY <1>3 DEF MaxInv, UnitsHeld
  <2>6. total_bytes_received \in Nat  BY DEF MaxInv, StatesOK
  <2> QED  BY <2>2, <2>4, <2>5, <2>6
<1> QED  BY <1>2, <1>3 DEF AllCountedAtEnd

-----------------------------------------------------------------------------

(***************************************************************************)
(* The windows of the clients and the rings of the handlers hold, and no   *)
(* counter exceeds the requests, whatever comes short or breaks            *)
(* (send_data of max_client.cpp, event_loop of max_server.cpp).            *)
(***************************************************************************)
THEOREM MaxTypesHold == MaxSpec => []MaxTypeOK
<1>1. MaxInv /\ [MaxNext]_maxVars => MaxInv'  BY MaxInvStep
<1> QED  BY MaxInvInit, <1>1, InvTyped, PTL DEF MaxSpec

(***************************************************************************)
(* For any number of threads: concurrent handlers count every unit that    *)
(* went into a connection that stands once, and none twice.                *)
(***************************************************************************)
THEOREM UnitsCountedOnce == MaxSpec => []UnitsConserved
<1>1. MaxInv /\ [MaxNext]_maxVars => MaxInv'  BY MaxInvStep
<1> QED  BY MaxInvInit, <1>1, InvConserves, PTL DEF MaxSpec

(***************************************************************************)
(* When main of max_server.cpp has joined its handlers, the clients on     *)
(* unbroken connections are through, and all they sent was counted.        *)
(***************************************************************************)
THEOREM JoinCountsAll == MaxSpec => []AllCountedAtEnd
<1>1. MaxInv /\ [MaxNext]_maxVars => MaxInv'  BY MaxInvStep
<1> QED  BY MaxInvInit, <1>1, InvCountsAll, PTL DEF MaxSpec
=============================================================================
