----------------------------- MODULE MainsProofs -----------------------------
(***************************************************************************)
(* What the mains of the simple_iou programs promise: the client's, which  *)
(* divides the pages and adds up what came, and the server's, which waits  *)
(* for its handlers.                                                       *)
(*                                                                         *)
(* The ranges that the spawn loop hands out partition the pages, for any   *)
(* number of requests and of threads, and so the shares of the threads add *)
(* up to the whole.                                                        *)
(*                                                                         *)
(* Of the two processes: the counter stands for handlers only because a    *)
(* connection is in the backlog at most once, and only before it has a     *)
(* handler: BacklogOK.  That a handler which returned leaves no client     *)
(* thread behind is ServedOK, and what each state of the two mains implies *)
(* is MainsOK.                                                             *)
(***************************************************************************)
EXTENDS ClientMain, Processes, DataLemmas

\* The product of the loop variable and requests_per_thread is monotonic.
LEMMA ProductIsMonotonic ==
  ASSUME NEW a \in Nat, NEW b \in Nat, NEW q \in Nat, a <= b
  PROVE  a * q <= b * q
<1>1. b = a + (b - a) /\ b - a \in Nat  OBVIOUS
<1>2. \A d \in Nat : d * q \in Nat /\ (a + d) * q = a * q + d * q  OBVIOUS
<1>3. (a + (b - a)) * q = a * q + (b - a) * q /\ (b - a) * q \in Nat  BY <1>1, <1>2
<1>4. a * q \in Nat /\ b * q = a * q + (b - a) * q  BY <1>1, <1>3
<1> QED  BY <1>3, <1>4

\* What the integer division leaves to each thread.
LEMMA SharesFit ==
  ASSUME NEW n \in Nat, NEW k \in Nat \ {0}
  PROVE  n \div k \in Nat /\ k * (n \div k) <= n
OBVIOUS

-----------------------------------------------------------------------------

\* What the spawn loop gave to the k-th thread.
Given(k) == [start |-> start_index(k - 1), end |-> end_index(k - 1)]

MainInv ==
  /\ build \in Builds
  /\ ranges \in Seq([start : Nat, end : Nat])
  /\ Len(ranges) <= build.client_threads
  /\ \A k \in DOMAIN ranges : ranges[k] = Given(k)

LEMMA BuildIsSound ==
  ASSUME build \in Builds
  PROVE  /\ NumRequests \in Nat /\ build.client_threads \in Nat \ {0}
         /\ requests_per_thread \in Nat
         /\ build.client_threads * requests_per_thread <= NumRequests
BY MainAssumption, SharesFit DEF NumRequests, requests_per_thread

LEMMA MainInvInit == MainInit => MainInv
BY BuildIsSound DEF MainInit, MainInv

LEMMA MainInvStep == MainInv /\ [MainNext]_mainVars => MainInv'
<1> SUFFICES ASSUME MainInv, [MainNext]_mainVars PROVE MainInv'
  OBVIOUS
<1>0. build' = build
  BY DEF MainNext, mainVars, StartThread, StartJoining, Join, Report, Finish, FinishCut
<1>1. CASE StartThread
  <2> DEFINE n == Len(ranges)
             r == [start |-> start_index(n), end |-> end_index(n)]
  <2>1. /\ n \in Nat /\ n < build.client_threads /\ ranges' = Append(ranges, r)
    BY <1>1 DEF StartThread, MainInv
  <2>2. \A k \in Nat : k * requests_per_thread \in Nat
    BY BuildIsSound DEF MainInv
  <2>3. r \in [start : Nat, end : Nat]
    BY <2>1, <2>2, BuildIsSound DEF MainInv, start_index, end_index
  <2>4. /\ ranges' \in Seq([start : Nat, end : Nat]) /\ Len(ranges') = n + 1
        /\ \A k \in 1..n : ranges'[k] = ranges[k]
        /\ ranges'[n + 1] = r
    BY <2>1, <2>3 DEF MainInv
  <2>5. \A k \in 1..(n + 1) : ranges'[k] = Given(k)
    <3> SUFFICES ASSUME NEW k \in 1..(n + 1) PROVE ranges'[k] = Given(k)
      OBVIOUS
    <3>1. CASE k \in 1..n  BY <2>1, <2>4, <3>1 DEF MainInv
    <3>2. CASE k = n + 1
      <4>1. k - 1 = n  BY <2>1, <3>2
      <4> QED  BY <2>4, <3>2, <4>1 DEF Given
    <3> QED  BY <2>1, <3>1, <3>2
  <2>6. \A k : Given(k)' = Given(k)
    BY <1>0 DEF Given, start_index, end_index, requests_per_thread, NumRequests
  <2>7. DOMAIN ranges' = 1..(n + 1)  BY <2>1, <2>4
  <2>8. build \in Builds  BY DEF MainInv
  <2> HIDE DEF n, r
  <2>9. build' \in Builds /\ Len(ranges') <= build'.client_threads
    BY <1>0, <2>1, <2>4, <2>8, BuildIsSound
  <2>10. \A k \in DOMAIN ranges' : ranges'[k] = Given(k)'
    BY <2>5, <2>6, <2>7
  <2> QED  BY <2>4, <2>9, <2>10 DEF MainInv
<1>2. CASE UNCHANGED <<build, ranges>>
  BY <1>2 DEF MainInv, Given, start_index, end_index, requests_per_thread, NumRequests
<1> QED
  BY <1>1, <1>2 DEF MainNext, mainVars, StartJoining, Join, Report, Finish, FinishCut

-----------------------------------------------------------------------------

LEMMA ElementOfSequence ==
  ASSUME NEW S, NEW seq \in Seq(S), NEW i \in DOMAIN seq
  PROVE  seq[i] \in S /\ i \in Nat /\ 1 <= i /\ i <= Len(seq) /\ Len(seq) \in Nat
OBVIOUS

LEMMA RangeOfThread ==
  ASSUME MainInv, NEW i \in DOMAIN ranges
  PROVE  /\ ranges[i].start = start_index(i - 1) /\ ranges[i].end = end_index(i - 1)
         /\ ranges[i].start \in Nat /\ ranges[i].end \in Nat
<1>1. ranges[i] \in [start : Nat, end : Nat] /\ ranges[i] = Given(i)
  <2>1. ranges \in Seq([start : Nat, end : Nat])  BY DEF MainInv
  <2>2. ranges[i] = Given(i)  BY DEF MainInv
  <2> QED  BY <2>1, <2>2, ElementOfSequence
<1>2. ranges[i].start \in Nat /\ ranges[i].end \in Nat
  BY <1>1
<1>3. Given(i).start = start_index(i - 1) /\ Given(i).end = end_index(i - 1)
  BY DEF Given
<1> QED  BY <1>1, <1>2, <1>3

\* The number of a range, and what the build says of it.
LEMMA IndexOfRange ==
  ASSUME MainInv, NEW j \in DOMAIN ranges
  PROVE  /\ j \in Nat /\ j - 1 \in Nat /\ j <= build.client_threads
         /\ build.client_threads \in Nat /\ requests_per_thread \in Nat /\ NumRequests \in Nat
         /\ build.client_threads * requests_per_thread <= NumRequests
<1> DEFINE k == build.client_threads
           n == Len(ranges)
<1>1. build \in Builds /\ n <= k  BY DEF MainInv
<1>2. ranges \in Seq([start : Nat, end : Nat])  BY DEF MainInv
<1>3. n \in Nat /\ j \in 1..n  BY <1>2
<1>4. /\ k \in Nat /\ requests_per_thread \in Nat /\ NumRequests \in Nat
      /\ k * requests_per_thread <= NumRequests
  BY <1>1, BuildIsSound
<1> HIDE DEF k, n
<1>5. j \in Nat /\ j - 1 \in Nat  BY <1>3
<1>6. j <= k  BY <1>1, <1>3, <1>4
<1> QED  BY <1>4, <1>5, <1>6 DEF k

LEMMA RangesAreApart ==
  ASSUME MainInv, NEW i \in DOMAIN ranges, NEW j \in DOMAIN ranges, i < j
  PROVE  PagesOf(i) \cap PagesOf(j) = {}
<1> DEFINE q == requests_per_thread
<1>1. /\ i \in Nat /\ j \in Nat /\ i - 1 \in Nat /\ j - 1 \in Nat
      /\ q \in Nat /\ j <= build.client_threads /\ build.client_threads \in Nat
  BY IndexOfRange
<1>2. i * q <= (j - 1) * q /\ i * q \in Nat /\ (j - 1) * q \in Nat
  <2>1. i <= j - 1  BY <1>1
  <2> HIDE DEF q
  <2> QED  BY <1>1, <2>1, ProductIsMonotonic
<1>3. ranges[i].end = i * q
  <2>1. i - 1 # build.client_threads - 1 /\ (i - 1) + 1 = i  BY <1>1
  <2> QED  BY <2>1, RangeOfThread DEF end_index
<1>4. ranges[j].start = (j - 1) * q
  BY RangeOfThread DEF start_index
<1>5. (i - 1) * q \in Nat /\ ranges[i].start = (i - 1) * q
  BY <1>1, RangeOfThread DEF start_index
<1>6. ranges[j].end \in Nat
  BY RangeOfThread
<1> HIDE DEF q
<1> QED  BY <1>2, <1>3, <1>4, <1>5, <1>6 DEF PagesOf

LEMMA RangesAreOfPages ==
  ASSUME MainInv, NEW i \in DOMAIN ranges
  PROVE  PagesOf(i) \subseteq 0..(NumRequests - 1)
<1> DEFINE q == requests_per_thread
           k == build.client_threads
<1>1. i \in Nat /\ i - 1 \in Nat /\ q \in Nat /\ i <= k /\ k \in Nat /\ NumRequests \in Nat
      /\ k * q <= NumRequests
  BY IndexOfRange
<1>2. i * q <= k * q /\ i * q \in Nat /\ k * q \in Nat
  <2> HIDE DEF q, k
  <2> QED  BY <1>1, ProductIsMonotonic
<1>3. ranges[i].end \in {NumRequests, i * q}
  <2>1. (i - 1) + 1 = i  BY <1>1
  <2> QED  BY <2>1, RangeOfThread DEF end_index
<1>4. ranges[i].start \in Nat  BY RangeOfThread
<1>5. ranges[i].end \in Nat /\ ranges[i].end <= NumRequests
  <2> HIDE DEF q, k
  <2> QED  BY <1>1, <1>2, <1>3
<1> QED  BY <1>1, <1>4, <1>5 DEF PagesOf

\* The last thread has what lies past the others; any other page is in the
\* range whose number is the quotient.
LEMMA EachPageIsGiven ==
  ASSUME MainInv, Len(ranges) = build.client_threads, NEW p \in 0..(NumRequests - 1)
  PROVE  \E i \in DOMAIN ranges : p \in PagesOf(i)
<1> DEFINE q == requests_per_thread
           k == build.client_threads
<1>1. q \in Nat /\ k \in Nat \ {0} /\ k - 1 \in Nat /\ NumRequests \in Nat /\ p \in Nat
      /\ p < NumRequests
  BY BuildIsSound DEF MainInv
<1>2. DOMAIN ranges = 1..k  BY DEF MainInv
<1>3. CASE (k - 1) * q <= p
  <2>1. ranges[k].start = (k - 1) * q /\ ranges[k].end = NumRequests
    BY <1>1, <1>2, RangeOfThread DEF start_index, end_index
  <2>2. (k - 1) * q \in Nat  BY <1>1
  <2> HIDE DEF q
  <2>3. p \in PagesOf(k)  BY <1>1, <1>3, <2>1, <2>2 DEF PagesOf
  <2> QED  BY <1>1, <1>2, <2>3
<1>4. CASE p < (k - 1) * q
  <2> DEFINE j == p \div q
  <2>1. q > 0  BY <1>1, <1>4
  <2>2. j \in Nat /\ j * q <= p /\ p < (j + 1) * q  BY <1>1, <2>1
  <2>3. j < k - 1
    <3>1. SUFFICES ASSUME k - 1 <= j PROVE FALSE  BY <1>1, <2>2
    <3> HIDE DEF j, q, k
    <3>2. (k - 1) * q <= j * q  BY <1>1, <2>2, <3>1, ProductIsMonotonic
    <3>3. (k - 1) * q \in Nat /\ j * q \in Nat  BY <1>1, <2>2
    <3> QED  BY <1>1, <1>4, <2>2, <3>2, <3>3
  <2>4. j + 1 \in DOMAIN ranges /\ (j + 1) - 1 = j /\ j # k - 1
    BY <1>1, <1>2, <2>2, <2>3
  <2>5. ranges[j + 1].start = j * q /\ ranges[j + 1].end = (j + 1) * q
    BY <2>4, RangeOfThread DEF start_index, end_index
  <2>6. j * q \in Nat /\ (j + 1) * q \in Nat  BY <1>1, <2>2
  <2> HIDE DEF j, q, k
  <2>7. p \in PagesOf(j + 1)  BY <1>1, <2>2, <2>5, <2>6 DEF PagesOf
  <2> QED  BY <2>4, <2>7
<1> QED
  <2>1. (k - 1) * q \in Nat  BY <1>1
  <2> HIDE DEF q, k
  <2> QED  BY <1>1, <1>3, <1>4, <2>1

LEMMA InvPartitions == MainInv => RangesPartition
<1> SUFFICES ASSUME MainInv PROVE RangesPartition
  OBVIOUS
<1>1. \A i, j \in DOMAIN ranges : i # j => PagesOf(i) \cap PagesOf(j) = {}
  <2> SUFFICES ASSUME NEW i \in DOMAIN ranges, NEW j \in DOMAIN ranges, i # j
               PROVE  PagesOf(i) \cap PagesOf(j) = {}
    OBVIOUS
  <2>1. i \in Nat /\ j \in Nat  BY DEF MainInv
  <2>2. CASE i < j  BY <2>2, RangesAreApart
  <2>3. CASE j < i  BY <2>3, RangesAreApart
  <2> QED  BY <2>1, <2>2, <2>3
<1>2. ASSUME Len(ranges) = build.client_threads
      PROVE  UNION {PagesOf(i) : i \in DOMAIN ranges} = 0..(NumRequests - 1)
  BY <1>2, RangesAreOfPages, EachPageIsGiven
<1> QED  BY <1>1, <1>2 DEF RangesPartition

(***************************************************************************)
(* However many requests and threads the program is built for, and in      *)
(* whatever order its threads finish, no page is requested by two threads, *)
(* and every page by one (the spawn loop of simple_iou_client.cpp).        *)
(***************************************************************************)
THEOREM ThreadsPartitionPages == MainSpec => []RangesPartition
<1>1. MainInv /\ [MainNext]_mainVars => MainInv'  BY MainInvStep
<1> QED  BY MainInvInit, <1>1, InvPartitions, PTL DEF MainSpec
-----------------------------------------------------------------------------
(* The totals.                                                             *)

\* What a thread stored: a number of pages, with few missing, or, when its
\* connection ended, what had come.
Stored(k, r) ==
  \/ \E n \in Nat : n <= Share(k) /\ n + Early >= Share(k) /\ r = n * PageBytes
  \/ k \in cut /\ r \in Nat /\ r <= Share(k) * PageBytes

Shares == \A k \in DOMAIN received : received[k] = Running \/ Stored(k, received[k])

SumInv ==
  /\ received \in Seq(Int) /\ Len(received) = Len(ranges)
  /\ Shares
  /\ joined \in Nat /\ joined <= build.client_threads
  /\ pc \in {"spawn", "join", "done"}
  /\ pc = "spawn" => joined = 0
  /\ pc # "spawn" => Len(ranges) = build.client_threads
  /\ pc # "spawn" => \A k \in DOMAIN received : k <= joined => received[k] # Running
  /\ pc = "done" => joined = build.client_threads /\ total = Sum(received, DOMAIN received)

LEMMA SumInvInit == MainInit => SumInv
<1> SUFFICES ASSUME MainInit PROVE SumInv
  OBVIOUS
<1>1. build.client_threads \in Nat  BY BuildIsSound DEF MainInit
<1> QED  BY <1>1 DEF MainInit, SumInv, Shares

LEMMA ShareIs ==
  ASSUME MainInv, NEW k \in DOMAIN ranges
  PROVE  Share(k) \in Int /\ Share(k) = end_index(k - 1) - start_index(k - 1)
BY RangeOfThread DEF Share

LEMMA SumInvStep == MainInv /\ SumInv /\ [MainNext]_mainVars => SumInv'
<1> SUFFICES ASSUME MainInv, SumInv, [MainNext]_mainVars PROVE SumInv'
  OBVIOUS
<1>0. build' = build /\ PageBytes' = PageBytes
  BY DEF MainNext, mainVars, StartThread, StartJoining, Join, Report, Finish, FinishCut,
         PageBytes
<1>1. /\ build.client_threads \in Nat \ {0} /\ PageBytes \in Nat
      /\ ranges \in Seq([start : Nat, end : Nat])
      /\ received \in Seq(Int) /\ Len(received) = Len(ranges)
      /\ DOMAIN received = DOMAIN ranges
  <2>1. PageBytes \in Nat  BY MainAssumption DEF MainInv, PageBytes
  <2> QED  BY <2>1, BuildIsSound DEF MainInv, SumInv
<1>2. CASE StartThread
  <2> DEFINE r == [start |-> start_index(Len(ranges)), end |-> end_index(Len(ranges))]
  <2>1. /\ pc = "spawn" /\ Len(ranges) < build.client_threads
        /\ ranges' = Append(ranges, r) /\ received' = Append(received, Running)
        /\ UNCHANGED <<pc, joined, total, cut>>
    BY <1>2 DEF StartThread
  <2> HIDE DEF r
  <2>2. Running \in Int  BY DEF Running
  <2>3. /\ received' \in Seq(Int) /\ Len(received') = Len(received) + 1
        /\ DOMAIN received' = DOMAIN received \cup {Len(received) + 1}
        /\ \A k \in DOMAIN received : received'[k] = received[k] /\ ranges'[k] = ranges[k]
        /\ received'[Len(received) + 1] = Running
        /\ Len(ranges') = Len(ranges) + 1
    BY <1>1, <2>1, <2>2
  <2>4. ASSUME NEW k \in DOMAIN received, NEW v PROVE Stored(k, v)' <=> Stored(k, v)
    <3>1. Share(k)' = Share(k)  BY <1>1, <2>3 DEF Share
    <3> QED  BY <1>0, <2>1, <3>1 DEF Stored
  <2>5. Shares'
    <3> SUFFICES ASSUME NEW k \in DOMAIN received', NEW v, v = received'[k], v # Running
                 PROVE  Stored(k, v)'
      BY DEF Shares
    <3>1. k \in DOMAIN received /\ received[k] = v  BY <2>3
    <3>2. Stored(k, v)  BY <3>1 DEF SumInv, Shares
    <3> QED  BY <3>1, <3>2, <2>4
  <2> QED  BY <1>0, <1>1, <2>1, <2>3, <2>5 DEF SumInv
<1>3. CASE \E k \in DOMAIN ranges : Finish(k) \/ FinishCut(k)
  <2>1. PICK k \in DOMAIN ranges : Finish(k) \/ FinishCut(k)  BY <1>3
  <2>2. PICK r \in Nat : /\ received' = [received EXCEPT ![k] = r]
                         /\ cut \subseteq cut' /\ Stored(k, r)'
    <3>1. Share(k) \in Int  BY <2>1, ShareIs
    <3>2. CASE Finish(k)
      <4>1. PICK n \in 0..Share(k) :
              n + Early >= Share(k) /\ received' = [received EXCEPT ![k] = n * PageBytes]
        BY <3>2 DEF Finish
      <4>2. ranges' = ranges /\ cut' = cut  BY <3>2 DEF Finish
      <4>3. n \in Nat /\ n <= Share(k) /\ n * PageBytes \in Nat  BY <1>1, <3>1, <4>1
      <4> QED  BY <1>0, <4>1, <4>2, <4>3 DEF Stored, Share
    <3>3. CASE FinishCut(k)
      <4>1. PICK n \in 0..Share(k), part \in Parts :
              /\ n * PageBytes + part <= Share(k) * PageBytes
              /\ received' = [received EXCEPT ![k] = n * PageBytes + part]
        BY <3>3 DEF FinishCut
      <4>2. ranges' = ranges /\ cut' = cut \cup {k}  BY <3>3 DEF FinishCut
      <4>3. n * PageBytes + part \in Nat
        <5>1. n \in Nat /\ part \in Nat  BY <3>1, MainAssumption
        <5>2. n * PageBytes \in Nat  BY <1>1, <5>1
        <5> QED  BY <5>1, <5>2
      <4> QED  BY <1>0, <4>1, <4>2, <4>3 DEF Stored, Share
    <3> QED  BY <2>1, <3>2, <3>3
  <2>3. received[k] = Running /\ UNCHANGED <<build, pc, ranges, joined, total>>
    BY <2>1 DEF Finish, FinishCut
  <2>5. /\ received' \in Seq(Int) /\ Len(received') = Len(received)
        /\ DOMAIN received' = DOMAIN received
        /\ \A l \in DOMAIN received : received'[l] = IF l = k THEN r ELSE received[l]
    BY <1>1, <2>2
  <2>7. \A l, v : Stored(l, v) => Stored(l, v)'
    BY <1>0, <2>2, <2>3 DEF Stored, Share
  <2>8. r # Running  BY <2>2 DEF Running
  <2>9. pc # "done"
    <3>1. k <= build.client_threads /\ k \in Nat  BY IndexOfRange
    <3> QED  BY <1>1, <2>3, <3>1 DEF SumInv
  <2>10. Shares'
    <3> SUFFICES ASSUME NEW l \in DOMAIN received', NEW v, v = received'[l], v # Running
                 PROVE  Stored(l, v)'
      BY DEF Shares
    <3>1. CASE l = k  BY <1>1, <2>1, <2>2, <2>5, <3>1
    <3>2. CASE l # k
      <4>1. l \in DOMAIN received /\ v = received[l]  BY <2>5, <3>2
      <4>2. Stored(l, v)  BY <4>1 DEF SumInv, Shares
      <4> QED  BY <4>2, <2>7
    <3> QED  BY <3>1, <3>2
  <2>11. \A l \in DOMAIN received' : received[l] # Running => received'[l] # Running
    BY <2>5, <2>8
  <2> QED  BY <1>0, <1>1, <2>3, <2>5, <2>9, <2>10, <2>11 DEF SumInv
<1>4. CASE StartJoining
  <2>1. /\ pc' = "join" /\ Len(ranges) = build.client_threads /\ joined = 0
        /\ UNCHANGED <<build, ranges, received, joined, total, cut>>
    BY <1>4 DEF StartJoining, SumInv
  <2>2. \A k \in DOMAIN received : ~(k <= 0)  BY <1>1
  <2> QED  BY <1>0, <2>1, <2>2 DEF SumInv, Shares, Stored, Share
<1>5. CASE Join
  <2>1. /\ pc = "join" /\ joined < build.client_threads /\ received[joined + 1] # Running
        /\ joined' = joined + 1
        /\ UNCHANGED <<build, pc, ranges, received, total, cut>>
    BY <1>5 DEF Join
  <2>2. \A k \in DOMAIN received : k <= joined + 1 => k <= joined \/ k = joined + 1
    BY <1>1 DEF SumInv
  <2> QED  BY <1>0, <1>1, <2>1, <2>2 DEF SumInv, Shares, Stored, Share
<1>6. CASE Report
  <2>1. /\ pc = "join" /\ joined = build.client_threads /\ pc' = "done"
        /\ total' = Sum(received, DOMAIN received)
        /\ UNCHANGED <<build, ranges, received, joined, cut>>
    BY <1>6 DEF Report, Sum
  <2> QED  BY <1>0, <2>1 DEF SumInv, Shares, Stored, Share
<1>7. CASE UNCHANGED mainVars
  BY <1>0, <1>7 DEF mainVars, SumInv, Shares, Stored, Share
<1> QED  BY <1>2, <1>3, <1>4, <1>5, <1>6, <1>7 DEF MainNext

LEMMA ProductGrows ==
  ASSUME NEW a \in Int, NEW b \in Int, NEW q \in Nat, a <= b
  PROVE  a * q <= b * q
OBVIOUS

\* Where the pages given to the first k threads end.
EndOf(k) == IF k = 0 THEN 0 ELSE end_index(k - 1)

LEMMA EndsMeet ==
  ASSUME MainInv, Len(ranges) = build.client_threads
  PROVE  /\ \A k \in 0..build.client_threads : EndOf(k) \in Int
         /\ \A k \in 1..build.client_threads : /\ k \in DOMAIN ranges
                                               /\ Share(k) = EndOf(k) - EndOf(k - 1)
         /\ EndOf(0) = 0 /\ EndOf(build.client_threads) = NumRequests
<1> DEFINE c == build.client_threads
<1>1. /\ c \in Nat \ {0} /\ NumRequests \in Nat /\ requests_per_thread \in Nat
      /\ ranges \in Seq([start : Nat, end : Nat])
  BY BuildIsSound DEF MainInv
<1>2. DOMAIN ranges = 1..c  BY <1>1
<1>3. \A k \in 0..c : EndOf(k) \in Int
  <2> SUFFICES ASSUME NEW k \in 0..c PROVE EndOf(k) \in Int
    OBVIOUS
  <2>1. k \in Nat /\ ((k - 1) + 1) * requests_per_thread \in Int  BY <1>1
  <2> QED  BY <1>1, <2>1 DEF EndOf, end_index
<1>4. EndOf(c) = NumRequests  BY <1>1 DEF EndOf, end_index
<1>5. ASSUME NEW k \in 1..c PROVE Share(k) = EndOf(k) - EndOf(k - 1)
  <2>1. Share(k) = end_index(k - 1) - start_index(k - 1)  BY <1>2, ShareIs
  <2>2. k # 0 /\ k \in Nat  BY <1>1
  <2>3. start_index(k - 1) = EndOf(k - 1)
    <3>1. CASE k = 1
      <4>1. k - 1 = 0 /\ 0 * requests_per_thread = 0  BY <1>1, <3>1
      <4> QED  BY <4>1 DEF start_index, EndOf
    <3>2. CASE k # 1
      <4>1. k - 1 # 0 /\ (k - 1) - 1 # c - 1 /\ ((k - 1) - 1) + 1 = k - 1  BY <1>1, <3>2
      <4> QED  BY <4>1 DEF start_index, EndOf, end_index
    <3> QED  BY <3>1, <3>2
  <2> QED  BY <2>1, <2>2, <2>3 DEF EndOf
<1> QED  BY <1>2, <1>3, <1>4, <1>5 DEF EndOf

\* Once no thread runs, each stored its share but for what it may miss.
LEMMA ThreadStored ==
  ASSUME MainInv, SumInv, NEW k \in DOMAIN ranges, received[k] # Running
  PROVE  /\ received[k] \in Int /\ missing[k] \in Int
         /\ received[k] <= Share(k) * PageBytes
         /\ received[k] >= Share(k) * PageBytes - missing[k]
<1>1. PageBytes \in Nat /\ Early \in Nat  BY MainAssumption DEF MainInv, PageBytes
<1>2. k \in DOMAIN received  BY DEF MainInv, SumInv
<1>3. Share(k) \in Int  BY ShareIs
<1>4. /\ missing[k] = (IF k \in cut THEN Share(k) ELSE Early) * PageBytes
      /\ missing[k] \in Int
  BY <1>1, <1>3 DEF missing
<1>5. CASE k \in cut
  <2>1. received[k] \in Nat /\ received[k] <= Share(k) * PageBytes
    <3>1. CASE \E n \in Nat : n <= Share(k) /\ received[k] = n * PageBytes
      BY <1>1, <1>3, <3>1, ProductGrows
    <3>2. CASE received[k] \in Nat /\ received[k] <= Share(k) * PageBytes
      BY <3>2
    <3> QED  BY <1>2, <3>1, <3>2 DEF SumInv, Shares, Stored
  <2>2. missing[k] = Share(k) * PageBytes /\ Share(k) * PageBytes \in Int
    BY <1>1, <1>3, <1>4, <1>5
  <2> QED  BY <1>4, <2>1, <2>2
<1>6. CASE k \notin cut
  <2>1. PICK n \in Nat : n <= Share(k) /\ n + Early >= Share(k) /\ received[k] = n * PageBytes
    BY <1>2, <1>6 DEF SumInv, Shares, Stored
  <2>2. n * PageBytes <= Share(k) * PageBytes  BY <1>1, <1>3, <2>1, ProductGrows
  <2>3. Share(k) * PageBytes <= (n + Early) * PageBytes  BY <1>1, <1>3, <2>1, ProductGrows
  <2>4. /\ (n + Early) * PageBytes = n * PageBytes + Early * PageBytes
        /\ n * PageBytes \in Int /\ Early * PageBytes \in Int /\ Share(k) * PageBytes \in Int
    BY <1>1, <1>3
  <2>5. missing[k] = Early * PageBytes  BY <1>4, <1>6
  <2> QED  BY <2>1, <2>2, <2>3, <2>4, <2>5
<1> QED  BY <1>5, <1>6

\* The total expected, in a build whose product does not wrap.
LEMMA ExpectedIsAskedFor ==
  ASSUME MainInv
  PROVE  \/ expected_total_received_bytes = NumRequests * PageBytes
         \/ NumRequests * build.page_size >= 2^UintBits
<1> DEFINE a == NumRequests * build.page_size
           b == 2^UintBits
<1>1. /\ UintBits \in Nat /\ NumRequests \in Nat /\ build.page_size \in Nat
      /\ IntBytes \in Nat
  BY BuildIsSound, MainAssumption DEF MainInv
<1>2. a \in Nat /\ b \in Int  BY <1>1
<1>3. ASSUME a < b PROVE expected_total_received_bytes = NumRequests * PageBytes
  <2>1. a % b = a
    <3> HIDE DEF a, b
    <3> QED  BY <1>2, <1>3
  <2>2. a * IntBytes = NumRequests * (build.page_size * IntBytes)  BY <1>1
  <2> QED  BY <2>1, <2>2 DEF expected_total_received_bytes, PageBytes
<1>4. a < b \/ a >= b
  <2> HIDE DEF a, b
  <2> QED  BY <1>2
<1> QED  BY <1>3, <1>4

LEMMA InvTotals == MainInv /\ SumInv => TotalAccountsForAll
<1> SUFFICES ASSUME MainInv, SumInv, pc = "done"
             PROVE  /\ total <= NumRequests * PageBytes
                    /\ NumRequests * PageBytes - total <= Sum(missing, DOMAIN ranges)
  BY ExpectedIsAskedFor DEF TotalAccountsForAll, Sum
<1> DEFINE c == build.client_threads
           most == [k \in 1..c |-> Share(k) * PageBytes]
           least == [k \in 1..c |-> Share(k) * PageBytes - missing[k]]
           F == [k \in 0..c |-> EndOf(k) * PageBytes]
           G == [k \in 0..c |-> EndOf(k) * PageBytes - Sum(missing, 1..k)]
<1>1. /\ c \in Nat \ {0} /\ NumRequests \in Nat /\ Len(ranges) = c
      /\ DOMAIN received = 1..c /\ DOMAIN ranges = 1..c /\ joined = c
      /\ total = Sum(received, 1..c)
  BY BuildIsSound DEF MainInv, SumInv
<1>2. PageBytes \in Nat  BY MainAssumption DEF MainInv, PageBytes
<1>3. /\ \A k \in 0..c : EndOf(k) \in Int
      /\ \A k \in 1..c : Share(k) = EndOf(k) - EndOf(k - 1)
      /\ EndOf(0) = 0 /\ EndOf(c) = NumRequests
  BY <1>1, EndsMeet
<1>4. ASSUME NEW k \in 1..c
      PROVE  /\ received[k] \in Int /\ missing[k] \in Int
             /\ received[k] <= Share(k) * PageBytes
             /\ received[k] >= Share(k) * PageBytes - missing[k]
  <2>1. received[k] # Running
    <3>1. k <= joined /\ k \in DOMAIN received  BY <1>1
    <3> QED  BY <3>1 DEF SumInv
  <2> QED  BY <1>1, <2>1, ThreadStored
<1>5. ASSUME NEW k \in 1..c
      PROVE  /\ Share(k) \in Int /\ Share(k) * PageBytes \in Int
             /\ Share(k) * PageBytes = EndOf(k) * PageBytes - EndOf(k - 1) * PageBytes
             /\ EndOf(k) * PageBytes \in Int /\ EndOf(k - 1) * PageBytes \in Int
  <2>1. k \in 0..c /\ k - 1 \in 0..c /\ k \in Int  BY <1>1
  <2>2. EndOf(k) \in Int /\ EndOf(k - 1) \in Int /\ Share(k) = EndOf(k) - EndOf(k - 1)
    BY <1>3, <2>1
  <2> QED  BY <1>2, <2>2
<1>6. IsFiniteSet(1..c)  BY <1>1, FS_Interval
<1>7. ASSUME NEW k \in 1..c
      PROVE  /\ received[k] \in Int /\ most[k] \in Int /\ least[k] \in Int
             /\ received[k] <= most[k] /\ least[k] <= received[k]
  <2>1. most[k] = Share(k) * PageBytes /\ least[k] = Share(k) * PageBytes - missing[k]
    OBVIOUS
  <2> HIDE DEF most, least, c
  <2> QED  BY <1>4, <1>5, <2>1
<1>8. Sum(received, 1..c) <= Sum(most, 1..c) /\ Sum(least, 1..c) <= Sum(received, 1..c)
  <2> HIDE DEF most, least, c
  <2>1. Terms(received, 1..c) /\ Terms(most, 1..c) /\ Terms(least, 1..c)  BY <1>7 DEF Terms
  <2> QED  BY <1>6, <1>7, <2>1, SumAtMost
<1>9. Sum(most, 1..c) = NumRequests * PageBytes
  <2>1. \A k \in 0..c : F[k] \in Int  BY <1>2, <1>3
  <2>2. \A k \in 1..c : most[k] = F[k] - F[k - 1]
    <3> SUFFICES ASSUME NEW k \in 1..c PROVE most[k] = F[k] - F[k - 1]
      OBVIOUS
    <3>1. k \in 0..c /\ k - 1 \in 0..c  BY <1>1
    <3> QED  BY <1>5, <3>1
  <2>3. F[0] = 0 * PageBytes /\ F[c] = NumRequests * PageBytes  BY <1>1, <1>3
  <2> HIDE DEF F, most, c
  <2>4. Sum(most, 1..c) = F[c] - F[0]  BY <1>1, <2>1, <2>2, SumOfSteps
  <2> QED  BY <1>1, <1>2, <2>3, <2>4
<1>10. ASSUME NEW k \in 0..c
       PROVE  /\ Sum(missing, 1..k) \in Int
              /\ k # 0 => Sum(missing, 1..k) = missing[k] + Sum(missing, 1..(k - 1))
  <2>1. IsFiniteSet(1..k)  BY <1>1, FS_Interval
  <2>2. Terms(missing, 1..k)
    <3> HIDE DEF c
    <3>1. \A l \in 1..k : l \in 1..c  BY <1>1
    <3> QED  BY <1>4, <3>1 DEF Terms
  <2>3. Sum(missing, 1..k) \in Int  BY <2>1, <2>2, SumTypes
  <2>4. ASSUME k # 0 PROVE Sum(missing, 1..k) = missing[k] + Sum(missing, 1..(k - 1))
    <3>1. k \in 1..k /\ (1..k) \ {k} = 1..(k - 1)  BY <1>1, <2>4
    <3> QED  BY <2>1, <2>2, <3>1, SumTakeOut
  <2> QED  BY <2>3, <2>4
<1>11. Sum(least, 1..c) = NumRequests * PageBytes - Sum(missing, 1..c)
  <2>1. \A k \in 0..c : G[k] \in Int  BY <1>2, <1>3, <1>10
  <2>2. \A k \in 1..c : least[k] = G[k] - G[k - 1]
    <3> SUFFICES ASSUME NEW k \in 1..c PROVE least[k] = G[k] - G[k - 1]
      OBVIOUS
    <3>1. k \in 0..c /\ k - 1 \in 0..c /\ k # 0  BY <1>1
    <3>2. /\ G[k] = EndOf(k) * PageBytes - Sum(missing, 1..k)
          /\ G[k - 1] = EndOf(k - 1) * PageBytes - Sum(missing, 1..(k - 1))
          /\ least[k] = Share(k) * PageBytes - missing[k]
      BY <3>1
    <3>3. /\ Sum(missing, 1..k) \in Int /\ Sum(missing, 1..(k - 1)) \in Int
          /\ Sum(missing, 1..k) = missing[k] + Sum(missing, 1..(k - 1))
      BY <1>10, <3>1
    <3> HIDE DEF G, least, c
    <3> QED  BY <1>4, <1>5, <3>2, <3>3
  <2>3. G[0] = 0 * PageBytes - Sum(missing, 1..0)
        /\ G[c] = NumRequests * PageBytes - Sum(missing, 1..c)
    BY <1>1, <1>3
  <2>4. 1..0 = {} /\ Sum(missing, {}) = 0  BY SumEmpty
  <2>5. 0 * PageBytes = 0 /\ NumRequests * PageBytes \in Int /\ Sum(missing, 1..c) \in Int
    BY <1>1, <1>2, <1>10
  <2> HIDE DEF G, least, c
  <2>6. Sum(least, 1..c) = G[c] - G[0]  BY <1>1, <2>1, <2>2, SumOfSteps
  <2> QED  BY <2>3, <2>4, <2>5, <2>6
<1> QED
  <2>1. Terms(received, 1..c)  BY <1>7 DEF Terms
  <2> HIDE DEF c, most, least
  <2>2. Sum(received, 1..c) \in Int  BY <1>6, <2>1, SumTypes
  <2>3. Sum(missing, 1..c) \in Int  BY <1>1, <1>10
  <2>4. NumRequests * PageBytes \in Int  BY <1>1, <1>2
  <2> QED  BY <1>1, <1>8, <1>9, <1>11, <2>2, <2>3, <2>4

(***************************************************************************)
(* However the pages were divided, and whichever threads lost their        *)
(* connection, the total never exceeds the bytes asked for and falls short *)
(* of them by no more than what each served thread may leave without and   *)
(* each cut one missed; and the total expected is the bytes asked for      *)
(* unless requests times page size wraps (the two totals that main of      *)
(* simple_iou_client.cpp prints).                                          *)
(***************************************************************************)
THEOREM TotalsAgree == MainSpec => []TotalAccountsForAll
<1>1. MainInit => MainInv /\ SumInv  BY MainInvInit, SumInvInit
<1>2. (MainInv /\ SumInv) /\ [MainNext]_mainVars => (MainInv /\ SumInv)'
  BY MainInvStep, SumInvStep
<1> QED  BY <1>1, <1>2, InvTotals, PTL DEF MainSpec

-----------------------------------------------------------------------------
(* The two processes.                                                      *)

BacklogOK ==
  /\ \A n \in DOMAIN backlog : /\ handler[backlog[n]] = "none"
                               /\ thread[backlog[n]] \in {"run", "done"}
  /\ \A m, n \in DOMAIN backlog : m # n => backlog[m] # backlog[n]

ServedOK ==
  \A i \in Threads :
    /\ handler[i] # "none" => thread[i] \in {"run", "done"}
    /\ handler[i] \in {"returned", "finished"} =>
         client = "failed" \/ thread[i] = "done"

MainsOK ==
  /\ client = "done" => \A i \in Threads : thread[i] = "done"
  /\ server \in {"poll", "done"} => client_num = ClientThreads
  /\ server = "done" => finished_threads >= client_num

ProcessInv == ProcessTypeOK /\ CountsAgree /\ BacklogOK /\ ServedOK /\ MainsOK

Accepted == {i \in Threads : handler[i] # "none"}
Finished == {i \in Threads : handler[i] = "finished"}

-----------------------------------------------------------------------------

LEMMA SetsOfThreads ==
  ASSUME NEW S \in SUBSET Threads
  PROVE  /\ Cardinality(S) \in 0..ClientThreads
         /\ Cardinality(S) = ClientThreads => S = Threads
         /\ \A i \in Threads \ S : Cardinality(S \cup {i}) = Cardinality(S) + 1
<1>1. IsFiniteSet(Threads) /\ Cardinality(Threads) = ClientThreads
  <2>1. ClientThreads \in Nat /\ ClientThreads >= 1  BY ProcessAssumption
  <2>2. 1 \in Int /\ ClientThreads \in Int  BY <2>1
  <2>3. /\ IsFiniteSet(1..ClientThreads)
        /\ Cardinality(1..ClientThreads) = IF 1 > ClientThreads THEN 0 ELSE ClientThreads - 1 + 1
    BY <2>2, FS_Interval
  <2> QED  BY <2>1, <2>3 DEF Threads
<1>2. /\ IsFiniteSet(S) /\ Cardinality(S) <= ClientThreads
      /\ Cardinality(S) = ClientThreads => S = Threads
  BY <1>1, FS_Subset
<1>3. Cardinality(S) \in Nat  BY <1>2, FS_CardinalityType
<1>4. \A i \in Threads \ S : Cardinality(S \cup {i}) = Cardinality(S) + 1
  BY <1>2, FS_AddElement
<1> QED  BY <1>2, <1>3, <1>4, ProcessAssumption

LEMMA HandlersCounted ==
  ASSUME NEW h
  PROVE  /\ Cardinality({i \in Threads : h[i] = "finished"}) \in 0..ClientThreads
         /\ Cardinality({i \in Threads : h[i] # "none"}) \in 0..ClientThreads
         /\ Cardinality({i \in Threads : h[i] = "finished"})
              <= Cardinality({i \in Threads : h[i] # "none"})
<1> DEFINE F == {i \in Threads : h[i] = "finished"}
           A == {i \in Threads : h[i] # "none"}
<1>1. Cardinality(F) \in 0..ClientThreads /\ Cardinality(A) \in 0..ClientThreads
  <2>1. F \in SUBSET Threads /\ A \in SUBSET Threads  OBVIOUS
  <2> HIDE DEF F, A
  <2> QED  BY <2>1, SetsOfThreads
<1>2. Cardinality(F) <= Cardinality(A)
  <2>1. ClientThreads \in Int /\ 1 \in Int  BY ProcessAssumption
  <2>2. IsFiniteSet(Threads)  BY <2>1, FS_Interval DEF Threads
  <2>3. A \in SUBSET Threads /\ F \in SUBSET A  OBVIOUS
  <2> HIDE DEF F, A
  <2> QED  BY <2>2, <2>3, FS_Subset
<1> QED  BY <1>1, <1>2

LEMMA ProcessInvInit == ProcessInit => ProcessInv
<1> SUFFICES ASSUME ProcessInit PROVE ProcessInv
  OBVIOUS
<1>1. Finished = {} /\ Accepted = {}
  BY DEF ProcessInit, Finished, Accepted
<1>2. finished_threads = Cardinality(Finished) /\ client_num = Cardinality(Accepted)
  BY <1>1, FS_EmptySet DEF ProcessInit
<1>3. CountsAgree /\ ProcessTypeOK
  BY <1>2, HandlersCounted DEF ProcessInit, ProcessTypeOK, CountsAgree, Finished, Accepted
<1>4. BacklogOK /\ ServedOK /\ MainsOK
  BY DEF ProcessInit, BacklogOK, ServedOK, MainsOK
<1> QED  BY <1>3, <1>4 DEF ProcessInv

-----------------------------------------------------------------------------

\* The actions that touch neither the handlers nor the backlog.
LEMMA QuietStep ==
  ASSUME ProcessInv, UNCHANGED <<backlog, client_num, handler, finished_threads>>,
         \/ \E i \in Threads : Spawn(i) \/ ConnectFails(i) \/ ThreadDone(i) \/ ThreadFails(i)
         \/ JoinAll \/ Listen \/ ListenFails \/ AcceptFails \/ StopAccepting \/ Shutdown
         \/ \E i \in Threads : HandlerExits(i)
  PROVE  ProcessInv'
<1> USE DEF ProcessInv, ClientUp, ServerUp
<1>1. ProcessTypeOK'
  BY DEF ProcessTypeOK, Spawn, ConnectFails, ThreadDone, ThreadFails, JoinAll, Listen,
         ListenFails, AcceptFails, StopAccepting, Shutdown, HandlerExits
<1>2. CountsAgree'
  BY DEF CountsAgree
<1>3. \A i \in Threads : /\ thread[i] = "done" => thread'[i] = "done"
                         /\ thread[i] = "run" => thread'[i] \in {"run", "done"}
  BY DEF ProcessTypeOK, Spawn, ConnectFails, ThreadDone, ThreadFails, JoinAll, Listen,
         ListenFails, AcceptFails, StopAccepting, Shutdown, HandlerExits
<1>4. client = "failed" => client' = "failed"
  BY DEF Spawn, ConnectFails, ThreadDone, ThreadFails, JoinAll, Listen,
         ListenFails, AcceptFails, StopAccepting, Shutdown, HandlerExits
<1>5. ServedOK'
  BY <1>3, <1>4 DEF ServedOK
<1>6. BacklogOK'
  <2>1. \A n \in DOMAIN backlog : backlog[n] \in Threads
    BY DEF ProcessTypeOK
  <2> QED  BY <2>1, <1>3 DEF BacklogOK
<1>7. MainsOK'
  <2>1. client' = "done" => \A i \in Threads : thread'[i] = "done"
    BY <1>3 DEF MainsOK, ProcessTypeOK, Spawn, ConnectFails, ThreadDone, ThreadFails, JoinAll,
         Listen, ListenFails, AcceptFails, StopAccepting, Shutdown, HandlerExits
  <2>2. server' \in {"poll", "done"} => client_num' = ClientThreads
    BY ProcessAssumption DEF MainsOK, ProcessTypeOK, Spawn, ConnectFails, ThreadDone,
       ThreadFails, JoinAll, Listen, ListenFails, AcceptFails, StopAccepting, Shutdown, HandlerExits
  <2>3. server' = "done" => finished_threads' >= client_num'
    BY DEF MainsOK, Spawn, ConnectFails, ThreadDone, ThreadFails, JoinAll, Listen,
           ListenFails, AcceptFails, StopAccepting, Shutdown, HandlerExits
  <2> QED  BY <2>1, <2>2, <2>3 DEF MainsOK
<1> QED  BY <1>1, <1>2, <1>5, <1>6, <1>7

LEMMA ConnectStep ==
  ASSUME ProcessInv, NEW i \in Threads, Connect(i)
  PROVE  ProcessInv'
<1> USE DEF ProcessInv
<1>1. /\ thread \in [Threads -> {"new", "connect", "run", "done"}] /\ thread[i] = "connect"
      /\ thread' = [thread EXCEPT ![i] = "run"] /\ backlog' = Append(backlog, i)
      /\ backlog \in Seq(Threads) /\ client \in {"spawn", "join"}
      /\ UNCHANGED <<client, server, client_num, handler, finished_threads>>
  BY DEF Connect, ProcessTypeOK, ClientUp
<1>2. handler[i] = "none"
  BY <1>1 DEF ServedOK
<1>3. ProcessTypeOK' /\ CountsAgree'
  BY <1>1 DEF ProcessTypeOK, CountsAgree
<1>4. ServedOK' /\ MainsOK'
  BY <1>1, <1>2 DEF ServedOK, MainsOK
<1>5. BacklogOK'
  <2>1. /\ Len(backlog) \in Nat /\ DOMAIN backlog = 1..Len(backlog)
        /\ DOMAIN backlog' = 1..(Len(backlog) + 1)
        /\ \A n \in DOMAIN backlog : backlog'[n] = backlog[n] /\ backlog[n] \in Threads
        /\ backlog'[Len(backlog) + 1] = i
    BY <1>1
  <2>2. \A n \in DOMAIN backlog : backlog[n] # i
    BY <1>1 DEF BacklogOK
  <2>3. \A n \in DOMAIN backlog : thread'[backlog[n]] \in {"run", "done"}
    BY <1>1, <2>1, <2>2 DEF BacklogOK
  <2> QED  BY <1>1, <1>2, <2>1, <2>2, <2>3 DEF BacklogOK
<1> QED  BY <1>3, <1>4, <1>5

LEMMA AcceptStep ==
  ASSUME ProcessInv, Accept
  PROVE  ProcessInv'
<1> USE DEF ProcessInv
<1> DEFINE i == Head(backlog)
<1>1. /\ backlog \in Seq(Threads) /\ backlog # <<>> /\ backlog' = Tail(backlog)
      /\ handler' = [handler EXCEPT ![i] = "run"] /\ client_num' = client_num + 1
      /\ server = "accept" /\ UNCHANGED <<client, thread, server, finished_threads>>
      /\ handler \in [Threads -> {"none", "run", "returned", "finished"}]
  BY DEF Accept, ProcessTypeOK
<1>2. /\ Len(backlog) \in Nat \ {0} /\ DOMAIN backlog = 1..Len(backlog)
      /\ i = backlog[1] /\ i \in Threads /\ Tail(backlog) \in Seq(Threads)
      /\ DOMAIN backlog' = 1..(Len(backlog) - 1)
      /\ \A n \in 1..(Len(backlog) - 1) : backlog'[n] = backlog[n + 1] /\ n + 1 \in DOMAIN backlog
                                          /\ backlog[n + 1] \in Threads
  BY <1>1
<1>3. handler[i] = "none" /\ thread[i] \in {"run", "done"}
  BY <1>2 DEF BacklogOK
<1> HIDE DEF i
<1>4. Finished' = Finished /\ Accepted' = Accepted \cup {i} /\ i \in Threads \ Accepted
      /\ Accepted \in SUBSET Threads
  BY <1>1, <1>2, <1>3 DEF Finished, Accepted
<1>5. finished_threads' = Cardinality(Finished') /\ client_num' = Cardinality(Accepted')
  BY <1>1, <1>4, SetsOfThreads DEF CountsAgree, Finished, Accepted
<1>6. /\ CountsAgree' /\ finished_threads' \in 0..ClientThreads
      /\ client_num' \in 0..ClientThreads
  BY <1>5, HandlersCounted DEF CountsAgree, Finished, Accepted
<1>7. ProcessTypeOK'
  BY <1>1, <1>2, <1>6 DEF ProcessTypeOK
<1>8. ServedOK' /\ MainsOK'
  BY <1>1, <1>2, <1>3 DEF ServedOK, MainsOK
<1>9. BacklogOK'
  <2>1. \A n \in DOMAIN backlog' : backlog'[n] # i
    BY <1>2 DEF BacklogOK
  <2> QED  BY <1>1, <1>2, <2>1 DEF BacklogOK
<1> QED  BY <1>6, <1>7, <1>8, <1>9

LEMMA HandlerStep ==
  ASSUME ProcessInv, NEW i \in Threads, HandlerReturns(i) \/ HandlerFinishes(i)
  PROVE  ProcessInv'
<1> USE DEF ProcessInv
<1>1. PICK h \in {"returned", "finished"} :
        /\ handler' = [handler EXCEPT ![i] = h]
        /\ handler[i] = IF h = "returned" THEN "run" ELSE "returned"
        /\ h = "returned" => finished_threads' = finished_threads /\ Closed(i)
        /\ h = "finished" => finished_threads' = finished_threads + 1
        /\ server \in {"init", "accept", "poll"}
        /\ UNCHANGED <<client, thread, server, backlog, client_num>>
  BY DEF HandlerReturns, HandlerFinishes, ServerUp
<1>2. handler \in [Threads -> {"none", "run", "returned", "finished"}]
      /\ client \in {"spawn", "join", "done", "failed"}
  BY DEF ProcessTypeOK
<1>3. /\ Accepted' = Accepted /\ Finished \in SUBSET Threads /\ i \in Threads \ Finished
      /\ Finished' = IF h = "finished" THEN Finished \cup {i} ELSE Finished
  BY <1>1, <1>2 DEF Accepted, Finished
<1>4. finished_threads' = Cardinality(Finished') /\ client_num' = Cardinality(Accepted')
  BY <1>1, <1>3, SetsOfThreads DEF CountsAgree, Finished, Accepted
<1>5. /\ CountsAgree' /\ finished_threads' \in 0..ClientThreads
      /\ client_num' \in 0..ClientThreads
  BY <1>4, HandlersCounted DEF CountsAgree, Finished, Accepted
<1>6. ProcessTypeOK'
  BY <1>1, <1>2, <1>5 DEF ProcessTypeOK
<1>7. client = "failed" \/ thread[i] = "done"
  BY <1>1, <1>2 DEF Closed, ClientUp, MainsOK, ServedOK
<1>8. ServedOK' /\ MainsOK'
  BY <1>1, <1>2, <1>7 DEF ServedOK, MainsOK
<1>9. BacklogOK'
  <2>1. \A n \in DOMAIN backlog : backlog[n] \in Threads /\ backlog[n] # i
    BY <1>1 DEF BacklogOK, ProcessTypeOK
  <2> QED  BY <1>1, <1>2, <2>1 DEF BacklogOK
<1> QED  BY <1>5, <1>6, <1>8, <1>9

LEMMA ProcessInvStep ==
  ProcessInv /\ [ProcessNext \/ ClientFails \/ ServerFails]_processVars => ProcessInv'
<1> SUFFICES ASSUME ProcessInv, [ProcessNext \/ ClientFails \/ ServerFails]_processVars
             PROVE  ProcessInv'
  OBVIOUS
<1>1. CASE \E i \in Threads : Connect(i)  BY <1>1, ConnectStep
<1>2. CASE Accept  BY <1>2, AcceptStep
<1>3. CASE \E i \in Threads : HandlerReturns(i) \/ HandlerFinishes(i)  BY <1>3, HandlerStep
<1>4. CASE \/ \E i \in Threads : Spawn(i) \/ ConnectFails(i) \/ ThreadDone(i) \/ ThreadFails(i)
           \/ JoinAll \/ Listen \/ ListenFails \/ AcceptFails \/ StopAccepting \/ Shutdown
           \/ \E i \in Threads : HandlerExits(i)
  <2>1. UNCHANGED <<backlog, client_num, handler, finished_threads>>
    BY <1>4 DEF Spawn, ConnectFails, ThreadDone, ThreadFails, JoinAll, Listen, ListenFails,
                AcceptFails, StopAccepting, Shutdown, HandlerExits
  <2> QED  BY <1>4, <2>1, QuietStep
<1>5. CASE UNCHANGED processVars
  BY <1>5 DEF processVars, ProcessInv, ProcessTypeOK, CountsAgree, BacklogOK, ServedOK, MainsOK
<1> QED
  BY <1>1, <1>2, <1>3, <1>4, <1>5
  DEF ProcessNext, ClientFails, ServerFails, ClientStep, ServerStep

-----------------------------------------------------------------------------

(***************************************************************************)
(* Whatever the threads and the two mains do, what the poll loop compares  *)
(* agrees with the handlers.                                               *)
(***************************************************************************)
THEOREM CounterStandsForHandlers == ProcessSpec => []CountsAgree
<1>1. ProcessInv => CountsAgree  BY DEF ProcessInv
<1> QED  BY ProcessInvInit, ProcessInvStep, <1>1, PTL DEF ProcessSpec

(***************************************************************************)
(* The counters stay within the number of threads, and each thread in one  *)
(* of its states.                                                          *)
(***************************************************************************)
THEOREM ProcessTypesHold == ProcessSpec => []ProcessTypeOK
<1>1. ProcessInv => ProcessTypeOK  BY DEF ProcessInv
<1> QED  BY ProcessInvInit, ProcessInvStep, <1>1, PTL DEF ProcessSpec

\* All clients were accepted and as many handlers finished, hence all.
LEMMA InvCutsOffNobody == ProcessInv => NoHandlerCutOff
<1> SUFFICES ASSUME ProcessInv, server = "done", NEW i \in Threads
             PROVE  handler[i] = "finished" /\ (client # "failed" => thread[i] = "done")
  BY DEF NoHandlerCutOff
<1>1. finished_threads >= client_num /\ client_num = ClientThreads
  BY DEF ProcessInv, MainsOK
<1>2. Finished \in SUBSET Threads /\ finished_threads = Cardinality(Finished)
  BY DEF ProcessInv, CountsAgree, Finished
<1>3. Cardinality(Finished) = ClientThreads
  BY <1>1, <1>2, SetsOfThreads, ProcessAssumption
<1>4. Finished = Threads  BY <1>2, <1>3, SetsOfThreads
<1>5. handler[i] = "finished"  BY <1>4 DEF Finished
<1> QED  BY <1>5 DEF ProcessInv, ServedOK

(***************************************************************************)
(* For any number of clients: when main of the server returns, and ends    *)
(* the process with its detached threads, every handler was through        *)
(* (simple_iou_server.cpp, the poll loop).                                 *)
(***************************************************************************)
THEOREM ServerWaitsForHandlers == ProcessSpec => []NoHandlerCutOff
BY ProcessInvInit, ProcessInvStep, InvCutsOffNobody, PTL DEF ProcessSpec
=============================================================================
