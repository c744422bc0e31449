------------------------------ MODULE ClientMain ------------------------------
(***************************************************************************)
(* main of src/simple_iou_client.cpp: it gives each thread a range of the  *)
(* pages, the last one taking what the division leaves over, joins them in *)
(* order, adds up the bytes they received and prints the sum next to the   *)
(* bytes it expected.  max_client.cpp has the same spawn loop.             *)
(*                                                                         *)
(* The build options are variables that never change, so that one run      *)
(* covers many builds.  unsigned int has UintBits bits.                    *)
(***************************************************************************)
EXTENDS Integers, Sequences, FiniteSetsExt

CONSTANTS
  Builds,      \* [num_requests, client_threads, page_size] the program is built with
  Early,       \* pages a thread may leave without (RING_SIZE / 2)
  UintBits,    \* width of unsigned int
  IntBytes,    \* sizeof(int32_t)
  Parts        \* bytes of a page that may have come when its connection ended

ASSUME MainAssumption ==
  /\ \A b \in Builds : /\ b.num_requests \in Nat
                       /\ b.client_threads \in Nat \ {0}
                       /\ b.page_size \in Nat
  /\ Early \in Nat /\ UintBits \in Nat /\ IntBytes \in Nat
  /\ Parts \subseteq Nat

VARIABLES
  build,     \* the options of this build
  pc,        \* where main is
  ranges,    \* ranges[i]: start_index and end_index of the i-th thread started
  received,  \* received[i]: what the i-th thread stored, or Running
  joined,    \* threads joined
  total,     \* total_received_bytes
  cut        \* history: threads whose connection ended before they were through

mainVars == <<build, pc, ranges, received, joined, total, cut>>

Running == -1

NumRequests == build.num_requests
PageBytes == build.page_size * IntBytes

requests_per_thread == NumRequests \div build.client_threads

start_index(i) == i * requests_per_thread

end_indexForgetsRest(i) == (i + 1) * requests_per_thread    \* mutant: no last thread
end_index(i) == IF i = build.client_threads - 1 THEN NumRequests
                ELSE (i + 1) * requests_per_thread

\* The product is computed as unsigned int, and only then widened.
expected_total_received_bytes ==
  ((NumRequests * build.page_size) % 2^UintBits) * IntBytes

MainInit ==
  /\ build \in Builds
  /\ pc = "spawn"
  /\ ranges = <<>> /\ received = <<>> /\ joined = 0 /\ total = 0 /\ cut = {}

StartThread ==
  /\ pc = "spawn" /\ Len(ranges) < build.client_threads
  /\ LET i == Len(ranges)
     IN ranges' = Append(ranges, [start |-> start_index(i), end |-> end_index(i)])
  /\ received' = Append(received, Running)
  /\ UNCHANGED <<build, pc, joined, total, cut>>

StartJoining ==
  /\ pc = "spawn" /\ Len(ranges) = build.client_threads
  /\ pc' = "join"
  /\ UNCHANGED <<build, ranges, received, joined, total, cut>>

Share(i) == ranges[i].end - ranges[i].start

\* send_receive_data of thread i returns, having been served to the end: it
\* received its pages, but for the few it may leave without (SimpleIou).
Finish(i) ==
  /\ received[i] = Running
  /\ \E n \in 0..Share(i) :
       /\ n + Early >= Share(i)
       /\ received' = [received EXCEPT ![i] = n * PageBytes]
  /\ UNCHANGED <<build, pc, ranges, joined, total, cut>>

\* Its connection ended: each receive returns what is left, soon nothing, and
\* counts as an iteration all the same, so the loop ends with what had come.
\* (An error ends the process, and there is no total: Processes.)
FinishCut(i) ==
  /\ received[i] = Running
  /\ \E n \in 0..Share(i), part \in Parts :
       /\ n * PageBytes + part <= Share(i) * PageBytes
       /\ received' = [received EXCEPT ![i] = n * PageBytes + part]
  /\ cut' = cut \cup {i}
  /\ UNCHANGED <<build, pc, ranges, joined, total>>

\* Mutant of Join: the next thread, whether it is done or not.
JoinAny ==
  /\ pc = "join" /\ joined < build.client_threads
  /\ joined' = joined + 1
  /\ UNCHANGED <<build, pc, ranges, received, total, cut>>

Join ==
  /\ pc = "join" /\ joined < build.client_threads
  /\ received[joined + 1] # Running
  /\ joined' = joined + 1
  /\ UNCHANGED <<build, pc, ranges, received, total, cut>>

Report ==
  /\ pc = "join" /\ joined = build.client_threads
  /\ pc' = "done"
  /\ total' = MapThenSumSet(LAMBDA i : received[i], DOMAIN received)
  /\ UNCHANGED <<build, ranges, received, joined, cut>>

MainNext == StartThread \/ StartJoining \/ Join \/ Report
            \/ \E i \in DOMAIN ranges : Finish(i) \/ FinishCut(i)

MainSpec == MainInit /\ [][MainNext]_mainVars

-----------------------------------------------------------------------------

PagesOf(i) == ranges[i].start..(ranges[i].end - 1)

(***************************************************************************)
(* No page is requested by two threads, and once all threads were started  *)
(* every page is requested by one, for any number of requests and threads, *)
(* more threads than requests included (the spawn loops of the two mains). *)
(***************************************************************************)
RangesPartition ==
  /\ \A i, j \in DOMAIN ranges : i # j => PagesOf(i) \cap PagesOf(j) = {}
  /\ Len(ranges) = build.client_threads =>
       UNION {PagesOf(i) : i \in DOMAIN ranges} = 0..(NumRequests - 1)

\* What thread i may have left without.
missing == [i \in DOMAIN ranges |-> (IF i \in cut THEN Share(i) ELSE Early) * PageBytes]

(***************************************************************************)
(* The total printed (simple_iou_client.cpp line 366) accounts for every   *)
(* thread: it never exceeds the bytes asked for, and falls short of them   *)
(* by no more than the pages each served thread may leave without and what *)
(* threads missed whose connection ended.  The total expected, printed     *)
(* next to it, is the bytes asked for, in any build but one in which the   *)
(* product of requests and page size wraps.                                *)
(***************************************************************************)
TotalAccountsForAll ==
  pc = "done" =>
    /\ total <= NumRequests * PageBytes
    /\ NumRequests * PageBytes - total <= MapThenSumSet(LAMBDA i : missing[i], DOMAIN ranges)
    /\ \/ expected_total_received_bytes = NumRequests * PageBytes
       \/ NumRequests * build.page_size >= 2^UintBits
=============================================================================
