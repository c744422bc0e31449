------------------------------ MODULE SimpleIou ------------------------------
(***************************************************************************)
(* One client thread of simple_iou_client and the handler thread that      *)
(* serves it in simple_iou_server, on one connection: the two event loops  *)
(* and their windows, each with its kernel, run concurrently.              *)
(***************************************************************************)
EXTENDS SimpleClient, FiniteSetsExt

VARIABLES s_pc, s_mem, s_inflight, s_cq, write_req_num, s_pools, s_heap

S == INSTANCE SimpleServer
       WITH pc <- s_pc, mem <- s_mem, inflight <- s_inflight, cq <- s_cq,
            pools <- s_pools, heap <- s_heap,
            MaxPage <- StartIndex + NumRequests, Verify <- FALSE, MaxRequests <- 0

serverSide == <<s_pc, s_mem, s_inflight, s_cq, write_req_num, s_pools, s_heap>>
vars == <<clientVars, serverSide, tcpVars>>

Init == ClientInit /\ S!ServerInit /\ TcpInit

Next == \/ ClientStep /\ UNCHANGED serverSide
        \/ S!ServerStep /\ UNCHANGED clientVars

Spec == Init /\ [][Next]_vars

(***************************************************************************)
(* The two threads are scheduled, and the kernels get on with the sends    *)
(* and with the receives.  Of two operations of a kind, either may be      *)
(* delayed for as long as the other makes progress.                        *)
(***************************************************************************)
Fairness ==
  /\ WF_vars(ClientThread /\ UNCHANGED serverSide)
  /\ WF_vars(KernelSend /\ UNCHANGED serverSide)
  /\ WF_vars((KernelRecv \/ KernelRecvEnd) /\ UNCHANGED serverSide)
  /\ WF_vars(S!ServerThread /\ UNCHANGED clientVars)
  /\ WF_vars((S!KernelRead \/ S!KernelReadEnd) /\ UNCHANGED clientVars)
  /\ WF_vars(S!KernelWrite /\ UNCHANGED clientVars)

(***************************************************************************)
(* The server process may end at any time: the handler of another client   *)
(* that finds a page number invalid calls exit(EXIT_FAILURE).              *)
(***************************************************************************)
ServerDies ==
  /\ s_pc \in {"start", "serve", "return"}
  /\ s_pc' = "exited"
  /\ ServerClose
  /\ UNCHANGED <<clientVars, s_mem, s_inflight, s_cq, write_req_num, s_pools, s_heap>>

MortalSpec == Init /\ [][Next \/ ServerDies]_vars /\ Fairness

-----------------------------------------------------------------------------

(***************************************************************************)
(* The completion queues have 2 * RING_SIZE entries, and stay well below   *)
(* on both sides.  The client's send window does not wait for its sends,   *)
(* and the server has no window at all: it is the round trip, a page comes *)
(* back only for a request that was completed, that bounds them both.      *)
(***************************************************************************)
CqNeverOverflows ==
  /\ Len(cq) + reaped <= RingSize \div 4 + 2 * (RingSize \div 2)
  /\ Len(s_cq) <= RingSize

(***************************************************************************)
(* While the connection is up, every request sent is in exactly one place: *)
(* the client's ring, the stream, a completed read that the handler has    *)
(* not looked at, or counted in write_req_num.  None is lost, and none is  *)
(* answered twice: no two of the requests and answers under way are about  *)
(* the same page, so a page number left in a read buffer is not answered   *)
(* again when the buffer is posted again.                                  *)
(***************************************************************************)
Unsent == {o \in Range(sq) \cup inflight : o.op = "send"}
Requested == {i \in DOMAIN s_cq : s_cq[i].op = "read"}
Writing == {o \in S!Outstanding : o.op = "write"}
PagesUnderWay ==
  [i \in 1..Len(toServer) |-> toServer[i][1]]
    \o [i \in 1..Len(s_cq) |-> s_mem[s_cq[i].data].word[1][1]]
RequestsConserved ==
  link = [e \in End |-> "open"] =>
    /\ send_index = Cardinality(Unsent) + Len(toServer) \div RequestUnits
                      + Cardinality(Requested) + write_req_num
    /\ IsInjective(PagesUnderWay)
    /\ \A o \in {w \in Writing : w \in s_inflight} :
         \A i \in DOMAIN PagesUnderWay : PagesUnderWay[i] # s_mem[o.data].word[1][1]

(***************************************************************************)
(* The pair implements PageExchange: the two windows of the client make up *)
(* the window of the exchange, and the client gives up on what its receive *)
(* window may still hold when all receives were submitted.                 *)
(***************************************************************************)
Total(f) == MapThenSumSet(LAMBDA x : f[x], DOMAIN f)
Brought(c) == IF c.op = "recv" THEN c.res ELSE 0
Unreaped ==
  Total([o \in inflight |-> o.got]) + Total([i \in DOMAIN cq |-> Brought(cq[i])])
Exchange ==
  INSTANCE PageExchange
    WITH asked <- send_index,
         answered <- total_received + IF pc = "closed" THEN 0 ELSE Unreaped + toClient,
         received <- total_received,
         over <- pc = "closed",
         Window <- RingSize \div 4 + RingSize \div 2,
         Abandoned <- RingSize \div 2
ExchangesPages == Exchange!ExchangeSpec

(***************************************************************************)
(* If the server lives, the client's thread gets through its loop without  *)
(* an error, and the handler returns once the client closed: nobody waits  *)
(* for ever, as long as pages are sent whole, also when the socket buffer  *)
(* holds only one.                                                         *)
(***************************************************************************)
BothEnd == [](s_pc # "exited") => <>(pc = "closed") /\ <>(s_pc = "finished")

(***************************************************************************)
(* The client's thread also ends if the server goes away: end of file      *)
(* counts as an iteration, and an error ends the process.                  *)
(***************************************************************************)
ClientEnds == <>(pc \in {"closed", "failed"})

-----------------------------------------------------------------------------

(***************************************************************************)
(* What a message of the code says, and a run refutes.                     *)
(***************************************************************************)

(***************************************************************************)
(* "Write complete" (simple_iou_server.cpp line 106): a write completed on *)
(* an open connection sent its page.  A short write is taken for a whole.  *)
(***************************************************************************)
WritesComplete ==
  link = [e \in End |-> "open"] =>
    \A i \in DOMAIN s_cq : s_cq[i].op = "write" => s_cq[i].res = PageUnits
=============================================================================
