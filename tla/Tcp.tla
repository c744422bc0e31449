--------------------------------- MODULE Tcp ---------------------------------
(***************************************************************************)
(* External: the TCP connection between one client thread and one handler  *)
(* thread, as the socket calls of the two programs see it.  Data counts in *)
(* units, whose number of bytes does not matter.  Towards the server they  *)
(* are pieces of request words, and keep their identity; towards the       *)
(* client they are pieces of pages, which the client only counts.          *)
(*                                                                         *)
(* close() with unread data resets the connection, otherwise it sends FIN. *)
(* An endpoint that got FIN may send once more before it learns that the   *)
(* peer is gone; one that got RST is told once (ECONNRESET), then reads    *)
(* end of file.  Data that arrived is read before either is seen.          *)
(***************************************************************************)
EXTENDS Integers, Sequences

CONSTANTS
  RequestUnits,  \* units of a request word (int32_t)
  PageUnits,     \* units of a page (PAGE_SIZE * sizeof(int32_t))
  SockBuf        \* units that fit between the server's send and the client's recv

ASSUME TcpAssumption == /\ RequestUnits \in Nat \ {0}
                        /\ PageUnits \in Nat \ {0}
                        /\ SockBuf \in Nat \ {0}

VARIABLES
  toServer,  \* units sent by the client and not yet read by the server
  toClient,  \* number of units sent by the server and not yet read
  link       \* link[e]: what endpoint e knows of the connection

tcpVars == <<toServer, toClient, link>>

End == {"client", "server"}
Link == {"open", "fin", "rst", "dead", "closed"}
Error == -1    \* a CQE's res < 0, whichever errno

Smaller(m, n) == IF m < n THEN m ELSE n

TcpInit == toServer = <<>> /\ toClient = 0 /\ link = [e \in End |-> "open"]

-----------------------------------------------------------------------------

Broken(e) == link[e] \in {"rst", "dead"}
Mark(e, state) == link' = [link EXCEPT ![e] = state]

\* A send of endpoint e that reaches nobody, with its result.
SendInVain(e, size, res) ==
  \/ link[e] = "fin" /\ res = size /\ \E s \in {"fin", "dead"} : Mark(e, s)
  \/ Broken(e) /\ res = Error /\ Mark(e, "dead")

\* A read of endpoint e that finds no data and none will come.
ReadEnd(e, res) ==
  \/ link[e] \in {"fin", "dead"} /\ res = 0 /\ UNCHANGED link
  \/ link[e] = "rst" /\ res = Error /\ Mark(e, "dead")

\* The client sends a request word: four bytes go whole.
ClientSend(word, res) ==
  \/ /\ link["client"] = "open"
     /\ toServer' = toServer \o word
     /\ res = Len(word)
     /\ UNCHANGED <<toClient, link>>
  \/ SendInVain("client", Len(word), res) /\ UNCHANGED <<toServer, toClient>>

\* The server sends a page: as much as fits now, at least one unit.
ServerSend(res) ==
  \/ /\ link["server"] = "open" /\ toClient < SockBuf
     /\ res = Smaller(PageUnits, SockBuf - toClient)
     /\ toClient' = toClient + res
     /\ UNCHANGED <<toServer, link>>
  \/ SendInVain("server", PageUnits, res) /\ UNCHANGED <<toServer, toClient>>

\* The server reads what arrived of the next word, not always all of it.
ServerRead(units) ==
  /\ \E n \in 1..Smaller(RequestUnits, Len(toServer)) : units = SubSeq(toServer, 1, n)
  /\ toServer' = SubSeq(toServer, Len(units) + 1, Len(toServer))
  /\ UNCHANGED <<toClient, link>>

ServerReadEnd(res) ==
  toServer = <<>> /\ ReadEnd("server", res) /\ UNCHANGED <<toServer, toClient>>

ClientReceive(n) ==
  /\ n <= toClient
  /\ toClient' = toClient - n
  /\ UNCHANGED <<toServer, link>>

ClientReceiveEnd(res) ==
  toClient = 0 /\ ReadEnd("client", res) /\ UNCHANGED <<toServer, toClient>>

-----------------------------------------------------------------------------

\* What endpoint e closing tells its peer, if that still listens.
Hangup(e, peer, unread) ==
  link' = [link EXCEPT ![e] = "closed",
                       ![peer] = IF @ # "open" THEN @
                                 ELSE IF unread THEN "rst" ELSE "fin"]

\* A reset also drops data that was on its way to the peer.
ClientClose ==
  /\ Hangup("client", "server", toClient > 0)
  /\ toClient' = 0
  /\ \E n \in 0..Len(toServer) :
       /\ toClient = 0 => n = Len(toServer)
       /\ toServer' = SubSeq(toServer, 1, n)

ServerClose ==
  /\ Hangup("server", "client", toServer # <<>>)
  /\ toServer' = <<>>
  /\ toClient' \in IF toServer = <<>> THEN {toClient} ELSE 0..toClient
=============================================================================
