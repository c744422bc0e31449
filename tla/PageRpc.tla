------------------------------- MODULE PageRpc -------------------------------
(***************************************************************************)
(* client.cpp and server.cpp: the blocking pair.  The client sends a       *)
(* request, reads the response to its end, checks it, and goes on with the *)
(* next one; the handler thread reads a request and writes its response.   *)
(* Each process loads a configuration of its own.                          *)
(*                                                                         *)
(* A request is two units, its two words; a response is two units, its     *)
(* header and its page.  A read may get one unit of two.  Either process   *)
(* may be killed at any moment.  A write to a connection known to be gone  *)
(* raises SIGPIPE, which kills the process that wrote.                     *)
(***************************************************************************)
EXTENDS Config, PageData

CONSTANT Sources   \* [file, env]: the configurations the two may find

\* A file is any lines, and an environment any values of some settings.
ASSUME SourcesAssumption ==
  \A source \in Sources :
    /\ source.file \in Seq(EnvLine)
    /\ DOMAIN source.env \subseteq Setting
    /\ \A key \in DOMAIN source.env : source.env[key] \in Value

VARIABLES
  given,       \* given[e]: the one that end e finds
  c_pc,        \* where the client is
  c_conf,      \* its settings
  i,           \* the loop variable
  total_read,  \* units of the response read
  response,    \* the response buffer, which lives as long as main
  correct,     \* correct_responses
  incorrect,   \* incorrect_responses
  s_main,      \* main of the server
  s_conf,      \* its settings
  s_pc,        \* where the handler thread is
  request,     \* what the handler read
  toServer,    \* units sent to the server and not yet read
  toClient,    \* units sent to the client and not yet read
  link         \* what each end knows of the connection

clientSide == <<c_pc, c_conf, i, total_read, response, correct, incorrect>>
serverSide == <<s_main, s_conf, s_pc, request>>
network == <<toServer, toClient, link>>
rpcVars == <<given, clientSide, serverSide, network>>

\* Tcp counts the units towards the client; what they say is added here.
T == INSTANCE Tcp WITH toClient <- Len(toClient),
                       RequestUnits <- 2, PageUnits <- 2, SockBuf <- 2

Connected == c_pc \in {"send", "read", "check"}

\* close(2), or the end of the process.  What the server sent before is
\* delivered, unless its close resets the connection.
ClientHangsUp == toClient' = <<>> /\ T!ClientClose
ServerHangsUp ==
  /\ \E n \in 0..Len(toClient) : toClient' = SubSeq(toClient, 1, n)
  /\ T!ServerClose

NoResponse == <<"nothing", "nothing">>

RpcInit ==
  /\ given \in [T!End -> Sources]
  /\ c_pc = "load" /\ s_main = "load" /\ s_pc = "none"
  /\ c_conf = Defaults /\ s_conf = Defaults
  /\ i = 0 /\ total_read = 0 /\ response = NoResponse
  /\ correct = 0 /\ incorrect = 0
  /\ request = <<>> /\ toServer = <<>> /\ toClient = <<>>
  /\ link = [e \in T!End |-> "open"]

-----------------------------------------------------------------------------

\* An exception from load_config ends the process.
LoadClient ==
  /\ c_pc = "load"
  /\ LET settings == load_config(given["client"].file, given["client"].env)
     IN IF settings = Thrown THEN c_pc' = "aborted" /\ UNCHANGED c_conf
        ELSE c_pc' = "connect" /\ c_conf' = settings
  /\ UNCHANGED <<i, total_read, response, correct, incorrect, serverSide, network>>

LoadServer ==
  /\ s_main = "load"
  /\ LET settings == load_config(given["server"].file, given["server"].env)
     IN IF settings = Thrown THEN s_main' = "down" /\ UNCHANGED s_conf
        ELSE s_main' = "listen" /\ s_conf' = settings
  /\ UNCHANGED <<s_pc, request, clientSide, network>>

Listen ==
  /\ s_main = "listen" /\ s_main' = "accept"
  /\ UNCHANGED <<s_conf, s_pc, request, clientSide, network>>

Accept ==
  /\ s_main = "accept" /\ s_pc = "backlog"
  /\ s_pc' = "read"
  /\ UNCHANGED <<s_main, s_conf, request, clientSide, network>>

\* The client is not asked where to: 127.0.0.1, and its own PORT.
Reachable == s_main = "accept" /\ s_conf["PORT"] = c_conf["PORT"]

Connect ==
  /\ c_pc = "connect"
  /\ IF Reachable THEN c_pc' = "send" /\ s_pc' = "backlog"
     ELSE c_pc' = "aborted" /\ UNCHANGED s_pc
  /\ UNCHANGED <<c_conf, i, total_read, response, correct, incorrect,
                 s_main, s_conf, request, network>>

-----------------------------------------------------------------------------

Requested == [id |-> i, page |-> i % c_conf["PAGE_COUNT"]]
MaySend == c_pc = "send" /\ i < c_conf["NUM_REQUESTS"]

\* The division by a page count of 0 traps.
Divide ==
  /\ MaySend /\ c_conf["PAGE_COUNT"] = 0
  /\ c_pc' = "killed"
  /\ ClientHangsUp
  /\ UNCHANGED <<c_conf, i, total_read, response, correct, incorrect, serverSide>>

\* A send that fails is reported, and the request given up.
Send ==
  /\ MaySend /\ c_conf["PAGE_COUNT"] > 0 /\ link["client"] # "dead"
  /\ \E res \in {2, T!Error} :
       /\ UNCHANGED toClient
       /\ T!ClientSend(<<Swap(Requested.id), Swap(Requested.page)>>, res)
       /\ IF res = 2 THEN c_pc' = "read" /\ UNCHANGED i ELSE i' = i + 1 /\ UNCHANGED c_pc
  /\ total_read' = 0
  /\ UNCHANGED <<c_conf, response, correct, incorrect, serverSide>>

SendSignalled ==
  /\ MaySend /\ c_conf["PAGE_COUNT"] > 0 /\ link["client"] = "dead"
  /\ c_pc' = "killed"
  /\ ClientHangsUp
  /\ UNCHANGED <<c_conf, i, total_read, response, correct, incorrect, serverSide>>

\* The inner loop goes on until it has the whole response.
Read ==
  /\ c_pc = "read"
  /\ \E n \in 1..T!Smaller(2 - total_read, Len(toClient)) :
       /\ toClient' = SubSeq(toClient, n + 1, Len(toClient))
       /\ T!ClientReceive(n)
       /\ total_read' = total_read + n
       /\ response' = [u \in 1..2 |-> IF u \in (total_read + 1)..(total_read + n)
                                      THEN toClient[u - total_read] ELSE response[u]]
       /\ c_pc' = IF total_read + n = 2 THEN "check" ELSE "read"
  /\ UNCHANGED <<c_conf, i, correct, incorrect, serverSide>>

\* "Connection closed by server", or an error: incomplete, and given up.
ReadEnd ==
  /\ c_pc = "read"
  /\ \E res \in {0, T!Error} : UNCHANGED toClient /\ T!ClientReceiveEnd(res)
  /\ c_pc' = "send" /\ i' = i + 1
  /\ UNCHANGED <<c_conf, total_read, response, correct, incorrect, serverSide>>

Header == response[1]
Content == response[2]

Good ==
  /\ Swap(Header.status) = SUCCESS
  /\ verify(Content, Swap(Header.page_number), c_conf["PAGE_COUNT"])

Check ==
  /\ c_pc = "check"
  /\ IF Good THEN correct' = correct + 1 /\ UNCHANGED incorrect
     ELSE incorrect' = incorrect + 1 /\ UNCHANGED correct
  /\ c_pc' = "send" /\ i' = i + 1
  /\ UNCHANGED <<c_conf, total_read, response, serverSide, network>>

\* The totals are printed, and the socket is closed.
Finish ==
  /\ c_pc = "send" /\ i >= c_conf["NUM_REQUESTS"]
  /\ c_pc' = "closed"
  /\ ClientHangsUp
  /\ UNCHANGED <<c_conf, i, total_read, response, correct, incorrect, serverSide>>

ClientStep == LoadClient \/ Connect \/ Divide \/ Send \/ SendSignalled \/ Read \/ ReadEnd
              \/ Check \/ Finish

-----------------------------------------------------------------------------

\* One read for a whole request: if it gets less, the connection is over.
HandlerRead ==
  /\ s_pc = "read"
  /\ \E n \in 1..T!Smaller(2, Len(toServer)) :
       /\ UNCHANGED toClient
       /\ T!ServerRead(SubSeq(toServer, 1, n))
       /\ request' = SubSeq(toServer, 1, n)
       /\ s_pc' = IF n = 2 THEN "answer" ELSE "close"
  /\ UNCHANGED <<s_main, s_conf, clientSide>>

HandlerReadEndAnswers ==                \* mutant: the result is not compared
  /\ s_pc = "read"
  /\ \E res \in {0, T!Error} : UNCHANGED toClient /\ T!ServerReadEnd(res)
  /\ s_pc' = IF request = <<>> THEN "close" ELSE "answer"
  /\ UNCHANGED <<s_main, s_conf, request, clientSide>>

HandlerReadEndGoesOn ==                 \* mutant: an empty read is not the end
  /\ s_pc = "read"
  /\ \E res \in {0, T!Error} : UNCHANGED toClient /\ T!ServerReadEnd(res)
  /\ UNCHANGED <<serverSide, clientSide>>

HandlerReadEnd ==
  /\ s_pc = "read"
  /\ \E res \in {0, T!Error} : UNCHANGED toClient /\ T!ServerReadEnd(res)
  /\ s_pc' = "close"
  /\ UNCHANGED <<s_main, s_conf, request, clientSide>>

FoundButLast(page_number) == page_number + 1 < s_conf["PAGE_COUNT"]    \* mutant: off by one
Found(page_number) == page_number < s_conf["PAGE_COUNT"]

Status(page_number) == IF Found(page_number) THEN SUCCESS ELSE INVALID_PAGE_NUMBER
Page(page_number) ==
  IF Found(page_number) THEN PageContent(s_conf["PAGE_COUNT"], page_number) ELSE ErrorContent

ReplyInHostOrder(id, page_number) ==    \* mutant: no header.to_network_order()
  <<[request_id |-> id, status |-> Swap(Status(page_number)), page_number |-> page_number],
    Page(page_number)>>

Reply(id, page_number) ==
  <<[request_id |-> Swap(id), status |-> Swap(Status(page_number)),
     page_number |-> Swap(page_number)],
    Page(page_number)>>

HandlerWrite ==
  /\ s_pc = "answer"
  /\ toClient' = IF link["server"] = "open"
                 THEN toClient \o Reply(Swap(request[1]), Swap(request[2])) ELSE toClient
  /\ \E res \in {2, T!Error} : T!ServerSend(res)
  /\ IF link["server"] = "dead" THEN s_main' = "killed" /\ s_pc' = "closed"
     ELSE s_pc' = "read" /\ UNCHANGED s_main
  /\ UNCHANGED <<s_conf, request, clientSide>>

HandlerClose ==
  /\ s_pc = "close"
  /\ s_pc' = "closed"
  /\ ServerHangsUp
  /\ UNCHANGED <<s_main, s_conf, request, clientSide>>

ServerStep == LoadServer \/ Listen \/ Accept \/ HandlerRead \/ HandlerReadEnd
              \/ HandlerWrite \/ HandlerClose

-----------------------------------------------------------------------------

ClientKilled ==
  /\ Connected
  /\ c_pc' = "killed"
  /\ ClientHangsUp
  /\ UNCHANGED <<c_conf, i, total_read, response, correct, incorrect, serverSide>>

\* Killed from outside, or exit(EXIT_FAILURE) in main.
ServerKilled ==
  /\ s_main \in {"listen", "accept"}
  /\ s_main' = "down" /\ s_pc' = "closed"
  /\ IF s_pc \in {"none", "closed"} THEN UNCHANGED network
     ELSE ServerHangsUp
  /\ UNCHANGED <<s_conf, request, clientSide>>

RpcNext == /\ ClientStep \/ ServerStep \/ ClientKilled \/ ServerKilled
           /\ UNCHANGED given
RpcSpec == RpcInit /\ [][RpcNext]_rpcVars

\* Both processes are scheduled.
FairRpcSpec ==
  /\ RpcSpec
  /\ WF_rpcVars(ClientStep /\ UNCHANGED given)
  /\ WF_rpcVars(ServerStep /\ UNCHANGED given)

-----------------------------------------------------------------------------

RpcTypeOK ==
  /\ c_pc \in {"load", "connect", "send", "read", "check", "closed", "aborted", "killed"}
  /\ c_conf \in [Setting -> Nat] /\ s_conf \in [Setting -> Nat]
  /\ i \in 0..c_conf["NUM_REQUESTS"]
  /\ total_read \in 0..2
  /\ correct + incorrect \in 0..i
  /\ s_main \in {"load", "listen", "accept", "down", "killed"}
  /\ s_pc \in {"none", "backlog", "read", "answer", "close", "closed"}
  /\ Len(request) \in 0..2 /\ Len(toServer) \in 0..2 /\ Len(toClient) \in 0..2
  /\ link \in [T!End -> T!Link]

(***************************************************************************)
(* The settings a process works with are those it was given: the           *)
(* environment before the last line of the file before the default         *)
(* (static_config.hpp load_config).  Only a port above 65535 is another.   *)
(***************************************************************************)
Respected(conf, source) ==
  \A key \in Setting :
    LET meant == Meant(source.file, source.env, key)
    IN conf[key] = meant \/ (key = "PORT" /\ meant >= 2^PortBits)
ConfigRespected ==
  /\ c_pc \notin {"load", "aborted"} => Respected(c_conf, given["client"])
  /\ s_main \in {"listen", "accept"} => Respected(s_conf, given["server"])

(***************************************************************************)
(* A response that the client checks is the one to the request it sent     *)
(* last, although it compares neither request_id nor page_number           *)
(* (client.cpp lines 87 to 108): partial reads never leave it in the       *)
(* middle of a response.                                                   *)
(***************************************************************************)
AnswerIsToRequest ==
  c_pc = "check" =>
    /\ Swap(Header.request_id) = i
    /\ Swap(Header.page_number) = i % c_conf["PAGE_COUNT"]

(***************************************************************************)
(* The server, which ignores no signal, is never killed by SIGPIPE, with   *)
(* all its handlers (server.cpp lines 38 and 54), however its client goes: *)
(* it never writes twice to a client that is gone.                         *)
(***************************************************************************)
ServerNeverSignalled == s_main # "killed"

(***************************************************************************)
(* The pair implements PageCalls: no response is counted for another       *)
(* request, or twice, or after the connection was lost, and an existing    *)
(* page is never taken for an incorrect one.                               *)
(***************************************************************************)
Calls == INSTANCE PageCalls
           WITH client_pages <- c_conf["PAGE_COUNT"], server_pages <- s_conf["PAGE_COUNT"],
                requests <- c_conf["NUM_REQUESTS"], calls <- i
CallsInOrder == Calls!CallsSpec

(***************************************************************************)
(* The client ends, with its totals, with an error or by a signal, and its *)
(* handler thread does not stay behind, whenever either is killed.         *)
(***************************************************************************)
ClientEnded == c_pc \in {"closed", "aborted", "killed"}
BothEnd == <>[](ClientEnded /\ s_pc \in {"none", "closed"})
=============================================================================
