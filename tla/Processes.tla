------------------------------ MODULE Processes ------------------------------
(***************************************************************************)
(* The two processes: main of src/simple_iou_server.cpp, which accepts as  *)
(* many clients as it was built for, detaches a handler thread for each,   *)
(* and polls a counter until all have finished; and main of                *)
(* src/simple_iou_client.cpp with its threads.  What client and handler    *)
(* threads do on their connection is left out (SimpleIou): a client        *)
(* thread that is served finishes, and its handler after it.               *)
(*                                                                         *)
(* exit(EXIT_FAILURE) in any thread ends its process, whose connections    *)
(* the kernel closes.                                                      *)
(***************************************************************************)
EXTENDS Integers, Sequences, FiniteSets

CONSTANT ClientThreads   \* CLIENT_THREADS, the same in both builds

ASSUME ProcessAssumption == ClientThreads \in Nat \ {0}

VARIABLES
  client,            \* main of the client: "spawn", "join", "done" or "failed"
  thread,            \* thread[i]: "new", "connect", "run" or "done"
  server,            \* main of the server
  backlog,           \* connections established and not yet accepted
  client_num,        \* clients accepted
  handler,           \* handler[i]: the handler of client thread i
  finished_threads   \* the atomic counter

processVars == <<client, thread, server, backlog, client_num, handler, finished_threads>>

Threads == 1..ClientThreads
ClientUp == client \in {"spawn", "join"}
Listening == server \in {"accept", "poll"}
ServerUp == server \in {"init", "accept", "poll"}

ProcessTypeOK ==
  /\ client \in {"spawn", "join", "done", "failed"}
  /\ thread \in [Threads -> {"new", "connect", "run", "done"}]
  /\ server \in {"init", "accept", "poll", "done", "failed"}
  /\ backlog \in Seq(Threads)
  /\ client_num \in 0..ClientThreads
  /\ handler \in [Threads -> {"none", "run", "returned", "finished"}]
  /\ finished_threads \in 0..ClientThreads

ProcessInit ==
  /\ client = "spawn" /\ thread = [i \in Threads |-> "new"]
  /\ server = "init" /\ backlog = <<>> /\ client_num = 0
  /\ handler = [i \in Threads |-> "none"] /\ finished_threads = 0

-----------------------------------------------------------------------------

\* Mutant of Closed: a reset by a process that died is not noticed.
ClosedInOrder(i) == thread[i] = "done"

\* A connection of thread i whose client end has closed, or died.
Closed(i) == thread[i] = "done" \/ ~ClientUp

Spawn(i) ==
  /\ client = "spawn" /\ thread[i] = "new" /\ \A j \in 1..(i - 1) : thread[j] # "new"
  /\ thread' = [thread EXCEPT ![i] = "connect"]
  /\ client' = IF i = ClientThreads THEN "join" ELSE client
  /\ UNCHANGED <<server, backlog, client_num, handler, finished_threads>>

\* setup_socket: the kernel accepts for a server that listens.
Connect(i) ==
  /\ ClientUp /\ thread[i] = "connect" /\ Listening
  /\ thread' = [thread EXCEPT ![i] = "run"]
  /\ backlog' = Append(backlog, i)
  /\ UNCHANGED <<client, server, client_num, handler, finished_threads>>

ConnectRetries(i) ==                    \* mutant: no exit, try again
  ClientUp /\ thread[i] = "connect" /\ ~Listening /\ UNCHANGED processVars

\* make_client_sock: a thread that gets no socket, or is refused, ends the
\* process.
ConnectFails(i) ==
  /\ ClientUp /\ thread[i] = "connect"
  /\ client' = "failed"
  /\ UNCHANGED <<thread, server, backlog, client_num, handler, finished_threads>>

\* send_receive_data returns: its connection was accepted, and served, or is
\* gone with the server.
ThreadDone(i) ==
  /\ ClientUp /\ thread[i] = "run" /\ (handler[i] = "run" \/ ~ServerUp)
  /\ thread' = [thread EXCEPT ![i] = "done"]
  /\ UNCHANGED <<client, server, backlog, client_num, handler, finished_threads>>

\* No ring, or a completion with an error, at whatever moment: the process
\* ends, wherever its other threads are.
ThreadFails(i) ==
  /\ ClientUp /\ thread[i] = "run"
  /\ client' = "failed"
  /\ UNCHANGED <<thread, server, backlog, client_num, handler, finished_threads>>

JoinAll ==
  /\ client = "join" /\ \A i \in Threads : thread[i] = "done"
  /\ client' = "done"
  /\ UNCHANGED <<thread, server, backlog, client_num, handler, finished_threads>>

-----------------------------------------------------------------------------

Listen ==
  /\ server = "init" /\ server' = "accept"
  /\ UNCHANGED <<client, thread, backlog, client_num, handler, finished_threads>>

\* socket, bind or listen fails.
ListenFails ==
  /\ server = "init" /\ server' = "failed"
  /\ UNCHANGED <<client, thread, backlog, client_num, handler, finished_threads>>

\* The thread is started and detached in the same turn of the loop.
Accept ==
  /\ server = "accept" /\ client_num < ClientThreads /\ backlog # <<>>
  /\ backlog' = Tail(backlog)
  /\ client_num' = client_num + 1
  /\ handler' = [handler EXCEPT ![Head(backlog)] = "run"]
  /\ UNCHANGED <<client, thread, server, finished_threads>>

StopAccepting ==
  /\ server = "accept" /\ client_num >= ClientThreads
  /\ server' = "poll"
  /\ UNCHANGED <<client, thread, backlog, client_num, handler, finished_threads>>

\* Mutant of HandlerReturns: the counter goes up before event_loop is called.
HandlerCountsFirst(i) ==
  /\ ServerUp /\ handler[i] = "run"
  /\ finished_threads' = finished_threads + 1
  /\ UNCHANGED <<client, thread, server, backlog, client_num, handler>>

\* event_loop returns at end of file; io_uring_queue_exit; then the counter.
HandlerReturns(i) ==
  /\ ServerUp /\ handler[i] = "run" /\ Closed(i)
  /\ handler' = [handler EXCEPT ![i] = "returned"]
  /\ UNCHANGED <<client, thread, server, backlog, client_num, finished_threads>>

HandlerFinishes(i) ==
  /\ ServerUp /\ handler[i] = "returned"
  /\ handler' = [handler EXCEPT ![i] = "finished"]
  /\ finished_threads' = finished_threads + 1
  /\ UNCHANGED <<client, thread, server, backlog, client_num>>

\* accept returns an error.
AcceptFails ==
  /\ server = "accept" /\ client_num < ClientThreads
  /\ server' = "failed"
  /\ UNCHANGED <<client, thread, backlog, client_num, handler, finished_threads>>

\* No ring, or VERIFY: event_loop returns false.
HandlerExits(i) ==
  /\ ServerUp /\ handler[i] = "run"
  /\ server' = "failed"
  /\ UNCHANGED <<client, thread, backlog, client_num, handler, finished_threads>>

\* Mutant of Shutdown: off by one.
ShutdownEarly ==
  /\ server = "poll" /\ finished_threads + 1 >= client_num
  /\ server' = "done"
  /\ UNCHANGED <<client, thread, backlog, client_num, handler, finished_threads>>

\* The poll loop ends, main returns, and with it the process.
Shutdown ==
  /\ server = "poll" /\ finished_threads >= client_num
  /\ server' = "done"
  /\ UNCHANGED <<client, thread, backlog, client_num, handler, finished_threads>>

-----------------------------------------------------------------------------

ClientStep ==
  \/ \E i \in Threads : Spawn(i) \/ Connect(i) \/ ConnectFails(i) \/ ThreadDone(i)
  \/ JoinAll

ServerStep ==
  \/ Listen \/ Accept \/ StopAccepting \/ Shutdown
  \/ \E i \in Threads : HandlerReturns(i) \/ HandlerFinishes(i)

ProcessNext == ClientStep \/ ServerStep
ClientFails == \E i \in Threads : ThreadFails(i)
ServerFails == ListenFails \/ AcceptFails \/ \E i \in Threads : HandlerExits(i)

ProcessSpec ==
  ProcessInit /\ [][ProcessNext \/ ClientFails \/ ServerFails]_processVars

\* The threads of both processes are scheduled, and a connect returns one way
\* or the other.  What may fail need not.
ProcessFairness ==
  /\ \A i \in Threads :
       /\ WF_processVars(Spawn(i))
       /\ WF_processVars(Connect(i) \/ ConnectFails(i))
       /\ WF_processVars(ThreadDone(i))
       /\ WF_processVars(HandlerReturns(i) \/ HandlerFinishes(i))
  /\ WF_processVars(JoinAll)
  /\ WF_processVars(Listen \/ Accept \/ StopAccepting \/ Shutdown)

FairProcessSpec == ProcessSpec /\ ProcessFairness

-----------------------------------------------------------------------------

(***************************************************************************)
(* main of the server returns, and so ends the process and its detached    *)
(* threads, only when every client thread was served to the end: no        *)
(* handler is cut off, and the counter stands for handlers that finished.  *)
(***************************************************************************)
NoHandlerCutOff ==
  server = "done" =>
    \A i \in Threads : handler[i] = "finished" /\ (client # "failed" => thread[i] = "done")

(***************************************************************************)
(* The counter never runs ahead of the handlers, nor they of the accepted  *)
(* clients: what the poll loop compares is consistent at any moment.       *)
(***************************************************************************)
CountsAgree ==
  /\ finished_threads = Cardinality({i \in Threads : handler[i] = "finished"})
  /\ client_num = Cardinality({i \in Threads : handler[i] # "none"})
  /\ finished_threads <= client_num

(***************************************************************************)
(* A server that accepted all its clients ends, whether they finish or     *)
(* their process dies, before a connection of it was accepted or while it  *)
(* is served.  With a client fewer the server waits in accept for ever.    *)
(***************************************************************************)
ServerEnds == client_num = ClientThreads ~> server \in {"done", "failed"}

(***************************************************************************)
(* A client process never outlives its server without noticing: it ends    *)
(* too, whether the server was done, failed or was never there, although   *)
(* none of its threads need fail.                                          *)
(***************************************************************************)
ClientProcessEnds == <>(client \in {"done", "failed"})
=============================================================================
