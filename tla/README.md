# A verification of fast_net

fast_net measures how many pages per second two programs can exchange over TCP
with io_uring.  This directory holds TLA+ models of its programs, the TLC
configurations that check them on small instances, and proofs of some of their
properties for every instance.  Run from this directory:

    tlc -config MCSimpleClient.cfg MCSimpleClient     # any MC*.cfg with its module
    tlapm BufferUserProofs.tla                        # SimpleIouProofs takes ten minutes

Line numbers below refer to `src/src/`.

## 1. The system

### Components

| component | code | state it keeps | operations | correct when |
|---|---|---|---|---|
| `BufferPool` | buffer_pool.hpp | one vector of recycled blocks for each size | constructor, `allocate`, `deallocate`, destructor | no block has two owners, none is lost, recycled blocks have the size asked for |
| client thread | simple_iou_client.cpp `send_receive_data` | `send_index`, `recv_index`, `iterations_received`, `total_received`, its ring and its pool | two submission loops with a window each, submit, a polling reap loop, exit | the rings never overflow, buffers are left alone while the kernel has them, every page of its range is asked for once, the loop ends |
| handler thread | simple_iou_server.cpp `event_loop`, `handle_client` | its ring and its pool | post reads; on a read: answer and post it again; on a write: recycle; on end of file: return | reads are neither lost nor multiplied, each request is answered once with its page, it returns when its client is gone |
| client `main` | simple_iou_client.cpp | ranges, `total_received[]` | spawn, join, add up | the ranges partition the pages, the total misses no thread |
| server `main` | simple_iou_server.cpp | `client_num`, `finished_threads` | listen, accept and detach, poll, return | returns only after all handlers finished, and does return |
| max pair | max_client.cpp, max_server.cpp | per thread a window; one shared byte counter | send; read and count; poll to 95 % and join | every byte counted once, nothing uncounted at the end |
| blocking pair | client.cpp, server.cpp | one connection, one request at a time, two totals | send, read a whole response, check; read, answer | what is checked is the response to the last request, settings are those given, no client kills the server |
| first io_uring pair | client_iou.cpp, server_iou.cpp, io_uring_utils.hpp | per thread a batch of response buffers and a ring; the handler's stack | send and receive a batch, reap by counting; read, answer with two iovecs, read again | as many responses as requests, each to a request of its own; a finished batch leaves nothing behind; both threads end |
| configuration | static_config.hpp | static members | defaults, .env, environment, validation | each setting is the one the highest source gives |
| pages and messages | memory_block.hpp, models/get_page.hpp | a filled block | fill, verify, byte order | a page that is sent is the page that `verify` expects |
| support | utils.hpp | none | debug output, two socket options | not modelled |
| harness | exp*.py, plot*.py | a grid of build options, a results file | build, start, wait, record, plot | not modelled |

### How they interact

A client process starts `CLIENT_THREADS` threads.  Each connects to the server,
which detaches a handler thread for each connection.  A client thread sends
four-byte page numbers and receives pages; the handler answers each number with
a page.  Each of the two has a ring of its own, and hands operations to its
kernel by `io_uring_submit`; the kernel runs them in any order and posts
completions.  The only thing that travels with an operation is a pointer to a
`RequestData` block, which comes from the thread's `BufferPool`: what the
operation was, `event_type`, is read back from the block when it completes.
Handlers and server main share the atomic `finished_threads`; client threads and
client main share a vector.

The two earlier pairs speak a richer protocol on the same shape of processes: a
request is a number and a page number, a response a header (number, status, page
number) and a page, all words in network byte order.  Each process loads its own
configuration, so the two may disagree on how many pages there are.

### What is hard

* A block is in a vector, in use, with the kernel, or freed.  The kernel
  writes into it, and the thread believes what it finds there.
* `io_uring_get_sqe` returns null when the queue is full, and nobody looks.
* The send window does not count completed sends, the receive window does not
  count bytes, and the server has no window at all.
* Reads, writes, sends and receives may be short; only the client's receives
  ask for everything (`MSG_WAITALL`).
* Whoever closes first may reset the connection under the other's operations.
* `exit(EXIT_FAILURE)` in one thread ends the process with all other threads.
* Handlers are detached: a counter stands for them, and main polls it.
* The blocking client compares neither the number nor the page of a response
  with what it asked for, and nobody ignores SIGPIPE.
* The batches of client_iou are counted, not matched; completions of sends come
  in between, and are counted and uncounted.
* server_iou hands the kernel pointers to its stack.

`PROJECT.json` lists these as hazards, each with the line where it bites and the
properties about it.

## 2. The modules

    BufferPool ── BufferUser ── BufferUserProofs
        │  (implemented by: Pool, in the two below)
        ├── SimpleClient
        ├── SimpleServer ── SimpleServerProofs
    Tcp ┤        │ INSTANCE S        │ INSTANCE SP
        │        └── SimpleIou ──────┴── SimpleIouProofs
        │              (EXTENDS SimpleClient) ──(Exchange)──> PageExchange
        │  (INSTANCE T)
        ├── PageRpc (EXTENDS Config, PageData) ──(Calls)──> PageCalls
        │      └── PageRpcProofs
        └── IouPages (EXTENDS PageData) ── IouPagesProofs
    ClientMain ──┬── MainsProofs
    Processes  ──┘
    MaxThroughput ── MaxThroughputProofs

`DataLemmas` holds the facts about queues, places in queues and finite sums that
the proofs share.  A module
`MC...` gives the constants of a module for TLC, with its `.cfg`.

**BufferPool** is buffer_pool.hpp as operators over `pools` (the vectors) and
`heap` (the size each live block has): `Allocate`, `Deallocate`, `DestroyPool`.
Sizes are model values: `"req"` is `sizeof(RequestData) + 4`, `"page"` is
`sizeof(RequestData) + PAGE_SIZE * 4`.  The two are different, so `PAGE_SIZE` is
not 1 (the smallest in the scripts is 16).  malloc does not fail.  Blocks have
no order, so malloc returns a representative free one; this loses no behaviour
up to renaming.

**BufferUser** is the contract between a pool and its thread: take, hold, give
back once under the same size, leave scope.  Its properties are what the pool
promises.

**Tcp** (external) is one connection as `send`, `recv`, `read` and `close` see
it, with end of file, resets, short writes and short reads.  Data is counted in
units; requests keep their identity, pages are only counted, because that is
what the client does.

**SimpleClient** is the client thread.  `pc` is the loop it is in: `send`,
`recv`, `reap`, then `exit` and `closed`, or `failed`.  `sq`, `inflight`, `cq`
and `reaped` are its ring; `mem` is what its blocks say.  `PrepSend` and
`PrepRecv` are one turn of the submission loops, `Reap` is one completion,
`EndReap` is `io_uring_cq_advance`, the `break` and the `while` condition.
`KernelSend`, `KernelRecv` and `KernelRecvEnd` are the kernel.  `ClientSpec` has
it face `AnyServer`, which sends, reads and hangs up as it likes.

**SimpleServer** is the handler.  The code submits what it queued before it
waits again, so the submission queue is not a variable.  `HandleRead`,
`HandleInvalid` (`VERIFY`), `HandleEof` and `HandleWrite` are the branches of
the switch, each with everything it does up to `io_uring_cqe_seen`.  Under
`ServerSpec` it faces `AnyClient`.

**SimpleIou** composes the two and their kernels on one connection, by
interleaving.  `ServerDies` is another handler of the server process calling
`exit`.

**PageExchange** is what the pair promises, seen from outside: ask for pages,
answer units, receive units, within a window; finish when all pages were asked
for and all but `RING_SIZE / 2` were received.  `ExchangesPages` is the
refinement: `asked` is `send_index`, `received` is `total_received`, and what
was `answered` is that plus what is in the socket, in partly filled receives and
in completions not yet reaped.  The window turns out to be
`RING_SIZE / 4 + RING_SIZE / 2`.

**ClientMain** is `main` of the client as a computation: ranges, join, totals.
The build options are variables, so that one run covers all small builds.  A
thread that was served to the end stores its pages but for the `Early` ones it may
leave without (`Finish`); one whose connection ended counts receives of nothing as
iterations and stores what had come, perhaps nothing, and part of a page
(`FinishCut`).  The history variable `cut` remembers which.

**Processes** is the two mains with their threads, at the grain of start,
connect, accept, finish and exit.  What happens on a connection is left to
SimpleIou; a client thread that is served finishes, as `BothEnd` shows.  A thread
of the client may also end its process, for want of a socket or a ring or by a
completion with an error, at any moment and whatever the server is doing
(`ConnectFails`, `ThreadFails`); a handler that sees a client end `Closed` returns.

**MaxThroughput** is the one-way pair.  All of its sends share one buffer and
only the sign of a result is looked at, so a client's ring is three counters;
the handler posts its block again at once, so its pool plays no part.  The code's
95 % is the constant `Enough`.  `taken` and `lost` are history variables.

**Config** is `load_config` as a fold of `parse_env_line` over the lines of the
file, then the environment, then validation.  A value is the number `std::stoul`
makes of it or `NotANumber`, on which it throws; ports are narrowed to 16 bits.
`Meant` is what a reader of the file expects, written without the fold.

**PageData** is the block of pages and the words of the messages.  A word is two
digits of `Base`, and `Swap` exchanges them, so that forgetting a conversion, or
converting twice, changes a number.  The filling is the constant `Strategy`; the
programs use one value for every byte.

**PageRpc** is client.cpp and server.cpp on one connection.  `given` is the
configuration each process finds.  `Connect` fails unless the server accepts on
the client's port.  `Send`, `Read`, `ReadEnd` and `Check` are the client's loop,
`HandlerRead`, `HandlerReadEnd`, `HandlerWrite` and `HandlerClose` the handler's.
A write to a connection known to be dead is SIGPIPE: `SendSignalled`, and the
second case of `HandlerWrite`.  Either process may be killed at any moment.

**PageCalls** is what that pair promises: calls one after the other, the outcome
of each given by its own number and the two page counts; once a call is lost, so
are all that follow.  `CallsInOrder` is the refinement.

**IouPages** is one thread of client_iou and its handler in server_iou.  `sends`
and `recvs` are what the client's kernel still has, `j` counts the responses of
the batch; `reads` and `writes` are what the handler's kernel still has.  `stack`
is the handler's response and the iovec array that a found page points to: a
queued write reads it when the kernel gets to it (`OnStack`), because both rings
have SQPOLL.  That response and iovecs keep their place on the stack from one
turn of the loop to the next is an assumption about the compiler, and a usual one.
There are three ways to start: the connection stands (`Posted`); `setup_socket`
returned -1, and the thread returns before it sends anything (`NotConnected`); or
`connect` was under way (`EINPROGRESS`) and is refused, which the client learns when
its first operation fails (`Refused`).

Operators marked `mutant` in the modules are versions of the definition below
them with a plausible bug; each property of a passing run is violated under one
of them.

## 3. What the runs show

| run | instance | checked |
|---|---|---|
| `pool` | 6 blocks, 3 sizes of which 2 are managed, vectors of 2 | `UserTypeOK`, `NoAliasing`, `BlocksFit`, `NoLeak` under the contract |
| `client` | ring 4, 3 requests, pages of 2 units | `ClientTypeOK`, `SqeAvailable`, `PagesRequestedOnce`, `BuffersStable`, and `UsesPool`: the thread implements BufferUser |
| `server` | ring 8 (2 reads), 2-unit words and pages, socket of 3 units, VERIFY | `ReadsKeptPosted`, `DispatchedByOp`, `AnswersStable`, `UsesPool`, `HandlerReturns` |
| `iou` | ring 4, 4 requests | `CqNeverOverflows`, `RequestsConserved`, and `ExchangesPages`: the pair implements PageExchange |
| `iou_live` | ring 4, 3 requests, socket of one page, server may die | `ClientEnds`, `BothEnd` |
| `client_main` | all builds of the MC module | `RangesPartition`, `TotalAccountsForAll` |
| `processes` | 3 threads, clients and server failing at any moment | `ProcessTypeOK`, `NoHandlerCutOff`, `CountsAgree`, `ServerEnds`, `ClientProcessEnds` |
| `max` | 2 threads, 5 requests, ring 2, short sends, breaks | `MaxTypeOK`, `UnitsConserved`, `AllCountedAtEnd`, `AllSent`, `MaxServerEnds` |
| `blocking` | 8 configurations on each side, at most 3 requests, kills | `ConfigRespected`, `AnswerIsToRequest`, `ServerNeverSignalled`, `BothEnd`, and `CallsInOrder`: the pair implements PageCalls |
| `iou_pages` | batches of 2 and 1, 2 reads, a page that the server does not have | `IouTypeOK`, `ResponseUnitsBalance`, `BuffersSettle`, `BothEnd` |

Two runs end in a violation of something the code says of itself:

* `short_write`, `WritesComplete`.  "Write complete" (simple_iou_server.cpp:106)
  is said of any write; its result is not looked at.  A short one loses the rest
  of the page, and all later pages are out of step.
* `stack_race`, `AnswersDistinct`.  `event_loop` of server_iou.cpp submits writes
  from its stack (88, 94) and goes on; the kernel thread of SQPOLL
  (io_uring_utils.hpp:9) reads the stack later.  In the run two writes send the
  second response, and the client counts both as correct (client_iou.cpp:205)
  although the first request was never answered.  `ResponseUnitsBalance` holds all
  the while: it is about numbers.  Nothing notices: the client
  compares no numbers, and every byte of every page is 0xAA (memory_block.hpp:32).

### Observations

What the models say beside the properties:

* The client's loop ends when all receives are *submitted*
  (simple_iou_client.cpp:107); the code for "recvs for the remaining bytes" (160)
  is commented out.  Up to `RING_SIZE / 2` pages of each thread are never
  received; `ExchangesPages` shows that it is never more.
* The handler tells only a result of 0 from a request (simple_iou_server.cpp:73).
  When the client leaves with pages unread, the connection is reset, a read fails
  with ECONNRESET, and is answered with the page number that an earlier read left
  in its buffer.  `ReadsKeptPosted` shows that this costs no read.
* `1u * NUM_REQUESTS * PAGE_SIZE` wraps (simple_iou_client.cpp:365).  With the
  largest page of exp.py:13 and the requests of exp.py:16 it is exactly 2^32, and
  0 bytes are expected.  `TotalAccountsForAll` says what is expected only of builds
  that do not wrap; of the total received it speaks for all.
* A thread whose server went away ends normally, with less than its share
  (simple_iou_client.cpp:241 counts a receive of nothing): the total is then short by
  any amount up to that thread's share, and nothing else tells.
* max_server prints "All data received" (157) at 95 %, by `EndPoll`.  max_client
  counts a short send as completed, so that main of the server may poll for ever
  once more than 5 % was lost: the last disjunct of `MaxServerEnds`.
* client_iou.cpp:41 gives `inet_pton` the setting HOST, by default the name
  "localhost" (static_config.hpp:108), and does not look at its result: the
  address stays 0.0.0.0, which happens to mean this host.
* With a liburing older than 2.2 `io_uring_prep_*` clears the user data, which
  client_iou.cpp (68, 69 and 83, 84) sets first.  The models take the newer one.
* A request of the blocking pair that arrives in two pieces (server.cpp:18) ends
  the connection; a short receive of client_iou (84) counts as a response, and
  what follows is out of step.  Both threads still end: `BothEnd`.
* A port above 65535 in the configuration becomes another port, the exception
  that `ConfigRespected` names.  PAGE_COUNT 0 is accepted, and the client divides
  by it after it connected (client.cpp:59).

### Bounds

* *Ring 4* is the smallest ring in which both windows are open (1 and 2).  Four
  requests are one more than both windows hold, so the last is sent only after
  a page came back; with three, both windows are closed at least once.  The
  windows are ratios of the ring, so a larger ring adds operations in flight and
  no new case; the server needs ring 8 to have two reads, which can overtake
  each other.
* *Units.*  Two units are enough for a partial read, write or receive.  `iou` and
  `iou_live` have one, so that the four requests fit in a few minutes; partial
  transfers are checked thread by thread, against any peer.
* *Blocks.*  In the instances of SimpleClient, SimpleServer and SimpleIou a block
  is free or pooled whenever one is allocated, so `Addr` cuts nothing off.  In
  `pool` its six blocks bound what the user may hold.
* `MaxRequests` bounds what `AnyClient` sends.
* `Parts` is how many bytes of a page may have come when a connection ended: none,
  and some.
* *Blocking pair.*  Three requests for two pages ask for one page twice and, with
  a smaller server, meet a page that is not there.  The eight sources have a file
  that contradicts itself, an environment that overrides it, a port that wraps and
  one that wraps to 0, a page count of 0, and a value that is not a number; every
  pair of them is an initial state.  `Base` 32 holds 400, and `Swap` is not the
  identity on any number used but 0 and multiples of 33.
* *Batches.*  A batch of two and one of one: a completion of a send can be left
  over for the next batch, and a batch can be shorter than `BATCH_SIZE`.  Two
  reads are as many as a batch, so that one must be posted again for the third
  request.
* CHECK_DEADLOCK is FALSE wherever the program ends, which all of these do.

### Fairness

Weak fairness of each thread: the operating system schedules it, and its steps
stay enabled until taken.  In `iou_live`, `server` and `iou_pages` also weak fairness
of a kernel's sends, of its reads or receives and of its writes, each as a whole:
io_uring gets on with the operations it was given, but of two that compete for
the same data either may be passed over.  In PageRpc the calls block, and the
fairness of the two threads is all there is.  Nothing is assumed of `AnyClient`
or `AnyServer`, of `ServerDies`, `ClientDies`, `ClientKilled`, `ServerKilled`,
`Break`, `ThreadFails`, `HandlerExits`, `ListenFails` or `AcceptFails`: they may
never happen.

## 4. What is proved

All for every value of the constants that satisfies the named assumptions.

* **DataLemmas**.  What a queue holds after `Append` and `Tail`, and how many of its
  places have a property (`PlacesIn`); induction over the numbers, with the
  induction property as a *set* (`Induction`, from the well-founded minimum of the
  library: its own induction theorem takes an operator, which no prover here can
  instantiate); and from it what `MapThenSumSet` computes: `SumExists` that the
  recursion has a solution on every finite set, `SumTakesAny` that the order does not
  matter, then how a sum changes with its terms (`SumReplaced`), how it telescopes
  (`SumOfSteps`) and how two compare (`SumCompare`).  The rest of the proofs add,
  count and fold with these.
* **BufferUserProofs**, `PoolKeepsPromises`: `UserSpec => []Inv`, and from it
  `PoolTypesHold`, `PoolNeverAliases`, `PoolNeverLeaks` and `PoolBlocksFit`, for any
  blocks, sizes and capacity, with and without `ALLOCATE_MALLOC`.  `Inv` conjoins the
  type invariant, `NoAliasing`, `BlocksFit`, `NoLeak` and `WithinCapacity`.  They are
  inductive only together: that a fresh block of malloc aliases nothing needs
  `BlocksFit` (what is pooled or held is not free), and that what is freed is
  reachable from nowhere else needs `NoAliasing`.  Assumed: `PoolAssumption`, and
  `EnoughBlocks`, that is, the constructor's mallocs succeed.
* **SimpleServerProofs**, the handler alone: `HandlerUsesPool`, `HandlerDispatches`,
  `HandlerKeepsReads` and `HandlerAnswersStable`, from `ServerInv`, against any
  client: no two operations of its ring share a block (`Apart`), each block says what
  its operation is (`TypesOK`), `ReadsOK` counts the reads while they are posted and
  afterwards, and the pool's invariant holds of what is outstanding.  Circular at
  first sight, as the pool keeps its promises only to those who keep the contract,
  and the contract is kept only while `event_type` can be believed; so every step of
  the handler is shown to be a step of BufferUser, and the conjuncts are proved
  together.  Assumed: `ServerAssumption`, `TcpAssumption`, and those of the pool.
* **SimpleIouProofs**, first the client alone.  `SqeAlwaysAvailable`, for any ring of
  at least four entries and any server: `SqBound` says how much each loop may still
  add to the queue, in the send loop at most what it moved `send_index` ahead of
  `recv_index`, in the receive loop at most what it moves `recv_index` back up to it,
  hence never more than half a ring in one pass; and `Submit` empties the queue.
  `ClientIsSound` is `ClientInv`, built like `ServerInv`, with `PagesOK`: each request
  outstanding is for a page of its own.  From it `ClientUsesPool` (the refinement),
  `ClientWellTyped`, `ClientRequestsOnce` and `ClientBuffersStable`, the last for every
  block from the turn that queues it to the one that looks at its completion.  Assumed:
  `ClientAssumption`, `TcpAssumption`, and those of the pool.
* **SimpleIouProofs**, then the pair, for any ring, any number of requests and any
  division of pages into units.  `SidesOK` is what each side keeps whatever the other
  does: the two invariants above, carried over to the composition.
  * `PairConservesRequests`, `RequestsConserved`.  `Conserved` adds what only the two
    together keep: the connection closes in one order (`LinkOK`), no operation fails
    before (`ResultsOK`), every request sent is in exactly one place and an answer is
    queued only for a request read (`CountOK`), each page is under way once
    (`PagesUnique`).
  * `QueuesNeverOverflow`, `CqNeverOverflows`.  The client's own queue is bounded by
    its windows (`WindowsOK`).  The handler has none: `QueueOK` says, for *every* place
    of its completion queue, that the requests before it and the answers from there
    on, with those that are queued, fit the client's windows, which is what remains
    true while reads are turned into writes and come back at the end of the queue;
    `WorkOK` says the same of requests it may still read.  The case that a test would
    hardly meet is a client that leaves with pages unread: the reset is one more
    completion for the handler, and there is room for it because data that was not
    read means a page that was not received.
  * `PairExchangesPages`, the refinement of PageExchange.  `PagesBack` is that the
    client counts whole pages, `UnitsOK` that what is on its way back is no more than
    a page for each answer sent; the window of PageExchange follows from `WindowsOK`,
    and each step of the pair is an ask, an answer, a receipt, the finish, or none.

  The three have the hypothesis `RequestUnits = 1`: the four bytes of a request are
  read at once.  Without it they are false of this code, which takes each piece of a
  request for a request (SimpleServer models that; the `server` run has two units).
* **MainsProofs**.  `ThreadsPartitionPages` and `TotalsAgree`, for any number of
  requests and of threads under `MainAssumption`: the k-th range is what the spawn
  loop computes, so the sizes of the ranges are differences of neighbours and the
  total telescopes, whatever order the threads end in; what it may fall short by is a
  sum over the threads, of the slack of those that were served and the shares of those
  that were cut off (`ThreadStored`).  `ProcessTypesHold`,
  `CounterStandsForHandlers` and `ServerWaitsForHandlers`, for any number of threads:
  `CountsAgree` needs `BacklogOK`
  (a connection waits once, and only before it has a handler), and `NoHandlerCutOff`
  needs `ServedOK` and `MainsOK`, which say what each state of the two mains implies.
* **MaxThroughputProofs**, `MaxTypesHold`, `UnitsCountedOnce` and `JoinCountsAll`, for
  any threads, ring and number of requests.  `MaxInv` says for each thread what its
  state implies of its counters, its connection and its handler (`StatesOK`,
  `CountsOK`, `LinksOK`), and that nothing follows the end of a stream in a
  completion queue (`EndsOK`).  Two balances go with it, each a sum over the threads of
  which a step changes the terms of one: what was taken and what was lost is what was
  sent (`SendsCounted`); what was counted, what the streams hold and what the
  completions report is what was taken, or less where a connection broke
  (`UnitsHeld`).
  Assumed: `MaxAssumption`.
* **PageRpcProofs**.  `LoadedAsMeant`: `load_config` throws, or returns the settings
  that `Meant` names, for any file and any environment.  The settings after a set of
  lines have a closed form (`Said`), which takes one line more as `parse_env_line`
  does (`SaidNext`); so it solves the recursion of the fold, and by induction is what
  the fold computes (`FoldIs`).  `ProcessesRespectConfig` is `ConfigRespected`, as nobody
  writes to a configuration afterwards.  `OneRequestUnderWay`: `RpcSpec => []RpcInv`,
  for any two configurations.  `OneOutstanding` says how much of one request and one
  response is in which buffer, `SameRequest` what it says, `LinkOK` what the two ends
  may know of each other.  From it `ServerOutlivesClients`, and
  `ResponsesBelongToRequests` where request numbers fit in a word (`SwapTwice` is
  the lemma that two conversions cancel).  `PairImplementsCalls` is the refinement
  of PageCalls, for any page size and any filling, from `CallsInv`: a configuration
  is loaded before anything is asked, what is under way is the outcome PageCalls
  gives the call (`OutcomeOK`), and as long as anything is under way no call was
  lost.  Assumed: `PageDataAssumption`, `ConfigAssumption` (which includes that
  `2^PortBits` is positive, since the provers know nothing of powers),
  `SourcesAssumption` (a file is lines, an environment values, of any kind) and, as
  a hypothesis of the refinement, `WordsHold`.
* **IouPagesProofs**, for any batch size, ring and server.  `BatchesSettle`:
  `receive_responses` knows neither which receive a completion is of nor whether it
  belongs to this batch.  That counting is enough is `Counting`: while a batch is
  reaped, what was counted, what the kernel still has and the receives among the
  completions not yet seen add up to the batch; between batches there are none.
  `ResponsesBalance`, `ResponseUnitsBalance`: `Conserved` balances two units for each
  request that reached the handler and was answered against those on their way and
  those in all buffers, a sum over the requests; `Load` bounds the handler's
  operations by its reads and by the requests, with a reset standing for one more.
  That each response answers the request it is counted for is not proved: it is
  false (`stack_race`).
  `PagesTypesHold` needs `Load`, since the bounds of `IouTypeOK` on `reads` and
  `writes` say that no operation is posted twice.  Assumed: `IouPagesAssumption`.

Every safety property and all four refinements (`UsesPool` of the client and of the
handler, `ExchangesPages`, `CallsInOrder`) are proved.  Only model-checked: liveness
(`ClientEnds`, `BothEnd`, `HandlerReturns`, `ServerEnds`, `ClientProcessEnds`, `AllSent`,
`MaxServerEnds`), which rests on fairness and ENABLED, out of these provers' reach.

## 5. What is not modelled, and why

* Builds with `RING_SIZE` below 4 (the send window is empty and the client spins
  for ever) are excluded by `ClientAssumption`.
* `VERIFY 1` in the client: `recvs.push_back(*data)` copies a struct with a
  flexible array member, without the array, and the end applies `delete[]` to
  a member array.  This is undefined, and no behaviour is derived from it.
* `io_uring_queue_init`, `malloc` and `accept` succeed, except where an action says
  otherwise (`ThreadFails`, `HandlerExits` and `AcceptFails` of Processes);
  `event_type` has no third value and no completion has null data, since every block
  is written before it is submitted.
* A send of a request is never short.  In IouPages a request is also read whole,
  and a response written whole: all responses of a run fit the socket buffers.  A
  short write of server_iou would lose data as in `short_write`.
* HOST and LOGGING_LEVEL, comments and blanks of the .env file: no model tells
  them apart.  CLIENT_THREADS 0, by which main of client_iou divides (176), ends
  the process before there is a thread.
* `main` of client_iou: its ranges and its join are those of ClientMain.
* utils.hpp is debug output and two socket options on which no result depends.
* The sources that CMakeLists.txt does not build any more (58 to 68 are commented
  out) are modelled as they stand.
* The scripts (exp.py, exp_server.py, exp_client.py, plot*.py) start programs one
  after the other, wait for fixed times and look for words in their output.  They
  keep no state but a results file.
* Counters do not wrap, except where a property is about it.
* If a client process dies before all its threads connected, the server stays in
  `accept` for ever.  `ServerEnds` promises nothing there, and the model allows
  it; it promises the end when they die after the last connect, in the backlog or while
  they are served.

## 6. Plan

Done: all four pairs of programs with their mains, the pool, the configuration and
the pages; every safety property of a run and every refinement proved for all values
of the constants.

What remains:

1. the client with `VERIFY 1`, once its sort and its `delete[]` have a defined
   meaning;
2. short requests in IouPages, which need words of two units and multiply its
   states;
3. the pair with requests in pieces: what a client may still rely on when the
   handler answers every piece.
