# Verification of the C++ network library and file server

TLA+ models of the multi-reactor network library under `src/mymuduo`, the HTTP
layer under `src/http` and the file-sharing application under
`src/application`, with TLC runs on small instances and TLAPS proofs for every
instance.

## 1. Inventory

| Part | State | Operations | Talks to | Hard behaviour | What makes it correct |
|---|---|---|---|---|---|
| `EventLoop` | task list, `tid`, `callingfunctor`, eventfd | `loop`, `runOneFunc`, `queueOneFunc`, `doToDoList`, `handleWakeup` | any thread (push + eventfd), epoll | push racing the swap and `epoll_wait`; flag read outside the lock | no lost wakeup; each functor once, in order, on the loop's thread |
| `Server`, `Acceptor`, `EventLoopThreadPool` | `connections` by descriptor, `next_` | accept, `NewConnection`, `DeleteConnection`, `HandleCloseInMainReactor` | sub loops through functors | map read by sub threads without a lock; descriptors re-used | an entry is the live owner of its descriptor; a close is handled once |
| `Connection` life cycle | `state`, `shared_ptr` count, `Channel::inEpoll` | `ConnectionEstablished`, `HandleClose`, `connectionDestroyed`, destructor | own loop, main loop | sub → main → sub hand-over; close on two threads | no event for a destroyed object; destroyed once; descriptor returned |
| `Connection` output | `sendBuffer`, EPOLLOUT interest | `Send`, `WriteNonBlocking`, `SendFile`, `SendFileRange`, `shutdown` | kernel socket, HTTP layer | partial writes, `sendfile` bypassing the buffer, close with data left | bytes leave in order and completely |
| Input and HTTP parsing | `readBuffer`, `HttpContext` | `Read`, `ParseIncremental`, `onMessage`, `onRequest` | peer segments, handlers | segment boundaries, pipelining, partial uploads, limits | each request handed over once, in order, with its own body |
| `TimerQueue` | `timers_`, timerfd, `active_timers_` | `AddTimer`, `HandleRead`, `ResetTimers` | loop thread (and others, unlocked) | one timerfd for all timers; add during iteration; late loop | the timerfd is armed for the earliest timer; every timer fires |
| `AsyncLogging` | current/next buffers, full list | `Append`, back-end loop, `Stop` | log file | double buffering, spare buffers, stop | no line lost, repeated or overtaken |
| `ThreadPool` | queue, stop flag | `add`, worker loop, destructor | callers | notification after the unlock, stop condition | a queued task runs |
| `Buffer` | vector, read and write index | append, retrieve, prepend, `readFd` | connection | unsigned index arithmetic, moving and growing | the reader finds what was put in |
| Route trie, `Range` header, query string | routes; one download; – | `addRoute`, `findRoute`; `parse`, `readNextChunk`; `SetUrl` | HTTP layer, file handlers | overlapping routes; boundaries | agrees with a reference definition |
| Upload, download, shares, accounts | per-connection contexts, MySQL rows, files | handlers of `Router.cpp` | one MYSQL handle, one directory | check-then-use over several queries, refused statements, disconnect and crash between steps | rows name complete files; content goes only to who may read it |

The parts meet in five places. Loops hand each other functors (`LoopTasks`,
taken as one step in `ConnectionLifecycle`). The socket's bytes become requests
(`HttpInput`, whose requests are what `ConnectionOutput` and `FileService`
begin with). Answers become bytes (`ConnectionOutput`). The write-complete
callback pulls the chunks of a download (`FileDownload`, whose chunks are the
units of `ConnectionOutput`). Handlers on different loops share the database
handle and the directory (`FileService`).

## 2. Plan

All of it is carried out, except what section 7 names.

1. `ConnectionLifecycle` with the abstract `ConnectionService` – accept to
   descriptor re-use over several reactors. *(checked; safety and the
   refinement proved unless the inactivity timer closes on a foreign loop)*
2. `LoopTasks` with the abstract `TaskExecutor`. *(checked and proved)*
3. `ConnectionOutput` with the abstract `AnswerStream`. *(checked; safety
   proved: EPOLLOUT interest for every mix of answers, order and completeness
   for messages, completeness of a first answer of any kind)*
4. `HttpInput` – reading and incremental parsing. *(checked; safety proved)*
5. `FileService` with the abstract `FileStore` – the handlers over the shared
   handle. *(checked; rows, access, contents of uploads and the refinement of
   `FileStore` proved)*
6. `AsyncLogging`, `TimerQueue`, `ByteBuffer`, `FileDownload`, `RouteTrie`,
   `QueryString` *(checked; safety proved)*; `WorkerPool` *(checked)*.

Left for later, in order of value: deferred responses; the start-up of loop
threads.

## 3. Modules

### ConnectionLifecycle
Thread 0 is the main reactor, threads 1..`NumLoops` the sub reactors. A step is
what one thread does between two accesses to memory another thread can touch.

| Model | Code |
|---|---|
| `connections`, `next` | `Server::connections`, `EventLoopThreadPool::next_` |
| `state`, `own`, `fdOf`, `inEpoll` | `Connection::state`, `loop`, `fd`; `Channel::inEpoll` |
| `live`, `Held`, `Settle` | `shared_ptr` counts: an object without a reference is destroyed at the end of the step, which closes its descriptor |
| `epoll`, `backlog`, `edge`, `eof` | kernel: registrations, accept queue, unreported events, closed peers |
| `phase`, `active`, `tasks`, `batch`, `ran`, `wake` | `EventLoop::loop`: `ActiveEvents`, `tasks`, `funcs` and the position in it, the eventfd |
| `closing` | a thread between the two statements of `HandleClose` |
| `Poll`, `HandleWakeup`, `HandleConnEvent`, `SwapTasks`, `EndTasks` | `EventLoop::loop`, `Epoll::poll`, `Channel::handleEvent`, `doToDoList` |
| `Accept`, `AcceptFails` | `Acceptor::acceptConnection` and `Server::NewConnection` |
| `RunEstablish`, `RunDelete`, `RunDestroy` | the three functors |
| `HandleTimer` | `HttpServer::ActiveCloseConn` |

`RacyLookup` gives the unlocked `connections[fd]` of `Server.cpp:41` its benign
outcomes: found, or missed while main is about to change the map. A torn
read that crashes the process is not modelled.

### ConnectionService
The promise: a client waits, is admitted on a descriptor nobody else holds, its
connection opens at most once, closes at most once, and only then is the
descriptor returned. `ConnectionLifecycle` implements it under the mapping
`StageOf` and the lease held by live objects.

### ConnectionInvariant
The inductive invariant of `ConnectionLifecycle`, kept apart from the system it
is about. It follows a connection through the task lists: a *slot* is a
position of a pending functor, in a thread's list or in the part of its batch
not yet run. The conjuncts are named: `SlotInv` (a functor still to run finds
what it was queued for), `UniqueInv` (no functor is pending twice), `HeldInv`
(references keep objects alive), `MapInv` (map, descriptors and owners),
`EpollInv` (registrations), `LoopInv` (what a loop is handling) and `RestInv`.
Together they are `CoreInv`; `LiveInv` adds that every object has a reference
left, which is what returns a descriptor as soon as the last one is gone.
`Life_safety` checks both as `Inv` without the inactivity timer and
`Life_single` with it, before the proofs use it. `ClosesAtHome` is what they need: the timer,
which closes connections on the main loop, is off or that is the only loop, as
it is in an `HttpServer` whose `SetThreadNums` is not called.

### LoopTasks and TaskExecutor
`LoopTasks` splits `queueOneFunc` into the push under the lock and the write of
the eventfd, and `doToDoList` into setting the flag, swapping and running. It
justifies taking `Queue` as one step in `ConnectionLifecycle`. `Garbage` is what
the uninitialised `EventLoop::tid` may hold: anything, in the run the id of a
producer and that of the loop's thread among it. A producer that finds its own
id there takes the branch of `Hand` that runs the functor on the spot (`astray`);
`OneThread` says that this ends when `loop()` begins. `Nested` are the functors
that a functor queues on its own loop, which nobody wakes for them: `QueuedRuns`
promises them a run unless the loop stays in `epoll_wait` for ever.
`TaskExecutor` is a FIFO executor; `queue` is mapped to `funcs \o tasks`.

### ConnectionOutput
One established connection on its loop's thread. A step is one system call of
that thread, because the peer and the kernel act between two of them.

| Model | Code |
|---|---|
| `state`, `sendBuffer`, `callback` | members of `Connection` (`writeCompleteCallback`) |
| `writing` | EPOLLOUT in `Channel::events` |
| `context`, `chunks` | a `FileDownContext` in the `HttpContext`, and what it has not read |
| `calls` | what the handler on the stack has still to do; `calls[1]` is next |
| `sock`, `full`, `ready`, `shutWr`, `inbox` | kernel: send buffer, SOCK_NOSPACE, ready list, SHUT_WR, receive buffer |
| `Poll`, `ReadInput`, `ReadFails` | `Epoll::poll` and `Channel::HandleEventWithGuard`, `Connection::HandleEvent` |
| `Serve`, `MessageDone`, `CloseConnection` | `HttpServer::onMessage` and `onRequest` with the handler's kind of answer |
| `SendDirect`, `SendBehind`, `Arm` | the two branches of `Connection::Send` and `EnableWrite` at its end |
| `WriteBuffered`, `NothingToWrite` | `WriteNonBlocking` on EPOLLOUT |
| `SendFile`, `SendFileRange` | one `sendfile` of their loops |
| `Continue`, `HalfClose` | the write-complete callbacks of a download and of `sendJson` / `sendError` |
| `WriteFails`, `WriteRaises` | ECONNRESET, and EPIPE with its SIGPIPE, which nothing ignores |

The kernel part is edge-triggered epoll as Linux implements it: room in a
socket becomes an edge only if the socket was found full before (`full`), a
descriptor on the ready list is looked at again by `epoll_wait`, and
`epoll_ctl(MOD)` looks at once. Answers are sequences of units `<<n, i>>`, so
that a lost, repeated or overtaking unit is visible. The kinds of answer are
the ways `onRequest` sends one. A *page* is the answer of a handler that never
sets the body type (the icon, static assets, HEAD): `HttpResponse` leaves
`body_type_` uninitialised, so `onRequest` may take it for a message, for a
file, or for neither.

### AnswerStream
What `ConnectionOutput` promises a peer whose connection is usable: units are
promised in request order and delivered in exactly that order.

### OutputInvariant
Three inductive invariants of `ConnectionOutput`. `WatchInv` says who moves what
waits in `sendBuffer`: EPOLLOUT is watched except between the two halves of
`Send`, and then epoll knows of the descriptor, or its handler is already called
for, or the socket is full and the kernel remembers that somebody waits.
`WireInv`, for connections whose answers are all messages (`MessagesOnly`), says
that what is under way begins what was promised and that `sendBuffer` and the
pending `Send` are the rest of it; `CallsInv` says that only `Send` carries data.
`Out_pipelined` checks their conjunction as `OutputInv`. `FirstInv` is about the
first answer of a connection, which may also be a file, a range or a download:
every unit of it is in its place, only two calls can carry units, and a
`sendfile` with units finds `sendBuffer` empty and no callback. `Out_single`
checks it.

### HttpInput
One connection from the socket to the handlers. A stream is a sequence of
units: a request line, a header byte, CR, LF, a chunk size, a byte of a body.
The client sends it in segments cut at any unit.

| Model | Code |
|---|---|
| `sock`, `buf` | the socket's receive buffer, `Connection::readBuffer` |
| `ctx` | `HttpContext`: parse state, request, body, chunk state |
| `headBytes` | `header_bytes_`, which `ResetContextStatus` leaves |
| `HandleEvent` | `Connection::HandleEvent`, `Read` (with its `RetrieveAll`), `ReadNonBlocking` to EAGAIN or the end of the stream |
| `ParseLine`, `AwaitLine` | one turn of `ParseIncremental` over the head, with its limits; no complete line left |
| `RequestLine`, `HeaderLine`, `EndHead` | what that turn makes of a line, by the parse state |
| `ParseBodyBlock`, `ParseChunkedBlock`, `Chunked` | the functions of that name, the second one unit by unit |
| `AwaitBody` | `onMessage` with the body incomplete: an upload of `Threshold` units is handed over in part |
| `Serve` | `onRequest` and `ResetContextStatus`, or the close |
| `Reject` | the answer 400 |

`spoilt` remembers the two cases in which the code loses input whatever the
parser does: `Read` empties the buffer, so a head line that two segments share
loses its first half (`Connection.cpp:76`); and data that is drained together
with the end of the stream is never looked at (`Connection.cpp:226`). Both are
modelled as the code has them, and the properties speak of the other streams.
`HttpInputAssumption` says of the clients that a request without framing has no
body, and of the limits that a line may have a unit.

### FileService and FileStore
Two or more loop threads serve requests over one MYSQL handle, without a lock.
A step is one call of the client library, one access to the upload directory
or one segment of an upload. A query is two calls: `SendQuery`
(`mysql_query`) and `StoreResult` (`mysql_store_result`). Between the two the
handle holds a result, and the library refuses every other statement (commands
out of sync), which the repositories answer with no rows, or `false`.

| Model | Code |
|---|---|
| `users`, `sessions`, `files`, `shares` | the tables of `file_manager.sql`, with UNIQUE and ON DELETE CASCADE |
| `disk` | the upload directory: content by name |
| `handle` | the loop whose result the handle holds |
| `job[l]` | the handler on loop `l`: its request, the statement it is at (`pc`) and what it has learnt |
| `up[l]` | an upload on a connection of loop `l`: what is still to come, the body buffered, and its `FileUploadContext` |
| `Arrive`, `Ask` | a request of another connection of that loop |
| `Receive`, `Chunk`, `First`, `Later` | segments of an upload, and `handleUpload` on the piece they make |
| `Answer`, `Resume` | the queries of the repositories, and the code of the handlers from one query to the next |
| `DeleteFile` ... `InsertUser` | statements without rows |
| `Unlink`, `Open` | the files of `handleDelete` and of the downloads |
| `Disconnect`, `ExpireSession`, `ExpireShare`, `Crash` | the client goes, the clock runs, the process ends and starts again: the database and the directory stay |

A body is a sequence of units: boundary `B`, part headers `H`, data `d`, the
dashes `E` of the last boundary, a line end `N` such as the one that begins a
delimiter, and the line end `T` behind the last one. Pieces are cut between
units, which is where `find` and the pointer arithmetic of `handleUpload`
matter. `Mixes` says which handlers meet in a behaviour: TLC enumerates pairs
that share rows, because all of them at once are out of its reach. `granted`
and `whole` are histories: who had the right to read at some moment, and which
uploads of one part (`OnePart`: one set of headers, every boundary before
headers or the end, a line end before the last) were cut at no bad place. `Data`
is what such a part means: what lies between its headers and the line end of the
closing delimiter. The code writes up to the boundary, the line end included, so
a stored file is `Data` and an `N`. `UploadKeepsData` says that the data is there
whole, once and in order, and that no more of the delimiter than its line end
is; `UploadExact`, that nothing of it is, is what `Files_upload` refutes.

`FileStore` is the promise: a stored file is complete, never changes and goes
as a whole. `FileService` implements it with the rows of `files`, joined with
the content of their files, as what is stored.

### AsyncLogging, TimerQueue, WorkerPool
Each is a monitor with the steps its locks leave. `AsyncLogging` counts bytes
of lines, because `Append` and `FixedBuffer::append` disagree about a line that
fills the buffer exactly: `logSkipped` holds the lines dropped so. Its back end
counts spare buffers, so that its assertions can fail. `LogHeld` is the file,
the full buffers and the current one in this order, which must be the lines
not skipped, in theirs. `TimerQueue` keeps what
is left until a timer is due and the ticks until the timerfd expires; callbacks
may add timers while `active_timers_` is walked, and the loop may be late by
`TimerLag`. `WorkerPool` splits `add` at the unlock, because `notify_one` comes
after it, and lets `cv.wait` return on its own.

### ByteBuffer, RouteTrie, FileDownload, QueryString
`ByteBuffer` has the vector, its size and the two indices; the difference in
`makeSpace` wraps as `size_t` does, and a move that leaves the vector is
recorded in `bufTorn`. `RouteTrie` has `findMatches` as a function on the nodes, recursive
through their children (`TrieFrom`, `TrieMatches`), against `TrieFits` and
`TriePreferred`, which say without a search which route a path should get.
`TrieFits` is the documented meaning, with `**` for any number of segments, none
included. The search never follows a key where the path ends (`TrieFitsWithin`),
so a route that ends in `**` is not found for the path before it. `TrieFinds`
demands that what is found fits, that nothing that fits within the path is
missed, and nothing more, so that it would hold of a search without that gap
too. The
assumption of the module keeps `**` out of the segments of a request: the code would follow
such a segment to a wildcard child as if it were a static one, and list its
matches twice. `FileDownload` is one download from the `Range` header to
the last chunk. `DownloadExact` says that the client gets all it asked for, in
order from the first byte asked for, and only bytes of the file; `RangeExact`,
that it gets no byte beyond the range that `Content-Range` names, is what
`Download_range` refutes. `QueryString` lets a client write a URL in every form the
encoding allows, and decodes it as `SetUrl` does; the loops of `UrlDecode` and
`ParseQueryString` are their local variables after `n` turns (`QueryLoop`).

### MCThreads and MCRequests
Parts that share no state are checked in one run each: `part` chooses the one a
behaviour is about, and the others keep one initial state. `MCThreads` has those
in which threads race (`ConnectionLifecycle` with one sub loop, for its liveness,
`LoopTasks`, `AsyncLogging`, `TimerQueue`, `WorkerPool`), `MCRequests` what becomes of the bytes of
a request (`HttpInput`, `ByteBuffer`, `RouteTrie`, `FileDownload`, `QueryString`).

## 4. Runs

| Run | Instance | Shows |
|---|---|---|
| `Life_safety` | 2 sub loops, 2 connections, 2 descriptors, racy lookup | the inductive invariant, the safety properties and the refinement of `ConnectionService` |
| `Life_single` | no sub loop, timer on, 3 connections, 1 descriptor | the `HttpServer` default: one thread; the inductive invariant with the timer; descriptor re-use and exhaustion; release |
| `Life_autoclose_abort` | 1 connection, timer on, 1 sub loop | **violation**: the timer closes on the main thread, a second `epoll_ctl(DEL)` aborts |
| `Out_pipelined` | 3 requests answered by messages, room for 2 units, resets | order and completeness, EPOLLOUT interest, half-close, the inductive invariant, the refinement of `AnswerStream`, liveness |
| `Out_single` | 1 request of every kind with a body type | files, ranges and downloads arrive exactly (`FirstInv` contains `AnswersExact`) and completely |
| `Out_mixed` | 2 requests, one of them a file | **violation**: `sendfile` overtakes what waits in `sendBuffer` |
| `Files_all` | 2 loops, 2 users, 2 sessions, 1 file, 1 share, 8 mixes of handlers | rows and files, uploads, access, removal, the refinement of `FileStore` |
| `Files_private` | 2 loops, requests that make a file private | **violation**: the shares stay and the owner is told that they are gone |
| `Files_upload` | 2 loops, uploads | **violation**: the line end of the closing delimiter is stored with the data |
| `Requests_all` | 12 streams of up to 4 requests, every way to cut them; buffer, trie, download, query string | requests exact, 400 only where due, all served in the end; the safety of the other parts |
| `Download_range` | files of 0 to 4 bytes, chunks of 2, ranges of every form | **violation**: the answer goes on past the end of the range |
| `Threads_all` | 1 sub loop and 2 connections; 2 producers and 3 functors, one of them queued by a functor; logging, timers, 2 workers | connections established, and the refinement of `ConnectionService` with its fairness; wakeup protocol, one thread, FIFO, queued functors run; logs exact and flushed, timers armed and fired, tasks run |

### Bounds
Each connection of `ConnectionLifecycle` lives once; two of them suffice for
every pairwise race, three over one descriptor for a lease that passes on
while others wait. Task lists are bounded by the connections. Three functors let
two wait in the swapped-out list while a third is pushed or queued by one of them.

A connection's output is cut into answers of two to six units with room for one
to three in the socket, so that an answer fits, fits partly and does not fit;
three pipelined requests put one answer behind another that is itself behind a
partial write. Files and downloads are checked one request at a time, because
a second request is exactly where they fail (`Out_mixed`).

The streams of `Requests_all` hold one request of each framing before another
one, an upload that grows past the threshold of 2 units twice, each way a head
can be malformed, a close with a request behind it, and four requests whose
heads together exceed `MaxHead` (18 units) while each alone is far below it.
Lines are limited to 2 units, so one of 3 is too long.

In `Files_all` two loops meet over one file and one share; a third would only
find the handle taken once more. `Threshold` is 3 units and the bodies have 8
and 10, so an upload comes in one to three pieces; the second body has two
parts. Symmetry exchanges loops, users and sessions; none of its properties is
a liveness property.

In `Threads_all` a log buffer takes 4 bytes and 5 lines fill more than one of
them and a spare; three timers with delays of -1, 1 and 2 ticks cover past,
equal and later times; two workers and three tasks let one task be queued while
both are busy. In `Requests_all` four
bytes over a vector of 4 with 2 prependable make every
branch of `makeSpace` happen; pairs of routes of up to three keys over paths of
up to three segments make all three kinds of children compete; files of 0 to 4
bytes in chunks of 2 end within and at a chunk; two parameters with the
separators themselves among their characters.

Deadlock checking is off: a server whose clients have left is quiescent, and
an aborted process stops.

### Fairness
`FairSpec` of the loops is weak fairness of each loop thread's step: the
operating system schedules runnable threads. Clients and the clock owe nothing.
Functors handed to a loop are owed only that a thread inside `queueOneFunc`
leaves it, and those of `Nested` only what the loop owes them while it is woken
for something else. The runs with liveness switch
`RacyLookup` off, because a missed lookup leaves a connection unestablished for
ever.

`ConnectionOutput` needs weak fairness of the loop's step and of `PeerRead`. The
second is an assumption on the environment: a peer that stops reading is owed
nothing. `SendFile` spins while the socket is full and is fair with the rest.

`HttpInput` has weak fairness of its loop only: what was sent must be served
without another segment. In `Threads_all` each loop thread of the server, the
loop of the functors, each producer inside
`queueOneFunc`, the back end of the logger, the timer loop, the clock, each
worker and a thread inside `add` run on; no fairness is asked
of those who connect, send, append, add, hand over or stop, nor of spurious
wake-ups. `OwnThread` joins steps of different parts; since a behaviour is of
one part, only its disjunct is ever enabled in it, and weak fairness of the
disjunction is weak fairness of each.
`FileService` has safety properties only.

## 5. Proofs

Eight modules hold the theorems; `PROJECT.json` lists what each says. The
theorems are about every value of the constants that the assumptions in the
modules allow, and the runs of section 4 check the same properties and the
inductive invariants on their instances.

`LoopTasks_proofs` proves, for any producers and functors:

- `Typing`: `LoopTypeOK`, which is inductive and carries the relation between the
  program counter, `callingfunctor` and the local list;
- `NoneLost` and `ReadableWhenHandled`: `NoLostWakeup` and `WakeupReadable`,
  inductive only together, functors that queue on their own loop included;
- `Confinement`: `OneThread`, whatever the uninitialised `tid` holds, the id of a
  producer included: once `loop()` runs, only its thread runs functors. It rests
  on `tid` being the loop's from then on, which `loop()` alone brings about;
- `ImplementsExecutorTheorem`: the initial state and every step map to the
  executor.

`ConnectionLifecycle_proofs` proves, for any number of sub loops, connections
and descriptors, with or without the racy lookup, with the inactivity timer off
or on the only loop (`ClosesAtHome`; `Typing` needs neither):

- `Typing`;
- `Invariance`: the conjunction of `ConnectionInvariant` is inductive
  (`HandleTimerKeeps` is the timer: it stands for an established connection,
  and the main loop is that connection's own). The
  safety properties are not: that the map's entry is the live owner of its
  descriptor is preserved by `DeleteConnection` only if the functor that runs
  it finds that connection in the map, which holds only if no second functor
  for it is under way on any thread; hence the slots. A few lemmas say what
  queueing, swapping, running and ending do to the slots, then one lemma per
  action shows that it keeps each conjunct;
- `NoDangling`, `AssertionsHold`, `MapFaithful` and `ClosedOnOwnLoop`: the
  safety invariants, from the conjuncts that imply them;
- `Implements`: the refinement of `ConnectionService`, one lemma per step of the
  service. It needs `LiveInv`: a closed connection keeps its lease exactly as
  long as a functor or a thread still refers to it;
- `ClosedForGood`: a map entry goes only after its connection was closed, and a
  closed connection never opens again, by `StepsKeepClosed`.

The assumption cannot be dropped: with the timer and a sub loop the invariant is
false, as `Life_autoclose_abort` shows.

`ConnectionOutput_proofs` proves, for any requests, sizes of answers, of chunks
and of the socket's buffer, with and without resets:

- `Typing`, from `TypeInv`, which adds that requests are not multiplied on
  their way from the peer to `Serve`;
- `Watched`: `OutputWatched`, for every mix of answers. It is not inductive:
  between `Send`'s write and its `EnableWrite` the buffer holds output that
  nobody watches. `SendFirst` (whatever `Send` leads to is the next call) says
  that nothing else runs in between, and the last conjunct of `WatchInv` that a
  peer reading in between is noticed: room appears with an edge, or
  `epoll_ctl` finds it;
- `MessagesExact`, `MessagesInOrder`, `MessagesBeforeHalfClose` and
  `MessagesImplementStream`, if all answers are messages: `AnswersExact`,
  `ReceivedInOrder`, `HalfCloseOnlyWhenDone` and the refinement of
  `AnswerStream`, all from `WireInv`. It follows one equation between sequences
  through each call; lemmas `WireStays` and `WireMoves` say when it survives. The
  assumption cannot be dropped: `Out_mixed` shows what a file does to it;
- `FirstAnswerExact`: `FirstInv`, for any kinds but `page`, whose body type no
  handler sets (section 6): until a second request is served, what was received,
  what is in the socket, in `sendBuffer`, in the pending calls and still to be
  read by the download are the answer. A file is safe there because its header is
  one unit and the socket is empty (`FirstCalls`): the `Send` of the header
  fits, so nothing waits for the `sendfile` to overtake. `FrontSent` says what a
  write to the socket does to the equation; `Cat` is concatenation as an
  operator that the provers do not expand. `served <= 1` cannot be dropped, as
  `Out_mixed` shows;
- `Invariance`: `OutputInv`.

`HttpInput_proofs` proves, for any stream of requests, any cut into segments
and any limits:

- `InputInvariance`: `InputIInv`. What the properties say of `served` follows
  only from where the parser is in the stream. `Position` is that place: between
  two requests; `AtLine`, after `h` lines of the head of the next request; or
  `AtBody`, with `AtChunk` for the place within a chunk. Each of them names the
  context and the size of the heads the parser must have reached there, and says
  that `Todo`, which is buffer, socket and wire, is exactly what the stream has
  left. `Uncut` says that between two events only whole lines of a head have
  arrived, `Served` that the requests handed over are the first ones, and
  `Refused` what 400 was answered to. All of it is about streams that are
  not `spoilt`;
- `RequestsAreExact` and `RefusalIsJust`: `RequestsExact` and
  `RejectedOnlyIfBad`. `HeadsGrow` and `MeantFirst` relate the requests served to
  `Meaning`, because head sizes only add up.

A line is followed by one argument: `LineFound` (the first line in the buffer
is the one the stream has next), `LineEffect` (what `HeadLine` makes of it is
the context of the next place, or a refusal that is due), `HeadEnds` (the empty
line leads to the body). A body goes by `ParseBodyStep`, a chunked one by
`ChunkStep` and `ChunkMoved`, one unit at a time, and `ServeStep` joins the end
of one request to the head of the next.

`Parts_proofs` proves of the smaller parts:

- `BufIndices` and `BufExact`, for any prepend area, initial size, set of bytes
  and bound: the inductive invariant (indices ordered and inside the vector,
  only `Prepend` brings `read_index_` below `PrePendIndex`), and `BufferExact`
  from it. The lemmas say of `BufMoved`, `BufGrown`, `BufRoom` and `BufPut` what
  they do to the readable bytes; each operation is a composition of them;
- `Armed`: `TimersArmed`, for any timers, delays, intervals and lateness. The
  invariant adds that what is left of the timers has a lower bound, so that
  there is an earliest one although the set of timers need not be finite, and
  that callbacks are pending in `run` only;
- `Downloaded`: `DownloadExact`, for any file, chunk size and `Range` header:
  what was sent is the file from the beginning of the range to the current
  position (lemma `FromJoins`), and a header that is answered 206 names a range
  that `DownParse` clamped into the file;
- `Logged`: `LogExact`, for any size of buffers and lines. The invariant adds
  that lines are numbered as they are appended, and that the spare buffer is
  used up only when a full one is queued, so that the back end finds enough
  buffers to replace both.

`SequenceFacts` holds what these proofs share: cuts of a sequence (`SubSeq`
against `\o`), `FlattenSeq` of a concatenation, and induction over `Nat`, stated
with a set because the library's theorem takes an operator.

`FileService_proofs` proves, for any number of loops, users, sessions, files
and shares, any requests and bodies, and a process that may end at any step:

- `Rows`: `RowsHaveFiles`. It is not inductive, because handlers act on what an
  earlier query told them. The invariant `FileIInv` says what that is worth
  later: `UploadInv`, that a file still being written belongs to one connection
  and has no row, so that `createFile` cannot give a name a second row; and
  `JobInv`, that the file a loop found a row of its user for (`Owned`) will
  never be written or get a row of another user, however long ago the query
  was. `RightKept` says which steps leave that knowledge alone, `QuietLoop`
  covers the many steps that touch no file, and the four that do have lemmas of
  their own;
- `Owners`: `RemovedByOwner`, from `Owned` at `deleteFile`;
- `Implements`: `ImplementsFileStore`. `RowsChange` says that only `DeleteFile`
  and `CreateFile` change what is stored, since `Chunk` and `Unlink` touch
  files without a row; `DeleteRemoves` and `CreateStores` map those two to
  `Remove` and `Store`;
- `Served`: `ServedOnlyIfAllowed`. Its invariant `AccessIInv` says that rows
  which will let a request pass were read while the request had the right
  (`Allowed`), and that a loop which has not stored its result is still at its
  query;
- `Uploaded`: `UploadKeepsData`, in a sharper form: a complete file is its data and
  the line end of the delimiter (`Intact`, from `EndsWithLine`). A property of complete files says nothing of the
  pieces before, so `ContentIInv` follows every upload: `Written` says that some
  `n` units of the body are consumed, that what is received and what is to come
  are the rest of it, and that the file has the data up to unit `n`, which is
  before the closing delimiter and not before the headers. `Intact` says that a
  complete file stays what it is while a row names it or its handler is about to
  make one, and that no later upload has its name. `EndOfPiece` carries the
  argument: in a piece that does not end in a delimiter the closing delimiter is
  found where the body has it, or not at all. `FirstPiece` and `LaterPiece` say
  what such a piece adds, and `PieceWritten` that `handleUpload` keeps `Written`.
  It is about bodies with one part (`OnePart`) and uploads that are not cut in
  the delimiter (`whole`): section 6 says what a cut there does.

The module assumes only that `None` is no user, session or loop and that bodies
are sequences of units.

`Routing_proofs` proves what two algorithms compute, for every input:

- `TrieFindsAlways`: `TrieFinds`, for any routes added in any order and any
  path; `FindsWithin` says that the search finds exactly the ways of
  `TrieFitsWithin`. `TrieInv` says that the nodes are the beginnings of the routes and that
  none is longer than some `m`. From it `SearchExists` gets the function that
  `TrieMatches` chooses, by induction on how far a node is above `m`, and
  `AllSearched` what that function gives for a node and a place in the path. Its
  statement is stronger than the property, as a search that backtracks needs:
  `Ordered` says that the matches come from all the ways in which the rest of
  the path can go on below the node, each match from some way, and in the order
  in which one way goes before another. `OrderedConcat` and `OrderedFlatten`
  join the matches of the static child, of the parameter child and of the
  wildcard child for each number of segments; `ThroughPrefers` says that the ways
  through one go before those through the next;
- `QueryExactAlways`: `QueryExact`, for any parameters, any bytes in them and any
  of the allowed ways to write each. `LoopExists` gets the states of a loop by
  induction on the turns, and `LoopNext` relates two of them. `Decodes` says that
  the loop of `UrlDecode` comes from the first character of a text to its end
  whatever follows the text, `Parsed` the same of the loop of
  `ParseQueryString` up to a separator, `PairText` what the text of the
  parameter being written is; `QueryInv` cuts the URL into these. `CodesCoded`
  is the reason: no code of a character begins with a separator or is
  mistaken for another code.

Model-checked only: liveness, which is beyond the prover, the fair part of the
refinements with it; the timer together with sub loops, but for types;
`WorkerPool`, which has no safety property of its own. Every other invariant and action property of a
passing run is stated by a theorem.

## 6. Findings

Each is a run TLC refutes, with the quoted text in `PROJECT.json`:

- `Life_autoclose_abort`: `ActiveCloseConn` runs on the main loop and closes a
  connection of a sub loop; if the peer closes too, the descriptor is removed
  from epoll twice and `errif` aborts the process.
- `Out_mixed`: `SendFile` writes to the socket although earlier output waits in
  `sendBuffer`.
- `Files_private`: `handleShareFile` ignores the result of `setPrivate`, which
  is refused while another loop thread has not stored its result.
- `Files_upload`: `handleUpload` writes up to the text of the boundary
  (`FileHandler.cpp:344`, `370`), so every uploaded file gets the line end that
  belongs to the closing delimiter.
- `Download_range`: `handleDownload` ignores the end of a range: it sends the rest
  of the file under a `Content-Range` that names less (`FileHandler.cpp:254`,
  `267`), and gives the size of the file as `Content-Length` (`263`).

Other behaviour met while modelling. It is in the models as the code has it
where a module is named, and no run states a property against it:

- `HandleClose` after `Send` discards `sendBuffer` (`HttpServer.cpp:171`): the
  end of an answer that closes and does not fit the socket is lost
  (`ConnectionOutput`).
- `HttpResponse::body_type_` is not initialised; handlers that do not set it
  (icon, static assets) leave it to the stack what `onRequest` sends (the kind
  `page` of `ConnectionOutput`).
- The condition at `EventLoop.cpp:77` is the reverse of the comment beside it: a
  functor queued by a functor on its own loop does not wake the loop
  (`Nested` of `LoopTasks`; the server queues none).
- A head line in two segments, and data that arrives with the end of the
  stream, are lost (`spoilt` of `HttpInput`); the heads of all requests of a
  connection count against one limit.
- An upload piece that ends within the closing delimiter leaves part of it in
  the file (`torn` of `FileService`); when bytes follow the closing delimiter
  in a later piece, they begin a second upload with a file and a row of its
  own; a row that could not be written is answered as success with file id 0.
- The extract code of a protected share never reaches `handleShareAccess`,
  which looks for it among the parameters of the path (`Permitted`).
- A line that fits the log buffer to the last byte is dropped, the timeout of
  the back end flushes nothing unless a buffer is full, and lines appended
  after its last iteration are lost at `Stop` (`AsyncLogging`).
- At the stop of `ThreadPool` a worker goes if tasks are left, and takes the
  front of an empty queue if none is (`WorkerPool`).
- After `Prepend` a growing `Buffer` can be written past its end
  (`ByteBuffer`; only tests prepend).
- `RouterTrie.cpp:117` says that `**` matches 0 to N segments; at the end of a
  path the search asks for a leaf only (line 87), so a route `/a/**` is not found
  for `/a` (`TrieFitsWithin` of `RouteTrie`).
- `EventLoopThread.cpp:33` publishes a loop before `EventLoop.cpp:33` sets its
  `tid`, which no constructor initialises: until then a caller whose thread id is
  there by chance runs its functor on its own thread (`astray` of `LoopTasks`),
  against `Server.cpp:39`.
- When the end of an upload's first piece comes before the part
  (`FileHandler.cpp:344`), `endPos - pos` wraps: nothing is written and the stream
  goes bad (`First` of `FileService`); the total of `FileUploadContext` is wrong.
- `AddTimer` is called from sub loops on the main loop's unlocked queue
  (`HttpServer.cpp:48`); a deferred response is reset before its sender looks
  for it (`HttpServer.cpp:97`); the context of an upload or a download stays
  on a kept-alive connection and is cast to the other's type
  (`FileHandler.cpp:245`, `298`). These are not modelled.

## 7. Not modelled

- Log formatting, address and time wrappers, front-end files, static pages:
  no state of their own, or wording only.
- `FilenameMap`: nothing adds a name.
- `ParseRequest`, `ExtractPathParams` and `ParseRangeHeader` of the HTTP layer,
  and deferred responses: only tests call them.
- The start-up of loop threads, the destructors of `EventLoop` and
  `TimerQueue` (`quit` is never set), `epoll_wait`'s limit of 1024 events, the
  handshake state (never set).
- In `ConnectionLifecycle`, a torn read of `Server::connections`; in
  `TimerQueue`, insertion by two threads. Undefined behaviour of a container has
  no list of outcomes to choose from.
- In `ConnectionOutput`: the high-water-mark callback (never set by the HTTP
  layer), EINTR, the size of the socket's buffer changing, and a reset that
  arrives between bytes already in flight (a reset empties the socket's buffers
  at once).
- In `HttpInput`: characters. A line is right, wrong or unknown as a whole, and
  request lines are not cut within. After an unknown method the code reads every
  line as a request line (`HttpContext.cpp:188-194`) and would take a header with
  two spaces for one; the model has such heads refused or followed by their end.
  A handler that refuses a part of an upload leaves the part in the body; the
  handlers of `HttpInput` take it (`FileService` has the refusal).
- In `FileService`: calls of the client library are atomic, so two threads
  inside one call at once are not modelled; queries other than those refused
  out of sync succeed; names drawn by `UniqueFilename` and `RandomString` are
  fresh; each upload has a connection of its own. The file of an upload opens and
  takes what is written: when it does not, the code only logs that
  (`FileUploadContext.cpp:14-18`, `30-38`) and the row is still created. `Open` is
  one step for `exists`, `is_regular_file`, `file_size` and the opening
  (`FileHandler.cpp:209-214`, `FileDownContext.cpp:8-12`); if the file goes between
  two of them the code throws.
- In `RouteTrie`: handlers and parameter names are not told apart. A second
  `addRoute` of a path and method replaces the handler (`RouterTrie.cpp:54`), and
  the last name of a parameter wins (`37`, `108`), which changes no search. A
  literal segment `*` in a route, whose node has no parameter name (`106`), is not
  among the routes.
