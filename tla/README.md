# TLA+ models of Server8

A verification development for the C++ code of this repository: TLA+ modules, TLC
configurations that check them on small instances, and TLAPS proofs that hold for every value
of the constants. `PROJECT.json` lists the components, the runs, the hazards, the mapping from
definitions to source lines, the findings and the theorems; this file explains them.

Modules read best in this order: `EventDeque`, `SessionQueue`; `SessionManager`;
`ConnectionLife`, `IOCPModule`; `DefaultCallback`; `PacketHeader`, `PacketStream`;
`EventService`, `EventDispatcher`; `Indexer2`, `Indexer3`; `LogJournal`, `LogModule`; then the
proofs. A module `MCx` gives module `x` an instance, `xProofs` holds the theorems about it
(`IOCPProofs` those about `IOCPModule`, `LogProofs` those about `LogModule`, `SessionQueueProofs`
also the one about `SessionManager`).

## 1. The system

The repository is a Windows server toolkit. Its own logic is in `src/Server8/` (`server.h`,
`server.cpp`, `svrutil.h`, `protocol.*`) and in the crawlers built on it (`src/Indexer/`,
`src/Indexer3/`). Everything else is vendored, generated or an experiment.

| Component | State | Operations | Hard behaviour | What makes it correct |
|---|---|---|---|---|
| `Session` event queue (server.h 115-607) | `eventArr`, `head`, `tail`, `size`, `status` | push/pop/get at both ends, clear, status | three separately maintained fields; pointers into the array handed out after unlock | it is a deque; nothing queued is overwritten; nothing is leaked |
| `SessionManager` (server.h) | map of sessions, SRW lock | add, run a handler, remove, remove all | handler runs under the lock; `addSession` tests the wrong way round | a session added is found |
| `IOCPModule` (server.h 759-1130, server.cpp) | `socketContextMap`, per context `IOCPContextMap`, `count`, `closeFlag`; packets in the completion port | `initIOCP`, worker loop, accept, receive, send, close, `stopIOCP` | workers interleave; contexts are deleted while other packets refer to them; posts fail; peers leave at any time | one owner per operation, one close per connection, accepts stay posted, contexts of leavers are released, nothing deleted is read |
| Packet framing (server.cpp `doAccept`, `doRecv`) | per connection `prevFlag`, `prevData`, `bytesToRecv`, the packet | reassemble packets, call the receive callback | packets cut at any byte; blocks sized by what is missing; the first callback runs after the next receive is posted | the handlers keep their place in the stream; the callback runs once per packet, in order; copies stay in their blocks |
| `protocol::Packet` (protocol.*) | header fields | `createHeader`, `matchHeader` | digit and size limits on both sides | what is created is matched, within the 256 bytes looked at |
| `EventDispatcher` (svrutil.h 729-1060) | `status`, `callbackMap`, `eventList`, worker threads | add/remove callback, submit, status, destructor | unlocked status; iterator used after unlock; destructor joins nobody | each accepted event is taken in order and run once; suspend and halt take effect |
| `LogModule` (svrutil.h) | `buffer`, `index`, the file | write, print, flush, destructor | flush tests `index` without the lock; long records bypass the buffer | no accepted record is lost or doubled, a thread's records stay in order, a flush leaves nothing behind |
| `Indexer2` (Indexer2.cpp) | `visitedURL`, items | the callback's `run`, `deployIndexer` | an address is withdrawn before its item is submitted again; others skip it meanwhile | each page is searched, once |
| `Indexer3` (Indexer3.cpp) | `currentID`, items | the callback's `run`, `deployIndexer` | `currentID` is written with and without the lock; an item is submitted again and deleted | no page is skipped; nothing deleted is read |
| `CriticalSection`, `SRWLock`, `ThreadPool`, `Timer` | counters | lock, start threads, read clocks | `refCount` outside the lock | - (`CriticalSection` has no user in the repository) |

Interactions: the worker threads of `IOCPModule` communicate through the completion port (a
first-in first-out queue kept by the kernel) and through `socketContextMap`, under the
module's SRW lock. They call the user's callbacks, which may call `sendData` and
`postCloseConnection` on the context they are given. Indexers drive an `EventDispatcher` from
`main` and submit new events from inside callbacks. A `Session` queue is called from any thread.

## 2. The modules

A *step* is the code between two accesses to state that other threads may touch. A region the
code runs under one acquisition of a lock is one step; what it does after releasing the lock
with something it read before is another step. A deleted object stays a name in the model: a
worker about to read one sets `fault` (action `UseAfterFree`), and nothing is claimed about
the program after that. Definitions keep the names of the functions they model. Each module
also holds a few faulty variants of its operators (named in its header, used by no action):
replacing the operator after one of them breaks the property it is meant for.

### SessionQueue (implements EventDeque)

One action per method of `Session` that touches the queue. Every method holds `sessionLock`
throughout, so a call is a step. An array element is a payload or `NoEvent` (released). `ret`
is the last call's return value and the payload behind the pointer it handed out. The
constructor's `maxSize` argument is `RequestedSize`; the fall-back to `DEFAULT_QUEUE_SIZE` for
values that are not positive is modelled. `EventDeque` states what callers rely on: a bounded
sequence with operations at both ends, and a status gate.

### SessionManager

One action per method, over the manager's SRW lock: a method first waits (`Acquire`) and then
does its work in one step, but for `runSessionHandler`, which keeps the lock shared while the
handler runs; a handler may call every method. `addSession` inserts a session only under a key
that is in the map already (server.h:659), so the map stays empty and no handler ever runs. This
is proved for every instance; an instance for TLC would show nothing more. What handlers could
do under the lock is in the model, but nothing is claimed of it: none ever runs.

### IOCPModule (implements ConnectionLife)

| Model | Code |
|---|---|
| `object[c]` | life of a client's `SocketContext`: `none`, `arrived` (socket inside an accept context), `alive`, `freed` |
| `socketContextMap`, `closeFlag`, `count`, `IOCPContextMap` | the fields of that name; an IOCP context is its key in the map of its socket context |
| `pending`, `port` | operations held by the kernel; completion packets queued in the port (external) |
| `pc`, `hand` | per worker, its place in `IOCPWorkThread` and the packet it handles |
| `sending` | workers inside `sendData` between its look-up under the lock and what it does after |
| `posting` | workers inside `postSend` between `WSASend` and the write to the context that follows it (server.cpp:544), with what the kernel answered |
| `initIOCP` | the loop that posts `maxStandbySocket` accepts, while workers already run; the lock is held until it ends (`LockFree`). The failures before it (server.cpp:54-105) return before any worker is started |
| `emptyAccept`, `doAccept`, `insertContext`, `postAccept` | the accept branches of the worker, with failing bind, receive and accept |
| `doRecv`, `postRecv`, `recvFailed` | the receive branches |
| `doSend`, `releaseSend`, `doSendRest`, `sendEmpty`, `sendError`, `errorCallbackReturns` | the send branches |
| `postCloseConnection`, `doCloseConnection` | closing |
| `sendChecks`, `sendData`, `callbackCloses` | what a callback may call |
| `postSendReturns` | the end of `postSend`, for `sendData` and `doSendRest`: the write to the context, and the removal of one whose send was refused |
| `AcceptCompletes` ... `PeerLeaves` | the kernel and the clients (external) |

A quirk kept from the code: `createIOCPContext` (server.h:890) stores `contextIndex = count`
and files the context under `count + 1`, while `removeIOCPContext` is called with
`contextIndex`: each release deletes the context created *before* the one meant.
`postSend` writes the operation into the context after `WSASend` has taken it; another worker may
have handled the completion by then and a close may have deleted the context, so the write is a
step of its own. `postRecv` and `postAccept` write before they call the kernel.
The bytes of packets are abstracted: only whether all, some or no bytes moved decides what is
called. `ConnectionLife` states the stages of a connection: none, open, registered, closing,
released; a connection may also be dropped from open.

### DefaultCallback

`pRecvCallback` and `pSendCallback` are NULL until the program sets them. A worker that finds
NULL stores a new `IOCPCallback` in the shared member, calls it, deletes what the member then
refers to and stores NULL, all without a lock and at seven places of server.cpp. One member is
modelled, with objects as addresses. `crowded` records that somebody used the member while
another worker was between its test and its last assignment; `FaultNeedsCrowd` says that this
overlap is the only way to a bad call or a second delete, and TLC reaches such faults with two
workers. `IOCPModule` assumes that both callbacks have been set before `initIOCP`.

### PacketHeader and PacketStream

`PacketHeader` holds what `createHeader` writes and `matchHeader` accepts, with text fields as
their lengths and `ContentLength` as a number that is written in decimal: the limits of the two
functions are what matters. It is used by theorems only.

`PacketStream` is one connection's byte stream through the framing code, with a byte as its
position in the stream. `doAccept` handles the first piece, `recvLast`, `recvMiddle`, `recvBeyond`,
`recvInvalid` and `recvFresh` are the branches of `doRecv`, `splice` is an iteration of its loop
and `leftover` the loop's end. The properties are about what the code does with packets that are
cut at any place, and they delimit its quirks rather than hide them:

- the callback is given the last buffer only and never `prevData`, so `HandedOver` promises it the
  whole packet only if no piece ended inside the packet;
- a header cut in two is not recognised: the packets from there on are lost up to the next one
  at which a piece starts (`FoundAreCalled` says exactly which: a packet is `Found` if a piece
  begins at it or at an earlier packet and no header from there on is cut);
- a first piece longer than the first packet overruns its block, a later packet's block has the
  size of what is missing while the offset is computed with the first packet's length, and as many
  bytes as are missing are copied out of the receive buffer, whether they are there or not
  (`FaultHasCause` lists these, and `CopiesFit` proves that there is nothing else);
- `doAccept` posts the next receive before it runs the first packet's callback, so with several
  workers that call may come late (`CallsInOrder`);
- "invalid data 2" is reached only by pieces longer than `bufferSize` (`refused`).

`IOCPModule` leaves bytes out and `PacketStream` leaves the other connections and failing posts
out; what links them is `SoleOwner`: a connection has one receive context, and that is with the
kernel, in the port or with one worker at a time.

### EventDispatcher (implements EventService)

Clients add and remove callbacks, submit events, set the status and destroy the object; each
worker runs `workThread`: test the status, test it again for SUSPEND, take an event under the
exclusive lock, find its callback under the shared lock, and run it through the iterator *after*
that lock has been released. A node of `callbackMap` is numbered, so a stale iterator is
recognised even when its name has been registered again. The destructor sets HALT (`halt`), and
after its sleep the object is gone (`destroy`). In between only callbacks that still run may call the
object; one that calls `setStatus` overwrites the HALT, and one that calls after the sleep finds
nothing (`lateCall`). `HaltReturns` and `EventsRun` say what holds while the status stays.
`outcome` and `removed` observe and guide no code step. `EventService` promises order, one taker
per event, and at most one run.

### Indexer2 and Indexer3 (over EventService)

Both crawlers register one callback before they submit anything and never remove it, so what
they use of the dispatcher is what `EventService` promises: a list, and one taker per event.
`ArgItem`s are numbered as they are made; reading one after its `delete` sets `fault`.

`Indexer2`: `visit` is the look-up in `visitedURL` under its lock, `getData` and `getDataFails` the
request, `reset` and `again` the withdrawal of the address and the resubmission after a failure,
`logError` the log written after that, `search` and `finish` the items made for what the page
names and the `delete`. What a page names is the constant `Names`, for the regular expressions
and the site. The fields of a failed item are logged after it was submitted again, when another
worker may have dealt with it and deleted it: `StaleOnlyInLog` says that this is the only such
read. Items of pages that are skipped are never deleted. `visitedURL` holds addresses, whatever
the operation, so of two operations on one address only the first is carried out.

`Indexer3`: `currentID` is written by `deployIndexer` without a lock and counted by the workers
under one (`load`, `store`, and `submitNext`, which reads it again). `setStatus(HALT)` is refused by
the dispatcher, so the workers run meanwhile; a page may then be asked for twice (`early`). An
item whose request returned -1 is submitted again and deleted by the same run, although a
comment says "1.send request : if send error then retry.": `FaultHasCause` says that nothing else
leads to reading a deleted item.

### LogModule (implements LogJournal)

`write`/`print`, `flush` and the destructor in file mode. Each call of the C library on the file is
a step, since the library locks the file for a call, and so is each assignment to `index`, which
`flush` reads without the lock. A record whose format string is as long as the buffer goes to the
file directly, without the lock, after a flush. `accepted`, which observes only, is the set of the
records that were not refused. That `memcpy_s` fails (svrutil.h:218) is impossible after the test for
room. `LogJournal` promises that an accepted record is owed until it
reaches the file, that it gets there once and that a thread's records keep their order; what the
log owes is `accepted` without the records of the file. Two limits are stated: `flush` may find
`index` zero while another thread that has just spilled the buffer has not called `fflush`,
and long records are never `fflush`ed (`FlushStores`).

## 3. The runs

| Run | Instance | Shows |
|---|---|---|
| `session_queue` | capacity 5, two payloads | `TypeOK`, `RingOK`, `PayloadOwned`, `QueuedKept`, `ImplementsDeque` |
| `iocp_serve` | 2 workers, 2 clients, 2 accepts, callbacks neither send nor close | `OneOperation`, `StandbyKept`, `FaultHasCause`, and under fairness `AcceptsAgain` |
| `iocp_callbacks` | 2 workers, 1 client, 1 accept, 2 sends and 1 close by callbacks, 1 refused accept | `TypeOK`, `SoleOwner`, `CloseOnce`, `ImplementsLife` |
| `iocp_single` | 1 worker, 1 accept (as `IOCPModule(bufSize, port)` sets), 2 clients | `Attended`, and under fairness `LeaversReleased` |
| `default_callback` | 2 workers, 3 defaults, the program may set its callback at any time | `FaultNeedsCrowd`, `SetKept`, `DefaultsDeleted` |
| `iocp_leavers` | 2 workers, 1 client | finding: `LeaversReleased` is violated |
| `iocp_accept_fails` | 1 worker, 2 accepts, 1 refused | finding: `FailedAcceptReleased` is violated |
| `dispatcher` | 2 workers, 1 name, 3 events, 2 registrations | `FaultHasCause`, `ImplementsService`, and under fairness `EventsRun`, `SuspendRests`, `HaltReturns` |
| `framing` | every stream of 3 packets of 2, 3 or 6 bytes, header 2, first piece up to 3, others up to 5, `bufferSize` 4, 2 workers | `InStep`, `HandedOver`, `CallsInOrder`, `FoundAreCalled`, `FaultHasCause` |
| `log` | 2 threads, 2 records each of 1, 2 or too many bytes, buffer of 3 | `FlushWrites`, `FlushStores`, `ImplementsJournal`, and under fairness `LockReleased` |
| `indexer2` | 2 workers, 4 pages that name each other, one of them in two ways | `HandledOnce`, `PagesKept`, `StaleOnlyInLog`, and under fairness `PagesHandled` |
| `indexer3` | 2 workers, 2 pages submitted first, 3 in all, 1 failed request | `NoGap`, `AskedOnce`, `FaultHasCause`, and under fairness `PagesRecorded` |

Bounds. Capacity 5 is odd and larger than 2, so the initial index is off-centre and both wraps
happen, with a full and an empty ring in every position. In `IOCPModule` two workers are what
every interleaving hazard needs (one acts between two steps of the other); two clients and two
accepts let completions of different connections overlap; two sends make `contextIndex` hit
another context of the same connection; one close of a callback competes with the one the code posts
itself. `MaxSends`, `MaxCloses` and `MaxAcceptFails` bound calls, never the code's own steps.
In `DefaultCallback` three defaults (addresses 2 to 4) let one worker start over while the other
is still busy with an earlier one. In `EventDispatcher` three events exceed the workers, so one always waits; two
adds of one name are what an invalid iterator to a re-registered name needs. In `PacketStream` the
lengths are a packet that is all header, one that fits a piece and one that does not; a receive
may hold two packets, or the end of one and a part of the next, and may exceed `bufferSize`; the
third packet shows what happens after one has been lost or left over. In `LogModule` two short
records fill the buffer and the third does not fit. In `Indexer2` the season asked for in two ways
and the video named twice are the duplicates that race; six items are all that the four pages can
lead to. In `Indexer3` six items are enough for every behaviour: raising `MaxItems` adds no
state. Workers and connections are interchangeable: the safety run `iocp_callbacks` uses
symmetry, the liveness runs do not.
Deadlock checking is off where a run may really end: after `fault`, when the bounds are used
up, or when every thread has returned. `iocp_serve` and `iocp_single` check it: the accepts
never stop.

Fairness. `IOCPModule`: `initIOCP` and each worker's handler are scheduled; some idle worker is
woken for a queued packet; the kernel ends receives of a peer that left and aborts operations
on a closed socket. No client has to connect, send or leave, and a callback's own calls are
not fair. `EventDispatcher`: every worker is scheduled and callbacks return; no client has to
call anything. `LogModule`: a thread inside `write` or `flush` is scheduled; nobody has to call, and
who gets the lock next is left open. The indexers: the threads are scheduled, a worker of `Indexer3`
that waits for the SRW lock gets it, and a page that is asked for again and again is had
in the end (strong fairness of `getData` per page: an assumption on the site, without which
retrying is all the code can do).

### Findings

1. `iocp_leavers`. `doAccept` posts the first receive before it inserts the context
   (server.cpp:357). With two workers the receive of a client that left at once may be handled
   before the insertion: `postCloseConnection` does not find the context and does nothing; the
   context is inserted afterwards, has no operation in flight and is never released. The default
   constructor starts eight workers; with the one worker of `IOCPModule(bufSize, port)` this
   cannot happen (`iocp_single`).
2. `iocp_accept_fails`. When `AcceptEx` is refused, "post accept failed, release IOCPContext"
   (server.cpp:674) does not release the context of that accept, because of the off-by-one above.
   The trace is one of `initIOCP`: the context of a refused accept stays for ever. Where a context
   was made before it, that one is deleted instead; this follows from the same arithmetic and is
   in the model, but the trace ends before.

`FaultHasCause` delimits the rest of the I/O module: without callbacks that send or close and
without refused accepts, no deleted context is ever read. Once callbacks do, it is a possibility
that the model contains (`UseAfterFree` fires in `iocp_callbacks`); the same holds of the dispatcher
after a removal or its destructor, and of the properties of that name in the other modules. The
disagreements described in section 2 (blocks of the framing code, `addSession`, the retry of
`Indexer3`) are stated by these properties and theorems. Another one is shown by
`EmptyOperationUnmatched`: protocol.h allows an operation of 0 bytes, the pattern of
`matchHeader` wants at least one.

## 4. The proofs

`SessionQueueProofs`. For every capacity. The inductive invariant is `TypeOK`, `RingOK` and
`PayloadOwned` together: none is inductive alone, since a pop may only move `head` inside the
array's live part if `tail` is where `RingOK` says, and `PayloadOwned` needs both. Lemmas on
`Forward`, `Backward` and `Slot` (injectivity on the live part, effect of moving the head) carry
the arithmetic. From it follow `RingCorrect`, `QueuedEventsKept` (an action property) and
`RingImplementsDeque` (every call maps to the deque operation, on `Contents`). The module also
holds the proof about `SessionManager`: the map is empty and nobody runs a handler (`Idle`), which
gives `ManagerStaysEmpty`.

`IOCPProofs`. For every number of workers, connections, accepts, sends and closes, with the
weak assumptions of `IOCPModule` (the listening context and the "no connection" value are not
clients; bounds are naturals). `SoleOwner` and `CloseOnce` are not inductive. `IInv` adds: keys
in flight are at most `count`, so a new key is fresh (`FlightOK`); operations in flight on a
connection have been created by `doAccept`, so it is not "none" or "arrived" (`FlightOK`,
`PendingOK`); at most one
packet or hand carries a given arriving peer (`PeersOK`), so no connection is accepted twice;
registered contexts are alive (`RegisteredOK`); a close in flight implies the flag, the
registration and the life of its context, and is unique (`CloseUnique`). One step per action
preserves each conjunct. The theorems are `TypeCorrect`, `OperationsSolelyOwned`,
`ConnectionsClosedOnce` and `ConnectionsFollowLife` (refinement: every step is a step of
`ConnectionLife` or leaves every stage alone).

Four more theorems need only what a step does to the operations in flight, so the steps are first
sorted by that (`Shaped`): they move an operation, end one, replace a receive by a close, release a
connection, open one, are a callback's call, a refused accept, a fault or a post of `initIOCP`.
`SilentInv` is inductive on top of `IInv`: while callbacks neither send nor close, `sending` and
`posting` are empty, no send is in flight and a connection has at most one operation (`OnlyOne`: a
close takes the place of the receive that ended); every accept
posted is in flight until one is refused (`AcceptsKept`); a connection about to be registered is
there and nobody else registers it (`InsertOK`); and what is in flight has not been deleted
(`NoneFreed`), since the releases that hit the wrong context follow sends and refused accepts only,
and a close is the last operation of its connection. This gives
`OneOperationEach`, `AcceptsNeverLost` and `FaultsNeedACause`. `OneWorkerAttends` assumes that no
two workers differ: then the receive posted by `doAccept` is still in flight when the connection
is registered (`Watched`), which is what fails in finding 1; callbacks may send and close in it.

`EventDispatcherProofs`. For every number of workers, names and events. `FaultHasCause` and the
refinement need an invariant on where events are: those in the list are different and
`waiting` (`ListOK`), those workers have taken are different and `taken` (`HandsOK`), and until a
callback is removed the names of both are registered and a worker's iterator is the registered
node (`NamesOK`). The theorems are `DispatcherTypes`, `NothingDeadRead` and
`DispatcherImplementsService`.

`PacketStreamProofs`. For every stream, every way of cutting it into pieces and all buffer sizes.
The invariant `Place` says where the handlers are: a context with `prevFlag` lacks the rest of one
packet that began before this piece (`Lacks`; only for the first packet do block and
`packetLength` fit it), and the loop, once it has moved, stands at a packet's end (`StandsAt`). From
it follow `HandlersInStep` and, comparing each copy with its block, `CopiesFit`. `CallsHandOver`
adds that the calls made were due and `doAccept` owes at most the first packet's (`Due`);
`CallsComeInOrder` that no call runs ahead of the stream, and that while the first packet's call is
owed all others are later packets', by other workers (`Ordered`). `FoundPacketsCalled` needs
`Tracked`: the calls made or owed are those of the packets found that end before the handlers'
place (`MadeOK`); no border of a piece lies ahead but the end of the piece in the loop (`CutsOK`);
a packet that lies across the last border is continued exactly if it was found, and the loop only
stands behind packets that were found (`CarryOK`). What `Found` says of a packet is settled once its
header's bytes have arrived (`FoundStable`), and none is found from a loss up to the next border
(`LostAfter`). That packets follow one another and that every byte belongs to one (`StartsRise`,
`PacketAt`) are inductions over the packets, made by taking the least packet for which the claim
would fail (`Smallest`). The header theorems are
`HeaderFits` (256 bytes are enough, note 1 of protocol.h), `HeaderMatched` and
`EmptyOperationUnmatched`.

`LogProofs`. For every number of threads and records and every buffer size. At any time the
accepted records are those in the file or the buffer (`AcceptedOK`), and the buffer is either
wholly in the file, between the writing and the reset of `index`, or all of it comes after what
its threads have in the file (`BufferOK`, by the owner's label: `LockOK`). A record that its
thread has not handed over yet is newer than all of that thread's accepted ones (`RecOK`).
`FlushWrites` belongs to the invariant: without it a long record could overtake what its thread has
in the buffer (`OrderOK`). `FlushStores` needs to know who has not called `fflush` yet: a record in
the file is long, stored, still in a buffer just written, or a thread is between its reset and its
`fflush` (`SyncOK`, `StoresOK`). The theorems are `FlushWritesAll`, `FlushStoresAll` and
`LogImplementsJournal` (refinement: each step is one of `LogJournal`'s, or leaves file and debt
alone).

`Indexer2Proofs`. For every number of workers and pages, whatever the pages name. An item that
waits is no worker's, and neither deleted nor waiting twice (`ItemsOK`); an address in `visitedURL`
has been searched or exactly one worker fetches it (`VisitedOK`), which is why a worker may skip
it; every page an item was made for is searched, waits or is in the hands of a worker that goes
on with it (`KeptOK`). The theorems are `PagesHandledOnce`, `NoPageLost`, `OnlyLogReadsDeleted`.

`Indexer3Proofs`. For every number of workers and pages. One worker at a time counts (`LockOK`).
`NoGap` alone is not inductive: a worker that has loaded `currentID` may store it after
`setCurrentID`, so the pages below its register have to be there as well (`GapsOK`); without early
counting the page numbers rise with `currentID` (`RisingOK`); until a request fails items are
owned as in `Indexer2` (`ItemsOK`). The theorems are `NoPageSkipped`, `PagesAskedOnce`,
`NothingDeletedRead`.

`DefaultCallbackProofs`. For every number of workers. Without an overlap at most one worker is
in the default branch, its label fixes the pointer and the heap, and with nobody in it the
pointer is NULL or the program's callback (`Calm`). The theorems are `SafeUnlessCrowded`,
`SetCallbackKept` and `DefaultsReleased`.

Only model-checked: the liveness properties (`AcceptsAgain`, `LeaversReleased`, `EventsRun`,
`SuspendRests`, `HaltReturns`, `LockReleased`, `PagesHandled`, `PagesRecorded`). They rest on
fairness, and the prover does not handle the `ENABLED` in it. Every invariant, every action
property and every refinement that a passing run checks is also proved.

## 5. What is not modelled, and the plan

Not modelled, and why:

- the session's key-value map: one library call under the lock per method;
- `stopIOCP`: nothing calls it, and its comment asks for a test; `createConnectContext`: a client's
  side that no code uses;
- which bytes go out after a partial send (server.cpp:543): the descriptor that is used lies
  behind the context's own, so any outcome of the kernel is possible, and `doSendRest` allows it;
- reuse of a deleted `SocketContext`'s address by a new one, with which a stale `pSC` would be found
  in `socketContextMap`: contexts are names that are never given out twice;
- how long a response is that `Indexer2` receives: one that fills the buffer has its terminating
  byte written behind it (Indexer2.cpp:226);
- time: `acceptTimeout` and `connectionLiveTime` are never read, so a silent client holds an
  accept for ever; thread start-up and clocks (`ThreadPool`, `Timer`);
- `CriticalSection`: its `refCount` is not protected, but no code uses the class, so which calls
  overlap is unknown;
- conversions and wrappers without state of their own: zlib, ADO, MD5, regular expressions,
  random strings, the system information helpers;
- the argument copying modes of `Event`, the empty class `Server`, `Indexer` (commented out), the
  test programs and the load generator, vendored code (most of the repository's lines are boost).

Next:

1. What liveness rests on, as far as it is safety: that a step of the worker or thread concerned
   is possible wherever one of the liveness properties needs it (for instance that in
   `EventDispatcher` and `LogModule` a lock's owner always has a step).
2. That `ConnectionLife` and `EventService` keep what their users rely on, stated on these modules
   alone.
