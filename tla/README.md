# TLA+ specifications of the account and game server

The server accepts clients, turns their bytes into messages, dispatches the
messages one after the other on a main loop, and uses two pools of MySQL
connections. This directory specifies its concurrent parts in TLA+, checks them
with TLC and proves the main results with TLAPS. Paths are relative to the
repository; line numbers are those of the commit the modules were written from.

## The system

| part | code | state | operations | specified |
|---|---|---|---|---|
| connection pool | `src/database/MySQLPool` | idle vector, three counters, `shutdown_`, two threads | `acquire`, `release`, resizing, health pass, cleanup, `shutdown` | `MySQLPool` |
| database connection | `src/database/MySQLConnection` | `connected_`, driver handles, `inTransaction_` | `connect`, `disconnect`, `ping`, queries, transactions | `MySQLConnection` (life only) |
| message queue | `src/messaging/message` | queue, `shutdown_`, waiting threads | `push`, `pop`, `shutdown` | `MessageQueue` |
| main loop, handlers | `src/main/MainLoop`, `src/handler/MainLoopHandler` | queue, `running_`, loop thread, handler table | `start`, `stop`, `addMessage`, register, unregister, `clear` | `MainLoop`, `InOrderDelivery` |
| framing | `src/handler/message_handler`, `src/messaging/message_header.h` | none: headers, completeness, parsing | `isCompleteMessage`, `parseMessage`, `serialize` | `Framing` |
| network server | `src/network/NetworkServer` | client sockets, a byte buffer per client, `isRunning` | `initialize`, `start`, accept, read, write and error events, `stop`, `shutdown` | `NetworkServer` |
| event dispatcher | `src/network/NetworkEventDispatcher.h` | a list of `weak_ptr`s | add, remove, clean up, notify | `NetworkEventDispatcher` |
| asynchronous I/O | `src/network/AsyncIOManager`, `WindowsIOCP`, `LinuxEpoll` | contexts per socket, worker threads, completion port or epoll instance | add, remove, modify, read, write, complete, start, stop | `AsyncIOManager`, `WindowsIOCP`, `LinuxEpoll` |
| application | `src/GameServer.cpp` | the objects above, `isRunning` | `initialize`, `start`, `run`, `stop`, `shutdown` | `GameServer` |
| database manager | `src/database/DatabaseManager` | table of pools, `initialized_` | `initialize`, `shutdown` | `DatabaseManager` |
| logging | `src/logging/Log` | the logger, `initialized` | `initialize`, `shutdown` | `Log` |
| accounts, configuration, results | `src/database/Account*`, `src/config`, `result.h` | none that is shared and changes | | left out: stubs, I/O, plain data |

How they meet: `NetworkServer` registers sockets with `AsyncIOManager`, whose
back end runs the callbacks; a read callback cuts the client's bytes into
messages and calls `MainLoop::addMessage()` through a raw pointer; the loop
thread calls a handler, which asks `AccountDB` and answers through
`NetworkServer::sendResponseToClient()`; callers of `DatabaseManager` take
connections from a `MySQLPool`, which makes `MySQLConnection`s and pings them
from its own threads; `GameServerApp` starts and stops everything. What is hard
in each part, at its line, is the list `hazards` of `PROJECT.json`; the
properties below are aimed at that list, and a hazard without a property says
why it has none.

## Modules

### MySQLPool

One action per critical section of `mutex_`. `acquire()` and the health pass
are several actions under a held mutex (`lock`). `acquire()` looks at
`shutdown_` twice, and `shutdown()` sets it and notifies without the mutex, so
each of its steps is an action that `shutdown()` may precede or follow: `Call`
and `Enter` (ask for the mutex, the condition of line 85), `Create`
(`createConnection()` in the loop), `Block` (`wait_until()` lets go of the mutex
and waits: a `notify_all()` that came before is lost), `Wake` (a further turn)
or `WaitTimesOut`, `Test` (line 98) and `Take` (lines 102-111, where the flag is
not looked at any more). `condition_` is a set of waiters; `notify_one` picks
any, spurious wakeups happen, and deadlines pass at any time. A slot of the
vector is a connection or the null pointer that `replaceUnhealthyConnection()`
leaves in it. The health pass keeps the iterators of its range-for (`scan`); a
`push_back` may move the vector under it, after which it reads the old buffer:
null pointers, or garbage (`StaleSlotCrash`). Both outcomes are left open, as
the standard leaves them.

`shutdown()` is four actions: exchange, notify, joins, clear. Resizing covers
`setPoolSize`, `increasePoolSize` and `decreasePoolSize` with any argument,
also negative ones. Time is abstract: `DeadlinePasses`, the threads' sleeps and
the idle age of `cleanupIdleConnections()` are choices.

What the database answers are constants: `ConnectOutcome` and `PingOutcome` are
the answers that may come. **With the `connect()` of this commit
`ConnectOutcome` is `{FALSE}`**: `NeverConnected` proves that it cannot
succeed. The pool is checked against the contract that `connect()` is
meant to keep, where it may succeed or fail each time; the theorems hold for
every `ConnectOutcome`, so for the present one as well.

Not modelled: `cleanupConnections()`, which nobody calls; `busyConnections_`,
which nobody uses; a direct call of the public `resizePool()`, which takes no
mutex; the destruction of the pool while calls are in progress.

### MySQLConnection

`connect()`, `disconnect()` and `ping()`, one action per call and exit, under a
server that goes up and down. Queries and transactions are unreachable behind
`connect()` and left to the plan.

### MessageQueue

Each call is one action; `pop(true)` that waits is split where `condition_`
gives up the mutex: `PopWaits`, then a notification, then `Wake`. `notified`
holds the consumers between the notification and the mutex: others may take the
message first.

### MainLoop and InOrderDelivery

The loop thread goes through `check`, `pop`, `lock`, `handle`: the test of
`running_`, `pop(false)`, the wait for `handlersMutex_`, and the handler under
it. The owner's `stop()` is two actions, the flag and the join. Only `push` and
a `pop` that does not wait are used and nobody shuts the queue down, so the
queue is a plain sequence here. A handler returns, throws or blocks
(`HandlerOutcome`): it answers with `send()`, and `onAcceptEvent()` makes the
sockets non-blocking on Unix only (`NetworkServer.cpp:253-259`), so that on
Windows a client that does not read holds it up (`loop = "stuck"`, with
`handlersMutex_` held). Registering, unregistering and clearing can happen whenever
`handlersMutex_` is free. No handler of the program calls `stop()` or changes
the table, so such handlers are not modelled.

`InOrderDelivery` is what the loop promises: accept a message, deliver the
oldest one. `MainLoop` implements it with `pending <- current \o queue` (the
message in hand is still pending) and `delivered <- handled`.

### AsyncIOManager, WindowsIOCP, LinuxEpoll

`AsyncIOManager` instantiates both back ends and a behaviour has one of them, as
a build has (`platform`). Each of its actions is a call, or the part of a call
up to the next point where other threads come in, and passes on to the back
end. It holds the calls to the order `NetworkServer` makes them in.

`WindowsIOCP`: one action per critical section of `contextsMutex_`. A worker (of
`MAX_THREADS`) goes through `test`, `wait` (for a completion or a wakeup,
without a time limit), `lock`, `call` (its callback, with the mutex held:
`mutex` is the worker) and `finish`. An operation is in `inFlight` until the
kernel is done with it, then in `port`. A completion names the descriptor and
not the context, as in the code, so that it may meet the context of the
descriptor's next owner; `id` is there for the properties only. `readOverlapped`
and `writeOverlapped` are flags that are set and never cleared, and bytes are
counted, not looked at. A write that begins behind the end of its buffer posts
nothing: `substr()` throws (see Observations). The callback of
`startAsyncReceive()` calls `asyncRead()` under the mutex its thread holds:
undefined for a `std::mutex`, so that it blocks for ever or proceeds, as
`RelockOutcome` lets it.

`LinuxEpoll`: `addSocket()` and `removeSocket()` are two actions each,
`epoll_ctl()` and the table, since events may come in between (`calls`; the
context that `addSocket()` makes has its number from the first of the two).
`processEvents()` takes a context out of the table (`held`), goes through the
read, write and error branches of the event (`stage`) without the mutex, and
never puts the context back. Nothing in the program calls `processEvents()`;
the pollers stand for threads that would, and `Report` for `epoll_wait()`.
`shutdown()` waits for nobody (`CloseAll`): a poller keeps what it has taken, and
an `addSocket()` that is past `epoll_ctl()` still puts its context into the
table.

### Framing, NetworkEventDispatcher, NetworkServer

`Framing` is the protocol without state, byte by byte: a header of two big-endian
numbers of 32 bits and a body of any length. `BytesOf` takes what is above 32
bits away, as the constructors of `NetworkMessage` do.

`NetworkEventDispatcher` holds `listenersMutex_` while it notifies
(`visiting`), with one action per listener; a listener whose last `shared_ptr`
is gone is passed over. `Erase(Gone(l))` is `std::remove_if()` with `erase()`:
the entries at the other positions stay, in their order.

`NetworkServer` has one event at a time: `WindowsIOCP` holds `contextsMutex_`
around every callback, and on Linux nothing runs callbacks. An event is a
sequence of steps (`event.at`) between which listeners are added and removed and
the owner calls. A read event is for a descriptor that somebody has, and carries
any bytes: what its back end delivers again, or makes up, or had read for the
client that had the descriptor before, is included (`Chunks`). `AppendData`, then
`HandOver` once per message (the message leaves the buffer after
`addMessage()`), then `EndRead` with the limit of 64 KB, then `Rearm`, the
`startAsyncReceive()` at the end of the callback. An exception at any point
(`AppendFails`, `HandOverFails`) leads to the error response (`Respond`).
`Rearm`, `Respond` and the welcome of `RegisterClient` may not come back
(`stuck`): the first two call the back end, which locks `contextsMutex_` on a
thread that has it, the last is a blocking `send()` on Windows. `received`,
`handed` and `overlong` are history, for the property. A descriptor that has
been closed is free for the next `accept()`. Each part of `initialize()` may
fail, and `shutdown()` is the I/O's and then the server's.

### GameServer, DatabaseManager, Log

`GameServer` composes `MainLoop` (all of its variables and actions),
`DatabaseManager` and `Log` with the main thread and the network's threads. Each
part of `initialize()` and `start()` is an action that succeeds or fails
(`server->start()` may answer false or throw); a failure, a `stop()` or an
exception in `main()` leads to `shutdown()`, whose parts are the sequence
`ShutdownOrder`, run once or, after an exception, twice. `pointers` are the
application's pointers that are not null, `object` what has become of the
objects: the server keeps a pointer of its own to the main loop after the
application has deleted it, so that a callback may find it deleted
(`HandOverToDeleted`: the message is lost, the thread hangs or the process
dies). A callback hands over any number of messages; it comes back, or hangs
(`CallbackReturns`) where `NetworkServer` has a step that may be the last.
`DatabaseManager` is the table of the two pools; `Log` the one logger that is
reset without a lock.

### MC and proof modules

`MCMySQLPool`, `MCMessageQueue`, `MCMainLoop`, `MCAsyncIOManager`,
`MCNetworkServer` and `MCGameServer` only give the constants their values.
`MySQLPool_proofs`, `MySQLConnection_proofs`, `MessageQueue_proofs`,
`MainLoop_proofs`, `AsyncIOManager_proofs` (with both back ends),
`NetworkServer_proofs` (with dispatcher and framing) and `GameServer_proofs`
(with the loop, the database manager and the log) hold the theorems.

## What is checked

| run | shows |
|---|---|
| `pool` | limits, counters, end of lending and integrity of a health pass, in every interleaving |
| `pool_live` | `acquire()` and `shutdown()` return |
| `queue` | no lost wakeup, nobody stays blocked |
| `main_loop` | in-order delivery (refinement), quiescent `stop()`, safe removal of handlers, progress |
| `async_io` | Windows: one operation per direction, the context of a callback stays, a wakeup for each worker that waits, shutdown returns; Linux: one thread per context, shutdown returns |
| `network` | the bytes appended for a client become its messages however they are cut, descriptors and lists agree, nothing stays open, removed listeners are silent, every event ends or hangs in a call |
| `application` | no handler or callback finds its server or loop table deleted, the log outlives the threads that write to it, what a return may leave, what shutdown may wait for |
| `pool_refusal`, `pool_drain`, `pool_announce`, `pool_stale`, `connect` | a statement of the repository that the code does not keep; see Findings |

### Properties

- `SlotsWithinMax`: idle slots and loans never exceed `maxPoolSize`. It needs
  several threads to break: `totalConnections_`, which the code compares with
  the limit, is pushed below the truth by null slots that are dropped twice;
  only the excess of `activeConnections_` keeps the pool within the limit.
- `TotalNeverOverstates`: `totalConnections_` never counts what is gone.
- `ActiveCoversLoans`: `activeConnections_` covers each slot once and each loan
  twice (a new connection is counted by `createConnection()` and again by
  `acquire()`); after `shutdown()` has reset it, late releases do not drive it
  below zero.
- `NoLoanAfterShutdown`: once `shutdown_` is set only a client that was past the
  test at line 98 gets a connection, and nobody once the pool has been cleared.
- `PassKeepsItsSlots`: nobody else touches the vector during a health pass, and
  the pass only appends.
- `EveryAcquireReturns`, `ShutdownCompletes`: liveness of the pool, also when
  the `notify_all()` of `shutdown()` falls between the test and the wait of a
  client, which then waits until its deadline.
- `WakeupsCoverQueue`: while a consumer waits, each message in the queue has a
  notified consumer on its way.
- `NoMessageStranded`, `ShutdownFreesConsumers`: liveness of the queue.
- `DeliversInOrder`: nothing accepted is lost, repeated or overtaken, over
  stops, restarts and throwing handlers.
- `StopIsQuiescent`: after `stop()` has returned there is no loop thread;
  `GameServerApp::shutdown()` deletes the loop on the strength of it.
- `RunningHandlerIsRegistered`: `unregisterHandler()` does not return while the
  handler runs.
- `EveryMessageDispatched`, `StopReturns`: liveness of the loop, after handlers
  that throw; a handler that blocks is the exception they name.

- `OneOperationPerDirection`: no two reads and no two writes of a connection are
  with the kernel, in the port and with a worker at once, although reads are
  posted both by `asyncRead()` and by completions.
- `ContextOutlivesCallback`: between the start of a callback and the end of its
  completion nobody removes or replaces the context; the worker uses it after
  the callback and erases it by descriptor.
- `OnePollerPerContext`: a context is in the table or with one poller.
- `WakeupForEachWaiter`: while `shutdown()` joins the workers of `WindowsIOCP`,
  each that waits in the port has a wakeup or a completion there, although
  workers at a completion take them as well and others come to the port late.
- `ShutdownReturns`: each worker gets a wakeup of its own. The exception it names
  is a worker that waits for the mutex it holds.
- `FramedAsReceived`: what went to the main loop and what waits in the buffer are
  exactly the bytes appended since the client was accepted, over any cut into
  events, failures on the way, several clients and reuse of descriptors. Bytes
  are given up only to a client that began a message longer than the buffer.
- `ListsFollowDescriptors`: no list names a descriptor that has been given back,
  and no buffer waits for the next client.
- `NothingLeftOpen`: once the server is down no socket is left open, whichever
  step of the start or of an accept failed.
- `SilentAfterRemoval`: after `removeListener()` no call of that listener runs or
  begins, also if it had been added twice or had expired neighbours.
- `EventsEnd`: every event ends, so the loop over the buffer does, for any data,
  unless a call into the back end or a `send()` does not come back.
- `ThreadsFindTheirObjects`: while the loop has a thread the server and the loop
  are there; while the network has threads the server is.
- `LogOutlivesThreads`: the logger is reset after the last thread that writes to
  it is gone. The exception is the pool that a failed start leaves running.
- `CleanReturn`: however far the start came, `main()` returns without an object
  or a thread of the loop or the network. After a `stop()` the pools and the log
  are down, too. A failed start may leave a pool whose successor threw, or the
  writers of a log whose `initialize()` failed later on, never both.
- `ShutdownCompletes` of the application: a shutdown that begins ends; it waits
  for ever only for a handler that blocks or a callback that hangs, and at no
  other place.

Every property has a mutant of the code in its module (a dropped comparison, a
missing reset, a flag that stays set...) under which TLC finds it violated.

### Bounds

| run | instance | why it is enough |
|---|---|---|
| `pool` | 2 clients, pool sizes 1 to 3, resizes by -1, 1 and to 1, 2, 3, `SizeBound` 4, `TotalDebt` 1 | two clients race for the last slot, wait, time out and release late; a pass has several slots, so that it can leave a null slot and append; `currentPoolSize_` reaches values below zero and above the maximum |
| `pool_live` | 2 clients, pool size 0 to 1, no resizes but to 1, `TotalDebt` 0 | one connection and two clients contend for everything fairness is about |
| `pool_drain` | sizes 1 to 3, a database that never fails | the refusal cannot be blamed on failures |
| `pool_stale` | one client, sizes 2 to 4 | the smallest in which a replacement is pushed with a slot still to check |
| `queue` | 3 messages, 3 consumers | a notified, an overtaking and a waiting consumer at once |
| `main_loop` | 3 messages, 2 types | one in hand, one queued, one still to come; with and without handler; each of the three outcomes |
| `async_io` | 1 descriptor, 2 contexts for it (`MaxContexts`), `MAX_THREADS` 2 (the code has 4), 2 pollers, reads of 2 bytes, writes of 2, `MaxUnderWay` 2 | the descriptor goes from one client to the next while a completion of the first is on its way; a read and a write are under way at once, complete in either order, in part or not at all, on two threads; 1.4 million states |
| `network` | 2 clients, 2 descriptors, two chunks of 5 and 12 bytes, `MaxBuffer` 8, `MaxReceived` 17, 1 listener, 2 entries | the two together are a message of nine bytes, one more than the limit lets wait, and one without a body; in another order or twice they cut headers, bring several messages in one event, or begin a message that is too long; a descriptor is reused while a listener is called; 356 000 states |
| `application` | 2 network threads, 3 messages of 3 types | a callback in progress or hung in one thread while another has exited; a message in hand, one queued and one without handler while the loop is stopped; every failure of the start; 81 000 states |

`MaxUnderWay` bounds the operations the server starts while others are under
way; those that completions start are not bounded by it. `MaxContexts` bounds
the calls of `addSocket()`. `MaxBuffer` stands for 64 KB: the limit matters
relative to the messages only. `MaxReceived` bounds what is appended for a
client, but in the run only: the theorems hold for all of its values.
`MaxListeners` bounds the entries of the dispatcher's vector. `SizeBound` and
`TotalDebt` keep two counters finite that the code lets run away:
`currentPoolSize_` by resizing with negative steps, `totalConnections_` by null
slots that are counted down again in every pass. Nothing else is bounded, and
the theorems hold for every value of the bounds. In `pool` the clients are
interchangeable, so symmetry is used; not in the liveness run. `CHECK_DEADLOCK
FALSE` stands where the system really ends: in `queue`, where after `shutdown()`
with the queue empty every call returns without changing anything; in
`main_loop`, where a handler that blocks may be the last thing that happens; in
`async_io` and `network`, where nothing happens after `shutdown()`; in
`application`, where the process returns, dies or hangs.

### Fairness

- Pool: weak fairness of the clock (`DeadlinePasses`); strong fairness of the
  threads that need `mutex_`, which others take again and again: a
  `std::mutex` is not fair by contract, but a thread that never gets it while
  the holders keep releasing it is not a behaviour of the platforms' mutexes.
  Strong fairness of `WaitTimesOut`: a client whose deadline has passed is not
  notified in time for ever. Nobody is forced to call anything.
- Queue: a notified consumer gets the mutex.
- Main loop: the loop thread runs and its handlers end or block (they ask the
  account stubs and send, which may block on Windows), and a join of a thread
  that has exited returns. Nobody is forced to send, start or stop.
- Asynchronous I/O: workers, pollers, the loop thread and the thread in
  `shutdown()` run. The kernel is not forced to complete anything.
- Network server: the thread of an event and the thread in `shutdown()` run.
  That covers listeners, of which the program has none: one that never returned
  would hold up its event. No event has to come.
- Application: the main thread, the loop thread and callbacks that have begun
  run; handlers and callbacks end or block as above. Nobody has to call `stop()`
  and no data has to come.

## What is proved

TLAPS proves every invariant and every action property of the passing runs, for
all values of the constants that satisfy the named assumptions. These are:
`PoolAssumption` and `ThreadAssumption` (finitely many clients, `0 <= min <=
max`, the marks of a free mutex and of the health thread are no clients),
`QueueAssumption` and `LoopAssumption` (a type for each message),
`PlatformsAssumption` (a positive buffer size, data that is not empty, any
number of worker threads), `ServerAssumption` (chunks are sequences of bytes
that are not empty, the buffer has room for a header) and `AppAssumption` (the
two message types that the application registers are types). The actions are
those that TLC runs.

| module | theorems | inductive invariant |
|---|---|---|
| `MySQLPool_proofs` | `TypeCorrect`, `PoolWithinMax`, `PoolActiveCoversLoans`, `PoolNoLoanAfterShutdown`, `PoolPassKeepsItsSlots`, `PoolTotalNeverOverstates` | `Budget`, `Seats` |
| `MySQLConnection_proofs` | `NeverConnected` | the theorem itself |
| `MessageQueue_proofs` | `QueueTypeCorrect`, `QueueLosesNoWakeup` | the property itself, with the types |
| `MainLoop_proofs` | `LoopTypeCorrect`, `LoopStopIsQuiescent`, `LoopHandlerIsRegistered`, `LoopDeliversInOrder` | `Handshake` |
| `AsyncIOManager_proofs` | `IOTypeCorrect`, `IOOneOperationPerDirection`, `IOContextOutlivesCallback`, `IOOnePollerPerContext`, `IOWakeupForEachWaiter` | `IOInv` |
| `NetworkServer_proofs` | `ServerTypeCorrect`, `ServerListsFollow`, `ServerNothingLeftOpen`, `ServerSilentAfterRemoval`, `ServerFramedAsReceived`, `ServerParsesWhatIsSerialized` | `ServerInv`, `NotificationInv`, `FramingInv` |
| `GameServer_proofs` | `AppTypeCorrect`, `AppThreadsFindTheirObjects`, `AppLogOutlivesThreads`, `AppCleanReturn` | `AppInv` |

Each invariant was checked with TLC on the instance of its run before it was
proved. The arguments:

- Pool. `SlotsWithinMax` is not inductive: the code's own counter,
  `totalConnections_`, cannot carry it, since it drifts. `Budget` carries it:
  `activeConnections_` covers slots and twice the loans, the limits hold, and
  `closing` moves only after `shutdown_` is set. Each operation changes slots,
  loans and counter in one of four ways (`BudgetStep`).
  `TotalNeverOverstates` compares the counter with the slots that hold a
  connection: lemmas say what each operation on the vector makes of their number
  (`LiveCreate`, `LiveAppend`, `LiveDropBack`, `LiveSlotReset`), and a step that
  raises the counter raises what it counts by as much (`TotalStep`). A
  client that is about to take a slot must still find it, with `shutdown_` set or
  not: `Seats` says that who creates, tests or takes has the mutex, that the slot
  is there and that `shutdown()` has not cleared the pool, which needs the mutex,
  too. `NoLoanAfterShutdown` and `PassKeepsItsSlots` rest on it: who takes a slot
  and who checks them exclude each other, and `shutdown()` clears the vector after
  its joins.
- Connection. No call of `connect()` ever sets `connected_`, in any order of
  calls and states of the server.
- Queue. By cases on who is notified and who takes the message.
- Main loop. The thread exists from `start()` to the end of the join and exits
  only when `stop()` is on its way (`Handshake`). A step of the loop maps to
  `Accept`, `Deliver` or a stutter of `InOrderDelivery`.
- Asynchronous I/O. One behaviour has one back end, so the invariant has a part
  for the manager (`ManagerInv`) and one for each back end. For `WindowsIOCP`:
  an operation or completion has the number of a context there has been
  (`NumbersInv`), a context that has one of a kind under way is marked so
  (`MarksInv`), and no two of a kind are under way, place by place: with the
  kernel, in the port, with the workers (`KernelInv`, `PortInv`). Marks are set
  with the operation and never taken off, so that nothing is posted twice; a
  context on a descriptor that is used again has a number of its own, so that
  completions of the last one say nothing of it. That a completed write is no
  longer than its buffer is a matter of types, and needs the check of
  `substr()`. A worker in a callback has the mutex (`WorkersInv`), which is why
  its context stays. `WakeupForEachWaiter` is inductive with the manager's part:
  after the wakeups are posted a worker that takes an entry of the port waits no
  longer, and `running_`, which is false by then, keeps it from waiting again
  (`WakeupsKept`, `DequeueWakes`). For `LinuxEpoll`: a context is in the table,
  with a poller or still in the `addSocket()` that makes it (`PlacesInv`).
- Network server. An open descriptor is listed but for the one that is just
  being added or closed (`DescriptorInv`), and the event in progress knows what
  has been done for it (`EventInv`). The listener that is called is the entry the
  notification is at, and every entry is registered (`NotificationInv`).
  `FramedAsReceived` holds from the accept to the removal of a client
  (`Listed`), which is what `FramingInv` adds to it, and nobody is handed
  anything before something was received (`ReceivedInv`). A message leaves the
  front of the buffer as the bytes it came in: the lemmas on bytes
  (`BytesOfUint32`, `Uint32OfBytes`) say that reading four of them and writing
  the number gives them back, and the other way round up to 32 bits, and
  `CompleteMessage` and `ServerParsesWhatIsSerialized` that parsing and
  serialising are inverse to each other. What `EndRead` drops is more than the
  buffer holds, in front of which an incomplete message stands: its client is in
  `overlong`.
- Application. The list of what `shutdown()` has yet to do is a rest of
  `ShutdownOrder` (`AtItsPart`), and whatever exists still has its part ahead:
  the loop (`LoopHandshake`, which contains that of the main loop), the
  network's threads (`NetworkHandshake`), objects and log (`Inventory`), pools
  (`PoolInventory`), and the log with what a failed start leaves of it
  (`LogInventory`). After an exception the list is begun again in the middle,
  which is why these say "ahead" and not "not yet".

Only model-checked is liveness: `EveryAcquireReturns` and `ShutdownCompletes` of
the pool, `NoMessageStranded`, `ShutdownFreesConsumers`, `EveryMessageDispatched`,
`StopReturns`, `ShutdownReturns`, `EventsEnd` and `ShutdownCompletes` of the
application. They rest on fairness, and TLAPS reasons neither about fairness nor
about ENABLED here. Two more limits shape the modules: the induction theorems
over data cannot be instantiated, so that what `Erase()` keeps is a choice of
positions and not a recursion; and RECURSIVE operators are not accepted, so that
no module has one.

## Findings

- `pool_refusal` (`MySQLPool.cpp:85`): an exhausted pool refuses at once; the
  comment at line 81 promises to wait or time out.
- `pool_drain` (`MySQLPool.cpp:106`): new connections are counted twice and
  released once; after enough discarded connections the pool refuses for ever
  with nothing lent out. `tests/MySQLTest.cpp` expects 100 rounds to succeed.
- `pool_announce` (`MySQLPool.cpp:92`): connections that a resize or a health
  pass adds wake nobody.
- `pool_stale` (`MySQLPool.cpp:240`): the health pass pushes into the vector it
  iterates.
- `connect` (`MySQLConnection.cpp:58`): the ping that tests a new connection
  needs the flag that is set after it.

## Observations

Seen while modelling, where no statement of the repository is contradicted by a
run or where the behaviour is part of the models:

- No event reaches the server. The four callbacks that `NetworkServer` registers
  are stored and never called (`src/network/AsyncIO.h:149`), nobody posts the
  first read or accept, and nobody calls `processEvents()` on Linux.
- The signal handler stops `g_server`, which is null (`GameServer.cpp:72`), so
  nothing ends `run()`. `Stop` of `GameServer` is the call it is meant to make.
- `shutdown()` deletes the main loop while callbacks still hand messages to it
  (`GameServer.cpp:247`); `HandOverToDeleted` is the result. Deleting the server
  first would not do either: handlers use it.
- A pool that exists when an exception ends `DatabaseManager::initialize()` is
  passed over by `shutdown()`: its threads outlive the log.
- `LOG_INFO("Shutdown complete")` and `Log::flush()` come after
  `Log::shutdown()` and do nothing.
- `WindowsIOCP.cpp:265` appends filler bytes instead of those received and never
  empties `readBuffer`, so that every read event would deliver the bytes of the
  earlier ones again: `NetworkServer` then cuts the same bytes into messages once
  more. `Received` models the lengths. A second read of a context
  is never posted: `readOverlapped` is not cleared (`:308`).
- Both back ends have one callback per socket: the error response of
  `onReadEvent()` (`NetworkServer.cpp:357`) takes the place of the receiver's
  until the next `startAsyncReceive()`. `LinuxEpoll` reports a hang-up twice and
  drops what a short write left.
- A write completion that meets the context of the descriptor's next owner,
  whose own write was refused, moves its `writeOffset`; the `writeBuffer` of a
  later `asyncWrite()` may be shorter, and then `substr()`
  (`WindowsIOCP.cpp:353`) throws out of `asyncWrite()`. The model had let such a
  write be posted with a negative size, which the proof of `IOTypeCorrect` did
  not.
- A callback of `WindowsIOCP` runs with `contextsMutex_` held, and both
  `startAsyncReceive()` and the error response lock it again.
- On Windows client sockets stay blocking (`NetworkServer.cpp:253`): a client that
  does not read holds up the handler that answers it, with `handlersMutex_`, and
  the `stop()` of the main loop.
- A connection may be lent while the pool is shutting down, to a client that was
  past the test at `MySQLPool.cpp:98` when the flag was set.
- An exception of `insert()` (`NetworkServer.cpp:308`) loses the bytes of its
  event, and what follows is framed without them.
- `LinuxEpoll::shutdown()` closes the epoll instance under calls and pollers that
  are in progress; a context may be in the table afterwards.
- A log that fails after it has started its writers leaves them running:
  `Log::shutdown()` passes it over.
- When the second worker cannot be started (`WindowsIOCP.cpp:178`), `shutdown()`
  joins the first without having woken it.

## Not modelled

- `asyncAccept()` and `postAccept()` of both back ends, `modifySocket()` of
  `WindowsIOCP`, whose result nobody reads, and `activeConnections_`, which only
  sets how long a thread sleeps; a second `startEventLoop()`, which nobody makes.
- `NetworkServer::handleClient()` and `processLoginRequest()`, which nobody
  calls; `getNextMessage()`, whose queue nobody fills; sending
  (`sendToClient()`, `broadcastMessage()`), which changes no state, beyond that
  it may block. That an answer goes to whoever has the descriptor by then is a
  hazard without a property for that reason.
- `DatabaseManager::getConnection()`, `returnConnection()` and `resizePool()`,
  which pass a call on to a pool and which nobody calls. The pools of
  `GameServer` are names in a table; `MySQLPool` specifies what is behind one.
- Transactions and queries of `MySQLConnection`: `NeverConnected` proves that
  no call gets to them.
- `AccountDB` and its asynchronous wrapper: stubs without shared state.
  `ConfigManager` and `INIReader`: a file read once, constant getters.
  `result.h`: plain values.
- Listeners that call the dispatcher, and handlers that change the table or stop
  the loop: each blocks itself, and the program has none.

## Plan

Done, in this order: `MySQLPool`, `MessageQueue`, `MainLoop` with
`InOrderDelivery`, the life of a connection; the asynchronous I/O, the network
server with framing and dispatcher, the application; then the proofs of every
safety property of these.

Next:

1. An abstract pool (a set of at most `maxPoolSize` connections, lent or idle)
   that `MySQLPool` implements, from `Budget` and `Seats`.
2. The dispatcher as an implementation of a set of registered listeners.

If `connect()` is repaired: sessions and transactions through the pool.
