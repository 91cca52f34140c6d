# A verification project for ClientServerExample

The repository holds two Qt programs. A **client** lets one user compose a task
(sort an array, find primes, tabulate a function) and send it to a **server**,
which computes it on a thread pool, streams progress, sends the result and
caches it. The client can cancel. This directory holds TLA+ models of that
system, the TLC runs that check them, and proofs for TLAPS.

- [Inventory](#inventory): the parts of the system, what is hard about each
- [Models](#models): module by module, with the correspondence to the code
- [Runs](#runs): what is checked, on which bounds, and what it shows
- [Findings](#findings): where code and comments disagree
- [Proofs](#proofs): what is proved, from which assumptions, by which argument
- [Plan](#plan): what is still to be written, in order
- [Not modelled](#not-modelled)

To check: `tlc -config ExampleServer.cfg MCExampleServer` (likewise for the
other `.cfg` files) and `tlapm ExampleServerProofs.tla` (likewise for `QueueCounting`
and the other modules named `...Proofs`).

## Inventory

### Threads and queues

Server: the *main* thread runs `ExampleServer`; a *net* thread (`NetThread`) runs
`TcpServer`; the *pool* (`QThreadPool`) computes. Client: the *GUI* thread runs
`MainWindow`; a net thread runs `TcpClient`. In both programs a logger thread
runs `RegLogger`. Threads interact by posted events only: each thread's event
queue is a FIFO, and a handler runs to completion. So a handler is one
action, a queue is a sequence, and all the concurrency lies in the order in
which the threads take their next event and the order in which events are posted.

    MainWindow --sendMessageQueued--> TcpClient ==TCP==> TcpServer --posted parseRequest--> ExampleServer
    MainWindow <--posted parseResponse- TcpClient <==TCP== TcpServer <--sendMessageToQueued-- ExampleServer
    MainWindow <--socketStateChanged--- TcpClient          TcpServer --clientDisconnected---> ExampleServer
                                                   pool --call-outs of QFutureWatcher-------> ExampleServer

### Components

| component | state | operations | hard about it | correct when |
|---|---|---|---|---|
| `ExampleServer` | `m_taskMap` (one `Task` per peer), `m_cache`, posted events | `parseRequest`, slots of the watchers, `onClientDisconnected` | lambdas hold raw `Task` pointers; a cancel request, a disconnection and the end of the computation race | no call-out outlives its `Task`; one last reply per request, in order; only complete results cached or sent; every task ends; an orphan is canceled |
| `divideIntoChunks` | – | one function | narrowing and wrapping at the ends of `int` | the chunks partition the range; no more than allowed; all but the last big enough |
| task algorithms | – | `sortArray`, `findPrimeNumbers`, `calculateFunction` | each runs per chunk, the results are joined | the chunks' joined result is that of the whole range |
| `MainWindow` | send button, `m_isAwaitingCancel`, dialog | `onSendRequest`, `onSendCancel`, `parseResponse`, `onSocketStateChanged` | replies and socket states arrive late | never locked out; dialog only for a task; one request at a time |
| `TcpServer` | sockets by pointer, address and name; sockets not yet authorized; partial messages | login, `readReceived`, `sendMessageTo`, `onSocketDisconnected`, open and close | several maps to keep in step; nested signals; timeouts | maps agree; one connection per name; nothing of a socket outlives it |
| `TcpClient`, `NetConnection` | socket, reconnect timer, `m_connectionState`, partial message | connect, reconnect, login, send, read, close | queued timeout, `close()` that signals | closed stays closed; one login per connection |
| framing | `PendingMessage` | both `readReceived` | any segmentation, reconnection, byte order | the messages read are the messages sent |
| `NetThread` | connections, waits | `open/reopen/close/destroyWait`, `instantiateWait` | polling for a signal | every wait ends, with its own answer |
| `Protocol` | – | (de)serialization, `byteSize` | two formats | what is read is what was written |
| `RegLogger` | map of files | `addFile`, `removeFile`, `logData` | its own thread, blocking call | lines go to their file, no one blocks |
| dialogs, mains, settings | – | presentation, start-up | – | – |

`PROJECT.json` lists the hazards one by one, each at its line, with the property
that covers it or the reason why none does.

## Models

### `ExampleServer`, refining `TaskContract`

`ExampleServer.tla` is `ExampleServer.cpp` on its main thread, with the pool and
the net thread as environment.

| in the model | in the code |
|---|---|
| `events` | the main thread's posted events: messages, disconnections, call-outs of all watchers |
| `taskMap[a]` = id, work, future, done, canceled | `m_taskMap` and, in the `Task`, its request, watcher and future; `id` stands for the pointer the lambdas hold |
| `cache[w]` | `m_cache`; a request stands for its hash, the number stored for the chunks the result was made of |
| `outbox` | `sendMessageToQueued`, events of the net thread |
| `connected` | authorized sockets in `TcpServer` |
| `owed` | history: replies not given yet; read by no action |

Every branch of `parseRequest` is an action that takes the head of `events`:
`RejectCorrupted`, `RejectUnknown`, `ReplyFromCache`, `RefuseSecondTask`,
`StartTask`, `CancelNothing`, `CancelTask`. The order of the code's tests is in
the guards: the cache is asked before the map, so a peer with a running task is
still served from the cache; a missing field is noticed only after the test for
a running task. The slots are `OnProgressRange`, `OnProgressValue`, `OnFinished`
(both slots of `finished()`: the result is sent by the one connected first, then
it is cached and the task erased). `CompleteChunk` and `ReportFinished` are
QtConcurrent, marked external and modelled from its contract: progress may be
throttled but for the last value, a canceled future takes no more results, and
`cancel()` marks even a future that has finished while `finished()` is queued.
`CacheInsert` may drop any entries, as `QCache` does when their cost exceeds its
limit: nothing here depends on which.

Data is abstracted to its kind: a message is a task request `w`, text that does
not decode, a task request that lacks a field, an unknown type, or a cancel
request; a result is the number of chunks it contains.

`TaskContract.tla` is what clients are promised, without queues or call-outs:
jobs start (at most one per peer), may be stopped, and end with exactly one last
message, complete if it is a result; known results are answered at once.
`ImplementsContract` and, with fairness, `FairlyImplementsContract` say that the
server implements it (`Contract == INSTANCE TaskContract WITH ...`).

### `Chunks`

`divideIntoChunks` as a small state machine: the guards (`Reject`, `TakeWhole`),
the choice between the two ways of dividing with its narrowing to `int` (`Plan`),
one step per turn of the loop (`Emit`), `Finish`. `MaxInt` is a parameter; every
store to an `int` wraps (`Narrow`), the 64-bit `total` does not.

### `TaskMath`

What the server computes on the chunks: the overload of `divideIntoChunks` for
containers, `sortArray` with the `inplace_merge` that joins its results,
`findPrimeNumbers` and `calculateFunction` with their `_reduce`, each as an
operator on the chunks that `Chunks` has made. Their loops over an `int` are sequences
(`Loop`), and whether such a loop ends is a question of its own (`LoopEnds`). What
`std::sort` returns is said by counting (`Sorted`): the `k`-th number is the one with
fewer than `k` numbers below it and at least `k` that are not above it. What a loop
pushes back of the numbers it goes through is `Picked`. Of a
point only `x` is kept: its value depends on `x` alone. The three properties
compare what is joined with what one pass over the whole range would give. Each
names the conditions under which they agree, and these are the interesting part:

- a chunk that lies below 2, or ends at 1, yields the prime 2 all the same, and so does
  every chunk that begins at 2 or below: chunks of three numbers and a range from
  0 that reaches 2 are needed. (The server's chunks have 100 numbers; the client's
  spin box begins at 0, and the range 0..1 yields the prime 2.)
- the points of a divided range are those of the whole only if the step divides
  the size of the chunks;
- a range that ends within a step of `INT_MAX` makes the loop overflow.

### `ClientWindow` and `ClientServer`

`ClientWindow.tla` is the part of `MainWindow` that decides what the user may do:
the send button, `m_isAwaitingCancel`, the progress dialog, and the handlers.
`m_isAwaitingTask` is not in it: no code ever sets it to true, and only the
button keeps a second task back.

`ClientServer.tla` composes it with the *whole* of `ExampleServer`
(`Server == INSTANCE ExampleServer WITH ...`), `TcpClient`, the wire and
`TcpServer`. Each thread boundary is a queue of its own (`posted`, `up`,
`events`, `outbox`, `down`, `guiEvents`), so that a cancel request and a result
can cross. The connection can be lost at any time, with all that is on it; then
`Unconnected` is posted to the GUI thread behind what is already there. An
attempt to connect can fail (`FailToOpen`); a successful one sends the login
first (`Open`); and one that was on its way when another succeeded logs in again
(`LoginAgain`, from what `TcpClient.tla` shows), which the server takes for a
request that does not decode, and whose answer unblocks the window. The server
refuses a login while the user's old connection has not ended for it, and closes
the new one, which the client notices (`NoticeShut`). It may refuse any login besides, since the
login timer may end first, or the login may complete a message that another socket had
begun. A reply is dropped unless its address is the live connection's.

A connection may come from any of the addresses, one used before included. With
`portIn` configured it does so each time it is opened (the socket is bound in
`openConnection`; what the reconnect timer starts need not be). The map of tasks,
and every reply, go by the address alone, so that a new connection may be refused
because of the task of the old one, and gets its replies.

`m_pendingMsg` of the client outlives its connection. If one is lost while replies are
on their way (`Drop`), it may be cut within one, and from then on the client is out of
step with its connections (`torn`): `ReadReply` may read a reply as it was written, may
take it for part of a message and show nothing, or may take its bytes for a message that
no reply was (`misread` counts these). Of such a message matters only whether it is one
of progress or one that unblocks the window; a reply gives at most one. A connection may
also be lost just where the reader has come to the end of a message, or of what it took
for one, and then the next one is in step (the other choice of `Drop`). `OutOfStep` is a
live connection read like this, and the properties of the window are claimed but for it.
Lost in the reader can be the reply that the window waits for (the button stays blocked
until the connection is lost), or the answer to a cancel request. The other direction is
read in step here: what the client sends before it is served is its login, whose
completion is the server's business (`TcpServer`).

One simplification, without effect on the window: what the server may still read
from a connection that the client has lost is dropped. The server may as well have
read it just before the loss, as its own queues delay it as long as they like, and
no login is accepted before the old connection has ended there.

### `TcpServer`, refining `Sessions`

`TcpServer.tla` is the class of that name on its net thread, for one message at a
time; how messages are cut into bytes is in `Framing`.

| in the model | in the code |
|---|---|
| `Socket`, `state` | places of `QTcpSocket` objects, and Qt's state of each: accepted, `left` by its peer (not noticed yet), `closing` with bytes unsent, `dead` until `deleteLater` takes effect |
| `client`, `byAddr`, `byHost`, `byUser`, `authMap` | `m_clientMap`, `m_clientByPeerAddressPort`, `m_clientsByPeerAddress`, `m_clientsByLoginUsername`, `m_socketAuthMap` |
| `pending` | `m_pendingMsgBySocket`: nothing (or an entry of size zero, which acts the same), a message begun by this socket, or one begun by an earlier socket at the same place |
| `mixed` | history: addresses from which a client was served on a message that another socket had begun |
| `thread` | running; crashed by undefined behaviour; hung in a loop that does not end |
| `last` | history: what this handler posted to the main thread |

Qt's signals are direct on this thread: `close()` and `abort()` of a socket run
`onSocketDisconnected` before they return, so that a handler that closes sockets
contains `Disconnect`. Only `close()` with unsent bytes does not (Qt keeps the
write buffer, so that the bytes can still go out): that socket stays in all maps, `closing`.
Undefined behaviour in the code has two outcomes, a crash and going on without
effect (`Survives`): `printSocketError` for a socket that never logged in
(`NoticeEnd`), a missing entry by host (`HostMissing`), an iterator removed under
the loop of `sendMessage` (`BroadcastFails`). `reopenConnection` is
`closeConnection` and then `openConnection`; sending to a host is sending to each
of its addresses. Both switches, authorization and the filter, are set before the
server is opened; all four combinations are initial states.

Two assumptions about peers: one address has one connection at a time, although
the end of the last one may be noticed after the next one is accepted (a client
with a configured port whose network failed); and one address uses one name. That
no two clients share an address then follows from the refusal of a name that is
connected already. Without authorization nothing refuses the second connection,
and the maps lose it: `EveryClientIsFound` is claimed with authorization only, as
`ExampleServer` runs it.

The second assumption is about what a peer sends. What the server reads may be another
thing: a socket that leaves before it has logged in leaves the message it had begun
to the next socket in its place. That message is completed by the new peer's bytes, and
`readReceived` takes it for login data if it begins like them (the bytes behind are not
looked at), so that the new socket may be accepted in any name (`Claims`), the
one of the peer before included. From then on it is read out of step (`pending` stays
`inherited`, see `Finish`), and its address may come to be shared, since the name no
longer is the peer's. `mixed` records such addresses. `EveryClientIsFound` and
`KeepsSessions` are claimed up to that point; `PointersAreLive`, `ServedOrTimed` and
`CredentialsHold` beyond it.

`Sessions.tla` is what the main thread takes for granted: the steps `Connect`,
`Arrive` and `Leave` by which `ExampleServer.tla` models its environment. That
`TcpServer` implements it (`KeepsSessions`) justifies that environment.

### `Framing`, refining `MessageStream`

`Framing.tla` is one direction of one connection at a time, in bytes: `sendMessage`
writes a header (the length) and the message, TCP hands over any number of bytes
(`Arrive`), and `readReceived` is its loop, one action per path: no complete header
yet (`AwaitHeader`), a part of the message (`ReadPart`), its rest (`ReadRest`).
`pending` is `PendingMessage`: `size` bytes are missing and `msg` holds those before
`curPos`. The readers differ in what a new connection starts with (`Left`, `Inherited`).
`TcpClient` has one `PendingMessage` for its life. `TcpServer` keeps one for each
place of a socket in memory, and removes it when a client that was served disconnects;
so a server that asks for a login (`reader = "login"`) leaves the message
that a socket had begun before it logged in to the next socket in that place. The model
follows one place: the next connection may come to it, or to one that is untouched. A
first message that is no login ends the connection (`Refuse`). `torn` records that a reader has,
or went on with, a message of which an older connection had carried only the beginning.

`MessageStream.tla` is what both programs, and `ClientServer.tla`, take a
connection for: a FIFO of whole messages that is emptied when the connection
breaks. `KeepsStream` says that `Framing` implements it, for any cuts and any
number of losses, up to the point where the stream is torn: from there on the reader
may read anything (`TcpClient.cpp:161`, `TcpServer.cpp:273`). What the window makes of
its replies then is in `ClientServer`, what the server makes of a login in `TcpServer`.

### `TcpClient` and `NetThread`

`TcpClient.tla` is the client's connection with its base class `NetConnection`.
Handlers call each other (`reopenConnection` closes and opens, `openConnection`
tries, `close()` signals before it returns), so each is an operator from the state
of the object to the states it may end in, and each posted event is an action.

The setters run on their caller's thread, without a lock. One first tests that the
connection is not open and then writes (`SetterGoes`); the net thread may be anywhere
meanwhile, within `openConnection` too (`Meanwhile`, between its lines). `raced` says
that a setter was at work when the connection was opened last: its write may come at
any time afterwards, and neither `OpenLeadsThere` nor the first half of `LoginsInOrder`
holds then. One setter is at work at a time, and an assignment of `ConnectionSettings`
is one step: that its fields may come from two values is left out.

| in the model | in the code |
|---|---|
| `client.conn`, `.settings`, `.authorization`, `.timer` | `m_connectionState`, `m_connectionSettings`, `m_isAuthorizationEnabled`, `m_reconnectTimer.isActive()` |
| `client.setter` | the setter another thread is in, before its test or before its write, and what it sets |
| `client.socket`, `.peer` | Qt's state of the socket; it is `closing` while `close()` waits for bytes unsent |
| `events` | the thread's posted events: the `...Queued` calls, the timer's queued timeouts (`try`), the call posted by `setEnableReconnect` |
| `client.said` | `openedConnection` and `closedConnection`, as emitted by the last handler |
| `waiting` | which `...WaitThreadedConnection` polls its `isDone` |
| `client.wanted`, `.written`, `.crossed`, `.raced` | history |

`NetThread.tla` extends it by the thread: a connection is instantiated in it, used
from other threads, waited for, and destroyed, with which the thread ends
(`m_isQuitWhenNoConnections`). One thread at a time waits, as the comment of
`instantiateWaitThreadedConnection` demands; any thread may post calls, and call the
setters, meanwhile. A wait ends by the next signal of its kind, whoever caused it
(`Wake`), as in the code.

### Faulty variants

A definition `X_Word` directly before `X` is `X` with a mistake one could make
(`Busy_WhileRunning`, `IsCanceled_Never`, ...). No action refers to these; each
was put in the place of `X` to see that the property it threatens notices. Two
of them are mistakes of Qt rather than of this code, in what the code relies on:
`ReportFinished_Full` (a canceled future that waits for all its chunks) and
`Undelivered_All` (posted events that outlive their receiver).

## Runs

| run | checks | bounds |
|---|---|---|
| `server` (`ExampleServer.cfg`) | `TypeOK`, `CallOutsFindTheirTask`, `FinishedComesLast`, `ResultsAreComplete`, `RepliesInOrder`, `EveryRequestAnsweredOnce`, `OrphansAreCanceled`, `ImplementsContract` | two peers, two requests (of one chunk and of none), three inputs: task, incomplete or cancel message, or disconnection |
| `server_live` (`ExampleServerLive.cfg`) | `EveryTaskEnds`, `EverythingIsAnswered`, `FairlyImplementsContract` | one peer, one request of two chunks, three inputs of every kind |
| `chunks` (`Chunks.cfg`) | `TypeOK`, `PartitionsRange`, `WorthTheirThreads`, `SortIsWhole`, `PrimesAreWhole`, `PointsAreWhole` | a six-bit `int` (`MaxInt = 31`), every range, counts and sizes around each guard, four steps |
| `chunks_overflow` (`ChunksOverflow.cfg`) | `PartitionsEveryRange` (violated) | as `chunks` |
| `client_server` (`ClientServer.cfg`) | `TypeOK`, `DialogShowsATask`, `OverlapsAreAccounted` | two connections from two addresses or twice from one (the addresses are symmetric), three clicks, one request of no chunks |
| `client_server_live` (`ClientServerLive.cfg`) | `NobodyIsLockedOut`, `CancelIsAnswered` | two connections, two clicks, one request of no chunks |
| `client_server_spam` (`ClientServerSpam.cfg`) | `ButtonIsBlocked` (violated) | one connection, three clicks, one request of one chunk |
| `tcp_server` (`TcpServer.cfg`) | `TypeOK`, `PointersAreLive`, `EveryClientIsFound`, `ServedOrTimed`, `CredentialsHold`, `ClientsAreReadInStep`, `KeepsSessions` | two sockets' places, three addresses (two of one user), three connections |
| `tcp_server_close` (`TcpServerClose.cfg`) | `CloseConnectionEnds` (violated) | as `tcp_server` |
| `framing` (`Framing.cfg`) | `TypeOK`, `KeepsStream`, `EverythingIsRead` | each of the three readers; four messages of three lengths, two losses, one-bit bytes and headers of two bytes |
| `framing_big` (`FramingBig.cfg`) | `EverythingIsRead` (violated) | as `framing`, with `NET_ENDIANNESS` big on a little-endian machine |
| `net_thread` (`NetThread.cfg`) | `TypeOK`, `TimerIsInStep`, `LoginsInOrder`, `OpenLeadsThere`, `KeepsTrying`, `EveryWaitEnds` | three calls (setters among them) by any thread beside instantiating and destroying, settings with two destinations, with none and without a local address |

Why these bounds are enough to be interesting:

- *server*. Two peers share the cache and the event queue, and nothing else;
  three inputs are what it takes to have a task, something that races with it
  (a cancel request, a disconnection, a second request) and something after. Two
  requests, because an entry of the cache must be told from the request asked.
- *server_live*. Liveness is about one peer's queue: the other only delays it.
  A task of two chunks can be canceled between them, and its progress throttled.
- *chunks*. The two ways of dividing, their remainders and both ends of the type
  all occur within six bits, and so do the odd squares 9 and 25, whose roots are the
  last divisors tried; the arithmetic is the same at any width, and for
  `PartitionsRange` and `WorthTheirThreads` that is proved.
- *client_server*. Three clicks are task, late cancel request, next task: the
  shortest overlap. The second connection gives a stale `Unconnected`, a refused
  login and messages posted before the loss and sent after it. Two tasks
  overlapping across the connections give a refusal (`AlreadyRunningTask`), also of
  a request by the task of an earlier connection from the same address. A loss within a
  reply leaves the second connection out of step. The task has no chunks (an empty array),
  so that its progress is its range and first value only: with a chunk the state space is
  several times as large. Progress by the pool is in the runs of the server, whose
  `RepliesInOrder` puts it before the end of its task, and the theorems on
  this module are for any division into chunks.
- *tcp_server*. Two places let two sockets overlap, and three connections let a
  place and an address both be used again. Two addresses of one user give a
  refused second login, and the third address a second user served next to the
  first. One host suffices, as hosts meet only in the lookup by host.
- *framing*. A header of two bytes can itself be cut; messages of one to three bytes
  are shorter than, as long as and longer than a header, and with one-bit bytes
  every message could pass for headers, so that a reader out of step goes on
  reading. Four messages and two losses let a torn message be followed by whole ones, on
  a connection that goes on with it and on one that does not.
- *net_thread*. Three calls are what it takes to open, disturb and reopen: two
  attempts that cross, a close that leaves the socket `closing` under the next
  open, settings changed in between or by a setter that an opening overtakes.

`CHECK_DEADLOCK FALSE` stands in every configuration, for each of these systems may stop:
the function returns, the peers have sent what they will, the user clicks no more.

What they show, beyond their names:

- `CallOutsFindTheirTask` and `FinishedComesLast` are the memory safety of the
  raw `Task*` captured in `makeConnects`: no queued call-out outlives its task
  and none comes after its `finished()`.
- `OrphansAreCanceled` needs the FIFO from the net thread: were requests and
  disconnections delivered through different queues, it would fail.
- `EveryRequestAnsweredOnce` holds with one sharing: a cancel request that meets a
  task is answered by that task's last reply.
- `OverlapsAreAccounted` is how far the window's blocking really goes: in every
  state the requests not answered yet number at most one for a blocked button,
  plus one for each cancel request sent, each attempt to connect that failed, was
  lost again, or logged in a second time, and each message made of several replies' bytes
  by a reader out of step. With none of these the button does what its comment says.
- `NobodyIsLockedOut` is what makes it right to ignore `AlreadyRunningTask` in
  `parseResponse`, and to drop a message silently in `sendMessage`. It does not hold on a
  connection read out of step, nor does `CancelIsAnswered`: the reply may be lost in the
  reader. There the user has to reopen the connection.
- `PointersAreLive` is the "guaranteed to be safe" of `TcpServer.cpp:162`: the maps by
  address, host and name lead to a client that is there and is the right one, in both
  modes. The loop of `sendMessage` goes over `m_clientMap` itself, and may hold an entry
  that was removed (`BroadcastFails`); neither program calls it on the server.
- `ClientsAreReadInStep` says how entries of strangers do harm: with authorization, and
  only if the message that another socket had begun came out as a valid login. Without
  authorization every socket is served, and all entries are removed.
- `OpenLeadsThere` and `LoginsInOrder` are what the guard of the setters is for. It does
  not suffice if a setter runs while the connection is being opened (`raced`).
- `LoginsInOrder` says when a second login is sent: if an attempt by the timer was
  queued already when another one succeeded, or if `openConnection` is called on a
  connection that came back by itself. What it does to the window is in
  `OverlapsAreAccounted`.
- `EveryWaitEnds` takes it that one thread waits at a time, and says nothing of what
  `instantiateWaitThreadedConnection` polls without synchronization. It holds for every
  wait but one: `openConnection` returns without a word if the connection is open, so
  that `openWaitThreadedConnection` of an open connection polls in vain. Both programs
  open theirs once, or reopen it.
- `KeepsTrying` covers the repository's reconnection: after a loss, a failed attempt,
  a `close()` that ends late, or a timer disabled and enabled again. `wanted` is
  what was asked for; a connection that comes back after `closeConnection` (the
  signal of `close()` starts the timer that was stopped) is in the model as well.

### Fairness

Weak fairness of: each event loop (`HandleEvent`, `Deliver`, `Window`,
`SendPosted`, `ReadReply`, `ReadRequest`), since a Qt loop takes its next event;
each pool computation (`Compute`), since the algorithms are loops over a finite
range and a runnable of the pool is run; the notice that the peer has closed the
connection (`NoticeShut`), since the socket reports it. Nothing is assumed of the
user (`Click`), of peers (`Connect`, `Receive`, `Disconnect`), of reconnection
(`Open`) or of the network (`LoseLink`): a lost connection need not come back.

In `Framing`: weak fairness of bytes arriving on a connection that lasts, and of
`readReceived`, a loop without waits. In `NetThread`: weak fairness of the thread's
event loop (`TakeEvent`) and of its timer (`TimerFires`), and strong fairness of
`Reach`: a host that is tried again and again answers in the end. The last one is an
assumption about the network, and `KeepsTrying` is what the code makes of it: it does
not cease to try.

Requests whose loops do not end, or may not, are outside this assumption: a range within a
step of `INT_MAX` makes the loop variable overflow. (A step of zero, which the client
refuses to send, would be a division by zero first, in the `reserve` of
`calculateFunction`.)

## Findings

- `chunks_overflow`: `divideIntoChunks` stores 64-bit quotients in `int`
  (`Utils.cpp:29`). Its comment says that one special case alone overflows; with
  `max_chunk_count > 1` the range `INT_MIN..-1` with chunks of one number yields
  nothing. With the server's constants (100, 100) every range is partitioned.
- `client_server_spam`: a cancel request that comes too late is answered
  (`ExampleServer.cpp:325-331`), and the answer unblocks the window
  (`MainWindow.cpp:490-494`) that was unblocked by the result already and may
  be waiting for the next task. "Block button while awaiting Task completion"
  (`MainWindow.cpp:303`) fails on a connection that is never lost.

- `tcp_server_close`: `closeConnection` expects `close()` to end a client right
  away (`TcpServer.cpp:58`). One with bytes unsent (it has not read for longer than
  `sendMessageTo` waits) stays in the map, and the loop spins on it forever, on the
  thread that would have to write the bytes. Destroying the server does the same.
- `framing_big`: `NET_ENDIANNESS` is heeded by the readers alone. `sendMessage` of both
  sides writes the header as it lies in memory (`TcpClient.cpp:99`,
  `TcpServer.cpp:167`). With the `BIG` that `README.md:38` offers, on a little-endian
  machine the first header is read backwards and the reader waits for good.

Met on the way, and in the models without a run of their own, since nothing in the
repository promises otherwise: a client whose connection broke within a message reads
everything after out of step; a socket may be served on a login that it did not send
alone; a setter that tested before an opening may write after it; a closed connection
may come back, and a second login may follow (above); a reopened connection may fail to
bind because its socket is still closing, and stays closed then; the edges of ranges in
`TaskMath`.

## Proofs

All proofs are for arbitrary constants (any peers, requests, hosts, users, chunk
counts, numbers of connections, clicks and attempts, any width of `int`), from the
named assumptions of the modules alone. The bounds that keep TLC's instances finite
are constants like the others: no proof depends on their values.

| module | theorem | says |
|---|---|---|
| `ExampleServerProofs` | `TypeCorrect` | `Spec => []TypeOK` |
| | `CallOutsAreSafe` | `Spec => []CallOutsFindTheirTask` |
| | `FinishedIsLast` | `Spec => []FinishedComesLast` |
| | `ResultsComplete` | `Spec => []ResultsAreComplete` |
| | `ServerImplementsContract` | `Spec => ImplementsContract` |
| `ServerOrderProofs` | `OrphansEnd` | `Spec => []OrphansAreCanceled` |
| | `RequestsAreAnswered` | `Spec => []EveryRequestAnsweredOnce` |
| | `RepliesComeInOrder` | `Spec => []RepliesInOrder` |
| `ChunksProofs` | `ChunksTypeCorrect` | `Spec => []TypeOK` |
| | `RangeIsPartitioned` | `Spec => []PartitionsRange` |
| | `ChunksAreWorthTheirThreads` | `Spec => []WorthTheirThreads` |
| | `PointsAreJoined` | `Spec => []PointsAreWhole` (`TaskMath`) |
| | `EveryArrayIsSorted` | `Spec => []SortsEveryArray` (any array; stated in `ChunksProofs`) |
| | `SubarraysAreMerged` | `Spec => []SortIsWhole` (`TaskMath`) |
| | `PrimesAreJoined` | `Spec => []PrimesAreWhole` (`TaskMath`) |
| `TcpServerProofs` | `TcpTypeCorrect` | `Spec => []TypeOK` |
| | `NoDanglingPointers` | `Spec => []PointersAreLive` |
| | `NoConnectionIsForgotten` | `Spec => []ServedOrTimed` |
| | `EveryClientIsEntered` | `Spec => []EveryClientIsFound` |
| | `NobodyOutlivesCredentials` | `Spec => []CredentialsHold` |
| | `NoMixedMessages` | `Spec => []ClientsAreReadInStep` |
| | `TcpServerKeepsSessions` | `Spec => KeepsSessions` |
| `NetThreadProofs` | `NetTypeCorrect` | `Spec => []TypeOK` |
| | `TimerStaysInStep` | `Spec => []TimerIsInStep` |
| | `LoginsComeFirst` | `Spec => []LoginsInOrder` |
| | `SettingsTellTheHost` | `Spec => []OpenLeadsThere` |
| `ClientServerProofs` | `ClientServerTypeCorrect` | `Spec => []TypeOK` |
| | `OverlapsAreFew` | `Spec => []OverlapsAreAccounted` |
| | `DialogEndsWithItsTask` | `Spec => []DialogShowsATask` |
| `FramingProofs` | `FramingTypeCorrect` | `Spec => []TypeOK` |
| | `FramingKeepsStream` | `Spec => KeepsStream`, if `HostOrder = NetOrder` |

`QueueCounting` holds lemmas about queues that several of them need: what the head,
the tail and an appended element are, and how the number of elements of a sort
(`Count(s, E)`) changes at the two ends.

*Server, by itself.* `TypeOK` alone is not inductive: `OnFinished` reads the task of
its call-out, which `CallOutsFindTheirTask` says is there. Nor is that: erasing the
task in `OnFinished` is safe only if no other call-out of it is queued. That is
`FinishedComesLast`, whose second half (a future is finished exactly when its
`finished()` is queued) is needed in turn so that the pool posts nothing behind
it; and an identity is never used twice, so that a call-out of an old task cannot
pass for one of a new task. The conjunction is inductive (`SafeInvariant`).
`ResultsAreComplete` adds that a finished future that is not canceled has all its
chunks, and that no future has more than its request. The refinement maps the map of
tasks to jobs and the outbox to mail, forgetting events and futures; pool steps and
call-outs that send nothing are stutters, and the invariants above give the
contract's guards.

*Server, queue by queue* (`ServerOrderProofs`). `OrphansAreCanceled` needs to know
why no message of a client that is gone can start a task behind its back: each queued
message of it has a disconnection behind it in the queue (`MessagesAreFollowed`),
since messages and disconnections are posted by the same thread. For
`EveryRequestAnsweredOnce` the replies owed are counted in the queue itself
(`Balance`). `RepliesInOrder` spans two queues: what is in the outbox was a call-out
before, so one relation (`InOrder`) holds within the outbox, within the events, and
from the one to the other; in addition what was sent of a task is no more than it has
done, and no two tasks share an identity.

*Chunks.* The invariant says what the loop has built so far: it emitted `i` chunks
that cover `x_from .. current - 1` without gap or overlap, `current` not having
wrapped yet unless the last chunk ends at `MaxInt`, and a formula for `current`
by `i` on each of the two ways. It needs multiplication by a variable, whose few
facts are lemmas of their own. The precondition `Usable` and that the
quotients fit an `int` are the hypotheses in `PartitionsRange` itself.
The points rest on the partition. A loop over a chunk of whole steps ends where the
next chunk's loop begins (`LoopJoins`), `FlattenSeq` joins the results one turn of
its fold at a time (`FlattenJoins`), and so, by `EveryNumber`, what is joined of the
first chunks is the loop over their part of the range (`PointsJoin`). A loop that
ends a step below `INT_MAX` does not wrap (`LoopIsOver`).
Sorting is decided by the counts alone: arrays of the same length with as many numbers
below each bound are the same when sorted (`SortedByCounts`). Sorting changes no count
(`SortedCounts`) and joining adds them (`ConcatCounts`), so merging two sorted parts
gives what sorting them joined would give (`MergeSorted`), and after `k` turns of the
merging loop the first `k` chunks are sorted (`SortOfChunks`). That there is a `k`-th
number at all is again `EveryNumber` (`RankExists`).
For the primes: an odd number with a divisor has one that is odd and no greater than
the root (`PrimeTest`); the primes of two ranges that meet are those of both joined
(`PrimesInJoin`); what a chunk's odd loop leaves out is not prime (`OddPrimes`,
`BeforeFirstOdd`), so a chunk that reaches 2 finds the primes of its part
(`FindsPrimes`). Every chunk reaches 2 because the first does, and that it does is where
`min_chunk_size >= 3` and `WorthTheirThreads` are needed.

*TcpServer.* `TypeOK`, `ServedOrTimed` and `PointersAreLive` hold together or not at
all: an entry of a map is used without a test because the timer or the client behind
it is known to be there, and is kept because the maps fit each other. To these come
that the maps of names are empty without authorization, and the types of the parts
(`Books`). Handlers that end sockets are described by what is left of every map
(`Ends`, `Disconnected`), which is proved once and used for each of them, loops that
end many sockets included. `EveryClientIsFound` needs that a client's name is that of
its peer's user, unless its address is in `mixed`; `ClientsAreReadInStep` follows
what was inherited from the socket that is made to the client that is served; and
`CredentialsHold` follows the credentials through the steps that remove them. For
the refinement every action is shown to be one action of `Sessions` or a stutter, as
long as `mixed` is empty.

*NetThread.* The thread handles one event at a time on one object, and handlers call
handlers (`openConnection` closes and tries, a timer tries, a signal starts a timer).
So the invariant of the object (`Fits`, `LogsInFirst`, `LogsInOnce`) is proved of each
handler as a function, with a condition on what it may be called with (`Ready`) and
on what it returns (`Results`). Around it: an object that is gone has only its
creation in the queue; events are queued only while the thread runs; a timer runs
only while reconnecting is enabled or the event that enables it is queued; and an
attempt that is queued on an open connection has been noticed (`crossed`), which is
why a second login is never a surprise. A setter may take a step between any two lines of
an opening, so that the handlers that open are taken apart line by line, each with
the setter's step in front; what is claimed of the settings is claimed of connections
that no setter had begun to change (`raced`).

*ClientServer.* Its server is an instance of `ExampleServer`, and what was proved of
that is used as it is: requests come from the wire instead of from anybody, so the
lemmas about posting are stated for any request (`Posts`). On top of that are three
arguments.

- Types (`Sound`): an address that is served is one the server takes for connected,
  and nothing is on the wire of a socket that is not connected. This is what holds
  when addresses come back.
- `OverlapsAreAccounted` is not inductive, because a login or a refused request has to
  become something when it goes from one queue to the next. The invariant is an account
  (`Accounted`): whatever can lead to an answer or to a blocked window unblocked, in any
  of the six queues and in the map of tasks (`ServerLoad`, `WireLoad`, `ClientLoad`), is
  no more than the blocked button, the cancel requests and the lost attempts allow, and
  the messages misread so far (`Credit`). Every action moves it along, loses it, or adds
  to both sides (`MayChange`); the awaited requests are among the load.
- `DialogShowsATask` follows each message of progress through three queues: behind it,
  in its own queue or in one before, there is the end of its task, the task itself, or
  the loss of its connection (`StepsEnd`). That the queues are FIFO, that a task
  leaves the map with its last reply, that a second task is refused without an end,
  and that replies to a connection that is no more are written to no other are
  each needed for it. Of a connection that is read out of step it says nothing.

*Framing.* First, numbers: `k` bytes stand for the numbers from 0 to a greatest one,
and each of these has its bytes (`NumbersOfBytes`), so that a header is read as the
number it was written for (`HeadersAreRead`) if both sides use one byte order; where
they do not, the run `framing_big` shows what comes of it, and so equal orders
are a hypothesis of `FramingKeepsStream` (not of the theorem on types). Then the
invariant `InStep`: what has been read of the message in progress, what has been
received and what is on its way are, one behind the other, the messages that are
due (`Encodes`: a list of the places where they end). A piece of the bytes that
moves from one of the three to the next changes nothing of it; the message that
completes is the first of those due. While `torn` is set nothing is claimed; it is
set when a message is left behind, and taken back only by a connection
that starts without it. The provers have no induction over data, but
they have that a set of numbers has a least one: `EveryNumber` makes it do, here as
in `ChunksProofs`.

*Model-checked only.* Every liveness property and `FairlyImplementsContract`: fairness
is out of the prover's reach. Everything else the passing runs check is a theorem.

## Plan

1. *Done:* `ExampleServer` with `TaskContract`, `Chunks` with `TaskMath`,
   `ClientWindow` and `ClientServer` (reused addresses included), `TcpServer` with
   `Sessions`, `Framing` with `MessageStream`, `TcpClient` and `NetThread`, with the
   runs above.
2. *Done:* the theorems above: every safety invariant and every refinement without
   fairness that the runs check.
3. Open: the liveness properties stay with the model checker, on the instances above.

## Not modelled

- *Serialization* (`Protocol`, `parseJsonVar`). Field by field, one format writes what
  it reads; it has no state and no order of events. What of it matters to the rest
  is in the models: that a message may not decode, may lack a field
  (`RejectCorrupted`) or have an unknown type (`RejectUnknown`). Noted while reading:
  `Request_CalculateFunction::deserialize` notices a point that is not a pair
  (`Protocol.cpp:196`) but goes on with it, where the other checks return. The
  models are of the `JSON` format. The branch of `BINARY` in `parseRequest` calls
  `onCorruptedMessage(msg)` without the address (`ExampleServer.cpp:140`), which that
  function has no default for (`ExampleServer.hpp:54`): it does not compile.
- *Log files* (`RegLogger`). Its thread only receives. Each program starts it and adds
  its one file before any connection exists; lines are posted and nothing waits for
  them. Removing a file and deleting the logger are called by neither program.
  Noted while reading: `onAddFile` looks for the requested name among full names,
  with date and extension, and so never finds a file again.
- *Presentation*: widgets, charts, composing and showing requests, the keys of the
  progress dialog, the settings dialog (four values copied; accepting them posts
  `reopenConnectionQueued`), texts of errors and log lines.
- *Programs*: command line and settings files are read once, before everything else.
- *Address helpers*: value types.
- *The callback thread* of `NetConnection`, which neither program uses. The setters
  that replace a callback, a log function, login data or an interval: they have the
  guard of `setConnectionSettings`, which is modelled, or none, and values nothing tells
  apart.
- *`~NetThread`* and ending the thread while it has connections: neither program does.
  (The destructor waits for connections to be destroyed by a thread that is over.)
  The wait functions called on the net thread itself are plain calls of what they post.
- *Time*: a timer fires or not, an attempt fails or not; how long it takes is open.
- *Hash collisions* in the cache: equal hashes stand for equal requests.
