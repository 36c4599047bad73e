# A verification project for espbridge

espbridge turns a microcontroller board into a peripheral of a computer.  A
Python library (`src/python/espbridge`) sends framed commands over a serial
port, BLE or TCP; a firmware (`src/src`) executes them and answers.  This
directory holds TLA+ models of the parts whose correctness depends on the order
in which threads, tasks, frames and failures happen, TLC configurations that
check them on small instances, and TLAPS proofs of what matters most for every
size.

- `*.tla` without prefix or suffix: a component, or an abstract specification;
- `MC*.tla` and `*.cfg`: an instance for TLC (one `.cfg` per run);
- `*_proofs.tla`: theorems about a component, for `tlapm`;
- `PROJECT.json`: components, runs, mutants, the map from definitions to source
  lines, findings, hazards and theorems.

## 1. The system: an inventory

Paths are relative to `src/`.  "Hard" names what a test hardly reaches.

### Host library

**Request engine** (`python/espbridge/bridge.py`: `request`, `_request_once`,
`_alloc_seq`, `_timeout_error`, `_read_loop`, `_handle_frame`, `close`).
*State:* the last sequence number, the pending table (number -> waiting request),
the reader thread, `_closing`, `_link_dead`.  *Operations:* a request takes a free
number, registers, writes its frame under the write lock and waits; the reader
matches a reply to a request by number alone and wakes it; a timeout retries
(commands not in `NON_IDEMPOTENT`) and then confirms with one ping; `close` sets the
flag, joins the reader and closes the transport.  *Hard:* many threads share the
table; answers are late, lost or meet a number that was given to somebody else;
the reader ends while requests wait.  *Correct when:* a request owns its number
until it removes it; a reply reaches another request only after its own has given
up; a non-idempotent command runs at most once; the dead flag follows a failed
ping; every call ends.

**Flow control** (`bridge.py`: `_reserve_window`, `_decr_window`, `send`;
`transports/serial.py`, `ble.py`).  *State:* bytes in flight, per number for
requests and in total for fire-and-forget sends.  *Operations:* reserve before
writing, release when the request ends, credit all sends when any reply arrives.
*Hard:* check-then-act in `send`, a timeout that releases bytes the board still
buffers, a wait that falls through.  *Correct when:* the bytes outstanding never
exceed the board's buffer, and the total counts what is recorded.

**Opening a Bridge** (`bridge.py`: `__init__`, `_connect_auto`, `_raise_baud`,
`_probe`, `from_env`).  *State:* candidate ports, the baud rate on each side.
*Operations:* try candidates, handshake, move both ends up a ladder of rates, fall
back when a rate does not carry.  *Hard:* the two ends at different rates after a
lost answer; an old reader thread beside a new one.  *Correct when:* the ends
agree once the constructor returned, and a board that answers is found.

**Shared links** (`manager.py`: `BridgeManager`, `connect`, `disconnect_all`).
*State:* a registry of managers by settings, each manager's lock, its current
Bridge, its heartbeat thread.  *Operations:* `bridge()` returns the link or
replaces a stale one (looked at without the lock, then with it); `connect()`
always replaces; `disconnect()` closes; the heartbeat pings or replaces;
`disconnect_all()` forgets and shuts down.  *Hard:* each look-up is followed by a
step that may find the world changed; opening can fail half way.  *Correct when:*
a board's port is open once; nobody's healthy link is taken away; calls return;
shutdown ends the heartbeat.

**Several boards** (`bridge.py`: `BridgeSet`, `Bridge.all`, dial-home listener).
*State:* the boards found and adopted, the listener.  *Operations:* adopt what a
search finds and what dials in, drop what went stale, close all.  *Hard:* a board
that dials in while the set is being closed, or turns up twice over two links.
*Correct when:* a board is adopted once and nothing survives the close.

**asyncio facade** (`aio.py`).  *State:* the Bridge of a session, streams of events.
*Operations:* each call runs the synchronous one in a worker thread.  *Hard:* a
cancelled task leaves its thread running; two tasks connect at once.  *Correct
when:* a session has one Bridge, and a stream keeps its order.

**Codec** (`protocol.py`): COBS, CRC and a splitter that resynchronises on zero
bytes.  *Hard:* full blocks beside zeros and the end.  *Correct when:* decoding
inverts encoding and a spoilt byte costs the frames beside it.  **Transports**
(`transports/*.py`): byte I/O; the BLE one joins blocking threads to an event loop
and cuts frames into writes.  *Correct when:* frames stay whole and close() frees
a blocked reader.

**Sockets** (`net.py` with `src/esp/mod_net.cpp`).  *State:* host sockets by handle,
receive buffers, acknowledgement counters; on the board eight slots with a
window each.  *Operations:* connect, listen, accept, send, receive, close, and
events for data, accept and close.  *Hard:* events can be dropped, overtake the
answer that announces their handle, or speak of a handle that was used again.
*Correct when:* bytes arrive in order, a slot's unacknowledged bytes stay within
`NET_WINDOW`, and no byte reaches another connection.

**Events** (`uart.py`, `can.py`, `espnow.py`, `gpio.py`, `watch.py`, `ble.py`).  *State:*
queues and tables of callbacks that the reader thread fills and reads.  *Hard:* a
registration and its command are two steps; queues overflow; what arrives for one
caller waits for whoever asks next.  *Correct when:* events come in order and
reach those who asked.

**Calls of several requests** (`fs.py`, `ota.py`, `i2s.py`, `camera.py`, `spi.py`,
`onewire.py`, the `drivers/`).  *State:* a descriptor, a cursor, a selection or a
register on the board or a chip, often with a copy on the host.  *Hard:* one
request of several fails, is repeated by a retry, or another thread's comes in
between.  *Correct when:* data is whole and its own, the copy agrees with the
chip, a reading is of the measurement asked for.

**Adapters** (`compat/`, `mcp/`, `cli.py`): the same calls under other interfaces, with
a picture of pins, volumes and ports kept beside the board's.

### Firmware

**Tasks and queues** (`src/espbridge/protocol.cpp`).  *State:* a receive ring per
link, transmit queues with a task each, the slow queue, the authentication state
of each link, the link a request came from.  *Operations:* `rx_task` splits frames,
checks, executes or hands to `slow_task`; answers wait up to 250 ms for room in a
transmit queue and are then dropped, events are dropped at once.  *Hard:* three
kinds of task share queues; a link's session ends while its request runs.
*Correct when:* an executed request is answered on the link it came from, or its
answer counted as dropped; a full queue is said so.

**Wi-Fi link** (`link_tcp.cpp`): *state* listening and client sockets, whether
armed, a deadline.  **Radio ownership** (`radio.cpp`, `mod_wifi.cpp`,
`mod_espnow.cpp`): who keeps the radio on; *correct when* it is on while one of
those that need it does.  **ESP-NOW** (`mod_espnow.cpp`): one synchronous send at a
time and its callback; *correct when* a status belongs to its packet.  **Watch
rules** (`mod_watch.cpp`): a condition with hysteresis per rule; *correct when* the
host knows each rule's state unless a report was dropped.  **Files, OTA, 1-Wire,
BLE** (`mod_fs.cpp`, `mod_ota.cpp`, `mod_onewire.cpp`, `mod_ble.cpp`): sessions with
state on the board.  **Peripheral modules** (`mod_i2c.cpp`, ...): one command, one
driver call, one answer.  **BLE link**, **nRF52 port**: the same over other drivers.

### How they interact

Application threads call the request engine; `BridgeManager` creates and closes
the Bridge they share and its heartbeat is one more caller.  The engine reserves
window bytes, writes to a transport and is answered through its reader thread.
On the board `rx_task` feeds modules inline or through `slow_task`; modules answer
through the transmit queue of the link the request came from, and poll loops and
driver callbacks emit events into the same queue.  Events reach host objects
(sockets, watches) through the reader thread as callbacks.

## 2. Plan

In order of weight; the models are done, and the proofs where the last column says
so.  What has no proof is checked by TLC.

| | module | component | abstract specification, properties worth stating | proofs |
|-|--------|-----------|-------------------------------------------|--------|
| A | `BridgeRequests`, `RemoteCall` | request engine | refines a remote procedure call | types, table ownership, executions, late replies, dead flag, the refinement's steps (done) |
| B | `BridgeManager` | shared links | one link, healthy link kept, calls return | types, one link, healthy link kept (done) |
| C | `FlowWindow` | flow control | bytes outstanding against the board's ring | types, accounting, waiters, overruns (done) |
| D | `NetSockets` | sockets, both ends | credit, whole streams, owners | window bound, owners, own bytes, ends, whole streams, credit (done) |
| E | `FirmwareTasks` | the tasks of the firmware, the cable and Bluetooth sessions | an answer goes to who asked, a session's password is its own, what it left costs one frame | all three, and the types (done) |
| F | `WifiLink`, `RadioOwners` | sessions of the Wi-Fi link; who owns the radio | what of one session reaches the next; the radio is on while owned | all of the link's invariants; ownership and scans (done) |
| G | `EspNowSend` | synchronous send and callback | a status belongs to its send | both invariants (done) |
| H | `BaudLadder`, `BoardSearch` | opening a Bridge | both ends agree; the right board, and none missed | both (done) |
| I | `BoardSet` | dial-home, adopt, close all | one link per board, nothing survives close | both (done) |
| J | `WatchRules` | watch rules | the callback of a rule knows its state | both invariants (done) |
| K | `CobsCodec`, `BlePipe` | framing, the BLE transport | decode inverts encode; frames stay whole | the transport's (done) |
| L | `FileStore`, `EventInbox`, `ChunkedTransfers`, `OneWireBus`, `BleCentral` | sessions with the board | whole and its own, in order | `EventInbox` and `BleCentral` (done) |
| M | `LoraRadios`, `LoraModem`, `Nrf24Radio`, `SensorReadings`, `MotorDriver`, `ExpanderChips` | device drivers | what the driver says of the chip is so | `LoraRadios` and `Nrf24Radio` (done) |
| N | `AsyncFacade`, `PinFacades`, `McpTools` | adapters | one session; the picture is the pin | `AsyncFacade` and `McpTools` (done) |

`BridgeRequests` is the composition point.  Its firmware is one link; E has several
with their origins, and shows that an answer comes back on the link of its
request, which is what one link can stand for.  The components G to N meet only through the request engine, whose
promise to them (a request is executed and answered, executed with its answer
lost, or not executed) is taken from `BridgeRequests`; `MCComponents` puts an
instance of each into one run.

`Parts` declares what those modules share: a behaviour is one of a single component,
`part`, with a `host`, a `board` and a `wire`.  Three families of them are specifications
in their own right, about which theorems can be stated: `HostLinks` (`BaudLadder`,
`BoardSearch`, `BlePipe`, `BoardSet`, `AsyncFacade` and `McpTools`: how a program comes to its
boards and what holds its links to them), `BoardModules` (`FirmwareTasks`,
`RadioOwners` and `WatchRules`, what the firmware shares out) and `Peripherals`
(`LoraRadios`, `Nrf24Radio`, `EspNowSend`, `EventInbox` and `BleCentral`: what comes in from
outside a board while the program is in a call).  `MCComponents` extends
all three, so that the invariants TLC checks there are the ones the theorems name.

## 3. What the modules model

One action is one step that other threads can observe: what the code does while
it holds a lock, or between two awaits, waits or calls that can block, is one
action.  A *history* or *ghost* variable records what the code does not, so that
a property can speak of it; no action reads one to decide anything.

**`BridgeRequests`** (`bridge.py:518-948`, `protocol.cpp` from the splitter to the
reply).  A call is in `pc` "alloc", "write" or "wait".  `AllocSeq` and `AllocFull`
are `_alloc_seq`; `Write` and `WriteError` the locked write; `TakeReply`, `GiveUp`
the wait's two ends with all that follows them: release of the entry, retry,
confirming ping, dead flag.  `ReadFrame` and `ReaderExit` are the reader thread.
`RxInline`, `RxEnqueue` and `SlowRun` are the board: an inline answer, the slow
queue or BUSY, and `slow_task`.  `LoseFrame`, `LinkDown`, `BoardReset` and
`CloseBegin` are what can happen to a link.  A frame carries the identity of the
attempt it belongs to, which no guard reads; `orphans` are the attempts that
ended without their answer, `ran` counts executions.

**`RemoteCall`** is what `request()` promises: a call begins, is executed no more
often than its command may be repeated, and ends.  `BridgeRequests` instantiates it as
`RC`: a call is new until it has its number, open while a thread has it, and its
executions are those of its attempts, the confirming ping not among them.

**`BridgeManager`** (`manager.py`, with `close()` and `is_alive()` of `bridge.py`).
A process is a thread that calls `connect`, `reconnect`, `disconnect`,
`disconnect_all` or closes a link itself, or a manager's heartbeat.  `FastPath`
is the look without the lock; `Acquire`, `Recheck`, `CloseOld`, `OpenBegin`,
`OpenDone`, `OpenFail` the locked replacement, in which closing and opening take
time (`state` of a link: opening, open, closing, closed).  `Tick`, `Beat` and `Ping`
are one round of the heartbeat.  `BoardDrops` and `BoardReturns` are the board.  The
history `built` is the number of links there were when a manager was stopped, so
that `OneLink` can name the cases in which two links are open at once: the
application is in close() of one of them; `disconnect_all()` has cleared the
registry and not yet closed that manager's link (`manager.py:188-194`); or a
manager opened one after it was stopped, by a connect() that had looked it up
before, by a heartbeat that was past its wait, or by a kept manager's connect().

**`FlowWindow`** (`bridge.py:823-940`, the caps in `transports/serial.py`).  A thread
reserves (`Reserve`, or waits, or after its wait `FallThrough`), writes, and
releases with its answer or its failure (`DecrWindow`); a `send()` checks, writes
and counts in three steps.  `pipe` is what is written and not consumed; `lost` says
that it exceeded the board's ring.  `slips` counts waits that ended without room
and requests that ended while their frame was under way.

**`NetSockets`** (`net.py`, `mod_net.cpp:11-204`).  Two queues join an application
thread per socket, the reader thread and `slow_task`, whose poll loop reads no
more than the window lets through.  Bytes carry their connection and number.
`raced` marks connections whose event or answer met a handle that somebody else
holds or that is not registered yet.  An answer can be lost or late (`failures`
counts both); connect, listen and close are not in `NON_IDEMPOTENT`, so `request()`
then sends them again (`Retry`), and the board may execute both, or the call
raises (`GiveUp`); what was under way for the first try stays under way and finds
nobody.  So a connection can have two slots, and a second `NET_CLOSE` can close a
slot's next occupant.  `overdrawn` are the connections whose slot an
acknowledgement of another one credited, when it changed hands under it.

**`WifiLink`** (`link_tcp.cpp`, `protocol.cpp`).  Sessions are numbered.  `slow_task`
runs a request (`SlowTake`, `SlowReply`) and polls: `PollDead` and `PollLost` begin
a drop, `DropEnd` is what follows its pause, `PollAccept`, `PollDial` and
`PollDialled` end in `Adopt`.  `rx_task` reads a chunk and puts it piece by piece
through the accumulator (`RxRead`, `RxPiece`), and can be held inside a long
request until `RxUnblock`.  `TxPass` is a pass of `tx_task`.  What a host sent is
chosen when it is looked at.  `straddled` records that `rx_task` was still inside
a session when the next one was adopted, `outlived` the sessions whose requests
were then still to be answered.

**`FirmwareTasks`** (`protocol.cpp`, `link_ble.cpp`).  Client 0 is the host on the cable,
the others are Bluetooth sessions that follow each other (`Connect` and `Disconnect`
are the callbacks of the vendor's stack).  `RxRead` takes a chunk of either link,
`RxPiece` puts it through that link's accumulator, `handle_auth` and `dispatch`;
`Enqueue` is `enqueue_frame` with its targets, `ReplyDestination` the origin each task
noted, `TxWrite` and `TxDrop` one stream's turn in `tx_task`.  A central needs many ticks
to connect again: `Settled` says what the tasks, which look every tick, have done
by then, and that a request which holds `rx_task` up is the exception.

This one and those below keep their state in three records, `host`, `board` and `wire`, so
that `MCComponents` can run them side by side: what the library keeps, what the
board or the chip keeps, and what is under way (with the bounds).  A request
with its reply is one step unless something can come between the two.

**`BaudLadder`** (`bridge.py:313-420`, `518-735`).  An exchange is answered
only if both ends are at one rate; the constructor boots, probes, climbs and falls
back; close() hands the board back at its boot rate.  **`BoardSearch`** (`bridge.py:430-515`, the
`discover` of the transports) lists advertisements family by family, opens,
authenticates, asks who it is, and retries the rest.  **`BoardSet`**
(`bridge.py:1170-1290`, `TcpListener`): the enumerating thread, the accept loop,
close_all() and boards that dial again.  `MainOpen` and `Judge` also have the ways out
that are no BridgeError, or not caught: what a driver raises, and a port that
the listener cannot bind.

**`WatchRules`** (`watch.py`, `mod_watch.cpp`): add, remove and clear by threads,
`Poll` samples a rule and queues a report or drops it.  `Begin` numbers a call's request,
and a reply wakes the call that has its number.  `upset` are the ids of which nothing is
promised any more: used again by their caller or by two threads, or cleared meanwhile.  **`RadioOwners`** holds the
bits of `radio.cpp`, released as there; scans hold none.
**`EspNowSend`** numbers packets; `Draining` empties the semaphore before a
waiting send, `ff` is `ff_outstanding`, the count of callbacks nobody waits for.

**`CobsCodec`** encodes two frames and a third, sends them in pieces with a byte
spoilt, splits and decodes them again.  **`BlePipe`**:
`write()` hands its pieces to the loop and waits under the lock; `read()` is woken by
a notification or by close().  **`AsyncFacade`**: tasks take turns only at an await;
worker threads run on when their task is cancelled.

**`FileStore`** (descriptors, listing, OTA), **`EventInbox`** (UART bytes and lines, CAN
queue, pin callbacks), **`BleCentral`** (scans, client, server) and
**`ChunkedTransfers`** (seven kinds of calls in pieces, chosen by Init) follow one
session with the board.  `FS_CLOSE` and `FS_LIST` are repeated after a timeout (`CloseAgain`,
`ListTimeout`), the other requests to files and images are not.  **`OneWireBus`** is the ROM search with the board's three
single operations, beside a thread that reads a sensor.

**`LoraRadios`** interleaves the SPI accesses of send() and receive() with packets
from the air, on chips that latch flags or keep buffers as their drivers assume;
**`LoraModem`** follows settings into registers; **`Nrf24Radio`** has the FIFOs and
flags of an nRF24L01+.  **`SensorReadings`** takes one reading of each of thirteen
kinds through command, conversion and decoding, at the ends of the ranges.
**`MotorDriver`** and **`ExpanderChips`** set outputs in several requests of which one
may fail.  **`PinFacades`** and **`McpTools`** compare what the adapters believe with
the board.

## 4. What is checked

Every run ends with no state left; deadlock is checked in all of them but
`components`, whose parts really stop when their calls are made (elsewhere a
finished behaviour is an explicit `Done` step where everything has a last call).

| run | instance | question and answer |
|-----|----------|---------------------|
| `requests_shared` | 2 threads, 1 number, 2 calls, 1 fault, 1 retry | With the table full, answers late or lost: a request keeps its entry, only one that gave up leaves its answer to another, a non-idempotent command runs once, the dead flag follows a failed ping. |
| `requests_faults` | 1 thread, 2 numbers, 2 calls, 2 faults | `request()` implements `RemoteCall`, liveness included. |
| `requests_late` | 2 threads, 2 numbers, 3 calls, no fault | *Violated:* a reply one cycle late is taken by the next holder of its number. |
| `manager` | 2 threads, 3 calls, 2 managers, 5 links, 1 drop | One link at a time but for the three cases that `OneLink` names, healthy links kept, calls return, shutdown ends the heartbeat. |
| `manager_drop` | 2 threads, 1 manager, 7 links, 1 drop | *Violated:* a link that dies while idle is never noticed by the heartbeat. |
| `flow` | 3 threads, 4 calls, sizes 1 and 3, window 4, ring 7 | The accounting is exact, no waiter is alone, and an overflow has one of three causes. |
| `flow_mixed` | 2 threads | *Violated:* a request beside a burst overflows the ring though nothing failed. |
| `net` | a server, one connection each way, 2 slots, 2 bytes, 1 frame lost or late | `window_used` covers what is owed, streams are whole, ends noticed, slots owned. |
| `net_reuse` | two clients of one server, no fault | *Violated:* closing the first socket throws away bytes of the second. |
| `wifi` | 2 sessions, 3 pieces each, queues of 1, 1 loss of the access point, both modes | Authentication, answers and frames stay in their session but for requests that outlast it; a dead session ends. |
| `wifi_newcomer` | 2 sessions, listening | *Violated:* a newcomer waits while a peer is connected. |
| `components` | twenty-three instances of the modules E, G to N and F's second, with the constants of `Components.cfg` and, for those in no family, of `MCComponents` | The components keep their promises with two threads (one where nothing is shared), a fault or two and late events in every order. |

The twelve invariants of `components` each join those of one kind of promise:
`TypesOK`, `OpensAtOneRate` (`BaudLadder`), `TasksAreSound` (`FirmwareTasks`),
`LinksAreSound` (`BoardSet`, `McpTools`, `AsyncFacade`, `BlePipe`),
`SearchIsRight` (`BoardSearch`), `WatchTold` (`WatchRules`), `RadiosTellTruth`
(`LoraRadios`, `Nrf24Radio`, `EspNowSend`), `BusIsRight` (`OneWireBus`,
`SensorReadings`, `CobsCodec`), `OutputsAsAsked` (`MotorDriver`, `ExpanderChips`, `PinFacades`, `LoraModem`),
`RadioHasOwners` (`RadioOwners`), `InboxIsRight` (`EventInbox`, `BleCentral`),
`FilesAreOwn` (`FileStore`, `ChunkedTransfers`).  The conjuncts are named and commented in their modules.

*Why the bounds are enough.*  Each instance is the smallest in which its hazards
all happen, and each property has a mutant of the code that the same instance
refutes.  One sequence number is a full table and a cycle of length one; two
threads are every pair that races on it.  Retry count 1 is the default of the code.
Two managers are needed for `disconnect_all` to meet a new `connect`; five links let
each of three calls and both heartbeats open one.  In `flow`, 4, 7 and the sizes 1
and 3 keep the relation of the code's 8 KB ring, window and largest frame: two
large frames fit the ring, a third does not.  In `net` a window of one byte with a
chunk of two exercises the cut of a chunk and the block at the window; one failure
is one request that is sent twice (two failures, with one byte, were run too: 4.4
million states, the same result).  In
`wifi`, three pieces are what it takes to authenticate, hold `rx_task` up and leave
something to be read on; two sessions are a predecessor and a successor.
Exceptions in the properties (`raced`, `overdrawn`, `slips`, `straddled`, `outlived`, ...) were
each seen to be reached, and needed, on these instances.

The instances of `components` were also enlarged one at a time, with the same
result: a second thread that uses a client of `BleCentral` (1.7 million states) and a
second painter for `ChunkedTransfers` (0.6), two faults for `BaudLadder` (0.5), a fourth
call for `McpTools` (0.7) and `PinFacades` (0.1), a fourth piece for `FirmwareTasks` (0.3)
and a second network for `RadioOwners`.

*Fairness.*  A thread of the host that can take a step takes one (`WF` on each
thread's step: threads run, and each wait has a timeout).  A lock of Python is not
handed out in order; `SF` on `Acquire` says that a thread that finds it free again
and again gets it.  A board that dropped off comes back only for the properties
of `manager`, whose opening attempts otherwise just fail.  `rx_task` and `slow_task`
are scheduled for ever by FreeRTOS, each sleeping at most two ticks; hosts, peers
and the access point owe nothing.

## 5. What is proved

`tlapm` checks the following for every value of the constants that satisfies the
named assumptions (`BridgeAssumption`, `ManagerAssumption`: counts are natural
numbers, the non-idempotent and the slow commands are commands, the ping is
neither; `FlowAssumption`: finitely many threads, and each window and one more
frame fit the ring, as `serial.py` and `config.h` have it; `NetAssumption`: a
connection is opened by one side, and slots, windows and queues hold at least one;
`PartsAssumption`, `HostAssumption`, `BoardAssumption`: bounds are natural numbers, a
rate is not 0, queues hold at least one, no MAC or name is the model's word for
nobody, and the board an MCP server is started for is on the desk;
`PeripheralAssumption`: no thread or peripheral is 0, which stands for none, and at most
255 packets are sent, for `ff_outstanding` is a `uint8_t`).

**`BridgeRequests_proofs`**: `TypeOK`, `SlotHeld`, `ExecutedAtMost`, `ForeignReplyIsLate`
and `DeadMeansPingFailed` hold of `Spec`, and `Spec` implements `RC!Spec`
(`RefinesRemoteCall`).  No invariant but the last is inductive alone.

- `SlotInv` says who owns the table: the entry of a number belongs to the attempt of
  the thread that holds it, and no two threads are in the same call, so that no two
  attempts are the same.  `SlotHeld` follows.
- `Forward` says of a step that calls and attempts only grow, so that what was
  sent stays sent.  `TryInv` bounds a thread's attempts by what its command allows.
- `FrameInv`: each attempt has at most one frame, in one queue, and only once it was
  sent; while that is a request it was not executed, and nothing runs twice.  With
  `TryInv` this bounds executions: `ExecutedAtMost`.
- `LateInv`: an answer on its way or stored under a number is that of the attempt
  that holds the number, or of one that was given up.
- The refinement: `StartCall` is a `Begin`, `RxInline` and `SlowRun` are a `Run` unless the
  frame is a confirming ping, a step that leaves a thread idle is an `End`, and no other step
  changes what `RemoteCall` sees.  That a `Run` has room is `FrameInv` again, counted: the
  executions of a call are a subset of one for each try its command allows, before the step
  and after it.

**`BridgeManager_proofs`**: `TypeOK`, `OneLink`, `HealthyLinkIsKept` and
`HeartbeatOnlyReplaces`.

- `LockInv` (a lock is held by the process inside the locked part), `PlaceInv` (a
  process is where its kind can be) and `BuiltInv` (links are built in order) make
  the base.
- `LinkInv` ties links to processes: who opens or closes a link (`WorkInv`,
  `OpenerInv`, `CloserInv`) is inside the lock of its manager, or closes it
  directly, and a manager's current link is one it built (`CurInv`).  `RegInv`: a manager
  that was not stopped is the registered one.  `LeftInv`: once the disconnect of a stopped
  manager is through, no link it had built before is left.  `OneLink` follows.
- `StaleInv`: a link that `bridge()` found stale under the lock stays stale until it is
  closed, and a heartbeat never asks for more than `bridge()`.  With it, the step that closes a healthy
  link is one that was asked for.
- `BeatInv`: a heartbeat at work belongs to a manager that had a link before the one
  it opens.

**`FlowWindow_proofs`**: all four invariants of the run `flow`, for any number of
threads, any sizes of frames and any windows: `TypeOK`, `ReservedIsLive`,
`WaiterIsNotAlone` and `OverrunHasCause`.

- A sum over threads or frames is written as the size of the set of pairs below the
  summed function (`Total`), so that the library's facts on cardinality carry it: a
  sum splits off a term (`TotalRemove`), and an injection that does not lower its
  terms bounds one sum by another (`TotalInjection`).
- `CallInv` and `PipeInv` tie threads to their places and each request's frame to its
  thread, once.  `ReservedIsLive` is inductive with them, one split of the sum per
  action, and gives `WaiterIsNotAlone`.
- `ShareInv` is about threads that wait for every reply.  The bytes in the pipe are
  injected into those reserved, but for one frame without an owner: the window
  holds, or one slip reserved one frame too much, or left one frame unowned.  Either
  way the ring has room (`ShareFits`).
- `SoloInv` is about one thread alone, whose requests and bursts share the pipe:
  it holds no more than is counted, under way, or left by one slip, and is empty
  once a reply has come (`SoloFits`).  `OverrunHasCause` follows: a frame finds no room only
  where neither applies.

**`WifiLink_proofs`**: all five invariants of the run `wifi`, for any number of
sessions, any queue depths and any losses of the access point (`LinkAssumption`: the
queues and the buffer hold at least one).

- `StepCases` sorts the steps by what they mean for the frames of a session; most
  polls leave them all alone (`Aside`), and every way to a new session is `Adopt`.
- `PlaceInv`: a chunk that is not used up is of a session, and `slow_task` has a
  request at hand exactly where it runs one, so it has none when it adopts.
- `ChunkInv`: unless `straddled`, `rx_task` is inside the session that has the link and
  the accumulator holds nothing of another.  `AuthIsOwn` and `HalfFramesForgotten` need it.
- `OriginInv`: while a session has the link, what is queued, executed or written is
  its own, answers nobody, or is of a session in `outlived`.  `AnswersStay` follows.
- `FramesStayWhole` is inductive as it stands: what the flag let in leaves with `Reset`.

**`NetSockets_proofs`**: `TypeOK`, `SlotHasOwner`, `OpenMeansOpen`, `OnlyOwnBytes`,
`StreamIsWhole` and `CreditConserved`, for any number of connections, slots and bytes.  The board frees a slot and gives it to
the next connection while the host still works with the last one, and events
carry nothing but the handle.  What keeps them apart is the order of the transmit queue.

- `Chain` says it: for the connection that has a handle, or is given it by a frame of
  the queue, nothing that concerns another one comes before its own end; and its
  end is in the queue when the slot is no longer its.  It survives every append,
  since the board speaks of the slot's occupant only, and every frame taken.
- `CallInv` and `AcceptInv` count frames: a waiting call has one, a connection is
  accepted once.  `SpentInv`: each object is put in a slot once, so that a connection
  whose end was sent has none.
- `GrantInv`: a frame that gives a handle starts such a chain, or its last holder is
  closing and will still be when the frame is taken (`Doomed`); that is what `raced`
  records, by `OnAccept` and `OnReply`.
- `LiveInv`: a socket that has its handle and does not know of an end has the chain
  to itself, and its entry of `_sockets`.  `OnlyOwnBytes` and `OpenMeansOpen` follow.
- `OwnerInv`: whatever occupies a slot is granted it in the queue, lives in it, or
  has asked for its end.  `SlotHasOwner` follows.

`StreamInv` adds what the slots carry.  Both properties look at all of a queue at once,
joined up or summed, where the model uses a fold.  The proof needs no induction over
it: of a stream it says byte by byte that each was given or is ahead in the queue, and
in order (`WholeOf`, with `WholeMeans`); credit is the size of a set of pairs (`Weight`,
with `WeightMeans`); and a queue changes at one end, which adds or takes one frame.

- `DataInv` and `WholeInv`: what a socket was given and what is queued for it continue
  each other and end at what its connection has read, also of a connection whose
  handle is still under way.
- `AskedInv`, which holds even when frames are lost: whoever asks for a slot has no
  handle, and of a request that was sent twice the last is the one waited for.
- `OrderInv`: what is left of a slot's last connection comes before the frame that
  announces the next one, so that its bytes are not counted for the new one.
- `AckInv`, `TakenInv`: credit is of a socket that was in use, for its handle, and no
  more was taken than was given.
- `CreditInv` is about every slot that a connection occupies and knows of (`Known`), or
  will after a place of the transmit queue; only what comes after that place counts
  (`Rest`), under that handle.  It sums the data and the acknowledgements under way and
  what a socket has not taken; once a frame was lost or late, or the socket raced, only
  the bound from below remains, and none for a slot that was credited with another's
  bytes.  Nothing is assumed of who had the handle before.  `CreditConserved` follows.

**`BoardModules_proofs`**: `TasksAreSound`, `RadioHasOwners` and `WatchTold` of `BoardSpec`.

*Tasks*, for any number of sessions and pieces and any queues.  A board is `Sound` when

- what is in its `Lanes` (queues, streams, requests) is of the cable or of a session
  that is there or was outlived, on its own link: every answer is put there by
  `Enqueue` with an origin that was noted with the request (`EnqueueSound`, `DeliverSound`);
- its `Flag` was set by the session there is, unless that is `straddled`;
- the accumulator is in `Order`: whose half frame it holds comes after every
  session that was heard, and not after the one whose chunk is being read.

`PieceSound` shows it of a piece before it is executed, `GrantSound` and `DispatchSound`
of what executing it does, and `Fits` that the queues keep their depths.

*Radio*, for any number of threads, networks, scans and faults.  `OwnersHaveRadio` is
inductive once the fields of the board are known: every request is made of `Release`
and `Raise`, so the proof shows what each leaves (`ReleaseSound`, `RaiseFacts`) and
then, per action, that its users are still `Served`.  `ScanIsWhole` needs to know of each
scan what is still in the queue and what the host has found: the two together are all
its networks, and the results of another are neither.

*Watch rules*, for any threads, ids, slots and timeouts; all of it is about ids that are
not `upset`.  `Numbers`: calls, rules and replies are numbered once, so a late reply finds
nobody.  `Listening`: a rule of the board has exactly its own callback, and so has a
rule with a report on its way.  `CallOK` says what a call under way may still do to
that: an add() that failed, or has not been executed, has no rule, and what a remove()
or clear() has executed is `Gone`, its last reports ahead of the answer.  `Told`: the last
report of a rule in the queue is the state it is in, and where there is none its
callback knows it.

**`HostLinks_proofs`**: `SearchIsRight`, `OpensAtOneRate` and `LinksAreSound` of `HostSpec`.

*Search*, for any boards, names and faults.  `OneInHand` and `KnownInHand` give the first
half, that what is handed out was asked for.  For the second, that nobody is missed,
`NotMissed` says where a board that matches can be while no fault has happened: `Ahead`
(in a family still to be listed, among the candidates, or in hand) or `Hidden` (by
Bluetooth that is off, or by another's advertisement).  A candidate is dropped only
when it does not match, so the search that runs out has missed nobody.

*Ladder*, for any rates, sessions and losses.  `BoardAt` and `HostAt` say where each end is
at every point of the program: a board that is booting, or that was heard by a host
at the boot rate, is at it; a host that waits for a banner or polls is at it; a Bridge
that was given up was left at another only if a frame that sets or resets the rate was
lost (`Excused`).  `UpAt` is the promise itself, with what close() needs: the board of a Bridge that is
up is at the host's rate or, having rebooted by itself, at its boot rate.

*Set of boards*, for any boards and links, also after an exception has left the search
(where nothing is said of its members, which stay open).  `SetTurns`: one thread at most has a link in hand.
`Held`: a link that is open is a member or in hand.  `OneEach` survives an adoption because
`_adopt` has closed the stale member of that board under the same lock (`Joins`), and
`ClosedSoFar` is the loop invariant of `close_all()`: members before its place are closed,
unless the accept thread was still at the list (`overlap`).

*asyncio*, for any tasks, openings and events.  `OneAtATime` says which sessions are open
from what the one task does that connects or closes; it holds until two of them do
(`upset`).  `Whole` says of a stream that what was read, is queued and is under way are
the events since it was opened, in order, but for those `_offer` dropped; each step
moves an event from one of the three to the next (`MovesOn`) or adds one at the end (`LastInRow`).

*Bluetooth*, for any threads, frames and pieces.  The coroutines of the event loop are at
rest, cut off by close(), or one is under way, for the thread that has the lock
(`AtRest`, `CutOff`, `UnderWay`): so the board has the first frames whole and the first
pieces of one more.  Of the reader, that it has the notes in order with the word to
stop at one place among them, which is there as soon as close() has begun.

*MCP server*, for any threads, boards, links and calls.  `CallOk` ties each call to the
manager: who is between the lock and its release has it, a mount under way is of the manager's
own link, and a UART tool that is about to use its port has fetched the sub-API.
`PortKept`: the Uart a link keeps is the one that has the port.  One step moves
one call, and who has not the lock leaves the manager's fields alone (`CallMoves`).
`OneToolEach` is about `_methods()` for every class of three names.

**`Peripherals_proofs`**: `RadiosTellTruth` and `InboxIsRight` of `PeripheralSpec`.

*LoRa*, for any packets.  `Reading`: as long as `receive()` neither began with an old flag nor
met a second packet, the chip holds the first that came since the call began, from its
flag to the reading of its buffer.  `Flagged`: a corrupt one has its own flag with it, first in
the chip and then with the driver, up to the step that looks at it; `Latched`: on the chips
that check it themselves no such flag is ever seen.

*nRF24*, for any payloads and FIFO depth.  `Sending`: what is in the air, or has set TX_DS, is the payload
of the send that is waiting, so a result "acked" is of it.  `Queued`: the FIFO is a rising
sequence behind the last payload read (`Behind`).  `Listening`: RX_DR stands for a payload that is still there,
unless listening began again in between.

*ESP-NOW*, for any threads and late callbacks.  While a send waits, its packet is the last on
the air and the count is that of the fire-and-forget packets before it, or its callback has
come (`InStep`); while none waits the count is that of all that are on the air (`Counted`).  After a
send that gave up before its callback this is left only to sends that begin with
nothing outstanding uncounted (`sure`), until the board is reset.

*Events*, for any threads, arrivals, separators and depth of queue.  Events come numbered
(`Numbered`); what was returned and what is in the buffer are one rising sequence, and with
what was dropped or given to a callback all that has come (`Right`); where only lines are read,
nothing is missing between two of them (`OneLine`).  `Attended`: a pin with callbacks that the board
does not watch is about to be watched, or to lose them.

*Bluetooth central*, for any threads, devices, peripherals, calls and queues.  `ForSomebody` and
`Alone`: an advertisement on its way has a scan that will take it before the reply to its stop,
so one that nobody's overlaps has its own only.  `SwitchedOn` and `Notified`: notifications
on their way are from the peripheral of the newest client, and come before the reply
that makes the next one; `Called`: a callback was of the client that subscribed it.
`Awaited`, one reply at most for each who waits, carries both.

*What the proofs changed.*  Two things in `WatchRules` could not be proved because they
were wrong.  A reply found its call by the whole of the call's record, so that a late
one could answer a later call that looked the same; the bridge matches it by sequence
number, and now the model does.  And the `clear()` of a thread that
is the only one was counted as contended, which excused everything after it.  The runs passed before and after.
`BlePipe!ReaderIsReleased` was about what the reader got without the word to stop; it says
now where that word stands, which is what the proof has.

*Only model-checked.*  Liveness (`CallReturns`, `HeartbeatEnds`, `SessionEnds`, and in
`ImplementsRemoteCall` that every call ends): it needs fairness, which is beyond the prover.  Of the
invariants of `components`: `TypesOK` (the proofs have the types of fourteen parts, as part of
their invariants), `BusIsRight`, `OutputsAsAsked` and `FilesAreOwn`.  The first and the last
are about what folds and recursions over data compute (`CobsCodec` encodes and decodes,
`SensorReadings` converts, `OneWireBus` walks a tree of bits, `ChunkedTransfers` cuts data into pieces), which would need
induction over them.  `OutputsAsAsked` compares registers with the calls that set them, one
chip at a time; what could go wrong lies in the numbers, of which the instance
takes the ends, more than in the sizes.

## 6. Where the code and its words differ

Five runs show it, each with the trace TLC prints: `requests_late`, `manager_drop`,
`flow_mixed`, `net_reuse`, `wifi_newcomer` (quotations in `PROJECT.json`, "findings").

Other definitions state what a docstring or a comment promises and the code does
not keep; each stands at the end of its module with the line it quotes, and no run
checks it.  Added to `MCComponents` as an invariant `part = "..." => X!Definition`,
each gives a trace.

| definition | what happens |
|------------|--------------|
| `BoardSearch!DudIsSkipped` | a candidate that fails otherwise than by a timeout, a protocol error or the password (a board that answers with an error, a lost link) ends the search (`bridge.py:446-448`, `491-493`) |
| `BaudLadder!AttemptRestores` | a lost answer to `SYS_SET_BAUD` is raised past the fall-back, and the constructor fails (`bridge.py:614`) |
| `BoardSet!RaisesClean` | a failure of `Bridge.all()` that is no BridgeError, or a port that cannot be bound, leaves the boards found so far open and returns no set (`bridge.py:1357-1365`, `1388`) |
| `BoardSet!KeepsCollecting` | a board that goes away while it is adopted ends the accept thread (`bridge.py:399`) |
| `LoraRadios!ReceivesFromAir` | a flag left from an earlier reception makes `receive()` return what `send()` left in the one FIFO (`sx127x.py:218-229`) |
| `LoraModem!LdroWhenSlow` | the low-rate optimisation follows the spreading factor alone, not the symbol time (`sx126x.py:179-181`) |
| `SensorReadings!TrimmingIsSigned` | two trimming values called signed are not sign-extended (`bme280.py:124-125`, `131-132`): a negative one is read 4096 too high, which `ReadsWhatItAsked` names as its exception |
| `MotorDriver!StopCutsDrive` | releasing a braked motor, or one whose first request failed, drives it for the time of a request (`motor.py:114-121`) |
| `ExpanderChips!SetFreqWakes` | after a call that failed half way the next one restores the sleep (`pca9685.py:72`) |
| `RadioOwners!LinkKeepsStation` | starting an access point drops the station from under the Wi-Fi link (`mod_wifi.cpp:168-170`) |
| `EspNowSend!CallbackIsOwn`, `BroadcastIsPeer` | a late callback answers the next send (`mod_espnow.cpp:27-30`); after a reset of the board its broadcast peer is thought to be there (`espnow.py:165-167`) |
| `EventInbox!ReadBlocks`, `WatchedIsHeard` | a read without a timeout comes back empty when another reader was quicker (`uart.py:41`); `unwatch()` beside `watch()` removes the new callback (`gpio.py:151`) |
| `FileStore!CloseKeepsOthers` | an `FS_CLOSE` that is sent again closes the file that another thread has opened meanwhile on the descriptor (`constants.py:333-338`, `fs.py:67`); what that thread reads may then be a third one's |
| `FileStore!FlashInstallsOwn`, `ListsOnce` | two flashes are one image; two listings share their events, and an `FS_LIST` that is sent again returns the entries twice (`ota.py:40`, `fs.py:122-134`) |
| `BlePipe!WritesAreWhole`, `FailedIsFree` | a write that timed out goes on being sent between the next one's pieces (`ble.py:244-250`); a failed opening leaves the board connected (`ble.py:220`) |
| `AsyncFacade!ProxyIsCurrent`, `NobodyLeftBehind` | a proxy keeps the Bridge of an earlier session (`aio.py:212-220`); a cancelled or doubled `connect()` leaves one open |
| `PinFacades!ValueIsLevel` | `value` is what was assigned, also when the write failed or the pin was an input (`blinka.py:184-193`) |
| `BleCentral!StrongestKept`, `CallbackGoes` | a named advertisement replaces a stronger one, a failing scan leaves its callback (`ble.py:186-206`) |
| `BleCentral!ClientIsPeer`, `ConnectIsHeard` | an older client stands for the new connection (`ble.py:71`); a dropped event leaves `wait_connect()` wrong (`ble.py:239`) |
| `ChunkedTransfers!RetriesAreSafe`, `PositionIsSteps`, `FrameIsCommitted` | `SPI_TRANSFER` and `I2S_READ` are repeated by a retry (`constants.py:332-345`); a failed move is not counted as far as it went (`stepper.py:66-79`); a lost piece leaves half a picture (`oled.py:130`) |
| `McpTools!SameBoardAgain`, `StatusOnlyLooks` | a reopened link is to the first board again, not the chosen one (`manager.py:38-89`); asking for the status can open a link (`server.py:121-125`) |
| `McpTools!VolumeIsMounted`, `VolumeIsLive`, `PortIsOpen` | volumes and ports outlive a reset or the link they were made on (`server.py:59-91`, `uart.py:127`) |

Reading the code for the models also showed, without a definition of their own:

- a full pending table flags the link dead though no ping was sent;
- a write error leaves `is_alive()` true;
- the heartbeat can reopen a link that `disconnect()` just closed, and does not retry
  a reopening that failed; `connect()` beside `disconnect_all()` can open the port
  while the old link is still up, or leave two managers for one board (`OneLink`
  names the cases); `close()` returns at once to a second thread;
- a request after a burst of sends waits its whole time for room that only a
  reply would free;
- `docs/PROTOCOL.md:155-167` gives 4096 and 3072 where the code has 8704 and 6400;
- a client accepted before `tcp_listen()` registered its server is left in its slot; a
  dropped accept or data event keeps its slot or credit; `TcpSocket.send` on a socket
  closed by its peer reaches the slot's next connection; sockets on the board
  survive a reconnection of the host;
- a connect or listen that is sent twice leaves the handle of the first try open,
  with bytes of the connection that nobody acknowledges; a `NET_CLOSE` that is sent
  twice can close the slot's next connection, which is told nothing; a `WINDOW_ACK`
  under way when a slot changes hands credits the next connection, whose peer may
  then send more than the window (`overdrawn`);
- over the Wi-Fi link, a request that outlasts its session is answered into the
  next one, and what `rx_task` had read with it is executed there (`AnswersStay`,
  `AuthIsOwn` name these cases; `link_tcp.cpp:76-77` says that neither is left);
  `next_try_ms` is the back-off and the connect deadline at once, so a board that
  loses its server soon after connecting waits the rest of the ten seconds;
  `WIFI_LINK_SETUP` while the link is armed changes its mode and leaves its sockets;
- a BLE connect() that times out leaves the board connected with no client object;
  overlapping scans share a queue and stop each other; a scan of more than 255 s
  stops early; a dropped BLE link puts nothing into the reader's queue;
- the LAN is never searched once another family had a candidate, and a stale
  advertisement can hide the board that was asked for;
- two threads that touch `rpi_gpio` first open two Bridges (`rpi_gpio.py:42`);
  `cleanup(channel)` leaves event detection on; `Pwm` believes itself attached after
  a reset of the board;
- a closed `RemoteFile` can still be used, and a lost answer to its open leaks the
  descriptor; `oled.show()` of two threads mixes;
- a debounced pin drops the edge that ends a bounce (`mod_gpio.cpp:46`);
- a 1-Wire line stuck low lists every ROM, and a DS18B20 on it reads 0.0 with a valid
  CRC; the IRQ masks of SX126x and SX128x do not route the CRC error; `sx127x.send()`
  waits for its flag without a timeout; `stepper.run(0)` divides by zero; `DS3231.now()`
  misreads the twelve-hour mode; `pca9685` clamps a rate silently.

## 7. What is not modelled, and why

- Bytes on the wire: a frame is intact or lost, except in `CobsCodec`, whose CRC is
  taken to catch what it is for.
- Time: a timeout is a step that may happen while its wait lasts.  The margins
  of the code (25 ms, 250 ms, two ticks) appear as what can happen within them.
- Counters are capped: calls, sessions, bytes, faults and links (each bound is named
  where it is declared).  Sequence numbers do wrap around.
- Memory: `malloc` succeeds, except that a full queue is modelled wherever it
  matters.
- Three links of the board at once: `FirmwareTasks` has the cable and Bluetooth,
  `WifiLink` the third, which shares the same tasks but is reset between sessions.
  `link_ble_shutdown`, connection parameters and advertising are left out.
- `WifiLink` keeps the link armed: stopping it frees its buffers two ticks after
  hiding them, which a long request may outlast.  Its stored configuration and
  the discovery beacon are left out.
- `NetSockets` leaves out UDP and `http_get`; sending is in `ChunkedTransfers`.
- Bosch's compensation formulas for the BME280 need fractions; drawing into a
  panel's buffer, the wording of tools and the tables of registers change no state
  that the properties tell apart.
- The peripheral modules of the firmware (one command, one driver call, one
  answer), the vendors' stacks, the nRF52 port and the command line.
