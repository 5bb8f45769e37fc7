# A verification project for xpcc

[xpcc](../src/README.md) is a C++ framework for microcontrollers.  Most of the
repository drives peripherals; its own core logic is the *component communication*
(`src/src/xpcc/communication/xpcc`), a call/response/event middleware between
components on several boards, with the buses below it and the schedulers, timers and
queues beside it.  This directory specifies that logic in TLA+, checks it with TLC
on small instances and proves the properties that carry the rest with TLAPS.

Paths below are relative to `src/src/xpcc/` unless they start with `src/`.

## Inventory

| Component | State | Operations | Hard because | What makes it correct |
|---|---|---|---|---|
| **Dispatcher** `communication/xpcc/dispatcher.{hpp,cpp}` | list of entries (header, payload, state, tries, timer, callback) | `update` = receive loop, then one pass over the list; `addMessage`, `addResponse` | handlers and callbacks change the list while it is walked; acknowledgements are lost, late, repeated, overtaken by answers; replies are matched by three header fields | a call is executed or given up, never lost; its callback gets its own answer, at most once; an acknowledgement means the handler ran; a pass skips nothing |
| **Communicator, AbstractComponent** `communicator*`, `abstract_component*` | own identifier | `callAction`, `publishEvent`, `sendResponse`, `sendNegativeResponse` | called from inside the dispatcher | responses go to the front of the list, the rest to its end |
| **DynamicPostman** `communication/xpcc/postman` | action and event maps | `deliverPacket`, `isComponentAvailable`, registration | availability is "has an action handler" | delivers to all listeners, or to the one handler |
| **CanConnector** `communication/xpcc/backend/can` | `sendList`, `receivedMessages`, `pendingMessages`, static `messageCounter` | `sendPacket`, `update`, `dropPacket` | fragments of several senders interleave, frames get lost, 4 bit counter wraps, bus loss empties the list | a packet arrives whole or not at all |
| **ZeroMQConnector, TIPC** `communication/xpcc/backend/zeromq`, `backend/tipc` | queue shared with a receiver thread | `readPacket`, `getPacket`, `dropPacket`, `start`, `stop` | two threads; bounded queue drops its front; a reference outlives the lock | the packet handled is the packet dropped; `stop` returns |
| **AMNB** `communication/amnb` | receive state machine, collision timers; query and response state | `sendMessage`, `update`, `query` | collisions, late answers | does not compile at this commit |
| **SAB, SAB2** `communication/sab*` | decoder and its buffer; query state of the master; `triggered` of the slave | `query`, `update`, `Response::send`, `error` | late answers, echoes, lost bytes, one buffer for the message at hand and the next | what is handled is one message; one answer per request; a query completes |
| **RPR** `communication/rpr` | flags of the frame passing by, two message queues | `update`, `sendMessage`, callbacks | frames are passed on while they are read, messages are sent meanwhile | a frame stays whole, reaches all its addressees once and leaves the ring |
| **Timers** `processing/timer` | `endTime`, state | `restart`, `execute`, `getState` | modular time | fires once, never early |
| **Scheduler** `processing/scheduler` | task list, ready list, current priority | `scheduleInterupt` | preempts itself | runs each ready task once, by priority |
| **Protothreads, resumables** `processing/protothread`, `processing/resumable` | program counter per thread or nesting level | `update`, `wait` | interleaving at yields | semaphore counts, nesting levels match |
| **RTOS wrappers** `processing/rtos` | deque and mutex; counter | `append`, `get`, `acquire` | threads and timeouts | bounded FIFO, mutex always released |
| **Atomics** `architecture/driver/atomic` | ring with head and tail | `push`, `pop` | interrupt against main loop | FIFO, no loss, no overwrite |
| **Heap, clock** `architecture/driver/heap`, `clock` | block headers; millisecond counter | `allocate`, `free` | coalescing of blocks | blocks are disjoint |
| **Containers** `container` | nodes, indices, reference count | list and deque operations | iterators over removals; 8 bit count | sequences |
| **Math, UI, I/O, logger, drivers, platform, tools** | | | numerical code, formatting, registers, generators | not modelled |

How they interact: components call the Communicator, which adds entries to the
Dispatcher's list.  The main loop calls `Dispatcher::update()`, which polls the
backend, hands requests to the Postman, which calls the handlers, and matches
replies with its entries, which calls the callbacks; handlers and callbacks call the
Communicator again.  All of a board runs in one thread; boards share only the bus.
`PROJECT.json` lists every component with its sources and every hazard at its line.

## Plan

In the order of importance. Lines 1 to 5 are done.

1. `Dispatcher` (+ `MCDispatcher`, `DispatcherProofs`, `DispatcherMatchingProofs`,
   `DispatcherDeliveryProofs`): calls, answers and events between boards and inside
   one.
2. `CanConnector` (+ `MCCanConnector`, `CanConnectorProofs`): fragmentation over a
   lossy bus, with `PacketChannel` as the abstract specification of a backend.
3. `ZeroMQConnector` (+ `MCZeroMQConnector`, `ZeroMQConnectorProofs`): receiver
   thread, bounded queue, dispatcher thread holding a reference.
4. `Rpr` (+ `MCRpr`, `RprProofs`) and `Sab` (+ `MCSab`, `SabProofs`): the ring and
   the master-slave bus, each with all its stations.
5. `AtomicQueue` implementing `BoundedFifo` (+ `AtomicQueueProofs`), for every
   capacity.
6. `CallService`: what a caller may rely on (called, executed, answered, given up),
   implemented by `Dispatcher` under a refinement mapping.
7. `Scheduler` (ready list and preemption), `Timeout`/`PeriodicTimer` (modular
   arithmetic), `RtosQueue` and `RtosSemaphore`, `PtSemaphore`, `NestedResumable`.
8. Further proofs: the channel theorem of `CanConnector` with changes of
   the bus state, the refinement of `CallService`, and `BoundedFifo` for the queue
   of the RTOS wrappers once it is modelled.

## Module Dispatcher

### State

| Variable | Code |
|---|---|
| `pc[b]` | where the thread of board `b` is: outside `update()` (`main`), in the receive loop (`rx`), in `handleWaitingMessages` (`pass`) |
| `entries[b]` | `Dispatcher::entries`, the front first |
| `entry[b]` | the iterator of `handleWaitingMessages` as an index; 0 outside |
| `handles[b]` | the `ResponseHandle`s that components have not answered yet |
| `todo` | the calls and events of this execution that are still to be made |
| `wire[b]` | packets on their way to `b`, including those its backend has received but `b` has not dropped |
| `losses`, `timeouts` | counters for the bounds `MaxLosses`, `MaxTimeouts` |
| `ran`, `got`, `answered`, `gaveUp` | history, read by properties only |

The payload of a packet is abstracted to the member of `Call` it belongs to; no
guard reads it.  Header fields are those of the code, because matching by header is
where the difficulties are.

### Actions

| Action | Code |
|---|---|
| `Work` | a component calls, publishes or answers outside `update()` |
| `StartUpdate`, `EndReceive`, `EndPass` | `update()` enters and leaves its two loops |
| `ReceiveRequest` | `handleActionCall`: deliver, then acknowledge if the postman said OK |
| `IgnoreReply`, `ReplyEndsEntry`, `ReplyAcknowledges`, `ReplyCallsBack` | `handlePacket`, one action per outcome, with the acknowledgement `update()` sends for an answer and `dropPacket` |
| `SendEvent`, `SendLocalRequest`, `SendLocalResponse`, `SendLocalResponseInVain`, `SendRemote` | the `TransmissionPending` branches of `handleWaitingMessages` and `sendMessageToInnerComponent` |
| `Retransmit`, `GiveUp`, `Skip` | its `WaitForACK` and `WaitForResponse` branches |
| `Lose` | the medium loses a packet |

An action is one iteration of a loop with all the user code it calls.  Nothing else
of the board runs meanwhile, and other boards see only the packets that leave, so a
finer grain would add no behaviour.  User code (handler, listener, callback) is any
program that, per invocation, answers at most one of the handles its board holds and
makes at most one call of `todo`; a program that does more in one invocation is
covered as far as its effects are those of several invocations.  A handle is
answered once.  A linked list keeps an iterator on its node, so an entry prepended
by user code shifts the index.

A timeout may be seen expired on any visit of its entry (`Expired`): packets may
take any time.  This covers every relation of the 500 ms to the delays of the
network.  `responseTimeout` is set in the code but never read, hence no action.

### Constants and bounds

`Board`, `Component`, `Home`, `Registered`, `Listens` describe the network; `Call`,
`Source`, `Destination`, `Identifier`, `WithCallback`, `ResponseType` the execution;
`Reorder` the backend.  `MaxLosses` and `MaxTimeouts` bound the state space.  Named
`ASSUME`s give their types; every run evaluates them. Every caller in the instances
has an action handler, because a postman knows a component only by its handlers.

### Runs

| Run | Instance | Shows |
|---|---|---|
| `remote` | 2 boards, one call each way and one that nobody handles, reordering, 1 loss, 1 timeout | replies meet their entries, a call is not lost, an acknowledgement means that the handler ran |
| `retry` | 1 call with a negative answer, reordering, 1 loss, 3 timeouts, fairness | types; the callback gets its own answer at most once, no answer is lost and it arrives, a handler runs at most once per transmission |
| `local` | 3 components on one board that call from their handlers and callbacks and publish an event, a second board listens, fairness | responses stand before requests, a pass skips nothing but prepended responses, an event runs once per board, answers arrive |
| `losses` | a call and one that nobody handles, 2 losses, 6 timeouts, fairness | the call runs in spite of two losses; every entry settles: nothing is retransmitted for ever |

Why the bounds are enough: three timeouts per entry are what it takes to give it up
(two retransmissions and the third expiry); two losses are the most that three
transmissions survive; one call each way gives every pairing of reply and entry on a
board.  Symmetry is not used: the boards and calls of an instance differ.

Deadlock is checked in all runs; a board can always start another `update()`.

### Fairness

`FairSpec` is used by the liveness properties only.  The main loop of every board
runs for ever and calls `update()`: weak fairness of `StartUpdate`, `EndReceive` and
of each iteration of the pass.  A backend hands over a packet it does not lose:
strong fairness of receiving the oldest one, since a board polls only in between
passes.  The clock advances: strong fairness of `Retransmit \/ GiveUp`, as an entry
that is visited for ever is found expired at some visit.  There is no fairness on
`Work` (components need not call) nor on `Lose`.

### Known limits

`headerFits` compares source, destination and action, neither type nor acknowledge
flag.  So the acknowledgement of a response fits the own entry of a mirrored call,
and a late acknowledgement of one call ends the entry of the next one with an equal
header.  The runs use calls whose headers differ and do not mirror each other;
within that, the properties hold with losses, reordering and retries.  Equal headers
are therefore a hazard that no property covers (`dispatcher.cpp:109`).

## Modules CanConnector and PacketChannel

`PacketChannel` is what a dispatcher needs of a backend (`backend_interface.hpp`): a
packet given to `sendPacket` becomes available on each other board as it was sent,
at most once, or not at all, in any order.  The Dispatcher module assumes this of
its `wire`, with repeated packets arising only from retransmission. `CanConnector`
is the CAN backend, and `ImplementsChannel` (`Channel!Spec`) its refinement:
submitted are the packets given to `sendPacket`, delivered those that were dropped
by the dispatcher and those in `receivedMessages`.

### State

| Variable | Code |
|---|---|
| `sendList[n]`, `pendingMessages[n]`, `receivedMessages[n]` | the lists of `CanConnector`; `pendingMessages` as a function of header and counter, since the search compares just these |
| `messageCounter[n]` | the upper four bits of `CanConnectorBase::messageCounter` |
| `tx[n]`, `rx[n]`, `busState[n]` | external: the frames in the driver, `getBusState()` |
| `sent[n]` | how many packets of `Script[n]` were given to `sendPacket` |
| `taken[n]` | history: the packets n's dispatcher has dropped |
| `losses`, `warnings` | counters for the bounds |

Identifiers are numbers, built and read as `convertToIdentifier` and
`convertToHeader` do.  A payload is abstracted to the packet each piece of 6 bytes
comes from; `PacketIn` tells whether a received item is one packet.  The checks of
size, index and length are those of `retrieveMessage`.

A packet may have any size that `SmartPointer` can hold (16 bits), since `sendPacket`
limits none.  What a large one does is modelled: `sendWaitingMessages` keeps the
lower eight bits of the size (`MessageSize`), `fragmentIndex` goes up to 42 and runs
into the bits of the counter from 16 on (`CounterBits`), and a packet marked as
fragmented of which at most 8 bytes are left goes out in one frame, whose payload the
receivers take for index, counter and size (`CutFrames`, any such bytes).

### Actions

| Action | Code |
|---|---|
| `SendDirectly`, `SendLater` | `sendPacket` |
| `RetrieveShort`, `RetrieveIllegal`, `RetrieveFragment` | `retrieveMessage`, one action per outcome |
| `DropWaiting`, `SendShort`, `SendFragment` | `sendWaitingMessages`, which `update` calls when nothing is left to retrieve |
| `DropPacket` | the dispatcher handles the front packet and calls `dropPacket` |
| `Transmit`, `Warn`, `Recover` | external: a frame goes to all other nodes but those that miss it; the bus state changes |

`update` is split at the calls of the driver, so frames arrive and leave between its
steps.  A driver with several transmit buffers sends them in order (STM32, in its
FIFO mode) or not (MCP2515): `InOrder`.  A frame that finds a full receive queue is
lost.  With `MaxLosses = 0` the executions are those in which the receivers retrieve
in time.  Bus states other than `Connected` begin with `ErrorWarning`, in which the
controller still transmits, so `tx` goes on.

### Runs

| Run | Instance | Shows |
|---|---|---|
| `can_fifo` | A sends 13, 8 and 13 bytes, C 9, B only listens; no losses, one change of the bus state, fairness | fragmented packets of a sender stay in order, every packet arrives if the bus stays connected, and `CanConnector` implements `PacketChannel` although packets are cut off |
| `can_lossy` | A sends 12 and 18 bytes with one header, B 50; any order, 2 losses | types; fragments of different packets never meet; `CanConnector` implements `PacketChannel` |
| `can_restart` | 12 and 18 bytes with one header, 1 change of the bus state | *violation*: `FragmentFits` |

The sizes are those where the code branches: 8 (one frame), 9 (two fragments), 12
and 18 (a full last fragment), 13 (one byte in the last), 50 (refused; that 48 is
not is a theorem, `FragmentsAreLegal`).  Larger sizes are not run: `TypeCorrect` is
proved for all of them, and the properties about the channel are about sizes of at
most 255 bytes (`SizesFit`).  Two packets per sender are the fewest that
can overtake or meet each other; two waiting packets, one or two transmit and
receive slots make every queue full.  `MaxWaiting` bounds lists that are unbounded
in the code.  Deadlock is not checked: an execution ends when its script is sent and
received.

`FairSpec`, for `PacketArrives`: the main loop calls `update` and handles what is
available (weak fairness of `Update` and `DropPacket`); the controller sends what it
holds (weak fairness of `Transmit`).  Nobody has to call `sendPacket`.

### Findings

* `can_restart`: on a repeated fragment `connector_impl.hpp:273` means to "delete
  the old one", but only `receivedFragments` is reset.  The payload keeps its size,
  and a longer new packet does not fit.  The way there: a bus state other than
  `Connected` empties `sendList` between two fragments and the counter is not
  advanced (line 141).

The passing runs send fewer than 16 packets, since a fragment that meets an
incomplete packet of 16 packets before has its header and counter; and changes of
the bus state do not come together with two fragmented packets of one header and
different sizes.  A packet of 256 bytes and more is cut to what the lower eight bits of
its size say and may be delivered like that, or with bytes of its payload read as
index and size.  These three are hazards that no property covers
(`connector_impl.hpp:254`, `:220`) or that a run shows (`can_restart`).

## Module ZeroMQConnector

Two threads share the queue of `ZeroMQReader`.  Every access to it holds
`queueMutex` and is one step; between two accesses the other thread may run.

| Variable | Code |
|---|---|
| `inbox` | messages in the socket of the reader (external) |
| `receiver` | where `receiveThread` is: at the test of `stopThread`, in the inner loop, in `poll`, or returned |
| `stopThread`, `queue` | the members of `ZeroMQReader` |
| `main` | which call of `Dispatcher::update`, `stop`, `start` or the destructor comes next |
| `reference` | whether the reference `getPacket` returned is to the front, to a packet that was popped meanwhile, or none |
| `payload` | the copy the dispatcher holds |
| `restarts` | bound `MaxRestarts` |
| `sent`, `handled`, `lost`, `overruns`, `skipped` | history |

Actions: `CheckStop`, `ReadPacket`, `NoMessage`, `Poll` are the loop of the thread;
`IsPacketAvailable`, `GetPacketHeader`, `GetPacketPayload`, `HandlePacket` and
`DropPacket` one packet in `Dispatcher::update`; `Stop`, `Start`, `Close` with the
`join` between; `SendPacket` the other programs on the socket.  What is read through
a reference that is not valid any more is `Undefined`.  A read of freed memory in
the middle of a copy is not modelled: the copy of a payload is one step.

Run `zeromq`: three packets, of the smallest, a middle and the largest size, two
messages one byte too short and too long, a queue of two and one restart.  Three
packets are the fewest that overrun a queue of two; two places are the fewest for
which the popped front and the next packet differ.  Deadlock is not checked, as the
program ends when the connector is closed.

`FairSpec`: the operating system runs the thread (weak fairness of `ReceiveThread`),
and the main loop calls `update` (of `Update`) and completes what it began (of
`Start \/ Close`).  Nobody has to stop the reader or to send.  `StopReturns` needs
the messages to come to an end, since the inner loop does not look at `stopThread`.

The limit the run makes precise: when a full queue gives up its front while the
dispatcher works on it, header and payload may be of two packets and the drop hits a
packet nobody has handled.  `HeaderMeetsPayload` and `DropsWhatWasHandled` say that
this, and nothing else, does so, and that each such pop (`overruns`) spoils one
handling and one drop at most.

## Module Rpr

All stations of a ring; `link[n]` is the wire from `n` to the next one.  A station
passes on what it reads byte by byte, so a frame may be on all wires at once.

| Variable | Code |
|---|---|
| `updating[n]` | `n` is in the byte loop of `Interface::update`; between two bytes other stations run |
| `status[n]`, `length[n]`, `receiveBuffer[n]`, `crc[n]` | the flags, length, addresses and check sequence of the frame that passes by |
| `messagesToSend[n]`, `receivedMessages[n]` | the queues, of `QueueSize` places |
| `todo[n]` | the messages the user program of `n` has still to send |
| `losses` | bound `MaxLosses` |
| `sent`, `written`, `refused`, `handled` | history |

`Send` is the user program between two updates, `BeginUpdate` the write of a waiting
message, `ReadStart`, `ReadEnd`, `ReadHeader`, `ReadPayload`, `ReadStray` the
branches for one byte, `EndUpdate` the end of the loop and `Callback` the rest of
`Node::update`, in which user code may send as well.  A frame has five parts: start
delimiter, header, payload, check sequence, end delimiter.  Escape bytes, which only
keep the delimiters out of the others, are left out, and so is the loss of one.  The
check sequence is right exactly if the parts are those of one message.

A wire may lose any byte (`Lose`).  Without a delimiter or the payload byte that
part is missing, and of the check sequence half is left (`Torn`).  Without one of
the four address bytes (`LoseAddressByte`) those behind it move up, the next byte of
the frame becomes the last of the source address, and the receiver reads other
addresses (`Misread`, computed from the bytes of the addresses and of `Octet`, the
bytes that may follow).  The bound is that such a byte is lost only as long as
another byte of the frame is behind the addresses.

Run `rpr`: three stations with queues of one place; a unicast of A to C and a
multicast of A to the group of C, a broadcast of B; one lost byte on the wire from C
to A.  The addresses are 0x0101, 0x0202 and 0x0303 and the payload byte is 1, so
that the addresses that are read when a byte is missing are those that were meant,
those of another station, or nobody's; the run has 158221 states.  Three stations
are the fewest with a sender, a receiver and one that only passes on; every kind of
address and every way of sending (at once, queued, refused, from a callback)
happens.  Deadlock is not checked: the stations stop when everything is sent.
`FairSpec`: the main loop of each station calls `Node::update` (weak fairness of
`Update`), which does not return while there is a byte, so each byte on a wire is
read in the end (strong fairness of `ReadByte`).  `QueueDrains` and
`ArrivesEverywhere` promise nothing once a byte is lost, as the code has no timeout.

`RingFallsSilent` says that frames leave the ring, with one exception, which the run
reaches: when an address byte of a broadcast is lost, the source that is read may be
the address of no station.  No station then takes the frame for its own, forwarding
does not look at the check sequence (`rpr/interface_impl.hpp:333`), and the frame
circulates for ever.  `Orphaned` names
these frames: their source is no station, and they are not for one station alone.  The
check sequence keeps them from every callback (`HandledOnce`).

`OrderKept` is about the order in which a station writes its messages.  That need not
be the order of `sendMessage`: while no frame passes by, a message is written at once,
ahead of those that wait in `messagesToSend` for the end of the next frame, and the
pop that follows removes one of these.

Finding `rpr_lost`: "All messages are buffered" (`communication/rpr.hpp:17`), but
`writeMessage` ends with `popMessage(messagesToSend)` (`rpr/interface_impl.hpp:454`)
also when the message was not in the queue.  A callback that sends between two
frames while another message waits makes the latter vanish; `AcceptedIsWritten` is
violated without any loss.

## Module Sab

One master and its slaves on a half duplex bus.  A message travels as three pieces:
`Start` (sync byte and length), `Head` (address, flags, command) and `Rest` (payload
and checksum), the places where the decoder, the buffer and a loss can tell a
difference.

| Variable | Code |
|---|---|
| `interface[d]` | decoder of a device: state, announced length, position, buffer, `lengthOfReceivedMessage` |
| `tx[d]`, `rx[d]` | the buffers of its UART (external) |
| `queryStatus`, `asked` | of the master: state of the query, and which query it is |
| `losses` | bound `MaxLosses` |
| `did`, `overtaken` | history: what the slaves replied, which queries timed out while the answer could still come |

`Query`, `DropEcho`, `TakeAnswer`, `GiveUp` are the master (`query` and the branches
of its `update`); `CallAction`, `RefuseRequest`, `IgnoreMessage` the slave's
`update` with `Response::send`, `error` and the check of `triggered`; `Read` one
piece in `Interface::update`; `Transmit` and `Lose` the bus.  The timer may have
expired at any visit.  A piece that is lost in a receiver leaves the decoder to read
on into the next message: what takes its place is as long as the lost piece, and no
payload byte is taken for a sync byte.  Collisions are not decoded.

`KeepsUp`: a device starts to send only when every main loop has handled the
previous message.  It is a timing assumption on the devices, which the code needs
and does not check; the run `sab_mixture` drops it.

The master compares no addresses: an answer that comes after the timeout answers the
next query (`sab/master_impl.hpp:170`), and it may meet the next request on the bus.
So `VerdictIsTrue` and `OneTalks` excuse what happens from the first query on that
timed out although its request or answer was still on its way (`OnItsWay`,
`overtaken`); this hazard itself no property covers.  A query that timed out because
something was lost is no excuse: the next one must work, and its verdict must be its
own.

Run `sab`: a master with echo, two slaves, one query that fits and one whose payload
the action refuses, one loss.  Two queries are the fewest for an answer to come too
late, two slaves the fewest for one to hear what is not for it.  Deadlock is not
checked, as the script ends.  `FairSpec`: all main loops go on, the bus transmits,
the timer expires in the end.

Finding `sab_mixture`: "Data access is only valid after isMessageAvailable() returns
true and before any call of dropMessage() or update()" (`sab/interface.hpp:130`),
and that is where the master reads; but `update` stores the bytes of the next
message in the buffer of the one that is available (`sab/interface_impl.hpp:202`).
A master that has not dropped the echo of its query when the answer begins reads the
flags of the one with the length of the other.

## Modules AtomicQueue and BoundedFifo

The ring between an interrupt and the main loop, which the buffered UART and CAN
drivers use.  One side pushes and the other asks `isEmpty`, then calls `get` and
`pop`. Each access to a variable the other side uses is a step of its own, so both
sides may be the interrupt: `PushStarts` reads `tail`, `PushWrites` stores the
element, `PushPublishes` stores `head`; `FindsElement` reads `head`, `Get` the
element, `Pop` stores `tail`. `producer` and `consumer` say where the two are;
`value`, `element` and `answer` are their local variables and results.  Indices have
the width of the code (`IndexSize`), and `isNearlyEmpty` reads them into 8 bits as
the code does.  `buffer` and the stores to `head` are not volatile; the model is a
build that keeps their order.

`BoundedFifo` is what such a queue promises, and `ImplementsFifo` (`Fifo!Spec`) that
`AtomicQueue` keeps it: an element is stored when its `head` is published and taken
when its `tail` is.  There is no run for these modules; the theorems cover every
capacity, which the bounds of a run would not.

## Proofs

Every theorem holds for all values of the constants that satisfy the named
assumptions of its module; hypotheses beyond these are given below.  Each invariant
of a passing run is stated by a theorem.

### DispatcherProofs

For every board set, component set, call set and bound:

* `TypeCorrect`: `Spec => []TypeOK`.
* `ResponsesAlwaysFirst`: `Spec => []ResponsesFirst`.
* `PassNeverSkips`: `Spec => []PassLeavesOnlyResponses`.

`TypeOK` is not inductive by itself: that the iterator is a position of the list or
one behind it is needed exactly while the board is in its pass, so `TypeInv` adds
`IteratorOK`, which ties the iterator to `pc`.  The two list properties share
`OrderedInv`, which is `TypeInv` and `OrderInv`: no request in front of a response,
and only responses pending before the iterator.  They need each other: a removal or
a prepended response moves the iterator, and what user code prepends is a response.
The lemmas say what the list operators do (`AfterUserCodeList`, `RemoveAtList`,
`UserCodeList`), then one lemma per group of actions says that it preserves the
invariant, and the theorems combine them by `PTL`.

### DispatcherMatchingProofs

* `AcknowledgedMeansHandled`: `Spec => []AckMeansHandled`.
* `RepliesMeetTheirEntries`: `Spec => []ReplyMeetsItsEntry`, if `DistinctCalls`.

`HonestInv` says that every packet on a wire, every handle of a component and every
entry of a list tells the truth about its call: its header is that of the call, or
the reply to it; an acknowledgement and a handle exist only for what was handled.
`DistinctCalls` says that no two calls have the same identifier between the same two
components, in either direction.  This is exactly what the code needs, since
`headerFits` compares source, destination and identifier and nothing else ("Known
limits" above); an `ASSUME` of `MCDispatcher` makes TLC evaluate it for every
instance.

### DispatcherDeliveryProofs

* `HandlerRunsPerTry`: `Spec => []RunsAtMostOncePerTry`.
* `EventReachesListenersOnce`: `Spec => []EventRunsOnce`.
* `CallsAreNotLost`, `CallbacksGetOwnAnswers`, `AnswersAreNotLost`:
  `NoSilentLoss`, `CallbackGetsOwnAnswer` and `AnswerNotLost`, if `DistinctCalls`.

Two invariants carry these.  `AccountInv` is an account per call: `Load`, the runs
of its handler and the copies of its request on the wire together, is at most one
more than the tries its entry has used, and each try costs a timeout.  So neither a
late copy nor a loss can add a run.  `OutcomeInv` follows a call to its end: it is
to be made, listed, handled or given up; its answer is held as a handle, listed, on
the wire as an acknowledgement that was earned, called back, or given up.  It is
`AccountInv` that shows a callback to run once: when it runs, the entry goes, and no
second entry of a call ever exists.  Every step is first classified (`Fates` for the
account, `Courses` for the outcome: what it does to each call), one lemma per action;
that the classes preserve the invariants is then shown once.

### CanConnectorProofs

For all boards, drivers and packets of any size (up to the 65535 bytes of a
`SmartPointer`):

* `TypeCorrect`: `Spec => []TypeOK`.  Index and counter have four bits each on the
  wire, although `fragmentIndex` goes up to 42.  A frame holds at most 8 bytes only because the
  next fragment begins inside its packet; `IInv` adds this (`IndexOK`), and
  `FragmentFrameType` shows that it is kept when there is a further fragment.
* `IdentifierRoundTrip`: `convertToHeader` undoes `convertToIdentifier`.
* `FragmentsAreLegal`: receivers accept every fragment of a packet of up to 48
  bytes.
* `FragmentsMeetTheirPackets`: `Spec => []FragmentMeetsItsPacket`, and
  `ConnectorImplementsChannel`: `Spec => ImplementsChannel`, the refinement of
  `PacketChannel`; both if `DistinctKeys`, `SizesFit` and `MaxWarnings = 0`.
* `AlwaysInOrder`: `Spec => []FragmentedInOrder`, if also `InOrder`.

`ChannelInv` is `IInv` with two parts.  `SendInv`: `sendList` is in the order of the
calls, no fragmented packet was skipped, and `messageCounter` is that of the next
one.  `FlightInv`: a frame on the bus is a fragment of a packet its sender has sent,
an entry of `pendingMessages` holds pieces of one packet only, a packet is delivered
at most once on a board, and no piece of it is in two places.  For the refinement
every step is shown to submit one packet (`Submits`), to make one available
(`MakesAvailable`) or to show nothing (`ShowsNothing`).  For the order, `LineInv`
says that of the fragmented packets of one board those available at another were
sent before those in its receive queue, and these before those still in the
sender's driver.

The hypotheses are those under which the code is right.  `SizesFit`: no packet has
more than 255 bytes, since of a longer one only the lower eight bits of the size are
kept.  `DistinctKeys`: no two
fragmented packets of one header get the same counter, which has 4 bits (an `ASSUME`
of `MCCanConnector` has TLC check both for the instances).  `MaxWarnings = 0`: the bus
stays connected, since a cut-off packet does not advance the counter and the run
`can_restart` shows what follows.  The theorems cover any losses without changes of
the bus state; `can_fifo` checks the refinement with such a change.

### ZeroMQConnectorProofs

For any messages and sizes, any capacity of at least one packet and any number of
restarts:

* `TypeCorrect`, `FrontAlwaysExists`, `HeaderAlwaysMeetsPayload`,
  `AlwaysDropsWhatWasHandled`, `AlwaysHandledInOrder`: the invariants of the run
  `zeromq`.

None is inductive by itself.  `IInv` adds what the main thread may rely on although
it released the mutex: between `isPacketAvailable` and `dropPacket` the queue is not
empty, because the thread pops only to make room and pushes in the same step; while
the reference is to the front, the header is the front packet; and once it is
dangling, one overrun is not accounted for by a skipped packet, nor, before the packet
is handled, by a mixed one (`HeaderInv`).  `OrderInv` adds
the line in which the packets stand: what was handled, what the dispatcher holds,
the queue and the socket are in the order of `sent`.  The front of the queue is left
out of it between handling and drop, when it stands in the line twice.

### SabProofs

For any bus, slaves, script and timers:

* `TypeCorrect`: `Spec => []TypeOK`.
* `HandledIsAlwaysWhole`, `AlwaysHandledOnce`, `OneAlwaysTalks`,
  `VerdictIsAlwaysTrue`: the other invariants of the run `sab`, if `KeepsUp`.

The invariants stand on each other.  `TypeInv`: what is stored and sent are pieces
of messages.  `FrameInv`: the pieces in a receive buffer are the rest of one message
in which parts may be missing, and an interface never mixes two; this is where
`KeepsUp` enters.  `TokenInv` and `ExchangeInv`: there is at most one message on the
bus, the request of the query in progress or the answer to it, and with it the right to
send, and a slave has done each request once at most.  A timeout after a loss does not
change that, as nothing of the query is left (`ExchangeIsOnItsWay`).  From a query on
that timed out while its answer could still come, there is at most one message of each
query since then.  `VerdictInv`: what the master can still receive was sent by a slave
in reply to this query or to one of those.

So `OneAlwaysTalks` and `VerdictIsAlwaysTrue` are about executions without such late
answers: `OneTalks` says nothing from the first of them on, and `VerdictIsTrue` then
says only that the verdict is on what some slave did since.

`KeepsUp` is a hypothesis on the devices, which the code does not check: each main
loop handles a message before the next one begins.  Without it `HandledIsWhole` is
false, as `sab_mixture` shows.

### RprProofs

For any ring, messages, callbacks, queue sizes and losses:

* `TypeCorrect`: `Spec => []TypeOK`.
* `FramesAlwaysWhole`: `Spec => []FramesWhole`.
* `HandledAlwaysOnce`: `Spec => []HandledOnce`, if `DistinctMessages` and
  `GroupsAreNotAll`.
* `OrderAlwaysKept`: `Spec => []OrderKept`, if `DistinctMessages`.

None of the invariants says anything of what is on the wires, and all depend on it.
The bytes alone do not tell whose they are, since all start delimiters are alike; so
the proofs carry a *stream of tokens* per wire (`Tokens`): for each byte, the last
one that was read included, the message, the place in its frame, and what is left of
that part (`Fitting`): addresses may be misread and a check sequence torn.  The
streams exist in every state; no variable holds them.

`Follows` ties each station to them.  Either its flags, length, addresses and check
sequence are those of the frame whose byte it read last (`Keeps`), or the addresses
of that frame were misread and what its check sequence covers does not begin with a
header (`Garbled`), so that it is right for no message.  `Chained` says what may come
after what: behind the addresses of a frame, misread or not, stands only what is left
of that frame.  With `CrcMessage`, a right check sequence means the parts of one
message, it follows that a station receives the message whose header it read last
(`MessageForMe`).

While nothing is lost, `Whole` adds that the stream is without gaps and each station
in step with it: `FramesAlwaysWhole`.

For the other two, `Circ` follows the headers that a station may still take for that
of a frame; one that is misread drops out for good, though its frame may go on.
There is at most one of each message on all wires (`Once`); the station ahead of it
has read neither it nor a later message of the same source (`Coming`); on one wire
they are in the order in which they were written (`InOrder`); and who has read a
header stands behind its source in an unbroken line of stations that have read it
(`Visited`).  So a header that is not misread goes round once at most.
`Gathered` says that what waits for the callbacks of a station, and what they have
got, was read there and is in the order of writing; `Current` the same of the frame
that is coming in; `Waiting` that a message which is still to be written is so at
one place only.

`DistinctMessages`: the messages of the programs are all different, so that "twice"
has a meaning.  `GroupsAreNotAll`: no multicast goes to 0x7fff, which is a broadcast
on the wire, and stations outside the group would handle it.  An `ASSUME` of `MCRpr`
has TLC check both for the instance.

### AtomicQueueProofs

For every capacity from 1 to 65535 (the assumption of each theorem; the upper bound
is the width of the index):

* `QueueImplementsFifo`: `Spec => ImplementsFifo`.
* `NearlyFullAlwaysCounts`, up to 65534: `isNearlyFull` is true exactly if less than
  two elements fit.
* `NearlyEmptyAlwaysCounts`, up to 255: `isNearlyEmpty` is true exactly if less than
  three elements are stored.

`IInv` says that what one side has found out stays true whatever the other does:
while push is under way the queue is not full and, once written, the place of `head`
holds the element; while the consumer is between `isEmpty` and `pop` the queue is
not empty and `element` is the front.  `NextIndexValue` shows that the 8 or 16 bit
index does not overflow, `PlaceType` that the place of `head` is not that of a
stored element, and one lemma per action that it is a step of `BoundedFifo` or a
stutter.

### Only model-checked

All invariants of the passing runs, all their action properties on safety and the
refinement of `PacketChannel` are proved.  What is left to TLC:

* the liveness properties (`AnswerArrives`, `CallRunsDespiteLosses`, `EntrySettles`,
  `PacketArrives`, `PacketIsHandled`, `StopReturns`, `ArrivesEverywhere`,
  `RingFallsSilent`, `QueueDrains`, `QueryCompletes`).  They rest on fairness, which
  the provers used here cannot reason about (`ENABLED`);
* the instances in which a hypothesis of a theorem fails: the refinement with a
  change of the bus state (`can_fifo`), and the three runs that expect a violation.

## Not modelled

Registration after the start, handles answered twice, `responseTimeout` (no code
reads it), the wrap-around of the 16 bit acknowledge timeout, memory exhaustion, and
the components whose status in `PROJECT.json` is `not_modelled`, each with its
reason there.  AMNB cannot be built at this commit: its include is commented out
(`communication.hpp:18`) and it instantiates `xpcc::Timeout` as a template, which it
no longer is.  Most of the lines of `src/` are vendor headers of microcontrollers
(`src/ext`), which define registers and have no behaviour; the modules here are
about a few thousand lines of `src/src/xpcc`.
