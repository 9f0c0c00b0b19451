# Optimal-Wifi: a verification project in TLA+

Optimal-Wifi is a WiFi library for the ESP32 (Arduino core) with its own
header-only toolbox. The code that keeps state and decides things is in
`src/lib/WiFi/src` (station, access point, scan, TCP, UDP, lookups) and in
`src/include` (timers, events, futures, errors, containers). This directory
models that code, checks the models with TLC on small instances, and proves the
most important results with TLAPS for every instance.

## 1. Inventory

| Component | State | Operations | What is hard |
|---|---|---|---|
| WiFiClient | handle (shared pointer), `_asyncConnState`, `_connected`, `_txView`, `_ep`, timeouts, receive buffer | construct, copy, move, stop, connect, connectAsync/pollConnect, write, writeAsync/pollWrite, read, peek, flush, connected | copies share a descriptor but not the other members; deadlines and resets race polls; the buffer at its limits |
| AtomicSharedPtr | reference count | make, copy, move, assign, reset | the last reference deletes; two tasks between atomic instructions |
| WiFiServer | `sockfd`, `_listening`, `_accepted_sockfd` | begin, hasClient, available, end | failure half-way through begin; a staged connection |
| WiFiUDP | `udp_server`, multicast membership, tx buffer, rx buffer, a static staging buffer | begin, beginMulticast, stop, beginPacket, write, endPacket, parsePacket, read, flush | the buffer at its limit; the staging buffer is shared by all objects |
| WiFiGeneric | `lowLevelInitDone`, `_esp_wifi_started`, status bits, event queue, `first_connect`, `cbEventList` | mode, getMode, enableSTA/AP, tcpipInit, onEvent, removeEvent, `_eventCallback` | driver calls that fail half-way; events handled late; callbacks that change the list being walked |
| WiFiSTA | status group, `_autoReconnect`, `_useStaticIp` | begin (three forms), reconnect, disconnect, config, status | the event task reconnects on its own |
| WiFiAP | configuration, address, lease range, DHCP server | softAP, softAPConfig, softAPdisconnect | subnet arithmetic; refusal after the address is set |
| WiFiScan | `_scanCount`, `_scanStarted`, two status bits | scanNetworks, scanComplete, scanDelete, `_scanDone` | two tasks without a lock; time-out against a late answer |
| WiFiMulti | list of networks | addAP, run | results replaced while they are read |
| DNS | two status bits | hostByName | two callers, late callback |
| Timer | node pool, heap, paused list, counters, tick guard | add, remove, pause, resume, tick | callbacks that change what the tick is walking |
| Timer groups | named lists of ids in a hash map, `TimerGroup` | create, add, pause, resume, clear, remove | erasure in an open-addressing map |
| Event dispatcher | listeners by event, dispatch depth | on, once, off, dispatch | changes and nested dispatches during dispatch; exceptions |
| Executor, Future, Deferred | pool of futures, shared result | execute, poll, resolve, reject, combinators | swap-and-pop while polling; promises of another task |
| Error handling | history ring, statistics, throttle and deduplication maps, context stack, queue, policies | reportError, executeSafe, policies, contexts, enqueue, process | callbacks that report again; exceptions; wrap of `millis()` |

Three actors run concurrently: the sketch's task (`loop()` and everything it
calls), the `arduino_events` task, which takes ESP-IDF's events from a FIFO
queue and runs `_eventCallback()`, and the driver with the network behind it.
They share the status group, the status bits and the static members of the
WiFi classes. WiFiClient, WiFiServer and WiFiUDP meet in lwIP's descriptor
table. WiFiMulti and the reconnection in `_eventCallback()` call the same API
as the sketch. Timers, events, errors and futures are driven by the sketch's
loop; a Deferred may be settled from any task.

## 2. Modules

| Module | Models | Composition |
|---|---|---|
| `TcpClient` | WiFiClient and the AtomicSharedPtr it uses | on its own; the handle is named by its descriptor |
| `TcpStream` | WiFiClientRxBuffer, with the bytes it holds | EXTENDS `TcpClient`, whose steps it takes |
| `SharedOwner` | abstract: shared ownership | |
| `SharedPtr` | AtomicSharedPtr, one atomic instruction per step | implements `SharedOwner` (INSTANCE) |
| `Lwip` | the descriptor table (external) | extended by the two below |
| `TcpServer` | WiFiServer | EXTENDS `Lwip` |
| `UdpSocket` | WiFiUDP | EXTENDS `Lwip` |
| `WiFiSockets` | a server, its clients and UDP objects over one table | EXTENDS `TcpServer`, `UdpSocket` |
| `WiFiStation` | WiFiGeneric modes and events, WiFiSTA, access-point bits | on its own |
| `WiFiNetif` | addresses of the access point and the station | extended by `WiFiServices` |
| `WiFiEvents` | start of the event task, callback list, hostByName | extended by `WiFiServices` |
| `WiFiServices` | the two above, side by side | EXTENDS both |
| `WiFiScan` | WiFiScan | extended by `WiFiMulti` |
| `WiFiMulti` | WiFiMulti's run() over WiFiScan | EXTENDS `WiFiScan` |
| `TimerManager` | TimerStorage, TimerManager, TimerProcessor, tick | on its own |
| `HashMap` | StaticHashMap and HashMapBase, as operators | extended by `TimerGroups` |
| `TimerGroups` | named groups and TimerGroup | EXTENDS `HashMap` |
| `EventDispatcher` | BaseEventDispatcher, EventStorage, on/once/clear | on its own |
| `Async` | Executor, Future and its combinators, Deferred | on its own |
| `ErrorHandler` | ErrorHandler, ErrorPolicy, ErrorQueue | on its own |
| `TcpClientProofs` | theorems about the client and its receive buffer | EXTENDS `TcpStream` |
| `SharedPtrProofs`, `WiFiSocketsProofs`, `WiFiServicesProofs`, `ErrorHandlerProofs` | theorems | each EXTENDS the module it is named after |
| `WiFiStationProofs` | theorems about the station, the scan and run() | EXTENDS `WiFiStation`, `WiFiMulti` |
| `TimerManagerProofs` | theorems about the timer pool, the groups and their hash map | EXTENDS `TimerManager`, `TimerGroups` |
| `AsyncProofs` | theorems about the Executor and the event dispatcher | EXTENDS `Async`, `EventDispatcher` |
| `MC*` | constants for TLC | EXTEND the module they instantiate |

In every module an action is one operation of the code, with its early returns
as guards (a call that changes nothing is a stuttering step). Definitions whose
comment starts with `Mutant:` are plausible mistakes; no specification uses
them, they show that each property would notice.

**TcpClient, TcpStream.** `cl[c]` holds the members of an object, `sock[s]`
lwIP's view of a descriptor and the handle that owns it. `AfterReset`,
`AfterShare` and `AfterMake` are the three things the shared pointer does.
Outgoing bytes are abstracted to how many are pending, addresses to peers. Each
object is used by one task at a time. lwIP's handshake, a FIN, an RST and the
clock are environment actions. `TcpStream` gives the bytes of a connection
numbers and follows them through `recv()`, `_buffer`, `_pos` and `_fill`; every
read, peek and flush is at the same time the step of `TcpClient`.

**SharedPtr.** A copy is two steps (load the address, `fetch_add`), a reset is
two (`fetch_sub`, then delete and clear), an assignment is a reset followed by
one of the others. `op[t]` is what a task has begun. As with `std::shared_ptr`,
one pointer object belongs to one task at a time. The mapping to `SharedOwner`
says that a pointer owns a cell from its `fetch_add` to its `fetch_sub`.

**WiFiSockets.** The descriptor table says what each descriptor is (listening,
stream, datagram) and a connection carries its arrival number. `socket()`,
`bind()`, `listen()` and `accept()` may fail. Of `tx_buffer` the model keeps its
length and how many bytes at its start have been sent before (`len`, `sent`), of
the staging buffer which object's socket each byte came in on, of `rx_buffer`
the set of objects whose bytes it holds (`rx`). The calls of `WiFiUDP` come in
any order, as the code checks none: `asked`, `parsed` and `ended` only record
what was called since `beginPacket()`. `parsePacket()` is two steps, receive
into the static `stagingBuf` and copy, and any number of objects may be between
the two; `crossed` records whose bytes were overwritten there.

**WiFiStation.** `wifi` is the driver's state next to the two flags that mirror
it and the event queue. An API call is a function from such a state to the set
of states it may leave, one for each driver call that may fail. A disconnect
event is two steps, status first and reconnection second, so the sketch may act
in between. `owed` records that a lost link is to be retried, `misread` that
`esp_wifi_ap_get_sta_list()` failed when a station left.

**WiFiNetif.** An address is its low 16 bits, a netmask two bytes, each with a
table of its leading ones (the loop that counts a prefix length);
`set_esp_interface_ip()` stops, sets, checks and starts as the code does and
may fail at each call.

**WiFiEvents.** The task walks `cbEventList` by index, one entry per step, and
a callback may register, remove or look a name up. `hostByName()` is one step
per operation on the event group, from the loop and from a callback.

**WiFiScan, WiFiMulti.** One step per access to a shared variable; `at` and
`task` are the program counters of the two tasks, `multi` that of `run()`.
`run()` reads a record field by field, as `getNetworkInfo()` does, and the BSSID
last, where it is copied through the pointer into the results.

**TimerManager.** A tick takes due timers out of the heap in one step, then
each callback is a step to start and one to finish, with any operations of the
callback in between. Times are signed differences to now, as the code's 32-bit
subtractions are.

**HashMap, TimerGroups.** The map is its buckets and its dense entries, with
the code's probing, backward shift and swap with the last entry; `groups` is
the plain function it should stand for.

**EventDispatcher, ErrorHandler.** One task, but listeners, callbacks and
policies call back in: the calls in progress are a stack of frames, each at its
place in what it walks. Both let sketch code throw where the code catches.
`dispatch_depth_` keeps its width (`DepthWrap`). A dispatch whose array is
erased from, compacted or cleared under it is marked `torn`; it goes on over
whatever lies at its place, or over a destroyed entry, of which anything may be
read. The error queue may be processed and cleared from its own callback, and
its count keeps its width (`SizeWrap`); contexts are pushed by guards and by
hand, on a stack that may be full.

**Async.** A slot holds a combinator over at most two simple futures; `poll()`
is one step per call and per return, so that a future may schedule others and
another task may settle a promise in between. That task's `resolve()` is a
check, a write of the state and a write of the value.

## 3. Runs

| Run | Distinct states | Shows |
|---|---|---|
| `TcpClient` | 1.50M | reference counts equal owners and a descriptor is open exactly while owned; members agree; endpoint cache and pending bytes never survive into another connection |
| `TcpStream` | 306k | bytes are read in order and once; `pollConnect()` calls a failed handshake connected only to an object that shared it with a copy; an asynchronous connect resolves by its deadline |
| `SharedPtr` | 40k | the reference count implements `SharedOwner` |
| `WiFiSockets` | 639k | descriptors have one holder; memberships match sockets; a datagram goes where `beginPacket()` said unless one was parsed since, and repeats sent bytes only after an `endPacket()` since; received bytes are of the own socket unless another receive fell between receive and copy; connections are handed out in order and once |
| `WiFiStation` | 173k | flags mirror the driver whichever call failed; status and bits are right once events are drained; a lost link is retried |
| `WiFiMulti` | 3.93M | the scan's flags settle; `run()` chooses the strongest usable network of those it read, and if no earlier scan is outstanding, a record of its own scan, with name, channel and BSSID that belong together |
| `WiFiServices` | 85k | leases stay in the subnet; the station has an address or looks for one; a start that reports success can deliver every event; each callback is called once per event; lookups return, and an answer is late only after an overlap |
| `TimerManager` | 500k | no node is lost or reused under the tick; counters are right; a removed timer stays gone; due timers are run |
| `TimerGroups` | 30k | the map finds exactly the groups that were put, with their timers |
| `EventDispatcher` | 4.55M | a dispatch whose array is not changed under it calls every listener once unless removed before its turn, in the group that is found; only `clear()` or a wrapped `dispatch_depth_` changes an array being walked; the dispatch that brings the depth to 0 gives back the places of listeners removed before their turn and of once-listeners that were called |
| `Async` | 187k | no slot is lost or doubled; each `poll()` calls every future once; a settled promise reaches its future |
| `ErrorHandler` | 2.52M | the history is the tail of what was accepted; the queue keeps order across callbacks and exceptions until a callback takes entries off itself; the context stack is what was pushed and not popped, and no deeper once a push was dropped; throttled errors keep their distance |

**Bounds.** Two clients, two descriptors and two peers: sharing, moving and
recycling a descriptor for another peer need no more; `TcpStream` has one
descriptor and one peer, since its properties are about one connection. There
`RxSize` is 2 and reads ask for 1 to 3 bytes, so a read can be served, be staged
and bypass the buffer. Time-outs are zero and endless. Ages saturate one tick
above the largest finite time-out. Four pointers and two tasks let one task copy a cell while another drops the last other owner, with a
second cell to be recycled. Three descriptors let a server hold a listening
socket, a staged connection and one handed out, or two UDP objects compete with
it. `MTU` is 3, so a buffer can be empty, partly sent, partly full and full, and
a short datagram can follow a long one in the staging buffer. Two stations of
the access point let one leave while another stays. Two pending
events in `WiFiStation` let an event wait while the sketch and the driver act
twice (an API call may add several more). In `WiFiMulti` two results fit and up
to three networks are found, two access points of one name (a strong secured
one, a weak open one) against list entries with and without a password, so
that mixed fields would show; one SCAN_DONE may be late. The addresses of
`WiFiServices` lie in and around one /28; the masks are /24, /28, one too small
and one too large. Three timers are the fewest for which a tick takes two and
leaves one. Five names that collide over four places, around the end of the
array too, make every branch of the backward shift happen. Two nested
dispatches and three places per group let a listener remove, add and dispatch
its own event; `DepthWrap` is 3 and two exceptions may leak (`MaxThrown`), so
that the depth is 0 in the only dispatch, in an inner one, and at the end of an
inner one. `MaxNested` of `Async` limits how many futures are scheduled from
inside one `poll()`: the code has no such limit, and a future that schedules
another one each time makes a `poll()` that does not end. In `ErrorHandler` three
errors are reported into a history of two (`MaxReports`, `HistorySize`), three
contexts pushed on a stack of two (`MaxScopes`, `StackMax`), and `processOne()`
may be called to a depth of three. A configuration changes once
(`MaxChanges`): every pair of a filter, throttle or deduplication with reports
before and after it is covered, two different settings together are not.
Two runs are cut by a constraint `Apart`, stated in their MC module: parts of
the state that share nothing with each other are explored one at a time. In
`WiFiSockets` connections arrive while no datagram is built or received, and one
object builds while both receive; in `ErrorHandler` the context stack is used
without queue, limits and policies, the queue without policies, and a third error
is accepted with neither limits nor the queue. The theorems of section 4 have no
such cut. Symmetry is used only where no liveness is checked.

**Restrictions.** `LossReasons` of `WiFiStation` leaves out AUTH_EXPIRE,
which the code does not retry once an address was held (section 5).
`SlowScan = TRUE` says that a scan takes longer than the five statements after
`esp_wifi_scan_start()`: a scan dwells at least 100 ms on a channel. Without it
WIFI_SCANNING_BIT may stay set for ever. Several properties say when they are silent instead of excluding the case from
the model: `DispatchExact` of a torn dispatch, `QueueFaithful` once a callback
took entries off the queue (until a `clear()` from outside), `ContextUnwinds`
while a push or pop by hand lacks its counterpart, `ReceivedOnOwnSocket` of a
crossed object, `ChosenFromScan` when an earlier scan's SCAN_DONE was due.
`RemovedCollected` says nothing of a listener removed after its own turn, which
keeps its place until the next dispatch of its event, nor of the dispatches after
an exception, which no longer bring the depth to 0. `DispatchExact` counts calls
per dispatch: a once-listener that dispatches its own event is called again by
the inner dispatch, as it is marked only when it returns. In `EventDispatcher`
deadlock is not checked: with all ids of the bounded instance used up and the dispatcher
cleared, only calls without effect are left.

**Fairness.** `TcpStream`: the sketch keeps polling and time passes, as the
usage loop in `WiFiClient.h` does. `WiFiStation`: the event task, which blocks
only on its queue, runs when it has work; nothing is assumed of the network or
the sketch. `WiFiServices`: both tasks go on with a lookup, and lwIP
answers every one, with a failure if need be. The waits have limits, and the
code's numbers make the limits unreachable where no lookups overlap: lwIP gives
up within 14 s, `hostByName()` waits 15 s for the answer and 16 s for another
lookup to end. `TimerManager`: `loop()` calls `tick()`, callbacks return, time
passes. `Async`: `loop()` calls `poll()`, and calls return; the settling task
is not assumed to run.

## 4. Proofs

`TcpClientProofs` proves, for any number of objects, descriptors, peers and
time-outs, three theorems of `TcpClient`:

* `TypeCorrect`: `TypeOK` always holds; in particular `m_ref_count` is never
  negative.
* `NoDescriptorLeak`: the count is the number of owners, and a descriptor is
  open exactly while somebody owns it.
* `MembersAlwaysAgree`: connected, connecting and pending imply a handle, and
  never both of the first two; the "socket vanished" branch of `pollConnect()`
  is dead.

None of these is inductive alone. That a count never drops below zero follows
from its being the number of owners; that an object letting go of its handle
was counted follows from the types; that a new handle starts with one owner
needs a free descriptor to have none. The invariant `IInv` is therefore the
conjunction of all of them. The argument has three layers: how the number of
owners changes when one joins or leaves (finite cardinalities); how each of
the moves of a reference (keep, release, share, make, move) preserves the
count; and that every action is one of these moves. The assumptions used are
those of the module: finitely many objects, `NoSock` and `NoPeer` outside their
sets, natural numbers for time-outs and buffer length.

`SharedPtrProofs` proves the refinement, for any tasks, pointers and cells:

* `ImplementsOwnership`: `Spec => Ownership`, that is, `SharedPtr` implements
  `SharedOwner`.

The invariant says, besides the types, where each operation stands (`AtWell`:
a copy that is about to count itself still has its source pointing to the same
cell), that no pointer is used by two tasks (`Separate`), that the count is the
number of owners, and `Lives`: a cell is allocated exactly while it has an owner
or one task is about to delete it, never both. The last is what makes the gap
between `fetch_sub` and `delete` safe: whoever finds the count at one was the
only owner, so nobody can load the address any more. Each operation has one
lemma that gives both the invariant and the step of `SharedOwner` it maps to
(Load and Finish map to stutters, Add to Share, Sub to Drop, Steal to
Transfer). Assumed: finitely many pointers, `Null` neither pointer nor cell.

`TimerManagerProofs` proves, for a pool of any size and any delays, intervals,
repeats and limits, three theorems of `TimerManager`:

* `TimerTypeCorrect`: `TypeOK` always holds.
* `NoNodeLost`: every node is in exactly the list its state names, so none is
  lost and none is given out again while `process()` holds a pointer to it.
* `RemovedStaysGone`: a removal asked for during a tick is never forgotten.

The invariant is the conjunction of the three. The partition needs the types
(the queue holds nodes), and it is the partition that makes a removal request
safe: only a queued timer carries one, so the one place it can leave the queue,
`Handled`, decides its fate. The work is in two facts about sequences (what the
heap gives is without repetition, and taking the head off such a queue leaves
exactly the others) and in `LeaveQueue`, which covers the four outcomes of
`Handled` with one argument: a queued node moves to the list of its new state.
The assumptions used are those of the module: natural numbers for the pool size
and the times, positive or endless repeats, and `NoLimit` not a number.

`TcpClientProofs` also proves, over the same invariant:

* `EndpointsStayFresh`: a valid EndpointCache names the peer of the connection
  the object holds now. In a step each object stays as it is, lets its handle
  go or takes one over (`Moves`), and the peer of a descriptor changes only when
  it is opened or closed (`PeersStay`).
* `ViewsStayWithConnections`: the pending tail of one connection is never sent
  on another.
* `PollConnectTellsTruth`: `pollConnect()` says "connected" of a handshake that
  failed only to an object whose handle was shared while it connected. Copies
  mid-handshake are part of the model; `copied` marks the descriptors that went
  through one. `Alone` says that an object mid-handshake shares its handle with
  nobody or the descriptor is marked, `ErrorKept` that an error is gone only
  from a marked one, and `Carries` that no step loses a mark or an error.
* `StreamImplementsClient`: every step of `TcpStream` is a step of `TcpClient`
  or leaves it alone, so all of the above holds of a client with its buffer.
* `BytesStayInOrder`: the sketch reads the bytes the peer sent, in order, without
  gap and without repetition. `StreamOK` says what `_buffer`, `_pos` and `_fill`
  hold: exactly the bytes between the last one read and the last one received.

`CountsRight` of `TimerManagerProofs` adds that the counters of the storage are
the lengths of its lists, for any pool: one lemma on what a move between lists
does to two cardinalities, applied to each action.

`PutIsFound`, also there, is about `TimerGroups` and `HashMap`: for any number of
buckets, any keys and any hash function, `contains()` and `find()` answer as the
plain function `groups` does, whatever is inserted, updated and erased in
whatever order. The invariant is `MapOK` and `Agree`. `MapOK` says that buckets
and dense entries correspond one to one (`Dense`), that keys are distinct, that a
key's probes meet no empty bucket before the key (`Chained`), and that there is a
bucket `w` which no probe sequence wraps past (`Uncrossed`; the bucket after the
one filled last is such a `w`). The last is what the loop of
`remove_bucket_and_rehash()` needs: counted from `w` the ring is a line, and the
three comparisons of `Misplaced` say exactly that the key, on its way from its
ideal bucket, crosses the hole (`MisplacedIs`, `OnLine`). The loop invariant
`Shifted` says that the hole is the only gap in any probe sequence and that the
keys which cross it are still ahead; once the loop has passed the end of the
line there are none, so that it stops, at an empty bucket, within the two rounds
it allows itself (`RehashOK`). `EraseOK` then follows the last entry to the
erased place. Assumed: at least one bucket, and a hash within the array.

`WiFiSocketsProofs`, for any table, any number of UDP objects and any backlog:
`TypesStay`; `OwnersStayExclusive` (no two objects own one descriptor);
`ServedInOrder` (connections are handed out in the order of their arrival: all
that are staged or queued are later than the last one handed out, `OrderOK`);
`MembershipsCounted` (IGMP memberships are the multicast objects there are);
`SentAsBuilt` (whatever the order of calls, a datagram goes where the last
`beginPacket()` said unless `parsePacket()` took one since, repeats bytes sent
before only after an `endPacket()` since, and never overruns `tx_buffer`;
`BuiltOK`); and `NoCrossReading` (with any number of tasks inside
`parsePacket()`, a foreign byte gets into `rx_buffer` only through a receive
between receive and copy, and never from beyond the datagram: `StagedOK` says
that the first bytes of `stagingBuf`, as many as an uncrossed object has yet to
copy, are its own). `Lwip` is external: the theorems rest
on a descriptor table that gives out free descriptors only.

`WiFiStationProofs`:

* `FlagsAlwaysMirror`: `lowLevelInitDone` and `_esp_wifi_started` mirror the driver
  after every call, whichever of the driver calls in it failed.
* `BitsAlwaysSettle`: when the event queue is drained, the status bits and the
  status are those of the driver, *if no established link is lost with
  AUTH_EXPIRE* (section 5). What a bit will be is decided by the last queued
  event that touches it: the invariant (`RadioOK`) says for each bit, and for
  the status, that this event agrees with the driver or that there is none and
  the bit agrees already (`Follows`). Two lemmas, an event is queued and
  an event is handled, do the work for all bits.
* `FlagsAlwaysSettle`: `WIFI_SCANNING_BIT` and `_scanStarted` do not outlive the
  scan and its SCAN_DONE. `ScanOK` names who is going to clear each flag. It
  holds *if a scan outlasts the instructions between* `esp_wifi_scan_start()`
  *and the stores that follow it* (`SlowScan`).
* `BestAlwaysChosen`: run() chooses the strongest usable network of those it
  read, for any results and lists, even when a late SCAN_DONE replaces the
  results under it. Assumed of the networks: signal strengths are integers.
* `AlwaysChosenFromScan`: if no earlier scan was owed its SCAN_DONE when run()
  asked for its own (`alone`), the choice is the strongest usable record of that
  scan, with its own name, channel and BSSID. `AloneOK` follows the two tasks:
  while run() waits, its scan is the only one, and once the done bit is set the
  event task has nothing left to write (`ScanAlone`); while it reads, the
  fields read so far are those of the record at its place, and the choice is
  the best of the records before it (`Behind`).

`WiFiServicesProofs`, one inductive invariant per record, since the records do
not meet:

* `StationStaysAddressed` (`StaInv`: `_useStaticIp` is set only while the station
  has an address without DHCP) and `RangeInOwnSubnet` (`ApInv`: the range the DHCP
  server leases is in the subnet of the access point). The second rests on
  `AddressAssumption` and `MaskAssumption`: 16-bit addresses, and facts about the
  256 values of a netmask byte, which are a table TLC evaluates in full.
* `InitIsComplete` (`NetInv`): initialised means that the queue, the task and
  every handler are there, whichever step failed on the way.
* `LateNeedsOverlap` (`DnsInv`): an answer is written to a frame that is gone only
  after two lookups have overlapped.
* `CalledOncePerEvent` (`WalkInv`): the walk over the callbacks calls none twice,
  and without a removal misses none. Ids increase along the list, and
  those called stay below all that the walk has yet to reach.

`AsyncProofs`:

* `PoolPartitioned` (`PoolOK`: no slot twice in an array and none in both) and
  `EachPolledOnce` (`SweepOK`): a poll() calls each future once, though a finished
  one is replaced by the last and calls schedule new ones.
* `DispatchStaysExact` and `RemovedAlwaysCollected`: what `DispatchExact` and
  `RemovedCollected` say, for dispatches nested to any depth, exceptions out of
  any of them, `clear()` inside them and any width of `dispatch_depth_`.
  `GroupsOK`: ids are distinct and no event has two active groups. `CountOK`:
  until it wraps, `dispatch_depth_` is the dispatches in progress plus the
  exceptions that left one counted, so it is not 0 inside a dispatch and nothing
  is erased there. `FramesOK`: each dispatch that is not torn is within its
  group, and cleans up if it passed over a marked listener or called a
  once-listener. The key is `Grown`: while the depth is counted groups grow and
  listeners are only marked, so what a frame knows of its array stays true
  (`GrownFrame`); where an array does change, those that walk it are torn and
  the others are left alone (`TornFrame`). `KeptDrawn` is an induction over the
  loop of `cleanupMarkedListeners()`.

`ErrorHandlerProofs`, for any contexts, severities, capacities and limits:
`QueueStaysFaithful` (`QueueOK`: until a callback takes entries off, the ring
buffer is the sequence of what was queued and not yet processed; its other half
is in `CallsOK`: until then the entry that a call in progress has reported is the
one at the head, `Heads`), `ContextsUnwound` (`ContextsOK`: `Tracks`, the stack is
the contexts of the pushes that no pop has followed; `CallsOK` says how many of
them each call in progress is inside of, so that an exception cuts both alike),
`HistoryStaysTail` (`RecordOK`: the history is the tail of what was accepted and
the counts are of all of it) and the action property `RateStaysLimited`
(`RateOK`: what `isThrottled()` takes for the time passed is never more than the
time that has, which passes during calls too).

The provers do not do induction over data by themselves. Where a proof needs it
(`BestAlwaysChosen`, the clean-up of listeners, the loop of `erase()`) it is an argument about a
least counterexample, from the well-foundedness of `<` in the library (`Least`,
`UpTo`).

Only model-checked: all liveness, which with fairness and ENABLED is outside
what the prover handles: `ConnectResolves`, `LossIsRetried`,
`DueFires`, `LookupReturns`, `PromiseDelivered`.

## 5. What the code does that its reader may not expect

Met while modelling; the models do what the code does. Where a property of a
run would otherwise be about one of these, its statement or the run's
restriction says so.

WiFiClient
* Reading SO_ERROR clears it, and copies share the descriptor: with two copies
  of one object mid-handshake the second `pollConnect()` after a failure
  reports "connected" (`WiFiClientAsync.cpp:126`).
* `remoteIP()` returns the address of an earlier connection when the cache is
  invalid and `getpeername()` fails: `refresh()` leaves the old one in place
  (`WiFiClientEndpoints.cpp:75`).
* After a reset seen by `connected()`, `pollWrite()` returns before it touches
  the pending view, so `writeBusy()` stays true (`WiFiClientAsync.cpp:172`).
* `available()` returns what is buffered, without what lwIP still holds; its
  comment says "total readable bytes" (`WiFiClientInternal.h:192`).

WiFiServer
* A failed `bind()` or `listen()` followed by `begin()`, and `end()` with a
  staged connection, forget a descriptor without closing it; the repository's
  `README.md:19` says "leak-proof descriptors on every error path".

WiFiUDP
* `parsePacket()` between `beginPacket()` and `endPacket()` redirects the packet to
  the sender of what it received (`WiFiUdpRx.cpp:28`). `endPacket()` resets
  nothing: called again it sends the same bytes again, and what is written after
  it is sent behind them (`WiFiUdp.cpp:185`).
* `stagingBuf` is static: two tasks in `parsePacket()` of two objects can get each
  other's datagrams, or parts of them (`WiFiUdpRx.cpp:28`).

Station, access point, events, lookups
* AUTH_EXPIRE on a station that held an address is not retried, and the status
  stays CONNECTED (`WiFiGeneric.cpp:1350`).
* A disconnect event still queued when the sketch disconnects or switches off
  makes the event task join again (`WiFiGeneric.cpp:1390`).
* When `esp_wifi_ap_get_sta_list()` fails as a station leaves, the bit that says
  stations have joined is cleared although others remain, and stays so until
  the next one joins (`WiFiGeneric.cpp:1438`).
* A scan whose wait timed out may end while `run()` reads the results of the next
  one: the fields it reads may then be of different records, and between
  `esp_wifi_scan_get_ap_num()` and the cap on it the count may exceed the
  results (`WiFiScan.cpp:204`).
* `begin()` on a connected DHCP station drops its address first; the WPA2 form
  ignores channel, BSSID and `connect`, and only logs a password that is too
  long. `config(0.0.0.0)` sets `_useStaticIp` with the DHCP client running.
* A refused `softAPConfig()` leaves the new address without a DHCP server. The
  lease range may begin at the network address. `softAPdisconnect(true)` returns
  the opposite of what `enableAP(false)` did. Network and broadcast address are
  computed from the gateway. Netmasks with holes give a wrong prefix length.
* `_start_network_event_task()` returns its error code, which is true, when the
  event loop cannot be created; a start that is retried registers handlers
  again, so each event is posted twice.
* `removeEvent(cb, event)` passes over the entry behind an erased one, and a
  removal inside a callback makes the walk skip the next callback.
* Overlapping `hostByName()` calls can end each other's wait; the answer still
  due is then written to a frame that is gone (`WiFiGeneric.cpp:1955`).

Timers, containers
* A timer cancelled by another callback of the same tick still runs once.
* A `StaticArray` copied into a map keeps pointing to its old storage, so
  `removeFromGroup()` takes the last id off the group, whichever was named.
* `operator[]` on a full `StaticHashMap` is out of bounds.

Events, futures, errors
* A listener's exception leaves `dispatch_depth_` raised: from then on removals
  only mark and nothing is collected, until the 256th brings the `uint8_t` back
  to 0 inside a dispatch; then removals erase from the array being walked
  (`BaseEventDispatcher.h:93`). `clear()` in a listener destroys that array, and the
  listener itself. Groups of the dispatcher are never reused for another event.
* `Deferred` may be settled "from another thread", but the state is written
  before the value: a `poll()` in between takes a settled result with the old
  value. `SettledWhole` of `Async` states the promise, and it fails.
* Deadlines of futures are absolute `millis()` values, wrong across its wrap.
* The first error of a throttled context within an interval of boot is
  throttled. A threshold action that reports is run again from inside itself.
  A full context stack drops a push, but the guard still pops, the context of
  another scope then. Contexts pushed by hand survive an exception.
* `processOne()` from the callback of an entry reports that entry again, and each
  call takes one off: one that was not reported may be lost. If the inner call, or a
  `clear()`, takes the last one, the outer one counts down from 0 and the queue
  is full until the next `clear()` (`ErrorQueue.h:116`, `:198`).

## 6. Not modelled

Tx power, antennas, sleep, long-range and bandwidth settings, SmartConfig, and
the accessors of addresses, RSSI, MAC and host names: they pass a value to the
driver or read one. Ethernet, WPS, FTM and provisioning events are forwarded
only and stand behind `Posted`. A full event queue (32 places) and API calls of
two tasks at once are not modelled: an API call is one step of `WiFiStation`.
`TimerManager::clear()` and `TimerStorage::clear()` have no counterpart: the
`Timer` facade does not offer them. `HardwareTimer` ticks from another task; the two steps of the tick guard are
left out, one task ticks. `StaticString`, `SmallVector`, `StaticQueue`, function
wrappers, traits, logging, tests and examples hold no state that components
share. Contents of packets and configurations are abstracted to what the
properties tell apart. Memory exhaustion is not modelled, except where a pool
or map of fixed size is full.

## 7. Plan

1. Proofs: type correctness where no theorem states it yet, and `EventDispatcher`
   and `ErrorHandler` shown to implement what they promise of one event or error.
2. The tick guard of `TimerManager` under two cores, with `HardwareTimer`.
3. `mode()` in the steps of its driver calls, for two tasks; the event queue
   with its 32 places and the blocking post.
