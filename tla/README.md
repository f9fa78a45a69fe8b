# Verification of the Ostinato drone and its controller protocol

Ostinato generates, transmits and captures network traffic. A **drone** (`server/`) owns the
network ports of a machine; one or more **controllers** (`client/`) configure it over a
protobuf RPC protocol of its own (`rpc/`). This directory holds TLA+ modules of the parts that
have threads, locks, a wire or an algorithm worth checking, the TLC runs that check them and
the TLAPS proofs of what holds for every instance.

Contents: [the system](#the-system), [modules](#modules), [runs](#runs),
[what the runs found](#what-the-runs-found), [fairness](#fairness), [proofs](#proofs),
[limits](#what-is-not-covered), [plan](#plan).

To repeat a check: `tlc -config X.cfg M` for a run of the tables below, `tlapm M.tla` for a
module of proofs.

## The system

| component | where | state | operations |
|---|---|---|---|
| transmit thread | `server/pcaptxthread.*`, `packetsequence.h` | `packetSequenceList_`, `returnToQIdx_`, `state_`, `stop_`, counters | `start`, `stop`, `run`; `clearPacketList`, `loopNextPacketSet`, `appendToPacketList`, `setPacketListLoopMode` |
| packet list scheduler | `server/abstractport.cpp` | the streams, read; the list, written through the calls above | `updatePacketListSequential`, `updatePacketListInterleaved` |
| port service | `server/myservice.cpp`, `abstractport.*`, `pcapport.h` | per port: `streamList_`, `data_`, `isSendQueueDirty_`, `portLock` | one handler per RPC |
| stream and port statistics | `pcaptransmitter.cpp`, `pcaprxstats.cpp` | `streamStats_`, `epochStats_` | the `finished()` slot, the receive poller, get and clear |
| capture | `pcapport.cpp` `PortCapturer`, `pcapsession.*` | `state_`, `stop_`, `handle_`, `signalSeen_`, the capture file | `start`, `stop`, `run`; `getCaptureBuffer` |
| emulation transceiver | `pcapport.cpp` | as the capturer | receives packets for the devices, sends theirs |
| port monitors | `pcapport.cpp`, `linuxport.cpp`, `bsdport.cpp`, `winpcapport.cpp` | counters read from the system | a polling thread per port; one for all ports on Linux |
| device manager | `devicemanager.cpp`, `device.cpp`, `emuldevice.cpp` | `deviceGroupList_`, `deviceList_`, `bcastList_`, `tpidList_`, ARP and neighbor caches | groups: add, delete, modify; clear and resolve neighbors; `receivePacket` |
| port manager, drone process | `portmanager.cpp`, `drone*.cpp` | the list of ports | start-up |
| RPC channel | `rpc/pbrpcchannel.*` | `isPending`, `pendingCallList`, the static parser | `CallMethod`, `readyRead`, connect, disconnect |
| RPC connection, server | `rpc/rpcconn.*`, `rpcserver.*` | `isPending`, `isCompatCheckDone`, `isNotifEnabled` | a thread per connection: request, reply, notification |
| port group, port | `client/portgroup.*`, `port.*` | ports, streams and device groups as the user sees them, the lists of the last sync, the dirty flag, `atConnectConfig_`, the reconnect timer | connect, fetch, restore a session, edit, apply, poll statistics, reconnect |
| protocol library | `common/abstractprotocol.*`, `streambase.*`, one class per protocol | a stream's list of protocols, their fields and variable fields | `frameValue`, `protocolFrameValue`, sizes, ids, checksums, counts of frames |
| windows, file formats | `client/`, `common/` | views | outside the models |

How they interact. A controller has one `PbRpcChannel` per drone, all in one thread; a drone
has one thread per connection, in which `MyService`'s handlers run to their end. Handlers of
different connections meet at a port's `portLock`, which they take after some tests that they
make without it. Under the lock they rebuild the packet list and start and stop the port's
threads. A port has a transmit thread and, when used, capture, emulation, receive-statistics
and monitor threads; they share flags (`state_`, `stop_`: volatile, no lock) and data (the
list, the statistics) with the handlers. Polling `state_` is the only way a handler waits for
a thread. The transmit thread's `finished()` is a queued call to the main thread. Changes of a
port are announced to all connections as notifications.

What is hard, and what would make it right:

* **Transmit thread.** Two threads over two flags. Right means: who holds the lock can trust
  `isRunning()`; the list, which has no lock, does not change under `run()`; `stop()` ends; the
  packets go out in the order and number configured.
* **Scheduler.** Integer arithmetic: gaps with fractions, sets that repeat, sets that do not
  fit one send queue. Right means: the list, walked by `run()`, is what the streams say, at no
  less than their rate, and the accounting gives each stream its packets.
* **Port service.** Tests before the lock, a dirty flag set by some requests and cleared by
  others. Right means: a port that is not dirty has the list of its streams; nothing is rebuilt
  or reconfigured while it is transmitted; every request is answered.
* **RPC.** One request on the wire, a queue behind it, replies that carry no call id, TCP
  segments that end anywhere, disconnects, parser state shared by channels. Right means: the
  parser stays in step, every call gets its own reply, none waits for ever.
* **Capture.** A thread that must be woken by a signal and must not be gone when it is sent; a
  file that is read after the lock is given up.
* **Statistics.** Counts pass from the transmit thread over a queued slot to a table that the
  receive poller increments and requests clear. Right means: what was sent is counted once,
  whatever overtakes what.
* **Devices.** One device is found by a key, by its VLAN for broadcasts, and by its TPID; groups
  may overlap; packets are received while groups change. Right means: the tables speak of the
  devices of the groups, neither more nor fewer; a device learns from its own VLAN only; a
  resolution leaves no device unasked.
* **Frames.** Every protocol of a stream asks the others: for their sizes, ids and checksums, for
  the index of this frame. Right means: whatever is stacked on what, a receiver that knows the
  protocols finds the fields, is led by the lengths to the end, verifies the checksums and finds
  the signature; and the few frames that are built stand for all that are sent.
* **Client.** A copy of a port that is fetched, edited, sent and fetched again over a connection
  that may end at any time, while others change the port. Right means: a port shown as activated
  is what the drone has; ids stay unique; a callback finds the port it is about; a lost
  connection leaves nothing stuck.

`hazards` in `PROJECT.json` has each of these at its line, with the properties that speak of it.

## Modules

| module | models | extends |
|---|---|---|
| `PacketList` | how the list is built, the order `run()` walks it, `updateStreamStats` | |
| `Multiples` | `gcd` and `lcm` | |
| `SequentialSchedule` | `updatePacketListSequential`, one action per step of its loops | `PacketList`, `Multiples` |
| `InterleavedSchedule` | `updatePacketList` with `updatePacketListInterleaved` | `SequentialSchedule` |
| `Transmitter` | what a port promises its callers of transmission: the abstract specification | `PacketList` |
| `TxThread` | `PcapTxThread` and the handler that controls it | `PacketList`, refines `Transmitter` |
| `StreamAccounting` | transmit thread, slot, receive poller and requests over `streamStats_` | `PacketList` |
| `PortService` | the handlers of one port, several connections at once | |
| `DeviceManager` | device groups, their devices and tables, the emulation thread | |
| `FrameBytes` | numbers in bytes, bit fields, variable fields, the Internet checksum | |
| `FrameStack` | the protocols of a stream and the frames they make | `FrameBytes`, `Multiples` |
| `CaptureSession` | `PortCapturer`, `PcapSession`, the capture requests, the blob's way to the client | |
| `RpcChannel` | channels of one controller, TCP, and the connections of the drones | |
| `PortSync` | a port group with a port, its drone, another controller, connections that end | |
| `MC*` | the values of the constants for TLC (`MCSchedule`: of both schedulers, `MCFrames`: of `FrameStack`) | the module they are named for |
| `*Proofs` | theorems and proofs | the module they are named for (`PortProofs`: `PortService` and `DeviceManager`; `StreamProofs`: `StreamAccounting` and `FrameStack`); `PacketListProofs`, where they speak of lists |

**PacketList.** A list under construction is a record of the fields `PcapTxThread` has, and each
builder call an operator from record to record. A packet is the stream it belongs to and its
timestamp; all packets have one size, so that the 1 MB of a send queue is `SeqCapacity` packets.
The pause after the last packet of a sequence is its `usecDelay_`. `updateStreamStats` computes with the
code's widths (`MaxInt`, `MaxCounter`, constants so that TLC can make them small): the numbers of passes and of
packets of the last one are stored in `int`s (`AsInt`), the count of passes by repeats is multiplied in one,
repeats are an `int` too, and a counter that has not grown is taken to have wrapped, one packet of which
the code loses (`SentPkts`).

**SequentialSchedule.** A stream is a record of what the code reads of it. The state is the code's
`i`, `j` and the time; the actions are the start of a stream (sets, repeats and tail are computed,
a repeated set is announced), a frame appended or skipped, and the three ways a stream ends.
Gaps are exact fractions of nanoseconds (`whole + num/den`); the code's are doubles, and the
chosen rates are those whose doubles round the same way. `MinPacketSetSize` is
`minPacketSetSize_` (16 on Linux).

**InterleavedSchedule.** `plan` holds for each enabled stream how many gaps of a second are
rounded up and when it is due. `SlotSend` and `SlotWait` are the loop over the streams, `Tick` the
step of the clock by the smallest gap; `lastTx` is the time of the last packet. Times are pairs of seconds
and nanoseconds and are compared as the code compares them, each alone; `Second` is the number
of nanoseconds. `ModeSpec` chooses between the two schedulers.

**TxThread.** A step is at most one access to shared state: `stop()`'s test and its write, the
write of `state_` and `QThread::start()`, a packet and the test of `stop_` after it. `QThread`
itself is three values: idle, running, and finishing (`isInFinish`: `start()` waits for it, and
before it is set `start()` does nothing, because the thread counts as running). `at` is the
cursor of `run()`: set, repeat, sequence of the set, packet. `wire` is what was sent in the
current pass. The list is any of `PacketLists`; `PacketListsAssumption` requires of them what
`SequentialSchedule` is proved to leave (`ListsForTheThread`).
A refinement mapping shows that the two threads implement `Transmitter`: `pending` there is
`stop_`, or the time between honouring it and `kFinished`.

**PortService.** A handler is `Receive`, its tests before the lock (`CheckBusy`, `CanModify` and
`MarkDirty`, or none), the lock, the action under it, `Unlock` and the reply. `startTransmit` and
`build` are `TestDirty`, `UpdatePacketList` and `Start`: they are steps of their own because
`canModify()` writes the flag without the lock. The transmitter is what `Transmitter` promises:
it runs, may end at any time, and ends when it is stopped; started with a list in which nothing is
to be sent (no stream, or none that is enabled) it does not run, as `run()` then leaves before it
sets `kRunning` (`Sends`). Streams are an id and a version, 0 as `addStream` makes them, 1 enabled with packets; the
port's parameters are its transmit mode. `late` holds the requests that have made their tests and wait
for the lock while another client starts the port, rebuilds its list or changes its mode; `lateMode` says that such a
request has set the mode.

**CaptureSession.** As `TxThread`, with the signal: `PreRun` puts the thread into `signalSeen_`,
`Kill` sends the signal, `SignalBreakHandler` notes it whenever the thread is inside `run()`, and
`PostRun` waits for that. A failed `pcap_open_live` ends `run()` at once. The file is the number of
the capture it holds and how many units were written; the one `QFile` of the port has one
position, and `getCaptureBuffer` announces a size and copies unit by unit after `Unlock`.

**RpcChannel.** A message is two units of header and one or two of body. `Deliver` moves a segment
of any length to the client, where `readyRead` is a loop with a program counter: header, body,
the call's callback (which may make calls while `isPending` is still true), `_exit` with its test
for more data. The parser's state is one for all channels, as the `static` variables are. Segments end
after any unit, any channel may receive, and any connection be lost, at any time. Four things of
these the parser does not survive: a segment that ends inside a header, or inside a notification,
bytes of another channel inside a half-read message, and a connection lost there. `torn` notes the first of them;
what the parser does then with bytes it takes for others is not modelled. A connection takes a
request, sends its reply, and may send notifications after the version check; an incompatible
client is disconnected.

**StreamAccounting.** The transmit thread is four places (idle, sending, about to add to its
`streamStats_`, about to emit `finished()`); the slot of the main thread is two steps, adding to
the port's table and clearing the thread's; the poller finds an entry in one step and increments
it in the next, so that a request to clear may remove it in between. Nothing but the requests
takes the port's lock, and no other step looks at it. Ghosts count what was sent, what was
cleared and what other ports sent; `excuse` notes the two races in which the code loses counts.

**DeviceManager.** A group is enumerated into devices as `enumerateDevices` does it, VLAN by VLAN;
a device is an object with a key, and `list`, `bcast` and `tpids` are the tables that lead to it.
A change of a group is one step for the tables and, for the first and the last group, the start
and stop of the emulation; to resolve, the devices are visited one by one, and a request that was
sent is entered in the cache in a step of its own. The receiver, which takes no lock, looks a
packet's devices up in one step and hands it to them one at a time, so that a request may come
in between. `EmulationTransceiver`'s start and stop are as in
`CaptureSession`; of the signal only this is kept, that a thread whose loop has ended waits in `postRun()` for
a `stop()` (`RxClose`). A device's key has the code's four slots for VLAN ids, filled with 0, so that tags beyond
the fourth do not count and id 0 is no tag (`Slots`). `resolveDeviceNeighbors` is the resolution of the gateways;
the one behind it, of every frame of the streams, is left out, as everybody's neighbor is the one `Peer`.
`excuse` notes groups that share keys or VLANs.

**PortSync.** The channel is two sequences: `calls`, of which the first is at the drone, and
`inbox`, what the drone has sent. A user's action appends calls, a step of the drone answers the
first and notifies, a callback takes the answer with its call and appends more. Streams and device
groups follow one protocol; where the code differs the kind is tested. Contents are numbers, so
that the copy and the drone's can be compared. `excuse` notes, per connection, why the two may
differ: another controller deleted items, the port transmitted when changes came, the user edited
before the lists had arrived, or applied before the contents had. For device groups the last one is
needed too, which the attempt to prove the property showed: an edit of a group whose contents are
still on their way is sent by Apply, and then the contents that arrive (`processDeviceGroupConfigList`)
overwrite it here; the drone has the edit, the copy does not, and the port is not dirty.

**FrameStack.** A stream is a sequence of protocols, each a record of its data; an operator per
protocol gives its field values, `FieldBits` their widths, and `Pack` puts them together as
`protocolFrameValue` does, with its two ways of moving a field that starts inside a byte. Checksums
are combined from those of single protocols as in the code, with the field itself taken for zero.
The one action is the loop that builds the frames of a list: stream and index are all that a
frame depends on. The properties do not look at the protocols' values but read the frame:
`FieldsFound` bit by bit, `ReceivedSum` over all bytes a checksum covers, `PacketGuid` from the end.

`PROJECT.json` maps each definition to the lines it stands for.

## Runs

Passing runs:

| run | instance | shows |
|---|---|---|
| `Schedule` | sequential: all lists of up to 3 streams out of two families of 8 and 5; interleaved: all lists of up to 3 out of 7 rates, each enabled or not; `MinPacketSetSize` 2, `SeqCapacity` 2, `Second` 10^6 | `EveryFrameSentOnce`, `SetsTileList`, `NeverSlowerThanRated`, `StreamStatsExact`; `PacketsOnTime`, `NoneForgotten` |
| `TxThread` | 8 lists: none, one sequence, set and tail, a set of several sequences, an empty set, loops, a loop without a packet | `ReadsInsideList`, `NotRunningMeansGone`, `ListStableInRun`, `LateStopEndsAtFirstPacket`, `ImplementsTransmitter`, `CallsReturn` |
| `StreamAccounting` | a list of 3 packets, 2 transmissions of up to 4, a port that sees its own packets, 1 packet of each stream from another port, 1 clear; counters of 16 values | `TxConserved`, `RxAdjusted` |
| `PortService` | 2 ids; 1 connection with 5 requests, or 2 connections with 2 each, of all kinds, or one with 4 that have a stream transmitted (`modifyPort` included) and another with 1 of any kind | `LockDiscipline`, `StreamIdsUnique`, `CleanMeansBuilt`, `ConfigStableWhileRunning`, `EveryRequestAnswered` |
| `Frames` | 28 streams: Ethernet II and 802.3, LLC, SNAP, VLANs, ARP, IPv4 with and without options, IPv4 in IPv4, IPv6, UDP, TCP, ICMP of both versions, hex dumps, payloads and signatures; `MaxPktSize` 92, `Rounds` 2 | `HeadersRead`, `ChecksumsVerify`, `SignatureFound`, `FramesRepeat` |
| `DeviceManager` | 2 groups, each of 4 configurations (untagged, two VLANs of two devices, a stack of tags, one that meets another); 5 requests, 2 packets of 4 kinds, one with a tag of VLAN 0 | `DevicesOfGroups`, `BroadcastReachesDevices`, `GatewaysAsked`, `LearnsInOwnVlan`, `RequestEnds` |
| `CaptureSession` | 2 clients, one of which fetches; 2 captures, files of up to 3 units | `StopUsesLiveSession`, `BlobWhole`, `StopReturns` |
| `RpcChannel` | 2 channels: 3 and 2 calls, 2 connections each, 1 and 0 notifications; plain, blob and incomplete calls; segments that end anywhere, up to the first event that puts the parser out of step | `StreamAligned`, `AnswersMatchCalls`, `EveryCallSettled` |
| `PortSync` | a port with streams, one at first; 2 edits by the user or others, 1 lost or refused connection, waits of 1 and 2 | `StatsPendingIffCalled`, `PortConfigConverges`, `RetryPending`, `WindowReturns` |
| `PortSyncSession` | streams and device groups, a session to restore whose device group has the id of the drone's; 2 edits, 1 lost connection | `CleanMeansSynced`, `CallbackHasPort` |

Why the bounds are enough. In `Schedule` a set of 3 to 5 frames needs two or three send queues of
2, so that overflow, its repeat, and what comes after it all occur; three streams put any stream
between any two others; the rates meet at the same nanosecond, divide a second or do not, and
one has a pass of more than a second. In `TxThread` start and stop may be called without limit:
the state space is finite by itself. In `StreamAccounting` the second transmission can overtake
the slot of the first, and a transmission of four packets of a list of three is cut in its second
pass. In `PortService` two requests per client let each client disturb the other once before and
once after any step; four requests of one client put a stream on the wire, which another's one request
that has made its test of the idle port then finds; five reach start, change, start again. In `Frames` two
rounds take every counter of a stream past its end, and a buffer of 92 bytes is met from both
sides. In `DeviceManager` five requests add two groups, change one so that it meets the other, and
delete or resolve. In
`RpcChannel` three calls on one channel give a pending call, a queue of two and calls from
callbacks; the second connection gives calls and parser state left over from the first. Nothing is claimed once `torn`, so
the run's `CONSTRAINT Untorn` does not explore what follows. Two captures give a stale
flag or handle of the first in the second. In `PortSync` two edits are one before and one behind
an apply, or one of the user's and one of another controller's; one lost connection gives all the
state that is left over, and the drone may have restarted in between; a port group has one port, as
its ports share nothing but the counters of ids and the queue. Bounds are named in the modules.

`CHECK_DEADLOCK FALSE` is said where the system may stop: users, networks and captures need not
go on, and the bounds end what they may do.

What the less obvious properties say:

* `NotRunningMeansGone`, `ListStableInRun`: with no `start()` in progress, `state_ # kRunning` means
  that no thread is inside `run()`, so that the unlocked list changes only when nobody reads it.
* `LateStopEndsAtFirstPacket`: a `stop()` that comes too late leaves `stop_` set and the *next*
  transmission ends after one packet. The property says that this is all it can do.
* `CallsReturn` excepts for `stop()` `BarrenLoop`, a looped list without a packet (left by a stream none of whose
  frames build): the thread never looks at `stop_`; and for `start()` `LostStart`, a call
  that found the `QThread` between the end of `run()` and `finish()`: both are real hangs of the
  code, described by the exceptions rather than assumed away. The same gap exists in
  `CaptureSession`; it is why these two runs say `CHECK_DEADLOCK FALSE`.
* `StreamStatsExact` says three things of the packets that `updateStreamStats()` tells of each stream: part of
  a first pass is told exactly, whatever sets there are; beyond it, where no set takes several
  sequences, what is told is exact; and where one does, for which `packetListSize_` is wrong (see below), a stream is
  told too many packets, never too few. It is about numbers that fit the code's `int`s (`CountsFit`, `RepeatsFit`).
* `PacketsOnTime`, `NoneForgotten` relate the interleaved list to the streams' rates
  alone: every packet at the time it is due or less than the smallest gap later, none left out, and a
  pass that takes as long as the loop is told. The times and counts are for `Steady` streams: the pass
  takes one second, the stream's frames build, its bursts have frames, its gap is a nanosecond or more
  (the clock never goes on by less and cannot keep up with a higher rate), and `NumbersAgree`, which
  excludes lists in which a disabled stream comes before one whose frames vary, where the code builds
  the frames of another stream (`abstractport.cpp:607`).
* `ConfigStableWhileRunning` excuses the one way in which the code does change a transmitting port: a
  request that found it idle and waited for the lock while another client started it (`late`). That every
  other request leaves it alone is what the unlocked tests can give. `CleanMeansBuilt` excuses, of the mode only, the
  `modifyPort` whose `canModify()` was overtaken by another client's build or change of mode (`lateMode`). Both excuses are needed:
  without either TLC finds a violation with two clients.
* `StreamAligned`, `AnswersMatchCalls` and `EveryCallSettled` are claimed until `torn`. Each of the four
  events is needed there: without any one of them TLC finds the parser taking one unit for another.
* `TxConserved` excepts one race, a transmission that is added while the slot is between adding the
  counts and clearing them; `RxAdjusted` excepts that and a clear while packets of the stream are on the
  way, which can leave the received count below zero, near 2^64.
* `HeadersRead` is about frames that are not cut and whose headers have no variable fields, and leaves
  overridden lengths alone. `ChecksumsVerify` excepts two cases in which the code's checksums are
  wrong: a UDP, TCP or ICMP header at an odd offset with several protocols behind it (IP directly on
  802.2 LLC, a payload and a signature), and a checksum inside the data of another (ICMP that carries
  the UDP header it is about). `SignatureFound` needs a payload: a frame padded with zeros hides its
  signature; and a signature without variable fields, which may write over it. `FramesRepeat` compares with the frames of two rounds further on.
* `DevicesOfGroups`, `BroadcastReachesDevices` except groups that share a device's key or a VLAN: then
  the tables, which are keyed by them, forget a device when another one goes.
* `LearnsInOwnVlan`: the receiver finds devices, then hands them the packet; between the two the
  request may have replaced them.
* `RequestEnds` excepts an emulation that is started again while the last thread has said
  `kFinished` and has not ended: `start()` then waits for ever, with the port's write lock.
* `CleanMeansSynced` needs unique ids too: with a counter that ignored the ids the drone has given it
  fails. It is what "Configuration activated" under the streams promises, with the
  excuses of `PortSync`; `ActivatedMeansApplied`, which does not excuse a refusing port, fails.
* `CallbackHasPort`: the callbacks index `mPorts[]` with the answer's port id and do not look.
* `WindowReturns` holds while the connection does: a window disabled by an apply stays disabled if the
  connection is lost (nothing else enables it).
* `BlobWhole` needs that one client alone starts captures and fetches them; the other only stops them.

Each property of a passing run has a mutant in `PROJECT.json`: a plausible bug of the mapped
code (`...Never`, `...AtOnce`, `...StaysDirty` beside the definition it replaces) under which
TLC finds the property violated.

## What the runs found

Runs that are expected to fail, each showing that the code does not do what a comment, an
assertion or a message of it says:

| run | property | the code's own statement | what happens |
|---|---|---|---|
| `PortRebuildNeighbors` | `RebuildOnlyWhenStopped` | `pcaptxthread.cpp:91` `Q_ASSERT(!isRunning())` | one client: add a stream, enable it, start, clear or resolve neighbors, start: the list is rebuilt under the running thread |
| `PortSyncRefused` | `ActivatedMeansApplied` | `portgroup.cpp:802` "All port changes applied", `portswindow.cpp:598` "Configuration activated" | the changes were refused by a port that transmits, the port counts as synchronised; the next apply does not send the deletions again |

With two clients `RebuildOnlyWhenStopped` fails in a second way, which needs no neighbor request:
`build` or a change finds the port idle, another client starts it, and the list is rebuilt
(the tests at `myservice.cpp:264, 328, 377, 819` are before the lock).

More was seen at the same modules, with other values of the constants or while reading, and is
kept here for who changes the code:

* `canModify()` writes the dirty flag without the lock (`myservice.cpp:143`, `151`): it may come
  between the test and the start of another client's `startTransmit`, against the assertion at
  `pcapport.h:66`, which is why `NotDirtyAtStartHolds` excludes `modifyPort`; or before another client's
  build, which clears the flag, and the mode is changed behind it (`lateMode`).
* A header cut by the end of a segment is dropped when another message came before it
  (`pbrpcchannel.cpp:473`, against the comment at 198).
* The parser's state is `static` (`pbrpcchannel.cpp:188`): with a blob half read on one channel, data
  on another is taken for its rest (`Q_ASSERT(blob != NULL)` at 232); and so with what a reconnect sends
  after a connection was lost there. A notification is parsed from as much of it as has arrived (410), and its rest
  taken for a header. `StreamAligned` without `~torn` shows each.
* The capture file is copied after the lock is given up (`myservice.cpp:586`): with two clients
  that fetch, or one that starts again, its length is not the announced one.
* The second and later sequences of a repeated set count once in `packetListSize_`
  (`pcaptxthread.cpp:163`, "including repeats" at `pcaptxthread.h:79`): more than one pass is told as too many.
* `updateStreamStats()` keeps passes and packets of the last one in `int`s and multiplies passes by
  repeats in one (`pcaptxthread.cpp:464`, 485): beyond 2^31 of either the statistics by stream are wrong; and the
  difference of counters that wrapped is one too small (455). `repeatCount_` is an `int` for 64-bit repeats.
* The lcm of the counts of frames is a `quint64` that is kept and returned as an `int` (`streambase.cpp:503`,
  `abstractprotocol.cpp:747`).
* Interleaved: 3 packets a second become 4 in a pass (`abstractport.cpp:626`); the second of the
  two gap counts is computed from the first (553); when no stream has a rate the smallest gap stays
  `ULLONG_MAX` (426, 645).
* Statistics: what a transmission adds between the slot's adding and its clearing is lost; a clear
  between sending and adding makes the received count wrap.
* Client: an apply before the contents of streams have arrived sends default contents
  (`portgroup.cpp:608`, `port.cpp:429`); a window disabled by an apply stays so when the connection is
  lost; the session's port configuration is kept, so that a reconnect overwrites the port with it
  again (`portgroup.cpp:458`).
* Frames: a checksum at an odd offset is swapped by the offset in the frame (`abstractprotocol.cpp:1008`),
  a checksum inside another's data counts as zero (616); an empty payload gives one byte, which pushes
  the signature out of the frame (`payload.cpp:128`); `1 << prefix` keeps the wrong bits of an IPv6
  address for most prefixes, and counting hosts counts in both halves (`ip6.cpp:340`); a field of whole
  bytes that starts inside a byte is moved up by as much as down, right for half bytes only (640); MAC
  counts its variable fields and does not apply them (`mac.cpp:375`).
* `lcm()` of a count that was invalidated to -1 (`abstractprotocol.cpp:407`): a variable field of 3 or 5
  values gets a count near 2^30. `protocolFrameSize()` is cached at first use (528) though the type of an
  ICMP message and the options of IPv4 change it.
* `preflightCheck()` looks at the first frame only when no protocol's size varies (`streambase.cpp:611`):
  frames that get shorter, without a payload, are cut without a warning.
* `start()` of the transmit, capture and emulation threads waits for ever if the last `run()` has
  set `kFinished` and the `QThread` has not ended (`pcapport.cpp:688`).

## Fairness

* `TxThread`, `CaptureSession`: weak fairness of each thread's steps: a runnable thread is
  scheduled. Nothing makes anyone call `start()` or `stop()`. In `CaptureSession`
  `pcap_next_ex` returns at least every second (its timeout, `pcapport.cpp:387`), and a signal sent
  to a thread is delivered.
* `PortService`: weak fairness of each handler. A transmission ends for fairness only while
  somebody stops it, which is what `TxThread!CallsReturn` gives; a looping one need not end.
* `RpcChannel`: the client's event loop runs its handlers to the end and serves each socket, the
  network delivers, the server answers, and its close reaches the client. A disconnect by the
  network is always possible and never required.
* The schedulers are one loop, with weak fairness of it, and like `StreamAccounting` claim safety only.
* `DeviceManager`: a request that holds the lock runs on, and the receiver, which `pcap_next_ex`
  wakes at least every second, runs. Nothing makes clients send requests or the network packets.
* `PortSync`: the drone answers, the event loop delivers what has arrived, a running timer fires,
  and an attempt to connect ends in one way or the other. Users, other controllers and failures
  are never required.

## Proofs

TLAPS checks, for all values of the constants that satisfy the named assumptions:

* **`TxThreadProofs`** (`PacketListsAssumption`: any set of lists the sets of which tile them).
  `IInv == TypeOK /\ Handshake /\ Cursor` is inductive. `NotRunningMeansGone` is not: that no thread
  is in `run()` when `state_` is not `kRunning` needs to know, for each place of the worker, which
  values `state_` may have and who is waiting for it. `Handshake` says that. `Cursor` says that
  between two sets the cursor stands on the head of a set, from which `ReadsInsideList` follows: it
  is what makes the loops `i += rptSz` and `at(i + k)` safe without a bounds check.
  Proved: `IInv`, `NotRunningMeansGone`, `ReadsInsideList`, `ListStableInRun`.
  On top of it, `Walk` says what has been sent in a pass at each place of the worker: the sets
  before the cursor's, whole; of its own, as many repetitions as are done, the sequences before the
  cursor's, and the packets of that one (`SentOfSet`). `WalkHolds` follows the loops of `run()`: the
  wire is the beginning of the list as it is meant to be sent. With it, `ImplementsTransmitter` is a
  theorem (`Refinement`): each step of either thread is a step of `Transmitter` or none of its steps,
  under the mapping that TLC checks. `LateStopEndsAtFirstPacket` follows from the invariant alone.
* **`PacketListProofs`** (`SeqCapacityAssumption`): lemmas about the operators of `PacketList`, which the others
  extend. `TransmitOrder` and `FlattenSeq` are recursive functions; the library's induction takes an
  operator, which the provers cannot instantiate, so `Induction` here takes a set of numbers (those for
  which the claim holds) and rests on `LeastNumber`, which follows from the library's
  well-foundedness of finite sets under strict inclusion. By it the functions exist and their
  equations hold, and the lemmas say what appending a packet, closing a sequence and closing a set do
  to the order of transmission.
* **`ScheduleProofs`** (`StreamListsAssumption`, `ScheduleAssumption`, `SecondAssumption`: any number of streams, frames,
  bursts, rates, any capacity of a sequence and smallest set). The list under construction is never
  what it will be: its last set is still open, and a set of several sequences has no head that tiles
  before its last packet. So the invariant names two parts (`Built`, `Placed`): sequences that are
  finished and tile, and those packets are being added to, which sent as often as they will be
  are, with the first, exactly what is due so far. For the pauses `RateInv` adds `Rated`: every sequence
  sends packets paused as one of the streams asks (`RatedPackets`); the pause of the last packet is
  not known before the next one is appended or the set closed, so the invariant keeps that it lasts until `now`, up to the rounding
  of times to microseconds; and the packets of an open set are the current stream's, because the
  pause at the end of a set is computed from that stream. The theorems: `SetsAlwaysTile`, `FramesAlwaysSentOnce`,
  `StatsAlwaysExact`, `NeverSlowerHolds`, and `ListsForTheThread`: what the sequential scheduler builds satisfies what
  `TxThreadProofs` assumes of lists, so the two fit together.
  `StatsAlwaysExact` rests on lemmas of `PacketListProofs` about the code's widths (`AsInt` of a number that fits is
  that number; what is told of complete passes is what `PacketsOf` the sets have, times the passes) and on
  the list's size being that of its order of transmission, or, where sets take several sequences, less.
  `EveryFrameSentOnce` and `NeverSlowerThanRated` speak of ports all frames of which build (`AllBuild`),
  and are false without: a repeated set the last frame of which cannot be built stays open, the
  first packet of the next stream closes it, and is paused as the stream in front is rated.
  For the interleaved scheduler (with `PacedListsAssumption`: any streams with ids of their own, which
  `StreamIdsUnique` proves of a port, and `SecondAssumption`) `SlotInv` is inductive. Its part
  `Planned` says of each steady stream that it had `bursts` turns, that it is due that many gaps
  after the beginning, between the gap rounded down and up, that this is less than the smallest gap
  before the clock, or behind the clock once it had its turn, and that the packets it has in the list
  are those of its turns, each on time. A turn adds a gap, which is no smaller than the smallest; the
  clock goes on by exactly that one: so nobody falls behind. `DueWithinSecond` is why the comparison of seconds and of
  nanoseconds, each alone, is right within a second, and only there. The frames of a
  turn are a loop over a list whose other streams' packets must keep their times (`FramesSent`); that the list has the packets in
  the order they were appended, wherever sequences end, is `AppendHolding`. Theorems:
  `PacketsOnTimeHolds`, `NoneForgottenHolds`.
* **`StreamProofs`**, of `StreamAccounting` (`AccountingAssumption`, `ListAssumption`: any streams and list, and counters
  wide enough not to wrap within the bounds). `CountsInv` is two equations per stream. What was sent
  is in the table, thrown away by a clear, on its way (packets sent and not yet attributed, counts
  in the thread, counts posted to the slot). What was received is what others sent, plus the port's own
  packets the poller has counted, less those the slot has taken off: the slot may be ahead of the
  poller, and the counter then stands below zero, near its wrap, so the equation holds up to whole wraps (`RxConserved`)
  and `RxAdjusted` follows because both sides are counters once everything is counted.
* **`StreamProofs`**, of `FrameStack` (`FrameAssumption`: any streams, protocols and data, with counts of at least one,
  by which the code divides). A frame depends on its index through its length and the place in each count only:
  `Alike` says that these are the same for two indices, and a lemma per operator, from the size of a protocol to
  the checksums, that it then has one value (`SameFrame`). `CountOfStream` says that each count divides
  `FrameVariableCount`, by way of `LcmOf`, so that frames that far apart are alike (`AlikeAgain`). `LastFrame`
  is inductive: the buffer holds the frame of the last index even where the code builds one frame
  only, which is where the inductive step needs that frames repeat. Theorem: `FramesRepeatHolds`.
  The second half is about where things are in a frame, and needs of the data only that they are as wide as
  their fields, and of a stream that one protocol at most fills its frame, without which two sizes would be defined
  by each other. `Packed` is the invariant of packing: after so many bits there are
  so many bytes, and so many bits of the last one are in use. `PackFieldSize` keeps it for every field that
  `Fits`: the code may move a field that starts inside a byte only if it does not end beyond the byte it ends in,
  and a lemma per protocol shows that its fields are such (`ValueSize`: what a protocol puts into the
  frame is as long as it announces, variable fields included, which write over bytes that are there).
  Then the offsets are the sums of the sizes, and the one that fills makes the sum the length of the frame
  (`OffsetsAre`). Theorems: `ProtocolsAtOffsetsHolds`, from `LastFrame`; and `SignatureFoundHolds`, from the
  last protocol's bytes, which end with the frame (`SignBytes`, `GuidIs`).
* **`PortProofs`**, of `PortService` (`ServiceAssumption`; any clients, ids, number of requests).
  `LockDiscipline` with the types of the handlers' fields is inductive by itself. With it, `TestsInv`
  says at each place of a handler what its tests before the lock found and still holds, or that the request is `late`;
  and of a clean port that its list is that of its streams, and of its mode or `lateMode`: who changes the configuration or clears the
  flag has the lock for writing. `CleanMeansBuilt` and `ConfigStableWhileRunning` follow, for any
  clients and requests. `NotDirtyAtStart` is proved where nobody sends `modifyPort` (an assumption of the
  theorem, without which it is false, see above). `StreamIdsUnique` is inductive with the type of the streams; two
  lemmas say what appending a new id to a list and taking a stream out of it do.
* **`PortProofs`**, of `DeviceManager` (`DeviceAssumption`: any groups, numbers of requests and packets, and
  configurations with any levels of tags, steps and numbers of devices). `DeviceInv` is inductive. What carries it
  is what `deleteDevice()` leaves true of `bcastList_` although `take()` may remove another device's
  entry (`TablesInv`): keys and objects are inverse to each other (`Paired`), no object has two
  entries (`Distinct`), an entry whose device is alive is in that device's VLAN (`InOwnVlans`), and
  every VLAN has as many entries as devices, though perhaps not theirs (`Balanced`). While the
  devices of a group are deleted one by one the broadcasts reach what they should only outside the
  group's VLANs (`Reaches`); once they are all gone, and no other group has devices there, the VLAN has
  no device and so by `Balanced` no entry (`ReachesAgain`). `Counted` says that the count of a TPID is the
  number of levels, of all groups, that have it, so that it reaches zero with the last one.
  `FoundInVlan` says of the packet on its way that the objects found for it, where they still exist, are in its
  VLAN: a request may delete them meanwhile, but a new object is none of them (`NewObject`: memory
  that somebody still points at is not given to a new device, see below). Groups
  that meet are what the ghost `excuse` is for. `VlanCount`, `Added`, `Deleted` and `Lookup` are
  recursive functions; `Recursion` gives their existence from the step, and `AddedKeeps`, `DeletedKeeps` and
  `BroadcastInVlan` what they yield, by induction over the devices of a group and the entries. Proved:
  `DeviceInv`, `DevicesOfGroups`, `BroadcastReachesDevices`, `GatewaysAsked`, `LearnsInOwnVlan`. The
  theorems say nothing of what the devices of a group are meant to be: `Devices` is the code's enumeration.
* **`CaptureSessionProofs`** (`CaptureAssumption`; any clients, requests, captures, lengths).
  `IInv == TypeOK /\ LockHeld /\ Handshake /\ Signalling` is inductive. Two facts carry it: at most one
  client is inside a request's critical section, and from `stop()`'s test until its signal has been
  handled the worker cannot pass `PostRun`. Proved: `IInv`, `StopUsesLiveSession`, `StopFlagFresh`.
  `BlobWhole` is proved where all clients but one only stop captures (`OnlyFetcher`): with two that
  start, the second may truncate the file that is being copied, the copy being made without the lock.
  `FetchAlone` adds to the invariant that nobody else is on the
  way to starting the worker, and that what has been copied is of the file's one capture.
* **`PortSyncProofs`** (`PortSyncAssumption` and `IdsAssumption`: there are streams, ids are numbers and
  finitely many; any items, sessions, bounds and queues of any length). `RetryPending` is inductive by itself. `StatsPendingIffCalled` is, with the fact that no
  handler but `getPortStats()` asks for statistics: what the others append (`NewCalls`) is
  described once, and a lemma says that appending it, or taking the first call, keeps the flag
  true. `CallbackHasPort` and `PortConfigConverges` follow from `ExchangeInv`, which says what calls and
  messages there are in each state of the connection: without one, none; before there is a port,
  only the questions for version and ids, and notifications only once the version has been
  checked; at most one answer, and it is the first call's; and that the configuration shown, or the
  one in the answer under way, is the drone's unless a notification or another fetch is still to
  come. None of the two is inductive alone: which port a callback finds depends on what was asked
  two answers before, and convergence on the drone's notifying every connection that has a port.
  `CleanMeansSynced` is about the one state in which nothing is outstanding, and says nothing of the
  way there. `SyncInv` does: `Fetching` says which lists and contents are still to come and what the
  copy has before they do, `Fits` which of two calls may wait in front of which, and `Following` what is
  true once the lists are there: either no change is on its way and the items nobody has touched
  are the drone's (`Followed`), or an Apply is under way, and wherever copy and drone differ a change
  that removes the difference is in the queue, in an order in which it does (`Applied`). `Replied` says
  that an answer under way is still true when it is read. Edits, Apply, the steps of the drone and
  the callbacks have a lemma each, about a port, a queue and a drone that are parameters; `Together`
  applies them to the state while there is no excuse.
* **`RpcChannelProofs`** (`RpcAssumption`: any channels, call limits and kinds of calls; segments end anywhere).
  `AnswersMatchCalls` says nothing of the reply under way, so it is not inductive: a step that reads
  a reply must know that it is the pending call's. `IInv` adds for each channel that the pending call
  is in one place, a request, a reply on the wire, one received or the one being read (`InOnePlace`),
  that the parser reads for the channel whose handler runs (`ParserOK`), and that answered, pending
  and queued calls are numbered without a gap (`InSequence`); all of it while `~torn`, and `torn` stays
  (`TornStays`). Nothing of it needs segments to end in good places: what matters is that there is the beginning of one reply at
  most, wherever it is cut. Proved: `TypeOK`, `AnswersMatchCalls`, and `InOnePlace` of every channel,
  while `~torn`. `StreamAligned` is proved from `StreamInv` beside it: what a channel has received and what is on its way, one behind the other, is
  an unbroken run of whole messages, of the first perhaps only the rest (`Unbroken`), and the next
  unit is the one the parser takes it for (`InStep`); what has been received ends where the parser waits for more
  (`GoodCut`), so that the exit of the handler has nothing to throw away (`Received`). The theorems
  assume nothing of the network: that these are all the events that put the parser out of step is what they show.

Only model-checked:

* all liveness properties (the prover does no `ENABLED`);
* of `FrameStack`, `HeadersRead` and `ChecksumsVerify`: they are about single bits of fields that share
  bytes, and about sums over bytes put together from those of single protocols, which would take a theory of
  bit fields and of one's complement sums. That every protocol's bytes are where they read them is
  proved (`ProtocolsAtOffsets`).

## What is not covered

* Time: the pauses of packets are data (`NeverSlowerThanRated`, `PacketsOnTime`), the thread's pacing
  (`overHead`, `udelay`) is not modelled. The Windows branch of `run()` is not.
* Of frames: streams of more frames than an `int` counts (`CountAssumption`); MLD, IGMP, STP, text and script protocols, random modes, several filling protocols in one
  stream, prefixes of IPv6 that are not whole bytes; the warnings before sending.
* What the parser of the RPC channel does once it is out of step; the content of messages, the text of errors and logs.
* Of the device manager: the resolution of the neighbors of every frame (`abstractport.cpp:785`); a new device at the address of one that was deleted while the receiver or an
  entry of `bcastList_` still pointed at it (`NewObject` excludes it, so that `LearnsInOwnVlan` does not speak of
  the new device then); IPv6, whose neighbor cache has the steps of the ARP cache; ICMP and the
  packets devices send; the addresses a build looks up, so that frames built before a group
  changed (`myservice.cpp:973`) are a hazard without a property.
* Of the client: capture, device lists and clearing, whose answers change no other state; ports
  reserved by another user; several ports in a group.
* Of the statistics: bytes, and turning tracking on and off.
* Locks of two ports (`getDeviceMacAddress` of another port's device), and data races inside Qt
  containers shared without a lock (`signalSeen_`).

## Not modelled

Port monitors copy the operating system's counters, host devices read its neighbor tables, the port
manager enumerates interfaces at start-up: what can go wrong there is in the system's answers,
which a model would have to invent. The windows and their models are views of `Port` and
`PortGroup`; what they let the user do is in the guards of `PortSync`. Of the some thirty protocols
those of which the others' checksums, lengths and ids are made are in `FrameStack`; the rest have
the same shape. Their dialogs, text and the file formats are translation of data without state between
calls, most of the source's lines, and tests say more about them than a model, which would be the
code again.
Packaging, scripts and vendored widgets hold no behaviour of this system. The modelled lines are
therefore a small part of the repository, nearly all of its concurrent part, and the part that
decides what goes on the wire.

## Plan

Done: list builder and both schedulers, transmit thread and its abstract specification, stream
statistics, port service, device manager, capture, RPC channel, the client's copy of a port, frames.
What is left, in this order:

1. Two ports: the order of locks in `getDeviceMacAddress`; frames that keep addresses of devices
   that changed; the monitor shared by Linux ports.
2. `PortSync` over `RpcChannel` itself instead of its promise, and two ports in a group.
3. `preflightCheck` against the frames that are cut, and the caches of sizes and counts of a protocol
   that is edited.
4. Proofs of what TLC checks of the bits of headers and of the checksums of frames.
