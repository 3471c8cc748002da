# A TLA+ verification of the FTP client, server and TCP daemon

The repository transfers one file from `ftpc` to `ftps` over UDP. Between the two
sit two copies of a daemon, `tcpd --c` and `tcpd --s`, which are to make the
transfer reliable over a network that `troll` makes lossy, and a `timer` process
that serves the client-side daemon.

    ftpc <-> tcpd --c --> troll --> tcpd --s <-> ftps
               ^  ^                    |
            timer  +------- troll <----+

All communication is by UDP datagrams. No process shares memory with another, and
each is a single sequential loop. All the concurrency is between processes, and all
that can go wrong comes from the order in which datagrams arrive, if they do.

## 1. Inventory

Paths are relative to the repository; `tcpd.c` is `src/tcpd/tcpd.c`, and so on.

### ftpc (`src/client/ftpc.c`)
- **State**: the program counter, the file and its size as an `int`, how much of it was
  read.
- **Operations**: send the size, the name, and each block of at most MSS = 1000
  bytes, and after each wait, without a timeout, for the acknowledgement of the
  client daemon (`ftpc.c:86-107`). Then report "FILE SENT SUCCESSFULLY" and end.
- **Interacts with** the client daemon, over the loopback of its host.
- **Hard**: `ftell` returns a `long`, which goes into an `int` (`ftpc.c:82`), and ftps
  stops by that `int`.
- **Correct if** it sends each datagram once, in order, and ends.

### tcpd --c, the client-side daemon (`tcpd.c:38-386, 607-679`)
- **State**: `sn` (number of the next datagram from ftpc), `sb` (oldest
  unacknowledged number), `bufferReady` (slots filled since the gate was opened),
  `firstRun`, the circular buffer, the list of nodes that describe its slots, and the
  estimates behind `rto`.
- **Operations**: on every turn of its loop, in this order: unless all 64 slots are
  filled, read a datagram from ftpc into the buffer and acknowledge it at once; read
  an acknowledgement from the network; read a timeout from the timer and retransmit;
  transmit the oldest unacknowledged datagram, whether or not it was transmitted
  before, and start one more timer for it.
- **Hard**: loss, duplication and reordering of what it reads; acknowledgements have
  no checksum; timeouts for numbers acknowledged meanwhile; slots used again; a gate
  that closes when the buffer is full and opens only when all of it is acknowledged;
  two reads without a timeout on the first turns. The daemon serves one transfer after
  another and keeps its counters, slots, timers and network in between; it may be
  stopped and started there.
- **Correct if** a datagram can be retransmitted until ftps has it, a slot is not
  filled anew before, no lookup in the list comes back empty-handed, and the gate
  opens again.

Although the code declares `window = 20`, nothing reads the window edge `sm`, and the
protocol is stop-and-wait: see `StopAndWait`.

### tcpd --s, the server-side daemon (`tcpd.c:388-602`)
- **State**: `rn` (number expected next), a circular buffer and a node list (which it
  passes every datagram through), and whether it waits for the network or for ftps.
- **Operations**: answer a damaged or an unexpected packet with `rn`; forward the
  expected one to ftps, wait without a timeout for ftps' acknowledgement, count, and
  acknowledge.
- **Hard**: the same packet arrives many times; what it acknowledged may be lost; while
  it waits for ftps it is deaf to the network; a datagram forwarded before ftps has
  its port is gone.
- **Correct if** ftps gets each datagram once and in order, nothing is acknowledged that
  ftps has not read, and nothing of one transfer gets into the next.

### ftps (`src/server/ftps.c`)
- **State**: the program counter, the size, the name, the bytes received, the file.
- **Operations**: bind, read the size, the name, and blocks until their lengths add up
  to the size; acknowledge each to the server daemon; close.
- **Hard**: it tells datagrams apart by their order alone, and exits on a first one of
  less than 4 bytes or a second one of less than 20; it must stop after exactly the last
  one; it may be started late; it acknowledges the name before it opens the file, and
  exits if that fails.
- **Correct if** the file it closes is the file ftpc sent, as long as the length of that
  is an `int`.

### Circular buffer and node list (`include/buffer.c`, `include/list.c`)
- **State**: `cBuffer`, `start`, `end`, `active`; the list of nodes.
- **Operations**: `AddToBuffer` (search for a ready slot), `AddToBufferForServer`,
  `GetFromBuffer`, `GetFromBufferByIndex`, `cBufferReady`, `insertNode`, `findNode`,
  `findNodeBySeq`.
- **Hard**: `active` grows past the number of slots on the client side (nothing takes
  from that buffer); the search spins for ever when no slot is ready; `cBufferReady`
  and `sendPacket` dereference what the list returns.

### Delta timer (`src/timer/timer.c`)
- **State**: a list of timers, each with the time left after the one before it; the
  requests waiting on its socket and the timeouts waiting on the daemon's.
- **Operations**: wait in `select` and take the time spent there off the first timer,
  report and remove the timers that have run out, then handle one request: start
  (insert) or cancel (remove the first node of a number).
- **Hard**: the same number is started many times and cancelled once; insertion and
  removal move time between neighbours; only the time spent in `select` is counted.
- **Correct if** the times in the list add up to what each timer has left, none rings
  early, none that is not cancelled is forgotten.

### Retransmission timeout estimation (`tcpd.c:290-316, 633-635`)
- **State**: `est_rtt`, `est_var`, `rto`, `firstSend`, the time noted in each node.
- **Operations**: note the time of every transmission; estimate at an acknowledgement.
- **Hard**: a retransmission overwrites the time of the first; `abs` of a double is an
  int; the weights favour the last sample; `rto` has no lower limit of its own; a NAK ends
  the wait early; the second read from ftpc, during which a datagram is under way, has no
  timeout.
- **Correct if** `rto` is bounded from both sides by what round trips take.

### CRC (`include/crc.c`, `include/crc.h`, `tcpd.c:508-520, 622-630`)
- **Operations**: the bitwise `crcSlow`; `crcInit`, which fills a table, and `crcFast`,
  which uses it. The client daemon puts `crcFast` of the packet, its field `chksum` being
  zero, into that field; the server daemon takes it out, puts zero there and compares
  `crcFast` of what arrived with it.
- **Hard**: the checksum is in the middle of what it protects, and is damaged with it.
- **Correct if** the table computes the same as the division, an intact packet passes the
  comparison, and one with short damage does not.

### Network and troll
External: a binary (`test/troll/troll`) that drops, duplicates, delays, reorders and
garbles.

### Socket wrappers (`include/rocket.c`)
`SEND` goes to the client daemon's port; `ACCEPT` and `CONNECT` do nothing.

## 2. Modules

| module | models | state | actions |
|---|---|---|---|
| `Sockets` | the two local hops and what travels on them | `toTcpd`, `ftpcAcks`, `toFtps`, `ftpsAcks`, `ftpsBound` | – |
| `Troll` | the network between the daemons | `dataNet`, `ackNet` | – (what may become of a datagram) |
| `CircularBuffer` | `buffer.c`, `list.c` as operators on values | – | – |
| `TimerService` | the timer as the daemon sees it, in the composed system | `armed` | – (start, cancel, timeout) |
| `Ftpc` | `ftpc.c` | `ftpcPc`, `file`, `blocks` | one per SEND and RECV, `Finish` |
| `ClientTcpd` | `tcpd --c` | `sn`, `sb`, `bufferReady`, `firstRun`, `localTimeo`, ring, nodes | one per outcome of each blocking read, and of the transmission |
| `ServerTcpd` | `tcpd --s` | `rn`, ring, nodes, `serverPc` | one per branch, two stops |
| `Ftps` | `ftps.c` | `fileSize`, `fileName`, `amtReadTotal`, `output`, `ftpsPc` | one per read, `RecvShort`, `StartFtps` |
| `ReliableStream` | what the daemons promise (abstract) | `sent`, `received` | `HandOver`, `Deliver` |
| `FtpSystem` | all processes together, fairness, the refinement mapping, the properties | – | `FtpcStep`, `ClientStep`, `ServerStep`, `FtpsStep` |
| `FtpSystemInv` | the inductive invariants, of a transfer whose datagrams are numbered from `first` on | | |
| `FtpSystemProofs`, `FtpGateProofs`, `FtpWaitProofs` | theorems about a single transfer, and proofs: the path, the gate and the window, the waits | | |
| `FtpSessions` | several transfers through the same daemons, a restart of `tcpd --c` between two | `ftpcRuns`, `ftpsRuns` | `RunFtps`, `RunFtpc`, `RestartClientTcpd`, and those of `FtpSystem` |
| `ReliableStreams` | what the daemons promise to one ftpc after the other (abstract) | `sent`, `received` | those of `ReliableStream`, and `Renew` |
| `FtpSessionsInv` | the inductive invariants of a sequence of transfers | | |
| `FtpSessionsProofs`, `FtpOriginProofs` | the theorems about it: the order, and the contents in spite of restarts | | |
| `AlarmClock` | what the timer promises (abstract) | `pending`, `rung` | `Pass`, `Set`, `Drop`, `Ring`, `Hear` |
| `DeltaTimer` | `timer.c`, and the daemon's requests | `list`, `pc`, `ready`, `node`, `curr`, `requests`, `timeouts` | `Select`, `Busy`, `Expire`, `ExpiryEnds`, `TakeAdd`, `Walk`, `Link`, `TakeDelete`, `Start`, `Cancel`, `Read` |
| `DeltaTimerProofs` | its theorems | | |
| `RtoEstimator` | the estimation of `rto` along the turns of the loop | `stop`, `timed`, `age`, `arriving`, `firstSend`, `est_rtt`, `est_var`, `rto` | `Transmit`, `RecvAck`, `RecvNak`, `AckTimeout` |
| `RtoEstimatorProofs` | its theorems | | |
| `Crc` | `crc.c`, and the check of `tcpd.c`: the loops over the bytes of a packet, side by side | `message`, `flips`, `arrived`, `byte`, `slow`, `fast`, `heard` | `NextByte` |
| `CrcProofs` | its theorems | | |
| `MCFtpSystem`, `MCFtpSessions`, `MCDeltaTimer`, `MCRtoEstimator`, `MCCrc` | the modules TLC is run on | | |

How code became steps. A process is cut at its blocking reads: a step is one read
and everything the code does up to the next read. So `ClientTcpd` has four stops per
turn of the loop (`clientPc` = `recvLocal`, `recvAck`, `recvTimer`, `transmit`), and
the gate check, the opening of the gate and the setting of `SO_RCVTIMEO` belong to
the step that reads from ftpc (`LeaveLocal`). The transmission is a step of its own,
although it reads nothing, because the read before it may time out or not: this only
adds interleavings. Cutting there loses none: between two reads a process only
sends, and a send does not depend on anybody else's state, with one exception, the
forwarding to an unbound port, and that step ends with it.

Data. A datagram's body is a record of its kind, the file it is of and a number: the
size, or a block's offset in the file. A file stands for its length, so two files of
different lengths have different names and blocks. A datagram's length is the one passed to
`sendto`. `IntOf` is what the `int` of `ftpc.c:22` makes of the length of a file: the
length itself up to `INT_MAX`, and beyond what is left of it in two's complement. It is
what ftpc sends as the size (`num_bytes`). ftps reads the first bytes of whatever comes
first as the size: of a size datagram that is the size, of any other one of the
`OddSizes` (`SizesIn`), and a datagram shorter than `SizeBytes` makes it exit, as one
shorter than `NameBytes` does in the place of the name (`RecvShort`). A packet of the
network adds its number and `ok`, whether its checksum matches. Buffer positions are
counted in slots where the code counts bytes and moves by MSS. The list of nodes is a
function from slots to nodes, because `insertNode` never makes a second node for a slot
(`NoNode` where there is none).

The network (`Troll`) is a set of datagrams per direction. When one is sent it is
relayed, dropped or damaged; a receiver takes any of them, and a copy may stay. A
damaged packet is known by its checksum: the model takes the check to detect every
damage. That is an assumption; `Crc` shows for which damage the check does (section 7).
Acknowledgements have no checksum, so a damaged one is just another number; `GarbleAcks`
says whether that happens and `AckNos` which numbers come out.

The timer. In the composed system it is `TimerService`, the set of numbers that may
still time out, at any moment. This over-approximates the process (`ImplementsService`,
section 7): the daemon's safety must not depend on when timers fire, and does not.
`DeltaTimer` is the process itself.
Its time is counted in ticks: `Select(e)` is a `select` that took `e` of them, `Busy(e)`
the time that passes anywhere else, which the code does not count. Each timer carries
two times the code does not have: `due`, the counted time until it should ring, and
`left`, what is left of its time since the daemon sent the request. Insertion is a
walk of one node per action. That delays are not zero, which `DeltaTimer` assumes of
its constants, is what `RtoEstimator` is about.

The estimation (`RtoEstimator`) follows one datagram after the other through the turns
of the loop; only the datagram `sb` is ever transmitted (`StopAndWait`). `age` is the
time since the node's time was noted. A turn waits for ftpc (`RecvLocal`), for an
acknowledgement and for the timer process. The second read from ftpc has no timeout and
takes as long as ftpc does, up to `Patience`; `timed` says that it is over. (The first
read comes before there is anything to transmit, and so before the model starts.) The
wait for an acknowledgement ends with it (`RecvAck`), when another number comes in, which
is a NAK or an old answer (`RecvNak`), or after `AckWait` (`AckTimeout`). Times are
integers where the code has doubles in seconds, and divisions truncate to them; the
truncation of `abs` to whole seconds is the code's own.

The checksum (`Crc`) is three loops over the bytes side by side: `crcSlow` and
`crcFast` of what was sent, `crcFast` of what arrived, both with the field `chksum` at
zero. Words are functions from places to bits, so that theorems can speak of every bit.
`flips` are the bits that the network flips in the packet, the field included;
`RecvChksumByte` is the field as it arrives, and `Accepted` the comparison of
`tcpd.c:520`. The field is an `int` with its lowest byte first.

Sessions (`FtpSessions`). `ftpc` and `ftps` carry one file and exit; the daemons, the
timer process and the trolls run on with all they have. The user starts `ftps` when the
last one has exited, then `ftpc` on the next of the `Files`. `RestartClientTcpd` gives
`tcpd --c` a fresh memory between two transfers and leaves the rest of the world alone.

What the model assumes of the environment: the daemons run before the programs that
use them; a datagram sent to a bound port of the same host arrives, in order (their
lockstep keeps at most one there); system calls do not fail. `ServerFirst` says whether
ftps runs first too; if not, it starts at any moment. `OpenMayFail` says whether ftps may
be unable to open its file. One assumption is about the code
itself: ftps appends the name to an array that is only as long as the prefix
(`ftps.c:26, 93`). What that overwrites depends on the layout of the stack; in the model
it leaves every modelled variable as it is.

Constants: `MSS` (1000 in the code), `Slots` (64, both the number of slots and the limit
of the gate), `FileSizes`, `INT_MAX` (2^31 - 1), `SizeBytes` (4) and `NameBytes` (20),
`OddSizes`, `GarbleAcks`, `AckNos`, `ServerFirst`, `OpenMayFail`; `Files` (the sizes of
the files sent one after the other) and `TcpdRestarts` of the sessions; `SeqNos`,
`Delays`, and the bounds `MaxPass` (ticks in one step), `MaxRequests` (requests waiting)
and `MaxTimers` (timers, requests and timeouts together) of the timer; the waits of the
loop, `Patience`, `Second`, `FirstTimes`, `LocalTimes`, `TimerTimes`, `NakTimes` (how
long the reads may take) and `RoundTrips` of the estimation; `POLYNOMIAL`,
`INITIAL_REMAINDER`, `ChksumAt` (1024) and `Deliveries` of the CRC. Their assumptions
are in the modules that declare them.

## 3. Properties

| property | what it says |
|---|---|
| `TypeOK` | types; in particular no position leaves the buffer, and `active` never goes below zero |
| `InOrderDelivery` | what ftps has read is a prefix of what ftpc has sent |
| `StreamSafe` | the system implements `ReliableStream` |
| `StreamLive` | and so it does with fairness: all that is handed over is delivered |
| `IInv` | the inductive invariant of the path of a datagram (section 6); in `DeltaTimer`, `RtoEstimator` and `Crc` that of their own, in the last two with `TypeOK` as a conjunct |
| `GateInv` | the inductive invariant of the gate, for any network: since it was opened the slots were filled from the first on, a number has one slot and keeps it until it is acknowledged; and of ftps' count of bytes |
| `WindowInv` | the inductive invariant of the window, for undamaged acknowledgements: nothing that travels is ahead of the two daemons, which are at most one apart |
| `ListLookupsSucceed` | the daemon never dereferences the null pointer of a failed lookup, and the search for a ready slot ends |
| `FileComplete` | the file ftps closes has at least as many bytes as the `int` says that holds its length, and is whole if the length is an `int` |
| `CountersAgree` | `sb <= rn <= read by ftps <= rn + 1`, `read by ftps <= sn <= sent by ftpc` |
| `StopAndWait` | nothing beyond `sb` is in the network; `rn <= sb + 1` |
| `UnreadIsBuffered` | what ftps has not read sits in exactly one slot, unacknowledged and unaltered |
| `ReuseAfterRead` | a slot is filled anew only after ftps has read what it held |
| `AckedWasTimed` | a round-trip time is computed only from a transmission of the same datagram |
| `WaitInv` | the inductive invariant of the waits: the gate is left closed only while a slot is not acknowledged, what the server daemon waits for is with ftps, and ftps is there until it has the file |
| `NoneWaitsInVain` | no process waits without a timeout for what no other will do: ftpc for an answer of its daemon, that daemon for a datagram of an ftpc that has exited or behind a gate with nothing to retransmit, the server daemon for an ftps that has nothing to answer, ftps for what nobody has left to send |
| `TransferEnds` | the transfer ends on both sides |
| `AckedIsRead` | (refuted) what the client daemon counts as acknowledged, ftps has read |
| `ReportedIsReceived` | (refuted) a transfer that ftpc reports as sent is received |
| `EachInOrder` | (sessions) each ftps reads a prefix of what its own ftpc sends |
| `NothingLeftOver` | (sessions) when the next ftps waits, nothing of the last transfer is queued and both daemons count alike |
| `AckedIsReadEachTime` | (sessions) what of the present file counts as acknowledged, its ftps has read |
| `SessionsInv` | (sessions) the inductive invariant: the path of the present transfer, or the quiet between two |
| `NoTransferWaitsInVain` | (sessions) `NoneWaitsInVain` in every transfer |
| `NothingInvented` | (sessions) what waits for ftps, is in its file or was taken for the name was sent by some ftpc as it is, contents and length together |
| `OriginInv` | (sessions) the inductive invariant of that: so it is wherever a body and a length are kept together |
| `EachStreamSafe` | (sessions) the daemons implement `ReliableStreams`: a stream for every transfer, a fresh one only when the last has come out |
| `DeltasAgree` | (timer) the times in the list are the differences of the timers' deadlines |
| `NeverEarly` | (timer) no timer rings before all of its time has passed |
| `ImplementsAlarms` | (timer) the list behaves as a set of alarms each with a time of its own, `AlarmClock` |
| `ImplementsService` | (timer) a number becomes armed by its own start and disarmed by its own cancellation or timeout, as `TimerService` has it; none is lost on the way |
| `Rings` | (timer) if a timer of some number runs, one rings or is cancelled |
| `SlowIsFast` | (CRC) the table and the division give the same remainder |
| `BurstIsDetected` | (CRC) if all damage is within 16 consecutive bits, the checksum in the packet included, the check succeeds exactly if there is none; except for bursts that begin before the checksum and end in it |
| `CheckValue` | (CRC) the nine digits have the checksum `crc.h` gives |
| `RtoBounded` | (estimation) `rto` is between the estimate and three turns of the loop, the longest there may be |
| `EstimateIsRoundTrip` | (refuted) the estimate is no less than what every round trip took |

## 4. Runs

The runs of the whole system use `MSS = 2` and `Slots = 2` or 3. A file of 0, 1, 2 or 3
bytes then takes 2, 3, 3 or 4 datagrams: the size, the name, and no block, a short one,
a full one, or a full and a short one. These are the cases of the last block. With two
slots it matters which slot a datagram is in, and a transfer outgrows the buffer: with 3
datagrams the gate closes, opens and a slot is used a second time, with 4 it closes a
second time. `INT_MAX` is the length of the longest file that shall be announced as it is;
`SizeBytes` and `NameBytes` are 2, so that a full block may pass for a size or a name and
a short one may not. Nothing else is bounded there, but for the packets of `sessions` and
`restart`: the network may hold every packet there is, and retransmit for ever.

| run | instance | checks | shows |
|---|---|---|---|
| `safety` (`MCSafety.cfg`) | sizes {0, 3}, undamaged acknowledgements, ftps first | `WindowInv`, `CountersAgree`, `StopAndWait`, `UnreadIsBuffered`, `AckedWasTimed`, `ReuseAfterRead`, `WaitInv`, `NoneWaitsInVain` | the counters of the four processes, the buffer and the network agree throughout, and nobody waits for what nobody will do (716,440 states) |
| `any_network` (`MCAnyNetwork.cfg`) | sizes {0, 1, 2} with `INT_MAX` = 1, acknowledgements damaged into 1 or 2, ftps at any moment, its open may fail | `TypeOK`, `IInv`, `GateInv`, `InOrderDelivery`, `ListLookupsSucceed`, `FileComplete`, `StreamSafe` | whatever the network does and whenever ftps starts, ftps reads a prefix of what was sent and no lookup fails; what it closes is whole but for the file of 2 bytes, which is announced as -2 (535,776 states) |
| `liveness` (`MCLive.cfg`) | sizes {0, 1}, undamaged acknowledgements, ftps first | `TransferEnds`, `StreamLive` | every transfer ends, with no block or a short one, through a closing and an opening of the gate (77,464 states) |
| `garbled_ack` (`MCGarbledAck.cfg`) | size 0, acknowledgements damaged into 1 | `AckedIsRead` | **violated**, see below |
| `late_server` (`MCLateServer.cfg`) | size 0, ftps at any moment | `ReportedIsReceived` | **violated**, see below |
| `sessions` (`MCSessions.cfg`) | files of size 0 and 1, 3 slots, at most `MCMaxDatagrams` = 3 datagrams at a time between the daemons, `MCMaxEachWay` = 2 each way | `SessionsInv`, `EachInOrder`, `NothingLeftOver`, `AckedIsReadEachTime`, `EachStreamSafe`, `NoTransferWaitsInVain` | what is still about of the first transfer neither touches nor stops the second, and each has its own reliable stream (262,064 states) |
| `restart` (`MCRestart.cfg`) | files of size 0 and 3, 2 slots, `tcpd --c` restarted any number of times between the two, the same bounds on the datagrams between the daemons | `ListLookupsSucceed`, `NothingInvented`, `OriginInv` | even then no lookup fails, and what ftps gets was sent, with that length (969,365 states) |
| `delta_timer` (`MCDeltaTimer.cfg`) | 2 numbers, delays 1 and 3, up to 2 ticks at once, 4 timers | `TypeOK`, `DeltasAgree`, `IInv`, `NeverEarly`, `ImplementsAlarms`, `ImplementsService` | the delta list is a set of alarms, and the service the composed system takes it for (1,564,727 states) |
| `timer_liveness` (`MCTimerLive.cfg`) | 2 numbers, delays 1 and 2, single ticks, 3 timers | `Rings` | no timer is forgotten (75,423 states) |
| `crc` (`MCCrc.cfg`) | the digits 1 to 9, `chksum` and 12 bytes behind, intact and with 14 bursts at every place | `SlowIsFast`, `BurstIsDetected`, `IInv`, `CheckValue` | the three loops agree with each other, with `crc.h` and with the purpose (70,304 states) |
| `rto` (`MCRtoEstimator.cfg`) | the code's timeouts in units of 50 ms, a second read from ftpc of up to 1.25 s, NAKs, round trips of 100, 200 and 450 ms | `IInv`, `RtoBounded` | `rto` is bounded whatever is lost (157,557 states) |
| `short_rtt` (`MCShortRtt.cfg`) | the same without NAKs | `EstimateIsRoundTrip` | **violated**, see below |

In `any_network` the values 1 and 2 are those a damaged acknowledgement needs in order
to be accepted twice running, ahead of the server: any other number is ignored as a NAK
would be. The file of 2 bytes stands for one of 2^31 bytes: its length overflows the
`int`. In `sessions` the files differ in their lengths, hence in all their datagrams,
and the second has a block, which is short. Two datagrams for the first and three slots
put the boundary of the transfers in the middle of the buffer: the second transfer fills
the last slot, the gate closes and opens inside it, and slots of the first transfer are
used again. In `restart` the two slots are full exactly at the boundary, and the second
file has a full and a short block, so that a body with the length of another would show.
The full block may be the first datagram that ftps gets after a restart, and it takes it
for the size, which then is 0 or 3; on the short one it exits. In both runs a state in
which more than two packets, more than two acknowledgements, or more than three of both
are under way at once is not followed any further. Two of a kind, in either order and
delivered any number of times, are an old one and the present one, and in `restart` an
old one and a new one with the same number; or they are the two old acknowledgements
that make a restarted daemon give up the size and the name. Timeouts are not bounded.
The theorems of section 6 have no such bound. In `delta_timer` four timers over two
numbers give every case of insertion (first, middle, last, equal times) and of removal
(first, middle, last, several of a number, none); a delay of 3 outlives two selects, a
pass of 2 runs several timers out at once and the first one late. In `rto` 100 and 200
ms are shorter than a turn of the loop, 450 ms is longer, and a second read from ftpc of
1.25 s with a late answer makes deviations of more than a second, which `abs` does not
drop. In `crc` the bursts are single and double bits, runs of 3, 8 and 16 and some mixed
ones, from the first bit of the packet to the last, in the checksum and across its end
too. One of them, over 13 bits, is one that the check misses when it lies across the
front of the checksum in a packet like the code's: without that exception
`BurstIsDetected` is violated.

The end of a transfer is not a deadlock, because the client daemon's loop never stops;
the loops of `timer.c` never stop either. So deadlock is checked in every run but `crc`,
whose loops end with the packet.

### What the violations show

*A damaged acknowledgement is believed* (`tcpd.c:275-276`). Data packets carry a
checksum, acknowledgements do not. If the number in one is damaged into `sb + 1`, the
client daemon advances `sb` past a datagram that ftps does not have, and never
transmits it again; the server daemon waits for it for ever. The order of what ftps
does read is not affected: `InOrderDelivery` holds in the same setting.

*ftps started late* (`tcpd.c:551-566`). The server daemon forwards a datagram once, by
UDP, and waits for the answer without a timeout. If ftps has no port yet the datagram
is gone and the daemon never serves the network again. ftpc still reports success:
its acknowledgements come from the daemon on its own host, which has room for the
whole of a short file. An ftps that cannot open its file (`ftps.c:95-98`) leads to the
same: with `ServerFirst` and `OpenMayFail` both `TRUE`, a size of 1 and `INT_MAX` = 1 in
`MCLateServer.cfg`, TLC finds `ReportedIsReceived` violated that way.

*The estimate falls below every round trip* (`tcpd.c:635`). A retransmission overwrites
the time of the one before it, so an answer that takes longer than a turn of the loop
is measured against the last. A round trip of 450 ms counts as 100 when the turn before
took 350, and as nothing but the daemon's own computing when it ended while the daemon
waited for the timer process.

The first two set the code against `README.md:37-38`, "adding reliability to the UDP
communication between the FTP client and server"; the third against what the code calls
the number it computes ("RTT", `tcpd.c:75, 315`). Another remark that does not
match its code is `tcpd.c:345`, "IF SEQ # INVALID RETRANSMIT": the test below it
retransmits valid numbers, and the model follows the test. "Cancels timer"
(`tcpd.c:665`) is true of one timer: the daemon starts one on every turn of its loop
(`tcpd.c:372`), `remove_node` takes out the first of a number, and the others ring for a
number that was acknowledged. `ListLookupsSucceed` shows that this does no harm.

A restart of `tcpd --c` between two transfers is more than the code handles. The daemon
counts from 0 again while the other goes on; old acknowledgements that are still in the
network then make it give up the size and the name of the next file, and ftps takes a
block for a size, or exits if the block is too short for one. TLC shows it as a violation
of `EachInOrder`, if that is checked in `MCRestart.cfg`.

## 5. Fairness

`liveness` and `late_server` use it (`FairSpec` of `FtpSystem`), and `timer_liveness`
(`FairSpec` of `DeltaTimer`).

- *Weak fairness of each process.* The operating system schedules them, and none can be
  kept from a read that has something to read. Weak fairness of `ClientStep` is enough for
  the loop to go round, since every read but the first two has a timeout.
- *Strong fairness of a relayed transmission, and of a relayed answer.* A troll drops
  some percentage of datagrams; of one that is transmitted again and again, one gets
  through. Weak fairness would not do: each transmission disables the action.
- *Strong fairness of the reception* of the expected packet, and of the awaited
  acknowledgement. The network may hold others, but delay is finite: of something
  that is in the network whenever the receiver looks, it takes a copy eventually.

None says that the timer fires, and none says that a damaged packet arrives. The
transfer ends all the same, because the loop transmits on every turn: the timer is
not needed for progress.

For the timer process: weak fairness of what it does outside of `select` and of `select`
itself, since it is scheduled; and strong fairness of a `select` in which time passes,
since a clock does not stand still for all the selects there are. Nothing is assumed of
the daemon: it may flood the process with requests, or never read a timeout.

## 6. What is proved

All theorems are for all values of the constants and use only the named assumptions on
them. Every safety property that a run checks and finds to hold is among them, but for
`CheckValue`, which is about one packet, and so are the three refinements and the
property that makes the composed system's timer the real one. `FilesFit` is the hypothesis
that the lengths of the files are `int`s (at most `INT_MAX`).

| module | theorem | states |
|---|---|---|
| `FtpSystemProofs` | `TypeCorrect` | `Spec => []TypeOK` |
| | `Invariance` | `Spec => [](TypeOK /\ IInv)` |
| | `InOrder` | `Spec => []InOrderDelivery` |
| | `Refinement` | `Spec => StreamSafe` |
| `FtpGateProofs` | `Gate` | `Spec => [](TypeOK /\ IInv /\ GateInv)` |
| | `Lookups`, `WholeFile` | `Spec => []ListLookupsSucceed`, `Spec => []FileComplete` |
| | `Window` | the same with `WindowInv`, if `~GarbleAcks` |
| | `Counters`, `OneAtATime`, `Unread`, `Timed`, `Reuse` | `CountersAgree`, `StopAndWait`, `UnreadIsBuffered`, `AckedWasTimed`, `ReuseAfterRead`, if `~GarbleAcks` |
| `FtpWaitProofs` | `Waits` | `Spec => [](TypeOK /\ IInv /\ GateInv /\ WindowInv /\ WaitInv)`, if `FilesFit`, `ServerFirst`, `~OpenMayFail`, `~GarbleAcks` |
| | `NobodyStuck` | `NoneWaitsInVain`, under the same |
| `FtpSessionsProofs` | `SessionLookups` | `SessionsSpec => []ListLookupsSucceed` |
| | `SessionsInvariance` | `SessionsSpec => [](TypeOK /\ ClientGate /\ SessionsInv)`, if `FilesFit`, `~TcpdRestarts`, `~OpenMayFail` |
| | `EveryTransferInOrder`, `EveryFileWhole`, `CleanStart`, `EachRefinement` | `EachInOrder`, `FileComplete`, `NothingLeftOver`, `EachStreamSafe`, under the same |
| | `SessionsWindow`, `AckedIsAlwaysRead`, `OneAtATimeAlways`, `TimedAlways` | `WindowInv`, `AckedIsReadEachTime`, `StopAndWait`, `AckedWasTimed`, if also `~GarbleAcks` |
| | `NobodyStuckEver` | `NoTransferWaitsInVain`, if also `ServerFirst` |
| `FtpOriginProofs` | `OriginInvariance`, `NothingMadeUp` | `SessionsSpec => [](TypeOK /\ RunsOK /\ OriginInv)`, `SessionsSpec => []NothingInvented` |
| `DeltaTimerProofs` | `TypeCorrect`, `Invariance`, `DeltasCorrect`, `NotEarly`, `Refinement`, `ServiceRefinement` | `TypeOK`, `IInv`, `DeltasAgree`, `NeverEarly`, `ImplementsAlarms`, `ImplementsService` |
| `CrcProofs` | `TypeCorrect`, `Invariance`, `TableIsRight`, `Detection` | `TypeOK`, `IInv`, `SlowIsFast`, `BurstIsDetected` |
| `RtoEstimatorProofs` | `TypeCorrect`, `Invariance`, `Bounded` | `TypeOK`, `IInv`, `RtoBounded` |

### The path of a datagram

`InOrderDelivery` is not inductive: it speaks of the two ends, and a step of ftps reads
what went through everything between them. `IInv` therefore follows a datagram along
its path, with one conjunct per place. It is `PathInv(first)` for `first = 0`: the conjuncts
speak of a transfer whose first datagram has the number `first`, so that they serve for
later transfers too.

1. `BlocksInFile`: ftpc sends blocks the file has.
2. `LocalHop`: ftpc and its daemon are in lockstep. Either nothing is between them
   and `sn` datagrams were sent, or one datagram is, or its acknowledgement is.
3. `SlotsHold`: a slot of the client's buffer whose node says `s` holds the datagram
   `s - first + 1` of the transfer, with its length, if `s` is not an older number.
4. `NetHolds`: so does an undamaged packet with number `s`.
5. `ServerRingEmpty`: between packets the server's buffer is empty, so what
   `GetFromBuffer` returns is what was just added.
6. `ServerHop`: the server daemon and ftps are in lockstep; a third case admits the
   datagram lost to an unbound port.
7. `FtpsHolds`: what ftps keeps is what the datagrams said.

Each conjunct speaks of the state of one process or of a channel beside it, so a step of
one process can disturb few of them; there is one lemma per process (`FtpcKeeps`,
`ClientKeeps`, `ServerKeeps`, `FtpsKeeps`) with a step per action, and `PathStep` puts
them together. Nothing in the argument is about acknowledgements of the network: order
and contents do not depend on them, which is why the theorem holds for damaged ones.
The refinement follows from the same invariant: a step of ftpc extends `Sent` by one
datagram or leaves it, a step of ftps takes the next one or none, and no step of a
daemon changes either end.

`Handed`, `Received` and `Taken` are written with nested conditionals because the
SMT translation of the prover is not to be trusted with an equation between two
`CASE` expressions of three arms or more; no definition that a proof expands uses one.

### The gate and the window

`ListLookupsSucceed` needs to know which slot a number is in, and that is decided by the
gate. `GateInv` says: the slots filled since it was opened are the first `bufferReady`;
the others are ready, since the gate opens only when all are acknowledged or free; so
the search of `AddToBuffer` ends at once, at `end`. A number that is not acknowledged
(`sb` and above) keeps its slot, because a slot that is filled anew was acknowledged, and
what is acknowledged is below `sb` (`AckedIsBelow`). So `findNodeBySeq` finds the node for
every number the daemon looks up: `sb` in a transmission, `sb` or more after a timeout,
`ack - 1 = sb` after an acknowledgement. Damaged acknowledgements change none of this.

`FileComplete` follows from `FtpsTotals` in the same invariant: ftps reads on as long as
the blocks it has are shorter than the size it was told, and the k-th block ends at
`k * MSS` unless it is the last. That size is `num_bytes`, the length of the file if that
is an `int` (`IntOf`); of a longer file ftps stops at whatever the `int` says, and all the
theorem has then is that the file is no shorter than that.

What relates the two daemons needs undamaged acknowledgements. `WindowInv` says that
nothing which travels (packets, acknowledgements, timers) is ahead of `sb` or `rn`, that
`sb <= rn <= sb + 1`, and that a number which may have been answered was transmitted and
timed (`BaseIsTimed`). The five theorems after it are consequences of the invariants of
the path, the gate and the window together.

`SessionLookups` goes through the same invariant of the gate without the part about
ftps, which the start of the next transfer does not preserve: a second run of ftpc or ftps leaves
the daemon alone, and a restart puts it into its initial state.

### Who waits, and for what

Three reads of the code have no timeout: ftpc's for an acknowledgement, the client
daemon's first two from ftpc, and the server daemon's from ftps. Besides, the daemon leaves
out the read from ftpc while its gate is closed. `NoneWaitsInVain` says that these
waits make no circle: whatever a process waits for, another will still do, or the client
daemon, which never stops, still has to retransmit. It is the part of `TransferEnds` that
needs no fairness; what is left to TLC is that what can always be done is done.

For ftpc and the server daemon it is the lockstep of the local hops (`LocalHop`,
`ForwardedIsAnswered`). For the gate, `GateClosedForCause` says that it is left closed only
while some slot is not acknowledged, since the loop looks at `cBufferReady` just before;
that slot's number is `sb` or more (`UnackedIsOutstanding`), so `sb < sn`. For ftps, if
ftpc has exited and ftps still reads, then its datagram is one that the client daemon has
not seen acknowledged: by the counters `sb <= rn`, and if all were acknowledged ftps would
have all datagrams, and with them the file.

The hypotheses are those under which the code does not stop. Without `FilesFit` ftps may
close the file while its daemon still has blocks for it, and that daemon then waits for
an answer nobody gives. The violations of `garbled_ack` and `late_server` (section 4)
are the waits in vain without them. A late or failed ftps leaves `serverPc = "wait"`
with nothing to answer; a damaged acknowledgement leaves ftps waiting for a datagram
that is not sent again.

`NobodyStuckEver` goes through the same lemmas with the numbers shifted by `first`. What
is new is that the daemon begins a later transfer with the slots and the gate of the last, and
that ftpc and ftps start again while the daemons stand anywhere in their loops.

### One transfer after the other

`EachInOrder` needs to know that a transfer starts from a clean state, though the network,
the timer and the slots of the client's buffer are full of the last one. `SessionsInv` says
that there is a number `first` such that

- while ftpc and ftps work on the same file, `PathInv(first)` holds: everything with a
  number from `first` on is of this file, and nothing is said of what carries an older
  number. The server daemon passes on `rn` only, and `first <= rn`, so what is older never
  gets past it;
- between the end of one ftps and the start of the next ftpc, `BetweenTransfers(first)`
  holds: the two local hops are empty, and the two counters are equal, or will be when
  the server daemon reads the last acknowledgement of the ftps that has exited.

The step into the second case rests on `DoneHasAll`: an ftps that is done has read as many
datagrams as its ftpc sends at all, so ftpc has sent its last, and its daemon has given out
its last number. The step back into the first case takes `sn` for the new `first`. That the
case between the two lasts is `BetweenStep`: the client daemon may transmit the old
datagrams over and over, but all have numbers below `rn`, or the one number that the server
daemon still waits to count. The proof of `PathStep` is used for the rest as it stands.

The refinement (`EachRefinement`) maps the two ends to `ReliableStreams`. When the new ftps
starts it has read nothing, and the stream of the last transfer is still to be renewed; so
until ftpc starts, `ReceivedEach` is all that was sent, which `DoneHasAll` makes a stutter of
the first start and `Renew` of the second.

The hypotheses are what the code needs. Without `FilesFit` an ftps that stops early
leaves blocks of its file to the next one, which takes one for a size. With
`TcpdRestarts` the order is lost (section 4). With `OpenMayFail` an ftps that exits
after the name is followed by one that takes the next block for a size. With
`GarbleAcks` a datagram can be given up (section 4), which harms `AckedIsReadEachTime`
but not the order. All are conditions on constants, and `MCSessions.cfg` is an instance
that fulfils them.

### After a restart

A client daemon that is restarted between two transfers counts from 0 again, and nothing
that compares numbers holds any longer: not `IInv`, nor the order (section 4). `OriginInv`
therefore compares no sequence numbers. It says that wherever a body and a length are
kept together, in the local hops, in a slot with its node, in a packet that passes the
check, some ftpc sent them together; and that the server's buffer is empty between two
packets, so that what it hands to ftps is what it has just checked. `sendPacket` builds a
packet from the slot and the node of one number, and after one read `AddToBuffer` and
`insertNode` fill both; that keeps them together also when the number means something
else to the receiver.
`NothingMadeUp` has no hypotheses: it holds for damaged acknowledgements, a late ftps, one
that cannot open its file or meets a short datagram, files whose length is no `int`, and any
number of restarts.

### The timer

`DeltasAgree` is not inductive as it stands: while a node is on its way along the list,
what is left of its time is the difference to the timer it stands behind (`NodeAgrees`).
Together with `HeadRuns` (outside of the expiry loop the first timer still runs) this
gives the place and the two differences when it is linked. `NeverEarly` needs that no
timer has more time left than is still to be counted (`LeftIsCounted`): uncounted time
only makes timers late. The refinement maps the list to numbers and due times; a step
of the walk, a request on its way and the uncounted time are stutters.

`ServiceRefinement` maps `armed` to the numbers in four places: in the requests, at the node
on its way along the list, in the list, in the timeouts. `RemovedNumbers` and `LinkedNumbers`
say that removal and insertion touch one timer only; so a step that moves a number from one
place to the next leaves their union alone (`ExpireNumbers`, `InsertNumbers`).

### The checksum

The division is linear over exclusive or (`DivideLinear`) and loses no information
(`DivideNotZero`, for which the polynomial must have its last bit set). So the
remainders of the packet sent and the one that arrived, both with the field at zero,
differ by the remainder of the damage outside of the field alone (`DamageIsHeard`).
`SlowIsFast` is linearity applied to the upper and the lower byte of the remainder.

`Detection` goes by where the damage is. If all of it is in the field, the two
remainders are the same (`IntactIsHeard`), and the field that arrived is not the one
that was sent. If it is outside of the field, it fits into one word at its first bit and
is divided without being overtaken, so the remainders differ, and the field says which
one was sent. If it begins in the field and ends behind it, the part behind it makes the
remainders differ, and with them the lower two bytes that are compared, while a burst of
16 bits that reaches behind the field cannot touch the lower two bytes of the field,
where the checksum is. What is left are bursts that begin before the field and end in
it. There the damage to the packet may change the remainder by exactly what the damage
to the field changes in the checksum: in the code's layout the bit 0x01 of byte 1023,
the last of `bytes_to_read`, changes the remainder by 0x10E2, and the bits 0xE2 and 0x10
of bytes 1024 and 1025 change the checksum by the same. Those 13 bits are a burst that
nobody notices, which is why `BurstIsDetected` makes an exception for them. The theorem
holds for every packet, of any length, and every place of the field.

### The estimation

A sample is no longer than the turn it ends in, since `age` is zero after every
transmission: a turn is one wait for ftpc, at most `Patience`, and one for an
acknowledgement. The estimate is an average of samples and of the estimate before, so it
is no longer than a turn either. A deviation is no longer than the distance between the
new estimate and the sample, which is an eighth of that between the old estimate and the
sample; `abs` only makes it smaller (`DeviationBound`). So the variance, which starts at
half of a sample, stays at half a turn or less (`VarianceStep`), and `rto` at three turns.
No wait needs to be shorter than anything for that: with the 50 and 300 ms of the code and
an ftpc that is scheduled at once, all deviations count as zero; if ftpc keeps the second
read waiting for more than a second, they may not, and the bound is the same.

### Model-checked only

Liveness (`TransferEnds`, `StreamLive`, `Rings`) is beyond the prover, which has no rules for
fairness and `ENABLED`. `CheckValue` is the checksum of one packet of nine bytes, computed.
The three refuted properties have counterexamples. With a restart of `tcpd --c` between two
transfers the lookups (`SessionLookups`) and the contents (`NothingMadeUp`) are proved, and
nothing of the order, since it does not hold.

## 7. How the parts support each other

The modules are checked apart from each other; these are the places where one relies on
another.

- `FtpSystem` lets a timeout come at any moment for any number that is armed in
  `TimerService`. `ImplementsService` shows of `DeltaTimer` that it arms and disarms as that
  module does, except that a cancellation takes effect when it is handled and not when it
  is sent. `canceltimer` may leave its number armed, and a timeout may too; so among the
  behaviours of `FtpSystem` is one in which all that the process has armed is armed, and
  every timeout it can send is one that `FtpSystem` has the daemon read.
- `FtpSystem` takes every damaged packet to fail the check, and every other one to pass
  it. `Crc` shows the second, and the first for damage within 16 consecutive bits that does
  not begin before the checksum and end in it. Other damage, and in the code's layout some
  bursts over bytes 1023 to 1025, may go unnoticed; of that no model here speaks.
- `DeltaTimer` assumes delays that are not zero. `RtoEstimator` shows that `rto` is at
  least the estimate, and the estimate may be zero in its time (see the last violation).
  In the code it then is the time of some computation, small but not zero, by a clock of
  nanoseconds. Timers so short make the daemon retransmit more and do no harm.
- `RtoEstimator` follows one datagram at a time; `StopAndWait` shows that this is what
  the daemon does, for undamaged acknowledgements.

## 8. What is not modelled

- A restart of `tcpd --s`, of the timer process, or of `tcpd --c` in the middle of a
  transfer: nothing in the code recovers from any of them.
- Exits on failed system calls other than the open of the output file.
- Overflow of `amtReadTotal`, an `int` like the size. It ends at the length of the file if
  that is an `int`, and otherwise at most a block behind the size that was announced.
- What follows a file whose length is no `int`: `InOrderDelivery`, `FileComplete`, the
  lookups and the contents hold for it, but the theorems about waits and about the next
  transfer have `FilesFit` as a hypothesis, and the code needs it.
- How long ftpc may take for its second datagram: `Patience` of `RtoEstimator` bounds it.
- Overflow of the counters, which count datagrams of all files sent since the start.
- Floating point: the estimation is in integers. The time in which a process computes
  is counted in `DeltaTimer` (`Busy`) and not in `RtoEstimator`.
- Memory: every lookup allocates a node that is never freed. Console output.
- `reflect` of `crc.c`, which the selected standard does not call, and the other two
  standards; `deleteNode`, `printList` and `displayBuffer`, which nobody calls; the window
  edge `sm`, which nothing reads.
- The files under `test/samples` and the build file, which have no behaviour.
