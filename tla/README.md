# A TLA+ model of dump1090-server

dump1090-server receives Mode S, ADS-B and Mode A/C transmissions of aircraft, from an
RTL-SDR dongle, a file or the network, keeps track of the aircraft, and passes on what it
hears in half a dozen formats. This directory holds TLA+ models of the parts in which
concurrency, time, failure, framing and arithmetic at its limits decide whether it is
right, TLC configurations that check them on small instances, and TLAPS proofs of what
matters most for all instances.

## 1. Inventory

| Component (source) | State | Operations | Interacts with |
|---|---|---|---|
| ICAO filter (`modes/icao_filter.go`) | two hash tables, which is active, next flip | `Add`, `Test`, `TestFuzzy`, `Expire` | called by demodulator, `handleMessage`, periodic task |
| Data validity (`types.go`, `track.go` 533-626) | source, updated, stale, expires of each datum | `acceptData`, `combineValidity`, `compareValidity`, `expireField` | every field of the tracker |
| Tracker (`modes/track.go`) | map of aircraft, counters | `UpdateFromMessage`, `UpdateFromModeAC`, `PeriodicUpdate`, snapshots, FATSV marks | receiver and network goroutines, periodic task, all outputs |
| CPR (`modes/cpr.go`) | none | global and local decoding of positions | tracker |
| FATSV (`modes/fatsv.go`) | what was written of each aircraft (in its record) | `WriteFATSV`, `WriteFATSVEvent` | tracker, network services |
| Beast (`protocol_beast.go`, `output.go`, receive loops in three commands) | buffer of each connection | encode, decode, resynchronise | network input, `handleMessage` |
| AVR, SBS (`protocol_raw.go`, `protocol_sbs.go`) | line buffer | parse, format | network input and output |
| Statistics (`modes/stats.go`, `json_schema.go`) | the window in progress, a ring of windows, aggregates | the `Add` methods, `Update`, five getters | everybody |
| JSON writer (`json_writer.go`) | ring of snapshots in memory and on disk | periodic write, restore | tracker, statistics, HTTP |
| Demodulator (`modes/demod.go`) | buffer with a trailing overlap | scan, score, handle | device, decoder, filter |
| Decoder (`decoder.go`, `crc.go`), Mode A/C (`mode_ac.go`) | tables | pure functions, and the filter | demodulator, network input |
| Network services (`cmd/dump1090-server/network.go`, `main.go`) | a map of clients without a lock | add, broadcast, heartbeats, close all | handlers, periodic task, clients |
| Server (`cmd/dump1090-server/main.go`, `input.go`) | context, wait group, buffer of samples | start, read samples, handle a message, periodic task, shutdown | everything |
| Clients (`cmd/view1090`, `cmd/faup1090`) | connection | dial, process, reconnect | network services, Beast, tracker |
| RTL-SDR (`rtlsdr/rtlsdr.go`) | handle, lock, callback | open, configure, read, cancel, close | server, librtlsdr |
| Display, HTTP, configuration | terminal, files, flags | format | tracker |

How they work together: the receiver goroutine and one goroutine per input connection
decode messages and call `handleMessage`, which updates the tracker, counts, lets the
filter know a trustworthy address, and broadcasts to the output clients. One more
goroutine wakes up to ten times a second (`runPeriodicTasks`), writes JSON, and once a
second calls, in this order, `Tracker.PeriodicUpdate`, `StatsCollector.Update`,
`ICAOFilter.Expire`, the heartbeats and `WriteFATSV`. Each network service has a goroutine
that accepts clients and one that closes its listener. Filter, tracker, statistics and JSON
writer have a mutex each; the clients of a service are in a `sync.Map`. A signal cancels a
context, which every goroutine has to notice by itself, and `main` waits for a group.

What is hard about it:

* **The clock is read before the lock.** `UpdateFromMessage`, `UpdateFromModeAC`,
  `PeriodicUpdate`, `Expire` and `WriteFATSV` all take `time.Now()` first. Times therefore
  reach the shared state out of order, and differences of unsigned times may wrap.
* **Expiry is lazy.** A datum that has expired stays "valid" until the sweep of that
  second, and may be read, compared and combined until then.
* **Sources of different trust write the same fields**, in any order, and derived data
  (GNSS altitude, position) inherit the validity of several inputs.
* **Snapshots are used after the lock**: FATSV formats copies and marks the originals; a
  report of statistics is five snapshots.
* **TCP cuts frames**, and the Beast decoder cannot tell a cut frame from a broken one.
* **Clients come, stall and go** while others broadcast to them, and a shutdown closes
  them all.
* **Buffers of samples have seams**, and which part of each is scanned decides what is
  heard once, twice or never.
* **Trust is learnt**: most replies carry no address but their parity, and are believed if
  that is an address heard before.
* **A crash or restart** falls between a file and what another file says of it.
* **The device is read by a library** that calls back, and is cancelled from outside.
* **Open addressing with collisions, wrap-around and expiry** in the filter; rounding and
  wrap-around in position, parity and altitude codes.

What makes each component right is stated with its module below, and line by line in the
hazards of PROJECT.json.

## 2. Modules

| Module | What it is |
|---|---|
| `RecentAddresses` | abstract specification of the filter: two sets of addresses and their rotation |
| `ICAOFilter` | the two hash tables, one action per method; refines `RecentAddresses` |
| `MCICAOFilter` | three slots in which hashes and low bits collide |
| `ICAOFilterProofs` | theorems about `ICAOFilter` |
| `DataValidity` | the functions on validity records that the tracker is built from |
| `Tracker` (extends `DataValidity`) | the map of aircraft and its three handlers |
| `MCTracker` | reports, frames and replies of small instances, and the view on states |
| `TrackerProofs` | theorems about `Tracker`, and about `FATSV`, which it extends |
| `FATSV` (extends `Tracker`) | the periodic task: sweep, read the clock, copy, mark; composed with all the tracker's steps |
| `MCFATSV` | one aircraft that reports altitude, position and being on the ground |
| `Beast` | encoding, decoding and the receiving loop over a TCP stream |
| `MCBeast` | bodies of 3, 4 and 6 bytes with escape bytes in all places that matter |
| `BeastProofs` | theorems about `Beast` |
| `NetworkService` | one output service: its map of clients, broadcasts, heartbeats, accepting and closing |
| `Feed` (extends `NetworkService`) | the service with its clients: view1090 and faup1090, and other programs; time and fairness |
| `MCFeed` | two connections, for a reader alone or for other programs that share an address |
| `FeedProofs` | theorems about `Feed` |
| `Stats` | the statistics collector and the goroutines that feed it and report |
| `History` | the ring of snapshots in memory and on disk, failing writes, crashes and restarts |
| `Housekeeping` (extends `Stats`, `History`) | the periodic goroutine, the handlers and the web, composed |
| `MCHousekeeping` | two feeding goroutines, two reporters, two or three slots |
| `HousekeepingProofs` | theorems about `Housekeeping` |
| `Decoder` | how a frame is scored, decoded and trusted |
| `Receiver` (extends `Decoder`, uses `RecentAddresses`) | samples to messages: buffers, scans, choice of a reading, filter |
| `MCReceiver` | an aircraft and the address 0, two transmissions, sixteen samples |
| `ReceiverProofs` | theorems about `Receiver` |
| `RTLSDR` | the device: opening and configuring, asynchronous reading, cancelling, closing |
| `Server` (extends `RTLSDR`) | `main`: sources of samples, signals, servers, connections, shutdown |
| `MCServer` | a server of each kind, two configurations of the device, two signals |
| `ServerProofs` | a theorem about `Server` |
| `CPR` | global and local position decoding in integers |
| `CRC` | parity, error tables and repair |
| `ModeAC` | altitude codes |
| `Codecs` (extends `CPR`, `CRC`, `ModeAC`) | signals that move, are disturbed or climb, against what they meant |
| `MCCodecs` | positions at all the edges, bits that collide |
| `CodecsProofs` | theorems about the positions of `Codecs` |

### ICAOFilter

`filter`, `active` and `nextFlip` are the fields of the struct (`active` names a table
instead of pointing to it). `Add`, `Expire` are actions; `Test`, `TestFuzzy` are
operators, for they change nothing. A loop that probes is the operator `ProbeStop`: the
slot of a set of stopping slots that is nearest in probing order, and a probe that comes
back to its start finds nothing. `Expire` is two actions, `ExpireCall` (the clock) and
`Expire` (under the mutex). `icaoHash` is any function into the slots. `heard` is a
history variable.

### Tracker

A record of `aircraft` has a validity and a value per field. `Plain` stands for the
fields that `UpdateFromMessage` treats alike (accept and store): callsign, speeds,
headings, rate, category, air/ground. Altitude, squawk, GNSS altitude, its difference,
the two CPR frames and the position have code of their own and are there by name.
`TakeTime(h)` is the clock reading of handler `h`; `UpdateFromMessage` and
`UpdateFromModeAC` are the whole handlers under the lock, derivation of the GNSS altitude,
decoding of a position, matching of replies and demotion of the flags included;
`SweepCall` and `PeriodicUpdate` are the same for the periodic task. The map's iteration
order is a choice (`Rankings`), because it decides which counts overwrite which.

Left out: signal levels and NUC (no condition reads them), CPR statistics (`Stats` has
them), and the geometry (`CPR` has it). `doGlobalCPR` and `doLocalCPR` are sets of results
they may return; whether a reference position exists and is young enough is kept, since
that depends on validity. Instead of a latitude and longitude a record has `position`, the
source of the frames they were decoded from. `born` is history: when the oldest input of a
datum came.

### FATSV

`emitted` holds the `FATSVLastEmitted...` fields of each record, `round` the `now` of
`WriteFATSV`, `pending` the lines whose record is not marked yet. `Line` is
`formatAircraftFATSV` without the layout: the set of columns of a line, empty if there is
none, after all the conditions on freshness, source, change, ground and minimum age. All
copies are taken under one lock and formatted from the copies alone, so `Format` takes the
copies and formats them in one step, and each `Mark` is a step of its own in any order.
The clock of the model starts at 0, the zero value of `FATSVLastEmitted` lies long before
that (`LongAgo`). `copies`, `shown` and `confirmed` are history: how often a datum was
written, the value written last, and when the record had its second message, before which
there is no line.

A value that a message brought may stay unwritten in two ways. It is *passed over* if the
last line is dated no earlier than it: lines are for what was updated after the last one. A
message that comes while a round is written may do this, be it that the mark follows it or
that its handler, whose clock reading is older, stores it after the mark
(`PassedOverOnlyInRound`). Or it *ages out*: it waits for a line, but a line is at least
`minAge` after the one before, up to 30 s (`fatsv.go:239`), and a value may be written for
15 s only (`fatsv.go:435`). `AgesOutBetweenLines` says that it happens only then, or when the
second message comes too late.

### Beast

`Send` puts a whole frame on the wire, as `EncodeBeast` and `Broadcast` do; `Read(n)` takes
any number of bytes; then the loop iterates: `Deliver`, `Skip` (heartbeats, and replies when
Mode A/C is off), `Resync` (an error, and an escape byte further on) and `Wait` (an error
and none). `Reconnect` starts a connection with an empty buffer. Frames are sequences of
byte values, because framing is all about them, but lengths are constants.
`Accepted` is what `DecodeModesMessage` takes without an address filter: formats 0, 4, 5, 16
and 24 to 31 with any parity, which is an address there, and formats 11, 17 and 18 if their
parity tells of no error beyond repair. The latter are the constant `Valid`, any set. Nothing
else is supposed of what the decoder finds where it is astray, within a frame that was given
up: it may take it for messages. `Panics` is a message of 7 bytes whose format calls for 14
bytes of checksum: an index out of range that nothing recovers from (`Panic`). Peers do not
send such a message, but it may be found astray.

### NetworkService and Feed

`clients` is the `sync.Map`, from IDs to connections; an ID is the peer's address and a
number (`newClientID`). `Range` is `RangeBegin`, one `Visit`, `Close`, `Delete` per entry
and `RangeEnd`: it goes over the entries there were when it began and may pass over one
deleted since, which is what Go 1.21's `sync.Map` does with a map that nothing is added to
behind the snapshot. `Write`, `Close` and `Delete` are steps of their own, since the only
lock is that of one client. A write puts the whole frame into the socket, or, at its
deadline of 100 ms or on a connection that is gone, fails with none or some of it there. A
peer that went away is noticed by the second write only (`gone`, then `reset`). The peers in
`Prompt` make room for a frame within 100 ms; for the others either may happen. The
acceptor's goroutine ends in `CloseAll`, also if the port is disabled or `Listen` fails;
`CloseListener` is the goroutine that waits for `ctx.Done`.

`Feed` adds the clients: `Dial`, `Check` (the head of the loop), `Read` (data, a closed
connection, or the read deadline), `Lost` and `Wait` are `run` and `connectAndProcess` of
both commands, which differ in whether they dial again (`Reconnect`). `Stranger` is any
other program. `Tick` is a period of the periodic task. `got` is history: what a connection
has had of each broadcaster's frames. A period ends (`Settled`) when what takes much less
than one is done: the heartbeats, and what a prompt reader does. This supposes that the
heartbeats of all clients take less than a period together, each 100 ms at most.

What the code does not do: after a write that failed half-way another broadcaster may write
to the connection before `Close` (`network.go:60`). The model has this order, and `Unbroken` is
about each broadcaster's own frames only.

### Stats, History and Housekeeping

`Stats` keeps four counters for forty: preambles, their outcomes, messages, and attempts at
a position. Each `Add` method is an action under the lock; which come after which is the
control of `Demodulate2400`, `handleMessage` and `updatePosition`. `Update` is the rotation;
`Get` is one of the five getters a report consists of. `Patience` bounds how many rotations
may fall within one report, which takes microseconds of the minute between two.
`log` and `added` are history.

`History` is the half of `JSONWriter` that keeps state: a snapshot goes into the ring
(`Snapshot`), then into a file (`WriteHistory`, which may fail or leave a torn file), then
the index and the count advance, then `receiver.json` is written if the count changed.
`CrashHistory` may fall anywhere; `Start` is `NewJSONWriter` with the restoration, with the
same or another size; `LoseFile` removes or empties a file. A snapshot is its number.
`Fault` allows one disk fault or resize in an execution.

`Housekeeping` runs them as `runPeriodicTasks` does, with handlers and the web beside it.

### Decoder and Receiver

A frame is the class of its format, the address as received, the number of errors the parity
names, the address after their repair, and the address that `scoreModesMessage` believes it
to be (`correctAAField` flips other bits than `ModesChecksumFix`). `Test` is
`ICAOFilter.Test` as the abstract filter has it, and true of the address `Zero` besides: 0
marks an empty slot, where the probe for it ends, so that a reply with parity 0 is scored
and believed as one of a known aircraft (`icao_filter.go:113`, `demod.go:562`,
`decoder.go:172`). `Score`, `Best` and `Trusted` are the scoring, the choice among the
phases' readings and `DecodeModesMessageWithFilter`.

A sample of `Receiver` is its position in the stream, so that what a buffer holds can be
compared with what was sent. `Read`, the scan (`Candidate`, `ScanEnds`), the scan for Mode
A/C (`Reply`), and the copying of the tail (`BufferEnds`) are the loop of `processInput` and
of `handleSamples`. Which samples correlate with a message is not computed: a transmission
whose samples are all there and in order is a candidate, and the phases read any frame of
its length, or one of them a right one beside a wrong one. The filter is
`RecentAddresses`, which `ICAOFilter` is shown to implement; `Network` is a message that
comes past the demodulator and is decoded with a nil filter.

### RTLSDR and Server

`OpenDevice` and `Configure` take the steps of `OpenWithConfig` that a configuration calls
for (`todo`), each of which may fail; all but the last give up and close. The reading
goroutine takes the lock, registers its callback, unlocks, reads `d.dev`, and enters the
library (`Register`, `Argument`, `Enter`); librtlsdr is external: it calls back, returns on
an error or some time after a cancellation, does nothing on a cancellation before it
reads, and its close waits for a read. `Dangling` is the handle freed between the reading
of `d.dev` and the library's start; entering it then is a crash, or anything else
(`EnterFreed`, `Crash`).

`Server` is `main`: the source of samples, the select between signal and reader, the
deferred `Close`, the cancellation, and the wait for the group. Servers have a goroutine and
one that closes their listener, input connections one each; who is in the wait group and who
is not is the code's. What the services do meanwhile is `Feed`'s.

### CPR, CRC, ModeAC and Codecs

Pure functions, in exact integers: a latitude is in units that make both steps whole numbers
(`59 * 60 * Bins` to the quadrant), a longitude is a number of the steps of its parallel.
`cprNLFunction` has its table to 0.001 degrees. A syndrome is a set of bits, and parity
being linear the error alone decides it; `flagCollisions` looks for collisions the other way
round, from a syndrome to the errors, with the same result. A Mode A/C reply is the set of
its pulses. `Codecs` lets signals evolve: an aircraft moves between even and odd frames, one
bit after the other of a frame is inverted, a transponder climbs by the one pulse that means
a hundred feet more. The encoder (`Encoded`) is the transponder's and external.

## 3. Runs

| Run | Checks | Shows |
|---|---|---|
| `filter` | `TypeOK`, `TestExact`, `FuzzyComplete`, `Retained`, `Forgotten`, `RefusedOnlyWhenFull`, `RecentSpec` | three addresses in three slots, colliding in hash and low bits, a table that gets full: probing finds exactly what is stored; addresses are known for a TTL and gone after two; the tables implement two sets |
| `tracker` | `DataFresh`, `HeardRecently`, `PositionBacked`, `NoDowngrade` | two handlers overtaking each other and the sweep, on altitude, GNSS altitude and difference from two sources for one aircraft, and on even and odd frames of two sources, for all results of the geometry, for another: a position never outlives its frames |
| `tracker_modeac` | `TypeOK`, `HitsAreCurrent` | an aircraft that changes squawk and altitude and replies that match, in every map order: no hit is left over |
| `tracker_race` (violation) | `RemovedOnlyWhenOld` | an aircraft heard after the sweep read the clock is removed, its unsigned age being enormous |
| `fatsv` | `DetectsChanges`, `WrittenTwiceAtMost`, `PassedOverOnlyInRound`, `AgesOutBetweenLines` | sweep, clock, copy and marks with a handler in between everywhere |
| `beast` | `NothingLost`, `Recovers` | three frames out of eight kinds, cut anywhere, with and without Mode A/C, with reconnections |
| `feed` | `OpenIsRegistered`, `AllClosed`, `Unbroken`, `HeartbeatsEvery`, `KeptTillDeadline`, `DeadLeave`, `ShutsDown` | a reader that dials, reads with a deadline, and dials again, or other programs that come, stall, go and are back from the same address; a receiver that broadcasts, heartbeats, and a shutdown at any time |
| `feed_defaults` (violation) | `IdleKept` | with heartbeats as far apart as the reader's deadline is long, the defaults, an idle reader loses its connection |
| `housekeeping` | `EachCountedOnce`, `ReportNests`, `NextFollowsNewest`, `AdvertisedIsThere` | counting, rotating and reporting interleaved; snapshots, crashes at every step, restarts with lost files or another size |
| `receiver` | `OnlyHeard`, `CleanSquitterWins`, `HeardOnce`, `HeardUnlessAtSeam` | two transmissions anywhere in a stream that comes in reads of any length, every reading of each, a filter that learns and forgets |
| `server` | `DeviceReleased`, `EndsWhenTold` | every source of samples, every step of the device failing, signals at any time, servers and connections |
| `codecs` | `GlobalInverts`, `LocalInverts`, `NeverMisrepaired`, `HundredsClimb` | positions at and across all borders, up to four wrong bits in short and long frames, every altitude of the Gillham code |

### Bounds

No run bounds the clock of filter, tracker and FATSV: the VIEWs (`Relative`) replace times
by ages, capped above every limit the definitions compare an age with, message counts by 0,
1 or more, and leave out the counters that nothing reads; two states with the same view
have the same future up to a shift of time. Limits of time are scaled: a unit is some 30 s
in `MCTracker`, some 5 s in `MCFATSV`, and the order of the limits is that of the code where the
code tells them apart (stale before expired, one message before many); what is lost is only
how many events fit between two of them. `MaxLag` of one unit exaggerates the wait for a
lock by far, which makes all the orders possible that a short wait makes.

* **filter**: three slots let a probe start before, at and after the address, wrap around,
  and fail in a full table; an address takes two slots.
* **tracker**: two aircraft, of which one reports altitudes and the other frames, and one is
  on the list at a time (`OneAircraft`): records are independent except for the matching of
  replies, which **tracker_modeac** has, with two replies. Two handlers are enough to overtake
  each other, the sweep being a third. **tracker_race** needs one handler's report and the
  sweep.
* **fatsv**: records are independent, each having its own marks; one handler does for what
  comes between two steps of the writer. Values are fresh for 4 units and lines at most 6
  apart, as 15 s and 30 s, so that values age out between lines; reports are of 300 and of
  20000 ft and of being on the ground, which have the shortest, the longest and no least
  time between lines. Both properties fail in this run if one of the cases they name is left
  out, or a period less is allowed. It has 721,171 states.
* **beast**: `Recovers` is about a damaged frame, one plain frame that is longer than any
  body and the next one; runs of several plain frames would need a fourth frame and are left
  to the proof. Two bytes of a body stand for the seven before the message. Broken frames go
  on over a whole frame that follows. The program's crash is a state of the model, and
  `NothingLost` says that it takes damage to get there.
* **feed**: two connections, so that an address can be back while its old connection is
  being deleted; a broadcaster and the heartbeats, so that two goroutines give up the same
  client at once; room for one frame, so that the second fills the socket. A heartbeat's
  interval of one period and a deadline of one are equal as the defaults are (60 s both), with
  which `IdleKept` fails; what `KeptTillDeadline` says of longer deadlines is left to the
  proof. An execution has either the reader or the other programs (`Casts`), and
  **feed_defaults** the reader alone. Everything may have ended, so deadlock is not checked.
* **housekeeping**: a ring of three windows, an aggregate of two; sums across the end of the
  ring, and a report that one rotation falls into (`Patience`). Rings of two and three slots
  with five snapshots go round, and round again after a crash. `Bound` explores either the
  statistics or the history, which only share the goroutine, and one report at a time, for
  they only read.
* **receiver**: buffers of eight new samples and an overlap of four, windows of three, two
  and one, so that a window fits into the overlap but not behind it, as 287 into 300; reads
  of 3, 5 and 8 fill a buffer in one, two or more; one address besides 0. Two transmissions,
  since the skip after one decides about the next. `Bound` explores seams and trust one at a
  time. The stream ends, so deadlock is not checked.
* **server**: the first and last of the nine steps of a configuration and all in between;
  a server of each kind, one connection, two signals (the second is the one the code
  ignores). The process ends, so deadlock is not checked.
* **codecs**: `Bins` is 256 for 2^17 (the relation of rounding and zones is the same, the
  margin larger); eight latitudes and five longitudes at equator, zone borders, transition
  latitudes, near the poles and at the antimeridian, 24 receivers around them; for positions
  the theorems do without these bounds. Eight bits
  of a short and of a long frame may be wrong, chosen so that syndromes of two, three and
  four collide; all 112 are taken into account when an error is looked up. Signals end, so
  deadlock is not checked.

### Time and fairness

That something happens in time is stated with the clock where the code has a limit
(`Forgotten`, `HeardRecently`, `DataFresh`, `HeartbeatsEvery`), on assumptions that the `Tick`
actions spell out: the periodic task runs at least every `Period` (a ticker; one second),
nobody waits for a lock longer than `MaxLag` (the critical sections are loops over memory; in
`FATSV`, that and two periods are less than the 15 s for which a value may be written),
the wall clock does not go backwards, and a write ends at its deadline. `LoopEnds` gives the
measure that makes the parsing loop end; it is proved and needs no run.

`DeadLeave`, `ShutsDown` and `EndsWhenTold` are liveness properties. Weak fairness is that
of goroutines that can go on: broadcasters, acceptor, the closers of listeners, readers,
`main`, file reads. Strong fairness is needed in three places: `select` in the periodic
task chooses at random between a tick and the cancellation, so that either is taken if it is
there again and again; time passes between the steps of others; and a read of librtlsdr that
was cancelled returns although it may call back now and then before. Nothing obliges a
peer to read, a client to dial, a signal to come or stdin to say anything.

## 4. Proofs

TLAPS proves for every value of the constants, under the assumptions named `...Assumption`
in the modules (types; limits that are positive, waits shorter than limits, no wrap-around
within `WordSize`; windows that fit into the overlap; replies that decode alike if their
addresses are alike; positions on the globe, and moves that a pair of frames can tell apart):

* `ICAOFilterProofs`: `TypeCorrect`, `TestIsExact`, `FuzzyIsComplete`, `AddressesRetained`,
  `AddressesForgotten`, `RefusedAtHalf` and the refinement `ImplementsRecent`. The inductive
  invariant adds to the types that every entry is *reachable*: there is no empty slot on the
  probe sequence from its hash (nor an entry with its low bits missing from that of its low
  bits) up to it (`Chain`, `LowChain`); that clock readings, flips and the clock are ordered
  and near each other (`TimesOrdered`); and in which table an address heard since the last
  flip, or before, is (`HeardWhere`). Reachability is needed because `TestExact` says
  nothing about the slots in between; that an insertion keeps chains is the core lemma
  (`AddKeepsReachable`). That an insertion is refused only by a filter at least half full of
  addresses heard lately takes counting: no address is in three slots of a table
  (`TwoSlotsEach`), so that the slots map one to one into addresses and the numbers 1, 2.
* `TrackerProofs`: `TypeCorrect`, `DataStaysFresh`, `SilentAircraftLeave`, `TrustIsKept`,
  `PositionsRestOnFrames`, `HitsStayCurrent`.
  The inductive invariant (`IInv`) adds that pending clock readings are recent
  (`ReadingsRecent`) and that records are `Timely`: no datum was born long before the
  `updated` of its validity, stale does not come after expires, and what the last sweep
  left had not expired at its reading. `DataFresh` alone is not inductive, since it says
  nothing about when the sweep will remove a datum. `TrustIsKept` is proved per handler
  (`StoreAsGood`, `ReplyAsGood`, `ExpiredAsGood`) from the invariant. `PositionBacked` needs
  `BackedBy`: a position that is there expires no later than some frame that is there, or
  within `MaxLag` (it is dated by the reading of the handler that decoded it).
  `HitsAreCurrent` is proved under a hypothesis of its own, `AddressesApart`: no message
  comes from an address that `ModeACToICAOAddr` makes for replies. The code does not
  guarantee it, since a TIS-B target may report a non-ICAO address of the same 24 bits
  (`decoder.go:446`, `mode_ac.go:172`); then a message could change the squawk of the
  record that another aircraft was matched with.
  `HitInv` adds that the records of replies, and no others, are marked as such and have the
  codes that come with their addresses.
* `TrackerProofs` on `FATSV`: `OutputRefinesTracker` (tracker and writer, composed, do what
  the tracker alone may do, so that the tracker's theorems hold of them), `ChangesDetected`,
  `TwiceAtMost`, `PassingOverIsBounded`. `FATSVInv` says that the tracker is not swept
  within a round, so that what is to be marked is still there (`StageInv`); that no datum is
  dated after the clock, and no mark after the round (`DatesInv`); that a line not yet
  marked holds the values shown (`ShownInv`); that a datum written twice was in the last
  line and not dated after it (`TwiceInv`); and that what a line lacks, fresh as it is, came
  after the copies were taken (`LateInv`). A value that a handler stores after the mark is
  covered by what the tracker's own invariant says of clock readings (`ReadingsRecent`). The
  properties say nothing of a round under way, which is where they would break first.
* `BeastProofs`: `NothingIsLost`, `RecoversAlways`, `LoopAlwaysEnds`, for all frames,
  lengths of bodies, sizes of buffers and places where reads cut the stream, provided that a
  frame without escape bytes fits into the buffer. `NothingLost` compares what was handled
  with what was sent and does not say where in the stream the decoder is. `BeastInv` does:
  buffer and wire are the end of the stream (`StreamInv`); for some j the first j frames,
  and no others, have been handled, and no escape byte lies between the beginning of the
  buffer and the end of the j-th frame, if that is further on (`HandledInv`); a frame of
  which only a part has been read was cut (`CutInv`); and while the loop reads, nothing more
  is to be found in the buffer (`RestInv`). The core lemmas are what the decoder makes of a
  whole frame (`WholeFrame`, from `UnescapeFrame`: taking escapes out undoes putting them
  in), of a part of one (`PartOfFrame`), and where the loop goes on after an error
  (`FailsBefore`, `FailsAt`).

  `Recovers` has no hypothesis, and the decoder may take anything for a message while it is
  astray. What bounds the damage is length: a frame is an escape byte, a type and a body of a
  length that the type gives, so what the decoder reads from before a run of frames without
  escape bytes that are longer together than any body ends within that run, at an escape byte
  that begins one of its frames (`ParseNotOver`, from `AstrayNotOver`; `RunEnds`). `Crosses`:
  no step passes the end of such a run without stopping at the end of a frame, or where no
  escape byte lies before one. `RecoveryInv` adds to `BeastInv`, for each run that no damage
  follows: either the decoder has not come to its end (it may be anywhere, and have handled
  anything), or it is between two frames and has handled last what those after the run carry
  (`RecoveredInv`). That the decoder is at rest includes that it has not crashed,
  which it may where damage led it astray (section 5).
* `FeedProofs`: `NobodyForgotten`, `NothingLeftOpen`, `NoFrameMissed`, `HeartbeatsInTime`,
  for any number of connections, addresses and broadcasters. `IInv` says of every connection
  whom it is known to: the map's entries and whatever a goroutine holds of them carry the
  connection in their ID (`TypeInv`), so that nobody deletes the entry of another
  connection; what is referred to is not a new connection (`RefsUsed`); who is about to
  delete has closed (`DeletingClosed`); the connection about to be added is not in the map
  yet (`AddingFresh`); after the acceptor's last look at the map nothing is added
  (`EndsLast`); and a frame owed to an open connection is on the list of a broadcast under
  way (`GotInv`). `Unbroken` alone does not say why a frame still owed will be paid.
  `KeptTillDeadline` is proved for every interval and deadline; it says what is left of
  `IdleKept` with the defaults. `ReaderInv` says that the connection a reader has is its
  own; `HeartbeatInv` that, until the shutdown, nobody gives up a prompt reader's
  connection, that it has waited no longer than nothing was written, and that this is the
  interval at most, or one period more while a heartbeat to it is under way.
* `HousekeepingProofs`: `GoesOnAfterNewest`, `AdvertisedStaysThere`, `CountedOnce`,
  `ReportsNest`. `NewestInv` says what holds while the slot is
  full and the index not yet advanced; the rest is that the files that are there have a
  newest (`NewestIsNewest`), from the well-foundedness of the numbers, whatever is missing.
  `AdvertisedIsThere` needs `RingInv`: while no write has failed, the filled slots are a
  rotation of increasing snapshots, and memory and disk agree but for the slot being
  written. The other two are about sums over
  windows; the laws of `Total` (taking a window in, changing one, leaving one out) come
  from its recursive definition by induction over the number of windows, see below.
* `ReceiverProofs`: `AnnouncedOnly`, `CleanWins`, `DemodulatedOnce`, `LostOnlyAtSeams`, for
  all sizes of reads, overlaps and windows. `AnnouncedOnly` exempts the address 0, and says
  how far what `Test(0)` does goes: 0 may be believed but gets nothing into the filter. The
  first two follow from lemmas on `Score` and `Best` (`BestIsBest`, `DecisionIsBacked`,
  `CleanIsBest`) and `TrustInv`. The others need `ScanInv`: what the buffer holds of the
  stream (`DataInv`), that a transmission was looked at once if it lies behind the scan's
  frontier and not at all before it (`OnceInv`), and at least once, or at a seam, behind
  (`CoverInv`). The core lemmas are `Located` (where in the buffer the samples of a
  transmission are) and `MeetScan`.
* `ServerProofs`: `DeviceGivenBack`. `IInv` adds to `DeviceReleased` that the library calls
  back only within a read, reads only an open device (`ReadsOpen`), does not read before
  `main` waits for it (`ReadsAfterStart`), and that other sources leave the device alone
  (`SourceKept`).
* `CodecsProofs`: `LocalInvertsAlways` and `GlobalInvertsAlways`, for every number of values
  of a coordinate (`Bins`), every flight and every reference. `FlightInv` says of a flight
  that each frame under way was sent where the aircraft is, or one move before, and that
  frames of the same age come from one place; the rest is about the decoders. A frame has
  the remainder of a number of steps, and decoding finds the index that it left out. With
  one frame the index is a rounded quotient (`ZoneIs`), which a reference less than half a
  zone away determines (`ZoneFound`); the shorter way round the circle (`Way`) settles the
  antimeridian. With two frames `IndexOf` is the core: where there are c + 1 zones for one
  and c for the other, and the steps m and k differ so little that m * c and k * (c + 1) are
  less than half of `Bins` apart (`Neighbours`), the rounded combination of the remainders
  is the index but for whole circles, in latitude (c is 59) as in longitude (c depends on
  the latitude, and the more zones the harder: `FewerZones`). That frames are so near
  follows from `Pairable`, the assumption on moves, and takes the rounding of both into
  account (`NearLatitudes`, `NearLongitudes`). Whole circles go when latitudes are cut
  (`AirborneLatIs`), when the reference tells the quarter (`SurfaceLatIs`, `SurfaceLonIs`),
  and when longitudes are renormalized (`Renormal`). `Pairable` is the range of the time
  limits in `updatePosition`: 3 nautical miles within 10 s in the air and .75 within 25 or
  50 s on the ground, and of longitude the same angle as at the equator, at every latitude.
  The number of zones enters only as a function of the latitude with values from 1 to 59
  (`Zones`): nothing depends on the table.

Sums are defined by recursion over a number (`Sums` in `Stats`), and so are the escapes taken
out of a frame and the stream that frames make (`FlattenSeq`). The library's induction
principles take an operator as parameter, which no prover instantiates; but a set of numbers
that holds all below the least one it lacks can be argued about: `Least` proves that a
non-empty set of numbers has a least element, `Climbs` that a set with 0 and with every
successor of its elements is `Nat`, and `SumsUnfold`, `FlattenUnfold` and `UnescapeUnfold`
that the recursive definitions have solutions.

Only model-checked: `AgesOutBetweenLines`, `HeartbeatsEvery`, `NeverMisrepaired` and
`HundredsClimb`. The first is about when the periodic task comes round again, over two
rounds; the second is in `HeartbeatInv` for prompt readers only. `NeverMisrepaired` depends
on which syndromes collide, which is computed and not argued; `HundredsClimb` has no
parameter, so that the run covers it completely. Every other invariant and action property
of a passing run is stated by a theorem. Out of the provers' reach are ENABLED and liveness
(`DeadLeave`, `ShutsDown`, `EndsWhenTold`). That the filter within `Receiver` is
`RecentAddresses` needs no theorem: `Receiver` takes it by INSTANCE, and `ICAOFilterProofs`
shows that the table implements it.

## 5. What the checks found

Two disagreements of code and comment are recorded as findings, each with a run that TLC
ends with a counterexample, and a property that says what the comment says:

* `tracker_race` (`track.go:464`): a record leaves the map although it was heard just now.
* `feed_defaults` (`network.go:98`): heartbeat interval and read deadline are both 60 s, so that
  a client with nothing to read times out and dials again, though no write failed.

The others were met while the models were written, are in the models as the code has them,
and have no run of their own. A property that one of them would break names the case as its
exception:

* Hits: a reply is marked as matched with both (`MODES_HIT`) by counts that outlive the replies
  they count, so with an aircraft that has one hit only; the comment at `track.go:424` asks for
  both. The sweep clears the flags (`HitsAreCurrent`) and not the counts.
* Panic: after an error the Beast loop does not just search on, as `protocol_beast.go:70` has
  it; a short message with the format of a long one makes `ModesChecksum` index beyond its end
  (`crc.go:89`), and nothing recovers. It takes a decoder that is astray in a frame with escape
  bytes in its body (`Panics`; `NothingLost` says that it takes damage, `Recovers` exempts it).
* Filter: `Test(0)` is true of any filter with an empty slot (`icao_filter.go:113`), against its
  comment (`:99`), and a reply with parity 0 is believed. `OnlyHeard` exempts the address 0.
* Seam: the scan stops 287 positions before the end of a buffer but the overlap, which by
  `main.go:96` must cover the longest message, carries only what is behind them, so that a
  message that begins in the last 287 positions before a seam (100 for Mode A/C) is never
  found. `HeardUnlessAtSeam` has this stretch as its exception (`AtSeam`).
* Cancellation: a signal between the start of the reading goroutine and the library's first
  read cancels nothing, though `rtlsdr.go:490` says that it ends the read, and `Close` waits for
  ever. `EndsWhenTold` exempts it (`CancelLost`).
* Tracker: `AltitudeModeC` is computed from the previous altitude (`track.go:226`); a GNSS
  altitude derived from an expired barometric one counts as fresh (`track.go:317`); which
  reply's count an aircraft is left with depends on the order of a map (`track.go:504`); a
  CPR frame that `acceptData` rejects still moves the position, under the better source's
  name (`track.go:797`); records of Mode A/C count as single-message aircraft, not as unique
  ones.
* FATSV: a datum dated between the writer's clock and its copy is written twice
  (`fatsv.go:145`, `157`); one that comes while a round is written may be passed over
  (`PassedOverOnlyInRound`), and one that waits longer than 15 s for a line, which may be 30 s
  from the last, ages out (`fatsv.go:239`, `435`; `AgesOutBetweenLines`).
* Beast: a frame with an escape byte in its body is lost when a read ends in it
  (`main.go:913`), and frames after it up to the length of a body may go with it, or be read as
  messages nobody sent: a parity that is an address protects nothing without a filter.
* Services: after a write that failed half-way another goroutine may write before the
  connection is closed. A client that drains just in time is never removed and holds up
  every broadcast for up to 100 ms.
* Statistics: the window in progress and the last 15 minutes of one report may together
  exceed its total, when the windows rotate between its reads. Local CPR
  decoding that fails for range or speed is counted twice.
* History: a `receiver.json` that could not be written is not tried again once the ring is
  full. After a restart with holes, or with another size, the count is not the number of
  slots from 0 on, as the comment at `json_writer.go:570` has it.
* Demodulator: reads
  shorter than the overlap do not refresh it, and their transmissions are demodulated twice
  (`short`). The tail of a file is not scanned.
* Decoder: `correctAAField` flips bits 0 to 23 and not 8 to 31, so that the score of a
  repaired squitter is that of an address it does not have. With a nil filter (network)
  replies with an address as parity are always accepted and Comm-B ones never. A clean
  all-call reply of an unknown aircraft may lose to a misreading that hits a known address.
* Device: the library may be entered with a handle just freed (`Dangling`). A
  silent stdin keeps the process, whatever the signals (`Silent`).
* Codecs: local decoding across the antimeridian fails or gives a longitude below -180. On the
  ground a reference less than half a step of longitude short of 45 degrees away may give the
  wrong quarter of the circle, since the nearest position that the frame expresses may be beyond
  (`GlobalInverts` has the exact limit). Three
  wrong bits of an all-call reply may be repaired into another one, which only the filter
  guards against; `NeverMisrepaired` is about the others.

## 6. Plan

1. FATSV events (`CheckAndMarkFATSVEvent` against the order of broadcasts) and SBS lines
   made from the live record that `UpdateFromMessage` returns.
2. AVR lines across reads.

## 7. Not modelled

The signal arithmetic of the demodulator and the conversion of samples (which positions
correlate is a choice instead); the bit fields that `decoder.go` copies out of a message
(no state, no condition) and `decodeMovementField`, a table; AVR and SBS (lines of text: the
framing is a split, the rest is formatting); terminal, HTTP files, flags and
configuration (layout and I/O); librtlsdr, sockets and the file system, which are modelled
from how the code uses them, as PROJECT.json marks.
