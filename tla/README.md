# Servo Assistant: verification development

Servo Assistant is a Tauri program: a Rust backend (`src/src-tauri/src`) that
talks to servo drives over Modbus RTU, ASCII and TCP and over EtherCAT, records
what it says and hears, and a Vue frontend. These TLA+ modules model the parts
whose correctness depends on the order in which things happen: who may use the
link, what may be written to a drive and what the audit trail says of it, what a
recording may be trusted for, and what the EtherCAT master (the C library SOEM,
compiled into the program) makes of frames and messages that are lost, late,
repeated or refused.

## The system

| Part | State it keeps | Operations | Talks to | What is hard |
|---|---|---|---|---|
| Link gate (`runtime.rs`, `discovery.rs`, `scan.rs`) | the mutex `inner` over session, profile and settings; two atomic flags with their cancel flags and leases | every command through `with_runtime`; `discover_device`, `scan_registers` and their cancellations | the drive, the recorder, the audit store | flags and a mutex taken at different moments, leases given back on every path, cancellation |
| Device writes (`runtime.rs`, `audit.rs`) | nothing between commands but the audit database; the device's registers | `write_parameter`, `batch_write_parameters`, `apply_parameters`, `persist_parameters` | link clients, SQLite | lost answers, values that change, a failing log, a crash between write and record |
| Recorder (`recording.rs`) | run slot, status, queue, worker, trigger ring, volumes, summary | `emit_at`, `start_run`, `stop`, the worker, `finish_recording`, readers' warnings | every producer; the file system | a full queue, disk errors, a trigger's deadline, crash, stop and start joins |
| Recording context (`recording.rs`, its owners) | one JSON object | `set_context`, the snapshot in `session.json` | runtime, EtherCAT master, library | snapshot and emission under different locks |
| Serial and TCP clients (`modbus.rs`, `modbus_tcp.rs`, `recorded_port.rs`) | statistics, transaction number, bytes in flight | FC03 with retries, FC06 without | the wire | late answers, retries, a stream out of step |
| Network capture (`network_capture.rs`) | run slot, status | start, stop, worker | Npcap, the recorder | a worker that dies or cannot open |
| EtherCAT master (`master.rs`, `native/bridge.c`) | one mutex over native handle, profile, status | connect, disconnect, read, verified write, diagnostics | SOEM, recorder, audit store | unknown write outcome, callbacks from native code |
| EtherCAT frames and ports (`nicdrv.c`, `ethercatbase.c`) | indices, transmit and receive buffers of two ports | one primitive for each command, `srconfirm` with its repeats | the wire | late answers, an index in use again, a ring that breaks |
| EtherCAT start-up (`ethercatconfig.c`, `ethercatmain.c`, `ethercatdc.c`) | the list of slaves, a cache of one EEPROM | `config_init`, EEPROM access, `readstate`, `configdc` | frames | half-failed reads kept as content, a topology found from the numbers of links alone |
| EtherCAT mailbox (`ethercatmain.c`, `ethercatcoe.c`, `ethercatfoe.c`, `ethercatsoe.c`, `ethercateoe.c`) | a counter for each slave, one receive buffer for each call | send, receive with repeats, objects, dictionary, files, parameters, Ethernet | frames | a request executed twice, an answer that is another one's, a transfer that is not whole |
| EtherCAT process data (`ethercatconfig.c`, `ethercatmain.c`) | the process image, segments, a stack of indices | `config_map`, `send_processdata`, `receive_processdata` | frames | bits that share bytes, segments, the meaning of the working counter |
| Recording index and analysis (`recording_index.rs`, `recording_analysis.rs`) | an SQLite cache for each session | synchronise, search, derive transactions | session files | files that grow or change under it |
| Read plans, profile, conversion (`profile.rs`, `discovery.rs`, `scan.rs`) | none | pure functions | - | boundaries of 16-bit addresses, grouping |
| Offline captures and decoders (`pcap_file.rs`, `capture_index.rs`, `modbus_decode.rs`, `ethercat.rs`) | a derived cache | parse | files | malformed input |
| Interface (`useServo.ts`, views) | `busy`, timers, page versions | all commands | Tauri commands | late answers, polls against operations |

PROJECT.json lists every part with its status, and every hazard at its line.

## Modules

### LinkOwnership, LinkOwnershipProofs

Each Tauri command in progress is a task; `pc` is where it is. An operation
passes `OpBegin`, `OpScanFlag` (the two looks before the mutex), `OpLock`,
`OpCheckDiscovery`, `OpCheckScan` (the two looks under it), and then one of
`ImportProfile`, `ConnectDevice`, `DisconnectDevice`, `ConfigureCommunication`,
`OperationRefused`, or a transaction on the wire. A discovery (`Discover...`)
and a scan (`Scan...`) follow the functions of the same name statement by
statement as far as flags, mutex, client handles and early returns go. One
atomic access is one step; a block under the mutex is one step unless it reads
an atomic or waits for the wire. `running` and `cancel` are the atomics,
`inner` the mutex's holder, `handle` the clients discovery and scan open for
themselves, `left` what they still have to try; `asked` is history.

* `OneMaster`: a device session, a discovery client and a scan client never
  exist together. The scan reads *without* the mutex, so this rests on every
  command looking at the flags again under the mutex.
* `FlagTracksTask`: a flag is up exactly while one task runs under it.
* `DeviceConsistent`: client settings follow the settings in force, and the
  recorder has been told of the session and profile in force.
* `ProfileKeptWhileUsed` (action property): nobody exchanges the profile under
  a session or a working discovery.
* `LinkGivenBack` (liveness): a raised flag comes down again. The mutex is
  unfair - a task may lose it as often as others ask for it - so fairness is one
  `WF` for each task's own steps (a spawned blocking worker is scheduled, a
  transaction ends within its time-out) and nothing stronger. It holds because
  newcomers are turned away by the flag before they reach the mutex.
* `CancelStopsScan` is violated (run `link_cancel`): a cancellation between the
  claim of the flag and the reset of the cancel flag is erased.

Bounds: three tasks (an operation, a discovery and a scan, or two of a kind and
one other), two profiles, two settings, one probe. More tasks add no new pair of
stages; the theorems below remove the bounds.
Safety and liveness are one run, without symmetry.

### DeviceWrites and WriteLedger

One command is under way (the gate above sees to that): it reads, compares,
records its attempt, writes, reads back, records the item, and ends. A device
transaction may be lost before or after the device acted, any append to the
audit database may fail, other masters write registers at any time
(`ForeignWrite`), and the program may die between any two steps (`Crash`).
`sent` and `trail` are what reached the wire and the database; `verified` is
history. What fails before anything is touched (phrases, ranges, access) is left
out. A plan is a sequence of items: `Begin` takes any well-formed one.

* `WritesAreDue`: items go in order, each once, the next only after the one before
  was verified and recorded; one stale value stops the whole batch.
* `HonestOutcome`: what the trail and the answer call complete was verified, and a
  partial batch is never taken for a whole one.
* `TrailTellsAll`: nothing is sent before the attempt is durable, and an answered
  command that sent something has its outcome in the trail, once and last, unless
  the trail itself failed.
* `FreshSuccess`: an apply or persist called a success was carried out after it was
  sent, provided the device owed that success to nothing else. The device takes
  a command and carries it out when it will, with or without touching its status register
  before; others may send it commands, and one whose caller gave up may end later
  (`backlog`). `execute_operation` sends without a look at the register and takes the first
  matching value (runtime.rs:1675-1679), so that a success shown before, or due to an earlier
  or foreign command, confirms the next one: `fresh` excludes just these, and
  docs/snapshots-and-audit.md:34 promises no more than that the success status was read.
* `CommandEnds` (liveness, `WF` of the command's own steps).
* `WritesAreLicensed`: refinement of `WriteLedger`, which says that each
  register the program writes was announced first, is written once and in order.
* `LoggingDoesNotUndo` is violated (run `write_logging`): a verified write whose
  success cannot be logged is answered with an error.

Bounds: two parameters, two values, two items, and of the status register the success of
apply, that of persist and one other. An item can fail first, in the
middle (before another) or last; values can be stale, current or changed between. The
backlog is a set of operations: a second apply still due would show nothing new.

### Recorder

`Emit` is `emit_at`, one step because it holds both locks; `StartBegin`,
`StartFails`/`StartRun`, `StopBegin`, `StopEnd` are start and stop around their
joins; the worker's loop is `DrainRing`, `Receive` (which holds a record back
with `Watch` while the trigger is armed, or `Deliver`s it), `Timeout`, the end of a trigger's
window (`CloseSession`, then `SortQueue`, one record a step, and `SortEnds`), `LoopEnds`,
`LastFlush`; `FinishRecording` and `SaveSummary` end it. `file`
is what was handed to the buffered writer, `stored` how much of it the system
has. Sizes and clocks are nondeterministic: limits are reached, volumes fill
and windows end whenever; `cutoff` is the last record inside the window.
`gone` and `fault` are history.

* `SilenceMeansWhole`: a session the readers do not warn about has every record on
  disk, once, but for those the trigger discarded, through overflow, disk
  errors and crashes.
* `WrittenSurvives`: what the status calls written survives a crash of the program.
* `AcceptedAccounted`: without an error, accepted = written + discarded.
* `FaultWindowKept`, `OrderKept`: the trigger discards nothing inside its window;
  the order in the volumes is the order of events, context snapshots excepted.
* `NothingHangs` (liveness): start and stop return, and the window of a trigger
  closes without further traffic. Fairness: the worker is scheduled (its wait is
  bounded by 250 ms), a join that can return does, time passes. File errors are never
  forced by fairness.

Bounds: four records, a queue of two, a flush every two. That is enough for a
record before the fault, the fault, one inside and one outside the window, for
an overflow, and for unflushed and flushed records at every failure.

### RecordingContext

`set_context` in its two steps, for concurrent owners. `DecodedAsConfigured` is violated
(run `recording_context`): the older of two snapshots may come last.
Bounds: two owners, two versions, four snapshots.

### ModbusTcp and RegisterLink

`RegisterLink` is what `DeviceWrites` takes a register transaction to be: a write is
carried out at most once and before it is acknowledged, a value read is of the time
of the read, and an error says nothing - the write may even happen later, which
`DeviceWrites` covers by its foreign writes. `ModbusTcp` is the client that must keep this
promise: `Call`, `Send`, `ReadHeader`, `ReadBody`, `ReadFails` (time-out or end of
stream), `ReadBreaks` (reset), `DrainReads`, `DrainEnds` are the steps of
`read_transaction`, `write_single_register`, `exchange` and `drain`; the drive answers
late or not at all, and the network delivers in pieces. An answer has the value, is refused
for what it says (an exception, an echo of something else), or does not fit: with the right number
it has another unit, protocol or length, and is refused by its header while its body stays in the
stream. Sending may time out, too; part of a frame is then taken for no request. The
stream is kept byte for byte, for a read that times out has taken what was there, and
the next header is then read from the middle of a frame.

* `KeepsPromise`: refinement of `RegisterLink`.
* `LeavesNothing`: a call answered in time leaves the stream in step, also when the answer
  is an exception or is refused for what it says. An answer refused by its header
  (modbus_tcp.rs:208-221) is not among these: its body meets the next call, and `KeepsPromise` shows
  that this call fails, or reads on, but accepts nothing wrong.
* `CallEndsWhileOpen` (liveness; `WF` of the client's steps, whose waits have a
  time-out).
* `RetryFollows` is violated (run `tcp_peer_closes`): at the end of a stream `drain` never ends.
  The client then keeps the link's mutex; that a transaction ends, which `LinkGivenBack` and
  `CommandEnds` take from their clients, is thus assumed of peers that keep the connection.

Assumed: a frame sent in part is not carried out, register data never imitates a header with the right number and unit, and no
answer is held up for a whole turn of the 65536 transaction numbers (`NumbersFree`).
Bounds: four exchanges (two to four calls, one retry), numbers that wrap after three,
two values, deliveries of nine bytes or of everything. Nine bytes cut every frame in header or
body. A stream that is out of step fails every later call: nothing wrong is accepted,
but the connection has to be opened again.

### EcFrame and EcPort

`EcFrame` is a frame of datagrams (`ethercatbase.c`): what each primitive puts in it, and
which slaves processed it. `EcPort` is `nicdrv.c` with callers that run side by side:
`GetIndex` under one mutex, sending, reading under the other (a frame read for another
caller is left in its buffer), the wait and the repeats of `srconfirm`, and the second
port of a redundant ring with its dummies and its frames sent on round the other way.
Frames are lost, cut, late; the ring breaks anywhere.

* `AnswerIsOwn`: what counts as an answer answers the caller's own datagram.
* `IndexHeldOnce`: an index belongs to one call at a time.
* `CutIsBridged`: with the second port, one break of the ring loses no slave.

Bounds (`EcPort.cfg`): two callers, three indices, four calls, two sends for each, one fault,
two slaves, the frame with two datagrams (LRW and the clock's). Assumed: a frame is gone
from the wire before its index comes round again (`Young`, `Turn`: sixteen indices, and a
time-out far above the ring's delay), and the ring breaks only where a second port is
(without it a break is a lost frame). The application serialises its calls by
one Rust mutex, so concurrent callers are those of the library's other users.

What the code does that a reader might not expect: with the second port a late dummy can be
taken for the answer that went round the other way (the application never opens one);
`srconfirm` repeats only when no frame came, not on a working counter of 0 as its comment
says (nicdrv.c:573-576); when all indices are in use one is handed out that is; a
datagram that is sent again may be executed twice.

### EcMailbox, EcCoe, EcTransfer, EcEthernet, MCEcTransfer

`EcMailbox` is `mbxsend` and `mbxreceive` as a machine of small steps (`link`), and the slave's
mailbox as their protocol takes it to be: a request is executed when its counter differs
from the last one's, a message is repeated when the repeat bit is toggled. `EcCoe` puts the
calls of `ethercatcoe.c` on it (expedited and segmented transfers, complete access, the
dictionary, emergencies, aborts) and the verified write of `master.rs`; `EcTransfer` files (FoE) and servo
parameters (SoE); `EcEthernet` Ethernet frames (EoE) in fragments, with the slave's own
traffic. A value is its number of parts; each part says of which value it is.

* `ExecutedOnce`: no request is executed twice, though the link layer writes one again when
  it does not know whether it arrived. Also proved, below.
* `UploadWhole`: what a read returns is one value, in order, without a part of another.
* `DictionaryIsOwn`: while nothing was lost, a list of objects is whole and in order, or is as much
  of its beginning as the master has room for, and a description is of the object asked about. The
  code cuts a list longer than `EC_MAXODLIST` (ethercatcoe.c:1070-1080, `ListRoom`) and reads at most 129
  fragments; either way the call succeeds, and only the list of errors tells.
* `VerifiedIsApplied`: a write the application calls verified holds on the slave, whatever of its
  own three calls was lost, late, repeated or taken for another's.
* `ExchangeWhole`: a file, a parameter, an address or an Ethernet frame is transferred whole. A file
  that is read is so when both mailboxes are of one size: the code compares what came from one with the
  length of the other (ethercatfoe.c:90,131), so that with unequal ones a read may end behind a
  full packet and report success. Then only the order of what was read is shown.
* `EthernetTypeOK`: the types of the calls, of every message under way and of the slave.

The first four are also proved, below. All but frames and `ExecutedOnce` ask that nothing of an earlier call was under way
when the call made its first request (`Clear`, remembered in `clear`: no request in SM0, nothing
in SM1 or behind it, no repeat the slave has still to serve). A verified write asks it once, of its first
read (`calm`); what its own read and write leave behind for the read-back is no exception. The code does not see to that: before
it asks, a call reads SM1 once and looks no further. Without the condition each of them fails, as runs with
longer plans showed. A read that gave up leaves a request whose answer is the next read's: with late answers and one refusal, but
nothing lost, earlier reads and writes of an object of one part leave an old answer behind for the read-back
of a verified write, which then reports success over a slave that holds the old value. Four losses make a long read of parts of two values. A repeat still to be served gives the
second of two lists, or of two files, the first one's last message: one list is short, one file wrong.

Bounds (`EcCoe.cfg`): mailbox counters up to 3 (7 in the code), one lost exchange, one
unasked message or refusal, two objects of one and of three parts, two values, buffers of one
to three parts, room for a list of two, mailboxes of one or two units, equal and unequal, twenty-two plans of one to three
calls, two frames from the slave's network. Three parts are a first, a middle and
a last segment, and more than the list's room; three counters wrap within a plan.

The conditions in the last properties are the code's: after a loss, the answer to a dictionary
request can be another request's, because only the service is compared; a stale packet of one
part passes for another file's; SoE fragments carry no number, so a repeated one goes
unnoticed, and a parameter longer than the buffer is cut silently; `EOErecv` does not look at
the type of a frame, so that a late answer to an address request passes for an empty one, and
`EOEreadfragment` reports a frame that did not fit. Excluded by name: a file write that
is answered BUSY ends its loop and reports success with the file cut short
(ethercatfoe.c:306; its comment says that it is sent again). Further: a write does not check
the answer's command and toggle, and the read-back of the verified write covers that;
`sa_od_entries` (bridge.c:195) numbers entries without the refused ones.

### EcSii, EcStartup, EcClocks, MCEcStartup

`EcSii` reads names, sync managers, FMMUs and PDOs from an EEPROM's bytes. `EcStartup` is
`ethercat_connect`, `ecx_config_init` in its passes over the slaves (each takes the word asked
for in the one before), `statecheck`, `readstate`, and the devices: their EEPROM interface,
addresses and states. Each exchange may be lost on the way or on the way back.
`EcClocks` adds `ecx_configdc`, for a caller who configures clocks: one step for each slave.
Times are what a frame in the given tree would have latched, in registers that turn over.

* `KnownAsItIs`: each slave is known by what its own EEPROM says, unless an exchange failed
  that nothing repeats, with it or with a twin that it is copied from. `spoiled` is that history.
* `PlacesAreKnown`: the parent found from the numbers of links is the device it hangs on
  (`ParentIsTrees`), and in a ring in which every fork has a clock each clock is told the delay that a frame
  has to it (`DelaysAreTrue`), whichever slaves have none and whatever ports are used; a
  failed exchange or a clock that turns over spoils only the clock and those below.
* `EepromIsBack`: no device is sent to PRE-OP while the master holds its EEPROM, nor is the EEPROM
  taken again while the request stands, as long as fewer than three exchanges failed.

Bounds (`EcStartup.cfg`): rings of one or two devices with one or two faults, a fork of three
with one, all thirteen trees of five without; a cache of 208 bytes; one change of a ring. Clocks are
configured in the trees: any set of devices has one, with three ways to use the ports, at most one
clock turns over. Five devices are the least that hold a fork in a branch beside another branch.
Addresses of EEPROM sections wrap at 16 bits, as `ecx_siifind` reckons them; no image has a length that
leads back to a header passed, from where the search would never end (ethercatmain.c:422).
`EepromIsBack` has its condition from the code: the EEPROM is handed over with four tries, whose last
result is not looked at, and it is taken behind three broadcasts of INIT, none of which is repeated. So a second
connection that loses all three takes the EEPROM of a device still asked for PRE-OP. In
trees of devices entered by another port than port 0 the order of the slaves is another; they are left out.

What is excluded is what the code gets wrong: a branch of slaves without clocks that forks
consumes a port of its own fork in place of one of the clock above (ethercatdc.c:419-425; the
comment says "root parent"), and the clocks in the branches behind it get wrong delays
though they could be measured; a clock that turns from 2^31-1 to -2^31 while the frame is behind it hides its
entry port. Further: a counter of -1 passes for an answer after the last try; an EEPROM
that does not answer passes for one that is not busy; `readstate` ORs the states, so INIT and PRE-OP together
are told as BOOT for all (ethercatmain.c:771); one missing slave fails the refresh of all.

### EcMapping, EcProcess, MCEcProcess

`EcMapping` computes the map of `config_map` (group 0, with and without overlap): sizes by
the dictionary, by complete access or by the EEPROM, sync managers, FMMUs, bits that share a byte,
segments. `EcProcess` sends and receives over it: datagrams cut by the segments, LRW or LRD
and LWR, the stack of indices, slaves that tie logical bits to their memory.

* `CounterTells`: a working counter of the promised size proves that every device has the
  outputs of this cycle and that its inputs of this cycle lie where the caller looks,
  whatever frames or FMMU settings were lost; and a cycle without loss brings that counter.

Bounds (`EcProcess.cfg`): eighteen maps of one to four devices of bits and bytes, segments of three
bytes, a stack of two, two cycles, one change of inputs, one loss. Conditions that are the code's: a
slave whose bits straddle two segments is counted twice, so that the counter may be reached
with another slave missing; more datagrams than the stack holds are dropped silently; a slave
with two FMMUs of a direction counts once and is expected twice; an overlapping map without LRW
reads at the wrong address. The application stays in PRE-OP and calls none of this yet
(docs/expansion-roadmap.md:44).

## What is proved

`LinkOwnershipProofs` proves, for any sets of tasks, profiles and settings and any
number of probes (from `LinkAssumption` only): `LinkTypeOK`,
`LinkHasOneMaster`, `FlagIsTheTasks`, `DeviceStaysConsistent` and
`ProfileIsKept`. The argument is one inductive invariant, `LinkInv`. `OneMaster` is not
inductive: that no session exists while a scan has its handle follows from
what tasks have *seen*. The invariant adds that the mutex is held exactly in the stages
that hold it, that a command past its second look excludes a discovery or
scan past the stage at which it looks at the session, and that a handle exists
only in the stages that own one. Its lemmas take the actions in groups -
`OperationStep`, `DiscoveryStep`, `ScanStep`, `BeginStep`, `CancelStep` - one step for
each action and under it one for each conjunct the action can disturb.

`DeviceWritesProofs` proves, for any parameters, values, plans and lengths (from
`WritesAssumption`): `WriteTypes`, `WritesDue`, `OutcomesHonest`, `TrailComplete` and
`FreshConfirmed`. The properties speak of what lasts - registers, trail, answer - and not
of where a running command is, so none is inductive. `WriteInv` adds `PlaceInv`, which ties the
stage to the cursor, to what was sent and to what was verified, and `TrailInv`, which says what the
trail has and lacks while a command runs: no outcome yet, the attempt first, each item before the
cursor. `OwedInv`: while a fresh command is waited for, neither the register nor the backlog holds its success
but by itself.

It also proves `WritesLicensed`: the write commands implement `WriteLedger`. Under the mapping (what is licensed is the rest of the plan from the cursor on, what is made are the items sent)
recording the attempt announces, a write takes the head of what is licensed, a failure or a crash
withdraws the rest, a foreign write is one, and every other step stutters.

`EcCoeProofs` proves `RequestsExecutedOnce`, for any objects, plans, buffers, numbers of losses
and any largest counter above 1 (from `MailboxAssumption`). `ExecutedOnce` says nothing of
what is still in the mailbox. `OnceInv` adds that the mailbox holds no request older than the one
executed last, and if it holds that one, its counter says so (`Pending`); that what is being
written is the latest request (`Latest`), unseen until it is written (`Unseen`); and that once it
is executed the slave's counter is the master's (`Known`). Each action is of one of four kinds -
calm, asking, taking, writing - and only the writing of the link layer needs an argument of its own.

Its second part proves `EthernetTypes` for the whole mailbox system: any objects and sizes, values, plans,
capacities, counters, losses, notices and frames (from `MailboxAssumption`, `CoeAssumption`,
`TransferAssumption`, `EthernetAssumption` and `NothingAssumption`: "no message" is neither a message nor
an object). The messages are typed by who sends them and which service they are of, so that
a call never reads a field that a message does not have; and no assignment but the interplay of call and link
layer says that a call that listens is handed what the slave sent, never its own request (`LinkTypes`).

`EcReadProofs` proves `UploadsWhole`, `VerifiedApplied` and `DictionaryOwn` from the same assumptions. A segment
names neither its object nor its place, so nothing about the message at hand proves that it is the
right one. `Line` is what the mailbox may still give, from what the master took last (it may ask for it
again) to what the slave answered last. Every step of the link layer and the slave's mailbox
hands the answers of SDO on in their order (`Passes`). In the line, an initial answer is what the slave holds and now transfers, unless an
answer lies behind it (`LineSays`); while a read waits for its initial answer no segment lies behind one
(`BeginsSays`); after that, the line holds the segment it waits for, and the one before with the other
toggle bit, and the slave stands behind the last of them or has broken off (`SegmentsSay`). TLC checked
`ReadInv` on this model before it was proved. The read-back of a verified write may meet answers of the write's own
calls, so it cannot ask that the mailbox is clear. `WriteInv` ties these calls to the write's phase (`CallFits`) and says what any
answers in the line tell (`Told`): while the first read goes on, only what the slave holds (`FreshSays`); from the
write on, none tells the new value unless the slave has it (`WrittenSays`). A read-back that agrees was told the new
value, so the slave has it, whichever answer told it. `DictionaryInv` is the argument for the dictionary, where nothing but the order tells the parts apart:
while nothing is lost only a notice, or nothing, can be repeated (`LinkKnows`), the queue holds answers to this
question only (`DescriptionKnown`), and its parts go on where the call stands, or behind what it had room for
(`ListKnown`).

`EcStartupProofs` proves `StartupTypes` and `EepromComesBack` for `ClocksSpec`, that is with the clocks
configured or not: any kinds of devices, rings, EEPROMs, wirings, and any number of faults, connections and
restarts (from `StartupAssumption`). Neither is inductive. For the EEPROM, `InitsLost` counts at each broadcast what it must have cost
if a device is still asked for PRE-OP, and `TriesLost` what it must have cost if, at the hand-over
or behind it, a device that answers still lacks its EEPROM; a device that missed its address may answer to that
of another, so it speaks of all that answer. For the types, `Open` says at every step of a call, and not only between calls, whether the
library and the interface are open; `Counted`, that the slaves passed are those of the ring, from the count of the
broadcast on; and `ParentIs`, that the walk back over the slaves ends at one before.

`RecorderProofs` proves all six invariants of the run `recorder`, for any capacity of the queue, any
distance of the flushes and any number of records (from `RecorderAssumption`): `RecorderTypes`,
`SilenceIsWhole`, `WrittenIsStored`, `AllAccounted`, `WindowIsKept`, `RecordsInOrder`. They speak of
files, counters and the end of a session; the inductive invariant `RecorderInv` says where every record
is until then. `Counted` ties the numbers of the status to the lengths of file, ring and queue.
`Numbered`, `QueueIsNewest`, `RingIsNewer` and `FileOnce`: the ring is newer than the file and the
queue newer than the ring, but for context snapshots, and no record is in two places. `Found`: while
nothing was dropped each accepted record is in one of them or was discarded. `HeldBack` and `Closed`: what a stage of
the worker excludes (a ring outside the trigger's window, a queue nobody reads any more). `Told`: at
the end, a status or a summary without error and gap agrees with what the system has on disk.

`ModbusTcpProofs` proves `TcpTypes`, `ExchangeLeavesNothing` and `ClientKeepsPromise`, the refinement of
`RegisterLink`, for any values, any number of retries, any size of the transaction numbers and bytes
that arrive in any pieces (from `TcpAssumption`, and `SentinelAssumption`: the marks for "no call" and
"nothing" are no call and no answer). The argument needs no look into the stream's frames. `Before`
is the number of exchanges older than the call, which no step of the call moves; every byte in the stream
and every request the drive still has is of one exchange. `Free`: what is older than the call has a
number the call will not use, for `NumbersFree` held when it began. So a header that is accepted is one of the call's (`Answered`, `Accepted`), and
its value is one the register had meanwhile. `WrittenOnce` and `Untouched`: a write is asked for once,
and until the drive sees it nothing was done for it. `InStep`: while nothing was late or refused by its header, the stream holds at most the exchange in progress. `Link` maps a
write that the drive still has, but whose call is over, to what `RegisterLink` calls late.

`EcPortProofs` proves the four invariants of the run `ec_port`, for any number of callers smaller than that of
the indices, any number of slaves and any bounds (from `PortAssumption`; a ring has a slave, and a call sends at
least once): `PortTypes`, `IndicesHeldOnce`, `AnswersAreOwn`, `CutsAreBridged`. The index is all that
pairs an answer with its call, and a status says "unused" of the index of a send that failed, so none of the first
three follows from the statuses. `OwnInv` counts instead. When an index is handed out, at least `MaxBuf -
Cardinality(Callers)` others are unused, and the search hands out every one of them before it comes round
(`Lasts`, kept by each call in `LastsAtGet`). The model assumes that a frame lives, and a failed send goes
unnoticed, for less calls than that (`Young`, `SentAgain`, see EcPort above; with three indices and
two callers that is one other call, with sixteen it is fourteen), so nothing bears the index of a later
call (`Turns`). `FramesOwn`, `BuffersOwn` and `CopiesOwn` follow the call through wire,
buffers and copies; a step of a caller touches the buffers of another only to leave it a frame it waits
for (`Local`). `BridgeInv` follows one call of the ring with two ports: what may be read at a port came
the way the break leaves open and has passed the slaves of that way (`Right`), so where the two frames came from tells
whether the ring is broken (`WaitFacts`), and what is sent round has passed the others (`TurnedBridges`).

Only model-checked: liveness (fairness and `ENABLED` are out of the prover's reach); `ExchangeWhole`, whose four
protocols each need a line of answers of their own; of start-up and clocks `KnownAsItIs` and `PlacesAreKnown`; and process
data (`CounterTells` and its types): what these compare is computed by functions that are recursive over the EEPROM, the ring or the image.

## Findings

Four runs end in a violation of what the repository's documents or comments say; each is
quoted in PROJECT.json.

| Run | Property | What happens |
|---|---|---|
| `link_cancel` | `CancelStopsScan` | a cancellation between the claim of a flag and the reset of its cancel flag is erased |
| `write_logging` | `LoggingDoesNotUndo` | a logging failure becomes the error of a write that was verified |
| `recording_context` | `DecodedAsConfigured` | of two context snapshots the older may be recorded last |
| `tcp_peer_closes` | `RetryFollows` | a read never ends after the peer closed the connection |

The passing runs are `link_safety`, `device_writes`, `recorder`, `modbus_tcp`, `ec_port`, `ec_coe`,
`ec_startup` and `ec_process`, one for each composition above.
Deadlock is checked in the first four of these. It is not in the four EtherCAT runs: each makes a
bounded number of calls and then rightly comes to rest.

## Not modelled, and the plan

1. `ModbusSerial`: the serial client against `RegisterLink`. An RTU answer carries neither
   address nor number, so what it keeps of the promise depends on how late answers may be.
2. `NetworkCapture`: start, stop and a worker that dies; composed with `Recorder` as a producer.
3. `RecordingIndex`: the index against a session that grows; refinement of "the
   index is what a scan of the files would give".
4. `ReadPlans`: discovery order, scan blocks, grouped reads, conversion of values,
   as functions checked against reference definitions over small widths.
5. `OperatorPanel`: the interface's busy flag, polls and late answers.
6. EtherCAT: recovering and reconfiguring a slave, writing its EEPROM, the start of sync pulses
   (`ecx_dcsync0`, `ecx_dcsync01`), `readIDNmap`, groups other than 0, the native capture of the
   bridge and its diagnostics.
7. Proofs: `ExchangeWhole`, one protocol at a time, on top of `EthernetTypes`.

Not planned: parsers of PCAP, Modbus and EtherCAT frames (sequential, about formats),
layout and styling, texts of error codes, and the headers of WinPcap.
