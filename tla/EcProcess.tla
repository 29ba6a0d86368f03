---- MODULE EcProcess ----
(* The exchange of process data: config_map, then send_processdata and              *)
(* receive_processdata of SOEM, by one caller that receives what it sent before it  *)
(* sends again. The application stays in PRE-OP and does not call them yet.         *)
(* Distributed clocks are not configured, so that hasdc is false. Data is modelled  *)
(* by the bit: a value says whose bit it is, which one, and how new.                *)
EXTENDS EcMapping, TLC

CONSTANTS
    Devices,    \* kind of device -> what it says of itself, as ConfigMap reads it
    Rings,      \* the kinds in the ring, and whether the map overlaps
    MaxBuf,     \* EC_MAXBUF: the indices that the stack holds
    MaxCycles,  \* bound: sends in a behaviour
    MaxUpdates, \* bound: new inputs of each device
    MaxLosses   \* bound: frames lost, and FMMU settings lost, in a behaviour

ASSUME ProcessAssumption == {MaxBuf, MaxCycles, MaxUpdates, MaxLosses} \subseteq Nat

VARIABLES
    ring,    \* the kinds and the overlap
    map,     \* what config_map found; its list is the slavelist
    set,     \* the slaves whose FMMUs were set: nobody looks at the result of setting
    image,   \* bit of the process image -> value
    mem,     \* slave -> bit of its process memory -> value
    frames,  \* the datagrams of this cycle
    stack,   \* idxstack: which of them a receive will wait for
    count,   \* the working counter of the cycle so far, -1 when no answer came
    phase,
    cycle,   \* how often the caller sent new outputs
    newest,  \* slave -> how often it had new inputs
    since,   \* history: newest, when the cycle began
    losses
vars == <<ring, map, set, image, mem, frames, stack, count, phase, cycle, newest, since, losses>>

Slaves == 1..Len(ring.kinds)
Device(s) == Devices[ring.kinds[s]]
NoMap == [list |-> <<>>]

Value(s, j, v) == [slave |-> s, bit |-> j, version |-> v]

\* The bits of a device's process memory, in order; memory is a sequence of areas.
AreaBits(area) == [k \in 1..(8 * area.bytes) |-> 8 * area.start + k - 1]
Memory(s, type) ==
    LET areas == IF type = Outputs THEN Device(s).takes ELSE Device(s).gives
    IN  Concat([i \in DOMAIN areas |-> AreaBits(areas[i])])
Holding(s, type, v) ==
    LET bits == Memory(s, type)
    IN  [b \in {bits[k] : k \in DOMAIN bits} |-> Value(s, (CHOOSE k \in DOMAIN bits : bits[k] = b) - 1, v)]

-----------------------------------------------------------------------------
(* The map.                                                                      *)

Configured ==
    [r \in Rings |->
       LET devices == [s \in DOMAIN r.kinds |-> Devices[r.kinds[s]]]
           known == [s \in DOMAIN r.kinds |-> devices[s].known]
       IN  IF r.overlap THEN ConfigOverlapMap(devices, known) ELSE ConfigMap(devices, known)]

\* Settings of FMMUs and sync managers may be lost on the way; none is repeated.
Map ==
    /\ phase = "start"
    /\ map' = Configured[ring]
    /\ image' = [b \in 0..(8 * (map'.obytes + map'.ibytes) - 1) |-> Value(0, b, 0)]
    /\ \E lost \in SUBSET Slaves :
          /\ losses + Cardinality(lost) <= MaxLosses
          /\ losses' = losses + Cardinality(lost)
          /\ set' = Slaves \ lost
    /\ phase' = "mapped"
    /\ UNCHANGED <<ring, mem, frames, stack, count, cycle, newest, since>>

-----------------------------------------------------------------------------
(* Sending: the datagrams are cut by the segments.                               *)

\* The lengths of the datagrams for some bytes, from an offset into a segment on; the
\* first one is sent even when it is empty.
Parts(first, offset, length) ==
    LET from[i \in Nat, rest \in Int] ==
           LET part == map.segments[i] - (IF i = first THEN offset ELSE 0)
           IN  IF i > Len(map.segments) \/ (i > first /\ rest = 0) THEN <<>>
               ELSE <<part>> \o from[i + 1, rest - part]
    IN  from[first, length]

\* The last of the outputs leave room for inputs in their segment.
OutputParts ==
    LET from[i \in Nat, rest \in Int] ==
           LET part == IF map.segments[i] > rest THEN rest ELSE map.segments[i]
           IN  IF i > Len(map.segments) \/ (i > 1 /\ rest = 0) THEN <<>>
               ELSE <<part>> \o from[i + 1, rest - part]
    IN  from[1, map.obytes]

\* Datagrams one behind the other, from a logical address and a place in the image;
\* their answers go to another place.
Datagrams(cmd, log, from, to, parts, img) ==
    [i \in DOMAIN parts |->
        LET before == Sum(SubSeq(parts, 1, i - 1))
        IN  [cmd |-> cmd, log |-> log + before, to |-> to + before, wkc |-> 0, state |-> "sent",
             data |-> [k \in 0..(8 * parts[i] - 1) |->
                          LET b == 8 * (from + before) + k IN IF b \in DOMAIN img THEN img[b] ELSE Value(0, b, 0)]]]

\* With LRW the datagram of outputs brings the inputs back; without, inputs are read
\* and outputs are written. In a map that overlaps, inputs lie behind the outputs.
Sent(img) ==
    LET total == IF ~map.overlap THEN map.obytes + map.ibytes
                 ELSE IF map.obytes > map.ibytes THEN map.obytes ELSE map.ibytes
        from == IF map.obytes = 0 THEN map.inputs ELSE 0
        to == IF map.obytes = 0 \/ map.overlap THEN map.inputs ELSE 0
        lrd == Datagrams("LRD", map.obytes, map.inputs, map.inputs,
                         Parts(map.isegment + 1, map.ioffset, map.ibytes), img)
        lwr == Datagrams("LWR", 0, 0, 0, OutputParts, img)
    IN  IF total = 0 THEN <<>>
        ELSE IF ~map.blockLRW THEN Datagrams("LRW", 0, from, to, Parts(1, 0, total), img)
        ELSE (IF map.ibytes = 0 THEN <<>> ELSE lrd) \o (IF map.obytes = 0 THEN <<>> ELSE lwr)

\* The caller's data of a slave lies in the image from the slave's pointer on.
OutputPlace(s, j) == 8 * map.list[s].outputs.log + map.list[s].outputs.bit + j
InputPlace(s, j) == 8 * map.list[s].inputs.log + map.list[s].inputs.bit + j
NewOutputs(v) ==
    LET bits(s) == 0..(map.list[s].obits - 1)
        pairs == UNION {{<<OutputPlace(s, j), Value(s, j, v)>> : j \in bits(s)} : s \in Slaves}
    IN  [b \in DOMAIN image |-> IF \E p \in pairs : p[1] = b
                                THEN (CHOOSE p \in pairs : p[1] = b)[2] ELSE image[b]]

\* Mutant: pushindex does not look whether the stack is full.
RememberedUnbounded(n) == 1..n

\* pushindex: only so many datagrams are remembered as the stack holds.
Remembered(n) == 1..(IF n < MaxBuf THEN n ELSE MaxBuf)

Send ==
    /\ phase \in {"mapped", "received"} /\ cycle < MaxCycles
    /\ cycle' = cycle + 1
    /\ image' = NewOutputs(cycle + 1)
    /\ frames' = Sent(image')
    /\ stack' = [i \in Remembered(Len(frames')) |-> i]
    /\ count' = -1 /\ since' = newest
    /\ phase' = "sent"
    /\ UNCHANGED <<ring, map, set, mem, newest, losses>>

-----------------------------------------------------------------------------
(* The ring. A frame passes the slaves in their order, and the frames do not      *)
(* overtake each other.                                                          *)

\* The bits that the FMMUs of a slave tie together: logical address -> memory.
Ties(s, type) ==
    LET sl == map.list[s]
        mine == {sl.fmmu[i] : i \in {k \in DOMAIN sl.fmmu : sl.fmmu[k].type = type /\ s \in set}}
        reach(f) == (8 * f.log + f.startbit)..(8 * (f.log + f.length - 1) + f.endbit)
        target(f, b) == 8 * f.phys + b - (8 * f.log + f.startbit)
        enabled == UNION {{8 * sl.sm[i].start + k : k \in 0..(8 * sl.sm[i].length - 1)} :
                          i \in {n \in Managers : sl.sm[n].enabled}}
    IN  {p \in UNION {{[at |-> b, bit |-> target(f, b)] : b \in reach(f)} : f \in mine} :
            p.bit \in enabled \intersect DOMAIN mem[s]}

InRange(f, p) == p.at - 8 * f.log \in DOMAIN f.data
Given(f, s) == IF f.cmd = "LWR" THEN {} ELSE {p \in Ties(s, Inputs) : InRange(f, p)}
Taken(f, s) == IF f.cmd = "LRD" THEN {} ELSE {p \in Ties(s, Outputs) : InRange(f, p)}

\* The datagram behind a slave, and the slave's memory. Reading counts one, and the
\* outputs that came with it two.
Behind(f, s) ==
    [f EXCEPT !.wkc = @ + (IF Given(f, s) = {} THEN 0 ELSE 1)
                        + (IF Taken(f, s) = {} THEN 0 ELSE IF f.cmd = "LRW" THEN 2 ELSE 1),
              !.data = [k \in DOMAIN @ |->
                          IF \E p \in Given(f, s) : p.at = 8 * f.log + k
                          THEN mem[s][(CHOOSE p \in Given(f, s) : p.at = 8 * f.log + k).bit] ELSE @[k]]]
Left(f, s) ==
    [b \in DOMAIN mem[s] |->
        IF \E p \in Taken(f, s) : p.bit = b
        THEN f.data[(CHOOSE p \in Taken(f, s) : p.bit = b).at - 8 * f.log] ELSE mem[s][b]]

Crosses(i, reached) ==
    LET at[s \in 0..reached] == IF s = 0 THEN frames[i] ELSE Behind(at[s - 1], s)
        state == IF reached = Len(ring.kinds) THEN "back" ELSE "lost"
    IN  /\ frames' = [frames EXCEPT ![i] = [at[reached] EXCEPT !.state = state]]
        /\ mem' = [s \in Slaves |-> IF s <= reached THEN Left(at[s - 1], s) ELSE mem[s]]

NextFrame(i) == frames[i].state = "sent" /\ \A k \in 1..(i - 1) : frames[k].state # "sent"
FramePasses ==
    \E i \in DOMAIN frames :
       /\ phase = "sent" /\ NextFrame(i)
       /\ Crosses(i, Len(ring.kinds))
       /\ UNCHANGED <<ring, map, set, image, stack, count, phase, cycle, newest, since, losses>>

FrameIsLost ==
    \E i \in DOMAIN frames, reached \in 0..(Len(ring.kinds) - 1) :
       /\ phase = "sent" /\ NextFrame(i) /\ losses < MaxLosses
       /\ Crosses(i, reached)
       /\ losses' = losses + 1
       /\ UNCHANGED <<ring, map, set, image, stack, count, phase, cycle, newest, since>>

\* A device has new inputs, all of them at once.
HasNewInputs(s) ==
    /\ phase = "sent" /\ newest[s] < MaxUpdates
    /\ newest' = [newest EXCEPT ![s] = @ + 1]
    /\ LET now == Holding(s, Inputs, newest[s] + 1)
       IN  mem' = [mem EXCEPT ![s] = [b \in DOMAIN @ |-> IF b \in DOMAIN now THEN now[b] ELSE @[b]]]
    /\ UNCHANGED <<ring, map, set, image, frames, stack, count, phase, cycle, since, losses>>

-----------------------------------------------------------------------------
(* Receiving: the datagrams of the stack in their order.                          *)

\* An answer with inputs is copied to its place; one of outputs alone counts double.
Receive ==
    /\ phase = "sent" /\ stack # <<>> /\ frames[Head(stack)].state # "sent"
    /\ LET f == frames[Head(stack)]
           back == f.state = "back"
           before == IF count = -1 THEN 0 ELSE count
       IN  /\ count' = IF ~back THEN count ELSE before + (IF f.cmd = "LWR" THEN 2 ELSE 1) * f.wkc
           /\ image' = IF ~back \/ f.cmd = "LWR" THEN image
                       ELSE [b \in DOMAIN image |->
                               IF b - 8 * f.to \in DOMAIN f.data THEN f.data[b - 8 * f.to] ELSE image[b]]
    /\ stack' = Tail(stack)
    /\ UNCHANGED <<ring, map, set, mem, frames, phase, cycle, newest, since, losses>>

ReceiveEnds ==
    /\ phase = "sent" /\ stack = <<>>
    /\ phase' = "received"
    /\ UNCHANGED <<ring, map, set, image, mem, frames, stack, count, cycle, newest, since, losses>>

-----------------------------------------------------------------------------
Init ==
    /\ ring \in Rings
    /\ map = NoMap /\ set = {} /\ image = <<>>
    /\ mem = [s \in Slaves |-> Holding(s, Outputs, 0) @@ Holding(s, Inputs, 0)]
    /\ frames = <<>> /\ stack = <<>> /\ count = -1 /\ phase = "start"
    /\ cycle = 0 /\ newest = [s \in Slaves |-> 0] /\ since = newest /\ losses = 0

Next ==
    \/ Map \/ Send \/ Receive \/ ReceiveEnds
    \/ FramePasses \/ FrameIsLost \/ \E s \in Slaves : HasNewInputs(s)

Spec == Init /\ [][Next]_vars

-----------------------------------------------------------------------------
\* Type invariant.
TypeOK ==
    /\ ring \in Rings /\ set \subseteq Slaves
    /\ phase \in {"start", "mapped", "sent", "received"}
    /\ count \in -1..(4 * Len(ring.kinds)) /\ cycle \in 0..MaxCycles /\ losses \in 0..MaxLosses
    /\ Len(stack) <= MaxBuf /\ Len(frames) <= 2 * MaxSegments

\* Every device has the outputs of this cycle, and its inputs of this cycle are where
\* the caller looks for them.
Whole ==
    \A s \in Slaves :
       LET out == Memory(s, Outputs)
           in == Memory(s, Inputs)
       IN  /\ \A j \in 0..(Device(s).bits[1] - 1) : mem[s][out[j + 1]] = Value(s, j, cycle)
           /\ \A j \in 0..(Device(s).bits[2] - 1) :
                 \E v \in since[s]..newest[s] : image[InputPlace(s, j)] = Value(s, j, v)

Expected == 2 * map.outputsWKC + map.inputsWKC
OneFMMU(s) ==
    \A t \in {Outputs, Inputs} :
       Cardinality({i \in DOMAIN map.list[s].fmmu : map.list[s].fmmu[i].type = t}) <= 1
Carries(f, type) == f.cmd = "LRW" \/ f.cmd = (IF type = Inputs THEN "LRD" ELSE "LWR")
Undivided(s) ==
    \A i \in DOMAIN map.list[s].fmmu :
       LET m == map.list[s].fmmu[i]
       IN  \E k \in DOMAIN frames :
              /\ Carries(frames[k], m.type)
              /\ \A at \in {m.log, m.log + m.length - 1} : 8 * (at - frames[k].log) \in DOMAIN frames[k].data

\* Where the segments divide no slave, a working counter of the size that the map
\* promises is proof of a whole exchange, whatever was lost, the settings of the map
\* included; and a cycle in which nothing is lost brings that counter, unless it takes
\* more datagrams than the stack holds or a slave has two FMMUs of one direction.
CounterTells ==
    phase = "received" /\ (\A s \in Slaves : Undivided(s)) =>
       /\ count = Expected => Whole
       /\ /\ set = Slaves /\ frames # <<>> /\ Len(frames) <= MaxBuf
          /\ \A i \in DOMAIN frames : frames[i].state = "back"
          /\ \A s \in Slaves : OneFMMU(s)
          => count = Expected
====
