---- MODULE EcMapping ----
(* Where the process data of each slave lies: ecx_config_map_group and its relative *)
(* for overlapping maps. The sizes come from the slave's dictionary, from a slave   *)
(* with the same identity, or from the EEPROM; FMMUs then tie a logical address to  *)
(* the memory of each slave, and segments divide the addresses into frames. Group 0 *)
(* and no SoE; sync managers are numbered from 0, as in the source.                 *)
EXTENDS EcSii

CONSTANTS
    MaxData,    \* EC_MAXLRWDATA - EC_FIRSTDCDATAGRAM: the bytes of a segment
    MaxSegments \* EC_MAXIOSEGMENTS

ASSUME MappingAssumption == {MaxData, MaxSegments} \subseteq Nat \ {0}

Outputs == 3
Inputs == 4
Managers == 0..(MaxSM - 1)
Bytes(bits) == (bits + 7) \div 8

-----------------------------------------------------------------------------
(* The sizes. A device says in its dictionary which type each sync manager has,  *)
(* and which PDOs are assigned to it: a sequence of sequences of bit lengths.    *)

Sum(s) == LET sum[i \in 0..Len(s)] == IF i = 0 THEN 0 ELSE sum[i - 1] + s[i] IN sum[Len(s)]
PDOAssign(pdos) == Sum([i \in DOMAIN pdos |-> Sum(pdos[i])])

\* The type of a sync manager, put right for devices that count from 0, and, unless
\* the access is complete, for those that leave the third and fourth without one.
Corrected(types, i, complete) ==
    LET type == types[i + 1]
    IN  IF type # 0 THEN type + (IF types[3] = 2 THEN 1 ELSE 0)
        ELSE IF complete \/ i \notin {2, 3} THEN 0
        ELSE IF i = 2 THEN Outputs ELSE Inputs

\* readPDOmap, and readPDOmapCA when complete: the slave with the types and lengths.
ReadPDOMap(sl, coe, complete) ==
    LET n == IF Len(coe.types) < MaxSM THEN Len(coe.types) ELSE MaxSM
        type == [i \in Managers |-> IF i \in 2..(n - 1) THEN Corrected(coe.types, i, complete)
                                    ELSE sl.type[i]]
        bits(i) == IF type[i] \in {Outputs, Inputs} THEN PDOAssign(coe.pdos[i]) ELSE 0
        total(t) == Sum([k \in 1..(n - 2) |-> IF type[k + 1] = t THEN bits(k + 1) ELSE 0])
        sm == [i \in Managers |->
                 IF i \notin 2..(n - 1) THEN sl.sm[i]
                 ELSE [sl.sm[i] EXCEPT !.length = IF bits(i) = 0 THEN @ ELSE Bytes(bits(i)),
                                       !.enabled = @ /\ type[i] # 0]]
    IN  IF n <= 2 THEN [sl EXCEPT !.obits = 0, !.ibits = 0]
        ELSE [sl EXCEPT !.type = type, !.sm = sm, !.obits = total(Outputs), !.ibits = total(Inputs)]

\* ecx_map_coe_soe: with complete access when the slave offers it, and without when
\* that finds nothing, as when the slave then refuses it.
NoTypes == [types |-> <<>>, pdos |-> <<>>]
MapCoE(sl, device) ==
    LET whole == ReadPDOMap(sl, IF device.ca = "works" THEN device.coe ELSE NoTypes, TRUE)
        found == device.ca # "none" /\ whole.obits + whole.ibits > 0
    IN  IF ~device.mailbox THEN sl
        ELSE IF found THEN whole
        ELSE ReadPDOMap(IF device.ca = "none" THEN sl ELSE whole, device.coe, FALSE)

\* ecx_lookup_mapping: the first slave before this one with its identity.
Before(list, devices, s) == {i \in 1..(s - 1) : devices[i].identity = devices[s].identity}
LookupMapping(list, devices, s) ==
    LET before == Before(list, devices, s)
        twin == list[CHOOSE i \in before : \A j \in before : i <= j]
    IN  IF before = {} THEN list[s]
        ELSE [list[s] EXCEPT !.type = twin.type, !.obits = twin.obits, !.ibits = twin.ibits,
                             !.sm = [i \in Managers |-> [@[i] EXCEPT !.length = twin.sm[i].length]]]

\* The sizes by the EEPROM; a sync manager with bits gets their length and its type.
BySii(sl, image) ==
    LET bits(t) == PDOBits(image, t)
        with(x, t, type) ==
            [x EXCEPT !.sm = [i \in Managers |-> IF bits(t)[i] > 0
                                 THEN [@[i] EXCEPT !.length = Bytes(bits(t)[i])] ELSE @[i]],
                      !.type = [i \in Managers |-> IF bits(t)[i] > 0 THEN type ELSE @[i]]]
        sum(t) == Sum([k \in 1..MaxSM |-> bits(t)[k - 1]])
    IN  [with(with(sl, 0, Inputs), 1, Outputs) EXCEPT !.ibits = sum(0), !.obits = sum(1)]
Sizeless(sl) == sl.ibits = 0 /\ sl.obits = 0
MapSii(list, devices, s) ==
    LET looked == IF Sizeless(list[s]) THEN LookupMapping(list, devices, s) ELSE list[s]
    IN  IF Sizeless(looked) THEN BySii(looked, devices[s].image) ELSE looked

\* ecx_map_sm: the sync managers as they are programmed, and the sizes in bytes,
\* which a slave of fewer than eight bits does not have.
MapSM(sl) ==
    LET whole(bits, old) == IF bits > 7 THEN Bytes(bits) ELSE old
    IN  [sl EXCEPT !.sm = [i \in Managers |-> IF i >= 2 /\ @[i].start # 0
                              THEN [@[i] EXCEPT !.enabled = sl.sm[i].length # 0] ELSE @[i]],
                   !.ibytes = whole(sl.ibits, @), !.obytes = whole(sl.obits, @)]

\* ecx_config_find_mappings: all dictionaries first, then the slaves in their order.
FindMappings(list, devices) ==
    LET read == [s \in DOMAIN list |-> MapCoE(list[s], devices[s])]
        upto[s \in 0..Len(list)] ==
           IF s = 0 THEN read
           ELSE [upto[s - 1] EXCEPT ![s] = MapSM(MapSii(upto[s - 1], devices, s))]
    IN  upto[Len(list)]

-----------------------------------------------------------------------------
(* The FMMUs of one slave in one direction. Sync managers whose memory is joined *)
(* share one. place is where the next bit goes: a logical address, and a bit.    *)

NextOf(sl, type, c) ==
    LET found == {i \in Managers : i >= c /\ sl.type[i] = type} \union {MaxSM - 1}
    IN  CHOOSE i \in found : \A j \in found : i <= j

\* From a sync manager on, those that are joined to it, until the bits are reached.
Joined(sl, type, bits, first, count) ==
    LET end(c) == sl.sm[c].start + sl.sm[c].length
        from[c \in Managers, n \in Nat] ==
           LET next == NextOf(sl, type, c + 1)
           IN  IF 8 * n >= bits \/ c >= MaxSM - 1 THEN [next |-> c, count |-> n]
               ELSE IF sl.sm[next].start > end(c) THEN [next |-> next, count |-> n]
               ELSE from[next, n + sl.sm[next].length]
    IN  from[first, count + sl.sm[first].length]

\* Mutant: a slave of whole bytes begins where the bits before it end.
AlignedNever(place) == place

\* The place n bits further.
Advanced(place, n) ==
    [log |-> place.log + (place.bit + n) \div 8, bit |-> (place.bit + n) % 8]
Aligned(place) == IF place.bit = 0 THEN place ELSE [log |-> place.log + 1, bit |-> 0]

FMMUs(sl, type, place) ==
    LET bits == IF type = Outputs THEN sl.obits ELSE sl.ibits
        bytes == IF type = Outputs THEN sl.obytes ELSE sl.ibytes
        fmmu(c, at, size, last) ==
            [phys |-> sl.sm[c].start, type |-> type, log |-> at.log, startbit |-> at.bit,
             length |-> size, endbit |-> last]
        from[c \in Managers, done \in Nat, count \in Nat, at \in [log : Nat, bit : 0..7]] ==
           LET first == NextOf(sl, type, c)
               joined == Joined(sl, type, bits, first, count)
               start == IF bytes = 0 THEN at ELSE Aligned(at)
               last == Advanced(start, bits - 1)
               size == IF bytes = 0 THEN last.log - start.log + 1
                       ELSE IF joined.count + done > bytes THEN bytes - done ELSE joined.count
               after == IF bytes = 0 THEN Advanced(start, bits)
                        ELSE [log |-> start.log + size, bit |-> 0]
               rest == from[joined.next, done + size, joined.count, after]
           IN  IF c >= MaxSM - 1 \/ done >= Bytes(bits) THEN [fmmus |-> <<>>, place |-> at]
               ELSE [rest EXCEPT !.fmmus =
                        <<fmmu(first, start, size, IF bytes = 0 THEN last.bit ELSE 7)>> \o @]
    IN  from[0, 0, 0, place]

\* The slave with its FMMUs, and its data's place in the image by the first of them.
Mapped(sl, type, mapping) ==
    LET first == mapping.fmmus[1]
        at == [log |-> first.log, bit |-> first.startbit]
        with == [sl EXCEPT !.fmmu = @ \o mapping.fmmus]
    IN  IF mapping.fmmus = <<>> THEN sl
        ELSE IF type = Outputs THEN [with EXCEPT !.outputs = at] ELSE [with EXCEPT !.inputs = at]

-----------------------------------------------------------------------------
(* The segments: closed ones, and the size of the one that is being filled.      *)

Extend(seg, diff) ==
    IF seg.size + diff <= MaxData THEN [seg EXCEPT !.size = @ + diff]
    ELSE IF Len(seg.closed) < MaxSegments - 1
         THEN [closed |-> Append(seg.closed, seg.size), size |-> diff]
         ELSE seg

\* The outputs, or the inputs, of all slaves one after the other.
Placed(g, type, s, mapping) ==
    [list |-> [g.list EXCEPT ![s] = Mapped(@, type, mapping)],
     place |-> mapping.place, seg |-> Extend(g.seg, mapping.place.log - g.place.log)]
WithNext(g, type, s) ==
    LET bits == IF type = Outputs THEN g.list[s].obits ELSE g.list[s].ibits
    IN  IF bits = 0 THEN g ELSE Placed(g, type, s, FMMUs(g.list[s], type, g.place))
ToNextByte(g) ==
    IF g.place.bit = 0 THEN g ELSE [g EXCEPT !.place = Aligned(@), !.seg = Extend(@, 1)]
MapAll(type, begun) ==
    LET upto[s \in 0..Len(begun.list)] == IF s = 0 THEN begun ELSE WithNext(upto[s - 1], type, s)
    IN  ToNextByte(upto[Len(begun.list)])

Count(list, type, any) ==
    Sum([s \in DOMAIN list |->
           Cardinality({i \in DOMAIN list[s].fmmu :
                           /\ list[s].fmmu[i].type = type
                           /\ any \/ list[s].fmmu[i].length > 0})])
Zero == [log |-> 0, bit |-> 0]

NoSegments == [closed |-> <<>>, size |-> 0]
BlocksLRW(devices) == \E s \in DOMAIN devices : devices[s].blockLRW

\* ecx_config_map_group: outputs first, then inputs.
GroupMap(devices, out, all) ==
    [list |-> all.list,
     obytes |-> out.place.log, ibytes |-> all.place.log - out.place.log,
     inputs |-> out.place.log, isegment |-> Len(out.seg.closed), ioffset |-> out.seg.size,
     segments |-> Append(all.seg.closed, all.seg.size),
     blockLRW |-> BlocksLRW(devices), overlap |-> FALSE,
     outputsWKC |-> Count(all.list, Outputs, TRUE), inputsWKC |-> Count(all.list, Inputs, FALSE)]
WithInputs(devices, out) == GroupMap(devices, out, MapAll(Inputs, out))
ConfigMap(devices, list) ==
    WithInputs(devices, MapAll(Outputs, [list |-> FindMappings(list, devices), place |-> Zero,
                                         seg |-> NoSegments]))

\* ecx_config_overlap_map_group: the outputs and inputs of a slave at one address, so
\* that the inputs lie in the image behind all the outputs.
Later(a, b) == IF a > b THEN a ELSE b
Overlaid(g, s, out, inp, so, si) ==
    [list |-> [g.list EXCEPT ![s] = Mapped(Mapped(@, Outputs, out), Inputs, inp)],
     log |-> Later(so, si), so |-> so, si |-> si, seg |-> Extend(g.seg, Later(so, si) - g.log)]
BothMapped(g, s, out, inp) == Overlaid(g, s, out, inp, Aligned(out.place).log, Aligned(inp.place).log)
WithBoth(g, s, start) ==
    LET sl == g.list[s]
        none == [fmmus |-> <<>>, place |-> start]
    IN  BothMapped(g, s, IF sl.obits = 0 THEN none ELSE FMMUs(sl, Outputs, start),
                         IF sl.ibits = 0 THEN none ELSE FMMUs(sl, Inputs, start))
OverlapMap(devices, all) ==
    [list |-> [s \in DOMAIN all.list |-> [all.list[s] EXCEPT !.inputs.log = @ + all.so]],
     obytes |-> all.so, ibytes |-> all.si, inputs |-> all.so, isegment |-> 0, ioffset |-> 0,
     segments |-> Append(all.seg.closed, all.seg.size),
     blockLRW |-> BlocksLRW(devices), overlap |-> TRUE,
     outputsWKC |-> Count(all.list, Outputs, TRUE), inputsWKC |-> Count(all.list, Inputs, FALSE)]
ConfigOverlapMap(devices, list) ==
    LET begun == [list |-> FindMappings(list, devices), log |-> 0, so |-> 0, si |-> 0,
                  seg |-> NoSegments]
        upto[s \in 0..Len(list)] ==
           IF s = 0 THEN begun
           ELSE WithBoth(upto[s - 1], s, [log |-> upto[s - 1].log, bit |-> 0])
    IN  OverlapMap(devices, upto[Len(list)])
====
