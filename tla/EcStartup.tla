---- MODULE EcStartup ----
(* The start of the EtherCAT master: ethercat_connect of master.rs, sa_open and     *)
(* sa_slaves of bridge.c, ecx_config_init and ecx_readstate of SOEM. The slaves are *)
(* numbered, and their EEPROMs are read in passes over all of them: each pass takes *)
(* the word that the former one asked for and asks for the next.                    *)
EXTENDS EcSii

CONSTANTS
    Kinds,       \* kind of device -> its header, sections, r64, and what they say
    Rings        \* the devices in the ring: kinds, parents; bounds: faults, connects, changes

ASSUME StartupAssumption ==
    \A r \in Rings : /\ r.kinds \in Seq(DOMAIN Kinds) /\ Len(r.kinds) = Len(r.parent)
                     /\ {r.faults, r.connects, r.changes} \subseteq Nat

VARIABLES
    ring,       \* the devices, in the order in which a frame passes them
    dev,        \* position -> the registers of the device
    slavelist,  \* what the master knows of the slaves; its length is slavecount
    cache,      \* esibuf and esimap: the bytes cached, and of which slave
    at,         \* where the call is that holds the master's mutex
    opened,     \* of bridge.c
    connected,  \* status.connected of master.rs
    faults,
    spoiled,    \* the slaves of which an exchange failed that nothing repeats
    connects,
    changes
vars == <<ring, dev, slavelist, cache, at, opened, connected, faults, spoiled, connects, changes>>

INIT == 1
PRE_OP == 2
BOOT == 3
Retries == 3
MaxNacks == 3

Reads == <<Manuf, Id, Rev, RxMbx, TxMbx, MbxProto>>
Last == 5
Nothing == <<0, 0>>

Ring == 1..Len(ring.kinds)
Count == Len(slavelist)
Images == [k \in DOMAIN Kinds |-> Image(Kinds[k].header, Kinds[k].sections)]

\* A device that was just switched on: its processor holds the EEPROM.
Fresh == [station |-> 0, al |-> INIT, err |-> FALSE, req |-> INIT, owner |-> "pdi",
          busy |-> FALSE, asked |-> 0, word |-> 0, nack |-> FALSE, box |-> <<>>]

NoSii == [name |-> <<>>, general |-> [coe |-> 0, blockLRW |-> FALSE, ebus |-> 0],
          sms |-> <<>>, fmmus |-> [i \in 0..3 |-> 0]]
NoSlave == [configadr |-> 0, r64 |-> FALSE, pdi |-> FALSE, topology |-> 0, parent |-> 0,
            state |-> 0, words |-> [i \in 1..Len(Reads) |-> Nothing], sii |-> NoSii]

Identity(s) == [i \in 1..3 |-> slavelist[s].words[i]]
MbxL(list, s) == list[s].words[4][2]

Idle == [step |-> "idle", pass |-> 0, s |-> 0, op |-> "one", item |-> 1, tries |-> 0,
         nacks |-> 0, why |-> "connect"]

-----------------------------------------------------------------------------
(* The cache is of one slave: it is cleared for another.                         *)

NoBytes == [a \in {} |-> 0]
ClearedFor(s) == IF cache.slave = s THEN cache ELSE [slave |-> s, bytes |-> NoBytes]

(* An exchange reaches the devices and is answered, or the answer or the whole of *)
(* it is lost. A register that nobody answers for is not written, and reads as    *)
(* the caller's variable was before.                                              *)

Outcomes == {"done", "unheard", "lost"}
Happens(o) ==
    /\ o # "done" => faults < ring.faults
    /\ faults' = IF o = "done" THEN faults ELSE faults + 1

Answering(s) == {p \in Ring : dev[p].station = slavelist[s].configadr}
Heard(o, to) == o = "done" /\ to # {}
Wkc(o, to) == IF o = "done" THEN Cardinality(to) ELSE -1

\* What an exchange writes.
Written(o, to, Effect(_)) ==
    dev' = IF o = "lost" THEN dev
           ELSE [p \in Ring |-> IF p \in to THEN Effect(dev[p]) ELSE dev[p]]

\* Mutant: an exchange is never repeated.
RepeatsNever(wkc) == FALSE

\* An exchange that did not count is repeated, four times in all.
Repeats(wkc) == wkc <= 0 /\ at.tries < Retries
Again == [at EXCEPT !.tries = @ + 1]

\* History: what failed of a slave that nothing repeats.
Spoils(s, bad) == spoiled' = IF bad THEN spoiled \union {s} ELSE spoiled

-----------------------------------------------------------------------------
(* The order of the passes.                                                      *)

Step(name) == [at EXCEPT !.step = name, !.tries = 0]
Asks(a, op, item) ==
    [a EXCEPT !.op = op, !.item = item, !.tries = 0, !.nacks = 0,
              !.step = IF op = "two" THEN "status" ELSE "ready"]

\* A slave's part of a pass, given what is known of the slaves by then.
Begins(list, pass, s) ==
    LET a == [at EXCEPT !.pass = pass, !.s = s, !.tries = 0]
    IN  CASE pass = 0 -> [a EXCEPT !.step = "address"]
          [] pass \in 1..(Last - 1) -> Asks(a, "two", pass)
          [] pass = Last -> IF MbxL(list, s) > 0 THEN Asks(a, "two", Last)
                            ELSE [a EXCEPT !.step = "topology"]

NextSlave(list) ==
    IF at.s < Len(list) THEN Begins(list, at.pass, at.s + 1)
    ELSE IF at.pass < Last THEN Begins(list, at.pass + 1, 1)
    ELSE Step("check")

\* What follows a word that was taken: the next one is asked for.
Taken(list) ==
    IF at.item = Last + 1 THEN Step("sii")
    ELSE IF at.pass = Last - 1 /\ MbxL(list, at.s) = 0 THEN NextSlave(list)
    ELSE Asks(at, "one", at.item + 1)

-----------------------------------------------------------------------------
(* The command ethercat_connect, up to the scan of the ring.                     *)

\* sa_open refuses what is open, and fails when the adapter does.
Connect ==
    /\ at.step = "idle" /\ ~connected /\ connects < ring.connects
    /\ connects' = connects + 1
    /\ spoiled' = {}
    /\ \/ opened /\ UNCHANGED <<at, slavelist, cache, opened, faults>>
       \/ ~opened /\ Happens("lost") /\ UNCHANGED <<at, slavelist, cache, opened>>
       \/ /\ ~opened /\ opened' = TRUE
          /\ slavelist' = <<>>
          /\ cache' = ClearedFor(0)
          /\ at' = [Idle EXCEPT !.step = "init1"]
          /\ UNCHANGED faults
    /\ UNCHANGED <<ring, dev, connected, changes>>

\* The broadcasts: INIT twice, the defaults with INIT again, and the EEPROMs forced from the devices'
\* processors and given to the master.
Broadcasts == [init1 |-> "init2", init2 |-> "count", init3 |-> "force",
               force |-> "release", release |-> "address"]
Broadcasted(name, d) ==
    CASE name \in {"init1", "init2"} -> [d EXCEPT !.req = INIT]
      [] name = "init3" -> [d EXCEPT !.req = INIT, !.box = <<>>]
      [] name = "force" -> [d EXCEPT !.owner = IF @ = "pdi" THEN "forced" ELSE @]
      [] name = "release" -> [d EXCEPT !.owner = IF @ = "forced" THEN "master" ELSE @]

Broadcast ==
    \E o \in Outcomes :
       LET effect(d) == Broadcasted(at.step, d)
       IN  /\ at.step \in DOMAIN Broadcasts /\ Happens(o)
           /\ Written(o, Ring, effect)
           /\ spoiled' = IF o = "lost" THEN Ring ELSE spoiled
           /\ at' = [Step(Broadcasts[at.step]) EXCEPT !.s = 1]
           /\ UNCHANGED <<ring, slavelist, cache, opened, connected, connects, changes>>

\* The working counter of a broadcast read is the number of slaves; without one the
\* master is closed again.
CountSlaves ==
    \E o \in Outcomes :
       /\ at.step = "count" /\ Happens(o)
       /\ IF Wkc(o, Ring) > 0
          THEN /\ slavelist' = [s \in Ring |-> NoSlave]
               /\ at' = Step("init3") /\ UNCHANGED opened
          ELSE opened' = FALSE /\ at' = Idle /\ UNCHANGED slavelist
       /\ UNCHANGED <<ring, dev, cache, connected, spoiled, connects, changes>>

-----------------------------------------------------------------------------
(* The first pass: the station address, by position.                             *)

SetAddress ==
    \E o \in Outcomes :
       LET effect(d) == [d EXCEPT !.station = at.s]
       IN  /\ at.step = "address" /\ Happens(o)
           /\ Written(o, {at.s} \intersect Ring, effect)
           /\ at' = Step("readback")
           /\ UNCHANGED <<ring, slavelist, cache, opened, connected, spoiled, connects, changes>>

ReadAddress ==
    \E o \in Outcomes :
       LET station == IF o = "done" THEN dev[at.s].station ELSE 0
       IN  /\ at.step = "readback" /\ Happens(o)
           /\ slavelist' = [slavelist EXCEPT ![at.s].configadr = station]
           /\ Spoils(at.s, station # at.s)
           /\ at' = Step("width")
           /\ UNCHANGED <<ring, dev, cache, opened, connected, connects, changes>>

\* Whether the EEPROM is read by eight bytes. Without an answer the variable keeps
\* what it held: the former slave's status, or anything at all at the first.
ReadWidth ==
    \E o \in Outcomes, wide \in BOOLEAN :
       LET s == at.s
           to == Answering(s)
       IN  /\ at.step = "width" /\ Happens(o)
           /\ IF Heard(o, to) THEN \E p \in to : wide = Kinds[ring.kinds[p]].r64
              ELSE s > 1 => wide = slavelist[s - 1].r64
           /\ slavelist' = [slavelist EXCEPT ![s].r64 = wide]
           /\ Spoils(s, ~Heard(o, to))
           /\ at' = Asks(at, "one", 1)
           /\ UNCHANGED <<ring, dev, cache, opened, connected, connects, changes>>

-----------------------------------------------------------------------------
(* A word of the EEPROM. "one" is ecx_readeeprom1, which asks for it, "two" is    *)
(* ecx_readeeprom2, which takes it, and "whole" is ecx_readeepromFP.              *)

Zeros == [i \in 1..8 |-> 0]
Wanted == IF at.op = "whole" THEN at.item ELSE Reads[at.item]
Loaded(p) ==
    LET kind == ring.kinds[p]
    IN  [i \in 1..8 |-> IF dev[p].word = 0 \/ (i > 4 /\ ~Kinds[kind].r64) THEN 0
                        ELSE Byte(Images[kind], 2 * dev[p].word + i - 1)]

\* The cache takes four or eight bytes from the even address that was asked for.
Cached(data) ==
    LET a == 2 * at.item
        new == a..(a + IF slavelist[at.s].r64 THEN 7 ELSE 3)
    IN  [cache EXCEPT !.bytes = [i \in DOMAIN @ \union new |->
                                    IF i \in new THEN data[i - a + 1] ELSE @[i]]]

\* A read mailbox without a length has that of the write mailbox.
Took(s, data) ==
    LET long == <<data[1] + 256 * data[2], data[3] + 256 * data[4]>>
        word == IF at.item = Last /\ long[2] = 0 THEN <<long[1], MbxL(slavelist, s)>> ELSE long
    IN  [slavelist EXCEPT ![s].words[at.item] = word]

Ends(data) ==
    CASE at.op = "one" ->
            /\ at' = IF at.pass = Last THEN Step("topology") ELSE NextSlave(slavelist)
            /\ UNCHANGED <<slavelist, cache>>
      [] at.op = "two" ->
            /\ slavelist' = Took(at.s, data)
            /\ at' = Taken(slavelist') /\ UNCHANGED cache
      [] at.op = "whole" ->
            cache' = Cached(data) /\ at' = Step("sii") /\ UNCHANGED slavelist

\* A whole read is tried again only after a refusal of the EEPROM.
EndsOrAgain(nacks, data) ==
    IF at.op = "whole" /\ nacks \in 1..(MaxNacks - 1)
    THEN at' = [Step("command") EXCEPT !.nacks = nacks] /\ UNCHANGED <<slavelist, cache>>
    ELSE Ends(data)

\* What is done when the EEPROM is not busy, and refused the last command or did not.
Idles(nack) ==
    IF at.step = "ready"
    THEN at' = Step(IF nack THEN "clear" ELSE "command") /\ UNCHANGED <<slavelist, cache>>
    ELSE IF at.op = "whole" /\ nack THEN EndsOrAgain(at.nacks + 1, Zeros)
    ELSE /\ at' = [Step("data") EXCEPT !.nacks = 0] /\ UNCHANGED <<slavelist, cache>>

Polling == at.step \in {"ready", "status"}
EepromIdle ==
    /\ Polling
    /\ \E p \in Answering(at.s) :
       /\ ~dev[p].busy
       /\ Idles(dev[p].nack)
       /\ Spoils(at.s, at.op = "two" /\ dev[p].nack)
       /\ UNCHANGED <<ring, dev, opened, connected, faults, connects, changes>>

\* A lost answer is waited for; one that never comes passes for an EEPROM at rest.
EepromUnheard ==
    \E o \in Outcomes, expired \in BOOLEAN :
       /\ Polling /\ Happens(o)
       /\ ~Heard(o, Answering(at.s))
       /\ o = "done" => expired
       /\ IF expired THEN Idles(FALSE) ELSE UNCHANGED <<at, slavelist, cache>>
       /\ Spoils(at.s, expired)
       /\ UNCHANGED <<ring, dev, opened, connected, connects, changes>>

EepromStaysBusy ==
    /\ Polling
    /\ \E p \in Answering(at.s) :
       /\ dev[p].busy /\ Happens("lost")
       /\ EndsOrAgain(at.nacks, Zeros)
       /\ Spoils(at.s, TRUE)
       /\ UNCHANGED <<ring, dev, opened, connected, connects, changes>>

ClearRefusal ==
    \E o \in Outcomes :
       LET effect(d) == [d EXCEPT !.nack = FALSE]
       IN  /\ at.step = "clear" /\ Happens(o)
           /\ Written(o, Answering(at.s), effect)
           /\ at' = Step("command")
           /\ UNCHANGED <<ring, slavelist, cache, opened, connected, spoiled, connects, changes>>

\* The EEPROM takes a command when the master owns it and it is at rest. A counter
\* of -1 passes for one that counted once the tries are over.
CommandRead ==
    \E o \in Outcomes :
       LET to == Answering(at.s)
           wkc == Wkc(o, to)
           effect(d) == IF d.owner = "master" /\ ~d.busy
                        THEN [d EXCEPT !.busy = TRUE, !.asked = Wanted, !.nack = FALSE] ELSE d
       IN  /\ at.step = "command" /\ Happens(o)
           /\ Written(o, to, effect)
           /\ Spoils(at.s, wkc <= 0 /\ ~Repeats(wkc))
           /\ IF Repeats(wkc) THEN at' = Again /\ UNCHANGED <<slavelist, cache>>
              ELSE IF at.op = "one" THEN Ends(Zeros)
              ELSE IF wkc = 0 THEN EndsOrAgain(at.nacks, Zeros)
              ELSE at' = Step("status") /\ UNCHANGED <<slavelist, cache>>
           /\ UNCHANGED <<ring, opened, connected, connects, changes>>

TakeData ==
    \E o \in Outcomes :
       LET to == Answering(at.s)
           wkc == Wkc(o, to)
       IN  /\ at.step = "data" /\ Happens(o)
           /\ IF wkc > 0 THEN \E p \in to : Ends(Loaded(p))
              ELSE IF Repeats(wkc) THEN at' = Again /\ UNCHANGED <<slavelist, cache>>
              ELSE Ends(Zeros)
           /\ Spoils(at.s, wkc <= 0 /\ ~Repeats(wkc))
           /\ UNCHANGED <<ring, dev, opened, connected, connects, changes>>

-----------------------------------------------------------------------------
(* The last pass: the place in the ring, the sections, the mailbox, PRE-OP.       *)

\* The links of a device: one towards the master, and one to each child.
Links(p) == 1 + Cardinality({q \in Ring : ring.parent[q] = p})

\* Mutant: a cross is counted like a branch.
BalanceOfBranches(links, s, k) ==
    LET weight(h) == CASE h = 1 -> -1 [] h \in {3, 4} -> 1 [] OTHER -> 0
        sum[i \in k..s] == IF i = s THEN 0 ELSE weight(links[i]) + sum[i + 1]
    IN  sum[k]

\* The parent of a slave: the walk back over the slaves before it counts a branch
\* for every port to spare and takes one away for every end of a line.
Balance(links, s, k) ==
    LET weight(h) == CASE h = 1 -> -1 [] h = 3 -> 1 [] h = 4 -> 2 [] OTHER -> 0
        sum[i \in k..s] == IF i = s THEN 0 ELSE weight(links[i]) + sum[i + 1]
    IN  sum[k]
ParentOf(links, s) ==
    IF s = 1 THEN 0
    ELSE LET found == {k \in 1..(s - 1) : k = 1 \/ (Balance(links, s, k) >= 0 /\ links[k] > 1)}
         IN  CHOOSE k \in found : \A j \in found : j <= k

ReadTopology ==
    \E o \in Outcomes :
       LET s == at.s
           to == Answering(s)
       IN  /\ at.step = "topology" /\ Happens(o)
           /\ \E links \in IF Heard(o, to) THEN {Links(p) : p \in to} ELSE {0} :
                 LET known == [k \in 1..Count |-> IF k = s THEN links ELSE slavelist[k].topology]
                 IN  slavelist' = [slavelist EXCEPT ![s].topology = links,
                                                    ![s].parent = ParentOf(known, s)]
           /\ Spoils(s, ~Heard(o, to))
           /\ at' = Step("init")
           /\ UNCHANGED <<ring, dev, cache, opened, connected, connects, changes>>

\* A device's state as it is read, with the flag of an error.
StateOf(d) == d.al + IF d.err THEN 16 ELSE 0
ReadFrom(to) == IF to = {} THEN {0} ELSE {StateOf(dev[p]) : p \in to}

\* The wait for INIT goes on for two seconds; its result is not looked at.
CheckInit ==
    /\ at.step = "init"
    /\ \E state \in ReadFrom(Answering(at.s)) :
          slavelist' = [slavelist EXCEPT ![at.s].state = state]
    /\ at' = IF MbxL(slavelist, at.s) > 0 THEN Asks(at, "two", Last + 1) ELSE Step("sii")
    /\ UNCHANGED <<ring, dev, cache, opened, connected, faults, spoiled, connects, changes>>

\* Mutant: slaves of one vendor are taken for one another.
TwinsByVendor(s) == {i \in 1..(s - 1) : Identity(i)[1] = Identity(s)[1]}

\* The slaves before this one that have its identity: what was read of the first
\* of them is taken for this one too.
Twins(s) == {i \in 1..(s - 1) : Identity(i) = Identity(s)}
First(set) == CHOOSE i \in set : \A j \in set : i <= j

\* The bytes that reading the sections needs next: of the first section that lacks any.
Missing(s) ==
    LET b == ClearedFor(s).bytes
        lacks(touched) == {a \in touched : a < MaxEepBuf} \ DOMAIN b
        general == lacks(GeneralTouched(b))
        name == lacks(NameTouched(b))
        sms == lacks(SMsTouched(b))
    IN  IF general # {} THEN general
        ELSE IF name # {} THEN name
        ELSE IF sms # {} THEN sms ELSE lacks(FMMUsTouched(b))

ReadSection ==
    /\ at.step = "sii" /\ Twins(at.s) = {} /\ Missing(at.s) # {}
    /\ cache' = ClearedFor(at.s)
    /\ at' = Asks(at, "whole", First(Missing(at.s)) \div 2)
    /\ UNCHANGED <<ring, dev, slavelist, opened, connected, faults, spoiled, connects, changes>>

\* The mailbox of a slave by its header, by its sync managers, or by default.
Mailbox(start, length, flags) == [start |-> start, length |-> length, flags |-> flags]
Headed(s) ==
    LET word(i) == slavelist[s].words[i]
    IN  IF MbxL(slavelist, s) = 0 THEN <<>>
        ELSE <<Mailbox(word(4)[1], word(4)[2], <<38, 1>>), Mailbox(word(5)[1], word(5)[2], <<34, 1>>)>>
SMsOver(headed, read) ==
    [n \in 1..(IF Len(read) > Len(headed) THEN Len(read) ELSE Len(headed)) |->
        IF n <= Len(read) THEN read[n] ELSE headed[n]]
Defaulted(s, sms) ==
    LET unset == Mailbox(0, 0, <<0, 0>>)
        default == <<Mailbox(4096, 128, <<38, 1>>), Mailbox(4224, 128, <<34, 1>>)>>
        both == SMsOver(<<unset, unset>>, sms)
    IN  IF MbxL(slavelist, s) = 0 THEN sms
        ELSE [n \in DOMAIN both |-> IF n <= 2 /\ both[n].start = 0 THEN default[n] ELSE both[n]]

SiiOf(s, b) ==
    [name |-> NameOf(b), general |-> GeneralOf(b), sms |-> SMsOver(Headed(s), SMsOf(b)),
     fmmus |-> FMMUsOf(b)]

SetSii ==
    LET s == at.s
        twins == Twins(s)
        sii == IF twins = {} THEN SiiOf(s, ClearedFor(s).bytes) ELSE slavelist[First(twins)].sii
    IN  /\ at.step = "sii" /\ (twins # {} \/ Missing(s) = {})
        /\ slavelist' = [slavelist EXCEPT ![s].sii = [sii EXCEPT !.sms = Defaulted(s, @)]]
        /\ at' = Step(IF MbxL(slavelist, s) > 0 THEN "mailbox" ELSE "pdi")
        /\ UNCHANGED <<ring, dev, cache, opened, connected, faults, spoiled, connects, changes>>

ProgramMailbox ==
    \E o \in Outcomes :
       LET sms == slavelist[at.s].sii.sms
           effect(d) == [d EXCEPT !.box = SubSeq(sms, 1, 2)]
       IN  /\ at.step = "mailbox" /\ Happens(o)
           /\ Written(o, Answering(at.s), effect)
           /\ Spoils(at.s, o = "lost")
           /\ at' = Step("pdi")
           /\ UNCHANGED <<ring, slavelist, cache, opened, connected, connects, changes>>

\* The EEPROM goes back to the device's processor, which may need it from here on.
EepromToPdi ==
    \E o \in Outcomes :
       LET to == Answering(at.s)
           wkc == Wkc(o, to)
           effect(d) == [d EXCEPT !.owner = "pdi"]
       IN  /\ at.step = "pdi" /\ Happens(o)
           /\ Written(o, to, effect)
           /\ IF Repeats(wkc) THEN at' = Again /\ UNCHANGED slavelist
              ELSE /\ at' = Step("preop")
                   /\ slavelist' = [slavelist EXCEPT ![at.s].pdi = TRUE]
           /\ UNCHANGED <<ring, cache, opened, connected, spoiled, connects, changes>>

RequestPreOp ==
    \E o \in Outcomes :
       LET effect(d) == [d EXCEPT !.req = PRE_OP]
       IN  /\ at.step = "preop" /\ Happens(o)
           /\ Written(o, Answering(at.s), effect)
           /\ at' = NextSlave(slavelist)
           /\ UNCHANGED <<ring, slavelist, cache, opened, connected, spoiled, connects, changes>>

\* The wait for PRE-OP in sa_open, whose result is not looked at either.
CheckPreOp ==
    /\ at.step = "check"
    /\ at' = Step("states")
    /\ UNCHANGED <<ring, dev, slavelist, cache, opened, connected, faults, spoiled, connects, changes>>

-----------------------------------------------------------------------------
(* The states of the slaves: sa_slaves, in ethercat_connect and ethercat_status.  *)

Low(state) == state % 16
Told(states) == slavelist' = [s \in 1..Count |-> [slavelist[s] EXCEPT !.state = states[s]]]

\* Mutant: and is left open.
ListedLeftOpen(lowest) ==
    at' = Idle /\ connected' = (lowest # 0 \/ (connected /\ at.why = "refresh")) /\ UNCHANGED opened

\* A connection whose slaves cannot be listed is closed again.
Listed(lowest) ==
    /\ at' = Idle
    /\ connected' = (lowest # 0 \/ (connected /\ at.why = "refresh"))
    /\ opened' = (lowest # 0 \/ at.why = "refresh")

\* One broadcast answers for all when its states, taken together, look like one
\* state, none has an error and as many answered as there are slaves.
Together == LET als == {dev[p].al : p \in Ring} IN IF als = {INIT, PRE_OP} THEN BOOT ELSE First(als)
Alike == (\A p \in Ring : ~dev[p].err) /\ Len(ring.kinds) >= Count

ReadStates ==
    \E o \in Outcomes :
       /\ at.step = "states" /\ Happens(o)
       /\ IF o = "done" /\ Alike
          THEN Told([s \in 1..Count |-> Together]) /\ Listed(Together)
          ELSE at' = Step("each") /\ UNCHANGED <<slavelist, opened, connected>>
       /\ UNCHANGED <<ring, dev, cache, spoiled, connects, changes>>

\* Otherwise one frame asks each slave; a slave that does not answer has state 0.
ReadEachState ==
    \E o \in Outcomes, states \in [1..Count -> {0, INIT, PRE_OP, INIT + 16, PRE_OP + 16}] :
       /\ at.step = "each" /\ Happens(o)
       /\ \A s \in 1..Count :
             states[s] \in IF o = "done" THEN ReadFrom(Answering(s)) ELSE {0}
       /\ Told(states)
       /\ Listed(First({Low(states[s]) : s \in 1..Count}))
       /\ UNCHANGED <<ring, dev, cache, spoiled, connects, changes>>

Refresh ==
    /\ at.step = "idle" /\ connected
    /\ at' = [Idle EXCEPT !.step = "states", !.why = "refresh"]
    /\ UNCHANGED <<ring, dev, slavelist, cache, opened, connected, faults, spoiled, connects, changes>>

Disconnect ==
    /\ at.step = "idle"
    /\ opened' = (opened /\ ~connected) /\ connected' = FALSE
    /\ UNCHANGED <<ring, dev, slavelist, cache, at, faults, spoiled, connects, changes>>

-----------------------------------------------------------------------------
(* The devices. What they do by themselves shows only while the master looks.     *)

Looked(p) ==
    CASE at.step = "init" -> p \in Answering(at.s)
      [] OTHER -> at.step \in {"check", "each"}

DeviceSettles(p) ==
    /\ Looked(p) /\ (dev[p].al # dev[p].req \/ dev[p].err)
    /\ \E refuses \in BOOLEAN :
          /\ Happens(IF refuses THEN "lost" ELSE "done")
          /\ refuses => ~dev[p].err
          /\ dev' = [dev EXCEPT ![p].al = IF refuses THEN @ ELSE dev[p].req, ![p].err = refuses]
    /\ UNCHANGED <<ring, slavelist, cache, at, opened, connected, spoiled, connects, changes>>

\* The EEPROM of a device loads the word, or does not answer the device.
DeviceLoads(p) ==
    /\ Polling /\ p \in Answering(at.s) /\ dev[p].busy
    /\ \E refuses \in BOOLEAN :
          /\ Happens(IF refuses THEN "lost" ELSE "done")
          /\ dev' = [dev EXCEPT ![p].busy = FALSE, ![p].nack = refuses,
                                ![p].word = IF refuses THEN @ ELSE dev[p].asked]
    /\ UNCHANGED <<ring, slavelist, cache, at, opened, connected, spoiled, connects, changes>>

\* Between the calls the ring is rebuilt of devices that were switched off, or one of
\* them restarts.
Changes == at.step = "idle" /\ changes < ring.changes /\ changes' = changes + 1
Rebuild ==
    /\ Changes /\ ring' \in {r \in Rings : Len(r.kinds) = Len(ring.kinds)}
    /\ dev' = [p \in 1..Len(ring'.kinds) |-> Fresh]
    /\ UNCHANGED <<slavelist, cache, at, opened, connected, faults, spoiled, connects>>

Restart(p) ==
    /\ Changes /\ dev' = [dev EXCEPT ![p] = Fresh]
    /\ UNCHANGED <<ring, slavelist, cache, at, opened, connected, faults, spoiled, connects>>

-----------------------------------------------------------------------------
Init ==
    /\ ring \in Rings
    /\ dev = [p \in Ring |-> Fresh]
    /\ slavelist = <<>> /\ cache = [slave |-> 0, bytes |-> NoBytes]
    /\ at = Idle /\ opened = FALSE /\ connected = FALSE
    /\ faults = 0 /\ spoiled = {} /\ connects = 0 /\ changes = 0

Eeprom ==
    \/ EepromIdle \/ EepromUnheard \/ EepromStaysBusy
    \/ ClearRefusal \/ CommandRead \/ TakeData

Next ==
    \/ Connect \/ Broadcast \/ CountSlaves
    \/ SetAddress \/ ReadAddress \/ ReadWidth \/ Eeprom
    \/ ReadTopology \/ CheckInit \/ ReadSection \/ SetSii
    \/ ProgramMailbox \/ EepromToPdi \/ RequestPreOp \/ CheckPreOp
    \/ ReadStates \/ ReadEachState \/ Refresh \/ Disconnect
    \/ \E p \in Ring : DeviceSettles(p) \/ DeviceLoads(p) \/ Restart(p)
    \/ Rebuild

Spec == Init /\ [][Next]_vars

-----------------------------------------------------------------------------
\* Type invariant: the devices' registers, the slaves and the place in the call; and
\* the library is open, between calls, just while the interface says so: a start that
\* failed on the way can be tried again.
TypeOK ==
    /\ ring \in Rings
    /\ \A p \in Ring : /\ dev[p].station \in 0..Len(ring.kinds) + 8 /\ dev[p].al \in {INIT, PRE_OP}
                       /\ dev[p].owner \in {"pdi", "forced", "master"}
    /\ at.pass \in 0..Last /\ at.tries \in 0..Retries /\ at.nacks \in 0..(MaxNacks - 1)
    /\ \A s \in 1..Count : slavelist[s].parent \in 0..(s - 1)
    /\ spoiled \subseteq Nat
    /\ at.step = "idle" => (opened <=> connected)

\* After a start, whatever the time-outs, refusals and repetitions of it: a slave is
\* known by the identity, the name, the details, the FMMUs and the sync managers of
\* the device at its place, and the device has its mailbox, unless an exchange with
\* that slave failed that nothing repeats, or with a slave that it is copied from.
Sure(s) == s \notin spoiled /\ Twins(s) \intersect spoiled = {}
KnownAsItIs ==
    at.step = "check" =>
       \A s \in 1..Count :
          LET kind == Kinds[ring.kinds[s]]
          IN  Sure(s) =>
                /\ Identity(s) = kind.says.identity
                /\ slavelist[s].sii = kind.says.sii
                /\ kind.says.box = dev[s].box

\* The parent found for a slave is the device that it is connected to.
ParentIsTrees ==
    at.step = "check" =>
       \A s \in 1..Count : (1..s) \intersect spoiled = {} => slavelist[s].parent = ring.parent[s]

\* A device that is asked to go to PRE-OP has its EEPROM back by then, and the master
\* does not take it again while the request stands: that takes as many lost exchanges
\* as an exchange is repeated, or as there are broadcasts of INIT.
EepromIsBack == faults < Retries => \A p \in Ring : dev[p].req = PRE_OP => dev[p].owner = "pdi"
====
