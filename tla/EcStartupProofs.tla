---- MODULE EcStartupProofs ----
(* A device that is asked for PRE-OP has its EEPROM back, and the types of the      *)
(* start-up, for any rings, kinds, wirings and bounds, with the clocks configured    *)
(* or not. The argument: the EEPROMs are taken by broadcasts that come behind three  *)
(* which ask for INIT, so a device that then still is asked for PRE-OP has heard     *)
(* none of the three; and a slave is asked for PRE-OP behind an exchange that is     *)
(* repeated until it counts or was lost four times.                                *)
EXTENDS EcClocks, FiniteSetTheorems, SequenceTheorems, WellFoundedInduction, TLAPS

Calling == {"init1", "init2", "count"}
Forcing == {"init3", "force", "release"}
Passing == {"address", "readback", "width", "ready", "status", "clear", "command", "data",
            "topology", "init", "sii", "mailbox", "pdi", "preop"}
Starting == Calling \union Forcing \union Passing \union {"check"}
AllSteps == Starting \union {"idle", "states", "each", "clock"}

AtFields == DOMAIN Idle
DevFields == DOMAIN Fresh
SlaveFields == DOMAIN NoSlave

\* A place in a call.
PlaceOK(a) ==
    /\ DOMAIN a = AtFields
    /\ a.step \in AllSteps /\ a.pass \in 0..Last /\ a.s \in Nat /\ a.op \in {"one", "two", "whole"}
    /\ a.tries \in 0..Retries /\ a.nacks \in 0..(MaxNacks - 1)
    /\ a.why \in {"connect", "refresh"}
    /\ a.step \in Starting => a.why = "connect"

DeviceOK(d, n) ==
    /\ DOMAIN d = DevFields
    /\ d.station \in 0..n + 8
    /\ d.al \in {INIT, PRE_OP} /\ d.req \in {INIT, PRE_OP}
    /\ d.owner \in {"pdi", "forced", "master"}

DevicesOK ==
    /\ Len(ring.kinds) \in Nat
    /\ DOMAIN dev = Ring
    /\ \A p \in Ring : DeviceOK(dev[p], Len(ring.kinds))

\* A list of slaves.
ListOK(list) ==
    /\ Len(list) \in Nat /\ DOMAIN list = 1..Len(list)
    /\ \A s \in 1..Len(list) : DOMAIN list[s] = SlaveFields /\ list[s].parent \in 0..(s - 1)

\* The slaves that are passed are those of the ring.
Counted ==
    /\ at.step \in Forcing \union Passing => Count = Len(ring.kinds) /\ Count > 0
    /\ at.step \in Passing => at.s \in 1..Count

\* The library is open during a start and after one.
Open ==
    /\ at.step = "idle" => (opened <=> connected) /\ at.why = "connect"
    /\ at.step # "idle" => opened
    /\ at.step \notin {"idle", "clock"} /\ at.why = "connect" => ~connected
    /\ at.step = "clock" \/ at.why = "refresh" => connected
    /\ connected \in BOOLEAN /\ opened \in BOOLEAN

TypeInv ==
    /\ ring \in Rings /\ PlaceOK(at) /\ DevicesOK /\ ListOK(slavelist) /\ Counted /\ Open
    /\ spoiled \subseteq Nat /\ faults \in Nat

-----------------------------------------------------------------------------
(* Functions with a domain from 1 on are sequences.                               *)

LEMMA LengthIs ==
    ASSUME NEW n \in Nat, NEW f, f = [i \in 1..n |-> f[i]]
    PROVE  Len(f) = n
<1> DEFINE T == {f[i] : i \in 1..n}
<1>1. f \in [1..n -> T]
      OBVIOUS
<1>2. f \in Seq(T)
      BY <1>1, IsASeq
<1>3. Len(f) \in Nat /\ DOMAIN f = 1..Len(f)
      BY <1>2, LenProperties
<1>4. 1..Len(f) = 1..n
      BY <1>1, <1>3
<1> QED
      BY <1>3, <1>4

LEMMA RingIs ==
    ASSUME NEW r \in Rings
    PROVE  Len(r.kinds) \in Nat
BY StartupAssumption, LenProperties

\* The largest of some numbers below s is one of them.
LEMMA LargestIs ==
    ASSUME NEW s \in Nat, NEW T \in SUBSET (1..(s - 1)), T # {}
    PROVE  (CHOOSE k \in T : \A j \in T : j <= k) \in T
<1> DEFINE U == {n \in Nat : n <= s /\ s - n \in T}
<1>1. PICK k \in T : TRUE
      OBVIOUS
<1>2. s - k \in U /\ U \subseteq Nat
      BY <1>1
<1> HIDE DEF U
<1>3. PICK n \in U : \A y \in U : ~ (<<y, n>> \in OpToRel(<, Nat))
      BY <1>2, NatLessThanWellFounded, WFMin
<1>4. \A y \in U : ~(y < n)
      BY <1>2, <1>3 DEF OpToRel
<1>5. s - n \in T
      BY DEF U
<1>6. \A j \in T : j <= s - n
  <2> SUFFICES ASSUME NEW j \in T PROVE j <= s - n
      OBVIOUS
  <2>1. s - j \in U
        BY DEF U
  <2>2. ~(s - j < n)
        BY <1>4, <2>1
  <2> QED
        BY <2>2, <1>2
<1> QED
      BY <1>5, <1>6

-----------------------------------------------------------------------------
(* Where a call goes.                                                              *)

LEMMA FieldsAre ==
    AtFields = {"step", "pass", "s", "op", "item", "tries", "nacks", "why"}
BY DEF AtFields, Idle

LEMMA StepIs ==
    ASSUME PlaceOK(at), NEW name \in AllSteps, name \in Starting => at.why = "connect"
    PROVE  /\ PlaceOK(Step(name)) /\ Step(name).step = name
           /\ Step(name).s = at.s /\ Step(name).why = at.why /\ Step(name).tries = 0
<1>1. DOMAIN Step(name) = AtFields
      BY DEF PlaceOK, Step
<1>2. /\ Step(name).step = name /\ Step(name).s = at.s /\ Step(name).why = at.why
      /\ Step(name).tries = 0 /\ Step(name).pass = at.pass /\ Step(name).op = at.op
      /\ Step(name).nacks = at.nacks
      BY FieldsAre DEF PlaceOK, Step
<1> QED
      BY <1>1, <1>2 DEF PlaceOK, Retries

LEMMA AsksIs ==
    ASSUME NEW a, PlaceOK(a), a.why = "connect", NEW op \in {"one", "two", "whole"}, NEW item
    PROVE  /\ PlaceOK(Asks(a, op, item)) /\ Asks(a, op, item).step \in {"ready", "status"}
           /\ Asks(a, op, item).s = a.s /\ Asks(a, op, item).why = "connect"
<1> DEFINE b == Asks(a, op, item)
<1>1. DOMAIN b = AtFields
      BY DEF PlaceOK, Asks
<1>2. /\ b.step = (IF op = "two" THEN "status" ELSE "ready") /\ b.op = op /\ b.tries = 0
      /\ b.nacks = 0 /\ b.s = a.s /\ b.pass = a.pass /\ b.why = a.why
      BY FieldsAre DEF PlaceOK, Asks
<1>3. b.step \in {"ready", "status"} /\ b.step \in AllSteps
      BY <1>2 DEF AllSteps, Starting, Passing
<1> HIDE DEF b
<1>4. PlaceOK(b)
      BY <1>1, <1>2, <1>3 DEF PlaceOK, Retries, MaxNacks
<1> QED
      BY <1>2, <1>3, <1>4 DEF b

\* Steps of the passes that take no EEPROM back.
Quiet == Passing \ {"pdi", "preop"}

LEMMA BeginsIs ==
    ASSUME NEW list, PlaceOK(at), at.why = "connect", NEW pass \in 0..Last, NEW s \in Nat
    PROVE  LET b == Begins(list, pass, s)
           IN  PlaceOK(b) /\ b.step \in Quiet /\ b.s = s /\ b.why = "connect"
<1> DEFINE a == [at EXCEPT !.pass = pass, !.s = s, !.tries = 0]
<1>1. DOMAIN a = AtFields
      BY DEF PlaceOK
<1>2. /\ a.step = at.step /\ a.op = at.op /\ a.tries = 0
      /\ a.nacks = at.nacks /\ a.s = s /\ a.pass = pass /\ a.why = at.why
      BY FieldsAre DEF PlaceOK
<1> HIDE DEF a
<1>3. PlaceOK(a)
      BY <1>1, <1>2 DEF PlaceOK, Retries
<1>4. \A op \in {"one", "two", "whole"}, i \in 0..Last :
         /\ PlaceOK(Asks(a, op, i)) /\ Asks(a, op, i).step \in Quiet
         /\ Asks(a, op, i).s = s /\ Asks(a, op, i).why = "connect"
      BY <1>2, <1>3, AsksIs DEF Quiet, Passing
<1>5. \A name \in {"address", "topology"} :
         LET b == [a EXCEPT !.step = name]
         IN  PlaceOK(b) /\ b.step \in Quiet /\ b.s = s /\ b.why = "connect"
  <2> SUFFICES ASSUME NEW name \in {"address", "topology"}
               PROVE  LET b == [a EXCEPT !.step = name]
                      IN  PlaceOK(b) /\ b.step \in Quiet /\ b.s = s /\ b.why = "connect"
      OBVIOUS
  <2> DEFINE b == [a EXCEPT !.step = name]
  <2>1. /\ DOMAIN b = AtFields /\ b.step = name /\ b.op = a.op /\ b.tries = a.tries
        /\ b.nacks = a.nacks /\ b.s = a.s /\ b.pass = a.pass /\ b.why = a.why
        BY <1>1, FieldsAre
  <2>2. name \in Quiet /\ name \in AllSteps
        BY DEF Quiet, Passing, AllSteps, Starting
  <2> HIDE DEF b
  <2>3. PlaceOK(b)
        BY <2>1, <2>2, <1>2, <1>3 DEF PlaceOK
  <2> QED
        BY <2>1, <2>2, <2>3, <1>2 DEF b
<1>6. Begins(list, pass, s) = CASE pass = 0 -> [a EXCEPT !.step = "address"]
          [] pass \in 1..(Last - 1) -> Asks(a, "two", pass)
          [] pass = Last -> IF MbxL(list, s) > 0 THEN Asks(a, "two", Last)
                            ELSE [a EXCEPT !.step = "topology"]
      BY DEF Begins, a
<1>7. CASE pass = 0
  <2>1. Begins(list, pass, s) = [a EXCEPT !.step = "address"]
        BY <1>6, <1>7 DEF Last
  <2> QED
        BY <1>5, <2>1
<1>8. CASE pass \in 1..(Last - 1)
  <2>1. Begins(list, pass, s) = Asks(a, "two", pass)
        BY <1>6, <1>8
  <2> QED
        BY <1>4, <2>1
<1>9. CASE pass = Last
  <2>1. Begins(list, pass, s) = IF MbxL(list, s) > 0 THEN Asks(a, "two", Last)
                                ELSE [a EXCEPT !.step = "topology"]
        BY <1>6, <1>9 DEF Last
  <2>2. CASE MbxL(list, s) > 0
    <3>1. Begins(list, pass, s) = Asks(a, "two", Last)
          BY <2>1, <2>2
    <3> QED
          BY <1>4, <3>1 DEF Last
  <2>3. CASE ~(MbxL(list, s) > 0)
    <3>1. Begins(list, pass, s) = [a EXCEPT !.step = "topology"]
          BY <2>1, <2>3
    <3> QED
          BY <1>5, <3>1
  <2> QED
        BY <2>2, <2>3
<1> QED
      BY <1>7, <1>8, <1>9 DEF Last

\* What follows a slave's part of a pass, or a word of it, for n slaves.
Goes(a, n) ==
    /\ PlaceOK(a) /\ a.why = "connect" /\ a.step \in Quiet \union {"check"}
    /\ a.step \in Quiet => a.s \in 1..n

LEMMA StepGoes ==
    ASSUME PlaceOK(at), at.why = "connect", NEW n \in Nat, at.s \in 1..n,
           NEW name \in Quiet \union {"check"}
    PROVE  Goes(Step(name), n)
<1>1. name \in AllSteps
      BY DEF Quiet, AllSteps, Starting
<1> QED
      BY <1>1, StepIs DEF Goes

LEMMA NextSlaveIs ==
    ASSUME NEW list, Len(list) \in Nat, PlaceOK(at), at.why = "connect", at.s \in 1..Len(list)
    PROVE  Goes(NextSlave(list), Len(list))
<1>1. at.pass \in 0..Last
      BY DEF PlaceOK
<1>2. CASE at.s < Len(list)
  <2>1. at.s + 1 \in 1..Len(list) /\ NextSlave(list) = Begins(list, at.pass, at.s + 1)
        BY <1>2 DEF NextSlave
  <2>2. at.s + 1 \in Nat
        OBVIOUS
  <2> QED
        BY <1>1, <2>1, <2>2, BeginsIs DEF Goes
<1>3. CASE ~(at.s < Len(list)) /\ at.pass < Last
  <2>1. at.pass + 1 \in 0..Last
        BY <1>1, <1>3 DEF Last
  <2>2. NextSlave(list) = Begins(list, at.pass + 1, 1) /\ 1 \in Nat /\ 1 \in 1..Len(list)
        BY <1>3 DEF NextSlave
  <2> QED
        BY <2>1, <2>2, BeginsIs DEF Goes
<1>4. CASE ~(at.s < Len(list)) /\ ~(at.pass < Last)
  <2>1. NextSlave(list) = Step("check")
        BY <1>4 DEF NextSlave
  <2> QED
        BY <2>1, StepGoes
<1> QED
      BY <1>2, <1>3, <1>4

LEMMA AsksGoes ==
    ASSUME PlaceOK(at), at.why = "connect", NEW n \in Nat, at.s \in 1..n,
           NEW op \in {"one", "two", "whole"}, NEW item
    PROVE  Goes(Asks(at, op, item), n)
BY AsksIs DEF Goes, Quiet, Passing

LEMMA TakenIs ==
    ASSUME NEW list, Len(list) \in Nat, PlaceOK(at), at.why = "connect", at.s \in 1..Len(list)
    PROVE  Goes(Taken(list), Len(list))
<1>1. CASE at.item = Last + 1
  <2>1. Taken(list) = Step("sii") /\ "sii" \in Quiet
        BY <1>1 DEF Taken, Quiet, Passing
  <2> QED
        BY <2>1, StepGoes
<1>2. CASE at.item # Last + 1 /\ at.pass = Last - 1 /\ MbxL(list, at.s) = 0
  <2>1. Taken(list) = NextSlave(list)
        BY <1>2 DEF Taken
  <2> QED
        BY <2>1, NextSlaveIs
<1>3. CASE at.item # Last + 1 /\ ~(at.pass = Last - 1 /\ MbxL(list, at.s) = 0)
  <2>1. Taken(list) = Asks(at, "one", at.item + 1)
        BY <1>3 DEF Taken
  <2> QED
        BY <2>1, AsksGoes
<1> QED
      BY <1>1, <1>2, <1>3

-----------------------------------------------------------------------------
(* What is noted of a slave.                                                      *)

LEMMA SlaveFieldsAre ==
    SlaveFields = {"configadr", "r64", "pdi", "topology", "parent", "state", "words", "sii"}
BY DEF SlaveFields, NoSlave

LEMMA ListNotes ==
    ASSUME ListOK(slavelist), NEW s \in 1..Count, NEW r, DOMAIN r = SlaveFields,
           r.parent \in 0..(s - 1)
    PROVE  LET list == [slavelist EXCEPT ![s] = r]
           IN  ListOK(list) /\ Len(list) = Count
<1> DEFINE list == [slavelist EXCEPT ![s] = r]
<1>1. list = [i \in 1..Count |-> IF i = s THEN r ELSE slavelist[i]]
      BY DEF ListOK, Count
<1> HIDE DEF list
<1>2. Count \in Nat /\ list = [i \in 1..Count |-> list[i]] /\ DOMAIN list = 1..Count
      BY <1>1 DEF ListOK, Count
<1>3. Len(list) = Count
      BY <1>2, LengthIs
<1>4. \A i \in 1..Count : DOMAIN list[i] = SlaveFields /\ list[i].parent \in 0..(i - 1)
      BY <1>1 DEF ListOK, Count
<1> QED
      BY <1>2, <1>3, <1>4 DEF ListOK, list

\* Another detail of a slave than its parent.
LEMMA DetailNotes ==
    ASSUME ListOK(slavelist), NEW s \in 1..Count, NEW v,
           NEW f \in SlaveFields \ {"parent"}
    PROVE  LET list == [slavelist EXCEPT ![s] = [@ EXCEPT ![f] = v]]
           IN  ListOK(list) /\ Len(list) = Count
<1> DEFINE r == [slavelist[s] EXCEPT ![f] = v]
<1>1. DOMAIN r = SlaveFields /\ r.parent = slavelist[s].parent
      BY SlaveFieldsAre DEF ListOK, Count
<1>2. r.parent \in 0..(s - 1)
      BY <1>1 DEF ListOK, Count
<1>3. [slavelist EXCEPT ![s] = [@ EXCEPT ![f] = v]] = [slavelist EXCEPT ![s] = r]
      OBVIOUS
<1> HIDE DEF r
<1> QED
      BY <1>1, <1>2, <1>3, ListNotes

LEMMA TookIs ==
    ASSUME ListOK(slavelist), NEW s \in 1..Count, NEW data
    PROVE  ListOK(Took(s, data)) /\ Len(Took(s, data)) = Count
<1>1. PICK word : Took(s, data) = [slavelist EXCEPT ![s].words[at.item] = word]
      BY DEF Took
<1> DEFINE words == [slavelist[s].words EXCEPT ![at.item] = word]
<1>2. [slavelist EXCEPT ![s].words[at.item] = word] =
         [slavelist EXCEPT ![s] = [@ EXCEPT !["words"] = words]]
      OBVIOUS
<1>3. "words" \in SlaveFields \ {"parent"}
      BY SlaveFieldsAre
<1> HIDE DEF words
<1>4. LET list == [slavelist EXCEPT ![s] = [@ EXCEPT !["words"] = words]]
      IN  ListOK(list) /\ Len(list) = Count
      BY <1>3, DetailNotes
<1> QED
      BY <1>1, <1>2, <1>4

\* What the end of a word leaves.
EndsWell == Goes(at', Count) /\ ListOK(slavelist') /\ Len(slavelist') = Count

\* The part of the invariant that an action within the passes reads.
Within == PlaceOK(at) /\ at.why = "connect" /\ at.s \in 1..Count /\ ListOK(slavelist)

LEMMA EndsAre ==
    ASSUME Within, NEW data, Ends(data)
    PROVE  EndsWell
<1>1. Count \in Nat /\ Count = Len(slavelist)
      BY DEF Within, ListOK, Count
<1>2. at.op \in {"one", "two", "whole"}
      BY DEF Within, PlaceOK
<1>3. CASE at.op = "one"
  <2>1. at' = (IF at.pass = Last THEN Step("topology") ELSE NextSlave(slavelist))
        /\ UNCHANGED slavelist
        BY <1>3 DEF Ends
  <2>2. Goes(Step("topology"), Count)
        BY <1>1, StepGoes DEF Within, Quiet, Passing
  <2>3. Goes(NextSlave(slavelist), Count)
        BY <1>1, NextSlaveIs DEF Within
  <2> QED
        BY <1>1, <2>1, <2>2, <2>3 DEF EndsWell, Within
<1>4. CASE at.op = "two"
  <2>1. slavelist' = Took(at.s, data) /\ at' = Taken(slavelist')
        BY <1>4 DEF Ends
  <2>2. ListOK(slavelist') /\ Len(slavelist') = Count
        BY <2>1, TookIs DEF Within
  <2>3. Goes(Taken(slavelist'), Count)
        BY <1>1, <2>2, TakenIs DEF Within
  <2> QED
        BY <2>1, <2>2, <2>3 DEF EndsWell
<1>5. CASE at.op = "whole"
  <2>1. at' = Step("sii") /\ UNCHANGED slavelist
        BY <1>5 DEF Ends
  <2>2. Goes(Step("sii"), Count)
        BY <1>1, StepGoes DEF Within, Quiet, Passing
  <2> QED
        BY <1>1, <2>1, <2>2 DEF EndsWell, Within
<1> QED
      BY <1>2, <1>3, <1>4, <1>5

\* A step of the same word, with its refusals counted.
LEMMA SameWord ==
    ASSUME Within, NEW name \in Quiet, NEW nacks \in 0..(MaxNacks - 1),
           at' = [Step(name) EXCEPT !.nacks = nacks], UNCHANGED slavelist
    PROVE  EndsWell
<1>1. Count \in Nat /\ Count = Len(slavelist)
      BY DEF Within, ListOK, Count
<1>2. Goes(Step(name), Count)
      BY <1>1, StepGoes DEF Within
<1>3. /\ DOMAIN at' = AtFields /\ at'.nacks = nacks
      /\ at'.step = Step(name).step /\ at'.pass = Step(name).pass /\ at'.s = Step(name).s
      /\ at'.op = Step(name).op /\ at'.tries = Step(name).tries /\ at'.why = Step(name).why
      BY <1>2, FieldsAre DEF Goes, PlaceOK
<1>4. Goes(at', Count)
      BY <1>2, <1>3 DEF Goes, PlaceOK
<1> QED
      BY <1>1, <1>4 DEF EndsWell, Within

LEMMA EndsOrAgainAre ==
    ASSUME Within, NEW nacks, NEW data, EndsOrAgain(nacks, data)
    PROVE  EndsWell
<1>1. CASE at.op = "whole" /\ nacks \in 1..(MaxNacks - 1)
  <2>1. at' = [Step("command") EXCEPT !.nacks = nacks] /\ UNCHANGED slavelist
        BY <1>1 DEF EndsOrAgain
  <2>2. "command" \in Quiet /\ nacks \in 0..(MaxNacks - 1)
        BY <1>1 DEF Quiet, Passing, MaxNacks
  <2> QED
        BY <2>1, <2>2, SameWord
<1>2. CASE ~(at.op = "whole" /\ nacks \in 1..(MaxNacks - 1))
      BY <1>2, EndsAre DEF EndsOrAgain
<1> QED
      BY <1>1, <1>2

LEMMA IdlesAre ==
    ASSUME Within, NEW nack, Idles(nack)
    PROVE  EndsWell
<1>1. Count \in Nat /\ Count = Len(slavelist)
      BY DEF Within, ListOK, Count
<1>2. CASE at.step = "ready"
  <2>1. PICK name \in {"clear", "command"} : at' = Step(name) /\ UNCHANGED slavelist
        BY <1>2 DEF Idles
  <2>2. Goes(at', Count)
        BY <1>1, <2>1, StepGoes DEF Within, Quiet, Passing
  <2> QED
        BY <1>1, <2>1, <2>2 DEF EndsWell, Within
<1>3. CASE at.step # "ready" /\ at.op = "whole" /\ nack
      BY <1>3, EndsOrAgainAre DEF Idles
<1>4. CASE at.step # "ready" /\ ~(at.op = "whole" /\ nack)
  <2>1. at' = [Step("data") EXCEPT !.nacks = 0] /\ UNCHANGED slavelist
        BY <1>4 DEF Idles
  <2>2. "data" \in Quiet /\ 0 \in 0..(MaxNacks - 1)
        BY DEF Quiet, Passing, MaxNacks
  <2> QED
        BY <2>1, <2>2, SameWord
<1> QED
      BY <1>2, <1>3, <1>4

\* A try that is repeated.
LEMMA AgainIs ==
    ASSUME PlaceOK(at), at.tries < Retries
    PROVE  /\ PlaceOK(Again) /\ Again.step = at.step /\ Again.s = at.s /\ Again.why = at.why
           /\ Again.tries = at.tries + 1
<1>1. /\ DOMAIN Again = AtFields /\ Again.tries = at.tries + 1
      /\ Again.step = at.step /\ Again.pass = at.pass /\ Again.s = at.s
      /\ Again.op = at.op /\ Again.nacks = at.nacks /\ Again.why = at.why
      BY FieldsAre DEF Again, PlaceOK
<1>2. at.tries + 1 \in 0..Retries
      BY DEF PlaceOK, Retries
<1> QED
      BY <1>1, <1>2 DEF PlaceOK

-----------------------------------------------------------------------------
(* The registers of a device.                                                     *)

LEMMA DevFieldsAre ==
    DevFields = {"station", "al", "err", "req", "owner", "busy", "asked", "word", "nack", "box"}
BY DEF DevFields, Fresh

LEMMA FreshIs ==
    ASSUME NEW n \in Nat
    PROVE  DeviceOK(Fresh, n) /\ Fresh.req = INIT /\ Fresh.owner = "pdi"
<1>1. DOMAIN Fresh = DevFields
      BY DEF DevFields
<1>2. Fresh.station = 0 /\ Fresh.al = INIT /\ Fresh.req = INIT /\ Fresh.owner = "pdi"
      BY DEF Fresh
<1> QED
      BY <1>1, <1>2 DEF DeviceOK

\* A write of registers that the EEPROM's way back does not depend on.
LEMMA MildWrite ==
    ASSUME NEW n \in Nat, NEW d, DeviceOK(d, n), NEW e, DOMAIN e = DevFields,
           e.station = d.station, e.al = d.al, e.req = d.req, e.owner = d.owner
    PROVE  DeviceOK(e, n)
BY DEF DeviceOK

LEMMA StationWrite ==
    ASSUME NEW n \in Nat, NEW d, DeviceOK(d, n), NEW v \in 0..n + 8
    PROVE  LET e == [d EXCEPT !.station = v]
           IN  DeviceOK(e, n) /\ e.req = d.req /\ e.owner = d.owner
<1> DEFINE e == [d EXCEPT !.station = v]
<1>1. /\ DOMAIN e = DevFields /\ e.station = v /\ e.al = d.al /\ e.req = d.req
      /\ e.owner = d.owner
      BY DevFieldsAre DEF DeviceOK
<1> HIDE DEF e
<1>2. DeviceOK(e, n)
      BY <1>1 DEF DeviceOK
<1> QED
      BY <1>1, <1>2 DEF e

LEMMA StateWrite ==
    ASSUME NEW n \in Nat, NEW d, DeviceOK(d, n), NEW v \in {INIT, PRE_OP}
    PROVE  LET e == [d EXCEPT !.al = v]
           IN  DeviceOK(e, n) /\ e.req = d.req /\ e.owner = d.owner
<1> DEFINE e == [d EXCEPT !.al = v]
<1>1. /\ DOMAIN e = DevFields /\ e.station = d.station /\ e.al = v /\ e.req = d.req
      /\ e.owner = d.owner
      BY DevFieldsAre DEF DeviceOK
<1> HIDE DEF e
<1>2. DeviceOK(e, n)
      BY <1>1 DEF DeviceOK
<1> QED
      BY <1>1, <1>2 DEF e

LEMMA RequestWrite ==
    ASSUME NEW n \in Nat, NEW d, DeviceOK(d, n), NEW v \in {INIT, PRE_OP}
    PROVE  LET e == [d EXCEPT !.req = v]
           IN  DeviceOK(e, n) /\ e.req = v /\ e.owner = d.owner
<1> DEFINE e == [d EXCEPT !.req = v]
<1>1. /\ DOMAIN e = DevFields /\ e.station = d.station /\ e.al = d.al /\ e.req = v
      /\ e.owner = d.owner
      BY DevFieldsAre DEF DeviceOK
<1> HIDE DEF e
<1>2. DeviceOK(e, n)
      BY <1>1 DEF DeviceOK
<1> QED
      BY <1>1, <1>2 DEF e

LEMMA OwnerWrite ==
    ASSUME NEW n \in Nat, NEW d, DeviceOK(d, n), NEW v \in {"pdi", "forced", "master"}
    PROVE  LET e == [d EXCEPT !.owner = v]
           IN  DeviceOK(e, n) /\ e.req = d.req /\ e.owner = v
<1> DEFINE e == [d EXCEPT !.owner = v]
<1>1. /\ DOMAIN e = DevFields /\ e.station = d.station /\ e.al = d.al /\ e.req = d.req
      /\ e.owner = v
      BY DevFieldsAre DEF DeviceOK
<1> HIDE DEF e
<1>2. DeviceOK(e, n)
      BY <1>1 DEF DeviceOK
<1> QED
      BY <1>1, <1>2 DEF e

-----------------------------------------------------------------------------
(* The way of the EEPROM back.                                                    *)

\* A device that is still asked for PRE-OP has heard none of the requests of INIT so
\* far, each of which was a lost exchange.
InitsLost ==
    \A p \in Ring : dev[p].req = PRE_OP =>
       /\ at.step = "init2" => faults >= 1
       /\ at.step \in {"count", "init3"} => faults >= 2
       /\ at.step = "force" => faults >= 3

\* The tries of an exchange that a device did not hear were lost.
TriesLost ==
    \A p \in Answering(at.s) : dev[p].owner # "pdi" =>
       /\ at.step = "pdi" => faults >= at.tries
       /\ at.step = "preop" => faults > Retries

BackInv == EepromIsBack /\ InitsLost /\ TriesLost

\* A step that is no part of this.
LEMMA Bystands ==
    ASSUME TypeInv, BackInv, UNCHANGED ring, faults' \in Nat, faults' >= faults,
           \A p \in Ring : dev'[p].req = dev[p].req /\ dev'[p].owner = dev[p].owner,
           at'.step \notin {"init2", "count", "init3", "force", "preop"},
           at'.step = "pdi" => at'.tries = 0
    PROVE  BackInv'
<1>1. Ring' = Ring
      BY DEF Ring
<1>2. EepromIsBack'
      BY <1>1 DEF EepromIsBack, BackInv, TypeInv, Retries
<1>3. InitsLost'
      BY <1>1 DEF InitsLost
<1>4. TriesLost'
      BY DEF TriesLost
<1> QED
      BY <1>2, <1>3, <1>4 DEF BackInv

-----------------------------------------------------------------------------
(* The steps of the passes.                                                       *)

\* What a step of the passes leaves.
PassesWell ==
    /\ UNCHANGED <<ring, opened, connected>>
    /\ PlaceOK(at') /\ at'.why = "connect" /\ at'.step \in Passing \union {"check"}
    /\ at'.step \in Passing => at'.s \in 1..Count
    /\ ListOK(slavelist') /\ Len(slavelist') = Count
    /\ DevicesOK' /\ spoiled' \subseteq Nat /\ faults' \in Nat

LEMMA PassingTypes ==
    ASSUME TypeInv, at.step \in Passing, PassesWell
    PROVE  TypeInv'
<1>1. Count > 0 /\ Count = Len(ring.kinds) /\ at.why = "connect" /\ opened /\ ~connected
      BY DEF TypeInv, Counted, Open, Passing, PlaceOK, Starting
<1>2. Count' = Count
      BY DEF Count, PassesWell
<1>3. Counted'
      BY <1>1, <1>2 DEF Counted, PassesWell, Passing, Forcing
<1>4. Open'
      BY <1>1 DEF Open, PassesWell, Passing, TypeInv
<1> QED
      BY <1>3, <1>4 DEF TypeInv, PassesWell

LEMMA GoesWell ==
    ASSUME EndsWell
    PROVE  /\ PlaceOK(at') /\ at'.why = "connect" /\ at'.step \in Passing \union {"check"}
           /\ at'.step \in Passing => at'.s \in 1..Count
           /\ ListOK(slavelist') /\ Len(slavelist') = Count
           /\ at'.step \in Quiet \union {"check"}
BY DEF EndsWell, Goes, Quiet, Passing

LEMMA PassingIsWithin ==
    ASSUME TypeInv, at.step \in Passing
    PROVE  Within /\ Count \in Nat /\ Count = Len(ring.kinds)
BY DEF TypeInv, Counted, PlaceOK, Starting, Within, ListOK, Count

\* What a lost exchange adds to the faults, and what is noted of a slave.
LEMMA HappensIs ==
    ASSUME faults \in Nat, NEW o, Happens(o)
    PROVE  faults' \in Nat /\ faults' >= faults /\ (o # "done" => faults' = faults + 1)
BY DEF Happens

LEMMA SpoilsIs ==
    ASSUME spoiled \subseteq Nat, NEW s \in Nat, NEW bad, Spoils(s, bad)
    PROVE  spoiled' \subseteq Nat
BY DEF Spoils

LEMMA DevicesStay ==
    ASSUME DevicesOK, UNCHANGED <<ring, dev>>
    PROVE  DevicesOK' /\ \A p \in Ring : dev'[p].req = dev[p].req /\ dev'[p].owner = dev[p].owner
BY DEF DevicesOK, Ring

\* An exchange that writes no request and no owner.
LEMMA DevicesMild ==
    ASSUME DevicesOK, UNCHANGED ring, DOMAIN dev' = Ring,
           \A p \in Ring : /\ DeviceOK(dev'[p], Len(ring.kinds))
                           /\ dev'[p].req = dev[p].req /\ dev'[p].owner = dev[p].owner
    PROVE  DevicesOK' /\ \A p \in Ring : dev'[p].req = dev[p].req /\ dev'[p].owner = dev[p].owner
BY DEF DevicesOK, Ring

\* An action of the passes that gives no EEPROM back and asks for no state.
Inv == TypeInv /\ BackInv

LEMMA MildStep ==
    ASSUME Inv, at.step \in Passing, PassesWell, faults' >= faults,
           \A p \in Ring : dev'[p].req = dev[p].req /\ dev'[p].owner = dev[p].owner,
           at'.step # "preop", at'.step = "pdi" => at'.tries = 0
    PROVE  Inv'
<1>1. TypeInv'
      BY PassingTypes DEF Inv
<1>2. at'.step \notin {"init2", "count", "init3", "force", "preop"}
      BY DEF PassesWell, Passing
<1>3. BackInv'
      BY <1>2, Bystands DEF Inv, PassesWell
<1> QED
      BY <1>1, <1>3 DEF Inv

LEMMA WordStep ==
    ASSUME Inv, at.step \in Passing, UNCHANGED <<ring, opened, connected>>, EndsWell,
           faults' \in Nat, faults' >= faults, spoiled' \subseteq Nat, DevicesOK',
           \A p \in Ring : dev'[p].req = dev[p].req /\ dev'[p].owner = dev[p].owner
    PROVE  Inv'
<1>1. PassesWell
      BY GoesWell DEF PassesWell
<1>2. at'.step # "preop" /\ at'.step # "pdi"
      BY GoesWell DEF Quiet
<1> QED
      BY <1>1, <1>2, MildStep

LEMMA StepEnds ==
    ASSUME Within, NEW name \in Quiet \union {"check"}, at' = Step(name),
           ListOK(slavelist'), Len(slavelist') = Count
    PROVE  EndsWell
BY StepGoes DEF EndsWell, Within, ListOK, Count

LEMMA AsksEnds ==
    ASSUME Within, NEW op \in {"one", "two", "whole"}, NEW item, at' = Asks(at, op, item),
           ListOK(slavelist'), Len(slavelist') = Count
    PROVE  EndsWell
BY AsksGoes DEF EndsWell, Within, ListOK, Count

LEMMA SlavesStay ==
    ASSUME Within, UNCHANGED slavelist
    PROVE  ListOK(slavelist') /\ Len(slavelist') = Count
BY DEF Within, Count

LEMMA SetAddressKeeps ==
    ASSUME Inv, SetAddress
    PROVE  Inv'
<1>1. PICK o \in Outcomes :
         /\ at.step = "address" /\ Happens(o)
         /\ dev' = IF o = "lost" THEN dev
                   ELSE [p \in Ring |-> IF p \in {at.s} \intersect Ring
                                        THEN [dev[p] EXCEPT !.station = at.s] ELSE dev[p]]
         /\ at' = Step("readback")
         /\ UNCHANGED <<ring, slavelist, opened, connected, spoiled>>
      BY DEF SetAddress, Written
<1>2. at.step \in Passing /\ "readback" \in Quiet
      BY <1>1 DEF Passing, Quiet
<1>3. Within /\ Count \in Nat /\ Count = Len(ring.kinds)
      BY <1>2, PassingIsWithin DEF Inv
<1>4. faults' \in Nat /\ faults' >= faults
      BY <1>1, HappensIs DEF Inv, TypeInv
<1>5. EndsWell
      BY <1>1, <1>2, <1>3, SlavesStay, StepEnds
<1>6. DevicesOK /\ spoiled' \subseteq Nat
      BY <1>1 DEF Inv, TypeInv
<1>7. CASE o = "lost"
  <2>1. UNCHANGED <<ring, dev>>
        BY <1>1, <1>7
  <2> QED
        BY <2>1, <1>1, <1>2, <1>4, <1>5, <1>6, DevicesStay, WordStep
<1>8. CASE o # "lost"
  <2>1. dev' = [p \in Ring |-> IF p \in {at.s} \intersect Ring
                               THEN [dev[p] EXCEPT !.station = at.s] ELSE dev[p]]
        BY <1>1, <1>8
  <2>2. at.s \in 0..Len(ring.kinds) + 8
        BY <1>3 DEF Within
  <2>3. \A p \in Ring : LET e == [dev[p] EXCEPT !.station = at.s]
                        IN  DeviceOK(e, Len(ring.kinds)) /\ e.req = dev[p].req /\ e.owner = dev[p].owner
        BY <1>6, <2>2, StationWrite DEF DevicesOK
  <2>4. \A p \in Ring : /\ DeviceOK(dev'[p], Len(ring.kinds))
                        /\ dev'[p].req = dev[p].req /\ dev'[p].owner = dev[p].owner
        BY <1>6, <2>1, <2>3 DEF DevicesOK
  <2>5. DOMAIN dev' = Ring
        BY <2>1
  <2>6. DevicesOK' /\ \A p \in Ring : dev'[p].req = dev[p].req /\ dev'[p].owner = dev[p].owner
        BY <1>1, <1>6, <2>4, <2>5, DevicesMild
  <2> QED
        BY <2>6, <1>1, <1>2, <1>4, <1>5, <1>6, WordStep
<1> QED
      BY <1>7, <1>8

LEMMA ReadAddressKeeps ==
    ASSUME Inv, ReadAddress
    PROVE  Inv'
<1>1. PICK o, station :
         /\ at.step = "readback" /\ Happens(o)
         /\ slavelist' = [slavelist EXCEPT ![at.s].configadr = station]
         /\ Spoils(at.s, station # at.s)
         /\ at' = Step("width")
         /\ UNCHANGED <<ring, dev, opened, connected>>
      BY DEF ReadAddress
<1>2. at.step \in Passing /\ "width" \in Quiet
      BY <1>1 DEF Passing, Quiet
<1>3. Within
      BY <1>2, PassingIsWithin DEF Inv
<1>4. faults' \in Nat /\ faults' >= faults
      BY <1>1, HappensIs DEF Inv, TypeInv
<1>5. LET list == [slavelist EXCEPT ![at.s] = [@ EXCEPT !["configadr"] = station]]
      IN  ListOK(list) /\ Len(list) = Count
      BY <1>3, SlaveFieldsAre, DetailNotes DEF Within
<1>6. ListOK(slavelist') /\ Len(slavelist') = Count
      BY <1>1, <1>5
<1>7. EndsWell
      BY <1>1, <1>2, <1>3, <1>6, StepEnds
<1>8. spoiled' \subseteq Nat
      BY <1>1, <1>3, SpoilsIs DEF Inv, TypeInv, PlaceOK
<1>9. DevicesOK' /\ \A p \in Ring : dev'[p].req = dev[p].req /\ dev'[p].owner = dev[p].owner
      BY <1>1, DevicesStay DEF Inv, TypeInv
<1> QED
      BY <1>1, <1>2, <1>4, <1>7, <1>8, <1>9, WordStep

LEMMA ReadWidthKeeps ==
    ASSUME Inv, ReadWidth
    PROVE  Inv'
<1>1. PICK o, wide, bad :
         /\ at.step = "width" /\ Happens(o)
         /\ slavelist' = [slavelist EXCEPT ![at.s].r64 = wide]
         /\ Spoils(at.s, bad)
         /\ at' = Asks(at, "one", 1)
         /\ UNCHANGED <<ring, dev, opened, connected>>
      BY DEF ReadWidth
<1>2. at.step \in Passing
      BY <1>1 DEF Passing
<1>3. Within
      BY <1>2, PassingIsWithin DEF Inv
<1>4. faults' \in Nat /\ faults' >= faults
      BY <1>1, HappensIs DEF Inv, TypeInv
<1>5. LET list == [slavelist EXCEPT ![at.s] = [@ EXCEPT !["r64"] = wide]]
      IN  ListOK(list) /\ Len(list) = Count
      BY <1>3, SlaveFieldsAre, DetailNotes DEF Within
<1>6. ListOK(slavelist') /\ Len(slavelist') = Count
      BY <1>1, <1>5
<1>7. EndsWell
      BY <1>1, <1>3, <1>6, AsksEnds
<1>8. spoiled' \subseteq Nat
      BY <1>1, <1>3, SpoilsIs DEF Inv, TypeInv, PlaceOK
<1>9. DevicesOK' /\ \A p \in Ring : dev'[p].req = dev[p].req /\ dev'[p].owner = dev[p].owner
      BY <1>1, DevicesStay DEF Inv, TypeInv
<1> QED
      BY <1>1, <1>2, <1>4, <1>7, <1>8, <1>9, WordStep

\* A poll of the EEPROM, and what else of a word writes nothing to a device.
LEMMA ReadStep ==
    ASSUME Inv, at.step \in Quiet, NEW bad, Spoils(at.s, bad), EndsWell,
           UNCHANGED <<ring, dev, opened, connected>>, faults' \in Nat, faults' >= faults
    PROVE  Inv'
<1>1. at.step \in Passing
      BY DEF Quiet
<1>2. spoiled' \subseteq Nat
      BY SpoilsIs DEF Inv, TypeInv, PlaceOK
<1>3. DevicesOK' /\ \A p \in Ring : dev'[p].req = dev[p].req /\ dev'[p].owner = dev[p].owner
      BY DevicesStay DEF Inv, TypeInv
<1> QED
      BY <1>1, <1>2, <1>3, WordStep

LEMMA QuietIsWithin ==
    ASSUME Inv, at.step \in Quiet
    PROVE  /\ Within /\ Count \in Nat /\ Count = Len(ring.kinds) /\ faults \in Nat
           /\ at.step \in Passing
BY PassingIsWithin DEF Inv, Quiet, TypeInv

LEMMA EepromIdleKeeps ==
    ASSUME Inv, EepromIdle
    PROVE  Inv'
<1>1. PICK nack, bad :
         /\ Polling /\ Idles(nack) /\ Spoils(at.s, bad)
         /\ UNCHANGED <<ring, dev, opened, connected, faults>>
      BY DEF EepromIdle
<1>2. at.step \in Quiet
      BY <1>1 DEF Polling, Quiet, Passing
<1>3. Within /\ faults' \in Nat /\ faults' >= faults
      BY <1>1, <1>2, QuietIsWithin
<1>4. EndsWell
      BY <1>1, <1>3, IdlesAre
<1> QED
      BY <1>1, <1>2, <1>3, <1>4, ReadStep

LEMMA EepromUnheardKeeps ==
    ASSUME Inv, EepromUnheard
    PROVE  Inv'
<1>1. PICK o, expired :
         /\ Polling /\ Happens(o) /\ Spoils(at.s, expired)
         /\ IF expired THEN Idles(FALSE) ELSE UNCHANGED <<at, slavelist>>
         /\ UNCHANGED <<ring, dev, opened, connected>>
      BY DEF EepromUnheard
<1>2. at.step \in Quiet
      BY <1>1 DEF Polling, Quiet, Passing
<1>3. Within /\ faults \in Nat
      BY <1>2, QuietIsWithin
<1>4. faults' \in Nat /\ faults' >= faults
      BY <1>1, <1>3, HappensIs
<1>5. EndsWell
  <2>1. CASE expired
        BY <1>1, <1>3, <2>1, IdlesAre
  <2>2. CASE ~expired
    <3>1. UNCHANGED <<at, slavelist>>
          BY <1>1, <2>2
    <3> QED
          BY <3>1, <1>2, <1>3 DEF EndsWell, Goes, Within, Count
  <2> QED
        BY <2>1, <2>2
<1> QED
      BY <1>1, <1>2, <1>4, <1>5, ReadStep

LEMMA EepromStaysBusyKeeps ==
    ASSUME Inv, EepromStaysBusy
    PROVE  Inv'
<1>1. /\ Polling /\ Happens("lost") /\ Spoils(at.s, TRUE)
      /\ EndsOrAgain(at.nacks, Zeros)
      /\ UNCHANGED <<ring, dev, opened, connected>>
      BY DEF EepromStaysBusy
<1>2. at.step \in Quiet
      BY <1>1 DEF Polling, Quiet, Passing
<1>3. Within /\ faults \in Nat
      BY <1>2, QuietIsWithin
<1>4. faults' \in Nat /\ faults' >= faults
      BY <1>1, <1>3, HappensIs
<1>5. EndsWell
      BY <1>1, <1>3, EndsOrAgainAre
<1> QED
      BY <1>1, <1>2, <1>4, <1>5, ReadStep

\* The same exchange again.
LEMMA AgainEnds ==
    ASSUME Within, at.step \in Quiet, at.tries < Retries, at' = Again, UNCHANGED slavelist
    PROVE  EndsWell
BY AgainIs, SlavesStay DEF EndsWell, Goes, Within

LEMMA TakeDataKeeps ==
    ASSUME Inv, TakeData
    PROVE  Inv'
<1>1. PICK o, wkc, bad, data :
         /\ at.step = "data" /\ Happens(o) /\ Spoils(at.s, bad)
         /\ \/ Repeats(wkc) /\ at' = Again /\ UNCHANGED slavelist
            \/ Ends(data)
         /\ UNCHANGED <<ring, dev, opened, connected>>
      BY DEF TakeData
<1>2. at.step \in Quiet
      BY <1>1 DEF Quiet, Passing
<1>3. Within /\ faults \in Nat
      BY <1>2, QuietIsWithin
<1>4. faults' \in Nat /\ faults' >= faults
      BY <1>1, <1>3, HappensIs
<1>5. CASE Repeats(wkc) /\ at' = Again /\ UNCHANGED slavelist
  <2>1. at.tries < Retries
        BY <1>5 DEF Repeats
  <2>2. EndsWell
        BY <1>2, <1>3, <1>5, <2>1, AgainEnds
  <2> QED
        BY <1>1, <1>2, <1>4, <2>2, ReadStep
<1>6. CASE Ends(data)
  <2>1. EndsWell
        BY <1>3, <1>6, EndsAre
  <2> QED
        BY <1>1, <1>2, <1>4, <2>1, ReadStep
<1> QED
      BY <1>1, <1>5, <1>6

\* An exchange that writes mildly to some devices, or to none.
LEMMA MildExchange ==
    ASSUME DevicesOK, UNCHANGED ring, NEW e, NEW to,
           \A p \in Ring : /\ DeviceOK(e[p], Len(ring.kinds))
                           /\ e[p].req = dev[p].req /\ e[p].owner = dev[p].owner,
           dev' = dev \/ dev' = [p \in Ring |-> IF p \in to THEN e[p] ELSE dev[p]]
    PROVE  DevicesOK' /\ \A p \in Ring : dev'[p].req = dev[p].req /\ dev'[p].owner = dev[p].owner
<1>1. CASE dev' = dev
      BY <1>1, DevicesStay
<1>2. CASE dev' = [p \in Ring |-> IF p \in to THEN e[p] ELSE dev[p]]
  <2>1. \A p \in Ring : dev'[p] = e[p] \/ dev'[p] = dev[p]
        BY <1>2
  <2>2. \A p \in Ring : /\ DeviceOK(dev'[p], Len(ring.kinds))
                        /\ dev'[p].req = dev[p].req /\ dev'[p].owner = dev[p].owner
        BY <2>1 DEF DevicesOK
  <2>3. DOMAIN dev' = Ring
        BY <1>2
  <2> QED
        BY <2>2, <2>3, DevicesMild
<1> QED
      BY <1>1, <1>2

LEMMA ClearRefusalKeeps ==
    ASSUME Inv, ClearRefusal
    PROVE  Inv'
<1> DEFINE e == [p \in Ring |-> [dev[p] EXCEPT !.nack = FALSE]]
<1>1. PICK o :
         /\ at.step = "clear" /\ Happens(o)
         /\ dev' = IF o = "lost" THEN dev
                   ELSE [p \in Ring |-> IF p \in Answering(at.s) THEN [dev[p] EXCEPT !.nack = FALSE]
                                        ELSE dev[p]]
         /\ at' = Step("command")
         /\ UNCHANGED <<ring, slavelist, opened, connected, spoiled>>
      BY DEF ClearRefusal, Written
<1>2. at.step \in Quiet /\ "command" \in Quiet
      BY <1>1 DEF Quiet, Passing
<1>3. Within /\ faults \in Nat /\ at.step \in Passing
      BY <1>2, QuietIsWithin
<1>4. faults' \in Nat /\ faults' >= faults
      BY <1>1, <1>3, HappensIs
<1>5. EndsWell
      BY <1>1, <1>2, <1>3, SlavesStay, StepEnds
<1>6. DevicesOK /\ spoiled' \subseteq Nat
      BY <1>1 DEF Inv, TypeInv
<1>7. \A p \in Ring : /\ DeviceOK(e[p], Len(ring.kinds))
                      /\ e[p].req = dev[p].req /\ e[p].owner = dev[p].owner
  <2> SUFFICES ASSUME NEW p \in Ring
               PROVE  /\ DeviceOK(e[p], Len(ring.kinds))
                      /\ e[p].req = dev[p].req /\ e[p].owner = dev[p].owner
      OBVIOUS
  <2>1. DeviceOK(dev[p], Len(ring.kinds)) /\ Len(ring.kinds) \in Nat
        BY <1>6 DEF DevicesOK
  <2>2. /\ DOMAIN e[p] = DevFields /\ e[p].station = dev[p].station /\ e[p].al = dev[p].al
        /\ e[p].req = dev[p].req /\ e[p].owner = dev[p].owner
        BY <2>1, DevFieldsAre DEF DeviceOK
  <2> QED
        BY <2>1, <2>2, MildWrite
<1>8. dev' = dev \/ dev' = [p \in Ring |-> IF p \in Answering(at.s) THEN e[p] ELSE dev[p]]
      BY <1>1
<1> HIDE DEF e
<1>9. DevicesOK' /\ \A p \in Ring : dev'[p].req = dev[p].req /\ dev'[p].owner = dev[p].owner
      BY <1>1, <1>6, <1>7, <1>8, MildExchange
<1> QED
      BY <1>1, <1>3, <1>4, <1>5, <1>6, <1>9, WordStep

LEMMA CommandReadKeeps ==
    ASSUME Inv, CommandRead
    PROVE  Inv'
<1> DEFINE busy(d) == [d EXCEPT !.busy = TRUE, !.asked = Wanted, !.nack = FALSE]
           e == [p \in Ring |-> IF dev[p].owner = "master" /\ ~dev[p].busy THEN busy(dev[p]) ELSE dev[p]]
<1>1. PICK o, wkc, bad :
         /\ at.step = "command" /\ Happens(o) /\ Spoils(at.s, bad)
         /\ dev' = dev \/ dev' = [p \in Ring |-> IF p \in Answering(at.s) THEN e[p] ELSE dev[p]]
         /\ \/ Repeats(wkc) /\ at' = Again /\ UNCHANGED slavelist
            \/ Ends(Zeros)
            \/ EndsOrAgain(at.nacks, Zeros)
            \/ at' = Step("status") /\ UNCHANGED slavelist
         /\ UNCHANGED <<ring, opened, connected>>
  <2>1. PICK o \in Outcomes :
         LET to == Answering(at.s)
             wkc == Wkc(o, to)
         IN  /\ at.step = "command" /\ Happens(o)
             /\ dev' = IF o = "lost" THEN dev
                       ELSE [p \in Ring |-> IF p \in to THEN
                               IF dev[p].owner = "master" /\ ~dev[p].busy THEN busy(dev[p]) ELSE dev[p]
                             ELSE dev[p]]
             /\ Spoils(at.s, wkc <= 0 /\ ~Repeats(wkc))
             /\ IF Repeats(wkc) THEN at' = Again /\ UNCHANGED <<slavelist, cache>>
                ELSE IF at.op = "one" THEN Ends(Zeros)
                ELSE IF wkc = 0 THEN EndsOrAgain(at.nacks, Zeros)
                ELSE at' = Step("status") /\ UNCHANGED <<slavelist, cache>>
             /\ UNCHANGED <<ring, opened, connected>>
        BY DEF CommandRead, Written
  <2> HIDE DEF busy
  <2>2. dev' = dev \/ dev' = [p \in Ring |-> IF p \in Answering(at.s) THEN e[p] ELSE dev[p]]
        BY <2>1
  <2> HIDE DEF e
  <2> QED
        BY <2>1, <2>2
<1>2. at.step \in Quiet /\ "status" \in Quiet
      BY <1>1 DEF Quiet, Passing
<1>3. Within /\ faults \in Nat /\ at.step \in Passing
      BY <1>2, QuietIsWithin
<1>4. faults' \in Nat /\ faults' >= faults
      BY <1>1, <1>3, HappensIs
<1>5. EndsWell
  <2>1. CASE Repeats(wkc) /\ at' = Again /\ UNCHANGED slavelist
        BY <1>2, <1>3, <2>1, AgainEnds DEF Repeats
  <2>2. CASE Ends(Zeros)
        BY <1>3, <2>2, EndsAre
  <2>3. CASE EndsOrAgain(at.nacks, Zeros)
        BY <1>3, <2>3, EndsOrAgainAre
  <2>4. CASE at' = Step("status") /\ UNCHANGED slavelist
        BY <1>2, <1>3, <2>4, SlavesStay, StepEnds
  <2> QED
        BY <1>1, <2>1, <2>2, <2>3, <2>4
<1>6. DevicesOK /\ spoiled' \subseteq Nat
      BY <1>1, <1>3, SpoilsIs DEF Inv, TypeInv, PlaceOK
<1>7. \A p \in Ring : /\ DeviceOK(e[p], Len(ring.kinds))
                      /\ e[p].req = dev[p].req /\ e[p].owner = dev[p].owner
  <2> SUFFICES ASSUME NEW p \in Ring
               PROVE  /\ DeviceOK(e[p], Len(ring.kinds))
                      /\ e[p].req = dev[p].req /\ e[p].owner = dev[p].owner
      OBVIOUS
  <2>1. DeviceOK(dev[p], Len(ring.kinds)) /\ Len(ring.kinds) \in Nat
        BY <1>6 DEF DevicesOK
  <2>2. LET b == busy(dev[p])
        IN  /\ DOMAIN b = DevFields /\ b.station = dev[p].station /\ b.al = dev[p].al
            /\ b.req = dev[p].req /\ b.owner = dev[p].owner
        BY <2>1, DevFieldsAre DEF DeviceOK
  <2> HIDE DEF busy
  <2>3. DeviceOK(busy(dev[p]), Len(ring.kinds))
        BY <2>1, <2>2, MildWrite
  <2>4. e[p] = dev[p] \/ e[p] = busy(dev[p])
        OBVIOUS
  <2> HIDE DEF e
  <2> QED
        BY <2>1, <2>2, <2>3, <2>4
<1> HIDE DEF e
<1>9. DevicesOK' /\ \A p \in Ring : dev'[p].req = dev[p].req /\ dev'[p].owner = dev[p].owner
      BY <1>1, <1>6, <1>7, MildExchange
<1> QED
      BY <1>1, <1>3, <1>4, <1>5, <1>6, <1>9, WordStep

LEMMA ParentIs ==
    ASSUME NEW links, NEW s \in Nat \ {0}
    PROVE  ParentOf(links, s) \in 0..(s - 1)
<1>1. CASE s = 1
      BY <1>1 DEF ParentOf
<1>2. CASE s # 1
  <2> DEFINE found == {k \in 1..(s - 1) : k = 1 \/ (Balance(links, s, k) >= 0 /\ links[k] > 1)}
  <2>1. ParentOf(links, s) = CHOOSE k \in found : \A j \in found : j <= k
        BY <1>2 DEF ParentOf
  <2>2. found \in SUBSET (1..(s - 1)) /\ 1 \in found
        BY <1>2
  <2> HIDE DEF found
  <2>3. (CHOOSE k \in found : \A j \in found : j <= k) \in found
        BY <2>2, LargestIs
  <2>4. ParentOf(links, s) \in 1..(s - 1)
        BY <2>1, <2>2, <2>3
  <2> QED
        BY <2>4
<1> QED
      BY <1>1, <1>2

LEMMA ReadTopologyKeeps ==
    ASSUME Inv, ReadTopology
    PROVE  Inv'
<1>1. PICK o, links, known, bad :
         /\ at.step = "topology" /\ Happens(o)
         /\ slavelist' = [slavelist EXCEPT ![at.s].topology = links,
                                           ![at.s].parent = ParentOf(known, at.s)]
         /\ Spoils(at.s, bad)
         /\ at' = Step("init")
         /\ UNCHANGED <<ring, dev, opened, connected>>
      BY DEF ReadTopology
<1>2. at.step \in Quiet /\ "init" \in Quiet
      BY <1>1 DEF Quiet, Passing
<1>3. Within /\ faults \in Nat
      BY <1>2, QuietIsWithin
<1>4. faults' \in Nat /\ faults' >= faults
      BY <1>1, <1>3, HappensIs
<1> DEFINE r == [slavelist[at.s] EXCEPT !.topology = links, !.parent = ParentOf(known, at.s)]
<1>5. DOMAIN r = SlaveFields /\ r.parent = ParentOf(known, at.s)
      BY <1>3, SlaveFieldsAre DEF Within, ListOK, Count
<1>6. r.parent \in 0..(at.s - 1)
      BY <1>3, <1>5, ParentIs DEF Within
<1>7. slavelist' = [slavelist EXCEPT ![at.s] = r]
      BY <1>1
<1> HIDE DEF r
<1>8. ListOK(slavelist') /\ Len(slavelist') = Count
      BY <1>3, <1>5, <1>6, <1>7, ListNotes DEF Within
<1>9. EndsWell
      BY <1>1, <1>2, <1>3, <1>8, StepEnds
<1> QED
      BY <1>1, <1>2, <1>4, <1>9, ReadStep

LEMMA CheckInitKeeps ==
    ASSUME Inv, CheckInit
    PROVE  Inv'
<1>1. PICK state :
         /\ at.step = "init"
         /\ slavelist' = [slavelist EXCEPT ![at.s].state = state]
         /\ at' = IF MbxL(slavelist, at.s) > 0 THEN Asks(at, "two", Last + 1) ELSE Step("sii")
         /\ UNCHANGED <<ring, dev, opened, connected, faults, spoiled>>
      BY DEF CheckInit
<1>2. at.step \in Quiet /\ "sii" \in Quiet
      BY <1>1 DEF Quiet, Passing
<1>3. Within /\ faults' \in Nat /\ faults' >= faults /\ at.step \in Passing
      BY <1>1, <1>2, QuietIsWithin
<1>4. LET list == [slavelist EXCEPT ![at.s] = [@ EXCEPT !["state"] = state]]
      IN  ListOK(list) /\ Len(list) = Count
      BY <1>3, SlaveFieldsAre, DetailNotes DEF Within
<1>5. ListOK(slavelist') /\ Len(slavelist') = Count
      BY <1>1, <1>4
<1>6. EndsWell
  <2>1. CASE MbxL(slavelist, at.s) > 0
    <3>1. at' = Asks(at, "two", Last + 1)
          BY <1>1, <2>1
    <3> QED
          BY <3>1, <1>3, <1>5, AsksEnds
  <2>2. CASE ~(MbxL(slavelist, at.s) > 0)
    <3>1. at' = Step("sii")
          BY <1>1, <2>2
    <3> QED
          BY <3>1, <1>2, <1>3, <1>5, StepEnds
  <2> QED
        BY <2>1, <2>2
<1>7. DevicesOK' /\ \A p \in Ring : dev'[p].req = dev[p].req /\ dev'[p].owner = dev[p].owner
      BY <1>1, DevicesStay DEF Inv, TypeInv
<1>8. spoiled' \subseteq Nat
      BY <1>1 DEF Inv, TypeInv
<1> QED
      BY <1>1, <1>3, <1>6, <1>7, <1>8, WordStep

LEMMA ReadSectionKeeps ==
    ASSUME Inv, ReadSection
    PROVE  Inv'
<1>1. PICK item :
         /\ at.step = "sii"
         /\ at' = Asks(at, "whole", item)
         /\ UNCHANGED <<ring, dev, slavelist, opened, connected, faults, spoiled>>
      BY DEF ReadSection
<1>2. at.step \in Quiet
      BY <1>1 DEF Quiet, Passing
<1>3. Within /\ faults' \in Nat /\ faults' >= faults /\ at.step \in Passing
      BY <1>1, <1>2, QuietIsWithin
<1>4. ListOK(slavelist') /\ Len(slavelist') = Count
      BY <1>1, <1>3, SlavesStay
<1>5. EndsWell
      BY <1>1, <1>3, <1>4, AsksEnds
<1>6. DevicesOK' /\ \A p \in Ring : dev'[p].req = dev[p].req /\ dev'[p].owner = dev[p].owner
      BY <1>1, DevicesStay DEF Inv, TypeInv
<1>7. spoiled' \subseteq Nat
      BY <1>1 DEF Inv, TypeInv
<1> QED
      BY <1>1, <1>3, <1>5, <1>6, <1>7, WordStep

\* A step towards the mailbox or the way back of the EEPROM.
LEMMA StepPasses ==
    ASSUME Within, NEW name \in Passing, at' = Step(name),
           UNCHANGED <<ring, opened, connected>>, ListOK(slavelist'), Len(slavelist') = Count,
           DevicesOK', spoiled' \subseteq Nat, faults' \in Nat
    PROVE  PassesWell /\ at'.step = name /\ at'.tries = 0
<1>1. name \in AllSteps
      BY DEF AllSteps, Starting
<1> QED
      BY <1>1, StepIs DEF Within, PassesWell

LEMMA SetSiiKeeps ==
    ASSUME Inv, SetSii
    PROVE  Inv'
<1>1. PICK sii :
         /\ at.step = "sii"
         /\ slavelist' = [slavelist EXCEPT ![at.s].sii = sii]
         /\ at' = Step(IF MbxL(slavelist, at.s) > 0 THEN "mailbox" ELSE "pdi")
         /\ UNCHANGED <<ring, dev, opened, connected, faults, spoiled>>
      BY DEF SetSii
<1>2. at.step \in Quiet
      BY <1>1 DEF Quiet, Passing
<1>3. Within /\ faults' \in Nat /\ faults' >= faults /\ at.step \in Passing
      BY <1>1, <1>2, QuietIsWithin
<1>4. LET list == [slavelist EXCEPT ![at.s] = [@ EXCEPT !["sii"] = sii]]
      IN  ListOK(list) /\ Len(list) = Count
      BY <1>3, SlaveFieldsAre, DetailNotes DEF Within
<1>5. ListOK(slavelist') /\ Len(slavelist') = Count
      BY <1>1, <1>4
<1>6. DevicesOK' /\ \A p \in Ring : dev'[p].req = dev[p].req /\ dev'[p].owner = dev[p].owner
      BY <1>1, DevicesStay DEF Inv, TypeInv
<1>7. spoiled' \subseteq Nat
      BY <1>1 DEF Inv, TypeInv
<1>8. PICK name \in {"mailbox", "pdi"} : at' = Step(name)
      BY <1>1
<1>9. name \in Passing
      BY <1>8 DEF Passing
<1>10. PassesWell /\ at'.step = name /\ at'.tries = 0
      BY <1>1, <1>3, <1>5, <1>6, <1>7, <1>8, <1>9, StepPasses
<1> QED
      BY <1>3, <1>6, <1>8, <1>10, MildStep

LEMMA ProgramMailboxKeeps ==
    ASSUME Inv, ProgramMailbox
    PROVE  Inv'
<1> DEFINE box == SubSeq(slavelist[at.s].sii.sms, 1, 2)
           e == [p \in Ring |-> [dev[p] EXCEPT !.box = box]]
<1>1. PICK o :
         /\ at.step = "mailbox" /\ Happens(o)
         /\ dev' = IF o = "lost" THEN dev
                   ELSE [p \in Ring |-> IF p \in Answering(at.s) THEN [dev[p] EXCEPT !.box = box]
                                        ELSE dev[p]]
         /\ Spoils(at.s, o = "lost")
         /\ at' = Step("pdi")
         /\ UNCHANGED <<ring, slavelist, opened, connected>>
      BY DEF ProgramMailbox, Written
<1>2. at.step \in Quiet /\ "pdi" \in Passing
      BY <1>1 DEF Quiet, Passing
<1>3. Within /\ faults \in Nat /\ at.step \in Passing
      BY <1>2, QuietIsWithin
<1>4. faults' \in Nat /\ faults' >= faults
      BY <1>1, <1>3, HappensIs
<1>5. DevicesOK /\ spoiled' \subseteq Nat
      BY <1>1, <1>3, SpoilsIs DEF Inv, TypeInv, PlaceOK
<1> HIDE DEF box
<1>6. \A p \in Ring : /\ DeviceOK(e[p], Len(ring.kinds))
                      /\ e[p].req = dev[p].req /\ e[p].owner = dev[p].owner
  <2> SUFFICES ASSUME NEW p \in Ring
               PROVE  /\ DeviceOK(e[p], Len(ring.kinds))
                      /\ e[p].req = dev[p].req /\ e[p].owner = dev[p].owner
      OBVIOUS
  <2>1. DeviceOK(dev[p], Len(ring.kinds)) /\ Len(ring.kinds) \in Nat
        BY <1>5 DEF DevicesOK
  <2>2. /\ DOMAIN e[p] = DevFields /\ e[p].station = dev[p].station /\ e[p].al = dev[p].al
        /\ e[p].req = dev[p].req /\ e[p].owner = dev[p].owner
        BY <2>1, DevFieldsAre DEF DeviceOK
  <2> QED
        BY <2>1, <2>2, MildWrite
<1>7. dev' = dev \/ dev' = [p \in Ring |-> IF p \in Answering(at.s) THEN e[p] ELSE dev[p]]
      BY <1>1
<1> HIDE DEF e
<1>8. DevicesOK' /\ \A p \in Ring : dev'[p].req = dev[p].req /\ dev'[p].owner = dev[p].owner
      BY <1>1, <1>5, <1>6, <1>7, MildExchange
<1>9. ListOK(slavelist') /\ Len(slavelist') = Count
      BY <1>1, <1>3, SlavesStay
<1>10. PassesWell /\ at'.step = "pdi" /\ at'.tries = 0
      BY <1>1, <1>2, <1>3, <1>4, <1>5, <1>8, <1>9, StepPasses
<1> QED
      BY <1>3, <1>4, <1>8, <1>10, MildStep

LEMMA EepromToPdiKeeps ==
    ASSUME Inv, EepromToPdi
    PROVE  Inv'
<1> DEFINE to == Answering(at.s)
           given(d) == [d EXCEPT !.owner = "pdi"]
<1>1. PICK o \in Outcomes :
         /\ at.step = "pdi" /\ Happens(o)
         /\ dev' = IF o = "lost" THEN dev
                   ELSE [p \in Ring |-> IF p \in to THEN given(dev[p]) ELSE dev[p]]
         /\ IF Repeats(Wkc(o, to)) THEN at' = Again /\ UNCHANGED slavelist
            ELSE at' = Step("preop") /\ slavelist' = [slavelist EXCEPT ![at.s].pdi = TRUE]
         /\ UNCHANGED <<ring, opened, connected, spoiled>>
      BY DEF EepromToPdi, Written
<1>2. at.step \in Passing /\ "preop" \in Passing
      BY <1>1 DEF Passing
<1>3. Within /\ DevicesOK /\ spoiled' \subseteq Nat /\ faults \in Nat
      BY <1>1, <1>2, PassingIsWithin DEF Inv, TypeInv
<1>4. faults' \in Nat /\ faults' >= faults /\ (o = "lost" => faults' = faults + 1)
      BY <1>1, <1>3, HappensIs
<1>5. \A p \in Ring : /\ DeviceOK(given(dev[p]), Len(ring.kinds)) /\ given(dev[p]).owner = "pdi"
                      /\ given(dev[p]).req = dev[p].req /\ given(dev[p]).station = dev[p].station
  <2> SUFFICES ASSUME NEW p \in Ring
               PROVE  /\ DeviceOK(given(dev[p]), Len(ring.kinds)) /\ given(dev[p]).owner = "pdi"
                      /\ given(dev[p]).req = dev[p].req /\ given(dev[p]).station = dev[p].station
      OBVIOUS
  <2>1. DeviceOK(dev[p], Len(ring.kinds)) /\ Len(ring.kinds) \in Nat
        BY <1>3 DEF DevicesOK
  <2>2. given(dev[p]).station = dev[p].station
        BY <2>1, DevFieldsAre DEF DeviceOK
  <2> QED
        BY <2>1, <2>2, OwnerWrite
<1> HIDE DEF given
<1>6. /\ DOMAIN dev' = Ring
      /\ \A p \in Ring : /\ DeviceOK(dev'[p], Len(ring.kinds))
                         /\ dev'[p].req = dev[p].req /\ dev'[p].station = dev[p].station
                         /\ dev'[p].owner = "pdi" \/ dev'[p].owner = dev[p].owner
                         /\ p \in to /\ dev'[p].owner # "pdi" => o = "lost" /\ dev[p].owner # "pdi"
  <2>1. CASE o = "lost"
    <3>1. dev' = dev
          BY <1>1, <2>1
    <3> QED
          BY <1>3, <2>1, <3>1 DEF DevicesOK
  <2>2. CASE o # "lost"
    <3>1. dev' = [p \in Ring |-> IF p \in to THEN given(dev[p]) ELSE dev[p]]
          BY <1>1, <2>2
    <3> HIDE DEF to
    <3> SUFFICES ASSUME NEW p \in Ring
                 PROVE  /\ DeviceOK(dev'[p], Len(ring.kinds))
                        /\ dev'[p].req = dev[p].req /\ dev'[p].station = dev[p].station
                        /\ dev'[p].owner = "pdi" \/ dev'[p].owner = dev[p].owner
                        /\ ~(p \in to /\ dev'[p].owner # "pdi")
        BY <3>1
    <3>2. CASE p \in to
      <4>1. dev'[p] = given(dev[p])
            BY <3>1, <3>2
      <4> QED
            BY <1>5, <4>1
    <3>3. CASE p \notin to
      <4>1. dev'[p] = dev[p]
            BY <3>1, <3>3
      <4> QED
            BY <1>3, <3>3, <4>1 DEF DevicesOK
    <3> QED
          BY <3>2, <3>3
  <2> QED
        BY <2>1, <2>2
<1>7. Ring' = Ring
      BY <1>1 DEF Ring
<1>8. DevicesOK'
      BY <1>1, <1>3, <1>6, <1>7 DEF DevicesOK
<1>9. EepromIsBack'
      BY <1>3, <1>4, <1>6, <1>7 DEF EepromIsBack, Inv, BackInv, Retries
<1>10. CASE Repeats(Wkc(o, to))
  <2>1. at' = Again /\ UNCHANGED slavelist /\ at.tries < Retries
        BY <1>1, <1>10 DEF Repeats
  <2>2. /\ PlaceOK(at') /\ at'.step = "pdi" /\ at'.s = at.s /\ at'.why = "connect"
        /\ at'.tries = at.tries + 1
        BY <1>1, <1>3, <2>1, AgainIs DEF Within
  <2>3. ListOK(slavelist') /\ Len(slavelist') = Count
        BY <1>3, <2>1, SlavesStay
  <2>4. PassesWell
        BY <1>1, <1>2, <1>3, <1>4, <1>8, <2>2, <2>3 DEF PassesWell, Within
  <2>5. Answering(at.s)' = to
        BY <1>6, <1>7, <2>1, <2>2 DEF Answering
  <2>6. TriesLost'
    <3> HIDE DEF to
    <3> SUFFICES ASSUME NEW p \in to, dev'[p].owner # "pdi"
                 PROVE  faults' >= at'.tries
        BY <2>2, <2>5 DEF TriesLost
    <3>1. p \in Ring
          BY DEF to, Answering
    <3>2. o = "lost" /\ dev[p].owner # "pdi"
          BY <1>6, <3>1
    <3>3. faults >= at.tries
          BY <1>1, <3>2 DEF Inv, BackInv, TriesLost, to
    <3>4. at.tries \in Nat
          BY <1>3 DEF Within, PlaceOK
    <3> QED
          BY <1>3, <1>4, <2>2, <3>2, <3>3, <3>4
  <2>7. InitsLost'
        BY <2>2 DEF InitsLost
  <2> QED
        BY <1>2, <1>9, <2>4, <2>6, <2>7, PassingTypes DEF Inv, BackInv
<1>11. CASE ~Repeats(Wkc(o, to))
  <2>1. at' = Step("preop") /\ slavelist' = [slavelist EXCEPT ![at.s].pdi = TRUE]
        BY <1>1, <1>11
  <2>2. LET list == [slavelist EXCEPT ![at.s] = [@ EXCEPT !["pdi"] = TRUE]]
        IN  ListOK(list) /\ Len(list) = Count
        BY <1>3, SlaveFieldsAre, DetailNotes DEF Within
  <2>3. ListOK(slavelist') /\ Len(slavelist') = Count
        BY <2>1, <2>2
  <2>4. PassesWell /\ at'.step = "preop" /\ at'.tries = 0
        BY <1>1, <1>2, <1>3, <1>4, <1>8, <2>1, <2>3, StepPasses
  <2>5. at'.s = at.s
        BY <1>3, <2>1, FieldsAre DEF Step, Within, PlaceOK
  <2>6. slavelist'[at.s].configadr = slavelist[at.s].configadr
        BY <1>3, <2>1, SlaveFieldsAre DEF Within, ListOK, Count
  <2>7. Answering(at.s)' = to
        BY <1>6, <1>7, <2>5, <2>6 DEF Answering
  <2>8. TriesLost'
    <3> HIDE DEF to
    <3> SUFFICES ASSUME NEW p \in to, dev'[p].owner # "pdi"
                 PROVE  faults' > Retries
        BY <2>4, <2>7 DEF TriesLost
    <3>1. p \in Ring
          BY DEF to, Answering
    <3>2. o = "lost" /\ dev[p].owner # "pdi"
          BY <1>6, <3>1
    <3>3. faults >= at.tries
          BY <1>1, <3>2 DEF Inv, BackInv, TriesLost, to
    <3>4. ~(at.tries < Retries)
          BY <1>11, <3>2 DEF Repeats, Wkc
    <3>5. at.tries \in Nat
          BY <1>3 DEF Within, PlaceOK
    <3> QED
          BY <1>3, <1>4, <3>2, <3>3, <3>4, <3>5 DEF Retries
  <2>9. InitsLost'
        BY <2>4 DEF InitsLost
  <2> QED
        BY <1>2, <1>9, <2>4, <2>8, <2>9, PassingTypes DEF Inv, BackInv
<1> QED
      BY <1>10, <1>11

LEMMA RequestPreOpKeeps ==
    ASSUME Inv, RequestPreOp
    PROVE  Inv'
<1> DEFINE to == Answering(at.s)
           told(d) == [d EXCEPT !.req = PRE_OP]
<1>1. PICK o \in Outcomes :
         /\ at.step = "preop" /\ Happens(o)
         /\ dev' = IF o = "lost" THEN dev
                   ELSE [p \in Ring |-> IF p \in to THEN told(dev[p]) ELSE dev[p]]
         /\ at' = NextSlave(slavelist)
         /\ UNCHANGED <<ring, slavelist, opened, connected, spoiled>>
      BY DEF RequestPreOp, Written
<1>2. at.step \in Passing
      BY <1>1 DEF Passing
<1>3. Within /\ DevicesOK /\ spoiled' \subseteq Nat /\ faults \in Nat /\ Count \in Nat
      /\ Count = Len(slavelist)
      BY <1>1, <1>2, PassingIsWithin DEF Inv, TypeInv, Count
<1>4. faults' \in Nat /\ faults' >= faults
      BY <1>1, <1>3, HappensIs
<1>5. \A p \in Ring : /\ DeviceOK(told(dev[p]), Len(ring.kinds))
                      /\ told(dev[p]).owner = dev[p].owner
      BY <1>3, RequestWrite DEF DevicesOK
<1> HIDE DEF told
<1>6. /\ DOMAIN dev' = Ring
      /\ \A p \in Ring : /\ DeviceOK(dev'[p], Len(ring.kinds))
                         /\ dev'[p].owner = dev[p].owner
                         /\ dev'[p].req = dev[p].req \/ p \in to
  <2>1. CASE o = "lost"
    <3>1. dev' = dev
          BY <1>1, <2>1
    <3> QED
          BY <1>3, <3>1 DEF DevicesOK
  <2>2. CASE o # "lost"
    <3>1. dev' = [p \in Ring |-> IF p \in to THEN told(dev[p]) ELSE dev[p]]
          BY <1>1, <2>2
    <3> HIDE DEF to
    <3>2. \A p \in Ring : dev'[p] = dev[p] \/ (p \in to /\ dev'[p] = told(dev[p]))
          BY <3>1
    <3> QED
          BY <1>3, <1>5, <3>1, <3>2 DEF DevicesOK
  <2> QED
        BY <2>1, <2>2
<1>7. Ring' = Ring
      BY <1>1 DEF Ring
<1>8. DevicesOK'
      BY <1>1, <1>3, <1>6, <1>7 DEF DevicesOK
<1>9. EepromIsBack'
  <2> SUFFICES ASSUME faults' < Retries, NEW p \in Ring, dev'[p].req = PRE_OP
               PROVE  dev'[p].owner = "pdi"
      BY <1>7 DEF EepromIsBack
  <2>1. faults < Retries /\ ~(faults > Retries)
        BY <1>3, <1>4 DEF Retries
  <2>2. CASE p \in to
        BY <1>1, <1>6, <2>1, <2>2 DEF Inv, BackInv, TriesLost
  <2>3. CASE p \notin to
        BY <1>6, <2>1, <2>3 DEF Inv, BackInv, EepromIsBack
  <2> QED
        BY <2>2, <2>3
<1>10. EndsWell
      BY <1>1, <1>3, NextSlaveIs, SlavesStay DEF Within, EndsWell
<1>11. PassesWell /\ at'.step \in Quiet \union {"check"}
      BY <1>1, <1>3, <1>4, <1>8, <1>10, GoesWell DEF PassesWell
<1>12. InitsLost' /\ TriesLost'
      BY <1>11 DEF InitsLost, TriesLost, Quiet, Passing
<1> QED
      BY <1>2, <1>9, <1>11, <1>12, PassingTypes DEF Inv, BackInv

-----------------------------------------------------------------------------
(* The broadcasts.                                                                *)

LEMMA BroadcastedIs ==
    ASSUME NEW n \in Nat, NEW d, DeviceOK(d, n), NEW name \in DOMAIN Broadcasts
    PROVE  LET e == Broadcasted(name, d)
           IN  /\ DeviceOK(e, n)
               /\ name \in {"init1", "init2", "init3"} => e.req = INIT /\ e.owner = d.owner
               /\ name \in {"force", "release"} => e.req = d.req
               /\ name = "release" /\ d.owner = "pdi" => e.owner = "pdi"
<1> DEFINE e == Broadcasted(name, d)
<1>1. name \in {"init1", "init2", "init3", "force", "release"}
      BY DEF Broadcasts
<1>2. CASE name \in {"init1", "init2"}
  <2>1. e = [d EXCEPT !.req = INIT]
        BY <1>2 DEF Broadcasted
  <2> HIDE DEF e
  <2>2. DeviceOK(e, n) /\ e.req = INIT /\ e.owner = d.owner
        BY <2>1, RequestWrite
  <2> QED
        BY <1>2, <2>2 DEF e
<1>3. CASE name = "init3"
  <2> DEFINE b == [d EXCEPT !.req = INIT]
  <2>1. e = [d EXCEPT !.req = INIT, !.box = <<>>]
        BY <1>3 DEF Broadcasted
  <2>2. DeviceOK(b, n) /\ b.req = INIT /\ b.owner = d.owner
        BY RequestWrite
  <2>3. e = [b EXCEPT !.box = <<>>]
        BY <2>1
  <2> HIDE DEF b, e
  <2>4. /\ DOMAIN e = DevFields /\ e.station = b.station /\ e.al = b.al /\ e.req = b.req
        /\ e.owner = b.owner
        BY <2>2, <2>3, DevFieldsAre DEF DeviceOK
  <2>5. DeviceOK(e, n)
        BY <2>2, <2>4, MildWrite
  <2> QED
        BY <1>3, <2>2, <2>4, <2>5 DEF e
<1>4. CASE name \in {"force", "release"}
  <2>1. PICK v \in {"pdi", "forced", "master"} :
           /\ e = [d EXCEPT !.owner = v]
           /\ name = "release" /\ d.owner = "pdi" => v = "pdi"
    <3>1. d.owner \in {"pdi", "forced", "master"}
          BY DEF DeviceOK
    <3>2. CASE name = "force"
          BY <3>1, <3>2 DEF Broadcasted
    <3>3. CASE name = "release"
          BY <3>1, <3>3 DEF Broadcasted
    <3> QED
          BY <1>4, <3>2, <3>3
  <2> HIDE DEF e
  <2>2. DeviceOK(e, n) /\ e.req = d.req /\ e.owner = v
        BY <2>1, OwnerWrite
  <2> QED
        BY <1>4, <2>1, <2>2 DEF e
<1> QED
      BY <1>1, <1>2, <1>3, <1>4

LEMMA BroadcastKeeps ==
    ASSUME Inv, Broadcast
    PROVE  Inv'
<1> DEFINE heard(d) == Broadcasted(at.step, d)
<1>1. PICK o \in Outcomes :
         /\ at.step \in DOMAIN Broadcasts /\ Happens(o)
         /\ dev' = IF o = "lost" THEN dev
                   ELSE [p \in Ring |-> IF p \in Ring THEN heard(dev[p]) ELSE dev[p]]
         /\ spoiled' = IF o = "lost" THEN Ring ELSE spoiled
         /\ at' = [Step(Broadcasts[at.step]) EXCEPT !.s = 1]
         /\ UNCHANGED <<ring, slavelist, opened, connected>>
      BY DEF Broadcast, Written
<1>2. /\ at.step \in {"init1", "init2", "init3", "force", "release"}
      /\ at.step = "init1" => Broadcasts[at.step] = "init2"
      /\ at.step = "init2" => Broadcasts[at.step] = "count"
      /\ at.step = "init3" => Broadcasts[at.step] = "force"
      /\ at.step = "force" => Broadcasts[at.step] = "release"
      /\ at.step = "release" => Broadcasts[at.step] = "address"
      BY <1>1 DEF Broadcasts
<1>3. PlaceOK(at) /\ DevicesOK /\ faults \in Nat /\ at.why = "connect"
      BY <1>2 DEF Inv, TypeInv, PlaceOK, Starting, Calling, Forcing
<1>4. faults' \in Nat /\ faults' >= faults /\ (o = "lost" => faults' = faults + 1)
      BY <1>1, <1>3, HappensIs
<1>5. PICK name \in AllSteps : name = Broadcasts[at.step]
      BY <1>2 DEF AllSteps, Starting, Calling, Forcing, Passing
<1>6. PlaceOK(Step(name)) /\ Step(name).step = name /\ Step(name).why = "connect"
      BY <1>3, StepIs
<1>7. PlaceOK(at') /\ at'.step = name /\ at'.s = 1 /\ at'.why = "connect"
  <2>1. at' = [Step(name) EXCEPT !.s = 1]
        BY <1>1, <1>5
  <2>2. /\ DOMAIN at' = AtFields /\ at'.step = name /\ at'.s = 1 /\ at'.why = "connect"
        /\ at'.pass = Step(name).pass /\ at'.op = Step(name).op
        /\ at'.tries = Step(name).tries /\ at'.nacks = Step(name).nacks
        BY <1>6, <2>1, FieldsAre DEF PlaceOK
  <2> QED
        BY <1>6, <2>2 DEF PlaceOK
<1>8. \A p \in Ring : LET e == heard(dev[p])
         IN  /\ DeviceOK(e, Len(ring.kinds))
             /\ at.step \in {"init1", "init2", "init3"} => e.req = INIT /\ e.owner = dev[p].owner
             /\ at.step \in {"force", "release"} => e.req = dev[p].req
             /\ at.step = "release" /\ dev[p].owner = "pdi" => e.owner = "pdi"
      BY <1>1, <1>3, BroadcastedIs DEF DevicesOK
<1> HIDE DEF heard
<1>9. /\ DOMAIN dev' = Ring
      /\ \A p \in Ring : DeviceOK(dev'[p], Len(ring.kinds))
      /\ o # "lost" => \A p \in Ring : dev'[p] = heard(dev[p])
      /\ o = "lost" => dev' = dev
  <2>1. CASE o = "lost"
        BY <1>1, <1>3, <2>1 DEF DevicesOK
  <2>2. CASE o # "lost"
        BY <1>1, <1>8, <2>2
  <2> QED
        BY <2>1, <2>2
<1>10. Ring' = Ring /\ Count' = Count
      BY <1>1 DEF Ring, Count
<1>11. DevicesOK'
      BY <1>1, <1>3, <1>9, <1>10 DEF DevicesOK
<1>12. Counted'
  <2>1. at.step \in {"init3", "force", "release"} => Count = Len(ring.kinds) /\ Count > 0
        BY DEF Inv, TypeInv, Counted, Forcing
  <2>2. Count \in Nat
        BY DEF Inv, TypeInv, ListOK, Count
  <2>3. at'.step \in Forcing \union Passing => at.step \in {"init3", "force", "release"}
        BY <1>2, <1>5, <1>7 DEF Forcing, Passing
  <2> QED
        BY <1>1, <1>7, <1>10, <2>1, <2>2, <2>3 DEF Counted
<1>13. Open'
  <2>1. at.step \notin {"idle", "clock"} /\ at'.step \notin {"idle", "clock"}
        BY <1>2, <1>5, <1>7
  <2> QED
        BY <1>1, <1>3, <1>7, <2>1 DEF Open, Inv, TypeInv
<1>14. spoiled' \subseteq Nat
      BY <1>1 DEF Inv, TypeInv, Ring
<1>15. TypeInv'
  <2>1. ring' \in Rings /\ ListOK(slavelist)'
        BY <1>1 DEF Inv, TypeInv
  <2> QED
        BY <2>1, <1>4, <1>7, <1>11, <1>12, <1>13, <1>14 DEF TypeInv
<1>16. InitsLost'
  <2> SUFFICES ASSUME NEW p \in Ring, dev'[p].req = PRE_OP
               PROVE  /\ at'.step = "init2" => faults' >= 1
                      /\ at'.step \in {"count", "init3"} => faults' >= 2
                      /\ at'.step = "force" => faults' >= 3
      BY <1>10 DEF InitsLost
  <2>1. CASE at.step \in {"init1", "init2", "init3"}
    <3>1. o = "lost" /\ dev[p].req = PRE_OP
          BY <1>8, <1>9, <2>1 DEF INIT, PRE_OP
    <3>2. /\ at.step = "init2" => faults >= 1
          /\ at.step = "init3" => faults >= 2
          BY <3>1 DEF Inv, BackInv, InitsLost
    <3> QED
          BY <1>2, <1>3, <1>4, <1>5, <1>7, <2>1, <3>1, <3>2
  <2>2. CASE at.step \in {"force", "release"}
        BY <1>2, <1>5, <1>7, <2>2
  <2> QED
        BY <1>2, <2>1, <2>2
<1>17. EepromIsBack'
  <2> SUFFICES ASSUME faults' < Retries, NEW p \in Ring, dev'[p].req = PRE_OP
               PROVE  dev'[p].owner = "pdi"
      BY <1>10 DEF EepromIsBack
  <2>1. faults < Retries /\ ~(faults >= 3)
        BY <1>3, <1>4 DEF Retries
  <2>2. CASE o = "lost"
        BY <1>9, <2>1, <2>2 DEF Inv, BackInv, EepromIsBack
  <2>3. CASE o # "lost" /\ at.step \in {"init1", "init2", "init3"}
        BY <1>8, <1>9, <2>3 DEF INIT, PRE_OP
  <2>4. CASE o # "lost" /\ at.step = "force"
        BY <1>8, <1>9, <2>1, <2>4 DEF Inv, BackInv, InitsLost
  <2>5. CASE o # "lost" /\ at.step = "release"
        BY <1>8, <1>9, <2>1, <2>5 DEF Inv, BackInv, EepromIsBack
  <2> QED
        BY <1>2, <2>2, <2>3, <2>4, <2>5
<1>18. TriesLost'
      BY <1>2, <1>5, <1>7 DEF TriesLost
<1> QED
      BY <1>15, <1>16, <1>17, <1>18 DEF Inv, BackInv

-----------------------------------------------------------------------------
(* The steps around the passes.                                                   *)

\* A step that leaves the devices and the ring alone.
LEMMA OutsideStep ==
    ASSUME Inv, UNCHANGED <<ring, dev>>, PlaceOK(at'), ListOK(slavelist'), Counted', Open',
           spoiled' \subseteq Nat, faults' \in Nat, faults' >= faults,
           at'.step \notin {"init2", "count", "init3", "force", "preop", "pdi"}
    PROVE  Inv'
<1>1. DevicesOK' /\ \A p \in Ring : dev'[p].req = dev[p].req /\ dev'[p].owner = dev[p].owner
      BY DevicesStay DEF Inv, TypeInv
<1>2. BackInv'
      BY <1>1, Bystands DEF Inv
<1> QED
      BY <1>1, <1>2 DEF Inv, TypeInv

LEMMA IdleIs ==
    /\ PlaceOK(Idle) /\ Idle.step = "idle" /\ Idle.why = "connect"
    /\ \A name \in AllSteps : LET a == [Idle EXCEPT !.step = name]
                              IN  PlaceOK(a) /\ a.step = name /\ a.why = "connect"
<1>1. /\ DOMAIN Idle = AtFields /\ Idle.step = "idle" /\ Idle.pass = 0 /\ Idle.s = 0
      /\ Idle.op = "one" /\ Idle.tries = 0 /\ Idle.nacks = 0 /\ Idle.why = "connect"
      BY DEF Idle, AtFields
<1>2. "idle" \in AllSteps
      BY DEF AllSteps
<1>3. PlaceOK(Idle)
      BY <1>1, <1>2 DEF PlaceOK, Last, Retries, MaxNacks
<1> SUFFICES ASSUME NEW name \in AllSteps
             PROVE  LET a == [Idle EXCEPT !.step = name]
                    IN  PlaceOK(a) /\ a.step = name /\ a.why = "connect"
    BY <1>1, <1>3
<1> DEFINE a == [Idle EXCEPT !.step = name]
<1>4. /\ DOMAIN a = AtFields /\ a.step = name /\ a.pass = 0 /\ a.s = 0
      /\ a.op = "one" /\ a.tries = 0 /\ a.nacks = 0 /\ a.why = "connect"
      BY <1>1, FieldsAre
<1> HIDE DEF a
<1>5. PlaceOK(a)
      BY <1>4 DEF PlaceOK, Last, Retries, MaxNacks
<1> QED
      BY <1>4, <1>5 DEF a

LEMMA ConnectKeeps ==
    ASSUME Inv, Connect
    PROVE  Inv'
<1>1. /\ at.step = "idle" /\ ~connected /\ spoiled' = {}
      /\ UNCHANGED <<ring, dev, connected>>
      BY DEF Connect
<1>2. /\ PlaceOK(at) /\ ListOK(slavelist) /\ faults \in Nat /\ Open
      /\ spoiled' \subseteq Nat
      BY <1>1 DEF Inv, TypeInv
<1>3. CASE UNCHANGED <<at, slavelist, opened>> /\ (Happens("lost") \/ UNCHANGED faults)
  <2>1. faults' \in Nat /\ faults' >= faults
        BY <1>2, <1>3, HappensIs
  <2>2. Counted' /\ Open'
        BY <1>1, <1>2, <1>3 DEF Counted, Open, Forcing, Passing
  <2> QED
        BY <1>1, <1>2, <1>3, <2>1, <2>2, OutsideStep
<1>4. CASE opened' = TRUE /\ slavelist' = <<>> /\ at' = [Idle EXCEPT !.step = "init1"]
           /\ UNCHANGED faults
  <2>1. "init1" \in AllSteps
        BY DEF AllSteps, Starting, Calling
  <2>2. PlaceOK(at') /\ at'.step = "init1" /\ at'.why = "connect"
        BY <1>4, <2>1, IdleIs
  <2>3. ListOK(slavelist')
        BY <1>4 DEF ListOK
  <2>4. Counted' /\ Open'
        BY <1>1, <1>2, <1>4, <2>2 DEF Counted, Open, Forcing, Passing
  <2>5. faults' \in Nat /\ faults' >= faults
        BY <1>2, <1>4
  <2> QED
        BY <1>1, <1>2, <2>2, <2>3, <2>4, <2>5, OutsideStep
<1> QED
      BY <1>3, <1>4 DEF Connect

LEMMA CountSlavesKeeps ==
    ASSUME Inv, CountSlaves
    PROVE  Inv'
<1>1. PICK o :
         /\ at.step = "count" /\ Happens(o)
         /\ IF Wkc(o, Ring) > 0
            THEN slavelist' = [s \in Ring |-> NoSlave] /\ at' = Step("init3") /\ UNCHANGED opened
            ELSE opened' = FALSE /\ at' = Idle /\ UNCHANGED slavelist
         /\ UNCHANGED <<ring, dev, connected, spoiled>>
      BY DEF CountSlaves
<1>2. /\ PlaceOK(at) /\ ListOK(slavelist) /\ faults \in Nat /\ Open /\ DevicesOK
      /\ spoiled' \subseteq Nat /\ at.why = "connect" /\ ring \in Rings
      BY <1>1 DEF Inv, TypeInv, PlaceOK, Starting, Calling
<1>3. faults' \in Nat /\ faults' >= faults
      BY <1>1, <1>2, HappensIs
<1>4. CASE Wkc(o, Ring) > 0
  <2>1. slavelist' = [s \in Ring |-> NoSlave] /\ at' = Step("init3") /\ UNCHANGED opened
        BY <1>1, <1>4
  <2>2. "init3" \in AllSteps
        BY DEF AllSteps, Starting, Forcing
  <2>3. PlaceOK(at') /\ at'.step = "init3" /\ at'.why = "connect"
        BY <1>2, <2>1, <2>2, StepIs
  <2>4. Len(ring.kinds) \in Nat /\ Ring = 1..Len(ring.kinds)
        BY <1>2 DEF DevicesOK, Ring
  <2>5. Len(slavelist') = Len(ring.kinds)
        BY <2>1, <2>4, LengthIs
  <2>6. ListOK(slavelist')
    <3>1. DOMAIN NoSlave = SlaveFields /\ NoSlave.parent = 0
          BY DEF SlaveFields, NoSlave
    <3> QED
          BY <2>1, <2>4, <2>5, <3>1 DEF ListOK
  <2>7. Len(ring.kinds) > 0
    <3> SUFFICES ASSUME Len(ring.kinds) = 0
                 PROVE  FALSE
        BY <2>4
    <3>1. Cardinality(Ring) = 0
          BY <2>4, FS_EmptySet
    <3> QED
          BY <1>4, <3>1 DEF Wkc
  <2>8. Counted'
        BY <1>1, <2>3, <2>5, <2>7 DEF Counted, Count, Forcing, Passing
  <2>9. Open'
        BY <1>1, <1>2, <2>1, <2>3 DEF Open
  <2>10. DevicesOK' /\ \A p \in Ring : dev'[p].req = dev[p].req /\ dev'[p].owner = dev[p].owner
        BY <1>1, <1>2, DevicesStay
  <2>11. TypeInv'
        BY <1>1, <1>2, <1>3, <2>3, <2>6, <2>8, <2>9, <2>10 DEF TypeInv
  <2>12. Ring' = Ring
        BY <1>1 DEF Ring
  <2>13. BackInv'
    <3>1. EepromIsBack'
          BY <1>1, <1>2, <1>3, <2>12 DEF EepromIsBack, Inv, BackInv, Retries
    <3>2. InitsLost'
          BY <1>1, <1>2, <1>3, <2>3, <2>12 DEF InitsLost, Inv, BackInv
    <3>3. TriesLost'
          BY <2>3 DEF TriesLost
    <3> QED
          BY <3>1, <3>2, <3>3 DEF BackInv
  <2> QED
        BY <2>11, <2>13 DEF Inv
<1>5. CASE ~(Wkc(o, Ring) > 0)
  <2>1. opened' = FALSE /\ at' = Idle /\ UNCHANGED slavelist
        BY <1>1, <1>5
  <2>2. PlaceOK(at') /\ at'.step = "idle" /\ at'.why = "connect"
        BY <2>1, IdleIs
  <2>3. Counted' /\ Open'
        BY <1>1, <1>2, <2>1, <2>2 DEF Counted, Open, Forcing, Passing
  <2>4. ListOK(slavelist')
        BY <1>2, <2>1
  <2> QED
        BY <1>1, <1>2, <1>3, <2>2, <2>3, <2>4, OutsideStep
<1> QED
      BY <1>4, <1>5

LEMMA CheckPreOpKeeps ==
    ASSUME Inv, CheckPreOp
    PROVE  Inv'
<1>1. /\ at.step = "check" /\ at' = Step("states")
      /\ UNCHANGED <<ring, dev, slavelist, opened, connected, faults, spoiled>>
      BY DEF CheckPreOp
<1>2. /\ PlaceOK(at) /\ ListOK(slavelist') /\ faults \in Nat /\ Open /\ spoiled' \subseteq Nat
      /\ at.why = "connect"
      BY <1>1 DEF Inv, TypeInv, PlaceOK, Starting
<1>3. PlaceOK(at') /\ at'.step = "states" /\ at'.why = "connect"
      BY <1>1, <1>2, StepIs DEF AllSteps
<1>4. Counted' /\ Open'
      BY <1>1, <1>2, <1>3 DEF Counted, Open, Forcing, Passing
<1>5. faults' \in Nat /\ faults' >= faults
      BY <1>1, <1>2
<1> QED
      BY <1>1, <1>2, <1>3, <1>4, <1>5, OutsideStep

LEMMA ToldIs ==
    ASSUME ListOK(slavelist), NEW states, Told(states)
    PROVE  ListOK(slavelist')
<1> DEFINE new == [s \in 1..Count |-> [slavelist[s] EXCEPT !.state = states[s]]]
<1>1. slavelist' = new /\ Count \in Nat
      BY DEF Told, ListOK, Count
<1>2. Len(new) = Count
      BY <1>1, LengthIs
<1>3. \A s \in 1..Count : DOMAIN new[s] = SlaveFields /\ new[s].parent \in 0..(s - 1)
      BY SlaveFieldsAre DEF ListOK, Count
<1> HIDE DEF new
<1>4. DOMAIN new = 1..Count
      BY DEF new
<1> QED
      BY <1>1, <1>2, <1>3, <1>4 DEF ListOK

\* The end of a call that lists the slaves.
LEMMA ListedKeeps ==
    ASSUME Inv, at.step \in {"states", "each"}, NEW states, Told(states), NEW lowest, Listed(lowest),
           UNCHANGED <<ring, dev, spoiled>>, faults' \in Nat, faults' >= faults
    PROVE  Inv'
<1>1. ListOK(slavelist')
      BY ToldIs DEF Inv, TypeInv
<1>2. PlaceOK(at') /\ at'.step = "idle" /\ at'.why = "connect"
      BY IdleIs DEF Listed
<1>3. Open /\ PlaceOK(at) /\ spoiled' \subseteq Nat
      BY DEF Inv, TypeInv
<1>4. Open'
  <2>1. opened' = (lowest # 0 \/ at.why = "refresh")
        /\ connected' = (lowest # 0 \/ (connected /\ at.why = "refresh"))
        BY DEF Listed
  <2>2. at.why = "refresh" => connected
        BY <1>3 DEF Open
  <2>3. opened' = connected' /\ connected' \in BOOLEAN
        BY <2>1, <2>2
  <2> QED
        BY <1>2, <2>3 DEF Open
<1>5. Counted'
      BY <1>2 DEF Counted, Forcing, Passing
<1> QED
      BY <1>1, <1>2, <1>3, <1>4, <1>5, OutsideStep

LEMMA ReadStatesKeeps ==
    ASSUME Inv, ReadStates
    PROVE  Inv'
<1>1. PICK o :
         /\ at.step = "states" /\ Happens(o)
         /\ \/ Told([s \in 1..Count |-> Together]) /\ Listed(Together)
            \/ at' = Step("each") /\ UNCHANGED <<slavelist, opened, connected>>
         /\ UNCHANGED <<ring, dev, spoiled>>
      BY DEF ReadStates
<1>2. PlaceOK(at) /\ ListOK(slavelist) /\ faults \in Nat /\ Open /\ spoiled' \subseteq Nat
      BY <1>1 DEF Inv, TypeInv
<1>3. faults' \in Nat /\ faults' >= faults
      BY <1>1, <1>2, HappensIs
<1>4. CASE Told([s \in 1..Count |-> Together]) /\ Listed(Together)
      BY <1>1, <1>3, <1>4, ListedKeeps
<1>5. CASE at' = Step("each") /\ UNCHANGED <<slavelist, opened, connected>>
  <2>1. "each" \in AllSteps /\ "each" \notin Starting
        BY DEF AllSteps, Starting, Calling, Forcing, Passing
  <2>2. PlaceOK(at') /\ at'.step = "each" /\ at'.why = at.why
        BY <1>2, <1>5, <2>1, StepIs
  <2>3. Counted' /\ Open'
        BY <1>1, <1>2, <1>5, <2>2 DEF Counted, Open, Forcing, Passing
  <2>4. ListOK(slavelist')
        BY <1>2, <1>5
  <2> QED
        BY <1>1, <1>2, <1>3, <2>2, <2>3, <2>4, OutsideStep
<1> QED
      BY <1>1, <1>4, <1>5

LEMMA ReadEachStateKeeps ==
    ASSUME Inv, ReadEachState
    PROVE  Inv'
<1>1. PICK o, states, lowest :
         /\ at.step = "each" /\ Happens(o) /\ Told(states) /\ Listed(lowest)
         /\ UNCHANGED <<ring, dev, spoiled>>
      BY DEF ReadEachState
<1>2. faults' \in Nat /\ faults' >= faults
      BY <1>1, HappensIs DEF Inv, TypeInv
<1> QED
      BY <1>1, <1>2, ListedKeeps

LEMMA RefreshKeeps ==
    ASSUME Inv, Refresh
    PROVE  Inv'
<1>1. /\ at.step = "idle" /\ connected
      /\ at' = [Idle EXCEPT !.step = "states", !.why = "refresh"]
      /\ UNCHANGED <<ring, dev, slavelist, opened, connected, faults, spoiled>>
      BY DEF Refresh
<1>2. ListOK(slavelist') /\ faults \in Nat /\ Open /\ spoiled' \subseteq Nat
      BY <1>1 DEF Inv, TypeInv
<1>3. PlaceOK(at') /\ at'.step = "states" /\ at'.why = "refresh"
  <2>1. "states" \in AllSteps /\ "states" \notin Starting
        BY DEF AllSteps, Starting, Calling, Forcing, Passing
  <2>2. /\ DOMAIN at' = AtFields /\ at'.step = "states" /\ at'.pass = Idle.pass
        /\ at'.s = Idle.s /\ at'.op = Idle.op /\ at'.tries = Idle.tries
        /\ at'.nacks = Idle.nacks /\ at'.why = "refresh"
        BY <1>1, IdleIs, FieldsAre DEF PlaceOK
  <2> QED
        BY <2>1, <2>2, IdleIs DEF PlaceOK
<1>4. Counted' /\ Open'
      BY <1>1, <1>2, <1>3 DEF Counted, Open, Forcing, Passing
<1>5. faults' \in Nat /\ faults' >= faults
      BY <1>1, <1>2
<1> QED
      BY <1>1, <1>2, <1>3, <1>4, <1>5, OutsideStep

LEMMA DisconnectKeeps ==
    ASSUME Inv, Disconnect
    PROVE  Inv'
<1>1. /\ at.step = "idle" /\ opened' = (opened /\ ~connected) /\ connected' = FALSE
      /\ UNCHANGED <<ring, dev, slavelist, at, faults, spoiled>>
      BY DEF Disconnect
<1>2. PlaceOK(at') /\ ListOK(slavelist') /\ faults \in Nat /\ Open /\ spoiled' \subseteq Nat
      BY <1>1 DEF Inv, TypeInv
<1>3. Counted'
      BY <1>1 DEF Counted, Forcing, Passing
<1>4. Open'
  <2>1. opened' = FALSE
        BY <1>1, <1>2 DEF Open
  <2>2. at'.step = "idle" /\ connected' = FALSE /\ opened' = FALSE /\ at'.why = "connect"
        BY <1>1, <1>2, <2>1 DEF Open
  <2> QED
        BY <2>2 DEF Open
<1>5. faults' \in Nat /\ faults' >= faults
      BY <1>1, <1>2
<1> QED
      BY <1>1, <1>2, <1>3, <1>4, <1>5, OutsideStep

-----------------------------------------------------------------------------
(* The devices by themselves, and the clocks.                                     *)

LEMMA DeviceStep ==
    ASSUME Inv, UNCHANGED <<ring, slavelist, at, opened, connected, spoiled>>,
           faults' \in Nat, faults' >= faults, DOMAIN dev' = Ring,
           \A p \in Ring : /\ DeviceOK(dev'[p], Len(ring.kinds))
                           /\ dev'[p].req = dev[p].req /\ dev'[p].owner = dev[p].owner,
           at.step \notin {"init2", "count", "init3", "force", "preop", "pdi"}
    PROVE  Inv'
<1>1. DevicesOK' /\ \A p \in Ring : dev'[p].req = dev[p].req /\ dev'[p].owner = dev[p].owner
      BY DevicesMild DEF Inv, TypeInv
<1>2. TypeInv'
      BY <1>1 DEF Inv, TypeInv, Counted, Open, Count
<1>3. BackInv'
      BY <1>1, Bystands DEF Inv
<1> QED
      BY <1>2, <1>3 DEF Inv

LEMMA DeviceSettlesKeeps ==
    ASSUME Inv, NEW p \in Ring, DeviceSettles(p)
    PROVE  Inv'
<1>1. PICK o, al, err :
         /\ Looked(p) /\ Happens(o) /\ al \in {dev[p].al, dev[p].req}
         /\ dev' = [dev EXCEPT ![p].al = al, ![p].err = err]
         /\ UNCHANGED <<ring, slavelist, at, opened, connected, spoiled>>
      BY DEF DeviceSettles
<1>2. DevicesOK /\ DOMAIN dev = Ring /\ DeviceOK(dev[p], Len(ring.kinds)) /\ Len(ring.kinds) \in Nat
      BY DEF Inv, TypeInv, DevicesOK
<1>3. faults' \in Nat /\ faults' >= faults
      BY <1>1, HappensIs DEF Inv, TypeInv
<1> DEFINE b == [dev[p] EXCEPT !.al = al]
           e == [b EXCEPT !.err = err]
<1>4. DeviceOK(b, Len(ring.kinds)) /\ b.req = dev[p].req /\ b.owner = dev[p].owner
  <2>1. al \in {INIT, PRE_OP}
        BY <1>1, <1>2 DEF DeviceOK
  <2> QED
        BY <1>2, <2>1, StateWrite
<1>5. dev' = [q \in Ring |-> IF q = p THEN e ELSE dev[q]]
      BY <1>1, <1>2
<1> HIDE DEF b
<1>6. /\ DOMAIN e = DevFields /\ e.station = b.station /\ e.al = b.al /\ e.req = b.req
      /\ e.owner = b.owner
      BY <1>4, DevFieldsAre DEF DeviceOK
<1> HIDE DEF e
<1>7. DeviceOK(e, Len(ring.kinds))
      BY <1>2, <1>4, <1>6, MildWrite
<1>8. \A q \in Ring : /\ DeviceOK(dev'[q], Len(ring.kinds))
                      /\ dev'[q].req = dev[q].req /\ dev'[q].owner = dev[q].owner
      BY <1>2, <1>4, <1>5, <1>6, <1>7 DEF DevicesOK
<1>9. DOMAIN dev' = Ring
      BY <1>5
<1>10. at.step \in {"init", "check", "each"}
      BY <1>1 DEF Looked
<1> QED
      BY <1>1, <1>3, <1>8, <1>9, <1>10, DeviceStep

LEMMA DeviceLoadsKeeps ==
    ASSUME Inv, NEW p \in Ring, DeviceLoads(p)
    PROVE  Inv'
<1>1. PICK o, nack, word :
         /\ Polling /\ Happens(o)
         /\ dev' = [dev EXCEPT ![p].busy = FALSE, ![p].nack = nack, ![p].word = word]
         /\ UNCHANGED <<ring, slavelist, at, opened, connected, spoiled>>
      BY DEF DeviceLoads
<1>2. DevicesOK /\ DOMAIN dev = Ring /\ DeviceOK(dev[p], Len(ring.kinds)) /\ Len(ring.kinds) \in Nat
      BY DEF Inv, TypeInv, DevicesOK
<1>3. faults' \in Nat /\ faults' >= faults
      BY <1>1, HappensIs DEF Inv, TypeInv
<1> DEFINE e == [dev[p] EXCEPT !.busy = FALSE, !.nack = nack, !.word = word]
<1>4. dev' = [q \in Ring |-> IF q = p THEN e ELSE dev[q]]
      BY <1>1, <1>2
<1>5. /\ DOMAIN e = DevFields /\ e.station = dev[p].station /\ e.al = dev[p].al
      /\ e.req = dev[p].req /\ e.owner = dev[p].owner
      BY <1>2, DevFieldsAre DEF DeviceOK
<1> HIDE DEF e
<1>6. DeviceOK(e, Len(ring.kinds))
      BY <1>2, <1>5, MildWrite
<1>7. \A q \in Ring : /\ DeviceOK(dev'[q], Len(ring.kinds))
                      /\ dev'[q].req = dev[q].req /\ dev'[q].owner = dev[q].owner
      BY <1>2, <1>4, <1>5, <1>6 DEF DevicesOK
<1>8. DOMAIN dev' = Ring
      BY <1>4
<1>9. at.step \in {"ready", "status"}
      BY <1>1 DEF Polling
<1> QED
      BY <1>1, <1>3, <1>7, <1>8, <1>9, DeviceStep

\* Between the calls devices may be new.
LEMMA ChangeStep ==
    ASSUME Inv, at.step = "idle", ring' \in Rings,
           UNCHANGED <<slavelist, at, opened, connected, faults, spoiled>>,
           DOMAIN dev' = Ring', DevicesOK',
           \A p \in Ring' : dev'[p].req = PRE_OP => (p \in Ring /\ dev'[p] = dev[p]) \/ dev'[p].owner = "pdi"
    PROVE  Inv'
<1>1. TypeInv'
      BY DEF Inv, TypeInv, Counted, Open, Count, Forcing, Passing
<1>2. EepromIsBack'
      BY DEF EepromIsBack, Inv, BackInv
<1>3. InitsLost' /\ TriesLost'
      BY DEF InitsLost, TriesLost
<1> QED
      BY <1>1, <1>2, <1>3 DEF Inv, BackInv

LEMMA RebuildKeeps ==
    ASSUME Inv, Rebuild
    PROVE  Inv'
<1>1. /\ at.step = "idle" /\ ring' \in Rings
      /\ dev' = [p \in 1..Len(ring'.kinds) |-> Fresh]
      /\ UNCHANGED <<slavelist, at, opened, connected, faults, spoiled>>
      BY DEF Rebuild, Changes
<1>2. Len(ring'.kinds) \in Nat /\ Ring' = 1..Len(ring'.kinds)
      BY <1>1, RingIs DEF Ring
<1>3. DOMAIN dev' = Ring' /\ \A p \in Ring' : dev'[p] = Fresh
      BY <1>1, <1>2
<1>4. DeviceOK(Fresh, Len(ring'.kinds)) /\ Fresh.owner = "pdi"
      BY <1>2, FreshIs
<1>5. DevicesOK'
      BY <1>2, <1>3, <1>4 DEF DevicesOK
<1> QED
      BY <1>1, <1>3, <1>4, <1>5, ChangeStep

LEMMA RestartKeeps ==
    ASSUME Inv, NEW p \in Ring, Restart(p)
    PROVE  Inv'
<1>1. /\ at.step = "idle" /\ dev' = [dev EXCEPT ![p] = Fresh]
      /\ UNCHANGED <<ring, slavelist, at, opened, connected, faults, spoiled>>
      BY DEF Restart, Changes
<1>2. DevicesOK /\ DOMAIN dev = Ring /\ Len(ring.kinds) \in Nat /\ ring \in Rings
      BY DEF Inv, TypeInv, DevicesOK
<1>3. Ring' = Ring
      BY <1>1 DEF Ring
<1>4. DOMAIN dev' = Ring /\ \A q \in Ring : dev'[q] = dev[q] \/ dev'[q] = Fresh
      BY <1>1, <1>2
<1>5. DeviceOK(Fresh, Len(ring.kinds)) /\ Fresh.owner = "pdi"
      BY <1>2, FreshIs
<1>6. DevicesOK'
      BY <1>1, <1>2, <1>3, <1>4, <1>5 DEF DevicesOK
<1>7. \A q \in Ring' : dev'[q].req = PRE_OP => (q \in Ring /\ dev'[q] = dev[q]) \/ dev'[q].owner = "pdi"
      BY <1>3, <1>4, <1>5
<1> QED
      BY <1>1, <1>2, <1>3, <1>4, <1>6, <1>7, ChangeStep

LEMMA ConfigDcKeeps ==
    ASSUME Inv, ConfigDc
    PROVE  Inv'
<1>1. PICK o :
         /\ at.step = "idle" /\ connected /\ Happens(o)
         /\ at' = [Idle EXCEPT !.step = "clock", !.s = 1]
         /\ UNCHANGED <<ring, dev, slavelist, opened, connected, spoiled>>
      BY DEF ConfigDc
<1>2. ListOK(slavelist') /\ faults \in Nat /\ Open /\ spoiled' \subseteq Nat
      BY <1>1 DEF Inv, TypeInv
<1>3. faults' \in Nat /\ faults' >= faults
      BY <1>1, <1>2, HappensIs
<1>4. PlaceOK(at') /\ at'.step = "clock"
  <2>1. "clock" \in AllSteps
        BY DEF AllSteps
  <2>2. /\ DOMAIN at' = AtFields /\ at'.step = "clock" /\ at'.pass = Idle.pass
        /\ at'.s = 1 /\ at'.op = Idle.op /\ at'.tries = Idle.tries
        /\ at'.nacks = Idle.nacks /\ at'.why = "connect"
        BY <1>1, IdleIs, FieldsAre DEF PlaceOK
  <2> QED
        BY <2>1, <2>2, IdleIs DEF PlaceOK
<1>5. Counted'
      BY <1>4 DEF Counted, Forcing, Passing
<1>6. Open'
      BY <1>1, <1>2, <1>4 DEF Open
<1> QED
      BY <1>1, <1>2, <1>3, <1>4, <1>5, <1>6, OutsideStep

\* From one slave to the next.
LEMMA ClockStep ==
    ASSUME Inv, at.step = "clock", at' = [at EXCEPT !.s = @ + 1],
           UNCHANGED <<ring, dev, slavelist, opened, connected, spoiled>>,
           faults' \in Nat, faults' >= faults
    PROVE  Inv'
<1>1. PlaceOK(at) /\ ListOK(slavelist') /\ Open /\ spoiled' \subseteq Nat
      BY DEF Inv, TypeInv
<1>2. /\ DOMAIN at' = AtFields /\ at'.step = "clock" /\ at'.pass = at.pass
      /\ at'.s = at.s + 1 /\ at'.op = at.op /\ at'.tries = at.tries
      /\ at'.nacks = at.nacks /\ at'.why = at.why
      BY <1>1, FieldsAre DEF PlaceOK
<1>3. PlaceOK(at')
      BY <1>1, <1>2 DEF PlaceOK
<1>4. Counted'
      BY <1>2 DEF Counted, Forcing, Passing
<1>5. Open'
      BY <1>1, <1>2 DEF Open
<1> QED
      BY <1>1, <1>2, <1>3, <1>4, <1>5, OutsideStep

LEMMA ClockSlaveKeeps ==
    ASSUME Inv, ClockSlave
    PROVE  Inv'
<1>1. PICK missing :
         /\ at.step = "clock" /\ at' = [at EXCEPT !.s = @ + 1]
         /\ missing \subseteq 0..ToldDelay
         /\ faults' = faults \/ faults' = faults + Cardinality(missing)
         /\ UNCHANGED <<ring, dev, slavelist, opened, connected, spoiled>>
  <2> DEFINE exchanges == 0..(IF Over(at.s).parent > 0 THEN ToldDelay ELSE 3)
  <2>1. PICK answered \in SUBSET (0..ToldDelay) :
           /\ at.step = "clock" /\ at' = [at EXCEPT !.s = @ + 1]
           /\ faults' = faults \/ faults' = faults + Cardinality(exchanges \ answered)
           /\ UNCHANGED <<ring, dev, slavelist, opened, connected, spoiled>>
        BY ZenonT(60) DEF ClockSlave
  <2>2. exchanges \ answered \subseteq 0..ToldDelay
        BY DEF ToldDelay
  <2> HIDE DEF exchanges
  <2> QED
        BY <2>1, <2>2
<1>2. IsFiniteSet(0..ToldDelay)
  <2>1. 0 \in Int /\ ToldDelay \in Int
        BY DEF ToldDelay
  <2> HIDE DEF ToldDelay
  <2> QED
        BY <2>1, FS_Interval
<1>3. Cardinality(missing) \in Nat
      BY <1>1, <1>2, FS_Subset, FS_CardinalityType
<1>4. faults' \in Nat /\ faults' >= faults
      BY <1>1, <1>3 DEF Inv, TypeInv
<1> QED
      BY <1>1, <1>4, ClockStep

LEMMA PlainSlaveKeeps ==
    ASSUME Inv, PlainSlave
    PROVE  Inv'
<1>1. /\ at.step = "clock" /\ at' = [at EXCEPT !.s = @ + 1]
      /\ UNCHANGED <<ring, dev, slavelist, opened, connected, spoiled, faults>>
      BY DEF PlainSlave
<1>2. faults' \in Nat /\ faults' >= faults
      BY <1>1 DEF Inv, TypeInv
<1> QED
      BY <1>1, <1>2, ClockStep

LEMMA ConfigDcEndsKeeps ==
    ASSUME Inv, ConfigDcEnds
    PROVE  Inv'
<1>1. /\ at.step = "clock" /\ at' = Idle
      /\ UNCHANGED <<ring, dev, slavelist, opened, connected, spoiled, faults>>
      BY DEF ConfigDcEnds
<1>2. ListOK(slavelist') /\ faults \in Nat /\ Open /\ spoiled' \subseteq Nat
      BY <1>1 DEF Inv, TypeInv
<1>3. faults' \in Nat /\ faults' >= faults
      BY <1>1, <1>2
<1>4. PlaceOK(at') /\ at'.step = "idle" /\ at'.why = "connect"
      BY <1>1, IdleIs
<1>5. Counted'
      BY <1>4 DEF Counted, Forcing, Passing
<1>6. Open'
      BY <1>1, <1>2, <1>4 DEF Open
<1> QED
      BY <1>1, <1>2, <1>3, <1>4, <1>5, <1>6, OutsideStep

-----------------------------------------------------------------------------
(* The theorems.                                                                  *)

LEMMA StartsWell ==
    ASSUME Init
    PROVE  Inv
<1>1. /\ ring \in Rings /\ dev = [p \in Ring |-> Fresh]
      /\ slavelist = <<>> /\ at = Idle /\ opened = FALSE /\ connected = FALSE
      /\ faults = 0 /\ spoiled = {}
      BY DEF Init
<1>2. PlaceOK(at) /\ at.step = "idle" /\ at.why = "connect"
      BY <1>1, IdleIs
<1>3. Len(ring.kinds) \in Nat
      BY <1>1, RingIs
<1>4. DeviceOK(Fresh, Len(ring.kinds)) /\ Fresh.owner = "pdi"
      BY <1>3, FreshIs
<1>5. DevicesOK
      BY <1>1, <1>3, <1>4 DEF DevicesOK
<1>6. ListOK(slavelist)
      BY <1>1 DEF ListOK
<1>7. Counted /\ Open
      BY <1>1, <1>2 DEF Counted, Open, Forcing, Passing
<1>8. BackInv
  <2>1. EepromIsBack
        BY <1>1, <1>4 DEF EepromIsBack
  <2>2. InitsLost /\ TriesLost
        BY <1>2 DEF InitsLost, TriesLost
  <2> QED
        BY <2>1, <2>2 DEF BackInv
<1> QED
      BY <1>1, <1>2, <1>5, <1>6, <1>7, <1>8 DEF Inv, TypeInv

LEMMA StutterKeeps ==
    ASSUME Inv, UNCHANGED cvars
    PROVE  Inv'
<1>1. UNCHANGED <<ring, dev, slavelist, cache, at, opened, connected, faults, spoiled, connects, changes>>
      BY DEF cvars, vars
<1>2. TypeInv'
      BY <1>1 DEF Inv, TypeInv, DevicesOK, Counted, Open, Count, Ring
<1>3. BackInv'
      BY <1>1 DEF Inv, BackInv, EepromIsBack, InitsLost, TriesLost, Answering, Ring
<1> QED
      BY <1>2, <1>3 DEF Inv

LEMMA StartupStep ==
    ASSUME Inv, Next
    PROVE  Inv'
<1>1. CASE Connect \/ Broadcast \/ CountSlaves
      BY <1>1, ConnectKeeps, BroadcastKeeps, CountSlavesKeeps
<1>2. CASE SetAddress \/ ReadAddress \/ ReadWidth
      BY <1>2, SetAddressKeeps, ReadAddressKeeps, ReadWidthKeeps
<1>3. CASE Eeprom
      BY <1>3, EepromIdleKeeps, EepromUnheardKeeps, EepromStaysBusyKeeps, ClearRefusalKeeps,
         CommandReadKeeps, TakeDataKeeps DEF Eeprom
<1>4. CASE ReadTopology \/ CheckInit \/ ReadSection \/ SetSii
      BY <1>4, ReadTopologyKeeps, CheckInitKeeps, ReadSectionKeeps, SetSiiKeeps
<1>5. CASE ProgramMailbox \/ EepromToPdi \/ RequestPreOp \/ CheckPreOp
      BY <1>5, ProgramMailboxKeeps, EepromToPdiKeeps, RequestPreOpKeeps, CheckPreOpKeeps
<1>6. CASE ReadStates \/ ReadEachState \/ Refresh \/ Disconnect
      BY <1>6, ReadStatesKeeps, ReadEachStateKeeps, RefreshKeeps, DisconnectKeeps
<1>7. CASE \E p \in Ring : DeviceSettles(p) \/ DeviceLoads(p) \/ Restart(p)
      BY <1>7, DeviceSettlesKeeps, DeviceLoadsKeeps, RestartKeeps
<1>8. CASE Rebuild
      BY <1>8, RebuildKeeps
<1> QED
      BY <1>1, <1>2, <1>3, <1>4, <1>5, <1>6, <1>7, <1>8 DEF Next

LEMMA Invariant == ClocksSpec => []Inv
<1>1. ClocksInit => Inv
      BY StartsWell DEF ClocksInit
<1>2. Inv /\ [ClocksNext]_cvars => Inv'
      BY StartupStep, StutterKeeps, ConfigDcKeeps, ClockSlaveKeeps, PlainSlaveKeeps,
         ConfigDcEndsKeeps DEF ClocksNext
<1> QED
      BY <1>1, <1>2, PTL DEF ClocksSpec

\* The registers, the slaves and the place in a call have their types, and between calls
\* the library is open just while the interface says so, however the start of the master
\* fails and is tried again (ecx_config_init, sa_open, ethercat_connect).
THEOREM StartupTypes == ClocksSpec => []TypeOK
<1>1. Inv => TypeOK
  <2> SUFFICES ASSUME Inv
               PROVE  TypeOK
      OBVIOUS
  <2>1. \A p \in Ring : /\ dev[p].station \in 0..Len(ring.kinds) + 8 /\ dev[p].al \in {INIT, PRE_OP}
                        /\ dev[p].owner \in {"pdi", "forced", "master"}
        BY DEF Inv, TypeInv, DevicesOK, DeviceOK
  <2>2. \A s \in 1..Count : slavelist[s].parent \in 0..(s - 1)
        BY DEF Inv, TypeInv, ListOK, Count
  <2> QED
        BY <2>1, <2>2 DEF TypeOK, Inv, TypeInv, PlaceOK, Open
<1> QED
      BY <1>1, Invariant, PTL

\* A device that is asked for PRE-OP has its EEPROM back, and the master does not take it
\* again while the request stands, until three exchanges were lost (ecx_config_init,
\* ecx_eeprom2pdi, ecx_statecheck's request).
THEOREM EepromComesBack == ClocksSpec => []EepromIsBack
<1>1. Inv => EepromIsBack
      BY DEF Inv, BackInv
<1> QED
      BY <1>1, Invariant, PTL
====
