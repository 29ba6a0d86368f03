---- MODULE EcEthernet ----
(* Ethernet over EtherCAT (ethercateoe.c) over the mailbox, beside the transfers of *)
(* EcTransfer. A frame is a sequence of units, which stand for blocks of 32 bytes;  *)
(* a fragment carries as many as its mailbox has room for, and says which one it is, of which  *)
(* frame, and where it belongs; the first one says how long the frame is. There is  *)
(* one port. The application makes none of these calls yet.                         *)
EXTENDS EcTransfer

CONSTANT MaxFrames \* bound: frames that a slave passes on from its network

EthernetOps == {"eset", "eget", "esend", "erecv", "eread"}

ASSUME EthernetAssumption == MaxFrames \in Nat

VARIABLE eth \* the frames' numbers, what is put together, and the slave's network
evars == <<tvars, eth>>

\* A frame that is put together: the fragment that comes next, its size and number.
NoFrame == [no |-> 0, size |-> 0, frame |-> 0, data |-> <<>>]

-----------------------------------------------------------------------------
(* EOEsetIp and EOEgetIp.                                                          *)

\* Only these two empty the mailbox before.
EthernetCall ==
    /\ Settled /\ plan # <<>> /\ Operation \in EthernetOps
    /\ \E v \in IF Operation \in {"eset", "esend"} THEN Values ELSE {NoValue},
          room \in IF Operation \in {"erecv", "eread"} THEN {1, Size[Object]} ELSE {0} :
          coe' = [Call(Operation, Object, v, room) EXCEPT !.pc = "transfer"]
    /\ \E pc \in {IF Operation \in {"erecv", "eread"} THEN "receive" ELSE "request"} :
          /\ job' = [NoJob EXCEPT !.pc = pc, !.rest = Size[Object], !.alone = asked = 0]
          /\ link' = IF Operation = "esend" THEN [Awaiting(FALSE) EXCEPT !.op = Done]
                     ELSE Awaiting(pc = "receive")
    /\ plan' = Tail(plan) /\ app' = NoApp
    /\ UNCHANGED <<slavebox, mbxcnt, lost, notices, slave, failed, asked, held, server, capacity, eth>>

IpRequest ==
    /\ At("request") /\ coe.op \in {"eset", "eget"}
    /\ Place(Message("EoE", coe.op, 0, IF coe.op = "eset" THEN Units(coe.val, Size[coe.obj]) ELSE <<>>))
    /\ job' = [job EXCEPT !.pc = "asked"]
    /\ UNCHANGED <<Same2, coe, failed, eth>>

IpResponse ==
    /\ Answered /\ coe.op \in {"eset", "eget"}
    /\ IF link.msg.type = "EoE" /\ link.msg.cmd = coe.op THEN Ends(TRUE, link.msg.data) ELSE Leave(FALSE)
    /\ UNCHANGED <<Quiet, eth>>

EthernetUnheard ==
    /\ At("receive") /\ coe.op \in EthernetOps /\ link.wkc <= 0
    /\ Leave(FALSE)
    /\ UNCHANGED <<Quiet, eth>>

-----------------------------------------------------------------------------
(* EOEsend: fragments one after the other; none is answered.                       *)

SendFragment ==
    /\ At("request") /\ coe.op = "esend"
    /\ LET sent == Size[coe.obj] - job.rest
           frame == IF job.no = 0 THEN eth.tx + 1 ELSE eth.tx
           more == job.rest > Len(Portion)
       IN  /\ Place(Fragment(job.no, frame, IF job.no = 0 THEN Size[coe.obj] ELSE sent, Portion, more))
           /\ job' = [job EXCEPT !.pc = "sent", !.more = more, !.no = @ + 1, !.rest = @ - Len(Portion)]
           /\ eth' = [eth EXCEPT !.tx = frame]
    /\ UNCHANGED <<Same2, coe, failed>>

FragmentSent ==
    /\ At("sent") /\ coe.op = "esend"
    /\ IF link.wkc > 0 /\ job.more
       THEN job' = [job EXCEPT !.pc = "request"] /\ UNCHANGED <<coe, link, failed>>
       ELSE Leave(link.wkc > 0)
    /\ UNCHANGED <<Quiet, eth>>

-----------------------------------------------------------------------------
(* EOErecv: one frame, from its first fragment on. Any message of the protocol is   *)
(* taken for a fragment.                                                           *)

\* Mutant: the number of the frame and the place in it are not compared.
FitsAnywhere(m) == m.no \in {0, job.no}

Fits(m) ==
    IF job.no = 0 THEN m.no = 0 /\ m.offset <= coe.room
    ELSE m.no \in {0, job.no} /\ m.frame = eth.frame /\ m.offset = Len(coe.got)

ReceiveFragment ==
    /\ Answered /\ coe.op = "erecv"
    /\ IF link.msg.type = "EoE" /\ Fits(link.msg)
       THEN LET m == link.msg
                copied == Len(coe.got) + Len(m.data) <= coe.room
                got == IF copied THEN coe.got \o m.data ELSE coe.got
            IN  /\ eth' = [eth EXCEPT !.frame = IF job.no = 0 THEN m.frame ELSE @]
                /\ IF m.more
                   THEN /\ link' = Awaiting(TRUE) /\ coe' = [coe EXCEPT !.got = got]
                        /\ job' = [job EXCEPT !.no = IF copied THEN @ + 1 ELSE @]
                        /\ UNCHANGED failed
                   ELSE Ends(TRUE, got)
       ELSE Leave(FALSE) /\ UNCHANGED eth
    /\ UNCHANGED Quiet

-----------------------------------------------------------------------------
(* EOEreadfragment, over the messages that a caller receives until a frame is whole. *)
(* The caller's variables outlive the call.                                         *)

\* What the function leaves in the caller's variables, and what it returns.
Refused(rx) == [rx |-> rx, wkc |-> -1, data |-> <<>>]
Within(at, m, room) ==
    LET length == Len(at.data) + Len(m.data)
        next == IF length <= at.size /\ length <= room
                THEN [at EXCEPT !.data = @ \o m.data, !.no = @ + 1] ELSE at
    IN  IF m.more THEN [rx |-> next, wkc |-> 0, data |-> <<>>]
        ELSE [rx |-> NoFrame, wkc |-> 1, data |-> next.data]
ReadFragment(rx, m, room) ==
    CASE m.type # "EoE" -> Refused(rx)
      [] m.type = "EoE" /\ m.no > 0 /\ m.no # rx.no -> Refused(IF rx.no = 0 THEN rx ELSE NoFrame)
      [] m.type = "EoE" /\ m.no > 0 /\ m.no = rx.no ->
            IF m.frame = rx.frame /\ m.offset = Len(rx.data) THEN Within(rx, m, room) ELSE Refused(NoFrame)
      [] m.type = "EoE" /\ m.no = 0 ->
            Within([NoFrame EXCEPT !.size = m.offset, !.frame = m.frame], m, room)

TakeFragment ==
    /\ Answered /\ coe.op = "eread"
    /\ LET r == ReadFragment(eth.rx, link.msg, coe.room)
       IN  /\ eth' = [eth EXCEPT !.rx = r.rx]
           /\ IF r.wkc = 1 THEN Ends(TRUE, r.data)
              ELSE link' = Awaiting(TRUE) /\ UNCHANGED <<coe, job, failed>>
    /\ UNCHANGED Quiet

-----------------------------------------------------------------------------
(* The slave: its address, the frames it takes, and those of its network.          *)

\* A slave keeps the fragments of one frame, and drops them when one is missing.
PutsTogether(m) ==
    LET fits == \/ m.no = 0
                \/ server.way = "frame" /\ m.no = server.no + 1 /\ m.offset = Len(server.data)
        data == (IF m.no = 0 THEN <<>> ELSE server.data) \o m.data
    IN  /\ server' = IF fits /\ m.more THEN [NoServer EXCEPT !.way = "frame", !.no = m.no, !.data = data]
                     ELSE NoServer
        /\ eth' = [eth EXCEPT !.taken = IF fits /\ ~m.more THEN data ELSE @]
        /\ UNCHANGED <<replies, held, notices>>

\* An answer has the place of a fragment's numbers filled with its result.
IpReply(m, cmd, result, data) ==
    Answers(<<[Fragment(result, 0, 0, data, FALSE) EXCEPT !.cmd = cmd]>>)

EthernetServer(m) ==
    \/ /\ m.cmd = "eset" /\ IpReply(m, "eset", 0, <<>>)
       /\ held' = [held EXCEPT ![m.obj] = m.data]
       /\ UNCHANGED <<notices, server, eth>>
    \/ /\ m.cmd = "eget" /\ IpReply(m, "eget", 0, held[m.obj])
       /\ UNCHANGED <<held, notices, server, eth>>
    \/ /\ m.cmd \in {"eset", "eget"} /\ MayErr /\ IpReply(m, "refusal", 1, <<>>)
       /\ UNCHANGED <<held, server, eth>>
    \/ m.cmd = "fragment" /\ PutsTogether(m)

ServeEthernet ==
    /\ sm0 # Nothing /\ sm0.type = "EoE" /\ sm0.cnt # seen /\ sm0' = Nothing
    /\ seen' = sm0.cnt
    /\ executed' = [id |-> sm0.id, twice |-> executed.twice \/ sm0.id <= executed.id]
    /\ EthernetServer(sm0)
    /\ UNCHANGED <<sm1, last, repreq, repack, link, mbxcnt, lost, coe, app, val, xfer, plan, failed, asked,
                   job, capacity>>

Fragments(frame, units) ==
    LET size == capacity.read
        n == (Len(units) + size - 1) \div size
        cut(k) == SubSeq(units, size * k + 1, Least(Len(units), size * (k + 1)))
    IN  [i \in 1..n |-> Fragment(i - 1, frame, IF i = 1 THEN Len(units) ELSE size * (i - 1),
                                   cut(i - 1), i < n)]

Traffic ==
    /\ eth.given < MaxFrames
    /\ \E o \in Objects : Answers(Fragments(eth.given + 1, Units(eth.given + 1, Size[o])))
    /\ eth' = [eth EXCEPT !.given = @ + 1]
    /\ UNCHANGED <<sm0, sm1, last, seen, repreq, repack, link, mbxcnt, lost, notices, coe, app, slave, plan,
                   failed, asked, Beside>>

-----------------------------------------------------------------------------
Receives == \E i \in DOMAIN plan : plan[i][1] \in {"erecv", "eread"}

EthernetInit ==
    /\ TransferInit
    /\ eth = [tx |-> 0, frame |-> 0, rx |-> NoFrame, taken |-> <<>>,
              given |-> IF Receives THEN 0 ELSE MaxFrames]

EthernetNext ==
    \/ TransferNext /\ UNCHANGED eth
    \/ EthernetCall \/ IpRequest \/ IpResponse \/ EthernetUnheard
    \/ SendFragment \/ FragmentSent \/ ReceiveFragment \/ TakeFragment
    \/ ServeEthernet \/ Traffic

EthernetSpec == EthernetInit /\ [][EthernetNext]_evars

-----------------------------------------------------------------------------
(* The messages, by what they carry.                                               *)

Unit == Nat \X Nat
Somewhere == Objects \union {Nothing}

\* Requests of EcCoe; one that writes carries a value.
CoeRequests ==
    [type : {"CoE"}, cmd : {"up", "seg up", "odlist", "od", "oe", "rxpdo", "txpdo"}, obj : Objects,
     part : Nat, of : Nat, last : BOOLEAN, toggle : BOOLEAN, val : {NoValue}, cnt : 0..MaxCnt, id : Nat]
    \union
    [type : {"CoE"}, cmd : {"down", "seg down"}, obj : Objects,
     part : Nat, of : Nat \ {0}, last : BOOLEAN, toggle : BOOLEAN, val : Values, cnt : 0..MaxCnt, id : Nat]

\* Requests of EcTransfer, those for an address, and fragments.
TransferRequests ==
    [type : {"FoE", "SoE", "EoE"},
     cmd : {"read", "write", "ack", "data", "sread", "swrite", "eset", "eget"}, obj : Objects,
     no : Nat, data : Seq(Unit), more : BOOLEAN, cnt : 0..MaxCnt, id : Nat]
FragmentRequests ==
    [type : {"EoE"}, cmd : {"fragment"}, obj : {Nothing}, no : Nat, frame : Nat, offset : Nat,
     data : Seq(Unit), more : BOOLEAN, cnt : 0..MaxCnt, id : Nat]

ToSlave == CoeRequests \union TransferRequests \union FragmentRequests

CoeAnswers ==
    [type : {"CoE"}, cmd : {"up", "seg up", "down", "seg down", "odlist", "od", "oe", "txpdo", "abort"},
     obj : Somewhere, part : Nat, of : Nat, last : BOOLEAN, toggle : BOOLEAN,
     val : Values \union {NoValue}, cnt : {0}, id : {0}]
TransferAnswers ==
    [type : {"FoE", "SoE"}, cmd : {"data", "ack", "busy", "error", "sread", "swrite"}, obj : Somewhere,
     no : Nat, data : Seq(Unit), more : BOOLEAN]
FragmentAnswers ==
    [type : {"EoE"}, cmd : {"fragment", "eset", "eget", "refusal"}, obj : {Nothing}, no : Nat,
     frame : Nat, offset : Nat, data : Seq(Unit), more : BOOLEAN, cnt : {0}, id : {0}]
Notices == {[type |-> "CoE", cmd |-> "emergency"], [type |-> "error", cmd |-> "mailbox error"]}

FromSlave == CoeAnswers \union TransferAnswers \union FragmentAnswers \union Notices

ASSUME NothingAssumption == Nothing \notin ToSlave \union FromSlave \union Objects

-----------------------------------------------------------------------------
\* Type invariant, of the calls, of every message under way, and of the slave.
EthernetTypeOK ==
    /\ TransferTypeOK
    /\ sm0 \in ToSlave \union {Nothing}
    /\ sm1 \in FromSlave \union {Nothing} /\ last \in FromSlave \union {Nothing}
    /\ replies \in Seq(FromSlave)
    /\ link.msg \in ToSlave \union FromSlave \union {Nothing}
    /\ held \in [Objects -> Seq(Unit)] /\ server.data \in Seq(Unit) /\ eth.rx.data \in Seq(Unit)

IsFrame(units) == \E f \in 1..MaxFrames, o \in Objects : units = Units(f, Size[o])
IsAddress(units) == units = <<>> \/ \E v \in Values \union {NoValue}, o \in Objects : units = Units(v, Size[o])

\* A transfer that succeeds is whole. A frame that is received is one frame of the
\* slave's network, with its parts in order, whatever is lost and however fragments
\* are repeated or left behind by a call that gave up; only the late answer to a
\* request that sets or gets an address passes for a frame. EOEreadfragment, which drops
\* what does not fit and goes on, is held to it only while its caller has room for every
\* frame. A frame that is sent
\* reaches the slave's network as it is; and an address is read as it is.
ExchangeWhole ==
    /\ TransferWhole
    /\ Finished("erecv") => IsFrame(coe.got) \/ IsAddress(coe.got)
    /\ Finished("eread") /\ (\A o \in Objects : Size[o] <= coe.room) => IsFrame(coe.got) \/ IsAddress(coe.got)
    /\ Finished("esend") /\ sm0 = Nothing => eth.taken = Units(coe.val, Size[coe.obj])
    /\ Finished("eget") /\ Sure => coe.got = held[coe.obj]
====
