---- MODULE EcTransfer ----
(* Files (FoE, ethercatfoe.c) and servo parameters (SoE, ethercatsoe.c) over the    *)
(* mailbox, beside the calls of EcCoe. What an object holds here is a sequence of  *)
(* units; a message carries as many of them as its mailbox has room for, the one   *)
(* the master writes or the one it reads. The application makes none of these      *)
(* calls yet.                                                                      *)
EXTENDS EcCoe

CONSTANT Mailboxes \* the mailboxes of slaves: units in the one written and in the one read

TransferOps == {"fread", "fwrite", "sread", "swrite"}

ASSUME TransferAssumption == Mailboxes \subseteq [write : Nat \ {0}, read : Nat \ {0}]

VARIABLES
    job,      \* the locals of the call
    held,     \* object -> its units in the slave
    server,   \* the slave's side of a transfer
    capacity  \* what the slave's mailboxes carry: mbx_l and mbx_rl, without the headers
tvars == <<vars, job, held, server, capacity>>
Beside == <<job, held, server, capacity>>

Units(v, n) == [k \in 1..n |-> <<v, k>>]
NoJob == [pc |-> "done", rest |-> 0, no |-> 0, more |-> FALSE, zero |-> FALSE,
          busy |-> FALSE, skipped |-> FALSE, alone |-> FALSE]
NoServer == [way |-> "none", obj |-> Nothing, no |-> 0, more |-> FALSE, data |-> <<>>]
Least(a, b) == IF a < b THEN a ELSE b
SmallMailbox == [write |-> 1, read |-> 1]

Message(type, cmd, no, data) ==
    [type |-> type, cmd |-> cmd, obj |-> coe.obj, no |-> no, data |-> data,
     more |-> FALSE, cnt |-> 0, id |-> 0]
Reply(m, cmd, no, data, more) ==
    [type |-> m.type, cmd |-> cmd, obj |-> m.obj, no |-> no, data |-> data, more |-> more]

-----------------------------------------------------------------------------
(* What the four calls share.                                                     *)

Same2 == <<slavebox, lost, notices, app, slave, plan, held, server, capacity>>
Quiet == <<Same2, mbxcnt, asked>>

TransferCall ==
    /\ Settled /\ plan # <<>> /\ Operation \in TransferOps
    /\ LET writes == Operation \in {"fwrite", "swrite"}
           rooms == IF writes THEN {0} ELSE {1, Size[Object]}
       IN  \E v \in IF writes THEN Values ELSE {NoValue}, room \in rooms :
              coe' = [Call(Operation, Object, v, room) EXCEPT !.pc = "transfer"]
    /\ job' = [NoJob EXCEPT !.pc = "request", !.rest = Size[Object], !.alone = asked = 0]
    /\ link' = Awaiting(FALSE)
    /\ plan' = Tail(plan) /\ app' = NoApp
    /\ UNCHANGED <<slavebox, mbxcnt, lost, notices, slave, failed, asked, held, server, capacity>>

At(pc) == coe.pc = "transfer" /\ job.pc = pc /\ link.op = Done
Place(m) ==
    /\ mbxcnt' = NextMbxCnt(mbxcnt) /\ asked' = asked + 1
    /\ link' = Sending([m EXCEPT !.cnt = NextMbxCnt(mbxcnt), !.id = asked + 1])
Ends(ok, got) ==
    /\ coe' = [coe EXCEPT !.pc = "idle", !.ok = ok, !.got = got]
    /\ job' = [job EXCEPT !.pc = "done"]
    /\ failed' = (failed \/ ~ok)
    /\ link' = [Awaiting(FALSE) EXCEPT !.op = Done]
Leave(ok) == Ends(ok, coe.got)
Listen(taken) ==
    /\ link' = Awaiting(TRUE) /\ job' = [job EXCEPT !.pc = "receive"]
    /\ coe' = taken /\ UNCHANGED failed
Answered == At("receive") /\ link.wkc > 0

\* The units of a write that are not yet sent, as many as a message carries.
Portion ==
    LET first == Size[coe.obj] - job.rest
    IN  [k \in 1..Least(job.rest, capacity.write) |-> <<coe.val, first + k>>]

-----------------------------------------------------------------------------
(* FOEread and FOEwrite. Every packet is answered: data by an acknowledgement of    *)
(* its number, and that by the next data. A packet that is not full is the last.   *)

FoERequest ==
    /\ At("request") /\ coe.op \in {"fread", "fwrite"}
    /\ Place(Message("FoE", IF coe.op = "fread" THEN "read" ELSE "write", 0, <<>>))
    /\ job' = [job EXCEPT !.pc = "sent", !.more = TRUE]
    /\ UNCHANGED <<Same2, coe, failed>>

\* Behind the acknowledgement of the last packet nothing is expected.
FoESent ==
    /\ At("sent") /\ coe.op \in {"fread", "fwrite"}
    /\ IF link.wkc > 0 /\ job.more THEN Listen(coe) ELSE Leave(link.wkc > 0)
    /\ UNCHANGED Quiet

FoEUnheard ==
    /\ At("receive") /\ coe.op \in {"fread", "fwrite"} /\ link.wkc <= 0
    /\ Leave(FALSE)
    /\ UNCHANGED Quiet

NextPacket(m) == m.no = job.no + 1 /\ Len(coe.got) + Len(m.data) <= coe.room

\* Whether a packet is full is measured by the mailbox that the master writes.
FoEData ==
    /\ Answered /\ coe.op = "fread" /\ link.msg.type = "FoE" /\ link.msg.cmd = "data"
    /\ NextPacket(link.msg)
    /\ coe' = [coe EXCEPT !.got = @ \o link.msg.data]
    /\ job' = [job EXCEPT !.pc = "sent", !.no = link.msg.no, !.more = Len(link.msg.data) = capacity.write]
    /\ Place(Message("FoE", "ack", link.msg.no, <<>>))
    /\ UNCHANGED <<Same2, failed>>

\* Mutant: no empty packet behind the last full one.
EndsEmptyNever(size) == FALSE

\* A file of full packets ends with an empty one.
EndsEmpty(size) == job.rest = size /\ size = capacity.write

FoEAck ==
    /\ Answered /\ coe.op = "fwrite" /\ link.msg.type = "FoE" /\ link.msg.cmd = "ack"
    /\ link.msg.no = job.no /\ (job.rest > 0 \/ job.zero)
    /\ LET size == Len(Portion)
       IN  job' = [job EXCEPT !.pc = "sent", !.no = @ + 1, !.rest = @ - size,
                              !.zero = EndsEmpty(size)]
    /\ Place(Message("FoE", "data", job.no + 1, Portion))
    /\ UNCHANGED <<Same2, coe, failed>>

FoEWritten ==
    /\ Answered /\ coe.op = "fwrite" /\ link.msg.type = "FoE" /\ link.msg.cmd = "ack"
    /\ link.msg.no = job.no /\ job.rest = 0 /\ ~job.zero
    /\ Leave(TRUE)
    /\ UNCHANGED Quiet

\* A slave that is busy: the data is made ready to be sent again, and then the loop
\* ends, with what the receive returned.
FoEBusy ==
    /\ Answered /\ coe.op = "fwrite" /\ link.msg.type = "FoE" /\ link.msg.cmd = "busy"
    /\ coe' = [coe EXCEPT !.pc = "idle", !.ok = TRUE]
    /\ job' = [job EXCEPT !.pc = "done", !.busy = TRUE]
    /\ link' = [Awaiting(FALSE) EXCEPT !.op = Done]
    /\ UNCHANGED <<Quiet, failed>>

FoEGood(m) ==
    /\ m.type = "FoE"
    /\ \/ coe.op = "fread" /\ m.cmd = "data" /\ NextPacket(m)
       \/ coe.op = "fwrite" /\ m.cmd = "ack" /\ m.no = job.no
       \/ coe.op = "fwrite" /\ m.cmd = "busy"
FoEBad ==
    /\ Answered /\ coe.op \in {"fread", "fwrite"} /\ ~FoEGood(link.msg)
    /\ Leave(FALSE)
    /\ UNCHANGED Quiet

-----------------------------------------------------------------------------
(* SoEread and SoEwrite. Fragments carry no number that anybody looks at.          *)

SoEReadRequest ==
    /\ At("request") /\ coe.op = "sread"
    /\ Place(Message("SoE", "sread", 0, <<>>))
    /\ job' = [job EXCEPT !.pc = "asked"]
    /\ UNCHANGED <<Same2, coe, failed>>

Asked ==
    /\ At("asked")
    /\ IF link.wkc > 0 THEN Listen(coe) ELSE Leave(FALSE)
    /\ UNCHANGED Quiet

\* What the caller's buffer cannot take is left out. The IDN is not compared.
SoEReadResponse ==
    /\ Answered /\ coe.op = "sread" /\ link.msg.type = "SoE" /\ link.msg.cmd = "sread"
    /\ LET data == link.msg.data
           got == coe.got \o SubSeq(data, 1, Least(Len(data), coe.room - Len(coe.got)))
       IN  IF link.msg.more THEN Listen([coe EXCEPT !.got = got]) ELSE Ends(TRUE, got)
    /\ UNCHANGED Quiet

SoEFragment ==
    /\ At("request") /\ coe.op = "swrite"
    /\ LET more == job.rest > capacity.write
       IN  /\ Place([Message("SoE", "swrite", 0, Portion) EXCEPT !.more = more])
           /\ job' = [job EXCEPT !.pc = "fragment", !.rest = @ - Len(Portion), !.more = more]
    /\ UNCHANGED <<Same2, coe, failed>>

\* A fragment that could not be sent is followed by the next all the same.
SoEFragmentSent ==
    /\ At("fragment")
    /\ IF link.wkc > 0 /\ job.more
       THEN job' = [job EXCEPT !.pc = "emptying"] /\ UNCHANGED <<coe, link, failed>>
       ELSE IF link.wkc > 0 THEN Listen(coe)
       ELSE IF job.more
            THEN job' = [job EXCEPT !.pc = "request", !.skipped = TRUE] /\ UNCHANGED <<coe, link, failed>>
       ELSE Leave(FALSE)
    /\ UNCHANGED Quiet

\* mbxempty between the fragments; a mailbox that stays full has the answer read.
SoEEmptied ==
    /\ At("emptying") /\ sm0 = Nothing
    /\ job' = [job EXCEPT !.pc = "request"]
    /\ UNCHANGED <<Quiet, coe, link, failed>>
SoEStaysFull ==
    /\ At("emptying")
    /\ \/ sm0 # Nothing /\ UNCHANGED lost
       \/ sm0 = Nothing /\ MayLose
    /\ Listen(coe)
    /\ UNCHANGED <<slavebox, notices, app, slave, plan, held, server, capacity, mbxcnt, asked>>

SoEUnheard ==
    /\ At("receive") /\ coe.op \in {"sread", "swrite"} /\ link.wkc <= 0
    /\ IF coe.op = "swrite" /\ job.more
       THEN job' = [job EXCEPT !.pc = "request"] /\ UNCHANGED <<coe, link, failed>>
       ELSE Leave(FALSE)
    /\ UNCHANGED Quiet

SoEWriteResponse ==
    /\ Answered /\ coe.op = "swrite" /\ link.msg.type = "SoE" /\ link.msg.cmd = "swrite"
    /\ Leave(TRUE)
    /\ UNCHANGED Quiet

SoEBad ==
    /\ Answered /\ coe.op \in {"sread", "swrite"}
    /\ ~(link.msg.type = "SoE" /\ link.msg.cmd = coe.op)
    /\ Leave(FALSE)
    /\ UNCHANGED Quiet

-----------------------------------------------------------------------------
(* The slave's servers.                                                            *)

Answers(rs) == replies' = replies \o rs
Block(o, done) == SubSeq(held[o], done + 1, Least(Len(held[o]), done + capacity.read))

\* The next block of the file that is read, behind what was sent of it.
Supplies(m, o, no, sent) ==
    LET block == Block(o, Len(sent))
    IN  /\ Answers(<<Reply(m, "data", no, block, FALSE)>>)
        /\ server' = [way |-> "read", obj |-> o, no |-> no, more |-> Len(block) = capacity.read, data |-> sent \o block]
        /\ UNCHANGED <<held, notices>>

FileServer(m) ==
    \/ m.cmd = "read" /\ Supplies(m, m.obj, 1, <<>>)
    \/ /\ m.cmd = "ack" /\ server.way = "read" /\ m.no = server.no
       /\ IF server.more THEN Supplies(m, server.obj, server.no + 1, server.data)
          ELSE server' = NoServer /\ UNCHANGED <<held, notices, replies>>
    \/ /\ m.cmd = "write"
       /\ Answers(<<Reply(m, "ack", 0, <<>>, FALSE)>>)
       /\ server' = [NoServer EXCEPT !.way = "write", !.obj = m.obj]
       /\ UNCHANGED <<held, notices>>
    \/ /\ m.cmd = "data" /\ server.way = "write" /\ m.no = server.no + 1
       /\ \/ /\ Answers(<<Reply(m, "ack", m.no, <<>>, FALSE)>>)
             /\ LET data == server.data \o m.data
                IN  IF Len(m.data) = capacity.write
                    THEN server' = [server EXCEPT !.no = m.no, !.data = data] /\ UNCHANGED held
                    ELSE server' = NoServer /\ held' = [held EXCEPT ![server.obj] = data]
             /\ UNCHANGED notices
          \/ /\ MayErr /\ Answers(<<Reply(m, "busy", 0, <<>>, FALSE)>>)
             /\ UNCHANGED <<held, server>>
    \/ /\ \/ MayErr
          \/ m.cmd = "ack" /\ ~(server.way = "read" /\ m.no = server.no) /\ UNCHANGED notices
          \/ m.cmd = "data" /\ ~(server.way = "write" /\ m.no = server.no + 1) /\ UNCHANGED notices
       /\ Answers(<<Reply(m, "error", 0, <<>>, FALSE)>>)
       /\ server' = NoServer /\ UNCHANGED held

\* All fragments of an answer follow each other; those of a write are put together.
ParameterServer(m) ==
    \/ /\ m.cmd = "sread"
       /\ LET size == capacity.read
              n == (Len(held[m.obj]) + size - 1) \div size
          IN  Answers([k \in 1..n |-> Reply(m, "sread", 0, Block(m.obj, size * (k - 1)), k < n)])
       /\ server' = NoServer /\ UNCHANGED <<held, notices>>
    \/ /\ m.cmd = "swrite"
       /\ LET data == (IF server.way = "idn" THEN server.data ELSE <<>>) \o m.data
          IN  IF m.more
              THEN /\ server' = [NoServer EXCEPT !.way = "idn", !.obj = m.obj, !.data = data]
                   /\ UNCHANGED <<held, replies>>
              ELSE /\ Answers(<<Reply(m, "swrite", 0, <<>>, FALSE)>>)
                   /\ server' = NoServer /\ held' = [held EXCEPT ![m.obj] = data]
       /\ UNCHANGED notices
    \/ /\ MayErr /\ Answers(<<Reply(m, "error", 0, <<>>, FALSE)>>)
       /\ server' = NoServer /\ UNCHANGED held

Serve ==
    /\ sm0 # Nothing /\ sm0.type # "CoE" /\ sm0' = Nothing
    /\ IF sm0.cnt = seen
       THEN UNCHANGED <<replies, seen, notices, executed, held, server>>
       ELSE /\ seen' = sm0.cnt
            /\ executed' = [id |-> sm0.id, twice |-> executed.twice \/ sm0.id <= executed.id]
            /\ \/ sm0.type = "FoE" /\ FileServer(sm0)
               \/ sm0.type = "SoE" /\ ParameterServer(sm0)
    /\ UNCHANGED <<sm1, last, repreq, repack, link, mbxcnt, lost, coe, app, val, xfer, plan, failed, asked,
                   job, capacity>>

-----------------------------------------------------------------------------
TransferInit ==
    /\ Init
    /\ job = NoJob /\ server = NoServer
    /\ held = [o \in Objects |-> Units(NoValue, Size[o])]
    /\ IF \E i \in DOMAIN plan : plan[i][1] \notin Operations
       THEN capacity \in Mailboxes /\ val = [o \in Objects |-> CHOOSE v \in Values : TRUE]
       ELSE capacity = SmallMailbox

TransferStep ==
    \/ TransferCall
    \/ FoERequest \/ FoESent \/ FoEUnheard \/ FoEData \/ FoEAck \/ FoEWritten \/ FoEBusy \/ FoEBad
    \/ SoEReadRequest \/ Asked \/ SoEReadResponse \/ SoEFragment \/ SoEFragmentSent
    \/ SoEEmptied \/ SoEStaysFull \/ SoEUnheard \/ SoEWriteResponse \/ SoEBad

TransferNext == (Next /\ UNCHANGED Beside) \/ TransferStep \/ Serve

TransferSpec == TransferInit /\ [][TransferNext]_tvars

-----------------------------------------------------------------------------
\* Type invariant, of the calls of EcCoe and of these.
TransferTypeOK ==
    /\ TypeOK
    /\ capacity \in Mailboxes \union {SmallMailbox}
    /\ job.pc \in {"done", "request", "sent", "asked", "receive", "fragment", "emptying"}
    /\ job.pc # "done" => job.rest \in 0..Size[coe.obj]
    /\ coe.pc = "transfer" => Len(coe.got) <= coe.room
    /\ server.way \in {"none", "read", "write", "idn", "frame"}

\* The answers a call takes are its own: no call has failed, nothing of an earlier
\* one was under way, and nothing was lost, except during the very first call.
Sure == ~failed /\ coe.clear /\ (lost = 0 \/ job.alone)

\* A transfer that succeeds is whole: a file is read, or written, as it is, whatever
\* is lost during the first call or, when nothing was lost, during any other; unless
\* the slave said that it was busy. Of a file that is read this is so when the two
\* mailboxes are of one size; with others what is read is in order, but the read may end
\* behind a full packet. A parameter is read as far as the buffer reaches,
\* or written as it is, when nothing was lost, the slave had nothing else to say and
\* every fragment could be sent: fragments have no number.
TransferWhole ==
    LET calm == ~failed /\ lost = 0 /\ notices = 0
    IN  /\ Finished("fread") /\ Sure =>
              /\ coe.got = SubSeq(held[coe.obj], 1, Len(coe.got))
              /\ capacity.read = capacity.write => coe.got = held[coe.obj]
        /\ Finished("fwrite") /\ Sure /\ ~job.busy => held[coe.obj] = Units(coe.val, Size[coe.obj])
        /\ Finished("sread") /\ calm =>
              coe.got = SubSeq(held[coe.obj], 1, Least(coe.room, Len(held[coe.obj])))
        /\ Finished("swrite") /\ calm /\ ~job.skipped =>
              held[coe.obj] = Units(coe.val, Size[coe.obj])
====
