---- MODULE EcCoe ----
(* CANopen over EtherCAT: the blocking calls of ethercatcoe.c over the mailbox of *)
(* one slave, and the application's verified write over them (master.rs). An      *)
(* object is a sequence of parts, as many as messages are needed to carry it.     *)
EXTENDS EcMailbox

CONSTANTS
    Objects,    \* objects of the slave's dictionary
    Size,       \* object -> the number of its parts
    MaxSub,     \* the largest subindex of an object, as its description says
    ListRoom,   \* EC_MAXODLIST: how much of the list of objects the master has room for
    Values,     \* what an object may hold
    Plans       \* bound: the calls that are made, as sequences of <<operation, object>>

Operations == {"up", "down", "odlist", "od", "oe", "rxpdo", "txpdo", "verified"}

ASSUME CoeAssumption ==
    /\ Size \in [Objects -> Nat \ {0}] /\ MaxSub \in Nat /\ ListRoom \in Nat \ {0}
    /\ Values \subseteq Nat \ {0}
    /\ Plans \subseteq Seq(STRING \X Objects)

VARIABLES
    coe,        \* the call: its locals, and what it returned
    app,        \* the verified write that makes calls, if one does
    val,        \* object -> its value in the slave
    xfer,       \* the slave's segmented transfer
    plan,       \* the calls still to be made
    failed,     \* has a call failed?
    asked,      \* the requests the master has made
    executed    \* the last of them the slave has executed, and whether one twice
vars == <<mailbox, coe, app, val, xfer, plan, failed, asked, executed>>
slave == <<val, xfer, executed>>

NoValue == 0

Msg(cmd, obj) ==
    [type |-> "CoE", cmd |-> cmd, obj |-> obj, part |-> 0, of |-> 0, last |-> FALSE,
     toggle |-> FALSE, val |-> NoValue, cnt |-> 0, id |-> 0]

NoTransfer == [way |-> "none", obj |-> Nothing, of |-> 0, done |-> 0, toggle |-> FALSE, val |-> NoValue]

\* Nothing of an earlier call is still under way: no request, no answer, no repeat.
Clear == sm0 = Nothing /\ sm1 = Nothing /\ replies = <<>> /\ repreq = repack

\* For the properties, clear remembers how a call began; one of EcCoe, when its first
\* request is made, behind what it found in the mailbox.
Call(op, obj, v, room) ==
    [op |-> op, pc |-> "ready", obj |-> obj, val |-> v, room |-> room, part |-> 1,
     seg |-> FALSE, toggle |-> FALSE, of |-> 0, got |-> <<>>, ok |-> FALSE, clear |-> Clear]

\* calm, for the properties: nothing of an earlier call was under way when it began.
NoApp == [phase |-> "none", obj |-> Nothing, val |-> NoValue, expected |-> NoValue, calm |-> FALSE]

-----------------------------------------------------------------------------
(* The parts every call has: empty the mailbox, send a request, take an answer.  *)

Begin(op, obj, v, room) ==
    /\ coe' = Call(op, obj, v, room)
    /\ link' = Awaiting(FALSE)

Return(ok) ==
    /\ coe' = [coe EXCEPT !.pc = "idle", !.ok = ok]
    /\ failed' = (failed \/ ~ok)
    /\ link' = [Awaiting(FALSE) EXCEPT !.op = Done]

\* The next request of the same call; what the mailbox returned before is gone.
Continue(changed) ==
    /\ coe' = [changed EXCEPT !.pc = "ready"]
    /\ link' = [Awaiting(FALSE) EXCEPT !.op = Done]
    /\ UNCHANGED failed

SdoRequest ==
    LET segment == IF coe.op = "up" THEN "seg up" ELSE "seg down"
        m == Msg(IF coe.seg THEN segment ELSE coe.op, coe.obj)
    IN  IF coe.op = "up" THEN [m EXCEPT !.toggle = coe.toggle]
        ELSE [m EXCEPT !.part = coe.part, !.of = Size[coe.obj], !.val = coe.val,
                       !.last = coe.part = Size[coe.obj], !.toggle = coe.toggle]

InfoRequest == [Msg(coe.op, coe.obj) EXCEPT !.part = coe.part]

RequestOf == IF coe.op \in {"up", "down"} THEN SdoRequest ELSE InfoRequest

\* Whatever the slave had left in its mailbox was thrown away before.
Request ==
    /\ coe.pc = "ready" /\ link.op = Done
    /\ mbxcnt' = NextMbxCnt(mbxcnt)
    /\ link' = Sending([RequestOf EXCEPT !.cnt = NextMbxCnt(mbxcnt), !.id = asked + 1])
    /\ asked' = asked + 1
    /\ coe' = [coe EXCEPT !.pc = "send", !.part = IF coe.op = "down" THEN @ + 1 ELSE @,
                          !.clear = IF coe.seg THEN @ ELSE Clear]
    /\ UNCHANGED <<slavebox, lost, notices, app, slave, plan, failed>>

\* A segment that could not be sent, or was not answered, does not end a download:
\* the next one is sent.
GoesOn == coe.op = "down" /\ coe.seg /\ coe.part <= Size[coe.obj]
NextSegment == Continue([coe EXCEPT !.toggle = ~@])

\* A subindex that cannot be read does not end the reading of the others; what the
\* last one returned counts.
NextEntry(ok) ==
    IF coe.part < MaxSub
    THEN /\ coe' = [coe EXCEPT !.pc = "ready", !.part = @ + 1,
                               !.got = IF ok THEN Append(@, coe.part) ELSE @]
         /\ link' = Awaiting(FALSE) /\ failed' = (failed \/ ~ok)
    ELSE /\ coe' = [coe EXCEPT !.pc = "idle", !.ok = ok,
                               !.got = IF ok THEN Append(@, coe.part) ELSE @]
         /\ link' = [Awaiting(FALSE) EXCEPT !.op = Done]
         /\ failed' = (failed \/ ~ok)

Fails == CASE GoesOn -> NextSegment
           [] coe.op = "oe" -> NextEntry(FALSE)
           [] OTHER -> Return(FALSE)

Sent ==
    /\ coe.pc = "send" /\ link.op = Done
    /\ IF link.wkc <= 0 THEN Fails
       ELSE IF coe.op = "rxpdo" THEN Return(TRUE)
       ELSE link' = Awaiting(TRUE) /\ coe' = [coe EXCEPT !.pc = "receive"] /\ UNCHANGED failed
    /\ UNCHANGED <<slavebox, mbxcnt, lost, notices, app, slave, plan, asked>>

Received == coe.pc = "receive" /\ link.op = Done /\ link.wkc > 0
Same == <<slavebox, mbxcnt, lost, notices, app, slave, plan, asked>>

NotReceived ==
    /\ coe.pc = "receive" /\ link.op = Done /\ link.wkc <= 0
    /\ Fails
    /\ UNCHANGED Same

-----------------------------------------------------------------------------
(* SDOread.                                                                       *)

\* The initial answer must name the object. Its part is copied; the announced size
\* must fit in the caller's buffer; when parts are missing they are asked for.
IsUploadResponse(m) == m.type = "CoE" /\ m.cmd = "up" /\ m.obj = coe.obj

UploadResponse ==
    /\ Received /\ coe.op = "up" /\ ~coe.seg
    /\ IsUploadResponse(link.msg)
    /\ IF link.msg.of > coe.room THEN Return(FALSE)
       ELSE LET taken == [coe EXCEPT !.got = <<<<link.msg.val, 1>>>>, !.of = link.msg.of]
            IN  IF link.msg.of = 1
                THEN /\ coe' = [taken EXCEPT !.pc = "idle", !.ok = TRUE]
                     /\ link' = [Awaiting(FALSE) EXCEPT !.op = Done] /\ UNCHANGED failed
                ELSE Continue([taken EXCEPT !.seg = TRUE])
    /\ UNCHANGED Same

\* Mutant: the end of the transfer is taken at the slave's word.
WholeUnchecked(c) == TRUE

\* A segment carries no index: the command and the toggle bit pair it with its
\* request. It must fit in what the initial answer announced.
IsUploadSegment(m) ==
    /\ m.type = "CoE" /\ m.cmd = "seg up"
    /\ m.toggle = coe.toggle
    /\ Len(coe.got) < coe.of

\* After the last segment the size read must be the size announced.
Whole(c) == Len(c.got) = c.of

UploadSegment ==
    /\ Received /\ coe.op = "up" /\ coe.seg
    /\ IsUploadSegment(link.msg)
    /\ LET taken == [coe EXCEPT !.got = Append(@, <<link.msg.val, link.msg.part>>), !.toggle = ~@]
       IN  IF link.msg.last
           THEN /\ coe' = [taken EXCEPT !.pc = "idle", !.ok = Whole(taken)]
                /\ link' = [Awaiting(FALSE) EXCEPT !.op = Done]
                /\ failed' = (failed \/ ~Whole(taken))
           ELSE Continue(taken)
    /\ UNCHANGED Same

\* The transfer has two seconds, looked at before each segment is asked for.
TransferExpires ==
    /\ coe.pc = "ready" /\ coe.op = "up" /\ coe.seg
    /\ Return(FALSE)
    /\ UNCHANGED Same

-----------------------------------------------------------------------------
(* SDOwrite.                                                                      *)

\* The answer must be one of the SDO service and name the object; what it answers
\* is not looked at. (A refusal is an abort, which is of another service.)
IsDownloadResponse(m) == m.type = "CoE" /\ m.cmd \in {"up", "down"} /\ m.obj = coe.obj

DownloadResponse ==
    /\ Received /\ coe.op = "down" /\ ~coe.seg
    /\ IsDownloadResponse(link.msg)
    /\ IF coe.part <= Size[coe.obj] THEN Continue([coe EXCEPT !.seg = TRUE]) ELSE Return(TRUE)
    /\ UNCHANGED Same

\* Its toggle bit is not looked at.
DownloadSegmentResponse ==
    /\ Received /\ coe.op = "down" /\ coe.seg
    /\ link.msg.type = "CoE" /\ link.msg.cmd = "seg down"
    /\ IF GoesOn THEN NextSegment ELSE Return(TRUE)
    /\ UNCHANGED Same

-----------------------------------------------------------------------------
(* The dictionary, and process data by mailbox: an answer is known by its opcode. *)

\* Mutant: the first fragment is taken for the list.
FollowsNever(m) == FALSE

Follows(m) == ~m.last

\* What the master has no room for is left out, with an error for the list of errors,
\* and the fragments are read on; of so long a list it may be that the 129 fragments a
\* call reads are not all. The call succeeds all the same.
ListFragment ==
    /\ Received /\ coe.op = "odlist"
    /\ link.msg.type = "CoE" /\ link.msg.cmd = "odlist"
    /\ LET entries == IF Len(coe.got) < ListRoom THEN <<<<link.msg.val, link.msg.part>>>> ELSE <<>>
           taken == [coe EXCEPT !.got = @ \o entries]
       IN  \/ /\ Follows(link.msg)
              /\ coe' = taken
              /\ link' = Awaiting(TRUE)
           \/ /\ ~Follows(link.msg) \/ Len(taken.got) = ListRoom
              /\ coe' = [taken EXCEPT !.pc = "idle", !.ok = TRUE]
              /\ link' = [Awaiting(FALSE) EXCEPT !.op = Done]
    /\ UNCHANGED <<Same, failed>>

\* A description is filed under the object that was asked about.
Description ==
    /\ Received /\ coe.op = "od"
    /\ link.msg.type = "CoE" /\ link.msg.cmd = "od"
    /\ coe' = [coe EXCEPT !.pc = "idle", !.ok = TRUE, !.got = <<link.msg.obj>>]
    /\ link' = [Awaiting(FALSE) EXCEPT !.op = Done]
    /\ UNCHANGED <<Same, failed>>

Entry ==
    /\ Received /\ coe.op = "oe"
    /\ link.msg.type = "CoE" /\ link.msg.cmd = "oe"
    /\ NextEntry(TRUE)
    /\ UNCHANGED Same

TxPdoResponse ==
    /\ Received /\ coe.op = "txpdo"
    /\ link.msg.type = "CoE" /\ link.msg.cmd = "txpdo"
    /\ Return(TRUE)
    /\ UNCHANGED Same

Expected(m) ==
    CASE coe.op = "up" -> IF coe.seg THEN IsUploadSegment(m) ELSE IsUploadResponse(m)
      [] coe.op = "down" -> IF coe.seg THEN m.type = "CoE" /\ m.cmd = "seg down" ELSE IsDownloadResponse(m)
      [] OTHER -> m.type = "CoE" /\ m.cmd = coe.op

\* An abort, an error of the information service, or a message nobody asked for.
Unexpected ==
    /\ Received /\ ~Expected(link.msg)
    /\ IF coe.op = "oe" THEN NextEntry(FALSE) ELSE Return(FALSE)
    /\ UNCHANGED Same

-----------------------------------------------------------------------------
(* The slave. It answers in order; it may refuse, and it may get a segment wrong. *)

Put(m, answers) == replies' = replies \o answers
Abort(m) == Msg("abort", m.obj)

MayErr == notices < MaxNotices /\ notices' = notices + 1

Upload(m) ==
    /\ Put(m, <<[Msg("up", m.obj) EXCEPT !.part = 1, !.of = Size[m.obj], !.val = val[m.obj]]>>)
    /\ xfer' = [way |-> "up", obj |-> m.obj, of |-> Size[m.obj], done |-> 1,
                toggle |-> FALSE, val |-> val[m.obj]]
    /\ UNCHANGED <<val, notices>>

\* Sends the segment asked for; in error, the one before it again, or the last one
\* too early.
UploadsSegment(m) ==
    /\ xfer.way = "up" /\ m.toggle = xfer.toggle /\ xfer.done < xfer.of
    /\ LET next == [Msg("seg up", Nothing) EXCEPT !.part = xfer.done + 1, !.val = xfer.val,
                       !.toggle = xfer.toggle, !.last = xfer.done + 1 = xfer.of]
       IN  \/ /\ Put(m, <<next>>)
              /\ xfer' = [xfer EXCEPT !.done = @ + 1, !.toggle = ~@]
              /\ UNCHANGED notices
           \/ /\ MayErr
              /\ \/ Put(m, <<[next EXCEPT !.last = TRUE]>>)
                 \/ Put(m, <<[next EXCEPT !.part = xfer.done, !.toggle = ~@, !.last = FALSE]>>)
              /\ xfer' = NoTransfer
    /\ UNCHANGED val

Download(m) ==
    /\ Put(m, <<Msg("down", m.obj)>>)
    /\ IF m.of = 1 THEN val' = [val EXCEPT ![m.obj] = m.val] /\ UNCHANGED xfer
       ELSE /\ xfer' = [way |-> "down", obj |-> m.obj, of |-> m.of, done |-> 1, toggle |-> FALSE, val |-> m.val]
            /\ UNCHANGED val
    /\ UNCHANGED notices

DownloadsSegment(m) ==
    /\ xfer.way = "down" /\ m.toggle = xfer.toggle
    /\ m.last <=> xfer.done + 1 = xfer.of
    /\ Put(m, <<[Msg("seg down", Nothing) EXCEPT !.toggle = m.toggle]>>)
    /\ IF m.last
       THEN /\ val' = [val EXCEPT ![xfer.obj] = xfer.val]
            /\ xfer' = NoTransfer
       ELSE /\ xfer' = [xfer EXCEPT !.done = @ + 1, !.toggle = ~@]
            /\ UNCHANGED val
    /\ UNCHANGED notices

\* The list of objects has as many fragments as the object that the plan names has parts.
Informs(m) ==
    /\ Put(m, IF m.cmd = "rxpdo" THEN <<>>
              ELSE IF m.cmd # "odlist" THEN <<[Msg(m.cmd, m.obj) EXCEPT !.part = m.part]>>
              ELSE [k \in 1..Size[m.obj] |-> [Msg("odlist", Nothing) EXCEPT !.part = k, !.last = k = Size[m.obj]]])
    /\ UNCHANGED <<val, xfer, notices>>

Refuses(m) ==
    /\ \/ MayErr
       \/ m.cmd = "seg up" /\ (xfer.way # "up" \/ m.toggle # xfer.toggle) /\ UNCHANGED notices
       \/ /\ m.cmd = "seg down" /\ UNCHANGED notices
          /\ xfer.way # "down" \/ m.toggle # xfer.toggle \/ ~(m.last <=> xfer.done + 1 = xfer.of)
    /\ Put(m, IF m.cmd = "rxpdo" THEN <<>> ELSE <<Abort(m)>>)
    /\ xfer' = NoTransfer
    /\ UNCHANGED val

Execute(m) ==
    \/ m.cmd = "up" /\ Upload(m)
    \/ m.cmd = "seg up" /\ UploadsSegment(m)
    \/ m.cmd = "down" /\ Download(m)
    \/ m.cmd = "seg down" /\ DownloadsSegment(m)
    \/ m.cmd \in {"odlist", "od", "oe", "rxpdo", "txpdo"} /\ Informs(m)
    \/ Refuses(m)

\* A request with the counter of the one before is that one sent again.
Take ==
    /\ sm0 # Nothing /\ sm0.type = "CoE" /\ sm0' = Nothing
    /\ IF sm0.cnt # 0 /\ sm0.cnt = seen
       THEN UNCHANGED <<replies, seen, notices, slave>>
       ELSE /\ seen' = sm0.cnt
            /\ executed' = [id |-> sm0.id, twice |-> executed.twice \/ sm0.id <= executed.id]
            /\ Execute(sm0)
    /\ UNCHANGED <<sm1, last, repreq, repack, link, mbxcnt, lost, coe, app, plan, failed, asked>>
-----------------------------------------------------------------------------
(* The calls, and the verified write: read, compare, write, read back.            *)

Outside == <<slavebox, mbxcnt, lost, notices, slave, failed, asked>>
Settled == coe.pc = "idle" /\ app.phase \in {"none", "verified", "unknown"}
Operation == plan[1][1]
Object == plan[1][2]

LibraryCall ==
    /\ Settled /\ plan # <<>> /\ Operation \in Operations \ {"verified"}
    /\ CASE Operation = "up" -> \E room \in {1, Size[Object]} : Begin("up", Object, NoValue, room)
         [] Operation = "down" -> \E v \in Values : Begin("down", Object, v, 0)
         [] OTHER -> Begin(Operation, Object, NoValue, 0)
    /\ plan' = Tail(plan)
    /\ app' = NoApp
    /\ UNCHANGED Outside

WriteStart ==
    /\ Settled /\ plan # <<>> /\ Operation = "verified"
    /\ Begin("up", Object, NoValue, Size[Object])
    /\ \E v \in Values, e \in Values :
          app' = [NoApp EXCEPT !.phase = "before", !.obj = Object, !.val = v, !.expected = e]
    /\ plan' = Tail(plan)
    /\ UNCHANGED Outside

Read(v) == coe.ok /\ coe.got = [k \in 1..Size[coe.obj] |-> <<v, k>>]

WriteCompared ==
    /\ app.phase = "before" /\ coe.pc = "idle"
    /\ IF Read(app.expected)
       THEN Begin("down", app.obj, app.val, 0) /\ app' = [app EXCEPT !.phase = "write", !.calm = coe.clear]
       ELSE app' = NoApp /\ UNCHANGED <<coe, link>>
    /\ UNCHANGED <<plan, Outside>>

\* Mutant: a write that was answered is not read back.
WriteSentTrusted ==
    /\ app.phase = "write" /\ coe.pc = "idle"
    /\ app' = [app EXCEPT !.phase = IF coe.ok THEN "verified" ELSE "unknown"]
    /\ UNCHANGED <<coe, link, plan, Outside>>

WriteSent ==
    /\ app.phase = "write" /\ coe.pc = "idle"
    /\ IF coe.ok
       THEN Begin("up", app.obj, NoValue, Size[app.obj]) /\ app' = [app EXCEPT !.phase = "after"]
       ELSE app' = [app EXCEPT !.phase = "unknown"] /\ UNCHANGED <<coe, link>>
    /\ UNCHANGED <<plan, Outside>>

WriteReadBack ==
    /\ app.phase = "after" /\ coe.pc = "idle"
    /\ app' = [app EXCEPT !.phase = IF Read(app.val) THEN "verified" ELSE "unknown"]
    /\ UNCHANGED <<coe, link, plan, Outside>>

-----------------------------------------------------------------------------
Init ==
    /\ MailboxInit
    /\ coe = [Call("up", Nothing, NoValue, 0) EXCEPT !.pc = "idle"]
    /\ app = NoApp
    /\ val \in [Objects -> Values]
    /\ xfer = NoTransfer
    /\ plan \in Plans /\ failed = FALSE /\ asked = 0
    /\ executed = [id |-> 0, twice |-> FALSE]

CoeStep ==
    \/ Request \/ Sent \/ NotReceived \/ Unexpected
    \/ UploadResponse \/ UploadSegment \/ TransferExpires
    \/ DownloadResponse \/ DownloadSegmentResponse
    \/ ListFragment \/ Description \/ Entry \/ TxPdoResponse

Next ==
    \/ (LinkStep \/ SlaveMailbox) /\ UNCHANGED <<coe, app, slave, plan, failed, asked>>
    \/ Take \/ CoeStep
    \/ LibraryCall \/ WriteStart \/ WriteCompared \/ WriteSent \/ WriteReadBack

Spec == Init /\ [][Next]_vars

-----------------------------------------------------------------------------
\* Type invariant: the mailboxes, the call and the slave.
TypeOK ==
    /\ mbxcnt \in 0..MaxCnt /\ seen \in 0..MaxCnt
    /\ repreq \in BOOLEAN /\ repack \in BOOLEAN
    /\ link.op \in {"empty", "put", "resend", "await", "fetch", "toggle", "ack", "again", Done}
    /\ link.wkc \in 0..1
    /\ coe.pc \in {"idle", "ready", "send", "receive", "transfer"}
    /\ coe.part \in 0..(MaxSub + 1) \union UNION {1..(Size[o] + 1) : o \in Objects}
    /\ app.phase \in {"none", "before", "write", "after", "verified", "unknown"}
    /\ val \in [Objects -> Values]
    /\ xfer.done <= xfer.of

\* The slave executes no request twice, though the link layer writes one again
\* when it does not know whether it arrived.
ExecutedOnce == ~executed.twice

Finished(op) == coe.pc = "idle" /\ coe.op = op /\ coe.ok

\* A read that succeeds returns one value of the object, whole and in order: no
\* part of another transfer, no part twice, none missing, whatever is lost or late
\* during the call; if nothing of an earlier call was under way when it asked.
UploadWhole ==
    Finished("up") /\ coe.clear =>
       \E v \in Values : coe.got = [k \in 1..Size[coe.obj] |-> <<v, k>>]

\* While nothing was lost, the list of objects is whole and in order, up to what the
\* master has room for, and a description is of the object asked about, whatever else
\* the slave sends meanwhile; if nothing of an earlier call was under way when it asked.
DictionaryIsOwn ==
    lost = 0 /\ coe.clear =>
       /\ Finished("odlist") =>
             \E n \in 1..Size[coe.obj] :
                /\ n = Size[coe.obj] \/ n = ListRoom
                /\ coe.got = [k \in 1..n |-> <<NoValue, k>>]
       /\ Finished("od") => coe.got = <<coe.obj>>

\* A verified write is true: the slave holds the value when the read-back agrees,
\* whatever was lost, refused, late or sent again since it began, and whatever answers
\* of its own, late or twice, its parts took for theirs; if nothing of an earlier call
\* was under way when it first read.
VerifiedIsApplied == app.phase = "verified" /\ app.calm => val[app.obj] = app.val
====
