---- MODULE EcMailbox ----
(* The mailbox link layer of the EtherCAT master (ethercatmain.c of SOEM) and the *)
(* slave's side of it. Mailbox SM0 carries requests to the slave and SM1 what it  *)
(* sends; each holds one message. A message lost on the way back to the master is *)
(* asked for again by toggling the repeat request; a request that the link layer  *)
(* sent again is told from a new one by its counter.                              *)
(* An exchange of a frame is one step: it is answered, or it is lost before or    *)
(* after the slave has executed it (see EcPort).                                  *)
EXTENDS Integers, Sequences, FiniteSets

CONSTANTS
    MaxCnt,     \* the largest mailbox counter: 7
    MaxLost,    \* bound: exchanges without an answer
    MaxNotices, \* bound: messages the slave sends unasked, and requests it refuses
    Nothing     \* no message

ASSUME MailboxAssumption == MaxCnt \in Nat \ {0, 1} /\ MaxLost \in Nat /\ MaxNotices \in Nat

VARIABLES
    sm0, sm1,   \* the slave's mailboxes
    replies,    \* what the slave will put in SM1
    last,       \* what the master read from it last
    seen,       \* the counter of the request it executed last
    repreq,     \* the repeat request, as the master wrote it
    repack,     \* the repeat request the slave has served
    link,       \* the master's mailbox operation
    mbxcnt,     \* slavelist[slave].mbx_cnt
    lost, notices
slavebox == <<sm0, sm1, replies, last, seen, repreq, repack>>
mailbox == <<slavebox, link, mbxcnt, lost, notices>>

Done == "done"
Awaiting(patient) == [op |-> "await", patient |-> patient, bit |-> FALSE, msg |-> Nothing, wkc |-> 0]
Sending(m) == [op |-> "empty", patient |-> TRUE, bit |-> FALSE, msg |-> m, wkc |-> 0]
Finish(wkc, m) == link' = [link EXCEPT !.op = Done, !.wkc = wkc, !.msg = m]
Goto(op) == link' = [link EXCEPT !.op = op]

\* Mutants: the counter wraps round to 0, which says that there is none, and it
\* does not wrap round.
NextMbxCntFromZero(c) == IF c + 1 > MaxCnt THEN 0 ELSE c + 1
NextMbxCntUnwrapped(c) == c + 1

NextMbxCnt(c) == IF c + 1 > MaxCnt THEN 1 ELSE c + 1

\* An Ethernet frame's fragment: the rest of one, when nobody waits for it.
Fragment(no, frame, offset, data, more) ==
    [type |-> "EoE", cmd |-> "fragment", obj |-> Nothing, no |-> no, frame |-> frame,
     offset |-> offset, data |-> data, more |-> more, cnt |-> 0, id |-> 0]

MayLose == lost < MaxLost /\ lost' = lost + 1

-----------------------------------------------------------------------------
(* mbxsend: wait until SM0 is empty, then write the message.                      *)

MbxEmptySeen ==
    /\ link.op = "empty" /\ sm0 = Nothing
    /\ Goto("put")
    /\ UNCHANGED <<slavebox, mbxcnt, lost, notices>>

MbxEmptyEnds ==
    /\ link.op = "empty"
    /\ \/ sm0 # Nothing /\ UNCHANGED lost
       \/ sm0 = Nothing /\ MayLose
    /\ Finish(0, Nothing)
    /\ UNCHANGED <<slavebox, mbxcnt, notices>>

MbxSend ==
    /\ link.op = "put"
    /\ sm0' = link.msg
    /\ Finish(1, Nothing)
    /\ UNCHANGED <<sm1, replies, last, seen, repreq, repack, mbxcnt, lost, notices>>

\* The write is not answered: srconfirm sends it again while its time lasts.
MbxSendLost ==
    /\ link.op = "put" /\ MayLose
    /\ sm0' \in {Nothing, link.msg}
    /\ Goto("resend")
    /\ UNCHANGED <<sm1, replies, last, seen, repreq, repack, mbxcnt, notices>>

MbxSendAgain ==
    /\ link.op = "resend"
    /\ \/ /\ sm0 = Nothing
          /\ sm0' = link.msg /\ Finish(1, Nothing)
       \/ Finish(0, Nothing) /\ UNCHANGED sm0
    /\ UNCHANGED <<sm1, replies, last, seen, repreq, repack, mbxcnt, lost, notices>>

-----------------------------------------------------------------------------
(* mbxreceive: wait for SM1 to be full, read it, and ask for it again when the    *)
(* read is not answered. Without patience every timer has expired from the start. *)

AwaitFull ==
    /\ link.op = "await" /\ sm1 # Nothing
    /\ link' = [link EXCEPT !.op = "fetch", !.bit = repreq]
    /\ UNCHANGED <<slavebox, mbxcnt, lost, notices>>

AwaitEnds ==
    /\ link.op = "await"
    /\ \/ sm1 = Nothing /\ UNCHANGED lost
       \/ sm1 # Nothing /\ MayLose
    /\ Finish(0, Nothing)
    /\ UNCHANGED <<slavebox, mbxcnt, notices>>

IsNotice(m) == m.type = "error" \/ (m.type = "CoE" /\ m.cmd = "emergency")

\* An error or an emergency is and does not count as an answer: the
\* mailbox is read again, without waiting for it to be full.
FetchNotice ==
    /\ link.op = "fetch" /\ sm1 # Nothing /\ IsNotice(sm1)
    /\ sm1' = Nothing /\ last' = sm1
    /\ \/ link.patient /\ Goto("fetch")
       \/ Finish(0, Nothing)
    /\ UNCHANGED <<sm0, replies, seen, repreq, repack, mbxcnt, lost, notices>>

FetchAnswer ==
    /\ link.op = "fetch" /\ sm1 # Nothing /\ ~IsNotice(sm1)
    /\ sm1' = Nothing /\ last' = sm1
    /\ Finish(1, sm1)
    /\ UNCHANGED <<sm0, replies, seen, repreq, repack, mbxcnt, lost, notices>>

FetchLost ==
    /\ link.op = "fetch"
    /\ \/ sm1 = Nothing /\ UNCHANGED <<sm1, last, lost>>
       \/ sm1 # Nothing /\ MayLose /\ UNCHANGED <<sm1, last>>
       \/ sm1 # Nothing /\ MayLose /\ sm1' = Nothing /\ last' = sm1
    /\ Goto("toggle")
    /\ UNCHANGED <<sm0, replies, seen, repreq, repack, mbxcnt, notices>>

Toggle ==
    /\ link.op = "toggle"
    /\ link' = [link EXCEPT !.op = "ack", !.bit = ~@]
    /\ \/ repreq' = ~link.bit /\ UNCHANGED lost
       \/ MayLose /\ UNCHANGED repreq
    /\ UNCHANGED <<sm0, sm1, replies, last, seen, repack, mbxcnt, notices>>

ToggleAcked ==
    /\ link.op = "ack" /\ link.patient /\ repack = link.bit
    /\ Goto("again")
    /\ UNCHANGED <<slavebox, mbxcnt, lost, notices>>

AgainFull ==
    /\ link.op = "again" /\ sm1 # Nothing
    /\ link' = [link EXCEPT !.op = "fetch", !.bit = repreq]
    /\ UNCHANGED <<slavebox, mbxcnt, lost, notices>>

RepeatExpires ==
    /\ link.op \in {"ack", "again"}
    /\ Finish(0, Nothing)
    /\ UNCHANGED <<slavebox, mbxcnt, lost, notices>>

LinkStep ==
    \/ MbxEmptySeen \/ MbxEmptyEnds \/ MbxSend \/ MbxSendLost \/ MbxSendAgain
    \/ AwaitFull \/ AwaitEnds \/ FetchNotice \/ FetchAnswer \/ FetchLost
    \/ Toggle \/ ToggleAcked \/ AgainFull \/ RepeatExpires

-----------------------------------------------------------------------------
(* The slave's mailbox, as the master's protocol takes it to be.                  *)

Answer ==
    /\ replies # <<>> /\ sm1 = Nothing
    /\ sm1' = Head(replies) /\ replies' = Tail(replies)
    /\ UNCHANGED <<sm0, last, seen, repreq, repack, link, mbxcnt, lost, notices>>

Notice ==
    /\ sm1 = Nothing /\ notices < MaxNotices /\ notices' = notices + 1
    /\ \E m \in {[type |-> "CoE", cmd |-> "emergency"], [type |-> "error", cmd |-> "mailbox error"],
                 Fragment(1, 0, 1, <<>>, FALSE)} :
          sm1' = m
    /\ UNCHANGED <<sm0, replies, last, seen, repreq, repack, link, mbxcnt, lost>>

\* The message asked for is the last one; when the mailbox is full, it may be what
\* the mailbox holds, or the one before.
Repeat ==
    /\ repreq # repack /\ repack' = repreq
    /\ \/ sm1 # Nothing /\ UNCHANGED <<sm1, replies>>
       \/ /\ sm1' = last
          /\ replies' = IF sm1 = Nothing THEN replies ELSE <<sm1>> \o replies
    /\ UNCHANGED <<sm0, last, seen, repreq, link, mbxcnt, lost, notices>>

SlaveMailbox == Answer \/ Notice \/ Repeat

MailboxInit ==
    /\ sm0 = Nothing /\ sm1 = Nothing /\ replies = <<>> /\ last = Nothing
    /\ seen = 0 /\ repreq = FALSE /\ repack = FALSE
    /\ link = [Awaiting(FALSE) EXCEPT !.op = Done]
    /\ mbxcnt = 0 /\ lost = 0 /\ notices = 0
====
