---- MODULE EcCoeProofs ----
(* The mailbox system, for any objects, sizes, plans, counters above 1 and numbers  *)
(* of losses and notices. Its first part is that a slave executes no request twice. *)
(* The link layer writes a request again when it does not know whether it arrived;  *)
(* what the slave then goes by is the counter alone. The argument: the mailbox      *)
(* holds no request older than the one executed last, and if it holds that one, its *)
(* counter says so. A request enters the mailbox while it is the latest; it is      *)
(* written only when the one before has left, and once it is executed, seen is the  *)
(* master's own counter until the next.                                             *)
(* The second part is the types: what each call holds, what each message carries,   *)
(* and that a call that listens is handed what the slave sent. No assignment says   *)
(* the last; it is a part of Types of its own.                                      *)
EXTENDS EcEthernet, TLAPS

Writing == {"empty", "put", "resend"}
Fields == {"op", "patient", "bit", "msg", "wkc"}

Counters ==
    /\ asked \in Nat /\ executed.id \in Nat /\ executed.id <= asked
    /\ mbxcnt \in 0..MaxCnt /\ (asked > 0 => mbxcnt # 0)

\* What the mailbox holds is not older than what was executed last.
Pending ==
    sm0 # Nothing =>
       /\ sm0.id \in Nat /\ executed.id <= sm0.id /\ sm0.id <= asked
       /\ sm0.cnt # 0
       /\ sm0.id = executed.id => sm0.cnt = seen
       /\ sm0.id = asked => sm0.cnt = mbxcnt

\* What is being written is the latest request.
Latest ==
    link.op \in Writing =>
       asked > 0 /\ link.msg.id = asked /\ link.msg.cnt = mbxcnt

\* Until it is written for the first time nobody has seen it.
Unseen ==
    /\ link.op \in {"empty", "put"} => executed.id < asked /\ (sm0 # Nothing => sm0.id < asked)
    /\ link.op = "put" => sm0 = Nothing

\* Once it is executed the slave knows its counter.
Known == executed.id = asked /\ asked > 0 => seen = mbxcnt

OnceInv ==
    /\ DOMAIN link = Fields
    /\ Counters /\ Pending /\ Latest /\ Unseen /\ Known
    /\ ExecutedOnce

\* A step that writes nothing and executes nothing.
Calm ==
    /\ UNCHANGED <<sm0, seen, executed, asked, mbxcnt>>
    /\ \/ link' = link
       \/ DOMAIN link' = Fields /\ link'.op \notin Writing

\* A step that makes a request.
Asks ==
    /\ mbxcnt' = NextMbxCnt(mbxcnt) /\ asked' = asked + 1
    /\ UNCHANGED <<sm0, seen, executed>>
    /\ DOMAIN link' = Fields /\ link'.op = "empty"
    /\ link'.msg.id = asked' /\ link'.msg.cnt = mbxcnt'

\* A step in which the slave takes what its mailbox holds.
Takes ==
    /\ sm0 # Nothing /\ sm0' = Nothing
    /\ \/ sm0.cnt = seen /\ UNCHANGED <<seen, executed>>
       \/ /\ sm0.cnt # seen /\ seen' = sm0.cnt
          /\ executed' = [id |-> sm0.id, twice |-> executed.twice \/ sm0.id <= executed.id]
    /\ UNCHANGED <<link, mbxcnt, asked>>

-----------------------------------------------------------------------------
(* The four kinds of steps.                                                        *)

\* A calm step disturbs nothing.
LEMMA CalmKeeps == OnceInv /\ Calm => OnceInv'
BY DEF OnceInv, Calm, Counters, Pending, Latest, Unseen, Known, ExecutedOnce, Writing

\* A new request is later than everything that was asked for.
LEMMA AsksKeeps == OnceInv /\ Asks => OnceInv'
<1> SUFFICES ASSUME OnceInv, Asks PROVE OnceInv'
    OBVIOUS
<1>1. mbxcnt' \in 1..MaxCnt
      BY MailboxAssumption DEF OnceInv, Asks, Counters, NextMbxCnt
<1>2. Counters'
      BY <1>1 DEF OnceInv, Asks, Counters
<1>3. Pending' /\ Known'
      BY DEF OnceInv, Asks, Counters, Pending, Known
<1>4. Latest' /\ Unseen'
      BY DEF OnceInv, Asks, Counters, Pending, Latest, Unseen, Writing
<1> QED
      BY <1>2, <1>3, <1>4 DEF OnceInv, Asks, ExecutedOnce

\* What is taken and executed was not executed before.
LEMMA TakesKeeps == OnceInv /\ Takes => OnceInv'
<1> SUFFICES ASSUME OnceInv, Takes PROVE OnceInv'
    OBVIOUS
<1>1. CASE sm0.cnt = seen /\ UNCHANGED <<seen, executed>>
      BY <1>1 DEF OnceInv, Takes, Counters, Pending, Latest, Unseen, Known, ExecutedOnce
<1>2. CASE /\ sm0.cnt # seen /\ seen' = sm0.cnt
           /\ executed' = [id |-> sm0.id, twice |-> executed.twice \/ sm0.id <= executed.id]
  <2>1. executed.id < sm0.id
        BY <1>2 DEF OnceInv, Takes, Counters, Pending
  <2>2. ExecutedOnce'
    <3>1. ~(sm0.id <= executed.id)
          BY <2>1 DEF OnceInv, Takes, Counters, Pending
    <3>2. executed'.twice = (executed.twice \/ sm0.id <= executed.id)
          BY <1>2, Zenon
    <3> QED
          BY <3>1, <3>2, Zenon DEF OnceInv, ExecutedOnce
  <2>3. Counters' /\ Pending' /\ Known'
        BY <1>2 DEF OnceInv, Takes, Counters, Pending, Known
  <2>4. Latest' /\ Unseen'
        BY <1>2 DEF OnceInv, Takes, Latest, Unseen, Writing
  <2> QED
        BY <2>2, <2>3, <2>4 DEF OnceInv, Takes
<1> QED
      BY <1>1, <1>2 DEF Takes

\* The link layer writes the latest request, for the first time or again.
LEMMA WritesKeep ==
    ASSUME OnceInv, UNCHANGED <<executed, asked>>,
           MbxEmptySeen \/ MbxSend \/ MbxSendLost \/ MbxSendAgain
    PROVE  OnceInv'
<1>1. CASE MbxEmptySeen
      BY <1>1 DEF MbxEmptySeen, Goto, slavebox, OnceInv, Counters, Pending, Latest, Unseen, Known,
                  ExecutedOnce, Writing, Fields
<1>2. CASE MbxSend
      BY <1>2 DEF MbxSend, Finish, Done, OnceInv, Counters, Pending, Latest, Unseen, Known,
                  ExecutedOnce, Writing, Fields
<1>3. CASE MbxSendLost
      BY <1>3 DEF MbxSendLost, Goto, OnceInv, Counters, Pending, Latest, Unseen, Known,
                  ExecutedOnce, Writing, Fields
<1>4. CASE MbxSendAgain
  <2>1. DOMAIN link' = Fields /\ link'.op \notin Writing
        BY <1>4 DEF MbxSendAgain, Finish, Done, OnceInv, Writing, Fields
  <2>2. sm0' = sm0 \/ sm0' = link.msg
        BY <1>4 DEF MbxSendAgain
  <2>3. Pending'
        BY <1>4, <2>2 DEF MbxSendAgain, OnceInv, Counters, Pending, Latest, Known, Writing
  <2>4. Latest' /\ Unseen'
        BY <2>1 DEF Latest, Unseen, Writing
  <2>5. Counters' /\ Known' /\ ExecutedOnce'
        BY <1>4 DEF MbxSendAgain, OnceInv, Counters, Known, ExecutedOnce
  <2> QED
        BY <2>1, <2>3, <2>4, <2>5 DEF OnceInv
<1> QED
      BY <1>1, <1>2, <1>3, <1>4

-----------------------------------------------------------------------------
(* Which step is of which kind.                                                     *)

\* The rest of the link layer, and the slave's side of the mailbox, are calm.
LEMMA LinkIsCalm ==
    ASSUME DOMAIN link = Fields, UNCHANGED <<executed, asked>>,
           MbxEmptyEnds \/ AwaitFull \/ AwaitEnds \/ FetchNotice \/ FetchAnswer
           \/ FetchLost \/ Toggle \/ ToggleAcked \/ AgainFull \/ RepeatExpires
           \/ Answer \/ Notice \/ Repeat
    PROVE  Calm
<1> USE DEF Calm, Fields, Writing, Done, slavebox
<1>1. CASE MbxEmptyEnds
      BY <1>1 DEF MbxEmptyEnds, Finish
<1>2. CASE AwaitFull
      BY <1>2 DEF AwaitFull
<1>3. CASE AwaitEnds
      BY <1>3 DEF AwaitEnds, Finish
<1>4. CASE FetchNotice
      BY <1>4 DEF FetchNotice, Goto, Finish
<1>5. CASE FetchAnswer
      BY <1>5 DEF FetchAnswer, Finish
<1>6. CASE FetchLost
      BY <1>6 DEF FetchLost, Goto
<1>7. CASE Toggle
      BY <1>7 DEF Toggle
<1>8. CASE ToggleAcked
      BY <1>8 DEF ToggleAcked, Goto
<1>9. CASE AgainFull
      BY <1>9 DEF AgainFull
<1>10. CASE RepeatExpires
      BY <1>10 DEF RepeatExpires, Finish
<1>11. CASE Answer
      BY <1>11 DEF Answer
<1>12. CASE Notice
      BY <1>12 DEF Notice
<1>13. CASE Repeat
      BY <1>13 DEF Repeat
<1> QED
      BY <1>1, <1>2, <1>3, <1>4, <1>5, <1>6, <1>7, <1>8, <1>9, <1>10, <1>11, <1>12, <1>13

\* So are the calls of CoE but for their requests.
LEMMA CoeIsCalm ==
    ASSUME DOMAIN link = Fields,
           Sent \/ NotReceived \/ Unexpected \/ UploadResponse \/ UploadSegment
           \/ TransferExpires \/ DownloadResponse \/ DownloadSegmentResponse
           \/ ListFragment \/ Description \/ Entry \/ TxPdoResponse \/ LibraryCall
           \/ WriteStart \/ WriteCompared \/ WriteSent \/ WriteReadBack
    PROVE  Calm
<1> USE DEF Calm, Fields, Writing, Done, Awaiting, Return, Continue, slavebox, slave, Same
<1>1. CASE Sent
      BY <1>1 DEF Sent, Fails, NextSegment, NextEntry
<1>2. CASE NotReceived
      BY <1>2 DEF NotReceived, Fails, NextSegment, NextEntry
<1>3. CASE Unexpected
      BY <1>3 DEF Unexpected, NextEntry
<1>4. CASE UploadResponse
      BY <1>4 DEF UploadResponse
<1>5. CASE UploadSegment
      BY <1>5 DEF UploadSegment
<1>6. CASE TransferExpires
      BY <1>6 DEF TransferExpires
<1>7. CASE DownloadResponse
      BY <1>7 DEF DownloadResponse
<1>8. CASE DownloadSegmentResponse
      BY <1>8 DEF DownloadSegmentResponse, NextSegment
<1>9. CASE ListFragment
  <2>1. link' = Awaiting(TRUE) \/ link' = [Awaiting(FALSE) EXCEPT !.op = Done]
        BY <1>9 DEF ListFragment
  <2>2. UNCHANGED <<sm0, seen, executed, asked, mbxcnt>>
        BY <1>9 DEF ListFragment
  <2> QED
        BY <2>1, <2>2
<1>10. CASE Description
      BY <1>10 DEF Description
<1>11. CASE Entry
      BY <1>11 DEF Entry, NextEntry
<1>12. CASE TxPdoResponse
      BY <1>12 DEF TxPdoResponse
<1>13. CASE LibraryCall
      BY <1>13 DEF LibraryCall, Begin, Outside
<1>14. CASE WriteStart
      BY <1>14 DEF WriteStart, Begin, Outside
<1>15. CASE WriteCompared
      BY <1>15 DEF WriteCompared, Begin, Outside
<1>16. CASE WriteSent
      BY <1>16 DEF WriteSent, Begin, Outside
<1>17. CASE WriteReadBack
      BY <1>17 DEF WriteReadBack, Outside
<1> QED
      BY <1>1, <1>2, <1>3, <1>4, <1>5, <1>6, <1>7, <1>8, <1>9, <1>10, <1>11, <1>12, <1>13, <1>14, <1>15, <1>16, <1>17

\* And files and servo parameters, but for theirs.
LEMMA TransferIsCalm ==
    ASSUME DOMAIN link = Fields,
           TransferCall \/ FoESent \/ FoEUnheard \/ FoEWritten \/ FoEBusy \/ FoEBad
           \/ Asked \/ SoEReadResponse \/ SoEFragmentSent \/ SoEEmptied
           \/ SoEStaysFull \/ SoEUnheard \/ SoEWriteResponse \/ SoEBad
    PROVE  Calm
<1> USE DEF Calm, Fields, Writing, Done, Awaiting, slavebox, slave, Same2, Quiet, Ends, Leave, Listen
<1>1. CASE TransferCall
      BY <1>1 DEF TransferCall
<1>2. CASE FoESent
      BY <1>2 DEF FoESent
<1>3. CASE FoEUnheard
      BY <1>3 DEF FoEUnheard
<1>4. CASE FoEWritten
      BY <1>4 DEF FoEWritten
<1>5. CASE FoEBusy
      BY <1>5 DEF FoEBusy
<1>6. CASE FoEBad
      BY <1>6 DEF FoEBad
<1>7. CASE Asked
      BY <1>7 DEF Asked
<1>8. CASE SoEReadResponse
      BY <1>8 DEF SoEReadResponse
<1>9. CASE SoEFragmentSent
      BY <1>9 DEF SoEFragmentSent
<1>10. CASE SoEEmptied
      BY <1>10 DEF SoEEmptied
<1>11. CASE SoEStaysFull
      BY <1>11 DEF SoEStaysFull
<1>12. CASE SoEUnheard
      BY <1>12 DEF SoEUnheard
<1>13. CASE SoEWriteResponse
      BY <1>13 DEF SoEWriteResponse
<1>14. CASE SoEBad
      BY <1>14 DEF SoEBad
<1> QED
      BY <1>1, <1>2, <1>3, <1>4, <1>5, <1>6, <1>7, <1>8, <1>9, <1>10, <1>11, <1>12, <1>13, <1>14

\* And Ethernet.
LEMMA EthernetIsCalm ==
    ASSUME DOMAIN link = Fields,
           EthernetCall \/ IpResponse \/ EthernetUnheard \/ FragmentSent
           \/ ReceiveFragment \/ TakeFragment \/ Traffic
    PROVE  Calm
<1> USE DEF Calm, Fields, Writing, Done, Awaiting, slavebox, slave, Same2, Quiet, Ends, Leave, Listen, Beside
<1>1. CASE EthernetCall
      BY <1>1 DEF EthernetCall
<1>2. CASE IpResponse
      BY <1>2 DEF IpResponse
<1>3. CASE EthernetUnheard
      BY <1>3 DEF EthernetUnheard
<1>4. CASE FragmentSent
      BY <1>4 DEF FragmentSent
<1>5. CASE ReceiveFragment
  <2>1. UNCHANGED Quiet
        BY <1>5 DEF ReceiveFragment
  <2>2. \/ link' = Awaiting(TRUE)
        \/ link' = [Awaiting(FALSE) EXCEPT !.op = Done]
        BY <1>5, Zenon DEF ReceiveFragment, Ends, Leave
  <2> QED
        BY <2>1, <2>2
<1>6. CASE TakeFragment
      BY <1>6 DEF TakeFragment
<1>7. CASE Traffic
      BY <1>7 DEF Traffic, Answers
<1> QED
      BY <1>1, <1>2, <1>3, <1>4, <1>5, <1>6, <1>7

\* Every request is asked in the same way.
LEMMA RequestsAsk ==
    ASSUME DOMAIN link = Fields,
           Request \/ FoERequest \/ FoEData \/ FoEAck \/ SoEReadRequest
           \/ SoEFragment \/ IpRequest \/ SendFragment
    PROVE  Asks
<1> USE DEF Asks, Fields, slavebox, slave, Same2
<1>1. CASE Request
      BY <1>1 DEF Request, Sending, RequestOf, SdoRequest, InfoRequest, Msg
<1>2. CASE FoERequest
      BY <1>2 DEF FoERequest, Place, Sending, Message
<1>3. CASE FoEData
      BY <1>3 DEF FoEData, Place, Sending, Message
<1>4. CASE FoEAck
      BY <1>4 DEF FoEAck, Place, Sending, Message
<1>5. CASE SoEReadRequest
      BY <1>5 DEF SoEReadRequest, Place, Sending, Message
<1>6. CASE SoEFragment
      BY <1>6 DEF SoEFragment, Place, Sending, Message
<1>7. CASE IpRequest
      BY <1>7 DEF IpRequest, Place, Sending, Message
<1>8. CASE SendFragment
      BY <1>8 DEF SendFragment, Place, Sending, Message, Fragment
<1> QED
      BY <1>1, <1>2, <1>3, <1>4, <1>5, <1>6, <1>7, <1>8

\* CoE, files, parameters and Ethernet take their requests in the same way.
LEMMA ServersTake ==
    ASSUME OnceInv, Take \/ Serve \/ ServeEthernet
    PROVE  Takes
<1> USE DEF OnceInv, Pending, Takes, slave
<1>1. CASE Take
      BY <1>1 DEF Take
<1>2. CASE Serve
      BY <1>2 DEF Serve
<1>3. CASE ServeEthernet
      BY <1>3 DEF ServeEthernet
<1> QED
      BY <1>1, <1>2, <1>3

-----------------------------------------------------------------------------
(* The invariant, and what follows from it.                                        *)

LEMMA OnceInit == EthernetInit => OnceInv
BY MailboxAssumption
   DEF EthernetInit, TransferInit, Init, MailboxInit, Awaiting, Done, OnceInv, Counters, Pending,
       Latest, Unseen, Known, ExecutedOnce, Fields, Writing

LEMMA OnceStep == OnceInv /\ [EthernetNext]_evars => OnceInv'
<1> SUFFICES ASSUME OnceInv, [EthernetNext]_evars PROVE OnceInv'
    OBVIOUS
<1>0. DOMAIN link = Fields
      BY DEF OnceInv
<1>1. CASE UNCHANGED evars
  <2>1. Calm
        BY <1>1 DEF evars, tvars, vars, mailbox, slavebox, Calm
  <2> QED
      BY <2>1, CalmKeeps
<1>2. CASE (LinkStep \/ SlaveMailbox) /\ UNCHANGED <<coe, app, slave, plan, failed, asked>>
  <2>1. UNCHANGED <<executed, asked>>
        BY <1>2 DEF slave
  <2>2. CASE MbxEmptySeen \/ MbxSend \/ MbxSendLost \/ MbxSendAgain
        BY <2>1, <2>2, WritesKeep
  <2>3. CASE ~(MbxEmptySeen \/ MbxSend \/ MbxSendLost \/ MbxSendAgain)
    <3>1. Calm
          BY <1>0, <1>2, <2>1, <2>3, LinkIsCalm DEF LinkStep, SlaveMailbox
    <3> QED
          BY <3>1, CalmKeeps
  <2> QED
        BY <2>2, <2>3
<1>3. CASE Take \/ Serve \/ ServeEthernet
      BY <1>3, ServersTake, TakesKeeps
<1>4. CASE CoeStep \/ LibraryCall \/ WriteStart \/ WriteCompared \/ WriteSent \/ WriteReadBack
  <2>1. Calm \/ Asks
        BY <1>0, <1>4, CoeIsCalm, RequestsAsk DEF CoeStep
  <2> QED
        BY <2>1, CalmKeeps, AsksKeeps
<1>5. CASE TransferStep
  <2>1. Calm \/ Asks
        BY <1>0, <1>5, TransferIsCalm, RequestsAsk DEF TransferStep
  <2> QED
        BY <2>1, CalmKeeps, AsksKeeps
<1>6. CASE \/ EthernetCall \/ IpRequest \/ IpResponse \/ EthernetUnheard \/ SendFragment
           \/ FragmentSent \/ ReceiveFragment \/ TakeFragment \/ Traffic
  <2>1. Calm \/ Asks
        BY <1>0, <1>6, EthernetIsCalm, RequestsAsk
  <2> QED
        BY <2>1, CalmKeeps, AsksKeeps
<1> QED
      BY <1>1, <1>2, <1>3, <1>4, <1>5, <1>6 DEF EthernetNext, TransferNext, Next

\* The slave executes no request twice (ecx_mbxsend, ec_nextmbxcnt).
THEOREM RequestsExecutedOnce == EthernetSpec => []ExecutedOnce
<1>1. OnceInv => ExecutedOnce
      BY DEF OnceInv
<1> QED
      BY OnceInit, OnceStep, <1>1, PTL DEF EthernetSpec

-----------------------------------------------------------------------------
(* The types.                                                                      *)

LinkOps == {"empty", "put", "resend", "await", "fetch", "toggle", "ack", "again", "done"}
CoePcs == {"idle", "ready", "send", "receive", "transfer"}
JobPcs == {"done", "request", "sent", "asked", "receive", "fragment", "emptying"}
Phases == {"none", "before", "write", "after", "verified", "unknown"}
ServerWays == {"none", "read", "write", "idn", "frame"}
Held == Values \union {NoValue}
CoeOps == Operations \ {"verified"}
Parts == Unit \union Nat \union Somewhere
Steps == STRING \X Objects

\* The call looks at what the link layer hands it.
Listening == coe.pc = "receive" \/ (coe.pc = "transfer" /\ job.pc = "receive")

LinkRecords ==
    [op : LinkOps, patient : BOOLEAN, bit : BOOLEAN, msg : ToSlave \union FromSlave \union {Nothing},
     wkc : {0, 1}]

LinkTypes ==
    /\ link \in LinkRecords
    /\ link.op \in Writing => link.msg \in ToSlave
    /\ Listening => link.op \notin Writing
    /\ Listening /\ link.op = "done" /\ link.wkc = 1 => link.msg \in FromSlave

BoxTypes ==
    /\ sm0 \in ToSlave \union {Nothing}
    /\ sm1 \in FromSlave \union {Nothing} /\ last \in FromSlave \union {Nothing}
    /\ replies \in Seq(FromSlave)

CountTypes ==
    /\ seen \in 0..MaxCnt /\ mbxcnt \in 0..MaxCnt
    /\ repreq \in BOOLEAN /\ repack \in BOOLEAN
    /\ lost \in Nat /\ notices \in Nat /\ asked \in Nat

MailTypes == BoxTypes /\ CountTypes

CallRecords ==
    [op : CoeOps \union TransferOps \union EthernetOps, pc : CoePcs, obj : Somewhere, val : Held,
     room : Nat, part : Nat, seg : BOOLEAN, toggle : BOOLEAN, of : Nat, got : Seq(Parts),
     ok : BOOLEAN, clear : BOOLEAN]

CallTypes ==
    /\ coe \in CallRecords
    /\ coe.pc # "idle" => coe.obj \in Objects
    /\ coe.pc \in {"ready", "send", "receive"} => coe.op \in CoeOps
    /\ coe.pc = "transfer" =>
          coe.op \in TransferOps \union EthernetOps /\ coe.got \in Seq(Unit) /\ Len(coe.got) <= coe.room
    /\ coe.op = "down" => coe.val \in Values
    /\ coe.op = "down" /\ coe.pc # "idle" =>
          coe.part \in 1..(Size[coe.obj] + 1) /\ (coe.pc = "ready" => coe.part <= Size[coe.obj])
    /\ coe.part \in 0..(MaxSub + 1) \union UNION {1..(Size[o] + 1) : o \in Objects}

AppRecords == [phase : Phases, obj : Somewhere, val : Held, expected : Held, calm : BOOLEAN]

AppTypes ==
    /\ app \in AppRecords
    /\ app.phase \in {"before", "write", "after"} => app.obj \in Objects /\ app.val \in Values
    /\ plan \in Seq(Steps)

SlaveTypes ==
    /\ val \in [Objects -> Values]
    /\ xfer \in [way : {"none", "up", "down"}, obj : Somewhere, of : Nat, done : Nat,
                 toggle : BOOLEAN, val : Held]
    /\ xfer.done <= xfer.of
    /\ xfer.way = "down" => xfer.done < xfer.of /\ xfer.obj \in Objects /\ xfer.val \in Values

ServerRecords == [way : ServerWays, obj : Somewhere, no : Nat, more : BOOLEAN, data : Seq(Unit)]

ServerTypes ==
    /\ held \in [Objects -> Seq(Unit)]
    /\ server \in ServerRecords
    /\ server.way = "read" => server.obj \in Objects
    /\ capacity.write \in Nat \ {0} /\ capacity.read \in Nat \ {0}
    /\ capacity \in Mailboxes \union {SmallMailbox}

JobRecords ==
    [pc : JobPcs, rest : Nat, no : Nat, more : BOOLEAN, zero : BOOLEAN, busy : BOOLEAN,
     skipped : BOOLEAN, alone : BOOLEAN]

JobTypes ==
    /\ job \in JobRecords
    /\ job.pc # "done" => coe.pc = "transfer" /\ job.rest <= Size[coe.obj]

Frames == [no : Nat, size : Nat, frame : Nat, data : Seq(Unit)]

EthTypes == eth \in [tx : Nat, frame : Nat, rx : Frames, taken : Seq(Unit), given : Nat]

Types ==
    /\ LinkTypes /\ MailTypes /\ CallTypes /\ AppTypes
    /\ SlaveTypes /\ ServerTypes /\ JobTypes /\ EthTypes

LEMMA ConstantsOK ==
    /\ Size \in [Objects -> Nat \ {0}] /\ MaxSub \in Nat /\ Values \subseteq Nat \ {0}
    /\ Plans \subseteq Seq(Steps) /\ MaxCnt \in Nat \ {0, 1}
    /\ Nothing \notin ToSlave /\ Nothing \notin FromSlave /\ Nothing \notin Objects
    /\ Held \subseteq Nat
<1>1. Held \subseteq Nat
      BY CoeAssumption DEF Held, NoValue
<1> QED
      BY <1>1, CoeAssumption, MailboxAssumption, NothingAssumption DEF Steps

-----------------------------------------------------------------------------
(* What is sent and answered.                                                       *)

LEMMA Counted == mbxcnt \in 0..MaxCnt => NextMbxCnt(mbxcnt) \in 0..MaxCnt
BY MailboxAssumption DEF NextMbxCnt

LEMMA Numbered ==
    ASSUME NEW c \in 0..MaxCnt, NEW i \in Nat
    PROVE  /\ \A m \in CoeRequests : [m EXCEPT !.cnt = c, !.id = i] \in CoeRequests
           /\ \A m \in TransferRequests : [m EXCEPT !.cnt = c, !.id = i] \in TransferRequests
           /\ \A m \in FragmentRequests : [m EXCEPT !.cnt = c, !.id = i] \in FragmentRequests
<1>1. \A m \in CoeRequests : [m EXCEPT !.cnt = c, !.id = i] \in CoeRequests
      BY DEF CoeRequests
<1>2. \A m \in TransferRequests : [m EXCEPT !.cnt = c, !.id = i] \in TransferRequests
      BY DEF TransferRequests
<1>3. \A m \in FragmentRequests : [m EXCEPT !.cnt = c, !.id = i] \in FragmentRequests
      BY DEF FragmentRequests
<1> QED
      BY <1>1, <1>2, <1>3

\* A CoE request, with its counter.
LEMMA RequestIsTyped ==
    ASSUME CallTypes, MailTypes, coe.pc = "ready"
    PROVE  [RequestOf EXCEPT !.cnt = NextMbxCnt(mbxcnt), !.id = asked + 1] \in CoeRequests
<1>1. /\ coe.op \in CoeOps /\ coe.obj \in Objects /\ coe.part \in Nat /\ coe.toggle \in BOOLEAN
      /\ coe.seg \in BOOLEAN /\ Size[coe.obj] \in Nat \ {0} /\ NextMbxCnt(mbxcnt) \in 0..MaxCnt
      /\ asked + 1 \in Nat /\ (coe.op = "down" => coe.val \in Values)
      BY ConstantsOK, Counted DEF CallTypes, CallRecords, MailTypes, CountTypes
<1>2. coe.op \in {"up", "down", "odlist", "od", "oe", "rxpdo", "txpdo"}
      BY <1>1 DEF CoeOps, Operations
<1>3. 0 \in 0..MaxCnt
      BY ConstantsOK
<1>4. CASE coe.op = "up"
  <2>1. RequestOf \in CoeRequests
        BY <1>1, <1>3, <1>4 DEF RequestOf, SdoRequest, Msg, CoeRequests
  <2> QED
        BY <1>1, <2>1, Numbered
<1>5. CASE coe.op = "down"
  <2> DEFINE Loose == [type : {"CoE"}, cmd : {"down", "seg down"}, obj : Objects, part : Nat, of : Nat,
                       last : BOOLEAN, toggle : BOOLEAN, val : Values \union {NoValue},
                       cnt : 0..MaxCnt, id : Nat]
             Writes == [type : {"CoE"}, cmd : {"down", "seg down"}, obj : Objects, part : Nat, of : Nat \ {0},
                        last : BOOLEAN, toggle : BOOLEAN, val : Values, cnt : 0..MaxCnt, id : Nat]
  <2>1. ASSUME NEW e \in BOOLEAN, NEW n \in Nat \ {0}, NEW p \in Nat, NEW t \in BOOLEAN,
               NEW v \in Values, NEW m \in Loose
        PROVE  [m EXCEPT !.part = p, !.of = n, !.val = v, !.last = e, !.toggle = t] \in CoeRequests
    <3>1. [m EXCEPT !.part = p, !.of = n, !.val = v, !.last = e, !.toggle = t] \in Writes
          OBVIOUS
    <3> QED
          BY <3>1 DEF CoeRequests
  <2>2. Msg(IF coe.seg THEN "seg down" ELSE "down", coe.obj) \in Loose
        BY <1>1, <1>3 DEF Msg
  <2> HIDE DEF Loose, Writes
  <2>3. RequestOf = [Msg(IF coe.seg THEN "seg down" ELSE "down", coe.obj)
                       EXCEPT !.part = coe.part, !.of = Size[coe.obj], !.val = coe.val,
                              !.last = coe.part = Size[coe.obj], !.toggle = coe.toggle]
        BY <1>5 DEF RequestOf, SdoRequest
  <2>4. (coe.part = Size[coe.obj]) \in BOOLEAN
        OBVIOUS
  <2>5. RequestOf \in CoeRequests
        BY <1>1, <1>5, <2>1, <2>2, <2>3, <2>4
  <2> QED
        BY <1>1, <2>5, Numbered
<1>6. CASE coe.op \in {"odlist", "od", "oe", "rxpdo", "txpdo"}
  <2>1. RequestOf \in CoeRequests
        BY <1>1, <1>3, <1>6 DEF RequestOf, InfoRequest, Msg, CoeRequests
  <2> QED
        BY <1>1, <2>1, Numbered
<1> QED
      BY <1>2, <1>4, <1>5, <1>6

LEMMA PortionIsTyped ==
    ASSUME JobTypes, ServerTypes, CallTypes, coe.pc = "transfer", job.pc # "done"
    PROVE  /\ Portion \in Seq(Unit) /\ Len(Portion) = Least(job.rest, capacity.write)
           /\ Len(Portion) \in Nat /\ Len(Portion) <= job.rest /\ Size[coe.obj] - job.rest \in Nat
<1> DEFINE n == Least(job.rest, capacity.write)
           first == Size[coe.obj] - job.rest
<1>1. job.rest \in Nat /\ capacity.write \in Nat /\ coe.obj \in Objects /\ job.rest <= Size[coe.obj]
      BY DEF JobTypes, JobRecords, ServerTypes, CallTypes
<1>2. Size[coe.obj] \in Nat
      BY <1>1, ConstantsOK
<1>3. coe.val \in Nat
      BY ConstantsOK DEF CallTypes, CallRecords
<1>4. n \in Nat /\ n <= job.rest
      BY <1>1 DEF Least
<1>5. first \in Nat
      BY <1>1, <1>2
<1>6. Portion = [k \in 1..n |-> <<coe.val, first + k>>]
      BY DEF Portion
<1> HIDE DEF n, first
<1>7. \A k \in 1..n : <<coe.val, first + k>> \in Unit
      BY <1>3, <1>4, <1>5 DEF Unit
<1>8. Portion \in Seq(Unit) /\ Len(Portion) = n
      BY <1>4, <1>6, <1>7
<1> QED
      BY <1>4, <1>5, <1>8 DEF n, first

\* A message of the calls of EcTransfer, with its counter.
LEMMA PlacedIsTyped ==
    ASSUME CallTypes, MailTypes, coe.obj \in Objects, NEW type \in {"FoE", "SoE", "EoE"},
           NEW cmd \in {"read", "write", "ack", "data", "sread", "swrite", "eset", "eget"},
           NEW no \in Nat, NEW data \in Seq(Unit), NEW more \in BOOLEAN
    PROVE  /\ [Message(type, cmd, no, data) EXCEPT !.cnt = NextMbxCnt(mbxcnt), !.id = asked + 1] \in ToSlave
           /\ [[Message(type, cmd, no, data) EXCEPT !.more = more]
                 EXCEPT !.cnt = NextMbxCnt(mbxcnt), !.id = asked + 1] \in ToSlave
<1>1. NextMbxCnt(mbxcnt) \in 0..MaxCnt /\ asked + 1 \in Nat /\ 0 \in 0..MaxCnt
      BY Counted, ConstantsOK DEF MailTypes, CountTypes
<1>2. Message(type, cmd, no, data) \in TransferRequests
      BY <1>1 DEF Message, TransferRequests
<1>3. \A m \in TransferRequests : [m EXCEPT !.more = more] \in TransferRequests
      BY DEF TransferRequests
<1>4. [Message(type, cmd, no, data) EXCEPT !.more = more] \in TransferRequests
      BY <1>2, <1>3
<1> QED
      BY <1>1, <1>2, <1>4, Numbered DEF ToSlave

\* What a message is, by its type and command.
LEMMA AnswerKinds ==
    ASSUME NEW m \in FromSlave
    PROVE  /\ m.type = "CoE" /\ m.cmd # "emergency" => m \in CoeAnswers
           /\ m.type \in {"FoE", "SoE"} => m \in TransferAnswers
           /\ m.type = "EoE" => m \in FragmentAnswers
<1>1. CASE m \in CoeAnswers
      BY <1>1 DEF CoeAnswers
<1>2. CASE m \in TransferAnswers
      BY <1>2 DEF TransferAnswers
<1>3. CASE m \in FragmentAnswers
      BY <1>3 DEF FragmentAnswers
<1>4. CASE m \in Notices
  <2>1. m = [type |-> "CoE", cmd |-> "emergency"] \/ m = [type |-> "error", cmd |-> "mailbox error"]
        BY <1>4 DEF Notices
  <2>2. CASE m = [type |-> "CoE", cmd |-> "emergency"]
    <3>1. m.type = "CoE" /\ m.cmd = "emergency"
          BY <2>2
    <3> QED
          BY <3>1
  <2>3. CASE m = [type |-> "error", cmd |-> "mailbox error"]
    <3>1. m.type = "error"
          BY <2>3
    <3> QED
          BY <3>1
  <2> QED
        BY <2>1, <2>2, <2>3
<1> QED
      BY <1>1, <1>2, <1>3, <1>4 DEF FromSlave

LEMMA RequestKinds ==
    ASSUME NEW m \in ToSlave
    PROVE  /\ m.type = "CoE" => m \in CoeRequests
           /\ m.type \in {"FoE", "SoE"} => m \in TransferRequests
           /\ m.type = "EoE" /\ m.cmd # "fragment" => m \in TransferRequests
           /\ m.type = "EoE" /\ m.cmd = "fragment" => m \in FragmentRequests
           /\ m.type # "CoE" => m \in TransferRequests \union FragmentRequests
           /\ m.cnt \in 0..MaxCnt
BY DEF ToSlave, CoeRequests, TransferRequests, FragmentRequests

-----------------------------------------------------------------------------
(* The types of the link layer.                                                     *)

\* How a call leaves the link: it waits, it has nothing, or it sends a request.
Hears == \E patient \in BOOLEAN : link' = Awaiting(patient)
Rests == link' = [Awaiting(FALSE) EXCEPT !.op = Done]
Writes == (\E m \in ToSlave : link' = Sending(m)) /\ ~Listening'
Keeps == link' = link /\ (Listening' => Listening)

\* What the steps make of it is a record of the same kind.
LEMMA LinkEdits ==
    ASSUME link \in LinkRecords
    PROVE  /\ \A op \in LinkOps : LET l == [link EXCEPT !.op = op]
              IN  l \in LinkRecords /\ l.op = op /\ l.msg = link.msg
           /\ \A op \in LinkOps, bit \in BOOLEAN : LET l == [link EXCEPT !.op = op, !.bit = bit]
              IN  l \in LinkRecords /\ l.op = op
           /\ \A op \in LinkOps, wkc \in {0, 1}, m \in ToSlave \union FromSlave \union {Nothing} :
              LET l == [link EXCEPT !.op = op, !.wkc = wkc, !.msg = m]
              IN  l \in LinkRecords /\ l.op = op /\ l.msg = m /\ l.wkc = wkc
<1>1. \A op \in LinkOps : LET l == [link EXCEPT !.op = op]
         IN  l \in LinkRecords /\ l.op = op /\ l.msg = link.msg
      BY DEF LinkRecords
<1>2. \A op \in LinkOps, bit \in BOOLEAN : LET l == [link EXCEPT !.op = op, !.bit = bit]
         IN  l \in LinkRecords /\ l.op = op
      BY DEF LinkRecords
<1>3. \A op \in LinkOps, wkc \in {0, 1}, m \in ToSlave \union FromSlave \union {Nothing} :
         LET l == [link EXCEPT !.op = op, !.wkc = wkc, !.msg = m]
         IN  l \in LinkRecords /\ l.op = op /\ l.msg = m /\ l.wkc = wkc
  <2> DEFINE S == ToSlave \union FromSlave \union {Nothing}
  <2> HIDE DEF S
  <2>1. link \in [op : LinkOps, patient : BOOLEAN, bit : BOOLEAN, msg : S, wkc : {0, 1}]
        BY DEF LinkRecords, S
  <2>2. \A op \in LinkOps, wkc \in {0, 1}, m \in S :
           LET l == [link EXCEPT !.op = op, !.wkc = wkc, !.msg = m]
           IN  /\ l \in [op : LinkOps, patient : BOOLEAN, bit : BOOLEAN, msg : S, wkc : {0, 1}]
               /\ l.op = op /\ l.msg = m /\ l.wkc = wkc
        BY <2>1
  <2> QED
        BY <2>2 DEF LinkRecords, S
<1> QED
      BY <1>1, <1>2, <1>3

LEMMA LinkForms ==
    ASSUME LinkTypes, Hears \/ Rests \/ Writes \/ Keeps
    PROVE  LinkTypes'
<1>1. CASE Hears
  <2>1. PICK b \in BOOLEAN : link' = Awaiting(b)
        BY <1>1 DEF Hears
  <2>2. Awaiting(b) \in LinkRecords /\ Awaiting(b).op = "await"
        BY DEF Awaiting, LinkRecords, LinkOps
  <2> QED
        BY <2>1, <2>2 DEF LinkTypes, Writing
<1>2. CASE Rests
  <2>1. /\ [Awaiting(FALSE) EXCEPT !.op = Done] \in LinkRecords
        /\ [Awaiting(FALSE) EXCEPT !.op = Done].op = "done" /\ [Awaiting(FALSE) EXCEPT !.op = Done].wkc = 0
        BY DEF Awaiting, Done, LinkRecords, LinkOps
  <2>2. link' \in LinkRecords /\ link'.op = "done" /\ link'.wkc = 0
        BY <1>2, <2>1 DEF Rests
  <2> QED
        BY <2>2 DEF LinkTypes, Writing
<1>3. CASE Writes
  <2>1. PICK m \in ToSlave : link' = Sending(m)
        BY <1>3 DEF Writes
  <2>2. Sending(m) \in LinkRecords /\ Sending(m).msg = m
        BY DEF Sending, LinkRecords, LinkOps
  <2> QED
        BY <1>3, <2>1, <2>2 DEF Writes, LinkTypes
<1>4. CASE Keeps
      BY <1>4 DEF Keeps, LinkTypes
<1> QED
      BY <1>1, <1>2, <1>3, <1>4

\* The steps of the link layer itself.
LEMMA LinkStepTypes ==
    ASSUME LinkTypes, MailTypes, LinkStep, UNCHANGED <<coe, job>>
    PROVE  LinkTypes'
<1>1. Listening' = Listening
      BY DEF Listening
<1>2. /\ link \in LinkRecords /\ (link.op \in Writing => link.msg \in ToSlave)
      /\ Nothing \in ToSlave \union FromSlave \union {Nothing}
      /\ "put" \in LinkOps /\ "resend" \in LinkOps /\ "fetch" \in LinkOps /\ "toggle" \in LinkOps
      /\ "ack" \in LinkOps /\ "again" \in LinkOps /\ "done" \in LinkOps
      BY DEF LinkTypes, LinkOps, Writing
<1>3. CASE MbxEmptySeen
  <2>1. link'.op = "put" /\ link'.msg = link.msg /\ link' \in LinkRecords /\ link.op \in Writing
        BY <1>2, <1>3, LinkEdits DEF MbxEmptySeen, Goto, Writing
  <2> QED
        BY <1>1, <2>1 DEF LinkTypes
<1>4. CASE MbxSendLost
  <2>1. link'.op = "resend" /\ link'.msg = link.msg /\ link' \in LinkRecords /\ link.op \in Writing
        BY <1>2, <1>4, LinkEdits DEF MbxSendLost, Goto, Writing
  <2> QED
        BY <1>1, <2>1 DEF LinkTypes
<1>5. CASE \E wkc \in {0, 1} : Finish(wkc, Nothing) /\ (wkc = 0 \/ link.op \in Writing)
  <2>1. PICK wkc \in {0, 1} : Finish(wkc, Nothing) /\ (wkc = 0 \/ link.op \in Writing)
        BY <1>5
  <2>2. link' \in LinkRecords /\ link'.op = "done" /\ link'.wkc = wkc
    <3>1. link' = [link EXCEPT !.op = "done", !.wkc = wkc, !.msg = Nothing]
          BY <2>1 DEF Finish, Done
    <3> QED
          BY <1>2, <3>1 DEF LinkRecords
  <2> QED
        BY <1>1, <2>1, <2>2 DEF LinkTypes, Writing
<1>6. CASE Finish(1, sm1) /\ sm1 \in FromSlave
  <2>2. link' \in LinkRecords /\ link'.op = "done" /\ link'.msg = sm1
    <3>1. link' = [link EXCEPT !.op = "done", !.wkc = 1, !.msg = sm1]
          BY <1>6 DEF Finish, Done
    <3>2. sm1 \in ToSlave \union FromSlave \union {Nothing} /\ 1 \in {0, 1}
          BY <1>6
    <3> QED
          BY <1>2, <3>1, <3>2 DEF LinkRecords
  <2> QED
        BY <1>6, <2>2 DEF LinkTypes, Writing
<1>7. CASE \E op \in {"fetch", "toggle", "again"} : Goto(op)
  <2>1. PICK op \in {"fetch", "toggle", "again"} : Goto(op)
        BY <1>7
  <2>2. link' \in LinkRecords /\ link'.op = op
        BY ZenonT(60), <1>2, <2>1, LinkEdits DEF Goto
  <2> QED
        BY <2>2 DEF LinkTypes, Writing
<1>8. CASE \E op \in {"fetch", "ack"}, bit \in BOOLEAN : link' = [link EXCEPT !.op = op, !.bit = bit]
  <2>1. PICK op \in {"fetch", "ack"}, bit \in BOOLEAN : link' = [link EXCEPT !.op = op, !.bit = bit]
        BY <1>8
  <2>2. link' \in LinkRecords /\ link'.op = op
        BY <1>2, <2>1 DEF LinkRecords
  <2> QED
        BY <2>2 DEF LinkTypes, Writing
<1>9. CASE MbxEmptyEnds \/ MbxSend \/ MbxSendAgain \/ AwaitEnds \/ RepeatExpires
      BY <1>5, <1>9 DEF MbxEmptyEnds, MbxSend, MbxSendAgain, AwaitEnds, RepeatExpires, Writing
<1>10. CASE FetchNotice
      BY <1>5, <1>7, <1>10 DEF FetchNotice
<1>11. CASE FetchAnswer
      BY <1>6, <1>11 DEF FetchAnswer, MailTypes, BoxTypes
<1>12. CASE FetchLost \/ ToggleAcked
      BY <1>7, <1>12 DEF FetchLost, ToggleAcked
<1>13. CASE AwaitFull \/ AgainFull \/ Toggle
  <2>1. repreq \in BOOLEAN /\ (~link.bit) \in BOOLEAN
        BY DEF MailTypes, CountTypes
  <2>2. CASE AwaitFull \/ AgainFull
        BY <1>8, <2>1, <2>2 DEF AwaitFull, AgainFull
  <2>3. CASE Toggle
        BY <1>8, <2>1, <2>3 DEF Toggle
  <2> QED
        BY <1>13, <2>2, <2>3
<1> QED
      BY <1>3, <1>4, <1>9, <1>10, <1>11, <1>12, <1>13 DEF LinkStep

LEMMA LinkStepBoxes ==
    ASSUME LinkTypes, MailTypes, LinkStep, UNCHANGED asked
    PROVE  MailTypes'
<1>1. lost + 1 \in Nat /\ (link.op \in Writing => link.msg \in ToSlave)
      BY DEF MailTypes, CountTypes, LinkTypes
<1>2. lost' \in Nat
  <2>1. lost' = lost \/ lost' = lost + 1
        BY DEF LinkStep, MbxEmptySeen, MbxEmptyEnds, MbxSend, MbxSendLost, MbxSendAgain, AwaitFull, AwaitEnds,
               FetchNotice, FetchAnswer, FetchLost, Toggle, ToggleAcked, AgainFull, RepeatExpires, MayLose
  <2> QED
        BY <1>1, <2>1 DEF MailTypes, CountTypes
<1>3. repreq' \in BOOLEAN
  <2>1. repreq' = repreq \/ repreq' = ~link.bit
        BY DEF LinkStep, MbxEmptySeen, MbxEmptyEnds, MbxSend, MbxSendLost, MbxSendAgain, AwaitFull, AwaitEnds,
               FetchNotice, FetchAnswer, FetchLost, Toggle, ToggleAcked, AgainFull, RepeatExpires, slavebox
  <2> QED
        BY <2>1 DEF MailTypes, CountTypes
<1>4. CountTypes'
  <2>1. UNCHANGED <<seen, mbxcnt, repack, notices>>
        BY DEF LinkStep, MbxEmptySeen, MbxEmptyEnds, MbxSend, MbxSendLost, MbxSendAgain, AwaitFull, AwaitEnds,
               FetchNotice, FetchAnswer, FetchLost, Toggle, ToggleAcked, AgainFull, RepeatExpires, slavebox
  <2> QED
        BY <1>2, <1>3, <2>1 DEF MailTypes, CountTypes
<1>5. BoxTypes'
  <2>1. sm0' = sm0 \/ (sm0' = link.msg /\ link.op \in Writing) \/ sm0' = Nothing
        BY DEF LinkStep, MbxEmptySeen, MbxEmptyEnds, MbxSend, MbxSendLost, MbxSendAgain, AwaitFull, AwaitEnds,
               FetchNotice, FetchAnswer, FetchLost, Toggle, ToggleAcked, AgainFull, RepeatExpires, slavebox, Writing
  <2>2. UNCHANGED <<sm1, last>> \/ (sm1' = Nothing /\ last' = sm1)
        BY DEF LinkStep, MbxEmptySeen, MbxEmptyEnds, MbxSend, MbxSendLost, MbxSendAgain, AwaitFull, AwaitEnds,
               FetchNotice, FetchAnswer, FetchLost, Toggle, ToggleAcked, AgainFull, RepeatExpires, slavebox
  <2>3. replies' = replies
        BY DEF LinkStep, MbxEmptySeen, MbxEmptyEnds, MbxSend, MbxSendLost, MbxSendAgain, AwaitFull, AwaitEnds,
               FetchNotice, FetchAnswer, FetchLost, Toggle, ToggleAcked, AgainFull, RepeatExpires, slavebox
  <2> QED
        BY <1>1, <2>1, <2>2, <2>3 DEF MailTypes, BoxTypes
<1> QED
      BY <1>4, <1>5 DEF MailTypes

LEMMA EmptyIsTyped == \A S : <<>> \in Seq(S)
OBVIOUS

\* The slave's side of the mailbox.
LEMMA NoticesAreTyped ==
    ASSUME NEW m \in {[type |-> "CoE", cmd |-> "emergency"], [type |-> "error", cmd |-> "mailbox error"],
                      Fragment(1, 0, 1, <<>>, FALSE)}
    PROVE  m \in FromSlave
<1>1. Fragment(1, 0, 1, <<>>, FALSE) \in FragmentAnswers
  <2>1. \A data \in Seq(Unit) : Fragment(1, 0, 1, data, FALSE) \in FragmentAnswers
        BY DEF FragmentAnswers, Fragment
  <2> QED
        BY <2>1, EmptyIsTyped
<1>2. m \in Notices \/ m = Fragment(1, 0, 1, <<>>, FALSE)
      BY DEF Notices
<1> QED
      BY <1>1, <1>2 DEF FromSlave

LEMMA SlaveMailboxTypes ==
    ASSUME MailTypes, SlaveMailbox, UNCHANGED asked
    PROVE  MailTypes'
<1>1. CASE Answer
  <2>1. Head(replies) \in FromSlave /\ Tail(replies) \in Seq(FromSlave)
        BY <1>1 DEF Answer, MailTypes, BoxTypes
  <2>2. BoxTypes'
        BY <1>1, <2>1 DEF Answer, MailTypes, BoxTypes
  <2>3. CountTypes'
        BY <1>1 DEF Answer, MailTypes, CountTypes
  <2> QED
        BY <2>2, <2>3 DEF MailTypes
<1>2. CASE Notice
  <2>1. PICK m \in FromSlave : sm1' = m
        BY <1>2, NoticesAreTyped DEF Notice
  <2>2. BoxTypes'
        BY <1>2, <2>1 DEF Notice, MailTypes, BoxTypes
  <2>3. CountTypes'
    <3>1. UNCHANGED <<seen, mbxcnt, repreq, repack, lost>> /\ notices' = notices + 1
          BY <1>2 DEF Notice
    <3> QED
          BY <3>1 DEF MailTypes, CountTypes
  <2> QED
        BY <2>2, <2>3 DEF MailTypes
<1>3. CASE Repeat
  <2>1. sm1 # Nothing => <<sm1>> \o replies \in Seq(FromSlave)
    <3>1. sm1 # Nothing => <<sm1>> \in Seq(FromSlave)
          BY DEF MailTypes, BoxTypes
    <3> QED
          BY <3>1 DEF MailTypes, BoxTypes
  <2>2. BoxTypes'
    <3>1. sm0' = sm0 /\ last' = last /\ (sm1' = sm1 \/ sm1' = last)
          BY <1>3 DEF Repeat
    <3>2. replies' = replies \/ (sm1 # Nothing /\ replies' = <<sm1>> \o replies)
          BY <1>3 DEF Repeat
    <3> QED
          BY <2>1, <3>1, <3>2 DEF MailTypes, BoxTypes
  <2>3. CountTypes'
        BY <1>3 DEF Repeat, MailTypes, CountTypes
  <2> QED
        BY <2>2, <2>3 DEF MailTypes
<1> QED
      BY <1>1, <1>2, <1>3 DEF SlaveMailbox

-----------------------------------------------------------------------------
(* The types of the slave: what it answers, and what it keeps.                     *)

AnswerCmds == {"up", "seg up", "down", "seg down", "odlist", "od", "oe", "txpdo", "abort"}

LEMMA MsgIsTyped ==
    ASSUME NEW cmd \in AnswerCmds, NEW obj \in Somewhere
    PROVE  Msg(cmd, obj) \in CoeAnswers
BY DEF AnswerCmds, CoeAnswers, Msg, NoValue

LEMMA AnswerEdits ==
    ASSUME NEW a \in CoeAnswers
    PROVE  /\ \A p \in Nat : [a EXCEPT !.part = p] \in CoeAnswers
           /\ \A t \in BOOLEAN : [a EXCEPT !.toggle = t] \in CoeAnswers
           /\ \A l \in BOOLEAN : [a EXCEPT !.last = l] \in CoeAnswers
           /\ \A p \in Nat, l \in BOOLEAN : [a EXCEPT !.part = p, !.last = l] \in CoeAnswers
           /\ \A p \in Nat, n \in Nat, v \in Held :
                 [a EXCEPT !.part = p, !.of = n, !.val = v] \in CoeAnswers
           /\ \A p \in Nat, v \in Held, t \in BOOLEAN, l \in BOOLEAN :
                 [a EXCEPT !.part = p, !.val = v, !.toggle = t, !.last = l] \in CoeAnswers
           /\ \A p \in Nat, l \in BOOLEAN : [a EXCEPT !.part = p, !.toggle = ~@, !.last = l] \in CoeAnswers
<1> USE DEF CoeAnswers, Held
<1>1. /\ \A p \in Nat : [a EXCEPT !.part = p] \in CoeAnswers
      /\ \A t \in BOOLEAN : [a EXCEPT !.toggle = t] \in CoeAnswers
      OBVIOUS
<1>2. /\ \A l \in BOOLEAN : [a EXCEPT !.last = l] \in CoeAnswers
      /\ \A p \in Nat, l \in BOOLEAN : [a EXCEPT !.part = p, !.last = l] \in CoeAnswers
      OBVIOUS
<1>3. \A p \in Nat, n \in Nat, v \in Held : [a EXCEPT !.part = p, !.of = n, !.val = v] \in CoeAnswers
      OBVIOUS
<1>4. \A p \in Nat, v \in Held, t \in BOOLEAN, l \in BOOLEAN :
         [a EXCEPT !.part = p, !.val = v, !.toggle = t, !.last = l] \in CoeAnswers
      OBVIOUS
<1>5. \A p \in Nat, l \in BOOLEAN : [a EXCEPT !.part = p, !.toggle = ~@, !.last = l] \in CoeAnswers
      OBVIOUS
<1> QED
      BY <1>1, <1>2, <1>3, <1>4, <1>5

\* What the slave answers goes behind what it has not yet put in the mailbox.
LEMMA Answering ==
    ASSUME BoxTypes, sm0' = Nothing, UNCHANGED <<sm1, last>>,
           replies' = replies \/ \E rs \in Seq(FromSlave) : replies' = replies \o rs
    PROVE  BoxTypes'
<1>1. replies' \in Seq(FromSlave)
  <2>1. CASE replies' = replies
        BY <2>1 DEF BoxTypes
  <2>2. CASE \E rs \in Seq(FromSlave) : replies' = replies \o rs
        BY <2>2 DEF BoxTypes
  <2> QED
        BY <2>1, <2>2
<1> QED
      BY <1>1 DEF BoxTypes

LEMMA OneAnswer ==
    ASSUME NEW S, NEW a \in S
    PROVE  <<a>> \in Seq(S)
OBVIOUS

\* An object is uploaded.
LEMMA UploadTypes ==
    ASSUME SlaveTypes, NEW m \in CoeRequests, Upload(m)
    PROVE  SlaveTypes' /\ \E rs \in Seq(FromSlave) : replies' = replies \o rs
<1>1. m.obj \in Objects /\ val[m.obj] \in Values /\ Size[m.obj] \in Nat \ {0} /\ val[m.obj] \in Held
      BY ConstantsOK DEF SlaveTypes, CoeRequests, Held
<1> DEFINE a == [Msg("up", m.obj) EXCEPT !.part = 1, !.of = Size[m.obj], !.val = val[m.obj]]
<1>2. Msg("up", m.obj) \in CoeAnswers
      BY <1>1, MsgIsTyped DEF AnswerCmds, Somewhere
<1>3. a \in CoeAnswers
      BY <1>1, <1>2, AnswerEdits
<1>4. replies' = replies \o <<a>>
      BY DEF Upload, Put
<1>5. xfer' = [way |-> "up", obj |-> m.obj, of |-> Size[m.obj], done |-> 1, toggle |-> FALSE, val |-> val[m.obj]]
      BY DEF Upload
<1>6. SlaveTypes'
  <2>1. val' = val
        BY DEF Upload
  <2>2. 1 <= Size[m.obj]
        BY <1>1
  <2> QED
        BY <1>1, <1>5, <2>1, <2>2 DEF SlaveTypes, Somewhere
<1> HIDE DEF a
<1> QED
      BY <1>3, <1>4, <1>6, OneAnswer DEF FromSlave

LEMMA NoTransferTypes ==
    ASSUME val' \in [Objects -> Values], xfer' = NoTransfer
    PROVE  SlaveTypes'
BY DEF NoTransfer, SlaveTypes, Held, NoValue, Somewhere

\* A segment is uploaded.
LEMMA UploadsSegmentTypes ==
    ASSUME SlaveTypes, CountTypes, NEW m \in CoeRequests, UploadsSegment(m)
    PROVE  SlaveTypes' /\ (\E rs \in Seq(FromSlave) : replies' = replies \o rs)
<1> DEFINE next == [Msg("seg up", Nothing) EXCEPT !.part = xfer.done + 1, !.val = xfer.val,
                       !.toggle = xfer.toggle, !.last = xfer.done + 1 = xfer.of]
           ends == xfer.done + 1 = xfer.of
           early == [next EXCEPT !.last = TRUE]
           again == [next EXCEPT !.part = xfer.done, !.toggle = ~@, !.last = FALSE]
<1>1. /\ xfer.done \in Nat /\ xfer.done + 1 \in Nat /\ xfer.val \in Held /\ xfer.toggle \in BOOLEAN
      /\ ends \in BOOLEAN
      BY DEF SlaveTypes
<1>2. Msg("seg up", Nothing) \in CoeAnswers
      BY MsgIsTyped DEF AnswerCmds, Somewhere
<1>3. next = [Msg("seg up", Nothing) EXCEPT !.part = xfer.done + 1, !.val = xfer.val,
                       !.toggle = xfer.toggle, !.last = ends]
      OBVIOUS
<1> HIDE DEF ends
<1>4. next \in CoeAnswers
      BY <1>1, <1>2, <1>3, AnswerEdits
<1>5. \/ /\ Put(m, <<next>>)
         /\ xfer' = [xfer EXCEPT !.done = @ + 1, !.toggle = ~@]
      \/ /\ Put(m, <<early>>) \/ Put(m, <<again>>)
         /\ xfer' = NoTransfer
      BY DEF UploadsSegment
<1>6. val' = val /\ xfer.way = "up" /\ xfer.done < xfer.of
      BY DEF UploadsSegment
<1> HIDE DEF next
<1>7. early \in CoeAnswers /\ again \in CoeAnswers
      BY <1>1, <1>4, AnswerEdits
<1> HIDE DEF early, again
<1>8. \E rs \in Seq(FromSlave) : replies' = replies \o rs
      BY <1>4, <1>5, <1>7, OneAnswer DEF Put, FromSlave
<1>9. SlaveTypes'
  <2>1. CASE xfer' = NoTransfer
        BY <1>6, <2>1, NoTransferTypes DEF SlaveTypes
  <2>2. CASE xfer' = [xfer EXCEPT !.done = @ + 1, !.toggle = ~@]
    <3>1. xfer'.done <= xfer'.of /\ xfer'.way = "up" /\ xfer'.done \in Nat
          BY <1>1, <1>6, <2>2 DEF SlaveTypes
    <3> QED
          BY <1>6, <2>2, <3>1 DEF SlaveTypes
  <2> QED
        BY <1>5, <2>1, <2>2
<1> QED
      BY <1>8, <1>9

\* An object is downloaded.
LEMMA DownloadTypes ==
    ASSUME SlaveTypes, NEW m \in CoeRequests, m.cmd = "down", Download(m)
    PROVE  SlaveTypes' /\ \E rs \in Seq(FromSlave) : replies' = replies \o rs
<1>1. m.obj \in Objects /\ m.val \in Values /\ m.of \in Nat \ {0}
      BY DEF CoeRequests
<1>2. <<Msg("down", m.obj)>> \in Seq(FromSlave)
      BY <1>1, MsgIsTyped, OneAnswer DEF AnswerCmds, Somewhere, FromSlave
<1>3. SlaveTypes'
  <2>1. CASE m.of = 1
        BY <1>1, <2>1 DEF Download, SlaveTypes
  <2>2. CASE m.of # 1
    <3>1. val' = val /\ xfer' = [way |-> "down", obj |-> m.obj, of |-> m.of, done |-> 1, toggle |-> FALSE,
                                 val |-> m.val]
          BY <2>2 DEF Download
    <3>2. 1 < m.of
          BY <1>1, <2>2
    <3> QED
          BY <1>1, <3>1, <3>2 DEF SlaveTypes, Somewhere, Held
  <2> QED
        BY <2>1, <2>2
<1> QED
      BY <1>2, <1>3 DEF Download, Put

LEMMA DownloadsSegmentTypes ==
    ASSUME SlaveTypes, NEW m \in CoeRequests, DownloadsSegment(m)
    PROVE  SlaveTypes' /\ \E rs \in Seq(FromSlave) : replies' = replies \o rs
<1>1. m.toggle \in BOOLEAN
      BY DEF CoeRequests
<1>2. [Msg("seg down", Nothing) EXCEPT !.toggle = m.toggle] \in CoeAnswers
      BY <1>1, MsgIsTyped, AnswerEdits, ConstantsOK DEF AnswerCmds, Somewhere
<1>3. SlaveTypes'
  <2>1. xfer.way = "down" /\ (m.last <=> xfer.done + 1 = xfer.of)
        BY DEF DownloadsSegment
  <2>2. CASE m.last
    <3>1. val' \in [Objects -> Values] /\ xfer' = NoTransfer
          BY <2>1, <2>2 DEF DownloadsSegment, SlaveTypes
    <3> QED
          BY <3>1, NoTransferTypes
  <2>3. CASE ~m.last
    <3>1. val' = val /\ xfer' = [xfer EXCEPT !.done = @ + 1, !.toggle = ~@]
          BY <2>3 DEF DownloadsSegment
    <3>2. xfer.done + 1 < xfer.of
          BY <2>1, <2>3 DEF SlaveTypes
    <3>3. /\ xfer'.done < xfer'.of /\ xfer'.way = "down" /\ xfer'.done \in Nat
          /\ xfer'.obj = xfer.obj /\ xfer'.val = xfer.val
          BY <2>1, <3>1, <3>2 DEF SlaveTypes
    <3>4. xfer.obj \in Objects /\ xfer.val \in Values /\ xfer.done + 1 \in Nat
          BY <2>1 DEF SlaveTypes
    <3>5. xfer' \in [way : {"none", "up", "down"}, obj : Somewhere, of : Nat, done : Nat,
                     toggle : BOOLEAN, val : Held]
          BY <3>1, <3>4 DEF SlaveTypes
    <3>6. xfer'.done <= xfer'.of
          BY <3>3, <3>5
    <3> QED
          BY <3>1, <3>3, <3>4, <3>5, <3>6 DEF SlaveTypes
  <2> QED
        BY <2>2, <2>3
<1> QED
      BY <1>2, <1>3, OneAnswer DEF DownloadsSegment, Put, FromSlave

\* The dictionary is told, or a request refused.
LEMMA InformsTypes ==
    ASSUME SlaveTypes, NEW m \in CoeRequests, Informs(m),
           m.cmd \in {"odlist", "od", "oe", "rxpdo", "txpdo"}
    PROVE  SlaveTypes' /\ \E rs \in Seq(FromSlave) : replies' = replies \o rs
<1>1. m.obj \in Somewhere /\ m.part \in Nat
      BY DEF CoeRequests, Somewhere
<1>2. SlaveTypes'
      BY DEF Informs, SlaveTypes
<1>3. CASE m.cmd = "rxpdo"
      BY <1>2, <1>3, EmptyIsTyped DEF Informs, Put
<1>4. CASE m.cmd \in {"od", "oe", "txpdo"}
  <2>1. [Msg(m.cmd, m.obj) EXCEPT !.part = m.part] \in CoeAnswers
        BY <1>1, <1>4, MsgIsTyped, AnswerEdits DEF AnswerCmds
  <2>2. replies' = replies \o <<[Msg(m.cmd, m.obj) EXCEPT !.part = m.part]>>
        BY <1>4 DEF Informs, Put
  <2> QED
        BY <1>2, <2>1, <2>2, OneAnswer DEF FromSlave
<1>5. CASE m.cmd = "odlist"
  <2> DEFINE piece(k) == [Msg("odlist", Nothing) EXCEPT !.part = k, !.last = k = Size[m.obj]]
             list == [k \in 1..Size[m.obj] |-> piece(k)]
  <2>0. Size[m.obj] \in Nat
        BY ConstantsOK DEF CoeRequests
  <2>1. Msg("odlist", Nothing) \in CoeAnswers
        BY MsgIsTyped DEF AnswerCmds, Somewhere
  <2>2. ASSUME NEW k \in 1..Size[m.obj] PROVE piece(k) \in CoeAnswers
    <3> DEFINE ends == k = Size[m.obj]
    <3>1. ends \in BOOLEAN /\ k \in Nat
          BY <2>0
    <3>2. piece(k) = [Msg("odlist", Nothing) EXCEPT !.part = k, !.last = ends]
          OBVIOUS
    <3> HIDE DEF ends, piece
    <3>3. [Msg("odlist", Nothing) EXCEPT !.part = k, !.last = ends] \in CoeAnswers
          BY <2>1, <3>1, AnswerEdits
    <3> QED
          BY <3>2, <3>3
  <2>3. replies' = replies \o list
        BY <1>5 DEF Informs, Put
  <2> HIDE DEF piece
  <2>4. list \in Seq(FromSlave)
        BY <2>0, <2>2 DEF FromSlave
  <2> QED
        BY <1>2, <2>3, <2>4
<1> QED
      BY <1>3, <1>4, <1>5

LEMMA RefusesTypes ==
    ASSUME SlaveTypes, NEW m \in CoeRequests, Refuses(m)
    PROVE  SlaveTypes' /\ \E rs \in Seq(FromSlave) : replies' = replies \o rs
<1>1. SlaveTypes'
      BY NoTransferTypes DEF Refuses, SlaveTypes
<1>2. <<Abort(m)>> \in Seq(FromSlave)
      BY MsgIsTyped, OneAnswer DEF Abort, AnswerCmds, CoeRequests, Somewhere, FromSlave
<1>3. replies' = replies \o <<>> \/ replies' = replies \o <<Abort(m)>>
      BY DEF Refuses, Put
<1> QED
      BY <1>1, <1>2, <1>3, EmptyIsTyped

\* The slave takes a CoE request.
LEMMA TakeTypes ==
    ASSUME SlaveTypes, MailTypes, Take
    PROVE  SlaveTypes' /\ MailTypes'
<1>1. PICK m \in CoeRequests : m = sm0
      BY RequestKinds DEF Take, MailTypes, BoxTypes
<1>2. m.cnt \in 0..MaxCnt
      BY DEF CoeRequests
<1>3. /\ UNCHANGED <<sm1, last, repreq, repack, mbxcnt, lost, asked>>
      /\ sm0' = Nothing /\ (seen' = seen \/ seen' = m.cnt)
      BY <1>1 DEF Take
<1>4. CASE UNCHANGED <<replies, seen, notices, slave>>
  <2>1. SlaveTypes'
        BY <1>4 DEF SlaveTypes, slave
  <2>2. BoxTypes'
        BY <1>3, <1>4, Answering DEF MailTypes
  <2> QED
        BY <1>3, <1>4, <2>1, <2>2 DEF MailTypes, CountTypes
<1>5. CASE Execute(m)
  <2>1. notices' = notices \/ notices' = notices + 1
        BY <1>5 DEF Execute, Upload, UploadsSegment, Download, DownloadsSegment, Informs, Refuses, MayErr
  <2>2. SlaveTypes' /\ \E rs \in Seq(FromSlave) : replies' = replies \o rs
        BY <1>5, UploadTypes, UploadsSegmentTypes, DownloadTypes, DownloadsSegmentTypes, InformsTypes,
           RefusesTypes DEF Execute, MailTypes
  <2>3. BoxTypes'
        BY <1>3, <2>2, Answering DEF MailTypes
  <2>4. CountTypes'
        BY <1>2, <1>3, <2>1 DEF MailTypes, CountTypes
  <2> QED
        BY <2>2, <2>3, <2>4 DEF MailTypes
<1> QED
      BY <1>1, <1>4, <1>5 DEF Take

-----------------------------------------------------------------------------
(* The types of the slave's servers.                                               *)

\* Answers of the other services, which no call of EcCoe takes for its own.
Others == TransferAnswers \union FragmentAnswers

LEMMA OthersAnswer == \A rs \in Seq(Others) : rs \in Seq(FromSlave)
<1>1. Others \subseteq FromSlave
      BY DEF Others, FromSlave
<1> QED
      BY <1>1

LEMMA ReplyIsTyped ==
    ASSUME NEW m \in TransferRequests, m.type \in {"FoE", "SoE"},
           NEW cmd \in {"data", "ack", "busy", "error", "sread", "swrite"},
           NEW no \in Nat, NEW data \in Seq(Unit), NEW more \in BOOLEAN
    PROVE  Reply(m, cmd, no, data, more) \in Others
<1>1. Reply(m, cmd, no, data, more) \in TransferAnswers
      BY DEF Reply, TransferRequests, TransferAnswers, Somewhere
<1> QED
      BY <1>1 DEF Others

LEMMA FragmentIsTyped ==
    ASSUME NEW no \in Nat, NEW frame \in Nat, NEW offset \in Nat, NEW data \in Seq(Unit), NEW more \in BOOLEAN
    PROVE  /\ Fragment(no, frame, offset, data, more) \in FragmentAnswers
           /\ Fragment(no, frame, offset, data, more) \in FragmentRequests
<1>1. 0 \in 0..MaxCnt
      BY ConstantsOK
<1> QED
      BY <1>1 DEF Fragment, FragmentAnswers, FragmentRequests

LEMMA Cut ==
    ASSUME NEW s \in Seq(Unit), NEW a \in Nat, NEW n \in Nat
    PROVE  SubSeq(s, a + 1, Least(Len(s), n)) \in Seq(Unit)
<1>1. Least(Len(s), n) \in Nat /\ Least(Len(s), n) <= Len(s)
      BY DEF Least
<1> QED
      BY <1>1

LEMMA BlockIsTyped ==
    ASSUME ServerTypes, NEW o \in Objects, NEW done \in Nat
    PROVE  Block(o, done) \in Seq(Unit)
<1>1. held[o] \in Seq(Unit) /\ done + capacity.read \in Nat
      BY DEF ServerTypes
<1> QED
      BY <1>1, Cut DEF Block

LEMMA ProductsAndQuotients ==
    ASSUME NEW a \in Nat, NEW b \in Nat \ {0}
    PROVE  a * b \in Nat /\ b * a \in Nat /\ (a + b - 1) \div b \in Nat
OBVIOUS

LEMMA ServerForms ==
    ASSUME ServerTypes, capacity' = capacity,
           held' = held \/ \E o \in Objects, data \in Seq(Unit) : held' = [held EXCEPT ![o] = data],
           server' \in ServerRecords, server'.way = "read" => server'.obj \in Objects
    PROVE  ServerTypes'
<1>1. held' \in [Objects -> Seq(Unit)]
      BY DEF ServerTypes
<1> QED
      BY <1>1 DEF ServerTypes

LEMMA NoServerIsTyped == NoServer \in ServerRecords /\ NoServer.way = "none"
BY EmptyIsTyped DEF NoServer, ServerRecords, ServerWays, Somewhere

\* What a server does: it answers, files what it has put together, and is typed.
Serves ==
    /\ replies' = replies \/ \E rs \in Seq(Others) : replies' = replies \o rs
    /\ held' = held \/ \E o \in Objects, data \in Seq(Unit) : held' = [held EXCEPT ![o] = data]
    /\ server' \in ServerRecords /\ (server'.way = "read" => server'.obj \in Objects)
    /\ notices' = notices \/ notices' = notices + 1

LEMMA SuppliesServes ==
    ASSUME ServerTypes, NEW m \in TransferRequests, m.type \in {"FoE", "SoE"}, NEW o \in Objects,
           NEW no \in Nat, NEW sent \in Seq(Unit), Supplies(m, o, no, sent)
    PROVE  Serves
<1> DEFINE block == Block(o, Len(sent))
           full == Len(block) = capacity.read
<1>1. block \in Seq(Unit) /\ Reply(m, "data", no, block, FALSE) \in Others
  <2>1. Len(sent) \in Nat
        OBVIOUS
  <2>2. block \in Seq(Unit)
        BY <2>1, BlockIsTyped
  <2> QED
        BY <2>2, ReplyIsTyped
<1>2. /\ replies' = replies \o <<Reply(m, "data", no, block, FALSE)>>
      /\ server' = [way |-> "read", obj |-> o, no |-> no, more |-> full, data |-> sent \o block]
      /\ UNCHANGED <<held, notices>>
      BY DEF Supplies, Answers
<1>3. full \in BOOLEAN
      OBVIOUS
<1> HIDE DEF block, full
<1>4. sent \o block \in Seq(Unit)
      BY <1>1
<1>5. server' \in ServerRecords /\ server'.obj \in Objects
      BY <1>2, <1>3, <1>4 DEF ServerRecords, ServerWays, Somewhere
<1> QED
      BY <1>1, <1>2, <1>5, OneAnswer DEF Serves

LEMMA FileServerServes ==
    ASSUME ServerTypes, NEW m \in TransferRequests, m.type = "FoE", FileServer(m)
    PROVE  Serves
<1>1. /\ server.no \in Nat /\ server.data \in Seq(Unit) /\ server \in ServerRecords
      /\ (server.way = "read" => server.obj \in Objects)
      BY DEF ServerTypes, ServerRecords
<1>2. m.obj \in Objects /\ m.no \in Nat /\ m.data \in Seq(Unit) /\ m.type \in {"FoE", "SoE"}
      BY DEF TransferRequests
<1>3. /\ Reply(m, "ack", 0, <<>>, FALSE) \in Others /\ Reply(m, "busy", 0, <<>>, FALSE) \in Others
      /\ Reply(m, "error", 0, <<>>, FALSE) \in Others /\ Reply(m, "ack", m.no, <<>>, FALSE) \in Others
      BY <1>2, EmptyIsTyped, ReplyIsTyped
<1>4. CASE m.cmd = "read" /\ Supplies(m, m.obj, 1, <<>>)
      BY <1>2, <1>4, EmptyIsTyped, SuppliesServes
<1>5. CASE m.cmd = "ack" /\ server.way = "read" /\ Supplies(m, server.obj, server.no + 1, server.data)
  <2>1. server.no + 1 \in Nat
        BY <1>1
  <2> QED
        BY <1>1, <1>2, <1>5, <2>1, SuppliesServes
<1>6. CASE server' = NoServer /\ UNCHANGED <<held, notices, replies>>
      BY <1>6, NoServerIsTyped DEF Serves
<1>7. CASE /\ m.cmd = "write" /\ Answers(<<Reply(m, "ack", 0, <<>>, FALSE)>>)
           /\ server' = [NoServer EXCEPT !.way = "write", !.obj = m.obj]
           /\ UNCHANGED <<held, notices>>
  <2>1. server' \in ServerRecords /\ server'.way = "write"
        BY <1>2, <1>7, NoServerIsTyped DEF ServerRecords, ServerWays, Somewhere
  <2> QED
        BY <1>3, <1>7, <2>1, OneAnswer DEF Serves, Answers
<1>8. CASE /\ m.cmd = "data" /\ server.way = "write" /\ m.no = server.no + 1
           /\ Answers(<<Reply(m, "ack", m.no, <<>>, FALSE)>>)
           /\ LET data == server.data \o m.data
              IN  IF Len(m.data) = capacity.write
                  THEN server' = [server EXCEPT !.no = m.no, !.data = data] /\ UNCHANGED held
                  ELSE server' = NoServer /\ held' = [held EXCEPT ![server.obj] = data]
           /\ UNCHANGED notices
  <2> DEFINE data == server.data \o m.data
  <2>1. data \in Seq(Unit)
        BY <1>1, <1>2
  <2>2. \/ server' = [server EXCEPT !.no = m.no, !.data = data] /\ UNCHANGED held
        \/ server' = NoServer /\ held' = [held EXCEPT ![server.obj] = data]
        BY <1>8
  <2> HIDE DEF data
  <2>3. server' \in ServerRecords /\ server'.way # "read"
        BY <1>1, <1>2, <1>8, <2>1, <2>2, NoServerIsTyped DEF ServerRecords
  <2>4. held' = held \/ \E o \in Objects, d \in Seq(Unit) : held' = [held EXCEPT ![o] = d]
    <3>1. held' = [held EXCEPT ![server.obj] = data] /\ server.obj \notin Objects => held' = held
          BY DEF ServerTypes
    <3> QED
          BY <2>1, <2>2, <3>1
  <2> QED
        BY <1>3, <1>8, <2>3, <2>4, OneAnswer DEF Serves, Answers
<1>9. CASE /\ MayErr /\ Answers(<<Reply(m, "busy", 0, <<>>, FALSE)>>)
           /\ UNCHANGED <<held, server>>
      BY <1>1, <1>3, <1>9, OneAnswer DEF Serves, Answers, MayErr
<1>10. CASE /\ MayErr \/ UNCHANGED notices
            /\ Answers(<<Reply(m, "error", 0, <<>>, FALSE)>>)
            /\ server' = NoServer /\ UNCHANGED held
      BY <1>3, <1>10, OneAnswer, NoServerIsTyped DEF Serves, Answers, MayErr
<1> QED
      BY <1>4, <1>5, <1>6, <1>7, <1>8, <1>9, <1>10, Zenon DEF FileServer

LEMMA ParameterServerServes ==
    ASSUME ServerTypes, NEW m \in TransferRequests, m.type = "SoE", ParameterServer(m)
    PROVE  Serves
<1>1. m.obj \in Objects /\ m.no \in Nat /\ m.data \in Seq(Unit) /\ m.type \in {"FoE", "SoE"}
      BY DEF TransferRequests
<1>2. /\ server.data \in Seq(Unit) /\ capacity.read \in Nat \ {0} /\ held[m.obj] \in Seq(Unit)
      BY <1>1 DEF ServerTypes, ServerRecords
<1>3. Reply(m, "error", 0, <<>>, FALSE) \in Others /\ Reply(m, "swrite", 0, <<>>, FALSE) \in Others
      BY <1>1, EmptyIsTyped, ReplyIsTyped
<1>4. CASE /\ m.cmd = "sread"
           /\ LET size == capacity.read
                  n == (Len(held[m.obj]) + size - 1) \div size
              IN  Answers([k \in 1..n |-> Reply(m, "sread", 0, Block(m.obj, size * (k - 1)), k < n)])
           /\ server' = NoServer /\ UNCHANGED <<held, notices>>
  <2> DEFINE size == capacity.read
             n == (Len(held[m.obj]) + size - 1) \div size
             part(k) == Reply(m, "sread", 0, Block(m.obj, size * (k - 1)), k < n)
             parts == [k \in 1..n |-> part(k)]
  <2>1. n \in Nat
    <3>1. Len(held[m.obj]) \in Nat
          BY <1>2
    <3> QED
          BY <1>2, <3>1, ProductsAndQuotients
  <2>2. replies' = replies \o parts
        BY <1>4 DEF Answers
  <2> HIDE DEF n
  <2>3. ASSUME NEW k \in 1..n PROVE part(k) \in Others
    <3> DEFINE more == k < n
               data == Block(m.obj, size * (k - 1))
    <3>1. more \in BOOLEAN
          OBVIOUS
    <3>2. k - 1 \in Nat
          BY <2>1
    <3>3. size * (k - 1) \in Nat
          BY <1>2, <3>2, ProductsAndQuotients
    <3>4. data \in Seq(Unit)
          BY <1>1, <3>3, BlockIsTyped
    <3>5. part(k) = Reply(m, "sread", 0, data, more)
          OBVIOUS
    <3> HIDE DEF more, data, part
    <3>6. Reply(m, "sread", 0, data, more) \in Others
          BY <1>1, <3>1, <3>4, ReplyIsTyped
    <3> QED
          BY <3>5, <3>6
  <2> HIDE DEF part
  <2>4. parts \in Seq(Others)
        BY <2>1, <2>3
  <2> HIDE DEF parts
  <2> QED
        BY <1>4, <2>2, <2>4, NoServerIsTyped DEF Serves
<1>5. CASE /\ m.cmd = "swrite"
           /\ LET data == (IF server.way = "idn" THEN server.data ELSE <<>>) \o m.data
              IN  IF m.more
                  THEN /\ server' = [NoServer EXCEPT !.way = "idn", !.obj = m.obj, !.data = data]
                       /\ UNCHANGED <<held, replies>>
                  ELSE /\ Answers(<<Reply(m, "swrite", 0, <<>>, FALSE)>>)
                       /\ server' = NoServer /\ held' = [held EXCEPT ![m.obj] = data]
           /\ UNCHANGED notices
  <2> DEFINE before == IF server.way = "idn" THEN server.data ELSE <<>>
             data == before \o m.data
  <2>1. before \in Seq(Unit)
        BY <1>2, EmptyIsTyped
  <2>2. data \in Seq(Unit)
        BY <1>1, <2>1
  <2>3. \/ /\ server' = [NoServer EXCEPT !.way = "idn", !.obj = m.obj, !.data = data]
           /\ UNCHANGED <<held, replies>>
        \/ /\ Answers(<<Reply(m, "swrite", 0, <<>>, FALSE)>>)
           /\ server' = NoServer /\ held' = [held EXCEPT ![m.obj] = data]
        BY <1>5
  <2> HIDE DEF data
  <2>4. server' \in ServerRecords /\ server'.way # "read"
        BY <1>1, <2>2, <2>3, NoServerIsTyped DEF ServerRecords, ServerWays, Somewhere
  <2> QED
        BY <1>1, <1>3, <1>5, <2>2, <2>3, <2>4, OneAnswer DEF Serves, Answers
<1>6. CASE /\ MayErr /\ Answers(<<Reply(m, "error", 0, <<>>, FALSE)>>)
           /\ server' = NoServer /\ UNCHANGED held
      BY <1>3, <1>6, OneAnswer, NoServerIsTyped DEF Serves, Answers, MayErr
<1> QED
      BY <1>4, <1>5, <1>6, Zenon DEF ParameterServer

\* An address is set or told, and fragments are put together.
LEMMA EthernetServerServes ==
    ASSUME ServerTypes, EthTypes, NEW m \in TransferRequests \union FragmentRequests, m.type = "EoE",
           EthernetServer(m)
    PROVE  Serves /\ EthTypes'
<1>1. m.cmd # "fragment" => m \in TransferRequests /\ m.obj \in Objects
      BY DEF TransferRequests, FragmentRequests
<1>2. m.no \in Nat /\ m.data \in Seq(Unit)
      BY DEF TransferRequests, FragmentRequests
<1>3. ASSUME NEW cmd \in {"eset", "eget", "refusal"}, NEW result \in Nat, NEW data \in Seq(Unit),
             IpReply(m, cmd, result, data)
      PROVE  \E rs \in Seq(Others) : replies' = replies \o rs
  <2>1. Fragment(result, 0, 0, data, FALSE) \in FragmentAnswers
        BY FragmentIsTyped
  <2>2. [Fragment(result, 0, 0, data, FALSE) EXCEPT !.cmd = cmd] \in Others
        BY <2>1 DEF FragmentAnswers, Others
  <2> QED
        BY <1>3, <2>2, OneAnswer DEF IpReply, Answers
<1>4. server \in ServerRecords /\ (server.way = "read" => server.obj \in Objects)
      BY DEF ServerTypes
<1>5. CASE /\ m.cmd = "eset" /\ IpReply(m, "eset", 0, <<>>)
           /\ held' = [held EXCEPT ![m.obj] = m.data]
           /\ UNCHANGED <<notices, server, eth>>
      BY <1>1, <1>2, <1>3, <1>4, <1>5, EmptyIsTyped DEF Serves, EthTypes
<1>6. CASE /\ m.cmd = "eget" /\ IpReply(m, "eget", 0, held[m.obj])
           /\ UNCHANGED <<held, notices, server, eth>>
  <2>1. held[m.obj] \in Seq(Unit)
        BY <1>1, <1>6 DEF ServerTypes
  <2> QED
        BY <1>3, <1>4, <1>6, <2>1 DEF Serves, EthTypes
<1>7. CASE /\ m.cmd \in {"eset", "eget"} /\ MayErr /\ IpReply(m, "refusal", 1, <<>>)
           /\ UNCHANGED <<held, server, eth>>
      BY <1>3, <1>4, <1>7, EmptyIsTyped DEF Serves, EthTypes, MayErr
<1>8. CASE m.cmd = "fragment" /\ PutsTogether(m)
  <2> DEFINE fits == \/ m.no = 0
                     \/ server.way = "frame" /\ m.no = server.no + 1 /\ m.offset = Len(server.data)
             before == IF m.no = 0 THEN <<>> ELSE server.data
             data == before \o m.data
  <2>1. before \in Seq(Unit)
        BY <1>4, EmptyIsTyped DEF ServerRecords
  <2>2. data \in Seq(Unit)
        BY <1>2, <2>1
  <2>3. /\ \/ server' = [NoServer EXCEPT !.way = "frame", !.no = m.no, !.data = data]
           \/ server' = NoServer
        /\ eth' = [eth EXCEPT !.taken = IF fits /\ ~m.more THEN data ELSE @]
        /\ UNCHANGED <<replies, held, notices>>
        BY <1>8 DEF PutsTogether
  <2> HIDE DEF data, fits
  <2>4. server' \in ServerRecords /\ server'.way # "read"
        BY <1>2, <2>2, <2>3, NoServerIsTyped DEF ServerRecords, ServerWays
  <2>5. EthTypes'
        BY <2>2, <2>3 DEF EthTypes
  <2> QED
        BY <2>3, <2>4, <2>5 DEF Serves
<1> QED
      BY <1>5, <1>6, <1>7, <1>8, Zenon DEF EthernetServer

\* Every server takes what the mailbox holds.
Untouched == UNCHANGED <<link, coe, app, job, plan>>

LEMMA ServingTypes ==
    ASSUME MailTypes, ServerTypes, NEW m \in ToSlave, Serves \/ UNCHANGED <<replies, held, server, notices>>,
           UNCHANGED <<sm1, last, repreq, repack, mbxcnt, lost, asked, capacity>>,
           sm0' = Nothing, seen' = seen \/ seen' = m.cnt
    PROVE  MailTypes' /\ ServerTypes'
<1>1. BoxTypes'
      BY Answering, OthersAnswer DEF MailTypes, Serves
<1>2. CountTypes'
  <2>1. notices' \in Nat
        BY DEF MailTypes, CountTypes, Serves
  <2>2. seen' \in 0..MaxCnt
        BY RequestKinds DEF MailTypes, CountTypes
  <2> QED
        BY <2>1, <2>2 DEF MailTypes, CountTypes
<1>3. ServerTypes'
  <2>1. CASE Serves
        BY <2>1, ServerForms DEF Serves
  <2>2. CASE UNCHANGED <<held, server>>
        BY <2>2 DEF ServerTypes
  <2> QED
        BY <2>1, <2>2
<1> QED
      BY <1>1, <1>2, <1>3 DEF MailTypes

LEMMA ServeTypes ==
    ASSUME MailTypes, ServerTypes, Serve
    PROVE  MailTypes' /\ ServerTypes'
<1>1. PICK m \in ToSlave : m = sm0
      BY DEF Serve, MailTypes, BoxTypes
<1>2. /\ m.type \in {"FoE", "SoE"} => m \in TransferRequests
      /\ UNCHANGED <<sm1, last, repreq, repack, mbxcnt, lost, asked, capacity>>
      /\ sm0' = Nothing /\ (seen' = seen \/ seen' = m.cnt)
      BY <1>1, RequestKinds DEF Serve
<1>3. \/ UNCHANGED <<replies, held, server, notices>>
      \/ m.type = "FoE" /\ FileServer(m)
      \/ m.type = "SoE" /\ ParameterServer(m)
      BY <1>1 DEF Serve
<1>4. Serves \/ UNCHANGED <<replies, held, server, notices>>
      BY <1>2, <1>3, FileServerServes, ParameterServerServes
<1> QED
      BY <1>2, <1>4, ServingTypes

LEMMA ServeEthernetTypes ==
    ASSUME MailTypes, ServerTypes, EthTypes, ServeEthernet
    PROVE  MailTypes' /\ ServerTypes' /\ EthTypes'
<1>1. PICK m \in ToSlave : m = sm0
      BY DEF ServeEthernet, MailTypes, BoxTypes
<1>2. /\ m \in TransferRequests \union FragmentRequests /\ m.type = "EoE" /\ EthernetServer(m)
      /\ UNCHANGED <<sm1, last, repreq, repack, mbxcnt, lost, asked, capacity>>
      /\ sm0' = Nothing /\ seen' = m.cnt
      BY <1>1, RequestKinds DEF ServeEthernet
<1>3. Serves /\ EthTypes'
      BY <1>2, EthernetServerServes
<1> QED
      BY <1>2, <1>3, ServingTypes

\* A frame of the slave's network goes to the master in fragments.
LEMMA UnitsAreTyped ==
    ASSUME NEW v \in Nat, NEW n \in Nat
    PROVE  Units(v, n) \in Seq(Unit) /\ Len(Units(v, n)) = n
<1>1. \A k \in 1..n : <<v, k>> \in Unit
      BY DEF Unit
<1>2. Units(v, n) = [k \in 1..n |-> <<v, k>>]
      BY DEF Units
<1> QED
      BY <1>1, <1>2

LEMMA FragmentsAreTyped ==
    ASSUME capacity.read \in Nat \ {0}, NEW frame \in Nat, NEW units \in Seq(Unit)
    PROVE  Fragments(frame, units) \in Seq(Others)
<1> DEFINE size == capacity.read
           n == (Len(units) + size - 1) \div size
           cut(k) == SubSeq(units, size * k + 1, Least(Len(units), size * (k + 1)))
           part(i) == Fragment(i - 1, frame, IF i = 1 THEN Len(units) ELSE size * (i - 1), cut(i - 1), i < n)
<1>1. Len(units) \in Nat
      OBVIOUS
<1>2. n \in Nat
      BY <1>1, ProductsAndQuotients
<1>3. Fragments(frame, units) = [i \in 1..n |-> part(i)]
      BY DEF Fragments
<1> HIDE DEF n
<1>4. ASSUME NEW i \in 1..n PROVE part(i) \in Others
  <2> DEFINE more == i < n
             data == cut(i - 1)
             offset == IF i = 1 THEN Len(units) ELSE size * (i - 1)
  <2>1. i - 1 \in Nat /\ (i - 1) + 1 \in Nat
        BY <1>2
  <2>2. size * (i - 1) \in Nat /\ size * ((i - 1) + 1) \in Nat
        BY <2>1, ProductsAndQuotients
  <2>3. data \in Seq(Unit)
        BY <2>2, Cut
  <2>4. offset \in Nat /\ more \in BOOLEAN
        BY <1>1, <2>2
  <2>5. part(i) = Fragment(i - 1, frame, offset, data, more)
        OBVIOUS
  <2> HIDE DEF more, data, offset, part, cut
  <2>6. Fragment(i - 1, frame, offset, data, more) \in FragmentAnswers
        BY <2>1, <2>3, <2>4, FragmentIsTyped
  <2> QED
        BY <2>5, <2>6 DEF Others
<1> HIDE DEF part
<1>5. [i \in 1..n |-> part(i)] \in Seq(Others)
      BY <1>2, <1>4
<1> QED
      BY <1>3, <1>5

LEMMA TrafficTypes ==
    ASSUME MailTypes, ServerTypes, EthTypes, Traffic
    PROVE  MailTypes' /\ ServerTypes' /\ EthTypes'
<1>1. PICK o \in Objects : Answers(Fragments(eth.given + 1, Units(eth.given + 1, Size[o])))
      BY DEF Traffic
<1>2. eth.given + 1 \in Nat /\ Size[o] \in Nat /\ capacity.read \in Nat \ {0}
      BY ConstantsOK DEF EthTypes, ServerTypes
<1>3. Fragments(eth.given + 1, Units(eth.given + 1, Size[o])) \in Seq(FromSlave)
      BY <1>2, UnitsAreTyped, FragmentsAreTyped, OthersAnswer
<1>4. replies' \in Seq(FromSlave)
      BY <1>1, <1>3 DEF Answers, MailTypes, BoxTypes
<1>5. /\ UNCHANGED <<sm0, sm1, last, seen, repreq, repack, mbxcnt, lost, notices, asked, held, server, capacity>>
      /\ eth' = [eth EXCEPT !.given = @ + 1]
      BY DEF Traffic, Beside
<1>6. MailTypes'
      BY <1>4, <1>5 DEF MailTypes, BoxTypes, CountTypes
<1>7. ServerTypes'
      BY <1>5 DEF ServerTypes
<1>8. EthTypes'
      BY <1>2, <1>5 DEF EthTypes
<1> QED
      BY <1>6, <1>7, <1>8

-----------------------------------------------------------------------------
(* The types of the calls of EcCoe.                                                *)

\* What a step of a call may make of it.
Advances ==
    /\ coe' \in CallRecords
    /\ coe'.op = coe.op /\ coe'.obj = coe.obj /\ coe'.val = coe.val
    /\ coe'.pc \in {"idle", "ready", "send", "receive"}
    /\ \/ coe'.part = coe.part /\ (coe'.pc = "ready" /\ coe.op = "down" => coe.part <= Size[coe.obj])
       \/ coe.op = "down" /\ coe.pc = "ready" /\ coe'.pc = "send" /\ coe'.part = coe.part + 1
       \/ coe.op = "oe" /\ coe.part < MaxSub /\ coe'.part = coe.part + 1

LEMMA AdvancesTypes ==
    ASSUME CallTypes, JobTypes, coe.pc \in {"ready", "send", "receive"}, Advances, job' = job
    PROVE  CallTypes' /\ JobTypes'
<1>1. /\ coe \in CallRecords /\ coe.obj \in Objects /\ coe.op \in CoeOps /\ coe.part \in Nat
      /\ Size[coe.obj] \in Nat /\ MaxSub \in Nat /\ (coe.op = "down" => coe.val \in Values)
      BY ConstantsOK DEF CallTypes, CallRecords
<1>2. coe'.part \in 0..(MaxSub + 1) \union UNION {1..(Size[o] + 1) : o \in Objects}
  <2>1. CASE coe'.part = coe.part
        BY <2>1 DEF CallTypes
  <2>2. CASE coe.op = "down" /\ coe.pc = "ready" /\ coe'.part = coe.part + 1
    <3>1. coe'.part \in 1..(Size[coe.obj] + 1)
          BY <1>1, <2>2 DEF CallTypes
    <3> QED
          BY <1>1, <3>1
  <2>3. CASE coe.part < MaxSub /\ coe'.part = coe.part + 1
        BY <1>1, <2>3
  <2> QED
        BY <2>1, <2>2, <2>3 DEF Advances
<1>3. coe.op = "down" /\ coe'.pc # "idle" =>
         coe'.part \in 1..(Size[coe.obj] + 1) /\ (coe'.pc = "ready" => coe'.part <= Size[coe.obj])
      BY <1>1 DEF Advances, CallTypes
<1>4. CallTypes'
      BY <1>1, <1>2, <1>3 DEF Advances, CallTypes
<1>5. JobTypes'
      BY DEF JobTypes, Advances
<1> QED
      BY <1>4, <1>5

LEMMA BooleanClear == Clear \in BOOLEAN
BY DEF Clear

LEMMA ReturnAdvances ==
    ASSUME CallTypes, NEW ok \in BOOLEAN, Return(ok)
    PROVE  Advances /\ Rests
BY DEF Return, Advances, CallTypes, CallRecords, CoePcs, Rests

LEMMA NextEntryAdvances ==
    ASSUME CallTypes, coe.pc = "receive" \/ coe.pc = "send", NEW ok \in BOOLEAN, NextEntry(ok), coe.op = "oe"
    PROVE  Advances /\ (Rests \/ Hears)
<1> DEFINE got == IF ok THEN Append(coe.got, coe.part) ELSE coe.got
<1>1. coe \in CallRecords /\ coe.part \in Nat /\ coe.got \in Seq(Parts)
      BY DEF CallTypes, CallRecords
<1>2. got \in Seq(Parts)
      BY <1>1 DEF Parts
<1>3. CASE coe.part < MaxSub
  <2>1. coe' = [coe EXCEPT !.pc = "ready", !.part = @ + 1, !.got = got] /\ link' = Awaiting(FALSE)
        BY <1>3 DEF NextEntry
  <2> HIDE DEF got
  <2>2. Hears
        BY <2>1 DEF Hears
  <2>3. coe' \in CallRecords
    <3>1. coe.part + 1 \in Nat
          BY <1>1
    <3> QED
          BY <1>1, <1>2, <2>1, <3>1 DEF CallRecords, CoePcs
  <2>4. /\ coe'.op = coe.op /\ coe'.obj = coe.obj /\ coe'.val = coe.val /\ coe'.pc = "ready"
        /\ coe'.part = coe.part + 1
        BY <1>1, <2>1 DEF CallRecords
  <2> QED
        BY <1>3, <2>2, <2>3, <2>4 DEF Advances
<1>4. CASE ~(coe.part < MaxSub)
  <2>1. coe' = [coe EXCEPT !.pc = "idle", !.ok = ok, !.got = got] /\ Rests
        BY <1>4 DEF NextEntry, Rests
  <2> HIDE DEF got
  <2> QED
        BY <1>1, <1>2, <2>1 DEF Advances, CallRecords, CoePcs
<1> QED
      BY <1>3, <1>4

LEMMA NextSegmentAdvances ==
    ASSUME CallTypes, GoesOn, NextSegment
    PROVE  Advances /\ Rests
<1>1. coe \in CallRecords
      BY DEF CallTypes
<1>2. coe' = [[coe EXCEPT !.toggle = ~@] EXCEPT !.pc = "ready"]
      BY DEF NextSegment, Continue
<1> DEFINE c == [coe EXCEPT !.toggle = ~@]
<1>3. /\ c \in CallRecords
      /\ c.op = coe.op /\ c.obj = coe.obj /\ c.val = coe.val /\ c.part = coe.part
  <2>1. c \in CallRecords
        BY <1>1 DEF CallRecords
  <2> QED
        BY <1>1, <2>1 DEF CallRecords
<1>4. coe' = [c EXCEPT !.pc = "ready"]
      BY <1>2
<1> HIDE DEF c
<1>5. Rests
      BY DEF NextSegment, Continue, Rests
<1> QED
      BY <1>3, <1>4, <1>5 DEF Advances, GoesOn, CallRecords, CoePcs

LEMMA FailsAdvances ==
    ASSUME CallTypes, coe.pc = "receive" \/ coe.pc = "send", Fails
    PROVE  Advances /\ (Rests \/ Hears)
<1>1. \/ GoesOn /\ NextSegment
      \/ coe.op = "oe" /\ NextEntry(FALSE)
      \/ Return(FALSE)
      BY DEF Fails, GoesOn
<1> QED
      BY <1>1, NextSegmentAdvances, NextEntryAdvances, ReturnAdvances

\* What a call takes for its answer comes from the slave.
LEMMA ReceivedIsTyped ==
    ASSUME LinkTypes, Received
    PROVE  link.msg \in FromSlave
BY DEF LinkTypes, LinkRecords, Received, Listening, Done

LEMMA CoeAnswerIsTyped ==
    ASSUME LinkTypes, Received, link.msg.type = "CoE", link.msg.cmd # "emergency"
    PROVE  /\ link.msg \in CoeAnswers
           /\ link.msg.val \in Nat /\ link.msg.part \in Nat /\ link.msg.of \in Nat
           /\ link.msg.last \in BOOLEAN /\ link.msg.obj \in Somewhere
           /\ <<link.msg.val, link.msg.part>> \in Parts
<1>1. link.msg \in CoeAnswers
      BY ReceivedIsTyped, AnswerKinds
<1>2. link.msg.val \in Held /\ link.msg.part \in Nat /\ link.msg.of \in Nat
      BY <1>1 DEF CoeAnswers, Held
<1>3. link.msg.last \in BOOLEAN /\ link.msg.obj \in Somewhere
      BY <1>1 DEF CoeAnswers
<1> QED
      BY <1>1, <1>2, <1>3, ConstantsOK DEF Parts, Unit

CoeCallStep == Advances /\ (Rests \/ Hears \/ Writes \/ Keeps)

LEMMA RequestAdvances ==
    ASSUME CallTypes, MailTypes, JobTypes, Request
    PROVE  CoeCallStep
<1> DEFINE part == IF coe.op = "down" THEN coe.part + 1 ELSE coe.part
           clear == IF coe.seg THEN coe.clear ELSE Clear
<1>1. coe \in CallRecords /\ coe.part \in Nat /\ coe.pc = "ready"
      BY DEF CallTypes, CallRecords, Request
<1>2. clear \in BOOLEAN /\ part \in Nat
      BY <1>1, BooleanClear DEF CallRecords
<1>3. coe' = [coe EXCEPT !.pc = "send", !.part = part, !.clear = clear]
      BY DEF Request
<1> HIDE DEF clear
<1>4. coe' \in CallRecords
      BY <1>1, <1>2, <1>3 DEF CallRecords, CoePcs
<1>5. /\ coe'.op = coe.op /\ coe'.obj = coe.obj /\ coe'.val = coe.val /\ coe'.pc = "send"
      /\ coe'.part = part
      BY <1>1, <1>3 DEF CallRecords
<1>6. Advances
      BY <1>1, <1>4, <1>5 DEF Advances
<1>7. Writes
  <2>1. [RequestOf EXCEPT !.cnt = NextMbxCnt(mbxcnt), !.id = asked + 1] \in ToSlave
        BY <1>1, RequestIsTyped DEF ToSlave
  <2>2. link' = Sending([RequestOf EXCEPT !.cnt = NextMbxCnt(mbxcnt), !.id = asked + 1])
        BY DEF Request
  <2>3. ~Listening'
        BY <1>5 DEF Listening
  <2> QED
        BY <2>1, <2>2, <2>3 DEF Writes
<1> QED
      BY <1>6, <1>7 DEF CoeCallStep

LEMMA SentAdvances ==
    ASSUME CallTypes, Sent \/ NotReceived
    PROVE  CoeCallStep
<1>1. CASE Fails
      BY <1>1, FailsAdvances DEF CoeCallStep, Sent, NotReceived
<1>2. CASE Sent /\ Return(TRUE)
      BY <1>2, ReturnAdvances DEF CoeCallStep
<1>3. CASE link' = Awaiting(TRUE) /\ coe' = [coe EXCEPT !.pc = "receive"]
      BY <1>3 DEF CoeCallStep, Advances, Hears, CallTypes, CallRecords, CoePcs
<1> QED
      BY <1>1, <1>2, <1>3 DEF Sent, NotReceived

\* Taking what was read, the call returns or goes on.
LEMMA TakingAdvances ==
    ASSUME CallTypes, NEW c \in CallRecords, c.op = coe.op, c.obj = coe.obj, c.val = coe.val, c.part = coe.part,
           NEW pc \in {"idle", "ready"}, pc = "ready" /\ coe.op = "down" => coe.part <= Size[coe.obj]
    PROVE  /\ coe' = [c EXCEPT !.pc = pc] => Advances
           /\ \A ok \in BOOLEAN : coe' = [c EXCEPT !.pc = pc, !.ok = ok] => Advances
<1>1. coe' = [c EXCEPT !.pc = pc] => Advances
      BY DEF Advances, CallRecords, CoePcs
<1>2. ASSUME NEW ok \in BOOLEAN, coe' = [c EXCEPT !.pc = pc, !.ok = ok] PROVE Advances
      BY <1>2 DEF Advances, CallRecords, CoePcs
<1> QED
      BY <1>1, <1>2

LEMMA UploadResponseAdvances ==
    ASSUME CallTypes, LinkTypes, UploadResponse
    PROVE  CoeCallStep
<1> DEFINE c == [coe EXCEPT !.got = <<<<link.msg.val, 1>>>>, !.of = link.msg.of]
           d == [c EXCEPT !.seg = TRUE]
<1>1. coe \in CallRecords /\ coe.op = "up"
      BY DEF CallTypes, UploadResponse
<1>2. link.msg.val \in Nat /\ link.msg.of \in Nat
      BY CoeAnswerIsTyped DEF UploadResponse, IsUploadResponse
<1>3. <<link.msg.val, 1>> \in Parts
      BY <1>2 DEF Parts, Unit
<1>4. <<<<link.msg.val, 1>>>> \in Seq(Parts)
      BY <1>3
<1>5. c \in CallRecords /\ c.op = coe.op /\ c.obj = coe.obj /\ c.val = coe.val /\ c.part = coe.part
      BY <1>1, <1>2, <1>4 DEF CallRecords
<1> HIDE DEF c
<1>6. d \in CallRecords /\ d.op = coe.op /\ d.obj = coe.obj /\ d.val = coe.val /\ d.part = coe.part
      BY <1>5 DEF CallRecords
<1> USE DEF c
<1>7. \/ Return(FALSE)
      \/ coe' = [c EXCEPT !.pc = "idle", !.ok = TRUE] /\ Rests
      \/ coe' = [d EXCEPT !.pc = "ready"] /\ Rests
      BY DEF UploadResponse, Continue, Rests
<1> HIDE DEF c, d
<1> QED
      BY <1>1, <1>5, <1>6, <1>7, TakingAdvances, ReturnAdvances DEF CoeCallStep

LEMMA UploadSegmentAdvances ==
    ASSUME CallTypes, LinkTypes, UploadSegment
    PROVE  CoeCallStep
<1> DEFINE got == Append(coe.got, <<link.msg.val, link.msg.part>>)
           c == [coe EXCEPT !.got = got, !.toggle = ~@]
           whole == Whole(c)
<1>1. coe \in CallRecords /\ coe.op = "up" /\ coe.got \in Seq(Parts)
      BY DEF CallTypes, UploadSegment, CallRecords
<1>2. <<link.msg.val, link.msg.part>> \in Parts
      BY CoeAnswerIsTyped DEF UploadSegment, IsUploadSegment
<1>3. got \in Seq(Parts)
      BY <1>1, <1>2
<1>4. whole \in BOOLEAN
      BY DEF Whole
<1>5. \/ coe' = [c EXCEPT !.pc = "idle", !.ok = whole] /\ Rests
      \/ coe' = [c EXCEPT !.pc = "ready"] /\ Rests
      BY DEF UploadSegment, Continue, Rests
<1> HIDE DEF got, whole
<1>6. c \in CallRecords
      BY <1>1, <1>3 DEF CallRecords
<1>7. c.op = coe.op /\ c.obj = coe.obj /\ c.val = coe.val /\ c.part = coe.part
      BY <1>1 DEF CallRecords
<1> HIDE DEF c
<1> QED
      BY <1>1, <1>4, <1>5, <1>6, <1>7, TakingAdvances DEF CoeCallStep

LEMMA DownloadResponseAdvances ==
    ASSUME CallTypes, LinkTypes, DownloadResponse \/ DownloadSegmentResponse
    PROVE  CoeCallStep
<1> DEFINE c == [coe EXCEPT !.seg = TRUE]
<1>1. coe \in CallRecords
      BY DEF CallTypes
<1>2. c \in CallRecords /\ c.op = coe.op /\ c.obj = coe.obj /\ c.val = coe.val /\ c.part = coe.part
      BY <1>1 DEF CallRecords
<1>3. \/ coe.part <= Size[coe.obj] /\ coe' = [c EXCEPT !.pc = "ready"] /\ Rests
      \/ GoesOn /\ NextSegment
      \/ Return(TRUE)
      BY DEF DownloadResponse, DownloadSegmentResponse, Continue, Rests
<1> HIDE DEF c
<1> QED
      BY <1>2, <1>3, TakingAdvances, ReturnAdvances, NextSegmentAdvances DEF CoeCallStep

LEMMA ListFragmentAdvances ==
    ASSUME CallTypes, LinkTypes, ListFragment
    PROVE  CoeCallStep
<1> DEFINE entries == IF Len(coe.got) < ListRoom THEN <<<<link.msg.val, link.msg.part>>>> ELSE <<>>
           got == coe.got \o entries
           c == [coe EXCEPT !.got = got]
<1>1. coe \in CallRecords /\ coe.op = "odlist" /\ coe.got \in Seq(Parts) /\ coe.pc = "receive"
      BY DEF CallTypes, ListFragment, CallRecords, Received
<1>2. <<link.msg.val, link.msg.part>> \in Parts
      BY CoeAnswerIsTyped DEF ListFragment
<1>3. got \in Seq(Parts)
  <2>1. entries \in Seq(Parts)
        BY <1>2
  <2> QED
        BY <1>1, <2>1
<1>4. \/ coe' = [c EXCEPT !.pc = "idle", !.ok = TRUE] /\ Rests
      \/ coe' = c /\ Hears
      BY DEF ListFragment, Rests, Hears
<1> HIDE DEF got
<1>5. c \in CallRecords /\ c.op = coe.op /\ c.obj = coe.obj /\ c.val = coe.val /\ c.part = coe.part /\ c.pc = "receive"
  <2>1. c \in CallRecords
        BY <1>1, <1>3 DEF CallRecords
  <2> QED
        BY <1>1, <2>1 DEF CallRecords
<1> HIDE DEF c
<1>6. coe' = c => Advances
      BY <1>5 DEF Advances
<1> QED
      BY <1>4, <1>5, <1>6, TakingAdvances DEF CoeCallStep

LEMMA DescriptionAdvances ==
    ASSUME CallTypes, LinkTypes, Description
    PROVE  CoeCallStep
<1>1. coe \in CallRecords /\ Rests
      BY DEF CallTypes, Description, Rests
<1>2. <<link.msg.obj>> \in Seq(Parts)
  <2>1. link.msg.obj \in Parts
        BY CoeAnswerIsTyped DEF Description, Parts
  <2> QED
        BY <2>1
<1>3. coe' = [coe EXCEPT !.pc = "idle", !.ok = TRUE, !.got = <<link.msg.obj>>]
      BY DEF Description
<1>4. coe' \in CallRecords
      BY <1>1, <1>2, <1>3 DEF CallRecords, CoePcs
<1>5. coe'.op = coe.op /\ coe'.obj = coe.obj /\ coe'.val = coe.val /\ coe'.part = coe.part /\ coe'.pc = "idle"
      BY <1>1, <1>3 DEF CallRecords
<1> QED
      BY <1>1, <1>4, <1>5 DEF CoeCallStep, Advances

LEMMA CoeStepAdvances ==
    ASSUME CallTypes, LinkTypes, MailTypes, JobTypes, CoeStep
    PROVE  CoeCallStep /\ coe.pc \in {"ready", "send", "receive"}
<1>1. coe.pc \in {"ready", "send", "receive"}
      BY DEF CoeStep, Request, Sent, NotReceived, Unexpected, UploadResponse, UploadSegment,
             TransferExpires, DownloadResponse, DownloadSegmentResponse, ListFragment, Description, Entry,
             TxPdoResponse, Received
<1>2. CASE Unexpected \/ Entry \/ TxPdoResponse \/ TransferExpires
  <2>1. \/ coe.op = "oe" /\ coe.pc = "receive" /\ (NextEntry(FALSE) \/ NextEntry(TRUE))
        \/ Return(TRUE) \/ Return(FALSE)
        BY <1>2 DEF Unexpected, Entry, TxPdoResponse, TransferExpires, Received
  <2> QED
        BY <1>1, <2>1, NextEntryAdvances, ReturnAdvances DEF CoeCallStep
<1> QED
      BY <1>1, <1>2, RequestAdvances, SentAdvances, UploadResponseAdvances, UploadSegmentAdvances,
         DownloadResponseAdvances, ListFragmentAdvances, DescriptionAdvances DEF CoeStep

LEMMA CoeStepTypes ==
    ASSUME Types, CoeStep, UNCHANGED Beside, UNCHANGED eth
    PROVE  Types'
<1>1. CoeCallStep /\ coe.pc \in {"ready", "send", "receive"}
      BY CoeStepAdvances DEF Types
<1>2. UNCHANGED <<sm0, sm1, last, replies, seen, repreq, repack, lost, notices, app, val, xfer, plan>>
      BY DEF CoeStep, Request, Sent, NotReceived, Unexpected, UploadResponse, UploadSegment,
             TransferExpires, DownloadResponse, DownloadSegmentResponse, ListFragment, Description, Entry,
             TxPdoResponse, Same, slavebox, slave
<1>3. mbxcnt' \in 0..MaxCnt /\ asked' \in Nat
  <2>1. UNCHANGED <<mbxcnt, asked>> \/ (mbxcnt' = NextMbxCnt(mbxcnt) /\ asked' = asked + 1)
        BY DEF CoeStep, Request, Sent, NotReceived, Unexpected, UploadResponse, UploadSegment,
               TransferExpires, DownloadResponse, DownloadSegmentResponse, ListFragment, Description, Entry,
               TxPdoResponse, Same
  <2>2. mbxcnt \in 0..MaxCnt /\ asked \in Nat /\ asked + 1 \in Nat
        BY DEF Types, MailTypes, CountTypes
  <2> QED
        BY <2>1, <2>2, Counted
<1>4. MailTypes'
      BY <1>2, <1>3 DEF Types, MailTypes, BoxTypes, CountTypes
<1>5. CallTypes' /\ JobTypes'
      BY <1>1, AdvancesTypes DEF Types, CoeCallStep, Beside
<1>6. LinkTypes'
      BY <1>1, LinkForms DEF Types, CoeCallStep
<1>7. AppTypes' /\ SlaveTypes' /\ ServerTypes' /\ EthTypes'
      BY <1>2 DEF Types, AppTypes, SlaveTypes, ServerTypes, EthTypes, Beside
<1> QED
      BY <1>4, <1>5, <1>6, <1>7 DEF Types

-----------------------------------------------------------------------------
(* How calls begin.                                                                *)

LEMMA PlannedIsTyped ==
    ASSUME AppTypes, plan # <<>>
    PROVE  Object \in Objects /\ Tail(plan) \in Seq(Steps)
<1>1. plan \in Seq(Steps)
      BY DEF AppTypes
<1>2. plan[1] \in Steps /\ Tail(plan) \in Seq(Steps)
      BY <1>1
<1>3. Object \in Objects
      BY <1>2 DEF Steps, Object
<1> QED
      BY <1>2, <1>3

LEMMA CallIsTyped ==
    ASSUME NEW op \in CoeOps \union TransferOps \union EthernetOps, NEW obj \in Somewhere, NEW v \in Held,
           NEW room \in Nat
    PROVE  /\ Call(op, obj, v, room) \in CallRecords
           /\ [Call(op, obj, v, room) EXCEPT !.pc = "transfer"] \in CallRecords
<1> DEFINE clear == Clear
<1>1. clear \in BOOLEAN
      BY BooleanClear
<1>2. Call(op, obj, v, room) =
         [op |-> op, pc |-> "ready", obj |-> obj, val |-> v, room |-> room, part |-> 1,
          seg |-> FALSE, toggle |-> FALSE, of |-> 0, got |-> <<>>, ok |-> FALSE, clear |-> clear]
      BY DEF Call
<1> HIDE DEF clear
<1>3. Call(op, obj, v, room) \in CallRecords
      BY <1>1, <1>2, EmptyIsTyped DEF CallRecords, CoePcs, Somewhere
<1>4. ASSUME NEW c \in CallRecords PROVE [c EXCEPT !.pc = "transfer"] \in CallRecords
      BY DEF CallRecords, CoePcs
<1> QED
      BY <1>3, <1>4

\* A call of EcCoe begins.
LEMMA BeginTypes ==
    ASSUME LinkTypes, JobTypes, coe.pc = "idle", NEW op \in CoeOps, NEW obj \in Objects, NEW v \in Held,
           NEW room \in Nat, op = "down" => v \in Values, Begin(op, obj, v, room), job' = job
    PROVE  CallTypes' /\ LinkTypes' /\ JobTypes'
<1>1. coe' = Call(op, obj, v, room) /\ Hears
      BY DEF Begin, Hears
<1>2. coe' \in CallRecords
      BY <1>1, CallIsTyped DEF Somewhere
<1>3. coe'.op = op /\ coe'.pc = "ready" /\ coe'.obj = obj /\ coe'.val = v /\ coe'.part = 1
      BY <1>1 DEF Call
<1>4. Size[obj] \in Nat \ {0} /\ 1 \in 1..(Size[obj] + 1) /\ 1 <= Size[obj]
      BY ConstantsOK
<1>5. CallTypes'
      BY <1>2, <1>3, <1>4 DEF CallTypes
<1>6. JobTypes'
      BY <1>3 DEF JobTypes
<1> QED
      BY <1>1, <1>5, <1>6, LinkForms

LEMMA NoAppTypes == NoApp \in AppRecords /\ NoApp.phase = "none"
BY DEF NoApp, AppRecords, Phases, Somewhere, Held

LEMMA LibraryCallTypes ==
    ASSUME Types, LibraryCall, UNCHANGED Beside, UNCHANGED eth
    PROVE  Types'
<1>1. Object \in Objects /\ Tail(plan) \in Seq(Steps) /\ coe.pc = "idle"
      BY PlannedIsTyped DEF Types, LibraryCall, Settled
<1>2. Size[Object] \in Nat /\ NoValue \in Held /\ Values \subseteq Held
      BY <1>1, ConstantsOK DEF Held
<1>3. PICK op \in CoeOps, v \in Held, room \in Nat : (op = "down" => v \in Values) /\ Begin(op, Object, v, room)
  <2>1. Operation \in CoeOps
        BY DEF LibraryCall, CoeOps
  <2>2. CASE Operation = "up"
        BY <1>2, <2>1, <2>2 DEF LibraryCall
  <2>3. CASE Operation = "down"
        BY <1>2, <2>1, <2>3 DEF LibraryCall
  <2>4. CASE Operation \notin {"up", "down"}
        BY <1>2, <2>1, <2>4 DEF LibraryCall
  <2> QED
        BY <2>2, <2>3, <2>4
<1>4. CallTypes' /\ LinkTypes' /\ JobTypes'
      BY <1>1, <1>3, BeginTypes DEF Types, Beside
<1>5. AppTypes'
      BY <1>1, NoAppTypes DEF LibraryCall, AppTypes
<1>6. MailTypes' /\ SlaveTypes' /\ ServerTypes' /\ EthTypes'
      BY SMTT(30) DEF LibraryCall, Outside, slavebox, slave, Beside, Types, MailTypes, BoxTypes, CountTypes, SlaveTypes,
             ServerTypes, EthTypes
<1> QED
      BY <1>4, <1>5, <1>6 DEF Types

\* The verified write.
LEMMA WriteStepTypes ==
    ASSUME Types, WriteStart \/ WriteCompared \/ WriteSent \/ WriteReadBack, UNCHANGED Beside, UNCHANGED eth
    PROVE  Types'
<1>1. MailTypes' /\ SlaveTypes' /\ ServerTypes' /\ EthTypes' /\ coe.pc = "idle"
  <2>1. coe.pc = "idle" /\ UNCHANGED Outside
        BY DEF WriteStart, WriteCompared, WriteSent, WriteReadBack, Settled
  <2>2. UNCHANGED <<sm0, sm1, replies, last, seen, repreq, repack, mbxcnt, lost, notices, val, xfer, executed, asked>>
        BY <2>1 DEF Outside, slavebox, slave
  <2>3. UNCHANGED <<held, server, capacity, eth>>
        BY DEF Beside
  <2>4. MailTypes'
        BY <2>2 DEF Types, MailTypes, BoxTypes, CountTypes
  <2>5. SlaveTypes'
        BY <2>2 DEF Types, SlaveTypes
  <2>6. ServerTypes' /\ EthTypes'
        BY <2>3 DEF Types, ServerTypes, EthTypes
  <2> QED
        BY <2>1, <2>4, <2>5, <2>6
<1>2. /\ app \in AppRecords
      /\ plan \in Seq(Steps) /\ Values \subseteq Held /\ NoValue \in Held /\ 0 \in Nat
      /\ "up" \in CoeOps /\ "down" \in CoeOps
      /\ (app.phase \in {"before", "write", "after"} => app.obj \in Objects /\ app.val \in Values)
      /\ \A o \in Objects : Size[o] \in Nat
      BY ConstantsOK DEF Types, AppTypes, Held, CoeOps, Operations
<1>3. CASE UNCHANGED <<coe, link>> /\ app' = NoApp /\ plan' = plan
  <2>1. AppTypes'
        BY <1>2, <1>3, NoAppTypes DEF AppTypes
  <2> QED
        BY <1>1, <1>3, <2>1 DEF Types, CallTypes, LinkTypes, JobTypes, Listening, Beside
<1>4. CASE /\ UNCHANGED <<coe, link, plan>>
           /\ \E phase \in {"verified", "unknown"} : app' = [app EXCEPT !.phase = phase]
  <2>1. AppTypes'
        BY <1>2, <1>4 DEF AppTypes, AppRecords, Phases
  <2> QED
        BY <1>1, <1>4, <2>1 DEF Types, CallTypes, LinkTypes, JobTypes, Listening, Beside
<1>5. CASE WriteStart
  <2>1. Object \in Objects /\ Tail(plan) \in Seq(Steps)
        BY <1>5, PlannedIsTyped DEF Types, WriteStart
  <2>2. CallTypes' /\ LinkTypes' /\ JobTypes'
        BY <1>1, <1>2, <1>5, <2>1, BeginTypes DEF WriteStart, Types, Beside
  <2>3. PICK v \in Values, e \in Values : app' = [NoApp EXCEPT !.phase = "before", !.obj = Object, !.val = v, !.expected = e]
        BY <1>5 DEF WriteStart
  <2>4. app' \in AppRecords /\ app'.obj = Object /\ app'.val = v
        BY <1>2, <2>1, <2>3, NoAppTypes DEF AppRecords, Phases, Somewhere
  <2>5. AppTypes'
        BY <1>5, <2>1, <2>3, <2>4 DEF AppTypes, WriteStart
  <2> QED
        BY <1>1, <2>2, <2>5 DEF Types
<1>6. CASE /\ app.phase = "before" /\ plan' = plan
           /\ Begin("down", app.obj, app.val, 0) /\ app' = [app EXCEPT !.phase = "write", !.calm = coe.clear]
  <2>1. CallTypes' /\ LinkTypes' /\ JobTypes'
        BY <1>1, <1>2, <1>6, BeginTypes DEF Types, Beside
  <2>2. coe.clear \in BOOLEAN
        BY DEF Types, CallTypes, CallRecords
  <2>3. AppTypes'
        BY <1>2, <1>6, <2>2 DEF AppTypes, AppRecords, Phases
  <2> QED
        BY <1>1, <2>1, <2>3 DEF Types
<1>7. CASE /\ app.phase = "write" /\ plan' = plan
           /\ Begin("up", app.obj, NoValue, Size[app.obj]) /\ app' = [app EXCEPT !.phase = "after"]
  <2>1. CallTypes' /\ LinkTypes' /\ JobTypes'
        BY <1>1, <1>2, <1>7, BeginTypes DEF Types, Beside
  <2>2. AppTypes'
        BY <1>2, <1>7 DEF AppTypes, AppRecords, Phases
  <2> QED
        BY <1>1, <2>1, <2>2 DEF Types
<1>8. WriteCompared => (UNCHANGED <<coe, link>> /\ app' = NoApp /\ plan' = plan)
                       \/ (/\ app.phase = "before" /\ plan' = plan
                           /\ Begin("down", app.obj, app.val, 0) /\ app' = [app EXCEPT !.phase = "write", !.calm = coe.clear])
      BY DEF WriteCompared
<1>9. WriteSent => (/\ UNCHANGED <<coe, link, plan>>
                    /\ \E phase \in {"verified", "unknown"} : app' = [app EXCEPT !.phase = phase])
                   \/ (/\ app.phase = "write" /\ plan' = plan
                       /\ Begin("up", app.obj, NoValue, Size[app.obj]) /\ app' = [app EXCEPT !.phase = "after"])
      BY DEF WriteSent
<1>10. WriteReadBack => /\ UNCHANGED <<coe, link, plan>>
                        /\ \E phase \in {"verified", "unknown"} : app' = [app EXCEPT !.phase = phase]
      BY DEF WriteReadBack
<1> QED
      BY <1>3, <1>4, <1>5, <1>6, <1>7, <1>8, <1>9, <1>10

-----------------------------------------------------------------------------
(* The types of the calls of EcTransfer and EcEthernet.                            *)

LEMMA UnitsAreParts == \A s \in Seq(Unit) : s \in Seq(Parts)
<1>1. Unit \subseteq Parts
      BY DEF Parts
<1> QED
      BY <1>1

JobStarts(pc) == [NoJob EXCEPT !.pc = pc, !.rest = Size[Object], !.alone = asked = 0]

LEMMA JobStartsTyped ==
    ASSUME Object \in Objects, NEW pc \in JobPcs
    PROVE  JobStarts(pc) \in JobRecords /\ JobStarts(pc).rest = Size[Object] /\ JobStarts(pc).pc = pc
<1> DEFINE alone == asked = 0
           size == Size[Object]
<1>1. alone \in BOOLEAN /\ size \in Nat
      BY ConstantsOK
<1> HIDE DEF alone, size
<1>2. NoJob \in JobRecords
      BY DEF NoJob, JobRecords, JobPcs
<1>3. [NoJob EXCEPT !.pc = pc, !.rest = size, !.alone = alone] \in JobRecords
      BY <1>1, <1>2 DEF JobRecords
<1>4. [NoJob EXCEPT !.pc = pc, !.rest = size, !.alone = alone].rest = size
      BY <1>2 DEF JobRecords
<1>5. [NoJob EXCEPT !.pc = pc, !.rest = size, !.alone = alone].pc = pc
      BY <1>2 DEF JobRecords
<1> QED
      BY <1>3, <1>4, <1>5 DEF JobStarts, alone, size

\* A call of EcTransfer or EcEthernet begins.
LEMMA StartTypes ==
    ASSUME LinkTypes, JobTypes, AppTypes, coe.pc = "idle", plan # <<>>,
           NEW op \in TransferOps \union EthernetOps, NEW v \in Held, NEW room \in Nat, NEW pc \in JobPcs,
           coe' = [Call(op, Object, v, room) EXCEPT !.pc = "transfer"], job' = JobStarts(pc),
           Hears \/ (Rests /\ pc # "receive"), plan' = Tail(plan), app' = NoApp
    PROVE  CallTypes' /\ LinkTypes' /\ JobTypes' /\ AppTypes'
<1>1. Object \in Objects /\ Tail(plan) \in Seq(Steps)
      BY PlannedIsTyped
<1>2. coe' \in CallRecords
      BY <1>1, CallIsTyped DEF Somewhere
<1>3. coe'.op = op /\ coe'.pc = "transfer" /\ coe'.obj = Object /\ coe'.part = 1 /\ coe'.got = <<>> /\ coe'.room = room
      BY DEF Call
<1>4. op \notin CoeOps /\ op # "down"
      BY DEF CoeOps, Operations, TransferOps, EthernetOps
<1>5. 1 \in 1..(Size[Object] + 1) /\ Size[Object] \in Nat
      BY <1>1, ConstantsOK
<1>6. CallTypes'
  <2>1. coe'.got \in Seq(Unit) /\ Len(coe'.got) <= room
    <3>1. Len(<<>>) = 0 /\ 0 <= room
          OBVIOUS
    <3> QED
          BY <1>3, <3>1, EmptyIsTyped
  <2> QED
        BY <1>1, <1>2, <1>3, <1>4, <1>5, <2>1 DEF CallTypes
<1>7. JobTypes'
      BY <1>1, <1>3, <1>5, JobStartsTyped DEF JobTypes
<1>8. LinkTypes'
      BY LinkForms
<1>9. AppTypes'
      BY <1>1, NoAppTypes DEF AppTypes
<1> QED
      BY <1>6, <1>7, <1>8, <1>9

LEMMA TransferCallTypes ==
    ASSUME Types, TransferCall, UNCHANGED eth
    PROVE  Types'
<1>1. coe.pc = "idle" /\ plan # <<>> /\ Object \in Objects /\ Operation \in TransferOps
      BY PlannedIsTyped DEF TransferCall, Settled, Types
<1>2. Size[Object] \in Nat /\ NoValue \in Held /\ Values \subseteq Held
      BY <1>1, ConstantsOK DEF Held
<1>3. PICK v \in Held, room \in Nat : coe' = [Call(Operation, Object, v, room) EXCEPT !.pc = "transfer"]
      BY <1>2 DEF TransferCall
<1>4. CallTypes' /\ LinkTypes' /\ JobTypes' /\ AppTypes'
  <2>1. Hears /\ job' = JobStarts("request")
        BY DEF TransferCall, Hears, JobStarts
  <2> QED
        BY <1>1, <1>3, <2>1, StartTypes DEF Types, TransferCall, JobPcs
<1>5. MailTypes' /\ SlaveTypes' /\ ServerTypes' /\ EthTypes'
  <2>1. UNCHANGED <<sm0, sm1, replies, last, seen, repreq, repack, mbxcnt, lost, notices, asked>>
        BY DEF TransferCall, slavebox
  <2>2. UNCHANGED <<val, xfer, executed, held, server, capacity, eth>>
        BY DEF TransferCall, slave
  <2>3. MailTypes'
        BY <2>1, <2>2 DEF Types, MailTypes, BoxTypes, CountTypes
  <2>4. SlaveTypes' /\ ServerTypes' /\ EthTypes'
        BY <2>2 DEF Types, SlaveTypes, ServerTypes, EthTypes
  <2> QED
        BY <2>3, <2>4
<1> QED
      BY <1>4, <1>5 DEF Types

LEMMA EthernetCallTypes ==
    ASSUME Types, EthernetCall
    PROVE  Types'
<1>1. coe.pc = "idle" /\ plan # <<>> /\ Object \in Objects /\ Operation \in EthernetOps
      BY PlannedIsTyped DEF EthernetCall, Settled, Types
<1>2. Size[Object] \in Nat /\ NoValue \in Held /\ Values \subseteq Held
      BY <1>1, ConstantsOK DEF Held
<1>3. PICK v \in Held, room \in Nat : coe' = [Call(Operation, Object, v, room) EXCEPT !.pc = "transfer"]
      BY <1>2 DEF EthernetCall
<1>4. PICK pc \in {"receive", "request"} :
         /\ pc = (IF Operation \in {"erecv", "eread"} THEN "receive" ELSE "request")
         /\ job' = JobStarts(pc)
         /\ link' = IF Operation = "esend" THEN [Awaiting(FALSE) EXCEPT !.op = Done]
                    ELSE Awaiting(pc = "receive")
      BY DEF EthernetCall, JobStarts
<1>5. Hears \/ (Rests /\ pc # "receive")
  <2>1. CASE Operation = "esend"
        BY <1>4, <2>1 DEF Rests
  <2>2. CASE Operation # "esend"
    <3>1. link' = Awaiting(TRUE) \/ link' = Awaiting(FALSE)
          BY <1>4, <2>2
    <3> QED
          BY <3>1 DEF Hears
  <2> QED
        BY <2>1, <2>2
<1>6. CallTypes' /\ LinkTypes' /\ JobTypes' /\ AppTypes'
  <2>1. pc \in JobPcs /\ plan' = Tail(plan) /\ app' = NoApp
        BY DEF JobPcs, EthernetCall
  <2> QED
        BY <1>1, <1>3, <1>4, <1>5, <2>1, StartTypes DEF Types
<1>7. MailTypes' /\ SlaveTypes' /\ ServerTypes' /\ EthTypes'
  <2>1. UNCHANGED <<sm0, sm1, replies, last, seen, repreq, repack, mbxcnt, lost, notices, asked>>
        BY DEF EthernetCall, slavebox
  <2>2. UNCHANGED <<val, xfer, executed, held, server, capacity, eth>>
        BY DEF EthernetCall, slave
  <2>3. MailTypes'
        BY <2>1, <2>2 DEF Types, MailTypes, BoxTypes, CountTypes
  <2>4. SlaveTypes' /\ ServerTypes' /\ EthTypes'
        BY <2>2 DEF Types, SlaveTypes, ServerTypes, EthTypes
  <2> QED
        BY <2>3, <2>4
<1> QED
      BY <1>6, <1>7 DEF Types

\* What a step of such a call may make of it.
Proceeds ==
    /\ coe' \in CallRecords
    /\ coe'.op = coe.op /\ coe'.obj = coe.obj /\ coe'.room = coe.room /\ coe'.part = coe.part
    /\ coe'.pc = "idle" \/ (coe'.pc = "transfer" /\ coe'.got \in Seq(Unit) /\ Len(coe'.got) <= coe.room)
    /\ job' \in JobRecords /\ (job'.pc # "done" => coe'.pc = "transfer" /\ job'.rest <= job.rest)
    /\ Hears \/ Rests \/ Writes \/ Keeps

LEMMA ProceedsTypes ==
    ASSUME CallTypes, JobTypes, LinkTypes, coe.pc = "transfer", job.pc # "done", Proceeds
    PROVE  CallTypes' /\ JobTypes' /\ LinkTypes'
<1>1. /\ coe.obj \in Objects /\ coe.op \in TransferOps \union EthernetOps
      /\ coe.part \in 0..(MaxSub + 1) \union UNION {1..(Size[o] + 1) : o \in Objects}
      BY DEF CallTypes
<1>2. coe.op \notin CoeOps /\ coe.op # "down"
      BY <1>1 DEF CoeOps, Operations, TransferOps, EthernetOps
<1>3. CallTypes'
      BY <1>1, <1>2 DEF Proceeds, CallTypes
<1>4. JobTypes'
  <2>1. job.rest \in Nat /\ job.rest <= Size[coe.obj] /\ Size[coe.obj] \in Nat
        BY <1>1, ConstantsOK DEF JobTypes, JobRecords
  <2>2. job'.rest \in Nat
        BY DEF Proceeds, JobRecords
  <2> QED
        BY <2>1, <2>2 DEF JobTypes, Proceeds
<1>5. LinkTypes'
      BY LinkForms DEF Proceeds
<1> QED
      BY <1>3, <1>4, <1>5

\* The call is over, it listens, or it places a message.
LEMMA EndsProceeds ==
    ASSUME CallTypes, JobTypes, NEW ok \in BOOLEAN, NEW got \in Seq(Unit), Ends(ok, got)
    PROVE  Proceeds
<1>1. coe' = [coe EXCEPT !.pc = "idle", !.ok = ok, !.got = got] /\ job' = [job EXCEPT !.pc = "done"] /\ Rests
      BY DEF Ends, Rests
<1>2. coe \in CallRecords /\ got \in Seq(Parts)
      BY UnitsAreParts DEF CallTypes
<1>3. coe' \in CallRecords
      BY <1>1, <1>2 DEF CallRecords, CoePcs
<1>4. coe'.op = coe.op /\ coe'.obj = coe.obj /\ coe'.room = coe.room /\ coe'.part = coe.part /\ coe'.pc = "idle"
      BY <1>1, <1>2 DEF CallRecords
<1>5. job' \in JobRecords /\ job'.pc = "done"
      BY <1>1 DEF JobTypes, JobRecords, JobPcs
<1> QED
      BY <1>1, <1>3, <1>4, <1>5 DEF Proceeds

LEMMA LeaveProceeds ==
    ASSUME CallTypes, JobTypes, coe.pc = "transfer", NEW ok \in BOOLEAN, Leave(ok)
    PROVE  Proceeds
<1>1. coe.got \in Seq(Unit)
      BY DEF CallTypes
<1> QED
      BY <1>1, EndsProceeds DEF Leave

LEMMA JobEdits ==
    ASSUME JobTypes, NEW pc \in JobPcs
    PROVE  /\ [job EXCEPT !.pc = pc] \in JobRecords
           /\ [job EXCEPT !.pc = pc].pc = pc /\ [job EXCEPT !.pc = pc].rest = job.rest
<1>1. [job EXCEPT !.pc = pc] \in JobRecords
      BY DEF JobTypes, JobRecords
<1> QED
      BY <1>1 DEF JobTypes, JobRecords

LEMMA CallGets ==
    ASSUME CallTypes, NEW got \in Seq(Unit)
    PROVE  /\ [coe EXCEPT !.got = got] \in CallRecords
           /\ [coe EXCEPT !.got = got].got = got
           /\ [coe EXCEPT !.got = got].op = coe.op /\ [coe EXCEPT !.got = got].obj = coe.obj
           /\ [coe EXCEPT !.got = got].room = coe.room /\ [coe EXCEPT !.got = got].part = coe.part
           /\ [coe EXCEPT !.got = got].pc = coe.pc
<1>1. coe \in CallRecords /\ got \in Seq(Parts)
      BY UnitsAreParts DEF CallTypes
<1>2. [coe EXCEPT !.got = got] \in CallRecords
      BY <1>1 DEF CallRecords
<1> QED
      BY <1>1, <1>2 DEF CallRecords

LEMMA RestNat == JobTypes => job.rest \in Nat /\ job.rest <= job.rest
BY DEF JobTypes, JobRecords

\* The call as it was, or with more of what it reads.
Gathers ==
    \/ coe' = coe
    \/ \E got \in Seq(Unit) : Len(got) <= coe.room /\ coe' = [coe EXCEPT !.got = got]

LEMMA GathersSays ==
    ASSUME CallTypes, coe.pc = "transfer", Gathers
    PROVE  /\ coe' \in CallRecords /\ coe'.op = coe.op /\ coe'.obj = coe.obj /\ coe'.room = coe.room
           /\ coe'.part = coe.part /\ coe'.pc = "transfer" /\ coe'.got \in Seq(Unit) /\ Len(coe'.got) <= coe.room
<1>1. CASE coe' = coe
      BY <1>1 DEF CallTypes
<1>2. CASE \E got \in Seq(Unit) : Len(got) <= coe.room /\ coe' = [coe EXCEPT !.got = got]
      BY <1>2, CallGets
<1> QED
      BY <1>1, <1>2 DEF Gathers

LEMMA ListenProceeds ==
    ASSUME CallTypes, JobTypes, coe.pc = "transfer", Gathers, NEW taken, Listen(taken)
    PROVE  Proceeds
<1>1. job' = [job EXCEPT !.pc = "receive"] /\ Hears
      BY DEF Listen, Hears
<1>2. job' \in JobRecords /\ job'.rest = job.rest
      BY <1>1, JobEdits DEF JobPcs
<1> QED
      BY <1>1, <1>2, GathersSays, RestNat DEF Proceeds

LEMMA PlaceProceeds ==
    ASSUME CallTypes, JobTypes, coe.pc = "transfer", Gathers, NEW m,
           [m EXCEPT !.cnt = NextMbxCnt(mbxcnt), !.id = asked + 1] \in ToSlave, Place(m),
           job' \in JobRecords, job'.rest <= job.rest, job'.pc # "receive"
    PROVE  Proceeds
<1>1. ~Listening'
      BY GathersSays DEF Listening
<1>2. Writes
      BY <1>1 DEF Place, Writes
<1> QED
      BY <1>2, GathersSays DEF Proceeds

\* The link stays as it is while the call does something else.
LEMMA KeepsProceeds ==
    ASSUME CallTypes, JobTypes, coe.pc = "transfer", coe' = coe, link' = link,
           job' \in JobRecords, job'.rest <= job.rest, job'.pc # "receive"
    PROVE  Proceeds
<1>1. Keeps
      BY DEF Keeps, Listening
<1> QED
      BY <1>1, GathersSays DEF Proceeds, Gathers

LEMMA AnsweredIsTyped ==
    ASSUME LinkTypes, Answered
    PROVE  /\ link.msg \in FromSlave
           /\ link.msg.type \in {"FoE", "SoE", "EoE"} =>
                 link.msg.data \in Seq(Unit) /\ link.msg.no \in Nat /\ link.msg.more \in BOOLEAN
           /\ link.msg.type = "EoE" => link.msg.frame \in Nat /\ link.msg.offset \in Nat
<1>1. link.msg \in FromSlave
      BY DEF LinkTypes, LinkRecords, Answered, At, Listening, Done
<1>2. link.msg.type \in {"FoE", "SoE"} => link.msg \in TransferAnswers
      BY <1>1, AnswerKinds
<1>3. link.msg.type = "EoE" => link.msg \in FragmentAnswers
      BY <1>1, AnswerKinds
<1> QED
      BY <1>1, <1>2, <1>3 DEF TransferAnswers, FragmentAnswers

\* The guard of a step: the call is one of these, and its job is not done.
LEMMA AtSays ==
    ASSUME NEW pc, At(pc), pc # "done"
    PROVE  coe.pc = "transfer" /\ job.pc = pc /\ job.pc # "done"
BY DEF At

LEMMA FoEProceeds ==
    ASSUME CallTypes, JobTypes, LinkTypes, MailTypes, ServerTypes,
           FoERequest \/ FoESent \/ FoEUnheard \/ FoEData \/ FoEAck \/ FoEWritten \/ FoEBusy \/ FoEBad
    PROVE  Proceeds /\ coe.pc = "transfer" /\ job.pc # "done"
<1>1. coe.pc = "transfer" /\ job.pc # "done"
      BY DEF FoERequest, FoESent, FoEUnheard, FoEData, FoEAck, FoEWritten, FoEBusy, FoEBad, Answered, At
<1>2. coe.obj \in Objects /\ coe.got \in Seq(Unit) /\ coe \in CallRecords /\ job \in JobRecords
      BY <1>1 DEF CallTypes, JobTypes
<1>3. /\ coe' = coe => Gathers
      /\ job.rest \in Nat /\ job.no \in Nat /\ job.rest <= job.rest
      BY <1>2 DEF Gathers, JobRecords
<1>4. CASE FoERequest
  <2>1. \E cmd \in {"read", "write"} : Place(Message("FoE", cmd, 0, <<>>))
        BY <1>4 DEF FoERequest
  <2>2. coe' = coe /\ job' = [job EXCEPT !.pc = "sent", !.more = TRUE]
        BY <1>4 DEF FoERequest
  <2>3. job' \in JobRecords /\ job'.rest = job.rest /\ job'.pc = "sent"
        BY <1>2, <2>2 DEF JobRecords, JobPcs
  <2>4. \A cmd \in {"read", "write"} :
           [Message("FoE", cmd, 0, <<>>) EXCEPT !.cnt = NextMbxCnt(mbxcnt), !.id = asked + 1] \in ToSlave
        BY <1>2, EmptyIsTyped, PlacedIsTyped
  <2> QED
        BY <1>1, <1>3, <2>1, <2>2, <2>3, <2>4, PlaceProceeds
<1>5. CASE FoESent \/ FoEUnheard \/ FoEWritten \/ FoEBad
  <2> DEFINE heard == link.wkc > 0
  <2>1. heard \in BOOLEAN
        OBVIOUS
  <2>2. Listen(coe) \/ Leave(heard) \/ Leave(FALSE) \/ Leave(TRUE)
        BY <1>5 DEF FoESent, FoEUnheard, FoEWritten, FoEBad
  <2> HIDE DEF heard
  <2>3. CASE Listen(coe)
        BY <1>1, <1>3, <2>3, ListenProceeds DEF Listen
  <2> QED
        BY <1>1, <2>1, <2>2, <2>3, LeaveProceeds
<1>6. CASE FoEData
  <2> DEFINE got == coe.got \o link.msg.data
             full == Len(link.msg.data) = capacity.write
             no == link.msg.no
  <2>1. link.msg.data \in Seq(Unit) /\ no \in Nat
        BY <1>6, AnsweredIsTyped DEF FoEData
  <2>2. got \in Seq(Unit) /\ Len(got) = Len(coe.got) + Len(link.msg.data)
        BY <1>2, <2>1
  <2>3. coe' = [coe EXCEPT !.got = got] /\ Len(got) <= coe.room
        BY <1>6, <2>2 DEF FoEData, NextPacket
  <2>4. Gathers
        BY <2>2, <2>3 DEF Gathers
  <2>5. job' = [job EXCEPT !.pc = "sent", !.no = no, !.more = full] /\ full \in BOOLEAN
        BY <1>6 DEF FoEData
  <2>6. Place(Message("FoE", "ack", no, <<>>))
        BY <1>6 DEF FoEData
  <2> HIDE DEF full, no
  <2>7. job' \in JobRecords /\ job'.rest = job.rest /\ job'.pc = "sent"
        BY <1>2, <2>1, <2>5 DEF JobRecords, JobPcs
  <2>8. [Message("FoE", "ack", no, <<>>) EXCEPT !.cnt = NextMbxCnt(mbxcnt), !.id = asked + 1] \in ToSlave
        BY <1>2, <2>1, EmptyIsTyped, PlacedIsTyped
  <2> QED
        BY <1>1, <1>3, <2>4, <2>6, <2>7, <2>8, PlaceProceeds
<1>7. CASE FoEAck
  <2> DEFINE size == Len(Portion)
             zero == EndsEmpty(size)
             no == job.no + 1
  <2>1. Portion \in Seq(Unit) /\ size \in Nat /\ size <= job.rest /\ no \in Nat
        BY <1>1, <1>3, PortionIsTyped
  <2>2. zero \in BOOLEAN
        BY DEF EndsEmpty
  <2>3. job' = [job EXCEPT !.pc = "sent", !.no = @ + 1, !.rest = @ - size, !.zero = zero] /\ coe' = coe
        BY <1>7 DEF FoEAck
  <2>4. Place(Message("FoE", "data", no, Portion))
        BY <1>7 DEF FoEAck
  <2> HIDE DEF size, zero, no
  <2>5. job.rest - size \in Nat /\ job.no + 1 \in Nat /\ job.rest - size <= job.rest
        BY <1>3, <2>1
  <2>6. job' \in JobRecords /\ job'.rest = job.rest - size /\ job'.pc = "sent"
        BY <1>2, <2>2, <2>3, <2>5 DEF JobRecords, JobPcs
  <2>7. [Message("FoE", "data", no, Portion) EXCEPT !.cnt = NextMbxCnt(mbxcnt), !.id = asked + 1] \in ToSlave
        BY <1>2, <2>1, PlacedIsTyped
  <2>8. job'.rest <= job.rest /\ job'.pc # "receive"
        BY <2>5, <2>6
  <2> QED
        BY <1>1, <1>3, <2>3, <2>4, <2>6, <2>7, <2>8, PlaceProceeds
<1>8. CASE FoEBusy
  <2>1. /\ coe' = [coe EXCEPT !.pc = "idle", !.ok = TRUE] /\ job' = [job EXCEPT !.pc = "done", !.busy = TRUE]
        /\ Rests
        BY <1>8 DEF FoEBusy, Rests
  <2>2. coe' \in CallRecords /\ job' \in JobRecords
        BY <1>2, <2>1 DEF CallRecords, CoePcs, JobRecords, JobPcs
  <2>3. /\ coe'.op = coe.op /\ coe'.obj = coe.obj /\ coe'.room = coe.room /\ coe'.part = coe.part
        /\ coe'.pc = "idle"
        BY <1>2, <2>1 DEF CallRecords
  <2>4. job'.pc = "done"
        BY <1>2, <2>1 DEF JobRecords
  <2>5. Rests
        BY <2>1
  <2>6. job'.pc # "done" => coe'.pc = "transfer" /\ job'.rest <= job.rest
        BY <2>4
  <2>7. coe'.pc = "idle" \/ (coe'.pc = "transfer" /\ coe'.got \in Seq(Unit) /\ Len(coe'.got) <= coe.room)
        BY <2>3
  <2>8. Proceeds
        BY <2>2, <2>3, <2>5, <2>6, <2>7, Zenon DEF Proceeds
  <2> QED
        BY <1>1, <2>8
<1> QED
      BY <1>1, <1>4, <1>5, <1>6, <1>7, <1>8

LEMMA SoEProceeds ==
    ASSUME CallTypes, JobTypes, LinkTypes, MailTypes, ServerTypes,
           SoEReadRequest \/ Asked \/ SoEReadResponse \/ SoEFragment \/ SoEFragmentSent
           \/ SoEEmptied \/ SoEStaysFull \/ SoEUnheard \/ SoEWriteResponse \/ SoEBad
    PROVE  Proceeds /\ coe.pc = "transfer" /\ job.pc # "done"
<1>1. coe.pc = "transfer" /\ job.pc # "done"
      BY DEF SoEReadRequest, Asked, SoEReadResponse, SoEFragment, SoEFragmentSent, SoEEmptied, SoEStaysFull,
             SoEUnheard, SoEWriteResponse, SoEBad, Answered, At
<1>2. coe.obj \in Objects /\ coe.got \in Seq(Unit) /\ coe \in CallRecords /\ job \in JobRecords
      BY <1>1 DEF CallTypes, JobTypes
<1>3. /\ coe' = coe => Gathers
      /\ job.rest \in Nat /\ job.no \in Nat /\ job.rest <= job.rest
      BY <1>2 DEF Gathers, JobRecords
<1>4. CASE SoEReadRequest
  <2>1. Place(Message("SoE", "sread", 0, <<>>)) /\ coe' = coe /\ job' = [job EXCEPT !.pc = "asked"]
        BY <1>4 DEF SoEReadRequest
  <2>2. job' \in JobRecords /\ job'.rest = job.rest /\ job'.pc = "asked"
        BY <2>1, JobEdits DEF JobPcs
  <2>3. [Message("SoE", "sread", 0, <<>>) EXCEPT !.cnt = NextMbxCnt(mbxcnt), !.id = asked + 1] \in ToSlave
        BY <1>2, EmptyIsTyped, PlacedIsTyped
  <2> QED
        BY <1>1, <1>3, <2>1, <2>2, <2>3, PlaceProceeds
<1>5. CASE Listen(coe) \/ Leave(FALSE) \/ Leave(TRUE)
  <2>1. CASE Listen(coe)
        BY <1>1, <1>3, <2>1, ListenProceeds DEF Listen
  <2> QED
        BY <1>1, <1>5, <2>1, LeaveProceeds
<1>6. CASE SoEReadResponse
  <2> DEFINE data == link.msg.data
             n == Least(Len(data), coe.room - Len(coe.got))
             piece == SubSeq(data, 1, n)
             got == coe.got \o piece
  <2>1. data \in Seq(Unit)
        BY <1>6, AnsweredIsTyped DEF SoEReadResponse
  <2>2. coe.room \in Nat /\ Len(coe.got) <= coe.room /\ Len(coe.got) \in Nat /\ Len(data) \in Nat
        BY <1>1, <1>2, <2>1 DEF CallTypes, CallRecords
  <2>3. n \in Nat /\ n <= Len(data) /\ n <= coe.room - Len(coe.got)
        BY <2>2 DEF Least
  <2> HIDE DEF n, data
  <2>4. piece \in Seq(Unit) /\ Len(piece) = n
        BY <2>1, <2>3
  <2> HIDE DEF piece
  <2>5. got \in Seq(Unit) /\ Len(got) = Len(coe.got) + Len(piece)
        BY <1>2, <2>4
  <2>6. Len(got) <= coe.room
        BY <2>2, <2>3, <2>4, <2>5
  <2>7. Listen([coe EXCEPT !.got = got]) \/ Ends(TRUE, got)
        BY <1>6 DEF SoEReadResponse, data, n, piece
  <2> HIDE DEF got
  <2>8. CASE Listen([coe EXCEPT !.got = got])
    <3>1. Gathers
          BY <2>5, <2>6, <2>8 DEF Listen, Gathers
    <3> QED
          BY <1>1, <2>8, <3>1, ListenProceeds
  <2>9. CASE Ends(TRUE, got)
        BY <1>1, <2>5, <2>9, EndsProceeds
  <2> QED
        BY <2>7, <2>8, <2>9
<1>7. CASE SoEFragment
  <2> DEFINE size == Len(Portion)
             more == job.rest > capacity.write
  <2>1. Portion \in Seq(Unit) /\ size \in Nat /\ size <= job.rest
        BY <1>1, <1>3, PortionIsTyped
  <2>2. more \in BOOLEAN
        OBVIOUS
  <2>3. job' = [job EXCEPT !.pc = "fragment", !.rest = @ - size, !.more = more] /\ coe' = coe
        BY <1>7 DEF SoEFragment
  <2>4. Place([Message("SoE", "swrite", 0, Portion) EXCEPT !.more = more])
        BY <1>7 DEF SoEFragment
  <2> HIDE DEF size, more
  <2>5. job.rest - size \in Nat /\ job.rest - size <= job.rest
        BY <1>3, <2>1
  <2>6. job' \in JobRecords /\ job'.rest = job.rest - size /\ job'.pc = "fragment"
        BY <1>2, <2>2, <2>3, <2>5 DEF JobRecords, JobPcs
  <2>7. [[Message("SoE", "swrite", 0, Portion) EXCEPT !.more = more]
           EXCEPT !.cnt = NextMbxCnt(mbxcnt), !.id = asked + 1] \in ToSlave
        BY <1>2, <2>1, <2>2, PlacedIsTyped
  <2>8. job'.rest <= job.rest /\ job'.pc # "receive"
        BY <2>5, <2>6
  <2> QED
        BY <1>1, <1>3, <2>3, <2>4, <2>6, <2>7, <2>8, PlaceProceeds
<1>8. CASE /\ UNCHANGED <<coe, link>>
           /\ \/ \E pc \in {"emptying", "request"} : job' = [job EXCEPT !.pc = pc]
              \/ job' = [job EXCEPT !.pc = "request", !.skipped = TRUE]
  <2>1. job' \in JobRecords /\ job'.rest = job.rest /\ job'.pc # "receive"
    <3>1. CASE \E pc \in {"emptying", "request"} : job' = [job EXCEPT !.pc = pc]
          BY <3>1, JobEdits DEF JobPcs
    <3>2. CASE job' = [job EXCEPT !.pc = "request", !.skipped = TRUE]
          BY <1>2, <3>2 DEF JobRecords, JobPcs
    <3> QED
          BY <1>8, <3>1, <3>2
  <2> QED
        BY <1>1, <1>3, <1>8, <2>1, KeepsProceeds
<1>9. CASE Asked \/ SoEStaysFull \/ SoEWriteResponse \/ SoEBad
      BY <1>5, <1>9 DEF Asked, SoEStaysFull, SoEWriteResponse, SoEBad
<1>10. CASE SoEFragmentSent
      BY <1>5, <1>8, <1>10 DEF SoEFragmentSent
<1>11. CASE SoEEmptied \/ SoEUnheard
      BY <1>5, <1>8, <1>11 DEF SoEEmptied, SoEUnheard
<1> QED
      BY <1>4, <1>6, <1>7, <1>9, <1>10, <1>11

LEMMA WithinIsTyped ==
    ASSUME NEW at \in Frames, NEW m \in FragmentAnswers, NEW room \in Nat
    PROVE  LET r == Within(at, m, room) IN r.rx \in Frames /\ r.data \in Seq(Unit)
<1> DEFINE length == Len(at.data) + Len(m.data)
           longer == [at EXCEPT !.data = @ \o m.data, !.no = @ + 1]
           next == IF length <= at.size /\ length <= room THEN longer ELSE at
<1>1. at.data \in Seq(Unit) /\ m.data \in Seq(Unit) /\ at.no + 1 \in Nat
      BY DEF Frames, FragmentAnswers
<1>2. at.data \o m.data \in Seq(Unit)
      BY <1>1
<1>3. longer \in Frames
      BY <1>1, <1>2 DEF Frames
<1> HIDE DEF longer, length
<1>4. next \in Frames /\ next.data \in Seq(Unit)
      BY <1>3 DEF Frames
<1> USE DEF longer, length
<1>5. Within(at, m, room) = IF m.more THEN [rx |-> next, wkc |-> 0, data |-> <<>>]
                            ELSE [rx |-> NoFrame, wkc |-> 1, data |-> next.data]
      BY DEF Within
<1> HIDE DEF next
<1>6. NoFrame \in Frames
      BY EmptyIsTyped DEF NoFrame, Frames
<1> QED
      BY <1>4, <1>5, <1>6, EmptyIsTyped

LEMMA NoFrameIsTyped == NoFrame \in Frames
BY EmptyIsTyped DEF NoFrame, Frames

LEMMA RefusedIsTyped ==
    ASSUME NEW rx \in Frames
    PROVE  Refused(rx).rx \in Frames /\ Refused(rx).data \in Seq(Unit)
BY EmptyIsTyped DEF Refused

LEMMA ReadFragmentIsTyped ==
    ASSUME NEW rx \in Frames, NEW m \in FromSlave, NEW room \in Nat
    PROVE  LET r == ReadFragment(rx, m, room) IN r.rx \in Frames /\ r.data \in Seq(Unit)
<1>1. m.type = "EoE" => m \in FragmentAnswers /\ m.no \in Nat /\ m.offset \in Nat /\ m.frame \in Nat
      BY AnswerKinds DEF FragmentAnswers
<1> DEFINE first == [NoFrame EXCEPT !.size = m.offset, !.frame = m.frame]
<1>2. m.type = "EoE" => first \in Frames
      BY <1>1, NoFrameIsTyped DEF Frames
<1> HIDE DEF first
<1>3. CASE m.type # "EoE"
  <2>1. ReadFragment(rx, m, room) = Refused(rx)
        BY <1>3 DEF ReadFragment
  <2> QED
        BY <2>1, RefusedIsTyped
<1>4. CASE m.type = "EoE" /\ m.no > 0 /\ m.no # rx.no
  <2>1. ReadFragment(rx, m, room) \in {Refused(rx), Refused(NoFrame)}
        BY <1>4 DEF ReadFragment
  <2> QED
        BY <2>1, RefusedIsTyped, NoFrameIsTyped
<1>5. CASE m.type = "EoE" /\ m.no > 0 /\ m.no = rx.no
  <2>1. ReadFragment(rx, m, room) \in {Within(rx, m, room), Refused(NoFrame)}
        BY <1>5 DEF ReadFragment
  <2> QED
        BY <1>1, <1>5, <2>1, RefusedIsTyped, NoFrameIsTyped, WithinIsTyped
<1>6. CASE m.type = "EoE" /\ m.no = 0
  <2>1. ReadFragment(rx, m, room) = Within(first, m, room)
        BY <1>6 DEF ReadFragment, first
  <2> QED
        BY <1>1, <1>2, <1>6, <2>1, WithinIsTyped
<1> QED
      BY <1>1, <1>3, <1>4, <1>5, <1>6

LEMMA SendFragmentProceeds ==
    ASSUME CallTypes, JobTypes, LinkTypes, MailTypes, ServerTypes, EthTypes, SendFragment
    PROVE  Proceeds /\ EthTypes'
<1>1. coe.pc = "transfer" /\ job.pc # "done"
      BY DEF SendFragment, At
<1>2. /\ coe.obj \in Objects /\ coe \in CallRecords /\ job \in JobRecords /\ (coe' = coe => Gathers)
      /\ job.rest \in Nat /\ job.no \in Nat /\ job.rest <= job.rest /\ eth.tx \in Nat /\ Size[coe.obj] \in Nat
      BY <1>1, ConstantsOK DEF CallTypes, JobTypes, JobRecords, Gathers, EthTypes
<1> DEFINE size == Len(Portion)
           sent == Size[coe.obj] - job.rest
           frame == IF job.no = 0 THEN eth.tx + 1 ELSE eth.tx
           more == job.rest > size
           offset == IF job.no = 0 THEN Size[coe.obj] ELSE sent
           no == job.no
<1>3. Portion \in Seq(Unit) /\ size \in Nat /\ size <= job.rest /\ sent \in Nat
      BY <1>1, PortionIsTyped
<1>4. frame \in Nat /\ more \in BOOLEAN /\ offset \in Nat /\ no \in Nat
      BY <1>2, <1>3
<1>5. /\ job' = [job EXCEPT !.pc = "sent", !.more = more, !.no = @ + 1, !.rest = @ - size] /\ coe' = coe
      /\ eth' = [eth EXCEPT !.tx = frame]
      /\ Place(Fragment(no, frame, offset, Portion, more))
      BY DEF SendFragment
<1> HIDE DEF size, sent, frame, more, offset, no
<1>6. job.rest - size \in Nat /\ job.rest - size <= job.rest /\ job.no + 1 \in Nat
      BY <1>2, <1>3
<1>7. job' \in JobRecords /\ job'.rest = job.rest - size /\ job'.pc = "sent"
      BY <1>2, <1>4, <1>5, <1>6 DEF JobRecords, JobPcs
<1>8. [Fragment(no, frame, offset, Portion, more) EXCEPT !.cnt = NextMbxCnt(mbxcnt), !.id = asked + 1] \in ToSlave
  <2>1. Fragment(no, frame, offset, Portion, more) \in FragmentRequests
        BY <1>3, <1>4, FragmentIsTyped
  <2>2. NextMbxCnt(mbxcnt) \in 0..MaxCnt /\ asked + 1 \in Nat
        BY Counted DEF MailTypes, CountTypes
  <2> QED
        BY <2>1, <2>2, Numbered DEF ToSlave
<1>9. EthTypes'
      BY <1>4, <1>5 DEF EthTypes
<1>10. job'.rest <= job.rest /\ job'.pc # "receive"
      BY <1>6, <1>7
<1> QED
      BY <1>1, <1>2, <1>5, <1>7, <1>8, <1>9, <1>10, PlaceProceeds

LEMMA ReceiveFragmentProceeds ==
    ASSUME CallTypes, JobTypes, LinkTypes, EthTypes, ReceiveFragment
    PROVE  Proceeds /\ EthTypes' /\ coe.pc = "transfer" /\ job.pc # "done"
<1>1. coe.pc = "transfer" /\ job.pc # "done"
      BY DEF ReceiveFragment, Answered, At
<1>2. CASE Leave(FALSE) /\ UNCHANGED eth
      BY <1>1, <1>2, LeaveProceeds DEF EthTypes
<1>3. CASE link.msg.type = "EoE"
  <2> DEFINE data == link.msg.data
             copied == Len(coe.got) + Len(data) <= coe.room
             joined == coe.got \o data
             got == IF copied THEN joined ELSE coe.got
             frame == link.msg.frame
             count == job.no + 1
             no == IF copied THEN count ELSE job.no
  <2>1. data \in Seq(Unit) /\ frame \in Nat
        BY <1>3, AnsweredIsTyped DEF ReceiveFragment
  <2>2. /\ coe.got \in Seq(Unit) /\ Len(coe.got) <= coe.room /\ job \in JobRecords /\ job.no \in Nat
        /\ job.rest <= job.rest /\ coe.room \in Nat
        BY <1>1 DEF CallTypes, CallRecords, JobTypes, JobRecords
  <2> HIDE DEF data
  <2>3. joined \in Seq(Unit) /\ Len(joined) = Len(coe.got) + Len(data)
        BY <2>1, <2>2
  <2>4. got \in Seq(Unit) /\ Len(got) <= coe.room
        BY <2>2, <2>3
  <2>5. no \in Nat
        BY <2>2
  <2>6. CASE Leave(FALSE) /\ UNCHANGED eth
        BY <1>2, <2>6
  <2>7. CASE /\ eth' = [eth EXCEPT !.frame = IF job.no = 0 THEN frame ELSE @]
             /\ \/ /\ Hears /\ coe' = [coe EXCEPT !.got = got]
                   /\ job' = [job EXCEPT !.no = IF copied THEN @ + 1 ELSE @]
                \/ Ends(TRUE, got)
    <3> HIDE DEF joined, frame
    <3>1. EthTypes'
          BY <2>1, <2>7 DEF EthTypes
    <3>2. CASE Ends(TRUE, got)
      <4> HIDE DEF got
      <4> QED
          BY <1>1, <2>4, <3>1, <3>2, EndsProceeds
    <3>3. CASE Hears /\ coe' = [coe EXCEPT !.got = got] /\ job' = [job EXCEPT !.no = IF copied THEN @ + 1 ELSE @]
      <4>1. job' = [job EXCEPT !.no = no]
            BY <3>3
      <4> HIDE DEF got, no, copied
      <4>2. job' \in JobRecords /\ job'.rest = job.rest
            BY <2>2, <2>5, <4>1 DEF JobRecords
      <4>3. Gathers
            BY <2>4, <3>3 DEF Gathers
      <4>4. Hears
            BY <3>3
      <4> QED
            BY <1>1, <2>2, <3>1, <4>2, <4>3, <4>4, GathersSays DEF Proceeds
    <3> QED
          BY <2>7, <3>2, <3>3
  <2> USE DEF data
  <2>8. \/ Leave(FALSE) /\ UNCHANGED eth
        \/ /\ eth' = [eth EXCEPT !.frame = IF job.no = 0 THEN frame ELSE @]
           /\ \/ /\ Hears /\ coe' = [coe EXCEPT !.got = got]
                 /\ job' = [job EXCEPT !.no = IF copied THEN @ + 1 ELSE @]
              \/ Ends(TRUE, got)
    <3>1. CASE ~(link.msg.type = "EoE" /\ Fits(link.msg))
          BY <3>1 DEF ReceiveFragment
    <3>2. CASE /\ link.msg.type = "EoE" /\ Fits(link.msg)
               /\ link.msg.more
          BY <3>2 DEF ReceiveFragment, Hears
    <3>3. CASE /\ link.msg.type = "EoE" /\ Fits(link.msg)
               /\ ~link.msg.more
          BY <3>3 DEF ReceiveFragment
    <3> QED
          BY <3>1, <3>2, <3>3
  <2> QED
        BY <2>6, <2>7, <2>8
<1>4. link.msg.type = "EoE" \/ (Leave(FALSE) /\ UNCHANGED eth)
      BY DEF ReceiveFragment
<1> QED
      BY <1>1, <1>2, <1>3, <1>4

LEMMA EthernetProceeds ==
    ASSUME CallTypes, JobTypes, LinkTypes, MailTypes, EthTypes,
           IpRequest \/ IpResponse \/ EthernetUnheard \/ FragmentSent \/ TakeFragment
    PROVE  Proceeds /\ EthTypes' /\ coe.pc = "transfer" /\ job.pc # "done"
<1>1. coe.pc = "transfer" /\ job.pc # "done"
      BY DEF IpRequest, IpResponse, EthernetUnheard, FragmentSent, TakeFragment, Answered, At
<1>2. /\ coe.obj \in Objects /\ coe \in CallRecords /\ job \in JobRecords /\ (coe' = coe => Gathers)
      /\ job.rest \in Nat /\ job.rest <= job.rest /\ Size[coe.obj] \in Nat /\ coe.val \in Nat /\ coe.room \in Nat
  <2>1. coe \in CallRecords /\ coe.obj \in Objects /\ coe.val \in Held
        BY <1>1 DEF CallTypes, CallRecords
  <2>2. coe.room \in Nat
        BY <2>1 DEF CallRecords
  <2>3. job \in JobRecords /\ job.rest \in Nat /\ job.rest <= job.rest
        BY DEF JobTypes, JobRecords
  <2> QED
        BY <2>1, <2>2, <2>3, ConstantsOK DEF Gathers
<1>3. CASE IpRequest
  <2> DEFINE data == IF coe.op = "eset" THEN Units(coe.val, Size[coe.obj]) ELSE <<>>
  <2>1. data \in Seq(Unit)
        BY <1>2, EmptyIsTyped, UnitsAreTyped
  <2>2. /\ coe.op \in {"eset", "eget"} /\ Place(Message("EoE", coe.op, 0, data))
        /\ job' = [job EXCEPT !.pc = "asked"] /\ UNCHANGED <<coe, eth>>
        BY <1>3 DEF IpRequest
  <2> HIDE DEF data
  <2>3. [Message("EoE", coe.op, 0, data) EXCEPT !.cnt = NextMbxCnt(mbxcnt), !.id = asked + 1] \in ToSlave
        BY <1>2, <2>1, <2>2, PlacedIsTyped
  <2>4. job' \in JobRecords /\ job'.rest = job.rest /\ job'.pc = "asked"
        BY <2>2, JobEdits DEF JobPcs
  <2> QED
        BY <1>1, <1>2, <2>2, <2>3, <2>4, PlaceProceeds DEF EthTypes
<1>4. CASE IpResponse
  <2>1. link.msg.type = "EoE" => link.msg.data \in Seq(Unit)
        BY <1>4, AnsweredIsTyped DEF IpResponse
  <2>2. (link.msg.type = "EoE" /\ Ends(TRUE, link.msg.data)) \/ Leave(FALSE)
        BY <1>4 DEF IpResponse
  <2>3. EthTypes'
        BY <1>4 DEF IpResponse, EthTypes
  <2> QED
        BY <1>1, <2>1, <2>2, <2>3, EndsProceeds, LeaveProceeds
<1>5. CASE EthernetUnheard \/ FragmentSent
  <2> DEFINE heard == link.wkc > 0
  <2>1. heard \in BOOLEAN
        OBVIOUS
  <2>2. \/ job' = [job EXCEPT !.pc = "request"] /\ UNCHANGED <<coe, link>>
        \/ Leave(FALSE) \/ Leave(heard)
        BY <1>5 DEF EthernetUnheard, FragmentSent
  <2> HIDE DEF heard
  <2>3. EthTypes'
        BY <1>5 DEF EthernetUnheard, FragmentSent, EthTypes
  <2>4. CASE job' = [job EXCEPT !.pc = "request"] /\ UNCHANGED <<coe, link>>
    <3>1. job' \in JobRecords /\ job'.rest = job.rest /\ job'.pc = "request"
          BY <2>4, JobEdits DEF JobPcs
    <3>2. job'.rest <= job.rest /\ job'.pc # "receive"
          BY <3>1, RestNat
    <3>3. coe' = coe /\ link' = link
          BY <2>4
    <3>4. Proceeds
          BY <1>1, <3>1, <3>2, <3>3, KeepsProceeds
    <3> QED
          BY <1>1, <2>3, <3>4
  <2>5. CASE Leave(FALSE) \/ Leave(heard)
        BY <1>1, <2>1, <2>3, <2>5, LeaveProceeds
  <2> QED
        BY <2>2, <2>4, <2>5
<1>6. CASE TakeFragment
  <2> DEFINE r == ReadFragment(eth.rx, link.msg, coe.room)
  <2>1. link.msg \in FromSlave
        BY <1>6, AnsweredIsTyped DEF TakeFragment
  <2>2. eth.rx \in Frames
        BY DEF EthTypes
  <2>3. r.rx \in Frames /\ r.data \in Seq(Unit)
        BY <1>2, <2>1, <2>2, ReadFragmentIsTyped
  <2>4. eth' = [eth EXCEPT !.rx = r.rx] /\ (Ends(TRUE, r.data) \/ (link' = Awaiting(TRUE) /\ UNCHANGED <<coe, job>>))
        BY <1>6 DEF TakeFragment
  <2> HIDE DEF r
  <2>5. EthTypes'
        BY <2>3, <2>4 DEF EthTypes
  <2>6. CASE Ends(TRUE, r.data)
        BY <1>1, <2>3, <2>5, <2>6, EndsProceeds
  <2>7. CASE link' = Awaiting(TRUE) /\ UNCHANGED <<coe, job>>
    <3>1. Hears
          BY <2>7 DEF Hears
    <3> QED
          BY <1>1, <1>2, <2>5, <2>7, <3>1, GathersSays DEF Proceeds
  <2> QED
        BY <2>4, <2>6, <2>7
<1> QED
      BY <1>3, <1>4, <1>5, <1>6

-----------------------------------------------------------------------------
(* The types are an invariant.                                                     *)

LEMMA ProceedingTypes ==
    ASSUME Types, Proceeds, EthTypes', coe.pc = "transfer", job.pc # "done",
           UNCHANGED <<slavebox, notices, app, slave, plan, held, server, capacity>>,
           UNCHANGED <<mbxcnt, asked>> \/ (mbxcnt' = NextMbxCnt(mbxcnt) /\ asked' = asked + 1),
           lost' = lost \/ lost' = lost + 1
    PROVE  Types'
<1>1. CallTypes' /\ JobTypes' /\ LinkTypes'
      BY ProceedsTypes DEF Types
<1>2. mbxcnt' \in 0..MaxCnt /\ asked' \in Nat /\ lost' \in Nat
  <2>1. mbxcnt \in 0..MaxCnt /\ asked \in Nat /\ asked + 1 \in Nat /\ lost \in Nat /\ lost + 1 \in Nat
        BY DEF Types, MailTypes, CountTypes
  <2> QED
        BY <2>1, Counted
<1>3. MailTypes'
      BY <1>2 DEF Types, MailTypes, BoxTypes, CountTypes, slavebox
<1>4. AppTypes' /\ SlaveTypes' /\ ServerTypes'
      BY DEF Types, AppTypes, SlaveTypes, ServerTypes, slave
<1> QED
      BY <1>1, <1>3, <1>4 DEF Types

LEMMA TransferStepTypes ==
    ASSUME Types, TransferStep, UNCHANGED eth
    PROVE  Types'
<1>1. CASE TransferCall
      BY <1>1, TransferCallTypes
<1>2. CASE ~TransferCall
  <2>1. Proceeds /\ coe.pc = "transfer" /\ job.pc # "done"
        BY <1>2, FoEProceeds, SoEProceeds DEF TransferStep, Types
  <2>2. UNCHANGED <<slavebox, notices, app, slave, plan, held, server, capacity>>
        BY <1>2 DEF TransferStep, FoERequest, FoESent, FoEUnheard, FoEData, FoEAck, FoEWritten, FoEBusy, FoEBad,
           SoEReadRequest, Asked, SoEReadResponse, SoEFragment, SoEFragmentSent, SoEEmptied, SoEStaysFull,
           SoEUnheard, SoEWriteResponse, SoEBad, Quiet, Same2
  <2>3. UNCHANGED <<mbxcnt, asked>> \/ (mbxcnt' = NextMbxCnt(mbxcnt) /\ asked' = asked + 1)
        BY <1>2 DEF TransferStep, FoERequest, FoESent, FoEUnheard, FoEData, FoEAck, FoEWritten, FoEBusy, FoEBad,
           SoEReadRequest, Asked, SoEReadResponse, SoEFragment, SoEFragmentSent, SoEEmptied, SoEStaysFull,
           SoEUnheard, SoEWriteResponse, SoEBad, Quiet, Place
  <2>4. lost' = lost \/ lost' = lost + 1
        BY <1>2 DEF TransferStep, FoERequest, FoESent, FoEUnheard, FoEData, FoEAck, FoEWritten, FoEBusy, FoEBad,
           SoEReadRequest, Asked, SoEReadResponse, SoEFragment, SoEFragmentSent, SoEEmptied, SoEStaysFull,
           SoEUnheard, SoEWriteResponse, SoEBad, Quiet, Same2, MayLose
  <2>5. EthTypes'
        BY DEF Types, EthTypes
  <2> QED
        BY <2>1, <2>2, <2>3, <2>4, <2>5, ProceedingTypes
<1> QED
      BY <1>1, <1>2

LEMMA EthernetStepTypes ==
    ASSUME Types, IpRequest \/ IpResponse \/ EthernetUnheard \/ SendFragment \/ FragmentSent
                  \/ ReceiveFragment \/ TakeFragment
    PROVE  Types'
<1>1. Proceeds /\ EthTypes' /\ coe.pc = "transfer" /\ job.pc # "done"
  <2>1. CASE SendFragment
        BY <2>1, SendFragmentProceeds DEF Types, SendFragment, At
  <2> QED
        BY <2>1, EthernetProceeds, ReceiveFragmentProceeds DEF Types
<1>2. UNCHANGED <<slavebox, lost, notices, app, slave, plan, held, server, capacity>>
      BY DEF IpRequest, IpResponse, EthernetUnheard, SendFragment, FragmentSent, ReceiveFragment, TakeFragment,
             Quiet, Same2
<1>3. UNCHANGED <<mbxcnt, asked>> \/ (mbxcnt' = NextMbxCnt(mbxcnt) /\ asked' = asked + 1)
      BY DEF IpRequest, IpResponse, EthernetUnheard, SendFragment, FragmentSent, ReceiveFragment, TakeFragment,
             Quiet, Place
<1> QED
      BY <1>1, <1>2, <1>3, ProceedingTypes

LEMMA Resting ==
    LET l == [Awaiting(FALSE) EXCEPT !.op = Done]
    IN  l \in LinkRecords /\ l.op = "done" /\ l.wkc = 0
<1>1. Awaiting(FALSE) \in LinkRecords /\ Awaiting(FALSE).wkc = 0
      BY DEF Awaiting, LinkRecords, LinkOps
<1>2. \A k \in LinkRecords : LET l == [k EXCEPT !.op = "done"]
         IN  l \in LinkRecords /\ l.op = "done" /\ l.wkc = k.wkc
      BY DEF LinkRecords, LinkOps
<1> QED
      BY <1>1, <1>2 DEF Done

LEMMA RestingLinkTypes ==
    ASSUME link \in LinkRecords, link.op = "done", link.wkc = 0
    PROVE  LinkTypes
BY DEF LinkTypes, Writing

LEMMA TypesInit == EthernetInit => Types
<1> SUFFICES ASSUME EthernetInit PROVE Types
    OBVIOUS
<1> USE DEF EthernetInit, TransferInit, Init, MailboxInit
<1>1. coe = [Call("up", Nothing, NoValue, 0) EXCEPT !.pc = "idle"]
      OBVIOUS
<1>2. LinkTypes
  <2>1. link = [Awaiting(FALSE) EXCEPT !.op = Done]
        OBVIOUS
  <2>2. link \in LinkRecords /\ link.op = "done" /\ link.wkc = 0
        BY <2>1, Resting, Zenon
  <2> QED
        BY <2>2, RestingLinkTypes, Zenon
<1>3. MailTypes
  <2>1. BoxTypes
        BY EmptyIsTyped DEF BoxTypes
  <2>2. 0 \in 0..MaxCnt
        BY ConstantsOK
  <2>3. CountTypes
        BY <2>2 DEF CountTypes
  <2> QED
        BY <2>1, <2>3 DEF MailTypes
<1>4. CallTypes
  <2>1. NoValue \in Held /\ 0 \in Nat /\ "up" \in CoeOps /\ Nothing \in Somewhere
        BY DEF Held, CoeOps, Operations, Somewhere
  <2>2. Call("up", Nothing, NoValue, 0) \in CallRecords
        BY <2>1, CallIsTyped
  <2>3. \A c \in CallRecords : LET d == [c EXCEPT !.pc = "idle"]
           IN  d \in CallRecords /\ d.pc = "idle" /\ d.op = c.op /\ d.part = c.part
        BY DEF CallRecords, CoePcs
  <2>4. Call("up", Nothing, NoValue, 0).op = "up" /\ Call("up", Nothing, NoValue, 0).part = 1
        BY DEF Call
  <2>5. coe \in CallRecords
        BY <1>1, <2>2, <2>3
  <2>6. coe.op = "up" /\ coe.pc = "idle" /\ coe.part = 1
        BY <1>1, <2>2, <2>3, <2>4
  <2>7. 1 \in 0..(MaxSub + 1)
        BY ConstantsOK
  <2> QED
        BY <2>5, <2>6, <2>7 DEF CallTypes
<1>5. AppTypes
      BY NoAppTypes, ConstantsOK DEF AppTypes
<1>6. SlaveTypes
  <2>1. val \in [Objects -> Values]
    <3>1. ASSUME Values # {}, NEW o \in Objects PROVE (CHOOSE v \in Values : TRUE) \in Values
          BY <3>1
    <3> QED
          BY <3>1
  <2> QED
        BY <2>1 DEF SlaveTypes, NoTransfer, Somewhere, Held
<1>7. ServerTypes
  <2>1. \A o \in Objects : Units(NoValue, Size[o]) \in Seq(Unit)
        BY ConstantsOK, UnitsAreTyped DEF NoValue
  <2>2. held \in [Objects -> Seq(Unit)]
        BY <2>1
  <2>3. /\ capacity.write \in Nat \ {0} /\ capacity.read \in Nat \ {0}
        /\ capacity \in Mailboxes \union {SmallMailbox}
        BY TransferAssumption DEF SmallMailbox
  <2> QED
        BY <2>2, <2>3, NoServerIsTyped DEF ServerTypes
<1>8. JobTypes
      BY DEF NoJob, JobTypes, JobRecords, JobPcs
<1>9. EthTypes
  <2>1. MaxFrames \in Nat
        BY EthernetAssumption
  <2> QED
        BY <2>1, NoFrameIsTyped, EmptyIsTyped DEF EthTypes
<1> QED
      BY <1>2, <1>3, <1>4, <1>5, <1>6, <1>7, <1>8, <1>9 DEF Types

LEMMA TypesStep == Types /\ [EthernetNext]_evars => Types'
<1> SUFFICES ASSUME Types, [EthernetNext]_evars PROVE Types'
    OBVIOUS
<1>1. CASE UNCHANGED evars
      BY SMTT(30), <1>1 DEF evars, tvars, vars, mailbox, slavebox, Types, LinkTypes, Listening, MailTypes, BoxTypes,
                  CountTypes, CallTypes, AppTypes, SlaveTypes, ServerTypes, JobTypes, EthTypes
<1>2. CASE /\ (LinkStep \/ SlaveMailbox) /\ UNCHANGED <<coe, app, slave, plan, failed, asked>>
           /\ UNCHANGED Beside /\ UNCHANGED eth
  <2>1. CallTypes' /\ AppTypes' /\ SlaveTypes' /\ ServerTypes' /\ JobTypes' /\ EthTypes'
        BY <1>2 DEF Types, CallTypes, AppTypes, SlaveTypes, ServerTypes, JobTypes, EthTypes, slave, Beside
  <2>2. LinkTypes' /\ MailTypes'
    <3>1. CASE LinkStep
          BY <1>2, <3>1, LinkStepTypes, LinkStepBoxes DEF Types, Beside
    <3>2. CASE SlaveMailbox
      <4>1. LinkTypes'
            BY <1>2, <3>2 DEF SlaveMailbox, Answer, Notice, Repeat, Types, LinkTypes, Listening, Beside
      <4> QED
            BY <1>2, <3>2, <4>1, SlaveMailboxTypes DEF Types
    <3> QED
          BY <1>2, <3>1, <3>2
  <2> QED
        BY <2>1, <2>2 DEF Types
<1>3. CASE Take /\ UNCHANGED Beside /\ UNCHANGED eth
  <2>1. SlaveTypes' /\ MailTypes'
        BY <1>3, TakeTypes DEF Types
  <2>2. LinkTypes' /\ CallTypes' /\ AppTypes' /\ ServerTypes' /\ JobTypes' /\ EthTypes'
        BY <1>3 DEF Take, Types, LinkTypes, Listening, CallTypes, AppTypes, ServerTypes, JobTypes, EthTypes, Beside
  <2> QED
        BY <2>1, <2>2 DEF Types
<1>4. CASE /\ CoeStep \/ LibraryCall \/ WriteStart \/ WriteCompared \/ WriteSent \/ WriteReadBack
           /\ UNCHANGED Beside /\ UNCHANGED eth
      BY <1>4, CoeStepTypes, LibraryCallTypes, WriteStepTypes
<1>5. CASE TransferStep /\ UNCHANGED eth
      BY <1>5, TransferStepTypes
<1>6. CASE Serve /\ UNCHANGED eth
  <2>1. MailTypes' /\ ServerTypes'
        BY <1>6, ServeTypes DEF Types
  <2>2. LinkTypes' /\ CallTypes' /\ AppTypes' /\ SlaveTypes' /\ JobTypes' /\ EthTypes'
        BY <1>6 DEF Serve, Types, LinkTypes, Listening, CallTypes, AppTypes, SlaveTypes, JobTypes, EthTypes
  <2> QED
        BY <2>1, <2>2 DEF Types
<1>7. CASE ServeEthernet
  <2>1. MailTypes' /\ ServerTypes' /\ EthTypes'
        BY <1>7, ServeEthernetTypes DEF Types
  <2>2. LinkTypes' /\ CallTypes' /\ AppTypes' /\ SlaveTypes' /\ JobTypes'
        BY <1>7 DEF ServeEthernet, Types, LinkTypes, Listening, CallTypes, AppTypes, SlaveTypes, JobTypes
  <2> QED
        BY <2>1, <2>2 DEF Types
<1>8. CASE Traffic
  <2>1. MailTypes' /\ ServerTypes' /\ EthTypes'
        BY <1>8, TrafficTypes DEF Types
  <2>2. LinkTypes' /\ CallTypes' /\ AppTypes' /\ SlaveTypes' /\ JobTypes'
        BY <1>8 DEF Traffic, Types, LinkTypes, Listening, CallTypes, AppTypes, SlaveTypes, JobTypes, slave, Beside
  <2> QED
        BY <2>1, <2>2 DEF Types
<1>9. CASE EthernetCall
      BY <1>9, EthernetCallTypes
<1>10. CASE \/ IpRequest \/ IpResponse \/ EthernetUnheard \/ SendFragment \/ FragmentSent
            \/ ReceiveFragment \/ TakeFragment
      BY <1>10, EthernetStepTypes
<1> QED
      BY <1>1, <1>2, <1>3, <1>4, <1>5, <1>6, <1>7, <1>8, <1>9, <1>10 DEF EthernetNext, TransferNext, Next

LEMMA TypesSay == Types => EthernetTypeOK
<1> SUFFICES ASSUME Types PROVE EthernetTypeOK
    OBVIOUS
<1>1. /\ link.op \in LinkOps /\ link.wkc \in {0, 1}
      /\ link.msg \in ToSlave \union FromSlave \union {Nothing}
      BY DEF Types, LinkTypes, LinkRecords
<1>2. coe.pc \in CoePcs /\ app.phase \in Phases /\ val \in [Objects -> Values] /\ xfer.done <= xfer.of
      /\ coe.part \in 0..(MaxSub + 1) \union UNION {1..(Size[o] + 1) : o \in Objects}
      BY DEF Types, CallTypes, CallRecords, AppTypes, AppRecords, SlaveTypes
<1>3. TypeOK
      BY <1>1, <1>2 DEF TypeOK, Types, MailTypes, CountTypes, LinkOps, Done, CoePcs, Phases
<1>4. TransferTypeOK
  <2>1. job.pc \in JobPcs /\ job.rest \in Nat /\ server.way \in ServerWays /\ capacity \in Mailboxes \union {SmallMailbox}
        BY DEF Types, JobTypes, JobRecords, ServerTypes, ServerRecords
  <2>2. ASSUME job.pc # "done" PROVE job.rest \in 0..Size[coe.obj]
    <3>1. coe.obj \in Objects /\ job.rest <= Size[coe.obj]
          BY <2>2 DEF Types, JobTypes, CallTypes
    <3> QED
          BY <2>1, <3>1, ConstantsOK
  <2>3. coe.pc = "transfer" => Len(coe.got) <= coe.room
        BY DEF Types, CallTypes
  <2> QED
        BY <1>3, <2>1, <2>2, <2>3 DEF TransferTypeOK, JobPcs, ServerWays
<1>5. held \in [Objects -> Seq(Unit)] /\ server.data \in Seq(Unit)
      BY DEF Types, ServerTypes, ServerRecords
<1>6. eth.rx.data \in Seq(Unit)
      BY DEF Types, EthTypes, Frames
<1> QED
      BY <1>1, <1>4, <1>5, <1>6 DEF EthernetTypeOK, Types, MailTypes, BoxTypes

\* Types of the whole mailbox system: the link layer, the calls of the three transfers
\* and of Ethernet, the slave and every message on its way, whatever is lost, repeated or
\* late, for any objects, sizes, plans, counters and bounds.
THEOREM EthernetTypes == EthernetSpec => []EthernetTypeOK
<1>1. EthernetInit => Types
      BY TypesInit
<1>2. Types /\ [EthernetNext]_evars => Types'
      BY TypesStep
<1>3. Types => EthernetTypeOK
      BY TypesSay
<1> QED
      BY <1>1, <1>2, <1>3, PTL DEF EthernetSpec

=============================================================================
