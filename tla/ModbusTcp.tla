------------------------------ MODULE ModbusTcp ------------------------------
(***************************************************************************)
(* The Modbus TCP client (src-tauri/src/modbus_tcp.rs): the one exchange,  *)
(* the retries of FC03 and the single attempt of FC06, over a connection   *)
(* that keeps order but delays, breaks and delivers in pieces.             *)
(*                                                                         *)
(* The stream is modelled byte for byte, for the client reads 7 bytes of   *)
(* header and then the rest, and a read that times out has taken what was  *)
(* there.  Bytes taken for a header that are not one are refused: that a   *)
(* drive's data never imitates a header with the right transaction number, *)
(* protocol and unit is assumed, and that a length within the limits is    *)
(* that of the body.  One register stands for all.                         *)
(***************************************************************************)
EXTENDS Naturals, Sequences

CONSTANTS
  Values, Idle, None, Failed,
  Retries,      (* settings.retries                                        *)
  TidSpace,     (* how many transaction numbers there are: 65536           *)
  Chunks,       (* in how many bytes at once the network delivers          *)
  MaxExchanges  (* bound: exchanges of a run                               *)

ASSUME TcpAssumption ==
  /\ Retries \in Nat
  /\ TidSpace \in Nat \ {0}
  /\ MaxExchanges \in Nat
  /\ Chunks \subseteq Nat \ {0}
  /\ {Idle, None, Failed} \cap Values = {}

VARIABLES
  register,  (* of the drive                                               *)
  requests,  (* with the drive, not answered                               *)
  stream,    (* bytes the drive sent and the client has not read           *)
  arrived,   (* how many of them are in the client's socket                *)
  link,      (* "open", "ended" by the peer in order, or "reset"           *)
  stage,     (* where the client is                                        *)
  call,      (* what it was asked for                                      *)
  attempt,   (* of read_transaction                                        *)
  exchanges, (* TcpClient.transaction, but for the wrap                    *)
  header,    (* the answer whose header was accepted                       *)
  answer,    (* of the last call                                           *)
  calls,     (* history: calls made                                        *)
  taken,     (* history: what the drive did for the call in progress       *)
  prompt     (* history: nothing timed out and no header was refused so far *)

drive  == <<register, requests>>
client == <<stage, call, attempt, exchanges, header, answer, calls>>
vars   == <<drive, taken, stream, arrived, link, client, prompt>>

\* Writes whose caller gave them up and which the drive has not seen yet.
Late ==
  {[call |-> requests[i].call, value |-> requests[i].does.value] :
     i \in {j \in DOMAIN requests :
             /\ requests[j].does.kind = "write"
             /\ ~(requests[j].call = calls /\ call # Idle)}}

Link == INSTANCE RegisterLink WITH late <- Late

Tid(exchange) == exchange % TidSpace

HeaderBytes == 7
\* What was asked for; an exception, or another function, size or echo; a header
\* that names another protocol or unit, or a length out of range.
AnswerKinds == {"value", "refused", "unfit"}

\* response[..] of FC03 for one register and of FC06, and what others may be.
BodyBytes(a) ==
  CASE a.kind = "refused"   -> 2
    [] a.kind = "unfit"     -> 3
    [] a.does.kind = "read" -> 4
    [] OTHER                -> 5

Answers ==
  [kind : AnswerKinds, does : Link!Calls, value : Values \cup {None}, exchange : Nat]

ASSUME SentinelAssumption == Idle \notin Link!Calls /\ None \notin Answers

Frame(a) ==
  [i \in 1 .. HeaderBytes + BodyBytes(a) |-> [of |-> a, at |-> i]]

TypeOK ==
  /\ register \in Values
  /\ \A i \in DOMAIN requests :
       /\ requests[i].does \in Link!Calls
       /\ requests[i].call \in 1 .. calls
       /\ requests[i].exchange \in 1 .. exchanges
  /\ \A i \in DOMAIN stream :
       stream[i].at \in 1 .. HeaderBytes + BodyBytes(stream[i].of)
  /\ arrived \in 0 .. Len(stream)
  /\ link \in {"open", "ended", "reset"}
  /\ stage \in {"idle", "send", "header", "body", "drain"}
  /\ call \in Link!Calls \cup {Idle}
  /\ stage = "idle" <=> call = Idle
  /\ attempt \in 0 .. Retries
  /\ exchanges \in 0 .. MaxExchanges
  /\ answer \in Values \cup {None, Failed}
  /\ taken \subseteq Values
  /\ prompt \in BOOLEAN

Init ==
  /\ register \in Values
  /\ requests = <<>>
  /\ stream = <<>>
  /\ arrived = 0
  /\ link = "open"
  /\ stage = "idle"
  /\ call = Idle
  /\ attempt = 0
  /\ exchanges = 0
  /\ header = None
  /\ answer = None
  /\ calls = 0
  /\ taken = {}
  /\ prompt = TRUE

-----------------------------------------------------------------------------
(* The client. *)

Take(n) ==
  /\ stream' = SubSeq(stream, n + 1, Len(stream))
  /\ arrived' = arrived - n

\* The call returns; what follows it are locals of the call.
End(result) ==
  /\ stage' = "idle"
  /\ call' = Idle
  /\ answer' = result
  /\ attempt' = 0
  /\ header' = None
  /\ taken' = {}

GoesOn == UNCHANGED <<call, answer, attempt, taken>>

\* The network assumed: no request and no answer is still under way when its
\* transaction number comes up again, a whole turn of the numbers later.
UnderWay ==
  {requests[i].exchange : i \in DOMAIN requests}
    \cup {stream[i].of.exchange : i \in DOMAIN stream}

NumbersFree ==
  \A e \in UnderWay, ahead \in 1 .. Retries + 1 : Tid(e) # Tid(exchanges + ahead)

\* read_transaction and write_single_register are called.
Call ==
  /\ stage = "idle"
  /\ exchanges + Retries < MaxExchanges
  /\ NumbersFree
  /\ call' \in Link!Calls
  /\ calls' = calls + 1
  /\ stage' = "send"
  /\ answer' = None
  /\ UNCHANGED <<drive, taken, stream, arrived, link, attempt, exchanges, header,
                 prompt>>

Wanted ==
  IF stage = "header" THEN HeaderBytes ELSE BodyBytes(header)

\* Mutant of Again: one attempt too many.
AgainOnceMore == call.kind = "read" /\ attempt <= Retries

\* Only read_transaction has a loop.
Again == call.kind = "read" /\ attempt < Retries

\* An error that is retryable: the stream is drained for the next attempt, or the
\* error is the caller's.
Retryable ==
  /\ IF Again
     THEN stage' = "drain" /\ header' = None /\ GoesOn
     ELSE End(Failed)
  /\ prompt' = FALSE

\* exchange up to flush.  A connection the peer has ended may still take it.  The
\* write may time out; what it had sent of the frame is no request.
Send ==
  /\ stage = "send"
  /\ exchanges' = exchanges + 1
  /\ \/ /\ link = "open"
        /\ requests' = Append(requests,
             [call |-> calls, exchange |-> exchanges', does |-> call])
        /\ stage' = "header"
        /\ GoesOn /\ UNCHANGED <<header, prompt>>
     \/ /\ link = "ended"
        /\ stage' = "header"
        /\ GoesOn /\ UNCHANGED <<header, requests, prompt>>
     \/ /\ link # "reset"
        /\ Retryable
        /\ UNCHANGED requests
     \/ /\ link # "open"
        /\ End(Failed)
        /\ UNCHANGED <<requests, prompt>>
  /\ UNCHANGED <<register, stream, arrived, link, calls>>

\* What is read next is the header of this answer; None if the bytes are out
\* of step.
NextHeader ==
  IF stream[1].at = 1 THEN stream[1].of ELSE None

\* Mutant of IsOwn: any header will do.
IsAny(a) == a # None

\* transaction != self.transaction
IsOwn(a) == a # None /\ Tid(a.exchange) = Tid(exchanges)

\* The number is ours, and so are protocol and unit; the length is possible.
Fits(a) == IsOwn(a) /\ a.kind # "unfit"

\* The first read_exact of exchange and the checks of the header.  What follows a
\* header that is refused stays in the stream.
ReadHeader ==
  /\ stage = "header"
  /\ link # "reset"
  /\ arrived >= HeaderBytes
  /\ Take(HeaderBytes)
  /\ \/ /\ Fits(NextHeader)
        /\ header' = NextHeader
        /\ stage' = "body"
        /\ GoesOn /\ UNCHANGED prompt
     \/ /\ ~Fits(NextHeader)
        /\ End(Failed)
        /\ prompt' = FALSE
  /\ UNCHANGED <<drive, link, exchanges, calls>>

\* Mutant of ReadBody: the length is taken to count one byte less than it does.
ReadBodyShort ==
  /\ stage = "body"
  /\ link # "reset"
  /\ arrived >= BodyBytes(header) - 1
  /\ Take(BodyBytes(header) - 1)
  /\ End(IF header.kind = "value" THEN header.value ELSE Failed)
  /\ UNCHANGED <<drive, link, exchanges, calls, prompt>>

\* The second read_exact, the checks of exchange and those of its callers.
ReadBody ==
  /\ stage = "body"
  /\ link # "reset"
  /\ arrived >= BodyBytes(header)
  /\ Take(BodyBytes(header))
  /\ End(IF header.kind = "value" THEN header.value ELSE Failed)
  /\ UNCHANGED <<drive, link, exchanges, calls, prompt>>

\* Mutant of ReadFails: the stream has no time-out.
ReadFailsAtEnd ==
  /\ stage \in {"header", "body"}
  /\ link = "ended" /\ arrived = Len(stream)
  /\ arrived < Wanted
  /\ Take(arrived)
  /\ Retryable
  /\ UNCHANGED <<drive, link, exchanges, calls>>

\* read_exact gives up, and has taken what there was: after the time-out, or at
\* the end of the stream.  Both are retryable.
ReadFails ==
  /\ stage \in {"header", "body"}
  /\ link # "reset"
  /\ arrived < Wanted
  /\ Take(arrived)
  /\ Retryable
  /\ UNCHANGED <<drive, link, exchanges, calls>>

\* ConnectionReset is not retryable.
ReadBreaks ==
  /\ stage \in {"header", "body"}
  /\ link = "reset"
  /\ End(Failed)
  /\ UNCHANGED <<drive, stream, arrived, link, exchanges, calls, prompt>>

\* The peer has ended the connection and everything it sent was read: from now
\* on read answers Ok(0) at once.
AtEnd == link = "ended" /\ stream = <<>>

DrainReads ==
  /\ stage = "drain"
  /\ arrived > 0
  /\ Take(arrived)
  /\ UNCHANGED <<drive, taken, link, client, prompt>>

\* The loop of drain ends with the first error of read, WouldBlock when nothing
\* is there.  Ok(0) is no error: at the end of the stream the loop has no exit.
DrainEnds ==
  /\ stage = "drain"
  /\ arrived = 0
  /\ ~AtEnd
  /\ stage' = "send"
  /\ attempt' = attempt + 1
  /\ UNCHANGED <<drive, taken, stream, arrived, link, call, exchanges, header, answer,
                 calls, prompt>>

-----------------------------------------------------------------------------
(* The drive and the network. *)

\* The drive takes its oldest request.  It may refuse it, and what it answers
\* may get lost, be nonsense, or be another's under the same number.
Carried(r) ==
  /\ register' = IF r.does.kind = "write" THEN r.does.value ELSE register
  /\ taken' = IF r.call = calls /\ call # Idle THEN taken \cup {register'}
              ELSE taken

Answer(r, kind, now) ==
  [kind |-> kind, does |-> r.does, exchange |-> r.exchange,
   value |-> IF kind = "value" THEN now ELSE None]

DriveAnswers ==
  /\ requests # <<>>
  /\ requests' = Tail(requests)
  /\ LET r == Head(requests) IN
     /\ \E kind \in AnswerKinds :
          /\ \/ Carried(r)
             \/ kind # "value" /\ UNCHANGED <<register, taken>>
          /\ stream' = stream \o Frame(Answer(r, kind, register'))
  /\ link = "open"
  /\ UNCHANGED <<arrived, link, client, prompt>>

DriveSilent ==
  /\ requests # <<>>
  /\ requests' = Tail(requests)
  /\ Carried(Head(requests)) \/ UNCHANGED <<register, taken>>
  /\ UNCHANGED <<stream, arrived, link, client, prompt>>

Foreign ==
  /\ register' \in Values \ {register}
  /\ UNCHANGED <<requests, taken, stream, arrived, link, client, prompt>>

Deliver == \E n \in Chunks :
  /\ arrived < Len(stream)
  /\ arrived' = IF arrived + n < Len(stream) THEN arrived + n ELSE Len(stream)
  /\ UNCHANGED <<drive, taken, stream, link, client, prompt>>

Disconnect ==
  /\ link = "open"
  /\ link' \in {"ended", "reset"}
  /\ UNCHANGED <<drive, taken, stream, arrived, client, prompt>>

-----------------------------------------------------------------------------
Step ==
  \/ Send \/ ReadHeader \/ ReadBody \/ ReadFails \/ ReadBreaks
  \/ DrainReads \/ DrainEnds

Next ==
  \/ Call \/ Step
  \/ DriveAnswers \/ DriveSilent \/ Foreign \/ Deliver \/ Disconnect

Spec == Init /\ [][Next]_vars

\* set_read_timeout and set_write_timeout bound every wait of the client.
FairSpec == Spec /\ WF_vars(Step)

\* Whatever is delayed, lost, cut into pieces or left over from calls before, a
\* write is carried out at most once for a call, an acknowledged one was, and
\* what a read returns is a value of the time of that read (exchange,
\* read_transaction, write_single_register).
KeepsPromise == Link!Spec

\* A call that was answered in time leaves no byte and no request behind, also when
\* the answer was an exception or was refused for what it said: the next one starts in
\* step.  Not so after an answer that exchange refuses by its header.
LeavesNothing ==
  prompt /\ link = "open" /\ stage = "idle" => stream = <<>> /\ requests = <<>>

\* Every call ends while the peer keeps the connection, however late it answers.
CallEndsWhileOpen == call # Idle ~> call = Idle \/ link = "ended"

\* modbus_tcp.rs: what a timed-out transaction left is dropped "before
\* retrying": the retry follows.
RetryFollows == stage = "drain" ~> stage # "drain"

=============================================================================
