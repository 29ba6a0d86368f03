--------------------------- MODULE ModbusTcpProofs ---------------------------
(***************************************************************************)
(* Proofs about ModbusTcp, for any set of values, any number of retries,   *)
(* any size of the transaction numbers and any way the bytes arrive.       *)
(*                                                                         *)
(* The exchanges of the call in progress are those after Before, which no  *)
(* step of the call moves.  What is under way from earlier calls is never  *)
(* taken for an answer, for its number is none of those the call can use   *)
(* (Free); so an accepted answer is one the drive gave to this call, and   *)
(* its value is one the register had meanwhile (Answered, Accepted).  A    *)
(* write is asked for once (WrittenOnce), so it is carried out once.       *)
(***************************************************************************)
EXTENDS ModbusTcp, SequenceTheorems, TLAPS

Requests == [call : Nat, exchange : Nat, does : Link!Calls]
Octets   == [of : Answers, at : Nat]

\* The exchanges made before the call in progress, or all of them.
Sent   == IF stage \in {"header", "body", "drain"} THEN 1 ELSE 0
Before == exchanges - attempt - Sent

Typed ==
  /\ requests \in Seq(Requests)
  /\ stream \in Seq(Octets)
  /\ calls \in Nat

Paced ==
  /\ Before \in Nat
  /\ call = Idle => attempt = 0 /\ taken = {}
  /\ call # Idle => Before + Retries < MaxExchanges /\ calls > 0
  /\ stage = "drain" => Again
  /\ attempt > 0 => call.kind = "read"

Asked == \A i \in DOMAIN requests :
  /\ requests[i].exchange > Before <=> requests[i].call = calls /\ call # Idle
  /\ requests[i].exchange > Before => requests[i].does = call

Answered == \A i \in DOMAIN stream :
  /\ stream[i].of.exchange \in 1 .. exchanges
  /\ stream[i].of.exchange > Before /\ stream[i].of.kind = "value" =>
       stream[i].of.value \in taken

\* No exchange of the call has the number of one that is older than the call.
Distinct(e) == \A ahead \in 1 .. Retries + 1 : Tid(e) # Tid(Before + ahead)

Free == call # Idle =>
  /\ \A i \in DOMAIN requests :
       requests[i].exchange <= Before => Distinct(requests[i].exchange)
  /\ \A i \in DOMAIN stream :
       stream[i].of.exchange <= Before => Distinct(stream[i].of.exchange)

WrittenOnce == \A i, j \in DOMAIN requests :
  requests[i].does.kind = "write" /\ requests[i].call = requests[j].call => i = j

\* While the drive has not seen a write, it has done nothing for it.
Untouched ==
  call # Idle /\ call.kind = "write" =>
    /\ stage = "send" => taken = {}
    /\ (\E i \in DOMAIN requests : requests[i].call = calls) => taken = {}

Accepted == stage = "body" =>
  /\ header \in Answers
  /\ header.kind = "value" => header.value \in taken

\* What is under way while nothing was late: at most the exchange in progress.
InStep == prompt /\ link = "open" =>
  /\ stage \in {"idle", "send"} => stream = <<>> /\ requests = <<>>
  /\ stage = "header" =>
       \/ /\ stream = <<>>
          /\ Len(requests) <= 1
          /\ \A i \in DOMAIN requests : requests[i].exchange = exchanges
       \/ /\ requests = <<>> /\ stream # <<>>
          /\ stream = Frame(stream[1].of)
          /\ stream[1].of.exchange = exchanges
  /\ stage = "body" => requests = <<>> /\ Len(stream) = BodyBytes(header)
  /\ stage # "drain"

TcpInv ==
  /\ TypeOK /\ Typed /\ Paced
  /\ Asked /\ Answered /\ Free /\ WrittenOnce
  /\ Untouched /\ Accepted /\ InStep

-----------------------------------------------------------------------------
(* The data.                                                               *)

LEMMA CallFacts ==
  ASSUME NEW c \in Link!Calls
  PROVE  /\ c.kind \in {"read", "write"} /\ c # Idle
         /\ c.kind = "write" => c.value \in Values
BY SentinelAssumption DEF Link!Calls

LEMMA BodyFacts ==
  ASSUME NEW a \in Answers
  PROVE  BodyBytes(a) \in 2 .. 5
BY DEF BodyBytes

LEMMA FrameFacts ==
  ASSUME NEW a \in Answers
  PROVE  /\ Frame(a) \in Seq(Octets)
         /\ Len(Frame(a)) = HeaderBytes + BodyBytes(a)
         /\ DOMAIN Frame(a) = 1 .. HeaderBytes + BodyBytes(a)
         /\ \A i \in DOMAIN Frame(a) : Frame(a)[i] = [of |-> a, at |-> i]
<1> DEFINE n == HeaderBytes + BodyBytes(a)
<1>1. n \in Nat
  BY BodyFacts DEF HeaderBytes
<1> HIDE DEF n
<1>2. Frame(a) = [i \in 1 .. n |-> [of |-> a, at |-> i]]
  BY DEF Frame, n
<1>3. \A i \in 1 .. n : [of |-> a, at |-> i] \in Octets
  BY <1>1 DEF Octets
<1>4. Frame(a) \in [1 .. n -> Octets]
  BY <1>2, <1>3
<1>5. Frame(a) \in Seq(Octets) /\ Len(Frame(a)) = n
  BY <1>1, <1>4, SeqDef
<1>6. QED
  BY <1>2, <1>5 DEF n

LEMMA RequestFacts ==
  ASSUME Typed
  PROVE  /\ Len(requests) \in Nat /\ DOMAIN requests = 1 .. Len(requests)
         /\ requests = <<>> <=> Len(requests) = 0
         /\ \A i \in DOMAIN requests :
              /\ requests[i] \in Requests /\ requests[i].call \in Nat
              /\ requests[i].exchange \in Nat /\ requests[i].does \in Link!Calls
<1>1. /\ Len(requests) \in Nat /\ DOMAIN requests = 1 .. Len(requests)
      /\ \A i \in DOMAIN requests : requests[i] \in Requests
  BY LenProperties, ElementOfSeq DEF Typed
<1>2. requests = <<>> <=> Len(requests) = 0
  BY EmptySeq DEF Typed
<1>3. QED
  BY <1>1, <1>2 DEF Requests

LEMMA StreamFacts ==
  ASSUME Typed
  PROVE  /\ Len(stream) \in Nat /\ DOMAIN stream = 1 .. Len(stream)
         /\ stream = <<>> <=> Len(stream) = 0
         /\ \A i \in DOMAIN stream :
              /\ stream[i] \in Octets /\ stream[i].at \in Nat
              /\ stream[i].of \in Answers /\ stream[i].of.exchange \in Nat
              /\ stream[i].of.kind \in AnswerKinds
<1>1. /\ Len(stream) \in Nat /\ DOMAIN stream = 1 .. Len(stream)
      /\ \A i \in DOMAIN stream : stream[i] \in Octets
  BY LenProperties, ElementOfSeq DEF Typed
<1>2. stream = <<>> <=> Len(stream) = 0
  BY EmptySeq DEF Typed
<1>3. QED
  BY <1>1, <1>2 DEF Octets, Answers

\* What is left in the socket when bytes are taken is a part of what was there.
LEMMA TakeLeaves ==
  ASSUME TypeOK, Typed, NEW n \in 0 .. arrived, Take(n)
  PROVE  /\ stream' \in Seq(Octets)
         /\ Len(stream') = Len(stream) - n
         /\ arrived' \in 0 .. Len(stream')
         /\ DOMAIN stream' = 1 .. Len(stream')
         /\ \A i \in DOMAIN stream' : i + n \in DOMAIN stream /\ stream'[i] = stream[i + n]
<1> DEFINE m == Len(stream)
<1>1. /\ m \in Nat /\ arrived \in 0 .. m /\ n \in Nat /\ n <= m /\ stream \in Seq(Octets)
      /\ DOMAIN stream = 1 .. m
  BY StreamFacts DEF TypeOK, Typed
<1>2. \A i \in n + 1 .. m : stream[i] \in Octets
  BY <1>1, StreamFacts
<1> HIDE DEF m
<1>3. stream' = SubSeq(stream, n + 1, m) /\ arrived' = arrived - n
  BY DEF Take, m
<1>4. /\ n + 1 \in Int /\ m \in Int
      /\ (IF n + 1 <= m THEN m - (n + 1) + 1 ELSE 0) = m - n
  BY <1>1
<1>5. /\ SubSeq(stream, n + 1, m) \in Seq(Octets)
      /\ Len(SubSeq(stream, n + 1, m)) = m - n
  BY <1>2, <1>4, SubSeqProperties
<1>6. \A i \in 1 .. m - n : n + 1 + i - 1 = i + n /\ i + n \in 1 .. m /\ m - (n + 1) + 1 = m - n
  BY <1>1
<1>7. SubSeq(stream, n + 1, m) = [i \in 1 .. m - n |-> stream[i + n]]
  BY <1>1, <1>6
<1>8. DOMAIN stream' = 1 .. m - n /\ \A i \in 1 .. m - n : stream'[i] = stream[i + n]
  BY <1>3, <1>7
<1>9. Len(stream') = m - n /\ arrived' \in 0 .. m - n
  BY <1>1, <1>3, <1>5
<1>10. QED
  BY <1>1, <1>3, <1>5, <1>6, <1>8, <1>9 DEF m

\* The drive takes the oldest request.
LEMMA TailLeaves ==
  ASSUME Typed, requests # <<>>, requests' = Tail(requests)
  PROVE  /\ 1 \in DOMAIN requests /\ Head(requests) = requests[1]
         /\ requests' \in Seq(Requests)
         /\ Len(requests') = Len(requests) - 1
         /\ DOMAIN requests' = 1 .. Len(requests')
         /\ \A i \in DOMAIN requests' :
              i + 1 \in DOMAIN requests /\ requests'[i] = requests[i + 1]
<1> DEFINE m == Len(requests)
<1>1. m \in Nat /\ m > 0 /\ DOMAIN requests = 1 .. m /\ requests \in Seq(Requests)
  BY RequestFacts DEF Typed
<1>2. /\ Tail(requests) \in Seq(Requests) /\ Len(Tail(requests)) = m - 1
      /\ \A i \in 1 .. Len(Tail(requests)) : Tail(requests)[i] = requests[i + 1]
  BY <1>1, HeadTailProperties
<1>3. DOMAIN Tail(requests) = 1 .. m - 1
  BY <1>2, LenProperties
<1>4. Head(requests) = requests[1]
  BY <1>1
<1> HIDE DEF m
<1>5. 1 \in 1 .. m /\ \A i \in 1 .. m - 1 : i + 1 \in 1 .. m
  BY <1>1
<1>6. QED
  BY <1>1, <1>2, <1>3, <1>4, <1>5 DEF m

LEMMA AppendAdds ==
  ASSUME Typed, NEW r \in Requests, requests' = Append(requests, r)
  PROVE  /\ requests' \in Seq(Requests)
         /\ Len(requests') = Len(requests) + 1
         /\ DOMAIN requests' = 1 .. Len(requests) + 1
         /\ \A i \in DOMAIN requests : requests'[i] = requests[i]
         /\ requests'[Len(requests) + 1] = r
<1>1. requests \in Seq(Requests)
  BY DEF Typed
<1>2. QED
  BY <1>1, RequestFacts, AppendProperties

\* The drive answers.
LEMMA FrameAdds ==
  ASSUME Typed, NEW a \in Answers, stream' = stream \o Frame(a)
  PROVE  /\ stream' \in Seq(Octets)
         /\ Len(stream') = Len(stream) + HeaderBytes + BodyBytes(a)
         /\ DOMAIN stream' = 1 .. Len(stream')
         /\ \A i \in DOMAIN stream' :
              \/ i \in DOMAIN stream /\ stream'[i] = stream[i]
              \/ stream'[i].of = a /\ stream'[i].at \in 1 .. HeaderBytes + BodyBytes(a)
<1> DEFINE m == Len(stream)
           n == HeaderBytes + BodyBytes(a)
<1>1. m \in Nat /\ stream \in Seq(Octets) /\ DOMAIN stream = 1 .. m
  BY StreamFacts DEF Typed
<1>2. n \in Nat /\ Frame(a) \in Seq(Octets) /\ Len(Frame(a)) = n
  BY BodyFacts, FrameFacts DEF HeaderBytes
<1>3. \A i \in 1 .. n : Frame(a)[i] = [of |-> a, at |-> i]
  BY FrameFacts
<1>4. Len(stream) + HeaderBytes + BodyBytes(a) = m + n
  BY <1>1, BodyFacts DEF HeaderBytes
<1>5. /\ stream' \in Seq(Octets) /\ Len(stream') = m + n
      /\ \A i \in 1 .. m + n : stream'[i] = IF i <= m THEN stream[i] ELSE Frame(a)[i - m]
  BY ZenonT(30), <1>1, <1>2, ConcatProperties
<1>6. DOMAIN stream' = 1 .. m + n
  BY <1>5, LenProperties
<1> HIDE DEF m, n
<1>7. ASSUME NEW i \in 1 .. m + n
      PROVE  \/ i \in 1 .. m /\ stream'[i] = stream[i]
             \/ stream'[i].of = a /\ stream'[i].at \in 1 .. n
  <2>1. CASE i <= m
    BY <1>1, <1>5, <2>1
  <2>2. CASE ~(i <= m)
    <3>1. i - m \in 1 .. n
      BY <1>1, <1>2, <2>2
    <3>2. stream'[i] = [of |-> a, at |-> i - m]
      BY <1>3, <1>5, <2>2, <3>1
    <3>3. QED
      BY <3>1, <3>2
  <2>3. QED
    BY <2>1, <2>2
<1>8. QED
  BY <1>1, <1>4, <1>5, <1>6, <1>7 DEF m, n

-----------------------------------------------------------------------------
(* What a step does to the call in progress.                               *)

\* The call goes on, a call begins, or it ends.
Goes ==
  /\ call' = call /\ calls' = calls
  /\ Before' = Before
  /\ exchanges' \in {exchanges, exchanges + 1}
  /\ taken \subseteq taken'

Begins ==
  /\ Call
  /\ Before = exchanges /\ Before' = exchanges
  /\ exchanges' = exchanges /\ taken' = taken

Ends ==
  /\ call # Idle /\ call' = Idle /\ calls' = calls
  /\ Before' = exchanges'
  /\ exchanges' \in {exchanges, exchanges + 1}
  /\ taken' = {} /\ stage' = "idle" /\ attempt' = 0

LEMMA Numbers ==
  ASSUME TypeOK, Paced
  PROVE  /\ Before \in Nat /\ exchanges \in Nat /\ attempt \in Nat /\ Retries \in Nat
         /\ MaxExchanges \in Nat /\ attempt <= Retries /\ Sent \in {0, 1}
         /\ exchanges = Before + attempt + Sent
<1>1. Before \in Nat /\ exchanges \in Nat /\ attempt \in 0 .. Retries /\ Sent \in {0, 1}
  BY TcpAssumption DEF TypeOK, Paced, Sent
<1>2. Retries \in Nat /\ MaxExchanges \in Nat
  BY TcpAssumption
<1>3. Before = exchanges - attempt - Sent
  BY DEF Before
<1>4. QED
  BY <1>1, <1>2, <1>3

LEMMA NothingSent ==
  ASSUME stage' = "idle", NEW e \in Nat, exchanges' = e, attempt' = 0
  PROVE  Before' = e
<1>1. Sent' = 0
  BY DEF Sent
<1>2. Before' = e - 0 - 0
  BY <1>1 DEF Before
<1>3. QED
  BY <1>2

LEMMA EndEnds ==
  ASSUME TypeOK, Paced, call # Idle, NEW result, End(result),
         calls' = calls, exchanges' \in {exchanges, exchanges + 1}
  PROVE  Ends
<1>1. stage' = "idle" /\ attempt' = 0 /\ exchanges' \in Nat
  BY Numbers DEF End
<1>2. Before' = exchanges'
  BY <1>1, NothingSent
<1>3. QED
  BY <1>2 DEF Ends, End

\* A step of the client that does not return.
LEMMA StepGoes ==
  ASSUME TypeOK, Paced, call' = call, calls' = calls, taken' = taken,
         NEW more \in {0, 1}, NEW again \in {0, 1}, NEW sent \in {0, 1},
         exchanges' = exchanges + more, attempt' = attempt + again, Sent' = sent,
         more = again + sent - Sent
  PROVE  Goes
<1>1. PICK e \in Nat, a \in Nat, s \in {0, 1} : e = exchanges /\ a = attempt /\ s = Sent
  BY Numbers
<1>2. Before' = e + more - (a + again) - sent
  BY <1>1 DEF Before
<1>3. Before = e - a - s
  BY <1>1 DEF Before
<1>4. more = again + sent - s
  BY <1>1
<1>5. Before' = Before
  BY <1>1, <1>2, <1>3, <1>4
<1>6. exchanges' \in {exchanges, exchanges + 1}
  BY <1>1
<1>7. QED
  BY <1>5, <1>6 DEF Goes

LEMMA Rests ==
  ASSUME TypeOK, Paced, UNCHANGED client, taken \subseteq taken'
  PROVE  Goes
<1>1. Sent' = Sent
  BY DEF client, Sent
<1>2. Before' = Before
  BY <1>1 DEF client, Before
<1>3. QED
  BY <1>2 DEF client, Goes

LEMMA Course ==
  ASSUME TypeOK, Paced, [Next]_vars
  PROVE  Goes \/ Begins \/ Ends
<1>1. CASE Call
  <2>1. /\ stage = "idle" /\ stage' = "send" /\ attempt = 0 /\ attempt' = 0
        /\ exchanges' = exchanges /\ taken' = taken
    BY <1>1 DEF Call, TypeOK, Paced
  <2>2. Sent = 0 /\ Sent' = 0 /\ exchanges \in Nat
    BY <2>1, Numbers DEF Sent
  <2>3. Before = exchanges - attempt - Sent /\ Before' = exchanges' - attempt' - Sent'
    BY DEF Before
  <2>4. Before = exchanges /\ Before' = exchanges
    BY <2>1, <2>2, <2>3
  <2>5. QED
    BY <1>1, <2>1, <2>4 DEF Begins
<1>2. CASE Send
  <2>1. Sent = 0 /\ call # Idle /\ exchanges' = exchanges + 1 /\ calls' = calls
    BY <1>2 DEF Send, Sent, TypeOK
  <2>2. CASE stage' \in {"header", "drain"}
    <3>1. Sent' = 1 /\ call' = call /\ taken' = taken /\ attempt' = attempt
      BY <1>2, <2>2 DEF Send, Sent, End, GoesOn, Retryable
    <3>2. attempt' = attempt + 0 /\ 1 = 0 + 1 - Sent
      BY <2>1, <3>1, Numbers
    <3>3. QED
      BY <2>1, <3>1, <3>2, StepGoes
  <2>3. CASE End(Failed)
    BY <2>1, <2>3, EndEnds
  <2>4. QED
    BY <1>2, <2>2, <2>3 DEF Send, Retryable
<1>3. CASE ReadHeader
  <2>1. Sent = 1 /\ call # Idle /\ exchanges' = exchanges /\ calls' = calls
    BY <1>3 DEF ReadHeader, Sent, TypeOK
  <2>2. CASE stage' = "body"
    <3>1. Sent' = 1 /\ call' = call /\ taken' = taken /\ attempt' = attempt
      BY <1>3, <2>2 DEF ReadHeader, Sent, End, GoesOn
    <3>2. attempt' = attempt + 0 /\ exchanges' = exchanges + 0 /\ 0 = 0 + 1 - Sent
      BY <2>1, <3>1, Numbers
    <3>3. QED
      BY <2>1, <3>1, <3>2, StepGoes
  <2>3. CASE End(Failed)
    BY <2>1, <2>3, EndEnds
  <2>4. QED
    BY <1>3, <2>2, <2>3 DEF ReadHeader
<1>4. CASE ReadBody
  <2>1. PICK result : End(result)
    BY <1>4 DEF ReadBody
  <2>2. call # Idle /\ exchanges' = exchanges /\ calls' = calls
    BY <1>4 DEF ReadBody, TypeOK
  <2>3. QED
    BY <2>1, <2>2, EndEnds
<1>5. CASE ReadFails
  <2>1. Sent = 1 /\ call # Idle /\ exchanges' = exchanges /\ calls' = calls
    BY <1>5 DEF ReadFails, Sent, TypeOK
  <2>2. CASE stage' = "drain"
    <3>1. Sent' = 1 /\ call' = call /\ taken' = taken /\ attempt' = attempt
      BY <1>5, <2>2 DEF ReadFails, Retryable, Sent, End, GoesOn
    <3>2. attempt' = attempt + 0 /\ exchanges' = exchanges + 0 /\ 0 = 0 + 1 - Sent
      BY <2>1, <3>1, Numbers
    <3>3. QED
      BY <2>1, <3>1, <3>2, StepGoes
  <2>3. CASE End(Failed)
    BY <2>1, <2>3, EndEnds
  <2>4. QED
    BY <1>5, <2>2, <2>3 DEF ReadFails, Retryable
<1>6. CASE ReadBreaks
  BY <1>6, EndEnds DEF ReadBreaks, TypeOK
<1>7. CASE DrainReads
  BY <1>7, Rests DEF DrainReads
<1>8. CASE DrainEnds
  <2>1. /\ Sent = 1 /\ exchanges' = exchanges /\ calls' = calls /\ Sent' = 0
        /\ call' = call /\ taken' = taken /\ attempt' = attempt + 1
    BY <1>8 DEF DrainEnds, Sent
  <2>2. exchanges' = exchanges + 0 /\ 0 = 1 + 0 - Sent
    BY <2>1, Numbers
  <2>3. QED
    BY <2>1, <2>2, StepGoes
<1>9. CASE DriveAnswers \/ DriveSilent
  <2>1. UNCHANGED client /\ taken \subseteq taken'
    BY <1>9 DEF DriveAnswers, DriveSilent, Carried
  <2>2. QED
    BY <2>1, Rests
<1>10. CASE Foreign \/ Deliver \/ Disconnect \/ UNCHANGED vars
  BY <1>10, Rests DEF Foreign, Deliver, Disconnect, vars
<1>11. QED
  BY <1>1, <1>2, <1>3, <1>4, <1>5, <1>6, <1>7, <1>8, <1>9, <1>10 DEF Next, Step

-----------------------------------------------------------------------------
(* The parts of the invariant that follow from what a step adds: a request *)
(* of this call, or an answer to a request.                                *)

NewRequest(r) ==
  /\ call' # Idle /\ call' = call /\ r.does = call
  /\ r.call = calls /\ r.exchange = exchanges' /\ r.exchange > Before
  /\ exchanges' > 0

Asks == \A i \in DOMAIN requests' :
  \/ \E j \in DOMAIN requests : requests'[i] = requests[j]
  \/ NewRequest(requests'[i])

\* What an answer says of its request.
AnswerTo(a, r) ==
  /\ a.exchange = r.exchange
  /\ r.exchange > Before /\ a.kind = "value" => a.value \in taken'

Says == \A i \in DOMAIN stream' :
  \/ \E j \in DOMAIN stream : stream'[i] = stream[j]
  \/ \E j \in DOMAIN requests : AnswerTo(stream'[i].of, requests[j])

LEMMA OrderFacts ==
  ASSUME TypeOK, Typed, Paced
  PROVE  /\ Before \in Nat /\ exchanges \in Nat /\ Before <= exchanges
         /\ \A i \in DOMAIN requests :
              /\ requests[i].call \in 1 .. calls /\ requests[i].call \in Nat
              /\ requests[i].exchange \in 1 .. exchanges /\ requests[i].exchange \in Nat
         /\ calls \in Nat
<1>1. Before \in Nat /\ exchanges \in Nat /\ Before <= exchanges
  <2>1. PICK b \in Nat, a \in Nat, s \in {0, 1} : b = Before /\ a = attempt /\ s = Sent
    BY Numbers
  <2>2. exchanges = b + a + s
    BY <2>1, Numbers
  <2>3. QED
    BY <2>1, <2>2
<1>2. QED
  BY <1>1, RequestFacts DEF TypeOK, Typed

LEMMA AskedKept ==
  ASSUME TypeOK, Typed, Paced, Asked, Goes \/ Begins \/ Ends, Asks
  PROVE  /\ Asked'
         /\ \A i \in DOMAIN requests' :
              /\ requests'[i].call \in 1 .. calls'
              /\ requests'[i].exchange \in 1 .. exchanges'
<1> SUFFICES ASSUME NEW i \in DOMAIN requests'
             PROVE  /\ requests'[i].exchange > Before'
                         <=> requests'[i].call = calls' /\ call' # Idle
                    /\ requests'[i].exchange > Before' => requests'[i].does = call'
                    /\ requests'[i].call \in 1 .. calls'
                    /\ requests'[i].exchange \in 1 .. exchanges'
  BY DEF Asked
<1>1. PICK b \in Nat, e \in Nat, n \in Nat : b = Before /\ e = exchanges /\ n = calls /\ b <= e
  BY OrderFacts
<1>2. PICK r : r = requests'[i]
  OBVIOUS
<1>3. CASE \E j \in DOMAIN requests : r = requests[j]
  <2>1. /\ r.call \in 1 .. n /\ r.exchange \in 1 .. e
        /\ r.exchange > b <=> r.call = n /\ call # Idle
        /\ r.exchange > b => r.does = call
    BY <1>1, <1>3, OrderFacts DEF Asked
  <2>2. PICK x \in 1 .. e, k \in 1 .. n : x = r.exchange /\ k = r.call
    BY <2>1
  <2>3. CASE Goes
    <3>1. call' = call /\ calls' = n /\ Before' = b /\ exchanges' \in {e, e + 1}
      BY <1>1, <2>3 DEF Goes
    <3>2. QED
      BY <1>1, <1>2, <2>1, <2>2, <3>1
  <2>4. CASE Begins
    <3>1. /\ calls' = n + 1 /\ Before' = e /\ exchanges' = e /\ call' # Idle
      BY <1>1, <2>4, CallFacts DEF Begins, Call
    <3>2. QED
      BY <1>1, <1>2, <2>1, <2>2, <3>1
  <2>5. CASE Ends
    <3>1. PICK f \in {e, e + 1} : f = exchanges'
      BY <1>1, <2>5 DEF Ends
    <3>2. calls' = n /\ Before' = f /\ exchanges' = f /\ call' = Idle
      BY <1>1, <2>5, <3>1 DEF Ends
    <3>3. QED
      BY <1>1, <1>2, <2>1, <2>2, <3>1, <3>2
  <2>6. QED
    BY <2>3, <2>4, <2>5
<1>4. CASE NewRequest(r)
  <2>1. Goes
    BY <1>4, CallFacts DEF NewRequest, Begins, Call, Ends, TypeOK
  <2>2. PICK f \in {e, e + 1} : f = exchanges'
    BY <1>1, <2>1 DEF Goes
  <2>3. /\ call' = call /\ call' # Idle /\ calls' = n /\ Before' = b
        /\ r.does = call /\ r.call = n /\ r.exchange = f /\ f > b
    BY <1>1, <1>4, <2>1, <2>2 DEF Goes, NewRequest
  <2>4. n > 0
    BY <1>1, <2>3 DEF Paced
  <2>5. QED
    BY <1>1, <1>2, <2>2, <2>3, <2>4
<1>5. QED
  BY <1>2, <1>3, <1>4 DEF Asks

LEMMA AnsweredKept ==
  ASSUME TypeOK, Typed, Typed', Paced, Asked, Answered, Goes \/ Begins \/ Ends, Says
  PROVE  Answered'
<1> SUFFICES ASSUME NEW i \in DOMAIN stream'
             PROVE  /\ stream'[i].of.exchange \in 1 .. exchanges'
                    /\ stream'[i].of.exchange > Before' /\ stream'[i].of.kind = "value" =>
                         stream'[i].of.value \in taken'
  BY DEF Answered
<1>1. PICK b \in Nat, e \in Nat : b = Before /\ e = exchanges /\ b <= e
  BY OrderFacts
<1>2. PICK a : a = stream'[i].of
  OBVIOUS
<1>3. a.exchange \in 1 .. e
  BY <1>1, <1>2, OrderFacts DEF Says, Answered, AnswerTo
<1>4. PICK x \in 1 .. e : x = a.exchange
  BY <1>3
<1>5. CASE Goes
  <2>1. Before' = b /\ exchanges' \in {e, e + 1} /\ taken \subseteq taken'
    BY <1>1, <1>5 DEF Goes
  <2>2. x > b /\ a.kind = "value" => a.value \in taken'
    BY <1>1, <1>2, <1>4, <2>1 DEF Says, Answered, AnswerTo
  <2>3. QED
    BY <1>1, <1>2, <1>4, <2>1, <2>2
<1>6. CASE Begins
  <2>1. Before' = e /\ exchanges' = e
    BY <1>1, <1>6 DEF Begins
  <2>2. QED
    BY <1>1, <1>2, <1>4, <2>1
<1>7. CASE Ends
  <2>1. PICK f \in {e, e + 1} : f = exchanges'
    BY <1>1, <1>7 DEF Ends
  <2>2. Before' = f /\ exchanges' = f
    BY <1>7, <2>1 DEF Ends
  <2>3. QED
    BY <1>1, <1>2, <1>4, <2>1, <2>2
<1>8. QED
  BY <1>5, <1>6, <1>7

\* When the call begins, the network has let its numbers go; until it ends,
\* nothing is added that is older.
LEMMA FreeKept ==
  ASSUME TypeOK, Typed, Paced, Asked, Answered, Free,
         Goes \/ Begins \/ Ends, Asks, Says
  PROVE  Free'
<1>1. PICK b \in Nat, e \in Nat : b = Before /\ e = exchanges /\ b <= e
  BY OrderFacts
<1>2. CASE Goes
  <2>1. Before' = b /\ call' = call
    BY <1>1, <1>2 DEF Goes
  <2> SUFFICES ASSUME call # Idle
               PROVE  Free'
    BY <2>1 DEF Free
  <2>2. /\ \A i \in DOMAIN requests :
             requests[i].exchange <= b => Distinct(requests[i].exchange)
        /\ \A i \in DOMAIN stream :
             stream[i].of.exchange <= b => Distinct(stream[i].of.exchange)
    BY <1>1 DEF Free
  <2>3. \A x : Distinct(x)' <=> Distinct(x)
    BY <1>1, <2>1 DEF Distinct, Tid
  <2>4. ASSUME NEW i \in DOMAIN requests', requests'[i].exchange <= b
        PROVE  \A ahead \in 1 .. Retries + 1 : Tid(requests'[i].exchange) # Tid(b + ahead)
    <3>1. CASE \E j \in DOMAIN requests : requests'[i] = requests[j]
      BY <1>1, <2>2, <2>4, <3>1 DEF Distinct
    <3>2. CASE NewRequest(requests'[i])
      <4>1. PICK f \in {e, e + 1} : f = exchanges'
        BY <1>1, <1>2 DEF Goes
      <4>2. requests'[i].exchange = f /\ f > b
        BY <1>1, <3>2, <4>1 DEF NewRequest
      <4>3. QED
        BY <1>1, <2>4, <4>2
    <3>3. QED
      BY <3>1, <3>2 DEF Asks
  <2>5. ASSUME NEW i \in DOMAIN stream', stream'[i].of.exchange <= b
        PROVE  \A ahead \in 1 .. Retries + 1 : Tid(stream'[i].of.exchange) # Tid(b + ahead)
    BY <1>1, <2>2, <2>5 DEF Says, AnswerTo, Distinct
  <2>6. QED
    BY <2>1, <2>4, <2>5 DEF Free, Distinct
<1>3. CASE Begins
  <2>1. Before' = e /\ NumbersFree
    BY <1>1, <1>3 DEF Begins, Call
  <2>2. /\ \A i \in DOMAIN requests, ahead \in 1 .. Retries + 1 :
             Tid(requests[i].exchange) # Tid(e + ahead)
        /\ \A i \in DOMAIN stream, ahead \in 1 .. Retries + 1 :
             Tid(stream[i].of.exchange) # Tid(e + ahead)
    BY <1>1, <2>1 DEF NumbersFree, UnderWay
  <2>3. requests' = requests /\ stream' = stream
    BY <1>3 DEF Begins, Call, drive
  <2>4. QED
    BY <2>1, <2>2, <2>3 DEF Free, Distinct
<1>4. CASE Ends
  BY <1>4 DEF Ends, Free
<1>5. QED
  BY <1>2, <1>3, <1>4

-----------------------------------------------------------------------------
(* What a step does to the requests and to the bytes.                      *)

Placed == \A i \in DOMAIN stream :
  stream[i].at \in 1 .. HeaderBytes + BodyBytes(stream[i].of)

LEMMA SameRequests ==
  ASSUME Typed, requests' = requests
  PROVE  requests' \in Seq(Requests) /\ Asks
BY DEF Typed, Asks

LEMMA SameStream ==
  ASSUME TypeOK, Typed, stream' = stream
  PROVE  /\ stream' \in Seq(Octets) /\ Says /\ Placed'
         /\ arrived' = arrived => arrived' \in 0 .. Len(stream')
BY DEF TypeOK, Typed, Says, Placed

LEMMA TakenStream ==
  ASSUME TypeOK, Typed, NEW n \in 0 .. arrived, Take(n)
  PROVE  stream' \in Seq(Octets) /\ Says /\ Placed' /\ arrived' \in 0 .. Len(stream')
<1>1. /\ stream' \in Seq(Octets) /\ arrived' \in 0 .. Len(stream')
      /\ \A i \in DOMAIN stream' : \E j \in DOMAIN stream : stream'[i] = stream[j]
  BY TakeLeaves
<1>2. Placed
  BY DEF TypeOK, Placed
<1>3. Placed'
  BY <1>1, <1>2 DEF Placed
<1>4. QED
  BY <1>1, <1>3 DEF Says

LEMMA CarriedFacts ==
  ASSUME TypeOK, NEW r \in Requests, Carried(r)
  PROVE  /\ register' \in Values /\ taken \subseteq taken' /\ taken' \subseteq Values
         /\ r.call = calls /\ call # Idle => register' \in taken'
<1>1. r.does \in Link!Calls
  BY DEF Requests
<1>2. register' \in Values
  BY <1>1, CallFacts DEF Carried, TypeOK
<1>3. QED
  BY <1>2 DEF Carried, TypeOK

LEMMA SilentRequests ==
  ASSUME Typed, requests # <<>>, requests' = Tail(requests)
  PROVE  requests' \in Seq(Requests) /\ Asks
BY TailLeaves DEF Asks

LEMMA AnsweredStream ==
  ASSUME TypeOK, Typed, Asked, DriveAnswers
  PROVE  /\ stream' \in Seq(Octets) /\ Says /\ Placed' /\ arrived' \in 0 .. Len(stream')
         /\ register' \in Values /\ taken' \subseteq Values /\ taken \subseteq taken'
<1>1. PICK r \in Requests : r = Head(requests) /\ r = requests[1] /\ 1 \in DOMAIN requests
  BY TailLeaves, RequestFacts DEF DriveAnswers
<1>2. PICK kind \in AnswerKinds :
        /\ Carried(r) \/ (kind # "value" /\ UNCHANGED <<register, taken>>)
        /\ stream' = stream \o Frame(Answer(r, kind, register'))
  BY <1>1 DEF DriveAnswers
<1>3. PICK now : now = register'
  OBVIOUS
<1>4. /\ now \in Values /\ register' \in Values /\ taken \subseteq taken' /\ taken' \subseteq Values
      /\ r.call = calls /\ call # Idle /\ kind = "value" => now \in taken'
  <2>1. CASE kind # "value" /\ UNCHANGED <<register, taken>>
    BY <1>2, <1>3, <2>1 DEF TypeOK
  <2>2. CASE Carried(r)
    BY <1>2, <1>3, <2>2, CarriedFacts
  <2>3. QED
    BY <1>2, <2>1, <2>2
<1>5. PICK a : a = Answer(r, kind, now)
  OBVIOUS
<1>6. /\ a \in Answers /\ a.kind = kind /\ a.exchange = r.exchange
      /\ kind = "value" => a.value = now
  BY <1>4, <1>5 DEF Answer, Answers, Requests
<1>7. stream' = stream \o Frame(a)
  BY <1>2, <1>3, <1>5
<1>8. /\ stream' \in Seq(Octets)
      /\ Len(stream') = Len(stream) + HeaderBytes + BodyBytes(a)
      /\ \A i \in DOMAIN stream' :
           \/ i \in DOMAIN stream /\ stream'[i] = stream[i]
           \/ stream'[i].of = a /\ stream'[i].at \in 1 .. HeaderBytes + BodyBytes(a)
  BY <1>6, <1>7, FrameAdds
<1>9. AnswerTo(a, requests[1])
  BY <1>1, <1>4, <1>6 DEF AnswerTo, Asked
<1>10. Says
  BY <1>1, <1>8, <1>9 DEF Says
<1>11. Placed'
  <2>1. Placed
    BY DEF TypeOK, Placed
  <2>2. QED
    BY <1>8, <2>1 DEF Placed
<1>12. arrived' \in 0 .. Len(stream')
  <2>1. Len(stream) \in Nat /\ BodyBytes(a) \in Nat /\ arrived \in 0 .. Len(stream)
    BY <1>6, StreamFacts, BodyFacts DEF TypeOK
  <2>2. arrived' = arrived
    BY DEF DriveAnswers
  <2>3. QED
    BY <1>8, <2>1, <2>2 DEF HeaderBytes
<1>13. QED
  BY <1>3, <1>4, <1>8, <1>10, <1>11, <1>12

LEMMA Moves ==
  ASSUME TypeOK, Typed, Paced, Asked, Accepted, [Next]_vars
  PROVE  Typed' /\ Asks /\ Says /\ Placed' /\ arrived' \in 0 .. Len(stream')
<1>1. calls \in Nat /\ calls' \in {calls, calls + 1}
  BY Course DEF Typed, Goes, Begins, Call, Ends
<1>2. CASE Call \/ ReadBreaks \/ DrainEnds \/ Foreign \/ Disconnect \/ UNCHANGED vars
  <2>1. requests' = requests /\ stream' = stream /\ arrived' = arrived
    BY <1>2 DEF Call, ReadBreaks, DrainEnds, Foreign, Disconnect, vars, drive
  <2>2. QED
    BY <1>1, <2>1, SameRequests, SameStream DEF Typed
<1>3. CASE Deliver
  <2>1. requests' = requests /\ stream' = stream
    BY <1>3 DEF Deliver, drive
  <2>2. arrived' \in 0 .. Len(stream')
    <3>1. PICK n \in Chunks :
            arrived' = IF arrived + n < Len(stream) THEN arrived + n ELSE Len(stream)
      BY <1>3 DEF Deliver
    <3>2. n \in Nat /\ Len(stream) \in Nat /\ arrived \in 0 .. Len(stream)
      BY TcpAssumption, StreamFacts DEF TypeOK
    <3>3. QED
      BY <2>1, <3>1, <3>2
  <2>3. QED
    BY <1>1, <2>1, <2>2, SameRequests, SameStream DEF Typed
<1>4. CASE Send
  <2>1. stream' = stream /\ arrived' = arrived
    BY <1>4 DEF Send
  <2>2. requests' \in Seq(Requests) /\ Asks
    <3>1. CASE requests' = requests
      BY <3>1, SameRequests
    <3>2. CASE requests' # requests
      <4>1. PICK r : r = [call |-> calls, exchange |-> exchanges', does |-> call]
        OBVIOUS
      <4>2. /\ requests' = Append(requests, r) /\ call' = call /\ call \in Link!Calls
            /\ call # Idle /\ exchanges' = exchanges + 1
        BY <1>4, <3>2, <4>1 DEF Send, GoesOn, TypeOK
      <4>3. /\ exchanges' \in Nat /\ exchanges' > Before /\ exchanges' > 0
        BY <4>2, OrderFacts
      <4>4. r \in Requests /\ r.call = calls /\ r.exchange = exchanges' /\ r.does = call
        BY <4>1, <4>2, <4>3 DEF Requests, Typed
      <4>5. NewRequest(r)
        BY <4>2, <4>3, <4>4 DEF NewRequest
      <4>6. /\ requests' \in Seq(Requests)
            /\ \A i \in DOMAIN requests' : i \in DOMAIN requests \/ i = Len(requests) + 1
        BY <4>2, <4>4, AppendAdds, RequestFacts
      <4>7. Asks
        BY <4>2, <4>4, <4>5, <4>6, AppendAdds DEF Asks
      <4>8. QED
        BY <4>6, <4>7
    <3>3. QED
      BY <3>1, <3>2
  <2>3. QED
    BY <1>1, <2>1, <2>2, SameStream DEF Typed
<1>5. CASE ReadHeader \/ ReadBody \/ ReadFails \/ DrainReads
  <2>1. requests' = requests
    BY <1>5 DEF ReadHeader, ReadBody, ReadFails, DrainReads, drive
  <2>2. Len(stream) \in Nat /\ arrived \in 0 .. Len(stream) /\ arrived \in 0 .. arrived
    BY StreamFacts DEF TypeOK
  <2>3. \E n \in 0 .. arrived : Take(n)
    <3>1. CASE ReadHeader
      BY <2>2, <3>1 DEF ReadHeader, HeaderBytes
    <3>2. CASE ReadBody
      <4>1. BodyBytes(header) \in Nat /\ arrived >= BodyBytes(header)
        BY <3>2, BodyFacts DEF ReadBody, Accepted
      <4>2. QED
        BY <2>2, <3>2, <4>1 DEF ReadBody
    <3>3. CASE ReadFails \/ DrainReads
      BY <2>2, <3>3 DEF ReadFails, DrainReads
    <3>4. QED
      BY <1>5, <3>1, <3>2, <3>3
  <2>4. QED
    BY <1>1, <2>1, <2>3, SameRequests, TakenStream DEF Typed
<1>6. CASE DriveAnswers
  <2>1. requests # <<>> /\ requests' = Tail(requests)
    BY <1>6 DEF DriveAnswers
  <2>2. QED
    BY <1>1, <1>6, <2>1, SilentRequests, AnsweredStream DEF Typed
<1>7. CASE DriveSilent
  <2>1. requests # <<>> /\ requests' = Tail(requests) /\ stream' = stream /\ arrived' = arrived
    BY <1>7 DEF DriveSilent
  <2>2. QED
    BY <1>1, <2>1, SilentRequests, SameStream DEF Typed
<1>8. QED
  BY <1>2, <1>3, <1>4, <1>5, <1>6, <1>7 DEF Next, Step

-----------------------------------------------------------------------------
(* The other parts of the invariant.                                       *)

LEMMA RegisterKept ==
  ASSUME TypeOK, Typed, Asked, [Next]_vars
  PROVE  register' \in Values /\ taken' \subseteq Values
<1>1. CASE DriveAnswers
  BY <1>1, AnsweredStream
<1>2. CASE DriveSilent
  <2>1. PICK r \in Requests : r = Head(requests)
    BY <1>2, TailLeaves, RequestFacts DEF DriveSilent
  <2>2. QED
    BY <1>2, <2>1, CarriedFacts DEF DriveSilent, TypeOK
<1>3. CASE Call \/ Step \/ Foreign \/ Deliver \/ Disconnect \/ UNCHANGED vars
  BY <1>3 DEF Call, Step, Send, ReadHeader, ReadBody, ReadFails, Retryable, ReadBreaks, DrainReads,
     DrainEnds, Foreign, Deliver, Disconnect, vars, client, drive, End, GoesOn, TypeOK
<1>4. QED
  BY <1>1, <1>2, <1>3 DEF Next

LEMMA CountsKept ==
  ASSUME TypeOK, Typed, Paced, [Next]_vars
  PROVE  attempt' \in 0 .. Retries /\ exchanges' \in 0 .. MaxExchanges
<1>1. PICK b \in Nat, a \in Nat, e \in Nat, most \in Nat, again \in Nat :
        /\ b = Before /\ a = attempt /\ e = exchanges /\ most = MaxExchanges
        /\ again = Retries /\ a <= again
  BY Numbers
<1>2. e <= most
  BY <1>1 DEF TypeOK
<1>3. CASE Send
  <2>1. stage = "send" /\ call # Idle /\ Sent = 0
    BY <1>3 DEF Send, TypeOK, Sent
  <2>2. b + again < most /\ e = b + a + 0
    BY <1>1, <2>1, Numbers DEF Paced
  <2>3. exchanges' = e + 1 /\ attempt' \in {0, a}
    BY <1>1, <1>3 DEF Send, Retryable, End, GoesOn
  <2>4. QED
    BY <1>1, <2>2, <2>3
<1>4. CASE DrainEnds
  <2>1. a < again /\ attempt' = a + 1 /\ exchanges' = e
    BY <1>1, <1>4 DEF DrainEnds, Paced, Again
  <2>2. QED
    BY <1>1, <1>2, <2>1
<1>5. CASE ~(Send \/ DrainEnds)
  <2>1. attempt' \in {0, a} /\ exchanges' = e
    BY <1>1, <1>5 DEF Next, Step, Call, ReadHeader, ReadBody, ReadFails, Retryable, ReadBreaks,
       DrainReads, DriveAnswers, DriveSilent, Foreign, Deliver, Disconnect, vars, client,
       End, GoesOn
  <2>2. QED
    BY <1>1, <1>2, <2>1
<1>6. QED
  BY <1>3, <1>4, <1>5

LEMMA PlaceKept ==
  ASSUME TypeOK, Accepted, [Next]_vars
  PROVE  /\ link' \in {"open", "ended", "reset"} /\ prompt' \in BOOLEAN
         /\ stage' \in {"idle", "send", "header", "body", "drain"}
         /\ call' \in Link!Calls \cup {Idle}
         /\ stage' = "idle" <=> call' = Idle
         /\ answer' \in Values \cup {None, Failed}
<1>1. CASE Call
  BY <1>1, CallFacts DEF Call, TypeOK
<1>2. CASE Send
  BY <1>2 DEF Send, Retryable, End, GoesOn, TypeOK
<1>3. CASE ReadHeader
  BY <1>3 DEF ReadHeader, End, GoesOn, TypeOK
<1>4. CASE ReadBody
  <2>1. header.kind = "value" => header.value \in Values
    BY <1>4 DEF ReadBody, Accepted, TypeOK
  <2>2. (IF header.kind = "value" THEN header.value ELSE Failed) \in Values \cup {Failed}
    BY <2>1
  <2>3. QED
    BY <1>4, <2>2 DEF ReadBody, End, TypeOK
<1>5. CASE ReadFails
  BY <1>5 DEF ReadFails, Retryable, End, GoesOn, TypeOK
<1>6. CASE ReadBreaks \/ DrainReads \/ DrainEnds
  BY <1>6 DEF ReadBreaks, DrainReads, DrainEnds, End, client, TypeOK
<1>7. CASE DriveAnswers \/ DriveSilent \/ Foreign \/ Deliver \/ Disconnect \/ UNCHANGED vars
  BY <1>7 DEF DriveAnswers, DriveSilent, Foreign, Deliver, Disconnect, vars, client, TypeOK
<1>8. QED
  BY <1>1, <1>2, <1>3, <1>4, <1>5, <1>6, <1>7 DEF Next, Step

LEMMA TypesKept ==
  ASSUME TypeOK, Typed, Paced, Asked, Accepted, [Next]_vars
  PROVE  TypeOK'
<1>1. Typed' /\ Asks /\ Placed' /\ arrived' \in 0 .. Len(stream')
  BY Moves
<1>2. \A i \in DOMAIN requests' : /\ requests'[i].call \in 1 .. calls'
                                  /\ requests'[i].exchange \in 1 .. exchanges'
  BY <1>1, AskedKept, Course
<1>3. \A i \in DOMAIN requests' : requests'[i].does \in Link!Calls
  <2>1. \A i \in DOMAIN requests' : requests'[i] \in Requests
    BY <1>1, LenProperties, ElementOfSeq DEF Typed
  <2>2. QED
    BY <2>1 DEF Requests
<1>4. QED
  BY <1>1, <1>2, <1>3, RegisterKept, CountsKept, PlaceKept DEF TypeOK, Placed

LEMMA PacedKept ==
  ASSUME TypeOK, Typed, Paced, Accepted, [Next]_vars
  PROVE  Paced'
<1>1. PICK b \in Nat, e \in Nat : b = Before /\ e = exchanges /\ b <= e
  BY OrderFacts
<1>2. Before' \in Nat
  BY <1>1, Course DEF Goes, Begins, Ends
<1>3. /\ call' = Idle => attempt' = 0 /\ taken' = {}
      /\ stage' = "drain" => Again'
      /\ attempt' > 0 => call'.kind = "read"
  <2>1. CASE Call
    BY <2>1, CallFacts DEF Call, TypeOK, Paced
  <2>2. CASE Send \/ ReadHeader \/ ReadBody \/ ReadFails \/ ReadBreaks
    BY <2>2 DEF Send, ReadHeader, ReadBody, ReadFails, Retryable, ReadBreaks, End, GoesOn, Again,
       TypeOK, Paced
  <2>3. CASE DrainReads \/ DrainEnds
    BY <2>3 DEF DrainReads, DrainEnds, client, Again, TypeOK, Paced
  <2>4. CASE DriveAnswers \/ DriveSilent
    <3>1. UNCHANGED client /\ (call = Idle => taken' = taken)
      BY <2>4 DEF DriveAnswers, DriveSilent, Carried
    <3>2. QED
      BY <3>1 DEF client, Again, Paced
  <2>5. CASE Foreign \/ Deliver \/ Disconnect \/ UNCHANGED vars
    BY <2>5 DEF Foreign, Deliver, Disconnect, vars, client, Again, Paced
  <2>6. QED
    BY <2>1, <2>2, <2>3, <2>4, <2>5 DEF Next, Step
<1>4. call' # Idle => Before' + Retries < MaxExchanges /\ calls' > 0
  <2>1. CASE Goes
    BY <2>1 DEF Goes, Paced
  <2>2. CASE Begins
    <3>1. e + Retries < MaxExchanges /\ calls' = calls + 1 /\ Before' = e /\ calls \in Nat
      BY <1>1, <2>2 DEF Begins, Call, Typed
    <3>2. QED
      BY <3>1
  <2>3. CASE Ends
    BY <2>3 DEF Ends
  <2>4. QED
    BY <2>1, <2>2, <2>3, Course
<1>5. QED
  BY <1>2, <1>3, <1>4 DEF Paced

LEMMA WrittenOnceKept ==
  ASSUME TypeOK, Typed, Paced, Asked, WrittenOnce, [Next]_vars
  PROVE  WrittenOnce'
<1>1. CASE requests' = requests
  BY <1>1 DEF WrittenOnce
<1>2. CASE requests # <<>> /\ requests' = Tail(requests)
  <2>1. \A i \in DOMAIN requests' :
          i \in Nat /\ i + 1 \in DOMAIN requests /\ requests'[i] = requests[i + 1]
    BY <1>2, TailLeaves
  <2>2. ASSUME NEW i \in DOMAIN requests', NEW j \in DOMAIN requests',
               requests'[i].does.kind = "write", requests'[i].call = requests'[j].call
        PROVE  i = j
    <3>1. i + 1 = j + 1
      BY <2>1, <2>2 DEF WrittenOnce
    <3>2. QED
      BY <2>1, <3>1
  <2>3. QED
    BY <2>2 DEF WrittenOnce
<1>3. CASE Send /\ requests' # requests
  <2>1. PICK r : r = [call |-> calls, exchange |-> exchanges', does |-> call]
    OBVIOUS
  <2>2. /\ requests' = Append(requests, r) /\ call \in Link!Calls /\ call # Idle
        /\ exchanges' = exchanges + 1 /\ Sent = 0
    BY <1>3, <2>1 DEF Send, TypeOK, Sent
  <2>3. exchanges' \in Nat /\ r \in Requests /\ r.call = calls /\ r.does = call
    BY <2>1, <2>2, OrderFacts DEF Requests
  <2>4. /\ \A i \in DOMAIN requests' : i \in DOMAIN requests \/ i = Len(requests) + 1
        /\ \A i \in DOMAIN requests : requests'[i] = requests[i]
        /\ requests'[Len(requests) + 1] = r
    BY <2>2, <2>3, AppendAdds, RequestFacts
  <2>5. ASSUME call.kind = "write", NEW i \in DOMAIN requests, requests[i].call = calls
        PROVE  FALSE
    <3>1. attempt = 0 /\ exchanges = Before + attempt + 0 /\ Before \in Nat
      BY <2>2, <2>5, Numbers DEF Paced
    <3>2. PICK x \in Nat, e \in Nat : x = requests[i].exchange /\ e = exchanges /\ x <= e
      BY OrderFacts
    <3>3. x > Before /\ e = Before
      BY <2>2, <2>5, <3>1, <3>2 DEF Asked
    <3>4. QED
      BY <3>2, <3>3
  <2>6. \A i \in DOMAIN requests : requests[i].call = calls => requests[i].does = call
    BY <2>2 DEF Asked
  <2>7. QED
    BY <2>3, <2>4, <2>5, <2>6 DEF WrittenOnce
<1>4. QED
  BY <1>1, <1>2, <1>3 DEF Next, Step, Call, Send, ReadHeader, ReadBody, ReadFails,
     ReadBreaks, DrainReads, DrainEnds, DriveAnswers, DriveSilent, Foreign, Deliver,
     Disconnect, vars, drive

LEMMA UntouchedKept ==
  ASSUME TypeOK, Typed, Paced, Asked, WrittenOnce, Untouched, [Next]_vars
  PROVE  Untouched'
<1>1. CASE Call
  <2>1. taken' = {}
    BY <1>1 DEF Call, TypeOK, Paced
  <2>2. QED
    BY <2>1 DEF Untouched
<1>2. CASE Send /\ stage' # "idle"
  <2>1. stage = "send" /\ stage' # "send" /\ call' = call /\ taken' = taken /\ call # Idle
    BY <1>2 DEF Send, Retryable, End, GoesOn, TypeOK
  <2>2. QED
    BY <2>1 DEF Untouched
<1>3. CASE DrainEnds
  BY <1>3 DEF DrainEnds, Paced, Again, Untouched
<1>4. CASE stage' = "idle" /\ call' = Idle
  BY <1>4 DEF Untouched
<1>5. CASE (ReadHeader \/ ReadFails) /\ stage' # "idle"
  <2>1. /\ UNCHANGED <<call, calls, taken, requests>> /\ stage' # "send"
    BY <1>5 DEF ReadHeader, ReadFails, Retryable, End, GoesOn, drive
  <2>2. QED
    BY <2>1 DEF Untouched
<1>6. CASE DrainReads \/ Foreign \/ Deliver \/ Disconnect \/ UNCHANGED vars
  BY <1>6 DEF DrainReads, Foreign, Deliver, Disconnect, vars, client, drive, Untouched
<1>7. CASE (DriveAnswers \/ DriveSilent) /\ call # Idle /\ call.kind = "write"
  <2>1. PICK r : /\ r = Head(requests) /\ r = requests[1] /\ 1 \in DOMAIN requests
                 /\ Carried(r) \/ UNCHANGED <<register, taken>>
    BY <1>7, TailLeaves DEF DriveAnswers, DriveSilent
  <2>2. UNCHANGED client /\ requests # <<>> /\ requests' = Tail(requests)
    BY <1>7 DEF DriveAnswers, DriveSilent
  <2>3. stage' = stage /\ call' = call /\ calls' = calls
    BY <2>2 DEF client
  <2>4. CASE r.call # calls
    <3>1. taken' = taken
      BY <2>1, <2>4 DEF Carried
    <3>2. (\E i \in DOMAIN requests' : requests'[i].call = calls) =>
            \E i \in DOMAIN requests : requests[i].call = calls
      BY <2>2, TailLeaves
    <3>3. QED
      BY <2>3, <3>1, <3>2 DEF Untouched
  <2>5. CASE r.call = calls
    <3>1. requests[1].does = call /\ requests[1].exchange > Before
      BY <1>7, <2>1, <2>5 DEF Asked
    <3>2. ASSUME NEW i \in DOMAIN requests', requests'[i].call = calls
          PROVE  FALSE
      <4>1. /\ i \in Nat /\ i > 0 /\ i + 1 \in DOMAIN requests
            /\ requests[i + 1].call = requests[1].call
        BY <2>1, <2>2, <2>5, <3>2, TailLeaves
      <4>2. i + 1 = 1
        BY <1>7, <2>1, <3>1, <4>1 DEF WrittenOnce
      <4>3. QED
        BY <4>1, <4>2
    <3>3. ASSUME stage = "send"
          PROVE  FALSE
      <4>1. attempt = 0 /\ Sent = 0
        BY <1>7, <3>3, Numbers DEF Paced, Sent
      <4>2. PICK x \in Nat, e \in Nat : x = requests[1].exchange /\ e = exchanges /\ x <= e
        BY <2>1, OrderFacts
      <4>3. x > Before /\ e = Before + 0 + 0 /\ Before \in Nat
        BY <3>1, <4>1, <4>2, Numbers
      <4>4. QED
        BY <4>2, <4>3
    <3>4. QED
      BY <2>3, <3>2, <3>3 DEF Untouched
  <2>6. QED
    BY <2>4, <2>5
<1>8. CASE (DriveAnswers \/ DriveSilent) /\ ~(call # Idle /\ call.kind = "write")
  BY <1>8 DEF DriveAnswers, DriveSilent, client, Untouched
<1>9. QED
  BY <1>1, <1>2, <1>3, <1>4, <1>5, <1>6, <1>7, <1>8
  DEF Next, Step, Send, ReadHeader, ReadBody, ReadFails, Retryable, ReadBreaks, End

\* An answer that is accepted is one to this call.
LEMMA OwnAnswer ==
  ASSUME TypeOK, Typed, Paced, Answered, Free, stage = "header",
         arrived >= HeaderBytes, IsOwn(NextHeader)
  PROVE  /\ stream # <<>> /\ NextHeader = stream[1].of /\ NextHeader \in Answers
         /\ NextHeader.kind = "value" => NextHeader.value \in taken
<1>1. /\ 1 \in DOMAIN stream /\ stream # <<>>
  BY StreamFacts DEF TypeOK, HeaderBytes
<1>2. NextHeader = stream[1].of /\ NextHeader \in Answers
  BY <1>1, StreamFacts DEF IsOwn, NextHeader
<1>3. PICK b \in Nat, a \in Nat, e \in Nat, x \in Nat :
        b = Before /\ a = attempt /\ e = exchanges /\ x = stream[1].of.exchange
  BY <1>1, Numbers, StreamFacts
<1>4. e = b + a + 1 /\ a <= Retries /\ Retries \in Nat
  BY <1>3, Numbers DEF Sent
<1>5. Tid(x) = Tid(b + (a + 1)) /\ a + 1 \in 1 .. Retries + 1
  <2>1. Tid(x) = Tid(e)
    BY <1>2, <1>3 DEF IsOwn
  <2>2. e = b + (a + 1) /\ a + 1 \in 1 .. Retries + 1
    BY <1>3, <1>4
  <2>3. QED
    BY <2>1, <2>2
<1>6. ~(x <= b)
  BY <1>1, <1>3, <1>5 DEF Free, Distinct, TypeOK
<1>7. stream[1].of.exchange > Before
  BY <1>3, <1>6
<1>8. QED
  BY <1>1, <1>2, <1>7 DEF Answered

LEMMA AcceptedKept ==
  ASSUME TypeOK, Typed, Paced, Answered, Free, Accepted, [Next]_vars
  PROVE  Accepted'
<1>1. CASE ReadHeader /\ stage' = "body"
  <2>1. IsOwn(NextHeader) /\ header' = NextHeader /\ taken' = taken
    BY <1>1 DEF ReadHeader, Fits, End, GoesOn
  <2>2. QED
    BY <1>1, <2>1, OwnAnswer DEF ReadHeader, Accepted
<1>2. CASE stage' # "body"
  BY <1>2 DEF Accepted
<1>3. CASE DriveAnswers \/ DriveSilent
  <2>1. UNCHANGED client /\ taken \subseteq taken'
    BY <1>3 DEF DriveAnswers, DriveSilent, Carried
  <2>2. QED
    BY <2>1 DEF client, Accepted
<1>4. CASE Foreign \/ Deliver \/ Disconnect \/ UNCHANGED vars
  BY <1>4 DEF Foreign, Deliver, Disconnect, vars, client, Accepted
<1>5. QED
  BY <1>1, <1>2, <1>3, <1>4 DEF Next, Step, Call, Send, ReadBody, ReadFails, Retryable, ReadBreaks,
     DrainReads, DrainEnds, End, GoesOn, client

LEMMA HeaderInStep ==
  ASSUME TypeOK, Typed, Typed', Paced, Answered, Free, InStep, ReadHeader,
         prompt, prompt', link = "open"
  PROVE  /\ stage' = "body" /\ requests' = <<>>
         /\ Len(stream') = BodyBytes(header')
<1>1. /\ Len(stream) \in Nat /\ Len(stream) >= HeaderBytes /\ stream # <<>>
      /\ arrived \in 0 .. Len(stream) /\ HeaderBytes \in 0 .. arrived
  BY StreamFacts DEF ReadHeader, TypeOK, HeaderBytes
<1>2. requests = <<>> /\ stream = Frame(stream[1].of) /\ stream[1].of.exchange = exchanges
  BY <1>1 DEF ReadHeader, InStep
<1>3. PICK a \in Answers : a = stream[1].of
  BY <1>1, StreamFacts
<1>4. 1 \in DOMAIN Frame(a) /\ Frame(a)[1] = [of |-> a, at |-> 1]
  BY <1>3, FrameFacts, BodyFacts DEF HeaderBytes
<1>5. NextHeader = a
  BY <1>2, <1>3, <1>4 DEF NextHeader
<1>6. stage' = "body" /\ header' = a
  BY <1>5 DEF ReadHeader, End
<1>7. Len(stream') = Len(stream) - HeaderBytes
  BY <1>1, TakeLeaves DEF ReadHeader
<1>8. Len(stream) = HeaderBytes + BodyBytes(a) /\ BodyBytes(a) \in Nat
  BY <1>2, <1>3, FrameFacts, BodyFacts
<1>9. Len(stream') = BodyBytes(a)
  BY <1>7, <1>8 DEF HeaderBytes
<1>10. QED
  BY <1>2, <1>6, <1>9 DEF ReadHeader, drive

LEMMA BodyInStep ==
  ASSUME TypeOK, Typed, Typed', Accepted, InStep, ReadBody, prompt, link = "open"
  PROVE  stage' = "idle" /\ requests' = <<>> /\ stream' = <<>>
<1>1. /\ header \in Answers /\ BodyBytes(header) \in Nat /\ Len(stream) \in Nat
      /\ requests = <<>> /\ Len(stream) = BodyBytes(header)
      /\ arrived \in 0 .. Len(stream) /\ arrived >= BodyBytes(header)
  BY BodyFacts, StreamFacts DEF ReadBody, Accepted, InStep, TypeOK
<1>2. BodyBytes(header) \in 0 .. arrived /\ Take(BodyBytes(header))
  BY <1>1 DEF ReadBody
<1>3. Len(stream') = Len(stream) - BodyBytes(header) /\ stream' \in Seq(Octets)
  BY <1>2, TakeLeaves
<1>4. Len(stream') = 0
  BY <1>1, <1>3
<1>5. stream' = <<>>
  BY <1>3, <1>4, EmptySeq
<1>6. QED
  BY <1>1, <1>5 DEF ReadBody, End, drive

LEMMA AnswerInStep ==
  ASSUME TypeOK, Typed, Paced, Asked, InStep, DriveAnswers, prompt, link = "open"
  PROVE  /\ stage' = "header" /\ requests' = <<>> /\ stream' # <<>>
         /\ stream' = Frame(stream'[1].of) /\ stream'[1].of.exchange = exchanges
<1>1. /\ stage = "header" /\ stream = <<>> /\ Len(requests) <= 1
      /\ \A i \in DOMAIN requests : requests[i].exchange = exchanges
  BY DEF DriveAnswers, InStep, TypeOK
<1>2. PICK r \in Requests : r = Head(requests) /\ r = requests[1] /\ 1 \in DOMAIN requests
  BY TailLeaves, RequestFacts DEF DriveAnswers
<1>3. requests' = <<>>
  <2>1. Len(requests) = 1
    BY <1>1, <1>2, RequestFacts
  <2>2. requests' \in Seq(Requests) /\ Len(requests') = 0
    BY <2>1, TailLeaves DEF DriveAnswers
  <2>3. QED
    BY <2>2, EmptySeq
<1>4. PICK kind \in AnswerKinds :
        stream' = stream \o Frame(Answer(r, kind, register'))
  BY <1>2 DEF DriveAnswers
<1>5. PICK now : now = register'
  OBVIOUS
<1>6. PICK a : a = Answer(r, kind, now)
  OBVIOUS
<1>7. a \in Answers /\ a.exchange = exchanges
  <2>1. now \in Values
    BY <1>5, AnsweredStream
  <2>2. QED
    BY <1>1, <1>2, <1>6, <2>1 DEF Answer, Answers, Requests
<1>8. Frame(a) \in Seq(Octets) /\ 1 \in DOMAIN Frame(a) /\ Frame(a)[1].of = a
      /\ Len(Frame(a)) > 0
  BY <1>7, FrameFacts, BodyFacts DEF HeaderBytes
<1>9. stream' = Frame(a)
  BY <1>1, <1>4, <1>5, <1>6, <1>8, ConcatEmptySeq
<1>10. stream' # <<>>
  BY <1>8, <1>9, EmptySeq
<1>11. QED
  BY <1>1, <1>3, <1>7, <1>8, <1>9, <1>10 DEF DriveAnswers, client

LEMMA InStepKept ==
  ASSUME TypeOK, Typed, Typed', Paced, Asked, Answered, Free, Accepted, InStep, [Next]_vars
  PROVE  InStep'
<1> SUFFICES ASSUME prompt', link' = "open"
             PROVE  InStep'
  BY DEF InStep
<1>1. prompt /\ link = "open" /\ ~ReadFails /\ ~ReadBreaks /\ ~Disconnect
  BY DEF Next, Step, Call, Send, ReadHeader, ReadBody, ReadFails, Retryable, ReadBreaks, DrainReads,
     DrainEnds, DriveAnswers, DriveSilent, Foreign, Deliver, Disconnect, vars, TypeOK
<1>2. stage # "drain"
  BY <1>1 DEF InStep
<1>3. CASE Call
  BY <1>1, <1>3 DEF Call, drive, InStep
<1>4. CASE Send
  <2>1. PICK r : r = [call |-> calls, exchange |-> exchanges', does |-> call]
    OBVIOUS
  <2>2. /\ stream = <<>> /\ requests = <<>> /\ stage' = "header" /\ stream' = stream
        /\ requests' = Append(requests, r) /\ exchanges' = exchanges + 1
        /\ call \in Link!Calls
    BY <1>1, <1>4, <2>1 DEF Send, Retryable, InStep, TypeOK
  <2>3. exchanges' \in Nat /\ r \in Requests /\ r.exchange = exchanges'
    BY <2>1, <2>2, OrderFacts DEF Requests, Typed
  <2>4. /\ Len(requests) = 0 /\ Len(requests') = Len(requests) + 1
        /\ DOMAIN requests' = 1 .. Len(requests) + 1 /\ requests'[Len(requests) + 1] = r
    BY <2>2, <2>3, AppendAdds, RequestFacts
  <2>5. Len(requests') <= 1 /\ \A i \in DOMAIN requests' : requests'[i].exchange = exchanges'
    BY <2>3, <2>4
  <2>6. QED
    BY <2>2, <2>5 DEF InStep
<1>5. CASE ReadHeader
  BY <1>1, <1>5, HeaderInStep DEF InStep
<1>6. CASE ReadBody
  BY <1>1, <1>6, BodyInStep DEF InStep
<1>7. CASE DrainReads \/ DrainEnds
  BY <1>2, <1>7 DEF DrainReads, DrainEnds
<1>8. CASE DriveAnswers
  <2>1. exchanges' = exchanges
    BY <1>8 DEF DriveAnswers, client
  <2>2. QED
    BY <1>1, <1>8, <2>1, AnswerInStep DEF InStep
<1>9. CASE DriveSilent
  <2>1. /\ stage = "header" /\ stream = <<>> /\ Len(requests) <= 1
        /\ \A i \in DOMAIN requests : requests[i].exchange = exchanges
    BY <1>1, <1>9 DEF DriveSilent, InStep, TypeOK
  <2>2. requests' \in Seq(Requests) /\ Len(requests') <= 1
        /\ \A i \in DOMAIN requests' : requests'[i].exchange = exchanges
    <3>1. Len(requests) \in Nat
      BY RequestFacts
    <3>2. QED
      BY <1>9, <2>1, <3>1, TailLeaves DEF DriveSilent
  <2>3. QED
    BY <1>9, <2>1, <2>2 DEF DriveSilent, client, InStep
<1>10. CASE Foreign \/ Deliver \/ UNCHANGED vars
  BY <1>1, <1>10 DEF Foreign, Deliver, vars, client, drive, InStep
<1>11. QED
  BY <1>1, <1>3, <1>4, <1>5, <1>6, <1>7, <1>8, <1>9, <1>10 DEF Next, Step

LEMMA TcpInit == Init => TcpInv
<1> SUFFICES ASSUME Init PROVE TcpInv
  OBVIOUS
<1>1. TypeOK
  BY TcpAssumption DEF Init, TypeOK
<1>2. Typed /\ DOMAIN requests = {} /\ DOMAIN stream = {}
  BY EmptySeq DEF Init, Typed
<1>3. Before \in Nat
  BY DEF Init, Before, Sent
<1>4. QED
  BY <1>1, <1>2, <1>3 DEF Init, TcpInv, Paced, Asked, Answered, Free, WrittenOnce,
     Untouched, Accepted, InStep

LEMMA TcpStep == TcpInv /\ [Next]_vars => TcpInv'
<1> SUFFICES ASSUME TcpInv, [Next]_vars PROVE TcpInv'
  OBVIOUS
<1> USE DEF TcpInv
<1>1. Typed' /\ Asks /\ Says
  BY Moves
<1>2. TypeOK' /\ Paced'
  BY TypesKept, PacedKept
<1>3. Asked' /\ Answered' /\ Free'
  BY <1>1, Course, AskedKept, AnsweredKept, FreeKept
<1>4. WrittenOnce' /\ Untouched' /\ Accepted' /\ InStep'
  BY <1>1, WrittenOnceKept, UntouchedKept, AcceptedKept, InStepKept
<1>5. QED
  BY <1>1, <1>2, <1>3, <1>4

\* The client, the drive and the connection keep to their types: a request is of a
\* call that was made, and an attempt is one of those the settings allow.
THEOREM TcpTypes == Spec => []TypeOK
<1>1. TcpInv => TypeOK
  BY DEF TcpInv
<1>2. QED
  BY TcpInit, TcpStep, <1>1, PTL DEF Spec

\* A call that was answered in time, and not refused by the header of its answer,
\* leaves the connection in step: the exchange reads neither less nor more than what
\* its answer takes, also when it is an exception or refused for what it says.
THEOREM ExchangeLeavesNothing == Spec => []LeavesNothing
<1>1. TcpInv => LeavesNothing
  BY DEF TcpInv, InStep, LeavesNothing
<1>2. QED
  BY TcpInit, TcpStep, <1>1, PTL DEF Spec

-----------------------------------------------------------------------------
(* The client keeps the promise of RegisterLink.                           *)

LinkVars == <<register, call, calls, taken, Late, answer>>

Given(i) == requests[i].does.kind = "write" /\ ~(requests[i].call = calls /\ call # Idle)
Write(i) == [call |-> requests[i].call, value |-> requests[i].does.value]

LEMMA LateFacts ==
  ASSUME NEW w
  PROVE  w \in Late <=> \E i \in DOMAIN requests : Given(i) /\ w = Write(i)
BY DEF Late, Given, Write

LEMMA LinkInit == Init => Link!Init
BY DEF Init, Link!Init, Late

\* A request that is not of this call stays given up, and one of this call is none.
LEMMA LateStays ==
  ASSUME requests' = requests, call' = call, calls' = calls
  PROVE  Late' = Late
BY DEF Late

\* The oldest request leaves, and with it what it was.
LEMMA LateShrinks ==
  ASSUME Typed, WrittenOnce, requests # <<>>, requests' = Tail(requests),
         call' = call, calls' = calls
  PROVE  /\ Given(1) => Write(1) \in Late /\ Late' = Late \ {Write(1)}
         /\ ~Given(1) => Late' = Late
<1>1. /\ 1 \in DOMAIN requests /\ DOMAIN requests = 1 .. Len(requests)
      /\ DOMAIN requests' = 1 .. Len(requests') /\ Len(requests') = Len(requests) - 1
      /\ Len(requests) \in Nat
      /\ \A i \in DOMAIN requests' : i + 1 \in DOMAIN requests /\ requests'[i] = requests[i + 1]
  BY TailLeaves, RequestFacts
<1>2. \A w : w \in Late' <=> \E i \in DOMAIN requests' : Given(i)' /\ w = Write(i)'
  BY DEF Late, Given, Write
<1>3. \A i \in DOMAIN requests' : (Given(i)' <=> Given(i + 1)) /\ Write(i)' = Write(i + 1)
  BY <1>1 DEF Given, Write
<1>4. \A j \in DOMAIN requests : j # 1 => j - 1 \in DOMAIN requests' /\ (j - 1) + 1 = j
  BY <1>1
<1>5. \A w : w \in Late' <=> \E j \in DOMAIN requests : j # 1 /\ Given(j) /\ w = Write(j)
  <2> SUFFICES ASSUME NEW w
               PROVE  w \in Late' <=> \E j \in DOMAIN requests : j # 1 /\ Given(j) /\ w = Write(j)
    OBVIOUS
  <2>1. ASSUME NEW i \in DOMAIN requests', Given(i)', w = Write(i)'
        PROVE  \E j \in DOMAIN requests : j # 1 /\ Given(j) /\ w = Write(j)
    <3>1. i + 1 \in DOMAIN requests /\ i + 1 # 1
      BY <1>1, <2>1
    <3>2. Given(i + 1) /\ w = Write(i + 1)
      BY <1>3, <2>1
    <3>3. QED
      BY <3>1, <3>2
  <2>2. ASSUME NEW j \in DOMAIN requests, j # 1, Given(j), w = Write(j)
        PROVE  \E i \in DOMAIN requests' : Given(i)' /\ w = Write(i)'
    <3>1. PICK i \in DOMAIN requests' : i + 1 = j
      BY <1>4, <2>2
    <3>2. Given(i)' /\ w = Write(i)'
      BY <1>3, <2>2, <3>1
    <3>3. QED
      BY <3>2
  <2>3. QED
    BY <1>2, <2>1, <2>2
<1>6. \A j \in DOMAIN requests : Given(1) /\ Given(j) /\ Write(j) = Write(1) => j = 1
  BY <1>1 DEF WrittenOnce, Given, Write
<1>7. CASE Given(1)
  BY <1>1, <1>5, <1>6, <1>7, LateFacts
<1>8. CASE ~Given(1)
  BY <1>1, <1>5, <1>8, LateFacts
<1>9. QED
  BY <1>7, <1>8

\* When a call ends, its write is given up if the drive has not seen it.
LEMMA LateEnds ==
  ASSUME Typed, Asked, requests' = requests, calls' = calls, call # Idle, call' = Idle
  PROVE  \/ Late' = Late
         \/ /\ call.kind = "write"
            /\ \E i \in DOMAIN requests : requests[i].call = calls
            /\ Late' = Late \cup {[call |-> calls, value |-> call.value]}
<1>1. \A w : w \in Late' <=> \E i \in DOMAIN requests :
                               requests[i].does.kind = "write" /\ w = Write(i)
  BY DEF Late, Write
<1>2. \A i \in DOMAIN requests : requests[i].call = calls => requests[i].does = call
  BY DEF Asked
<1>3. CASE \E i \in DOMAIN requests : requests[i].call = calls /\ call.kind = "write"
  <2>1. PICK i \in DOMAIN requests : requests[i].call = calls /\ call.kind = "write"
    BY <1>3
  <2>2. Write(i) = [call |-> calls, value |-> call.value] /\ requests[i].does.kind = "write"
    BY <1>2, <2>1 DEF Write
  <2>3. \A j \in DOMAIN requests : requests[j].call = calls => Write(j) = Write(i)
    BY <1>2, <2>1 DEF Write
  <2>4. \A j \in DOMAIN requests : requests[j].does.kind = "write" =>
          requests[j].call = calls \/ Given(j)
    BY DEF Given
  <2>5. \A j \in DOMAIN requests : Given(j) => requests[j].does.kind = "write"
    BY DEF Given
  <2>6. \A w : w \in Late' <=> w \in Late \/ w = Write(i)
    BY <1>1, <2>1, <2>2, <2>3, <2>4, <2>5, LateFacts
  <2>7. Late' = Late \cup {Write(i)}
    BY <2>6
  <2>8. QED
    BY <2>1, <2>2, <2>7
<1>4. CASE ~ \E i \in DOMAIN requests : requests[i].call = calls /\ call.kind = "write"
  <2>1. \A i \in DOMAIN requests : requests[i].does.kind = "write" <=> Given(i)
    BY <1>2, <1>4 DEF Given
  <2>2. \A w : w \in Late' <=> w \in Late
    BY <1>1, <2>1, LateFacts
  <2>3. QED
    BY <2>2
<1>5. QED
  BY <1>3, <1>4

LEMMA LateBegins ==
  ASSUME TypeOK, Typed, Call
  PROVE  Late' = Late
<1>1. /\ requests' = requests /\ calls' = calls + 1 /\ call = Idle
      /\ \A i \in DOMAIN requests : requests[i].call # calls + 1
  <2>1. \A i \in DOMAIN requests : requests[i].call \in 1 .. calls /\ calls \in Nat
    BY DEF TypeOK, Typed
  <2>2. \A i \in DOMAIN requests : requests[i].call # calls + 1
    BY <2>1
  <2>3. QED
    BY <2>2 DEF Call, TypeOK, drive
<1>2. \A w : w \in Late' <=> \E i \in DOMAIN requests :
                               requests[i].does.kind = "write" /\ w = Write(i)
  BY <1>1 DEF Late, Write
<1>3. \A i \in DOMAIN requests : requests[i].does.kind = "write" <=> Given(i)
  BY <1>1 DEF Given
<1>4. \A w : w \in Late' <=> w \in Late
  BY <1>2, <1>3, LateFacts
<1>5. QED
  BY <1>4

LEMMA LateAsks ==
  ASSUME TypeOK, Typed, Send, stage' # "idle"
  PROVE  Late' = Late
<1>1. CASE requests' = requests
  BY <1>1, LateStays DEF Send, Retryable, GoesOn, End
<1>2. CASE requests' # requests
  <2>1. PICK r : r = [call |-> calls, exchange |-> exchanges', does |-> call]
    OBVIOUS
  <2>2. /\ requests' = Append(requests, r) /\ call \in Link!Calls /\ call # Idle
        /\ exchanges' = exchanges + 1 /\ call' = call /\ calls' = calls
    BY <1>2, <2>1 DEF Send, GoesOn, End, TypeOK
  <2>3. exchanges' \in Nat /\ r \in Requests /\ r.call = calls
    BY <2>1, <2>2 DEF Requests, Typed, TypeOK
  <2>4. /\ DOMAIN requests' = 1 .. Len(requests) + 1 /\ requests'[Len(requests) + 1] = r
        /\ \A i \in DOMAIN requests : requests'[i] = requests[i]
        /\ DOMAIN requests = 1 .. Len(requests) /\ Len(requests) \in Nat
    BY <2>2, <2>3, AppendAdds, RequestFacts
  <2>5. \A w : w \in Late' <=> \E i \in DOMAIN requests' : Given(i)' /\ w = Write(i)'
    BY DEF Late, Given, Write
  <2>6. \A i \in DOMAIN requests : (Given(i)' <=> Given(i)) /\ Write(i)' = Write(i)
    BY <2>2, <2>4 DEF Given, Write
  <2>7. PICK n : n = Len(requests) + 1 /\ requests'[n] = r
    BY <2>4
  <2>8. ~Given(n)' /\ DOMAIN requests' = DOMAIN requests \cup {n}
    BY <2>2, <2>3, <2>4, <2>7 DEF Given
  <2>9. \A w : w \in Late' <=> w \in Late
    <3> SUFFICES ASSUME NEW w
                 PROVE  w \in Late' <=> w \in Late
      OBVIOUS
    <3>1. ASSUME NEW i \in DOMAIN requests', Given(i)', w = Write(i)'
          PROVE  w \in Late
      <4>1. i \in DOMAIN requests
        BY <2>7, <2>8, <3>1
      <4>2. QED
        BY <2>6, <3>1, <4>1, LateFacts
    <3>2. ASSUME NEW i \in DOMAIN requests, Given(i), w = Write(i)
          PROVE  w \in Late'
      <4>1. i \in DOMAIN requests' /\ Given(i)' /\ w = Write(i)'
        BY <2>6, <2>8, <3>2
      <4>2. QED
        BY <2>5, <4>1
    <3>3. QED
      BY <2>5, <3>1, <3>2, LateFacts
  <2>10. QED
    BY <2>9
<1>3. QED
  BY <1>1, <1>2

\* A call that ends without the value it was to bring.
LEMMA FailureGivesUp ==
  ASSUME TcpInv, call # Idle, End(Failed), requests' = requests, calls' = calls,
         register' = register
  PROVE  Link!Next
<1>1. call' = Idle /\ answer' = Failed /\ taken' = {}
  BY DEF End
<1>2. \/ Late' = Late
      \/ /\ call.kind = "write" /\ taken = {}
         /\ Late' = Late \cup {[call |-> calls, value |-> call.value]}
  BY <1>1, LateEnds DEF TcpInv, Untouched
<1>3. Link!GiveUp
  BY <1>1, <1>2 DEF Link!GiveUp
<1>4. QED
  BY <1>3 DEF Link!Next

\* The drive takes a request, and does what is asked or nothing.
LEMMA RequestDone ==
  ASSUME TcpInv, requests # <<>>, requests' = Tail(requests), UNCHANGED client,
         Carried(Head(requests)) \/ UNCHANGED <<register, taken>>
  PROVE  [Link!Next]_LinkVars
<1>1. PICK r \in Requests : r = Head(requests) /\ r = requests[1] /\ 1 \in DOMAIN requests
  BY TailLeaves, RequestFacts DEF TcpInv
<1>2. call' = call /\ calls' = calls /\ answer' = answer
  BY DEF client
<1>3. /\ Given(1) => Write(1) \in Late /\ Late' = Late \ {Write(1)}
      /\ ~Given(1) => Late' = Late
  BY <1>2, LateShrinks DEF TcpInv
<1>4. CASE UNCHANGED <<register, taken>>
  <2>1. CASE Given(1)
    <3>1. Link!Lose
      BY <1>2, <1>3, <1>4, <2>1 DEF Link!Lose
    <3>2. QED
      BY <3>1 DEF Link!Next
  <2>2. CASE ~Given(1)
    BY <1>2, <1>3, <1>4, <2>2 DEF LinkVars
  <2>3. QED
    BY <2>1, <2>2
<1>5. CASE Carried(r) /\ Given(1)
  <2>1. register' = r.does.value /\ taken' = taken /\ Write(1).value = r.does.value
    BY <1>1, <1>5 DEF Carried, Given, Write
  <2>2. Link!CarryOutLate
    BY <1>2, <1>3, <1>5, <2>1 DEF Link!CarryOutLate
  <2>3. QED
    BY <2>2 DEF Link!Next
<1>6. CASE Carried(r) /\ r.call = calls /\ call # Idle
  <2>1. r.does = call /\ taken' = taken \cup {register'} /\ ~Given(1) /\ Late' = Late
    BY <1>1, <1>3, <1>6 DEF TcpInv, Asked, Carried, Given
  <2>2. CASE call.kind = "write"
    <3>1. taken = {} /\ register' = call.value
      BY <1>1, <1>6, <2>1, <2>2 DEF TcpInv, Untouched, Carried
    <3>2. taken' = {call.value}
      BY <2>1, <3>1
    <3>3. Link!CarryOut
      BY <1>2, <2>1, <2>2, <3>1, <3>2 DEF Link!CarryOut
    <3>4. QED
      BY <1>6, <3>3 DEF Link!Next
  <2>3. CASE call.kind # "write"
    <3>1. register' = register /\ call.kind = "read" /\ taken' = taken \cup {register}
      BY <1>6, <2>1, <2>3, CallFacts DEF TcpInv, TypeOK, Carried
    <3>2. Link!CarryOut
      BY <1>2, <2>1, <3>1 DEF Link!CarryOut
    <3>3. QED
      BY <1>6, <3>2 DEF Link!Next
  <2>4. QED
    BY <2>2, <2>3
<1>7. CASE Carried(r) /\ ~(r.call = calls /\ call # Idle) /\ ~Given(1)
  <2>1. register' = register /\ taken' = taken
    BY <1>1, <1>7 DEF Carried, Given
  <2>2. QED
    BY <1>2, <1>3, <1>7, <2>1 DEF LinkVars
<1>8. QED
  BY <1>1, <1>4, <1>5, <1>6, <1>7

LEMMA LinkStep == TcpInv /\ [Next]_vars => [Link!Next]_LinkVars
<1> SUFFICES ASSUME TcpInv, [Next]_vars PROVE [Link!Next]_LinkVars
  OBVIOUS
<1> USE DEF TcpInv
<1>1. CASE Call
  <2>1. call = Idle /\ Late' = Late
    BY <1>1, LateBegins DEF Call, TypeOK
  <2>2. Link!Begin
    BY <1>1, <2>1 DEF Call, drive, Link!Begin
  <2>3. QED
    BY <2>2 DEF Link!Next
<1>2. CASE Send
  <2>1. CASE stage' # "idle"
    <3>1. Late' = Late /\ UNCHANGED <<register, call, calls, taken, answer>>
      BY <1>2, <2>1, LateAsks DEF Send, Retryable, End, GoesOn
    <3>2. QED
      BY <3>1 DEF LinkVars
  <2>2. CASE End(Failed)
    <3>1. call # Idle /\ requests' = requests /\ calls' = calls /\ register' = register
      BY <1>2, <2>2 DEF Send, End, TypeOK
    <3>2. QED
      BY <2>2, <3>1, FailureGivesUp
  <2>3. QED
    BY <1>2, <2>1, <2>2 DEF Send, Retryable, End
<1>3. CASE ReadHeader \/ ReadFails \/ ReadBreaks
  <2>1. /\ call # Idle /\ requests' = requests /\ calls' = calls /\ register' = register
        /\ (GoesOn \/ End(Failed))
    BY <1>3 DEF ReadHeader, ReadFails, Retryable, ReadBreaks, drive, TypeOK
  <2>2. CASE GoesOn
    <3>1. Late' = Late
      BY <2>1, <2>2, LateStays DEF GoesOn
    <3>2. QED
      BY <2>1, <2>2, <3>1 DEF GoesOn, LinkVars
  <2>3. QED
    BY <2>1, <2>2, FailureGivesUp
<1>4. CASE ReadBody
  <2>1. call # Idle /\ requests' = requests /\ calls' = calls /\ register' = register
    BY <1>4 DEF ReadBody, drive, TypeOK
  <2>2. CASE header.kind = "value"
    <3>1. answer' \in taken /\ call' = Idle /\ taken' = {}
      BY <1>4, <2>2 DEF ReadBody, End, Accepted
    <3>2. Late' = Late
      BY <2>1, <3>1, LateEnds DEF Untouched
    <3>3. Link!Succeed
      BY <2>1, <3>1, <3>2 DEF Link!Succeed
    <3>4. QED
      BY <2>1, <3>3 DEF Link!Next
  <2>3. CASE header.kind # "value"
    <3>1. End(Failed)
      BY <1>4, <2>3 DEF ReadBody
    <3>2. QED
      BY <2>1, <3>1, FailureGivesUp
  <2>4. QED
    BY <2>2, <2>3
<1>5. CASE DriveAnswers \/ DriveSilent
  <2>1. /\ requests # <<>> /\ requests' = Tail(requests) /\ UNCHANGED client
        /\ Carried(Head(requests)) \/ UNCHANGED <<register, taken>>
    BY <1>5 DEF DriveAnswers, DriveSilent
  <2>2. QED
    BY <2>1, RequestDone
<1>6. CASE Foreign
  <2>1. /\ register' \in Values /\ UNCHANGED <<call, calls, taken, answer, requests>>
    BY <1>6 DEF Foreign, client
  <2>2. Link!Foreign
    BY <2>1, LateStays DEF Link!Foreign
  <2>3. QED
    BY <2>2 DEF Link!Next
<1>7. CASE DrainReads \/ DrainEnds \/ Deliver \/ Disconnect \/ UNCHANGED vars
  <2>1. UNCHANGED <<register, call, calls, taken, answer, requests>>
    BY <1>7 DEF DrainReads, DrainEnds, Deliver, Disconnect, vars, client, drive
  <2>2. QED
    BY <2>1, LateStays DEF LinkVars
<1>8. QED
  BY <1>1, <1>2, <1>3, <1>4, <1>5, <1>6, <1>7 DEF Next, Step

\* Whatever the connection delays, loses, cuts or keeps from earlier calls: a write is
\* carried out at most once for a call and an acknowledged one was, and a value that
\* read_transaction returns is one the register had during that call.
THEOREM ClientKeepsPromise == Spec => KeepsPromise
<1>1. TcpInv /\ [Next]_vars => [Link!Next]_Link!vars
  BY LinkStep DEF LinkVars, Link!vars
<1>2. QED
  BY LinkInit, LinkStep, TcpInit, TcpStep, <1>1, PTL DEF Spec, KeepsPromise, Link!Spec

=============================================================================
