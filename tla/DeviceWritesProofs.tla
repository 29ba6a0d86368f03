------------------------ MODULE DeviceWritesProofs ------------------------
(***************************************************************************)
(* What a write, a batch, an apply and a persist promise, for any number   *)
(* of items, any values and any device.                                    *)
(*                                                                         *)
(* The properties are about what lasts: the registers written, the trail   *)
(* and the answer. None of them says where a running command is, and so    *)
(* none is inductive. PlaceInv ties the place to the cursor, the requests  *)
(* sent and the items verified; TrailInv says what the trail lacks and has *)
(* while the command runs: no outcome yet, its attempt once it may write,  *)
(* and every item before the cursor.                                       *)
(***************************************************************************)
EXTENDS DeviceWrites, SequenceTheorems, TLAPS

Before == {"read", "refused", "attempt"}
OnItem == {"write", "readback", "verified", "failed"}
Begun == {"write", "readback", "verified", "failed", "finish", "command", "poll"}
Attempt == [status |-> "attempt", item |-> 0]
Outcomes == {"success", "failure"}

\* Where a command is, and what it has sent and verified there.
PlaceInv ==
  /\ stage # "idle" => WellFormed(kind, plan)
  /\ stage # "idle" => reply = NoReply /\ ~logLost
  /\ stage \in {"read", "write", "readback", "verified", "finish"} => kind \in Writes
  /\ stage \in {"command", "poll"} \/ own # "none" => kind \in Operations
  /\ stage \in Before => sent = <<>> /\ verified = 0 /\ cursor = 1
  /\ kind \in Writes =>
       /\ stage \in OnItem => cursor \in 1 .. Len(plan)
       /\ stage = "write" => Len(sent) = cursor - 1
       /\ stage \in {"readback", "verified", "failed"} => Len(sent) = cursor
       /\ stage \in OnItem \ {"verified"} => verified = cursor - 1
       /\ stage = "verified" => verified = cursor
       /\ stage = "finish" => verified = Len(plan)

\* What the trail holds while a command runs, and behind what was sent.
TrailInv ==
  /\ stage \in Before => trail = <<>>
  /\ stage # "idle" => \A n \in DOMAIN trail : trail[n].status \notin Outcomes
  /\ stage \in Begun => trail # <<>> /\ trail[1] = Attempt
  /\ kind \in Writes /\ stage \in Begun \cup {"attempt"} => \A i \in DOMAIN plan : Matches(i)
  /\ kind \in Writes /\ stage \in OnItem => \A i \in 1 .. cursor - 1 : Recorded("item", i)

\* While a command that was fresh is waited for, its success is owed to it alone.
OwedInv == stage = "poll" /\ fresh /\ own # "done" => Success(kind) \notin Owed

WriteInv ==
  /\ TypeOK /\ PlaceInv /\ TrailInv /\ OwedInv
  /\ WritesAreDue /\ HonestOutcome /\ TrailTellsAll /\ FreshSuccess

-----------------------------------------------------------------------------
(* Sequences.                                                              *)

\* A plan is a sequence of items, and not too long.
LEMMA PlanFacts ==
  ASSUME NEW p \in Plan
  PROVE  /\ Len(p) \in 0 .. MaxItems /\ DOMAIN p = 1 .. Len(p)
         /\ \A i \in 1 .. Len(p) : p[i] \in Item
<1>1. PICK n \in 0 .. MaxItems : p \in [1 .. n -> Item]
  BY DEF Plan
<1>2. Len(p) = n /\ DOMAIN p = 1 .. n
  BY <1>1, WritesAssumption
<1>3. QED
  BY <1>1, <1>2

\* What was read before is as long as the plan at most.
LEMMA SeenFacts ==
  ASSUME NEW m \in Nat, NEW s
  PROVE  s \in UNION {[1 .. n -> Values] : n \in 0 .. m} <=> s \in Seq(Values) /\ Len(s) <= m
<1>1. ASSUME NEW n \in 0 .. m, s \in [1 .. n -> Values]
      PROVE s \in Seq(Values) /\ Len(s) <= m
  <2>1. n \in Nat /\ n <= m
    OBVIOUS
  <2>2. s \in Seq(Values)
    BY <1>1, <2>1, SeqDef
  <2>3. QED
    BY <1>1, <2>1, <2>2
<1>2. ASSUME s \in Seq(Values), Len(s) <= m
      PROVE \E n \in 0 .. m : s \in [1 .. n -> Values]
  BY <1>2, LenProperties
<1>3. QED
  BY <1>1, <1>2

\* An entry is added at the end of the trail, and nothing else changes.
LEMMA LoggedFacts ==
  ASSUME TypeOK, NEW s \in {"attempt", "item", "success", "failure"}, NEW i \in 0 .. MaxItems,
         Logged(s, i)
  PROVE  /\ trail' \in Seq(Entries) /\ trail' # <<>>
         /\ Len(trail') = Len(trail) + 1
         /\ trail'[Len(trail')] = [status |-> s, item |-> i]
         /\ \A n \in 1 .. Len(trail) : trail'[n] = trail[n]
         /\ Recorded(s, i)'
         /\ \A t, k : Recorded(t, k)' => Recorded(t, k) \/ (t = s /\ k = i)
         /\ \A t, k : Recorded(t, k) => Recorded(t, k)'
<1> DEFINE e == [status |-> s, item |-> i]
<1>1. trail \in Seq(Entries) /\ e \in Entries /\ trail' = Append(trail, e)
  BY DEF TypeOK, Entries, Logged
<1>2. /\ trail' \in Seq(Entries) /\ trail' # <<>>
      /\ Len(trail') = Len(trail) + 1 /\ DOMAIN trail' = 1 .. Len(trail) + 1
      /\ trail'[Len(trail')] = e
      /\ \A n \in 1 .. Len(trail) : trail'[n] = trail[n]
  BY <1>1
<1>3. DOMAIN trail = 1 .. Len(trail) /\ Len(trail) \in Nat
  BY <1>1
<1>4. Recorded(s, i)'
  BY <1>2, <1>3 DEF Recorded
<1>5. ASSUME NEW t, NEW k, Recorded(t, k)' PROVE Recorded(t, k) \/ (t = s /\ k = i)
  <2>1. PICK n \in 1 .. Len(trail) + 1 : trail'[n] = [status |-> t, item |-> k]
    BY <1>2, <1>5 DEF Recorded
  <2>2. CASE n = Len(trail) + 1
    <3>1. e = [status |-> t, item |-> k]
      BY <1>2, <2>1, <2>2
    <3>2. e.status = t /\ e.item = k
      BY <3>1
    <3>3. QED
      BY <3>2
  <2>3. CASE n \in 1 .. Len(trail)
    BY <1>2, <1>3, <2>1, <2>3 DEF Recorded
  <2>4. QED
    BY <1>3, <2>2, <2>3
<1>6. ASSUME NEW t, NEW k, Recorded(t, k) PROVE Recorded(t, k)'
  BY <1>2, <1>3, <1>6 DEF Recorded
<1>7. QED
  BY <1>2, <1>4, <1>5, <1>6

\* What the device does with its commands leaves the program's own alone.
LEMMA DeviceLeaves ==
  DeviceMoves => UNCHANGED <<regs, order, stage, seen, cursor, sent, verified, trail, logLost, reply>>
BY DEF DeviceMoves, DeviceExecutes, DeviceExecutesOther, StatusMovesOn, ForeignCommand

-----------------------------------------------------------------------------
(* Types.                                                                  *)

LEMMA TypeInit == Init => TypeOK
<1> SUFFICES ASSUME Init PROVE TypeOK
  OBVIOUS
<1>1. plan \in Plan
  BY WritesAssumption DEF Init, Plan
<1>2. seen \in UNION {[1 .. n -> Values] : n \in 0 .. Len(plan)}
  BY DEF Init
<1>3. QED
  <2>1. sent \in Seq(0 .. MaxItems) /\ trail \in Seq(Entries)
    BY EmptySeq DEF Init
  <2>2. cursor \in 1 .. MaxItems /\ verified \in 0 .. MaxItems
    BY WritesAssumption DEF Init
  <2>3. reply \in [result : {"none", "ok", "partial", "error"}, completed : 0 .. MaxItems]
    BY WritesAssumption DEF Init, NoReply
  <2>4. QED
    BY <1>1, <1>2, <2>1, <2>2, <2>3 DEF Init, TypeOK, Writes, Operations, Stages

\* The item that is written is one of the plan.
LEMMA TypeStep == TypeOK /\ PlaceInv /\ [Next]_vars => TypeOK'
<1> SUFFICES ASSUME TypeOK, PlaceInv, [Next]_vars PROVE TypeOK'
  OBVIOUS
<1> USE WritesAssumption DEF TypeOK
<1>0. Len(plan) \in Nat /\ seen \in Seq(Values) /\ Len(seen) <= Len(plan)
  <2>1. Len(plan) \in Nat
    BY PlanFacts
  <2>2. seen \in UNION {[1 .. n -> Values] : n \in 0 .. Len(plan)}
    OBVIOUS
  <2>3. QED
    BY <2>1, <2>2, SeenFacts
<1>1. ASSUME NEW k \in Writes \cup Operations, NEW p \in Plan, Begin(k, p) PROVE TypeOK'
  <2>1. seen' \in UNION {[1 .. n -> Values] : n \in 0 .. Len(plan')}
    <3>1. Len(plan') \in Nat /\ seen' = <<>>
      BY <1>1, PlanFacts DEF Begin
    <3>2. <<>> \in Seq(Values) /\ Len(<<>>) <= Len(plan')
      BY <3>1, EmptySeq
    <3>3. QED
      BY <3>1, <3>2, SeenFacts
  <2>2. QED
    <3>1. reply' \in [result : {"none", "ok", "partial", "error"}, completed : 0 .. MaxItems]
      BY <1>1 DEF Begin, NoReply
    <3>2. sent' \in Seq(0 .. MaxItems) /\ trail' \in Seq(Entries)
      BY <1>1, EmptySeq DEF Begin
    <3>3. QED
      <4>1. stage' \in Stages
        BY <1>1 DEF Begin, Stages
      <4>2. cursor' \in 1 .. MaxItems /\ verified' \in 0 .. MaxItems
        BY <1>1 DEF Begin
      <4>3. backlog' \subseteq Operations /\ own' = "none" /\ fresh' = FALSE
        BY <1>1 DEF Begin, PlaceInv
      <4>4. QED
        BY <1>1, <2>1, <3>1, <3>2, <4>1, <4>2, <4>3 DEF Begin
<1>2. CASE ReadBefore
  <2>1. plan[Len(seen) + 1] \in Item
    BY <1>0, <1>2, PlanFacts DEF ReadBefore
  <2>2. regs[plan[Len(seen) + 1].param] \in Values
    BY <2>1 DEF Item
  <2>3. seen' \in Seq(Values) /\ Len(seen') <= Len(plan)
    BY <1>0, <1>2, <2>2 DEF ReadBefore
  <2>4. seen' \in UNION {[1 .. n -> Values] : n \in 0 .. Len(plan)}
    BY <1>0, <2>3, SeenFacts
  <2>5. QED
    BY <1>2, <2>4 DEF ReadBefore, device, order
<1>3. CASE ReadBeforeFails \/ Compare
  BY <1>3 DEF ReadBeforeFails, Compare, Reply, Error, Stages, device, order
<1>4. ASSUME NEW s \in {"attempt", "item", "success", "failure"}, NEW i \in 0 .. MaxItems,
             Logged(s, i) \/ LogFails
      PROVE  trail' \in Seq(Entries) /\ logLost' \in BOOLEAN
  BY <1>4, LoggedFacts DEF Logged, LogFails
<1>5. cursor \in 0 .. MaxItems /\ Len(plan) \in 0 .. MaxItems /\ cursor - 1 \in 0 .. MaxItems
  BY PlanFacts
<1>6. CASE Refuse
  BY <1>4, <1>6 DEF Refuse, Audit, Reply, Error, Stages, device, order
<1>7. CASE RecordAttempt
  BY <1>4, <1>7 DEF RecordAttempt, Audit, Reply, Error, Stages, device, order
<1>8. CASE WriteRegister
  <2>1. plan[cursor] \in Item
    BY <1>8, PlanFacts DEF WriteRegister, PlaceInv, OnItem
  <2>2. regs' \in [Params -> Values]
    BY <1>8, <2>1 DEF WriteRegister, Item
  <2>3. sent' \in Seq(0 .. MaxItems)
    BY <1>5, <1>8 DEF WriteRegister
  <2>4. QED
    BY <1>8, <2>2, <2>3 DEF WriteRegister, Stages, order
<1>9. CASE ReadBack
  BY <1>5, <1>9 DEF ReadBack, Stages, device, order
<1>10. CASE RecordVerified
  <2>1. trail' \in Seq(Entries) /\ logLost' \in BOOLEAN
    BY <1>4, <1>5, <1>10 DEF RecordVerified, Audit
  <2>2. cursor' \in 1 .. MaxItems
    BY <1>5, <1>10, PlanFacts DEF RecordVerified, PlaceInv, OnItem
  <2>3. stage' \in Stages
    BY <1>10 DEF RecordVerified, Audit, Reply, Stages
  <2>4. reply' \in [result : {"none", "ok", "partial", "error"}, completed : 0 .. MaxItems]
    BY <1>10 DEF RecordVerified, Audit, Reply, Error, Done
  <2>5. QED
    BY <1>10, <2>1, <2>2, <2>3, <2>4 DEF RecordVerified, device, order
<1>11. CASE RecordBatchDone
  BY <1>4, <1>5, <1>11 DEF RecordBatchDone, Audit, Reply, Error, Done, Stages, device, order
<1>12. CASE RecordFailure
  BY <1>4, <1>5, <1>12 DEF RecordFailure, Audit, Reply, Error, Partial, Stages, device, order
<1>13. CASE SendCommand
  <2>1. Append(sent, 0) \in Seq(0 .. MaxItems)
    OBVIOUS
  <2>2. sent' \in Seq(0 .. MaxItems) /\ own' \in {"none", "taken", "done"} /\ fresh' \in BOOLEAN
    BY <1>13, <2>1 DEF SendCommand
  <2>3. QED
    BY <1>13, <2>2 DEF SendCommand, Stages, order
<1>14. CASE PollStatus
  BY <1>4, <1>14 DEF PollStatus, Audit, Reply, Error, Done, Stages, device, order
<1>15. CASE DeviceMoves
  <2>1. status' \in Statuses /\ own' \in {"none", "taken", "done"}
    BY <1>15 DEF DeviceMoves, DeviceExecutes, DeviceExecutesOther, StatusMovesOn, ForeignCommand,
       Success
  <2>2. backlog' \subseteq Operations /\ fresh' \in BOOLEAN
    BY <1>15 DEF DeviceMoves, DeviceExecutes, DeviceExecutesOther, StatusMovesOn, ForeignCommand
  <2>3. QED
    BY <1>15, <2>1, <2>2, DeviceLeaves DEF order
<1>16. ASSUME NEW p \in Params, NEW v \in Values, ForeignWrite(p, v) PROVE TypeOK'
  BY <1>16 DEF ForeignWrite, order
<1>17. CASE Crash
  BY <1>17 DEF Crash, Stages, device, order
<1>18. CASE UNCHANGED vars
  BY <1>18 DEF vars, device, order
<1>19. QED
  BY <1>1, <1>2, <1>3, <1>6, <1>7, <1>8, <1>9, <1>10, <1>11, <1>12, <1>13, <1>14, <1>15,
     <1>16, <1>17, <1>18 DEF Next, Step

-----------------------------------------------------------------------------
(* The place of a command.                                                 *)

LEMMA PlaceStep == TypeOK /\ PlaceInv /\ [Next]_vars => PlaceInv'
<1> SUFFICES ASSUME TypeOK, PlaceInv, [Next]_vars PROVE PlaceInv'
  OBVIOUS
<1>0. Len(plan) \in 0 .. MaxItems /\ sent \in Seq(0 .. MaxItems) /\ Len(sent) \in Nat /\ cursor \in Nat
  BY PlanFacts DEF TypeOK
<1> USE DEF PlaceInv, Before, OnItem, Writes, Operations
<1>1. ASSUME NEW k \in Writes \cup Operations, NEW p \in Plan, Begin(k, p) PROVE PlaceInv'
  <2>1. Len(p) \in Nat /\ stage' # "idle" /\ WellFormed(k, p)
    BY <1>1, PlanFacts DEF Begin
  <2>2. WellFormed(kind, plan)'
    BY <1>1, <2>1 DEF Begin
  <2>3. QED
    BY <1>1, <2>1, <2>2 DEF Begin
<1>2. CASE ReadBefore \/ ReadBeforeFails
  BY <1>2 DEF ReadBefore, ReadBeforeFails, Reply, device, order, WellFormed
<1>3. CASE Compare
  BY <1>3 DEF Compare, device, order, WellFormed
<1>4. CASE Refuse
  BY <1>4 DEF Refuse, Audit, Reply, device, order
<1>5. CASE RecordAttempt
  <2>1. WellFormed(kind, plan) /\ (kind \in Writes => 1 \in 1 .. Len(plan))
    BY <1>0, <1>5 DEF RecordAttempt, WellFormed
  <2>2. WellFormed(kind, plan)'
    BY <1>5, <2>1 DEF RecordAttempt, order, WellFormed
  <2>3. CASE stage' = "idle"
    BY <1>5, <2>3 DEF RecordAttempt, device, order
  <2>4. CASE stage' = (IF kind \in Writes THEN "write" ELSE "command") /\ UNCHANGED <<reply, logLost>>
    <3>1. /\ sent' = sent /\ Len(sent) = 0 /\ verified' = 0 /\ cursor' = 1
          /\ reply' = NoReply /\ ~logLost' /\ kind' = kind /\ plan' = plan /\ own' = own
      BY <1>5, <2>4, EmptySeq DEF RecordAttempt, device, order
    <3>2. CASE kind \in Writes
      BY <2>1, <2>2, <2>4, <3>1, <3>2
    <3>3. CASE kind \in Operations
      BY <2>2, <2>4, <3>1, <3>3
    <3>4. QED
      BY <3>2, <3>3 DEF TypeOK
  <2>5. QED
    BY <1>5, <2>3, <2>4 DEF RecordAttempt, Audit, Logged, Reply
<1>6. CASE WriteRegister
  <2>1. Len(sent') = Len(sent) + 1
    BY <1>0, <1>6 DEF WriteRegister
  <2>2. QED
    BY <1>0, <1>6, <2>1 DEF WriteRegister, order, WellFormed
<1>7. CASE ReadBack
  BY <1>7 DEF ReadBack, device, order, WellFormed
<1>8. CASE RecordVerified
  BY <1>0, <1>8 DEF RecordVerified, Audit, Logged, LogFails, Reply, device, order, WellFormed
<1>9. CASE RecordBatchDone \/ RecordFailure
  BY <1>9 DEF RecordBatchDone, RecordFailure, Audit, Reply, device, order
<1>10. CASE SendCommand
  BY <1>10 DEF SendCommand, order, WellFormed
<1>11. CASE PollStatus
  BY <1>11 DEF PollStatus, Audit, Reply, device, order, WellFormed
<1>12. CASE DeviceMoves
  <2>1. own' = own \/ own # "none"
    BY <1>12 DEF DeviceMoves, DeviceExecutes, DeviceExecutesOther, StatusMovesOn, ForeignCommand
  <2>2. QED
    BY DeviceLeaves, <1>12, <2>1 DEF order, WellFormed
<1>13. ASSUME NEW p \in Params, NEW v \in Values, ForeignWrite(p, v) PROVE PlaceInv'
  BY <1>13 DEF ForeignWrite, order, WellFormed
<1>14. CASE Crash
  BY <1>14 DEF Crash, device, order
<1>15. CASE UNCHANGED vars
  BY <1>15 DEF vars, device, order, WellFormed
<1>16. QED
  BY <1>1, <1>2, <1>3, <1>4, <1>5, <1>6, <1>7, <1>8, <1>9, <1>10, <1>11, <1>12, <1>13,
     <1>14, <1>15 DEF Next, Step

-----------------------------------------------------------------------------
(* The trail of a command that runs.                                       *)

LEMMA TrailStep == TypeOK /\ PlaceInv /\ TrailInv /\ [Next]_vars => TrailInv'
<1> SUFFICES ASSUME TypeOK, PlaceInv, TrailInv, [Next]_vars PROVE TrailInv'
  OBVIOUS
<1> USE DEF Before, OnItem, Begun, Writes, Operations, Outcomes
<1>0. /\ DOMAIN trail = 1 .. Len(trail) /\ Len(trail) \in Nat
      /\ cursor \in 1 .. MaxItems /\ cursor \in Nat
  BY DEF TypeOK
\* Steps that leave the trail, the plan and what was read alone.
<1>1. ASSUME UNCHANGED <<trail, order, seen>>,
             stage' # "idle" => stage # "idle" /\ stage \notin Before
             /\ stage \in Begun /\ stage' \in Begun /\ cursor' = cursor,
             kind \in Writes /\ stage' \in OnItem => stage \in OnItem
      PROVE  TrailInv'
  <2>1. trail' = trail /\ kind' = kind /\ plan' = plan /\ seen' = seen
    BY <1>1 DEF order
  <2>2. \A i : (Matches(i) => Matches(i)') /\ (Recorded("item", i) => Recorded("item", i)')
    BY <2>1 DEF Matches, Recorded
  <2>3. CASE stage' = "idle"
    BY <2>3 DEF TrailInv
  <2>4. CASE stage' # "idle"
    <3>1. stage # "idle" /\ stage \in Begun /\ stage' \in Begun /\ cursor' = cursor
      BY <1>1, <2>4
    <3>2. kind \in Writes => \A i \in DOMAIN plan' : Matches(i)'
      BY <2>1, <2>2, <3>1 DEF TrailInv
    <3>3. kind \in Writes /\ stage' \in OnItem => \A i \in 1 .. cursor - 1 : Recorded("item", i)'
      BY <1>1, <2>2 DEF TrailInv
    <3>4. QED
      BY <2>1, <3>1, <3>2, <3>3 DEF TrailInv
  <2>5. QED
    BY <2>3, <2>4
<1>2. CASE stage' = "idle"
  BY <1>2 DEF TrailInv
<1>3. ASSUME NEW k \in Writes \cup Operations, NEW p \in Plan, Begin(k, p) PROVE TrailInv'
  BY <1>3 DEF Begin, TrailInv
<1>4. CASE ReadBefore \/ ReadBeforeFails
  BY <1>2, <1>4 DEF ReadBefore, ReadBeforeFails, Reply, TrailInv
<1>5. CASE Compare
  BY <1>5 DEF Compare, order, TrailInv, Matches
<1>6. CASE RecordAttempt
  <2>1. CASE Logged("attempt", 0)
    <3>1. trail = <<>> /\ Len(trail) = 0 /\ 0 \in 0 .. MaxItems
      BY <1>6, WritesAssumption DEF RecordAttempt, TrailInv
    <3>2. Len(trail') = 1 /\ DOMAIN trail' = 1 .. 1 /\ trail' # <<>> /\ trail'[1] = Attempt
      BY <2>1, <3>1, LoggedFacts DEF Attempt
    <3>3. trail'[1].status \notin Outcomes
      BY <3>2 DEF Attempt
    <3>4. kind' = kind /\ plan' = plan /\ seen' = seen /\ cursor' = 1
      BY <1>6 DEF RecordAttempt, PlaceInv, order
    <3>5. kind \in Writes => \A i \in DOMAIN plan : Matches(i)
      BY <1>6 DEF RecordAttempt, TrailInv
    <3>6. kind' \in Writes => \A i \in DOMAIN plan' : Matches(i)'
      BY <3>4, <3>5 DEF Matches
    <3>7. stage' \notin Before
      BY <1>6, <2>1 DEF RecordAttempt, Audit, Reply
    <3>8. QED
      BY <3>2, <3>3, <3>4, <3>6, <3>7 DEF TrailInv
  <2>2. QED
    BY <1>2, <1>6, <2>1 DEF RecordAttempt, Audit, Reply
<1>7. CASE WriteRegister \/ ReadBack \/ SendCommand
  BY <1>1, <1>7 DEF WriteRegister, ReadBack, SendCommand, PlaceInv, device, order
<1>8. CASE RecordVerified
  <2>1. CASE stage' = "idle"
    BY <1>2, <2>1
  <2>2. CASE kind = "batch" /\ Logged("item", cursor) /\ stage' \in {"write", "finish"}
             /\ (stage' = "write" => cursor' = cursor + 1)
    <3>1. trail # <<>> /\ trail[1] = Attempt /\ 1 \in 1 .. Len(trail)
      BY <1>0, <1>8, EmptySeq DEF RecordVerified, TrailInv, TypeOK
    <3>2. cursor \in 0 .. MaxItems
      BY <1>0
    <3>3. trail' # <<>> /\ trail'[1] = Attempt
      BY <2>2, <3>1, <3>2, LoggedFacts
    <3>4. \A n \in DOMAIN trail' : trail'[n].status \notin Outcomes
      <4>1. /\ DOMAIN trail' = 1 .. Len(trail) + 1
            /\ trail'[Len(trail) + 1] = [status |-> "item", item |-> cursor]
            /\ \A n \in 1 .. Len(trail) : trail'[n] = trail[n]
        BY <2>2, <3>2, LoggedFacts
      <4>2. \A n \in 1 .. Len(trail) : trail[n].status \notin Outcomes
        BY <1>0, <1>8 DEF RecordVerified, TrailInv
      <4>3. trail'[Len(trail) + 1].status \notin Outcomes
        BY <4>1
      <4>4. QED
        BY <1>0, <4>1, <4>2, <4>3
    <3>5. kind' = kind /\ plan' = plan /\ seen' = seen /\ stage = "verified"
      BY <1>8 DEF RecordVerified, order
    <3>6. \A i \in DOMAIN plan' : Matches(i)'
      BY <2>2, <3>5 DEF TrailInv, Matches
    <3>7. ASSUME NEW i \in 1 .. cursor PROVE Recorded("item", i)'
      <4>1. CASE i = cursor
        <5>1. Logged("item", i) /\ i \in 0 .. MaxItems
          BY <2>2, <3>2, <4>1
        <5>2. QED
          BY <5>1, LoggedFacts
      <4>2. CASE i \in 1 .. cursor - 1
        <5>1. Recorded("item", i)
          BY <2>2, <3>5, <4>2 DEF TrailInv
        <5>2. QED
          BY <2>2, <3>2, <5>1, LoggedFacts
      <4>3. QED
        BY <1>0, <4>1, <4>2
    <3>8. stage' \in OnItem => \A i \in 1 .. cursor' - 1 : Recorded("item", i)'
      BY <1>0, <2>2, <3>7
    <3>9. QED
      BY <2>2, <3>3, <3>4, <3>5, <3>6, <3>8 DEF TrailInv
  <2>3. QED
    BY <1>8, <2>1, <2>2 DEF RecordVerified, Audit, Reply, PlaceInv
<1>9. CASE Refuse \/ RecordBatchDone \/ RecordFailure \/ Crash
  BY <1>2, <1>9 DEF Refuse, RecordBatchDone, RecordFailure, Crash, Audit, Reply
<1>10. CASE PollStatus
  BY <1>1, <1>2, <1>10 DEF PollStatus, PlaceInv, Audit, Reply, device, order
<1>11. ASSUME UNCHANGED <<trail, order, seen, stage, cursor>> PROVE TrailInv'
  BY <1>11 DEF TrailInv, order, Matches, Recorded
<1>12. CASE DeviceMoves \/ UNCHANGED vars
  BY DeviceLeaves, <1>11, <1>12 DEF vars
<1>13. ASSUME NEW p \in Params, NEW v \in Values, ForeignWrite(p, v) PROVE TrailInv'
  BY <1>11, <1>13 DEF ForeignWrite
<1>14. QED
  BY <1>3, <1>4, <1>5, <1>6, <1>7, <1>8, <1>9, <1>10, <1>12, <1>13 DEF Next, Step

-----------------------------------------------------------------------------
(* What was written, and when.                                             *)

\* No entry is ever taken back while a command runs, and before its end no
\* outcome is there.
LEMMA EntriesStay ==
  ASSUME TypeOK, Step \/ DeviceMoves \/ Crash \/ UNCHANGED trail
  PROVE  \A i : Recorded("item", i) => Recorded("item", i)'
<1>1. CASE UNCHANGED trail
  BY <1>1 DEF Recorded
<1>2. ASSUME NEW s \in {"attempt", "item", "success", "failure"}, NEW k \in 0 .. MaxItems, Logged(s, k)
      PROVE  \A i : Recorded("item", i) => Recorded("item", i)'
  BY <1>2, LoggedFacts
<1>3. 0 \in 0 .. MaxItems /\ cursor \in 0 .. MaxItems
  BY WritesAssumption DEF TypeOK
<1>4. QED
  BY DeviceLeaves, <1>1, <1>2, <1>3 DEF Step, ReadBefore, ReadBeforeFails, Compare, Refuse, RecordAttempt,
     WriteRegister, ReadBack, RecordVerified, RecordBatchDone, RecordFailure, SendCommand,
     PollStatus, Crash, Audit, LogFails

LEMMA NoOutcomeYet ==
  ASSUME TypeOK, TrailInv, stage # "idle"
  PROVE  \A i : ~Recorded("success", i) /\ ~Recorded("failure", i)
<1>1. ASSUME NEW s \in Outcomes, NEW i, Recorded(s, i) PROVE FALSE
  <2>1. PICK n \in DOMAIN trail : trail[n] = [status |-> s, item |-> i]
    BY <1>1 DEF Recorded
  <2>2. trail[n].status = s
    BY <2>1
  <2>3. QED
    BY <2>2 DEF TrailInv
<1>2. QED
  BY <1>1 DEF Outcomes

LEMMA DueStep ==
  ASSUME TypeOK, PlaceInv, TrailInv, WritesAreDue, [Next]_vars
  PROVE  WritesAreDue'
<1>0. sent \in Seq(0 .. MaxItems) /\ Len(sent) \in Nat /\ verified \in Nat /\ cursor \in Nat
  BY DEF TypeOK
\* Steps that write nothing.
<1>1. ASSUME UNCHANGED <<order, seen, sent>>, verified <= verified', verified' \in Nat,
             \A i : Recorded("item", i) => Recorded("item", i)'
      PROVE  WritesAreDue'
  <2> SUFFICES ASSUME kind' \in Writes PROVE WritesAreDue'
    BY DEF WritesAreDue
  <2>1. kind \in Writes /\ sent' = sent /\ plan' = plan /\ seen' = seen
    BY <1>1 DEF order
  <2>2. \A i \in 1 .. Len(sent) - 1 : Recorded("item", i)' /\ i <= verified'
    BY <1>0, <1>1, <2>1 DEF WritesAreDue
  <2>3. sent # <<>> => \A i \in DOMAIN plan : Matches(i)'
    BY <2>1 DEF WritesAreDue, Matches
  <2>4. QED
    BY <2>1, <2>2, <2>3 DEF WritesAreDue
<1>2. ASSUME NEW k \in Writes \cup Operations, NEW p \in Plan, Begin(k, p) PROVE WritesAreDue'
  <2>1. sent' = <<>> /\ Len(sent') = 0
    BY <1>2, EmptySeq DEF Begin
  <2>2. sent' = [i \in 1 .. Len(sent') |-> i]
    BY <2>1
  <2>3. QED
    BY <2>1, <2>2 DEF WritesAreDue
<1>3. CASE WriteRegister
  <2>1. /\ kind \in Writes /\ Len(sent) = cursor - 1 /\ verified = cursor - 1
        /\ sent' = Append(sent, cursor) /\ kind' = kind /\ plan' = plan /\ seen' = seen
        /\ verified' = verified /\ trail' = trail /\ stage = "write"
    BY <1>3 DEF WriteRegister, PlaceInv, OnItem, order
  <2>2. sent = [i \in 1 .. cursor - 1 |-> i]
    BY <2>1 DEF WritesAreDue
  <2>3. Len(sent') = cursor /\ sent' = [i \in 1 .. cursor |-> i]
    BY <1>0, <2>1, <2>2
  <2>4. \A i \in 1 .. cursor - 1 : Recorded("item", i)' /\ i <= verified'
    BY <1>0, <2>1 DEF TrailInv, OnItem, Recorded
  <2>5. \A i \in DOMAIN plan : Matches(i)'
    BY <2>1 DEF TrailInv, Begun, Matches
  <2>6. QED
    BY <2>1, <2>3, <2>4, <2>5 DEF WritesAreDue
<1>4. CASE SendCommand
  BY <1>4 DEF SendCommand, PlaceInv, order, WritesAreDue, Writes, Operations
<1>5. CASE ReadBack
  <2>1. verified <= verified' /\ verified' \in Nat
    <3>1. kind \in Writes /\ verified = cursor - 1
      BY <1>5 DEF ReadBack, PlaceInv, OnItem
    <3>2. QED
      BY <1>0, <1>5, <3>1 DEF ReadBack
  <2>2. QED
    BY <1>1, <1>5, <2>1, EntriesStay DEF ReadBack, Step, order
<1>6. CASE ReadBefore
  BY <1>6, EmptySeq DEF ReadBefore, PlaceInv, Before, order, WritesAreDue
<1>7. CASE \/ ReadBeforeFails \/ Compare \/ Refuse \/ RecordAttempt \/ RecordVerified
           \/ RecordBatchDone \/ RecordFailure \/ PollStatus \/ DeviceMoves \/ Crash
           \/ UNCHANGED vars \/ \E p \in Params, v \in Values : ForeignWrite(p, v)
  <2>1. UNCHANGED <<order, seen, sent, verified>>
    BY DeviceLeaves, <1>7 DEF ReadBeforeFails, Compare, Refuse, RecordAttempt, RecordVerified, RecordBatchDone,
       RecordFailure, PollStatus, Crash, vars, ForeignWrite
  <2>2. \A i : Recorded("item", i) => Recorded("item", i)'
    BY <1>7, EntriesStay DEF Step, vars, ForeignWrite
  <2>3. QED
    BY <1>0, <1>1, <2>1, <2>2
<1>8. QED
  BY <1>2, <1>3, <1>4, <1>5, <1>6, <1>7 DEF Next, Step

-----------------------------------------------------------------------------
(* What the trail and the answer say.                                      *)

LEMMA HonestStep ==
  ASSUME TypeOK, PlaceInv, TrailInv, HonestOutcome, [Next]_vars
  PROVE  HonestOutcome'
<1>0. /\ verified \in Nat /\ cursor \in Nat /\ Len(plan) \in Nat /\ DOMAIN plan = 1 .. Len(plan)
      /\ 0 \in 0 .. MaxItems /\ cursor \in 0 .. MaxItems
  BY PlanFacts, WritesAssumption DEF TypeOK
<1> USE DEF Writes, Operations
<1>1. ASSUME UNCHANGED <<order, verified, trail, reply>> PROVE HonestOutcome'
  BY <1>1 DEF HonestOutcome, Recorded, order
\* No outcome is recorded, and the caller is told of none or of an error.
<1>2. ASSUME UNCHANGED order, reply'.result \in {"none", "error"}, ~Recorded("success", 0)',
             \A i \in DOMAIN plan : Recorded("item", i)' => i <= verified'
      PROVE  HonestOutcome'
  BY <1>2 DEF HonestOutcome, order
<1>3. ASSUME kind \in Operations, UNCHANGED order PROVE HonestOutcome'
  BY <1>3 DEF HonestOutcome, order
<1>4. ASSUME stage # "idle", kind \in Writes
      PROVE  /\ \A i \in DOMAIN plan : Recorded("item", i) => i <= verified
             /\ ~Recorded("success", 0) /\ reply = NoReply /\ NoReply.result = "none"
             /\ Error.result = "error"
  BY <1>4, NoOutcomeYet DEF HonestOutcome, PlaceInv, NoReply, Error
<1>5. ASSUME NEW k \in Writes \cup Operations, NEW p \in Plan, Begin(k, p) PROVE HonestOutcome'
  BY <1>5 DEF Begin, HonestOutcome, Recorded, NoReply
<1>6. CASE (ReadBefore \/ ReadBeforeFails \/ Compare \/ WriteRegister \/ ReadBack \/ Crash) /\ kind \in Writes
  <2>1. stage # "idle" /\ trail' = trail /\ kind' = kind /\ plan' = plan /\ reply' \in {reply, Error}
    BY <1>6 DEF ReadBefore, ReadBeforeFails, Compare, WriteRegister, ReadBack, Crash, Reply, order
  <2>2. verified <= verified' /\ verified' \in Nat
    <3>1. CASE ReadBack
      BY <1>0, <1>6, <3>1 DEF ReadBack, PlaceInv, OnItem
    <3>2. CASE ~ReadBack
      BY <1>0, <1>6, <3>2 DEF ReadBefore, ReadBeforeFails, Compare, WriteRegister, Crash
    <3>3. QED
      BY <3>1, <3>2
  <2>3. \A i \in DOMAIN plan : Recorded("item", i)' => i <= verified'
    BY <1>0, <1>4, <1>6, <2>1, <2>2 DEF Recorded
  <2>4. ~Recorded("success", 0)'
    BY <1>4, <1>6, <2>1 DEF Recorded
  <2>5. QED
    BY <1>2, <1>4, <1>6, <2>1, <2>3, <2>4 DEF order
<1>7. ASSUME NEW s \in {"attempt", "failure"}, kind \in Writes, stage # "idle",
             Logged(s, 0) \/ LogFails, UNCHANGED <<order, verified>>
      PROVE  /\ ~Recorded("success", 0)'
             /\ \A i \in DOMAIN plan : Recorded("item", i)' => i <= verified'
             /\ Logged(s, 0) => Recorded(s, 0)'
  <2>1. CASE Logged(s, 0)
    <3>1. /\ Recorded(s, 0)'
          /\ \A t, k : Recorded(t, k)' => Recorded(t, k) \/ (t = s /\ k = 0)
      <4>1. s \in {"attempt", "item", "success", "failure"}
        BY <1>7
      <4>2. QED
        BY <1>0, <2>1, <4>1, LoggedFacts
    <3>2. QED
      BY <1>4, <1>7, <3>1
  <2>2. CASE ~Logged(s, 0)
    BY <1>4, <1>7, <2>2 DEF LogFails, Recorded
  <2>3. QED
    BY <2>1, <2>2
<1>8. CASE (RecordAttempt \/ Refuse) /\ kind \in Writes
  <2>1. /\ stage # "idle" /\ UNCHANGED <<order, verified>> /\ reply' \in {reply, Error}
        /\ \E s \in {"attempt", "failure"} : Logged(s, 0) \/ LogFails
    BY <1>8 DEF RecordAttempt, Refuse, Audit, Reply
  <2>2. QED
    BY <1>2, <1>4, <1>7, <1>8, <2>1
<1>9. CASE RecordFailure /\ kind \in Writes
  <2>1. /\ stage # "idle" /\ UNCHANGED <<order, verified>>
        /\ Logged("failure", 0) \/ LogFails
        /\ cursor \in 1 .. Len(plan) /\ verified = cursor - 1
    BY <1>9 DEF RecordFailure, Audit, PlaceInv, OnItem
  <2>2. CASE reply' = Error
    BY <1>2, <1>4, <1>7, <1>9, <2>1, <2>2
  <2>3. CASE reply' = Partial(cursor - 1) /\ Logged("failure", 0)
    <3>1. reply'.result = "partial" /\ reply'.completed = verified
      BY <2>1, <2>3 DEF Partial
    <3>2. /\ ~Recorded("success", 0)' /\ Recorded("failure", 0)'
          /\ \A i \in DOMAIN plan : Recorded("item", i)' => i <= verified'
      BY <1>7, <1>9, <2>1, <2>3
    <3>3. verified < Len(plan)
      BY <1>0, <2>1
    <3>4. QED
      BY <2>1, <3>1, <3>2, <3>3 DEF HonestOutcome, order
  <2>4. QED
    BY <1>9, <2>2, <2>3 DEF RecordFailure, Audit, Reply
\* The two that may succeed.
<1>10. ASSUME kind \in Writes, stage # "idle", Logged("success", 0), UNCHANGED <<order, verified>>,
              verified = Len(plan), reply' = Done(Len(plan))
       PROVE  HonestOutcome'
  <2>1. /\ Recorded("success", 0)'
        /\ \A t, k : Recorded(t, k)' => Recorded(t, k) \/ (t = "success" /\ k = 0)
    BY <1>0, <1>10, LoggedFacts
  <2>2. reply'.result = "ok" /\ reply'.completed = Len(plan)
    BY <1>10 DEF Done
  <2>3. \A i \in DOMAIN plan : Recorded("item", i)' => i <= verified'
    BY <1>4, <1>10, <2>1
  <2>4. QED
    BY <1>10, <2>1, <2>2, <2>3 DEF HonestOutcome, order
<1>11. ASSUME kind \in Writes, stage # "idle", LogFails, Reply(Error), UNCHANGED <<order, verified>>
       PROVE  HonestOutcome'
  BY <1>2, <1>4, <1>11 DEF LogFails, Reply, Recorded
<1>12. CASE RecordVerified
  <2>1. /\ kind \in Writes /\ stage # "idle" /\ UNCHANGED <<order, verified>>
        /\ verified = cursor /\ cursor \in 1 .. Len(plan) /\ (kind = "write" => Len(plan) = 1)
    BY <1>12 DEF RecordVerified, PlaceInv, OnItem, WellFormed
  <2>2. CASE LogFails /\ Reply(Error)
    BY <1>11, <2>1, <2>2
  <2>3. CASE kind = "write" /\ Logged("success", 0) /\ Reply(Done(1))
    <3>1. Len(plan) = 1 /\ verified = 1
      <4>1. Len(plan) = 1
        BY <2>1, <2>3
      <4>2. QED
        BY <1>0, <2>1, <4>1
    <3>2. reply' = Done(Len(plan))
      BY <2>3, <3>1 DEF Reply
    <3>3. QED
      BY <1>10, <2>1, <2>3, <3>1, <3>2
  <2>4. CASE Logged("item", cursor) /\ UNCHANGED reply
    <3>1. \A t, k : Recorded(t, k)' => Recorded(t, k) \/ (t = "item" /\ k = cursor)
      BY <1>0, <2>4, LoggedFacts
    <3>2. \A i \in DOMAIN plan : Recorded("item", i)' => i <= verified'
      BY <1>0, <1>4, <2>1, <3>1
    <3>3. ~Recorded("success", 0)'
      BY <1>4, <2>1, <3>1
    <3>4. QED
      BY <1>2, <1>4, <2>1, <2>4, <3>2, <3>3
  <2>5. QED
    BY <1>12, <2>2, <2>3, <2>4 DEF RecordVerified, Audit
<1>13. CASE RecordBatchDone
  <2>1. kind \in Writes /\ stage # "idle" /\ UNCHANGED <<order, verified>> /\ verified = Len(plan)
    BY <1>13 DEF RecordBatchDone, PlaceInv
  <2>2. QED
    BY <1>10, <1>11, <1>13, <2>1 DEF RecordBatchDone, Audit, Reply
<1>14. CASE Step /\ kind \in Operations
  <2>1. UNCHANGED order
    BY <1>14 DEF Step, ReadBefore, ReadBeforeFails, Compare, Refuse, RecordAttempt, WriteRegister,
       ReadBack, RecordVerified, RecordBatchDone, RecordFailure, SendCommand, PollStatus
  <2>2. QED
    BY <1>3, <1>14, <2>1
<1>15. CASE (SendCommand \/ PollStatus) /\ kind \in Writes
  BY <1>15 DEF SendCommand, PollStatus, PlaceInv
<1>16. CASE DeviceMoves \/ UNCHANGED vars \/ \E p \in Params, v \in Values : ForeignWrite(p, v)
  BY DeviceLeaves, <1>1, <1>16 DEF vars, ForeignWrite
<1>17. CASE Crash /\ kind \in Operations
  BY <1>3, <1>17 DEF Crash
<1>18. kind \in Writes \/ kind \in Operations
  BY DEF TypeOK
<1>19. QED
  BY <1>5, <1>6, <1>8, <1>9, <1>12, <1>13, <1>14, <1>15, <1>16, <1>17, <1>18 DEF Next, Step

\* What is sent is announced before, and the end is the last entry.
LEMMA TrailTold ==
  ASSUME TypeOK, PlaceInv, TrailInv, TrailTellsAll, [Next]_vars
  PROVE  TrailTellsAll'
<1>0. /\ 0 \in 0 .. MaxItems /\ cursor \in 0 .. MaxItems /\ cursor \in Nat
      /\ Len(trail) \in Nat /\ DOMAIN trail = 1 .. Len(trail)
      /\ NoReply.result = "none"
  BY WritesAssumption DEF TypeOK, NoReply
<1>1. ASSUME UNCHANGED <<sent, trail, logLost, reply>> PROVE TrailTellsAll'
  BY <1>1 DEF TrailTellsAll
<1>2. CASE sent' = <<>>
  BY <1>2 DEF TrailTellsAll
\* While it runs nothing is answered, and the attempt stays the first.
<1>3. ASSUME stage # "idle", UNCHANGED <<trail, reply>>, trail # <<>>, trail[1] = Attempt
      PROVE  TrailTellsAll'
  BY <1>0, <1>3 DEF TrailTellsAll, PlaceInv, Attempt
<1>4. ASSUME stage \in Begun, UNCHANGED trail, logLost'
      PROVE  TrailTellsAll'
  BY <1>4 DEF TrailTellsAll, TrailInv, Attempt, Begun
<1>5. ASSUME stage \in Begun,
             NEW s \in {"item", "success", "failure"}, NEW i \in 0 .. MaxItems, Logged(s, i),
             s \in Outcomes \/ UNCHANGED reply
      PROVE  TrailTellsAll'
  <2>1. s \in {"attempt", "item", "success", "failure"} /\ stage # "idle"
    BY <1>5 DEF Begun
  <2>2. /\ trail' # <<>> /\ Len(trail') = Len(trail) + 1
        /\ trail'[Len(trail')] = [status |-> s, item |-> i]
        /\ \A n \in 1 .. Len(trail) : trail'[n] = trail[n]
    BY <1>5, <2>1, LoggedFacts
  <2>3. trail # <<>> /\ trail[1] = Attempt /\ 1 \in 1 .. Len(trail)
    BY <1>0, <1>5, EmptySeq DEF TrailInv, TypeOK
  <2>4. \A n \in 1 .. Len(trail') - 1 : trail'[n].status \in {"attempt", "item"}
    <3>1. \A n \in 1 .. Len(trail) : trail[n].status \in {"attempt", "item"}
      <4>1. \A n \in 1 .. Len(trail) : trail[n] \in Entries
        BY ElementOfSeq DEF TypeOK
      <4>2. \A n \in 1 .. Len(trail) : trail[n].status \notin Outcomes
        BY <1>0, <2>1 DEF TrailInv
      <4>3. QED
        BY <4>1, <4>2 DEF Entries, Outcomes
    <3>2. QED
      BY <1>0, <2>2, <3>1
  <2>5. trail'[Len(trail')].status = s
    BY <2>2
  <2>6. trail'[1] = [status |-> "attempt", item |-> 0]
    BY <2>2, <2>3 DEF Attempt
  <2>7. s \in Outcomes \/ reply'.result = "none"
    BY <1>0, <1>5, <2>1 DEF PlaceInv
  <2>8. QED
    BY <2>2, <2>4, <2>5, <2>6, <2>7 DEF TrailTellsAll, Outcomes
<1>6. CASE ReadBefore \/ ReadBeforeFails \/ Compare \/ Refuse \/ RecordAttempt
  <2>1. sent' = sent /\ stage \in Before
    BY <1>6 DEF ReadBefore, ReadBeforeFails, Compare, Refuse, RecordAttempt, Before
  <2>2. QED
    BY <1>2, <2>1 DEF PlaceInv
<1>7. CASE WriteRegister \/ ReadBack \/ SendCommand
  <2>1. stage \in Begun /\ stage # "idle" /\ UNCHANGED <<trail, reply>>
    BY <1>7 DEF WriteRegister, ReadBack, SendCommand, Begun
  <2>2. QED
    BY <1>3, <2>1 DEF TrailInv
<1>8. CASE RecordVerified \/ RecordBatchDone \/ RecordFailure \/ PollStatus
  <2>1. stage \in Begun /\ stage # "idle"
    BY <1>8 DEF RecordVerified, RecordBatchDone, RecordFailure, PollStatus, Begun
  <2>2. CASE LogFails
    BY <1>4, <2>1, <2>2 DEF LogFails
  <2>3. CASE Logged("success", 0) \/ Logged("failure", 0)
    BY <1>0, <1>5, <2>1, <2>3 DEF Outcomes
  <2>4. CASE Logged("item", cursor) /\ UNCHANGED reply
    BY <1>0, <1>5, <2>1, <2>4
  <2>5. CASE UNCHANGED <<sent, trail, logLost, reply>>
    BY <1>1, <2>5
  <2>6. QED
    BY <1>8, <2>2, <2>3, <2>4, <2>5
    DEF RecordVerified, RecordBatchDone, RecordFailure, PollStatus, Audit
<1>9. CASE Crash \/ DeviceMoves \/ UNCHANGED vars
           \/ \E p \in Params, v \in Values : ForeignWrite(p, v)
  BY DeviceLeaves, <1>1, <1>9 DEF Crash, vars, ForeignWrite
<1>10. ASSUME NEW k \in Writes \cup Operations, NEW p \in Plan, Begin(k, p) PROVE TrailTellsAll'
  BY <1>2, <1>10 DEF Begin
<1>11. QED
  BY <1>6, <1>7, <1>8, <1>9, <1>10 DEF Next, Step

\* Only a new command, an execution or a change of the register touches what is owed.
LEMMA OwedStep ==
  ASSUME TypeOK, PlaceInv, OwedInv, [Next]_vars
  PROVE  OwedInv'
<1>1. ASSUME UNCHANGED <<status, own, backlog, fresh, kind>>, stage' = "poll" => stage = "poll"
      PROVE  OwedInv'
  BY <1>1 DEF OwedInv, Owed, Success
<1>2. ASSUME NEW k \in Writes \cup Operations, NEW p \in Plan, Begin(k, p) PROVE OwedInv'
  BY <1>2 DEF Begin, OwedInv, Writes
<1>3. CASE SendCommand
  BY <1>3 DEF SendCommand, OwedInv, Owed, Success, order
<1>4. CASE DeviceExecutes
  BY <1>4 DEF DeviceExecutes, OwedInv
<1>5. ASSUME NEW k \in Operations, DeviceExecutesOther(k) PROVE OwedInv'
  BY <1>5 DEF DeviceExecutesOther, OwedInv, Owed, Success, order
<1>6. CASE StatusMovesOn
  BY <1>6 DEF StatusMovesOn, OwedInv, Owed, Success, order
<1>7. ASSUME NEW k \in Operations, ForeignCommand(k) PROVE OwedInv'
  BY <1>7 DEF ForeignCommand, OwedInv, Owed, Success, order
<1>8. CASE \/ ReadBefore \/ ReadBeforeFails \/ Compare \/ Refuse \/ RecordAttempt
           \/ WriteRegister \/ ReadBack \/ RecordVerified \/ RecordBatchDone \/ RecordFailure
           \/ PollStatus \/ Crash \/ UNCHANGED vars
           \/ \E p \in Params, v \in Values : ForeignWrite(p, v)
  BY <1>1, <1>8 DEF ReadBefore, ReadBeforeFails, Compare, Refuse, RecordAttempt, WriteRegister,
     ReadBack, RecordVerified, RecordBatchDone, RecordFailure, PollStatus, Crash, vars,
     ForeignWrite, Audit, Reply, device, order
<1>9. QED
  BY <1>2, <1>3, <1>4, <1>5, <1>6, <1>7, <1>8 DEF Next, Step, DeviceMoves

\* A success that the device owed to nothing else is recorded only when it is done.
LEMMA FreshStep ==
  ASSUME TypeOK, PlaceInv, TrailInv, OwedInv, FreshSuccess, [Next]_vars
  PROVE  FreshSuccess'
<1>0. 0 \in 0 .. MaxItems /\ cursor \in 0 .. MaxItems
  BY WritesAssumption DEF TypeOK
<1> USE DEF Writes, Operations
<1>1. ASSUME kind' = kind, trail' = trail \/ LogFails, own = "done" => own' = "done",
             fresh' => fresh
      PROVE FreshSuccess'
  BY <1>1 DEF FreshSuccess, Recorded, LogFails
<1>2. ASSUME NEW s \in {"attempt", "item", "failure"}, NEW i \in 0 .. MaxItems, Logged(s, i),
             kind' = kind, UNCHANGED <<own, fresh>>
      PROVE  FreshSuccess'
  <2>1. s \in {"attempt", "item", "success", "failure"}
    BY <1>2
  <2>2. \A t, k : Recorded(t, k)' => Recorded(t, k) \/ (t = s /\ k = i)
    BY <1>2, <2>1, LoggedFacts
  <2>3. s # "success"
    BY <1>2
  <2>4. Recorded("success", 0)' => Recorded("success", 0)
    BY <2>2, <2>3
  <2>5. QED
    BY <1>2, <2>4 DEF FreshSuccess
<1>3. ASSUME kind' \in Writes \/ (fresh' => own' = "done") PROVE FreshSuccess'
  BY <1>3 DEF FreshSuccess
<1>4. ASSUME NEW k \in Writes \cup Operations, NEW p \in Plan, Begin(k, p) PROVE FreshSuccess'
  BY <1>4 DEF Begin, FreshSuccess, Recorded
<1>5. CASE Refuse \/ RecordAttempt \/ RecordFailure
  BY <1>0, <1>1, <1>2, <1>5 DEF Refuse, RecordAttempt, RecordFailure, Audit, device, order
<1>6. CASE RecordVerified \/ RecordBatchDone
  <2>1. kind' = kind /\ kind \in Writes
    BY <1>6 DEF RecordVerified, RecordBatchDone, PlaceInv, order
  <2>2. QED
    BY <1>3, <2>1
<1>7. CASE SendCommand
  <2>1. ~Recorded("success", 0)
    BY <1>7, NoOutcomeYet DEF SendCommand
  <2>2. QED
    BY <1>7, <2>1 DEF SendCommand, FreshSuccess, Recorded
<1>8. CASE PollStatus
  <2>1. kind' = kind /\ own' = own /\ fresh' = fresh
    BY <1>8 DEF PollStatus, device, order
  <2>2. CASE status = Success(kind)
    <3>1. fresh => own = "done"
      BY <1>8, <2>2 DEF PollStatus, OwedInv, Owed
    <3>2. QED
      BY <1>3, <2>1, <3>1
  <2>3. CASE status # Success(kind)
    BY <1>1, <1>8, <2>1, <2>3 DEF PollStatus
  <2>4. QED
    BY <2>2, <2>3
<1>9. CASE \/ ReadBefore \/ ReadBeforeFails \/ Compare \/ WriteRegister \/ ReadBack \/ Crash
           \/ UNCHANGED vars \/ \E p \in Params, v \in Values : ForeignWrite(p, v)
  BY <1>1, <1>9 DEF ReadBefore, ReadBeforeFails, Compare, WriteRegister, ReadBack, Crash, vars,
     ForeignWrite, device, order
<1>10. CASE DeviceMoves
  <2>1. DeviceExecutes \/ own' = own
    BY <1>10 DEF DeviceMoves, DeviceExecutesOther, StatusMovesOn, ForeignCommand
  <2>2. own = "done" => own' = "done"
    BY <2>1 DEF DeviceExecutes
  <2>3. fresh' => fresh
    <3>1. CASE DeviceExecutes \/ StatusMovesOn
      BY <3>1 DEF DeviceExecutes, StatusMovesOn
    <3>2. ASSUME NEW k \in Operations, DeviceExecutesOther(k) \/ ForeignCommand(k)
          PROVE  fresh' => fresh
      BY <3>2 DEF DeviceExecutesOther, ForeignCommand
    <3>3. QED
      BY <1>10, <3>1, <3>2 DEF DeviceMoves
  <2>4. QED
    BY <1>1, <1>10, <2>2, <2>3, DeviceLeaves DEF order
<1>11. QED
  BY <1>4, <1>5, <1>6, <1>7, <1>8, <1>9, <1>10 DEF Next, Step

-----------------------------------------------------------------------------
(* The theorems.                                                           *)

LEMMA WriteInit == Init => WriteInv
<1> SUFFICES ASSUME Init PROVE WriteInv
  OBVIOUS
<1>1. TypeOK
  BY TypeInit
<1>2. PlaceInv /\ TrailInv
  BY DEF Init, PlaceInv, TrailInv, Before, OnItem, Begun
<1>3. WritesAreDue
  <2>1. sent = [i \in 1 .. Len(sent) |-> i] /\ Len(sent) = 0
    BY EmptySeq DEF Init
  <2>2. QED
    BY <2>1 DEF Init, WritesAreDue
<1>4. HonestOutcome /\ TrailTellsAll /\ FreshSuccess /\ OwedInv
  BY DEF Init, HonestOutcome, TrailTellsAll, FreshSuccess, OwedInv, Recorded, NoReply
<1>5. QED
  BY <1>1, <1>2, <1>3, <1>4 DEF WriteInv

LEMMA WriteStep == WriteInv /\ [Next]_vars => WriteInv'
BY TypeStep, PlaceStep, TrailStep, DueStep, HonestStep, TrailTold, OwedStep, FreshStep DEF WriteInv

\* Every state has its type (the commands of runtime.rs that change a device).
THEOREM WriteTypes == Spec => []TypeOK
<1>1. WriteInv => TypeOK
  BY DEF WriteInv
<1> QED
  BY WriteInit, WriteStep, <1>1, PTL DEF Spec

\* Items are written in order, each once, the next only when the one before was
\* verified and recorded, and none when a value had changed (batch_write_parameters).
THEOREM WritesDue == Spec => []WritesAreDue
<1>1. WriteInv => WritesAreDue
  BY DEF WriteInv
<1> QED
  BY WriteInit, WriteStep, <1>1, PTL DEF Spec

\* Neither the trail nor the answer calls complete what was not verified.
THEOREM OutcomesHonest == Spec => []HonestOutcome
<1>1. WriteInv => HonestOutcome
  BY DEF WriteInv
<1> QED
  BY WriteInit, WriteStep, <1>1, PTL DEF Spec

\* Nothing reaches the device unannounced, and an answered command has its outcome
\* in the trail (push_audit before and after the transaction).
THEOREM TrailComplete == Spec => []TrailTellsAll
<1>1. WriteInv => TrailTellsAll
  BY DEF WriteInv
<1> QED
  BY WriteInit, WriteStep, <1>1, PTL DEF Spec

\* An apply or persist called a success was carried out after it was sent, if the device
\* owed that success to no other command and did not show it before
\* (execute_audited_operation).
THEOREM FreshConfirmed == Spec => []FreshSuccess
<1>1. WriteInv => FreshSuccess
  BY DEF WriteInv
<1> QED
  BY WriteInit, WriteStep, <1>1, PTL DEF Spec

-----------------------------------------------------------------------------
(* DeviceWrites implements WriteLedger: every change the program makes to  *)
(* a register is the next one its trail announced, for any device and any  *)
(* number of items.  A step of a command is a step of the ledger, or one   *)
(* the ledger does not see.                                                *)

Changes == Params \X Values
LedgerVars == <<regs, Licensed, Made>>

\* The writes still to make are changes, and the first of them is the cursor's.
LEMMA RestFacts ==
  ASSUME TypeOK, NEW from \in 1 .. Len(plan)
  PROVE  /\ Rest(from) \in Seq(Changes) /\ Rest(from) # <<>>
         /\ Head(Rest(from)) = ItemWrite(from)
         /\ Tail(Rest(from)) = IF from < Len(plan) THEN Rest(from + 1) ELSE <<>>
<1> DEFINE n == Len(plan) - from + 1
<1>1. Len(plan) \in Nat /\ from \in Nat /\ n \in Nat /\ n > 0
  BY PlanFacts DEF TypeOK
<1>2. \A i \in 1 .. n : ItemWrite(from + i - 1) \in Changes
  BY SMTT(30), <1>1, PlanFacts DEF TypeOK, ItemWrite, Item, Changes
<1>3. Rest(from) \in [1 .. n -> Changes]
  BY <1>2 DEF Rest
<1>4. Rest(from) \in Seq(Changes) /\ Len(Rest(from)) = n
  BY <1>1, <1>3, SeqDef
<1>5. Rest(from) # <<>> /\ Head(Rest(from)) = ItemWrite(from)
  <2>1. Rest(from) # <<>>
    BY <1>1, <1>4, EmptySeq
  <2>2. 1 \in 1 .. n /\ from + 1 - 1 = from
    BY <1>1
  <2>3. Rest(from)[1] = ItemWrite(from)
    BY <2>2 DEF Rest
  <2>4. QED
    BY <1>4, <2>1, <2>3
<1>6. CASE from = Len(plan)
  <2>1. Len(Tail(Rest(from))) = 0 /\ Tail(Rest(from)) \in Seq(Changes)
    BY <1>1, <1>4, <1>5, <1>6, HeadTailProperties
  <2>2. Tail(Rest(from)) = <<>>
    BY <2>1, EmptySeq
  <2>3. ~(from < Len(plan))
    BY <1>1, <1>6
  <2>4. QED
    BY <1>4, <1>5, <2>2, <2>3
<1>7. CASE from < Len(plan)
  <2>1. /\ Tail(Rest(from)) \in Seq(Changes) /\ Len(Tail(Rest(from))) = n - 1
        /\ \A i \in 1 .. n - 1 : Tail(Rest(from))[i] = Rest(from)[i + 1]
    BY <1>1, <1>4, <1>5, HeadTailProperties
  <2>2. \A i \in 1 .. n - 1 : ItemWrite(from + 1 + i - 1) \in Changes
    BY SMTT(30), <1>1, <1>7, PlanFacts DEF TypeOK, ItemWrite, Item, Changes
  <2>3. Rest(from + 1) \in [1 .. n - 1 -> Changes]
    <3>1. Len(plan) - (from + 1) + 1 = n - 1
      BY <1>1
    <3>2. Rest(from + 1) = [i \in 1 .. n - 1 |-> ItemWrite(from + 1 + i - 1)]
      BY <3>1 DEF Rest
    <3>3. QED
      BY <2>2, <3>2
  <2>4. Rest(from + 1) \in Seq(Changes) /\ Len(Rest(from + 1)) = n - 1
    BY <1>1, <1>7, <2>3, SeqDef
  <2>5. \A i \in 1 .. n - 1 : Tail(Rest(from))[i] = Rest(from + 1)[i]
    BY <1>1, <2>1 DEF Rest
  <2>6. Tail(Rest(from)) = Rest(from + 1)
    BY <2>1, <2>4, <2>5, SeqEqual
  <2>7. QED
    BY <1>4, <1>5, <1>7, <2>6
<1>8. QED
  BY <1>1, <1>4, <1>5, <1>6, <1>7

LEMMA LedgerInit == Init => Ledger!Init
<1> SUFFICES ASSUME Init PROVE Ledger!Init
  OBVIOUS
<1>1. Licensed = <<>> /\ Made = <<>>
  BY DEF Init, Licensed, Made, Writes
<1>2. QED
  BY <1>1 DEF Init, Ledger!Init

\* A step that touches no register, and begins, goes on or abandons nothing.
LEMMA Unseen ==
  ASSUME UNCHANGED <<regs, order, sent>>, Licensed' = Licensed
  PROVE  UNCHANGED LedgerVars
BY DEF LedgerVars, Made, ItemWrite, order, Writes

\* What is not written when a command ends is never written.
LEMMA Ends ==
  ASSUME stage' = "idle", UNCHANGED <<regs, order, sent>>
  PROVE  Ledger!Next
<1>1. Licensed' = <<>> /\ Made' = Made
  BY DEF Licensed, Made, ItemWrite, order
<1>2. QED
  BY <1>1 DEF Ledger!Next, Ledger!Abandon

LEMMA LedgerStep == WriteInv /\ [Next]_vars => [Ledger!Next]_LedgerVars
<1> SUFFICES ASSUME WriteInv, [Next]_vars PROVE [Ledger!Next]_LedgerVars
  OBVIOUS
<1> USE DEF WriteInv
<1>0. /\ Len(plan) \in Nat /\ cursor \in Nat /\ sent \in Seq(0 .. MaxItems)
      /\ DOMAIN sent = 1 .. Len(sent) /\ Len(sent) \in Nat
  BY PlanFacts DEF TypeOK
<1>1. ASSUME NEW k \in Writes \cup Operations, NEW p \in Plan, Begin(k, p) PROVE Ledger!Next
  <2>1. Licensed = <<>> /\ Licensed' = <<>> /\ Made' = <<>>
    BY <1>1 DEF Begin, Licensed, Made
  <2>2. QED
    BY <1>1, <2>1 DEF Begin, Ledger!Next, Ledger!Begin
<1>2. CASE ReadBefore \/ Compare \/ (ReadBeforeFails /\ stage' # "idle")
  <2>1. Licensed = <<>> /\ Licensed' = <<>>
    BY <1>2 DEF ReadBefore, Compare, ReadBeforeFails, Reply, Licensed
  <2>2. QED
    BY <1>2, <2>1, Unseen DEF ReadBefore, Compare, ReadBeforeFails, device, order
<1>3. CASE RecordAttempt /\ stage' # "idle"
  <2>1. /\ sent = <<>> /\ UNCHANGED <<regs, order, sent, cursor>>
        /\ stage = "attempt" /\ stage' = (IF kind \in Writes THEN "write" ELSE "command")
        /\ cursor = 1 /\ (kind \in Writes => 1 \in 1 .. Len(plan))
    BY <1>0, <1>3 DEF RecordAttempt, Audit, Reply, PlaceInv, Before, device, order, WellFormed, Writes
  <2>2. Licensed = <<>> /\ Made = <<>> /\ Made' = <<>>
    BY <2>1 DEF Licensed, Made, order
  <2>3. CASE kind \in Writes
    <3>1. Licensed' = Rest(1)
      BY <2>1, <2>3 DEF Licensed, Rest, ItemWrite, order
    <3>2. Licensed' \in Seq(Params \X Values)
      BY <2>1, <2>3, <3>1, RestFacts DEF Changes
    <3>3. QED
      BY <2>1, <2>2, <3>2 DEF Ledger!Next, Ledger!Attempt
  <2>4. CASE kind \notin Writes
    <3>1. Licensed' = <<>>
      BY <2>1, <2>4 DEF Licensed
    <3>2. QED
      BY <2>1, <2>2, <3>1 DEF LedgerVars
  <2>5. QED
    BY <2>3, <2>4
<1>4. CASE WriteRegister
  <2>1. /\ stage = "write" /\ stage' \in {"readback", "failed"} /\ UNCHANGED <<order, cursor>>
        /\ kind \in Writes /\ cursor \in 1 .. Len(plan) /\ Len(sent) = cursor - 1
        /\ sent' = Append(sent, cursor)
    BY <1>4 DEF WriteRegister, PlaceInv, OnItem
  <2>2. Licensed = Rest(cursor) /\ Licensed' = Tail(Rest(cursor))
    <3>1. Licensed' = IF cursor < Len(plan) THEN Rest(cursor + 1) ELSE <<>>
      BY <2>1 DEF Licensed, Rest, ItemWrite, order
    <3>2. QED
      BY <2>1, <3>1, RestFacts DEF Licensed
  <2>3. Licensed # <<>> /\ Head(Licensed) = ItemWrite(cursor) /\ Licensed' = Tail(Licensed)
    BY <2>1, <2>2, RestFacts
  <2>4. Made' = Append(Made, ItemWrite(cursor))
    <3>1. sent = [i \in 1 .. cursor - 1 |-> i]
      BY <2>1 DEF WritesAreDue
    <3>2. sent' = [i \in 1 .. cursor |-> i]
      BY <1>0, <2>1, <3>1
    <3>3. Made = [i \in 1 .. cursor - 1 |-> ItemWrite(i)]
      BY <2>1, <3>1 DEF Made
    <3>4. Made' = [i \in 1 .. cursor |-> ItemWrite(i)]
      BY <2>1, <3>2 DEF Made, ItemWrite, order
    <3>5. \A i \in 1 .. cursor : ItemWrite(i) \in Changes
      BY <1>0, <2>1, PlanFacts DEF TypeOK, ItemWrite, Item, Changes
    <3>6. Made \in Seq(Changes) /\ Len(Made) = cursor - 1
      BY <1>0, <2>1, <3>3, <3>5, SeqDef
    <3>7. Made' \in Seq(Changes) /\ Len(Made') = cursor
      BY <1>0, <2>1, <3>4, <3>5, SeqDef
    <3>8. /\ Append(Made, ItemWrite(cursor)) \in Seq(Changes)
          /\ Len(Append(Made, ItemWrite(cursor))) = cursor
          /\ \A i \in 1 .. cursor : Append(Made, ItemWrite(cursor))[i] = ItemWrite(i)
      BY <1>0, <2>1, <3>3, <3>5, <3>6
    <3>9. QED
      BY <3>4, <3>7, <3>8, SeqEqual
  <2>5. \/ regs' = [regs EXCEPT ![ItemWrite(cursor)[1]] = ItemWrite(cursor)[2]]
        \/ UNCHANGED regs
    BY <1>4 DEF WriteRegister, ItemWrite
  <2>6. QED
    BY <2>3, <2>4, <2>5 DEF Ledger!Next, Ledger!WriteNext
<1>5. CASE ReadBack
  <2>1. Licensed' = Licensed
    BY <1>5 DEF ReadBack, Licensed, Rest, ItemWrite, order
  <2>2. QED
    BY <1>5, <2>1, Unseen DEF ReadBack, device
<1>6. CASE RecordVerified /\ stage' # "idle"
  <2>1. /\ stage = "verified" /\ UNCHANGED <<regs, order, sent>> /\ cursor \in 1 .. Len(plan)
        /\ IF cursor = Len(plan)
           THEN stage' = "finish" /\ cursor' = cursor
           ELSE stage' = "write" /\ cursor' = cursor + 1
    BY <1>6 DEF RecordVerified, Audit, Reply, PlaceInv, OnItem, device
  <2>2. Licensed' = Licensed
    <3>1. CASE cursor = Len(plan)
      BY <1>0, <2>1, <3>1 DEF Licensed, order
    <3>2. CASE cursor # Len(plan)
      <4>1. Licensed = Rest(cursor + 1) /\ plan' = plan
        BY <1>0, <2>1, <3>2 DEF Licensed, order
      <4>2. Licensed' = Rest(cursor + 1)
        BY <2>1, <3>2, <4>1 DEF Licensed, Rest, ItemWrite
      <4>3. QED
        BY <4>1, <4>2
    <3>3. QED
      BY <3>1, <3>2
  <2>3. QED
    BY <2>1, <2>2, Unseen
<1>7. CASE SendCommand \/ (PollStatus /\ stage' # "idle")
  <2>1. /\ kind \in Operations /\ plan = <<>> /\ stage \in {"command", "poll"}
        /\ stage' \in {"poll", "failed"} /\ UNCHANGED <<regs, order, cursor>>
    BY <1>7 DEF SendCommand, PollStatus, Audit, Reply, PlaceInv, WellFormed, device
  <2>2. Licensed = <<>> /\ Licensed' = <<>>
    BY <1>0, <2>1, EmptySeq DEF Licensed, order
  <2>3. Made = <<>> /\ Made' = <<>>
    BY <2>1 DEF Made, order, Writes, Operations
  <2>4. QED
    BY <2>1, <2>2, <2>3 DEF LedgerVars
<1>8. CASE Crash \/ (Step /\ stage' = "idle")
  <2>1. stage' = "idle" /\ UNCHANGED <<regs, order, sent>>
    BY <1>8 DEF Crash, Step, ReadBefore, ReadBeforeFails, Compare, Refuse, RecordAttempt,
       WriteRegister, ReadBack, RecordVerified, RecordBatchDone, RecordFailure, SendCommand,
       PollStatus, device
  <2>2. QED
    BY <2>1, Ends
<1>9. CASE DeviceMoves \/ UNCHANGED vars
  <2>1. UNCHANGED <<regs, order, sent, stage, cursor>>
    BY DeviceLeaves, <1>9 DEF vars, device
  <2>2. QED
    BY <2>1, Unseen DEF Licensed, Rest, ItemWrite, order
<1>10. ASSUME NEW p \in Params, NEW v \in Values, ForeignWrite(p, v) PROVE Ledger!Next
  <2>1. UNCHANGED <<Licensed, Made>>
    BY <1>10 DEF ForeignWrite, Licensed, Made, Rest, ItemWrite, order
  <2>2. QED
    BY <1>10, <2>1 DEF ForeignWrite, Ledger!Next, Ledger!ForeignWrite
<1>11. CASE Step
  <2>1. (Refuse \/ RecordBatchDone \/ RecordFailure) => stage' = "idle"
    BY DEF Refuse, RecordBatchDone, RecordFailure, Audit, Reply
  <2>2. QED
    BY <1>2, <1>3, <1>4, <1>5, <1>6, <1>7, <1>8, <1>11, <2>1 DEF Step
<1>12. QED
  BY <1>1, <1>8, <1>9, <1>10, <1>11 DEF Next

\* Every register the program writes is one its trail announced, written once and in
\* that order (write_parameter, batch_write_parameters).
THEOREM WritesLicensed == Spec => WritesAreLicensed
<1>1. WriteInv /\ [Next]_vars => [Ledger!Next]_<<regs, Licensed, Made>>
  BY LedgerStep DEF LedgerVars
<1> QED
  BY LedgerInit, WriteInit, WriteStep, <1>1, PTL DEF Spec, WritesAreLicensed, Ledger!Spec
=============================================================================
