--------------------------- MODULE DeviceWrites ---------------------------
(***************************************************************************)
(* The commands that change a device: write_parameter, the batch write,    *)
(* apply and persist (src-tauri/src/runtime.rs), with the audit trail they *)
(* keep (audit.rs) and a device that answers, refuses, loses a request or  *)
(* an answer, and is changed by others (its panel, another master).        *)
(*                                                                         *)
(* with_runtime runs one command at a time, so one command is under way.   *)
(* `trail` is the part of the audit database appended since it began, and  *)
(* `sent` the FC06 requests put on the wire since then: both are durable   *)
(* facts that a crash leaves alone.  What earlier commands appended is     *)
(* never touched again and is left out, so the number of commands has no   *)
(* bound.                                                                  *)
(***************************************************************************)
EXTENDS Naturals, Sequences

CONSTANTS
  Params,  (* the writable parameters of the profile                       *)
  Values,  (* raw register values                                          *)
  Any,     (* write_parameter without expected_raw                         *)
  MaxItems,(* bound: items of a batch (500 in the code)                    *)
  Statuses, ApplyDone, PersistDone (* of the status register; successStatus of apply, persist *)

ASSUME WritesAssumption ==
  /\ Any \notin Values
  /\ {ApplyDone, PersistDone} \subseteq Statuses
  /\ MaxItems \in Nat \ {0}

Writes == {"write", "batch"}
Operations == {"apply", "persist"}
Item == [param : Params, new : Values, expected : Values \cup {Any}]
Plan == UNION {[1 .. n -> Item] : n \in 0 .. MaxItems}
Stages == {"idle", "read", "refused", "attempt", "write", "readback", "verified",
           "failed", "finish", "command", "poll"}
Entries == [status : {"attempt", "item", "success", "failure"}, item : 0 .. MaxItems]

VARIABLES
  regs,    (* the device: parameter registers                              *)
  status,  (* the device: its status register                              *)
  own,     (* the device: "taken" this operation's command, "done" with it *)
  backlog, (* the device: earlier or foreign commands it may yet carry out *)
  fresh,   (* history: nothing else owed the success of the command sent   *)
  kind,    (* the command under way, or the last one                       *)
  plan,    (* its items: parameter, new value, value expected before       *)
  stage,   (* where it is                                                  *)
  seen,    (* the values read before writing, in plan order                *)
  cursor,  (* the item being written                                       *)
  sent,    (* FC06 requests of this command, by item; 0 the command word   *)
  verified,(* history: items whose reading back gave the value written     *)
  trail,   (* audit entries of this command                                *)
  logLost, (* an append to the audit database failed in this command       *)
  reply    (* what the caller got: result and completed items              *)

device == <<regs, status, own, backlog, fresh>>
order == <<kind, plan>>
vars == <<device, order, stage, seen, cursor, sent, verified, trail,
          logLost, reply>>

NoReply == [result |-> "none", completed |-> 0]
Done(n) == [result |-> "ok", completed |-> n]
Partial(n) == [result |-> "partial", completed |-> n]
Error == [result |-> "error", completed |-> 0]

TypeOK ==
  /\ regs \in [Params -> Values]
  /\ status \in Statuses
  /\ own \in {"none", "taken", "done"}
  /\ backlog \subseteq Operations
  /\ fresh \in BOOLEAN
  /\ kind \in Writes \cup Operations
  /\ plan \in Plan
  /\ stage \in Stages
  /\ seen \in UNION {[1 .. n -> Values] : n \in 0 .. Len(plan)}
  /\ cursor \in 1 .. MaxItems
  /\ sent \in Seq(0 .. MaxItems)
  /\ verified \in 0 .. MaxItems
  /\ trail \in Seq(Entries)
  /\ logLost \in BOOLEAN
  /\ reply \in [result : {"none", "ok", "partial", "error"}, completed : 0 .. MaxItems]

Init ==
  /\ regs \in [Params -> Values]
  /\ status \in Statuses
  /\ own = "none"
  /\ backlog \in SUBSET Operations
  /\ fresh = FALSE
  /\ kind = "write"
  /\ plan = <<>>
  /\ stage = "idle"
  /\ seen = <<>>
  /\ cursor = 1
  /\ sent = <<>>
  /\ verified = 0
  /\ trail = <<>>
  /\ logLost = FALSE
  /\ reply = NoReply

-----------------------------------------------------------------------------
(* Beginning and ending a command.                                         *)

Distinct(p) == \A i, j \in DOMAIN p : i # j => p[i].param # p[j].param

\* A command whose checks of phrase, profile, access and range passed.  The
\* checks that fail touch nothing and are left out.  A batch has no duplicate
\* parameter and an expected value for each; apply and persist have no items.
WellFormed(k, p) ==
  /\ k = "write" => Len(p) = 1
  /\ k = "batch" => Len(p) > 0 /\ Distinct(p) /\ \A i \in DOMAIN p : p[i].expected # Any
  /\ k \in Operations => p = <<>>

Begin(k, p) ==
  /\ stage = "idle"
  /\ WellFormed(k, p)
  /\ kind' = k /\ plan' = p
  /\ stage' = IF k \in Writes THEN "read" ELSE "attempt"
  /\ seen' = <<>> /\ cursor' = 1 /\ sent' = <<>> /\ verified' = 0
  /\ trail' = <<>>
  /\ logLost' = FALSE /\ reply' = NoReply
  /\ backlog' = backlog \cup (IF own = "taken" THEN {kind} ELSE {})
  /\ own' = "none" /\ fresh' = FALSE
  /\ UNCHANGED <<regs, status>>

Reply(r) == stage' = "idle" /\ reply' = r

\* One INSERT into the audit database, which may fail.
Logged(s, i) == trail' = Append(trail, [status |-> s, item |-> i]) /\ UNCHANGED logLost
LogFails == logLost' = TRUE /\ UNCHANGED trail

\* push_audit(...)? : the entry is appended and the command goes on, or the
\* append fails and its error is the command's.
Audit(s, i, goOn) ==
  \/ Logged(s, i) /\ goOn
  \/ LogFails /\ Reply(Error)

-----------------------------------------------------------------------------
(* Before the first write.                                                 *)

Matches(i) == plan[i].expected \in {Any, seen[i]}

\* One FC03 before writing.  Items that are not neighbours in the address map
\* are read one transaction after another, and the device may change between.
ReadBefore ==
  /\ stage = "read" /\ Len(seen) < Len(plan)
  /\ seen' = Append(seen, regs[plan[Len(seen) + 1].param])
  /\ UNCHANGED <<device, order, stage, cursor, sent, verified, trail, logLost, reply>>

\* Not connected: the error is all there is.  A read that fails: so it is for
\* write_parameter, while the batch records that it never started.
ReadBeforeFails ==
  /\ stage = "read" /\ Len(seen) < Len(plan)
  /\ \/ (kind = "write" \/ seen = <<>>) /\ Reply(Error)
     \/ kind = "batch" /\ stage' = "refused" /\ UNCHANGED reply
  /\ UNCHANGED <<device, order, seen, cursor, sent, verified, trail, logLost>>

\* Mutant of Compare: a batch is begun when any one of its items is current.
CompareAny ==
  /\ stage = "read" /\ Len(seen) = Len(plan)
  /\ stage' = IF \E i \in DOMAIN plan : Matches(i) THEN "attempt" ELSE "refused"
  /\ UNCHANGED <<device, order, seen, cursor, sent, verified, trail, logLost, reply>>

\* Every value is compared before anything is written.
Compare ==
  /\ stage = "read" /\ Len(seen) = Len(plan)
  /\ stage' = IF \A i \in DOMAIN plan : Matches(i) THEN "attempt" ELSE "refused"
  /\ UNCHANGED <<device, order, seen, cursor, sent, verified, trail, logLost, reply>>

Refuse ==
  /\ stage = "refused"
  /\ Audit("failure", 0, Reply(Error))
  /\ UNCHANGED <<device, order, seen, cursor, sent, verified>>

\* Mutant of RecordAttempt: an attempt that could not be recorded goes ahead.
RecordAttemptIfPossible ==
  /\ stage = "attempt"
  /\ stage' = (IF kind \in Writes THEN "write" ELSE "command") /\ UNCHANGED reply
  /\ Logged("attempt", 0) \/ LogFails
  /\ UNCHANGED <<device, order, seen, cursor, sent, verified>>

RecordAttempt ==
  /\ stage = "attempt"
  /\ Audit("attempt", 0,
           stage' = (IF kind \in Writes THEN "write" ELSE "command") /\ UNCHANGED reply)
  /\ UNCHANGED <<device, order, seen, cursor, sent, verified>>

-----------------------------------------------------------------------------
(* Writing and reading back.                                               *)

\* Mutant of WriteRegister: a request without an answer is sent again.
WriteRegisterResends ==
  /\ stage = "write"
  /\ sent' = Append(sent, cursor)
  /\ \/ regs' = [regs EXCEPT ![plan[cursor].param] = plan[cursor].new]
     \/ UNCHANGED regs
  /\ stage' \in {"readback", "failed"} \cup (IF Len(sent) < 3 THEN {"write"} ELSE {})
  /\ UNCHANGED <<status, own, backlog, fresh, order, seen, cursor, verified, trail, logLost, reply>>

\* One FC06, never resent.  It may be lost before the device, taken with its
\* answer lost, refused, or acknowledged - without the device keeping the
\* value, too: only the reading back tells.
WriteRegister ==
  /\ stage = "write"
  /\ sent' = Append(sent, cursor)
  /\ \/ regs' = [regs EXCEPT ![plan[cursor].param] = plan[cursor].new]
     \/ UNCHANGED regs
  /\ stage' \in {"readback", "failed"}
  /\ UNCHANGED <<status, own, backlog, fresh, order, seen, cursor, verified, trail, logLost, reply>>

\* FC03 after the write: another value or no answer is a failure.
ReadBack ==
  /\ stage = "readback"
  /\ \/ /\ regs[plan[cursor].param] = plan[cursor].new
        /\ stage' = "verified" /\ verified' = cursor
     \/ stage' = "failed" /\ UNCHANGED verified
  /\ UNCHANGED <<device, order, seen, cursor, sent, trail, logLost, reply>>

\* Mutant of RecordVerified: the cursor moves on past the last item, too.
RecordVerifiedOverrun ==
  /\ stage = "verified"
  /\ \/ /\ Logged("item", cursor)
        /\ stage' = (IF cursor = Len(plan) THEN "finish" ELSE "write")
        /\ cursor' = cursor + 1 /\ UNCHANGED reply
     \/ LogFails /\ Reply(Error) /\ UNCHANGED cursor
  /\ UNCHANGED <<device, order, seen, sent, verified>>

\* The success of a single write ends it; that of an item goes on to the next.
RecordVerified ==
  /\ stage = "verified"
  /\ IF kind = "write"
     THEN Audit("success", 0, Reply(Done(1))) /\ UNCHANGED cursor
     ELSE \/ /\ Logged("item", cursor)
             /\ UNCHANGED reply
             /\ IF cursor = Len(plan)
                THEN stage' = "finish" /\ UNCHANGED cursor
                ELSE stage' = "write" /\ cursor' = cursor + 1
          \/ LogFails /\ Reply(Error) /\ UNCHANGED cursor
  /\ UNCHANGED <<device, order, seen, sent, verified>>

RecordBatchDone ==
  /\ stage = "finish"
  /\ Audit("success", 0, Reply(Done(Len(plan))))
  /\ UNCHANGED <<device, order, seen, cursor, sent, verified>>

\* Mutant of RecordFailure: a batch goes on after the item that failed.
RecordFailureGoesOn ==
  /\ stage = "failed"
  /\ \/ /\ kind = "batch" /\ cursor < Len(plan)
        /\ stage' = "write" /\ cursor' = cursor + 1
        /\ UNCHANGED <<trail, logLost, reply>>
     \/ /\ Audit("failure", 0, Reply(IF kind = "batch" THEN Partial(cursor - 1) ELSE Error))
        /\ UNCHANGED cursor
  /\ UNCHANGED <<device, order, seen, sent, verified>>

\* Mutant of RecordFailure: the item that failed is counted as completed.
RecordFailureMiscounts ==
  /\ stage = "failed"
  /\ Audit("failure", 0, Reply(IF kind = "batch" THEN Partial(cursor) ELSE Error))
  /\ UNCHANGED <<device, order, seen, cursor, sent, verified>>

\* The first failure ends the command; a batch returns what it completed.
RecordFailure ==
  /\ stage = "failed"
  /\ Audit("failure", 0, Reply(IF kind = "batch" THEN Partial(cursor - 1) ELSE Error))
  /\ UNCHANGED <<device, order, seen, cursor, sent, verified>>

-----------------------------------------------------------------------------
(* apply and persist: execute_audited_operation.                           *)

Success(k) == IF k = "apply" THEN ApplyDone ELSE PersistDone

\* What the status register shows, and may yet show for other commands.
Owed == {status} \cup {Success(k) : k \in backlog}

\* The command register is written once, whatever the status register shows. The
\* request may be lost, or taken with its answer lost, or acknowledged by a device that
\* ignores the command; one that takes it need not touch the status register.
SendCommand ==
  /\ stage = "command"
  /\ \/ sent' = sent /\ stage' = "failed" /\ UNCHANGED own
     \/ sent' = Append(sent, 0) /\ stage' \in {"poll", "failed"} /\ own' \in {"none", "taken"}
  /\ fresh' = (Success(kind) \notin Owed)
  /\ UNCHANGED <<regs, status, backlog, order, seen, cursor, verified, trail, logLost, reply>>

\* Mutant of PollStatus: the success of either operation ends the waiting.
PollEither ==
  /\ stage = "poll"
  /\ \/ status \in {ApplyDone, PersistDone} /\ Audit("success", 0, Reply(Done(0)))
     \/ stage' = "failed" /\ UNCHANGED <<trail, logLost, reply>>
  /\ UNCHANGED <<device, order, seen, cursor, sent, verified>>

\* Mutant of PollStatus: nothing but success ends the waiting.
PollForever ==
  /\ stage = "poll"
  /\ status = Success(kind) /\ Audit("success", 0, Reply(Done(0)))
  /\ UNCHANGED <<device, order, seen, cursor, sent, verified>>

\* Mutant of PollStatus: the time-out goes to the caller and not to the trail.
PollUnrecorded ==
  /\ stage = "poll"
  /\ \/ status = Success(kind) /\ Audit("success", 0, Reply(Done(0)))
     \/ Reply(Error) /\ UNCHANGED <<trail, logLost>>
  /\ UNCHANGED <<device, order, seen, cursor, sent, verified>>

\* The status is read every 50 ms: success ends it, so do a failed read and
\* the time-out.
PollStatus ==
  /\ stage = "poll"
  /\ \/ status = Success(kind) /\ Audit("success", 0, Reply(Done(0)))
     \/ stage' = "failed" /\ UNCHANGED <<trail, logLost, reply>>
  /\ UNCHANGED <<device, order, seen, cursor, sent, verified>>

-----------------------------------------------------------------------------
(* The device and the world.                                               *)

\* The device carries out the command it took, however late, and says so.
DeviceExecutes ==
  /\ own = "taken"
  /\ own' = "done" /\ status' = Success(kind)
  /\ UNCHANGED <<regs, backlog, fresh, order, stage, seen, cursor, sent, verified, trail,
                 logLost, reply>>

\* So it does with one given up by its caller, or sent by another master.
DeviceExecutesOther(k) ==
  /\ k \in backlog
  /\ backlog' = backlog \ {k} /\ status' = Success(k)
  /\ UNCHANGED <<regs, own, fresh, order, stage, seen, cursor, sent, verified, trail,
                 logLost, reply>>

\* The register shows something else again: the device is busy, idle or reset.
StatusMovesOn ==
  /\ status' \in Statuses \ {ApplyDone, PersistDone}
  /\ UNCHANGED <<regs, own, backlog, fresh, order, stage, seen, cursor, sent, verified,
                 trail, logLost, reply>>

ForeignCommand(k) ==
  /\ backlog' = backlog \cup {k}
  /\ fresh' = (fresh /\ Success(k) # Success(kind))
  /\ UNCHANGED <<regs, status, own, order, stage, seen, cursor, sent, verified, trail,
                 logLost, reply>>

\* What the device does with its commands and its status register.
DeviceMoves ==
  \/ DeviceExecutes \/ StatusMovesOn
  \/ \E k \in Operations : DeviceExecutesOther(k) \/ ForeignCommand(k)

ForeignWrite(p, v) ==
  /\ regs' = [regs EXCEPT ![p] = v]
  /\ UNCHANGED <<status, own, backlog, fresh, order, stage, seen, cursor, sent, verified,
                 trail, logLost, reply>>

\* The program dies between two steps: no answer, and nothing resumes.
Crash ==
  /\ stage # "idle"
  /\ stage' = "idle"
  /\ UNCHANGED <<device, order, seen, cursor, sent, verified, trail, logLost, reply>>

Step ==
  \/ ReadBefore \/ ReadBeforeFails \/ Compare \/ Refuse \/ RecordAttempt
  \/ WriteRegister \/ ReadBack \/ RecordVerified \/ RecordBatchDone \/ RecordFailure
  \/ SendCommand \/ PollStatus

Next ==
  \/ \E k \in Writes \cup Operations, p \in Plan : Begin(k, p)
  \/ Step
  \/ DeviceMoves
  \/ \E p \in Params, v \in Values : ForeignWrite(p, v)
  \/ Crash

Spec == Init /\ [][Next]_vars

\* A command that is running goes on: every transaction ends in an answer or a
\* time-out, and an SQLite insert returns.
FairSpec == Spec /\ WF_vars(Step)

-----------------------------------------------------------------------------
(* What makes it correct.                                                  *)

Recorded(s, i) == \E n \in DOMAIN trail : trail[n] = [status |-> s, item |-> i]
Ended == Recorded("success", 0) \/ Recorded("failure", 0)

\* The items are written in order, each once (README: a write is not resent), and the
\* next only when the one before was verified and recorded. Nothing is written when
\* any value had changed since the user looked: the batch as a whole does not start.
WritesAreDue ==
  kind \in Writes =>
    /\ sent = [i \in 1 .. Len(sent) |-> i]
    /\ \A i \in 1 .. Len(sent) - 1 : Recorded("item", i) /\ i <= verified
    /\ sent # <<>> => \A i \in DOMAIN plan : Matches(i)

\* A partial batch is never taken for a whole one, neither in the trail nor in
\* the answer, and what either calls complete was verified on the device.
HonestOutcome ==
  kind \in Writes =>
    /\ \A i \in DOMAIN plan : Recorded("item", i) => i <= verified
    /\ Recorded("success", 0) => verified = Len(plan)
    /\ reply.result = "ok" => Recorded("success", 0) /\ reply.completed = Len(plan)
    /\ reply.result = "partial" =>
         /\ Recorded("failure", 0)
         /\ reply.completed = verified /\ verified < Len(plan)

\* docs/snapshots-and-audit.md: no write or command reaches the device before its
\* attempt is in the audit database, whatever fails or dies; and a command that was
\* answered has its outcome there, once and last, unless the trail itself could not
\* be written.
TrailTellsAll ==
  sent # <<>> =>
    /\ trail # <<>> /\ trail[1] = [status |-> "attempt", item |-> 0]
    /\ reply.result # "none" /\ ~logLost =>
         /\ trail[Len(trail)].status \in {"success", "failure"}
         /\ \A n \in 1 .. Len(trail) - 1 : trail[n].status \in {"attempt", "item"}

\* An apply or a persist called a success was carried out after it was sent, provided
\* the device owed that success to nothing else: the status register is shared by both
\* operations and is not looked at before (execute_operation).
FreshSuccess ==
  kind \in Operations /\ Recorded("success", 0) /\ fresh => own = "done"

\* Every command ends: a device that never reports done is timed out.
CommandEnds == stage # "idle" ~> stage = "idle"

\* The command's writes, made and still to make, in the promise's terms.
ItemWrite(i) == <<plan[i].param, plan[i].new>>
Made == IF kind \in Writes THEN [n \in DOMAIN sent |-> ItemWrite(sent[n])] ELSE <<>>
Rest(from) == [n \in 1 .. Len(plan) - from + 1 |-> ItemWrite(from + n - 1)]
Licensed ==
  IF stage = "write" THEN Rest(cursor)
  ELSE IF stage \in {"readback", "verified", "failed"} /\ cursor < Len(plan)
       THEN Rest(cursor + 1)
       ELSE <<>>

\* Every register the program writes is one its trail announced, written once
\* and in that order; any other change of a register is somebody else's.
Ledger == INSTANCE WriteLedger WITH intent <- Licensed, made <- Made
WritesAreLicensed == Ledger!Spec

\* runtime.rs:517: "A logging failure must not change a completed device
\* operation into a retryable failure."
LoggingDoesNotUndo ==
  kind \in Writes /\ verified = Len(plan) => reply.result # "error"

=============================================================================
