------------------------------ MODULE Recorder ------------------------------
(***************************************************************************)
(* The recorder of src-tauri/src/recording.rs: producers that must never   *)
(* wait (emit_at), a bounded queue, one worker thread that saves what it   *)
(* receives in volumes, an optional fault trigger that keeps a window      *)
(* around the first fault, and start and stop around them.                 *)
(*                                                                         *)
(* emit_at holds `run` and then `status` for all of its body, so it is one *)
(* step; start_run holds `transition` and `run` while it joins the former  *)
(* worker, stop holds only `transition` while it joins.  The worker's use  *)
(* of the files is seen by others through `status`, whose every update is  *)
(* one step with the file operation before it.  Sizes and times are left   *)
(* out: a limit is reached, a volume is full and a window ends whenever.   *)
(***************************************************************************)
EXTENDS Integers, Sequences, FiniteSets

CONSTANTS
  QueueSize,   (* capacity of the channel (4096 in the code)               *)
  FlushEvery,  (* records after which the file is flushed (100)            *)
  MaxRecords,  (* bound: records offered to one session                    *)
  NoSummary    (* summary.json is not there                                *)

ASSUME RecorderAssumption ==
  /\ QueueSize \in Nat \ {0}
  /\ FlushEvery \in Nat \ {0}
  /\ MaxRecords \in Nat
  /\ NoSummary \notin [active : BOOLEAN, armed : BOOLEAN, error : BOOLEAN, accepted : Nat,
                      dropped : Nat, written : Nat, discarded : Nat, unwritten : Nat]

\* What the trigger tells apart: an event that reports a fault, a context
\* snapshot (never held back, never a fault), anything else.
What == {"data", "fault", "context"}
Record == [seq : 1 .. MaxRecords, what : What]
Count == 0 .. MaxRecords
Status == [active : BOOLEAN, armed : BOOLEAN, error : BOOLEAN, accepted : Count,
           dropped : Count, written : Count, discarded : Count, unwritten : Count]

VARIABLES
  transition, (* the command that holds Recorder.transition                *)
  open,       (* Recorder.run is Some: the sender exists                   *)
  st,         (* Recorder.status                                           *)
  queue,      (* the channel                                               *)
  worker,     (* the stage of the worker thread                            *)
  trigger,    (* the session was started with a trigger                    *)
  ring,       (* records held back until a fault                           *)
  draining,   (* the ring is being saved before the queue                  *)
  finishing,  (* the trigger's deadline has been dealt with                *)
  clock,      (* the window after the fault, see below                     *)
  cutoff,     (* last record inside the window once it has ended           *)
  file,       (* records handed to the writer, in file order               *)
  stored,     (* how many of them the operating system has                 *)
  pending,    (* written since the last flush                              *)
  summary,    (* summary.json                                              *)
  gone,       (* history: sequence numbers discarded by the trigger        *)
  fault       (* history: the fault that set the trigger off, or 0         *)

\* clock: no fault yet; records still fall in the window (elapsed_us <= end);
\* they no longer do; the worker's own deadline, which is later, has passed.
Clocks == {"unset", "running", "past", "due"}
capture == <<trigger, ring, draining, finishing, clock, cutoff, gone, fault>>
disk == <<file, stored, pending>>
vars == <<transition, open, st, queue, worker, capture, disk, summary>>

\* "sort" is the block at the deadline, "last" is after the loop; "returned" and
\* "failed" have dropped the receiver; "save" has computed the final status;
\* "none" is no thread at all.
Workers == {"none", "loop", "sort", "last", "returned", "failed", "save", "ended"}
Listening == {"loop", "sort", "last"}

TypeOK ==
  /\ transition \in {"none", "starting", "stopping"}
  /\ open \in BOOLEAN
  /\ st \in Status
  /\ queue \in Seq(Record) /\ Len(queue) <= QueueSize
  /\ worker \in Workers
  /\ {trigger, draining, finishing} \subseteq BOOLEAN
  /\ ring \in Seq(Record)
  /\ clock \in Clocks
  /\ cutoff \in Count
  /\ file \in Seq(Record)
  /\ stored \in 0 .. Len(file)
  /\ pending \in 0 .. FlushEvery - 1
  /\ summary \in Status \cup {NoSummary}
  /\ gone \subseteq 1 .. MaxRecords
  /\ fault \in Count

FreshStatus(active, armed) ==
  [active |-> active, armed |-> armed, error |-> FALSE, accepted |-> 0,
   dropped |-> 0, written |-> 0, discarded |-> 0, unwritten |-> 0]

Init ==
  /\ transition = "none"
  /\ open = FALSE
  /\ st = FreshStatus(FALSE, FALSE)
  /\ queue = <<>>
  /\ worker = "none"
  /\ trigger = FALSE /\ ring = <<>> /\ draining = FALSE /\ finishing = FALSE
  /\ clock = "unset" /\ cutoff = 0 /\ gone = {} /\ fault = 0
  /\ file = <<>> /\ stored = 0 /\ pending = 0
  /\ summary = NoSummary

Issued == st.accepted + st.dropped

-----------------------------------------------------------------------------
(* Producers, start and stop.                                              *)

\* Mutant of Emit: a channel without a bound.
EmitUnbounded(what) ==
  /\ transition # "starting"
  /\ open /\ st.active
  /\ Issued < MaxRecords
  /\ worker \in Listening
  /\ queue' = Append(queue, [seq |-> Issued + 1, what |-> what])
  /\ st' = [st EXCEPT !.accepted = @ + 1]
  /\ UNCHANGED <<transition, open, worker, capture, disk, summary>>

\* emit_at: try_send, whatever becomes of the record.  Nothing happens while
\* no session is open or active.
Emit(what) ==
  /\ transition # "starting"
  /\ open /\ st.active
  /\ Issued < MaxRecords
  /\ LET r == [seq |-> Issued + 1, what |-> what]
     IN  \/ /\ worker \notin Listening     \* TrySendError::Disconnected
            /\ st' = [st EXCEPT !.dropped = @ + 1, !.active = FALSE, !.error = TRUE]
            /\ UNCHANGED queue
         \/ /\ worker \in Listening /\ Len(queue) = QueueSize
            /\ st' = [st EXCEPT !.dropped = @ + 1]
            /\ UNCHANGED queue
         \/ /\ worker \in Listening /\ Len(queue) < QueueSize
            /\ queue' = Append(queue, r)
            /\ st' = [st EXCEPT !.accepted = @ + 1]
  /\ UNCHANGED <<transition, open, worker, capture, disk, summary>>

\* start_run: refused while a session is active; a session that ended by
\* itself is taken out and its worker joined.
StartBegin ==
  /\ transition = "none"
  /\ ~(open /\ st.active)
  /\ transition' = "starting"
  /\ open' = FALSE
  /\ UNCHANGED <<st, queue, worker, capture, disk, summary>>

Joined == worker \in {"none", "ended"}

\* The directory, session.json or the first volume cannot be created.
StartFails ==
  /\ transition = "starting" /\ Joined
  /\ transition' = "none"
  /\ UNCHANGED <<open, st, queue, worker, capture, disk, summary>>

StartRun(armed) ==
  /\ transition = "starting" /\ Joined
  /\ transition' = "none"
  /\ open' = TRUE
  /\ st' = FreshStatus(TRUE, armed)
  /\ queue' = <<>>
  /\ worker' = "loop"
  /\ trigger' = armed /\ ring' = <<>> /\ draining' = FALSE /\ finishing' = FALSE
  /\ clock' = "unset" /\ cutoff' = 0 /\ gone' = {} /\ fault' = 0
  /\ file' = <<>> /\ stored' = 0 /\ pending' = 0
  /\ summary' = NoSummary

\* Mutant of StopBegin: the worker is joined with the sender still in hand.
StopWithSender ==
  /\ transition = "none" /\ open
  /\ transition' = "stopping"
  /\ UNCHANGED <<open, st, queue, worker, capture, disk, summary>>

\* stop: the run is taken, its sender dropped, the worker joined.
StopBegin ==
  /\ transition = "none" /\ open
  /\ transition' = "stopping"
  /\ open' = FALSE
  /\ UNCHANGED <<st, queue, worker, capture, disk, summary>>

StopEnd ==
  /\ transition = "stopping" /\ Joined
  /\ transition' = "none"
  /\ UNCHANGED <<open, st, queue, worker, capture, disk, summary>>

-----------------------------------------------------------------------------
(* The worker's files.                                                     *)

\* write_records_mode returns: the receiver goes, and what was queued with it.
Return(how) == worker' = how /\ queue' = <<>>

\* Mutant of Save: a record counts as written once it is handed over.
SaveCountsEarly(r) ==
  /\ file' = Append(file, r)
  /\ stored' \in stored .. Len(file')
  /\ st' = [st EXCEPT !.written = @ + 1]
  /\ UNCHANGED <<pending, worker>>

\* One line saved.  A full volume is flushed, synced and replaced before; a
\* flush after it is due every FlushEvery records and every 250 ms.  Without a
\* flush the buffered writer passes on what it likes.
Save(r) ==
  /\ file' = Append(file, r)
  /\ \E rotated, flushed \in BOOLEAN :
       LET unflushed == (IF rotated THEN 0 ELSE pending) + 1
           sure == IF flushed THEN Len(file') ELSE IF rotated THEN Len(file) ELSE stored
       IN  /\ rotated => file # <<>>
           /\ unflushed >= FlushEvery => flushed
           /\ pending' = IF flushed THEN 0 ELSE unflushed
           /\ st' = [st EXCEPT !.written = @ + pending + 1 - pending']
           /\ stored' \in sure .. Len(file')
  /\ UNCHANGED worker

\* The line is over 1 MiB, the limit is reached (after a flush), or a flush,
\* a sync, an open or a write fails, with the line handed over or not.
SaveFails(r) ==
  /\ Return("failed")
  /\ file' \in {file, Append(file, r)}
  /\ \/ stored' \in stored .. Len(file') /\ UNCHANGED st
     \/ stored' \in Len(file) .. Len(file') /\ st' = [st EXCEPT !.written = @ + pending]
  /\ UNCHANGED pending

\* Past the end of the window a record is only counted.
Late(r) == clock \in {"past", "due"} /\ r.seq > cutoff

Discard(r) ==
  /\ st' = [st EXCEPT !.discarded = @ + 1]
  /\ gone' = gone \cup {r.seq}

\* What becomes of a record that is not held back; rest is the queue after it.
Deliver(r, rest) ==
  \/ Late(r) /\ Discard(r) /\ queue' = rest /\ UNCHANGED <<worker, disk>>
  \/ ~Late(r) /\ Save(r) /\ queue' = rest /\ UNCHANGED gone
  \/ ~Late(r) /\ SaveFails(r) /\ UNCHANGED gone

-----------------------------------------------------------------------------
(* The worker's loop.                                                      *)

\* The head of the loop: neither its end nor the deadline is due.
Finished == finishing /\ ring = <<>>

\* Mutant of DeadlineDue: the deadline is noticed only when a record comes.
DeadlineDueOnRecord == clock = "due" /\ ~draining /\ ~finishing /\ queue # <<>>

DeadlineDue == clock = "due" /\ ~draining /\ ~finishing
Looping == worker = "loop" /\ ~Finished /\ ~DeadlineDue

\* Mutant of DrainRing: the newest record held back is saved first.
DrainNewest ==
  /\ Looping /\ draining /\ ring # <<>>
  /\ ring' = SubSeq(ring, 1, Len(ring) - 1)
  /\ Deliver(ring[Len(ring)], queue)
  /\ UNCHANGED <<transition, open, trigger, draining, finishing, clock, cutoff, fault, summary>>

\* The records held back are saved before the queue is looked at again.
DrainRing ==
  /\ Looping /\ draining /\ ring # <<>>
  /\ ring' = Tail(ring)
  /\ Deliver(Head(ring), queue)
  /\ UNCHANGED <<transition, open, trigger, draining, finishing, clock, cutoff, fault, summary>>

\* Armed: the record is held back after the oldest ones have made room.  A
\* fault opens the window: it may already have ended (the record waited in the
\* queue), and the fault itself is always inside.
Watch(r) ==
  /\ \E n \in 0 .. Len(ring) :
       LET evicted == {ring[i].seq : i \in 1 .. n}
       IN  /\ ring' = Append(SubSeq(ring, n + 1, Len(ring)), r)
           /\ gone' = gone \cup evicted
           /\ st' = [st EXCEPT !.discarded = @ + n,
                               !.armed = @ /\ r.what # "fault"]
  /\ IF r.what = "fault"
     THEN /\ fault' = r.seq
          /\ draining' = TRUE
          /\ \/ clock' = "running" /\ UNCHANGED cutoff
             \/ clock' = "past" /\ cutoff' \in r.seq .. Issued
     ELSE draining' = FALSE /\ UNCHANGED <<fault, clock, cutoff>>
  /\ queue' = Tail(queue)
  /\ UNCHANGED <<worker, disk>>

Receive ==
  /\ Looping /\ (draining => ring = <<>>) /\ queue # <<>>
  /\ LET r == Head(queue)
         armed == trigger /\ clock = "unset" /\ r.what # "context"
     IN  \/ armed /\ Watch(r)
         \/ ~armed /\ Deliver(r, Tail(queue)) /\ draining' = FALSE
            /\ UNCHANGED <<ring, clock, cutoff, fault>>
  /\ UNCHANGED <<transition, open, trigger, finishing, summary>>

\* Nothing came for 250 ms: the file is flushed.  (An empty buffer has nothing
\* to fail with.)
Timeout ==
  /\ Looping /\ (draining => ring = <<>>) /\ queue = <<>> /\ open
  /\ draining' = FALSE
  /\ \/ /\ stored' = Len(file) /\ pending' = 0
        /\ st' = [st EXCEPT !.written = @ + pending]
        /\ UNCHANGED <<worker, queue>>
     \/ /\ pending > 0
        /\ Return("failed")
        /\ stored' \in stored .. Len(file)
        /\ UNCHANGED <<st, pending>>
  /\ UNCHANGED <<transition, open, trigger, ring, finishing, clock, cutoff, gone, fault,
                 file, summary>>

\* Mutant of CloseSession: the session is closed to producers only later.
CloseLater ==
  /\ worker = "loop" /\ ~Finished /\ DeadlineDue
  /\ worker' = "sort"
  /\ UNCHANGED <<transition, open, st, queue, capture, disk, summary>>

\* The deadline: the session is closed under the status lock, which every
\* producer needs, and which the worker keeps until the queue is sorted.
CloseSession ==
  /\ worker = "loop" /\ ~Finished /\ DeadlineDue
  /\ worker' = "sort"
  /\ st' = [st EXCEPT !.active = FALSE]
  /\ UNCHANGED <<transition, open, queue, capture, disk, summary>>

\* Mutant of SortQueue: everything still queued is discarded.
SortNothing ==
  /\ worker = "sort" /\ queue # <<>>
  /\ queue' = Tail(queue)
  /\ Discard(Head(queue))
  /\ UNCHANGED <<transition, open, worker, trigger, ring, draining, finishing, clock, cutoff,
                 fault, disk, summary>>

\* What is queued is held back when it is inside the window, and discarded
\* otherwise.
SortQueue ==
  /\ worker = "sort" /\ queue # <<>>
  /\ queue' = Tail(queue)
  /\ \/ Late(Head(queue)) /\ Discard(Head(queue)) /\ UNCHANGED ring
     \/ ~Late(Head(queue)) /\ ring' = Append(ring, Head(queue)) /\ UNCHANGED <<st, gone>>
  /\ UNCHANGED <<transition, open, worker, trigger, draining, finishing, clock, cutoff,
                 fault, disk, summary>>

SortEnds ==
  /\ worker = "sort" /\ queue = <<>>
  /\ worker' = "loop"
  /\ finishing' = TRUE /\ draining' = TRUE
  /\ UNCHANGED <<transition, open, st, queue, trigger, ring, clock, cutoff, gone, fault, disk,
                 summary>>

\* The ring of a finished window is empty, or the sender is gone and so is
\* every record it sent.
LoopEnds ==
  /\ worker = "loop"
  /\ \/ Finished
     \/ Looping /\ (draining => ring = <<>>) /\ queue = <<>> /\ ~open
  /\ worker' = "last"
  /\ UNCHANGED <<transition, open, st, queue, capture, disk, summary>>

\* Mutant of LastFlush: its failure is ignored.
LastFlushUnchecked ==
  /\ worker = "last"
  /\ gone' = gone \cup {ring[i].seq : i \in DOMAIN ring}
  /\ ring' = <<>>
  /\ st' = [st EXCEPT !.discarded = @ + Len(ring), !.written = @ + pending]
  /\ pending' = 0
  /\ stored' \in stored .. Len(file)
  /\ Return("returned")
  /\ UNCHANGED <<transition, open, trigger, draining, finishing, clock, cutoff, fault,
                 file, summary>>

\* A fault that never came: what was held back is discarded.  Then the last
\* flush and sync, which may fail.
LastFlush ==
  /\ worker = "last"
  /\ gone' = gone \cup {ring[i].seq : i \in DOMAIN ring}
  /\ ring' = <<>>
  /\ \E flushed \in BOOLEAN :
       /\ st' = [st EXCEPT !.discarded = @ + Len(ring),
                           !.written = IF flushed THEN @ + pending ELSE @]
       /\ pending' = IF flushed THEN 0 ELSE pending
       /\ stored' \in (IF flushed THEN Len(file) ELSE stored) .. Len(file)
       /\ Return("failed") \/ (flushed /\ Return("returned"))
  /\ UNCHANGED <<transition, open, trigger, draining, finishing, clock, cutoff, fault,
                 file, summary>>

-----------------------------------------------------------------------------
(* The end of a session, and the end of the process.                       *)

\* finish_recording: the final counts, under the status lock.  (The
\* subtraction of the code saturates; written + discarded <= accepted.)
FinishRecording ==
  /\ worker \in {"returned", "failed"}
  /\ worker' = "save"
  /\ st' = [st EXCEPT !.active = FALSE, !.armed = FALSE,
                      !.error = @ \/ worker = "failed",
                      !.unwritten = st.accepted - (st.written + st.discarded)]
  /\ UNCHANGED <<transition, open, queue, capture, disk, summary>>

\* summary.tmp is written, synced and renamed, or one of these fails.
SaveSummary ==
  /\ worker = "save"
  /\ worker' = "ended"
  /\ \/ summary' = st /\ UNCHANGED st
     \/ st' = [st EXCEPT !.error = TRUE] /\ UNCHANGED summary
  /\ UNCHANGED <<transition, open, queue, capture, disk>>

\* The process dies and is started again: what the system has of the files and
\* a summary stay, the rest is as in Recorder::new.
Crash ==
  /\ worker # "none"
  /\ transition' = "none"
  /\ open' = FALSE
  /\ st' = FreshStatus(FALSE, FALSE)
  /\ queue' = <<>>
  /\ worker' = "none"
  /\ file' = SubSeq(file, 1, stored)
  /\ pending' = 0
  /\ UNCHANGED <<capture, stored, summary>>

\* Time: the last record inside the window, then the worker's deadline.
WindowEnds ==
  /\ worker = "loop" /\ clock = "running"
  /\ clock' = "past"
  /\ cutoff' = Issued
  /\ UNCHANGED <<transition, open, st, queue, worker, trigger, ring, draining, finishing,
                 gone, fault, disk, summary>>

DeadlineComes ==
  /\ worker = "loop" /\ clock = "past"
  /\ clock' = "due"
  /\ UNCHANGED <<transition, open, st, queue, worker, trigger, ring, draining, finishing,
                 cutoff, gone, fault, disk, summary>>

Worker ==
  \/ DrainRing \/ Receive \/ Timeout \/ CloseSession \/ SortQueue \/ SortEnds
  \/ LoopEnds \/ LastFlush \/ FinishRecording \/ SaveSummary

Next ==
  \/ \E what \in What : Emit(what)
  \/ StartBegin \/ StartFails \/ (\E armed \in BOOLEAN : StartRun(armed))
  \/ StopBegin \/ StopEnd
  \/ Worker
  \/ WindowEnds \/ DeadlineComes
  \/ Crash

Spec == Init /\ [][Next]_vars

\* The worker thread is scheduled and never waits longer than 250 ms; a join
\* that can return does; time passes.
FairSpec ==
  /\ Spec
  /\ WF_vars(Worker)
  /\ WF_vars(StartFails \/ \E armed \in BOOLEAN : StartRun(armed))
  /\ WF_vars(StopEnd)
  /\ WF_vars(WindowEnds \/ DeadlineComes)

-----------------------------------------------------------------------------
(* What makes it correct.                                                  *)

Readable == {file[i].seq : i \in 1 .. stored}

\* session_warning of the readers: no summary, contradictory counts, or a gap.
Warned(s) ==
  \/ s = NoSummary
  \/ s.active \/ s.written > s.accepted - s.discarded
  \/ s.unwritten # s.accepted - (s.written + s.discarded)
  \/ s.error \/ s.dropped > 0 \/ s.unwritten > 0

\* A session its readers do not warn about has every record offered to it on
\* disk, each once, but for those the trigger was asked to discard - after any
\* overflow, failure or crash.
SilenceMeansWhole ==
  ~Warned(summary) =>
    /\ Readable = (1 .. summary.accepted) \ gone
    /\ stored = Cardinality(Readable)

\* What the status calls written survives a crash of the program.
WrittenSurvives == st.written <= stored

\* A session that ended without an error lost nothing that emit_at accepted.
AcceptedAccounted ==
  worker = "ended" /\ ~st.error =>
    /\ st.accepted = st.written + st.discarded
    /\ queue = <<>> /\ ring = <<>>

\* The trigger discards nothing between the fault and the end of the window.
FaultWindowKept ==
  fault > 0 =>
    \A n \in gone : n < fault \/ (clock \in {"past", "due"} /\ n > cutoff)

\* Records reach the volumes in the order they were made; only a context
\* snapshot overtakes records that are held back.
OrderKept ==
  \A i, j \in DOMAIN file :
    i < j /\ file[i].what # "context" => file[i].seq < file[j].seq

\* start and stop come back, whatever the worker was doing, and a window that was
\* opened is closed without anybody's help.
NothingHangs ==
  /\ transition # "none" ~> transition = "none"
  /\ clock = "running" ~> worker \in {"none", "ended"}

=============================================================================
