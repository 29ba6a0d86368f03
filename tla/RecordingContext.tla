-------------------------- MODULE RecordingContext --------------------------
(***************************************************************************)
(* How the configuration in force reaches a recording: set_context and the *)
(* snapshot in session.json (src-tauri/src/recording.rs).  The owners of   *)
(* the configuration - the Modbus runtime, the EtherCAT master, the        *)
(* mapping of the library - each call it from a thread of their own.       *)
(*                                                                         *)
(* Readers decode a record with the last snapshot before it, or with the   *)
(* one of session.json (recording_index.rs).  The channel is taken to have *)
(* room: losing a snapshot to an overflow is Recorder's business.          *)
(***************************************************************************)
EXTENDS Naturals, Sequences

CONSTANTS
  Owners,    (* the parts of the program that own a part of the context    *)
  Versions,  (* the configurations an owner may have                       *)
  MaxTold,   (* bound: snapshots in one session                            *)
  Quiet      (* an owner that is not inside set_context                    *)

VARIABLES
  context,   (* Recorder.context                                           *)
  telling,   (* the snapshot each owner took and has not emitted yet       *)
  recording, (* a session is open and active                               *)
  snapshots  (* of the session: session.json's, then those of the records  *)

vars == <<context, telling, recording, snapshots>>

Snapshot == [Owners -> Versions]

TypeOK ==
  /\ context \in Snapshot
  /\ telling \in [Owners -> Snapshot \cup {Quiet}]
  /\ recording \in BOOLEAN
  /\ snapshots \in Seq(Snapshot)

Init ==
  /\ context \in Snapshot
  /\ telling = [o \in Owners |-> Quiet]
  /\ recording = FALSE
  /\ snapshots = <<>>

\* set_context up to drop(context): the change, and the text of it, are made
\* under the context lock.
SetContext(o, v) ==
  /\ telling[o] = Quiet
  /\ context' = [context EXCEPT ![o] = v]
  /\ telling' = [telling EXCEPT ![o] = context']
  /\ UNCHANGED <<recording, snapshots>>

\* The rest of it: emit, under the run lock.
EmitContext(o) ==
  /\ telling[o] # Quiet
  /\ Len(snapshots) <= MaxTold
  /\ snapshots' = IF recording THEN Append(snapshots, telling[o]) ELSE snapshots
  /\ telling' = [telling EXCEPT ![o] = Quiet]
  /\ UNCHANGED <<context, recording>>

\* start_run reads the context while it keeps every emit waiting.
StartRun ==
  /\ ~recording
  /\ recording' = TRUE
  /\ snapshots' = <<context>>
  /\ UNCHANGED <<context, telling>>

Stop ==
  /\ recording
  /\ recording' = FALSE
  /\ UNCHANGED <<context, telling, snapshots>>

Next ==
  \/ \E o \in Owners : EmitContext(o) \/ \E v \in Versions : SetContext(o, v)
  \/ StartRun
  \/ Stop

Spec == Init /\ [][Next]_vars

\* docs/ethercat-and-recording.md: a record is decoded with the mapping of its
\* time.  When no change is under way, the last snapshot of the session is the
\* configuration in force.
DecodedAsConfigured ==
  recording /\ (\A o \in Owners : telling[o] = Quiet) =>
    snapshots[Len(snapshots)] = context

=============================================================================
