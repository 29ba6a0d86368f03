---------------------------- MODULE WriteLedger ----------------------------
(***************************************************************************)
(* What src-tauri/src/runtime.rs promises of every change it makes to a    *)
(* device: a command first puts its intention in the audit trail, each     *)
(* register it named may then be written once, in the order named, and     *)
(* nothing is written when no intention is open.  Anyone else may change   *)
(* the device at any time.                                                 *)
(***************************************************************************)
EXTENDS Naturals, Sequences

CONSTANTS
  Params,  (* the device's writable parameters *)
  Values   (* the raw values of a register     *)

VARIABLES
  regs,    (* the device's registers                                    *)
  intent,  (* the audited writes not made yet, as <<param, value>> each *)
  made     (* the writes the command under way has made                 *)

Init ==
  /\ regs \in [Params -> Values]
  /\ intent = <<>>
  /\ made = <<>>

Begin ==
  /\ intent = <<>>
  /\ made' = <<>>
  /\ UNCHANGED <<regs, intent>>

\* The intention is durable before the device is touched.
Attempt ==
  /\ intent = <<>> /\ made = <<>>
  /\ intent' \in Seq(Params \X Values)
  /\ UNCHANGED <<regs, made>>

\* The first write not made yet is made; the device may take it or not.
WriteNext ==
  /\ intent # <<>>
  /\ intent' = Tail(intent)
  /\ made' = Append(made, Head(intent))
  /\ LET p == Head(intent)[1]  v == Head(intent)[2]
     IN  regs' = [regs EXCEPT ![p] = v] \/ UNCHANGED regs

\* The command ends, or the program does: what was not written never is.
Abandon ==
  /\ intent' = <<>>
  /\ UNCHANGED <<regs, made>>

ForeignWrite(p, v) ==
  /\ regs' = [regs EXCEPT ![p] = v]
  /\ UNCHANGED <<intent, made>>

Next ==
  \/ Begin
  \/ Attempt
  \/ WriteNext
  \/ Abandon
  \/ \E p \in Params, v \in Values : ForeignWrite(p, v)

Spec == Init /\ [][Next]_<<regs, intent, made>>

=============================================================================
