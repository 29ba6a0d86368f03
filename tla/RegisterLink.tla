---------------------------- MODULE RegisterLink ----------------------------
(***************************************************************************)
(* What a command may rely on when it reads or writes one register of a    *)
(* drive, whatever the wire does in between:                               *)
(*   - a write is carried out at most once, and an acknowledged write was  *)
(*     carried out before the acknowledgement;                             *)
(*   - a value that is returned is one the register had while it was read; *)
(*   - a call that failed says nothing: its write may have been carried    *)
(*     out, may still be, or may never be.                                 *)
(* DeviceWrites is built on this promise; ModbusTcp is shown to keep it.   *)
(***************************************************************************)
EXTENDS Naturals

CONSTANTS
  Values,
  Idle,   (* no call is in progress                                        *)
  None,   (* no answer yet                                                 *)
  Failed  (* the call was answered with an error                           *)

VARIABLES
  register,
  call,   (* the call in progress: what it does                            *)
  calls,  (* how many were made                                            *)
  taken,  (* what the device did for it so far: values it read, or wrote   *)
  late,   (* writes given up by their caller that may still happen         *)
  answer  (* of the last call                                              *)

vars == <<register, call, calls, taken, late, answer>>

Calls == [kind : {"read"}] \cup [kind : {"write"}, value : Values]

Init ==
  /\ register \in Values
  /\ call = Idle
  /\ calls = 0
  /\ taken = {}
  /\ late = {}
  /\ answer = None

Begin ==
  /\ call = Idle
  /\ call' \in Calls
  /\ calls' = calls + 1
  /\ answer' = None
  /\ UNCHANGED <<register, taken, late>>

\* A read may be repeated on the wire, and carried out each time.
CarryOut ==
  /\ \/ /\ call.kind = "read"
        /\ taken' = taken \cup {register}
        /\ register' = register
     \/ /\ call.kind = "write"
        /\ taken = {}
        /\ taken' = {call.value}
        /\ register' = call.value
  /\ UNCHANGED <<call, calls, late, answer>>

Succeed ==
  /\ answer' \in taken
  /\ call' = Idle
  /\ taken' = {}
  /\ UNCHANGED <<register, calls, late>>

GiveUp ==
  /\ answer' = Failed
  /\ call' = Idle
  /\ taken' = {}
  /\ \/ late' = late
     \/ /\ call.kind = "write"
        /\ taken = {}
        /\ late' = late \cup {[call |-> calls, value |-> call.value]}
  /\ UNCHANGED <<register, calls>>

CarryOutLate == \E w \in late :
  /\ register' = w.value
  /\ late' = late \ {w}
  /\ UNCHANGED <<call, calls, taken, answer>>

Lose == \E w \in late :
  /\ late' = late \ {w}
  /\ UNCHANGED <<register, call, calls, taken, answer>>

\* Another master, the keypad of the drive, or the drive itself.
Foreign ==
  /\ register' \in Values
  /\ UNCHANGED <<call, calls, taken, late, answer>>

Next ==
  \/ Begin
  \/ call # Idle /\ (CarryOut \/ Succeed \/ GiveUp)
  \/ CarryOutLate \/ Lose \/ Foreign

Spec == Init /\ [][Next]_vars

=============================================================================
