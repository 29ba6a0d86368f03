---- MODULE MCEcPort ----
(* EcPort for TLC: the callers are alike. *)
EXTENDS EcPort, TLC

Symmetry == Permutations(Callers)
====
