------------------------------- MODULE MCMacHid -------------------------------
(* Instances of MacHid for TLC. *)
EXTENDS MacHid

CONSTANT d1

OneDevice == {d1}
=============================================================================
