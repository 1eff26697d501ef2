------------------------------- MODULE MCWinHid -------------------------------
(* Instances of WinHid for TLC. *)
EXTENDS WinHid

CONSTANTS d1, d2

TwoDevices == {d1, d2}
=============================================================================
