----------------------------- MODULE MCHidLibusb -----------------------------
(* Instances of HidLibusb for TLC. *)
EXTENDS HidLibusb

CONSTANTS d1, d2

OneDevice == {d1}
TwoDevices == {d1, d2}
=============================================================================
