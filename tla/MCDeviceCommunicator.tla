------------------------ MODULE MCDeviceCommunicator ------------------------
(* Instances of DeviceCommunicator for TLC. *)
EXTENDS DeviceCommunicator

CONSTANTS p1, t1, t2, u1, o1, c1, main

OnePath == {p1}
NoThreads == {}
MainThread == {main}
NoJobs == {}
OneTimed == {t1}
TwoTimed == {t1, t2}
OneUntimed == {u1}
OneOpen == {o1}
OneClose == {c1}
=============================================================================
