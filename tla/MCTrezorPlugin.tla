--------------------------- MODULE MCTrezorPlugin ---------------------------
(* Instances of TrezorPlugin for TLC. *)
EXTENDS TrezorPlugin

CONSTANTS p1, p2, t1, t2, c1, config1, wire1, serial1, serial2

TwoPaths == {p1, p2}
JustMain == {MainThread}
NoJobs == {}
OneTimed == {t1}
TwoTimed == {t1, t2}
OneClose == {c1}
OneConfig == {config1}
AllPaths == [c \in Configurations |-> Paths]
SamePool == [c \in Configurations |-> wire1]
Distinct == [p \in Paths |-> IF p = p1 THEN serial1 ELSE serial2]
Equal == [p \in Paths |-> serial1]

\* Every device stays where it is, in its socket or out of it, for good.
SteadyPluginSpec ==
  PluginInit /\ [][PluginNext /\ UNCHANGED present]_allVars /\ PluginFairness
=============================================================================
