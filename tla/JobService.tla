----------------------------- MODULE JobService -----------------------------
(***************************************************************************)
(* What a DeviceCommunicator (src/plugin.h, src/plugin.cpp) promises the   *)
(* JavaScript API, with its thread, its queue, the HID handle and the      *)
(* device left out: the jobs submitted for one device path are finished    *)
(* one at a time, in the order they were submitted, each at most once,     *)
(* and none after the communicator has been deleted.                       *)
(***************************************************************************)
EXTENDS Naturals, Sequences

CONSTANTS
  Paths,     \* the device paths that have, or will have, a communicator
  Jobs,      \* every job the API can submit
  Verdicts   \* what can become of a job

VARIABLES
  phase,     \* phase[p]: "absent", "alive", "joining" or "deleted"
  issued,    \* issued[p]: the jobs submitted for path p, oldest first
  answered   \* answered[p]: the finished jobs of p with their verdicts, in
             \* the order in which they were finished

serviceVars == <<phase, issued, answered>>

Unissued(j) == \A p \in Paths : \A k \in DOMAIN issued[p] : issued[p][k] # j

ServiceInit ==
  /\ phase = [p \in Paths |-> "absent"]
  /\ issued = [p \in Paths |-> <<>>]
  /\ answered = [p \in Paths |-> <<>>]

\* BitcoinTrezorPlugin::communicator() makes one for a path that has none.
Create(p) ==
  /\ phase[p] = "absent"
  /\ phase' = [phase EXCEPT ![p] = "alive"]
  /\ UNCHANGED <<issued, answered>>

Submit(p, j) ==
  /\ phase[p] = "alive"
  /\ Unissued(j)
  /\ issued' = [issued EXCEPT ![p] = Append(@, j)]
  /\ UNCHANGED <<phase, answered>>

\* The oldest unfinished job of p gets its verdict.
Finish(p) ==
  /\ phase[p] \in {"alive", "joining"}
  /\ Len(answered[p]) < Len(issued[p])
  /\ \E v \in Verdicts :
       answered' = [answered EXCEPT ![p] =
                      Append(@, [job |-> issued[p][Len(@) + 1], verdict |-> v])]
  /\ UNCHANGED <<phase, issued>>

BeginDelete(p) ==
  /\ phase[p] = "alive"
  /\ phase' = [phase EXCEPT ![p] = "joining"]
  /\ UNCHANGED <<issued, answered>>

\* The destructor returns; the jobs still unfinished never will be.
EndDelete(p) ==
  /\ phase[p] = "joining"
  /\ phase' = [phase EXCEPT ![p] = "deleted"]
  /\ UNCHANGED <<issued, answered>>

ServiceNext ==
  \E p \in Paths :
    \/ Create(p)
    \/ \E j \in Jobs : Submit(p, j)
    \/ Finish(p)
    \/ BeginDelete(p)
    \/ EndDelete(p)

ServiceSpec == ServiceInit /\ [][ServiceNext]_serviceVars
=============================================================================
