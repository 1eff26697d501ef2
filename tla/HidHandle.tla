------------------------------ MODULE HidHandle ------------------------------
(***************************************************************************)
(* What an open handle of src/X11/hid.c, src/Mac/hid.c or src/Win/hid.c    *)
(* amounts to for its only reader, with the USB library, the kernel and    *)
(* the threads left out:                                                   *)
(* hid_read_timeout gives the input reports in the order the device sent   *)
(* them, nothing when there is none yet, and an error only when the        *)
(* connection is broken and, unless errors are hasty, every report has     *)
(* been handed over; a reader that is too slow loses the oldest reports    *)
(* and no others, but for those that are held for its next read.           *)
(***************************************************************************)
EXTENDS Naturals, Sequences

CONSTANTS
  Devices,      \* the handles, one a device
  MaxReports,   \* bound: the reports a device sends to one handle
  MaxQueued,    \* the reports a handle keeps
  Held,         \* 1 if a read may already hold the oldest of them, or 0
  HastyErrors   \* BOOLEAN: may an error come before the reports that are left?

VARIABLES
  state,     \* state[d]: "closed", "open" or "broken"
  reports,   \* reports[d]: received and not yet read
  taken,     \* taken[d]: read, oldest first (history)
  result     \* result[d]: what the last hid_read_timeout came to

handleVars == <<state, reports, taken, result>>

\* The number of the newest report the handle has received.
Newest(d) ==
  IF reports[d] # <<>> THEN reports[d][Len(reports[d])]
  ELSE IF taken[d] # <<>> THEN taken[d][Len(taken[d])] ELSE 0

HandleInit ==
  /\ state = [d \in Devices |-> "closed"]
  /\ reports = [d \in Devices |-> <<>>]
  /\ taken = [d \in Devices |-> <<>>]
  /\ result = [d \in Devices |-> "nothing"]

Open(d) ==
  /\ state[d] = "closed"
  /\ state' = [state EXCEPT ![d] = "open"]
  /\ UNCHANGED <<reports, taken, result>>

\* Report after report, without a gap.
Deliver(d) ==
  /\ state[d] = "open"
  /\ Newest(d) < MaxReports
  /\ LET more == Append(reports[d], Newest(d) + 1) IN
       \/ /\ Len(more) <= MaxQueued + Held
          /\ reports' = [reports EXCEPT ![d] = more]
       \/ /\ Len(more) > MaxQueued
          /\ reports' = [reports EXCEPT ![d] = Tail(more)]
       \/ /\ Held = 1 /\ Len(more) > MaxQueued + 1
          /\ reports' = [reports EXCEPT ![d] = <<Head(more)>> \o Tail(Tail(more))]
  /\ UNCHANGED <<state, taken, result>>

Break(d) ==
  /\ state[d] = "open"
  /\ state' = [state EXCEPT ![d] = "broken"]
  /\ UNCHANGED <<reports, taken, result>>

ReadReport(d) ==
  /\ state[d] # "closed"
  /\ reports[d] # <<>>
  /\ reports' = [reports EXCEPT ![d] = Tail(@)]
  /\ taken' = [taken EXCEPT ![d] = Append(@, Head(reports[d]))]
  /\ result' = [result EXCEPT ![d] = "report"]
  /\ UNCHANGED state

\* The 10 ms are over.
ReadNothing(d) ==
  /\ state[d] # "closed"
  /\ result' = [result EXCEPT ![d] = "nothing"]
  /\ UNCHANGED <<state, reports, taken>>

ReadError(d) ==
  /\ state[d] = "broken"
  /\ HastyErrors \/ reports[d] = <<>>
  /\ result' = [result EXCEPT ![d] = "error"]
  /\ UNCHANGED <<state, reports, taken>>

Close(d) ==
  /\ state[d] # "closed"
  /\ state' = [state EXCEPT ![d] = "closed"]
  /\ reports' = [reports EXCEPT ![d] = <<>>]
  /\ taken' = [taken EXCEPT ![d] = <<>>]
  /\ result' = [result EXCEPT ![d] = "nothing"]

HandleNext ==
  \E d \in Devices :
    \/ Open(d) \/ Deliver(d) \/ Break(d)
    \/ ReadReport(d) \/ ReadNothing(d) \/ ReadError(d) \/ Close(d)

HandleSpec == HandleInit /\ [][HandleNext]_handleVars
=============================================================================
