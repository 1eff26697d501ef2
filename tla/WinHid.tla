------------------------------- MODULE WinHid -------------------------------
(***************************************************************************)
(* The HID library for Windows (src/Win/hid.c): no thread of its own, but  *)
(* one overlapped read a handle, which a read that times out leaves with   *)
(* the kernel for the next one, and one auto-reset event that tells of its *)
(* end.  hid_open_path, hid_read_timeout, hid_read, hid_write,             *)
(* hid_send_feature_report and hid_close run on one job thread a handle,   *)
(* under hidapi_mutex; CancelIo needs that thread to be the same.          *)
(*                                                                         *)
(* The kernel is external: the HID class driver keeps the newest reports   *)
(* of a handle nobody has asked for yet, a read ends with the oldest of    *)
(* them, or fails once the device is gone, and sets its event at its end;  *)
(* after CancelIo it has no read of the handle any more.                   *)
(***************************************************************************)
EXTENDS Naturals, Sequences

CONSTANTS
  Devices,      \* the handles, one a device
  MaxReports,   \* bound: the reports a device sends to one handle
  RingSize      \* the reports the driver keeps for a handle

ASSUME Bounds == MaxReports \in Nat /\ RingSize \in Nat \ {0}

VARIABLES
  user,          \* user[d]: where the job thread of d stands
  owned,         \* owned[d]: what hid_open_path has got and must give back
  result,        \* result[d]: what its last read came to
  taken,         \* taken[d]: the reports it has read (history)
  read_pending,  \* dev->read_pending
  event,         \* dev->ol.hEvent is signalled
  io,            \* io[d]: the read the kernel has, or what became of it
  read_buf,      \* dev->read_buf: the report of a read that is done, or zeros
  ring,          \* ring[d]: the reports the driver keeps
  sent,          \* sent[d]: how many reports the device has sent
  attached       \* attached[d]: the device the handle was opened on is there

userVars == <<user, result, taken>>
readVars == <<read_pending, event, io, read_buf, ring>>
usbVars == <<sent, attached>>
vars == <<userVars, owned, readVars, usbVars>>

UserPcs == {"closed", "creating", "opening", "preparsed", "open", "waiting", "blocked",
            "fetching", "writing", "closing"}
Resources == {"event", "file", "preparsed"}

\* The reports of a device are numbered; 0 stands for a buffer of zeros.
Reports == 1 .. MaxReports
ReportsOrZeros == 0 .. MaxReports

TypeOK ==
  /\ user \in [Devices -> UserPcs]
  /\ owned \in [Devices -> SUBSET Resources]
  /\ result \in [Devices -> {"report", "nothing", "error"}]
  /\ taken \in [Devices -> Seq(Reports)]
  /\ read_pending \in [Devices -> BOOLEAN]
  /\ event \in [Devices -> BOOLEAN]
  /\ io \in [Devices -> {"none", "pending", "done", "failed"}]
  /\ read_buf \in [Devices -> ReportsOrZeros]
  /\ ring \in [Devices -> Seq(Reports)]
  /\ sent \in [Devices -> ReportsOrZeros]
  /\ attached \in [Devices -> BOOLEAN]

AllFalse == [d \in Devices |-> FALSE]
AllEmpty == [d \in Devices |-> <<>>]

Init ==
  /\ user = [d \in Devices |-> "closed"]
  /\ owned = [d \in Devices |-> {}]
  /\ result = [d \in Devices |-> "nothing"]
  /\ taken = AllEmpty /\ ring = AllEmpty
  /\ read_pending = AllFalse /\ event = AllFalse /\ attached = AllFalse
  /\ io = [d \in Devices |-> "none"]
  /\ read_buf = [d \in Devices |-> 0] /\ sent = [d \in Devices |-> 0]

-----------------------------------------------------------------------------
UserGoto(d, s) == user' = [user EXCEPT ![d] = s]
Own(d, S) == owned' = [owned EXCEPT ![d] = S]

\* hidapi_mutex: no job thread is inside the library.
Free == \A d \in Devices : user[d] \in {"closed", "open"}

-----------------------------------------------------------------------------
(* hid_open_path: each of its calls may fail.                              *)

\* new_hid_device: the event.
HidOpenPath(d) ==
  /\ user[d] = "closed"
  /\ Free
  /\ UserGoto(d, "creating")
  /\ Own(d, {"event"})
  /\ UNCHANGED <<result, taken, readVars, usbVars>>

\* err: free_hid_device.
OpenFails(d) ==
  /\ UserGoto(d, "closed")
  /\ Own(d, {})
  /\ sent' = [sent EXCEPT ![d] = 0]
  /\ ring' = [ring EXCEPT ![d] = <<>>]
  /\ attached' = [attached EXCEPT ![d] = FALSE]
  /\ UNCHANGED <<result, taken, read_pending, event, io, read_buf>>

\* CreateFile.
OpenDevice(d) ==
  /\ user[d] = "creating"
  /\ \/ OpenFails(d)
     \/ /\ UserGoto(d, "opening")
        /\ Own(d, owned[d] \cup {"file"})
        /\ attached' = [attached EXCEPT ![d] = TRUE]
        /\ UNCHANGED <<result, taken, readVars, sent>>

GetPreparsedData(d) ==
  /\ user[d] = "opening"
  /\ \/ OpenFails(d)
     \/ /\ UserGoto(d, "preparsed")
        /\ Own(d, owned[d] \cup {"preparsed"})
        /\ UNCHANGED <<result, taken, readVars, usbVars>>

\* err_pp_data gives the preparsed data back and falls through to err.
GetCaps(d) ==
  /\ user[d] = "preparsed"
  /\ \/ OpenFails(d)
     \/ /\ UserGoto(d, "open")
        /\ Own(d, owned[d] \ {"preparsed"})
        /\ UNCHANGED <<result, taken, readVars, usbVars>>

-----------------------------------------------------------------------------
(* hid_read_timeout; milliseconds < 0 is hid_read on a blocking handle.    *)

ReadResult(d, r) ==
  /\ result' = [result EXCEPT ![d] = r]
  /\ UserGoto(d, "open")

\* WaitForSingleObject for a read with a time-out; GetOverlappedResult waits
\* itself for one without, unless the read has ended.
GoOn(d, timed) ==
  UserGoto(d, IF timed THEN "waiting"
              ELSE IF io'[d] = "pending" THEN "blocked" ELSE "fetching")

\* ReadFile: the kernel has a report, or keeps the read, or refuses it.
ReadFile(d) ==
  IF ring[d] # <<>>
    THEN /\ io' = [io EXCEPT ![d] = "done"]
         /\ read_buf' = [read_buf EXCEPT ![d] = Head(ring[d])]
         /\ ring' = [ring EXCEPT ![d] = Tail(@)]
         /\ event' = [event EXCEPT ![d] = TRUE]
    ELSE /\ io' = [io EXCEPT ![d] = "pending"]
         /\ read_buf' = [read_buf EXCEPT ![d] = 0]
         /\ UNCHANGED ring
         /\ event' = [event EXCEPT ![d] = FALSE]

\* Faulty: the event is not reset.
StartReadNoReset(d, timed) ==
  /\ user[d] = "open" /\ Free
  /\ ~read_pending[d] /\ attached[d]
  /\ read_pending' = [read_pending EXCEPT ![d] = TRUE]
  /\ IF ring[d] # <<>>
       THEN ReadFile(d)
       ELSE io' = [io EXCEPT ![d] = "pending"] /\ UNCHANGED <<read_buf, ring, event>>
  /\ GoOn(d, timed)
  /\ UNCHANGED <<result, taken, owned, usbVars>>

\* No read is with the kernel: one is started, with the event reset.
StartRead(d, timed) ==
  /\ user[d] = "open" /\ Free
  /\ ~read_pending[d] /\ attached[d]
  /\ read_pending' = [read_pending EXCEPT ![d] = TRUE]
  /\ ReadFile(d)
  /\ GoOn(d, timed)
  /\ UNCHANGED <<result, taken, owned, usbVars>>

\* ReadFile fails at once: CancelIo, and no read is pending.
StartReadFails(d) ==
  /\ user[d] = "open" /\ Free
  /\ ~read_pending[d] /\ ~attached[d]
  /\ event' = [event EXCEPT ![d] = FALSE]
  /\ read_buf' = [read_buf EXCEPT ![d] = 0]
  /\ ReadResult(d, "error")
  /\ UNCHANGED <<taken, owned, read_pending, io, ring, usbVars>>

\* The read an earlier call left behind.
ResumeRead(d, timed) ==
  /\ user[d] = "open" /\ Free
  /\ read_pending[d]
  /\ UNCHANGED <<readVars, result, taken, owned, usbVars>>
  /\ GoOn(d, timed)

\* WAIT_OBJECT_0, or the wait inside GetOverlappedResult: the event resets
\* itself.
EventWakes(d) ==
  /\ user[d] \in {"waiting", "blocked"}
  /\ event[d]
  /\ event' = [event EXCEPT ![d] = FALSE]
  /\ UserGoto(d, "fetching")
  /\ UNCHANGED <<result, taken, owned, read_pending, io, read_buf, ring, usbVars>>

\* Faulty: a read that times out is forgotten.
WaitExpiresForgets(d) ==
  /\ user[d] = "waiting"
  /\ ~event[d]
  /\ ReadResult(d, "nothing")
  /\ read_pending' = [read_pending EXCEPT ![d] = FALSE]
  /\ UNCHANGED <<taken, owned, event, io, read_buf, ring, usbVars>>

\* WAIT_TIMEOUT: "leave the Overlapped I/O running".
WaitExpires(d) ==
  /\ user[d] = "waiting"
  /\ ~event[d]
  /\ ReadResult(d, "nothing")
  /\ UNCHANGED <<taken, owned, readVars, usbVars>>

\* Faulty: a failed read stays pending.
FetchKeepsFailed(d) ==
  /\ user[d] = "fetching"
  /\ io[d] \in {"done", "failed"}
  /\ read_pending' = [read_pending EXCEPT ![d] = io[d] = "failed"]
  /\ io' = [io EXCEPT ![d] = "none"]
  /\ read_buf' = [read_buf EXCEPT ![d] = 0]
  /\ IF io[d] = "done"
       THEN taken' = [taken EXCEPT ![d] = Append(@, read_buf[d])]
            /\ ReadResult(d, "report")
       ELSE UNCHANGED taken /\ ReadResult(d, "error")
  /\ UNCHANGED <<owned, event, ring, usbVars>>

\* GetOverlappedResult of a read that has ended; pending no longer, "even if
\* GetOverlappedResult() returned error".
Fetch(d) ==
  /\ user[d] = "fetching"
  /\ io[d] \in {"done", "failed"}
  /\ read_pending' = [read_pending EXCEPT ![d] = FALSE]
  /\ io' = [io EXCEPT ![d] = "none"]
  /\ read_buf' = [read_buf EXCEPT ![d] = 0]
  /\ IF io[d] = "done"
       THEN taken' = [taken EXCEPT ![d] = Append(@, read_buf[d])]
            /\ ReadResult(d, "report")
       ELSE UNCHANGED taken /\ ReadResult(d, "error")
  /\ UNCHANGED <<owned, event, ring, usbVars>>

-----------------------------------------------------------------------------
(* hid_write and hid_send_feature_report, hid_close.                       *)

\* A write has an OVERLAPPED of its own and touches nothing of the read.
HidWrite(d) ==
  /\ user[d] = "open" /\ Free
  /\ UserGoto(d, "writing")
  /\ UNCHANGED <<result, taken, owned, readVars, usbVars>>

HidWriteReturns(d) ==
  /\ user[d] = "writing"
  /\ UserGoto(d, "open")
  /\ UNCHANGED <<result, taken, owned, readVars, usbVars>>

\* Faulty: no CancelIo.
HidCloseLeavesRead(d) ==
  /\ user[d] = "open" /\ Free
  /\ UserGoto(d, "closing")
  /\ UNCHANGED <<result, taken, owned, readVars, usbVars>>

\* CancelIo takes a read back from the kernel; one that has ended stays so.
HidClose(d) ==
  /\ user[d] = "open" /\ Free
  /\ UserGoto(d, "closing")
  /\ io' = [io EXCEPT ![d] = IF @ = "pending" THEN "failed" ELSE @]
  /\ event' = [event EXCEPT ![d] = @ \/ io[d] = "pending"]
  /\ UNCHANGED <<result, taken, owned, read_pending, read_buf, ring, usbVars>>

\* free_hid_device: the handles are closed, read_buf and dev->ol are freed.
FreeDevice(d) ==
  /\ user[d] = "closing"
  /\ UserGoto(d, "closed")
  /\ Own(d, {})
  /\ result' = [result EXCEPT ![d] = "nothing"]
  /\ taken' = [taken EXCEPT ![d] = <<>>]
  /\ read_pending' = [read_pending EXCEPT ![d] = FALSE]
  /\ event' = [event EXCEPT ![d] = FALSE]
  /\ io' = [io EXCEPT ![d] = "none"]
  /\ read_buf' = [read_buf EXCEPT ![d] = 0]
  /\ ring' = [ring EXCEPT ![d] = <<>>]
  /\ sent' = [sent EXCEPT ![d] = 0]
  /\ attached' = [attached EXCEPT ![d] = FALSE]

-----------------------------------------------------------------------------
(* The kernel.                                                             *)

\* A report ends the read the kernel has, or is kept; a full ring loses its
\* oldest.
Arrive(d) ==
  /\ attached[d]
  /\ sent[d] < MaxReports
  /\ sent' = [sent EXCEPT ![d] = @ + 1]
  /\ IF io[d] = "pending"
       THEN /\ io' = [io EXCEPT ![d] = "done"]
            /\ read_buf' = [read_buf EXCEPT ![d] = sent[d] + 1]
            /\ event' = [event EXCEPT ![d] = TRUE]
            /\ UNCHANGED ring
       ELSE /\ ring' = [ring EXCEPT ![d] =
                 Append(IF Len(@) = RingSize THEN Tail(@) ELSE @, sent[d] + 1)]
            /\ UNCHANGED <<io, read_buf, event>>
  /\ UNCHANGED <<userVars, owned, read_pending, attached>>

Unplug(d) ==
  /\ attached[d]
  /\ attached' = [attached EXCEPT ![d] = FALSE]
  /\ IF io[d] = "pending"
       THEN /\ io' = [io EXCEPT ![d] = "failed"]
            /\ event' = [event EXCEPT ![d] = TRUE]
       ELSE UNCHANGED <<io, event>>
  /\ UNCHANGED <<userVars, owned, read_pending, read_buf, ring, sent>>
-----------------------------------------------------------------------------
\* A job thread starts a call of the library.
Call(d) ==
  \/ HidOpenPath(d) \/ HidWrite(d) \/ HidClose(d) \/ StartReadFails(d)
  \/ \E timed \in BOOLEAN : StartRead(d, timed) \/ ResumeRead(d, timed)

\* What a job thread inside the library does to come back out of it.
Return(d) ==
  \/ OpenDevice(d) \/ GetPreparsedData(d) \/ GetCaps(d)
  \/ EventWakes(d) \/ WaitExpires(d) \/ Fetch(d) \/ HidWriteReturns(d) \/ FreeDevice(d)

Kernel(d) == Arrive(d) \/ Unplug(d)

Next == \E d \in Devices : Call(d) \/ Return(d) \/ Kernel(d)

\* Threads run, and the clock ends a wait; a write ends once its device is gone,
\* but a device need not take it.
Fairness ==
  \A d \in Devices : WF_vars(Return(d) /\ (user[d] = "writing" => ~attached[d]))

Spec == Init /\ [][Next]_vars
FairSpec == Spec /\ Fairness
-----------------------------------------------------------------------------
(* Properties.                                                             *)

\* The handle of hidapi.h over one pending read: reports in order, none twice,
\* none lost but the oldest the driver had no room for; a report that a read
\* already holds is not among them (Win/hid.c:652-721).
Received == [d \in Devices |->
  IF io[d] = "done" THEN <<read_buf[d]>> \o ring[d] ELSE ring[d]]
State(d) == IF user[d] \in {"closed", "creating"} THEN "closed"
            ELSE IF attached[d] THEN "open" ELSE "broken"
Handle == INSTANCE HidHandle WITH MaxQueued <- RingSize, Held <- 1, HastyErrors <- TRUE,
            state <- [d \in Devices |-> State(d)], reports <- Received
ImplementsHandle == Handle!HandleSpec

\* The kernel has a read only for an open handle that remembers it, so no
\* second one is started on the same OVERLAPPED, and none writes into a
\* read_buf that hid_close has freed (Win/hid.c:660-677, 788-794).
ReadRemembered ==
  \A d \in Devices : io[d] # "none" =>
    /\ read_pending[d]
    /\ owned[d] = {"event", "file"}
    /\ user[d] = "closing" => io[d] # "pending"

\* Whoever has been told that the read is over finds it over: a read with a
\* time-out never waits inside GetOverlappedResult, be the event left over
\* from reads without one (Win/hid.c:664, 680-695).
ToldWhenOver == \A d \in Devices : user[d] = "fetching" => io[d] \in {"done", "failed"}

\* A blocked reader or writer comes back when the device goes away, and any
\* other caller, be it in a read with a time-out, in any case (Win/hid.c:636,
\* 680-695).
CallsReturn ==
  \A d \in Devices :
    (user[d] \notin {"closed", "open"} /\ (attached[d] => user[d] \notin {"blocked", "writing"}))
      ~> (user[d] \in {"closed", "open"})

-----------------------------------------------------------------------------
(* What the properties rest on: the parts of the inductive invariant.      *)

Opening == {"closed", "creating", "opening", "preparsed"}

\* What hid_open_path has got so far, and hid_close must give back.
OwnedAt(s) == CASE s = "closed" -> {}
                [] s = "creating" -> {"event"}
                [] s = "preparsed" -> Resources
                [] OTHER -> {"event", "file"}
OwnsWhatItGot == \A d \in Devices : owned[d] = OwnedAt(user[d])

\* A handle that is not open yet has never been read.
Unread(d) ==
  user[d] \in Opening =>
    /\ io[d] = "none"
    /\ result[d] = "nothing"
    /\ taken[d] = <<>>

Untouched(d) ==
  user[d] \in {"closed", "creating"} =>
    /\ ring[d] = <<>>
    /\ sent[d] = 0
    /\ ~attached[d]

\* What became of the read, where the thread stands, and the event.
ReadStates(d) ==
  /\ read_pending[d] <=> io[d] # "none"
  /\ io[d] = "pending" => ring[d] = <<>> /\ attached[d] /\ ~event[d]
  /\ io[d] = "done" => read_buf[d] # 0
  /\ io[d] = "failed" /\ user[d] # "closing" => ~attached[d]
  /\ user[d] \in {"waiting", "blocked"} => io[d] # "none"
  /\ user[d] = "fetching" => io[d] \in {"done", "failed"}
  /\ user[d] = "closing" => io[d] # "pending"

\* The newest report of the handle is the newest the device has sent.
NewestSent(d) ==
  /\ Len(ring[d]) <= RingSize
  /\ IF ring[d] # <<>> THEN ring[d][Len(ring[d])] = sent[d]
     ELSE IF io[d] = "done" THEN read_buf[d] = sent[d]
     ELSE IF taken[d] # <<>> THEN taken[d][Len(taken[d])] = sent[d]
     ELSE sent[d] = 0

Sound(d) == Unread(d) /\ Untouched(d) /\ ReadStates(d) /\ NewestSent(d)

WinInv == TypeOK /\ OwnsWhatItGot /\ \A d \in Devices : Sound(d)
=============================================================================
