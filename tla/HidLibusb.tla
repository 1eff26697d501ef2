------------------------------ MODULE HidLibusb ------------------------------
(***************************************************************************)
(* The HID library for Linux (src/X11/hid.c): one read thread a handle,    *)
(* its libusb transfer that is submitted again from its own callback, the  *)
(* list of input reports under dev->mutex, and hid_read_timeout, hid_write *)
(* and hid_close, called by one job thread a handle under hidapi_mutex.    *)
(*                                                                         *)
(* All handles share usb_context, so whoever is inside libusb, a read      *)
(* thread or a thread in the synchronous hid_write, may be the one that    *)
(* runs the callback of any transfer; libusb lets one of them at a time.   *)
(* A critical section of dev->mutex is one step.                           *)
(***************************************************************************)
EXTENDS Naturals, Sequences

CONSTANTS
  Devices,               \* the handles, one a device
  MaxReports,            \* bound: the reports a device sends to one handle
  Reached,               \* the 30 of read_callback's num_queued > 30
  Idle,                  \* no thread handles an event
  UnplugWhileOpening,    \* BOOLEAN: may a device vanish inside hid_open_path?
  EventErrors            \* BOOLEAN: may libusb_handle_events fail for good?

ASSUME Bounds == MaxReports \in Nat /\ Reached \in Nat
ASSUME Choices == UnplugWhileOpening \in BOOLEAN /\ EventErrors \in BOOLEAN

\* Who runs a callback for which device: one that still touches the device's
\* handle or transfer, or one that is about to return.
Handlers == [by : {"reader", "writer"}, of : Devices, dev : Devices,
             stage : {"running", "returning"}]
ASSUME NotAHandler == Idle \notin Handlers

VARIABLES
  user,              \* user[d]: where the job thread of d stands
  result,            \* result[d]: what its last read came to
  taken,             \* taken[d]: the reports it has read (history)
  thread,            \* thread[d]: where read_thread stands
  transfer,          \* transfer[d]: dev->transfer, in libusb or in the callback
  shutdown_thread,   \* dev->shutdown_thread
  cancelled,         \* dev->cancelled
  input_reports,     \* dev->input_reports
  sent,              \* sent[d]: how many reports the device has sent
  attached,          \* attached[d]: the device the handle was opened on is there
  handler            \* one of Handlers, or Idle

userVars == <<user, result, taken>>
flags == <<shutdown_thread, cancelled>>
usbVars == <<sent, attached>>
vars == <<userVars, thread, transfer, flags, input_reports, usbVars, handler>>

UserPcs == {"closed", "opening", "open", "waiting", "woken", "expired",
            "writing", "closing", "joining"}
ThreadPcs == {"none", "submit", "barrier", "loop", "events", "cancel",
              "drain", "draining", "broadcast", "ended"}
TransferStates == {"unsubmitted", "pending", "cancelling", "completed",
                   "resubmit", "final"}

TypeOK ==
  /\ user \in [Devices -> UserPcs]
  /\ result \in [Devices -> {"report", "nothing", "error"}]
  /\ taken \in [Devices -> Seq(1 .. MaxReports)]
  /\ thread \in [Devices -> ThreadPcs]
  /\ transfer \in [Devices -> TransferStates]
  /\ shutdown_thread \in [Devices -> BOOLEAN]
  /\ cancelled \in [Devices -> BOOLEAN]
  /\ input_reports \in [Devices -> Seq(1 .. MaxReports)]
  /\ sent \in [Devices -> 0 .. MaxReports]
  /\ attached \in [Devices -> BOOLEAN]
  /\ handler \in Handlers \cup {Idle}

Init ==
  /\ user = [d \in Devices |-> "closed"]
  /\ result = [d \in Devices |-> "nothing"]
  /\ taken = [d \in Devices |-> <<>>]
  /\ thread = [d \in Devices |-> "none"]
  /\ transfer = [d \in Devices |-> "unsubmitted"]
  /\ shutdown_thread = [d \in Devices |-> FALSE]
  /\ cancelled = [d \in Devices |-> FALSE]
  /\ input_reports = [d \in Devices |-> <<>>]
  /\ sent = [d \in Devices |-> 0]
  /\ attached = [d \in Devices |-> FALSE]
  /\ handler = Idle

-----------------------------------------------------------------------------
UserGoto(d, s) == user' = [user EXCEPT ![d] = s]
ThreadGoto(d, s) == thread' = [thread EXCEPT ![d] = s]

\* hidapi_mutex: no job thread is inside the library.
Free == \A d \in Devices : user[d] \in {"closed", "open"}

\* hid_open_path up to the barrier; a failed open leaves nothing behind.
HidOpenPath(d) ==
  /\ user[d] = "closed"
  /\ Free
  /\ UserGoto(d, "opening")
  /\ ThreadGoto(d, "submit")
  /\ attached' = [attached EXCEPT ![d] = TRUE]
  /\ UNCHANGED <<result, taken, transfer, flags, input_reports, sent, handler>>

-----------------------------------------------------------------------------
(* read_thread.                                                            *)

\* The first submission, whose result nobody looks at.
FirstSubmit(d) ==
  /\ thread[d] = "submit"
  /\ transfer' = [transfer EXCEPT ![d] = IF attached[d] THEN "pending" ELSE @]
  /\ ThreadGoto(d, "barrier")
  /\ UNCHANGED <<userVars, flags, input_reports, usbVars, handler>>

\* pthread_barrier_wait on both sides.
Barrier(d) ==
  /\ user[d] = "opening"
  /\ thread[d] = "barrier"
  /\ UserGoto(d, "open")
  /\ ThreadGoto(d, "loop")
  /\ UNCHANGED <<result, taken, transfer, flags, input_reports, usbVars, handler>>

\* while (!dev->shutdown_thread) libusb_handle_events(usb_context)
Loop(d) ==
  /\ thread[d] = "loop"
  /\ ThreadGoto(d, IF shutdown_thread[d] THEN "cancel" ELSE "events")
  /\ UNCHANGED <<userVars, transfer, flags, input_reports, usbVars, handler>>

Handling(by, d) == handler # Idle /\ handler.by = by /\ handler.of = d

\* libusb_handle_events returns with nothing handled by this thread: another
\* one was faster, or its 60 seconds are over.
EventsReturn(d) ==
  /\ thread[d] = "events"
  /\ ~Handling("reader", d)
  /\ ThreadGoto(d, "loop")
  /\ UNCHANGED <<userVars, transfer, flags, input_reports, usbVars, handler>>

\* "Break out of this loop only on fatal error."
EventsFail(d) ==
  /\ EventErrors
  /\ thread[d] = "events"
  /\ ~Handling("reader", d)
  /\ ThreadGoto(d, "cancel")
  /\ UNCHANGED <<userVars, transfer, flags, input_reports, usbVars, handler>>

\* libusb_cancel_transfer fails, quietly, unless the transfer is pending.
CancelTransfer(d) ==
  transfer' = [transfer EXCEPT ![d] = IF @ = "pending" THEN "cancelling" ELSE @]

Cancel(d) ==
  /\ thread[d] = "cancel"
  /\ CancelTransfer(d)
  /\ ThreadGoto(d, "drain")
  /\ UNCHANGED <<userVars, flags, input_reports, usbVars, handler>>

\* while (!dev->cancelled) libusb_handle_events_completed(...)
Drain(d) ==
  /\ thread[d] = "drain"
  /\ ThreadGoto(d, IF cancelled[d] THEN "broadcast" ELSE "draining")
  /\ UNCHANGED <<userVars, transfer, flags, input_reports, usbVars, handler>>

DrainReturns(d) ==
  /\ thread[d] = "draining"
  /\ ~Handling("reader", d)
  /\ ThreadGoto(d, "drain")
  /\ UNCHANGED <<userVars, transfer, flags, input_reports, usbVars, handler>>

Wake(d) == user' = [user EXCEPT ![d] = IF @ = "waiting" THEN "woken" ELSE @]

\* Faulty: no broadcast.
EndSilently(d) ==
  /\ thread[d] = "broadcast"
  /\ ThreadGoto(d, "ended")
  /\ UNCHANGED <<userVars, transfer, flags, input_reports, usbVars, handler>>

Broadcast(d) ==
  /\ thread[d] = "broadcast"
  /\ Wake(d)
  /\ ThreadGoto(d, "ended")
  /\ UNCHANGED <<result, taken, transfer, flags, input_reports, usbVars, handler>>

-----------------------------------------------------------------------------
(* libusb delivers a finished transfer; read_callback.                     *)

Inside(by, d) == IF by = "reader" THEN thread[d] \in {"events", "draining"}
                                  ELSE user[d] = "writing"

Deliver(by, r, d, status) ==
  /\ Inside(by, r)
  /\ handler = Idle
  /\ handler' = [by |-> by, of |-> r, dev |-> d, stage |-> "running"]
  /\ transfer' = [transfer EXCEPT ![d] = status]
  /\ UNCHANGED <<userVars, thread, flags, input_reports, attached>>

\* LIBUSB_TRANSFER_COMPLETED: the device's next report.
Completed(by, r, d) ==
  /\ transfer[d] = "pending"
  /\ attached[d]
  /\ sent[d] < MaxReports
  /\ sent' = [sent EXCEPT ![d] = @ + 1]
  /\ Deliver(by, r, d, "completed")

\* LIBUSB_TRANSFER_TIMED_OUT: no report for 5 seconds.
TimedOut(by, r, d) ==
  /\ transfer[d] = "pending"
  /\ attached[d]
  /\ Deliver(by, r, d, "resubmit")
  /\ UNCHANGED sent

\* LIBUSB_TRANSFER_CANCELLED or LIBUSB_TRANSFER_NO_DEVICE.
Finished(by, r, d) ==
  /\ \/ transfer[d] = "cancelling"
     \/ transfer[d] = "pending" /\ ~attached[d]
  /\ Deliver(by, r, d, "final")
  /\ UNCHANGED sent

\* Faulty: a full list loses the report that has just come.
AttachDropsNewest(d) ==
  /\ transfer[d] = "completed"
  /\ input_reports' = [input_reports EXCEPT ![d] =
       IF Len(@) > Reached + 1 THEN @ ELSE Append(@, sent[d])]
  /\ IF input_reports[d] = <<>> THEN Wake(d) ELSE UNCHANGED user
  /\ transfer' = [transfer EXCEPT ![d] = "resubmit"]
  /\ UNCHANGED <<result, taken, thread, flags, usbVars, handler>>

\* The report is attached to the list; the first wakes the reader.  num_queued
\* counts the reports between the first and the last, so it is one less than
\* the list was long.
Attach(d) ==
  /\ transfer[d] = "completed"
  /\ input_reports' = [input_reports EXCEPT ![d] =
       LET more == Append(@, sent[d]) IN
         IF Len(@) > Reached + 1 THEN Tail(more) ELSE more]
  /\ IF input_reports[d] = <<>> THEN Wake(d) ELSE UNCHANGED user
  /\ transfer' = [transfer EXCEPT ![d] = "resubmit"]
  /\ UNCHANGED <<result, taken, thread, flags, usbVars, handler>>

\* The callback has made its last access; what it has set is to be seen.
DoneWith == handler' = [handler EXCEPT !.stage = "returning"]

\* A read thread that sees shutdown_thread before cancelled only drains sooner.
SetFlags(d) ==
  /\ shutdown_thread' = [shutdown_thread EXCEPT ![d] = TRUE]
  /\ cancelled' = [cancelled EXCEPT ![d] = TRUE]

\* Faulty: a failed submission is not noticed.
ResubmitBlindly(d) ==
  /\ transfer[d] = "resubmit"
  /\ transfer' = [transfer EXCEPT ![d] = IF attached[d] THEN "pending" ELSE "unsubmitted"]
  /\ DoneWith
  /\ UNCHANGED <<userVars, thread, flags, input_reports, usbVars>>

\* libusb_submit_transfer at the end of the callback fails without the device.
Resubmit(d) ==
  /\ transfer[d] = "resubmit"
  /\ IF attached[d]
       THEN /\ transfer' = [transfer EXCEPT ![d] = "pending"]
            /\ UNCHANGED flags
       ELSE /\ transfer' = [transfer EXCEPT ![d] = "unsubmitted"]
            /\ SetFlags(d)
  /\ DoneWith
  /\ UNCHANGED <<userVars, thread, input_reports, usbVars>>

\* Faulty: the callback does not return, but submits once more.
FinalResubmits(d) ==
  /\ transfer[d] = "final"
  /\ transfer' = [transfer EXCEPT ![d] = IF attached[d] THEN "pending" ELSE "unsubmitted"]
  /\ SetFlags(d)
  /\ DoneWith
  /\ UNCHANGED <<userVars, thread, input_reports, usbVars>>

Final(d) ==
  /\ transfer[d] = "final"
  /\ transfer' = [transfer EXCEPT ![d] = "unsubmitted"]
  /\ SetFlags(d)
  /\ DoneWith
  /\ UNCHANGED <<userVars, thread, input_reports, usbVars>>

\* read_callback returns, with the device's handle perhaps closed by now, and
\* libusb_handle_events, having handled something, returns after it.
CallbackReturns(d) ==
  /\ handler # Idle /\ handler.dev = d /\ handler.stage = "returning"
  /\ handler' = Idle
  /\ thread' = IF handler.by = "writer" THEN thread
               ELSE [thread EXCEPT ![handler.of] = IF @ = "events" THEN "loop" ELSE "drain"]
  /\ UNCHANGED <<userVars, transfer, flags, input_reports, usbVars>>

-----------------------------------------------------------------------------
(* hid_read_timeout(dev, chunk, 64, 10), hid_write and hid_close.          *)

\* return_data
ReturnData(d) ==
  /\ taken' = [taken EXCEPT ![d] = Append(@, Head(input_reports[d]))]
  /\ input_reports' = [input_reports EXCEPT ![d] = Tail(@)]
  /\ result' = [result EXCEPT ![d] = "report"]
  /\ UserGoto(d, "open")

ReturnError(d) ==
  /\ result' = [result EXCEPT ![d] = "error"]
  /\ UserGoto(d, "open")
  /\ UNCHANGED <<taken, input_reports>>

\* hid_read_timeout is entered, or woken from pthread_cond_timedwait.
MayLook(d) == \/ user[d] = "woken"
              \/ user[d] = "open" /\ Free

\* Faulty: the shutdown is looked at before the list.
ReadShutdownFirst(d) ==
  /\ MayLook(d)
  /\ \/ shutdown_thread[d] /\ ReturnError(d)
     \/ ~shutdown_thread[d] /\ input_reports[d] # <<>> /\ ReturnData(d)
     \/ /\ input_reports[d] = <<>> /\ ~shutdown_thread[d]
        /\ UserGoto(d, "waiting")
        /\ UNCHANGED <<result, taken, input_reports>>
  /\ UNCHANGED <<thread, transfer, flags, usbVars, handler>>

\* A report, an error, or a wait for either.
Read(d) ==
  /\ MayLook(d)
  /\ \/ input_reports[d] # <<>> /\ ReturnData(d)
     \/ input_reports[d] = <<>> /\ shutdown_thread[d] /\ ReturnError(d)
     \/ /\ input_reports[d] = <<>> /\ ~shutdown_thread[d]
        /\ UserGoto(d, "waiting")
        /\ UNCHANGED <<result, taken, input_reports>>
  /\ UNCHANGED <<thread, transfer, flags, usbVars, handler>>

SpuriousWakeup(d) ==
  /\ user[d] = "waiting"
  /\ UserGoto(d, "woken")
  /\ UNCHANGED <<result, taken, thread, transfer, flags, input_reports, usbVars, handler>>

\* ETIMEDOUT; the mutex is still to be had again.
ReadExpires(d) ==
  /\ user[d] = "waiting"
  /\ UserGoto(d, "expired")
  /\ UNCHANGED <<result, taken, thread, transfer, flags, input_reports, usbVars, handler>>

\* ETIMEDOUT means 0, whatever has come meanwhile.
ReadTimesOut(d) ==
  /\ user[d] = "expired"
  /\ result' = [result EXCEPT ![d] = "nothing"]
  /\ UserGoto(d, "open")
  /\ UNCHANGED <<taken, thread, transfer, flags, input_reports, usbVars, handler>>

\* hid_write and hid_send_feature_report are synchronous libusb transfers.
HidWrite(d) ==
  /\ user[d] = "open"
  /\ Free
  /\ UserGoto(d, "writing")
  /\ UNCHANGED <<result, taken, thread, transfer, flags, input_reports, usbVars, handler>>

HidWriteReturns(d) ==
  /\ user[d] = "writing"
  /\ ~Handling("writer", d)
  /\ UserGoto(d, "open")
  /\ UNCHANGED <<result, taken, thread, transfer, flags, input_reports, usbVars, handler>>

HidClose(d) ==
  /\ user[d] = "open"
  /\ Free
  /\ shutdown_thread' = [shutdown_thread EXCEPT ![d] = TRUE]
  /\ UserGoto(d, "closing")
  /\ UNCHANGED <<result, taken, thread, transfer, cancelled, input_reports, usbVars, handler>>

CloseCancels(d) ==
  /\ user[d] = "closing"
  /\ CancelTransfer(d)
  /\ UserGoto(d, "joining")
  /\ UNCHANGED <<result, taken, thread, flags, input_reports, usbVars, handler>>

\* pthread_join; then the transfer, the reports and the handle are freed.
CloseJoins(d) ==
  /\ user[d] = "joining"
  /\ thread[d] = "ended"
  /\ UserGoto(d, "closed")
  /\ ThreadGoto(d, "none")
  /\ input_reports' = [input_reports EXCEPT ![d] = <<>>]
  /\ taken' = [taken EXCEPT ![d] = <<>>]
  /\ result' = [result EXCEPT ![d] = "nothing"]
  /\ shutdown_thread' = [shutdown_thread EXCEPT ![d] = FALSE]
  /\ cancelled' = [cancelled EXCEPT ![d] = FALSE]
  /\ sent' = [sent EXCEPT ![d] = 0]
  /\ attached' = [attached EXCEPT ![d] = FALSE]
  /\ UNCHANGED <<transfer, handler>>

Unplug(d) ==
  /\ attached[d]
  /\ user[d] = "opening" => UnplugWhileOpening
  /\ attached' = [attached EXCEPT ![d] = FALSE]
  /\ UNCHANGED <<userVars, thread, transfer, flags, input_reports, sent, handler>>
-----------------------------------------------------------------------------
ReadThread(d) ==
  \/ FirstSubmit(d) \/ Barrier(d) \/ Loop(d) \/ EventsReturn(d) \/ Cancel(d)
  \/ Drain(d) \/ DrainReturns(d) \/ Broadcast(d)

Callback(d) == Attach(d) \/ Resubmit(d) \/ Final(d) \/ CallbackReturns(d)

Libusb(d) ==
  \E by \in {"reader", "writer"}, r \in Devices :
    Completed(by, r, d) \/ TimedOut(by, r, d) \/ Finished(by, r, d)

\* What a job thread inside the library does to come back out of it.
Return(d) ==
  \/ (user[d] = "woken" /\ Read(d))
  \/ ReadExpires(d) \/ ReadTimesOut(d) \/ HidWriteReturns(d)
  \/ CloseCancels(d) \/ CloseJoins(d)

Next ==
  \E d \in Devices :
    \/ HidOpenPath(d) \/ Read(d) \/ HidWrite(d) \/ HidClose(d)
    \/ Return(d) \/ SpuriousWakeup(d)
    \/ ReadThread(d) \/ EventsFail(d) \/ Callback(d) \/ Libusb(d)
    \/ Unplug(d)

\* Threads run, and libusb delivers what has finished to whoever handles
\* events: a thread that asks again and again is told in the end.
Fairness ==
  \A d \in Devices :
    /\ WF_vars(ReadThread(d))
    /\ WF_vars(Callback(d))
    /\ WF_vars(Return(d))
    /\ SF_vars(\E by \in {"reader", "writer"}, r \in Devices : Finished(by, r, d))

Spec == Init /\ [][Next]_vars
FairSpec == Spec /\ Fairness
-----------------------------------------------------------------------------
(* Properties.                                                             *)

\* The handle of hidapi.h: reports in order, an error only when nothing is
\* left to read, nothing lost but the oldest of a full list (X11/hid.c:645-1072).
State(d) == IF user[d] = "closed" THEN "closed"
            ELSE IF cancelled[d] THEN "broken" ELSE "open"
Handle == INSTANCE HidHandle WITH MaxQueued <- Reached + 2, Held <- 0, HastyErrors <- FALSE,
            state <- [d \in Devices |-> State(d)], reports <- input_reports
ImplementsHandle == Handle!HandleSpec

\* No reader is left asleep beside a report, or when the read thread has gone
\* (X11/hid.c:661-665, 762-769).
NoReaderLeftAsleep ==
  \A d \in Devices : user[d] = "waiting" =>
    input_reports[d] = <<>> /\ thread[d] # "ended"

\* hid_close frees a transfer that libusb no longer has.  Another handle's
\* thread may not have come back from its callback by then, but has nothing
\* more to do with it (X11/hid.c:687-709, 771-777, 1160-1177).
FreedWhenDone ==
  \A d \in Devices : (user[d] = "closed" \/ thread[d] = "ended") =>
    /\ transfer[d] = "unsubmitted"
    /\ handler # Idle /\ handler.dev = d => handler.stage = "returning"

\* hid_close returns (X11/hid.c:755-760: a cancel that fails is "OK").
CloseReturns == \A d \in Devices : (user[d] = "closing") ~> (user[d] = "closed")

\* A handle whose device is gone becomes an error to its reader, whatever the
\* list of reports and whoever runs the callback (X11/hid.c:690-708).
DisconnectNoticed ==
  \A d \in Devices :
    (user[d] = "open" /\ ~attached[d]) ~> (shutdown_thread[d] \/ user[d] = "closed")
-----------------------------------------------------------------------------
(* The inductive invariant.                                                *)

InCallback == {"completed", "resubmit", "final"}

\* A handle exists from hid_open_path to the end of hid_close, and so does its
\* read thread.
Lifetime(d) ==
  /\ user[d] = "closed" <=> thread[d] = "none"
  /\ user[d] = "opening" <=> thread[d] \in {"submit", "barrier"}
  /\ user[d] = "closed" => input_reports[d] = <<>>
  /\ user[d] = "waiting" => input_reports[d] = <<>> /\ thread[d] # "ended"

\* A callback that is over for good is the last; only hid_close shuts down a
\* handle that is not cancelled.
Cancelled(d) ==
  /\ cancelled[d] => shutdown_thread[d] /\ transfer[d] = "unsubmitted"
  /\ shutdown_thread[d] => cancelled[d] \/ user[d] \in {"closing", "joining"}
  /\ shutdown_thread[d] => thread[d] \notin {"none", "submit"}
  /\ thread[d] \in {"broadcast", "ended"} => cancelled[d]
  /\ thread[d] \in {"none", "submit"} => transfer[d] = "unsubmitted"

\* A transfer is in its callback until whoever runs that is about to return.
Handled(d) == transfer[d] \in InCallback <=>
                handler # Idle /\ handler.dev = d /\ handler.stage = "running"

HandlerInside ==
  handler # Idle /\ handler.by = "reader" => thread[handler.of] \in {"events", "draining"}

\* The newest report of the handle is the newest the device has sent, unless
\* that is still in the callback.
NewestSent(d) ==
  /\ transfer[d] = "completed" => sent[d] # 0
  /\ Handle!Newest(d) = IF transfer[d] = "completed" THEN sent[d] - 1 ELSE sent[d]

Sound(d) == Lifetime(d) /\ Cancelled(d) /\ Handled(d) /\ NewestSent(d)

UsbInv == TypeOK /\ HandlerInside /\ \A d \in Devices : Sound(d)
=============================================================================
