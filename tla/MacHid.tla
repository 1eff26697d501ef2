------------------------------- MODULE MacHid -------------------------------
(***************************************************************************)
(* The HID library for Mac OS X (src/Mac/hid.c): one read thread a handle, *)
(* whose run loop calls back for every input report and for the removal    *)
(* of the device, the list of reports under dev->mutex, hid_open_path,     *)
(* hid_read_timeout and hid_close on a job thread under hidapi_mutex, and  *)
(* the two home-made barriers at which both threads meet.                  *)
(*                                                                         *)
(* A critical section of dev->mutex is one step, and so is a pass of a     *)
(* barrier, whose condition is taken to have no spurious wake-up.  The run *)
(* loop is external: asleep it handles nothing but what wakes it, and a    *)
(* source signalled to it waits until CFRunLoopWakeUp.  hid_write only     *)
(* looks at dev->disconnected and has no step.                             *)
(***************************************************************************)
EXTENDS Naturals, Sequences

CONSTANTS
  Devices,         \* the handles, one a device
  MaxReports,      \* bound: the reports a device sends to one handle
  Reached          \* the 30 of hid_report_callback's num_queued > 30

ASSUME Bounds == MaxReports \in Nat /\ Reached \in Nat

VARIABLES
  user,             \* user[d]: where the job thread of d stands
  result,           \* result[d]: what its last read came to
  taken,            \* taken[d]: the reports it has read (history)
  thread,           \* thread[d]: where read_thread stands
  run_loop,         \* dev->run_loop: has read_thread stored it?
  stopped,          \* CFRunLoopStop has been called for the run under way
  signalled,        \* dev->source is signalled
  registered,       \* the callbacks are registered, on the thread's run loop
  shutdown_thread,  \* dev->shutdown_thread
  disconnected,     \* dev->disconnected
  input_reports,    \* dev->input_reports
  sent,             \* sent[d]: how many reports the device has sent
  attached          \* attached[d]: the device the handle was opened on is there

userVars == <<user, result, taken>>
loopVars == <<run_loop, stopped, signalled>>
flags == <<shutdown_thread, disconnected>>
usbVars == <<sent, attached>>
vars == <<userVars, thread, loopVars, registered, flags, input_reports, usbVars>>

UserPcs == {"closed", "opening", "parked", "open", "waiting", "woken", "expired",
            "unregister", "shut", "signal", "wake", "leaving", "leaving_parked",
            "joining"}
ThreadPcs == {"none", "start", "ready", "parked", "loop", "run", "asleep",
              "broadcast", "done", "done_parked", "ended"}

TypeOK ==
  /\ user \in [Devices -> UserPcs]
  /\ result \in [Devices -> {"report", "nothing", "error"}]
  /\ taken \in [Devices -> Seq(1 .. MaxReports)]
  /\ thread \in [Devices -> ThreadPcs]
  /\ run_loop \in [Devices -> BOOLEAN]
  /\ stopped \in [Devices -> BOOLEAN]
  /\ signalled \in [Devices -> BOOLEAN]
  /\ registered \in [Devices -> BOOLEAN]
  /\ shutdown_thread \in [Devices -> BOOLEAN]
  /\ disconnected \in [Devices -> BOOLEAN]
  /\ input_reports \in [Devices -> Seq(1 .. MaxReports)]
  /\ sent \in [Devices -> 0 .. MaxReports]
  /\ attached \in [Devices -> BOOLEAN]

AllFalse == [d \in Devices |-> FALSE]

Init ==
  /\ user = [d \in Devices |-> "closed"]
  /\ result = [d \in Devices |-> "nothing"]
  /\ taken = [d \in Devices |-> <<>>]
  /\ thread = [d \in Devices |-> "none"]
  /\ run_loop = AllFalse /\ stopped = AllFalse /\ signalled = AllFalse
  /\ registered = AllFalse
  /\ shutdown_thread = AllFalse /\ disconnected = AllFalse
  /\ input_reports = [d \in Devices |-> <<>>]
  /\ sent = [d \in Devices |-> 0]
  /\ attached = AllFalse

-----------------------------------------------------------------------------
UserGoto(d, s) == user' = [user EXCEPT ![d] = s]
ThreadGoto(d, s) == thread' = [thread EXCEPT ![d] = s]

\* hidapi_mutex: no job thread is inside the library.
Free == \A d \in Devices : user[d] \in {"closed", "open"}

\* Faulty: the removal callback is not registered.
OpenUnregistered(d) ==
  /\ user[d] = "closed"
  /\ Free
  /\ UserGoto(d, "opening")
  /\ ThreadGoto(d, "start")
  /\ attached' = [attached EXCEPT ![d] = TRUE]
  /\ UNCHANGED <<result, taken, loopVars, registered, flags, input_reports, sent>>

\* hid_open_path up to the barrier; a failed open leaves nothing behind.
HidOpenPath(d) ==
  /\ user[d] = "closed"
  /\ Free
  /\ UserGoto(d, "opening")
  /\ ThreadGoto(d, "start")
  /\ registered' = [registered EXCEPT ![d] = TRUE]
  /\ attached' = [attached EXCEPT ![d] = TRUE]
  /\ UNCHANGED <<result, taken, loopVars, flags, input_reports, sent>>

\* pthread_barrier_wait: the first to come is parked, the second frees both.
Meet(d, userAt, userParked, userOn, threadAt, threadParked, threadOn) ==
  /\ \/ /\ user[d] = userAt
        /\ IF thread[d] = threadParked
             THEN UserGoto(d, userOn) /\ ThreadGoto(d, threadOn)
             ELSE UserGoto(d, userParked) /\ UNCHANGED thread
     \/ /\ thread[d] = threadAt
        /\ IF user[d] = userParked
             THEN UserGoto(d, userOn) /\ ThreadGoto(d, threadOn)
             ELSE ThreadGoto(d, threadParked) /\ UNCHANGED user
  /\ UNCHANGED <<result, taken, loopVars, registered, flags, input_reports, usbVars>>

\* dev->barrier: the thread is up before hid_open_path returns.
StartBarrier(d) == Meet(d, "opening", "parked", "open", "ready", "parked", "loop")

-----------------------------------------------------------------------------
(* read_thread and its run loop.                                           *)

\* The device and the source are scheduled, the run loop is stored.
ThreadStarts(d) ==
  /\ thread[d] = "start"
  /\ run_loop' = [run_loop EXCEPT ![d] = TRUE]
  /\ ThreadGoto(d, "ready")
  /\ UNCHANGED <<userVars, stopped, signalled, registered, flags, input_reports, usbVars>>

\* while (!dev->shutdown_thread && !dev->disconnected) CFRunLoopRunInMode(...)
Loop(d) ==
  /\ thread[d] = "loop"
  /\ ThreadGoto(d, IF shutdown_thread[d] \/ disconnected[d] THEN "broadcast" ELSE "run")
  /\ UNCHANGED <<userVars, loopVars, registered, flags, input_reports, usbVars>>

Removed(d) == registered[d] /\ ~attached[d]

\* The run loop has nothing to do.
RunSleeps(d) ==
  /\ thread[d] = "run"
  /\ ~stopped[d] /\ ~signalled[d] /\ ~Removed(d)
  /\ ThreadGoto(d, "asleep")
  /\ UNCHANGED <<userVars, loopVars, registered, flags, input_reports, usbVars>>

\* kCFRunLoopRunTimedOut, after 1000 seconds.
RunTimesOut(d) ==
  /\ thread[d] = "asleep"
  /\ ThreadGoto(d, "loop")
  /\ UNCHANGED <<userVars, loopVars, registered, flags, input_reports, usbVars>>

Running(d) == thread[d] \in {"run", "asleep"} /\ ~stopped[d]

\* hid_device_removal_callback
Removal(d) ==
  /\ Running(d)
  /\ Removed(d)
  /\ ~disconnected[d]
  /\ disconnected' = [disconnected EXCEPT ![d] = TRUE]
  /\ stopped' = [stopped EXCEPT ![d] = TRUE]
  /\ ThreadGoto(d, "run")
  /\ UNCHANGED <<userVars, run_loop, signalled, registered, shutdown_thread,
                 input_reports, usbVars>>

\* perform_signal_callback
PerformSignal(d) ==
  /\ thread[d] = "run"
  /\ ~stopped[d]
  /\ signalled[d]
  /\ signalled' = [signalled EXCEPT ![d] = FALSE]
  /\ stopped' = [stopped EXCEPT ![d] = TRUE]
  /\ UNCHANGED <<userVars, thread, run_loop, registered, flags, input_reports, usbVars>>

\* kCFRunLoopRunStopped.  kCFRunLoopRunFinished does not come, since the
\* source stays in the mode as long as the thread runs.
RunStops(d) ==
  /\ thread[d] = "run"
  /\ stopped[d]
  /\ stopped' = [stopped EXCEPT ![d] = FALSE]
  /\ shutdown_thread' = [shutdown_thread EXCEPT ![d] = TRUE]
  /\ ThreadGoto(d, "broadcast")
  /\ UNCHANGED <<userVars, run_loop, signalled, registered, disconnected,
                 input_reports, usbVars>>

Wake(d) == user' = [user EXCEPT ![d] = IF @ = "waiting" THEN "woken" ELSE @]

\* Faulty: no broadcast.
EndSilently(d) ==
  /\ thread[d] = "broadcast"
  /\ ThreadGoto(d, "done")
  /\ UNCHANGED <<userVars, loopVars, registered, flags, input_reports, usbVars>>

Broadcast(d) ==
  /\ thread[d] = "broadcast"
  /\ Wake(d)
  /\ ThreadGoto(d, "done")
  /\ UNCHANGED <<result, taken, loopVars, registered, flags, input_reports, usbVars>>

\* Faulty: the thread ends without waiting for hid_close.
EndsAtOnce(d) ==
  /\ \/ thread[d] = "done" /\ ThreadGoto(d, "ended") /\ UNCHANGED user
     \/ user[d] = "leaving" /\ UserGoto(d, "joining") /\ UNCHANGED thread
  /\ UNCHANGED <<result, taken, loopVars, registered, flags, input_reports, usbVars>>

\* dev->shutdown_barrier: the run loop is there until hid_close is past
\* CFRunLoopWakeUp.
ShutdownBarrier(d) ==
  Meet(d, "leaving", "leaving_parked", "joining", "done", "done_parked", "ended")

\* Faulty: a full list loses the report that has just come.
ReportDropsNewest(d) ==
  /\ Running(d)
  /\ registered[d] /\ attached[d]
  /\ sent[d] < MaxReports
  /\ sent' = [sent EXCEPT ![d] = @ + 1]
  /\ input_reports' = [input_reports EXCEPT ![d] =
       IF Len(@) > Reached + 1 THEN @ ELSE Append(@, sent'[d])]
  /\ Wake(d)
  /\ ThreadGoto(d, "run")
  /\ UNCHANGED <<result, taken, loopVars, registered, flags, attached>>

\* hid_report_callback: the next report is attached to the list, a full list
\* loses its oldest, the reader is signalled.  num_queued counts the reports
\* between the first and the last.
Report(d) ==
  /\ Running(d)
  /\ registered[d] /\ attached[d]
  /\ sent[d] < MaxReports
  /\ sent' = [sent EXCEPT ![d] = @ + 1]
  /\ input_reports' = [input_reports EXCEPT ![d] =
       LET more == Append(@, sent'[d]) IN
         IF Len(@) > Reached + 1 THEN Tail(more) ELSE more]
  /\ Wake(d)
  /\ ThreadGoto(d, "run")
  /\ UNCHANGED <<result, taken, loopVars, registered, flags, attached>>

-----------------------------------------------------------------------------
(* hid_read_timeout(dev, chunk, 64, 10).                                   *)

\* return_data
ReturnData(d) ==
  /\ input_reports[d] # <<>>
  /\ taken' = [taken EXCEPT ![d] = Append(@, Head(input_reports[d]))]
  /\ input_reports' = [input_reports EXCEPT ![d] = Tail(@)]
  /\ result' = [result EXCEPT ![d] = "report"]
  /\ UserGoto(d, "open")

ReturnNone(d, r) ==
  /\ result' = [result EXCEPT ![d] = r]
  /\ UserGoto(d, "open")
  /\ UNCHANGED <<taken, input_reports>>

GoToSleep(d) ==
  /\ input_reports[d] = <<>>
  /\ UserGoto(d, "waiting")
  /\ UNCHANGED <<result, taken, input_reports>>

Over(d) == disconnected[d] \/ shutdown_thread[d]

Read(d) ==
  /\ user[d] = "open"
  /\ Free
  /\ \/ ReturnData(d)
     \/ input_reports[d] = <<>> /\ Over(d) /\ ReturnNone(d, "error")
     \/ ~Over(d) /\ GoToSleep(d)
  /\ UNCHANGED <<thread, loopVars, registered, flags, usbVars>>

\* cond_timedwait, woken, looks at the flags before the list.
ReadGoesOn(d) ==
  /\ user[d] = "woken"
  /\ \/ Over(d) /\ ReturnNone(d, "error")
     \/ ~Over(d) /\ (ReturnData(d) \/ GoToSleep(d))
  /\ UNCHANGED <<thread, loopVars, registered, flags, usbVars>>

SpuriousWakeup(d) ==
  /\ user[d] = "waiting"
  /\ UserGoto(d, "woken")
  /\ UNCHANGED <<result, taken, thread, loopVars, registered, flags,
                 input_reports, usbVars>>

\* ETIMEDOUT; the mutex is still to be had again.
ReadExpires(d) ==
  /\ user[d] = "waiting"
  /\ UserGoto(d, "expired")
  /\ UNCHANGED <<result, taken, thread, loopVars, registered, flags,
                 input_reports, usbVars>>

\* ETIMEDOUT means 0, whatever has come meanwhile.
ReadTimesOut(d) ==
  /\ user[d] = "expired"
  /\ ReturnNone(d, "nothing")
  /\ UNCHANGED <<thread, loopVars, registered, flags, usbVars>>

-----------------------------------------------------------------------------
(* hid_close.                                                              *)

\* dev->disconnected is looked at ...
HidClose(d) ==
  /\ user[d] = "open"
  /\ Free
  /\ UserGoto(d, IF disconnected[d] THEN "shut" ELSE "unregister")
  /\ UNCHANGED <<result, taken, thread, loopVars, registered, flags,
                 input_reports, usbVars>>

\* ... the callbacks go, and the device moves to the main run loop ...
Unregister(d) ==
  /\ user[d] = "unregister"
  /\ registered' = [registered EXCEPT ![d] = FALSE]
  /\ UserGoto(d, "shut")
  /\ UNCHANGED <<result, taken, thread, loopVars, flags, input_reports, usbVars>>

SetShutdown(d) ==
  /\ user[d] = "shut"
  /\ shutdown_thread' = [shutdown_thread EXCEPT ![d] = TRUE]
  /\ UserGoto(d, "signal")
  /\ UNCHANGED <<result, taken, thread, loopVars, registered, disconnected,
                 input_reports, usbVars>>

Signal(d) ==
  /\ user[d] = "signal"
  /\ signalled' = [signalled EXCEPT ![d] = TRUE]
  /\ UserGoto(d, "wake")
  /\ UNCHANGED <<result, taken, thread, run_loop, stopped, registered, flags,
                 input_reports, usbVars>>

\* Faulty: no CFRunLoopWakeUp.
LetSleep(d) ==
  /\ user[d] = "wake"
  /\ UserGoto(d, "leaving")
  /\ UNCHANGED <<result, taken, thread, loopVars, registered, flags,
                 input_reports, usbVars>>

WakeUp(d) ==
  /\ user[d] = "wake"
  /\ thread' = [thread EXCEPT ![d] = IF @ = "asleep" THEN "run" ELSE @]
  /\ UserGoto(d, "leaving")
  /\ UNCHANGED <<result, taken, loopVars, registered, flags, input_reports, usbVars>>

\* pthread_join; the handle and all it holds are freed.
CloseJoins(d) ==
  /\ user[d] = "joining"
  /\ thread[d] = "ended"
  /\ UserGoto(d, "closed")
  /\ ThreadGoto(d, "none")
  /\ result' = [result EXCEPT ![d] = "nothing"]
  /\ taken' = [taken EXCEPT ![d] = <<>>]
  /\ input_reports' = [input_reports EXCEPT ![d] = <<>>]
  /\ run_loop' = [run_loop EXCEPT ![d] = FALSE]
  /\ stopped' = [stopped EXCEPT ![d] = FALSE]
  /\ signalled' = [signalled EXCEPT ![d] = FALSE]
  /\ registered' = [registered EXCEPT ![d] = FALSE]
  /\ shutdown_thread' = [shutdown_thread EXCEPT ![d] = FALSE]
  /\ disconnected' = [disconnected EXCEPT ![d] = FALSE]
  /\ sent' = [sent EXCEPT ![d] = 0]
  /\ attached' = [attached EXCEPT ![d] = FALSE]

\* Bound: the device stays until the run loop has it; what the system says of
\* one that has gone before is not in this repository.
Unplug(d) ==
  /\ attached[d]
  /\ run_loop[d]
  /\ attached' = [attached EXCEPT ![d] = FALSE]
  /\ UNCHANGED <<userVars, thread, loopVars, registered, flags, input_reports, sent>>
-----------------------------------------------------------------------------
ReadThread(d) ==
  \/ ThreadStarts(d) \/ StartBarrier(d) \/ Loop(d) \/ RunSleeps(d) \/ Removal(d)
  \/ PerformSignal(d) \/ RunStops(d) \/ Broadcast(d) \/ ShutdownBarrier(d)

\* What a job thread inside the library does to come back out of it.
Return(d) ==
  \/ ReadGoesOn(d) \/ ReadExpires(d) \/ ReadTimesOut(d)
  \/ Unregister(d) \/ SetShutdown(d) \/ Signal(d) \/ WakeUp(d) \/ CloseJoins(d)

Next ==
  \E d \in Devices :
    \/ HidOpenPath(d) \/ Read(d) \/ HidClose(d)
    \/ Return(d) \/ SpuriousWakeup(d)
    \/ ReadThread(d) \/ RunTimesOut(d) \/ Report(d) \/ Unplug(d)

\* Threads run, and so does the run loop of a thread that is in it; nobody
\* counts on its 1000 seconds.
Fairness == \A d \in Devices : WF_vars(ReadThread(d)) /\ WF_vars(Return(d))

Spec == Init /\ [][Next]_vars
FairSpec == Spec /\ Fairness
-----------------------------------------------------------------------------
(* Properties.                                                             *)

\* The handle of hidapi.h: reports in order, nothing lost but the oldest of a
\* full list; an error may come before reports that are left, since a reader
\* that is woken looks at the flags first (Mac/hid.c:838-853, 865-883).
State(d) == IF user[d] = "closed" THEN "closed"
            ELSE IF Over(d) THEN "broken" ELSE "open"
Handle == INSTANCE HidHandle WITH MaxQueued <- Reached + 2, Held <- 0, HastyErrors <- TRUE,
            state <- [d \in Devices |-> State(d)], reports <- input_reports
ImplementsHandle == Handle!HandleSpec

\* No reader is left asleep beside a report, or when the read thread has left
\* its loop for good (Mac/hid.c:604-608, 667-674).
NoReaderLeftAsleep ==
  \A d \in Devices : user[d] = "waiting" =>
    /\ input_reports[d] = <<>>
    /\ thread[d] \notin {"done", "done_parked", "ended"}

\* hid_close signals and wakes a run loop that has been stored and whose
\* thread still exists (Mac/hid.c:638-643, 676-679, 987-992).
RunLoopThere ==
  \A d \in Devices : user[d] \in {"signal", "wake"} =>
    run_loop[d] /\ thread[d] \notin {"none", "ended"}

\* hid_close returns: the signal is not lost, wherever the thread is in its
\* loop, and neither thread misses the other at a barrier (Mac/hid.c:984-995).
CloseReturns == \A d \in Devices : (user[d] = "shut") ~> (user[d] = "closed")

\* A handle whose device is gone becomes an error to its reader, unless it is
\* being closed (Mac/hid.c:551-559, 647-665).
DisconnectNoticed ==
  \A d \in Devices :
    (user[d] = "open" /\ ~attached[d])
      ~> (Over(d) \/ user[d] \notin {"open", "waiting", "woken", "expired"})
-----------------------------------------------------------------------------
(* The inductive invariant.                                                *)

\* The read thread has left its loop.
Left(d) == thread[d] \in {"broadcast", "done", "done_parked", "ended"}

\* The handle and its thread come and go together, and pass both barriers
\* together.
Lifetime(d) ==
  /\ user[d] = "closed" <=> thread[d] = "none"
  /\ user[d] \in {"opening", "parked"} <=> thread[d] \in {"start", "ready", "parked"}
  /\ user[d] = "joining" <=> thread[d] = "ended"
  /\ thread[d] \notin {"none", "start"} => run_loop[d]
  /\ user[d] = "waiting" => /\ input_reports[d] = <<>>
                            /\ thread[d] \notin {"done", "done_parked", "ended"}

\* The flags say that the thread has left its loop or has to, and no report
\* comes any more when they do.
FlagsHold(d) ==
  /\ Left(d) => Over(d)
  /\ user[d] = "closed" => ~Over(d) /\ input_reports[d] = <<>>
  /\ disconnected[d] => ~attached[d]
  /\ user[d] = "shut" => ~registered[d] \/ disconnected[d]
  /\ shutdown_thread[d] => Left(d) \/ ~registered[d] \/ disconnected[d]

\* The newest report of the handle is the newest the device has sent.
NewestSent(d) == Handle!Newest(d) = sent[d]

Sound(d) == Lifetime(d) /\ FlagsHold(d) /\ NewestSent(d)

MacInv == TypeOK /\ \A d \in Devices : Sound(d)
=============================================================================
