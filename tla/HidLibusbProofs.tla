--------------------------- MODULE HidLibusbProofs ---------------------------
(***************************************************************************)
(* Theorems about HidLibusb, for any handles, any number of reports and    *)
(* any length of the list.                                                 *)
(***************************************************************************)
EXTENDS HidLibusb, SequenceFacts

Reports == 1 .. MaxReports

\* A step of handle d.
Step(d) ==
  \/ HidOpenPath(d) \/ Read(d) \/ HidWrite(d) \/ HidClose(d)
  \/ Return(d) \/ SpuriousWakeup(d)
  \/ ReadThread(d) \/ EventsFail(d) \/ Callback(d) \/ Libusb(d)
  \/ Unplug(d)

\* Steps of the threads and the device that run no callback.
Outside(d) ==
  \/ HidOpenPath(d) \/ Read(d) \/ HidWrite(d) \/ HidClose(d)
  \/ Return(d) \/ SpuriousWakeup(d)
  \/ ReadThread(d) \/ EventsFail(d) \/ Unplug(d)

\* What a step of one handle leaves alone in another; at most its read thread
\* comes back from a callback that it ran for the first.
Untold(e) ==
  /\ user'[e] = user[e] /\ result'[e] = result[e] /\ taken'[e] = taken[e]
  /\ transfer'[e] = transfer[e] /\ shutdown_thread'[e] = shutdown_thread[e]
  /\ cancelled'[e] = cancelled[e] /\ input_reports'[e] = input_reports[e]
  /\ sent'[e] = sent[e] /\ attached'[e] = attached[e]
  /\ \/ thread'[e] = thread[e]
     \/ thread[e] \in {"events", "draining"} /\ thread'[e] \in {"loop", "drain"}
  /\ (handler' # Idle /\ handler'.dev = e /\ handler'.stage = "running")
       <=> (handler # Idle /\ handler.dev = e /\ handler.stage = "running")

-----------------------------------------------------------------------------
(* Steps.                                                                  *)

\* libusb hands a transfer to whoever is inside it.
LEMMA Delivered ==
  ASSUME TypeOK, NEW d \in Devices, Libusb(d)
  PROVE  \E by \in {"reader", "writer"}, r \in Devices :
           /\ Inside(by, r) /\ handler = Idle
           /\ handler' = [by |-> by, of |-> r, dev |-> d, stage |-> "running"]
           /\ handler' # Idle
           /\ \/ /\ transfer[d] = "pending" /\ sent[d] < MaxReports
                 /\ transfer' = [transfer EXCEPT ![d] = "completed"]
                 /\ sent' = [sent EXCEPT ![d] = sent[d] + 1]
              \/ /\ transfer[d] \in {"pending", "cancelling"}
                 /\ \/ transfer' = [transfer EXCEPT ![d] = "resubmit"]
                    \/ transfer' = [transfer EXCEPT ![d] = "final"]
                 /\ sent' = sent
           /\ UNCHANGED <<userVars, thread, flags, input_reports, attached>>
<1>1. PICK by \in {"reader", "writer"}, r \in Devices :
        Completed(by, r, d) \/ TimedOut(by, r, d) \/ Finished(by, r, d)
  BY DEF Libusb
<1>2. [by |-> by, of |-> r, dev |-> d, stage |-> "running"] \in Handlers
  BY DEF Handlers
<1>3. [by |-> by, of |-> r, dev |-> d, stage |-> "running"] # Idle
  BY <1>2, NotAHandler
<1>4. /\ Inside(by, r) /\ handler = Idle
      /\ handler' = [by |-> by, of |-> r, dev |-> d, stage |-> "running"]
      /\ UNCHANGED <<userVars, thread, flags, input_reports, attached>>
  BY <1>1 DEF Completed, TimedOut, Finished, Deliver
<1>5. \/ /\ transfer[d] = "pending" /\ sent[d] < MaxReports
         /\ transfer' = [transfer EXCEPT ![d] = "completed"]
         /\ sent' = [sent EXCEPT ![d] = sent[d] + 1]
      \/ /\ transfer[d] \in {"pending", "cancelling"}
         /\ \/ transfer' = [transfer EXCEPT ![d] = "resubmit"]
            \/ transfer' = [transfer EXCEPT ![d] = "final"]
         /\ sent' = sent
  BY <1>1 DEF Completed, TimedOut, Finished, Deliver
<1> QED
  BY <1>3, <1>4, <1>5

\* The last access of a callback: the transfer is with libusb again or with
\* nobody, and the thread that ran it is about to return.
LEMMA LastAccess ==
  ASSUME TypeOK, NEW d \in Devices, Handled(d), Resubmit(d) \/ Final(d)
  PROVE  /\ transfer[d] \in InCallback /\ transfer[d] # "completed"
         /\ handler # Idle /\ handler.dev = d
         /\ handler' # Idle /\ handler' \in Handlers
         /\ handler'.by = handler.by /\ handler'.of = handler.of
         /\ handler'.dev = d /\ handler'.stage = "returning"
         /\ \/ /\ transfer' = [transfer EXCEPT ![d] = "pending"]
               /\ UNCHANGED flags
            \/ transfer' = [transfer EXCEPT ![d] = "unsubmitted"] /\ SetFlags(d)
         /\ UNCHANGED <<userVars, thread, input_reports, usbVars>>
<1>1. transfer[d] \in {"resubmit", "final"} /\ DoneWith
  BY DEF Resubmit, Final
<1>2. handler # Idle /\ handler.dev = d
  BY <1>1 DEF Handled, InCallback
<1>3. handler \in Handlers
  BY <1>2 DEF TypeOK
<1>4. /\ handler' \in Handlers /\ handler'.by = handler.by
      /\ handler'.of = handler.of /\ handler'.dev = handler.dev
      /\ handler'.stage = "returning"
  BY <1>1, <1>3 DEF DoneWith, Handlers
<1>5. handler' # Idle
  BY <1>4, NotAHandler
<1>6. /\ \/ /\ transfer' = [transfer EXCEPT ![d] = "pending"]
            /\ UNCHANGED flags
         \/ transfer' = [transfer EXCEPT ![d] = "unsubmitted"] /\ SetFlags(d)
      /\ UNCHANGED <<userVars, thread, input_reports, usbVars>>
  BY DEF Resubmit, Final
<1> QED
  BY <1>1, <1>2, <1>4, <1>5, <1>6 DEF InCallback

\* The end of a callback: the thread that ran it, if it is a read thread, comes
\* back, and nothing else changes.
LEMMA Returned ==
  ASSUME TypeOK, HandlerInside, NEW d \in Devices, CallbackReturns(d)
  PROVE  /\ handler # Idle /\ handler.stage = "returning" /\ handler' = Idle
         /\ \A e \in Devices :
              \/ thread'[e] = thread[e]
              \/ thread[e] \in {"events", "draining"} /\ thread'[e] \in {"loop", "drain"}
         /\ thread' \in [Devices -> ThreadPcs]
         /\ UNCHANGED <<userVars, transfer, flags, input_reports, usbVars>>
<1>2. /\ handler # Idle /\ handler.stage = "returning" /\ handler' = Idle
      /\ UNCHANGED <<userVars, transfer, flags, input_reports, usbVars>>
  BY DEF CallbackReturns
<1>3. handler.of \in Devices /\ handler.by \in {"reader", "writer"}
  BY <1>2 DEF TypeOK, Handlers
<1>4. /\ \A e \in Devices :
           \/ thread'[e] = thread[e]
           \/ thread[e] \in {"events", "draining"} /\ thread'[e] \in {"loop", "drain"}
      /\ thread' \in [Devices -> ThreadPcs]
  <2>1. CASE handler.by = "writer"
    BY <2>1 DEF CallbackReturns, TypeOK
  <2>2. CASE handler.by = "reader"
    <3>1. thread[handler.of] \in {"events", "draining"}
      BY <1>2, <2>2 DEF HandlerInside
    <3>2. thread' = [thread EXCEPT ![handler.of] =
                       IF thread[handler.of] = "events" THEN "loop" ELSE "drain"]
      BY <2>2 DEF CallbackReturns
    <3> QED
      BY <1>3, <3>1, <3>2 DEF ThreadPcs, TypeOK
  <2> QED
    BY <1>3, <2>1, <2>2
<1> QED
  BY <1>2, <1>4

\* Steps outside callbacks touch one handle and no handler.
LEMMA OutsideUntold ==
  ASSUME TypeOK, NEW d \in Devices, NEW e \in Devices, e # d, Outside(d) \/ Attach(d)
  PROVE  Untold(e)
<1> USE DEF Untold, TypeOK, userVars, flags, usbVars, UserGoto, ThreadGoto
<1>1. CASE HidOpenPath(d) \/ HidWrite(d) \/ HidClose(d) \/ SpuriousWakeup(d) \/ Unplug(d)
  BY <1>1 DEF HidOpenPath, HidWrite, HidClose, SpuriousWakeup, Unplug
<1>2. CASE Read(d)
  BY <1>2 DEF Read, ReturnData, ReturnError
<1>3. CASE ReadExpires(d) \/ ReadTimesOut(d) \/ HidWriteReturns(d) \/ CloseCancels(d)
  BY <1>3 DEF ReadExpires, ReadTimesOut, HidWriteReturns, CloseCancels, CancelTransfer
<1>4. CASE CloseJoins(d)
  BY <1>4 DEF CloseJoins
<1>5. CASE FirstSubmit(d) \/ Barrier(d) \/ Loop(d) \/ EventsReturn(d) \/ Cancel(d) \/ EventsFail(d)
  BY <1>5 DEF FirstSubmit, Barrier, Loop, EventsReturn, Cancel, CancelTransfer, EventsFail
<1>6. CASE Drain(d) \/ DrainReturns(d) \/ Broadcast(d)
  BY <1>6 DEF Drain, DrainReturns, Broadcast, Wake
<1>7. CASE Attach(d)
  BY <1>7 DEF Attach, Wake
<1> QED
  BY <1>1, <1>2, <1>3, <1>4, <1>5, <1>6, <1>7 DEF Outside, Return, ReadThread

LEMMA OthersUntold ==
  ASSUME TypeOK, HandlerInside, NEW d \in Devices, Handled(d),
         NEW e \in Devices, e # d, Step(d)
  PROVE  Untold(e)
<1>1. CASE Outside(d) \/ Attach(d)
  BY <1>1, OutsideUntold
<1>2. CASE Resubmit(d) \/ Final(d)
  <2>1. /\ UNCHANGED <<userVars, thread, input_reports, usbVars>>
        /\ handler.dev = d /\ handler'.dev = d
    BY <1>2, LastAccess
  <2>2. \/ transfer' = [transfer EXCEPT ![d] = "pending"] /\ UNCHANGED flags
        \/ transfer' = [transfer EXCEPT ![d] = "unsubmitted"] /\ SetFlags(d)
    BY <1>2, LastAccess
  <2>3. /\ transfer'[e] = transfer[e] /\ shutdown_thread'[e] = shutdown_thread[e]
        /\ cancelled'[e] = cancelled[e]
    BY <2>2 DEF TypeOK, SetFlags, flags
  <2> QED
    BY <2>1, <2>3 DEF Untold, userVars, usbVars
<1>4. CASE CallbackReturns(d)
  <2>1. /\ UNCHANGED <<userVars, transfer, flags, input_reports, usbVars>>
        /\ handler.stage = "returning" /\ handler' = Idle
        /\ \/ thread'[e] = thread[e]
           \/ thread[e] \in {"events", "draining"} /\ thread'[e] \in {"loop", "drain"}
    BY <1>4, Returned
  <2> QED
    BY <2>1 DEF Untold, userVars, flags, usbVars
<1>3. CASE Libusb(d)
  <2>1. PICK by \in {"reader", "writer"}, r \in Devices :
          /\ handler = Idle /\ handler' = [by |-> by, of |-> r, dev |-> d, stage |-> "running"]
          /\ \E s \in InCallback : transfer' = [transfer EXCEPT ![d] = s]
          /\ sent' = sent \/ sent' = [sent EXCEPT ![d] = sent[d] + 1]
          /\ UNCHANGED <<userVars, thread, flags, input_reports, attached>>
    BY <1>3, Delivered DEF InCallback
  <2>2. transfer'[e] = transfer[e] /\ sent'[e] = sent[e] /\ handler'.dev # e
    BY <2>1 DEF TypeOK
  <2> QED
    BY <2>1, <2>2 DEF Untold, userVars, flags
<1> QED
  BY <1>1, <1>2, <1>3, <1>4 DEF Step, Outside, Callback

\* Every step keeps the types.
LEMMA TypesKept ==
  ASSUME TypeOK, HandlerInside, NEW d \in Devices, Sound(d), Step(d)
  PROVE  TypeOK'
<1> USE DEF userVars, flags, usbVars, UserGoto, ThreadGoto
<1>0. /\ taken[d] \in Seq(Reports) /\ input_reports[d] \in Seq(Reports)
      /\ <<>> \in Seq(Reports)
      /\ input_reports[d] # <<>> => /\ Head(input_reports[d]) \in Reports
                                   /\ Tail(input_reports[d]) \in Seq(Reports)
  <2>1. taken[d] \in Seq(Reports) /\ input_reports[d] \in Seq(Reports)
    BY DEF TypeOK, Reports
  <2>2. input_reports[d] # <<>> => /\ Head(input_reports[d]) \in Reports
                                  /\ Tail(input_reports[d]) \in Seq(Reports)
    BY <2>1, TailKeepsLast
  <2> QED
    BY <2>1, <2>2, EmptySeq
<1>t. /\ user \in [Devices -> UserPcs] /\ thread \in [Devices -> ThreadPcs]
      /\ transfer \in [Devices -> TransferStates]
      /\ shutdown_thread \in [Devices -> BOOLEAN] /\ attached \in [Devices -> BOOLEAN]
      /\ result \in [Devices -> {"report", "nothing", "error"}]
  BY DEF TypeOK
<1>u. ASSUME UNCHANGED <<taken, cancelled, input_reports, sent, handler>>,
             user' \in [Devices -> UserPcs], thread' \in [Devices -> ThreadPcs],
             transfer' \in [Devices -> TransferStates],
             shutdown_thread' \in [Devices -> BOOLEAN], attached' \in [Devices -> BOOLEAN],
             result' \in [Devices -> {"report", "nothing", "error"}]
      PROVE  TypeOK'
  BY <1>u DEF TypeOK
<1>1. CASE HidOpenPath(d) \/ HidWrite(d) \/ HidClose(d) \/ SpuriousWakeup(d) \/ Unplug(d)
  <2>1. /\ UNCHANGED <<taken, cancelled, input_reports, sent, handler, transfer, result>>
        /\ \/ user' = user
           \/ \E s \in UserPcs : user' = [user EXCEPT ![d] = s]
        /\ \/ thread' = thread
           \/ \E s \in ThreadPcs : thread' = [thread EXCEPT ![d] = s]
        /\ \/ shutdown_thread' = shutdown_thread
           \/ shutdown_thread' = [shutdown_thread EXCEPT ![d] = TRUE]
        /\ \/ attached' = attached
           \/ \E b \in BOOLEAN : attached' = [attached EXCEPT ![d] = b]
    BY <1>1 DEF HidOpenPath, HidWrite, HidClose, SpuriousWakeup, Unplug, UserPcs, ThreadPcs
  <2> QED
    BY <1>t, <1>u, <2>1
<1>2. CASE Read(d)
  <2>1. CASE input_reports[d] # <<>>
    <3>1. Append(taken[d], Head(input_reports[d])) \in Seq(Reports)
      BY <1>0, <2>1, AppendedIsLast
    <3>2. /\ taken' = [taken EXCEPT ![d] = Append(taken[d], Head(input_reports[d]))]
          /\ input_reports' = [input_reports EXCEPT ![d] = Tail(input_reports[d])]
      BY <1>2, <2>1 DEF Read, ReturnData
    <3>3. /\ taken' \in [Devices -> Seq(Reports)]
          /\ input_reports' \in [Devices -> Seq(Reports)]
      BY <1>0, <2>1, <3>1, <3>2 DEF TypeOK, Reports
    <3> QED
      BY <1>2, <2>1, <3>3 DEF UserPcs, TypeOK, Reports, Read, ReturnData
  <2>2. CASE input_reports[d] = <<>>
    BY <1>2, <2>2 DEF UserPcs, TypeOK, Read, ReturnError
  <2> QED
    BY <2>1, <2>2
<1>3. CASE ReadExpires(d) \/ ReadTimesOut(d) \/ HidWriteReturns(d) \/ CloseCancels(d)
  <2>1. /\ UNCHANGED <<taken, flags, input_reports, usbVars, handler, thread>>
        /\ \E s \in UserPcs : user' = [user EXCEPT ![d] = s]
        /\ transfer' = transfer \/ CancelTransfer(d)
        /\ result' = result \/ result' = [result EXCEPT ![d] = "nothing"]
    BY <1>3 DEF ReadExpires, ReadTimesOut, HidWriteReturns, CloseCancels, UserPcs
  <2>2. transfer' \in [Devices -> TransferStates]
    BY <1>t, <2>1 DEF CancelTransfer, TransferStates
  <2> QED
    BY <1>t, <1>u, <2>1, <2>2
<1>4. CASE CloseJoins(d)
  BY <1>4, <1>0, Bounds DEF UserPcs, ThreadPcs, TypeOK, Reports, CloseJoins
<1>5. CASE ReadThread(d) \/ EventsFail(d)
  <2>1. /\ UNCHANGED <<result, taken, flags, input_reports, usbVars, handler>>
        /\ \E s \in ThreadPcs : thread' = [thread EXCEPT ![d] = s]
        /\ \/ transfer' = transfer \/ CancelTransfer(d)
           \/ \E s \in {"pending", transfer[d]} : transfer' = [transfer EXCEPT ![d] = s]
        /\ user' = user \/ user' = [user EXCEPT ![d] = "open"] \/ Wake(d)
    BY <1>5 DEF ReadThread, FirstSubmit, Barrier, Loop, EventsReturn, Cancel, Drain,
         DrainReturns, Broadcast, EventsFail, ThreadPcs
  <2>2. transfer' \in [Devices -> TransferStates]
    BY <1>t, <2>1 DEF CancelTransfer, TransferStates
  <2>3. user' \in [Devices -> UserPcs]
    BY <1>t, <2>1 DEF Wake, UserPcs
  <2> QED
    BY <1>t, <1>u, <2>1, <2>2, <2>3
<1>7. CASE Attach(d)
  <2> DEFINE more == Append(input_reports[d], sent[d])
             kept == IF Len(input_reports[d]) > Reached + 1 THEN Tail(more) ELSE more
  <2>1. sent[d] \in Reports
    BY <1>7, Bounds DEF TypeOK, Attach, Sound, NewestSent, Reports
  <2>2. more \in Seq(Reports) /\ more # <<>>
    BY <1>0, <2>1, AppendedIsLast
  <2>3. kept \in Seq(Reports)
    BY <2>2, TailKeepsLast
  <2>4. input_reports' = [input_reports EXCEPT ![d] = kept]
    BY <1>7 DEF Attach
  <2> HIDE DEF kept
  <2>5. input_reports' \in [Devices -> Seq(Reports)]
    BY <2>3, <2>4 DEF TypeOK, Reports
  <2> QED
    BY <1>7, <2>5 DEF UserPcs, TransferStates, TypeOK, Reports, Attach, Wake
<1>8. CASE Resubmit(d) \/ Final(d)
  <2>1. /\ handler' \in Handlers
        /\ UNCHANGED <<userVars, thread, input_reports, usbVars>>
        /\ \/ transfer' = [transfer EXCEPT ![d] = "pending"] /\ UNCHANGED flags
           \/ transfer' = [transfer EXCEPT ![d] = "unsubmitted"] /\ SetFlags(d)
    BY <1>8, LastAccess DEF Sound
  <2>2. transfer' \in [Devices -> TransferStates]
    BY <2>1 DEF TransferStates, TypeOK
  <2>3. shutdown_thread' \in [Devices -> BOOLEAN] /\ cancelled' \in [Devices -> BOOLEAN]
    BY <2>1 DEF TypeOK, SetFlags
  <2> QED
    BY <2>1, <2>2, <2>3 DEF TypeOK
<1>9. CASE Libusb(d)
  <2>1. PICK by \in {"reader", "writer"}, r \in Devices :
          /\ handler' = [by |-> by, of |-> r, dev |-> d, stage |-> "running"]
          /\ \/ /\ sent[d] < MaxReports
                /\ transfer' = [transfer EXCEPT ![d] = "completed"]
                /\ sent' = [sent EXCEPT ![d] = sent[d] + 1]
             \/ /\ \/ transfer' = [transfer EXCEPT ![d] = "resubmit"]
                   \/ transfer' = [transfer EXCEPT ![d] = "final"]
                /\ sent' = sent
          /\ UNCHANGED <<userVars, thread, flags, input_reports, attached>>
    BY <1>9, Delivered
  <2>2. sent[d] < MaxReports => sent[d] + 1 \in 0 .. MaxReports
    BY Bounds DEF TypeOK
  <2>3. sent' \in [Devices -> 0 .. MaxReports]
    BY <2>1, <2>2 DEF TypeOK
  <2>4. transfer' \in [Devices -> TransferStates]
    BY <2>1 DEF TransferStates, TypeOK
  <2>5. handler' \in Handlers
    BY <2>1 DEF Handlers
  <2> QED
    BY <2>1, <2>3, <2>4, <2>5 DEF TypeOK
<1>10. CASE CallbackReturns(d)
  BY <1>10, Returned DEF TypeOK
<1> QED
  BY <1>1, <1>2, <1>3, <1>4, <1>5, <1>7, <1>8, <1>9, <1>10 DEF Step, Return, Callback

\* A read thread that runs a callback stays inside libusb.
LEMMA InsideKept ==
  ASSUME TypeOK, HandlerInside, NEW d \in Devices, Sound(d), Step(d)
  PROVE  HandlerInside'
<1>1. CASE Outside(d) \/ Attach(d)
  <2>1. handler' = handler
    BY <1>1 DEF Outside, Attach, HidOpenPath, Read, HidWrite, HidClose, Return, SpuriousWakeup,
         ReadExpires, ReadTimesOut, HidWriteReturns, CloseCancels, CloseJoins, ReadThread,
         FirstSubmit, Barrier, Loop, EventsReturn, Cancel, Drain, DrainReturns, Broadcast,
         EventsFail, Unplug
  <2>2. \/ thread' = thread
        \/ /\ \E s \in ThreadPcs : thread' = [thread EXCEPT ![d] = s]
           /\ thread[d] \notin {"events", "draining"} \/ ~Handling("reader", d)
    <3>1. CASE HidOpenPath(d)
      BY <3>1 DEF HidOpenPath, ThreadGoto, ThreadPcs, Sound, Lifetime
    <3>2. CASE ReadThread(d) \/ EventsFail(d)
      BY <3>2 DEF ReadThread, FirstSubmit, Barrier, Loop, EventsReturn, Cancel, Drain,
           DrainReturns, Broadcast, EventsFail, ThreadGoto, ThreadPcs
    <3>3. CASE Return(d) \/ SpuriousWakeup(d) \/ Unplug(d)
      BY <3>3 DEF Return, Read, ReadExpires, ReadTimesOut, HidWriteReturns, CloseCancels,
           CloseJoins, SpuriousWakeup, Unplug, ThreadGoto, ThreadPcs
    <3>4. CASE Read(d) \/ HidWrite(d) \/ HidClose(d) \/ Attach(d)
      BY <3>4 DEF Read, HidWrite, HidClose, Attach
    <3> QED
      BY <1>1, <3>1, <3>2, <3>3, <3>4 DEF Outside
  <2>3. handler # Idle => handler.of \in Devices
    BY DEF TypeOK, Handlers
  <2> QED
    BY <2>1, <2>2, <2>3 DEF TypeOK, HandlerInside, Handling
<1>2. CASE Resubmit(d) \/ Final(d)
  BY <1>2, LastAccess DEF Sound, HandlerInside
<1>4. CASE CallbackReturns(d)
  BY <1>4, Returned DEF HandlerInside
<1>3. CASE Libusb(d)
  <2>1. PICK by \in {"reader", "writer"}, r \in Devices :
          /\ Inside(by, r) /\ handler' = [by |-> by, of |-> r, dev |-> d, stage |-> "running"]
          /\ UNCHANGED <<userVars, thread, flags, input_reports, attached>>
    BY <1>3, Delivered
  <2> QED
    BY <2>1 DEF Inside, HandlerInside
<1> QED
  BY <1>1, <1>2, <1>3, <1>4 DEF Step, Outside, Callback

\* Where the threads and the transfer of the handle stand.
LEMMA ControlKept ==
  ASSUME TypeOK, HandlerInside, NEW d \in Devices, Sound(d), Step(d)
  PROVE  (Lifetime(d) /\ Cancelled(d) /\ Handled(d))'
<1> USE DEF Sound, Lifetime, Cancelled, Handled, userVars, flags, usbVars, UserGoto, ThreadGoto
<1>1. CASE HidOpenPath(d) \/ HidWrite(d) \/ HidClose(d) \/ SpuriousWakeup(d) \/ Unplug(d)
  BY <1>1 DEF TypeOK, HidOpenPath, HidWrite, HidClose, SpuriousWakeup, Unplug
<1>2. CASE Read(d)
  BY <1>2 DEF TypeOK, Read, ReturnData, ReturnError, MayLook
<1>3. CASE ReadExpires(d) \/ ReadTimesOut(d) \/ HidWriteReturns(d) \/ CloseCancels(d)
  BY <1>3 DEF TypeOK, ReadExpires, ReadTimesOut, HidWriteReturns, CloseCancels, CancelTransfer,
       InCallback
<1>4. CASE CloseJoins(d)
  BY <1>4 DEF TypeOK, CloseJoins
<1>5. CASE FirstSubmit(d) \/ Barrier(d) \/ Loop(d) \/ EventsReturn(d)
  BY <1>5 DEF TypeOK, FirstSubmit, Barrier, Loop, EventsReturn, InCallback
<1>6. CASE Cancel(d) \/ EventsFail(d) \/ Drain(d) \/ DrainReturns(d) \/ Broadcast(d)
  BY <1>6 DEF TypeOK, Cancel, CancelTransfer, EventsFail, Drain, DrainReturns, Broadcast, Wake,
       InCallback
<1>7. CASE Attach(d)
  <2>1. /\ transfer[d] = "completed" /\ transfer'[d] = "resubmit"
        /\ UNCHANGED <<thread, flags, handler>>
        /\ IF input_reports[d] = <<>>
             THEN user'[d] = IF user[d] = "waiting" THEN "woken" ELSE user[d]
             ELSE user'[d] = user[d]
    BY <1>7 DEF TypeOK, Attach, Wake
  <2> QED
    BY <2>1 DEF TypeOK, InCallback
<1>8. CASE Resubmit(d) \/ Final(d)
  <2>1. /\ transfer[d] \in InCallback /\ handler'.stage = "returning"
        /\ UNCHANGED <<userVars, thread, input_reports, usbVars>>
        /\ \/ transfer' = [transfer EXCEPT ![d] = "pending"] /\ UNCHANGED flags
           \/ transfer' = [transfer EXCEPT ![d] = "unsubmitted"] /\ SetFlags(d)
    BY <1>8, LastAccess
  <2> QED
    BY <2>1 DEF TypeOK, SetFlags, InCallback
<1>9. CASE Libusb(d)
  <2>1. PICK by \in {"reader", "writer"}, r \in Devices :
          /\ handler' = [by |-> by, of |-> r, dev |-> d, stage |-> "running"] /\ handler' # Idle
          /\ transfer[d] \in {"pending", "cancelling"}
          /\ \E s \in InCallback : transfer' = [transfer EXCEPT ![d] = s]
          /\ UNCHANGED <<userVars, thread, flags, input_reports, attached>>
    BY <1>9, Delivered DEF InCallback
  <2>2. handler'.dev = d /\ handler'.stage = "running"
    BY <2>1
  <2> QED
    BY <2>1, <2>2 DEF TypeOK, InCallback
<1>10. CASE CallbackReturns(d)
  <2>1. /\ handler.stage = "returning" /\ handler' = Idle
        /\ \/ thread'[d] = thread[d]
           \/ thread[d] \in {"events", "draining"} /\ thread'[d] \in {"loop", "drain"}
        /\ UNCHANGED <<userVars, transfer, flags, input_reports, usbVars>>
    BY <1>10, Returned
  <2> QED
    BY <2>1 DEF TypeOK
<1> QED
  BY <1>1, <1>2, <1>3, <1>4, <1>5, <1>6, <1>7, <1>8, <1>9, <1>10 DEF Step, Return, ReadThread, Callback

\* What the reader has, what it still has to read, and what the device sent.
LEMMA NewestKept ==
  ASSUME TypeOK, HandlerInside, NEW d \in Devices, Sound(d), Step(d)
  PROVE  NewestSent(d)'
<1> USE DEF userVars, flags, usbVars, UserGoto, ThreadGoto
<1>0. /\ taken[d] \in Seq(Reports) /\ input_reports[d] \in Seq(Reports)
      /\ sent[d] \in 0 .. MaxReports /\ MaxReports \in Nat
      /\ NewestSent(d)
  BY Bounds DEF TypeOK, Reports, Sound
<1>1. CASE /\ UNCHANGED <<taken, input_reports, sent>>
           /\ transfer'[d] = "completed" <=> transfer[d] = "completed"
  BY <1>0, <1>1 DEF NewestSent, Handle!Newest
<1>2. CASE Read(d)
  <2>1. transfer' = transfer /\ sent' = sent
    BY <1>2 DEF Read
  <2>2. CASE input_reports[d] = <<>>
    BY <1>1, <1>2, <2>1, <2>2 DEF Read, ReturnError
  <2>3. CASE input_reports[d] # <<>>
    <3>1. /\ taken'[d] = Append(taken[d], Head(input_reports[d]))
          /\ input_reports'[d] = Tail(input_reports[d])
      BY <1>2, <2>3 DEF TypeOK, Read, ReturnData
    <3>2. /\ taken'[d] # <<>>
          /\ taken'[d][Len(taken'[d])] = Head(input_reports[d])
      <4>1. Head(input_reports[d]) \in Reports
        BY <1>0, <2>3, TailKeepsLast
      <4> DEFINE s == taken[d]
                 e == Head(input_reports[d])
      <4>2. s \in Seq(Reports) /\ e \in Reports /\ taken'[d] = Append(s, e)
        BY <1>0, <3>1, <4>1
      <4> HIDE DEF s, e
      <4>3. taken'[d] # <<>> /\ taken'[d][Len(taken'[d])] = e
        BY <4>2, AppendedIsLast
      <4> QED
        BY <4>3 DEF e
    <3>3. /\ Tail(input_reports[d]) = <<>> =>
               Head(input_reports[d]) = input_reports[d][Len(input_reports[d])]
          /\ Tail(input_reports[d]) # <<>> =>
               Tail(input_reports[d])[Len(Tail(input_reports[d]))]
                 = input_reports[d][Len(input_reports[d])]
      BY <1>0, <2>3, TailKeepsLast
    <3>4. Handle!Newest(d)' = Handle!Newest(d)
      BY <2>3, <3>1, <3>2, <3>3 DEF Handle!Newest
    <3> QED
      BY <1>0, <2>1, <3>4 DEF NewestSent
  <2> QED
    BY <2>2, <2>3
<1>3. CASE Attach(d)
  <2> DEFINE more == Append(input_reports[d], sent[d])
             kept == IF Len(input_reports[d]) > Reached + 1 THEN Tail(more) ELSE more
  <2>1. /\ transfer[d] = "completed" /\ transfer'[d] = "resubmit"
        /\ sent' = sent /\ sent[d] \in Reports
    BY <1>0, <1>3 DEF TypeOK, Attach, NewestSent, Reports
  <2>2. /\ more \in Seq(Reports) /\ more # <<>> /\ more[Len(more)] = sent[d]
        /\ Len(more) = Len(input_reports[d]) + 1 /\ Len(input_reports[d]) \in Nat
    BY <1>0, <2>1, AppendedIsLast
  <2>3. kept # <<>> /\ kept[Len(kept)] = sent[d]
    <3>1. CASE Len(input_reports[d]) > Reached + 1
      <4> DEFINE n == Len(more)
                 m == Len(Tail(more))
      <4>1. /\ m = n - 1 /\ Tail(more) \in Seq(Reports)
            /\ Tail(more) # <<>> => Tail(more)[m] = more[n]
        <5> HIDE DEF more
        <5> QED
          BY <2>2, TailKeepsLast
      <4>2. n > 1
        <5> DEFINE k == Len(input_reports[d])
        <5>1. n = k + 1 /\ k \in Nat /\ k > Reached + 1
          BY <2>2, <3>1
        <5> HIDE DEF n, k
        <5> QED
          BY <5>1, Bounds
      <4>3. m # 0 => Tail(more) # <<>>
        <5> HIDE DEF more
        <5> QED
          BY <4>1, EmptySeq
      <4>4. n \in Nat
        <5> HIDE DEF more
        <5> QED
          BY <2>2, LenProperties
      <4>5. m # 0
        <5> HIDE DEF m, n
        <5> QED
          BY <4>1, <4>2, <4>4
      <4> QED
        BY <2>2, <3>1, <4>1, <4>3, <4>5
    <3>2. CASE ~(Len(input_reports[d]) > Reached + 1)
      BY <2>2, <3>2
    <3> QED
      BY <3>1, <3>2
  <2>4. input_reports'[d] = kept
    BY <1>3 DEF TypeOK, Attach
  <2> HIDE DEF kept
  <2> QED
    BY <1>0, <2>1, <2>3, <2>4 DEF NewestSent, Handle!Newest
<1>4. CASE Resubmit(d) \/ Final(d)
  <2>1. /\ transfer[d] # "completed"
        /\ UNCHANGED <<userVars, input_reports, usbVars>>
        /\ \/ transfer' = [transfer EXCEPT ![d] = "pending"]
           \/ transfer' = [transfer EXCEPT ![d] = "unsubmitted"]
    BY <1>4, LastAccess DEF Sound
  <2> QED
    BY <1>1, <2>1 DEF TypeOK
<1>5. CASE Libusb(d)
  <2>1. PICK by \in {"reader", "writer"}, r \in Devices :
          /\ \/ /\ sent[d] < MaxReports
                /\ transfer' = [transfer EXCEPT ![d] = "completed"]
                /\ sent' = [sent EXCEPT ![d] = sent[d] + 1]
             \/ /\ \/ transfer' = [transfer EXCEPT ![d] = "resubmit"]
                   \/ transfer' = [transfer EXCEPT ![d] = "final"]
                /\ sent' = sent
          /\ transfer[d] \in {"pending", "cancelling"}
          /\ UNCHANGED <<userVars, thread, flags, input_reports, attached>>
    BY <1>5, Delivered
  <2>2. Handle!Newest(d)' = Handle!Newest(d)
    BY <2>1 DEF Handle!Newest
  <2>3. Handle!Newest(d) = sent[d]
    BY <1>0, <2>1 DEF NewestSent
  <2>4. \/ /\ transfer'[d] = "completed" /\ sent'[d] = sent[d] + 1
        \/ transfer'[d] # "completed" /\ sent'[d] = sent[d]
    BY <2>1 DEF TypeOK
  <2>5. CASE transfer'[d] = "completed" /\ sent'[d] = sent[d] + 1
    <3>1. sent'[d] # 0 /\ sent'[d] - 1 = sent[d]
      BY <1>0, <2>5
    <3> QED
      BY <2>2, <2>3, <2>5, <3>1 DEF NewestSent
  <2>6. CASE transfer'[d] # "completed" /\ sent'[d] = sent[d]
    BY <2>2, <2>3, <2>6 DEF NewestSent
  <2> QED
    BY <2>4, <2>5, <2>6
<1>6. CASE CloseJoins(d)
  <2>1. /\ taken'[d] = <<>> /\ input_reports'[d] = <<>> /\ sent'[d] = 0
        /\ transfer' = transfer /\ thread[d] = "ended"
    BY <1>6 DEF TypeOK, CloseJoins
  <2>2. transfer[d] = "unsubmitted"
    BY <2>1 DEF Sound, Cancelled
  <2> QED
    BY <2>1, <2>2 DEF NewestSent, Handle!Newest
<1>7. CASE HidOpenPath(d) \/ HidWrite(d) \/ HidClose(d) \/ SpuriousWakeup(d) \/ Unplug(d)
  BY <1>1, <1>7 DEF HidOpenPath, HidWrite, HidClose, SpuriousWakeup, Unplug
<1>8. CASE ReadExpires(d) \/ ReadTimesOut(d) \/ HidWriteReturns(d) \/ CloseCancels(d)
  BY <1>1, <1>8 DEF TypeOK, ReadExpires, ReadTimesOut, HidWriteReturns, CloseCancels, CancelTransfer
<1>9. CASE FirstSubmit(d) \/ Barrier(d) \/ Loop(d) \/ EventsReturn(d) \/ Cancel(d) \/ EventsFail(d)
  <2>1. /\ UNCHANGED <<taken, input_reports, sent>>
        /\ \/ transfer' = transfer
           \/ transfer'[d] # "completed" /\ transfer[d] # "completed"
    BY <1>9 DEF TypeOK, Sound, Cancelled, FirstSubmit, Barrier, Loop, EventsReturn, Cancel,
         CancelTransfer, EventsFail
  <2> QED
    BY <1>1, <2>1
<1>10. CASE Drain(d) \/ DrainReturns(d) \/ Broadcast(d)
  BY <1>1, <1>10 DEF Drain, DrainReturns, Broadcast, Wake
<1>11. CASE CallbackReturns(d)
  BY <1>1, <1>11, Returned
<1> QED
  BY <1>2, <1>3, <1>4, <1>5, <1>6, <1>7, <1>8, <1>9, <1>10, <1>11 DEF Step, Return, ReadThread, Callback

-----------------------------------------------------------------------------
(* The invariant.                                                          *)

LEMMA OthersSound ==
  ASSUME NEW e \in Devices, Untold(e), Sound(e)
  PROVE  Sound(e)'
BY DEF Untold, Sound, Lifetime, Cancelled, Handled, NewestSent, Handle!Newest

LEMMA UsbInvariant == Spec => []UsbInv
<1>1. Init => UsbInv
  <2> SUFFICES ASSUME Init PROVE UsbInv
    OBVIOUS
  <2>1. <<>> \in Seq(Reports) /\ 0 \in 0 .. MaxReports
    BY Bounds, EmptySeq
  <2>2. TypeOK
    BY <2>1 DEF Init, TypeOK, Reports, UserPcs, ThreadPcs, TransferStates
  <2>3. HandlerInside
    BY DEF Init, HandlerInside
  <2>4. ASSUME NEW d \in Devices PROVE Sound(d)
    BY DEF Init, Sound, Lifetime, Cancelled, Handled, NewestSent, InCallback, Handle!Newest
  <2> QED
    BY <2>2, <2>3, <2>4 DEF UsbInv
<1>2. UsbInv /\ [Next]_vars => UsbInv'
  <2> SUFFICES ASSUME UsbInv, [Next]_vars PROVE UsbInv'
    OBVIOUS
  <2>1. ASSUME NEW d \in Devices, Step(d)
        PROVE  UsbInv'
    <3>1. TypeOK /\ HandlerInside /\ Sound(d)
      BY DEF UsbInv
    <3>2. TypeOK' /\ HandlerInside'
      BY <2>1, <3>1, TypesKept, InsideKept
    <3>3. ASSUME NEW e \in Devices
          PROVE  Sound(e)'
      <4>1. CASE e = d
        BY <2>1, <3>1, <4>1, ControlKept, NewestKept DEF Sound
      <4>2. CASE e # d
        <5>1. Untold(e)
          BY <2>1, <3>1, <4>2, OthersUntold DEF Sound
        <5> QED
          BY <5>1, OthersSound DEF UsbInv
      <4> QED
        BY <4>1, <4>2
    <3> QED
      BY <3>2, <3>3 DEF UsbInv
  <2>2. CASE UNCHANGED vars
    BY <2>2 DEF vars, userVars, flags, usbVars, UsbInv, TypeOK, HandlerInside, Sound, Lifetime,
         Cancelled, Handled, NewestSent, Handle!Newest
  <2> QED
    BY <2>1, <2>2 DEF Next, Step
<1> QED
  BY <1>1, <1>2, PTL DEF Spec

\* Every variable keeps its type (TypeOK).
THEOREM UsbTypeCorrect == Spec => []TypeOK
<1>1. UsbInv => TypeOK
  BY DEF UsbInv
<1> QED
  BY <1>1, UsbInvariant, PTL

\* A reader is woken by the first report and by the end of the read thread,
\* whoever runs the callbacks (NoReaderLeftAsleep, X11/hid.c:661-665, 762-769).
THEOREM ReadersWoken == Spec => []NoReaderLeftAsleep
<1>1. UsbInv => NoReaderLeftAsleep
  BY DEF UsbInv, Sound, Lifetime, NoReaderLeftAsleep
<1> QED
  BY <1>1, UsbInvariant, PTL

\* hid_close frees no transfer that libusb still has, or that a callback, run by
\* whichever thread, has still to touch (FreedWhenDone, X11/hid.c:687-709,
\* 771-777, 1160-1177).
THEOREM TransferFreed == Spec => []FreedWhenDone
<1>1. UsbInv => FreedWhenDone
  <2> SUFFICES ASSUME UsbInv, NEW d \in Devices, user[d] = "closed" \/ thread[d] = "ended"
               PROVE  /\ transfer[d] = "unsubmitted"
                      /\ handler # Idle /\ handler.dev = d => handler.stage = "returning"
    BY DEF FreedWhenDone
  <2>1. Sound(d)
    BY DEF UsbInv
  <2>2. transfer[d] = "unsubmitted"
    BY <2>1 DEF Sound, Lifetime, Cancelled
  <2> QED
    BY <2>1, <2>2 DEF Sound, Handled, InCallback, UsbInv, TypeOK, Handlers
<1> QED
  BY <1>1, UsbInvariant, PTL

-----------------------------------------------------------------------------
(* The handle as its reader sees it.                                       *)

\* What a step of one handle does to the abstract one.
LEMMA MappedStates ==
  ASSUME TypeOK, TypeOK', HandlerInside, NEW d \in Devices, Handled(d), Step(d)
  PROVE  /\ [x \in Devices |-> State(x)]' = [[x \in Devices |-> State(x)] EXCEPT ![d] = State(d)']
         /\ input_reports' = [input_reports EXCEPT ![d] = input_reports'[d]]
         /\ taken' = [taken EXCEPT ![d] = taken'[d]]
         /\ result' = [result EXCEPT ![d] = result'[d]]
         /\ [x \in Devices |-> State(x)][d] = State(d)
<1>1. \A e \in Devices : e # d => Untold(e)
  BY OthersUntold
<1>2. \A e \in Devices : e # d => State(e)' = State(e)
  BY <1>1 DEF Untold, State
<1>3. [x \in Devices |-> State(x)]' = [[x \in Devices |-> State(x)] EXCEPT ![d] = State(d)']
  BY <1>2
<1>4. /\ input_reports' = [input_reports EXCEPT ![d] = input_reports'[d]]
      /\ taken' = [taken EXCEPT ![d] = taken'[d]]
      /\ result' = [result EXCEPT ![d] = result'[d]]
  BY <1>1 DEF Untold, TypeOK
<1> QED
  BY <1>3, <1>4

\* A step of one handle is a step of the abstract one, or none.
LEMMA StepOfHandle ==
  ASSUME TypeOK, TypeOK', HandlerInside, NEW d \in Devices, Sound(d), Step(d)
  PROVE  [Handle!HandleNext]_Handle!handleVars
<1> USE DEF UserGoto, ThreadGoto, userVars, flags, usbVars
<1> DEFINE state == [x \in Devices |-> State(x)]
<1>t. user \in [Devices -> UserPcs]
  BY DEF TypeOK
<1>0. /\ state' = [state EXCEPT ![d] = State(d)']
      /\ input_reports' = [input_reports EXCEPT ![d] = input_reports'[d]]
      /\ taken' = [taken EXCEPT ![d] = taken'[d]]
      /\ result' = [result EXCEPT ![d] = result'[d]]
      /\ state[d] = State(d)
  BY MappedStates DEF Sound
<1>1. ASSUME State(d)' = State(d), input_reports'[d] = input_reports[d],
             taken'[d] = taken[d], result'[d] = result[d]
      PROVE  UNCHANGED Handle!handleVars
  <2>1. state' = state
    BY <1>0, <1>1
  <2>2. input_reports' = input_reports /\ taken' = taken /\ result' = result
    <3> HIDE DEF state
    <3> QED
      BY <1>0, <1>1 DEF TypeOK
  <2> QED
    BY <2>1, <2>2 DEF Handle!handleVars
<1>2. CASE HidOpenPath(d)
  <2>1. State(d) = "closed" /\ State(d)' = "open"
    BY <1>2 DEF TypeOK, HidOpenPath, State, Sound, Lifetime, Cancelled
  <2>2. UNCHANGED <<input_reports, taken, result>>
    BY <1>2 DEF HidOpenPath
  <2>3. Handle!Open(d)
    BY <1>0, <2>1, <2>2 DEF Handle!Open
  <2> QED
    BY <2>3 DEF Handle!HandleNext
<1>3. CASE Read(d)
  <2>1. State(d) # "closed" /\ State(d)' = State(d)
    BY <1>3 DEF TypeOK, Read, MayLook, ReturnData, ReturnError, State
  <2>2. state' = state
    BY <1>0, <2>1
  <2>3. CASE input_reports[d] # <<>>
    <3>1. Handle!ReadReport(d)
      BY <1>0, <1>3, <2>1, <2>2, <2>3 DEF Read, ReturnData, Handle!ReadReport
    <3> QED
      BY <3>1 DEF Handle!HandleNext
  <2>4. CASE input_reports[d] = <<>> /\ shutdown_thread[d]
    <3>1. State(d) = "broken"
      BY <1>3, <2>1, <2>4 DEF Read, MayLook, State, Sound, Cancelled
    <3>2. Handle!ReadError(d)
      BY <1>0, <1>3, <2>2, <2>4, <3>1 DEF Read, ReturnError, Handle!ReadError
    <3> QED
      BY <3>2 DEF Handle!HandleNext
  <2>5. CASE input_reports[d] = <<>> /\ ~shutdown_thread[d]
    <3>1. UNCHANGED <<input_reports, taken, result>>
      BY <1>3, <2>5 DEF Read
    <3> QED
      BY <1>1, <2>1, <3>1
  <2> QED
    BY <2>3, <2>4, <2>5
<1>4. CASE ReadTimesOut(d)
  <2>1. State(d) # "closed" /\ State(d)' = State(d)
    BY <1>4 DEF TypeOK, ReadTimesOut, State
  <2>2. state' = state
    BY <1>0, <2>1
  <2>3. Handle!ReadNothing(d)
    BY <1>0, <1>4, <2>1, <2>2 DEF ReadTimesOut, Handle!ReadNothing
  <2> QED
    BY <2>3 DEF Handle!HandleNext
<1>5. CASE CloseJoins(d)
  <2>1. State(d) # "closed" /\ State(d)' = "closed"
    BY <1>5 DEF TypeOK, CloseJoins, State
  <2>2. Handle!Close(d)
    BY <1>0, <1>5, <2>1 DEF CloseJoins, Handle!Close
  <2> QED
    BY <2>2 DEF Handle!HandleNext
<1>6. CASE Attach(d)
  <2> DEFINE more == Append(input_reports[d], sent[d])
  <2>1. /\ transfer[d] = "completed" /\ sent[d] \in Reports /\ MaxReports \in Nat
        /\ UNCHANGED <<result, taken, flags>>
        /\ user'[d] \in {user[d], "woken"} /\ (user'[d] = "closed" <=> user[d] = "closed")
    BY <1>6, Bounds DEF TypeOK, Attach, Wake, Sound, NewestSent, Reports
  <2>2. State(d) = "open" /\ State(d)' = State(d)
    BY <2>1 DEF State, Sound, Lifetime, Cancelled
  <2>3. state' = state
    BY <1>0, <2>2
  <2>4. Handle!Newest(d) = sent[d] - 1
    BY <2>1 DEF Sound, NewestSent
  <2>5. Handle!Newest(d) < MaxReports /\ Handle!Newest(d) + 1 = sent[d]
    BY <2>1, <2>4 DEF Reports
  <2>6. /\ input_reports' = [input_reports EXCEPT ![d] =
             IF Len(input_reports[d]) > Reached + 1 THEN Tail(more) ELSE more]
    BY <1>6 DEF Attach
  <2>7. Len(more) = Len(input_reports[d]) + 1 /\ Len(input_reports[d]) \in Nat
    <3>1. input_reports[d] \in Seq(Reports)
      BY DEF TypeOK, Reports
    <3> QED
      BY <2>1, <3>1, AppendedIsLast
  <2>8. \/ /\ Len(more) <= (Reached + 2) + 0
           /\ input_reports' = [input_reports EXCEPT ![d] = more]
        \/ /\ Len(more) > Reached + 2
           /\ input_reports' = [input_reports EXCEPT ![d] = Tail(more)]
    <3> DEFINE n == Len(input_reports[d])
               m == Len(more)
    <3>1. m = n + 1 /\ n \in Nat
      BY <2>7
    <3>2. IF n > Reached + 1 THEN input_reports' = [input_reports EXCEPT ![d] = Tail(more)]
                             ELSE input_reports' = [input_reports EXCEPT ![d] = more]
      BY <2>6
    <3> HIDE DEF n, m
    <3>3. n > Reached + 1 => m > Reached + 2
      BY <3>1, Bounds
    <3>4. ~(n > Reached + 1) => m <= (Reached + 2) + 0
      BY <3>1, Bounds
    <3> QED
      BY <3>2, <3>3, <3>4 DEF m
  <2>9. more = Append(input_reports[d], Handle!Newest(d) + 1)
    BY <2>5
  <2>10. state[d] = "open" /\ UNCHANGED <<state, taken, result>>
    BY <1>0, <2>1, <2>2, <2>3
  <2>11. Handle!Deliver(d)
    <3> HIDE DEF more
    <3> QED
      BY <2>5, <2>8, <2>9, <2>10 DEF Handle!Deliver
  <2> QED
    BY <2>11 DEF Handle!HandleNext
<1>7. CASE Resubmit(d) \/ Final(d)
  <2>1. /\ transfer[d] \in InCallback
        /\ UNCHANGED <<userVars, input_reports, usbVars>>
        /\ UNCHANGED flags \/ SetFlags(d)
    BY <1>7, LastAccess DEF Sound
  <2>2. State(d) = "open"
    BY <2>1 DEF State, InCallback, Sound, Lifetime, Cancelled
  <2>3. CASE UNCHANGED flags
    BY <1>1, <2>1, <2>3 DEF State
  <2>4. CASE SetFlags(d)
    <3>1. State(d)' = "broken"
      BY <2>1, <2>2, <2>4 DEF TypeOK, SetFlags, State
    <3>2. Handle!Break(d)
      BY <1>0, <2>1, <2>2, <3>1 DEF Handle!Break
    <3> QED
      BY <3>2 DEF Handle!HandleNext
  <2> QED
    BY <2>1, <2>3, <2>4
<1>8. CASE Libusb(d)
  <2>1. PICK by \in {"reader", "writer"}, r \in Devices :
          UNCHANGED <<userVars, thread, flags, input_reports, attached>>
    BY <1>8, Delivered
  <2> QED
    BY <1>1, <2>1 DEF State
<1>9. CASE HidWrite(d) \/ HidClose(d) \/ SpuriousWakeup(d) \/ Unplug(d)
  <2>1. UNCHANGED <<input_reports, taken, result, cancelled>>
    BY <1>9 DEF HidWrite, HidClose, SpuriousWakeup, Unplug
  <2>2. user'[d] = "closed" <=> user[d] = "closed"
    BY <1>t, <1>9 DEF HidWrite, HidClose, SpuriousWakeup, Unplug
  <2>3. State(d)' = State(d)
    BY <2>1, <2>2 DEF State
  <2> QED
    BY <1>1, <2>1, <2>3
<1>10. CASE ReadExpires(d) \/ HidWriteReturns(d) \/ CloseCancels(d)
  <2>1. State(d)' = State(d) /\ UNCHANGED <<input_reports, taken, result>>
    BY <1>10 DEF TypeOK, ReadExpires, HidWriteReturns, CloseCancels, State
  <2> QED
    BY <1>1, <2>1
<1>11. CASE ReadThread(d) \/ EventsFail(d)
  <2>1. UNCHANGED <<input_reports, taken, result, cancelled>>
    BY <1>11 DEF ReadThread, FirstSubmit, Barrier, Loop, EventsReturn, Cancel, Drain,
         DrainReturns, Broadcast, EventsFail
  <2>2. \/ user' = user
        \/ user[d] = "opening" /\ user' = [user EXCEPT ![d] = "open"]
        \/ Wake(d)
    <3>1. CASE Barrier(d)
      BY <3>1 DEF Barrier
    <3>2. CASE Broadcast(d)
      BY <3>2 DEF Broadcast
    <3>3. CASE ~Barrier(d) /\ ~Broadcast(d)
      BY <1>11, <3>3 DEF ReadThread, FirstSubmit, Loop, EventsReturn, Cancel, Drain,
           DrainReturns, EventsFail
    <3> QED
      BY <3>1, <3>2, <3>3
  <2>3. user'[d] = "closed" <=> user[d] = "closed"
    <3>1. CASE Wake(d)
      BY <1>t, <3>1 DEF Wake
    <3>2. CASE user[d] = "opening" /\ user' = [user EXCEPT ![d] = "open"]
      BY <1>t, <3>2
    <3> QED
      BY <2>2, <3>1, <3>2
  <2>4. State(d)' = State(d)
    BY <2>1, <2>3 DEF State
  <2> QED
    BY <1>1, <2>1, <2>4
<1>12. CASE CallbackReturns(d)
  BY <1>1, <1>12, Returned DEF State
<1> QED
  BY <1>2, <1>3, <1>4, <1>5, <1>6, <1>7, <1>8, <1>9, <1>10, <1>11, <1>12 DEF Step, Return, Callback

\* The handle of the Linux library is the handle its reader sees, whichever
\* thread runs its callbacks and whatever libusb reports (ImplementsHandle).
THEOREM UsbHandleImplemented == Spec => ImplementsHandle
<1>1. Init => Handle!HandleInit
  <2> SUFFICES ASSUME Init PROVE Handle!HandleInit
    OBVIOUS
  <2>1. [d \in Devices |-> State(d)] = [d \in Devices |-> "closed"]
    BY DEF Init, State
  <2> QED
    BY <2>1 DEF Init, Handle!HandleInit
<1>2. UsbInv /\ UsbInv' /\ [Next]_vars => [Handle!HandleNext]_Handle!handleVars
  <2> SUFFICES ASSUME UsbInv, UsbInv', [Next]_vars
               PROVE  [Handle!HandleNext]_Handle!handleVars
    OBVIOUS
  <2>1. ASSUME NEW d \in Devices, Step(d)
        PROVE  [Handle!HandleNext]_Handle!handleVars
    BY <2>1, StepOfHandle DEF UsbInv
  <2>2. CASE UNCHANGED vars
    BY <2>2 DEF vars, userVars, flags, usbVars, State, Handle!handleVars
  <2> QED
    BY <2>1, <2>2 DEF Next, Step
<1> QED
  BY <1>1, <1>2, UsbInvariant, PTL DEF Spec, ImplementsHandle, Handle!HandleSpec
=============================================================================
