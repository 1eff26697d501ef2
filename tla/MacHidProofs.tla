---------------------------- MODULE MacHidProofs ----------------------------
(***************************************************************************)
(* Theorems about MacHid, for any handles, any number of reports and any   *)
(* length of the list.                                                     *)
(***************************************************************************)
EXTENDS MacHid, SequenceFacts

Reports == 1 .. MaxReports

\* A step of handle d.
Step(d) ==
  \/ HidOpenPath(d) \/ Read(d) \/ HidClose(d)
  \/ Return(d) \/ SpuriousWakeup(d)
  \/ ReadThread(d) \/ RunTimesOut(d) \/ Report(d) \/ Unplug(d)

\* The threads pass a barrier, or one of them waits at it.
Barrier(d) == StartBarrier(d) \/ ShutdownBarrier(d)

\* What a step of one handle leaves alone in another.
Untold(e) ==
  /\ user'[e] = user[e] /\ result'[e] = result[e] /\ taken'[e] = taken[e]
  /\ thread'[e] = thread[e] /\ run_loop'[e] = run_loop[e]
  /\ registered'[e] = registered[e]
  /\ shutdown_thread'[e] = shutdown_thread[e] /\ disconnected'[e] = disconnected[e]
  /\ input_reports'[e] = input_reports[e]
  /\ sent'[e] = sent[e] /\ attached'[e] = attached[e]

-----------------------------------------------------------------------------
(* Steps.                                                                  *)

\* At a barrier nothing moves but the two threads.
LEMMA Met ==
  ASSUME TypeOK, NEW d \in Devices, Barrier(d)
  PROVE  /\ \E s \in UserPcs, t \in ThreadPcs :
              user' = [user EXCEPT ![d] = s] /\ thread' = [thread EXCEPT ![d] = t]
         /\ \/ /\ user[d] \in {"opening", "parked"} /\ user'[d] = "open"
               /\ thread[d] \in {"ready", "parked"} /\ thread'[d] = "loop"
            \/ /\ user[d] = "opening" /\ user'[d] = "parked" /\ thread'[d] = thread[d]
            \/ /\ thread[d] = "ready" /\ thread'[d] = "parked" /\ user'[d] = user[d]
            \/ /\ user[d] \in {"leaving", "leaving_parked"}
               /\ user'[d] = "joining"
               /\ thread[d] \in {"done", "done_parked"} /\ thread'[d] = "ended"
            \/ /\ user[d] = "leaving" /\ user'[d] = "leaving_parked" /\ thread'[d] = thread[d]
            \/ /\ thread[d] = "done" /\ thread'[d] = "done_parked" /\ user'[d] = user[d]
         /\ UNCHANGED <<result, taken, loopVars, registered, flags, input_reports, usbVars>>
<1>0. user \in [Devices -> UserPcs] /\ thread \in [Devices -> ThreadPcs]
  BY DEF TypeOK
<1>1. CASE StartBarrier(d)
  <2>1. /\ \/ /\ user[d] = "opening" /\ thread[d] = "parked"
              /\ user' = [user EXCEPT ![d] = "open"] /\ thread' = [thread EXCEPT ![d] = "loop"]
           \/ /\ user[d] = "opening"
              /\ user' = [user EXCEPT ![d] = "parked"] /\ thread' = thread
           \/ /\ user[d] = "parked" /\ thread[d] = "ready"
              /\ user' = [user EXCEPT ![d] = "open"] /\ thread' = [thread EXCEPT ![d] = "loop"]
           \/ /\ thread[d] = "ready"
              /\ thread' = [thread EXCEPT ![d] = "parked"] /\ user' = user
        /\ UNCHANGED <<result, taken, loopVars, registered, flags, input_reports, usbVars>>
    BY <1>1 DEF StartBarrier, Meet, UserGoto, ThreadGoto
  <2> QED
    BY <1>0, <2>1 DEF UserPcs, ThreadPcs
<1>2. CASE ShutdownBarrier(d)
  <2>1. /\ \/ /\ user[d] = "leaving" /\ thread[d] = "done_parked"
              /\ user' = [user EXCEPT ![d] = "joining"]
              /\ thread' = [thread EXCEPT ![d] = "ended"]
           \/ /\ user[d] = "leaving"
              /\ user' = [user EXCEPT ![d] = "leaving_parked"] /\ thread' = thread
           \/ /\ user[d] = "leaving_parked" /\ thread[d] = "done"
              /\ user' = [user EXCEPT ![d] = "joining"]
              /\ thread' = [thread EXCEPT ![d] = "ended"]
           \/ /\ thread[d] = "done"
              /\ thread' = [thread EXCEPT ![d] = "done_parked"] /\ user' = user
        /\ UNCHANGED <<result, taken, loopVars, registered, flags, input_reports, usbVars>>
    BY <1>2 DEF ShutdownBarrier, Meet, UserGoto, ThreadGoto
  <2> QED
    BY <1>0, <2>1 DEF UserPcs, ThreadPcs
<1> QED
  BY <1>1, <1>2 DEF Barrier

\* A step of one handle touches no other.
LEMMA OthersUntold ==
  ASSUME TypeOK, NEW d \in Devices, NEW e \in Devices, e # d, Step(d)
  PROVE  Untold(e)
<1> USE DEF Untold, userVars, loopVars, flags, usbVars, UserGoto, ThreadGoto
<1>t. /\ user \in [Devices -> UserPcs] /\ thread \in [Devices -> ThreadPcs]
      /\ result \in [Devices -> {"report", "nothing", "error"}]
      /\ taken \in [Devices -> Seq(1 .. MaxReports)]
      /\ input_reports \in [Devices -> Seq(1 .. MaxReports)]
      /\ run_loop \in [Devices -> BOOLEAN] /\ registered \in [Devices -> BOOLEAN]
      /\ shutdown_thread \in [Devices -> BOOLEAN] /\ disconnected \in [Devices -> BOOLEAN]
      /\ sent \in [Devices -> 0 .. MaxReports] /\ attached \in [Devices -> BOOLEAN]
  BY DEF TypeOK
<1>1. CASE HidOpenPath(d) \/ HidClose(d) \/ SpuriousWakeup(d) \/ Unplug(d)
  BY <1>t, <1>1 DEF HidOpenPath, HidClose, SpuriousWakeup, Unplug
<1>2. CASE Read(d) \/ ReadGoesOn(d)
  BY <1>t, <1>2 DEF Read, ReadGoesOn, ReturnData, ReturnNone, GoToSleep
<1>3. CASE ReadExpires(d) \/ ReadTimesOut(d)
  BY <1>t, <1>3 DEF ReadExpires, ReadTimesOut, ReturnNone
<1>4. CASE Unregister(d) \/ SetShutdown(d) \/ Signal(d) \/ WakeUp(d)
  BY <1>t, <1>4 DEF Unregister, SetShutdown, Signal, WakeUp
<1>5. CASE CloseJoins(d)
  BY <1>t, <1>5 DEF CloseJoins
<1>6. CASE Barrier(d)
  BY <1>t, <1>6, Met
<1>7. CASE ThreadStarts(d) \/ Loop(d) \/ RunSleeps(d) \/ RunTimesOut(d) \/ PerformSignal(d)
  BY <1>t, <1>7 DEF ThreadStarts, Loop, RunSleeps, RunTimesOut, PerformSignal
<1>8. CASE Removal(d) \/ RunStops(d) \/ Broadcast(d)
  BY <1>t, <1>8 DEF Removal, RunStops, Broadcast, Wake
<1>9. CASE Report(d)
  <2>1. /\ UNCHANGED <<result, taken, loopVars, registered, flags, attached>>
        /\ user' = [user EXCEPT ![d] = user'[d]] /\ thread' = [thread EXCEPT ![d] = "run"]
        /\ sent' = [sent EXCEPT ![d] = sent'[d]]
    BY <1>t, <1>9 DEF Report, Wake
  <2>2. input_reports'[e] = input_reports[e]
    BY <1>t, <1>9 DEF Report
  <2> QED
    BY <1>t, <2>1, <2>2
<1> QED
  BY <1>1, <1>2, <1>3, <1>4, <1>5, <1>6, <1>7, <1>8, <1>9 DEF Step, Return, ReadThread, Barrier

\* A report joins the list, and a list that is too long loses its first.
LEMMA Listed ==
  ASSUME TypeOK, NEW d \in Devices, Report(d)
  PROVE  LET more == Append(input_reports[d], sent[d] + 1) IN
         \E kept \in Seq(Reports) :
           /\ input_reports' = [input_reports EXCEPT ![d] = kept]
           /\ kept # <<>> /\ kept[Len(kept)] = sent[d] + 1
           /\ \/ Len(more) <= (Reached + 2) + 0 /\ kept = more
              \/ Len(more) > Reached + 2 /\ kept = Tail(more)
           /\ sent[d] + 1 \in Reports
           /\ sent' = [sent EXCEPT ![d] = sent[d] + 1]
<1> DEFINE n == sent[d] + 1
           s == input_reports[d]
           more == Append(s, n)
           kept == IF Len(s) > Reached + 1 THEN Tail(more) ELSE more
<1>1. n \in Reports /\ s \in Seq(Reports) /\ sent'[d] = n
  BY Bounds DEF TypeOK, Report, Reports
<1>2. input_reports' = [input_reports EXCEPT ![d] = kept]
  <2>1. input_reports' = [input_reports EXCEPT ![d] =
          LET m == Append(s, sent'[d]) IN IF Len(s) > Reached + 1 THEN Tail(m) ELSE m]
    BY DEF Report
  <2> QED
    BY <1>1, <2>1
<1>3. /\ more \in Seq(Reports) /\ more # <<>> /\ more[Len(more)] = n
      /\ Len(more) = Len(s) + 1 /\ Len(s) \in Nat
  <2> HIDE DEF n, s
  <2> QED
    BY <1>1, AppendedIsLast
<1>4. CASE Len(s) > Reached + 1
  <2> DEFINE k == Len(s)
             l == Len(more)
             m == Len(Tail(more))
  <2>1. /\ m = l - 1 /\ Tail(more) \in Seq(Reports) /\ m \in Nat
        /\ Tail(more) # <<>> => Tail(more)[m] = more[l]
    <3> HIDE DEF more
    <3> QED
      BY <1>3, TailKeepsLast, LenProperties
  <2>2. l = k + 1 /\ k \in Nat /\ k > Reached + 1
    BY <1>3, <1>4
  <2>3. m # 0 /\ l > Reached + 2
    <3> HIDE DEF k, l, m
    <3> QED
      BY <2>1, <2>2, Bounds
  <2>4. Tail(more) # <<>>
    <3> HIDE DEF more
    <3> QED
      BY <2>1, <2>3, EmptySeq
  <2>5. kept = Tail(more)
    BY <1>4
  <2> QED
    <3> HIDE DEF kept, more
    <3> QED
      BY <1>1, <1>2, <1>3, <2>1, <2>3, <2>4, <2>5 DEF Report, more
<1>5. CASE ~(Len(s) > Reached + 1)
  <2> DEFINE k == Len(s)
             l == Len(more)
  <2>1. l = k + 1 /\ k \in Nat /\ ~(k > Reached + 1)
    BY <1>3, <1>5
  <2>2. l <= (Reached + 2) + 0
    <3> HIDE DEF k, l
    <3> QED
      BY <2>1, Bounds
  <2>3. kept = more
    BY <1>5
  <2> QED
    <3> HIDE DEF kept
    <3> QED
      BY <1>1, <1>2, <1>3, <2>2, <2>3 DEF Report
<1> QED
  BY <1>4, <1>5

\* Every step keeps the types.
LEMMA TypesKept ==
  ASSUME TypeOK, NEW d \in Devices, Step(d)
  PROVE  TypeOK'
<1> USE DEF userVars, loopVars, flags, usbVars, UserGoto, ThreadGoto
<1>t. /\ user \in [Devices -> UserPcs] /\ thread \in [Devices -> ThreadPcs]
      /\ result \in [Devices -> {"report", "nothing", "error"}]
      /\ run_loop \in [Devices -> BOOLEAN] /\ stopped \in [Devices -> BOOLEAN]
      /\ signalled \in [Devices -> BOOLEAN] /\ registered \in [Devices -> BOOLEAN]
      /\ shutdown_thread \in [Devices -> BOOLEAN] /\ disconnected \in [Devices -> BOOLEAN]
      /\ attached \in [Devices -> BOOLEAN]
  BY DEF TypeOK
<1>q. /\ taken \in [Devices -> Seq(Reports)] /\ input_reports \in [Devices -> Seq(Reports)]
      /\ sent \in [Devices -> 0 .. MaxReports] /\ <<>> \in Seq(Reports) /\ 0 \in 0 .. MaxReports
  BY Bounds, EmptySeq DEF TypeOK, Reports
<1>u. ASSUME /\ user' \in [Devices -> UserPcs] /\ thread' \in [Devices -> ThreadPcs]
             /\ result' \in [Devices -> {"report", "nothing", "error"}]
             /\ run_loop' \in [Devices -> BOOLEAN] /\ stopped' \in [Devices -> BOOLEAN]
             /\ signalled' \in [Devices -> BOOLEAN] /\ registered' \in [Devices -> BOOLEAN]
             /\ shutdown_thread' \in [Devices -> BOOLEAN]
             /\ disconnected' \in [Devices -> BOOLEAN] /\ attached' \in [Devices -> BOOLEAN],
             /\ taken' \in [Devices -> Seq(Reports)] /\ input_reports' \in [Devices -> Seq(Reports)]
             /\ sent' \in [Devices -> 0 .. MaxReports]
      PROVE  TypeOK'
  BY <1>u DEF TypeOK, Reports
<1>1. CASE HidOpenPath(d) \/ HidClose(d) \/ SpuriousWakeup(d) \/ Unplug(d)
  <2>1. /\ UNCHANGED <<result, taken, loopVars, flags, input_reports, sent>>
        /\ user' = user \/ \E s \in UserPcs : user' = [user EXCEPT ![d] = s]
        /\ thread' = thread \/ thread' = [thread EXCEPT ![d] = "start"]
        /\ registered' = registered \/ registered' = [registered EXCEPT ![d] = TRUE]
        /\ attached' = attached \/ \E b \in BOOLEAN : attached' = [attached EXCEPT ![d] = b]
    BY <1>1 DEF HidOpenPath, HidClose, SpuriousWakeup, Unplug, UserPcs
  <2>2. user' \in [Devices -> UserPcs]
    BY <1>t, <2>1
  <2>3. thread' \in [Devices -> ThreadPcs]
    BY <1>t, <2>1 DEF ThreadPcs
  <2>4. registered' \in [Devices -> BOOLEAN] /\ attached' \in [Devices -> BOOLEAN]
    BY <1>t, <2>1
  <2> QED
    BY <1>t, <1>q, <1>u, <2>1, <2>2, <2>3, <2>4
<1>2. CASE Read(d) \/ ReadGoesOn(d)
  <2>1. /\ UNCHANGED <<thread, loopVars, registered, flags, usbVars>>
        /\ \/ ReturnData(d)
           \/ ReturnNone(d, "error")
           \/ GoToSleep(d)
    BY <1>2 DEF Read, ReadGoesOn
  <2>2. CASE ReturnData(d)
    <3> DEFINE h == Head(input_reports[d])
    <3>1. /\ h \in Reports /\ Tail(input_reports[d]) \in Seq(Reports)
      BY <1>q, <2>2, TailKeepsLast DEF ReturnData
    <3>2. Append(taken[d], h) \in Seq(Reports)
      <4> HIDE DEF h
      <4> QED
        BY <1>q, <3>1, AppendedIsLast
    <3>3. /\ taken' = [taken EXCEPT ![d] = Append(taken[d], h)]
          /\ input_reports' = [input_reports EXCEPT ![d] = Tail(input_reports[d])]
          /\ result' = [result EXCEPT ![d] = "report"] /\ user' = [user EXCEPT ![d] = "open"]
      BY <2>2 DEF ReturnData
    <3>4. /\ taken' \in [Devices -> Seq(Reports)] /\ input_reports' \in [Devices -> Seq(Reports)]
      <4> HIDE DEF h
      <4> QED
        BY <1>q, <3>1, <3>2, <3>3
    <3>5. user' \in [Devices -> UserPcs] /\ result' \in [Devices -> {"report", "nothing", "error"}]
      BY <1>t, <3>3 DEF UserPcs
    <3> QED
      BY <1>t, <1>q, <1>u, <2>1, <3>4, <3>5
  <2>3. CASE ReturnNone(d, "error") \/ GoToSleep(d)
    <3>1. /\ UNCHANGED <<taken, input_reports>>
          /\ result' = result \/ result' = [result EXCEPT ![d] = "error"]
          /\ \E s \in UserPcs : user' = [user EXCEPT ![d] = s]
      BY <2>3 DEF ReturnNone, GoToSleep, UserPcs
    <3> QED
      BY <1>t, <1>q, <1>u, <2>1, <3>1
  <2> QED
    BY <2>1, <2>2, <2>3
<1>3. CASE ReadExpires(d) \/ ReadTimesOut(d)
  <2>1. /\ UNCHANGED <<taken, input_reports, thread, loopVars, registered, flags, usbVars>>
        /\ result' = result \/ result' = [result EXCEPT ![d] = "nothing"]
        /\ \E s \in UserPcs : user' = [user EXCEPT ![d] = s]
    BY <1>3 DEF ReadExpires, ReadTimesOut, ReturnNone, UserPcs
  <2> QED
    BY <1>t, <1>q, <1>u, <2>1
<1>4. CASE Unregister(d) \/ SetShutdown(d) \/ Signal(d) \/ WakeUp(d)
  <2>1. /\ UNCHANGED <<result, taken, run_loop, stopped, disconnected, input_reports, usbVars>>
        /\ \E s \in UserPcs : user' = [user EXCEPT ![d] = s]
        /\ \/ thread' = thread
           \/ \E t \in {"run", thread[d]} : thread' = [thread EXCEPT ![d] = t]
        /\ \/ shutdown_thread' = shutdown_thread
           \/ shutdown_thread' = [shutdown_thread EXCEPT ![d] = TRUE]
        /\ registered' = registered \/ registered' = [registered EXCEPT ![d] = FALSE]
        /\ signalled' = signalled \/ signalled' = [signalled EXCEPT ![d] = TRUE]
    BY <1>4 DEF Unregister, SetShutdown, Signal, WakeUp, UserPcs
  <2>2. thread' \in [Devices -> ThreadPcs]
    BY <1>t, <2>1 DEF ThreadPcs
  <2>3. user' \in [Devices -> UserPcs]
    BY <1>t, <2>1
  <2>4. /\ shutdown_thread' \in [Devices -> BOOLEAN] /\ registered' \in [Devices -> BOOLEAN]
        /\ signalled' \in [Devices -> BOOLEAN]
    BY <1>t, <2>1
  <2> QED
    BY <1>t, <1>q, <1>u, <2>1, <2>2, <2>3, <2>4
<1>5. CASE CloseJoins(d)
  <2>1. user' \in [Devices -> UserPcs] /\ thread' \in [Devices -> ThreadPcs]
    BY <1>t, <1>5 DEF CloseJoins, UserPcs, ThreadPcs
  <2>2. /\ taken' \in [Devices -> Seq(Reports)] /\ input_reports' \in [Devices -> Seq(Reports)]
        /\ sent' \in [Devices -> 0 .. MaxReports]
    BY <1>q, <1>5 DEF CloseJoins
  <2> QED
    BY <1>t, <1>u, <1>5, <2>1, <2>2 DEF CloseJoins
<1>6. CASE Barrier(d)
  <2>1. user' \in [Devices -> UserPcs] /\ thread' \in [Devices -> ThreadPcs]
    BY <1>t, <1>6, Met
  <2>2. UNCHANGED <<result, taken, loopVars, registered, flags, input_reports, usbVars>>
    BY <1>6, Met
  <2> QED
    BY <1>t, <1>q, <1>u, <2>1, <2>2
<1>7. CASE ThreadStarts(d) \/ Loop(d) \/ RunSleeps(d) \/ RunTimesOut(d) \/ PerformSignal(d)
  <2>1. /\ UNCHANGED <<userVars, registered, flags, input_reports, usbVars>>
        /\ thread' = thread \/ \E t \in ThreadPcs : thread' = [thread EXCEPT ![d] = t]
        /\ run_loop' = run_loop \/ run_loop' = [run_loop EXCEPT ![d] = TRUE]
        /\ stopped' = stopped \/ stopped' = [stopped EXCEPT ![d] = TRUE]
        /\ signalled' = signalled \/ signalled' = [signalled EXCEPT ![d] = FALSE]
    BY <1>7 DEF ThreadStarts, Loop, RunSleeps, RunTimesOut, PerformSignal, ThreadPcs
  <2>2. thread' \in [Devices -> ThreadPcs]
    BY <1>t, <2>1
  <2>3. /\ run_loop' \in [Devices -> BOOLEAN] /\ stopped' \in [Devices -> BOOLEAN]
        /\ signalled' \in [Devices -> BOOLEAN]
    BY <1>t, <2>1
  <2> QED
    BY <1>t, <1>q, <1>u, <2>1, <2>2, <2>3
<1>8. CASE Removal(d) \/ RunStops(d) \/ Broadcast(d)
  <2>1. /\ UNCHANGED <<result, taken, run_loop, signalled, registered, input_reports, usbVars>>
        /\ user' = user \/ Wake(d)
        /\ \E t \in ThreadPcs : thread' = [thread EXCEPT ![d] = t]
        /\ stopped' = stopped \/ \E b \in BOOLEAN : stopped' = [stopped EXCEPT ![d] = b]
        /\ \/ shutdown_thread' = shutdown_thread
           \/ shutdown_thread' = [shutdown_thread EXCEPT ![d] = TRUE]
        /\ disconnected' = disconnected \/ disconnected' = [disconnected EXCEPT ![d] = TRUE]
    BY <1>8 DEF Removal, RunStops, Broadcast, ThreadPcs
  <2>2. user' \in [Devices -> UserPcs]
    BY <1>t, <2>1 DEF Wake, UserPcs
  <2>3. thread' \in [Devices -> ThreadPcs]
    BY <1>t, <2>1
  <2>4. /\ stopped' \in [Devices -> BOOLEAN] /\ shutdown_thread' \in [Devices -> BOOLEAN]
        /\ disconnected' \in [Devices -> BOOLEAN]
    BY <1>t, <2>1
  <2> QED
    BY <1>t, <1>q, <1>u, <2>1, <2>2, <2>3, <2>4
<1>9. CASE Report(d)
  <2>1. /\ UNCHANGED <<result, taken, loopVars, registered, flags, attached>>
        /\ Wake(d) /\ thread' = [thread EXCEPT ![d] = "run"]
    BY <1>9 DEF Report
  <2>2. user' \in [Devices -> UserPcs] /\ thread' \in [Devices -> ThreadPcs]
    BY <1>t, <2>1 DEF Wake, UserPcs, ThreadPcs
  <2>3. input_reports' \in [Devices -> Seq(Reports)] /\ sent' \in [Devices -> 0 .. MaxReports]
    <3>1. PICK kept \in Seq(Reports) : /\ input_reports' = [input_reports EXCEPT ![d] = kept]
                                       /\ sent[d] + 1 \in Reports
                                       /\ sent' = [sent EXCEPT ![d] = sent[d] + 1]
      BY <1>9, Listed
    <3>2. sent[d] + 1 \in 0 .. MaxReports
      BY <3>1 DEF Reports
    <3> QED
      BY <1>q, <3>1, <3>2
  <2> QED
    BY <1>t, <1>q, <1>u, <2>1, <2>2, <2>3
<1> QED
  BY <1>1, <1>2, <1>3, <1>4, <1>5, <1>6, <1>7, <1>8, <1>9 DEF Step, Return, ReadThread, Barrier

\* Where the threads stand, and what the flags say of it.
LEMMA ControlKept ==
  ASSUME TypeOK, NEW d \in Devices, Sound(d), Step(d)
  PROVE  (Lifetime(d) /\ FlagsHold(d))'
<1> USE DEF Sound, Lifetime, FlagsHold, Over, Left, userVars, loopVars, flags, usbVars,
            UserGoto, ThreadGoto
<1>t. /\ user \in [Devices -> UserPcs] /\ thread \in [Devices -> ThreadPcs]
      /\ run_loop \in [Devices -> BOOLEAN] /\ registered \in [Devices -> BOOLEAN]
      /\ shutdown_thread \in [Devices -> BOOLEAN] /\ disconnected \in [Devices -> BOOLEAN]
      /\ attached \in [Devices -> BOOLEAN]
  BY DEF TypeOK
<1>q. input_reports \in [Devices -> Seq(1 .. MaxReports)]
  BY DEF TypeOK
<1>1. CASE HidOpenPath(d) \/ HidClose(d) \/ SpuriousWakeup(d) \/ Unplug(d)
  BY <1>t, <1>1 DEF HidOpenPath, HidClose, SpuriousWakeup, Unplug
<1>2. CASE Read(d) \/ ReadGoesOn(d)
  <2>1. /\ UNCHANGED <<thread, loopVars, registered, flags, usbVars>>
        /\ user[d] \in {"open", "woken"}
        /\ \/ user'[d] = "open"
           \/ user'[d] = "waiting" /\ input_reports'[d] = <<>> /\ ~Over(d)
    BY <1>t, <1>2 DEF Read, ReadGoesOn, ReturnData, ReturnNone, GoToSleep
  <2> QED
    BY <2>1
<1>3. CASE ReadExpires(d) \/ ReadTimesOut(d)
  BY <1>t, <1>3 DEF ReadExpires, ReadTimesOut, ReturnNone
<1>4. CASE Unregister(d) \/ SetShutdown(d) \/ Signal(d) \/ WakeUp(d)
  BY <1>t, <1>4 DEF Unregister, SetShutdown, Signal, WakeUp
<1>5. CASE CloseJoins(d)
  BY <1>t, <1>q, <1>5 DEF CloseJoins
<1>6. CASE Barrier(d)
  <2>1. UNCHANGED <<result, taken, loopVars, registered, flags, input_reports, usbVars>>
    BY <1>6, Met
  <2>2. \/ /\ user[d] \in {"opening", "parked"} /\ user'[d] = "open"
           /\ thread[d] \in {"ready", "parked"} /\ thread'[d] = "loop"
        \/ /\ user[d] = "opening" /\ user'[d] = "parked" /\ thread'[d] = thread[d]
        \/ /\ thread[d] = "ready" /\ thread'[d] = "parked" /\ user'[d] = user[d]
        \/ /\ user[d] \in {"leaving", "leaving_parked"} /\ user'[d] = "joining"
           /\ thread[d] \in {"done", "done_parked"} /\ thread'[d] = "ended"
        \/ /\ user[d] = "leaving" /\ user'[d] = "leaving_parked" /\ thread'[d] = thread[d]
        \/ /\ thread[d] = "done" /\ thread'[d] = "done_parked" /\ user'[d] = user[d]
    BY <1>6, Met
  <2> QED
    BY <2>1, <2>2
<1>7. CASE ThreadStarts(d) \/ Loop(d) \/ RunSleeps(d) \/ RunTimesOut(d) \/ PerformSignal(d)
  BY <1>t, <1>7 DEF ThreadStarts, Loop, RunSleeps, RunTimesOut, PerformSignal
<1>8. CASE Removal(d) \/ RunStops(d) \/ Broadcast(d)
  BY <1>t, <1>8 DEF Removal, Running, Removed, RunStops, Broadcast, Wake
<1>9. CASE Report(d)
  <2>1. /\ UNCHANGED <<result, taken, loopVars, registered, flags, attached>>
        /\ thread[d] \in {"run", "asleep"} /\ thread'[d] = "run"
        /\ user'[d] = IF user[d] = "waiting" THEN "woken" ELSE user[d]
    BY <1>t, <1>9 DEF Report, Running, Wake
  <2> QED
    BY <2>1
<1> QED
  BY <1>1, <1>2, <1>3, <1>4, <1>5, <1>6, <1>7, <1>8, <1>9 DEF Step, Return, ReadThread, Barrier

\* What the reader has, what it still has to read, and what the device sent.
LEMMA NewestKept ==
  ASSUME TypeOK, NEW d \in Devices, Sound(d), Step(d)
  PROVE  NewestSent(d)'
<1> USE DEF userVars, loopVars, flags, usbVars, UserGoto, ThreadGoto
<1>0. /\ taken \in [Devices -> Seq(Reports)] /\ input_reports \in [Devices -> Seq(Reports)]
      /\ sent \in [Devices -> 0 .. MaxReports]
      /\ NewestSent(d)
  BY DEF TypeOK, Reports, Sound
<1>1. CASE UNCHANGED <<taken, input_reports, sent>>
  BY <1>0, <1>1 DEF NewestSent, Handle!Newest
<1>2. CASE Read(d) \/ ReadGoesOn(d)
  <2>1. /\ sent' = sent
        /\ ReturnData(d) \/ UNCHANGED <<taken, input_reports>>
    BY <1>2 DEF Read, ReadGoesOn, ReturnNone, GoToSleep
  <2>2. CASE ReturnData(d)
    <3> DEFINE s == input_reports[d]
               h == Head(s)
    <3>1. /\ s # <<>> /\ s \in Seq(Reports)
          /\ taken'[d] = Append(taken[d], h) /\ input_reports'[d] = Tail(s)
      BY <1>0, <2>2 DEF ReturnData
    <3>2. /\ h \in Reports
          /\ Tail(s) = <<>> => h = s[Len(s)]
          /\ Tail(s) # <<>> => Tail(s)[Len(Tail(s))] = s[Len(s)]
      <4> HIDE DEF s
      <4> QED
        BY <3>1, TailKeepsLast
    <3>3. taken'[d] # <<>> /\ taken'[d][Len(taken'[d])] = h
      <4> DEFINE t == taken[d]
      <4>1. t \in Seq(Reports) /\ taken'[d] = Append(t, h)
        BY <1>0, <3>1
      <4> HIDE DEF t, h
      <4> QED
        BY <3>2, <4>1, AppendedIsLast
    <3>4. Handle!Newest(d)' = Handle!Newest(d)
      BY <3>1, <3>2, <3>3 DEF Handle!Newest
    <3> QED
      BY <1>0, <2>1, <3>4 DEF NewestSent
  <2> QED
    BY <1>1, <2>1, <2>2
<1>3. CASE Report(d)
  <2>1. PICK kept \in Seq(Reports) :
          /\ input_reports' = [input_reports EXCEPT ![d] = kept]
          /\ kept # <<>> /\ kept[Len(kept)] = sent[d] + 1
          /\ sent' = [sent EXCEPT ![d] = sent[d] + 1]
    BY <1>3, Listed
  <2>2. input_reports'[d] = kept /\ sent'[d] = sent[d] + 1
    BY <1>0, <2>1
  <2> QED
    BY <2>1, <2>2 DEF NewestSent, Handle!Newest
<1>4. CASE CloseJoins(d)
  <2>1. taken'[d] = <<>> /\ input_reports'[d] = <<>> /\ sent'[d] = 0
    BY <1>0, <1>4 DEF CloseJoins
  <2> QED
    BY <2>1 DEF NewestSent, Handle!Newest
<1>5. CASE HidOpenPath(d) \/ HidClose(d) \/ SpuriousWakeup(d) \/ Unplug(d)
  BY <1>1, <1>5 DEF HidOpenPath, HidClose, SpuriousWakeup, Unplug
<1>6. CASE ReadExpires(d) \/ ReadTimesOut(d) \/ Unregister(d) \/ SetShutdown(d) \/ Signal(d) \/ WakeUp(d)
  BY <1>1, <1>6 DEF ReadExpires, ReadTimesOut, ReturnNone, Unregister, SetShutdown, Signal, WakeUp
<1>7. CASE Barrier(d)
  BY <1>1, <1>7, Met
<1>8. CASE ThreadStarts(d) \/ Loop(d) \/ RunSleeps(d) \/ RunTimesOut(d) \/ PerformSignal(d)
  BY <1>1, <1>8 DEF ThreadStarts, Loop, RunSleeps, RunTimesOut, PerformSignal
<1>9. CASE Removal(d) \/ RunStops(d) \/ Broadcast(d)
  BY <1>1, <1>9 DEF Removal, RunStops, Broadcast
<1> QED
  BY <1>2, <1>3, <1>4, <1>5, <1>6, <1>7, <1>8, <1>9 DEF Step, Return, ReadThread, Barrier

-----------------------------------------------------------------------------
(* The invariant.                                                          *)

LEMMA OthersSound ==
  ASSUME NEW e \in Devices, Untold(e), Sound(e)
  PROVE  Sound(e)'
BY DEF Untold, Sound, Lifetime, FlagsHold, Over, Left, NewestSent, Handle!Newest

LEMMA MacInvariant == Spec => []MacInv
<1>1. Init => MacInv
  <2> SUFFICES ASSUME Init PROVE MacInv
    OBVIOUS
  <2>1. <<>> \in Seq(Reports) /\ 0 \in 0 .. MaxReports
    BY Bounds, EmptySeq
  <2>2. TypeOK
    BY <2>1 DEF Init, AllFalse, TypeOK, Reports, UserPcs, ThreadPcs
  <2>3. ASSUME NEW d \in Devices PROVE Sound(d)
    BY DEF Init, AllFalse, Sound, Lifetime, FlagsHold, Over, Left, NewestSent, Handle!Newest
  <2> QED
    BY <2>2, <2>3 DEF MacInv
<1>2. MacInv /\ [Next]_vars => MacInv'
  <2> SUFFICES ASSUME MacInv, [Next]_vars PROVE MacInv'
    OBVIOUS
  <2>1. ASSUME NEW d \in Devices, Step(d)
        PROVE  MacInv'
    <3>1. TypeOK /\ Sound(d)
      BY DEF MacInv
    <3>2. TypeOK'
      BY <2>1, <3>1, TypesKept
    <3>3. ASSUME NEW e \in Devices
          PROVE  Sound(e)'
      <4>1. CASE e = d
        BY <2>1, <3>1, <4>1, ControlKept, NewestKept DEF Sound
      <4>2. CASE e # d
        <5>1. Untold(e)
          BY <2>1, <3>1, <4>2, OthersUntold
        <5> QED
          BY <5>1, OthersSound DEF MacInv
      <4> QED
        BY <4>1, <4>2
    <3> QED
      BY <3>2, <3>3 DEF MacInv
  <2>2. CASE UNCHANGED vars
    <3>1. UNCHANGED <<user, result, taken, thread, run_loop, stopped, signalled, registered,
                      shutdown_thread, disconnected, input_reports, sent, attached>>
      BY <2>2 DEF vars, userVars, loopVars, flags, usbVars
    <3>2. TypeOK'
      BY <3>1 DEF MacInv, TypeOK
    <3>3. \A d \in Devices : Sound(d)'
      BY <3>1, OthersSound DEF MacInv, Untold
    <3> QED
      BY <3>2, <3>3 DEF MacInv
  <2> QED
    BY <2>1, <2>2 DEF Next, Step
<1> QED
  BY <1>1, <1>2, PTL DEF Spec

\* Every variable keeps its type (TypeOK).
THEOREM MacTypeCorrect == Spec => []TypeOK
<1>1. MacInv => TypeOK
  BY DEF MacInv
<1> QED
  BY <1>1, MacInvariant, PTL

\* A reader is woken by the first report and by the end of the run loop
\* (NoReaderLeftAsleep, Mac/hid.c:604-608, 667-674).
THEOREM MacReadersWoken == Spec => []NoReaderLeftAsleep
<1>1. MacInv => NoReaderLeftAsleep
  BY DEF MacInv, Sound, Lifetime, NoReaderLeftAsleep
<1> QED
  BY <1>1, MacInvariant, PTL

\* hid_close stops a run loop that is there (RunLoopThere,
\* Mac/hid.c:638-643, 676-679, 987-992).
THEOREM RunLoopStopped == Spec => []RunLoopThere
<1>1. MacInv => RunLoopThere
  <2> SUFFICES ASSUME MacInv, NEW d \in Devices, user[d] \in {"signal", "wake"}
               PROVE  run_loop[d] /\ thread[d] \notin {"none", "ended"}
    BY DEF RunLoopThere
  <2> QED
    BY DEF MacInv, Sound, Lifetime
<1> QED
  BY <1>1, MacInvariant, PTL

-----------------------------------------------------------------------------
(* The handle as its reader sees it.                                       *)

\* What a step of one handle does to the abstract one.
LEMMA MappedStates ==
  ASSUME TypeOK, TypeOK', NEW d \in Devices, Step(d)
  PROVE  /\ [x \in Devices |-> State(x)]' = [[x \in Devices |-> State(x)] EXCEPT ![d] = State(d)']
         /\ input_reports' = [input_reports EXCEPT ![d] = input_reports'[d]]
         /\ taken' = [taken EXCEPT ![d] = taken'[d]]
         /\ result' = [result EXCEPT ![d] = result'[d]]
         /\ [x \in Devices |-> State(x)][d] = State(d)
<1>1. \A e \in Devices : e # d => Untold(e)
  BY OthersUntold
<1>2. \A e \in Devices : e # d => State(e)' = State(e)
  BY <1>1 DEF Untold, State, Over
<1>3. [x \in Devices |-> State(x)]' = [[x \in Devices |-> State(x)] EXCEPT ![d] = State(d)']
  BY <1>2
<1>4. /\ input_reports \in [Devices -> Seq(Reports)] /\ input_reports' \in [Devices -> Seq(Reports)]
      /\ taken \in [Devices -> Seq(Reports)] /\ taken' \in [Devices -> Seq(Reports)]
      /\ result \in [Devices -> {"report", "nothing", "error"}]
      /\ result' \in [Devices -> {"report", "nothing", "error"}]
  BY DEF TypeOK, Reports
<1>5. /\ input_reports' = [input_reports EXCEPT ![d] = input_reports'[d]]
      /\ taken' = [taken EXCEPT ![d] = taken'[d]]
      /\ result' = [result EXCEPT ![d] = result'[d]]
  BY <1>1, <1>4 DEF Untold
<1> QED
  BY <1>3, <1>5

\* A step of one handle is a step of the abstract one, or none.
LEMMA StepOfHandle ==
  ASSUME TypeOK, TypeOK', NEW d \in Devices, Sound(d), Step(d)
  PROVE  [Handle!HandleNext]_Handle!handleVars
<1> USE DEF UserGoto, ThreadGoto, userVars, loopVars, flags, usbVars
<1> DEFINE state == [x \in Devices |-> State(x)]
<1>t. /\ user \in [Devices -> UserPcs]
      /\ shutdown_thread \in [Devices -> BOOLEAN] /\ disconnected \in [Devices -> BOOLEAN]
      /\ input_reports \in [Devices -> Seq(Reports)] /\ taken \in [Devices -> Seq(Reports)]
      /\ result \in [Devices -> {"report", "nothing", "error"}]
  BY DEF TypeOK, Reports
<1>0. /\ state' = [state EXCEPT ![d] = State(d)']
      /\ input_reports' = [input_reports EXCEPT ![d] = input_reports'[d]]
      /\ taken' = [taken EXCEPT ![d] = taken'[d]]
      /\ result' = [result EXCEPT ![d] = result'[d]]
      /\ state[d] = State(d)
  BY MappedStates
<1>s. State(d)' = State(d) => state' = state
  BY <1>0
<1>1. ASSUME State(d)' = State(d), UNCHANGED <<input_reports, taken, result>>
      PROVE  UNCHANGED Handle!handleVars
  BY <1>s, <1>1 DEF Handle!handleVars
<1>2. ASSUME State(d) = "open", State(d)' = "broken", UNCHANGED <<input_reports, taken, result>>
      PROVE  Handle!HandleNext
  <2>1. Handle!Break(d)
    BY <1>0, <1>2 DEF Handle!Break
  <2> QED
    BY <2>1 DEF Handle!HandleNext
<1>3. ASSUME user'[d] = "closed" <=> user[d] = "closed", UNCHANGED flags
      PROVE  State(d)' = State(d)
  BY <1>3 DEF State, Over
<1>4. CASE HidOpenPath(d)
  <2>1. State(d) = "closed" /\ State(d)' = "open"
    BY <1>t, <1>4 DEF HidOpenPath, State, Over, Sound, FlagsHold
  <2>2. UNCHANGED <<input_reports, taken, result>>
    BY <1>4 DEF HidOpenPath
  <2>3. Handle!Open(d)
    BY <1>0, <2>1, <2>2 DEF Handle!Open
  <2> QED
    BY <2>3 DEF Handle!HandleNext
<1>5. CASE Read(d) \/ ReadGoesOn(d)
  <2>1. /\ user[d] \in {"open", "woken"} /\ UNCHANGED flags
        /\ ReturnData(d) \/ (Over(d) /\ ReturnNone(d, "error")) \/ GoToSleep(d)
    BY <1>5 DEF Read, ReadGoesOn
  <2>2. user'[d] \in {"open", "waiting"}
    BY <1>t, <2>1 DEF ReturnData, ReturnNone, GoToSleep
  <2>3. State(d)' = State(d) /\ State(d) # "closed"
    BY <1>3, <2>1, <2>2 DEF State
  <2>4. state' = state
    BY <1>s, <2>3
  <2>5. CASE ReturnData(d)
    <3>1. Handle!ReadReport(d)
      BY <1>0, <2>3, <2>4, <2>5 DEF ReturnData, Handle!ReadReport
    <3> QED
      BY <3>1 DEF Handle!HandleNext
  <2>6. CASE Over(d) /\ ReturnNone(d, "error")
    <3>1. State(d) = "broken"
      BY <2>3, <2>6 DEF State
    <3>2. Handle!ReadError(d)
      BY <1>0, <2>4, <2>6, <3>1 DEF ReturnNone, Handle!ReadError
    <3> QED
      BY <3>2 DEF Handle!HandleNext
  <2>7. CASE GoToSleep(d)
    BY <1>1, <2>3, <2>7 DEF GoToSleep
  <2> QED
    BY <2>1, <2>5, <2>6, <2>7
<1>6. CASE ReadTimesOut(d)
  <2>1. user[d] = "expired" /\ user'[d] = "open" /\ UNCHANGED flags
    BY <1>t, <1>6 DEF ReadTimesOut, ReturnNone
  <2>2. State(d)' = State(d) /\ State(d) # "closed"
    BY <1>3, <2>1 DEF State
  <2>3. state' = state
    BY <1>s, <2>2
  <2>4. Handle!ReadNothing(d)
    BY <1>0, <1>6, <2>2, <2>3 DEF ReadTimesOut, ReturnNone, Handle!ReadNothing
  <2> QED
    BY <2>4 DEF Handle!HandleNext
<1>7. CASE CloseJoins(d)
  <2>1. State(d) # "closed" /\ State(d)' = "closed"
    BY <1>t, <1>7 DEF CloseJoins, State, Over
  <2>2. Handle!Close(d)
    BY <1>0, <1>7, <2>1 DEF CloseJoins, Handle!Close
  <2> QED
    BY <2>2 DEF Handle!HandleNext
<1>8. CASE Report(d)
  <2> DEFINE more == Append(input_reports[d], sent[d] + 1)
  <2>1. /\ thread[d] \in {"run", "asleep"} /\ registered[d] /\ attached[d]
        /\ sent[d] < MaxReports
        /\ UNCHANGED <<result, taken, flags>>
        /\ user'[d] = IF user[d] = "waiting" THEN "woken" ELSE user[d]
    BY <1>t, <1>8 DEF Report, Running, Wake
  <2>2. State(d) = "open" /\ State(d)' = State(d)
    <3>1. user[d] # "closed" /\ ~Over(d)
      BY <2>1 DEF Over, Left, Sound, Lifetime, FlagsHold
    <3>2. State(d) = "open"
      BY <3>1 DEF State
    <3>3. user'[d] = "closed" <=> user[d] = "closed"
      BY <2>1
    <3> QED
      BY <1>3, <2>1, <3>2, <3>3
  <2>3. Handle!Newest(d) = sent[d]
    BY DEF Sound, NewestSent
  <2>4. \/ /\ Len(more) <= (Reached + 2) + 0
           /\ input_reports' = [input_reports EXCEPT ![d] = more]
        \/ /\ Len(more) > Reached + 2
           /\ input_reports' = [input_reports EXCEPT ![d] = Tail(more)]
    BY <1>8, Listed
  <2>5. state[d] = "open" /\ UNCHANGED <<state, taken, result>>
    BY <1>0, <1>s, <2>1, <2>2
  <2>6. more = Append(input_reports[d], Handle!Newest(d) + 1)
    BY <2>3
  <2>7. Handle!Deliver(d)
    <3> HIDE DEF more, state
    <3> QED
      BY <2>1, <2>3, <2>4, <2>5, <2>6 DEF Handle!Deliver, state
  <2> QED
    BY <2>7 DEF Handle!HandleNext
<1>9. CASE Removal(d) \/ RunStops(d) \/ SetShutdown(d)
  <2>1. UNCHANGED <<input_reports, taken, result>>
    BY <1>9 DEF Removal, RunStops, SetShutdown
  <2>2. State(d) # "closed" /\ State(d)' = "broken"
    <3>1. user[d] # "closed"
      BY <1>9 DEF Removal, Running, RunStops, SetShutdown, Sound, Lifetime
    <3>2. user'[d] # "closed" /\ (shutdown_thread'[d] \/ disconnected'[d])
      BY <1>t, <1>9, <3>1 DEF Removal, RunStops, SetShutdown
    <3> QED
      BY <3>1, <3>2 DEF State, Over
  <2>3. State(d) \in {"open", "broken"}
    BY <2>2 DEF State
  <2> QED
    BY <1>1, <1>2, <2>1, <2>2, <2>3
<1>10. CASE HidClose(d) \/ SpuriousWakeup(d) \/ Unplug(d) \/ ReadExpires(d)
  <2>1. UNCHANGED <<input_reports, taken, result, flags>>
    BY <1>10 DEF HidClose, SpuriousWakeup, Unplug, ReadExpires
  <2>2. user'[d] = "closed" <=> user[d] = "closed"
    BY <1>t, <1>10 DEF HidClose, SpuriousWakeup, Unplug, ReadExpires
  <2> QED
    BY <1>1, <1>3, <2>1, <2>2
<1>11. CASE Unregister(d) \/ Signal(d) \/ WakeUp(d)
  <2>1. UNCHANGED <<input_reports, taken, result, flags>>
    BY <1>11 DEF Unregister, Signal, WakeUp
  <2>2. user'[d] = "closed" <=> user[d] = "closed"
    BY <1>t, <1>11 DEF Unregister, Signal, WakeUp
  <2> QED
    BY <1>1, <1>3, <2>1, <2>2
<1>12. CASE Barrier(d)
  <2>1. UNCHANGED <<result, taken, loopVars, registered, flags, input_reports, usbVars>>
    BY <1>12, Met
  <2>2. user'[d] = "closed" <=> user[d] = "closed"
    BY <1>12, Met
  <2> QED
    BY <1>1, <1>3, <2>1, <2>2
<1>13. CASE ThreadStarts(d) \/ Loop(d) \/ RunSleeps(d) \/ RunTimesOut(d) \/ PerformSignal(d)
  <2>1. UNCHANGED <<user, input_reports, taken, result, flags>>
    BY <1>13 DEF ThreadStarts, Loop, RunSleeps, RunTimesOut, PerformSignal
  <2> QED
    BY <1>1, <1>3, <2>1
<1>14. CASE Broadcast(d)
  <2>1. UNCHANGED <<input_reports, taken, result, flags>>
    BY <1>14 DEF Broadcast
  <2>2. user'[d] = "closed" <=> user[d] = "closed"
    BY <1>t, <1>14 DEF Broadcast, Wake
  <2> QED
    BY <1>1, <1>3, <2>1, <2>2
<1> QED
  BY <1>4, <1>5, <1>6, <1>7, <1>8, <1>9, <1>10, <1>11, <1>12, <1>13, <1>14
     DEF Step, Return, ReadThread, Barrier

\* The handle of the Mac library is the handle its reader sees, wherever its
\* run loop is when the device vanishes or hid_close stops it
\* (ImplementsHandle).
THEOREM MacHandleImplemented == Spec => ImplementsHandle
<1>1. Init => Handle!HandleInit
  <2> SUFFICES ASSUME Init PROVE Handle!HandleInit
    OBVIOUS
  <2>1. [d \in Devices |-> State(d)] = [d \in Devices |-> "closed"]
    BY DEF Init, State
  <2> QED
    BY <2>1 DEF Init, Handle!HandleInit
<1>2. MacInv /\ MacInv' /\ [Next]_vars => [Handle!HandleNext]_Handle!handleVars
  <2> SUFFICES ASSUME MacInv, MacInv', [Next]_vars
               PROVE  [Handle!HandleNext]_Handle!handleVars
    OBVIOUS
  <2>1. ASSUME NEW d \in Devices, Step(d)
        PROVE  [Handle!HandleNext]_Handle!handleVars
    BY <2>1, StepOfHandle DEF MacInv
  <2>2. CASE UNCHANGED vars
    BY <2>2 DEF vars, userVars, flags, usbVars, State, Over, Handle!handleVars
  <2> QED
    BY <2>1, <2>2 DEF Next, Step
<1> QED
  BY <1>1, <1>2, MacInvariant, PTL DEF Spec, ImplementsHandle, Handle!HandleSpec
=============================================================================
