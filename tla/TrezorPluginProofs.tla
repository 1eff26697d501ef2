------------------------- MODULE TrezorPluginProofs -------------------------
(***************************************************************************)
(* Theorems about DeviceCommunicator, for any number of paths, jobs and    *)
(* other users of hidapi_mutex, and about TrezorPlugin, which consists of  *)
(* such communicators, for any devices, configurations and calls.          *)
(***************************************************************************)
EXTENDS TrezorPlugin, SequenceFacts

-----------------------------------------------------------------------------
(* Types.                                                                  *)

\* The verdicts a visitor forms are verdicts.
LEMMA VerdictTypes ==
  /\ Lost \in Verdicts
  /\ Success(NoJob) \in Verdicts
  /\ \A j \in Jobs : Success(j) \in Verdicts
  /\ Error("OpenError") \in Verdicts /\ Error("ReadTimeout") \in Verdicts
  /\ Error("ReadError") \in Verdicts /\ Error("HastyReadError") \in Verdicts
  /\ Error("WriteError") \in Verdicts
  /\ Error("MessageError") \in Verdicts /\ Error("InvokeError") \in Verdicts
  BY DEF Verdicts, Causes

\* The stages of the consumer thread are stages.
LEMMA PcTypes ==
  /\ "none" \in Pcs /\ "take" \in Pcs /\ "wait" \in Pcs /\ "woken" \in Pcs
  /\ "visit" \in Pcs /\ "prepare" \in Pcs /\ "polled" \in Pcs
  /\ "answer" \in Pcs /\ "done" \in Pcs
  /\ "open" \in Pcs /\ "purge" \in Pcs /\ "write" \in Pcs /\ "read" \in Pcs
  /\ "hid_error" \in Pcs /\ "close" \in Pcs /\ "unwind" \in Pcs
  BY DEF Pcs, HidPcs

\* What push and pop do to a sequence's type, be it the queue or a FIFO.
LEMMA SequenceTypes ==
  ASSUME NEW S, NEW s \in Seq(S)
  PROVE  /\ \A e \in S : Append(s, e) \in Seq(S)
         /\ s # <<>> => Head(s) \in S /\ Tail(s) \in Seq(S)
         /\ <<>> \in Seq(S)
  OBVIOUS

\* A thread that goes to a stage is at a stage.
LEMMA GotoType ==
  ASSUME pc \in [Paths -> Pcs], NEW p \in Paths, \E s \in Pcs : Goto(p, s)
  PROVE  pc' \in [Paths -> Pcs]
  BY DEF Goto

\* A visitor's report extends the history of its path.
LEMMA ReportType ==
  ASSUME TypeOK, NEW p \in Paths, job[p] \in Jobs,
         NEW v \in Verdicts, Report(p, v)
  PROVE  /\ answered' \in [Paths -> Seq([job : Jobs, verdict : Verdicts])]
         /\ job' \in [Paths -> Jobs \cup {NoJob}]
<1>1. [job |-> job[p], verdict |-> v] \in [job : Jobs, verdict : Verdicts]
  OBVIOUS
<1>2. answered \in [Paths -> Seq([job : Jobs, verdict : Verdicts])]
  BY DEF TypeOK
<1>3. Append(answered[p], [job |-> job[p], verdict |-> v])
        \in Seq([job : Jobs, verdict : Verdicts])
  BY <1>1, <1>2, AppendProperties
<1> QED
  BY <1>2, <1>3 DEF Report, TypeOK

\* Every step, of the consumer thread, the main thread, the device or anybody
\* else, keeps the state well typed and the job in hand fit for its stage.
LEMMA TypedStages == Spec => [](TypeOK /\ JobStage)
<1>1. Init => TypeOK /\ JobStage
  BY JobKinds, MutexOwners, VerdictTypes
     DEF Init, TypeOK, JobStage, Pcs, HidPcs, Executing
<1>2. TypeOK /\ JobStage /\ [Next]_vars => TypeOK' /\ JobStage'
  <2> SUFFICES ASSUME TypeOK, JobStage, [Next]_vars PROVE TypeOK' /\ JobStage'
    OBVIOUS
  <2>0. /\ pc \in [Paths -> Pcs]
        /\ verdict \in [Paths -> Verdicts]
        /\ job \in [Paths -> Jobs \cup {NoJob}]
        /\ answered \in [Paths -> Seq([job : Jobs, verdict : Verdicts])]
        /\ interrupted \in [Paths -> BOOLEAN]
        /\ channel \in [Paths -> BOOLEAN]
        /\ live \in [Paths -> BOOLEAN]
        /\ inbox \in [Paths -> Seq(Calls)]
        /\ requests \in [Paths -> Seq(Calls)]
        /\ replies \in [Paths -> Seq(Calls)]
    BY DEF TypeOK
  <2> USE DEF queueVars, threadVars, handleVars, deviceVars
  <2>1. ASSUME NEW p \in Paths, Construct(p) PROVE TypeOK' /\ JobStage'
    <3>1. TypeOK'
      BY <2>1, PcTypes, VerdictTypes DEF TypeOK, Construct, Goto
    <3>2. JobStage'
      BY <2>1, <2>0 DEF JobStage, Executing, Construct, Goto
    <3> QED
      BY <3>1, <3>2
  <2>2. ASSUME NEW p \in Paths, NEW j \in Jobs, Put(p, j)
        PROVE  TypeOK' /\ JobStage'
    <3>1. /\ Append(queue[p], j) \in Seq(Jobs)
          /\ Append(issued[p], j) \in Seq(Jobs)
      BY SequenceTypes DEF TypeOK
    <3>2. TypeOK'
      BY <2>2, <3>1, PcTypes, VerdictTypes DEF TypeOK, Put, Wake
    <3>3. JobStage'
      BY <2>2, <2>0 DEF JobStage, Executing, Put, Wake
    <3> QED
      BY <3>2, <3>3
  <2>3. ASSUME NEW p \in Paths, Interrupt(p) PROVE TypeOK' /\ JobStage'
    <3>1. TypeOK'
      BY <2>3, PcTypes, VerdictTypes DEF TypeOK, Interrupt, Wake
    <3>2. JobStage'
      BY <2>3, <2>0 DEF JobStage, Executing, Interrupt, Wake
    <3> QED
      BY <3>1, <3>2
  <2>4. ASSUME NEW p \in Paths, Joined(p) PROVE TypeOK' /\ JobStage'
    <3>1. <<>> \in Seq(Jobs)
      OBVIOUS
    <3>2. TypeOK'
      BY <2>4, <3>1, PcTypes, VerdictTypes DEF TypeOK, Joined
    <3>3. JobStage'
      BY <2>4, <2>0 DEF JobStage, Executing, Joined
    <3> QED
      BY <3>2, <3>3
  <2>5. ASSUME NEW p \in Paths, TakeJob(p) PROVE TypeOK' /\ JobStage'
    <3>1. Head(queue[p]) \in Jobs /\ Tail(queue[p]) \in Seq(Jobs)
      BY <2>5, SequenceTypes DEF TypeOK, TakeJob
    <3>2. TypeOK'
      BY <2>5, <3>1, PcTypes, VerdictTypes DEF TypeOK, TakeJob, Goto
    <3>3. JobStage'
      BY <2>5, <2>0, <3>1 DEF JobStage, Executing, TakeJob, Goto
    <3> QED
      BY <3>2, <3>3
  <2>6. ASSUME NEW p \in Paths, TakeWait(p) PROVE TypeOK' /\ JobStage'
    <3>1. pc' \in [Paths -> Pcs]
      BY <2>6, <2>0, PcTypes, GotoType DEF TakeWait, Throw
    <3>2. interrupted' \in [Paths -> BOOLEAN]
      BY <2>6, <2>0 DEF TakeWait, Goto, Throw
    <3>3. TypeOK'
      BY <2>6, <3>1, <3>2 DEF TypeOK, TakeWait
    <3>4. JobStage'
      BY <2>6, <2>0 DEF JobStage, Executing, TakeWait, Goto,
             Throw
    <3> QED
      BY <3>3, <3>4
  <2>7. ASSUME NEW p \in Paths, Resume(p) PROVE TypeOK' /\ JobStage'
    <3>1. TypeOK'
      <4>1. pc' \in [Paths -> Pcs]
        BY <2>7, <2>0, PcTypes, GotoType DEF Resume, Throw
      <4>2. interrupted' \in [Paths -> BOOLEAN]
        BY <2>7, <2>0 DEF Resume, Throw
      <4> QED
        BY <2>7, <4>1, <4>2 DEF TypeOK, Resume
    <3>2. JobStage'
      BY <2>7, <2>0 DEF JobStage, Executing, Resume, Goto,
             Throw
    <3> QED
      BY <3>1, <3>2
  <2>8. ASSUME NEW p \in Paths, Acquire(p) PROVE TypeOK' /\ JobStage'
    <3>1. TypeOK'
      BY <2>8, PcTypes, VerdictTypes DEF TypeOK, Acquire
    <3>2. JobStage'
      BY <2>8, <2>0 DEF JobStage, Executing, Acquire
    <3> QED
      BY <3>1, <3>2
  <2>9. ASSUME NEW p \in Paths, VisitClose(p) PROVE TypeOK' /\ JobStage'
    <3>1. TypeOK'
      <4>1. pc' \in [Paths -> Pcs]
        BY <2>9, <2>0, PcTypes, GotoType DEF VisitClose, Conclude
      <4>2. verdict' \in [Paths -> Verdicts]
        BY <2>9, <2>0, VerdictTypes DEF VisitClose, Conclude
      <4> QED
        BY <2>9, <4>1, <4>2 DEF TypeOK, VisitClose
    <3>2. JobStage'
      BY <2>9, <2>0, JobKinds
         DEF JobStage, Jobs, Calls, Executing, VisitClose,
             Goto, Conclude
    <3> QED
      BY <3>1, <3>2
  <2>10. ASSUME NEW p \in Paths, VisitOpen(p) PROVE TypeOK' /\ JobStage'
    <3>1. TypeOK'
      <4>1. pc' \in [Paths -> Pcs]
        BY <2>10, <2>0, PcTypes, GotoType DEF VisitOpen, Conclude
      <4>2. verdict' \in [Paths -> Verdicts]
        BY <2>10, <2>0, VerdictTypes DEF VisitOpen, Conclude
      <4> QED
        BY <2>10, <4>1, <4>2 DEF TypeOK, VisitOpen
    <3>2. JobStage'
      BY <2>10, <2>0, JobKinds
         DEF JobStage, Jobs, Calls, Executing, VisitOpen, Goto,
             Conclude
    <3> QED
      BY <3>1, <3>2
  <2>11. ASSUME NEW p \in Paths, HidOpen(p) PROVE TypeOK' /\ JobStage'
    <3>1. pc' \in [Paths -> Pcs]
      BY <2>11, <2>0, PcTypes DEF HidOpen, Goto, Conclude, Release
    <3>2. verdict' \in [Paths -> Verdicts]
      BY <2>11, <2>0, VerdictTypes DEF HidOpen, Goto, Conclude, Release
    <3>3. live' \in [Paths -> BOOLEAN]
      BY <2>11, <2>0 DEF HidOpen, Goto, Conclude, Release
    <3>4. TypeOK'
      BY <2>11, <3>1, <3>2, <3>3 DEF TypeOK, HidOpen, Release
    <3>5. JobStage'
      BY <2>11, <2>0 DEF JobStage, Executing, HidOpen, Goto,
             Conclude, Release
    <3> QED
      BY <3>4, <3>5
  <2>12. ASSUME NEW p \in Paths, HidPurge(p) PROVE TypeOK' /\ JobStage'
    <3>1. <<>> \in Seq(Calls)
      OBVIOUS
    <3>2. pc' \in [Paths -> Pcs]
      BY <2>12, <3>1, <2>0, PcTypes DEF HidPurge, Goto, Conclude, Release
    <3>3. verdict' \in [Paths -> Verdicts]
      BY <2>12, <3>1, <2>0, VerdictTypes DEF HidPurge, Goto, Conclude, Release
    <3>4. channel' \in [Paths -> BOOLEAN]
      BY <2>12, <3>1, <2>0 DEF HidPurge, Goto, Conclude, Release
    <3>5. replies' \in [Paths -> Seq(Calls)]
      BY <2>12, <3>1, <2>0 DEF HidPurge, Goto, Conclude, Release
    <3>6. TypeOK'
      BY <2>12, <3>2, <3>3, <3>4, <3>5 DEF TypeOK, HidPurge, Release
    <3>7. JobStage'
      BY <2>12, <2>0, JobKinds
         DEF JobStage, Jobs, Calls, Executing, HidPurge, Goto,
             Conclude, Release
    <3> QED
      BY <3>6, <3>7
  <2>13. ASSUME NEW p \in Paths, Prepare(p) PROVE TypeOK' /\ JobStage'
    <3>1. pc' \in [Paths -> Pcs]
      BY <2>13, <2>0, PcTypes DEF Prepare, Goto, Conclude
    <3>2. verdict' \in [Paths -> Verdicts]
      BY <2>13, <2>0, VerdictTypes DEF Prepare, Goto, Conclude
    <3>3. TypeOK'
      BY <2>13, <3>1, <3>2 DEF TypeOK, Prepare
    <3>4. JobStage'
      BY <2>13, <2>0 DEF JobStage, Executing, Prepare, Goto,
             Conclude
    <3> QED
      BY <3>3, <3>4
  <2>14. ASSUME NEW p \in Paths, HidWrite(p) PROVE TypeOK' /\ JobStage'
    <3>1. Append(requests[p], job[p]) \in Seq(Calls)
      BY <2>14 DEF TypeOK, JobStage, HidWrite
    <3>2. pc' \in [Paths -> Pcs]
      BY <2>14, <2>0, PcTypes, GotoType DEF HidWrite
    <3>3. verdict' \in [Paths -> Verdicts]
      BY <2>14, <3>1, <2>0, VerdictTypes DEF HidWrite, Goto, Release
    <3>5. requests' \in [Paths -> Seq(Calls)]
      BY <2>14, <3>1, <2>0 DEF HidWrite, Goto, Release
    <3>6. TypeOK'
      BY <2>14, <3>2, <3>3, <3>5 DEF TypeOK, HidWrite, Release
    <3>7. JobStage'
      BY <2>14, <2>0 DEF JobStage, Executing, HidWrite, Goto,
             Release
    <3> QED
      BY <3>6, <3>7
  <2>15. ASSUME NEW p \in Paths, HidRead(p) PROVE TypeOK' /\ JobStage'
    <3>1. inbox[p] # <<>> => /\ Success(Head(inbox[p])) \in Verdicts
                             /\ Tail(inbox[p]) \in Seq(Calls)
      BY SequenceTypes, VerdictTypes DEF TypeOK, Jobs
    <3>2. pc' \in [Paths -> Pcs]
      <4>1. \E s \in Pcs : Goto(p, s)
        BY <2>15, PcTypes DEF HidRead, Conclude
      <4> QED
        BY <2>0, <4>1, GotoType
    <3>3. verdict' \in [Paths -> Verdicts]
      BY <2>15, <3>1, <2>0, VerdictTypes DEF HidRead, Goto, Conclude, Release
    <3>4. inbox' \in [Paths -> Seq(Calls)]
      BY <2>15, <3>1, <2>0 DEF HidRead, Goto, Conclude, Release
    <3>5. TypeOK'
      BY <2>15, <3>2, <3>3, <3>4 DEF TypeOK, HidRead, Release
    <3>6. JobStage'
      BY <2>15, <2>0 DEF JobStage, Executing, HidRead, Goto,
             Conclude, Release
    <3> QED
      BY <3>5, <3>6
  <2>16. ASSUME NEW p \in Paths, PollInterrupted(p) PROVE TypeOK' /\ JobStage'
    <3>1. /\ answered' \in [Paths -> Seq([job : Jobs, verdict : Verdicts])]
          /\ job' \in [Paths -> Jobs \cup {NoJob}]
      BY <2>16, ReportType, VerdictTypes DEF JobStage, Executing, PollInterrupted
    <3>2. TypeOK'
      BY <2>16, <3>1, PcTypes DEF TypeOK, PollInterrupted, Throw, Goto
    <3>3. JobStage'
      BY <2>16, JobKinds
         DEF TypeOK, JobStage, Executing, PollInterrupted, Goto, Throw, Report
    <3> QED
      BY <3>2, <3>3
  <2>17. ASSUME NEW p \in Paths, PollAgain(p) PROVE TypeOK' /\ JobStage'
    <3>1. TypeOK'
      BY <2>17, PcTypes, VerdictTypes DEF TypeOK, PollAgain, Goto
    <3>2. JobStage'
      BY <2>17, <2>0 DEF JobStage, Executing, PollAgain, Goto
    <3> QED
      BY <3>1, <3>2
  <2>18. ASSUME NEW p \in Paths, HidError(p) PROVE TypeOK' /\ JobStage'
    <3>1. TypeOK'
      BY <2>18, PcTypes, VerdictTypes DEF TypeOK, HidError, Goto, Release
    <3>2. JobStage'
      BY <2>18, <2>0 DEF JobStage, Executing, HidError, Goto,
             Release
    <3> QED
      BY <3>1, <3>2
  <2>19. ASSUME NEW p \in Paths, CloseChannel(p) PROVE TypeOK' /\ JobStage'
    <3>1. <<>> \in Seq(Calls)
      OBVIOUS
    <3>2. TypeOK'
      BY <2>19, <3>1, PcTypes, VerdictTypes
         DEF TypeOK, CloseChannel, Goto, Conclude, HidClose, Release
    <3>3. JobStage'
      BY <2>19, <2>0 DEF JobStage, Executing, CloseChannel,
             Goto, Conclude, HidClose, Release
    <3> QED
      BY <3>2, <3>3
  <2>20. ASSUME NEW p \in Paths, Answer(p) PROVE TypeOK' /\ JobStage'
    <3>1. UNCHANGED <<answered, job>> \/ \E v \in Verdicts : Report(p, v)
      BY <2>20, <2>0, VerdictTypes DEF Answer
    <3>2. /\ answered' \in [Paths -> Seq([job : Jobs, verdict : Verdicts])]
          /\ job' \in [Paths -> Jobs \cup {NoJob}]
      BY <2>20, <2>0, <3>1, ReportType DEF JobStage, Executing, Answer
    <3>3. pc' \in [Paths -> Pcs]
      BY <2>20, <2>0, PcTypes DEF Answer, Goto, Conclude
    <3>4. verdict' \in [Paths -> Verdicts]
      BY <2>20, <2>0, VerdictTypes DEF Answer, Conclude
    <3>5. TypeOK'
      BY <2>20, <3>2, <3>3, <3>4 DEF TypeOK, Answer
    <3>6. JobStage'
      BY <2>20, <2>0 DEF JobStage, Executing, Answer, Goto,
             Conclude, Report
    <3> QED
      BY <3>5, <3>6
  <2>21. ASSUME NEW p \in Paths, UnwindChannel(p) PROVE TypeOK' /\ JobStage'
    <3>1. <<>> \in Seq(Calls)
      OBVIOUS
    <3>2. TypeOK'
      BY <2>21, <3>1, PcTypes, VerdictTypes
         DEF TypeOK, UnwindChannel, HidClose, Release
    <3>3. JobStage'
      BY <2>21, <2>0 DEF JobStage, Executing, UnwindChannel,
             HidClose, Release
    <3> QED
      BY <3>2, <3>3
  <2>22. ASSUME NEW p \in Paths, ThreadEnds(p) PROVE TypeOK' /\ JobStage'
    <3>1. TypeOK'
      BY <2>22, PcTypes, VerdictTypes DEF TypeOK, ThreadEnds, Goto
    <3>2. JobStage'
      BY <2>22, <2>0 DEF JobStage, Executing, ThreadEnds, Goto
    <3> QED
      BY <3>1, <3>2
  <2>23. ASSUME NEW p \in Paths, TimeOut(p) PROVE TypeOK' /\ JobStage'
    <3>1. TypeOK'
      BY <2>23, PcTypes, VerdictTypes DEF TypeOK, TimeOut, Goto, Conclude
    <3>2. JobStage'
      BY <2>23, <2>0 DEF JobStage, Executing, TimeOut, Goto,
             Conclude
    <3> QED
      BY <3>1, <3>2
  <2>24. ASSUME NEW p \in Paths, SpuriousWakeup(p) PROVE TypeOK' /\ JobStage'
    <3>1. TypeOK'
      BY <2>24, PcTypes, VerdictTypes DEF TypeOK, SpuriousWakeup, Goto
    <3>2. JobStage'
      BY <2>24, <2>0 DEF JobStage, Executing, SpuriousWakeup,
             Goto
    <3> QED
      BY <3>1, <3>2
  <2>25. ASSUME NEW p \in Paths, DeviceReplies(p) PROVE TypeOK' /\ JobStage'
    <3>1. /\ Tail(requests[p]) \in Seq(Calls)
          /\ Append(replies[p], Head(requests[p])) \in Seq(Calls)
      BY <2>25, SequenceTypes DEF TypeOK, DeviceReplies
    <3>2. TypeOK'
      BY <2>25, <3>1, PcTypes, VerdictTypes DEF TypeOK, DeviceReplies
    <3>3. JobStage'
      BY <2>25, <2>0 DEF JobStage, Executing, DeviceReplies
    <3> QED
      BY <3>2, <3>3
  <2>26. ASSUME NEW p \in Paths, Receive(p) PROVE TypeOK' /\ JobStage'
    <3>1. /\ Tail(replies[p]) \in Seq(Calls)
          /\ Append(inbox[p], Head(replies[p])) \in Seq(Calls)
      BY <2>26, SequenceTypes DEF TypeOK, Receive
    <3>2. TypeOK'
      BY <2>26, <3>1, PcTypes, VerdictTypes DEF TypeOK, Receive
    <3>3. JobStage'
      BY <2>26, <2>0 DEF JobStage, Executing, Receive
    <3> QED
      BY <3>2, <3>3
  <2>27. ASSUME NEW p \in Paths, Unplug(p) PROVE TypeOK' /\ JobStage'
    <3>1. <<>> \in Seq(Calls)
      OBVIOUS
    <3>2. TypeOK'
      BY <2>27, <3>1, PcTypes, VerdictTypes DEF TypeOK, Unplug
    <3>3. JobStage'
      BY <2>27, <2>0 DEF JobStage, Executing, Unplug
    <3> QED
      BY <3>2, <3>3
  <2>28. ASSUME NEW p \in Paths, Plug(p) PROVE TypeOK' /\ JobStage'
    <3>1. TypeOK'
      BY <2>28, PcTypes, VerdictTypes DEF TypeOK, Plug
    <3>2. JobStage'
      BY <2>28, <2>0 DEF JobStage, Executing, Plug
    <3> QED
      BY <3>1, <3>2
  <2>29. ASSUME NEW t \in Others, OtherLocks(t) PROVE TypeOK' /\ JobStage'
    BY <2>29 DEF OtherLocks, TypeOK, JobStage
  <2>30. ASSUME NEW t \in Others, OtherUnlocks(t) PROVE TypeOK' /\ JobStage'
    BY <2>30 DEF OtherUnlocks, TypeOK, JobStage
  <2>31. CASE UNCHANGED vars
    BY <2>31 DEF vars, TypeOK, JobStage
  <2> QED
    BY <2>1, <2>2, <2>3, <2>4, <2>5, <2>6, <2>7, <2>8, <2>9, <2>10, <2>11,
       <2>12, <2>13, <2>14, <2>15, <2>16, <2>17, <2>18, <2>19, <2>20, <2>21,
       <2>22, <2>23, <2>24, <2>25, <2>26, <2>27, <2>28, <2>29, <2>30, <2>31
       DEF Next, Main, Consume, Device, Other
<1> QED
  BY <1>1, <1>2, PTL DEF Spec

\* Every variable of the communicators keeps its type in every behaviour.
THEOREM TypeCorrect == Spec => []TypeOK
  BY TypedStages, PTL

-----------------------------------------------------------------------------
(* The condition variable, the mutex and the handle.                       *)

\* A consumer thread exists exactly as long as it should: from constructor to
\* the end of join(), and only an interrupted one ends.
LEMMA LifecycleCorrect == Spec => []Lifecycle
<1>1. Init => Lifecycle
  BY DEF Init, Lifecycle
<1>2. TypeOK /\ Lifecycle /\ [Next]_vars => Lifecycle'
  <2> SUFFICES ASSUME TypeOK, Lifecycle, [Next]_vars PROVE Lifecycle'
    OBVIOUS
  <2>0. /\ pc \in [Paths -> Pcs]
        /\ comm \in [Paths -> {"absent", "alive", "joining", "deleted"}]
        /\ interrupted \in [Paths -> BOOLEAN]
    BY DEF TypeOK
  <2> USE DEF Lifecycle, queueVars, threadVars
  <2>1. ASSUME NEW p \in Paths, Main(p) PROVE Lifecycle'
    BY <2>0, <2>1 DEF Main, Construct, Put, Interrupt, Joined,
         Goto, Wake
  <2>2. ASSUME NEW p \in Paths, Consume(p) PROVE Lifecycle'
    <3>1. CASE TakeJob(p) \/ TakeWait(p) \/ Resume(p) \/ PollInterrupted(p)
      BY <2>0, <3>1 DEF TakeJob, TakeWait, Resume, PollInterrupted, Goto, Throw
    <3>2. CASE Acquire(p) \/ UnwindChannel(p) \/ ThreadEnds(p)
      BY <2>0, <3>2 DEF Acquire, UnwindChannel, ThreadEnds, Goto
    <3>3. CASE VisitClose(p) \/ VisitOpen(p) \/ Prepare(p) \/ PollAgain(p)
               \/ Answer(p)
      BY <2>0, <3>3 DEF VisitClose, VisitOpen, Prepare, PollAgain, Answer, Goto,
           Conclude
    <3>4. CASE HidOpen(p) \/ HidPurge(p) \/ HidWrite(p) \/ HidRead(p)
               \/ HidError(p) \/ CloseChannel(p)
      BY <2>0, <3>4 DEF HidOpen, HidPurge, HidWrite, HidRead, HidError,
           CloseChannel, Goto, Conclude
    <3> QED
      BY <2>2, <3>1, <3>2, <3>3, <3>4 DEF Consume
  <2>3. ASSUME NEW p \in Paths, TimeOut(p) \/ SpuriousWakeup(p) \/ Device(p)
        PROVE  Lifecycle'
    BY <2>0, <2>3 DEF TimeOut, SpuriousWakeup, Device, DeviceReplies, Receive,
         Unplug, Plug, Goto, Conclude
  <2>4. ASSUME NEW t \in Others, Other(t) PROVE Lifecycle'
    BY <2>4 DEF Other, OtherLocks, OtherUnlocks
  <2>5. CASE UNCHANGED vars
    BY <2>5 DEF vars
  <2> QED
    BY <2>1, <2>2, <2>3, <2>4, <2>5 DEF Next
<1> QED
  BY <1>1, <1>2, TypeCorrect, PTL DEF Spec

\* JobQueue loses no wakeup: put() and interrupt() both find a waiting thread.
THEOREM WakeupCorrect == Spec => []NoLostWakeup
<1>1. Init => NoLostWakeup
  BY DEF Init, NoLostWakeup
<1>2. TypeOK /\ NoLostWakeup /\ [Next]_vars => NoLostWakeup'
  <2> SUFFICES ASSUME TypeOK, NoLostWakeup, [Next]_vars PROVE NoLostWakeup'
    OBVIOUS
  <2>0. /\ pc \in [Paths -> Pcs]
        /\ queue \in [Paths -> Seq(Jobs)]
        /\ interrupted \in [Paths -> BOOLEAN]
    BY DEF TypeOK
  <2> USE DEF NoLostWakeup, queueVars, threadVars
  <2>1. ASSUME NEW p \in Paths, Main(p) PROVE NoLostWakeup'
    BY <2>0, <2>1 DEF Main, Construct, Put, Interrupt, Joined,
         Goto, Wake
  <2>2. ASSUME NEW p \in Paths, Consume(p) PROVE NoLostWakeup'
    BY <2>0, <2>2 DEF Consume, TakeJob, TakeWait, Resume, Acquire, VisitClose,
         VisitOpen, HidOpen, HidPurge, Prepare, HidWrite, HidRead,
         PollInterrupted, PollAgain, HidError, CloseChannel, Answer,
         UnwindChannel, ThreadEnds, Goto, Throw, Conclude
  <2>3. ASSUME NEW p \in Paths, TimeOut(p) \/ SpuriousWakeup(p) \/ Device(p)
        PROVE  NoLostWakeup'
    BY <2>0, <2>3 DEF TimeOut, SpuriousWakeup, Device, DeviceReplies, Receive,
         Unplug, Plug, Goto, Conclude
  <2>4. ASSUME NEW t \in Others, Other(t) PROVE NoLostWakeup'
    BY <2>4 DEF Other, OtherLocks, OtherUnlocks
  <2>5. CASE UNCHANGED vars
    BY <2>5 DEF vars
  <2> QED
    BY <2>1, <2>2, <2>3, <2>4, <2>5 DEF Next
<1> QED
  BY <1>1, <1>2, TypeCorrect, PTL DEF Spec

\* hidapi_mutex is held around HID calls and nowhere else.
THEOREM MutexCorrect == Spec => []MutexOnlyAroundHid
<1>1. Init => MutexHeld
  BY MutexOwners DEF Init, MutexHeld
<1>2. TypeOK /\ Lifecycle /\ MutexHeld /\ [Next]_vars => MutexHeld'
  <2> SUFFICES ASSUME TypeOK, Lifecycle, MutexHeld, [Next]_vars
           PROVE  MutexHeld'
    OBVIOUS
  <2>0. pc \in [Paths -> Pcs] /\ channel \in [Paths -> BOOLEAN]
    BY DEF TypeOK
  <2> USE MutexOwners DEF MutexHeld, HidPcs, queueVars, threadVars, handleVars
  <2>1. ASSUME NEW p \in Paths, Main(p) PROVE MutexHeld'
    BY <2>0, <2>1 DEF Lifecycle, Main, Construct, Put, Interrupt, Joined,
         Goto, Wake
  <2>2. ASSUME NEW p \in Paths, Consume(p) PROVE MutexHeld'
    BY <2>0, <2>2 DEF Consume, TakeJob, TakeWait, Resume, Acquire, VisitClose,
         VisitOpen, HidOpen, HidPurge, Prepare, HidWrite, HidRead,
         PollInterrupted, PollAgain, HidError, CloseChannel, Answer,
         UnwindChannel, ThreadEnds, Goto, Throw, Conclude, Release, HidClose
  <2>3. ASSUME NEW p \in Paths, TimeOut(p) \/ SpuriousWakeup(p) \/ Device(p)
        PROVE  MutexHeld'
    BY <2>0, <2>3 DEF TimeOut, SpuriousWakeup, Device, DeviceReplies, Receive,
         Unplug, Plug, Goto, Conclude
  <2>4. ASSUME NEW t \in Others, Other(t) PROVE MutexHeld'
    BY <2>4 DEF Other, OtherLocks, OtherUnlocks
  <2>5. CASE UNCHANGED vars
    BY <2>5 DEF vars
  <2> QED
    BY <2>1, <2>2, <2>3, <2>4, <2>5 DEF Next
<1>3. MutexHeld => MutexOnlyAroundHid
  BY DEF MutexHeld, MutexOnlyAroundHid
<1> QED
  BY <1>1, <1>2, <1>3, TypeCorrect, LifecycleCorrect, PTL DEF Spec

\* Every open handle has an owner, every channel its buffer.
THEOREM HandleCorrect == Spec => []HandleOwned
<1> DEFINE Owned == HandleOwned /\ OpenerHasBuffer
<1>1. Init => Owned
  BY DEF Init, HandleOwned, OpenerHasBuffer
<1>2. TypeOK /\ JobStage /\ Lifecycle /\ Owned /\ [Next]_vars => Owned'
  <2> SUFFICES ASSUME TypeOK, JobStage, Lifecycle, Owned, [Next]_vars
           PROVE  Owned'
    OBVIOUS
  <2>0. /\ pc \in [Paths -> Pcs]
        /\ buffer \in [Paths -> BOOLEAN]
        /\ channel \in [Paths -> BOOLEAN]
        /\ live \in [Paths -> BOOLEAN]
    BY DEF TypeOK
  <2> USE DEF HandleOwned, OpenerHasBuffer, queueVars, threadVars, handleVars
  <2>1. ASSUME NEW p \in Paths, Main(p) PROVE Owned'
    BY <2>0, <2>1 DEF Lifecycle, Main, Construct, Put, Interrupt, Joined,
         Goto, Wake
  <2>2. ASSUME NEW p \in Paths, Consume(p) PROVE Owned'
    BY <2>0, <2>2 DEF Consume, TakeJob, TakeWait, Resume, Acquire, VisitClose,
         VisitOpen, HidOpen, HidPurge, Prepare, HidWrite, HidRead,
         PollInterrupted, PollAgain, HidError, CloseChannel, Answer,
         UnwindChannel, ThreadEnds, Goto, Throw, Conclude, Release, HidClose
  <2>3. ASSUME NEW p \in Paths, TimeOut(p) \/ SpuriousWakeup(p) \/ Device(p)
        PROVE  Owned'
    BY <2>0, <2>3 DEF TimeOut, SpuriousWakeup, Device, DeviceReplies, Receive,
         Unplug, Plug, Goto, Conclude
  <2>4. ASSUME NEW t \in Others, Other(t) PROVE Owned'
    BY <2>4 DEF Other, OtherLocks, OtherUnlocks
  <2>5. CASE UNCHANGED vars
    BY <2>5 DEF vars
  <2> QED
    BY <2>1, <2>2, <2>3, <2>4, <2>5 DEF Next
<1> QED
  BY <1>1, <1>2, TypedStages, LifecycleCorrect, PTL DEF Spec

-----------------------------------------------------------------------------
(* The communicator implements the job service.                            *)

\* What does not concern a path leaves its three parts of the sequence alone.
LEMMA FifoFrame ==
  ASSUME NEW q \in Paths, FifoAt(q), comm'[q] = "deleted" <=> comm[q] = "deleted",
         queue'[q] = queue[q], issued'[q] = issued[q],
         answered'[q] = answered[q], job'[q] = job[q],
         pc'[q] \in Executing <=> pc[q] \in Executing
  PROVE  FifoAt(q)'
  BY DEF FifoAt, InHand

\* put() appends to what is issued and to what is queued.
LEMMA FifoPut ==
  ASSUME TypeOK, NEW p \in Paths, FifoAt(p), NEW j \in Jobs, Put(p, j)
  PROVE  FifoAt(p)'
<1>1. /\ queue'[p] = Append(queue[p], j) /\ queue[p] \in Seq(Jobs)
      /\ issued'[p] = Append(issued[p], j) /\ issued[p] \in Seq(Jobs)
      /\ Len(answered[p]) \in Nat
      /\ UNCHANGED <<comm, answered, job>>
      /\ comm[p] # "deleted"
  BY DEF Put, TypeOK
<1>2. pc'[p] \in Executing <=> pc[p] \in Executing
  <2>1. pc \in [Paths -> Pcs]
    BY DEF TypeOK
  <2> QED
    BY <2>1 DEF Put, Wake, Executing
<1>3. InHand(p)' = InHand(p) /\ InHand(p) \in Nat
  BY <1>2 DEF InHand
<1> DEFINE a == Len(answered[p])
<1> DEFINE h == InHand(p)
<1> DEFINE q == Len(queue[p])
<1> DEFINE i == Len(issued[p])
<1>4. /\ Len(queue'[p]) = q + 1 /\ Len(issued'[p]) = i + 1
      /\ \A k \in 1 .. q : queue'[p][k] = queue[p][k]
      /\ queue'[p][q + 1] = j
      /\ \A k \in 1 .. i : issued'[p][k] = issued[p][k]
      /\ issued'[p][i + 1] = j
  BY <1>1, AppendProperties, LenProperties
<1>5. a \in Nat /\ h \in Nat /\ q \in Nat /\ i = a + h + q
  BY <1>1, <1>3, LenProperties DEF FifoAt
<1>6. \A k \in 1 .. q : queue[p][k] = issued[p][a + h + k]
  BY <1>1 DEF FifoAt
<1>7. pc[p] \in Executing => a < i /\ job[p] = issued[p][a + 1]
  BY DEF FifoAt
<1> HIDE DEF a, h, q, i
<1>8. pc'[p] \in Executing => a < i + 1 /\ job[p] = issued'[p][a + 1]
  <2>1. a < i => a < i + 1 /\ a + 1 \in 1 .. i
    BY <1>5
  <2> QED
    BY <1>2, <1>4, <1>7, <2>1
<1>9. i + 1 = a + h + (q + 1)
  BY <1>5
<1>10. ASSUME NEW k \in 1 .. q + 1 PROVE queue'[p][k] = issued'[p][a + h + k]
  <2>1. CASE k \in 1 .. q
    <3>1. a + h + k \in 1 .. i
      BY <1>5, <2>1
    <3> QED
      BY <1>4, <1>6, <2>1, <3>1
  <2>2. CASE k = q + 1
    <3>1. a + h + k = i + 1
      BY <1>5, <2>2
    <3> QED
      BY <1>4, <2>2, <3>1
  <2> QED
    BY <1>5, <2>1, <2>2
<1> QED
  BY <1>1, <1>2, <1>3, <1>4, <1>8, <1>9, <1>10 DEF FifoAt, a, h, q, i

\* take() turns the head of the queue into the job in hand.
LEMMA FifoTake ==
  ASSUME TypeOK, Lifecycle, NEW p \in Paths, FifoAt(p), TakeJob(p)
  PROVE  FifoAt(p)'
<1>1. /\ queue'[p] = Tail(queue[p]) /\ queue[p] \in Seq(Jobs) /\ queue[p] # <<>>
      /\ job'[p] = Head(queue[p])
      /\ UNCHANGED <<comm, issued, answered>>
      /\ pc[p] = "take" /\ pc'[p] = "visit"
      /\ comm[p] # "deleted"
  BY DEF TakeJob, Goto, TypeOK, Lifecycle
<1>2. /\ Len(answered[p]) \in Nat /\ Len(issued[p]) \in Nat /\ Len(queue[p]) \in Nat
      /\ Len(queue[p]) > 0
      /\ InHand(p) = 0 /\ InHand(p)' = 1
      /\ pc'[p] \in Executing
  BY <1>1 DEF TypeOK, InHand, Executing
<1> DEFINE a == Len(answered[p])
<1> DEFINE q == Len(queue[p])
<1> DEFINE r == Len(queue'[p])
<1> DEFINE i == Len(issued[p])
<1>3. a \in Nat /\ q \in Nat /\ q > 0 /\ r = q - 1 /\ i = a + 0 + q
  <2>1. r = q - 1
    BY <1>1, HeadTailProperties
  <2>2. i = a + 0 + q
    BY <1>1 DEF FifoAt, InHand, Executing
  <2> QED
    BY <1>2, <2>1, <2>2
<1>4. /\ \A k \in 1 .. r : queue'[p][k] = queue[p][k + 1]
      /\ job'[p] = queue[p][1]
  BY <1>1, HeadTailProperties
<1>5. \A k \in 1 .. q : queue[p][k] = issued[p][a + 0 + k]
  BY <1>1 DEF FifoAt, InHand, Executing
<1> HIDE DEF a, q, r, i
<1>6. i = a + 1 + r /\ a < i
  BY <1>3
<1>7. job'[p] = issued[p][a + 1]
  <2>1. 1 \in 1 .. q /\ a + 0 + 1 = a + 1
    BY <1>3
  <2> QED
    BY <1>4, <1>5, <2>1
<1>8. ASSUME NEW k \in 1 .. r
      PROVE  queue'[p][k] = issued[p][a + 1 + k]
  <2>1. k + 1 \in 1 .. q /\ a + 0 + (k + 1) = a + 1 + k
    BY <1>3
  <2> QED
    BY <1>4, <1>5, <2>1
<1> QED
  BY <1>1, <1>2, <1>6, <1>7, <1>8 DEF FifoAt, a, q, r, i

\* A report moves the job in hand to the end of what is answered.
LEMMA FifoReport ==
  ASSUME TypeOK, Lifecycle, NEW p \in Paths, FifoAt(p), NEW v \in Verdicts,
         pc[p] \in Executing, Report(p, v), pc'[p] \notin Executing,
         UNCHANGED <<comm, queue, issued>>
  PROVE  FifoAt(p)'
<1>1. /\ answered'[p] = Append(answered[p], [job |-> job[p], verdict |-> v])
      /\ answered[p] \in Seq([job : Jobs, verdict : Verdicts])
      /\ comm[p] # "deleted"
  BY DEF Report, TypeOK, Lifecycle, Executing
<1>2. Len(answered'[p]) = Len(answered[p]) + 1 /\ Len(answered[p]) \in Nat
  BY <1>1
<1>3. /\ InHand(p) = 1 /\ InHand(p)' = 0
      /\ Len(queue[p]) \in Nat
  BY DEF InHand, TypeOK
<1>4. /\ Len(issued[p]) = Len(answered[p]) + InHand(p) + Len(queue[p])
      /\ \A k \in 1 .. Len(queue[p]) :
           queue[p][k] = issued[p][Len(answered[p]) + InHand(p) + k]
  BY <1>1 DEF FifoAt
<1>5. Len(issued[p]) = Len(answered'[p]) + InHand(p)' + Len(queue[p])
  BY <1>2, <1>3, <1>4
<1>6. ASSUME NEW k \in 1 .. Len(queue[p])
      PROVE  queue[p][k] = issued[p][Len(answered'[p]) + InHand(p)' + k]
  BY <1>2, <1>3, <1>4
<1> QED
  BY <1>1, <1>5, <1>6 DEF FifoAt

\* The steps of the consumer thread that neither take nor report a job.
Quiet(p) ==
  \/ TakeWait(p) \/ Resume(p) \/ Acquire(p) \/ VisitClose(p) \/ VisitOpen(p)
  \/ HidOpen(p) \/ HidPurge(p) \/ Prepare(p) \/ HidWrite(p) \/ HidRead(p)
  \/ PollAgain(p) \/ HidError(p) \/ CloseChannel(p)
  \/ UnwindChannel(p) \/ ThreadEnds(p) \/ TimeOut(p) \/ SpuriousWakeup(p)
  \/ Device(p)

LEMMA QuietStep ==
  ASSUME TypeOK, NEW p \in Paths, Quiet(p)
  PROVE  /\ UNCHANGED <<comm, queue, issued, answered, job>>
         /\ \A q \in Paths : pc'[q] \in Executing <=> pc[q] \in Executing
<1>0. pc \in [Paths -> Pcs]
  BY DEF TypeOK
<1> USE DEF queueVars, threadVars
<1>1. CASE TakeWait(p) \/ Resume(p) \/ Acquire(p) \/ UnwindChannel(p)
           \/ ThreadEnds(p) \/ SpuriousWakeup(p)
  BY <1>0, <1>1 DEF TakeWait, Resume, Acquire, UnwindChannel, ThreadEnds,
       SpuriousWakeup, Goto, Throw, Executing
<1>2. CASE VisitClose(p) \/ VisitOpen(p) \/ HidOpen(p) \/ HidPurge(p) \/ Prepare(p)
  BY <1>0, <1>2 DEF VisitClose, VisitOpen, HidOpen, HidPurge, Prepare, Goto,
       Conclude, Executing
<1>3. CASE HidWrite(p) \/ HidRead(p) \/ PollAgain(p) \/ HidError(p)
           \/ CloseChannel(p) \/ TimeOut(p)
  BY <1>0, <1>3 DEF HidWrite, HidRead, PollAgain, HidError, CloseChannel, TimeOut,
       Goto, Conclude, Executing
<1>4. CASE Device(p)
  BY <1>4 DEF Device, DeviceReplies, Receive, Unplug, Plug
<1> QED
  BY <1>1, <1>2, <1>3, <1>4 DEF Quiet

\* Every step is one of the main thread's, takes a job, reports one, or is quiet.
LEMMA StepKinds ==
  ASSUME Next
  PROVE  \/ \E p \in Paths : Main(p) \/ TakeJob(p) \/ PollInterrupted(p)
                             \/ Answer(p) \/ Quiet(p)
         \/ \E t \in Others : Other(t)
  BY DEF Next, Consume, Quiet

\* What an answering or an interrupted thread does to the history.
LEMMA ReportStep ==
  ASSUME TypeOK, JobStage, NEW p \in Paths, Answer(p) \/ PollInterrupted(p)
  PROVE  /\ UNCHANGED <<comm, queue, issued>>
         /\ pc[p] \in Executing
         /\ \A q \in Paths : q # p => pc'[q] = pc[q]
         /\ \/ UNCHANGED <<answered, job>> /\ pc'[p] = "answer"
            \/ pc'[p] \notin Executing /\ \E v \in Verdicts : Report(p, v)
<1>0. pc \in [Paths -> Pcs] /\ verdict \in [Paths -> Verdicts]
  BY DEF TypeOK
<1> USE DEF queueVars, threadVars
<1>1. CASE Answer(p)
  BY <1>0, <1>1, VerdictTypes DEF Answer, Goto, Conclude, Executing
<1>2. CASE PollInterrupted(p)
  BY <1>0, <1>2, VerdictTypes DEF PollInterrupted, Throw, Goto, Executing
<1> QED
  BY <1>1, <1>2

\* What is finished, in hand and queued is always what was issued, in order.
LEMMA FifoCorrect == Spec => []Fifo
<1>1. Init => Fifo
  <2> SUFFICES ASSUME Init, NEW p \in Paths PROVE FifoAt(p)
    BY DEF Fifo
  <2>1. /\ pc[p] \notin Executing
        /\ Len(issued[p]) = 0 /\ Len(answered[p]) = 0 /\ Len(queue[p]) = 0
    BY DEF Init, Executing
  <2>2. InHand(p) = 0
    BY <2>1 DEF InHand
  <2> QED
    BY <2>1, <2>2 DEF FifoAt
<1>2. TypeOK /\ JobStage /\ Lifecycle /\ Fifo /\ [Next]_vars => Fifo'
  <2> SUFFICES ASSUME TypeOK, JobStage, Lifecycle, Fifo, [Next]_vars,
                      NEW q \in Paths
               PROVE  FifoAt(q)'
    BY DEF Fifo
  <2>0. FifoAt(q)
    BY DEF Fifo
  <2>1. ASSUME NEW p \in Paths, Construct(p) \/ Interrupt(p) PROVE FifoAt(q)'
    <3>1. /\ comm'[q] = "deleted" <=> comm[q] = "deleted"
          /\ pc'[q] \in Executing <=> pc[q] \in Executing
          /\ UNCHANGED <<queue, issued, answered, job>>
      <4>1. pc \in [Paths -> Pcs]
            /\ comm \in [Paths -> {"absent", "alive", "joining", "deleted"}]
        BY DEF TypeOK
      <4> QED
        BY <2>1, <4>1 DEF Construct, Interrupt, Goto, Wake, Lifecycle, Executing,
             queueVars
    <3> QED
      BY <2>0, <3>1, FifoFrame
  <2>2. ASSUME NEW p \in Paths, NEW j \in Jobs, Put(p, j) PROVE FifoAt(q)'
    <3>1. CASE q = p
      BY <2>0, <2>2, <3>1, FifoPut
    <3>2. CASE q # p
      BY <2>0, <2>2, <3>2, FifoFrame DEF Put, Wake, TypeOK
    <3> QED
      BY <3>1, <3>2
  <2>3. ASSUME NEW p \in Paths, Joined(p) PROVE FifoAt(q)'
    <3>1. CASE q = p
      BY <2>3, <3>1 DEF Joined, TypeOK, FifoAt, Executing, threadVars
    <3>2. CASE q # p
      BY <2>0, <2>3, <3>2, FifoFrame DEF Joined, TypeOK, threadVars
    <3> QED
      BY <3>1, <3>2
  <2>4. ASSUME NEW p \in Paths, TakeJob(p) PROVE FifoAt(q)'
    <3>1. CASE q = p
      BY <2>0, <2>4, <3>1, FifoTake
    <3>2. CASE q # p
      BY <2>0, <2>4, <3>2, FifoFrame DEF TakeJob, Goto, TypeOK
    <3> QED
      BY <3>1, <3>2
  <2>5. ASSUME NEW p \in Paths, Answer(p) \/ PollInterrupted(p) PROVE FifoAt(q)'
    <3>1. CASE q = p /\ UNCHANGED <<answered, job>> /\ pc'[p] = "answer"
      BY <2>0, <2>5, <3>1, ReportStep, FifoFrame DEF Executing
    <3>2. CASE q = p /\ pc'[p] \notin Executing /\ \E v \in Verdicts : Report(p, v)
      BY <2>0, <2>5, <3>2, ReportStep, FifoReport
    <3>3. CASE q # p
      <4>1. /\ UNCHANGED <<comm, queue, issued>>
            /\ pc'[q] = pc[q]
        BY <2>5, <3>3, ReportStep
      <4>2. answered'[q] = answered[q] /\ job'[q] = job[q]
        <5>1. UNCHANGED <<answered, job>> \/ \E v \in Verdicts : Report(p, v)
          BY <2>5, ReportStep
        <5> QED
          BY <3>3, <5>1 DEF Report, TypeOK
      <4> QED
        BY <2>0, <4>1, <4>2, FifoFrame
    <3> QED
      BY <2>5, <3>1, <3>2, <3>3, ReportStep
  <2>6. ASSUME NEW p \in Paths, Quiet(p) PROVE FifoAt(q)'
    BY <2>0, <2>6, QuietStep, FifoFrame
  <2>7. CASE UNCHANGED vars \/ \E t \in Others : Other(t)
    BY <2>0, <2>7, FifoFrame DEF vars, Other, OtherLocks, OtherUnlocks, queueVars,
         threadVars
  <2> QED
    BY <2>1, <2>2, <2>3, <2>4, <2>5, <2>6, <2>7, StepKinds DEF Main
<1> QED
  BY <1>1, <1>2, TypedStages, LifecycleCorrect, PTL DEF Spec

\* A DeviceCommunicator implements the job service: first in, first out, one
\* verdict a job, nothing once the destructor has returned.
THEOREM ServiceImplemented == Spec => ImplementsService
<1>1. Init => Service!ServiceInit
  BY DEF Init, Service!ServiceInit
<1>2. TypeOK /\ JobStage /\ Lifecycle /\ Fifo /\ [Next]_vars
        => [Service!ServiceNext]_<<comm, issued, answered>>
  <2> SUFFICES ASSUME TypeOK, JobStage, Lifecycle, Fifo, [Next]_vars
               PROVE  [Service!ServiceNext]_<<comm, issued, answered>>
    OBVIOUS
  <2>1. ASSUME NEW p \in Paths, Construct(p) PROVE Service!Create(p)
    BY <2>1 DEF Construct, Service!Create, queueVars
  <2>2. ASSUME NEW p \in Paths, NEW j \in Jobs, Put(p, j) PROVE Service!Submit(p, j)
    BY <2>2 DEF Put, Service!Submit, Unissued, Service!Unissued
  <2>3. ASSUME NEW p \in Paths, Interrupt(p) PROVE Service!BeginDelete(p)
    BY <2>3 DEF Interrupt, Service!BeginDelete, queueVars
  <2>4. ASSUME NEW p \in Paths, Joined(p) PROVE Service!EndDelete(p)
    BY <2>4 DEF Joined, Service!EndDelete, threadVars
  <2>5. ASSUME NEW p \in Paths, Answer(p) \/ PollInterrupted(p)
        PROVE  Service!Finish(p) \/ UNCHANGED <<comm, issued, answered>>
    <3>1. CASE UNCHANGED <<answered, job>>
      BY <2>5, <3>1, ReportStep
    <3>2. ASSUME NEW v \in Verdicts, Report(p, v) PROVE Service!Finish(p)
      <4>1. /\ pc[p] \in Executing
            /\ UNCHANGED <<comm, issued>>
        BY <2>5, ReportStep
      <4>2. comm[p] \in {"alive", "joining"}
        BY <4>1 DEF Lifecycle, TypeOK, Executing
      <4>3. /\ Len(answered[p]) < Len(issued[p])
            /\ job[p] = issued[p][Len(answered[p]) + 1]
        BY <4>1 DEF Fifo, FifoAt
      <4> QED
        BY <3>2, <4>1, <4>2, <4>3 DEF Report, Service!Finish
    <3> QED
      BY <2>5, <3>1, <3>2, ReportStep
  <2>6. ASSUME NEW p \in Paths, TakeJob(p) \/ Quiet(p)
        PROVE  UNCHANGED <<comm, issued, answered>>
    BY <2>6, QuietStep DEF TakeJob
  <2>7. CASE UNCHANGED vars \/ \E t \in Others : Other(t)
    BY <2>7 DEF vars, Other, OtherLocks, OtherUnlocks, queueVars, threadVars
  <2> QED
    BY <2>1, <2>2, <2>3, <2>4, <2>5, <2>6, <2>7, StepKinds
       DEF Main, Service!ServiceNext
<1> QED
  BY <1>1, <1>2, TypedStages, LifecycleCorrect, FifoCorrect, PTL
     DEF Spec, ImplementsService, Service!ServiceSpec, Service!serviceVars

-----------------------------------------------------------------------------
(* Requests and replies stay in step.                                      *)

\* No device that is out of reach of an open handle has anything to say.
LEMMA SilenceCorrect == Spec => []DeadIsSilent
<1>1. Init => DeadIsSilent
  BY DEF Init, DeadIsSilent
<1>2. TypeOK /\ JobStage /\ DeadIsSilent /\ [Next]_vars => DeadIsSilent'
  <2> SUFFICES ASSUME TypeOK, JobStage, DeadIsSilent, [Next]_vars
               PROVE  DeadIsSilent'
    OBVIOUS
  <2>0. /\ pc \in [Paths -> Pcs]
        /\ channel \in [Paths -> BOOLEAN]
        /\ live \in [Paths -> BOOLEAN]
        /\ requests \in [Paths -> Seq(Calls)]
        /\ replies \in [Paths -> Seq(Calls)]
    BY DEF TypeOK
  <2> USE DEF DeadIsSilent, queueVars, threadVars, handleVars, deviceVars
  <2>1. ASSUME NEW p \in Paths, Main(p) PROVE DeadIsSilent'
    BY <2>0, <2>1 DEF Main, Construct, Put, Interrupt, Joined, Goto, Wake
  <2>2. ASSUME NEW p \in Paths, Consume(p) PROVE DeadIsSilent'
    <3>1. CASE TakeJob(p) \/ TakeWait(p) \/ Resume(p) \/ PollInterrupted(p)
      BY <2>0, <3>1 DEF TakeJob, TakeWait, Resume, PollInterrupted, Goto, Throw
    <3>2. CASE Acquire(p) \/ UnwindChannel(p) \/ ThreadEnds(p)
      BY <2>0, <3>2 DEF Acquire, UnwindChannel, ThreadEnds, Goto, HidClose
    <3>3. CASE VisitClose(p) \/ VisitOpen(p) \/ Prepare(p) \/ PollAgain(p)
               \/ Answer(p)
      BY <2>0, <3>3 DEF VisitClose, VisitOpen, Prepare, PollAgain, Answer, Goto,
           Conclude
    <3>4. CASE HidOpen(p) \/ HidPurge(p) \/ HidRead(p) \/ HidError(p)
               \/ CloseChannel(p)
      BY <2>0, <3>4 DEF HidOpen, HidPurge, HidRead, HidError, CloseChannel, Goto,
           Conclude, HidClose
    <3>5. CASE HidWrite(p)
      BY <2>0, <3>5 DEF HidWrite, Goto
    <3> QED
      BY <2>2, <3>1, <3>2, <3>3, <3>4, <3>5 DEF Consume
  <2>3. ASSUME NEW p \in Paths, TimeOut(p) \/ SpuriousWakeup(p)
        PROVE  DeadIsSilent'
    BY <2>0, <2>3 DEF TimeOut, SpuriousWakeup, Goto, Conclude
  <2>4. ASSUME NEW p \in Paths, Device(p) PROVE DeadIsSilent'
    BY <2>0, <2>4 DEF Device, DeviceReplies, Receive, Unplug, Plug
  <2>5. ASSUME NEW t \in Others, Other(t) PROVE DeadIsSilent'
    BY <2>5 DEF Other, OtherLocks, OtherUnlocks
  <2>6. CASE UNCHANGED vars
    BY <2>6 DEF vars
  <2> QED
    BY <2>1, <2>2, <2>3, <2>4, <2>5, <2>6 DEF Next
<1> QED
  BY <1>1, <1>2, TypedStages, PTL DEF Spec

\* Nothing is on its way to, in, or back from the device.
Idle(p) == requests[p] = <<>> /\ replies[p] = <<>> /\ inbox[p] = <<>>

\* The lengths that make up Underway are numbers.
LEMMA LineTypes ==
  ASSUME TypeOK, NEW p \in Paths
  PROVE  /\ Len(requests[p]) \in Nat /\ Len(replies[p]) \in Nat
         /\ Len(inbox[p]) \in Nat
         /\ Len(requests[p]) = 0 <=> requests[p] = <<>>
         /\ Len(replies[p]) = 0 <=> replies[p] = <<>>
         /\ Len(inbox[p]) = 0 <=> inbox[p] = <<>>
  BY EmptySeq, LenProperties DEF TypeOK

\* A thread that waits for no reply has none coming, as long as none is given up.
LEMMA NotWaitingIdle ==
  ASSUME TypeOK, NEW p \in Paths, InStepAt(p), ~GivenUp(p),
         pc[p] \notin {"read", "polled"}
  PROVE  Idle(p)
<1> DEFINE a == Len(requests[p])
<1> DEFINE b == Len(replies[p])
<1> DEFINE c == Len(inbox[p])
<1>1. a + b + c <= 0
  BY DEF InStepAt, Underway
<1>2. a \in Nat /\ b \in Nat /\ c \in Nat
  BY LineTypes
<1>3. a = 0 /\ b = 0 /\ c = 0
  <2> HIDE DEF a, b, c
  <2> QED
    BY <1>1, <1>2
<1> QED
  BY <1>3, LineTypes DEF Idle

\* An idle line is in step, if what the visitor is about to report is.
LEMMA IdleInStep ==
  ASSUME NEW p \in Paths, Idle(p)',
         pc'[p] = "answer" /\ job'[p] \in Calls /\ verdict'[p].kind = "success"
           => verdict'[p].info = job'[p]
  PROVE  InStepAt(p)'
<1>1. Underway(p)' = 0
  BY DEF Idle, Underway
<1>2. /\ DOMAIN requests'[p] = {} /\ DOMAIN replies'[p] = {}
      /\ DOMAIN inbox'[p] = {}
  BY DEF Idle
<1> QED
  BY <1>1, <1>2 DEF InStepAt

\* What is given up and what is not.
LEMMA GaveUpKinds ==
  /\ \A v : v \in GaveUp => v.kind # "success"
  /\ Lost \in GaveUp /\ Error("ReadTimeout") \in GaveUp
  /\ Error("WriteError") \in GaveUp /\ Error("HastyReadError") \in GaveUp
  /\ Error("OpenError") \notin GaveUp /\ Error("ReadError") \notin GaveUp
  /\ Error("MessageError") \notin GaveUp /\ Error("InvokeError") \notin GaveUp
  /\ \A j : Success(j) \notin GaveUp
  /\ \A j : Success(j).kind = "success" /\ Success(j).info = j
  /\ \A c : Error(c).kind = "error"
  BY DEF GaveUp, Lost, Error, Success

\* What does not concern a path, or only moves its thread from one stage to
\* another of the same kind, leaves it in step.
LEMMA InStepFrame ==
  ASSUME NEW q \in Paths, InStepAt(q),
         \/ pc'[q] = pc[q]
         \/ {pc[q], pc'[q]} \subseteq {"read", "polled"}
         \/ {pc[q], pc'[q]} \cap {"read", "polled", "hid_error", "answer"} = {},
         job'[q] = job[q], verdict'[q] = verdict[q],
         answered'[q] = answered[q], requests'[q] = requests[q],
         replies'[q] = replies[q], inbox'[q] = inbox[q]
  PROVE  InStepAt(q)'
<1>1. /\ pc'[q] \in {"read", "polled"} <=> pc[q] \in {"read", "polled"}
      /\ pc'[q] \in {"hid_error", "answer"} <=> pc[q] \in {"hid_error", "answer"}
      /\ pc'[q] = "answer" <=> pc[q] = "answer"
  OBVIOUS
<1>2. GivenUp(q)' <=> GivenUp(q)
  BY <1>1 DEF GivenUp
<1>3. Underway(q)' = Underway(q)
  BY DEF Underway
<1> QED
  BY <1>1, <1>2, <1>3 DEF InStepAt

\* What was given up stays so while the visitor goes on.
LEMMA GivenUpStays ==
  ASSUME NEW p \in Paths, answered'[p] = answered[p],
         \/ pc[p] \notin {"hid_error", "answer"}
         \/ verdict[p] \notin GaveUp
         \/ pc'[p] \in {"hid_error", "answer"} /\ verdict'[p] = verdict[p]
  PROVE  ~GivenUp(p)' => ~GivenUp(p)
  BY DEF GivenUp

\* A thread that waits for no reply stays in step if it sends no request.
LEMMA StaysIdle ==
  ASSUME TypeOK, NEW p \in Paths, InStepAt(p), pc[p] \notin {"read", "polled"},
         ~GivenUp(p)' => ~GivenUp(p),
         requests'[p] = requests[p],
         replies'[p] = replies[p] \/ replies'[p] = <<>>,
         inbox'[p] = inbox[p] \/ inbox'[p] = <<>>,
         pc'[p] = "answer" /\ job'[p] \in Calls /\ verdict'[p].kind = "success"
           /\ ~GivenUp(p)'
           => verdict'[p].info = job'[p]
  PROVE  InStepAt(p)'
<1>1. CASE GivenUp(p)'
  BY <1>1 DEF InStepAt
<1>2. CASE ~GivenUp(p)'
  <2>1. Idle(p)
    BY <1>2, NotWaitingIdle
  <2>2. Idle(p)'
    BY <2>1 DEF Idle
  <2> QED
    BY <1>2, <2>2, IdleInStep
<1> QED
  BY <1>1, <1>2

\* Moving the head of one line to the end of the next mixes nothing up.
LEMMA MoveOn ==
  ASSUME NEW S, NEW r \in Seq(S), NEW s \in Seq(S), r # <<>>, NEW j,
         \A k \in DOMAIN r : r[k] = j, \A k \in DOMAIN s : s[k] = j
  PROVE  /\ \A k \in DOMAIN Tail(r) : Tail(r)[k] = j
         /\ \A k \in DOMAIN Append(s, Head(r)) : Append(s, Head(r))[k] = j
         /\ Len(Tail(r)) \in Nat /\ Len(r) = Len(Tail(r)) + 1
         /\ Len(s) \in Nat /\ Len(Append(s, Head(r))) = Len(s) + 1
<1>1. /\ Tail(r) \in Seq(S) /\ Len(Tail(r)) = Len(r) - 1 /\ Len(r) \in Nat
      /\ Len(r) > 0
      /\ \A k \in 1 .. Len(Tail(r)) : Tail(r)[k] = r[k + 1]
  BY HeadTailProperties, EmptySeq, LenProperties
<1>2. /\ Append(s, Head(r)) \in Seq(S)
      /\ Len(Append(s, Head(r))) = Len(s) + 1 /\ Len(s) \in Nat
      /\ \A k \in 1 .. Len(s) : Append(s, Head(r))[k] = s[k]
      /\ Append(s, Head(r))[Len(s) + 1] = Head(r)
  <2>1. Head(r) \in S
    BY HeadTailProperties
  <2> QED
    BY <2>1, AppendProperties, LenProperties
<1>3. Head(r) = j
  BY <1>1, LenProperties
<1>4. /\ DOMAIN r = 1 .. Len(r) /\ DOMAIN s = 1 .. Len(s)
      /\ DOMAIN Tail(r) = 1 .. Len(Tail(r))
      /\ DOMAIN Append(s, Head(r)) = 1 .. Len(Append(s, Head(r)))
  BY <1>1, <1>2, LenProperties
<1>5. \A k \in 1 .. Len(Tail(r)) : k + 1 \in 1 .. Len(r)
  BY <1>1
<1>6. \A k \in 1 .. Len(Append(s, Head(r))) : k \in 1 .. Len(s) \/ k = Len(s) + 1
  BY <1>2
<1> QED
  BY <1>1, <1>2, <1>3, <1>4, <1>5, <1>6

\* The device and its link keep a line in step, whatever they do to it.
LEMMA DeviceInStep ==
  ASSUME TypeOK, NEW p \in Paths, InStepAt(p), Device(p)
  PROVE  InStepAt(p)'
<1>0. /\ requests \in [Paths -> Seq(Calls)] /\ requests[p] \in Seq(Calls)
      /\ replies \in [Paths -> Seq(Calls)] /\ replies[p] \in Seq(Calls)
      /\ inbox \in [Paths -> Seq(Calls)] /\ inbox[p] \in Seq(Calls)
  BY DEF TypeOK
<1>1. UNCHANGED <<pc, job, verdict, answered>>
  BY DEF Device, DeviceReplies, Receive, Unplug, Plug, threadVars
<1>2. GivenUp(p)' <=> GivenUp(p)
  BY <1>1 DEF GivenUp
<1> SUFFICES ASSUME ~GivenUp(p) PROVE InStepAt(p)'
  BY <1>2 DEF InStepAt
<1>3. /\ Len(requests[p]) + Len(replies[p]) + Len(inbox[p])
           <= IF pc[p] \in {"read", "polled"} THEN 1 ELSE 0
      /\ \A k \in DOMAIN requests[p] : requests[p][k] = job[p]
      /\ \A k \in DOMAIN replies[p] : replies[p][k] = job[p]
      /\ \A k \in DOMAIN inbox[p] : inbox[p][k] = job[p]
  BY DEF InStepAt, Underway
<1>4. CASE DeviceReplies(p)
  <2>1. /\ requests[p] # <<>> /\ requests'[p] = Tail(requests[p])
        /\ replies'[p] = Append(replies[p], Head(requests[p]))
        /\ inbox'[p] = inbox[p]
    BY <1>0, <1>4 DEF DeviceReplies, handleVars
  <2>2. /\ \A k \in DOMAIN requests'[p] : requests'[p][k] = job[p]
        /\ \A k \in DOMAIN replies'[p] : replies'[p][k] = job[p]
        /\ Len(requests'[p]) \in Nat /\ Len(requests[p]) = Len(requests'[p]) + 1
        /\ Len(replies[p]) \in Nat /\ Len(replies'[p]) = Len(replies[p]) + 1
    BY <1>0, <1>3, <2>1, MoveOn
  <2>3. Underway(p)' = Underway(p)
    <3> DEFINE a == Len(requests'[p])
    <3> DEFINE b == Len(replies[p])
    <3> DEFINE c == Len(inbox[p])
    <3>1. a \in Nat /\ b \in Nat /\ c \in Nat
      BY <2>2, LineTypes
    <3>2. (a + 1) + b + c = a + (b + 1) + c
      <4> HIDE DEF a, b, c
      <4> QED
        BY <3>1
    <3> QED
      BY <2>1, <2>2, <3>2 DEF Underway
  <2> QED
    BY <1>1, <1>3, <2>1, <2>2, <2>3 DEF InStepAt
<1>5. CASE Receive(p)
  <2>1. /\ replies[p] # <<>> /\ replies'[p] = Tail(replies[p])
        /\ inbox'[p] = Append(inbox[p], Head(replies[p]))
        /\ requests'[p] = requests[p]
    BY <1>0, <1>5 DEF Receive
  <2>2. /\ \A k \in DOMAIN replies'[p] : replies'[p][k] = job[p]
        /\ \A k \in DOMAIN inbox'[p] : inbox'[p][k] = job[p]
        /\ Len(replies'[p]) \in Nat /\ Len(replies[p]) = Len(replies'[p]) + 1
        /\ Len(inbox[p]) \in Nat /\ Len(inbox'[p]) = Len(inbox[p]) + 1
    BY <1>0, <1>3, <2>1, MoveOn
  <2>3. Underway(p)' = Underway(p)
    <3> DEFINE a == Len(requests[p])
    <3> DEFINE b == Len(replies'[p])
    <3> DEFINE c == Len(inbox[p])
    <3>1. a \in Nat /\ b \in Nat /\ c \in Nat
      BY <2>2, LineTypes
    <3>2. a + (b + 1) + c = a + b + (c + 1)
      <4> HIDE DEF a, b, c
      <4> QED
        BY <3>1
    <3> QED
      BY <2>1, <2>2, <3>2 DEF Underway
  <2> QED
    BY <1>1, <1>3, <2>1, <2>2, <2>3 DEF InStepAt
<1>6. CASE Unplug(p)
  <2>1. /\ requests'[p] = <<>> /\ replies'[p] = <<>> /\ inbox'[p] = inbox[p]
    BY <1>0, <1>6 DEF Unplug
  <2>2. Underway(p)' <= IF pc[p] \in {"read", "polled"} THEN 1 ELSE 0
    <3> DEFINE a == Len(requests[p])
    <3> DEFINE b == Len(replies[p])
    <3> DEFINE c == Len(inbox[p])
    <3> DEFINE n == IF pc[p] \in {"read", "polled"} THEN 1 ELSE 0
    <3>1. a \in Nat /\ b \in Nat /\ c \in Nat /\ n \in Nat
      BY LineTypes
    <3>2. a + b + c <= n
      BY <1>3
    <3>3. 0 + 0 + c <= n
      <4> HIDE DEF a, b, c, n
      <4> QED
        BY <3>1, <3>2
    <3> QED
      BY <2>1, <3>3 DEF Underway
  <2> QED
    BY <1>1, <1>3, <2>1, <2>2 DEF InStepAt
<1>7. CASE Plug(p)
  BY <1>1, <1>7, InStepFrame DEF Plug, handleVars
<1> QED
  BY <1>4, <1>5, <1>6, <1>7 DEF Device

\* What a report leaves in the history, for the properties that read it.
LEMMA Reported ==
  ASSUME TypeOK, NEW p \in Paths, job[p] \in Jobs, NEW v \in Verdicts, Report(p, v)
  PROVE  /\ DOMAIN answered[p] = 1 .. Len(answered[p]) /\ Len(answered[p]) \in Nat
         /\ DOMAIN answered'[p] = 1 .. Len(answered[p]) + 1
         /\ \A k \in DOMAIN answered[p] : answered'[p][k] = answered[p][k]
         /\ answered'[p][Len(answered[p]) + 1] = [job |-> job[p], verdict |-> v]
         /\ job'[p] = NoJob
         /\ \A q \in Paths : q # p => answered'[q] = answered[q] /\ job'[q] = job[q]
<1>1. /\ answered \in [Paths -> Seq([job : Jobs, verdict : Verdicts])]
      /\ answered[p] \in Seq([job : Jobs, verdict : Verdicts])
      /\ job \in [Paths -> Jobs \cup {NoJob}]
  BY DEF TypeOK
<1>2. [job |-> job[p], verdict |-> v] \in [job : Jobs, verdict : Verdicts]
  OBVIOUS
<1>3. answered'[p] = Append(answered[p], [job |-> job[p], verdict |-> v])
  BY <1>1 DEF Report
<1>4. /\ answered'[p] \in Seq([job : Jobs, verdict : Verdicts])
      /\ Len(answered'[p]) = Len(answered[p]) + 1
      /\ \A k \in 1 .. Len(answered[p]) : answered'[p][k] = answered[p][k]
      /\ answered'[p][Len(answered[p]) + 1] = [job |-> job[p], verdict |-> v]
  BY <1>1, <1>2, <1>3, AppendProperties
<1>5. job'[p] = NoJob
      /\ \A q \in Paths : q # p => answered'[q] = answered[q] /\ job'[q] = job[q]
  BY <1>1 DEF Report
<1> QED
  BY <1>1, <1>4, <1>5, LenProperties

\* A report keeps what was given up, and gives up what it says.
LEMMA ReportedGivenUp ==
  ASSUME TypeOK, NEW p \in Paths, job[p] \in Jobs, NEW v \in Verdicts, Report(p, v)
  PROVE  /\ v \in GaveUp => GivenUp(p)'
         /\ (\E i \in DOMAIN answered[p] : answered[p][i].verdict \in GaveUp)
              => GivenUp(p)'
<1>1. /\ DOMAIN answered[p] \subseteq DOMAIN answered'[p]
      /\ Len(answered[p]) + 1 \in DOMAIN answered'[p]
      /\ \A k \in DOMAIN answered[p] : answered'[p][k] = answered[p][k]
      /\ answered'[p][Len(answered[p]) + 1].verdict = v
  <2> DEFINE n == Len(answered[p])
  <2>1. /\ DOMAIN answered[p] = 1 .. n /\ n \in Nat
        /\ DOMAIN answered'[p] = 1 .. n + 1
        /\ \A k \in DOMAIN answered[p] : answered'[p][k] = answered[p][k]
        /\ answered'[p][n + 1] = [job |-> job[p], verdict |-> v]
    BY Reported
  <2>2. 1 .. n \subseteq 1 .. n + 1 /\ n + 1 \in 1 .. n + 1
    <3> HIDE DEF n
    <3> QED
      BY <2>1
  <2> QED
    BY <2>1, <2>2
<1> QED
  BY <1>1 DEF GivenUp

\* One request goes out and its thread waits for the reply, or no request
\* does, or only some of it and the call gives up.
LEMMA WriteInStep ==
  ASSUME TypeOK, JobStage, NEW p \in Paths, InStepAt(p), HidWrite(p)
  PROVE  InStepAt(p)'
<1>0. /\ pc \in [Paths -> Pcs] /\ verdict \in [Paths -> Verdicts]
      /\ requests \in [Paths -> Seq(Calls)] /\ requests[p] \in Seq(Calls)
  BY DEF TypeOK
<1>1. /\ pc[p] = "write" /\ job[p] \in Calls
      /\ UNCHANGED <<job, answered, inbox, replies>>
      /\ requests'[p] = requests[p] \/ requests'[p] = Append(requests[p], job[p])
      /\ \/ pc'[p] = "read"
         \/ pc'[p] = "hid_error" /\ verdict'[p] \in GaveUp
  BY <1>0, GaveUpKinds DEF HidWrite, JobStage, Goto
<1>2. CASE pc'[p] = "hid_error" /\ verdict'[p] \in GaveUp
  BY <1>2 DEF InStepAt, GivenUp
<1>3. CASE pc'[p] = "read"
  <2> SUFFICES ASSUME ~GivenUp(p)' PROVE InStepAt(p)'
    BY DEF InStepAt
  <2>1. Idle(p)
    BY <1>1, GivenUpStays, NotWaitingIdle
  <2>2. CASE requests'[p] = requests[p]
    <3>1. Idle(p)'
      BY <1>1, <2>1, <2>2 DEF Idle
    <3> QED
      BY <1>3, <3>1, IdleInStep
  <2>3. CASE requests'[p] = Append(requests[p], job[p])
    <3>1. /\ requests'[p] = <<job[p]>>
          /\ replies'[p] = <<>> /\ inbox'[p] = <<>>
      BY <1>1, <2>1, <2>3 DEF Idle
    <3>2. Underway(p)' = 1
      BY <3>1 DEF Underway
    <3>3. \A k \in DOMAIN requests'[p] : requests'[p][k] = job'[p]
      BY <1>1, <3>1
    <3>4. DOMAIN replies'[p] = {} /\ DOMAIN inbox'[p] = {}
      BY <3>1
    <3> QED
      BY <1>3, <3>2, <3>3, <3>4 DEF InStepAt
  <2> QED
    BY <1>1, <2>2, <2>3
<1> QED
  BY <1>1, <1>2, <1>3

\* The reply taken from the handle is the one that was waited for, and the
\* only one; a dead handle with nothing received has none to come, and one that
\* is not asked again for what it has received was given up.
LEMMA ReadInStep ==
  ASSUME TypeOK, JobStage, DeadIsSilent, NEW p \in Paths, InStepAt(p), HidRead(p)
  PROVE  InStepAt(p)'
<1>0. /\ pc \in [Paths -> Pcs] /\ verdict \in [Paths -> Verdicts]
      /\ inbox \in [Paths -> Seq(Calls)] /\ inbox[p] \in Seq(Calls)
  BY DEF TypeOK
<1>1. /\ pc[p] = "read" /\ channel[p]
      /\ UNCHANGED <<job, answered, requests, replies, live>>
  BY DEF HidRead, JobStage, deviceVars
<1>2. ~GivenUp(p)' => ~GivenUp(p)
  BY <1>1, GivenUpStays
<1>3. CASE inbox[p] # <<>> /\ pc'[p] = "answer"
  <2>1. /\ inbox'[p] = Tail(inbox[p]) /\ pc'[p] = "answer"
        /\ verdict'[p] \in {Success(Head(inbox[p])), Error("MessageError")}
    BY <1>0, <1>3 DEF HidRead, Goto, Conclude
  <2> SUFFICES ASSUME ~GivenUp(p)' PROVE InStepAt(p)'
    BY DEF InStepAt
  <2> DEFINE a == Len(requests[p])
  <2> DEFINE b == Len(replies[p])
  <2> DEFINE c == Len(inbox[p])
  <2>2. a + b + c <= 1 /\ \A k \in DOMAIN inbox[p] : inbox[p][k] = job[p]
    BY <1>1, <1>2 DEF InStepAt, Underway
  <2>3. a \in Nat /\ b \in Nat /\ c \in Nat /\ c # 0
    BY <1>3, LineTypes
  <2>4. a = 0 /\ b = 0 /\ c = 1
    <3> HIDE DEF a, b, c
    <3> QED
      BY <2>2, <2>3
  <2>5. Head(inbox[p]) = job[p] /\ Tail(inbox[p]) = <<>>
    <3>1. Len(Tail(inbox[p])) = 0 /\ Tail(inbox[p]) \in Seq(Calls)
      BY <1>0, <1>3, <2>4, HeadTailProperties
    <3>2. 1 \in DOMAIN inbox[p] /\ Head(inbox[p]) = inbox[p][1]
      BY <1>0, <1>3, <2>4, LenProperties
    <3> QED
      BY <2>2, <3>1, <3>2, EmptySeq
  <2>6. Idle(p)'
    BY <1>1, <2>1, <2>4, <2>5, LineTypes DEF Idle
  <2>7. verdict'[p].kind = "success" => verdict'[p].info = job'[p]
    BY <1>1, <2>1, <2>5, GaveUpKinds
  <2> QED
    BY <2>6, <2>7, IdleInStep
<1>4. CASE inbox[p] = <<>> /\ pc'[p] \in {"read", "polled"} /\ UNCHANGED verdict
  <2>1. inbox'[p] = inbox[p]
    BY <1>4 DEF HidRead
  <2> QED
    BY <1>1, <1>4, <2>1, InStepFrame
<1>5. CASE inbox[p] = <<>> /\ ~live[p] /\ pc'[p] = "hid_error"
  <2>1. inbox'[p] = inbox[p]
    BY <1>5 DEF HidRead
  <2>2. Idle(p)'
    BY <1>1, <1>5, <2>1 DEF DeadIsSilent, Idle
  <2> QED
    BY <1>5, <2>2, IdleInStep
<1>6. CASE verdict'[p] = Error("HastyReadError") /\ pc'[p] = "hid_error"
  <2>1. GivenUp(p)'
    BY <1>6, GaveUpKinds DEF GivenUp
  <2> QED
    BY <2>1 DEF InStepAt
<1> QED
  BY <1>0, <1>3, <1>4, <1>5, <1>6 DEF HidRead, Goto, Conclude

\* A finished visit leaves an idle line, or a line that was given up.
LEMMA ReportInStep ==
  ASSUME TypeOK, JobStage, NEW p \in Paths, InStepAt(p),
         Answer(p) \/ PollInterrupted(p)
  PROVE  InStepAt(p)'
<1>0. /\ pc \in [Paths -> Pcs] /\ verdict \in [Paths -> Verdicts]
      /\ verdict[p] \in Verdicts
  BY DEF TypeOK
<1>1. job[p] \in Jobs
  BY DEF Answer, PollInterrupted, JobStage, Executing
<1>2. CASE PollInterrupted(p)
  <2>1. GivenUp(p)'
    BY <1>1, <1>2, VerdictTypes, GaveUpKinds, ReportedGivenUp DEF PollInterrupted
  <2> QED
    BY <2>1 DEF InStepAt
<1>3. CASE Answer(p)
  <2>1. /\ pc[p] = "answer"
        /\ UNCHANGED <<requests, replies, inbox>>
    BY <1>3 DEF Answer, handleVars, deviceVars
  <2>2. CASE Report(p, verdict[p]) /\ Goto(p, "take")
    <3>1. ~GivenUp(p)' => ~GivenUp(p)
      BY <1>0, <1>1, <2>2, ReportedGivenUp DEF GivenUp
    <3>2. pc'[p] = "take"
      BY <1>0, <2>2 DEF Goto
    <3> QED
      BY <2>1, <3>1, <3>2, StaysIdle
  <2>3. CASE Report(p, Lost)
    <3>1. GivenUp(p)'
      BY <1>1, <2>3, VerdictTypes, GaveUpKinds, ReportedGivenUp
    <3> QED
      BY <3>1 DEF InStepAt
  <2>4. CASE /\ verdict[p].kind = "success"
             /\ Conclude(p, Error("InvokeError"))
             /\ UNCHANGED <<answered, job>>
    <3>1. ~GivenUp(p)' => ~GivenUp(p)
      BY <2>4, GivenUpStays, GaveUpKinds
    <3>2. verdict'[p].kind = "error"
      BY <1>0, <2>4, GaveUpKinds DEF Conclude
    <3> QED
      BY <2>1, <3>1, <3>2, StaysIdle
  <2> QED
    BY <1>3, <2>2, <2>3, <2>4 DEF Answer
<1> QED
  BY <1>2, <1>3

\* The other steps of a consumer thread send nothing and wait for nothing, go
\* on waiting, or give up.
LEMMA VisitInStep ==
  ASSUME TypeOK, JobStage, NEW p \in Paths, InStepAt(p),
         \/ TakeJob(p) \/ TakeWait(p) \/ Resume(p) \/ SpuriousWakeup(p)
         \/ Acquire(p) \/ VisitClose(p) \/ VisitOpen(p) \/ HidOpen(p)
         \/ HidPurge(p) \/ Prepare(p) \/ PollAgain(p) \/ TimeOut(p)
         \/ HidError(p) \/ CloseChannel(p) \/ UnwindChannel(p) \/ ThreadEnds(p)
  PROVE  InStepAt(p)'
<1>0. /\ pc \in [Paths -> Pcs] /\ verdict \in [Paths -> Verdicts]
      /\ replies \in [Paths -> Seq(Calls)] /\ inbox \in [Paths -> Seq(Calls)]
  BY DEF TypeOK
<1> USE DEF queueVars, threadVars, handleVars, deviceVars
<1>1. CASE \/ TakeWait(p) \/ Resume(p) \/ SpuriousWakeup(p) \/ Acquire(p)
           \/ PollAgain(p) \/ ThreadEnds(p)
  <2>1. /\ \/ pc'[p] = pc[p]
           \/ {pc[p], pc'[p]} \subseteq {"read", "polled"}
           \/ {pc[p], pc'[p]} \cap {"read", "polled", "hid_error", "answer"} = {}
        /\ UNCHANGED <<job, verdict, answered, requests, replies, inbox>>
    BY <1>0, <1>1 DEF TakeWait, Resume, SpuriousWakeup, Acquire, PollAgain,
         ThreadEnds, Goto, Throw
  <2> QED
    BY <2>1, InStepFrame
<1>2. CASE TimeOut(p)
  <2>1. GivenUp(p)'
    BY <1>0, <1>2, GaveUpKinds DEF TimeOut, Conclude, Goto, GivenUp
  <2> QED
    BY <2>1 DEF InStepAt
<1>3. CASE \/ TakeJob(p) \/ VisitClose(p) \/ VisitOpen(p) \/ HidOpen(p)
           \/ HidPurge(p) \/ Prepare(p) \/ CloseChannel(p) \/ UnwindChannel(p)
  <2>1. /\ pc[p] \notin {"read", "polled", "hid_error", "answer"}
        /\ answered'[p] = answered[p]
        /\ requests'[p] = requests[p]
        /\ replies'[p] = replies[p] \/ replies'[p] = <<>>
        /\ inbox'[p] = inbox[p] \/ inbox'[p] = <<>>
    BY <1>0, <1>3 DEF TakeJob, VisitClose, VisitOpen, HidOpen, HidPurge, Prepare,
         CloseChannel, UnwindChannel, HidClose
  <2>2. pc'[p] = "answer" =>
          \/ verdict'[p] = Success(NoJob) /\ job'[p] \notin Calls
          \/ verdict'[p].kind = "error"
    <3>1. CASE VisitClose(p) \/ CloseChannel(p)
      BY <1>0, <3>1, JobKinds DEF VisitClose, CloseChannel, Goto, Conclude,
           JobStage, Calls, Jobs
    <3>2. CASE VisitOpen(p) \/ HidPurge(p)
      BY <1>0, <3>2, JobKinds DEF VisitOpen, HidPurge, Goto, Conclude, Calls, Jobs
    <3>3. CASE TakeJob(p) \/ HidOpen(p) \/ Prepare(p) \/ UnwindChannel(p)
      BY <1>0, <3>3, GaveUpKinds DEF TakeJob, HidOpen, Prepare, UnwindChannel,
           HidClose, Goto, Conclude
    <3> QED
      BY <1>3, <3>1, <3>2, <3>3
  <2>3. ~GivenUp(p)' => ~GivenUp(p)
    BY <2>1, GivenUpStays
  <2> QED
    BY <2>1, <2>2, <2>3, StaysIdle, GaveUpKinds
<1>4. CASE HidError(p)
  <2>1. /\ pc[p] = "hid_error" /\ pc'[p] = "answer"
        /\ UNCHANGED <<job, verdict, answered, requests, replies, inbox>>
    BY <1>0, <1>4 DEF HidError, Goto
  <2>2. verdict'[p].kind = "error"
    BY <2>1, GaveUpKinds DEF JobStage
  <2>3. ~GivenUp(p)' => ~GivenUp(p)
    BY <2>1, GivenUpStays
  <2> QED
    BY <2>1, <2>2, <2>3, StaysIdle
<1> QED
  BY <1>1, <1>2, <1>3, <1>4

\* A step on one path does nothing to the conversation on another.
LEMMA OtherPaths ==
  ASSUME TypeOK, NEW p \in Paths, NEW q \in Paths, q # p,
         Main(p) \/ Consume(p) \/ TimeOut(p) \/ SpuriousWakeup(p) \/ Device(p)
  PROVE  /\ pc'[q] = pc[q] /\ job'[q] = job[q] /\ verdict'[q] = verdict[q]
         /\ answered'[q] = answered[q] /\ requests'[q] = requests[q]
         /\ replies'[q] = replies[q] /\ inbox'[q] = inbox[q]
<1>0. /\ pc \in [Paths -> Pcs] /\ verdict \in [Paths -> Verdicts]
      /\ job \in [Paths -> Jobs \cup {NoJob}]
      /\ answered \in [Paths -> Seq([job : Jobs, verdict : Verdicts])]
      /\ requests \in [Paths -> Seq(Calls)] /\ replies \in [Paths -> Seq(Calls)]
      /\ inbox \in [Paths -> Seq(Calls)]
  BY DEF TypeOK
<1> USE DEF queueVars, threadVars, handleVars, deviceVars
<1>1. CASE Main(p)
  BY <1>0, <1>1 DEF Main, Construct, Put, Interrupt, Joined, Goto, Wake
<1>2. CASE TakeJob(p) \/ TakeWait(p) \/ Resume(p) \/ Acquire(p)
           \/ PollInterrupted(p) \/ SpuriousWakeup(p) \/ TimeOut(p)
  BY <1>0, <1>2 DEF TakeJob, TakeWait, Resume, Acquire, PollInterrupted,
       SpuriousWakeup, TimeOut, Goto, Throw, Report, Conclude
<1>3. CASE VisitClose(p) \/ VisitOpen(p) \/ HidOpen(p) \/ HidPurge(p) \/ Prepare(p)
  BY <1>0, <1>3 DEF VisitClose, VisitOpen, HidOpen, HidPurge, Prepare, Goto,
       Conclude
<1>4. CASE HidWrite(p) \/ HidRead(p) \/ PollAgain(p) \/ HidError(p)
  BY <1>0, <1>4 DEF HidWrite, HidRead, PollAgain, HidError, Goto, Conclude
<1>5. CASE CloseChannel(p) \/ Answer(p) \/ UnwindChannel(p) \/ ThreadEnds(p)
  BY <1>0, <1>5 DEF CloseChannel, Answer, UnwindChannel, ThreadEnds, Goto,
       Conclude, Report, HidClose
<1>6. CASE Device(p)
  BY <1>0, <1>6 DEF Device, DeviceReplies, Receive, Unplug, Plug
<1> QED
  BY <1>1, <1>2, <1>3, <1>4, <1>5, <1>6 DEF Consume

\* Requests and replies stay in step on every path until a call is given up.
LEMMA ConversationCorrect == Spec => []InStep
<1>1. Init => InStep
  <2> SUFFICES ASSUME Init, NEW p \in Paths PROVE InStepAt(p)
    BY DEF InStep
  <2>1. /\ requests[p] = <<>> /\ replies[p] = <<>> /\ inbox[p] = <<>>
        /\ pc[p] = "none"
    BY DEF Init
  <2>2. Underway(p) = 0
    BY <2>1 DEF Underway
  <2> QED
    BY <2>1, <2>2 DEF InStepAt
<1>2. TypeOK /\ JobStage /\ DeadIsSilent /\ InStep /\ [Next]_vars => InStep'
  <2> SUFFICES ASSUME TypeOK, JobStage, DeadIsSilent, InStep, [Next]_vars,
                      NEW q \in Paths
               PROVE  InStepAt(q)'
    BY DEF InStep
  <2>0. InStepAt(q)
    BY DEF InStep
  <2>1. CASE Main(q)
    <3>1. /\ \/ pc'[q] = pc[q]
             \/ {pc[q], pc'[q]} \cap {"read", "polled", "hid_error", "answer"} = {}
          /\ UNCHANGED <<job, verdict, answered, requests, replies, inbox>>
      <4>1. pc \in [Paths -> Pcs]
        BY DEF TypeOK
      <4>2. CASE Construct(q)
        BY <4>1, <4>2 DEF Construct, Goto, handleVars, deviceVars, JobStage,
             Executing
      <4> QED
        BY <2>1, <4>1, <4>2 DEF Main, Put, Interrupt, Joined, Wake, threadVars,
             handleVars, deviceVars
    <3> QED
      BY <2>0, <3>1, InStepFrame
  <2>2. CASE Consume(q) \/ TimeOut(q) \/ SpuriousWakeup(q)
    <3>1. CASE HidWrite(q)
      BY <2>0, <3>1, WriteInStep
    <3>2. CASE HidRead(q)
      BY <2>0, <3>2, ReadInStep
    <3>3. CASE Answer(q) \/ PollInterrupted(q)
      BY <2>0, <3>3, ReportInStep
    <3> QED
      BY <2>0, <2>2, <3>1, <3>2, <3>3, VisitInStep DEF Consume
  <2>3. CASE Device(q)
    BY <2>0, <2>3, DeviceInStep
  <2>4. ASSUME NEW p \in Paths, q # p,
               Main(p) \/ Consume(p) \/ TimeOut(p) \/ SpuriousWakeup(p) \/ Device(p)
        PROVE  InStepAt(q)'
    BY <2>0, <2>4, OtherPaths, InStepFrame
  <2>5. CASE UNCHANGED vars \/ \E t \in Others : Other(t)
    BY <2>0, <2>5, InStepFrame DEF vars, Other, OtherLocks, OtherUnlocks,
         threadVars, handleVars, deviceVars
  <2> QED
    BY <2>1, <2>2, <2>3, <2>4, <2>5 DEF Next
<1> QED
  BY <1>1, <1>2, TypedStages, SilenceCorrect, PTL DEF Spec

\* A call that succeeds got the reply to itself, unless an earlier call on
\* its path gave up on an answer that may still come.
THEOREM StepCorrect == Spec => []InStepUntilGivenUp
<1>1. Init => InStepUntilGivenUp
  BY DEF Init, InStepUntilGivenUp
<1>2. TypeOK /\ JobStage /\ InStep /\ InStepUntilGivenUp /\ [Next]_vars
        => InStepUntilGivenUp'
  <2> SUFFICES ASSUME TypeOK, JobStage, InStep, InStepUntilGivenUp, [Next]_vars
               PROVE  InStepUntilGivenUp'
    OBVIOUS
  <2>1. ASSUME UNCHANGED answered PROVE InStepUntilGivenUp'
    BY <2>1 DEF InStepUntilGivenUp
  <2>2. ASSUME NEW p \in Paths, NEW v \in Verdicts, Report(p, v),
               job[p] \in Jobs, InStepAt(p),
               v.kind = "success" => v = verdict[p] /\ pc[p] = "answer"
        PROVE  InStepUntilGivenUp'
    <3> DEFINE n == Len(answered[p])
    <3>1. /\ DOMAIN answered[p] = 1 .. n /\ n \in Nat
          /\ DOMAIN answered'[p] = 1 .. n + 1
          /\ \A k \in DOMAIN answered[p] : answered'[p][k] = answered[p][k]
          /\ answered'[p][n + 1] = [job |-> job[p], verdict |-> v]
          /\ \A q \in Paths : q # p => answered'[q] = answered[q]
      BY <2>2, Reported
    <3>2. ASSUME NEW q \in Paths, NEW k \in DOMAIN answered'[q],
                 answered'[q][k].job \in Calls,
                 answered'[q][k].verdict.kind = "success"
          PROVE  \/ answered'[q][k].verdict.info = answered'[q][k].job
                 \/ \E i \in 1 .. k - 1 : answered'[q][i].verdict \in GaveUp
      <4>1. CASE q # p
        BY <3>1, <3>2, <4>1 DEF InStepUntilGivenUp
      <4>2. CASE q = p /\ k \in DOMAIN answered[p]
        <5>1. \A i \in 1 .. k - 1 : i \in DOMAIN answered[p]
          <6> HIDE DEF n
          <6> QED
            BY <3>1, <4>2
        <5>2. answered'[p][k] = answered[p][k]
          BY <3>1, <4>2
        <5>3. \/ answered[p][k].verdict.info = answered[p][k].job
              \/ \E i \in 1 .. k - 1 : answered[p][i].verdict \in GaveUp
          BY <3>2, <4>2, <5>2 DEF InStepUntilGivenUp
        <5> QED
          BY <3>1, <4>2, <5>1, <5>2, <5>3
      <4>3. CASE q = p /\ k = n + 1
        <5>1. v = verdict[p] /\ pc[p] = "answer" /\ verdict[p].kind = "success"
              /\ job[p] \in Calls
          BY <2>2, <3>1, <3>2, <4>3
        <5>2. CASE ~GivenUp(p)
          BY <2>2, <3>1, <4>3, <5>1, <5>2 DEF InStepAt
        <5>3. CASE GivenUp(p)
          <6>1. PICK i \in DOMAIN answered[p] : answered[p][i].verdict \in GaveUp
            BY <5>1, <5>3, GaveUpKinds DEF GivenUp
          <6>2. i \in 1 .. k - 1
            <7> HIDE DEF n
            <7> QED
              BY <3>1, <4>3
          <6> QED
            BY <3>1, <4>3, <6>1, <6>2
        <5> QED
          BY <5>2, <5>3
      <4>4. k \in DOMAIN answered[p] \/ k = n + 1 \/ q # p
        <5> HIDE DEF n
        <5> QED
          BY <3>1
      <4> QED
        BY <4>1, <4>2, <4>3, <4>4
    <3> QED
      BY <3>2 DEF InStepUntilGivenUp
  <2>3. ASSUME NEW p \in Paths, Answer(p) \/ PollInterrupted(p)
        PROVE  InStepUntilGivenUp'
    <3>1. verdict[p] \in Verdicts /\ job[p] \in Jobs /\ InStepAt(p)
      BY <2>3 DEF TypeOK, JobStage, InStep, Answer, PollInterrupted, Executing
    <3>2. \/ Report(p, verdict[p]) /\ pc[p] = "answer"
          \/ Report(p, Lost)
          \/ UNCHANGED answered
      BY <2>3 DEF Answer, PollInterrupted
    <3>3. CASE Report(p, verdict[p]) /\ pc[p] = "answer"
      BY <2>2, <3>1, <3>3
    <3>4. CASE Report(p, Lost)
      <4>1. Lost \in Verdicts /\ Lost.kind # "success"
        BY VerdictTypes, GaveUpKinds
      <4> QED
        BY <2>2, <3>1, <3>4, <4>1
    <3> QED
      BY <2>1, <3>2, <3>3, <3>4
  <2>4. ASSUME NEW p \in Paths, Main(p) \/ TakeJob(p) \/ Quiet(p)
        PROVE  InStepUntilGivenUp'
    <3>1. UNCHANGED answered
      BY <2>4, QuietStep DEF Main, Construct, Put, Interrupt, Joined, TakeJob,
           threadVars
    <3> QED
      BY <2>1, <3>1
  <2>5. CASE UNCHANGED vars \/ \E t \in Others : Other(t)
    BY <2>1, <2>5 DEF vars, Other, OtherLocks, OtherUnlocks, threadVars
  <2> QED
    BY <2>3, <2>4, <2>5, StepKinds
<1> QED
  BY <1>1, <1>2, TypedStages, ConversationCorrect, PTL DEF Spec
-----------------------------------------------------------------------------
(* A reply answers one call.                                               *)

\* Every job is put once and finished once, in its turn.
LEMMA IssuedCorrect == Spec => [](\A p \in Paths : IssuedOnce(p))
<1>1. Init => \A p \in Paths : IssuedOnce(p)
  BY EmptyHasNone DEF Init, IssuedOnce
<1>2. TypeOK /\ JobStage /\ Fifo /\ (\A p \in Paths : IssuedOnce(p)) /\ [Next]_vars
        => (\A p \in Paths : IssuedOnce(p))'
  <2> SUFFICES ASSUME TypeOK, JobStage, Fifo, [Next]_vars, NEW q \in Paths,
                      IssuedOnce(q)
               PROVE  IssuedOnce(q)'
    OBVIOUS
  <2>0. /\ issued \in [Paths -> Seq(Jobs)] /\ issued[q] \in Seq(Jobs)
        /\ answered \in [Paths -> Seq([job : Jobs, verdict : Verdicts])]
        /\ DOMAIN answered[q] = 1 .. Len(answered[q]) /\ Len(answered[q]) \in Nat
        /\ DOMAIN issued[q] = 1 .. Len(issued[q]) /\ Len(issued[q]) \in Nat
    BY LenProperties DEF TypeOK
  <2>1. ASSUME issued'[q] = issued[q], answered'[q] = answered[q]
        PROVE  IssuedOnce(q)'
    BY <2>1 DEF IssuedOnce
  <2>2. ASSUME NEW p \in Paths, NEW j \in Jobs, Put(p, j) PROVE IssuedOnce(q)'
    <3>1. CASE q # p
      BY <2>0, <2>1, <2>2, <3>1 DEF Put
    <3>2. CASE q = p
      <4>1. /\ issued'[q] = Append(issued[q], j) /\ answered' = answered
            /\ j \notin Range(issued[q])
        BY <2>0, <2>2, <3>2 DEF Put, Unissued, Range
      <4>2. IsInjective(issued'[q])
        BY <2>0, <4>1, AppendedIsNew DEF IssuedOnce
      <4>3. /\ Len(issued'[q]) = Len(issued[q]) + 1
            /\ \A k \in 1 .. Len(issued[q]) : issued'[q][k] = issued[q][k]
        BY <2>0, <4>1, AppendProperties
      <4>4. /\ Len(answered[q]) <= Len(issued'[q])
            /\ \A k \in DOMAIN answered[q] : k \in 1 .. Len(issued[q])
        BY <2>0, <4>3 DEF IssuedOnce
      <4> QED
        BY <4>1, <4>2, <4>3, <4>4 DEF IssuedOnce
    <3> QED
      BY <3>1, <3>2
  <2>3. ASSUME NEW p \in Paths, Answer(p) \/ PollInterrupted(p)
        PROVE  IssuedOnce(q)'
    <3>1. UNCHANGED issued /\ pc[p] \in Executing /\ job[p] \in Jobs
      BY <2>3, ReportStep DEF JobStage
    <3>2. CASE UNCHANGED answered
      BY <2>1, <3>1, <3>2
    <3>3. ASSUME NEW v \in Verdicts, Report(p, v) PROVE IssuedOnce(q)'
      <4>1. CASE q # p
        BY <2>1, <3>1, <3>3, <4>1, Reported
      <4>2. CASE q = p
        <5> DEFINE n == Len(answered[p])
        <5>1. /\ DOMAIN answered'[p] = 1 .. n + 1 /\ n \in Nat
              /\ \A k \in 1 .. n : answered'[p][k] = answered[p][k]
              /\ answered'[p][n + 1].job = job[p]
              /\ Len(answered'[p]) = n + 1
          <6>1. /\ DOMAIN answered[p] = 1 .. n /\ n \in Nat
                /\ DOMAIN answered'[p] = 1 .. n + 1
                /\ \A k \in DOMAIN answered[p] : answered'[p][k] = answered[p][k]
                /\ answered'[p][n + 1] = [job |-> job[p], verdict |-> v]
            BY <3>1, <3>3, Reported
          <6>2. [job |-> job[p], verdict |-> v] \in [job : Jobs, verdict : Verdicts]
            BY <3>1
          <6>3. answered'[p] = Append(answered[p], [job |-> job[p], verdict |-> v])
            BY <2>0, <3>3 DEF Report
          <6>4. Len(answered'[p]) = n + 1
            BY <2>0, <4>2, <6>2, <6>3, AppendProperties
          <6> QED
            BY <6>1, <6>4
        <5>2. n < Len(issued[p]) /\ job[p] = issued[p][n + 1]
          BY <3>1 DEF Fifo, FifoAt
        <5>3. \A k \in 1 .. n : answered[p][k].job = issued[p][k]
          BY <2>0, <4>2 DEF IssuedOnce
        <5> HIDE DEF n
        <5>4. n + 1 <= Len(issued[p]) /\ \A k \in 1 .. n + 1 : k \in 1 .. n \/ k = n + 1
          BY <2>0, <4>2, <5>1, <5>2
        <5> QED
          BY <3>1, <4>2, <5>1, <5>2, <5>3, <5>4 DEF IssuedOnce
      <4> QED
        BY <4>1, <4>2
    <3> QED
      BY <2>3, <3>2, <3>3, ReportStep
  <2>4. ASSUME NEW p \in Paths,
               Construct(p) \/ Interrupt(p) \/ Joined(p) \/ TakeJob(p) \/ Quiet(p)
        PROVE  IssuedOnce(q)'
    <3>1. UNCHANGED <<issued, answered>>
      BY <2>4, QuietStep DEF Construct, Interrupt, Joined, TakeJob, queueVars,
           threadVars
    <3> QED
      BY <2>1, <3>1
  <2>5. CASE UNCHANGED vars \/ \E t \in Others : Other(t)
    BY <2>1, <2>5 DEF vars, Other, OtherLocks, OtherUnlocks, queueVars, threadVars
  <2> QED
    BY <2>2, <2>3, <2>4, <2>5, StepKinds DEF Main
<1> QED
  BY <1>1, <1>2, TypedStages, FifoCorrect, PTL DEF Spec

\* A call that has not been written yet has asked the device for nothing.
LEMMA NotAskedYet ==
  ASSUME TypeOK, NEW p \in Paths, IssuedOnce(p), FifoAt(p),
         pc[p] \in Executing \ {"read", "polled", "hid_error", "answer"}
  PROVE  job[p] \notin Asked(p)
<1> DEFINE n == Len(answered[p])
<1> DEFINE m == Len(issued[p])
<1>1. /\ DOMAIN answered[p] = 1 .. n /\ n \in Nat
      /\ DOMAIN issued[p] = 1 .. m /\ m \in Nat
  BY LenProperties DEF TypeOK
<1>2. n < m /\ job[p] = issued[p][n + 1]
  BY DEF FifoAt
<1>3. \A k \in 1 .. n : answered[p][k].job = issued[p][k]
  BY <1>1 DEF IssuedOnce
<1> HIDE DEF n, m
<1>4. n + 1 \in 1 .. m /\ \A k \in 1 .. n : k \in 1 .. m /\ k # n + 1
  BY <1>1, <1>2
<1>5. \A k \in 1 .. n : answered[p][k].job # job[p]
  BY <1>1, <1>2, <1>3, <1>4 DEF IssuedOnce, IsInjective
<1> QED
  BY <1>1, <1>5 DEF Asked

\* What a device was asked it has been asked for good.
LEMMA AskedKept ==
  ASSUME NEW p \in Paths, answered'[p] = answered[p],
         pc[p] \in {"read", "polled", "hid_error", "answer"}
           => pc'[p] \in {"read", "polled", "hid_error", "answer"} /\ job'[p] = job[p]
  PROVE  Asked(p) \subseteq Asked(p)'
  BY DEF Asked

\* A step that brings no reply nearer to its call, though it may lose some.
LEMMA PlaceFrame ==
  ASSUME NEW p \in Paths, InOnePlace(p),
         requests'[p] = requests[p] \/ requests'[p] = <<>>,
         replies'[p] = replies[p] \/ replies'[p] = <<>>,
         inbox'[p] = inbox[p] \/ inbox'[p] = <<>>,
         InHands(p)' \subseteq InHands(p), answered'[p] = answered[p],
         Asked(p) \subseteq Asked(p)'
  PROVE  InOnePlace(p)'
<1>1. /\ Range(requests'[p]) \subseteq Range(requests[p])
      /\ Range(replies'[p]) \subseteq Range(replies[p])
      /\ Range(inbox'[p]) \subseteq Range(inbox[p])
      /\ IsInjective(requests'[p]) /\ IsInjective(replies'[p]) /\ IsInjective(inbox'[p])
  BY EmptyHasNone DEF InOnePlace
<1>2. OnTheWay(p)' \subseteq OnTheWay(p)
  BY <1>1 DEF OnTheWay
<1>3. UsedUp(p)' = UsedUp(p)
  BY DEF UsedUp
<1> QED
  BY <1>1, <1>2, <1>3 DEF InOnePlace

\* The device answers, or the HID library hands a reply on: it is still in one
\* place.
LEMMA DeviceInPlace ==
  ASSUME TypeOK, NEW p \in Paths, InOnePlace(p), Device(p)
  PROVE  InOnePlace(p)'
<1>0. /\ requests \in [Paths -> Seq(Calls)] /\ requests[p] \in Seq(Calls)
      /\ replies \in [Paths -> Seq(Calls)] /\ replies[p] \in Seq(Calls)
      /\ inbox \in [Paths -> Seq(Calls)] /\ inbox[p] \in Seq(Calls)
  BY DEF TypeOK
<1>1. UNCHANGED <<pc, job, verdict, answered>>
  BY DEF Device, DeviceReplies, Receive, Unplug, Plug, threadVars
<1>2. InHands(p)' = InHands(p) /\ UsedUp(p)' = UsedUp(p) /\ Asked(p)' = Asked(p)
  BY <1>1 DEF InHands, UsedUp, Asked
<1>3. CASE DeviceReplies(p)
  <2>1. /\ requests[p] # <<>> /\ requests'[p] = Tail(requests[p])
        /\ replies'[p] = Append(replies[p], Head(requests[p]))
        /\ inbox'[p] = inbox[p] /\ Head(requests[p]) \in Calls
    BY <1>0, <1>3, HeadTailProperties DEF DeviceReplies, handleVars
  <2>2. /\ Range(requests[p]) = Range(requests'[p]) \cup {Head(requests[p])}
        /\ IsInjective(requests'[p]) /\ Head(requests[p]) \notin Range(requests'[p])
    BY <1>0, <2>1, HeadIsTaken DEF InOnePlace
  <2>3. /\ Range(replies'[p]) = Range(replies[p]) \cup {Head(requests[p])}
        /\ IsInjective(replies'[p])
    BY <1>0, <2>1, <2>2, AppendedIsNew DEF InOnePlace
  <2>4. OnTheWay(p)' = OnTheWay(p)
    BY <2>1, <2>2, <2>3 DEF OnTheWay
  <2> QED
    BY <1>2, <2>1, <2>2, <2>3, <2>4 DEF InOnePlace
<1>4. CASE Receive(p)
  <2>1. /\ replies[p] # <<>> /\ replies'[p] = Tail(replies[p])
        /\ inbox'[p] = Append(inbox[p], Head(replies[p]))
        /\ requests'[p] = requests[p] /\ Head(replies[p]) \in Calls
    BY <1>0, <1>4, HeadTailProperties DEF Receive
  <2>2. /\ Range(replies[p]) = Range(replies'[p]) \cup {Head(replies[p])}
        /\ IsInjective(replies'[p]) /\ Head(replies[p]) \notin Range(replies'[p])
    BY <1>0, <2>1, HeadIsTaken DEF InOnePlace
  <2>3. /\ Range(inbox'[p]) = Range(inbox[p]) \cup {Head(replies[p])}
        /\ IsInjective(inbox'[p])
    BY <1>0, <2>1, <2>2, AppendedIsNew DEF InOnePlace
  <2>4. OnTheWay(p)' = OnTheWay(p)
    BY <2>1, <2>2, <2>3 DEF OnTheWay
  <2> QED
    BY <1>2, <2>1, <2>2, <2>3, <2>4 DEF InOnePlace
<1>5. CASE Unplug(p) \/ Plug(p)
  <2>1. /\ requests'[p] = requests[p] \/ requests'[p] = <<>>
        /\ replies'[p] = replies[p] \/ replies'[p] = <<>>
        /\ inbox'[p] = inbox[p]
    BY <1>0, <1>5 DEF Unplug, Plug, handleVars
  <2> QED
    BY <1>1, <1>2, <2>1, PlaceFrame
<1> QED
  BY <1>3, <1>4, <1>5 DEF Device

\* Only a call that has not been written sends a request, so that the request
\* is new.
LEMMA WriteInPlace ==
  ASSUME TypeOK, JobStage, NEW p \in Paths, IssuedOnce(p), FifoAt(p), InOnePlace(p),
         HidWrite(p)
  PROVE  InOnePlace(p)'
<1>0. /\ pc \in [Paths -> Pcs] /\ verdict \in [Paths -> Verdicts]
      /\ requests \in [Paths -> Seq(Calls)] /\ requests[p] \in Seq(Calls)
  BY DEF TypeOK
<1>1. /\ pc[p] = "write" /\ job[p] \in Calls
      /\ UNCHANGED <<job, answered, inbox, replies>>
      /\ requests'[p] = requests[p] \/ requests'[p] = Append(requests[p], job[p])
      /\ pc'[p] \in {"read", "hid_error"}
  BY <1>0 DEF HidWrite, JobStage, Goto
<1>2. /\ InHands(p)' = {} /\ Asked(p) \subseteq Asked(p)' /\ job[p] \in Asked(p)'
  BY <1>1, AskedKept DEF InHands, Asked
<1>3. CASE requests'[p] = requests[p]
  BY <1>1, <1>2, <1>3, PlaceFrame
<1>4. CASE requests'[p] = Append(requests[p], job[p])
  <2>1. job[p] \notin Asked(p)
    BY <1>1, NotAskedYet DEF Executing
  <2>2. job[p] \notin OnTheWay(p) /\ job[p] \notin UsedUp(p)
    BY <2>1 DEF InOnePlace
  <2>3. /\ Range(requests'[p]) = Range(requests[p]) \cup {job[p]}
        /\ IsInjective(requests'[p])
    BY <1>0, <1>1, <1>4, <2>2, AppendedIsNew DEF InOnePlace, OnTheWay
  <2>4. OnTheWay(p)' = OnTheWay(p) \cup {job[p]}
    BY <1>1, <2>3 DEF OnTheWay
  <2>5. UsedUp(p)' = UsedUp(p)
    BY <1>1 DEF UsedUp
  <2> QED
    BY <1>1, <1>2, <2>2, <2>3, <2>4, <2>5 DEF InOnePlace, OnTheWay
<1> QED
  BY <1>1, <1>3, <1>4

\* A reply that is taken from the handle is in the visitor's hands alone.
LEMMA ReadInPlace ==
  ASSUME TypeOK, JobStage, NEW p \in Paths, InOnePlace(p), HidRead(p)
  PROVE  InOnePlace(p)'
<1>0. /\ pc \in [Paths -> Pcs] /\ verdict \in [Paths -> Verdicts]
      /\ inbox \in [Paths -> Seq(Calls)] /\ inbox[p] \in Seq(Calls)
  BY DEF TypeOK
<1>1. /\ pc[p] = "read" /\ pc'[p] \in {"read", "polled", "hid_error", "answer"}
      /\ UNCHANGED <<job, answered, requests, replies>>
  BY <1>0 DEF HidRead, Goto, Conclude, deviceVars
<1>2. Asked(p) \subseteq Asked(p)'
  BY <1>1, AskedKept
<1>3. CASE inbox[p] # <<>> /\ pc'[p] = "answer"
  <2>1. /\ inbox'[p] = Tail(inbox[p])
        /\ verdict'[p] \in {Success(Head(inbox[p])), Error("MessageError")}
    BY <1>0, <1>3 DEF HidRead, Goto, Conclude
  <2>2. /\ Range(inbox[p]) = Range(inbox'[p]) \cup {Head(inbox[p])}
        /\ IsInjective(inbox'[p]) /\ Head(inbox[p]) \notin Range(inbox'[p])
    BY <1>0, <1>3, <2>1, HeadIsTaken DEF InOnePlace
  <2>3. InHands(p)' \subseteq {Head(inbox[p])}
    BY <2>1, GaveUpKinds DEF InHands
  <2>4. /\ OnTheWay(p)' \cup {Head(inbox[p])} = OnTheWay(p)
        /\ Head(inbox[p]) \notin OnTheWay(p)'
    BY <1>1, <2>2 DEF OnTheWay, InOnePlace
  <2>5. UsedUp(p)' = UsedUp(p)
    BY <1>1 DEF UsedUp
  <2> QED
    BY <1>1, <1>2, <2>2, <2>3, <2>4, <2>5 DEF InOnePlace
<1>4. CASE inbox' = inbox /\ pc'[p] # "answer"
  <2>1. inbox'[p] = inbox[p] /\ pc'[p] # "answer"
    BY <1>4
  <2>2. InHands(p)' = {}
    BY <2>1 DEF InHands
  <2> QED
    BY <1>1, <1>2, <2>1, <2>2, PlaceFrame
<1> QED
  BY <1>0, <1>3, <1>4 DEF HidRead, Goto, Conclude

\* What a report adds to what has been asked and used up.
LEMMA ReportedReply ==
  ASSUME TypeOK, NEW p \in Paths, job[p] \in Jobs, NEW v \in Verdicts, Report(p, v)
  PROVE  /\ {answered'[p][k].job : k \in DOMAIN answered'[p]}
              = {answered[p][k].job : k \in DOMAIN answered[p]} \cup {job[p]}
         /\ UsedUp(p)' = UsedUp(p) \cup IF job[p] \in Calls /\ v.kind = "success"
                                        THEN {v.info} ELSE {}
<1> DEFINE n == Len(answered[p]) + 1
<1>1. /\ DOMAIN answered'[p] = DOMAIN answered[p] \cup {n}
      /\ \A k \in DOMAIN answered[p] : answered'[p][k] = answered[p][k]
      /\ answered'[p][n] = [job |-> job[p], verdict |-> v]
  BY Reported
<1> HIDE DEF n
<1>2. answered'[p][n].job = job[p] /\ answered'[p][n].verdict = v
  BY <1>1
<1>3. {answered'[p][k].job : k \in DOMAIN answered'[p]}
        = {answered[p][k].job : k \in DOMAIN answered[p]} \cup {job[p]}
  BY <1>1, <1>2
<1>4. UsedUp(p)' = UsedUp(p) \cup IF job[p] \in Calls /\ v.kind = "success"
                                  THEN {v.info} ELSE {}
  BY <1>1, <1>2 DEF UsedUp, IsReply
<1> QED
  BY <1>3, <1>4

\* The reply in the visitor's hands is used up by the report, or dropped.
LEMMA ReportInPlace ==
  ASSUME TypeOK, JobStage, NEW p \in Paths, InOnePlace(p),
         Answer(p) \/ PollInterrupted(p)
  PROVE  InOnePlace(p)'
<1>0. /\ pc \in [Paths -> Pcs] /\ verdict \in [Paths -> Verdicts]
      /\ verdict[p] \in Verdicts
  BY DEF TypeOK
<1>1. /\ job[p] \in Jobs /\ pc[p] \in {"polled", "answer"}
      /\ UNCHANGED <<requests, replies, inbox>>
  BY DEF Answer, PollInterrupted, JobStage, Executing, handleVars, deviceVars
<1>2. OnTheWay(p)' = OnTheWay(p)
  BY <1>1 DEF OnTheWay
<1>3. ASSUME NEW v \in Verdicts, Report(p, v), pc'[p] \notin {"answer", "read", "polled", "hid_error"},
             \/ v.kind # "success"
             \/ pc[p] = "answer" /\ v = verdict[p]
      PROVE  InOnePlace(p)'
  <2>1. InHands(p)' = {}
    BY <1>3 DEF InHands
  <2>2. Asked(p)' = Asked(p)
    BY <1>1, <1>3, ReportedReply DEF Asked
  <2>3. UsedUp(p) \subseteq UsedUp(p)' /\ UsedUp(p)' \subseteq UsedUp(p) \cup InHands(p)
    BY <1>1, <1>3, ReportedReply DEF InHands
  <2> QED
    BY <1>1, <1>2, <2>1, <2>2, <2>3 DEF InOnePlace
<1>4. CASE UNCHANGED answered
  <2>0. ASSUME NEW v \in Verdicts, Report(p, v) PROVE FALSE
    <3> DEFINE n == Len(answered[p])
    <3>1. DOMAIN answered[p] = 1 .. n /\ n \in Nat /\ DOMAIN answered'[p] = 1 .. n + 1
      BY <1>1, <2>0, Reported
    <3> HIDE DEF n
    <3>2. n + 1 \in 1 .. n + 1 /\ n + 1 \notin 1 .. n
      BY <3>1
    <3> QED
      BY <1>4, <3>1, <3>2
  <2>1. /\ pc[p] = "answer" /\ pc'[p] = "answer" /\ verdict'[p].kind = "error"
        /\ answered' = answered /\ job' = job
    <3>1. ~Report(p, verdict[p]) /\ ~Report(p, Lost)
      BY <1>0, <2>0, VerdictTypes
    <3> QED
      BY <1>0, <3>1, GaveUpKinds DEF Answer, PollInterrupted, Conclude, Goto
  <2>2. InHands(p)' = {}
    BY <2>1 DEF InHands
  <2>3. Asked(p) \subseteq Asked(p)'
    BY <2>1, AskedKept
  <2> QED
    BY <1>1, <2>1, <2>2, <2>3, PlaceFrame
<1>5. Lost \in Verdicts /\ Lost.kind # "success"
  BY VerdictTypes, GaveUpKinds
<1> QED
  BY <1>0, <1>3, <1>4, <1>5 DEF Answer, PollInterrupted, Throw, Goto

\* The other steps of a consumer thread bring no reply nearer to a call.
LEMMA VisitInPlace ==
  ASSUME TypeOK, JobStage, NEW p \in Paths, InOnePlace(p),
         \/ TakeJob(p) \/ TakeWait(p) \/ Resume(p) \/ SpuriousWakeup(p)
         \/ Acquire(p) \/ VisitClose(p) \/ VisitOpen(p) \/ HidOpen(p)
         \/ HidPurge(p) \/ Prepare(p) \/ PollAgain(p) \/ TimeOut(p)
         \/ HidError(p) \/ CloseChannel(p) \/ UnwindChannel(p) \/ ThreadEnds(p)
  PROVE  InOnePlace(p)'
<1>0. /\ pc \in [Paths -> Pcs] /\ verdict \in [Paths -> Verdicts]
      /\ replies \in [Paths -> Seq(Calls)] /\ inbox \in [Paths -> Seq(Calls)]
  BY DEF TypeOK
<1> USE DEF queueVars, threadVars, handleVars, deviceVars
<1> DEFINE Late == {"read", "polled", "hid_error", "answer"}
<1> SUFFICES /\ answered'[p] = answered[p]
             /\ requests'[p] = requests[p]
             /\ replies'[p] = replies[p] \/ replies'[p] = <<>>
             /\ inbox'[p] = inbox[p] \/ inbox'[p] = <<>>
             /\ pc[p] \in Late => pc'[p] \in Late /\ job'[p] = job[p]
             /\ pc'[p] = "answer" =>
                  \/ pc[p] = "answer" /\ job'[p] = job[p] /\ verdict'[p] = verdict[p]
                  \/ job'[p] \notin Calls
                  \/ verdict'[p].kind # "success"
  BY PlaceFrame, AskedKept DEF InHands
<1>1. CASE TakeJob(p) \/ TakeWait(p) \/ Resume(p) \/ SpuriousWakeup(p) \/ ThreadEnds(p)
  BY <1>0, <1>1 DEF TakeJob, TakeWait, Resume, SpuriousWakeup, ThreadEnds, Goto, Throw
<1>2. CASE VisitClose(p) \/ CloseChannel(p)
  BY <1>0, <1>2, JobKinds DEF VisitClose, CloseChannel, HidClose, Goto, Conclude,
       JobStage, Calls, Jobs
<1>3. CASE VisitOpen(p) \/ HidPurge(p)
  BY <1>0, <1>3, JobKinds DEF VisitOpen, HidPurge, Goto, Conclude, Calls, Jobs
<1>4. CASE HidOpen(p) \/ Prepare(p) \/ TimeOut(p)
  BY <1>0, <1>4, GaveUpKinds DEF HidOpen, Prepare, TimeOut, Goto, Conclude
<1>5. CASE HidError(p)
  BY <1>0, <1>5, GaveUpKinds DEF HidError, Goto, JobStage
<1>6. CASE Acquire(p) \/ PollAgain(p) \/ UnwindChannel(p)
  BY <1>0, <1>6 DEF Acquire, PollAgain, UnwindChannel, HidClose, Goto
<1> QED
  BY <1>1, <1>2, <1>3, <1>4, <1>5, <1>6

\* On every path, every reply is in one place, however much is given up.
LEMMA PlacesCorrect == Spec => [](\A p \in Paths : InOnePlace(p))
<1>1. Init => \A p \in Paths : InOnePlace(p)
  <2> SUFFICES ASSUME Init, NEW p \in Paths PROVE InOnePlace(p)
    OBVIOUS
  <2>1. /\ requests[p] = <<>> /\ replies[p] = <<>> /\ inbox[p] = <<>>
        /\ pc[p] = "none" /\ answered[p] = <<>>
    BY DEF Init
  <2>2. OnTheWay(p) = {} /\ InHands(p) = {} /\ UsedUp(p) = {}
    BY <2>1, EmptyHasNone DEF OnTheWay, InHands, UsedUp
  <2> QED
    BY <2>1, <2>2, EmptyHasNone DEF InOnePlace
<1>2. /\ TypeOK /\ JobStage /\ Fifo /\ (\A p \in Paths : IssuedOnce(p))
      /\ (\A p \in Paths : InOnePlace(p))
      /\ [Next]_vars
      => (\A p \in Paths : InOnePlace(p))'
  <2> SUFFICES ASSUME TypeOK, JobStage, Fifo, [Next]_vars, NEW q \in Paths,
                      IssuedOnce(q), InOnePlace(q)
               PROVE  InOnePlace(q)'
    OBVIOUS
  <2>1. ASSUME \/ pc'[q] = pc[q]
               \/ {pc[q], pc'[q]} \cap {"read", "polled", "hid_error", "answer"} = {},
               job'[q] = job[q], verdict'[q] = verdict[q],
               answered'[q] = answered[q], requests'[q] = requests[q],
               replies'[q] = replies[q], inbox'[q] = inbox[q]
        PROVE  InOnePlace(q)'
    <3>1. InHands(q)' = InHands(q) /\ Asked(q) \subseteq Asked(q)'
      BY <2>1, AskedKept DEF InHands
    <3> QED
      BY <2>1, <3>1, PlaceFrame
  <2>2. CASE Main(q)
    <3>1. pc \in [Paths -> Pcs]
      BY DEF TypeOK
    <3>2. CASE Construct(q)
      BY <2>1, <3>1, <3>2 DEF Construct, Goto, handleVars, deviceVars
    <3> QED
      BY <2>1, <2>2, <3>1, <3>2 DEF Main, Put, Interrupt, Joined, Wake, threadVars,
           handleVars, deviceVars
  <2>3. CASE Consume(q) \/ TimeOut(q) \/ SpuriousWakeup(q)
    BY <2>3, WriteInPlace, ReadInPlace, ReportInPlace, VisitInPlace DEF Consume, Fifo
  <2>4. CASE Device(q)
    BY <2>4, DeviceInPlace
  <2>5. ASSUME NEW p \in Paths, q # p,
               Main(p) \/ Consume(p) \/ TimeOut(p) \/ SpuriousWakeup(p) \/ Device(p)
        PROVE  InOnePlace(q)'
    BY <2>1, <2>5, OtherPaths
  <2>6. CASE UNCHANGED vars \/ \E t \in Others : Other(t)
    BY <2>1, <2>6 DEF vars, Other, OtherLocks, OtherUnlocks, threadVars, handleVars,
         deviceVars
  <2> QED
    BY <2>2, <2>3, <2>4, <2>5, <2>6 DEF Next
<1> QED
  BY <1>1, <1>2, TypedStages, FifoCorrect, IssuedCorrect, PTL DEF Spec

\* No reply answers two calls, whatever has been given up, is late or was lost.
THEOREM RepliesCorrect == Spec => []RepliedOnce
<1>1. Init => RepliedOnce
  BY DEF Init, RepliedOnce
<1>2. /\ TypeOK /\ JobStage /\ (\A p \in Paths : InOnePlace(p)) /\ RepliedOnce
      /\ [Next]_vars
      => RepliedOnce'
  <2> SUFFICES ASSUME TypeOK, JobStage, \A p \in Paths : InOnePlace(p), RepliedOnce,
                      [Next]_vars
               PROVE  RepliedOnce'
    OBVIOUS
  <2>1. ASSUME UNCHANGED answered PROVE RepliedOnce'
    BY <2>1 DEF RepliedOnce
  <2>2. ASSUME NEW p \in Paths, NEW v \in Verdicts, Report(p, v), job[p] \in Jobs,
               v.kind = "success" => v = verdict[p] /\ pc[p] = "answer"
        PROVE  RepliedOnce'
    <3> DEFINE n == Len(answered[p]) + 1
    <3>1. /\ DOMAIN answered'[p] = DOMAIN answered[p] \cup {n}
          /\ \A k \in DOMAIN answered[p] : answered'[p][k] = answered[p][k]
          /\ answered'[p][n] = [job |-> job[p], verdict |-> v]
          /\ \A q \in Paths : q # p => answered'[q] = answered[q]
      BY <2>2, Reported
    <3>2. IsReply(answered'[p][n]) => v.info \notin UsedUp(p)
      BY <2>2, <3>1 DEF IsReply, InOnePlace, InHands
    <3>3. \A k \in DOMAIN answered[p] :
            IsReply(answered[p][k]) => answered[p][k].verdict.info \in UsedUp(p)
      BY DEF UsedUp
    <3> HIDE DEF n
    <3>4. answered'[p][n].verdict = v
      BY <3>1
    <3>5. ASSUME NEW q \in Paths, NEW i \in DOMAIN answered'[q], NEW k \in DOMAIN answered'[q],
                 i # k, IsReply(answered'[q][i]), IsReply(answered'[q][k])
          PROVE  answered'[q][i].verdict.info # answered'[q][k].verdict.info
      <4>1. CASE i \in DOMAIN answered[q] /\ k \in DOMAIN answered[q]
        <5>1. answered'[q][i] = answered[q][i] /\ answered'[q][k] = answered[q][k]
          BY <3>1, <4>1
        <5> QED
          BY <3>5, <4>1, <5>1 DEF RepliedOnce, IsReply
      <4>2. CASE q = p /\ (i = n \/ k = n)
        BY <3>1, <3>2, <3>3, <3>4, <3>5, <4>2
      <4> QED
        BY <3>1, <4>1, <4>2
    <3> QED
      BY <3>5 DEF RepliedOnce, IsReply
  <2>3. ASSUME NEW p \in Paths, Answer(p) \/ PollInterrupted(p) PROVE RepliedOnce'
    <3>1. verdict[p] \in Verdicts /\ job[p] \in Jobs
      BY <2>3 DEF TypeOK, JobStage, Answer, PollInterrupted, Executing
    <3>2. \/ Report(p, verdict[p]) /\ pc[p] = "answer"
          \/ Report(p, Lost)
          \/ UNCHANGED answered
      BY <2>3 DEF Answer, PollInterrupted
    <3>3. Lost \in Verdicts /\ Lost.kind # "success"
      BY VerdictTypes, GaveUpKinds
    <3> QED
      BY <2>1, <2>2, <3>1, <3>2, <3>3
  <2>4. ASSUME NEW p \in Paths, Main(p) \/ TakeJob(p) \/ Quiet(p) PROVE RepliedOnce'
    <3>1. UNCHANGED answered
      BY <2>4, QuietStep DEF Main, Construct, Put, Interrupt, Joined, TakeJob,
           threadVars
    <3> QED
      BY <2>1, <3>1
  <2>5. CASE UNCHANGED vars \/ \E t \in Others : Other(t)
    BY <2>1, <2>5 DEF vars, Other, OtherLocks, OtherUnlocks, threadVars
  <2> QED
    BY <2>3, <2>4, <2>5, StepKinds
<1> QED
  BY <1>1, <1>2, TypedStages, PlacesCorrect, PTL DEF Spec

-----------------------------------------------------------------------------
(* The plug-in object: its main thread.                                    *)

\* devices() knows its configuration, an API call its target, join() its thread.
MainStage ==
  /\ main \in {"lock", "enumerating"} => configuration \in Configurations
  /\ main = "put" => target \in Paths \X ApiJobs
  /\ main = "join" => next \in DOMAIN communicators

\* The communicators before shutdown()'s iterator are gone.
Behind ==
  /\ \A i \in DOMAIN communicators : i < next => comm[communicators[i]] = "deleted"
  /\ main = "down" => next = Len(communicators) + 1

\* Those the iterator has still to reach are alive, the one it is at when
\* shutdown() joins is interrupted, and it only moves in shutdown().
Ahead ==
  /\ \A i \in DOMAIN communicators :
       i > next \/ (i = next /\ main # "join") => comm[communicators[i]] = "alive"
  /\ main \notin {"shutdown", "join", "down"} => next = 1
  /\ UsedWhileThere

-----------------------------------------------------------------------------
(* Types, and the communicators as they are used.                          *)

\* What push_back does to the vector of communicators.
LEMMA PushBack ==
  ASSUME NEW s \in Seq(Paths), NEW p \in Paths
  PROVE  /\ Append(s, p) \in Seq(Paths)
         /\ Len(s) \in Nat /\ Len(Append(s, p)) = Len(s) + 1
         /\ DOMAIN s = 1 .. Len(s) /\ DOMAIN Append(s, p) = 1 .. Len(s) + 1
         /\ \A i \in DOMAIN s : i \in DOMAIN Append(s, p) /\ Append(s, p)[i] = s[i]
         /\ Append(s, p)[Len(s) + 1] = p
         /\ Len(s) + 1 \in DOMAIN Append(s, p)
         /\ \A i \in DOMAIN Append(s, p) : i \in DOMAIN s \/ i = Len(s) + 1
<1>1. /\ Append(s, p) \in Seq(Paths)
      /\ Len(s) \in Nat /\ Len(Append(s, p)) = Len(s) + 1
      /\ \A i \in 1 .. Len(s) : Append(s, p)[i] = s[i]
      /\ Append(s, p)[Len(s) + 1] = p
  BY AppendProperties, LenProperties
<1>2. DOMAIN s = 1 .. Len(s) /\ DOMAIN Append(s, p) = 1 .. Len(s) + 1
  BY <1>1, LenProperties
<1> QED
  BY <1>1, <1>2

\* The iterator stays within the vector, or just behind it.
LEMMA IteratorTypes ==
  ASSUME PluginTypeOK
  PROVE  /\ Len(communicators) \in Nat
         /\ DOMAIN communicators = 1 .. Len(communicators)
         /\ next \in Nat
         /\ next \in 1 .. Len(communicators) + 1
         /\ next \in DOMAIN communicators =>
              /\ communicators[next] \in Paths
              /\ next + 1 \in 1 .. Len(communicators) + 1
<1>1. /\ communicators \in Seq(Paths) /\ next \in 1 .. Len(communicators) + 1
      /\ Len(communicators) \in Nat
      /\ DOMAIN communicators = 1 .. Len(communicators)
  BY LenProperties DEF PluginTypeOK
<1>2. next \in 1 .. Len(communicators) => communicators[next] \in Paths
  BY <1>1, ElementOfSeq
<1> DEFINE n == Len(communicators)
<1>3. next \in 1 .. n + 1 /\ n \in Nat
  BY <1>1
<1>4. next \in Nat /\ (next \in 1 .. n => next + 1 \in 1 .. n + 1)
  <2> HIDE DEF n
  <2> QED
    BY <1>3
<1> QED
  BY <1>1, <1>2, <1>4

\* Every variable of the plug-in keeps its type, and no step of the main
\* thread meets an API call without a target or a join() without a thread.
LEMMA PluginTyped == PluginSpec => [](PluginTypeOK /\ MainStage)
<1>1. PluginInit => PluginTypeOK /\ MainStage
  BY EmptySeq DEF PluginInit, PluginTypeOK, MainStage
<1>2. PluginTypeOK /\ MainStage /\ [PluginNext]_allVars => PluginTypeOK' /\ MainStage'
  <2> SUFFICES ASSUME PluginTypeOK, MainStage, [PluginNext]_allVars
               PROVE  PluginTypeOK' /\ MainStage'
    OBVIOUS
  <2> USE DEF shutdownVars, configVars, pluginVars
  <2>1. ASSUME NEW c \in Configurations, Configure(c)
        PROVE  PluginTypeOK' /\ MainStage'
    BY <2>1 DEF Configure, Store, LoadProtobuf, PluginTypeOK, MainStage
  <2>2. CASE Devices \/ Shutdown \/ EnumerateThrows \/ ShutdownReturns
    BY <2>2, Configured DEF Devices, Authenticate, Shutdown, EnumerateThrows, ShutdownReturns, PluginTypeOK,
         MainStage
  <2>3. CASE EnumerateLock \/ ApiPut \/ DeleteNext
    BY <2>3 DEF EnumerateLock, ApiPut, DeleteNext, PluginTypeOK, MainStage
  <2>4. CASE EnumerateReturns
    <3>1. offered' \subseteq Paths
      <4>1. \A found \in SUBSET Matching : found \subseteq Paths
        BY <2>4, Configured DEF EnumerateReturns, Matching, MainStage
      <4> QED
        BY <2>4, <4>1 DEF EnumerateReturns, PluginTypeOK
    <3> QED
      BY <2>4, <3>1 DEF EnumerateReturns, PluginTypeOK, MainStage
  <2>5. ASSUME NEW p \in Paths, NEW j \in ApiJobs, ApiCall(p, j)
        PROVE  PluginTypeOK' /\ MainStage'
    <3>1. \/ communicators' = communicators
          \/ communicators' = Append(communicators, p)
      BY <2>5 DEF ApiCall, FindOrCreate
    <3>2. communicators' \in Seq(Paths) /\ next' \in 1 .. Len(communicators') + 1
      <4>1. CASE communicators' = communicators
        BY <2>5, <4>1 DEF ApiCall, PluginTypeOK
      <4>2. CASE communicators' = Append(communicators, p)
        <5> DEFINE n == Len(communicators)
        <5>1. /\ communicators' \in Seq(Paths) /\ Len(communicators') = n + 1
              /\ n \in Nat /\ next \in 1 .. n + 1
          BY <4>2, PushBack DEF PluginTypeOK
        <5>2. next \in 1 .. (n + 1) + 1
          <6> HIDE DEF n
          <6> QED
            BY <5>1
        <5> QED
          BY <2>5, <5>1, <5>2 DEF ApiCall
      <4> QED
        BY <3>1, <4>1, <4>2
    <3>3. target' \in Paths \X ApiJobs /\ main' = "put"
      BY <2>5 DEF ApiCall
    <3> QED
      BY <2>5, <3>2, <3>3 DEF ApiCall, PluginTypeOK, MainStage
  <2>6. CASE JoinNext
    <3>1. next + 1 \in 1 .. Len(communicators) + 1
      BY <2>6, IteratorTypes DEF JoinNext, MainStage
    <3> QED
      BY <2>6, <3>1 DEF JoinNext, PluginTypeOK, MainStage
  <2>7. CASE Background \/ UNCHANGED allVars
    BY <2>7 DEF Background, allVars, PluginTypeOK, MainStage
  <2> QED
    BY <2>1, <2>2, <2>3, <2>4, <2>5, <2>6, <2>7 DEF PluginNext, Page, Busy
<1> QED
  BY <1>1, <1>2, PTL DEF PluginSpec

\* Every variable of the main thread keeps its type in every behaviour.
THEOREM PluginTypeCorrect == PluginSpec => []PluginTypeOK
  BY PluginTyped, PTL

\* A step of the plug-in's is one of the communicators' or leaves them alone, so
\* what holds of communicators holds in the plug-in.
LEMMA CommunicatorSteps == PluginSpec => Spec
<1>1. PluginInit => Init
  BY DEF PluginInit
<1>2. PluginTypeOK /\ MainStage /\ [PluginNext]_allVars => [Next]_vars
  <2> SUFFICES ASSUME PluginTypeOK, MainStage, [PluginNext]_allVars
               PROVE  Next \/ UNCHANGED vars
    OBVIOUS
  <2>1. CASE \/ \E c \in Configurations : Configure(c)
             \/ Devices \/ Shutdown \/ EnumerateThrows \/ ShutdownReturns
    BY <2>1 DEF Configure, Devices, Shutdown, EnumerateThrows, ShutdownReturns
  <2>2. CASE EnumerateLock \/ EnumerateReturns
    <3>1. MainThread \in Others
      BY OnlyMain
    <3>2. Other(MainThread)
      BY <2>2 DEF EnumerateLock, EnumerateReturns, Other
    <3> QED
      BY <3>1, <3>2 DEF Next
  <2>3. ASSUME NEW p \in Paths, NEW j \in ApiJobs, ApiCall(p, j)
        PROVE  Next \/ UNCHANGED vars
    <3>1. UNCHANGED vars \/ Construct(p)
      BY <2>3 DEF ApiCall, FindOrCreate
    <3> QED
      BY <3>1 DEF Next, Main
  <2>4. CASE ApiPut
    <3>1. target[1] \in Paths /\ target[2] \in Jobs
      BY <2>4 DEF ApiPut, MainStage, ApiJobs, Jobs
    <3>2. Put(target[1], target[2])
      BY <2>4 DEF ApiPut
    <3> QED
      BY <3>1, <3>2 DEF Next, Main
  <2>5. CASE DeleteNext
    <3>1. communicators[next] \in Paths
      BY <2>5, IteratorTypes DEF DeleteNext
    <3> QED
      BY <2>5, <3>1 DEF DeleteNext, Next, Main
  <2>6. CASE JoinNext
    <3>1. communicators[next] \in Paths
      BY <2>6, IteratorTypes DEF JoinNext, MainStage
    <3> QED
      BY <2>6, <3>1 DEF JoinNext, Next, Main
  <2>7. CASE Background \/ UNCHANGED allVars
    BY <2>7 DEF Background, Next, allVars
  <2> QED
    BY <2>1, <2>2, <2>3, <2>4, <2>5, <2>6, <2>7 DEF PluginNext, Page, Busy
<1> QED
  BY <1>1, <1>2, PluginTyped, PTL DEF PluginSpec, Spec

-----------------------------------------------------------------------------
(* The life of the communicators.                                          *)

\* What a thread does of its own accord does not make or delete communicators.
LEMMA BackgroundFrame ==
  ASSUME Background PROVE UNCHANGED <<comm, pluginVars>>
  BY DEF Background, Consume, TakeJob, TakeWait, Resume, Acquire, VisitClose,
     VisitOpen, HidOpen, HidPurge, Prepare, HidWrite, HidRead, PollInterrupted,
     PollAgain, HidError, CloseChannel, Answer, UnwindChannel, ThreadEnds, TimeOut,
     SpuriousWakeup, Device, DeviceReplies, Receive, Unplug, Plug

\* The steps that leave the list and the iterator alone make, interrupt and
\* delete nothing either.
LEMMA MainFrame ==
  ASSUME \/ \E c \in Configurations : Configure(c)
         \/ Devices \/ Shutdown \/ EnumerateLock \/ EnumerateReturns
         \/ EnumerateThrows \/ ApiPut \/ ShutdownReturns
  PROVE  UNCHANGED <<comm, communicators, next>>
  BY DEF Configure, Devices, Shutdown, EnumerateLock, EnumerateReturns,
     EnumerateThrows, ApiPut, ShutdownReturns, OtherLocks, OtherUnlocks, Put, vars,
     shutdownVars

\* Each communicator there is was registered, once.
THEOREM RegistrationCorrect == PluginSpec => []RegisteredOnce
<1>1. PluginInit => RegisteredOnce
  BY DEF PluginInit, Init, RegisteredOnce, Registered
<1>2. PluginTypeOK /\ MainStage /\ TypeOK /\ RegisteredOnce /\ [PluginNext]_allVars
        => RegisteredOnce'
  <2> SUFFICES ASSUME PluginTypeOK, MainStage, TypeOK, RegisteredOnce,
                      [PluginNext]_allVars
               PROVE  RegisteredOnce'
    OBVIOUS
  <2>0. /\ comm \in [Paths -> {"absent", "alive", "joining", "deleted"}]
        /\ communicators \in Seq(Paths)
    BY DEF TypeOK, PluginTypeOK
  <2>1. ASSUME UNCHANGED <<comm, communicators>> PROVE RegisteredOnce'
    BY <2>1 DEF RegisteredOnce, Registered
  <2>2. ASSUME NEW p \in Paths, Construct(p), ~Registered(p),
               communicators' = Append(communicators, p)
        PROVE  RegisteredOnce'
    <3> DEFINE n == Len(communicators)
    <3>1. /\ n + 1 \in DOMAIN communicators' /\ communicators'[n + 1] = p
          /\ \A i \in DOMAIN communicators :
               i \in DOMAIN communicators' /\ communicators'[i] = communicators[i]
          /\ \A i \in DOMAIN communicators' : i \in DOMAIN communicators \/ i = n + 1
      BY <2>0, <2>2, PushBack
    <3> HIDE DEF n
    <3>2. \A q \in Paths : Registered(q)' <=> Registered(q) \/ q = p
      BY <3>1 DEF Registered
    <3>3. \A q \in Paths : comm'[q] # "absent" <=> comm[q] # "absent" \/ q = p
      BY <2>0, <2>2 DEF Construct
    <3>4. \A i, k \in DOMAIN communicators' :
            communicators'[i] = communicators'[k] => i = k
      BY <2>2, <3>1 DEF RegisteredOnce, Registered
    <3> QED
      BY <3>2, <3>3, <3>4 DEF RegisteredOnce
  <2>3. ASSUME NEW p \in Paths, NEW j \in ApiJobs, ApiCall(p, j)
        PROVE  RegisteredOnce'
    BY <2>1, <2>2, <2>3 DEF ApiCall, FindOrCreate, vars
  <2>4. CASE DeleteNext \/ JoinNext
    <3>1. /\ communicators' = communicators
          /\ \A q \in Paths : comm'[q] = "absent" <=> comm[q] = "absent"
      BY <2>0, <2>4 DEF DeleteNext, JoinNext, Interrupt, Joined, shutdownVars
    <3> QED
      BY <3>1 DEF RegisteredOnce, Registered
  <2>5. CASE \/ \E c \in Configurations : Configure(c)
             \/ Devices \/ Shutdown \/ EnumerateLock \/ EnumerateReturns
             \/ EnumerateThrows \/ ApiPut \/ ShutdownReturns
    BY <2>1, <2>5, MainFrame
  <2>6. CASE Background \/ UNCHANGED allVars
    BY <2>1, <2>6, BackgroundFrame DEF allVars, vars, pluginVars, shutdownVars
  <2> QED
    BY <2>3, <2>4, <2>5, <2>6 DEF PluginNext, Page, Busy
<1>3. Spec => []TypeOK
  BY TypeCorrect
<1> QED
  BY <1>1, <1>2, <1>3, PluginTyped, CommunicatorSteps, PTL DEF PluginSpec

\* shutdown() leaves no communicator behind its iterator alive.
LEMMA BehindCorrect == PluginSpec => []Behind
<1>1. PluginInit => Behind
  BY DEF PluginInit, Behind
<1>2. PluginTypeOK /\ MainStage /\ TypeOK /\ Behind /\ [PluginNext]_allVars => Behind'
  <2> SUFFICES ASSUME PluginTypeOK, MainStage, TypeOK, Behind, [PluginNext]_allVars
               PROVE  Behind'
    OBVIOUS
  <2>0. /\ comm \in [Paths -> {"absent", "alive", "joining", "deleted"}]
        /\ communicators \in Seq(Paths)
        /\ \A i \in DOMAIN communicators : communicators[i] \in Paths
    BY ElementOfSeq, LenProperties DEF TypeOK, PluginTypeOK
  <2> DEFINE n == Len(communicators)
  <2>1. ASSUME UNCHANGED <<comm, communicators, next>>, main' = "down" => next = n + 1
        PROVE  Behind'
    BY <2>1 DEF Behind
  <2>2. ASSUME NEW p \in Paths, NEW j \in ApiJobs, ApiCall(p, j) PROVE Behind'
    <3>1. main' # "down" /\ next' = next
      BY <2>2 DEF ApiCall
    <3>2. CASE UNCHANGED <<comm, communicators>>
      BY <2>1, <3>1, <3>2
    <3>3. CASE Construct(p) /\ communicators' = Append(communicators, p)
      <4>1. \A i \in DOMAIN communicators' :
              \/ i \in DOMAIN communicators /\ communicators'[i] = communicators[i]
              \/ i = n + 1
        BY <2>0, <3>3, PushBack
      <4>2. ~(n + 1 < next)
        <5>1. n \in Nat /\ next \in 1 .. n + 1
          BY IteratorTypes
        <5> HIDE DEF n
        <5> QED
          BY <5>1
      <4>3. \A q \in Paths : comm[q] = "deleted" => comm'[q] = "deleted"
        BY <2>0, <3>3 DEF Construct
      <4> HIDE DEF n
      <4> QED
        BY <2>0, <3>1, <4>1, <4>2, <4>3 DEF Behind
    <3> QED
      BY <2>2, <3>2, <3>3 DEF ApiCall, FindOrCreate, vars
  <2>3. CASE DeleteNext
    <3>1. /\ UNCHANGED <<communicators, next>> /\ main' = "join"
          /\ \A q \in Paths : comm[q] = "deleted" => comm'[q] = "deleted"
      BY <2>0, <2>3 DEF DeleteNext, Interrupt, shutdownVars
    <3> QED
      BY <2>0, <3>1 DEF Behind
  <2>4. CASE JoinNext
    <3>1. /\ communicators' = communicators /\ next' = next + 1 /\ main' = "shutdown"
          /\ comm'[communicators[next]] = "deleted"
          /\ \A q \in Paths : comm[q] = "deleted" => comm'[q] = "deleted"
      BY <2>0, <2>4 DEF JoinNext, Joined, MainStage
    <3>2. \A i \in DOMAIN communicators : i < next + 1 => i < next \/ i = next
      <4>1. DOMAIN communicators = 1 .. n /\ next \in Nat /\ n \in Nat
        BY IteratorTypes
      <4> HIDE DEF n
      <4> QED
        BY <4>1
    <3> QED
      BY <2>0, <3>1, <3>2 DEF Behind
  <2>5. CASE \/ \E c \in Configurations : Configure(c)
             \/ Devices \/ Shutdown \/ EnumerateLock \/ EnumerateReturns
             \/ EnumerateThrows \/ ApiPut \/ ShutdownReturns
    <3>1. main' = "down" => next = n + 1
      BY <2>5 DEF Configure, Devices, Shutdown, EnumerateLock, EnumerateReturns,
           EnumerateThrows, ApiPut, ShutdownReturns
    <3> QED
      BY <2>1, <2>5, <3>1, MainFrame
  <2>6. CASE Background \/ UNCHANGED allVars
    <3>1. UNCHANGED <<comm, communicators, next, main>>
      BY <2>6, BackgroundFrame DEF allVars, vars, pluginVars, shutdownVars
    <3> QED
      BY <3>1 DEF Behind
  <2> QED
    BY <2>2, <2>3, <2>4, <2>5, <2>6 DEF PluginNext, Page, Busy
<1> QED
  BY <1>1, <1>2, TypeCorrect, PluginTyped, CommunicatorSteps, PTL DEF PluginSpec

\* No communicator is interrupted or deleted before its turn.
LEMMA AheadCorrect == PluginSpec => []Ahead
<1>1. PluginInit => Ahead
  BY DEF PluginInit, Ahead, UsedWhileThere
<1>2. PluginTypeOK /\ MainStage /\ TypeOK /\ RegisteredOnce /\ Ahead
        /\ [PluginNext]_allVars => Ahead'
  <2> SUFFICES ASSUME PluginTypeOK, MainStage, TypeOK, RegisteredOnce, Ahead,
                      [PluginNext]_allVars
               PROVE  Ahead'
    OBVIOUS
  <2> DEFINE n == Len(communicators)
  <2>0. /\ comm \in [Paths -> {"absent", "alive", "joining", "deleted"}]
        /\ communicators \in Seq(Paths)
        /\ \A i \in DOMAIN communicators : communicators[i] \in Paths
        /\ DOMAIN communicators = 1 .. n /\ n \in Nat /\ next \in Nat
        /\ next \in 1 .. n + 1
    BY ElementOfSeq, LenProperties, IteratorTypes DEF TypeOK, PluginTypeOK
  <2> HIDE DEF n
  <2> USE DEF shutdownVars
  <2>1. ASSUME UNCHANGED <<comm, communicators, next, target>>,
               main' = main \/ {main, main'} \cap {"put", "shutdown", "join", "down"} = {}
        PROVE  Ahead'
    BY <2>1 DEF Ahead, UsedWhileThere
  <2>2. CASE Shutdown \/ ShutdownReturns \/ ApiPut
    <3>1. /\ UNCHANGED <<comm, communicators, next>>
          /\ \/ main = "idle" /\ main' = "shutdown"
             \/ main = "shutdown" /\ main' = "down"
             \/ main = "put" /\ main' = "idle"
      BY <2>2 DEF Shutdown, ShutdownReturns, ApiPut, Put, vars
    <3>2. \A i \in next .. n : i \in DOMAIN communicators /\ (i > next \/ i = next)
      BY <2>0
    <3> QED
      BY <3>1, <3>2 DEF Ahead, UsedWhileThere, n
  <2>3. ASSUME NEW p \in Paths, NEW j \in ApiJobs, ApiCall(p, j) PROVE Ahead'
    <3>1. /\ main = "idle" /\ main' = "put" /\ next' = next /\ next = 1
          /\ target'[1] = p
      BY <2>3 DEF ApiCall, Ahead
    <3>2. CASE Registered(p) /\ UNCHANGED <<comm, communicators>>
      <4>1. PICK i \in DOMAIN communicators : communicators[i] = p
        BY <3>2 DEF Registered
      <4>2. i > next \/ i = next
        BY <2>0, <3>1, <4>1
      <4>3. comm[p] = "alive"
        BY <3>1, <4>1, <4>2 DEF Ahead
      <4> QED
        BY <3>1, <3>2, <4>3 DEF Ahead, UsedWhileThere
    <3>3. CASE Construct(p) /\ communicators' = Append(communicators, p)
      <4>1. \A i \in DOMAIN communicators' :
              \/ i \in DOMAIN communicators /\ communicators'[i] = communicators[i]
              \/ communicators'[i] = p
        BY <2>0, <3>3, PushBack
      <4>2. comm'[p] = "alive" /\ \A q \in Paths : comm[q] = "alive" => comm'[q] = "alive"
        BY <2>0, <3>3 DEF Construct
      <4> QED
        BY <2>0, <3>1, <4>1, <4>2 DEF Ahead, UsedWhileThere
    <3> QED
      BY <2>3, <3>2, <3>3 DEF ApiCall, FindOrCreate, vars
  <2>4. CASE DeleteNext
    <3>1. /\ UNCHANGED <<communicators, next>> /\ main = "shutdown" /\ main' = "join"
          /\ next \in DOMAIN communicators
          /\ comm'[communicators[next]] = "joining"
          /\ \A q \in Paths : q # communicators[next] => comm'[q] = comm[q]
      BY <2>0, <2>4 DEF DeleteNext, Interrupt
    <3>2. \A i \in DOMAIN communicators : i > next => communicators[i] # communicators[next]
      <4>1. \A i \in DOMAIN communicators : i > next => i # next
        BY <2>0
      <4> QED
        BY <3>1, <4>1 DEF RegisteredOnce
    <3> QED
      BY <2>0, <3>1, <3>2 DEF Ahead, UsedWhileThere
  <2>5. CASE JoinNext
    <3>1. /\ communicators' = communicators /\ next' = next + 1
          /\ main = "join" /\ main' = "shutdown" /\ next \in DOMAIN communicators
          /\ \A q \in Paths : q # communicators[next] => comm'[q] = comm[q]
      BY <2>0, <2>5 DEF JoinNext, Joined, MainStage
    <3>2. \A i \in DOMAIN communicators :
            i > next + 1 \/ i = next + 1 =>
              i > next /\ communicators[i] # communicators[next]
      <4>1. \A i \in DOMAIN communicators : i > next + 1 \/ i = next + 1 => i > next /\ i # next
        BY <2>0
      <4> QED
        BY <3>1, <4>1 DEF RegisteredOnce
    <3>3. \A i \in DOMAIN communicators :
            i > next + 1 \/ i = next + 1 => comm'[communicators[i]] = "alive"
      BY <2>0, <3>1, <3>2 DEF Ahead
    <3>4. \A i \in next + 1 .. n :
            i \in DOMAIN communicators /\ (i > next + 1 \/ i = next + 1)
      BY <2>0
    <3> QED
      BY <3>1, <3>3, <3>4 DEF Ahead, UsedWhileThere, n
  <2>6. CASE \/ \E c \in Configurations : Configure(c)
             \/ Devices \/ EnumerateLock \/ EnumerateReturns \/ EnumerateThrows
    <3>1. /\ UNCHANGED <<comm, communicators, next, target>>
          /\ main \in {"idle", "lock", "enumerating"}
          /\ main' \in {"idle", "lock", "enumerating"}
      BY <2>6 DEF Configure, Devices, EnumerateLock, EnumerateReturns,
           EnumerateThrows, OtherLocks, OtherUnlocks, vars
    <3> QED
      BY <2>1, <3>1
  <2>7. CASE Background \/ UNCHANGED allVars
    BY <2>1, <2>7, BackgroundFrame DEF allVars, vars, pluginVars
  <2> QED
    BY <2>2, <2>3, <2>4, <2>5, <2>6, <2>7 DEF PluginNext, Page, Busy
<1> QED
  BY <1>1, <1>2, TypeCorrect, PluginTyped, RegistrationCorrect, CommunicatorSteps, PTL
     DEF PluginSpec

\* Jobs are put to live communicators only, and each is deleted once.
THEOREM UseCorrect == PluginSpec => []UsedWhileThere
<1>1. Ahead => UsedWhileThere
  BY DEF Ahead
<1> QED
  BY <1>1, AheadCorrect, PTL

\* When shutdown() has returned, no thread runs and no handle is open.
THEOREM ShutdownCorrect == PluginSpec => []ShutdownReleases
<1>1. PluginTypeOK /\ RegisteredOnce /\ Behind /\ Lifecycle /\ HandleOwned
        => ShutdownReleases
  <2> SUFFICES ASSUME PluginTypeOK, RegisteredOnce, Behind, Lifecycle, HandleOwned,
                      main = "down", NEW p \in Paths
               PROVE  pc[p] \in {"none", "done"} /\ ~channel[p] /\ ~live[p]
    BY DEF ShutdownReleases
  <2>1. \A i \in DOMAIN communicators : comm[communicators[i]] = "deleted"
    <3> DEFINE n == Len(communicators)
    <3>1. DOMAIN communicators = 1 .. n /\ n \in Nat /\ next = n + 1
      BY IteratorTypes DEF Behind
    <3>2. \A i \in DOMAIN communicators : i < next
      <4> HIDE DEF n
      <4> QED
        BY <3>1
    <3> QED
      BY <3>2 DEF Behind
  <2>2. comm[p] \in {"absent", "deleted"}
    BY <2>1 DEF RegisteredOnce, Registered
  <2>3. pc[p] \in {"none", "done"}
    BY <2>2 DEF Lifecycle
  <2> QED
    BY <2>3 DEF HandleOwned
<1> QED
  BY <1>1, PluginTypeCorrect, RegistrationCorrect, BehindCorrect, LifecycleCorrect,
     HandleCorrect, CommunicatorSteps, PTL
=============================================================================
