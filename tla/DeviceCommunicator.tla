------------------------- MODULE DeviceCommunicator -------------------------
(***************************************************************************)
(* One DeviceCommunicator per HID path: the JobQueue it owns               *)
(* (src/plugin.h), its consumer thread with the DeviceJobExecutor that     *)
(* opens, uses and closes the HID handle (src/plugin.cpp), the             *)
(* DeviceChannel and HIDBuffer calls a job makes (src/devices.cpp), and    *)
(* the process-wide hidapi_mutex around every call into the HID library.   *)
(*                                                                         *)
(* One step is one critical section, one call into the HID library or one  *)
(* decision of the thread.  A protocol message travels as one element: its *)
(* division into 63-byte reports is the business of DeviceChannel.  The    *)
(* device answers what it was asked, in order, when it pleases, if at all. *)
(***************************************************************************)
EXTENDS Naturals, Sequences, Functions

CONSTANTS
  Paths,          \* the HID paths
  TimedCalls,     \* call jobs submitted with use_timeout = true
  UntimedCalls,   \* call jobs submitted with use_timeout = false
  OpenJobs,       \* DeviceOpenJob
  CloseJobs,      \* DeviceCloseJob
  NoJob,          \* the executor has no job in hand
  Others,         \* other threads that take hidapi_mutex
  Nobody,         \* hidapi_mutex is free
  HostMayReject,  \* BOOLEAN: may FB::JSObject::InvokeAsync throw?
  HastyErrors     \* BOOLEAN: may hid_read_timeout return -1 with a report
                  \* to be read, as on a Mac (Mac/hid.c:849-850, 881-882)?

Calls == TimedCalls \cup UntimedCalls
Jobs == Calls \cup OpenJobs \cup CloseJobs

ASSUME JobKinds ==
  /\ TimedCalls \cap UntimedCalls = {}
  /\ Calls \cap OpenJobs = {}
  /\ Calls \cap CloseJobs = {}
  /\ OpenJobs \cap CloseJobs = {}
  /\ NoJob \notin Jobs
ASSUME MutexOwners == /\ Nobody \notin Paths \cup Others
                      /\ Paths \cap Others = {}
ASSUME HostChoice == HostMayReject \in BOOLEAN /\ HastyErrors \in BOOLEAN

\* Why a job ended in the error callback: the exception that ended it.  The
\* HastyReadError is a ReadError as well: one that left a reply unread.
Causes == {"OpenError", "ReadTimeout", "ReadError", "HastyReadError",
           "WriteError", "MessageError", "InvokeError"}
Success(j) == [kind |-> "success", info |-> j]
Error(c) == [kind |-> "error", info |-> c]
\* No callback at all: thread_interrupted, or the error callback threw too.
Lost == [kind |-> "lost", info |-> NoJob]
Verdicts == {Success(j) : j \in Jobs \cup {NoJob}}
            \cup {Error(c) : c \in Causes} \cup {Lost}

VARIABLES
  comm,          \* comm[p]: "absent", "alive", "joining" or "deleted"
  queue,         \* queue[p]: JobQueue::_queue
  issued,        \* issued[p]: every job put on the queue (history)
  answered,      \* answered[p]: finished jobs and verdicts (history)
  pc,            \* pc[p]: where the consumer thread stands
  job,           \* job[p]: the job in the visitor's hands
  verdict,       \* verdict[p]: what the visitor is about to report
  interrupted,   \* interrupted[p]: the thread's interruption request
  buffer,        \* buffer[p]: does _buffer own a HIDBuffer?
  channel,       \* channel[p]: does _channel own a DeviceChannel?
  live,          \* live[p]: hid_open_path's handle is open and its device is there
  inbox,         \* inbox[p]: replies the handle has received (input_reports)
  hidapi_mutex,  \* its owner, or Nobody
  present,       \* present[p]: the device is plugged in
  requests,      \* requests[p]: requests the device has still to answer
  replies        \* replies[p]: answers in the device, on their way out

queueVars  == <<queue, issued>>
threadVars == <<pc, job, verdict, interrupted, answered>>
handleVars == <<buffer, channel, live, inbox>>
deviceVars == <<present, requests, replies>>
vars == <<comm, queueVars, threadVars, handleVars, hidapi_mutex, deviceVars>>

\* The consumer is inside, or waiting to enter, a call into the HID library.
HidPcs == {"open", "purge", "write", "read", "hid_error", "close", "unwind"}
Pcs == HidPcs \cup {"none", "take", "wait", "woken", "visit", "prepare",
                    "polled", "answer", "done"}
Executing == {"visit", "open", "purge", "prepare", "write", "read", "polled",
              "hid_error", "close", "answer"}

TypeOK ==
  /\ comm \in [Paths -> {"absent", "alive", "joining", "deleted"}]
  /\ queue \in [Paths -> Seq(Jobs)]
  /\ issued \in [Paths -> Seq(Jobs)]
  /\ answered \in [Paths -> Seq([job : Jobs, verdict : Verdicts])]
  /\ pc \in [Paths -> Pcs]
  /\ job \in [Paths -> Jobs \cup {NoJob}]
  /\ verdict \in [Paths -> Verdicts]
  /\ interrupted \in [Paths -> BOOLEAN]
  /\ buffer \in [Paths -> BOOLEAN]
  /\ channel \in [Paths -> BOOLEAN]
  /\ live \in [Paths -> BOOLEAN]
  /\ inbox \in [Paths -> Seq(Calls)]
  /\ hidapi_mutex \in Paths \cup Others \cup {Nobody}
  /\ present \in [Paths -> BOOLEAN]
  /\ requests \in [Paths -> Seq(Calls)]
  /\ replies \in [Paths -> Seq(Calls)]

Unissued(j) == \A p \in Paths : \A k \in DOMAIN issued[p] : issued[p][k] # j

Init ==
  /\ comm = [p \in Paths |-> "absent"]
  /\ queue = [p \in Paths |-> <<>>]
  /\ issued = [p \in Paths |-> <<>>]
  /\ answered = [p \in Paths |-> <<>>]
  /\ pc = [p \in Paths |-> "none"]
  /\ job = [p \in Paths |-> NoJob]
  /\ verdict = [p \in Paths |-> Lost]
  /\ interrupted = [p \in Paths |-> FALSE]
  /\ buffer = [p \in Paths |-> FALSE]
  /\ channel = [p \in Paths |-> FALSE]
  /\ live = [p \in Paths |-> FALSE]
  /\ inbox = [p \in Paths |-> <<>>]
  /\ hidapi_mutex = Nobody
  /\ present \in [Paths -> BOOLEAN]
  /\ requests = [p \in Paths |-> <<>>]
  /\ replies = [p \in Paths |-> <<>>]

-----------------------------------------------------------------------------
(* The main thread: constructor, close/open/call, destructor.              *)

Goto(p, s) == pc' = [pc EXCEPT ![p] = s]

\* The constructor starts the consumer thread.
Construct(p) ==
  /\ comm[p] = "absent"
  /\ comm' = [comm EXCEPT ![p] = "alive"]
  /\ Goto(p, "take")
  /\ UNCHANGED <<queueVars, job, verdict, interrupted, answered, handleVars,
                 hidapi_mutex, deviceVars>>

\* Faulty: put() without notify_one().
SilentWake(p) == UNCHANGED pc

\* notify_one(), or the interruption of a waiting thread.
Wake(p) == pc' = [pc EXCEPT ![p] = IF @ = "wait" THEN "woken" ELSE @]

\* DeviceCommunicator::close, open and call: JobQueue::put under its lock.
Put(p, j) ==
  /\ comm[p] = "alive"
  /\ Unissued(j)
  /\ queue' = [queue EXCEPT ![p] = Append(@, j)]
  /\ issued' = [issued EXCEPT ![p] = Append(@, j)]
  /\ Wake(p)
  /\ UNCHANGED <<comm, job, verdict, interrupted, answered, handleVars,
                 hidapi_mutex, deviceVars>>

\* Faulty: the request is recorded, the waiting thread is not woken.
InterruptAsleep(p) ==
  /\ comm[p] = "alive"
  /\ comm' = [comm EXCEPT ![p] = "joining"]
  /\ interrupted' = [interrupted EXCEPT ![p] = TRUE]
  /\ UNCHANGED <<queueVars, pc, job, verdict, answered, handleVars, hidapi_mutex,
                 deviceVars>>

\* The destructor: _thread.interrupt() ...
Interrupt(p) ==
  /\ comm[p] = "alive"
  /\ comm' = [comm EXCEPT ![p] = "joining"]
  /\ interrupted' = [interrupted EXCEPT ![p] = TRUE]
  /\ Wake(p)
  /\ UNCHANGED <<queueVars, job, verdict, answered, handleVars, hidapi_mutex,
                 deviceVars>>

\* ... and _thread.join(), after which the queue is destroyed.
Joined(p) ==
  /\ comm[p] = "joining"
  /\ pc[p] = "done"
  /\ comm' = [comm EXCEPT ![p] = "deleted"]
  /\ queue' = [queue EXCEPT ![p] = <<>>]
  /\ UNCHANGED <<issued, threadVars, handleVars, hidapi_mutex, deviceVars>>

-----------------------------------------------------------------------------
(* The consumer thread: JobQueue::take.                                    *)

\* Faulty: the job is forgotten before it is reported.
ReportForgotten(p, v) ==
  /\ answered' = [answered EXCEPT ![p] = Append(@, [job |-> NoJob, verdict |-> v])]
  /\ job' = [job EXCEPT ![p] = NoJob]

\* The visitor of job[p] is over: the history gets the verdict.
Report(p, v) ==
  /\ answered' = [answered EXCEPT ![p] = Append(@, [job |-> job[p], verdict |-> v])]
  /\ job' = [job EXCEPT ![p] = NoJob]

Throw(p) ==    \* boost::thread_interrupted, which clears the request
  /\ Goto(p, "unwind")
  /\ interrupted' = [interrupted EXCEPT ![p] = FALSE]

TakeJob(p) ==
  /\ pc[p] = "take"
  /\ queue[p] # <<>>
  /\ queue' = [queue EXCEPT ![p] = Tail(@)]
  /\ job' = [job EXCEPT ![p] = Head(queue[p])]
  /\ Goto(p, "visit")
  /\ UNCHANGED <<comm, issued, verdict, interrupted, answered, handleVars,
                 hidapi_mutex, deviceVars>>

\* The queue is empty: _cond.wait(lock), an interruption point.
TakeWait(p) ==
  /\ pc[p] = "take"
  /\ queue[p] = <<>>
  /\ IF interrupted[p] THEN Throw(p)
                       ELSE Goto(p, "wait") /\ UNCHANGED interrupted
  /\ UNCHANGED <<comm, queueVars, job, verdict, answered, handleVars,
                 hidapi_mutex, deviceVars>>

\* wait() returns, or throws; its caller tests the queue again.
Resume(p) ==
  /\ pc[p] = "woken"
  /\ IF interrupted[p] THEN Throw(p)
                       ELSE Goto(p, "take") /\ UNCHANGED interrupted
  /\ UNCHANGED <<comm, queueVars, job, verdict, answered, handleVars,
                 hidapi_mutex, deviceVars>>

\* A condition variable may also return with no notification.
SpuriousWakeup(p) ==
  /\ pc[p] = "wait"
  /\ Goto(p, "woken")
  /\ UNCHANGED <<comm, queueVars, job, verdict, interrupted, answered,
                 handleVars, hidapi_mutex, deviceVars>>

-----------------------------------------------------------------------------
(* The consumer thread: DeviceJobExecutor and the HID calls it makes.      *)

\* A visitor's try block ends: success, or the exception caught.
Conclude(p, v) ==
  /\ Goto(p, "answer")
  /\ verdict' = [verdict EXCEPT ![p] = v]

Acquire(p) ==
  /\ pc[p] \in HidPcs
  /\ pc[p] = "unwind" => channel[p]
  /\ hidapi_mutex = Nobody
  /\ hidapi_mutex' = p
  /\ UNCHANGED <<comm, queueVars, threadVars, handleVars, deviceVars>>

Release(p) ==
  /\ hidapi_mutex = p
  /\ hidapi_mutex' = Nobody

\* operator()(DeviceCloseJob): the channel, if any, goes before the buffer.
VisitClose(p) ==
  /\ pc[p] = "visit"
  /\ job[p] \in CloseJobs
  /\ IF channel[p]
       THEN Goto(p, "close") /\ UNCHANGED <<verdict, buffer>>
       ELSE /\ Conclude(p, Success(NoJob))
            /\ buffer' = [buffer EXCEPT ![p] = FALSE]
  /\ UNCHANGED <<comm, queueVars, job, interrupted, answered, channel, live,
                 inbox, hidapi_mutex, deviceVars>>

\* operator()(DeviceOpenJob) and (DeviceCallJob): both open on demand.
VisitOpen(p) ==
  /\ pc[p] = "visit"
  /\ job[p] \notin CloseJobs
  /\ buffer' = [buffer EXCEPT ![p] = TRUE]
  /\ IF ~channel[p] THEN Goto(p, "open") /\ UNCHANGED verdict
     ELSE IF job[p] \in OpenJobs THEN Conclude(p, Success(NoJob))
     ELSE Goto(p, "prepare") /\ UNCHANGED verdict
  /\ UNCHANGED <<comm, queueVars, job, interrupted, answered, channel, live,
                 inbox, hidapi_mutex, deviceVars>>

\* DeviceChannel::open: hid_open_path, which may fail with the device there.
HidOpen(p) ==
  /\ pc[p] = "open"
  /\ Release(p)
  /\ \/ /\ present[p]
        /\ live' = [live EXCEPT ![p] = TRUE]
        /\ Goto(p, "purge")
        /\ UNCHANGED verdict
     \/ Conclude(p, Error("OpenError")) /\ UNCHANGED live
  /\ UNCHANGED <<comm, queueVars, job, interrupted, answered, buffer, channel,
                 inbox, deviceVars>>

\* The two feature reports, whose results are ignored.  The second purges
\* the device's FIFOs when it gets there; then _channel holds the channel.
HidPurge(p) ==
  /\ pc[p] = "purge"
  /\ Release(p)
  /\ \/ live[p] /\ replies' = [replies EXCEPT ![p] = <<>>]
     \/ UNCHANGED replies
  /\ channel' = [channel EXCEPT ![p] = TRUE]
  /\ IF job[p] \in OpenJobs THEN Conclude(p, Success(NoJob))
                            ELSE Goto(p, "prepare") /\ UNCHANGED verdict
  /\ UNCHANGED <<comm, queueVars, job, interrupted, answered, buffer, live,
                 inbox, present, requests>>

\* create_message and message_from_map, which throw on a map they dislike.
Prepare(p) ==
  /\ pc[p] = "prepare"
  /\ \/ Goto(p, "write") /\ UNCHANGED verdict
     \/ Conclude(p, Error("MessageError"))
  /\ UNCHANGED <<comm, queueVars, job, interrupted, answered, handleVars,
                 hidapi_mutex, deviceVars>>

\* HIDBuffer::write.  A result of 0..63 throws WriteError; -1 does not: in
\* res < sizeof(chunk) it is converted to size_t and is the largest of all.
HidWrite(p) ==
  /\ pc[p] = "write"
  /\ Release(p)
  /\ \/ /\ live[p]                                            \* all chunks written
        /\ requests' = [requests EXCEPT ![p] = Append(@, job[p])]
        /\ Goto(p, "read")
        /\ UNCHANGED verdict
     \/ /\ live[p]                                            \* a short write
        /\ \/ requests' = [requests EXCEPT ![p] = Append(@, job[p])]
           \/ UNCHANGED requests
        /\ Goto(p, "hid_error")
        /\ verdict' = [verdict EXCEPT ![p] = Error("WriteError")]
     \/ /\ \/ live[p] /\ requests' = [requests EXCEPT ![p] = Append(@, job[p])]
           \/ UNCHANGED requests                              \* -1
        /\ Goto(p, "read")
        /\ UNCHANGED verdict
  /\ UNCHANGED <<comm, queueVars, job, interrupted, answered, buffer, channel,
                 live, inbox, present, replies>>

\* Faulty: the buffer is not shifted after a message was copied out of it.
ReadWithoutShift(p) ==
  /\ pc[p] = "read"
  /\ Release(p)
  /\ \/ inbox[p] # <<>> /\ Conclude(p, Success(Head(inbox[p])))
     \/ /\ inbox[p] = <<>>
        /\ Goto(p, IF live[p] THEN "polled" ELSE "hid_error")
        /\ verdict' = [verdict EXCEPT ![p] = Error("ReadError")]
  /\ UNCHANGED <<comm, queueVars, job, interrupted, answered, handleVars, deviceVars>>

\* Faulty: a message that does not decode stays in the buffer.
ReadKeepsUndecodable(p) ==
  /\ pc[p] = "read"
  /\ Release(p)
  /\ \/ /\ inbox[p] # <<>>
        /\ \/ /\ Conclude(p, Success(Head(inbox[p])))
              /\ inbox' = [inbox EXCEPT ![p] = Tail(@)]
           \/ Conclude(p, Error("MessageError")) /\ UNCHANGED inbox
     \/ /\ inbox[p] = <<>>
        /\ Goto(p, IF live[p] THEN "polled" ELSE "hid_error")
        /\ verdict' = [verdict EXCEPT ![p] = Error("ReadError")]
        /\ UNCHANGED inbox
  /\ UNCHANGED <<comm, queueVars, job, interrupted, answered, buffer, channel,
                 live, deviceVars>>

\* Faulty: res == 0 && !timeout; timed calls never look at the clock.
ReadIgnoresTimeout(p) ==
  /\ pc[p] = "read"
  /\ Release(p)
  /\ \/ /\ inbox[p] # <<>>
        /\ inbox' = [inbox EXCEPT ![p] = Tail(@)]
        /\ Conclude(p, Success(Head(inbox[p])))
     \/ /\ inbox[p] = <<>>
        /\ Goto(p, IF job[p] \in UntimedCalls THEN "polled"
                   ELSE IF live[p] THEN "read" ELSE "hid_error")
        /\ verdict' = [verdict EXCEPT ![p] = Error("ReadError")]
        /\ UNCHANGED inbox
  /\ UNCHANGED <<comm, queueVars, job, interrupted, answered, buffer, channel,
                 live, deviceVars>>

\* HIDBuffer::read, one hid_read_timeout(..., 10) and what its result leads
\* to.  Reports already received are returned even when the device is gone,
\* and a poll may come back empty before that is noticed, which makes a
\* difference only to a call that looks at the clock.  A hasty reader, woken
\* after a last report and the removal, looks at the removal alone; the report
\* stays for the next call, as the channel does.
HidRead(p) ==
  /\ pc[p] = "read"
  /\ Release(p)
  /\ \/ /\ inbox[p] # <<>>
        /\ inbox' = [inbox EXCEPT ![p] = Tail(@)]
        /\ \/ Conclude(p, Success(Head(inbox[p])))
           \/ Conclude(p, Error("MessageError"))              \* undecodable
     \/ /\ inbox[p] = <<>>                                    \* res = 0
        /\ live[p] \/ job[p] \in TimedCalls
        /\ Goto(p, IF job[p] \in TimedCalls THEN "polled" ELSE "read")
        /\ UNCHANGED <<inbox, verdict>>
     \/ /\ inbox[p] = <<>>
        /\ ~live[p]                                           \* res = -1
        /\ Goto(p, "hid_error")
        /\ verdict' = [verdict EXCEPT ![p] = Error("ReadError")]
        /\ UNCHANGED inbox
     \/ /\ HastyErrors
        /\ inbox[p] # <<>>
        /\ ~live[p]                                           \* res = -1
        /\ Goto(p, "hid_error")
        /\ verdict' = [verdict EXCEPT ![p] = Error("HastyReadError")]
        /\ UNCHANGED inbox
  /\ UNCHANGED <<comm, queueVars, job, interrupted, answered, buffer, channel,
                 live, deviceVars>>

\* The clock says the time is up; it is asked before the interruption is.
TimeOut(p) ==
  /\ pc[p] = "polled"
  /\ Conclude(p, Error("ReadTimeout"))
  /\ UNCHANGED <<comm, queueVars, job, interrupted, answered, handleVars,
                 hidapi_mutex, deviceVars>>

\* interruption_point() throws: the call ends without any callback.
PollInterrupted(p) ==
  /\ pc[p] = "polled"
  /\ interrupted[p]
  /\ Throw(p)
  /\ Report(p, Lost)
  /\ UNCHANGED <<comm, queueVars, verdict, handleVars, hidapi_mutex, deviceVars>>

PollAgain(p) ==
  /\ pc[p] = "polled"
  /\ ~interrupted[p]
  /\ Goto(p, "read")
  /\ UNCHANGED <<comm, queueVars, job, verdict, interrupted, answered,
                 handleVars, hidapi_mutex, deviceVars>>

\* Faulty: the exception is thrown with the mutex locked.
HidErrorKeepsMutex(p) ==
  /\ pc[p] = "hid_error"
  /\ hidapi_mutex = p
  /\ Goto(p, "answer")
  /\ UNCHANGED <<comm, queueVars, job, verdict, interrupted, answered,
                 handleVars, hidapi_mutex, deviceVars>>

\* hid_error() for the text of the exception already decided on.
HidError(p) ==
  /\ pc[p] = "hid_error"
  /\ Release(p)
  /\ Goto(p, "answer")
  /\ UNCHANGED <<comm, queueVars, job, verdict, interrupted, answered,
                 handleVars, deviceVars>>

\* DeviceChannel::~DeviceChannel: hid_close discards what was received.
HidClose(p) ==
  /\ Release(p)
  /\ channel' = [channel EXCEPT ![p] = FALSE]
  /\ live' = [live EXCEPT ![p] = FALSE]
  /\ inbox' = [inbox EXCEPT ![p] = <<>>]

CloseChannel(p) ==
  /\ pc[p] = "close"
  /\ HidClose(p)
  /\ buffer' = [buffer EXCEPT ![p] = FALSE]
  /\ Conclude(p, Success(NoJob))
  /\ UNCHANGED <<comm, queueVars, job, interrupted, answered, deviceVars>>

\* Faulty: an error callback follows the success callback of the same job.
AnswerTwice(p) ==
  /\ pc[p] = "answer"
  /\ \/ /\ Report(p, verdict[p])
        /\ Goto(p, "take")
        /\ UNCHANGED verdict
     \/ /\ verdict[p].kind = "success"
        /\ answered' = [answered EXCEPT ![p] =
                          Append(@, [job |-> job[p], verdict |-> verdict[p]])]
        /\ Conclude(p, Error("InvokeError"))
        /\ UNCHANGED job
  /\ UNCHANGED <<comm, queueVars, interrupted, handleVars, hidapi_mutex, deviceVars>>

\* InvokeAsync("success") or InvokeAsync("error").  When the first throws, the
\* catch clause tries the second; when that throws, consumer() logs and goes on.
Answer(p) ==
  /\ pc[p] = "answer"
  /\ \/ /\ Report(p, verdict[p])
        /\ Goto(p, "take")
        /\ UNCHANGED verdict
     \/ /\ HostMayReject
        /\ verdict[p].kind = "success"
        /\ Conclude(p, Error("InvokeError"))
        /\ UNCHANGED <<answered, job>>
     \/ /\ HostMayReject
        /\ verdict[p].kind = "error"
        /\ Report(p, Lost)
        /\ Goto(p, "take")
        /\ UNCHANGED verdict
  /\ UNCHANGED <<comm, queueVars, interrupted, handleVars, hidapi_mutex, deviceVars>>

\* consumer() is left: exec's _channel and then its _buffer are destroyed.
UnwindChannel(p) ==
  /\ pc[p] = "unwind"
  /\ channel[p]
  /\ HidClose(p)
  /\ UNCHANGED <<comm, queueVars, threadVars, buffer, deviceVars>>

\* Faulty: _buffer is destroyed before the _channel that borrows it.
ThreadEndsBufferFirst(p) ==
  /\ pc[p] = "unwind"
  /\ buffer' = [buffer EXCEPT ![p] = FALSE]
  /\ Goto(p, "done")
  /\ UNCHANGED <<comm, queueVars, job, verdict, interrupted, answered, channel,
                 live, inbox, hidapi_mutex, deviceVars>>

ThreadEnds(p) ==
  /\ pc[p] = "unwind"
  /\ ~channel[p]
  /\ buffer' = [buffer EXCEPT ![p] = FALSE]
  /\ Goto(p, "done")
  /\ UNCHANGED <<comm, queueVars, job, verdict, interrupted, answered, channel,
                 live, inbox, hidapi_mutex, deviceVars>>

-----------------------------------------------------------------------------
(* What is outside: the device, its USB link, other users of the mutex.    *)

DeviceReplies(p) ==
  /\ present[p]
  /\ requests[p] # <<>>
  /\ requests' = [requests EXCEPT ![p] = Tail(@)]
  /\ replies' = [replies EXCEPT ![p] = Append(@, Head(requests[p]))]
  /\ UNCHANGED <<comm, queueVars, threadVars, handleVars, hidapi_mutex, present>>

\* The HID library's own thread moves a reply to the open handle.
Receive(p) ==
  /\ live[p]
  /\ replies[p] # <<>>
  /\ replies' = [replies EXCEPT ![p] = Tail(@)]
  /\ inbox' = [inbox EXCEPT ![p] = Append(@, Head(replies[p]))]
  /\ UNCHANGED <<comm, queueVars, threadVars, buffer, channel, live,
                 hidapi_mutex, present, requests>>

\* The device is pulled out with all it holds; a handle stays open but dead.
Unplug(p) ==
  /\ present[p]
  /\ present' = [present EXCEPT ![p] = FALSE]
  /\ live' = [live EXCEPT ![p] = FALSE]
  /\ requests' = [requests EXCEPT ![p] = <<>>]
  /\ replies' = [replies EXCEPT ![p] = <<>>]
  /\ UNCHANGED <<comm, queueVars, threadVars, buffer, channel, inbox,
                 hidapi_mutex>>

Plug(p) ==
  /\ ~present[p]
  /\ present' = [present EXCEPT ![p] = TRUE]
  /\ UNCHANGED <<comm, queueVars, threadVars, handleVars, hidapi_mutex,
                 requests, replies>>

\* enumerate() on the main thread holds the mutex as well.
OtherLocks(t) ==
  /\ hidapi_mutex = Nobody
  /\ hidapi_mutex' = t
  /\ UNCHANGED <<comm, queueVars, threadVars, handleVars, deviceVars>>

OtherUnlocks(t) ==
  /\ hidapi_mutex = t
  /\ hidapi_mutex' = Nobody
  /\ UNCHANGED <<comm, queueVars, threadVars, handleVars, deviceVars>>

-----------------------------------------------------------------------------
Main(p) ==
  \/ Construct(p)
  \/ \E j \in Jobs : Put(p, j)
  \/ Interrupt(p)
  \/ Joined(p)

\* What consumer() does of its own accord.
Consume(p) ==
  \/ TakeJob(p) \/ TakeWait(p) \/ Resume(p)
  \/ Acquire(p)
  \/ VisitClose(p) \/ VisitOpen(p)
  \/ HidOpen(p) \/ HidPurge(p) \/ Prepare(p)
  \/ HidWrite(p) \/ HidRead(p) \/ PollInterrupted(p) \/ PollAgain(p)
  \/ HidError(p) \/ CloseChannel(p) \/ Answer(p)
  \/ UnwindChannel(p) \/ ThreadEnds(p)

Device(p) == DeviceReplies(p) \/ Receive(p) \/ Unplug(p) \/ Plug(p)

Other(t) == OtherLocks(t) \/ OtherUnlocks(t)

Next ==
  \/ \E p \in Paths : Main(p) \/ Consume(p) \/ TimeOut(p) \/ SpuriousWakeup(p)
                      \/ Device(p)
  \/ \E t \in Others : Other(t)

Spec == Init /\ [][Next]_vars
-----------------------------------------------------------------------------
(* Properties.                                                             *)

\* The communicator is the job service it promises to be: FIFO, one verdict
\* a job, nothing after the destructor has returned (plugin.cpp:188-239).
Service == INSTANCE JobService WITH phase <- comm
ImplementsService == Service!ServiceSpec

\* A thread is never left waiting for the condition variable with a job on
\* the queue or an interruption pending (plugin.h:23-39, plugin.cpp:191).
NoLostWakeup ==
  \A p \in Paths : pc[p] = "wait" => queue[p] = <<>> /\ ~interrupted[p]

\* A call succeeds with the reply to itself, unless an earlier call on the
\* path gave up on an answer that may still come: it timed out, was written
\* only in part, failed with its reply received (on a Mac), or nobody heard of
\* its error.  Until then requests and replies stay in step, through close,
\* open, unplugging and failed writes.
GaveUp == {Error("ReadTimeout"), Error("WriteError"), Error("HastyReadError"), Lost}
InStepUntilGivenUp ==
  \A p \in Paths : \A k \in DOMAIN answered[p] :
    LET done == answered[p][k] IN
      done.job \in Calls /\ done.verdict.kind = "success"
        => \/ done.verdict.info = done.job
           \/ \E i \in 1 .. k - 1 : answered[p][i].verdict \in GaveUp

\* Whatever is given up, late or lost, no reply ever answers two calls.
RepliedOnce ==
  \A p \in Paths : \A i, k \in DOMAIN answered[p] :
    LET one == answered[p][i]
        other == answered[p][k] IN
      /\ i # k
      /\ one.job \in Calls /\ one.verdict.kind = "success"
      /\ other.job \in Calls /\ other.verdict.kind = "success"
      => one.verdict.info # other.verdict.info

\* hidapi_mutex is never held by a thread that is about to wait for anything
\* else: the queue, the browser, its own end (devices.cpp:36-38 and others).
MutexOnlyAroundHid ==
  \A p \in Paths : hidapi_mutex = p => pc[p] \in HidPcs

\* An open handle always has an owner that will close it, the channel never
\* outlives the buffer it borrows, and a finished thread leaves neither.
HandleOwned ==
  \A p \in Paths :
    /\ live[p] => channel[p] \/ pc[p] = "purge"
    /\ channel[p] => buffer[p]
    /\ pc[p] \in {"none", "done"} => ~buffer[p]

\* A communicator that has jobs to do has one day done them all, unless it is
\* being deleted.
BacklogClears ==
  \A p \in Paths :
    comm[p] = "alive" /\ Len(answered[p]) < Len(issued[p])
      ~> comm[p] # "alive" \/ Len(answered[p]) = Len(issued[p])

-----------------------------------------------------------------------------
(* What the properties rest on: the parts of the inductive invariant.      *)

\* The thread's life and the communicator's.
Lifecycle ==
  \A p \in Paths :
    /\ comm[p] = "absent" <=> pc[p] = "none"
    /\ comm[p] = "deleted" => pc[p] = "done"
    /\ pc[p] = "done" => comm[p] \in {"joining", "deleted"}
    /\ interrupted[p] \/ pc[p] = "unwind" => comm[p] = "joining"
    /\ pc[p] \in {"unwind", "done"} => ~interrupted[p]

\* What is finished, in hand and queued is what was issued, in that order.
InHand(p) == IF pc[p] \in Executing THEN 1 ELSE 0
FifoAt(p) ==
  /\ pc[p] \in Executing =>
       /\ Len(answered[p]) < Len(issued[p])
       /\ job[p] = issued[p][Len(answered[p]) + 1]
  /\ comm[p] # "deleted" =>
       /\ Len(issued[p]) = Len(answered[p]) + InHand(p) + Len(queue[p])
       /\ \A k \in 1 .. Len(queue[p]) :
            queue[p][k] = issued[p][Len(answered[p]) + InHand(p) + k]
Fifo == \A p \in Paths : FifoAt(p)

\* Which kind of job is at which stage, and what it may come to.
JobStage ==
  \A p \in Paths :
    /\ pc[p] \in Executing => job[p] \in Jobs
    /\ pc[p] = "close" => job[p] \in CloseJobs
    /\ pc[p] \in {"open", "purge"} => job[p] \notin CloseJobs
    /\ pc[p] \in {"prepare", "write", "read", "polled", "hid_error"}
         => job[p] \in Calls /\ channel[p]
    /\ pc[p] = "hid_error" =>
         verdict[p] \in {Error("WriteError"), Error("ReadError"), Error("HastyReadError")}

\* The holder of the mutex is in a HID call; to unwind, it has one to make.
MutexHeld ==
  \A p \in Paths : hidapi_mutex = p =>
    pc[p] \in HidPcs /\ (pc[p] = "unwind" => channel[p])

\* Whoever opens a handle has a buffer for the channel to borrow.
OpenerHasBuffer == \A p \in Paths : pc[p] \in {"open", "purge"} => buffer[p]

\* A dead handle's device has nothing more to say.
DeadIsSilent ==
  \A p \in Paths :
    ~live[p] /\ (channel[p] \/ pc[p] = "purge")
      => requests[p] = <<>> /\ replies[p] = <<>>

\* An answer may come that nobody waits for any more.
GivenUp(p) ==
  \/ \E i \in DOMAIN answered[p] : answered[p][i].verdict \in GaveUp
  \/ pc[p] \in {"hid_error", "answer"} /\ verdict[p] \in GaveUp

Underway(p) == Len(requests[p]) + Len(replies[p]) + Len(inbox[p])

InStepAt(p) ==
  ~GivenUp(p) =>
    /\ Underway(p) <= IF pc[p] \in {"read", "polled"} THEN 1 ELSE 0
    /\ \A k \in DOMAIN requests[p] : requests[p][k] = job[p]
    /\ \A k \in DOMAIN replies[p] : replies[p][k] = job[p]
    /\ \A k \in DOMAIN inbox[p] : inbox[p][k] = job[p]
    /\ pc[p] = "answer" /\ job[p] \in Calls /\ verdict[p].kind = "success"
         => verdict[p].info = job[p]
InStep == \A p \in Paths : InStepAt(p)

\* Every job is put once and finished once, in its turn.
IssuedOnce(p) ==
  /\ IsInjective(issued[p])
  /\ Len(answered[p]) <= Len(issued[p])
  /\ \A k \in DOMAIN answered[p] : answered[p][k].job = issued[p][k]

\* The jobs whose request the device may have seen.
Asked(p) ==
  {answered[p][k].job : k \in DOMAIN answered[p]}
    \cup IF pc[p] \in {"read", "polled", "hid_error", "answer"} THEN {job[p]} ELSE {}

\* The replies that are on their way, in the visitor's hands, and used up.
OnTheWay(p) == Range(requests[p]) \cup Range(replies[p]) \cup Range(inbox[p])
InHands(p) ==
  IF pc[p] = "answer" /\ job[p] \in Calls /\ verdict[p].kind = "success"
  THEN {verdict[p].info} ELSE {}
IsReply(done) == done.job \in Calls /\ done.verdict.kind = "success"
UsedUp(p) == {answered[p][k].verdict.info : k \in {i \in DOMAIN answered[p] : IsReply(answered[p][i])}}

\* A reply is in one place, and comes from a call that was made.
InOnePlace(p) ==
  /\ IsInjective(requests[p]) /\ IsInjective(replies[p]) /\ IsInjective(inbox[p])
  /\ Range(requests[p]) \cap Range(replies[p]) = {}
  /\ Range(requests[p]) \cap Range(inbox[p]) = {}
  /\ Range(replies[p]) \cap Range(inbox[p]) = {}
  /\ OnTheWay(p) \cap InHands(p) = {}
  /\ (OnTheWay(p) \cup InHands(p)) \cap UsedUp(p) = {}
  /\ OnTheWay(p) \cup InHands(p) \cup UsedUp(p) \subseteq Asked(p)
=============================================================================
