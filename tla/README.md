# Trezor plug-in: TLA+ specifications

The repository is a browser plug-in (FireBreath, C++) through which a web page
talks to Trezor hardware wallets over USB HID. This directory holds its
specifications: modules, TLC configurations, and proofs checked by TLAPS.

## The system

| Part | Code | State | Operations |
|---|---|---|---|
| JavaScript API | `apis.cpp` | none of its own | `configure`, `devices`, `call`, `close` and `deriveChildNode`, on the browser's main thread |
| Plug-in object | `plugin.cpp` | `_configuration`, `_communicators` | `configure`, `authenticate`, `enumerate`, `communicator`, `shutdown` |
| Communicator and job queue | `plugin.h`, `plugin.cpp` | `_queue`, the condition variable, the consumer thread, the executor's `_buffer` and `_channel` | constructor, `put`, `take`, `consumer`, the visitors for close, open and call, destructor |
| HID channel | `devices.cpp` | `_buffer`, `_buffer_length`, the HID handle; the process-wide `hidapi_mutex` | open, `read`, `write`, `read_header`, close |
| HID library, Linux | `X11/hid.c` | a read thread, a libusb transfer and a list of reports a handle | `hid_open_path`, `hid_read_timeout`, `hid_write`, `hid_close`, the transfer callback |
| HID library, Mac OS X | `Mac/hid.c` | a CFRunLoop thread with two barriers a handle, a list of reports | the same |
| HID library, Windows | `Win/hid.c` | one overlapped read and its event a handle | the same |
| Enumeration | `hid_enumerate` of the three libraries, `plugin.cpp` | the list it builds | `hid_enumerate`, `enumerate`'s choice among its records |
| Message conversion | `messages.cpp` | `descriptor_pool`, `message_factory` | `load_protobuf`, `create_message`, conversions to and from JavaScript maps |
| Signature, encodings, derivation | `utils.cpp`, part of `apis.cpp` | none | pure functions over OpenSSL, Boost, trezor-crypto |

How they interact. The main thread calls the API one call at a time. A call on a
device finds or makes the communicator of its path and puts a job on its queue,
under the queue's lock; the callbacks come later, through `InvokeAsync`, from the
communicator's consumer thread. That thread takes one job at a time and goes
down through the channel into the HID library, every call into it under
`hidapi_mutex`, which `enumerate` takes as well. The HID library runs a thread of
its own per handle (Linux, Mac), which shares a list of reports with the reader.
`shutdown` deletes the communicators one after another: interrupt, then join.

What is hard here: interruption racing with the queue's condition variable and
with the polling read; a mutex that a polling thread gives up only to ask for it
again; exceptions thrown between a `lock` and an `unlock`; answers that come
after their call has timed out; devices that vanish at any moment; callbacks of
one handle run by the thread of another; bytes that must be aligned again after
a read was given up in the middle of a message; a read that outlives the call
that started it; units that come and go while they are listed; definitions of
messages that change under a call. `PROJECT.json` lists each
hazard at its line with the properties that are about it.

What makes each part correct:

* communicator: first in, first out; one verdict a job; nothing after the
  destructor; no lost wake-up; a reply answers the call it belongs to; handles
  are closed; the mutex is never kept across a wait; jobs and the destructor end;
* plug-in: one communicator a path, used as long as it is there; all gone when
  `shutdown` returns; `devices` and `shutdown` return;
* channel: what is on the wire is the message; nothing is made up of pieces; the
  buffer is not overrun;
* HID library: reports in order, an error only when nothing is left to read, the
  transfer freed when nobody has it, a pending read never forgotten, `hid_close`
  returns;
* enumeration: a descriptor that leads to a unit tells the truth about it, a known
  unit that stays is found once, only twins are duplicit;
* conversion: what the device sends back is what the page sent, what does not
  fit is refused, and what came from the device can be sent to it again.

## Modules

| Module | Models | Abstracts |
|---|---|---|
| `JobService` | what a communicator promises the API | threads, handle, device |
| `DeviceCommunicator` | queue, consumer thread, visitors, HID calls, `hidapi_mutex`, the device | bytes: a message is one element |
| `TrezorPlugin` | the main thread: API and plug-in object, composed with all communicators | signature, expiry and URL checks: a configuration is allowed or changes nothing |
| `TrezorPluginProofs` | theorems about the above and `DeviceCommunicator` | |
| `DeviceChannel` | framing, buffering, alignment of the bytes | threads, mutex |
| `DeviceChannelProofs` | theorems about the above | |
| `HidHandle` | what an open HID handle promises its reader | libusb, threads |
| `HidLibusb` | `X11/hid.c` | contents of reports: the n-th report is the number n |
| `HidLibusbProofs` | theorems about the above | |
| `MacHid` | `Mac/hid.c` | the same; the run loop is external |
| `MacHidProofs` | theorems about the above | |
| `WinHid` | `Win/hid.c` | the same; the kernel is external |
| `WinHidProofs` | theorems about the above | |
| `SequenceFacts` | lemmas on queues that the other proofs share | |
| `HidEnumerate` | `hid_enumerate` on each platform and `BitcoinTrezorPlugin::enumerate` | usages, releases, manufacturers; listing is one step |
| `HidEnumerateProofs` | theorems about the above | |
| `Messages` | `messages.cpp`, hexadecimal digits, `deriveChildNode` | the widths 32 and 64 are parameters, as is how deep messages are in messages; the wire encoding of protobuf |
| `MessagesProofs` | theorems about the above | |
| `MC*` | finite instances for TLC | |

`TrezorPlugin` extends `DeviceCommunicator`; `DeviceCommunicator` implements
`JobService` (`ImplementsService`), and `HidLibusb`, `MacHid` and `WinHid` implement
`HidHandle` (`ImplementsHandle`), each by a refinement mapping. Each action of
`TrezorPlugin` is written as one of `DeviceCommunicator` with what the main thread
does at the same time, so what is proved of the communicators holds of them
inside the plug-in (`CommunicatorSteps`). That the main thread only turns to
communicators that are there is not in the writing: it is `UsedWhileThere`.

### DeviceCommunicator

`comm[p]` follows the C++ object of path `p`; `pc[p]` says where its thread
stands. One step is one critical section, one HID call or one decision. A thread
at one of `HidPcs` first `Acquire`s `hidapi_mutex`, and the step that makes the
call releases it.

* `take`, `wait`, `woken`: `JobQueue::take`. The test of the queue and going to
  sleep are one step, since the lock is held; waiting for the condition variable
  is the only interruption point, so a thread with jobs on its queue takes them
  although it has been interrupted.
* `visit`, `open`, `purge`, `prepare`, `write`, `read`, `polled`, `hid_error`,
  `close`: the visitors. `polled` is the moment after an empty poll, in which a
  call with `use_timeout` looks at the clock (`TimeOut`) and then at the
  interruption request (`PollInterrupted`). A call without a time-out looks at
  neither.
* `answer`: the callbacks. When the success callback throws, the catch clause
  calls the error callback; when that throws as well, the consumer logs it and
  takes the next job: the verdict is `Lost`.
* `unwind`: the executor is destroyed, the channel before the buffer.

The device (external) answers what it was asked, in order, when it pleases, if at
all; it may be pulled out (its pending requests and answers are gone, the handle
is dead) and put back. A handle whose device is gone may for a while still poll
empty; that matters only to a timed call and is allowed only there. The
several-report loop in `HIDBuffer::write` is one step: it may deliver the request
and still fail, or go on to read with the request not delivered (`DeviceChannel` has
the loop). A read may fail with a reply already received, where the library allows
it, as on a Mac (`HastyErrors`, with the cause `HastyReadError`): the channel stays,
and so does the reply, which the next call on it may take for its own. Each job is put once, on one path. History variables (`issued`,
`answered`) are read by no guard except the one that keeps jobs unique.

### TrezorPlugin

`main` is the API call the main thread is in. `devices` is `Devices`, then
`EnumerateLock`, then `EnumerateReturns` or `EnumerateThrows`; the latter leaves
`hidapi_mutex` locked, as the code does. `call` and `close` are `ApiCall` (find or
make the communicator) and `ApiPut`; `shutdown` alternates `DeleteNext` and
`JoinNext`. The page may call only with a device that `devices` has returned. The
plug-in stores a configuration (`Store`) only if it has not expired and allows this
page (`Authenticate`); `devices` asks the stored one again about the page, but
nobody looks at the time again: a stored configuration outlives its
`valid_until`. The plug-in never submits a `DeviceOpenJob`: the kind exists in `plugin.h` and is
modelled in `DeviceCommunicator`. `wire` is what `descriptor_pool` holds:
`load_protobuf` ignores a refused file, so a second configuration with another
wire protocol is stored while the first one's messages stay in force.

### DeviceChannel

Bytes are numbers below `Base`, a report has `ChunkSize` data bytes and a first
byte that counts them. `OutBytes` is what `DeviceChannel::write` puts together,
through `htons` and `htonl`, and `Wire` what the device expects; the two are
written independently. The code shifts the bytes out of what `htons` and `htonl`
return, lowest first, which is the order of the wire only where these two swap
bytes: `LittleEndian`. `WriteChunk` is one pass of the loop: the report goes out, or
is `Lost`, when `hid_write` returns -1, which `devices.cpp:101` does not take for less
than 64. `WriteFails` is the result from 0 to 63, for which it throws. The device
(external) sends whole messages cut in three ways: padded and counted in full,
padded and counted exactly, or short. A read may be given up at any point
(`TimeOut`). `DeviceChannel::read` compares a length with `BUFFER_SIZE`
(`devices.cpp:156`), and nothing else keeps reports within `_buffer`: when one has
been written behind its end (`Overrun`), what the program does is undefined, and the
model reads no further.

### HidLibusb

One job thread a handle calls the library, under `hidapi_mutex` (`Free`), and one
read thread a handle handles libusb's events. All handles share one
`usb_context`, so a thread inside libusb, be it a read thread or one in the
synchronous `hid_write`, may run the callback of any transfer; libusb (external)
lets one of them at a time, and `libusb_handle_events` returns after a callback.
A callback that has set `cancelled` or submitted its transfer is not over
(`handler.stage` is `returning`): other threads see what it has set before it returns
(`CallbackReturns`), and may end, join and free meanwhile.
`transfer[d]` is the life of the transfer: `pending`, `cancelling`, then in the
callback `completed`, `resubmit` or `final`, then `pending` again or
`unsubmitted`. Critical sections of `dev->mutex` are one step. A report is
identified by its number, so that an order or a loss can be seen.

### MacHid

The same shape without libusb: `thread[d]` is the read thread and its run loop
(`run` handles things, `asleep` waits for one), which calls back for reports
(`Report`), for the removal of the device (`Removal`) and for the source that
`hid_close` signals (`PerformSignal`); the latter two stop it. `Meet` is a pass of one
of the home-made barriers: the first to come is parked, the second frees both. A
barrier waits for its condition without a loop, so a spurious wake-up would let
its first party through early; the module takes the condition to have none. A
woken reader looks at the flags before the list: an error may come before a
report that is left, which `HidHandle` allows with `HastyErrors`.

### WinHid

There is no thread but the job's. `io[d]` is the one overlapped read of a handle:
`none`, `pending` (the kernel has it), `done` or `failed` (it has ended and waits to
be fetched). A read that times out (`WaitExpires`) leaves it pending, and the next
call takes it up (`ResumeRead`). `event[d]` resets itself when it wakes a thread; a
read without a time-out that has ended before anyone waited leaves it signalled,
which is why `StartRead` resets it. `hid_open_path` makes the event, opens the file
(`OpenDevice`), gets the preparsed data and then what it wants of them; each may fail,
and `owned[d]` follows what has been got and not yet given back. The kernel (external) keeps the newest `RingSize` reports of a
handle nobody reads. A report that a read already holds is no longer among those
the driver may drop: `HidHandle`'s `Held` is 1 here, 0 in the other libraries.

### HidEnumerate

One step is one question to the system: open the interface, read its
identifiers, its path, its serial number, its product string. Between any two of
them the user may plug units in or pull them out. `answers` says whether the
object or handle at hand still tells anything; on a Mac an IOHIDDevice whose unit
is gone may or may not know its properties, independently each time it is asked.
A string of a unit that is there is always read: single failing transfers are
left out. Paths are what they lead to: an interface on Linux and Windows, on a Mac
a unit (the location is in them, the interface is not), or nowhere. `Orders[S]` are the
orders the system may list the interfaces of the units `S` in; nothing is assumed of
them but that each interface is listed once. Then `Skipped`, `Known` and `Duplicit`
are the three filters of `BitcoinTrezorPlugin::enumerate`. `TrezorPlugin` has the
same function as one step that finds any of the known units.

### Messages

A field has a kind, may be repeated, and has a type of its own when it is an
enumeration or a message; a value is a pair of its kind and its content. A map, and
the content of a message, is a function on all names, `Unset` where it has nothing.
What the code does by recursion over the messages in a message (`message_from_map`,
`message_to_map`) is a recursive function of the depth: level `n + 1` of `FromMaps` and
`ToMaps` calls level `n` for what is inside (`inner`). `Depth` bounds it.
`ParseSingle` asks `convert_cast` for the kind of value its field needs (`Asked`), and
`Cast` is what that gives: the value itself if it is of this kind, or else what
`Conversions` makes of a number, a truth value or a text, or an exception. FireBreath's
source is not in the repository; the module leaves open which values it converts
and into what. Maps and lists are converted to nothing else, and numbers are whole.
`ParseSingle` and `ParseElement` differ as `parse_single_field` and
`parse_repeated_field` do: 64-bit elements go through `int` and `unsigned int`.
`SerializeRepeated` has no case for them, and takes strings and bytes with the
accessor of single fields, which protobuf refuses: the page gets an error. `Call`,
`Read` and `Respond` are the three steps of a call that touch messages; between
them the main thread may load another configuration: `Configure` begins, and each
`LoadProtobuf` builds one of its files (`loading` holds the rest), which the pool takes
whole or not at all. So a call may begin with half of a configuration, and end with
all of it. The device (external) sends back what it got or
sends a message of its own. `DeriveChildNode` copies as many bytes as a node has
from strings that may be shorter; what lies behind them may be anything. An index
with the highest bit set has no public child: `hdnode_public_ckd` says so, nobody
listens (`apis.cpp:112`), and the node itself comes back.

## What the runs show

| Run | Instance | Shows |
|---|---|---|
| `CommOnePath` | one path; a timed call, an untimed call, an open, a close; the main thread at the mutex; callbacks may throw, errors may be hasty | all safety of a communicator and `ImplementsService` |
| `PluginSafe` | two devices with equal serial numbers; a timed call and a close | the plug-in's safety |
| `PluginLive` | two devices, each present or absent for good; two timed calls | `DevicesReturns`, `ShutdownEnds`, `CallsGetDone` |
| `UsbTwoDevices` | two handles, two reports each, every error of libusb | safety across handles and `ImplementsHandle` |
| `UsbLive` | one handle that keeps 3 reports and is sent 5 | `CloseReturns`, `DisconnectNoticed`, `ImplementsHandle` when the list overflows |
| `MacHandle` | one handle that keeps 3 reports and is sent 5 | all of `MacHid` |
| `WinHandle` | two handles, a driver that keeps 2 reports and is sent 4 | all of `WinHid` |
| `Enumerate` | three platforms; a TREZOR with a debug link, one without, one that may not be opened and a keyboard; two orders | all of `HidEnumerate` |
| `Messages` | messages with a field of every kind alone, repeated and nested twice; integers of 2 and 4 bits; four configurations | all of `Messages` |
| `ChannelBytes` | four byte values, reports of 4 bytes, three messages, with and without magic characters in them, one of which the buffer has no room for when it is padded; reports that get lost | framing in both directions |
| `PluginDuplicit`, `UsbLostCancel` | | two of the disagreements below |

Why the bounds are enough. A job's treatment depends on its kind, on the channel
it finds and on what earlier calls left on their way: one job of each kind, in
every order, with a stale reply before it, covers those. Paths share nothing
but `hidapi_mutex`, so a second contender (a second path in the plug-in runs, the
main thread in `CommOnePath`) is what there is to add. In `HidLibusb` a third
handle adds only another thread that may run a callback. The list of reports keeps
`Reached + 2` reports, 32 in the code; 3 in the runs, which is enough to be
empty, partly full, full and overflowing. In `DeviceChannel` a piece may end on,
before and after each boundary of a report with the body lengths 0 to 3. The
buffer of 9 bytes is the smallest that `HeaderFits` allows: 6 bytes of a header
and 3 of the report it ends in. A body of 9 bytes has an accepted length, and its
last report, padded, ends 3 bytes behind the buffer. `HastyErrors` is off in the
plug-in runs, whose properties a cause of an error does not touch.

In `WinHid` two handles share nothing but `hidapi_mutex`; four reports fill the
driver's ring of two while one is in a read and one has been taken. In
`HidEnumerate` two interfaces of one unit, two units of one kind and a foreign one
are what the filters tell apart; `Serial` is distinct for the two TREZORs, so that
`DuplicitMeansTwins` says that nothing is thrown. In `Messages` the two widths must
differ and have values at, inside and beyond the ends of both; lists have up to
two elements, so that their order shows. `TestConversions` makes texts and truth
values of numbers and the other way round, and nothing of texts without digits;
the indices are two that have a child and one that has not.

Devices keep their place in `PluginLive` only to keep its state graph small.
`CallsGetDone` excepts a page that lists the devices for ever: `hidapi_mutex` is not
fair. `UsbLive` assumes that the device does not vanish
between `hid_open_path`'s first call and the first submission and that no second
handle is open. With `UnplugWhileOpening` the read thread of a device that vanished
before the first submission waits for ever (`X11/hid.c:732`); `UsbLostCancel` shows
what a second handle can do.

`NothingMadeUp` is stated for messages whose type, length and body hold no `#`:
after a read that was given up, alignment looks for `##` and a message that contains
it can be mistaken for another. For the same reason `BufferFits` says of any
messages only that an overrun takes an accepted length which leaves no room for a
report, and of messages without a `#` that the device has sent one of this length.

Fairness. Weak fairness for each thread's next step: the operating system runs
it. Strong fairness for `TimeOut`, since the clock is asked anew after each empty
poll, and a poll takes 10 ms; and for the delivery of finished transfers by
libusb, since the threads that could get it go in and out of libusb. `MacHandle`
does without the run loop's time-out of 1000 seconds (`RunTimesOut`). None for
`hidapi_mutex`: a polling thread may take it again at once. The liveness
properties hold all the same because every call in those runs is timed. In `WinHid`
weak fairness for a job thread inside the library, whose waits end by the clock or
the event, but in `hid_write` only once the device is gone: nothing makes a device
take a report. None for the device, the user or the page.

### Disagreements between code and documentation

* `PluginDuplicit`: `enumerate` throws with `hidapi_mutex` locked
  (`plugin.cpp:136`).
* `UsbLostCancel`: the read thread waits for `cancelled`, which only a callback
  sets, although no callback will come (`X11/hid.c:757`).

Seen while modelling and left without a run:

* an untimed call to a silent device looks at neither the clock nor the
  interruption, so `shutdown()`, which should release "any threads"
  (`plugin.cpp:50-53`), waits for it for ever (`devices.cpp:48`); `ShutdownEnds` is
  about timed calls;
* `res < sizeof(chunk)` compares as unsigned and does not see the -1 that
  `hidapi.h:200-201` promises: after a failed write the call waits for an answer to
  what was never sent, or after some of its reports (`devices.cpp:101`); `HidWrite`
  and `WriteChunk` have that step;
* a length is checked against the 2048 bytes of `_buffer` ("check length looks
  valid before allocating", `devices.cpp:155`), but reports are buffered whole: the
  last one of a message of 1987 to 2048 bytes may end behind `_buffer`
  (`devices.cpp:44-45`); `BufferFits` says that this is the only way;
* on a Mac a read may fail with a report left (`Mac/hid.c:849-850`); the channel is
  kept, so that a later call reads an earlier one's reply; `InStepUntilGivenUp`
  counts the failed call among those that were given up;
* `deriveChildNode` ("Derives BIP32 child node", `apis.cpp:100`) with an index whose
  highest bit is set returns the node it was given, with no error (`apis.cpp:112`);
* "debug interface should be skipped already" (`plugin.cpp:133`) is false on a Mac,
  where `interface_number` is -1 (`Mac/hid.c:490`): one TREZOR with a debug link is
  two devices with one serial number, and `enumerate` throws; two units that go
  while they are listed have both an empty serial number and the same effect;
* an answer with a non-empty repeated string or bytes field, or with a repeated
  64-bit field, always ends in an error (`messages.cpp:185-208`);
* the expiry of a configuration is looked at only by `configure`
  (`plugin.cpp:59-63`);
* `hid_write` on Windows waits without a limit under `hidapi_mutex`
  (`Win/hid.c:636`), and with it everyone else.

`take()` is "a termination point"
(`plugin.h:31`) only when the queue is empty; the list of reports keeps 32, not the
30 of `X11/hid.c:676` and `Mac/hid.c:596`; `load_protobuf` drops `BuildFile`'s result;
`libusb_submit_transfer`'s first result is not looked at (`X11/hid.c:732`); on the
Mac, `hid_close` may call `IOHIDDeviceClose` for a device that went away after its
callbacks were unregistered, although "calling IOHIDDeviceClose() will crash"
(`Mac/hid.c:997-1002`).

## Proofs

`TrezorPluginProofs` proves of the communicators, for any sets of paths, jobs and
other threads:

| Theorem | Says |
|---|---|
| `TypeCorrect` | `Spec => []TypeOK` |
| `WakeupCorrect` | `Spec => []NoLostWakeup` |
| `MutexCorrect` | `Spec => []MutexOnlyAroundHid` |
| `HandleCorrect` | `Spec => []HandleOwned` |
| `ServiceImplemented` | `Spec => ImplementsService` |
| `StepCorrect` | `Spec => []InStepUntilGivenUp` |
| `RepliesCorrect` | `Spec => []RepliedOnce` |

and of the plug-in that has them, for any devices, configurations and API calls:

| Theorem | Says |
|---|---|
| `PluginTypeCorrect` | `PluginSpec => []PluginTypeOK` |
| `UseCorrect` | `PluginSpec => []UsedWhileThere` |
| `RegistrationCorrect` | `PluginSpec => []RegisteredOnce` |
| `ShutdownCorrect` | `PluginSpec => []ShutdownReleases` |

Assumptions: `JobKinds` (the kinds of jobs are disjoint, `NoJob` is none),
`MutexOwners` (nobody is a thread, and the main thread is no consumer), `HostChoice`;
for the plug-in also `OnlyMain` (the main thread is the only other thread) and
`Configured` (known devices are at paths, accepted configurations are
configurations).

The inductive invariant is the conjunction of parts, proved one on top of
another. `TypeOK` is not inductive alone: a call that reads appends its job to
histories of calls, so it needs `JobStage` (which kind of job is at which stage).
`Lifecycle` ties the thread to its communicator: an interrupted thread is being
joined, a deleted one is done. `MutexOnlyAroundHid` needs `MutexHeld`: a thread
that unwinds holds the mutex only while it still has a channel to close.
`HandleOwned` needs `OpenerHasBuffer`: whoever is opening has the buffer the
channel will borrow. The refinement needs `Fifo`: what is answered, in hand and
queued is, in this order, what was issued; its `FifoAt` is about one path, so that
the lemmas `FifoPut`, `FifoTake` and `FifoReport` treat the three steps that move a
job, and `FifoFrame` all others (`QuietStep`). With it, `Answer` and
`PollInterrupted` are `JobService`'s `Finish`, and every other step is a submission,
a deletion or a stutter.

`InStepUntilGivenUp` needs `InStep`: as long as nothing was given up, at most one
request or reply is on its way, only while its call waits, and it is that
call's. Why a `ReadError` leaves nothing behind is `DeadIsSilent`: a handle that
is open on a device that went away has no reply to come. It does not say that
none has been received: a read that fails all the same, as on a Mac, ends in
`HastyReadError`, and its call counts as given up. `InStepAt` is about one
path; `StaysIdle` treats the steps of a thread that waits for no reply,
`WriteInStep`, `ReadInStep`, `ReportInStep` and `DeviceInStep` the ones that move a
message, `OtherPaths` and `InStepFrame` the rest.

`RepliedOnce` holds after a call was given up, too, and rests on other parts.
`IssuedOnce` says that every job is put once and that the k-th answer is the k-th
job's, so no request is sent twice. `InOnePlace` follows a reply: the requests the
device has, its replies, what the HID library has received, the success a visitor
has in hand and those that were reported are disjoint, none holds a reply twice, and
all come from calls that were made. Each of the steps that move a reply takes it
from one of these places and adds it to another.

In the plug-in, `MainStage` (a put has its target, a join its thread, an
enumeration its configuration) makes every step of the main thread a step of the
communicators. `UsedWhileThere` needs `Ahead`: the communicators `shutdown`'s iterator
has before it are alive, and until `shutdown` begins those are all. All theorems about
communicators then hold of the plug-in:
`ShutdownReleases` follows from `Behind` (what `shutdown`'s iterator has passed is
deleted), `RegisteredOnce` (and there is nothing else), `Lifecycle` (what is deleted
has no thread) and `HandleOwned` (what has no thread has no handle).

The three HID libraries are proved for any number of handles and reports:

| Module | Theorem | Says |
|---|---|---|
| `HidLibusbProofs` | `UsbTypeCorrect` | `Spec => []TypeOK` |
| | `ReadersWoken` | `Spec => []NoReaderLeftAsleep` |
| | `TransferFreed` | `Spec => []FreedWhenDone` |
| | `UsbHandleImplemented` | `Spec => ImplementsHandle` |
| `MacHidProofs` | `MacTypeCorrect` | `Spec => []TypeOK` |
| | `MacReadersWoken` | `Spec => []NoReaderLeftAsleep` |
| | `RunLoopStopped` | `Spec => []RunLoopThere` |
| | `MacHandleImplemented` | `Spec => ImplementsHandle` |
| `WinHidProofs` | `WinTypeCorrect` | `Spec => []TypeOK` |
| | `ReadsCorrect` | `Spec => []ReadRemembered` |
| | `ToldCorrect` | `Spec => []ToldWhenOver` |
| | `WinHandleImplemented` | `Spec => ImplementsHandle` |

Assumptions: `Bounds` of each module (lengths are numbers, a driver keeps a
report at least), and `NotAHandler` of `HidLibusb` (`Idle` is no callback).

Each rests on one inductive invariant at the end of its model, `UsbInv`, `MacInv` or
`WinInv`: `TypeOK` and a `Sound(d)` about each handle. The part `NewestSent` is in all
three, and the refinements need it: the newest report of a handle, queued or
just taken, is the newest its device has sent, or else `HidHandle` could not say
that the next is appended in order. The rest is each library's own.

* `UsbInv`: `Lifetime` ties the handle to its read thread; `Cancelled` says that a
  callback which is over for good was the last; `Handled` that a transfer is in its
  callback exactly as long as somebody runs it, on whose behalf so ever;
  `HandlerInside` that a read thread which runs a callback is inside libusb, and so
  cannot end meanwhile. `Handled` ends when the callback has made its last access: a
  transfer may be freed under a callback that is returning, not under one that is
  still going to look at it, and that is what `FreedWhenDone` says.
* `MacInv`: `Lifetime` says that user and thread pass both barriers together;
  `FlagsHold` ties `shutdown_thread` and `disconnected` to whether the thread has left
  its loop, and to whether `hid_close` has unregistered the callbacks.
* `WinInv`: `OwnsWhatItGot` says what `hid_open_path` has got at each of its steps, so
  that what fails half way gives back all of it (it repeats the code's labels, and is
  no property of a run); `Unread` and `Untouched` are about handles that are not open yet;
  `ReadStates` ties `read_pending` to what the kernel has, the place of the caller to
  what became of the read, and the event to a read that is over.

A step of one handle leaves the others as they were (`OthersUntold`; on Linux it
may bring another's read thread back from a callback), so that `TypesKept`,
`InsideKept` and `ControlKept` or `StatesKept`, and `NewestKept` have one handle to look at.
`MappedStates` reads the abstract state off the detailed one, and `StepOfHandle`
names the action of `HidHandle` that each step is, if it is not a stutter.

`HidEnumerateProofs` proves, for any units with any interfaces, any order of the
list and any `known_devices`:

| Theorem | Says |
|---|---|
| `EnumerateInvariant` | `Spec => []EnumerateInv` |
| `IdentityCorrect` | `Spec => []OwnIdentity` |
| `EveryUnitFound` | `Spec => []FoundOnce` |
| `ThrowsForTwins` | `Spec => []DuplicitMeansTwins` |

Assumptions: `EnumerateAssumption` (three platforms, interfaces are numbers) and
`OrderAssumption` (an order lists each interface of the units plugged in, once).
`EnumerateInv` follows an interface through the function. `ListedOnce`: it is to do, in
the record or in the list, in one place at a time. `RecordSound`: while the unit
stays, what has been read is true; when it goes, either the path is nowhere, or the
name is missing, or the identifiers were read before. The last is where the
platforms differ, and why a record made of the uninitialized `attrib` of
`Win/hid.c:375-377` never gets to the page: its handle does not answer for the
product string either. `Listed` and `Collected` say the same of the list and of the
descriptors, whose serial numbers are distinct. `NoneForgotten`: the interface of a
known unit that stays is still somewhere on its way, so that it is in the result
when `enumerate` returns.

`DeviceChannelProofs` proves, for bytes of any base, reports and a buffer of any
size, and messages of any length and content:

| Theorem | Says |
|---|---|
| `WrittenCorrect` | `LittleEndian` implies `Spec => []WrittenWhole` |
| `ReadCorrect` | `LittleEndian` implies `Spec => []ReadInOrder` |
| `NothingInvented` | `LittleEndian` implies `Spec => []NothingMadeUp` |
| `BufferBounded` | `LittleEndian` implies `Spec => []BufferFits` |

Assumptions: `Alphabet` (a byte is below `Base`, `#` is not 0), `MessagesTyped` (a
type has two bytes, a length four) and `HeaderFits` (a header and the report it
ends in have room in the buffer; nothing of the kind is assumed of messages). `LittleEndian` is true of i386 and
x86_64, which the repository's `README.md` and packages build for; on a big-endian
host `htons` returns its argument, and the code would put the lowest byte first on
the wire.

* Numbers: `DigitsUnique` (a number has one quotient and one remainder) gives
  `SplitJoined16` and `SplitJoined32`, and these `Swap16` and `Swap32`: what `htons` and
  `htonl` return has the digits of the argument, reversed. `WrittenAsWire` and
  `HeaderRead` are the two directions.
* Writing: `WriteInv` says that the passes have come to byte `i`, and that each report
  which was not lost is its slice of the padded message (`ChunkWritten`).
* The buffer: `Bounded` says that a body under way has an accepted length, and that
  more than a header or a body and `ChunkSize - 1` bytes is never buffered, so that an
  overrun happens in a long body (`BoundedStep`).
* Reports: `Carry(rs, S, f, e)` says that the reports `rs` carry the bytes of `S` from
  `f[1]` to `e`, whatever their padding. The reports of one message carry it
  (`ReportsCarry`), what is left without the first still carries the rest
  (`TailCarries`), and more reports behind carry more bytes (`BothCarry`).
* Reading: `ReadInv` says that there is a history: all the bytes `S` that have come,
  in which each message has its place `st[j]` and between them are zeros (`Layout`);
  `c` bytes of it have been consumed, and what is buffered and what the unread reports
  carry are the rest (`Buffered`, `Carry`). `Within` says which message is being read
  and how far, `Matched` which ones were received, all of them behind `c`, and
  `Complete` that until a read is given up none of the known ones behind `c` is
  missing. The history is behind an existential quantifier, so that the module
  needs no variable for it; each step of the program has a lemma that says how its
  history goes on (`MessageComes`, `ReportRead`, `Aligned`, `SecondRead`, `HeaderDone`,
  `BodyDone`, `GivenUp`). `MagicPlace` is why alignment recovers: a `#` is the first or
  second byte of a message, as long as none has one elsewhere. TLC checked the
  conjuncts of `History` on the instance of `ChannelBytes`, with history variables in
  place of the quantifier, before they were proved.

`MessagesProofs` proves, for any definitions, maps, messages and nodes, any widths and
any depth of messages in messages:

| Theorem | Says |
|---|---|
| `Invariant` | `Spec => []IInv` |
| `NothingIsAltered` | `Spec => []NothingAltered` |
| `AnswerIsAccepted` | `Spec => []AnswerAccepted` |
| `EchoesComeBack` | `Spec => []EchoComesBack` |
| `DerivationsChain` | `Spec => []DerivationChains` |

Assumptions: `Widths` (64 bits are more than 32), `Nesting` (`Depth` is a number),
`Alphabets` (texts may have hexadecimal digits), `Casts` (what `convert_cast` makes for a
number is a number, and so on), `Definitions` and `Inputs`. `Definitions`
says what a file is: what it calls a message has fields, what it calls an
enumeration has names, only `MessageType` numbers types and no two alike (an answer to
the second would be read as the first), and if it defines `HDNodeType`, the five
fields the plug-in accesses by `GetUInt32` and `GetString` are single ones of these
types; with others protobuf refuses the accessor, as it does in `SerializeRepeated`,
and all that is left out are derivations that fail.
It does not say that files refer to what exists, or that they do not contradict
each other: that `Resolved` holds of the pool is proved, from `BuildFile`. `Inputs`
says that maps are maps, and nothing of what is in them.

* Hexadecimal digits: `DecodeEncode` and `EncodeDecode` are the two directions;
  the second gives the digits in upper case.
* Conversions: `CastCases` and `CastOwn` say that a value of the kind a field asks for
  is taken as it is, and another as what `convert_cast` makes of it. What comes back is
  then like the converted value.
* A value of a field, kind by kind: what is parsed fits the field (`SingleFits`),
  what is serialized can be parsed and gives the same (`SingleReturns`), and what
  comes back for a given value is like it (`SingleAlike`). `FieldFits`,
  `FieldReturns` and `FieldAlike` carry this over to lists and fields that are not set;
  the elements of a list go through 32 bits, and one that gets through is what it was
  (`NarrowIsWithin`).
* Messages in messages: `LevelFits`, `LevelReturns` and `LevelAlike` say these three
  things of all types at one depth. `MessageFits`, `MessageReturns` and `MessageAlike`
  take them from one depth to the next, `EveryLevel` to every depth. The library's
  induction theorem takes an operator and is out of reach, so `DepthInduction` is derived
  from the well-foundedness of the numbers, for a set of depths; and that a recursive
  function is what its definition says is proved for each of the five (`MapsLevel`,
  `FromMapsLevel`, `ToMapsLevel`, `ContentsLevel`, `AlikeLevel`).
* The pool grows: a file adds names and changes none (`FileAdds`), so what a type is
  converted to stays what it is (`LevelGrows`, `ConversionsStay`). That is why a
  configuration that comes between two steps of a call does no harm to it.
* Nodes: `NodeComesBack` says that `message_from_hdnode` and `message_to_hdnode` are
  inverse for strings of a node's sizes, which those of a child are, and of a node that
  has none, whatever was copied from behind the strings of its parent (`ChildIsNode`).

None of the four properties is inductive: each speaks of one stage, and is true of it
for what happened in earlier ones. `IInv` keeps that: the pool is `Sound`; a message
under way is of a type the pool knows and holds what the type allows (`Known`), and if
it is the page's, is what the request became (`Converted`); an answer is what the
message became; a derived node is the map of what was made of a node that was given
(`Derived`). TLC checked `IInv` on the instance of `Messages` before it was proved.

Only model-checked: the liveness properties (`DevicesReturns`, `ShutdownEnds`,
`CallsGetDone`, `CloseReturns`, `DisconnectNoticed`, `CallsReturn`), which are outside the
prover's reach. `Messages` and `DeviceChannel` have no type invariant among their runs:
those check what the values are. The `TypeOK` of `HidEnumerate`, `DeviceChannel` (in
`DeviceChannelProofs`) and the HID libraries is proved and has no run.

## Not modelled, and the plan

Every safety property that a run checks is proved. Two hazards have no property: a
spurious wake-up at a Mac barrier and the device that goes between the end of the
callbacks and `IOHIDDeviceClose`, whose effects are outside the repository; and of
`hid_open_path`'s failures on Windows the invariant says what there is to say. What remains of the plan is the
liveness of the communicators and the HID libraries, for more handles and paths than
the runs have.

Left out for good:

* `config.pb.*`: generated by protoc;
* the signature in `utils.cpp`, and `utf8_encode`: one call into OpenSSL and one into
  FireBreath, without a state or a branch that the plug-in goes on from otherwise
  than from an expired configuration;
* `Factory.cpp`: creates the plug-in object and calls `hid_init` and `hid_exit` once;
* trezor-crypto's derivation: a submodule whose source is not here, an external
  function in `Messages`;
* of the HID libraries, what the plug-in never calls: `hid_open`, `hid_set_nonblocking`,
  `hid_get_feature_report`, the strings of an open handle, and `hid_read`, except in
  `WinHid`, where a read without a time-out shares its event with the others;
* build and packaging files: nothing of them runs beside the plug-in.
