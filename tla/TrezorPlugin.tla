---------------------------- MODULE TrezorPlugin ----------------------------
(***************************************************************************)
(* The browser's main thread: PluginAPI's configure, devices, call and     *)
(* close (src/apis.cpp) and the BitcoinTrezorPlugin they act on            *)
(* (src/plugin.cpp), composed with the DeviceCommunicators it owns.  The   *)
(* thread runs one API call at a time; the consumer threads, the devices   *)
(* and the clock of DeviceCommunicator run beside it.                      *)
(***************************************************************************)
EXTENDS DeviceCommunicator

CONSTANTS
  MainThread,       \* the only other user of hidapi_mutex
  Configurations,   \* the signed configurations a page may load
  NoConfiguration,  \* _configuration before the first configure()
  Allowed,          \* those whose URL lists accept this page
  KnownPaths,       \* KnownPaths[c]: where a device matches c.known_devices
  WireOf,           \* WireOf[c]: the message definitions of c.wire_protocol
  NoWire,           \* descriptor_pool has none
  SerialOf          \* SerialOf[p]: the serial number of the device at path p

ASSUME OnlyMain == Others = {MainThread}
ASSUME Configured ==
  /\ NoConfiguration \notin Configurations
  /\ Allowed \subseteq Configurations
  /\ KnownPaths \in [Configurations -> SUBSET Paths]
  /\ \A c \in Configurations : WireOf[c] # NoWire
  /\ DOMAIN SerialOf = Paths

VARIABLES
  main,            \* where the main thread stands
  target,          \* the path and job of the API call it is in
  communicators,   \* BitcoinTrezorPlugin::_communicators
  next,            \* shutdown()'s iterator over it
  offered,         \* the paths of the DeviceAPI objects the page holds
  configuration,   \* BitcoinTrezorPlugin::_configuration
  wire             \* what descriptor_pool holds

shutdownVars == <<communicators, next>>
configVars == <<configuration, wire>>
pluginVars == <<main, target, shutdownVars, offered, configVars>>
allVars == <<vars, pluginVars>>

ApiJobs == Calls \cup CloseJobs     \* PluginAPI registers no "open"
NoTarget == <<>>

PluginTypeOK ==
  /\ main \in {"idle", "lock", "enumerating", "put", "shutdown", "join", "down"}
  /\ target \in (Paths \X ApiJobs) \cup {NoTarget}
  /\ communicators \in Seq(Paths)
  /\ next \in 1 .. Len(communicators) + 1
  /\ offered \subseteq Paths
  /\ configuration \in Configurations \cup {NoConfiguration}
  /\ wire \in {WireOf[c] : c \in Configurations} \cup {NoWire}

PluginInit ==
  /\ Init
  /\ main = "idle"
  /\ target = NoTarget
  /\ communicators = <<>>
  /\ next = 1
  /\ offered = {}
  /\ configuration = NoConfiguration
  /\ wire = NoWire

-----------------------------------------------------------------------------
(* configure and devices.                                                  *)

\* load_protobuf: BuildFile's result is ignored, and it refuses definitions of
\* what the pool, which lives as long as the process, already defines.
LoadProtobuf(c) == wire' = IF wire = NoWire THEN WireOf[c] ELSE wire

\* Where the page is does not change: its URL matches no pattern of the
\* blacklist and one of the whitelist, or it does not.
Authenticate(c) == c \in Allowed

\* BitcoinTrezorPlugin::configure of one that has not expired; everything that
\* throws does so before anything changes.
Store(c) ==
  /\ Authenticate(c)
  /\ LoadProtobuf(c)
  /\ configuration' = c

\* PluginAPI::configure, when the signature is good.
Configure(c) ==
  /\ main = "idle"
  /\ Store(c)
  /\ UNCHANGED <<vars, main, target, shutdownVars, offered>>

\* devices() authenticates against the stored configuration ...
Devices ==
  /\ main = "idle"
  /\ Authenticate(configuration)
  /\ main' = "lock"
  /\ UNCHANGED <<vars, target, shutdownVars, offered, configVars>>

\* ... and enumerate() locks hidapi_mutex.
EnumerateLock ==
  /\ main = "lock"
  /\ OtherLocks(MainThread)
  /\ main' = "enumerating"
  /\ UNCHANGED <<target, shutdownVars, offered, configVars>>

\* The known devices among those hid_enumerate lists; one that does not give
\* its product string is skipped.
Matching == {p \in KnownPaths[configuration] : present[p]}
Duplicit(found) == \E p, q \in found : p # q /\ SerialOf[p] = SerialOf[q]

\* Faulty: hidapi_mutex is not unlocked when no known device was found.
ReturnsLocked ==
  /\ main = "enumerating"
  /\ \E found \in SUBSET Matching :
       /\ ~Duplicit(found)
       /\ offered' = offered \cup found
       /\ IF found = {} THEN UNCHANGED vars ELSE OtherUnlocks(MainThread)
  /\ main' = "idle"
  /\ UNCHANGED <<target, shutdownVars, configVars>>

EnumerateReturns ==
  /\ main = "enumerating"
  /\ \E found \in SUBSET Matching :
       /\ ~Duplicit(found)
       /\ offered' = offered \cup found
  /\ OtherUnlocks(MainThread)
  /\ main' = "idle"
  /\ UNCHANGED <<target, shutdownVars, configVars>>

\* "Duplicit devices detected" leaves enumerate() with hidapi_mutex locked;
\* devices() turns the exception into a script error.
EnumerateThrows ==
  /\ main = "enumerating"
  /\ \E found \in SUBSET Matching : Duplicit(found)
  /\ main' = "idle"
  /\ UNCHANGED <<vars, target, shutdownVars, offered, configVars>>

-----------------------------------------------------------------------------
(* call and close, and shutdown.                                           *)

Registered(p) == \E i \in DOMAIN communicators : communicators[i] = p

\* Faulty: the new communicator is not kept.
CreateUnregistered(p) ==
  IF Registered(p) THEN UNCHANGED <<vars, communicators>>
  ELSE Construct(p) /\ UNCHANGED communicators

\* communicator(): the one of this path, or a new one.
FindOrCreate(p) ==
  IF Registered(p) THEN UNCHANGED <<vars, communicators>>
  ELSE Construct(p) /\ communicators' = Append(communicators, p)

\* PluginAPI::call and close, with a DeviceAPI that devices() once returned.
ApiCall(p, j) ==
  /\ main = "idle"
  /\ p \in offered
  /\ Unissued(j)
  /\ FindOrCreate(p)
  /\ target' = <<p, j>>
  /\ main' = "put"
  /\ UNCHANGED <<next, offered, configVars>>

ApiPut ==
  /\ main = "put"
  /\ Put(target[1], target[2])
  /\ target' = NoTarget
  /\ main' = "idle"
  /\ UNCHANGED <<shutdownVars, offered, configVars>>

Shutdown ==
  /\ main = "idle"
  /\ main' = "shutdown"
  /\ UNCHANGED <<vars, target, shutdownVars, offered, configVars>>

\* Faulty: shutdown leaves without waiting for the last thread.
DeleteUnlessLast ==
  /\ main = "shutdown"
  /\ next \in DOMAIN communicators
  /\ Interrupt(communicators[next])
  /\ IF next < Len(communicators)
       THEN main' = "join" /\ UNCHANGED next
       ELSE main' = "down" /\ next' = next + 1
  /\ UNCHANGED <<target, communicators, offered, configVars>>

\* delete *it: interrupt the thread ...
DeleteNext ==
  /\ main = "shutdown"
  /\ next \in DOMAIN communicators
  /\ Interrupt(communicators[next])
  /\ main' = "join"
  /\ UNCHANGED <<target, shutdownVars, offered, configVars>>

\* Faulty: the iterator stays where it is.
JoinStays ==
  /\ main = "join"
  /\ Joined(communicators[next])
  /\ main' = "shutdown"
  /\ UNCHANGED <<target, shutdownVars, offered, configVars>>

\* ... and wait for its end before the next communicator's turn.
JoinNext ==
  /\ main = "join"
  /\ Joined(communicators[next])
  /\ next' = next + 1
  /\ main' = "shutdown"
  /\ UNCHANGED <<target, communicators, offered, configVars>>

\* The vector keeps its dangling pointers; no API call follows.
ShutdownReturns ==
  /\ main = "shutdown"
  /\ next = Len(communicators) + 1
  /\ main' = "down"
  /\ UNCHANGED <<vars, target, shutdownVars, offered, configVars>>
-----------------------------------------------------------------------------
Busy == EnumerateLock \/ EnumerateReturns \/ EnumerateThrows \/ ApiPut
        \/ DeleteNext \/ JoinNext \/ ShutdownReturns

Page ==
  \/ \E c \in Configurations : Configure(c)
  \/ Devices
  \/ \E p \in Paths, j \in ApiJobs : ApiCall(p, j)
  \/ Shutdown

Background ==
  /\ \E p \in Paths : Consume(p) \/ TimeOut(p) \/ SpuriousWakeup(p) \/ Device(p)
  /\ UNCHANGED pluginVars

PluginNext == Page \/ Busy \/ Background

\* The scheduler runs every thread, and the main thread finishes what it has
\* begun; a call that polls for ever sees the time pass; the HID library's
\* thread runs.  No device is assumed to answer, no user to plug anything in,
\* and no mutex to be fair: strong fairness is for the clock alone, which is
\* only asked each time a poll has come back empty.
PluginFairness ==
  /\ WF_allVars(Busy)
  /\ \A p \in Paths :
       /\ WF_allVars(Consume(p) /\ UNCHANGED pluginVars)
       /\ WF_allVars(Receive(p) /\ UNCHANGED pluginVars)
       /\ SF_allVars(TimeOut(p) /\ UNCHANGED pluginVars)

PluginSpec == PluginInit /\ [][PluginNext]_allVars
FairPluginSpec == PluginSpec /\ PluginFairness
-----------------------------------------------------------------------------
(* Properties.                                                             *)

\* A communicator the main thread turns to is there: the one a job is put to,
\* those shutdown() has still to delete, the one it is joining; none has been
\* interrupted or deleted before its turn (plugin.cpp:44-48, 149-163, 188-192).
UsedWhileThere ==
  /\ main = "put" => comm[target[1]] = "alive"
  /\ main = "shutdown" =>
       \A i \in next .. Len(communicators) : comm[communicators[i]] = "alive"
  /\ main = "join" => comm[communicators[next]] = "joining"

\* Every communicator there is was registered, once, and so will be deleted.
RegisteredOnce ==
  /\ \A p \in Paths : comm[p] # "absent" <=> Registered(p)
  /\ \A i, k \in DOMAIN communicators : communicators[i] = communicators[k] => i = k

\* "any threads ... should be released here so that this object can be safely
\* destroyed" (plugin.cpp:50-53): when shutdown() has returned no thread runs
\* and no handle is open.
ShutdownReleases ==
  main = "down" =>
    \A p \in Paths : pc[p] \in {"none", "done"} /\ ~channel[p] /\ ~live[p]

\* "Lists allowed device objects" (apis.cpp:74-76): devices() comes back with
\* a list or an exception, again and again.
DevicesReturns == main = "lock" ~> main = "idle"

\* With use_timeout every communicator's jobs get done, be its device silent,
\* gone or in the hands of other threads' calls (devices.cpp:36-56), unless
\* the page lists the devices again and again: hidapi_mutex is not fair, and
\* each devices() may take it just before a call polls once more.
CallsGetDone == []<>(main = "lock") \/ BacklogClears

\* "any threads ... should be released here so that this object can be safely
\* destroyed" (plugin.cpp:50-53): shutdown() returns, whatever the devices do
\* to calls with use_timeout.
ShutdownEnds == main = "shutdown" ~> main = "down"
=============================================================================
