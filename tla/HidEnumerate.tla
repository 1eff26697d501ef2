----------------------------- MODULE HidEnumerate -----------------------------
(***************************************************************************)
(* BitcoinTrezorPlugin::enumerate (plugin.cpp) and the hid_enumerate below *)
(* it, one for each platform: X11/hid.c, Mac/hid.c and Win/hid.c.  All run *)
(* under hidapi_mutex on the browser's main thread, but nothing stops the  *)
(* user, who plugs units in and pulls them out between any two of their    *)
(* questions to the system.                                                *)
(*                                                                         *)
(* A unit is a USB device; its HID interfaces are listed one by one, and a *)
(* TREZOR with a debug link has two.  Of a record (hid_device_info) the    *)
(* model keeps what the plug-in reads.  It is read through a handle or an  *)
(* object of the system's that answers while its unit is there.            *)
(***************************************************************************)
EXTENDS Integers, Sequences, FiniteSets, Functions

CONSTANTS
  Platforms,    \* some of "linux", "mac", "windows"
  Units,        \* what can be plugged in
  Interfaces,   \* Interfaces[u]: the numbers of u's HID interfaces
  Vendor,       \* Vendor[u], Product[u]: the identifiers of u
  Product,
  Serial,       \* Serial[u]: its serial number, NULL for a unit without one
  Forbidden,    \* units the user has no right to open
  Orders,       \* Orders[S]: orders the system may list the interfaces of the units S in
  KnownDevices, \* the configuration's known_devices: [vendor, product, serial]
  Unset         \* an optional field that has no value

NULL == "NULL"
Empty == ""

\* Interface i of unit u.
AllInterfaces == UNION {{<<u, i>> : i \in Interfaces[u]} : u \in Units}

ASSUME EnumerateAssumption ==
  /\ Platforms \subseteq {"linux", "mac", "windows"}
  /\ Empty \notin Units
  /\ \A u \in Units : Interfaces[u] # {} /\ Interfaces[u] \subseteq Nat
  /\ Forbidden \subseteq Units
ASSUME OrderAssumption ==
  \A S \in SUBSET Units : \A order \in Orders[S] :
    /\ order \in Seq(AllInterfaces) /\ IsInjective(order)
    /\ Range(order) = {x \in AllInterfaces : x[1] \in S}

VARIABLES
  platform,  \* the platform the plug-in was built for
  plugged,   \* the units that are plugged in
  present,   \* those plugged in ever since the system listed them
  pc,        \* where the main thread stands
  todo,      \* interfaces hid_enumerate has still to look at
  record,    \* the record it is filling in
  answers,   \* does the object or handle it reads from still answer?
  devices,   \* the list hid_enumerate is building or has returned
  result     \* the descriptors enumerate() has collected

busVars  == <<plugged, present>>
readVars == <<record, answers>>
listVars == <<todo, devices, result>>
vars == <<platform, busVars, pc, readVars, listVars>>

\* Where a record's path leads: to an interface, on a Mac to a unit, or nowhere.
Nowhere == <<Empty, -1>>
PathOf(x) == IF platform = "mac" THEN <<x[1], -1>> ELSE x

\* "&mi_" is only in the paths of units with several interfaces; on a Mac the
\* number is not supported.
NumberOf(x) ==
  IF \/ platform = "linux"
     \/ platform = "windows" /\ Interfaces[x[1]] # {x[2]}
  THEN x[2] ELSE -1

IdsOf(u) == <<Vendor[u], Product[u]>>

\* A new record; `of` is the interface it is about.
Blank(x) == [of |-> x, path |-> PathOf(x), ids |-> <<0, 0>>, serial |-> NULL,
             name |-> NULL, number |-> NumberOf(x)]
NoRecord == [of |-> Nowhere]

Init ==
  /\ platform \in Platforms
  /\ plugged \in SUBSET Units
  /\ present = {}
  /\ pc = "idle"
  /\ todo = <<>>
  /\ record = NoRecord
  /\ answers = FALSE
  /\ devices = <<>>
  /\ result = <<>>
-----------------------------------------------------------------------------
(* The user.                                                               *)

\* What becomes of an object or a handle whose unit goes: on a Mac it may still
\* know the unit's properties.
Gone == IF platform = "mac" THEN BOOLEAN ELSE {FALSE}

Plug(u) ==
  /\ u \notin plugged
  /\ plugged' = plugged \cup {u}
  /\ UNCHANGED <<platform, present, pc, readVars, listVars>>

\* Put back, the unit is another one to the objects and handles there are.
Unplug(u) ==
  /\ u \in plugged
  /\ plugged' = plugged \ {u}
  /\ present' = present \ {u}
  /\ answers' \in IF answers /\ record.of[1] = u THEN Gone ELSE {answers}
  /\ UNCHANGED <<platform, pc, record, listVars>>
-----------------------------------------------------------------------------
(* hid_enumerate.                                                          *)

\* hid_init has been done, and the system tells what is plugged in.
ListUnits ==
  /\ pc \in {"idle", "returned"}
  /\ todo' \in Orders[plugged]
  /\ present' = plugged
  /\ devices' = <<>>
  /\ result' = <<>>
  /\ pc' = "next"
  /\ UNCHANGED <<platform, plugged, record, answers>>

ListUsb == platform = "linux" /\ ListUnits

\* After process_pending_events the IOHIDManager knows what is plugged in.
ListManager == platform = "mac" /\ ListUnits

\* The device information set has the interfaces of the HID class that have a
\* driver.
ListClass == platform = "windows" /\ ListUnits

\* hid_init or the listing fails: hid_enumerate returns NULL, the list of no devices.
ListingFails ==
  /\ pc \in {"idle", "returned"}
  /\ present' = {}
  /\ devices' = <<>>
  /\ result' = <<>>
  /\ pc' = "match"
  /\ UNCHANGED <<platform, plugged, readVars, todo>>

\* Faulty: one interface that cannot be opened ends the search.
OpenOrStop(x) ==
  /\ platform = "windows" /\ pc = "next"
  /\ answers' = (x[1] \in plugged \ Forbidden)
  /\ IF answers'
       THEN todo' = Tail(todo) /\ record' = Blank(x) /\ pc' = "ids"
       ELSE todo' = <<>> /\ UNCHANGED <<record, pc>>
  /\ UNCHANGED <<platform, busVars, devices, result>>

\* Windows: what cannot be opened is skipped.  Once its unit is back, a path
\* is good again.
OpenDevice(x) ==
  /\ platform = "windows" /\ pc = "next"
  /\ answers' = (x[1] \in plugged \ Forbidden)
  /\ todo' = Tail(todo)
  /\ IF answers'
       THEN record' = Blank(x) /\ pc' = "ids"
       ELSE UNCHANGED <<record, pc>>
  /\ UNCHANGED <<platform, busVars, devices, result>>

\* HidD_GetAttributes, whose result is ignored: without an answer the local
\* variable attrib, which is not initialized, has what was left there, say the
\* identifiers of another interface.
GetAttributes ==
  /\ platform = "windows" /\ pc = "ids"
  /\ \E attrib \in IF answers THEN {IdsOf(record.of[1])}
                  ELSE {<<0, 0>>} \cup {IdsOf(u) : u \in Units} :
       record' = [record EXCEPT !.ids = attrib]
  /\ pc' = "serial"
  /\ UNCHANGED <<platform, busVars, answers, listVars>>

\* Linux: the record is made of what libusb has read long ago; the strings are
\* left NULL when libusb_open fails.
OpenUsb(x) ==
  /\ platform = "linux" /\ pc = "next"
  /\ answers' = (x[1] \in present \ Forbidden)
  /\ todo' = Tail(todo)
  /\ record' = [Blank(x) EXCEPT !.ids = IdsOf(x[1])]
  /\ pc' = "serial"
  /\ UNCHANGED <<platform, busVars, devices, result>>

\* Mac: the next IOHIDDevice.
TakeReference(x) ==
  /\ platform = "mac" /\ pc = "next"
  /\ answers' \in IF x[1] \in present THEN {TRUE} ELSE Gone
  /\ todo' = Tail(todo)
  /\ record' = Blank(x)
  /\ pc' = "ids"
  /\ UNCHANGED <<platform, busVars, devices, result>>

\* get_vendor_id and get_product_id: 0 when they are missing.
GetIds ==
  /\ platform = "mac" /\ pc = "ids"
  /\ record' = [record EXCEPT !.ids = IF answers THEN IdsOf(record.of[1]) ELSE @]
  /\ pc' = "path"
  /\ UNCHANGED <<platform, busVars, answers, listVars>>

\* make_path: of the transport, the identifiers once more and the location.
MakePath ==
  /\ pc = "path"
  /\ record' = [record EXCEPT !.path = IF answers THEN @ ELSE Nowhere]
  /\ pc' = "serial"
  /\ UNCHANGED <<platform, busVars, answers, listVars>>

\* A string of the unit's, when it has one and still tells it.
UsbString(value) == IF answers THEN value ELSE NULL

\* HidD_GetSerialNumberString and HidD_GetProductString.
WinString(value) == IF answers THEN value ELSE NULL

\* A missing string is an empty one.
MacString(value) == IF answers /\ value # NULL THEN value ELSE Empty

StringOf(value) ==
  CASE platform = "linux" -> UsbString(value)
    [] platform = "windows" -> WinString(value)
    [] platform = "mac" -> MacString(value)

ReadSerial ==
  /\ pc = "serial"
  /\ record' = [record EXCEPT !.serial = StringOf(Serial[record.of[1]])]
  /\ pc' = "product"
  /\ UNCHANGED <<platform, busVars, answers, listVars>>

\* The product string ends the record, and the handle is closed.
ReadProduct ==
  /\ pc = "product"
  /\ devices' = Append(devices, [record EXCEPT !.name = StringOf("TREZOR")])
  /\ record' = NoRecord
  /\ answers' = FALSE
  /\ pc' = "next"
  /\ UNCHANGED <<platform, busVars, todo, result>>

ListComplete ==
  /\ pc = "next"
  /\ todo = <<>>
  /\ pc' = "match"
  /\ UNCHANGED <<platform, busVars, readVars, listVars>>
-----------------------------------------------------------------------------
(* BitcoinTrezorPlugin::enumerate goes through the list.                   *)

\* Faulty: "phantom" devices are not skipped.
SkippedUnlessPhantom(r) == r.number > 0

\* Faulty: the interfaces of the debug link are not skipped.
SkippedIfPhantom(r) == r.name = NULL

Skipped(r) == r.number > 0 \/ r.name = NULL

\* The serial number of a descriptor: "" when there is none.
Shown(serial) == IF serial = NULL THEN Empty ELSE serial

DescriptorOf(r) == [path |-> r.path, vendor |-> r.ids[1], product |-> r.ids[2],
                    serial |-> Shown(r.serial)]

Known(desc) ==
  \E dd \in KnownDevices :
    /\ dd.vendor \in {Unset, desc.vendor}
    /\ dd.product \in {Unset, desc.product}
    /\ dd.serial \in {Unset, desc.serial}

Duplicit(desc) == \E k \in DOMAIN result : result[k].serial = desc.serial

Wanted(r) == ~Skipped(r) /\ Known(DescriptorOf(r))

SkipDevice ==
  /\ pc = "match"
  /\ devices # <<>>
  /\ ~Wanted(Head(devices))
  /\ devices' = Tail(devices)
  /\ UNCHANGED <<platform, busVars, pc, readVars, todo, result>>

TakeDevice ==
  /\ pc = "match"
  /\ devices # <<>>
  /\ LET desc == DescriptorOf(Head(devices)) IN
       /\ Wanted(Head(devices)) /\ ~Duplicit(desc)
       /\ result' = Append(result, desc)
  /\ devices' = Tail(devices)
  /\ UNCHANGED <<platform, busVars, pc, readVars, todo>>

\* "Duplicit devices detected": hidapi_mutex stays locked and the list is
\* lost; what follows is in TrezorPlugin.
ThrowDuplicit ==
  /\ pc = "match"
  /\ devices # <<>>
  /\ Wanted(Head(devices)) /\ Duplicit(DescriptorOf(Head(devices)))
  /\ pc' = "thrown"
  /\ UNCHANGED <<platform, busVars, readVars, listVars>>

\* hid_free_enumeration.
EnumerateReturns ==
  /\ pc = "match"
  /\ devices = <<>>
  /\ pc' = "returned"
  /\ UNCHANGED <<platform, busVars, readVars, listVars>>
-----------------------------------------------------------------------------
LookAtNext ==
  /\ todo # <<>>
  /\ LET x == Head(todo) IN OpenUsb(x) \/ TakeReference(x) \/ OpenDevice(x)

Next ==
  \/ \E u \in Units : Plug(u) \/ Unplug(u)
  \/ ListUsb \/ ListManager \/ ListClass \/ ListingFails
  \/ LookAtNext \/ GetAttributes \/ GetIds \/ MakePath \/ ReadSerial \/ ReadProduct
  \/ ListComplete
  \/ SkipDevice \/ TakeDevice \/ ThrowDuplicit \/ EnumerateReturns

Spec == Init /\ [][Next]_vars
-----------------------------------------------------------------------------
(* Properties.                                                             *)

\* A descriptor by whose path a device can be opened tells the truth about
\* it, but for a serial number that came too late: neither the attributes of
\* another interface (Win/hid.c:375-377) nor identifiers that were missing
\* (Mac/hid.c:190-203) get to the page with it (plugin.cpp:106-121).
OwnIdentity ==
  \A k \in DOMAIN result : LET desc == result[k] IN
    desc.path # Nowhere =>
      /\ <<desc.vendor, desc.product>> = IdsOf(desc.path[1])
      /\ desc.serial \in {Serial[desc.path[1]], Empty}

\* enumerate() finds a known unit that stays plugged in, if not all of it is
\* foreign, and finds it once, by however many of its interfaces and entries of
\* known_devices, whatever comes, goes or refuses to be opened beside it
\* (plugin.cpp:104-142).
Accessible == IF platform = "mac" THEN Units ELSE Units \ Forbidden
KnownUnits ==
  {u \in Units : Known([vendor |-> Vendor[u], product |-> Product[u],
                        serial |-> Shown(Serial[u])])}
Foreign(x) == NumberOf(x) > 0
FoundOnce ==
  pc = "returned" =>
    \A x \in AllInterfaces :
      x[1] \in present \cap Accessible \cap KnownUnits /\ ~Foreign(x) =>
        Cardinality({k \in DOMAIN result : result[k].path[1] = x[1]}) = 1

\* "disallow duplicit serial numbers, debug interface should be skipped
\* already" (plugin.cpp:133): it takes two units with one serial number to make
\* enumerate() throw.  On a Mac the debug interface is enough, and so are two
\* units that go while they are listed: neither is recognised there.
DuplicitMeansTwins ==
  pc = "thrown" /\ platform # "mac" =>
    \E u, v \in KnownUnits : u # v /\ Shown(Serial[u]) = Shown(Serial[v])

-----------------------------------------------------------------------------
(* What the properties rest on: the parts of the inductive invariant.      *)

Reading == {"ids", "path", "serial", "product"}
Serials == {NULL, Empty} \cup {Serial[u] : u \in Units}
Identifiers == {<<0, 0>>} \cup {IdsOf(u) : u \in Units}
PathsOrNowhere == {PathOf(x) : x \in AllInterfaces} \cup {Nowhere}
Records == [of : AllInterfaces, path : PathsOrNowhere, ids : Identifiers, serial : Serials,
            name : {NULL, Empty, "TREZOR"}, number : Int]
Descriptors == [path : PathsOrNowhere, vendor : {ids[1] : ids \in Identifiers},
                product : {ids[2] : ids \in Identifiers}, serial : {Shown(n) : n \in Serials}]

TypeOK ==
  /\ platform \in Platforms
  /\ plugged \subseteq Units /\ present \subseteq plugged
  /\ pc \in Reading \cup {"idle", "next", "match", "returned", "thrown"}
  /\ todo \in Seq(AllInterfaces)
  /\ record \in IF pc \in Reading THEN Records ELSE {NoRecord}
  /\ answers \in BOOLEAN
  /\ devices \in Seq(Records)
  /\ result \in Seq(Descriptors)

\* What is left to do at each stage.
Stages ==
  /\ pc \notin Reading \cup {"next"} => todo = <<>>
  /\ pc \notin {"match", "returned", "thrown"} => result = <<>>
  /\ pc = "returned" => devices = <<>>
  /\ pc = "ids" => platform # "linux"
  /\ pc = "path" => platform = "mac"

\* A unit that stays, and lets itself be opened, answers.
Stays(x) == x[1] \in present \cap Accessible

\* The record, as far as it has been filled in.
RecordSound ==
  pc \in Reading =>
    /\ record.number = NumberOf(record.of)
    /\ Stays(record.of) => answers
    /\ record.path # PathOf(record.of) =>
         record.path = Nowhere /\ pc \in {"serial", "product"} /\ ~answers
    /\ pc # "ids" /\ answers => record.ids = IdsOf(record.of[1])
    /\ pc \in {"serial", "product"} /\ platform # "windows" /\ record.path # Nowhere
         => record.ids = IdsOf(record.of[1])
    /\ pc = "product" =>
         /\ record.serial \in {Serial[record.of[1]], NULL, Empty}
         /\ answers => Shown(record.serial) = Shown(Serial[record.of[1]])

\* What the descriptor of interface x says when all of it is true.
Truth(x) == [path |-> PathOf(x), vendor |-> Vendor[x[1]], product |-> Product[x[1]],
             serial |-> Shown(Serial[x[1]])]

\* A record in the list.
ListedAt(k) ==
  LET r == devices[k] IN
    /\ r.number = NumberOf(r.of)
    /\ r.path \in {PathOf(r.of), Nowhere}
    /\ r.serial \in {Serial[r.of[1]], NULL, Empty}
    /\ r.name # NULL /\ r.path # Nowhere => r.ids = IdsOf(r.of[1])
    /\ Stays(r.of) => r.name # NULL
    /\ r.name # NULL /\ (Stays(r.of) \/ platform # "mac")
         => DescriptorOf(r) = Truth(r.of)
Listed == \A k \in DOMAIN devices : ListedAt(k)

\* An interface is in one place at a time.
ListedOnce ==
  /\ IsInjective(todo)
  /\ pc \in Reading => record.of \notin Range(todo)
  /\ \A k \in DOMAIN devices :
       /\ devices[k].of \notin Range(todo)
       /\ pc \in Reading => devices[k].of # record.of
       /\ \A i \in DOMAIN devices : devices[i].of = devices[k].of => i = k
       /\ platform # "mac" =>
            \A i \in DOMAIN result : result[i].path # devices[k].of

\* A descriptor in the result.
CollectedAt(k) ==
  LET desc == result[k] IN
    /\ Stays(desc.path) => desc.serial = Shown(Serial[desc.path[1]])
    /\ platform # "mac" =>
         \E x \in AllInterfaces : desc = Truth(x) /\ ~Foreign(x) /\ x[1] \in KnownUnits
Collected ==
  /\ \A k \in DOMAIN result : CollectedAt(k)
  /\ \A i, k \in DOMAIN result : result[i].serial = result[k].serial => i = k

\* The main interface of a unit that stays is somewhere on its way.
Underway(x) ==
  \/ x \in Range(todo)
  \/ pc \in Reading /\ record.of = x
  \/ \E k \in DOMAIN devices : devices[k].of = x
  \/ \E k \in DOMAIN result : result[k].path[1] = x[1]
NoneForgotten ==
  \A x \in AllInterfaces :
    Stays(x) /\ x[1] \in KnownUnits /\ ~Foreign(x) => Underway(x)

EnumerateInv ==
  /\ TypeOK /\ Stages /\ RecordSound /\ Listed /\ ListedOnce /\ Collected
  /\ NoneForgotten /\ OwnIdentity /\ DuplicitMeansTwins
=============================================================================
