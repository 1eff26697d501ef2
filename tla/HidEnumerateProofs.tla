------------------------- MODULE HidEnumerateProofs -------------------------
(***************************************************************************)
(* Theorems about HidEnumerate, for any units with any interfaces, listed  *)
(* in any order, and any list of known devices.                            *)
(***************************************************************************)
EXTENDS HidEnumerate, SequenceFacts, FiniteSetTheorems

-----------------------------------------------------------------------------
(* Interfaces and records.                                                 *)

\* What an interface is, and what its path and its number can be.
LEMMA InterfaceParts ==
  ASSUME TypeOK, NEW x \in AllInterfaces
  PROVE  /\ x[1] \in Units /\ x[2] \in Interfaces[x[1]] /\ x[2] \in Nat
         /\ x = <<x[1], x[2]>>
         /\ PathOf(x) \in PathsOrNowhere /\ PathOf(x)[1] = x[1]
         /\ NumberOf(x) \in Int
         /\ PathOf(x) # Nowhere
<1>1. PICK u \in Units : \E i \in Interfaces[u] : x = <<u, i>>
  BY DEF AllInterfaces
<1>2. PICK i \in Interfaces[u] : x = <<u, i>>
  BY <1>1
<1>3. x[1] = u /\ x[2] = i /\ i \in Nat /\ u # Empty
  BY <1>2, EnumerateAssumption
<1>4. PathOf(x)[1] = u
  BY <1>2, <1>3 DEF PathOf
<1>5. PathOf(x) # Nowhere
  BY <1>3, <1>4 DEF Nowhere
<1>6. NumberOf(x) \in Int
  BY <1>3 DEF NumberOf
<1>7. PathOf(x) \in PathsOrNowhere
  BY DEF PathsOrNowhere
<1> QED
  BY <1>2, <1>3, <1>4, <1>5, <1>6, <1>7

\* There are three platforms.
LEMMA ThreePlatforms == TypeOK => platform \in {"linux", "mac", "windows"}
  BY EnumerateAssumption DEF TypeOK

\* A new record, with its identifiers or without.
LEMMA NewRecord ==
  ASSUME TypeOK, NEW x \in AllInterfaces
  PROVE  /\ Blank(x) \in Records
         /\ [Blank(x) EXCEPT !.ids = IdsOf(x[1])] \in Records
         /\ Blank(x).of = x /\ Blank(x).path = PathOf(x) /\ Blank(x).number = NumberOf(x)
         /\ [Blank(x) EXCEPT !.ids = IdsOf(x[1])].of = x
         /\ [Blank(x) EXCEPT !.ids = IdsOf(x[1])].path = PathOf(x)
         /\ [Blank(x) EXCEPT !.ids = IdsOf(x[1])].number = NumberOf(x)
         /\ [Blank(x) EXCEPT !.ids = IdsOf(x[1])].ids = IdsOf(x[1])
<1>1. PathOf(x) \in PathsOrNowhere /\ NumberOf(x) \in Int
  BY InterfaceParts
<1>2. <<0, 0>> \in Identifiers /\ IdsOf(x[1]) \in Identifiers
  BY InterfaceParts DEF Identifiers
<1>3. NULL \in Serials
  BY DEF Serials
<1> QED
  BY <1>1, <1>2, <1>3 DEF Blank, Records

\* A record that is wanted makes a descriptor.
LEMMA DescriptorTypes ==
  ASSUME NEW r \in Records
  PROVE  /\ DescriptorOf(r) \in Descriptors
         /\ DescriptorOf(r).path = r.path
         /\ DescriptorOf(r).serial = Shown(r.serial)
         /\ <<DescriptorOf(r).vendor, DescriptorOf(r).product>> = r.ids
<1>1. r.path \in PathsOrNowhere /\ r.ids \in Identifiers /\ r.serial \in Serials
  BY DEF Records
<1>2. r.ids = <<r.ids[1], r.ids[2]>>
  BY <1>1 DEF Identifiers, IdsOf
<1> QED
  BY <1>1, <1>2 DEF DescriptorOf, Descriptors

-----------------------------------------------------------------------------
(* What a step leaves alone.                                               *)

\* A record that stays in the list stays as good as it was.
LEMMA ListedKept ==
  ASSUME UNCHANGED platform, present' \subseteq present,
         NEW i, NEW k, devices'[k] = devices[i], ListedAt(i)
  PROVE  ListedAt(k)'
BY DEF ListedAt, Stays, Accessible, Truth, PathOf, NumberOf, DescriptorOf

\* So does a descriptor in the result.
LEMMA CollectedKept ==
  ASSUME UNCHANGED platform, present' \subseteq present,
         NEW i, NEW k, result'[k] = result[i], CollectedAt(i)
  PROVE  CollectedAt(k)'
BY DEF CollectedAt, Stays, Accessible, Truth, PathOf, NumberOf, Foreign

\* The user changes what stays, and what still answers.
LEMMA UserStep ==
  ASSUME EnumerateInv, UNCHANGED <<platform, pc, todo, record, devices, result>>,
         present' \subseteq present, present' \subseteq plugged', plugged' \subseteq Units,
         answers' \in BOOLEAN, answers' => answers,
         pc \in Reading /\ Stays(record.of)' => answers'
  PROVE  EnumerateInv'
<1>1. TypeOK'
  BY DEF EnumerateInv, TypeOK, Records, Descriptors, PathsOrNowhere, PathOf
<1>2. Stages'
  BY DEF EnumerateInv, Stages
<1>3. RecordSound'
  BY DEF EnumerateInv, RecordSound, PathOf, NumberOf
<1>4. Listed'
  BY ListedKept DEF EnumerateInv, Listed
<1>5. ListedOnce'
  BY DEF EnumerateInv, ListedOnce
<1>6. Collected'
  BY CollectedKept DEF EnumerateInv, Collected
<1>7. NoneForgotten'
  BY DEF EnumerateInv, NoneForgotten, Underway, Stays, Accessible, Foreign, NumberOf
<1>8. OwnIdentity' /\ DuplicitMeansTwins'
  BY DEF EnumerateInv, OwnIdentity, DuplicitMeansTwins
<1> QED
  BY <1>1, <1>2, <1>3, <1>4, <1>5, <1>6, <1>7, <1>8 DEF EnumerateInv

\* A stage of the thread that fills in the record without touching the lists.
LEMMA FillStep ==
  ASSUME EnumerateInv, pc \in Reading, pc' \in Reading,
         UNCHANGED <<platform, busVars, answers, listVars>>,
         record' \in Records, record'.of = record.of,
         pc' = "ids" => platform # "linux", pc' = "path" => platform = "mac",
         RecordSound'
  PROVE  EnumerateInv'
<1> USE DEF busVars, listVars
<1>1. TypeOK'
  BY DEF EnumerateInv, TypeOK, Records, Descriptors, PathsOrNowhere, PathOf
<1>2. Stages'
  BY DEF EnumerateInv, Stages, Reading
<1>3. Listed'
  BY ListedKept DEF EnumerateInv, Listed
<1>4. ListedOnce'
  BY DEF EnumerateInv, ListedOnce
<1>5. Collected'
  BY CollectedKept DEF EnumerateInv, Collected
<1>6. NoneForgotten'
  BY DEF EnumerateInv, NoneForgotten, Underway, Stays, Accessible, Foreign, NumberOf
<1>7. OwnIdentity' /\ DuplicitMeansTwins'
  BY DEF EnumerateInv, OwnIdentity, DuplicitMeansTwins, Reading
<1> QED
  BY <1>1, <1>2, <1>3, <1>4, <1>5, <1>6, <1>7 DEF EnumerateInv

-----------------------------------------------------------------------------
(* hid_enumerate.                                                          *)

\* The list is begun, or there is none.
LEMMA ListStep ==
  ASSUME EnumerateInv, ListUnits \/ ListingFails
  PROVE  EnumerateInv'
<1>1. /\ pc \in {"idle", "returned"} /\ UNCHANGED <<platform, plugged, record, answers>>
      /\ devices' = <<>> /\ result' = <<>> /\ pc' \in {"next", "match"}
      /\ present' \subseteq plugged
      /\ \/ todo' \in Orders[plugged] /\ pc' = "next"
         \/ todo' = todo /\ present' = {}
  BY DEF ListUnits, ListingFails, readVars
<1>2. /\ todo' \in Seq(AllInterfaces) /\ IsInjective(todo')
      /\ \A x \in AllInterfaces : x[1] \in present' => x \in Range(todo')
  BY <1>1, OrderAssumption DEF EnumerateInv, TypeOK, ListedOnce
<1>3. TypeOK'
  BY <1>1, <1>2 DEF EnumerateInv, TypeOK, Reading, Records, Descriptors, PathsOrNowhere, PathOf
<1>4. Stages' /\ RecordSound'
  BY <1>1 DEF EnumerateInv, Stages, RecordSound, Reading
<1>5. Listed' /\ ListedOnce' /\ Collected'
  BY <1>1, <1>2 DEF Listed, ListedOnce, Collected, Reading
<1>6. NoneForgotten'
  BY <1>1, <1>2 DEF NoneForgotten, Underway, Stays
<1>7. OwnIdentity' /\ DuplicitMeansTwins'
  BY <1>1 DEF OwnIdentity, DuplicitMeansTwins
<1> QED
  BY <1>3, <1>4, <1>5, <1>6, <1>7 DEF EnumerateInv

\* The next interface leaves the list of those to look at.
LEMMA NextTaken ==
  ASSUME EnumerateInv, todo # <<>>, todo' = Tail(todo)
  PROVE  /\ todo' \in Seq(AllInterfaces) /\ IsInjective(todo')
         /\ Head(todo) \in AllInterfaces
         /\ Head(todo) \notin Range(todo')
         /\ Range(todo) = Range(todo') \cup {Head(todo)}
BY HeadIsTaken, TailShifts DEF EnumerateInv, TypeOK, ListedOnce

\* An interface is opened, or taken to be read: a new record.
LEMMA OpenStep ==
  ASSUME EnumerateInv, pc = "next", todo # <<>>, todo' = Tail(todo),
         UNCHANGED <<platform, busVars, devices, result>>,
         \/ pc' = "ids" /\ platform # "linux"
         \/ pc' = "serial" /\ platform = "linux" /\ record'.ids = IdsOf(Head(todo)[1]),
         record' \in Records, record'.of = Head(todo),
         record'.path = PathOf(Head(todo)), record'.number = NumberOf(Head(todo)),
         answers' \in BOOLEAN, Stays(Head(todo)) => answers'
  PROVE  EnumerateInv'
<1> USE DEF busVars
<1>0. /\ todo' \in Seq(AllInterfaces) /\ IsInjective(todo')
      /\ Head(todo) \in AllInterfaces
      /\ Head(todo) \notin Range(todo')
      /\ Range(todo) = Range(todo') \cup {Head(todo)}
  BY NextTaken
<1>1. TypeOK'
  BY <1>0 DEF EnumerateInv, TypeOK, Reading, Records, Descriptors, PathsOrNowhere, PathOf
<1>2. Stages'
  BY DEF EnumerateInv, Stages, Reading
<1>3. RecordSound'
  BY DEF RecordSound, Reading, Stays, Accessible, PathOf, NumberOf
<1>4. Listed'
  BY ListedKept DEF EnumerateInv, Listed
<1>5. ListedOnce'
  BY <1>0 DEF EnumerateInv, ListedOnce, Reading
<1>6. Collected'
  BY CollectedKept DEF EnumerateInv, Collected
<1>7. NoneForgotten'
  BY <1>0 DEF EnumerateInv, NoneForgotten, Underway, Stays, Accessible, Foreign, NumberOf,
     Reading
<1>8. OwnIdentity' /\ DuplicitMeansTwins'
  BY DEF EnumerateInv, OwnIdentity, DuplicitMeansTwins
<1> QED
  BY <1>1, <1>2, <1>3, <1>4, <1>5, <1>6, <1>7, <1>8 DEF EnumerateInv

\* An interface that cannot be opened is skipped: its unit does not stay.
LEMMA SkipStep ==
  ASSUME EnumerateInv, pc = "next", todo # <<>>, todo' = Tail(todo),
         UNCHANGED <<platform, busVars, pc, record, devices, result>>,
         answers' \in BOOLEAN, ~Stays(Head(todo))
  PROVE  EnumerateInv'
<1> USE DEF busVars
<1>0. /\ todo' \in Seq(AllInterfaces) /\ IsInjective(todo')
      /\ Range(todo) = Range(todo') \cup {Head(todo)}
  BY NextTaken
<1>1. TypeOK'
  BY <1>0 DEF EnumerateInv, TypeOK, Reading, Records, Descriptors, PathsOrNowhere, PathOf
<1>2. Stages' /\ RecordSound'
  BY DEF EnumerateInv, Stages, RecordSound, Reading
<1>3. Listed'
  BY ListedKept DEF EnumerateInv, Listed
<1>4. ListedOnce'
  BY <1>0 DEF EnumerateInv, ListedOnce, Reading
<1>5. Collected'
  BY CollectedKept DEF EnumerateInv, Collected
<1>6. NoneForgotten'
  BY <1>0 DEF EnumerateInv, NoneForgotten, Underway, Stays, Accessible, Foreign, NumberOf,
     Reading
<1>7. OwnIdentity' /\ DuplicitMeansTwins'
  BY DEF EnumerateInv, OwnIdentity, DuplicitMeansTwins
<1> QED
  BY <1>1, <1>2, <1>3, <1>4, <1>5, <1>6, <1>7 DEF EnumerateInv

\* Whichever platform it is, looking at the next interface is one of the two.
LEMMA LookStep ==
  ASSUME EnumerateInv, LookAtNext
  PROVE  EnumerateInv'
<1> DEFINE x == Head(todo)
<1>0. /\ TypeOK /\ todo # <<>> /\ x \in AllInterfaces
      /\ present \subseteq plugged
  BY TailShifts DEF LookAtNext, EnumerateInv, TypeOK
<1> USE DEF busVars
<1>1. CASE OpenUsb(x)
  <2>0. answers' = (x[1] \in present \ Forbidden) /\ platform = "linux"
    BY <1>1 DEF OpenUsb
  <2>1. answers' \in BOOLEAN /\ (Stays(x) => answers')
    <3>1. (x[1] \in present \ Forbidden) \in BOOLEAN
      OBVIOUS
    <3>2. answers' \in BOOLEAN
      BY <2>0, <3>1
    <3>3. Stays(x) => x[1] \in present \ Forbidden
      BY <2>0 DEF Stays, Accessible
    <3> QED
      BY <2>0, <3>2, <3>3, Zenon
  <2> QED
    BY <1>0, <1>1, <2>1, NewRecord, OpenStep DEF OpenUsb
<1>2. CASE TakeReference(x)
  <2>1. answers' \in BOOLEAN /\ (Stays(x) => answers')
    BY <1>2 DEF TakeReference, Stays, Gone
  <2> QED
    BY <1>0, <1>2, <2>1, NewRecord, OpenStep DEF TakeReference
<1>3. CASE OpenDevice(x)
  <2>0. answers' = (x[1] \in plugged \ Forbidden) /\ platform = "windows"
    BY <1>3 DEF OpenDevice
  <2>1. answers' \in BOOLEAN /\ (Stays(x) => answers')
    <3>1. (x[1] \in plugged \ Forbidden) \in BOOLEAN
      OBVIOUS
    <3>2. answers' \in BOOLEAN
      BY <2>0, <3>1
    <3>3. Stays(x) => x[1] \in plugged \ Forbidden
      BY <1>0, <2>0 DEF Stays, Accessible
    <3> QED
      BY <2>0, <3>2, <3>3, Zenon
  <2>2. CASE answers'
    BY <1>0, <1>3, <2>1, <2>2, NewRecord, OpenStep DEF OpenDevice
  <2>3. CASE ~answers'
    BY <1>0, <1>3, <2>1, <2>3, SkipStep DEF OpenDevice
  <2> QED
    BY <2>2, <2>3
<1> QED
  BY <1>1, <1>2, <1>3 DEF LookAtNext

\* A field of the record is replaced.
LEMMA FieldRead ==
  ASSUME NEW r \in Records
  PROVE  /\ \A v \in Identifiers : LET n == [r EXCEPT !.ids = v] IN
              /\ n \in Records /\ n.of = r.of /\ n.path = r.path /\ n.serial = r.serial
              /\ n.number = r.number /\ n.ids = v
         /\ \A v \in PathsOrNowhere : LET n == [r EXCEPT !.path = v] IN
              /\ n \in Records /\ n.of = r.of /\ n.path = v /\ n.serial = r.serial
              /\ n.number = r.number /\ n.ids = r.ids
         /\ \A v \in Serials : LET n == [r EXCEPT !.serial = v] IN
              /\ n \in Records /\ n.of = r.of /\ n.path = r.path /\ n.serial = v
              /\ n.number = r.number /\ n.ids = r.ids
         /\ \A v \in {NULL, Empty, "TREZOR"} : LET n == [r EXCEPT !.name = v] IN
              /\ n \in Records /\ n.of = r.of /\ n.path = r.path /\ n.serial = r.serial
              /\ n.number = r.number /\ n.ids = r.ids /\ n.name = v
BY DEF Records

\* A string that is read is the unit's, or missing; one that is told is the unit's.
LEMMA StringRead ==
  ASSUME TypeOK, NEW value
  PROVE  /\ StringOf(value) \in {value, NULL, Empty}
         /\ answers => Shown(StringOf(value)) = Shown(value)
         /\ answers /\ value # NULL => StringOf(value) = value
         /\ ~answers /\ platform # "mac" => StringOf(value) = NULL
         /\ platform = "mac" => StringOf(value) # NULL
<1>1. NULL # Empty
  BY DEF NULL, Empty
<1>2. CASE platform = "linux"
  <2>1. StringOf(value) = UsbString(value)
    BY <1>2 DEF StringOf
  <2> QED
    BY <1>1, <1>2, <2>1 DEF UsbString
<1>3. CASE platform = "windows"
  <2>1. StringOf(value) = WinString(value)
    BY <1>3 DEF StringOf
  <2> QED
    BY <1>1, <1>3, <2>1 DEF WinString
<1>4. CASE platform = "mac"
  <2>1. StringOf(value) = MacString(value)
    BY <1>4 DEF StringOf
  <2> QED
    BY <1>1, <1>4, <2>1 DEF MacString, Shown
<1> QED
  BY <1>2, <1>3, <1>4, ThreePlatforms

\* The identifiers, the path and the serial number are read.
LEMMA ReadStep ==
  ASSUME EnumerateInv, GetAttributes \/ GetIds \/ MakePath \/ ReadSerial
  PROVE  EnumerateInv'
<1>0. /\ TypeOK /\ RecordSound /\ pc \in Reading /\ record \in Records
      /\ record.of \in AllInterfaces
      /\ UNCHANGED <<platform, busVars, answers, listVars>>
  BY DEF EnumerateInv, TypeOK, Records, Reading, GetAttributes, GetIds, MakePath, ReadSerial
<1>1. /\ IdsOf(record.of[1]) \in Identifiers /\ Nowhere \in PathsOrNowhere
      /\ PathOf(record.of) # Nowhere
      /\ \A u \in Units : IdsOf(u) \in Identifiers
      /\ <<0, 0>> \in Identifiers /\ record.ids \in Identifiers
      /\ record.path \in PathsOrNowhere
  BY <1>0, InterfaceParts DEF Identifiers, PathsOrNowhere, Records
<1>2. CASE GetAttributes
  <2>1. PICK attrib \in Identifiers :
          /\ record' = [record EXCEPT !.ids = attrib]
          /\ answers => attrib = IdsOf(record.of[1])
    BY <1>1, <1>2 DEF GetAttributes
  <2>2. /\ record' \in Records /\ record'.of = record.of /\ record'.path = record.path
        /\ record'.number = record.number /\ record'.ids = attrib
    BY <1>0, <2>1, FieldRead
  <2>3. pc = "ids" /\ pc' = "serial" /\ platform = "windows"
    BY <1>2 DEF GetAttributes
  <2>4. RecordSound'
    BY <1>0, <2>1, <2>2, <2>3 DEF RecordSound, Stays, Accessible, PathOf, NumberOf, busVars
  <2> QED
    BY <1>0, <2>2, <2>3, <2>4, FillStep DEF Reading
<1>3. CASE GetIds
  <2>1. PICK ids \in Identifiers :
          /\ record' = [record EXCEPT !.ids = ids]
          /\ answers => ids = IdsOf(record.of[1])
    BY <1>0, <1>1, <1>3 DEF GetIds
  <2>2. /\ record' \in Records /\ record'.of = record.of /\ record'.path = record.path
        /\ record'.number = record.number /\ record'.ids = ids
    BY <1>0, <2>1, FieldRead
  <2>3. pc = "ids" /\ pc' = "path" /\ platform = "mac"
    BY <1>3 DEF GetIds
  <2>4. RecordSound'
    BY <1>0, <2>1, <2>2, <2>3 DEF RecordSound, Stays, Accessible, PathOf, NumberOf, busVars
  <2> QED
    BY <1>0, <2>2, <2>3, <2>4, FillStep DEF Reading
<1>4. CASE MakePath
  <2>1. PICK path \in PathsOrNowhere :
          /\ record' = [record EXCEPT !.path = path]
          /\ path = IF answers THEN record.path ELSE Nowhere
    BY <1>0, <1>1, <1>4 DEF MakePath
  <2>2. /\ record' \in Records /\ record'.of = record.of /\ record'.path = path
        /\ record'.number = record.number /\ record'.ids = record.ids
    BY <1>0, <2>1, FieldRead
  <2>3. pc = "path" /\ pc' = "serial" /\ platform = "mac"
    BY <1>4 DEF MakePath, EnumerateInv, Stages
  <2>4. RecordSound'
    BY <1>0, <2>1, <2>2, <2>3 DEF RecordSound, Stays, Accessible, PathOf, NumberOf, busVars
  <2> QED
    BY <1>0, <2>2, <2>3, <2>4, FillStep DEF Reading
<1>5. CASE ReadSerial
  <2>1. PICK serial \in Serials :
          /\ record' = [record EXCEPT !.serial = serial]
          /\ serial \in {Serial[record.of[1]], NULL, Empty}
          /\ answers => Shown(serial) = Shown(Serial[record.of[1]])
    BY <1>0, <1>5, StringRead, InterfaceParts DEF ReadSerial, Serials
  <2>2. /\ record' \in Records /\ record'.of = record.of /\ record'.path = record.path
        /\ record'.number = record.number /\ record'.ids = record.ids
        /\ record'.serial = serial
    BY <1>0, <2>1, FieldRead
  <2>3. pc = "serial" /\ pc' = "product"
    BY <1>5 DEF ReadSerial
  <2>4. RecordSound'
    BY <1>0, <2>1, <2>2, <2>3 DEF RecordSound, Stays, Accessible, PathOf, NumberOf, busVars
  <2> QED
    BY <1>0, <2>2, <2>3, <2>4, FillStep DEF Reading
<1> QED
  BY <1>2, <1>3, <1>4, <1>5

\* The record is complete, and joins the list.
LEMMA ProductStep ==
  ASSUME EnumerateInv, ReadProduct
  PROVE  EnumerateInv'
<1> DEFINE name == StringOf("TREZOR")
           r == [record EXCEPT !.name = name]
<1> USE DEF busVars
<1>0. /\ TypeOK /\ RecordSound /\ pc = "product" /\ record \in Records
      /\ record.of \in AllInterfaces
      /\ UNCHANGED <<platform, busVars, todo, result>>
      /\ devices' = Append(devices, r) /\ record' = NoRecord /\ pc' = "next"
      /\ answers' = FALSE
  BY DEF EnumerateInv, TypeOK, Records, Reading, ReadProduct
<1>1. /\ r \in Records /\ r.of = record.of /\ r.path = record.path /\ r.serial = record.serial
      /\ r.number = record.number /\ r.ids = record.ids /\ r.name = name
  <2>1. name \in {NULL, Empty, "TREZOR"}
    BY <1>0, StringRead
  <2> HIDE DEF name
  <2> QED
    BY <1>0, <2>1, FieldRead
<1>2. PICK n :
      /\ devices' \in Seq(Records)
      /\ n \notin DOMAIN devices /\ DOMAIN devices' = DOMAIN devices \cup {n}
      /\ \A k \in DOMAIN devices : devices'[k] = devices[k]
      /\ devices'[n] = r
  <2> HIDE DEF r
  <2>1. /\ devices' \in Seq(Records) /\ Len(devices) + 1 \notin DOMAIN devices
        /\ DOMAIN devices' = DOMAIN devices \cup {Len(devices) + 1}
        /\ \A k \in DOMAIN devices : devices'[k] = devices[k]
        /\ devices'[Len(devices) + 1] = r
    BY <1>0, <1>1, AppendAdds DEF TypeOK
  <2> QED
    BY <2>1
<1>3. "TREZOR" # NULL
  BY DEF NULL
<1>4. /\ r.name # NULL => answers \/ platform = "mac"
      /\ answers => r.name # NULL
  BY <1>0, <1>1, <1>3, StringRead
<1>5. ListedAt(n)'
  <2>1. /\ r.number = NumberOf(r.of) /\ r.path \in {PathOf(r.of), Nowhere}
        /\ r.serial \in {Serial[r.of[1]], NULL, Empty}
        /\ Stays(r.of) => r.name # NULL
    BY <1>0, <1>1, <1>4 DEF RecordSound, Reading
  <2>2. r.name # NULL /\ r.path # Nowhere => r.ids = IdsOf(r.of[1])
    BY <1>0, <1>1, <1>4 DEF RecordSound, Reading
  <2>3. ASSUME answers PROVE DescriptorOf(r) = Truth(r.of)
    <3>1. /\ r.path = PathOf(r.of) /\ r.ids = IdsOf(r.of[1])
          /\ Shown(r.serial) = Shown(Serial[r.of[1]])
      BY <1>0, <1>1, <2>3 DEF RecordSound, Reading
    <3> QED
      BY <3>1 DEF DescriptorOf, Truth, IdsOf
  <2>4. r.name # NULL /\ (Stays(r.of) \/ platform # "mac") => answers
    BY <1>0, <1>1, <1>4 DEF RecordSound, Reading
  <2> HIDE DEF r
  <2> QED
    BY <1>0, <1>2, <2>1, <2>2, <2>3, <2>4 DEF ListedAt, Stays, Accessible, Truth, PathOf,
       NumberOf, DescriptorOf
<1> HIDE DEF r
<1>6. TypeOK'
  <2>1. Records' = Records /\ Descriptors' = Descriptors
    BY <1>0 DEF Records, Descriptors, PathsOrNowhere, PathOf
  <2> QED
    BY <1>0, <1>2, <2>1 DEF TypeOK, Reading
<1>7. Stages' /\ RecordSound'
  BY <1>0 DEF EnumerateInv, Stages, RecordSound, Reading
<1>8. Listed'
  BY <1>0, <1>2, <1>5, ListedKept DEF EnumerateInv, Listed
<1>9. ListedOnce'
  BY <1>0, <1>1, <1>2 DEF EnumerateInv, ListedOnce, Stages, Reading
<1>10. Collected'
  BY <1>0, CollectedKept DEF EnumerateInv, Collected
<1>11. NoneForgotten'
  BY <1>0, <1>1, <1>2 DEF EnumerateInv, NoneForgotten, Underway, Stays, Accessible, Foreign,
     NumberOf, Reading
<1>12. OwnIdentity' /\ DuplicitMeansTwins'
  BY <1>0 DEF EnumerateInv, OwnIdentity, DuplicitMeansTwins
<1> QED
  BY <1>6, <1>7, <1>8, <1>9, <1>10, <1>11, <1>12 DEF EnumerateInv

\* All interfaces have been looked at, or all records gone through.
LEMMA CompleteStep ==
  ASSUME EnumerateInv, ListComplete \/ EnumerateReturns
  PROVE  EnumerateInv'
<1> USE DEF busVars, readVars, listVars
<1>1. /\ UNCHANGED <<platform, busVars, readVars, listVars>>
      /\ \/ pc = "next" /\ todo = <<>> /\ pc' = "match"
         \/ pc = "match" /\ devices = <<>> /\ pc' = "returned"
  BY DEF ListComplete, EnumerateReturns
<1>2. TypeOK'
  BY <1>1 DEF EnumerateInv, TypeOK, Reading, Records, Descriptors, PathsOrNowhere, PathOf
<1>3. Stages' /\ RecordSound'
  BY <1>1 DEF EnumerateInv, Stages, RecordSound, Reading
<1>4. Listed'
  BY <1>1, ListedKept DEF EnumerateInv, Listed
<1>5. ListedOnce'
  BY <1>1 DEF EnumerateInv, ListedOnce, Reading
<1>6. Collected'
  BY <1>1, CollectedKept DEF EnumerateInv, Collected
<1>7. NoneForgotten'
  BY <1>1 DEF EnumerateInv, NoneForgotten, Underway, Stays, Accessible, Foreign, NumberOf,
     Reading
<1>8. OwnIdentity' /\ DuplicitMeansTwins'
  BY <1>1 DEF EnumerateInv, OwnIdentity, DuplicitMeansTwins
<1> QED
  BY <1>2, <1>3, <1>4, <1>5, <1>6, <1>7, <1>8 DEF EnumerateInv

-----------------------------------------------------------------------------
(* BitcoinTrezorPlugin::enumerate.                                         *)

\* A descriptor that is true is known when its unit is.
LEMMA KnownTruth ==
  ASSUME TypeOK, NEW x \in AllInterfaces
  PROVE  Known(Truth(x)) <=> x[1] \in KnownUnits
BY InterfaceParts DEF Known, Truth, KnownUnits

\* The record at the head of the list.
LEMMA HeadRecord ==
  ASSUME EnumerateInv, devices # <<>>, NEW r, r = Head(devices)
  PROVE  /\ r \in Records /\ r.of \in AllInterfaces
         /\ r.path = PathOf(r.of) \/ r.path = Nowhere
         /\ Stays(r.of) /\ r.of[1] \in KnownUnits /\ ~Foreign(r.of) => Wanted(r)
         /\ Stays(r.of) /\ Wanted(r) => DescriptorOf(r) = Truth(r.of)
         /\ platform # "mac" /\ Wanted(r) =>
              DescriptorOf(r) = Truth(r.of) /\ ~Foreign(r.of) /\ r.of[1] \in KnownUnits
         /\ Wanted(r) /\ r.path # Nowhere =>
              /\ r.path[1] = r.of[1] /\ r.ids = IdsOf(r.of[1])
              /\ r.serial \in {Serial[r.of[1]], NULL, Empty}
<1>1. TypeOK /\ devices \in Seq(Records)
  BY DEF EnumerateInv, TypeOK
<1>2. r \in Records /\ 1 \in DOMAIN devices /\ r = devices[1]
  BY <1>1, TailShifts
<1>3. r.of \in AllInterfaces
  BY <1>2 DEF Records
<1>4. /\ r.number = NumberOf(r.of)
      /\ r.path \in {PathOf(r.of), Nowhere}
      /\ r.serial \in {Serial[r.of[1]], NULL, Empty}
      /\ r.name # NULL /\ r.path # Nowhere => r.ids = IdsOf(r.of[1])
      /\ Stays(r.of) => r.name # NULL
      /\ r.name # NULL /\ (Stays(r.of) \/ platform # "mac") => DescriptorOf(r) = Truth(r.of)
  BY <1>2 DEF EnumerateInv, Listed, ListedAt
<1>5. Skipped(r) <=> Foreign(r.of) \/ r.name = NULL
  BY <1>4 DEF Skipped, Foreign
<1>6. DescriptorOf(r) = Truth(r.of) => (Known(DescriptorOf(r)) <=> r.of[1] \in KnownUnits)
  BY <1>1, <1>3, KnownTruth
<1>7. r.path = PathOf(r.of) => r.path[1] = r.of[1]
  BY <1>1, <1>3, InterfaceParts
<1> QED
  BY <1>2, <1>3, <1>4, <1>5, <1>6, <1>7 DEF Wanted

\* The head leaves the list.
LEMMA HeadLeaves ==
  ASSUME EnumerateInv, pc = "match", devices # <<>>, devices' = Tail(devices),
         UNCHANGED <<platform, busVars, pc, readVars, todo>>
  PROVE  /\ devices' \in Seq(Records) /\ Listed'
         /\ \A k \in DOMAIN devices' : \E i \in DOMAIN devices :
              devices'[k] = devices[i] /\ devices[i].of # Head(devices).of
         /\ \A k \in DOMAIN devices : devices[k].of = Head(devices).of
              \/ \E i \in DOMAIN devices' : devices'[i] = devices[k]
         /\ \A i, k \in DOMAIN devices' : devices'[i].of = devices'[k].of => i = k
<1> USE DEF busVars
<1>1. /\ devices \in Seq(Records)
      /\ devices' \in Seq(Records)
      /\ 1 \in DOMAIN devices /\ Head(devices) = devices[1]
      /\ \A k \in DOMAIN devices' :
           k \in Nat \ {0} /\ k + 1 \in DOMAIN devices /\ devices'[k] = devices[k + 1]
      /\ \A k \in DOMAIN devices :
           k = 1 \/ (k - 1 \in DOMAIN devices' /\ devices'[k - 1] = devices[k])
  <2>1. devices \in Seq(Records)
    BY DEF EnumerateInv, TypeOK
  <2> QED
    BY <2>1, TailShifts
<1>2. \A i, k \in DOMAIN devices : devices[i].of = devices[k].of => i = k
  BY DEF EnumerateInv, ListedOnce
<1>3. \A i, k \in DOMAIN devices' : devices'[i].of = devices'[k].of => i = k
  <2> SUFFICES ASSUME NEW i \in DOMAIN devices', NEW k \in DOMAIN devices',
                      devices'[i].of = devices'[k].of
               PROVE  i = k
    OBVIOUS
  <2>1. i + 1 = k + 1 /\ i \in Nat /\ k \in Nat
    BY <1>1, <1>2
  <2> QED
    BY <2>1
<1>4. \A k \in DOMAIN devices' : \E i \in DOMAIN devices :
        devices'[k] = devices[i] /\ devices[i].of # Head(devices).of
  <2> SUFFICES ASSUME NEW k \in DOMAIN devices'
               PROVE  devices[k + 1].of # devices[1].of
    BY <1>1
  <2>1. k \in Nat \ {0} /\ k + 1 \in DOMAIN devices
    BY <1>1
  <2>2. k + 1 # 1
    BY <2>1
  <2> QED
    BY <1>1, <1>2, <2>1, <2>2
<1>5. Listed'
  BY <1>4, ListedKept DEF EnumerateInv, Listed
<1> QED
  BY <1>1, <1>3, <1>4, <1>5

\* A record that is not wanted is dropped.
LEMMA DropStep ==
  ASSUME EnumerateInv, SkipDevice
  PROVE  EnumerateInv'
<1> USE DEF busVars, readVars
<1>1. /\ pc = "match" /\ devices # <<>> /\ devices' = Tail(devices)
      /\ ~Wanted(Head(devices))
      /\ UNCHANGED <<platform, busVars, pc, readVars, todo, result>>
  BY DEF SkipDevice
<1>2. /\ devices' \in Seq(Records) /\ Listed'
      /\ \A k \in DOMAIN devices' : \E i \in DOMAIN devices :
           devices'[k] = devices[i] /\ devices[i].of # Head(devices).of
      /\ \A k \in DOMAIN devices : devices[k].of = Head(devices).of
           \/ \E i \in DOMAIN devices' : devices'[i] = devices[k]
      /\ \A i, k \in DOMAIN devices' : devices'[i].of = devices'[k].of => i = k
  BY <1>1, HeadLeaves
<1>3. TypeOK'
  <2>1. Records' = Records /\ Descriptors' = Descriptors
    BY <1>1 DEF Records, Descriptors, PathsOrNowhere, PathOf
  <2> QED
    BY <1>1, <1>2, <2>1 DEF EnumerateInv, TypeOK, Reading
<1>4. Stages' /\ RecordSound'
  BY <1>1 DEF EnumerateInv, Stages, RecordSound, Reading
<1>5. ListedOnce'
  <2>1. ASSUME NEW k \in DOMAIN devices'
        PROVE  /\ devices'[k].of \notin Range(todo)
               /\ platform # "mac" =>
                    \A i \in DOMAIN result : result[i].path # devices'[k].of
    <3>1. PICK i \in DOMAIN devices : devices'[k] = devices[i]
      BY <1>2
    <3> QED
      BY <3>1 DEF EnumerateInv, ListedOnce
  <2>2. pc' \notin Reading /\ IsInjective(todo)
    BY <1>1 DEF EnumerateInv, ListedOnce, Reading
  <2> QED
    BY <1>1, <1>2, <2>1, <2>2 DEF ListedOnce
<1>6. Collected'
  BY <1>1, CollectedKept DEF EnumerateInv, Collected
<1>7. NoneForgotten'
  <2> SUFFICES ASSUME NEW x \in AllInterfaces, Stays(x), x[1] \in KnownUnits, ~Foreign(x)
               PROVE  Underway(x)'
    BY <1>1 DEF NoneForgotten, Stays, Accessible, Foreign, NumberOf
  <2>1. Underway(x) /\ Head(devices).of # x
    BY <1>1, HeadRecord DEF EnumerateInv, NoneForgotten
  <2>2. ASSUME NEW k \in DOMAIN devices, devices[k].of = x
        PROVE  \E i \in DOMAIN devices' : devices'[i].of = x
    <3>1. PICK i \in DOMAIN devices' : devices'[i] = devices[k]
      BY <1>2, <2>1, <2>2
    <3> QED
      BY <2>2, <3>1
  <2> QED
    BY <1>1, <2>1, <2>2 DEF Underway
<1>8. OwnIdentity' /\ DuplicitMeansTwins'
  BY <1>1 DEF EnumerateInv, OwnIdentity, DuplicitMeansTwins
<1> QED
  BY <1>2, <1>3, <1>4, <1>5, <1>6, <1>7, <1>8 DEF EnumerateInv

\* A record that is wanted becomes a descriptor in the result.
LEMMA TakeStep ==
  ASSUME EnumerateInv, TakeDevice
  PROVE  EnumerateInv'
<1> USE DEF busVars, readVars
<1>1. PICK r : r = Head(devices)
  OBVIOUS
<1>2. PICK desc : desc = DescriptorOf(r)
  OBVIOUS
<1>3. /\ pc = "match" /\ devices # <<>> /\ devices' = Tail(devices)
      /\ Wanted(r) /\ ~Duplicit(desc)
      /\ result' = Append(result, desc)
      /\ UNCHANGED <<platform, busVars, pc, readVars, todo>>
  BY <1>1, <1>2 DEF TakeDevice
<1>4. /\ devices' \in Seq(Records) /\ Listed'
      /\ \A k \in DOMAIN devices' : \E i \in DOMAIN devices :
           devices'[k] = devices[i] /\ devices[i].of # r.of
      /\ \A k \in DOMAIN devices : devices[k].of = r.of
           \/ \E i \in DOMAIN devices' : devices'[i] = devices[k]
      /\ \A i, k \in DOMAIN devices' : devices'[i].of = devices'[k].of => i = k
  BY <1>1, <1>3, HeadLeaves
<1>5. /\ r \in Records /\ r.of \in AllInterfaces
      /\ r.path = PathOf(r.of) \/ r.path = Nowhere
      /\ Stays(r.of) => desc = Truth(r.of)
      /\ platform # "mac" => desc = Truth(r.of) /\ ~Foreign(r.of) /\ r.of[1] \in KnownUnits
      /\ r.path # Nowhere =>
           /\ r.path[1] = r.of[1] /\ r.ids = IdsOf(r.of[1])
           /\ r.serial \in {Serial[r.of[1]], NULL, Empty}
  BY <1>1, <1>2, <1>3, HeadRecord
<1>6. /\ desc \in Descriptors /\ desc.path = r.path /\ desc.serial = Shown(r.serial)
      /\ <<desc.vendor, desc.product>> = r.ids
  BY <1>2, <1>5, DescriptorTypes
<1>7. PICK n :
      /\ result' \in Seq(Descriptors)
      /\ n \notin DOMAIN result /\ DOMAIN result' = DOMAIN result \cup {n}
      /\ \A k \in DOMAIN result : result'[k] = result[k]
      /\ result'[n] = desc
  <2>1. result \in Seq(Descriptors)
    BY DEF EnumerateInv, TypeOK
  <2>2. /\ result' \in Seq(Descriptors) /\ Len(result) + 1 \notin DOMAIN result
        /\ DOMAIN result' = DOMAIN result \cup {Len(result) + 1}
        /\ \A k \in DOMAIN result : result'[k] = result[k]
        /\ result'[Len(result) + 1] = desc
    BY <1>3, <1>6, <2>1, AppendAdds
  <2> QED
    BY <2>2
<1>8. TypeOK'
  <2>1. Records' = Records /\ Descriptors' = Descriptors
    BY <1>3 DEF Records, Descriptors, PathsOrNowhere, PathOf
  <2> QED
    BY <1>3, <1>4, <1>7, <2>1 DEF EnumerateInv, TypeOK, Reading
<1>9. Stages' /\ RecordSound'
  BY <1>3 DEF EnumerateInv, Stages, RecordSound, Reading
<1>10. ListedOnce'
  <2>1. platform # "mac" => desc.path = r.of
    BY <1>5 DEF Truth, PathOf
  <2>2. \A k \in DOMAIN devices', i \in DOMAIN result' :
          platform # "mac" => result'[i].path # devices'[k].of
    BY <1>4, <1>7, <2>1 DEF EnumerateInv, ListedOnce
  <2> QED
    BY <1>3, <1>4, <2>2 DEF EnumerateInv, ListedOnce, Reading
<1>11. Collected'
  <2>1. CollectedAt(n)'
    <3>1. Stays(desc.path) => desc.serial = Shown(Serial[desc.path[1]])
      <4>1. desc.path = Nowhere => ~Stays(desc.path)
        BY EnumerateAssumption DEF Stays, Nowhere, EnumerateInv, TypeOK
      <4>2. desc.path # Nowhere /\ Stays(desc.path) => Stays(r.of) /\ desc.path[1] = r.of[1]
        BY <1>5, <1>6 DEF Stays
      <4> QED
        BY <1>5, <4>1, <4>2 DEF Truth
    <3> QED
      BY <1>3, <1>5, <1>7, <3>1 DEF CollectedAt, Stays, Accessible, Truth, PathOf, Foreign,
         NumberOf
  <2>2. \A k \in DOMAIN result : CollectedAt(k)'
    BY <1>3, <1>7, CollectedKept DEF EnumerateInv, Collected
  <2>3. \A k \in DOMAIN result : result[k].serial # desc.serial
    BY <1>3 DEF Duplicit
  <2> QED
    BY <1>7, <2>1, <2>2, <2>3 DEF EnumerateInv, Collected
<1>12. NoneForgotten'
  <2> SUFFICES ASSUME NEW x \in AllInterfaces, Stays(x), x[1] \in KnownUnits, ~Foreign(x)
               PROVE  Underway(x)'
    BY <1>3 DEF NoneForgotten, Stays, Accessible, Foreign, NumberOf
  <2>1. Underway(x)
    BY DEF EnumerateInv, NoneForgotten
  <2>2. ASSUME NEW k \in DOMAIN devices, devices[k].of = x, r.of # x
        PROVE  \E i \in DOMAIN devices' : devices'[i].of = x
    <3>1. PICK i \in DOMAIN devices' : devices'[i] = devices[k]
      BY <1>4, <2>2
    <3> QED
      BY <2>2, <3>1
  <2>3. ASSUME r.of = x PROVE result'[n].path[1] = x[1] /\ n \in DOMAIN result'
    <3>1. desc.path = PathOf(x) /\ PathOf(x)[1] = x[1]
      BY <1>5, <2>3, InterfaceParts DEF Truth, EnumerateInv
    <3> QED
      BY <1>7, <3>1
  <2> QED
    BY <1>3, <1>7, <2>1, <2>2, <2>3 DEF Underway
<1>13. OwnIdentity'
  <2>1. desc.path # Nowhere =>
          /\ <<desc.vendor, desc.product>> = IdsOf(desc.path[1])
          /\ desc.serial \in {Serial[desc.path[1]], Empty}
    BY <1>5, <1>6 DEF Shown
  <2> QED
    BY <1>7, <2>1 DEF EnumerateInv, OwnIdentity
<1>14. DuplicitMeansTwins'
  BY <1>3 DEF DuplicitMeansTwins
<1> QED
  BY <1>4, <1>8, <1>9, <1>10, <1>11, <1>12, <1>13, <1>14 DEF EnumerateInv

\* Two interfaces of one unit, neither of them foreign, are the same, but on a Mac.
LEMMA OneMainInterface ==
  ASSUME TypeOK, platform # "mac", NEW x \in AllInterfaces, NEW y \in AllInterfaces,
         x[1] = y[1], ~Foreign(x), ~Foreign(y)
  PROVE  x = y
<1>1. /\ x = <<x[1], x[2]>> /\ y = <<y[1], y[2]>>
      /\ x[2] \in Nat /\ y[2] \in Nat
      /\ x[2] \in Interfaces[x[1]] /\ y[2] \in Interfaces[x[1]]
  BY InterfaceParts
<1>2. x[2] = 0 \/ Interfaces[x[1]] = {x[2]}
  BY <1>1, ThreePlatforms DEF Foreign, NumberOf
<1>3. y[2] = 0 \/ Interfaces[x[1]] = {y[2]}
  BY <1>1, ThreePlatforms DEF Foreign, NumberOf
<1>4. x[2] = y[2]
  BY <1>1, <1>2, <1>3
<1> QED
  BY <1>1, <1>4

\* Two descriptors with one serial number are of two units.
LEMMA ThrowStep ==
  ASSUME EnumerateInv, ThrowDuplicit
  PROVE  EnumerateInv'
<1> USE DEF busVars, readVars, listVars
<1>1. PICK r : r = Head(devices)
  OBVIOUS
<1>2. /\ pc = "match" /\ devices # <<>> /\ pc' = "thrown"
      /\ Wanted(r) /\ Duplicit(DescriptorOf(r))
      /\ UNCHANGED <<platform, busVars, readVars, listVars>>
  BY <1>1 DEF ThrowDuplicit
<1>3. DuplicitMeansTwins'
  <2> SUFFICES ASSUME platform # "mac"
               PROVE  \E u, v \in KnownUnits : u # v /\ Shown(Serial[u]) = Shown(Serial[v])
    BY <1>2 DEF DuplicitMeansTwins
  <2>1. /\ r.of \in AllInterfaces /\ ~Foreign(r.of) /\ r.of[1] \in KnownUnits
        /\ DescriptorOf(r) = Truth(r.of)
    BY <1>1, <1>2, HeadRecord
  <2>2. PICK k \in DOMAIN result : result[k].serial = Shown(Serial[r.of[1]])
    BY <1>2, <2>1 DEF Duplicit, Truth
  <2>3. PICK x \in AllInterfaces : result[k] = Truth(x) /\ ~Foreign(x) /\ x[1] \in KnownUnits
    BY DEF EnumerateInv, Collected, CollectedAt
  <2>4. x # r.of
    <3>1. PathOf(x) # r.of
      <4>1. 1 \in DOMAIN devices /\ r = devices[1]
        BY <1>1, <1>2, TailShifts DEF EnumerateInv, TypeOK
      <4> QED
        BY <2>3, <4>1 DEF EnumerateInv, ListedOnce, Truth
    <3> QED
      BY <3>1 DEF PathOf
  <2>5. x[1] # r.of[1]
    BY <2>1, <2>3, <2>4, OneMainInterface DEF EnumerateInv
  <2>6. Shown(Serial[x[1]]) = Shown(Serial[r.of[1]])
    BY <2>2, <2>3 DEF Truth
  <2> QED
    BY <2>1, <2>3, <2>5, <2>6
<1>4. TypeOK'
  BY <1>2 DEF EnumerateInv, TypeOK, Reading, Records, Descriptors, PathsOrNowhere, PathOf
<1>5. Stages' /\ RecordSound'
  BY <1>2 DEF EnumerateInv, Stages, RecordSound, Reading
<1>6. Listed'
  BY <1>2, ListedKept DEF EnumerateInv, Listed
<1>7. ListedOnce'
  BY <1>2 DEF EnumerateInv, ListedOnce, Reading
<1>8. Collected'
  BY <1>2, CollectedKept DEF EnumerateInv, Collected
<1>9. NoneForgotten'
  BY <1>2 DEF EnumerateInv, NoneForgotten, Underway, Stays, Accessible, Foreign, NumberOf,
     Reading
<1>10. OwnIdentity'
  BY <1>2 DEF EnumerateInv, OwnIdentity
<1> QED
  BY <1>3, <1>4, <1>5, <1>6, <1>7, <1>8, <1>9, <1>10 DEF EnumerateInv

-----------------------------------------------------------------------------
(* The invariant, and what follows from it.                                *)

\* What is known of every interface, record and descriptor on its way through
\* hid_enumerate and enumerate() (EnumerateInv).
THEOREM EnumerateInvariant == Spec => []EnumerateInv
<1>1. Init => EnumerateInv
  <2> SUFFICES ASSUME Init PROVE EnumerateInv
    OBVIOUS
  <2>1. TypeOK
    <3>1. /\ <<>> \in Seq(AllInterfaces) /\ <<>> \in Seq(Records) /\ <<>> \in Seq(Descriptors)
      BY EmptySeq
    <3> QED
      BY <3>1 DEF Init, TypeOK, Reading
  <2>2. Stages /\ RecordSound /\ Listed /\ Collected
    BY DEF Init, Stages, RecordSound, Listed, Collected, Reading
  <2>3. ListedOnce
    BY EmptyHasNone DEF Init, ListedOnce, Reading
  <2>4. NoneForgotten
    BY DEF Init, NoneForgotten, Stays
  <2>5. OwnIdentity /\ DuplicitMeansTwins
    BY DEF Init, OwnIdentity, DuplicitMeansTwins
  <2> QED
    BY <2>1, <2>2, <2>3, <2>4, <2>5 DEF EnumerateInv
<1>2. EnumerateInv /\ [Next]_vars => EnumerateInv'
  <2> SUFFICES ASSUME EnumerateInv, [Next]_vars PROVE EnumerateInv'
    OBVIOUS
  <2>0. plugged \subseteq Units /\ present \subseteq plugged /\ answers \in BOOLEAN
        /\ (pc \in Reading /\ Stays(record.of) => answers)
    BY DEF EnumerateInv, TypeOK, RecordSound
  <2>1. ASSUME NEW u \in Units, Plug(u) PROVE EnumerateInv'
    <3>1. /\ UNCHANGED <<platform, pc, todo, record, devices, result, present, answers>>
          /\ plugged' = plugged \cup {u}
      BY <2>1 DEF Plug, readVars, listVars
    <3>2. Stays(record.of)' => Stays(record.of)
      BY <3>1 DEF Stays, Accessible
    <3> QED
      BY <2>0, <3>1, <3>2, UserStep
  <2>2. ASSUME NEW u \in Units, Unplug(u) PROVE EnumerateInv'
    <3>1. /\ UNCHANGED <<platform, pc, todo, record, devices, result>>
          /\ plugged' = plugged \ {u} /\ present' = present \ {u}
          /\ answers' \in IF answers /\ record.of[1] = u THEN Gone ELSE {answers}
      BY <2>2 DEF Unplug, listVars
    <3>2. Stays(record.of)' => Stays(record.of) /\ record.of[1] # u
      BY <3>1 DEF Stays, Accessible
    <3>3. answers' \in BOOLEAN /\ (answers' => answers) /\ (record.of[1] # u => answers' = answers)
      BY <2>0, <3>1 DEF Gone
    <3> QED
      BY <2>0, <3>1, <3>2, <3>3, UserStep
  <2>3. CASE ListUsb \/ ListManager \/ ListClass \/ ListingFails
    BY <2>3, ListStep DEF ListUsb, ListManager, ListClass
  <2>4. CASE LookAtNext
    BY <2>4, LookStep
  <2>5. CASE GetAttributes \/ GetIds \/ MakePath \/ ReadSerial
    BY <2>5, ReadStep
  <2>6. CASE ReadProduct
    BY <2>6, ProductStep
  <2>7. CASE ListComplete \/ EnumerateReturns
    BY <2>7, CompleteStep
  <2>8. CASE SkipDevice \/ TakeDevice \/ ThrowDuplicit
    BY <2>8, DropStep, TakeStep, ThrowStep
  <2>9. CASE UNCHANGED vars
    BY <2>0, <2>9, UserStep DEF vars, busVars, readVars, listVars, Stays, Accessible
  <2> QED
    BY <2>1, <2>2, <2>3, <2>4, <2>5, <2>6, <2>7, <2>8, <2>9 DEF Next
<1> QED
  BY <1>1, <1>2, PTL DEF Spec

\* Whatever goes while it is listed, no page gets a device to open under another
\* one's identifiers (Win/hid.c:375-377, Mac/hid.c:190-203, plugin.cpp:106-121).
THEOREM IdentityCorrect == Spec => []OwnIdentity
<1>1. EnumerateInv => OwnIdentity
  BY DEF EnumerateInv
<1> QED
  BY <1>1, EnumerateInvariant, PTL

\* A known unit that stays is found, and found once (plugin.cpp:104-142).
THEOREM EveryUnitFound == Spec => []FoundOnce
<1>1. EnumerateInv => FoundOnce
  <2> SUFFICES ASSUME EnumerateInv, pc = "returned", NEW x \in AllInterfaces,
                      x[1] \in present \cap Accessible \cap KnownUnits, ~Foreign(x)
               PROVE  Cardinality({k \in DOMAIN result : result[k].path[1] = x[1]}) = 1
    BY DEF FoundOnce
  <2>1. todo = <<>> /\ devices = <<>>
    BY DEF EnumerateInv, Stages, Reading
  <2>2. PICK k \in DOMAIN result : result[k].path[1] = x[1]
    BY <2>1, EmptyHasNone DEF EnumerateInv, NoneForgotten, Stays, Underway, Reading
  <2>3. ASSUME NEW i \in DOMAIN result, result[i].path[1] = x[1] PROVE i = k
    <3>1. /\ result[i].serial = Shown(Serial[x[1]])
          /\ result[k].serial = Shown(Serial[x[1]])
      BY <2>2, <2>3 DEF EnumerateInv, Collected, CollectedAt, Stays
    <3> QED
      BY <3>1 DEF EnumerateInv, Collected
  <2>4. {i \in DOMAIN result : result[i].path[1] = x[1]} = {k}
    BY <2>2, <2>3
  <2> QED
    BY <2>4, FS_Singleton
<1> QED
  BY <1>1, EnumerateInvariant, PTL

\* On Linux and Windows it takes two units to make enumerate() throw
\* (plugin.cpp:133-136).
THEOREM ThrowsForTwins == Spec => []DuplicitMeansTwins
<1>1. EnumerateInv => DuplicitMeansTwins
  BY DEF EnumerateInv
<1> QED
  BY <1>1, EnumerateInvariant, PTL
=============================================================================
