---------------------------- MODULE WinHidProofs ----------------------------
(***************************************************************************)
(* Theorems about WinHid, for any handles, any number of reports and any   *)
(* size of the driver's ring.                                              *)
(***************************************************************************)
EXTENDS WinHid, SequenceFacts

-----------------------------------------------------------------------------
(* Sequences of reports.                                                   *)

\* The two facts for reports, as most steps need them.
LEMMA LastOfAppend ==
  ASSUME NEW s \in Seq(Reports), NEW e \in Reports
  PROVE  /\ Append(s, e) \in Seq(Reports)
         /\ Append(s, e) # <<>>
         /\ Len(s) \in Nat /\ Len(Append(s, e)) = Len(s) + 1
         /\ Append(s, e)[Len(Append(s, e))] = e
BY AppendedIsLast

LEMMA LastOfTail ==
  ASSUME NEW s \in Seq(Reports), s # <<>>
  PROVE  /\ Head(s) \in Reports /\ Tail(s) \in Seq(Reports)
         /\ Len(s) \in Nat \ {0} /\ Len(Tail(s)) = Len(s) - 1
         /\ Tail(s) = <<>> => Head(s) = s[Len(s)]
         /\ Tail(s) # <<>> => Tail(s)[Len(Tail(s))] = s[Len(s)]
BY TailKeepsLast

\* A report that is held in front of a sequence is its first.
LEMMA HeldInFront ==
  ASSUME NEW x \in Reports, NEW s \in Seq(Reports)
  PROVE  /\ <<x>> \o s \in Seq(Reports)
         /\ <<x>> \o s # <<>>
         /\ Len(<<x>> \o s) = Len(s) + 1
         /\ Head(<<x>> \o s) = x
         /\ Tail(<<x>> \o s) = s
         /\ (<<x>> \o s)[Len(<<x>> \o s)] = IF s = <<>> THEN x ELSE s[Len(s)]
<1>1. /\ <<x>> \in Seq(Reports) /\ Len(<<x>>) = 1 /\ <<x>>[1] = x
      /\ Len(s) \in Nat
  BY LenProperties
<1> DEFINE t == <<x>> \o s
           n == Len(s)
<1>2. /\ t \in Seq(Reports) /\ Len(t) = 1 + n
      /\ \A i \in 1 .. 1 + n : t[i] = IF i <= 1 THEN x ELSE s[i - 1]
  BY <1>1, ConcatProperties
<1>3. t # <<>> /\ n \in Nat
  BY <1>1, <1>2, EmptySeq
<1>4. t[1] = x /\ (n # 0 => t[1 + n] = s[n])
  <2> HIDE DEF t, n
  <2> QED
    BY <1>2, <1>3
<1>5. /\ Head(t) = t[1] /\ Tail(t) \in Seq(Reports) /\ Len(Tail(t)) = n
      /\ \A i \in 1 .. n : Tail(t)[i] = s[i]
  <2>1. /\ Tail(t) \in Seq(Reports) /\ Len(Tail(t)) = Len(t) - 1
        /\ \A i \in 1 .. Len(Tail(t)) : Tail(t)[i] = t[i + 1]
    BY <1>2, <1>3, HeadTailProperties
  <2>2. Len(Tail(t)) = n /\ \A i \in 1 .. n : Tail(t)[i] = s[i]
    <3> DEFINE u == Tail(t)
    <3> HIDE DEF t, n, u
    <3> QED
      BY <1>2, <1>3, <2>1 DEF u
  <2>3. Head(t) = t[1]
    OBVIOUS
  <2> QED
    BY <2>1, <2>2, <2>3
<1>6. Tail(t) = s
  <2> HIDE DEF t
  <2> QED
    BY <1>5, SeqEqual
<1>7. s = <<>> <=> n = 0
  BY EmptySeq
<1> QED
  BY <1>2, <1>3, <1>4, <1>5, <1>6, <1>7

-----------------------------------------------------------------------------
(* Steps.                                                                  *)

\* What a step of the thread or the device of one handle leaves alone.
Untold(e) ==
  /\ user'[e] = user[e] /\ owned'[e] = owned[e]
  /\ result'[e] = result[e] /\ taken'[e] = taken[e]
  /\ read_pending'[e] = read_pending[e] /\ event'[e] = event[e]
  /\ io'[e] = io[e] /\ read_buf'[e] = read_buf[e] /\ ring'[e] = ring[e]
  /\ sent'[e] = sent[e] /\ attached'[e] = attached[e]

LEMMA OthersUntold ==
  ASSUME TypeOK, NEW d \in Devices, NEW e \in Devices, e # d,
         Call(d) \/ Return(d) \/ Kernel(d)
  PROVE  Untold(e)
<1> USE DEF Untold, vars, userVars, readVars, usbVars, Own, UserGoto
<1>1. CASE Call(d)
  <2>1. CASE HidOpenPath(d) \/ HidWrite(d) \/ HidClose(d) \/ StartReadFails(d)
    BY <2>1 DEF TypeOK, HidOpenPath, HidWrite, HidClose, StartReadFails, ReadResult
  <2>2. ASSUME NEW timed \in BOOLEAN, StartRead(d, timed)
        PROVE  Untold(e)
    BY <2>2 DEF TypeOK, StartRead, ReadFile, GoOn
  <2>3. ASSUME NEW timed \in BOOLEAN, ResumeRead(d, timed)
        PROVE  Untold(e)
    BY <2>3 DEF TypeOK, ResumeRead, GoOn
  <2> QED
    BY <1>1, <2>1, <2>2, <2>3 DEF Call
<1>2. CASE Return(d)
  <2>1. CASE OpenDevice(d) \/ GetPreparsedData(d) \/ GetCaps(d)
    BY <2>1 DEF TypeOK, OpenDevice, GetPreparsedData, GetCaps, OpenFails
  <2>2. CASE EventWakes(d) \/ WaitExpires(d) \/ Fetch(d) \/ HidWriteReturns(d)
    BY <2>2 DEF TypeOK, EventWakes, WaitExpires, Fetch, HidWriteReturns, ReadResult
  <2>3. CASE FreeDevice(d)
    BY <2>3 DEF TypeOK, FreeDevice
  <2> QED
    BY <1>2, <2>1, <2>2, <2>3 DEF Return
<1>3. CASE Kernel(d)
  BY <1>3 DEF TypeOK, Kernel, Arrive, Unplug
<1> QED
  BY <1>1, <1>2, <1>3

\* Every step keeps the types.
LEMMA TypesKept ==
  ASSUME TypeOK, NEW d \in Devices, ReadStates(d), Call(d) \/ Return(d) \/ Kernel(d)
  PROVE  TypeOK'
<1> USE DEF vars, userVars, readVars, usbVars, Own, UserGoto
<1>0. /\ taken[d] \in Seq(Reports) /\ ring[d] \in Seq(Reports)
      /\ read_buf[d] \in 0 .. MaxReports /\ sent[d] \in 0 .. MaxReports
      /\ MaxReports \in Nat
  BY Bounds DEF TypeOK, ReportsOrZeros
<1>1. /\ <<>> \in Seq(Reports)
      /\ ring[d] # <<>> => Head(ring[d]) \in Reports /\ Tail(ring[d]) \in Seq(Reports)
      /\ Reports \subseteq ReportsOrZeros /\ 0 \in ReportsOrZeros
  <2>1. ring[d] # <<>> => Head(ring[d]) \in Reports /\ Tail(ring[d]) \in Seq(Reports)
    BY <1>0, LastOfTail
  <2> QED
    BY <1>0, <2>1, EmptySeq DEF Reports, ReportsOrZeros
<1>2. CASE Call(d)
  <2>1. CASE HidOpenPath(d)
    <3>1. owned' \in [Devices -> SUBSET Resources]
      <4>1. {"event"} \in SUBSET Resources
        BY DEF Resources
      <4> QED
        BY <2>1, <4>1 DEF TypeOK, HidOpenPath
    <3> QED
      BY <2>1, <3>1 DEF TypeOK, HidOpenPath, UserPcs
  <2>6. CASE HidWrite(d)
    BY <2>6 DEF TypeOK, HidWrite, UserPcs
  <2>4. CASE HidClose(d)
    BY <2>4 DEF TypeOK, HidClose, UserPcs
  <2>5. CASE StartReadFails(d)
    BY <2>5, <1>1 DEF TypeOK, StartReadFails, ReadResult, UserPcs
  <2>2. ASSUME NEW timed \in BOOLEAN, StartRead(d, timed)
        PROVE  TypeOK'
    <3>1. user' \in [Devices -> UserPcs]
      BY <2>2 DEF TypeOK, StartRead, GoOn, UserPcs
    <3>2. ring' \in [Devices -> Seq(Reports)]
      BY <2>2, <1>1 DEF TypeOK, StartRead, ReadFile
    <3>3. read_buf' \in [Devices -> ReportsOrZeros]
      <4>1. \/ read_buf' = [read_buf EXCEPT ![d] = 0]
            \/ ring[d] # <<>> /\ read_buf' = [read_buf EXCEPT ![d] = Head(ring[d])]
        BY <2>2 DEF StartRead, ReadFile
      <4> QED
        BY <4>1, <1>1 DEF TypeOK
    <3> QED
      BY <2>2, <3>1, <3>2, <3>3 DEF TypeOK, StartRead, ReadFile
  <2>3. ASSUME NEW timed \in BOOLEAN, ResumeRead(d, timed)
        PROVE  TypeOK'
    <3>1. user' \in [Devices -> UserPcs]
      BY <2>3 DEF TypeOK, ResumeRead, GoOn, UserPcs
    <3> QED
      BY <2>3, <3>1 DEF TypeOK, ResumeRead
  <2> QED
    BY <1>2, <2>1, <2>2, <2>3, <2>4, <2>5, <2>6 DEF Call
<1>3. CASE Return(d)
  <2>1. CASE OpenDevice(d) \/ GetPreparsedData(d) \/ GetCaps(d)
    <3>1. user' \in [Devices -> UserPcs]
      <4>0. /\ user \in [Devices -> UserPcs]
            /\ {"closed", "opening", "preparsed", "open"} \subseteq UserPcs
        BY DEF TypeOK, UserPcs
      <4>1. CASE GetPreparsedData(d)
        BY <4>0, <4>1 DEF GetPreparsedData, OpenFails
      <4>2. CASE GetCaps(d)
        BY <4>0, <4>2 DEF GetCaps, OpenFails
      <4>3. CASE OpenDevice(d)
        BY <4>0, <4>3 DEF OpenDevice, OpenFails
      <4> QED
        BY <2>1, <4>1, <4>2, <4>3
    <3>2. owned' \in [Devices -> SUBSET Resources]
      <4>1. owned[d] \in SUBSET Resources
        BY DEF TypeOK
      <4>2. \/ owned' = owned
            \/ \E S \in {{}, owned[d] \cup {"file"}, owned[d] \cup {"preparsed"},
                         owned[d] \ {"preparsed"}} :
                 owned' = [owned EXCEPT ![d] = S]
        BY <2>1 DEF OpenDevice, GetPreparsedData, GetCaps, OpenFails
      <4>3. \A S \in {{}, owned[d] \cup {"file"}, owned[d] \cup {"preparsed"},
                     owned[d] \ {"preparsed"}} :
              S \in SUBSET Resources
        BY <4>1 DEF Resources
      <4>4. owned \in [Devices -> SUBSET Resources]
        BY DEF TypeOK
      <4> QED
        BY <4>2, <4>3, <4>4
    <3>3. ring' \in [Devices -> Seq(Reports)]
      BY <2>1, <1>1 DEF TypeOK, OpenDevice, GetPreparsedData, GetCaps, OpenFails
    <3>4. sent' \in [Devices -> ReportsOrZeros]
      BY <2>1, <1>1 DEF TypeOK, OpenDevice, GetPreparsedData, GetCaps, OpenFails
    <3>5. attached' \in [Devices -> BOOLEAN]
      BY <2>1 DEF TypeOK, OpenDevice, GetPreparsedData, GetCaps, OpenFails
    <3> QED
      BY <2>1, <3>1, <3>2, <3>3, <3>4, <3>5 DEF TypeOK, OpenDevice, GetPreparsedData, GetCaps, OpenFails
  <2>2. CASE EventWakes(d) \/ WaitExpires(d) \/ HidWriteReturns(d)
    BY <2>2 DEF TypeOK, EventWakes, WaitExpires, HidWriteReturns, ReadResult, UserPcs
  <2>3. CASE Fetch(d)
    <3>1. user' \in [Devices -> UserPcs]
      <4>1. user' = [user EXCEPT ![d] = "open"]
        BY <2>3 DEF Fetch, ReadResult
      <4> QED
        BY <4>1 DEF TypeOK, UserPcs
    <3>4. result' \in [Devices -> {"report", "nothing", "error"}]
      <4>1. \/ result' = [result EXCEPT ![d] = "report"]
            \/ result' = [result EXCEPT ![d] = "error"]
        BY <2>3 DEF Fetch, ReadResult
      <4> QED
        BY <4>1 DEF TypeOK
    <3>2. io[d] = "done" => Append(taken[d], read_buf[d]) \in Seq(Reports)
      <4>1. io[d] = "done" => read_buf[d] \in Reports
        BY <1>0 DEF ReadStates, Reports
      <4> QED
        BY <1>0, <4>1, LastOfAppend
    <3>3. taken' \in [Devices -> Seq(Reports)]
      BY <2>3, <3>2 DEF TypeOK, Fetch
    <3> QED
      BY <2>3, <1>1, <3>1, <3>3, <3>4 DEF TypeOK, Fetch
  <2>4. CASE FreeDevice(d)
    <3>1. taken' \in [Devices -> Seq(Reports)] /\ ring' \in [Devices -> Seq(Reports)]
      BY <2>4, <1>1 DEF TypeOK, FreeDevice
    <3>2. sent' \in [Devices -> ReportsOrZeros] /\ read_buf' \in [Devices -> ReportsOrZeros]
      BY <2>4, <1>1 DEF TypeOK, FreeDevice
    <3>3. user' \in [Devices -> UserPcs] /\ owned' \in [Devices -> SUBSET Resources]
      BY <2>4 DEF TypeOK, FreeDevice, UserPcs
    <3> QED
      BY <2>4, <3>1, <3>2, <3>3 DEF TypeOK, FreeDevice
  <2> QED
    BY <1>3, <2>1, <2>2, <2>3, <2>4 DEF Return
<1>4. CASE Arrive(d)
  <2>1. sent[d] + 1 \in Reports
    BY <1>0, <1>4 DEF Arrive, Reports
  <2>2. /\ Append(ring[d], sent[d] + 1) \in Seq(Reports)
        /\ ring[d] # <<>> => Append(Tail(ring[d]), sent[d] + 1) \in Seq(Reports)
    BY <1>0, <1>1, <2>1, LastOfAppend
  <2>3. Len(ring[d]) = RingSize => ring[d] # <<>>
    BY <1>0, Bounds, EmptySeq
  <2>4. ring' \in [Devices -> Seq(Reports)]
    BY <1>4, <2>2, <2>3 DEF TypeOK, Arrive
  <2>5. sent[d] + 1 \in ReportsOrZeros
    BY <1>1, <2>1
  <2>6. sent' \in [Devices -> ReportsOrZeros]
    BY <1>4, <2>5 DEF TypeOK, Arrive
  <2>7. read_buf' \in [Devices -> ReportsOrZeros]
    <3>1. read_buf' = read_buf \/ read_buf' = [read_buf EXCEPT ![d] = sent[d] + 1]
      BY <1>4 DEF Arrive
    <3> QED
      BY <3>1, <2>5 DEF TypeOK
  <2> QED
    BY <1>4, <2>4, <2>6, <2>7 DEF TypeOK, Arrive
<1>5. CASE Unplug(d)
  BY <1>5 DEF TypeOK, Unplug
<1> QED
  BY <1>2, <1>3, <1>4, <1>5 DEF Kernel

\* Control: where the thread of the handle stands, what it owns, and the read.
LEMMA StatesKept ==
  ASSUME TypeOK, OwnsWhatItGot, NEW d \in Devices, Sound(d), Call(d) \/ Return(d) \/ Kernel(d)
  PROVE  /\ owned'[d] = OwnedAt(user'[d])
         /\ (Unread(d) /\ Untouched(d) /\ ReadStates(d))'
<1> USE DEF vars, userVars, readVars, usbVars, Own, UserGoto
<1>1. CASE HidOpenPath(d)
  BY <1>1 DEF TypeOK, HidOpenPath, OwnsWhatItGot, OwnedAt, Sound, Unread, Untouched, ReadStates, Opening
<1>2. CASE HidWrite(d) \/ HidWriteReturns(d)
  BY <1>2 DEF TypeOK, HidWrite, HidWriteReturns, OwnsWhatItGot, OwnedAt, Sound, Unread, Untouched,
       ReadStates, Opening
<1>3. CASE HidClose(d)
  BY <1>3 DEF TypeOK, HidClose, OwnsWhatItGot, OwnedAt, Sound, Unread, Untouched, ReadStates, Opening
<1>4. CASE StartReadFails(d)
  BY <1>4 DEF TypeOK, StartReadFails, ReadResult, OwnsWhatItGot, OwnedAt, Sound, Unread, Untouched,
       ReadStates, Opening
<1>5. ASSUME NEW timed \in BOOLEAN, StartRead(d, timed)
      PROVE  /\ owned'[d] = OwnedAt(user'[d])
             /\ (Unread(d) /\ Untouched(d) /\ ReadStates(d))'
  <2>1. /\ user[d] = "open" /\ owned'[d] = owned[d]
        /\ user'[d] = IF timed THEN "waiting"
                      ELSE IF io'[d] = "pending" THEN "blocked" ELSE "fetching"
        /\ read_pending'[d]
    BY <1>5 DEF TypeOK, StartRead, GoOn
  <2>2. \/ io'[d] = "pending" /\ ring'[d] = <<>> /\ attached'[d] /\ ~event'[d]
        \/ io'[d] = "done" /\ read_buf'[d] # 0
    <3>1. CASE ring[d] = <<>>
      BY <1>5, <3>1 DEF TypeOK, StartRead, ReadFile
    <3>2. CASE ring[d] # <<>>
      <4>1. Head(ring[d]) # 0
        BY <3>2, LastOfTail DEF TypeOK, Reports
      <4> QED
        BY <1>5, <3>2, <4>1 DEF TypeOK, StartRead, ReadFile
    <3> QED
      BY <3>1, <3>2
  <2> QED
    BY <2>1, <2>2 DEF OwnsWhatItGot, OwnedAt, Sound, Unread, Untouched, ReadStates, Opening
<1>6. ASSUME NEW timed \in BOOLEAN, ResumeRead(d, timed)
      PROVE  /\ owned'[d] = OwnedAt(user'[d])
             /\ (Unread(d) /\ Untouched(d) /\ ReadStates(d))'
  <2>1. /\ user[d] = "open" /\ owned'[d] = owned[d] /\ read_pending[d]
        /\ user'[d] = IF timed THEN "waiting"
                      ELSE IF io[d] = "pending" THEN "blocked" ELSE "fetching"
        /\ UNCHANGED readVars /\ attached' = attached
    BY <1>6 DEF TypeOK, ResumeRead, GoOn
  <2>2. io[d] \in {"none", "pending", "done", "failed"}
    BY DEF TypeOK
  <2> QED
    BY <2>1, <2>2 DEF OwnsWhatItGot, OwnedAt, Sound, Unread, Untouched, ReadStates, Opening
<1>7. CASE OpenDevice(d) \/ GetPreparsedData(d) \/ GetCaps(d)
  <2>1. /\ user[d] \in {"creating", "opening", "preparsed"}
        /\ UNCHANGED <<result, taken, read_pending, event, io, read_buf>>
    BY <1>7 DEF OpenDevice, GetPreparsedData, GetCaps, OpenFails
  <2>2. \/ /\ user'[d] = "closed" /\ owned'[d] = {} /\ ring'[d] = <<>>
           /\ sent'[d] = 0 /\ ~attached'[d]
        \/ user'[d] = "opening" /\ owned'[d] = owned[d] \cup {"file"}
                                /\ user[d] = "creating"
        \/ user'[d] = "preparsed" /\ owned'[d] = owned[d] \cup {"preparsed"}
                                  /\ user[d] = "opening"
        \/ user'[d] = "open" /\ owned'[d] = owned[d] \ {"preparsed"} /\ user[d] = "preparsed"
    BY <1>7 DEF TypeOK, OpenDevice, GetPreparsedData, GetCaps, OpenFails
  <2>3. \/ user'[d] = "closed" /\ owned'[d] = {}
        \/ user'[d] = "opening" /\ owned'[d] = {"event", "file"}
        \/ user'[d] = "preparsed" /\ owned'[d] = Resources
        \/ user'[d] = "open" /\ owned'[d] = {"event", "file"}
    BY <2>2 DEF OwnsWhatItGot, OwnedAt, Resources
  <2>4. owned'[d] = OwnedAt(user'[d])
    BY <2>3 DEF OwnedAt
  <2> QED
    BY <2>1, <2>2, <2>4 DEF Sound, Unread, Untouched, ReadStates, Opening
<1>8. CASE EventWakes(d) \/ WaitExpires(d)
  <2>1. /\ user[d] \in {"waiting", "blocked"} /\ owned' = owned
        /\ user'[d] \in {"fetching", "open"}
        /\ UNCHANGED <<read_pending, io, read_buf, ring, attached>>
        /\ user'[d] = "fetching" => event[d]
        /\ event'[d] => event[d]
    BY <1>8 DEF TypeOK, EventWakes, WaitExpires, ReadResult
  <2>2. io[d] \in {"none", "pending", "done", "failed"}
    BY DEF TypeOK
  <2> QED
    BY <2>1, <2>2 DEF OwnsWhatItGot, OwnedAt, Sound, Unread, Untouched, ReadStates, Opening
<1>9. CASE Fetch(d)
  <2>1. /\ user[d] = "fetching" /\ owned' = owned /\ user'[d] = "open"
        /\ ~read_pending'[d] /\ io'[d] = "none"
    BY <1>9 DEF TypeOK, Fetch, ReadResult
  <2> QED
    BY <2>1 DEF OwnsWhatItGot, OwnedAt, Unread, Untouched, ReadStates, Opening
<1>10. CASE FreeDevice(d)
  BY <1>10 DEF TypeOK, FreeDevice, OwnedAt, Unread, Untouched, ReadStates
<1>11. CASE Arrive(d)
  <2>1. UNCHANGED <<user, owned, result, taken, read_pending, attached>> /\ attached[d]
    BY <1>11 DEF Arrive
  <2>2. \/ io[d] = "pending" /\ io'[d] = "done" /\ read_buf'[d] = sent[d] + 1
        \/ io[d] # "pending" /\ UNCHANGED <<io, read_buf, event>>
    BY <1>11 DEF TypeOK, Arrive
  <2>3. sent[d] + 1 # 0
    BY Bounds DEF TypeOK, ReportsOrZeros
  <2> QED
    BY <2>1, <2>2, <2>3 DEF OwnsWhatItGot, OwnedAt, Sound, Unread, Untouched, ReadStates, Opening
<1>12. CASE Unplug(d)
  <2>1. UNCHANGED <<user, owned, result, taken, read_pending, read_buf, ring, sent>> /\ attached[d]
    BY <1>12 DEF Unplug
  <2>2. /\ ~attached'[d]
        /\ \/ io[d] = "pending" /\ io'[d] = "failed"
           \/ io[d] # "pending" /\ UNCHANGED <<io, event>>
    BY <1>12 DEF TypeOK, Unplug
  <2> QED
    BY <2>1, <2>2 DEF OwnsWhatItGot, OwnedAt, Sound, Unread, Untouched, ReadStates, Opening
<1> QED
  BY <1>1, <1>2, <1>3, <1>4, <1>5, <1>6, <1>7, <1>8, <1>9, <1>10, <1>11, <1>12
     DEF Call, Return, Kernel

\* What the driver and the read hold ends with what the device sent last.
LEMMA NewestKept ==
  ASSUME TypeOK, NEW d \in Devices, Sound(d), Call(d) \/ Return(d) \/ Kernel(d)
  PROVE  NewestSent(d)'
<1> USE DEF vars, userVars, readVars, usbVars, Own, UserGoto
<1>0. /\ ring[d] \in Seq(Reports) /\ taken[d] \in Seq(Reports)
      /\ NewestSent(d) /\ ReadStates(d) /\ MaxReports \in Nat /\ RingSize \in Nat \ {0}
      /\ io[d] \in {"none", "pending", "done", "failed"}
      /\ Len(ring[d]) \in Nat
  BY Bounds, LenProperties DEF TypeOK, Sound
<1>1. CASE UNCHANGED <<ring, taken, sent, read_buf, io>>
  BY <1>0, <1>1 DEF NewestSent
<1>2. CASE UNCHANGED <<ring, taken, sent>> /\ io[d] # "done" /\ io'[d] # "done"
  BY <1>0, <1>2 DEF NewestSent
<1>3. CASE ring'[d] = <<>> /\ taken'[d] = <<>> /\ sent'[d] = 0 /\ io'[d] # "done"
  <2>1. Len(ring'[d]) = 0
    BY <1>3
  <2> QED
    BY <1>0, <1>3, <2>1 DEF NewestSent
<1>4. ASSUME NEW timed \in BOOLEAN, StartRead(d, timed)
      PROVE  NewestSent(d)'
  <2>1. io[d] = "none" /\ taken' = taken /\ sent' = sent
    BY <1>0, <1>4 DEF StartRead, ReadStates
  <2>2. CASE ring[d] = <<>>
    BY <1>0, <1>4, <2>1, <2>2 DEF TypeOK, StartRead, ReadFile, NewestSent
  <2>3. CASE ring[d] # <<>>
    <3>1. /\ ring'[d] = Tail(ring[d]) /\ io'[d] = "done" /\ read_buf'[d] = Head(ring[d])
      BY <1>4, <2>3 DEF TypeOK, StartRead, ReadFile
    <3>2. /\ Len(Tail(ring[d])) <= RingSize
          /\ Tail(ring[d]) = <<>> => Head(ring[d]) = sent[d]
          /\ Tail(ring[d]) # <<>> => Tail(ring[d])[Len(Tail(ring[d]))] = sent[d]
      <4> DEFINE n == Len(ring[d])
                 m == Len(Tail(ring[d]))
      <4>1. /\ Tail(ring[d]) = <<>> => Head(ring[d]) = ring[d][n]
            /\ Tail(ring[d]) # <<>> => Tail(ring[d])[m] = ring[d][n]
            /\ m = n - 1 /\ n \in Nat /\ n <= RingSize
        BY <1>0, <2>3, LastOfTail DEF NewestSent
      <4>2. ring[d][n] = sent[d]
        BY <1>0, <2>3 DEF NewestSent
      <4>3. m <= RingSize
        <5> HIDE DEF n, m
        <5> QED
          BY <1>0, <4>1
      <4> QED
        BY <4>1, <4>2, <4>3
    <3> QED
      BY <2>1, <3>1, <3>2 DEF NewestSent
  <2> QED
    BY <2>2, <2>3
<1>5. CASE Fetch(d)
  <2>1. /\ ring' = ring /\ sent' = sent /\ io'[d] = "none"
        /\ \/ io[d] = "done" /\ taken'[d] = Append(taken[d], read_buf[d])
           \/ io[d] # "done" /\ taken' = taken
    BY <1>5 DEF TypeOK, Fetch
  <2>2. CASE io[d] = "done"
    <3>1. read_buf[d] \in Reports
      BY <2>2, <1>0 DEF TypeOK, ReadStates, ReportsOrZeros, Reports
    <3>2. taken'[d] # <<>> /\ taken'[d][Len(taken'[d])] = read_buf[d]
      BY <1>0, <2>1, <2>2, <3>1, LastOfAppend
    <3> QED
      BY <1>0, <2>1, <2>2, <3>2 DEF NewestSent
  <2>3. CASE io[d] # "done"
    BY <1>0, <2>1, <2>3 DEF NewestSent
  <2> QED
    BY <2>2, <2>3
<1>6. CASE Arrive(d)
  <2>1. taken' = taken /\ sent'[d] = sent[d] + 1 /\ sent[d] + 1 \in Reports
    BY <1>6, Bounds DEF TypeOK, Arrive, Reports, ReportsOrZeros
  <2>2. CASE io[d] = "pending"
    <3>1. ring'[d] = <<>> /\ io'[d] = "done" /\ read_buf'[d] = sent[d] + 1
      BY <1>6, <2>2, <1>0 DEF TypeOK, Arrive, ReadStates
    <3>2. Len(ring'[d]) = 0
      BY <3>1
    <3> QED
      BY <1>0, <2>1, <3>1, <3>2 DEF NewestSent
  <2>3. CASE io[d] # "pending"
    <3> DEFINE base == IF Len(ring[d]) = RingSize THEN Tail(ring[d]) ELSE ring[d]
    <3>1. ring'[d] = Append(base, sent[d] + 1)
      BY <1>6, <2>3 DEF TypeOK, Arrive
    <3>2. base \in Seq(Reports) /\ Len(base) < RingSize
      <4>1. CASE Len(ring[d]) = RingSize
        <5>1. ring[d] # <<>>
          BY <1>0, <4>1, EmptySeq
        <5>2. Tail(ring[d]) \in Seq(Reports) /\ Len(Tail(ring[d])) = RingSize - 1
          BY <1>0, <4>1, <5>1, LastOfTail
        <5> QED
          BY <1>0, <4>1, <5>2
      <4>2. CASE Len(ring[d]) # RingSize
        BY <1>0, <4>2 DEF NewestSent
      <4> QED
        BY <4>1, <4>2
    <3>3. /\ ring'[d] # <<>>
          /\ Len(ring'[d]) = Len(base) + 1 /\ Len(base) \in Nat
          /\ ring'[d][Len(ring'[d])] = sent[d] + 1
      <4> HIDE DEF base
      <4> QED
        BY <2>1, <3>1, <3>2, LastOfAppend
    <3>4. Len(ring'[d]) <= RingSize
      <4> DEFINE n == Len(base)
                 m == Len(ring'[d])
      <4>1. m = n + 1 /\ n \in Nat /\ n < RingSize
        BY <3>2, <3>3
      <4> HIDE DEF n, m
      <4>2. m <= RingSize
        BY <4>1, <1>0
      <4> QED
        BY <4>2 DEF m
    <3> QED
      BY <2>1, <3>3, <3>4 DEF NewestSent
  <2> QED
    BY <2>2, <2>3
<1>7. CASE HidOpenPath(d) \/ HidWrite(d) \/ EventWakes(d) \/ WaitExpires(d) \/ HidWriteReturns(d)
  BY <1>7, <1>1 DEF HidOpenPath, HidWrite, EventWakes, WaitExpires, HidWriteReturns
<1>8. ASSUME NEW timed \in BOOLEAN, ResumeRead(d, timed)
      PROVE  NewestSent(d)'
  BY <1>8, <1>1 DEF ResumeRead
<1>9. CASE StartReadFails(d)
  <2>1. io[d] = "none" /\ UNCHANGED <<io, ring, taken, sent>>
    BY <1>0, <1>9 DEF StartReadFails, ReadStates
  <2> QED
    BY <2>1, <1>2
<1>10. CASE HidClose(d)
  <2>1. /\ UNCHANGED <<ring, taken, sent, read_buf>>
        /\ io'[d] = IF io[d] = "pending" THEN "failed" ELSE io[d]
    BY <1>10 DEF TypeOK, HidClose
  <2> QED
    BY <1>0, <2>1 DEF NewestSent
<1>11. CASE OpenDevice(d) \/ GetPreparsedData(d) \/ GetCaps(d)
  <2>1. io[d] = "none" /\ taken[d] = <<>>
    BY <1>11 DEF OpenDevice, GetPreparsedData, GetCaps, Sound, Unread, Opening
  <2>2. /\ UNCHANGED <<taken, read_buf, io>>
        /\ \/ UNCHANGED <<ring, sent>>
           \/ ring'[d] = <<>> /\ sent'[d] = 0
    BY <1>11 DEF TypeOK, OpenDevice, GetPreparsedData, GetCaps, OpenFails
  <2> QED
    BY <2>1, <2>2, <1>1, <1>3
<1>12. CASE FreeDevice(d)
  <2>1. ring'[d] = <<>> /\ taken'[d] = <<>> /\ sent'[d] = 0 /\ io'[d] = "none"
    BY <1>12 DEF TypeOK, FreeDevice
  <2> QED
    BY <2>1, <1>3
<1>13. CASE Unplug(d)
  <2>1. /\ UNCHANGED <<ring, taken, sent, read_buf>>
        /\ \/ io[d] = "pending" /\ io'[d] = "failed"
           \/ io' = io
    BY <1>13 DEF TypeOK, Unplug
  <2> QED
    BY <2>1, <1>1, <1>2
<1> QED
  BY <1>4, <1>5, <1>6, <1>7, <1>8, <1>9, <1>10, <1>11, <1>12, <1>13 DEF Call, Return, Kernel

-----------------------------------------------------------------------------
(* The invariant.                                                          *)

LEMMA OthersSound ==
  ASSUME NEW e \in Devices, Untold(e)
  PROVE  /\ Sound(e) => Sound(e)'
         /\ OwnsWhatItGot => owned'[e] = OwnedAt(user'[e])
BY DEF Untold, Sound, Unread, Untouched, ReadStates, NewestSent, OwnsWhatItGot

LEMMA WinInvariant == Spec => []WinInv
<1>1. Init => WinInv
  <2> SUFFICES ASSUME Init PROVE WinInv
    OBVIOUS
  <2>1. /\ <<>> \in Seq(Reports) /\ 0 \in ReportsOrZeros /\ Len(<<>>) = 0 /\ RingSize >= 0
    BY Bounds, EmptySeq DEF ReportsOrZeros
  <2>2. TypeOK
    BY <2>1 DEF Init, TypeOK, AllFalse, AllEmpty, UserPcs
  <2>3. OwnsWhatItGot
    BY DEF Init, OwnsWhatItGot, OwnedAt
  <2>4. ASSUME NEW d \in Devices PROVE Sound(d)
    <3>1. /\ io[d] = "none" /\ taken[d] = <<>> /\ ring[d] = <<>> /\ sent[d] = 0
          /\ ~attached[d] /\ ~read_pending[d] /\ result[d] = "nothing" /\ user[d] = "closed"
      BY DEF Init, AllFalse, AllEmpty
    <3>2. Len(ring[d]) <= RingSize
      BY <2>1, <3>1
    <3> QED
      BY <3>1, <3>2 DEF Sound, Unread, Untouched, ReadStates, NewestSent
  <2> QED
    BY <2>2, <2>3, <2>4 DEF WinInv
<1>2. WinInv /\ [Next]_vars => WinInv'
  <2> SUFFICES ASSUME WinInv, [Next]_vars PROVE WinInv'
    OBVIOUS
  <2>1. ASSUME NEW d \in Devices, Call(d) \/ Return(d) \/ Kernel(d)
        PROVE  WinInv'
    <3>1. TypeOK /\ OwnsWhatItGot /\ Sound(d)
      BY DEF WinInv
    <3>2. TypeOK'
      BY <2>1, <3>1, TypesKept DEF Sound
    <3>3. ASSUME NEW e \in Devices
          PROVE  /\ Sound(e)'
                 /\ owned'[e] = OwnedAt(user'[e])
      <4>1. CASE e = d
        BY <2>1, <3>1, <4>1, StatesKept, NewestKept DEF Sound
      <4>2. CASE e # d
        <5>1. Untold(e)
          BY <2>1, <3>1, <4>2, OthersUntold
        <5> QED
          BY <5>1, <3>1, OthersSound DEF WinInv
      <4> QED
        BY <4>1, <4>2
    <3> QED
      BY <3>2, <3>3 DEF WinInv, OwnsWhatItGot
  <2>2. CASE UNCHANGED vars
    BY <2>2 DEF vars, userVars, readVars, usbVars, WinInv, TypeOK, OwnsWhatItGot, Sound, Unread,
         Untouched, ReadStates, NewestSent
  <2> QED
    BY <2>1, <2>2 DEF Next
<1> QED
  BY <1>1, <1>2, PTL DEF Spec

\* Every variable keeps its type (TypeOK).
THEOREM WinTypeCorrect == Spec => []TypeOK
<1>1. WinInv => TypeOK
  BY DEF WinInv
<1> QED
  BY <1>1, WinInvariant, PTL

\* No read is forgotten, started twice or left to write into a freed buffer
\* (ReadRemembered, Win/hid.c:652-721).
THEOREM ReadsCorrect == Spec => []ReadRemembered
<1>1. WinInv => ReadRemembered
  BY DEF WinInv, OwnsWhatItGot, OwnedAt, Sound, Unread, ReadStates, Opening, ReadRemembered
<1> QED
  BY <1>1, WinInvariant, PTL

\* A thread that has been told that its read is over finds it over
\* (ToldWhenOver, Win/hid.c:682-721, 788-794).
THEOREM ToldCorrect == Spec => []ToldWhenOver
<1>1. WinInv => ToldWhenOver
  BY DEF WinInv, Sound, ReadStates, ToldWhenOver
<1> QED
  BY <1>1, WinInvariant, PTL

-----------------------------------------------------------------------------
(* The handle as its reader sees it.                                       *)

LEMMA InitialHandle == Init => Handle!HandleInit
<1> SUFFICES ASSUME Init PROVE Handle!HandleInit
  OBVIOUS
<1>1. \A d \in Devices : State(d) = "closed"
  BY DEF Init, State
<1>2. \A d \in Devices : Received[d] = <<>>
  BY DEF Init, Received, AllEmpty
<1>3. [d \in Devices |-> State(d)] = [d \in Devices |-> "closed"]
  BY <1>1
<1>4. Received = [d \in Devices |-> <<>>]
  BY <1>2 DEF Received
<1> QED
  BY <1>3, <1>4 DEF Init, AllEmpty, Handle!HandleInit

\* What a step of one handle does to the abstract one.
LEMMA MappedStates ==
  ASSUME TypeOK, NEW d \in Devices, Call(d) \/ Return(d) \/ Kernel(d)
  PROVE  /\ [x \in Devices |-> State(x)]' = [[x \in Devices |-> State(x)] EXCEPT ![d] = State(d)']
         /\ Received' = [Received EXCEPT ![d] = Received'[d]]
         /\ [x \in Devices |-> State(x)][d] = State(d)
<1>1. \A e \in Devices : e # d => Untold(e)
  BY OthersUntold
<1>2. \A e \in Devices : e # d => State(e)' = State(e) /\ Received'[e] = Received[e]
  BY <1>1 DEF Untold, State, Received
<1>3. [x \in Devices |-> State(x)]' = [[x \in Devices |-> State(x)] EXCEPT ![d] = State(d)']
  BY <1>2
<1>4. Received' = [Received EXCEPT ![d] = Received'[d]]
  BY <1>2 DEF Received
<1> QED
  BY <1>3, <1>4

\* A sequence is its first element in front of the others.
LEMMA HeadInFront ==
  ASSUME NEW s \in Seq(Reports), s # <<>>
  PROVE  <<Head(s)>> \o Tail(s) = s
<1> DEFINE t == <<Head(s)>> \o Tail(s)
           n == Len(s)
<1>1. /\ Head(s) \in Reports /\ Tail(s) \in Seq(Reports) /\ Len(Tail(s)) = n - 1
      /\ \A i \in 1 .. Len(Tail(s)) : Tail(s)[i] = s[i + 1]
      /\ n \in Nat \ {0} /\ Head(s) = s[1]
  BY LastOfTail, HeadTailProperties
<1>2. /\ t \in Seq(Reports) /\ Len(t) = 1 + (n - 1)
      /\ \A i \in 1 .. 1 + (n - 1) : t[i] = IF i <= 1 THEN s[1] ELSE Tail(s)[i - 1]
  <2>1. /\ <<Head(s)>> \in Seq(Reports) /\ Len(<<Head(s)>>) = 1 /\ <<Head(s)>>[1] = s[1]
    BY <1>1
  <2> QED
    BY <1>1, <2>1, ConcatProperties
<1>3. Len(t) = n /\ \A i \in 1 .. n : t[i] = s[i]
  <2> DEFINE u == Tail(s)
  <2>1. Len(t) = 1 + (n - 1) /\ Len(u) = n - 1 /\ \A i \in 1 .. Len(u) : u[i] = s[i + 1]
    BY <1>1, <1>2
  <2>2. \A i \in 1 .. 1 + (n - 1) : t[i] = IF i <= 1 THEN s[1] ELSE u[i - 1]
    BY <1>2
  <2> HIDE DEF t, n, u
  <2>3. \A i \in 1 .. n : i > 1 => i - 1 \in 1 .. Len(u) /\ u[i - 1] = s[(i - 1) + 1]
    BY <1>1, <2>1
  <2> QED
    BY <1>1, <2>1, <2>2, <2>3
<1> QED
  <2> HIDE DEF t
  <2>1. t = s
    BY <1>2, <1>3, SeqEqual
  <2> QED
    BY <2>1 DEF t

\* What is appended behind a held report is appended to what comes after it.
LEMMA AppendInFront ==
  ASSUME NEW x \in Reports, NEW s \in Seq(Reports), NEW e \in Reports
  PROVE  Append(<<x>> \o s, e) = <<x>> \o Append(s, e)
<1> DEFINE t == <<x>>
           u == <<e>>
<1>1. t \in Seq(Reports) /\ u \in Seq(Reports)
  OBVIOUS
<1>2. t \o s \in Seq(Reports)
  BY HeldInFront
<1>3. Append(t \o s, e) = (t \o s) \o u /\ Append(s, e) = s \o u
  BY <1>2, AppendIsConcat
<1>4. (t \o s) \o u = t \o (s \o u)
  <2> HIDE DEF t, u
  <2> QED
    BY <1>1, ConcatAssociative
<1> QED
  <2> HIDE DEF t, u
  <2>1. Append(t \o s, e) = t \o Append(s, e)
    BY <1>3, <1>4
  <2> QED
    BY <2>1 DEF t

\* The newest report of the abstract handle is the last one sent.
LEMMA NewestIsSent ==
  ASSUME TypeOK, NEW d \in Devices, Sound(d)
  PROVE  Handle!Newest(d) = sent[d]
<1>1. /\ ring[d] \in Seq(Reports) /\ Len(ring[d]) \in Nat
      /\ NewestSent(d) /\ ReadStates(d)
  BY LenProperties DEF TypeOK, Sound
<1>2. CASE io[d] = "done"
  <2>1. read_buf[d] \in Reports
    BY <1>1, <1>2, Bounds DEF TypeOK, ReadStates, Reports, ReportsOrZeros
  <2>2. Received[d] = <<read_buf[d]>> \o ring[d]
    BY <1>2 DEF Received
  <2>3. /\ Received[d] # <<>>
        /\ Received[d][Len(Received[d])] =
             IF ring[d] = <<>> THEN read_buf[d] ELSE ring[d][Len(ring[d])]
    BY <1>1, <2>1, <2>2, HeldInFront
  <2> QED
    BY <1>1, <1>2, <2>3 DEF Handle!Newest, NewestSent
<1>3. CASE io[d] # "done"
  <2>1. Received[d] = ring[d]
    BY <1>3 DEF Received
  <2> QED
    BY <1>1, <1>3, <2>1 DEF Handle!Newest, NewestSent
<1> QED
  BY <1>2, <1>3

\* A report that arrives is delivered.
LEMMA ArriveDelivers ==
  ASSUME TypeOK, NEW d \in Devices, Sound(d), Arrive(d)
  PROVE  Handle!Deliver(d)
<1> DEFINE n == sent[d] + 1
           more == Append(Received[d], n)
           base == IF Len(ring[d]) = RingSize THEN Tail(ring[d]) ELSE ring[d]
<1>1. /\ ring[d] \in Seq(Reports) /\ Len(ring[d]) \in Nat /\ Len(ring[d]) <= RingSize
      /\ RingSize \in Nat \ {0} /\ n \in Reports /\ sent[d] < MaxReports
      /\ user[d] \notin {"closed", "creating"} /\ attached[d] /\ ReadStates(d)
  BY LenProperties, Bounds
     DEF TypeOK, Arrive, Sound, NewestSent, Untouched, Reports, ReportsOrZeros
<1>2. Handle!Newest(d) = sent[d]
  BY NewestIsSent
<1>3. /\ UNCHANGED <<user, attached, taken, result>>
      /\ State(d) = "open" /\ State(d)' = State(d)
  BY <1>1 DEF Arrive, State, userVars
<1>4. [x \in Devices |-> State(x)]' = [x \in Devices |-> State(x)]
  BY <1>3 DEF State
<1>5. Received' = [Received EXCEPT ![d] = Received'[d]]
  BY MappedStates DEF Kernel
<1>6. \/ Len(more) <= RingSize + 1 /\ Received'[d] = more
      \/ Len(more) > RingSize /\ Received'[d] = Tail(more)
      \/ Len(more) > RingSize + 1 /\ Received'[d] = <<Head(more)>> \o Tail(Tail(more))
  <2>1. CASE io[d] = "pending"
    <3>1. Received[d] = <<>> /\ Received'[d] = <<n>> \o <<>>
      BY <1>1, <2>1 DEF TypeOK, Arrive, Received, ReadStates
    <3>2. <<n>> \o <<>> = <<n>> /\ more = <<n>> /\ Len(more) = 1
      BY <1>1, <3>1, ConcatEmptySeq
    <3> QED
      BY <1>1, <3>1, <3>2
  <2>2. ASSUME io[d] # "pending"
        PROVE  /\ ring'[d] = Append(base, n) /\ io' = io /\ read_buf' = read_buf
    BY <2>2 DEF TypeOK, Arrive
  <2>3. /\ Append(ring[d], n) \in Seq(Reports) /\ Len(Append(ring[d], n)) = Len(ring[d]) + 1
        /\ ring[d] # <<>> => Tail(Append(ring[d], n)) = Append(Tail(ring[d]), n)
    <3>1. /\ Append(ring[d], n) \in Seq(Reports) /\ Len(Append(ring[d], n)) = Len(ring[d]) + 1
      <4> HIDE DEF n
      <4> QED
        BY <1>1, LastOfAppend
    <3>2. ring[d] # <<>> => Tail(Append(ring[d], n)) = Append(Tail(ring[d]), n)
      BY <1>1, HeadTailAppend
    <3> QED
      BY <3>1, <3>2
  <2>4. Len(ring[d]) = RingSize => ring[d] # <<>>
    BY <1>1, EmptySeq
  <2>5. CASE io[d] = "done"
    <3>1. read_buf[d] \in Reports
      BY <1>1, <2>5, Bounds DEF TypeOK, ReadStates, Reports, ReportsOrZeros
    <3>2. /\ Received[d] = <<read_buf[d]>> \o ring[d]
          /\ Received'[d] = <<read_buf[d]>> \o Append(base, n)
      BY <2>2, <2>5 DEF Received
    <3>3. more = <<read_buf[d]>> \o Append(ring[d], n)
      BY <1>1, <3>1, <3>2, AppendInFront
    <3>4. /\ Len(more) = (Len(ring[d]) + 1) + 1
          /\ Head(more) = read_buf[d] /\ Tail(more) = Append(ring[d], n)
      <4> DEFINE s == Append(ring[d], n)
      <4>1. s \in Seq(Reports) /\ Len(s) = Len(ring[d]) + 1 /\ more = <<read_buf[d]>> \o s
        BY <2>3, <3>3
      <4> HIDE DEF s, more, n
      <4>2. /\ Len(more) = Len(s) + 1 /\ Head(more) = read_buf[d] /\ Tail(more) = s
        BY <3>1, <4>1, HeldInFront
      <4> QED
        BY <4>1, <4>2 DEF s
    <3>5. CASE Len(ring[d]) = RingSize
      <4>1. Received'[d] = <<Head(more)>> \o Tail(Tail(more))
        BY <2>3, <2>4, <3>2, <3>4, <3>5
      <4>2. Len(more) > RingSize + 1
        BY <1>1, <3>4, <3>5
      <4> QED
        BY <4>1, <4>2
    <3>6. CASE Len(ring[d]) # RingSize
      <4>1. Received'[d] = more
        BY <3>2, <3>3, <3>6
      <4>2. Len(more) <= RingSize + 1
        BY <1>1, <3>4, <3>6
      <4> QED
        BY <4>1, <4>2
    <3> QED
      BY <3>5, <3>6
  <2>6. CASE io[d] \notin {"pending", "done"}
    <3>1. Received[d] = ring[d] /\ Received'[d] = Append(base, n)
      BY <2>2, <2>6 DEF Received
    <3>2. more = Append(ring[d], n) /\ Len(more) = Len(ring[d]) + 1
      BY <2>3, <3>1
    <3>3. CASE Len(ring[d]) = RingSize
      BY <1>1, <2>3, <2>4, <3>1, <3>2, <3>3, SMTT(30)
    <3>4. CASE Len(ring[d]) # RingSize
      BY <1>1, <3>1, <3>2, <3>4, SMTT(30)
    <3> QED
      BY <3>3, <3>4
  <2> QED
    BY <2>1, <2>5, <2>6
<1> QED
  <2>1. /\ [x \in Devices |-> State(x)][d] = "open"
        /\ Handle!Newest(d) < MaxReports
        /\ more = Append(Received[d], Handle!Newest(d) + 1)
    BY <1>1, <1>2, <1>3
  <2> HIDE DEF more
  <2> QED
    BY <1>3, <1>4, <1>5, <1>6, <2>1 DEF Handle!Deliver

\* A step of one handle is a step of the abstract one, or none.
LEMMA StepOfHandle ==
  ASSUME TypeOK, NEW d \in Devices, Sound(d), Call(d) \/ Return(d) \/ Kernel(d)
  PROVE  [Handle!HandleNext]_Handle!handleVars
<1> USE DEF UserGoto, Own, vars, userVars, readVars, usbVars
<1> DEFINE state == [x \in Devices |-> State(x)]
<1>0. /\ state' = [state EXCEPT ![d] = State(d)']
      /\ Received' = [Received EXCEPT ![d] = Received'[d]]
      /\ state[d] = State(d)
      /\ \A e \in Devices : Received'[e] = IF e = d THEN Received'[d] ELSE Received[e]
  BY MappedStates DEF Received
<1>1. ASSUME State(d)' = State(d), Received'[d] = Received[d],
             taken' = taken, result' = result
      PROVE  UNCHANGED Handle!handleVars
  <2>1. state' = state
    BY <1>0, <1>1
  <2>2. Received' = Received
    BY <1>0, <1>1 DEF Received
  <2> QED
    BY <1>1, <2>1, <2>2 DEF Handle!handleVars
<1>2. CASE HidOpenPath(d)
  <2>1. /\ State(d) = "closed" /\ State(d)' = "closed"
        /\ Received' = Received /\ taken' = taken /\ result' = result
    BY <1>2 DEF TypeOK, HidOpenPath, State, Received
  <2> QED
    BY <1>1, <2>1
<1>3. CASE HidWrite(d) \/ HidWriteReturns(d) \/ EventWakes(d)
  <2>1. /\ State(d)' = State(d) /\ Received' = Received /\ taken' = taken /\ result' = result
    <3>0. user \in [Devices -> UserPcs]
      BY DEF TypeOK
    <3>1. CASE HidWrite(d) \/ HidWriteReturns(d)
      BY <1>3, <3>0, <3>1 DEF HidWrite, HidWriteReturns, State, Received
    <3>2. CASE EventWakes(d)
      BY <1>3, <3>0, <3>2 DEF EventWakes, State, Received
    <3> QED
      BY <1>3, <3>1, <3>2
  <2> QED
    BY <1>1, <2>1
<1>4. CASE HidClose(d)
  <2>1. State(d)' = State(d) /\ taken' = taken /\ result' = result
    BY <1>4 DEF TypeOK, HidClose, State
  <2>2. Received'[d] = Received[d]
    BY <1>4 DEF TypeOK, HidClose, Received
  <2> QED
    BY <1>1, <2>1, <2>2
<1>5. CASE StartReadFails(d)
  <2>1. io[d] # "done"
    BY <1>5 DEF StartReadFails, Sound, ReadStates
  <2>2. /\ State(d) = "broken" /\ State(d)' = "broken"
        /\ taken' = taken /\ result' = [result EXCEPT ![d] = "error"]
        /\ Received'[d] = Received[d]
    BY <1>5, <2>1 DEF TypeOK, StartReadFails, ReadResult, State, Received
  <2>3. state' = state
    BY <1>0, <2>2
  <2>4. Received' = Received
    BY <1>0, <2>2 DEF Received
  <2>5. Handle!ReadError(d)
    BY <1>0, <2>2, <2>3, <2>4 DEF Handle!ReadError
  <2> QED
    BY <2>5 DEF Handle!HandleNext
<1>6. ASSUME NEW timed \in BOOLEAN, StartRead(d, timed)
      PROVE  [Handle!HandleNext]_Handle!handleVars
  <2>1. io[d] = "none" /\ ring[d] \in Seq(Reports)
    BY <1>6 DEF TypeOK, StartRead, Sound, ReadStates
  <2>2. State(d)' = State(d) /\ taken' = taken /\ result' = result
    BY <1>6 DEF TypeOK, StartRead, GoOn, State
  <2>3. Received'[d] = Received[d]
    <3>1. CASE ring[d] = <<>>
      BY <1>6, <2>1, <3>1 DEF TypeOK, StartRead, ReadFile, Received
    <3>2. CASE ring[d] # <<>>
      <4>1. Received'[d] = <<Head(ring[d])>> \o Tail(ring[d])
        BY <1>6, <3>2 DEF TypeOK, StartRead, ReadFile, Received
      <4>2. Received[d] = ring[d]
        BY <2>1 DEF Received
      <4> QED
        BY <2>1, <3>2, <4>1, <4>2, HeadInFront
    <3> QED
      BY <3>1, <3>2
  <2> QED
    BY <1>1, <2>2, <2>3
<1>7. ASSUME NEW timed \in BOOLEAN, ResumeRead(d, timed)
      PROVE  [Handle!HandleNext]_Handle!handleVars
  <2>1. /\ State(d)' = State(d) /\ Received' = Received /\ taken' = taken /\ result' = result
    BY <1>7 DEF TypeOK, ResumeRead, GoOn, State, Received
  <2> QED
    BY <1>1, <2>1
<1>8. CASE OpenDevice(d) \/ GetPreparsedData(d) \/ GetCaps(d)
  <2>1. /\ io[d] = "none" /\ taken[d] = <<>> /\ result[d] = "nothing"
        /\ user[d] \in {"creating", "opening", "preparsed"}
    BY <1>8 DEF OpenDevice, GetPreparsedData, GetCaps, Sound, Unread, Opening
  <2>2. CASE OpenFails(d) /\ user[d] # "creating"
    <3>1. /\ State(d) # "closed" /\ State(d)' = "closed" /\ Received'[d] = <<>>
          /\ taken' = taken /\ result' = result
      BY <2>1, <2>2 DEF TypeOK, OpenFails, State, Received
    <3>2. taken' = [taken EXCEPT ![d] = <<>>] /\ result' = [result EXCEPT ![d] = "nothing"]
      BY <2>1, <3>1 DEF TypeOK
    <3>3. Handle!Close(d)
      BY <1>0, <3>1, <3>2 DEF Handle!Close
    <3> QED
      BY <3>3 DEF Handle!HandleNext
  <2>3. CASE OpenFails(d) /\ user[d] = "creating"
    <3>1. /\ State(d) = "closed" /\ State(d)' = "closed"
          /\ taken' = taken /\ result' = result
      BY <2>3 DEF TypeOK, OpenFails, State
    <3>2. Received'[d] = Received[d]
      BY <2>1, <2>3 DEF TypeOK, OpenFails, Received, Sound, Untouched
    <3> QED
      BY <1>1, <3>1, <3>2
  <2>4. CASE user[d] = "creating" /\ user'[d] = "opening"
    <3>1. UNCHANGED <<result, taken, readVars>> /\ attached'[d]
      BY <1>8, <2>4 DEF TypeOK, OpenDevice, GetPreparsedData, GetCaps, OpenFails
    <3>2. State(d) = "closed" /\ State(d)' = "open" /\ Received' = Received
      BY <2>4, <3>1 DEF State, Received
    <3>3. Handle!Open(d)
      BY <1>0, <3>1, <3>2 DEF Handle!Open
    <3> QED
      BY <3>3 DEF Handle!HandleNext
  <2>5. CASE user[d] # "creating" /\ user'[d] \in {"preparsed", "open"}
    <3>1. UNCHANGED <<result, taken, readVars, usbVars>>
      BY <1>8, <2>1, <2>5 DEF TypeOK, OpenDevice, GetPreparsedData, GetCaps, OpenFails
    <3>2. State(d)' = State(d) /\ Received' = Received
      BY <2>1, <2>5, <3>1 DEF State, Received
    <3> QED
      BY <1>1, <3>1, <3>2
  <2> QED
    BY <1>8, <2>2, <2>3, <2>4, <2>5 DEF TypeOK, OpenDevice, GetPreparsedData, GetCaps
<1>9. CASE WaitExpires(d)
  <2>1. /\ State(d) # "closed" /\ State(d)' = State(d) /\ Received' = Received
        /\ taken' = taken /\ result' = [result EXCEPT ![d] = "nothing"]
    BY <1>9 DEF TypeOK, WaitExpires, ReadResult, State, Received
  <2>2. Handle!ReadNothing(d)
    BY <1>0, <2>1 DEF Handle!ReadNothing
  <2> QED
    BY <2>2 DEF Handle!HandleNext
<1>10. CASE Fetch(d)
  <2>1. /\ State(d) # "closed" /\ State(d)' = State(d)
        /\ io'[d] = "none" /\ ring' = ring /\ user[d] = "fetching"
    BY <1>10 DEF TypeOK, Fetch, ReadResult, State
  <2>2. Received'[d] = ring[d]
    BY <2>1 DEF Received
  <2>3. CASE io[d] = "done"
    <3>1. read_buf[d] \in Reports /\ ring[d] \in Seq(Reports)
      BY <2>3, Bounds DEF TypeOK, Sound, ReadStates, Reports, ReportsOrZeros
    <3>2. Received[d] = <<read_buf[d]>> \o ring[d]
      BY <2>3 DEF Received
    <3>3. /\ Received[d] # <<>> /\ Head(Received[d]) = read_buf[d]
          /\ Tail(Received[d]) = ring[d]
      BY <3>1, <3>2, HeldInFront
    <3>4. /\ taken' = [taken EXCEPT ![d] = Append(taken[d], read_buf[d])]
          /\ result' = [result EXCEPT ![d] = "report"]
      BY <1>10, <2>3 DEF Fetch, ReadResult
    <3>5. Handle!ReadReport(d)
      BY <1>0, <2>1, <2>2, <3>3, <3>4 DEF Handle!ReadReport
    <3> QED
      BY <3>5 DEF Handle!HandleNext
  <2>4. CASE io[d] # "done"
    <3>1. /\ io[d] = "failed" /\ ~attached[d] /\ Received[d] = ring[d]
          /\ taken' = taken /\ result' = [result EXCEPT ![d] = "error"]
      BY <1>10, <2>1, <2>4 DEF Fetch, ReadResult, Sound, ReadStates, Received
    <3>2. State(d) = "broken"
      BY <2>1, <3>1 DEF State
    <3>3. Handle!ReadError(d)
      BY <1>0, <2>1, <2>2, <3>1, <3>2 DEF Handle!ReadError, Received
    <3> QED
      BY <3>3 DEF Handle!HandleNext
  <2> QED
    BY <2>3, <2>4
<1>11. CASE FreeDevice(d)
  <2>1. /\ State(d) # "closed" /\ State(d)' = "closed" /\ Received'[d] = <<>>
        /\ taken' = [taken EXCEPT ![d] = <<>>] /\ result' = [result EXCEPT ![d] = "nothing"]
    BY <1>11 DEF TypeOK, FreeDevice, State, Received
  <2>2. Handle!Close(d)
    BY <1>0, <2>1 DEF Handle!Close
  <2> QED
    BY <2>2 DEF Handle!HandleNext
<1>12. CASE Arrive(d)
  BY <1>12, ArriveDelivers DEF Handle!HandleNext
<1>13. CASE Unplug(d)
  <2>1. user[d] \notin {"closed", "creating"} /\ attached[d]
    BY <1>13 DEF Unplug, Sound, Untouched
  <2>2. State(d) = "open" /\ State(d)' = "broken" /\ taken' = taken /\ result' = result
    BY <1>13, <2>1 DEF TypeOK, Unplug, State
  <2>3. Received'[d] = Received[d]
    BY <1>13 DEF TypeOK, Unplug, Received
  <2>4. Received' = Received
    BY <1>0, <2>3 DEF Received
  <2>5. Handle!Break(d)
    BY <1>0, <2>2, <2>4 DEF Handle!Break
  <2> QED
    BY <2>5 DEF Handle!HandleNext
<1> QED
  BY <1>2, <1>3, <1>4, <1>5, <1>6, <1>7, <1>8, <1>9, <1>10, <1>11, <1>12, <1>13
     DEF Call, Return, Kernel

\* A handle of the Windows library is the handle its reader sees, a read left
\* with the kernel between two calls notwithstanding (ImplementsHandle).
THEOREM WinHandleImplemented == Spec => ImplementsHandle
<1>1. WinInv /\ [Next]_vars => [Handle!HandleNext]_Handle!handleVars
  <2> SUFFICES ASSUME WinInv, [Next]_vars PROVE [Handle!HandleNext]_Handle!handleVars
    OBVIOUS
  <2>1. ASSUME NEW d \in Devices, Call(d) \/ Return(d) \/ Kernel(d)
        PROVE  [Handle!HandleNext]_Handle!handleVars
    BY <2>1, StepOfHandle DEF WinInv
  <2>2. CASE UNCHANGED vars
    BY <2>2 DEF vars, userVars, readVars, usbVars, State, Received, Handle!handleVars
  <2> QED
    BY <2>1, <2>2 DEF Next
<1> QED
  BY <1>1, InitialHandle, WinInvariant, PTL DEF Spec, ImplementsHandle, Handle!HandleSpec
=============================================================================
