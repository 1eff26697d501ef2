------------------------------ MODULE Messages ------------------------------
(***************************************************************************)
(* What happens to a message between the page and the device               *)
(* (src/messages.cpp): a map becomes a protobuf message by the definitions *)
(* a configuration has brought, field by field, and the device's answer    *)
(* becomes a map again (plugin.cpp:295-315); deriveChildNode does both     *)
(* without a device (apis.cpp:101-122).  The main thread may configure the *)
(* plug-in, file by file, while a job thread is anywhere between the two.  *)
(*                                                                         *)
(* Integers have their widths, scaled down: Half32 and Half64 stand for    *)
(* 2^31 and 2^63.  External, modelled as the source uses them: protobuf's  *)
(* descriptor pool and reflection, FireBreath's convert_cast, which makes  *)
(* a value of the type asked for of what it gets or throws, boost's hex    *)
(* and unhex.                                                              *)
(*                                                                         *)
(* A message may contain messages.  What the code does by recursion is a   *)
(* recursive function of the depth here: level n + 1 takes what level n    *)
(* makes of the messages inside.                                           *)
(***************************************************************************)
EXTENDS Integers, Sequences

CONSTANTS
  Characters,      \* what texts are made of
  Conversions,     \* what convert_cast makes of values of another kind, by the kind asked for
  Types, Names,    \* the names of types, the names of fields
  Files,           \* the FileDescriptorProtos: what they say of the names they define
  Configurations,  \* the FileDescriptorSets: sequences of files
  Requests,        \* what the page calls the device with: <<type, map>>
  DeviceMessages,  \* what the device may send: its number and its content
  Nodes,           \* the maps deriveChildNode is called with
  Indices,         \* and the indices
  NodeSizes,       \* bound: the sizes of chain_code and public_key in an HDNode
  Depth,           \* bound: how deep messages are in messages
  Half32, Half64   \* bound: half the number of integers of each width

VARIABLES
  pool,      \* descriptor_pool: what is known of each type and enumeration
  loading,   \* the files load_protobuf has still to build
  stage,     \* where the call is
  request,   \* the call's arguments
  message,   \* the protobuf message, with the name of its type
  answer     \* what the page gets

vars == <<pool, loading, stage, request, message, answer>>

-----------------------------------------------------------------------------
(* Values.  A value is a pair of its kind and what it holds.  A value of   *)
(* the page is a number, a truth value, a text, a list or a map; a field   *)
(* of a message holds a number, a truth value, a string, bytes, the name   *)
(* of an enumeration value, a message or a list.                           *)

Throws == <<"throws", "">>
Unset == <<"unset", "">>

Simple == ({"number"} \X Int) \cup ({"bool"} \X BOOLEAN)
          \cup ({"text", "string", "enum"} \X Seq(Characters))
          \cup ({"bytes"} \X Seq(0 .. 255)) \cup ({"other"} \X {0})

\* What a field may hold alone and in a list, if a map inside is one of inner.
Singles(inner) == Simple \cup ({"map", "message"} \X inner)
Values(inner) == {Unset} \cup Singles(inner) \cup ({"list"} \X Seq(Singles(inner)))

\* A map, and the content of a message: what each name has, if anything.
Maps[n \in 0 .. Depth] == [Names -> Values(IF n = 0 THEN {} ELSE Maps[n - 1])]

\* The outcome of a loop that stops at the first exception.
Each(parts) == IF \E i \in DOMAIN parts : parts[i] = Throws THEN Throws ELSE <<"list", parts>>

Integer == {"int32", "uint32", "int64", "uint64"}
RangeOf(kind) ==
  CASE kind = "int32" -> -Half32 .. Half32 - 1   [] kind = "int64" -> -Half64 .. Half64 - 1
    [] kind = "uint32" -> 0 .. 2 * Half32 - 1    [] kind = "uint64" -> 0 .. 2 * Half64 - 1

\* The kind that convert_cast is asked for, for each kind of field.
Asked(kind) ==
  CASE kind \in Integer \cup {"double", "float"} -> "number"
    [] kind = "bool" -> "bool"
    [] kind = "message" -> "map"
    [] OTHER -> "text"

\* convert_cast: numbers, truth values and texts become one another, as far as
\* they can (a text need not be a number); maps and lists become nothing else.
Cast(want, val) ==
  IF val[1] = want THEN val
  ELSE IF want \in DOMAIN Conversions /\ val \in DOMAIN Conversions[want]
  THEN <<want, Conversions[want][val]>>
  ELSE Throws

\* convert_cast<float>: the numbers it has no room for are rounded.
ToFloat(n) == IF n \in -(2 * Half32) .. 2 * Half32 - 1 THEN n ELSE n - (n % 2)

-----------------------------------------------------------------------------
(* utils.cpp: hexadecimal digits of bytes.                                 *)

Upper == <<"0", "1", "2", "3", "4", "5", "6", "7", "8", "9", "A", "B", "C", "D", "E", "F">>
Lower == <<"0", "1", "2", "3", "4", "5", "6", "7", "8", "9", "a", "b", "c", "d", "e", "f">>

HexEncode(bytes) ==
  [i \in 1 .. 2 * Len(bytes) |->
     LET byte == bytes[(i + 1) \div 2]
     IN  Upper[(IF i % 2 = 1 THEN byte \div 16 ELSE byte % 16) + 1]]

IsDigit(c) == \E v \in 1 .. 16 : c \in {Upper[v], Lower[v]}
DigitOf(c) == (CHOOSE v \in 1 .. 16 : c \in {Upper[v], Lower[v]}) - 1

\* Faulty: the digits of a byte change places.
HexDecodeSwapped(text) ==
  IF Len(text) % 2 = 0 /\ \A i \in 1 .. Len(text) : IsDigit(text[i])
  THEN <<"bytes", [i \in 1 .. Len(text) \div 2 |->
                     DigitOf(text[2 * i - 1]) + 16 * DigitOf(text[2 * i])]>>
  ELSE Throws

\* Either case; an odd length or anything else throws.
HexDecode(text) ==
  IF Len(text) % 2 = 0 /\ \A i \in 1 .. Len(text) : IsDigit(text[i])
  THEN <<"bytes", [i \in 1 .. Len(text) \div 2 |->
                     16 * DigitOf(text[2 * i - 1]) + DigitOf(text[2 * i])]>>
  ELSE Throws

-----------------------------------------------------------------------------
(* From a map to a message.  inner is message_from_map itself, for the     *)
(* maps inside, and defs is what descriptor_pool knows.                    *)

\* parse_single_field, and each turn of a loop of parse_repeated_field.
ParseSingle(defs, inner, fd, val) ==
  LET cast == Cast(Asked(fd.kind), val) IN
  IF cast = Throws THEN Throws
  ELSE CASE fd.kind \in Integer -> IF cast[2] \in RangeOf(fd.kind) THEN cast ELSE Throws
         [] fd.kind \in {"double", "bool"} -> cast
         [] fd.kind = "float" -> <<"number", ToFloat(cast[2])>>
         [] fd.kind = "string" -> <<"string", cast[2]>>
         [] fd.kind = "bytes" -> HexDecode(cast[2])
         [] fd.kind = "enum" -> IF cast[2] \in defs[fd.of].of THEN <<"enum", cast[2]>> ELSE Throws
         [] fd.kind = "message" -> inner[fd.of][cast[2]]
         [] OTHER -> Throws

\* Faulty: the bits that do not fit are cut off.
ElementCutOff(defs, inner, fd, val) ==
  ParseSingle(defs, inner, fd,
              IF fd.kind \in {"int64", "uint64"} /\ val[1] = "number"
              THEN <<"number", val[2] % (2 * Half32)>> ELSE val)

\* 64-bit elements are converted to int and unsigned int.
ParseElement(defs, inner, fd, val) ==
  LET through == CASE fd.kind = "int64" -> "int32" [] fd.kind = "uint64" -> "uint32"
                   [] OTHER -> fd.kind
  IN  ParseSingle(defs, inner, [fd EXCEPT !.kind = through], val)

ParseRepeated(defs, inner, fd, val) ==
  IF val[1] # "list" THEN Throws
  ELSE Each([i \in DOMAIN val[2] |-> ParseElement(defs, inner, fd, val[2][i])])

\* A field that is not in the map stays as it was in the new message.
ParseField(defs, inner, fd, val) ==
  IF val = Unset THEN IF fd.repeated THEN <<"list", <<>>>> ELSE Unset
  ELSE IF fd.repeated THEN ParseRepeated(defs, inner, fd, val)
  ELSE ParseSingle(defs, inner, fd, val)

\* The loop of message_from_map: what is not a field is ignored.
ParseFields(defs, inner, type, map) ==
  LET fields == defs[type].of
      parts == [f \in Names |-> IF f \in DOMAIN fields
                                THEN ParseField(defs, inner, fields[f], map[f]) ELSE Unset]
  IN  IF \E f \in Names : parts[f] = Throws THEN Throws ELSE <<"message", parts>>

FromMapsAt(defs, n, inner) ==
  [type \in Types |-> [map \in Maps[n] |-> ParseFields(defs, inner, type, map)]]

FromMaps(defs) ==
  LET level[n \in 0 .. Depth] == FromMapsAt(defs, n, IF n = 0 THEN <<>> ELSE level[n - 1])
  IN  level

FromMap(defs, type, map) == FromMaps(defs)[Depth][type][map]

-----------------------------------------------------------------------------
(* From a message to a map, inner being message_to_map.                    *)

SerializeSingle(inner, fd, val) ==
  CASE fd.kind \in Integer \cup {"double", "float", "bool"} -> val
    [] fd.kind = "string" -> <<"text", val[2]>>
    [] fd.kind = "bytes" -> <<"text", HexEncode(val[2])>>
    [] fd.kind = "enum" -> <<"text", val[2]>>
    [] fd.kind = "message" -> inner[fd.of][val[2]]
    [] OTHER -> Throws

\* Faulty: the elements come out in the reverse order.
SerializeReversed(inner, fd, val) ==
  IF fd.kind \in {"int64", "uint64", "other"} THEN Throws
  ELSE IF fd.kind \in {"string", "bytes"} /\ val[2] # <<>> THEN Throws
  ELSE Each([i \in DOMAIN val[2] |-> SerializeSingle(inner, fd, val[2][Len(val[2]) + 1 - i])])

\* No case for 64-bit integers; GetString is for single fields, and protobuf
\* takes it for a fatal error.
SerializeRepeated(inner, fd, val) ==
  IF fd.kind \in {"int64", "uint64", "other"} THEN Throws
  ELSE IF fd.kind \in {"string", "bytes"} /\ val[2] # <<>> THEN Throws
  ELSE Each([i \in DOMAIN val[2] |-> SerializeSingle(inner, fd, val[2][i])])

\* Single fields that are set, repeated ones in any case.
SerializeField(inner, fd, val) ==
  IF val = Unset THEN Unset
  ELSE IF fd.repeated THEN SerializeRepeated(inner, fd, val)
  ELSE SerializeSingle(inner, fd, val)

\* The loop of message_to_map.
SerializeFields(defs, inner, type, content) ==
  LET fields == defs[type].of
      parts == [f \in Names |-> IF f \in DOMAIN fields
                                THEN SerializeField(inner, fields[f], content[f]) ELSE Unset]
  IN  IF \E f \in Names : parts[f] = Throws THEN Throws ELSE <<"map", parts>>

ToMapsAt(defs, n, inner) ==
  [type \in Types |-> [content \in Maps[n] |-> SerializeFields(defs, inner, type, content)]]

ToMaps(defs) ==
  LET level[n \in 0 .. Depth] == ToMapsAt(defs, n, IF n = 0 THEN <<>> ELSE level[n - 1])
  IN  level

ToMap(defs, type, content) == ToMaps(defs)[Depth][type][content]

-----------------------------------------------------------------------------
(* What a message of a type may hold: protobuf parses and keeps nothing    *)
(* else.                                                                   *)

Kinds == Integer \cup {"double", "float", "bool", "string", "bytes", "enum", "message", "other"}
Fields == [kind : Kinds, repeated : BOOLEAN, of : Types \cup {""}]

Holds(defs, inner, fd) ==
  CASE fd.kind \in Integer -> {"number"} \X RangeOf(fd.kind)
    [] fd.kind = "double" -> {"number"} \X Int
    [] fd.kind = "float" -> {"number"} \X {n \in Int : ToFloat(n) = n}
    [] fd.kind = "bool" -> {"bool"} \X BOOLEAN
    [] fd.kind = "string" -> {"string"} \X Seq(Characters)
    [] fd.kind = "bytes" -> {"bytes"} \X Seq(0 .. 255)
    [] fd.kind = "enum" -> {"enum"} \X defs[fd.of].of
    [] fd.kind = "message" -> {"message"} \X inner[fd.of]
    [] OTHER -> {"other"} \X {0}

HoldsField(defs, inner, fd) ==
  IF fd.repeated THEN {"list"} \X Seq(Holds(defs, inner, fd))
  ELSE {Unset} \cup Holds(defs, inner, fd)

ContentsAt(defs, n, inner) ==
  [type \in Types |->
     LET fields == defs[type].of IN
     {content \in Maps[n] : \A f \in Names :
        IF f \in DOMAIN fields THEN content[f] \in HoldsField(defs, inner, fields[f])
        ELSE content[f] = Unset}]

Contents(defs) ==
  LET level[n \in 0 .. Depth] ==
        ContentsAt(defs, n, IF n = 0 THEN [type \in Types |-> {}] ELSE level[n - 1])
  IN  level

-----------------------------------------------------------------------------
(* The definitions, and the names and numbers of the types.                *)

NodeFields == {"depth", "fingerprint", "child_num", "chain_code", "public_key"}

\* What a file says of a name: a type of messages, an enumeration with its
\* names, or MessageType, which gives types their numbers.
IsDefinition(name, d) ==
  \/ /\ d.is = "message" /\ name # "MessageType"
     /\ DOMAIN d.of \subseteq Names /\ \A f \in DOMAIN d.of : d.of[f] \in Fields
  \/ d.is = "enum" /\ name # "MessageType" /\ d.of \subseteq Seq(Characters)
  \/ /\ d.is = "types" /\ name = "MessageType" /\ DOMAIN d.of \subseteq Types
     /\ \A t, u \in DOMAIN d.of : d.of[t] = d.of[u] => t = u

\* The kinds by which message_to_hdnode and message_from_hdnode access a node.
IsNodeType(fields) ==
  \A f \in NodeFields \cap DOMAIN fields :
    ~fields[f].repeated /\ fields[f].kind = IF f \in {"chain_code", "public_key"} THEN "bytes" ELSE "uint32"

ASSUME Widths == Half32 \in Nat \ {0} /\ Half64 \in Nat /\ Half64 > Half32
ASSUME Nesting == Depth \in Nat
ASSUME Alphabets ==
  /\ \A v \in 1 .. 16 : {Upper[v], Lower[v]} \subseteq Characters
  /\ {"HDNodeType", "MessageType"} \subseteq Types
ASSUME Casts ==
  /\ DOMAIN Conversions = {"number", "bool", "text"}
  /\ \A want \in DOMAIN Conversions : \A val \in DOMAIN Conversions[want] :
       /\ val[1] \in {"number", "bool", "text"}
       /\ Conversions[want][val] \in
            CASE want = "number" -> Int [] want = "bool" -> BOOLEAN [] OTHER -> Seq(Characters)
ASSUME Definitions ==
  /\ Configurations \subseteq Seq(Files)
  /\ \A file \in Files :
       /\ DOMAIN file \subseteq Types
       /\ \A name \in DOMAIN file : IsDefinition(name, file[name])
       /\ "HDNodeType" \in DOMAIN file /\ file["HDNodeType"].is = "message"
            => IsNodeType(file["HDNodeType"].of)
ASSUME Inputs ==
  /\ Requests \subseteq Types \X Maps[Depth]
  /\ DeviceMessages \subseteq [number : Nat, fields : Maps[Depth]]
  /\ Nodes \subseteq Maps[Depth]
  /\ Indices \subseteq 0 .. 2 * Half32 - 1
  /\ NodeSizes \in [{"chain_code", "public_key"} -> Nat \ {0}]

IsMessage(defs, type) == type \in DOMAIN defs /\ defs[type].is = "message"
IsEnum(defs, type) == type \in DOMAIN defs /\ defs[type].is = "enum"

\* Every message and enumeration that the definitions refer to is among them.
Resolved(defs) ==
  \A t \in DOMAIN defs : defs[t].is = "message" =>
    \A f \in DOMAIN defs[t].of : LET fd == defs[t].of[f] IN
      /\ fd.kind = "message" => IsMessage(defs, fd.of)
      /\ fd.kind = "enum" => IsEnum(defs, fd.of)

\* BuildFile: a file that defines again what is known, or lacks what it needs,
\* is refused as a whole; load_protobuf does not look.
BuildFile(known, file) ==
  LET all == [name \in DOMAIN known \cup DOMAIN file |->
                IF name \in DOMAIN known THEN known[name] ELSE file[name]]
  IN  IF DOMAIN file \cap DOMAIN known # {} \/ ~Resolved(all) THEN known ELSE all

Numbers(defs) == IF "MessageType" \in DOMAIN defs THEN defs["MessageType"].of ELSE <<>>

\* message_name and create_message know what to make of the number.
Readable(number) ==
  \E type \in DOMAIN Numbers(pool) : Numbers(pool)[type] = number /\ IsMessage(pool, type)
MessageName(number) == CHOOSE type \in DOMAIN Numbers(pool) : Numbers(pool)[type] = number

NoMessage == [by |-> "nobody", type |-> "", fields |-> <<>>]

Init ==
  /\ pool = <<>>
  /\ loading = <<>>
  /\ stage = "idle"
  /\ request = <<"", <<>>, 0>>
  /\ message = NoMessage
  /\ answer = <<"", Throws>>

-----------------------------------------------------------------------------
(* A call.                                                                 *)

\* Any of the exceptions: the page gets an error.
Fails ==
  /\ stage' = "failed"
  /\ message' = NoMessage
  /\ UNCHANGED answer

\* configure() on the main thread, at any moment, ...
Configure(c) ==
  /\ loading = <<>>
  /\ loading' = c
  /\ UNCHANGED <<pool, stage, request, message, answer>>

\* ... and a turn of the loop of load_protobuf.
LoadProtobuf ==
  /\ loading # <<>>
  /\ pool' = BuildFile(pool, Head(loading))
  /\ loading' = Tail(loading)
  /\ UNCHANGED <<stage, request, message, answer>>

\* create_message and message_from_map, and message_type in write().
Call(r) ==
  /\ stage = "idle"
  /\ request' = <<r[1], r[2], 0>>
  /\ LET type == r[1]
         made == IF IsMessage(pool, type) THEN FromMap(pool, type, r[2]) ELSE Throws
     IN  IF made = Throws \/ type \notin DOMAIN Numbers(pool)
           THEN Fails
           ELSE /\ stage' = "sent"
                /\ message' = [by |-> "page", type |-> type, fields |-> made[2]]
                /\ UNCHANGED answer
  /\ UNCHANGED <<pool, loading>>

\* read() makes the message the number of the answer stands for.
Read(by, number, content) ==
  /\ IF Readable(number)
       THEN /\ stage' = "read"
            /\ message' = [by |-> by, type |-> MessageName(number), fields |-> content]
            /\ UNCHANGED answer
       ELSE Fails
  /\ UNCHANGED <<pool, loading, request>>

\* The device sends back what it got (a Ping, say), ...
DeviceEchoes ==
  /\ stage = "sent"
  /\ Read("page", Numbers(pool)[message.type], message.fields)

\* ... or a message of its own, of the protocol it has in common with the page.
DeviceAnswers(m) ==
  /\ stage = "sent"
  /\ Readable(m.number) => m.fields \in Contents(pool)[Depth][MessageName(m.number)]
  /\ Read("device", m.number, m.fields)

\* message_name and message_to_map, for the success callback.
Respond ==
  /\ stage = "read"
  /\ LET map == ToMap(pool, message.type, message.fields) IN
       IF map = Throws
         THEN Fails
         ELSE /\ stage' = "answered"
              /\ answer' = <<message.type, map>>
              /\ UNCHANGED message
  /\ UNCHANGED <<pool, loading, request>>

-----------------------------------------------------------------------------
(* deriveChildNode.                                                        *)

\* The bytes hdnode_from_xpub copies: what lies behind a string that is too
\* short may be anything.
Copies(bytes, size) ==
  {[i \in 1 .. size |-> IF i <= Len(bytes) THEN bytes[i] ELSE stray[i]] :
     stray \in [1 .. size -> {0, 255}]}

\* message_to_hdnode; a field that is not set reads 0 or "".
Hdnodes(content) ==
  LET number(f) == IF content[f] = Unset THEN 0 ELSE content[f][2]
      bytes(f) == Copies(IF content[f] = Unset THEN <<>> ELSE content[f][2], NodeSizes[f])
  IN  {[depth |-> number("depth"), fingerprint |-> number("fingerprint"),
        child_num |-> number("child_num"), chain_code |-> c, public_key |-> p] :
         c \in bytes("chain_code"), p \in bytes("public_key")}

\* hdnode_public_ckd: some function of the node and the index; an index with
\* the highest bit set has no public child, and leaves the node as it is.
HdnodePublicCkd(node, index) ==
  LET mix(bytes) == [i \in DOMAIN bytes |-> (bytes[i] + index + 1) % 256]
  IN  IF index >= Half32 THEN node ELSE
      [depth |-> (node.depth + 1) % (2 * Half32),
       fingerprint |-> node.public_key[1] % (2 * Half32),
       child_num |-> index,
       chain_code |-> mix(node.chain_code), public_key |-> mix(node.public_key)]

\* Faulty: the number of the child is not set.
FromHdnodeKeepsNumber(content, node) ==
  [f \in Names |->
     CASE f \in {"depth", "fingerprint"} -> <<"number", node[f]>>
       [] f \in {"chain_code", "public_key"} -> <<"bytes", node[f]>>
       [] OTHER -> content[f]]

\* message_from_hdnode overwrites five fields of the message it came from.
FromHdnode(content, node) ==
  [f \in Names |->
     CASE f \in {"depth", "fingerprint", "child_num"} -> <<"number", node[f]>>
       [] f \in {"chain_code", "public_key"} -> <<"bytes", node[f]>>
       [] OTHER -> content[f]]

\* field_or_throw: the definitions need not have all five.  The main thread
\* does not load files then.
DeriveChildNode(map, index) ==
  /\ stage = "idle" /\ loading = <<>>
  /\ request' = <<"HDNodeType", map, index>>
  /\ LET made == IF IsMessage(pool, "HDNodeType") THEN FromMap(pool, "HDNodeType", map)
                 ELSE Throws
     IN
       IF made = Throws \/ ~(NodeFields \subseteq DOMAIN pool["HDNodeType"].of)
         THEN Fails
         ELSE \E node \in Hdnodes(made[2]) :
                LET derived == FromHdnode(made[2], HdnodePublicCkd(node, index))
                    back == ToMap(pool, "HDNodeType", derived)
                IN  IF back = Throws
                      THEN Fails
                      ELSE /\ stage' = "derived"
                           /\ answer' = <<"HDNodeType", back>>
                           /\ UNCHANGED message
  /\ UNCHANGED <<pool, loading>>

\* The page goes on to its next call.
NextCall ==
  /\ stage \in {"answered", "failed", "derived"}
  /\ stage' = "idle"
  /\ request' = <<"", <<>>, 0>>
  /\ message' = NoMessage
  /\ answer' = <<"", Throws>>
  /\ UNCHANGED <<pool, loading>>

Next ==
  \/ \E c \in Configurations : Configure(c)
  \/ LoadProtobuf
  \/ \E r \in Requests : Call(r)
  \/ DeviceEchoes
  \/ \E m \in DeviceMessages : DeviceAnswers(m)
  \/ Respond
  \/ \E n \in Nodes, i \in Indices : DeriveChildNode(n, i)
  \/ NextCall

Spec == Init /\ [][Next]_vars
-----------------------------------------------------------------------------
(* Properties.                                                             *)

\* The digits of a text, in upper case.
InUpperCase(text, back) ==
  /\ Len(back) = Len(text)
  /\ \A i \in 1 .. Len(back) :
       \E v \in 1 .. 16 : back[i] = Upper[v] /\ text[i] \in {Upper[v], Lower[v]}

\* What comes back for a value of a single field: the value, as one of the kind
\* that the field asks for.
AlikeSingle(inner, fd, given, back) ==
  LET cast == Cast(Asked(fd.kind), given) IN
  CASE fd.kind = "float" ->
         back[1] = "number" /\ back[2] \in {cast[2] - 1, cast[2]}
    [] fd.kind = "bytes" -> back[1] = "text" /\ InUpperCase(cast[2], back[2])
    [] fd.kind = "message" -> back[1] = "map" /\ inner[fd.of][cast[2]][back[2]]
    [] OTHER -> back = cast

AlikeField(inner, fd, given, back) ==
  IF given = Unset THEN back = IF fd.repeated THEN <<"list", <<>>>> ELSE Unset
  ELSE IF fd.repeated
       THEN /\ back[1] = "list" /\ Len(back[2]) = Len(given[2])
            /\ \A i \in 1 .. Len(back[2]) : AlikeSingle(inner, fd, given[2][i], back[2][i])
       ELSE AlikeSingle(inner, fd, given, back)

\* What comes back for a map: every field that was given, and an empty list
\* for each repeated one that was not.
AlikeAt(defs, n, inner) ==
  [type \in Types |-> [given \in Maps[n] |-> [back \in Maps[n] |->
     LET fields == defs[type].of IN
     \A f \in Names : IF f \in DOMAIN fields
                       THEN AlikeField(inner, fields[f], given[f], back[f])
                       ELSE back[f] = Unset]]]

Alike(defs) ==
  LET level[n \in 0 .. Depth] == AlikeAt(defs, n, IF n = 0 THEN <<>> ELSE level[n - 1])
  IN  level

\* A message the device sends back reaches the page as the page gave it, in
\* order and complete, hexadecimal digits in upper case and a value of another
\* kind as what convert_cast made of it, even when configure() has come in
\* between (messages.cpp:15-20, 102-412; plugin.cpp:303-312).
EchoComesBack ==
  stage = "answered" /\ message.by = "page" =>
    answer[1] = request[1] /\ Alike(pool)[Depth][request[1]][request[2]][answer[2][2]]

\* A number the plug-in accepts for an integer is sent as it was given, in a list
\* as well as alone, and so is one that convert_cast finds in a text: what does
\* not fit is refused (messages.cpp:230-244, 298-316).
NothingAltered ==
  stage = "sent" =>
    \A f \in DOMAIN pool[message.type].of :
      LET fd == pool[message.type].of[f]
          given == request[2][f]
          sent == message.fields[f]
      IN  fd.kind \in Integer /\ given # Unset =>
            IF fd.repeated
            THEN /\ Len(sent[2]) = Len(given[2])
                 /\ \A i \in 1 .. Len(given[2]) : sent[2][i] = Cast("number", given[2][i])
            ELSE sent = Cast("number", given)

\* What the device has sent can be sent back as the page got it, and is the
\* same message then (messages.cpp:102-412).
AnswerAccepted ==
  stage = "answered" => FromMap(pool, answer[1], answer[2][2]) = <<"message", message.fields>>

\* What deriveChildNode returns is, for the next derivation too, what
\* hdnode_public_ckd has made of the node that was given: its child, or the
\* node itself for an index that is refused (apis.cpp:101-122, messages.cpp:414-455).
DerivationChains ==
  stage = "derived" =>
    \E node \in Hdnodes(FromMap(pool, "HDNodeType", request[2])[2]) :
      Hdnodes(FromMap(pool, "HDNodeType", answer[2][2])[2]) = {HdnodePublicCkd(node, request[3])}
=============================================================================
