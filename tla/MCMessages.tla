----------------------------- MODULE MCMessages -----------------------------
(* Instances of Messages for TLC. *)
EXTENDS Messages, TLC

Field(kind) == [kind |-> kind, repeated |-> FALSE, of |-> ""]
Of(kind, type) == [Field(kind) EXCEPT !.of = type]
Many(fd) == [fd EXCEPT !.repeated = TRUE]

MessageOf(fields) == [is |-> "message", of |-> fields]
EnumOf(values) == [is |-> "enum", of |-> values]
TypesOf(numbers) == [is |-> "types", of |-> numbers]

FileA ==
  [Ping |-> MessageOf(
     [n |-> Field("int32"), u |-> Field("uint32"), big |-> Field("int64"),
      ubig |-> Field("uint64"), yes |-> Field("bool"), exact |-> Field("double"),
      near |-> Field("float"), name |-> Field("string"), data |-> Field("bytes"),
      word |-> Of("enum", "Word"), inner |-> Of("message", "Inner"),
      numbers |-> Many(Field("uint32")), words |-> Many(Of("enum", "Word")),
      parts |-> Many(Of("message", "Inner")), odd |-> Field("other")]),
   Wide |-> MessageOf([bigs |-> Many(Field("int64")), ubigs |-> Many(Field("uint64"))]),
   Texts |-> MessageOf([names |-> Many(Field("string")), blobs |-> Many(Field("bytes"))]),
   Inner |-> MessageOf([data |-> Field("bytes"), numbers |-> Many(Field("int32")),
                        inner |-> Of("message", "Inner")]),
   HDNodeType |-> MessageOf(
     [depth |-> Field("uint32"), fingerprint |-> Field("uint32"), child_num |-> Field("uint32"),
      chain_code |-> Field("bytes"), public_key |-> Field("bytes"), private_key |-> Field("bytes")]),
   Word |-> EnumOf({<<"A">>, <<"B">>}),
   MessageType |-> TypesOf([Ping |-> 1, Wide |-> 2, Texts |-> 3, Gone |-> 4])]

\* Another protocol: a field has another type, and the numbers are exchanged.
FileB ==
  [Ping |-> MessageOf([n |-> Field("string")]),
   Wide |-> MessageOf([ubigs |-> Many(Field("uint64"))]),
   MessageType |-> TypesOf([Ping |-> 2, Wide |-> 1])]

\* A file that needs one of the first protocol.
FileC == [Late |-> MessageOf([inner |-> Of("message", "Inner")])]

TestFiles == {FileA, FileB, FileC}
TestConfigurations == {<<FileA>>, <<FileB>>, <<FileC, FileB>>, <<FileA, FileC>>}

TestCharacters == {Upper[v] : v \in 1 .. 16} \cup {Lower[v] : v \in 1 .. 16} \cup {"g"}
TestTypes == {"Gone"} \cup UNION {DOMAIN file : file \in TestFiles}
TestNames == {"stray"} \cup UNION {DOMAIN FileA[t].of : t \in {"Ping", "Wide", "Texts", "Inner", "HDNodeType"}}

\* The map or content that has these fields and no others.
Having(fields) == [f \in TestNames |-> IF f \in DOMAIN fields THEN fields[f] ELSE Unset]

-----------------------------------------------------------------------------
\* What convert_cast is asked for here; "7" is a number, and no truth value but FALSE.
Spelling ==
  [v \in {<<"number", 1>>, <<"number", 7>>, <<"bool", TRUE>>} |->
     IF v = <<"number", 7>> THEN <<"7">> ELSE <<"1">>]
Digits == [v \in {<<"text", <<"1">>>>, <<"text", <<"7">>>>, <<"bool", TRUE>>} |->
             IF v = <<"text", <<"7">>>> THEN 7 ELSE 1]
Truths == [v \in {<<"number", 0>>, <<"number", 1>>} \cup {<<"text", <<c>>>> : c \in {"1", "7", "B"}} |->
             v \in {<<"number", 1>>, <<"text", <<"1">>>>}]
TestConversions == [want \in {"number", "bool", "text"} |->
  CASE want = "number" -> Digits [] want = "bool" -> Truths [] OTHER -> Spelling]

Numbered(numbers) == {<<"number", n>> : n \in numbers}
Ends == Numbered({-9, -8, -3, -2, -1, 0, 1, 3, 4, 6, 7, 8, 15, 16})
Texts == {<<"text", t>> : t \in {<<>>, <<"A">>, <<"0", "1">>, <<"a", "F">>, <<"f", "e", "9", "0">>,
                                 <<"g", "0">>}}
Map(fields) == <<"map", Having(fields)>>
\* One of each kind, for the fields of the others.
OneOfEach == {<<"number", 1>>, <<"text", <<"B">>>>, <<"text", <<"7">>>>, <<"bool", TRUE>>, <<"list", <<>>>>, Map(<<>>)}

Lists(elements) == {<<"list", s>> : s \in {<<>>} \cup {<<e>> : e \in elements}
                                            \cup (elements \X elements)}
InnerMaps ==
  {Map([data |-> v]) : v \in Texts} \cup
  {Map([numbers |-> v]) : v \in Lists(Numbered({-3, -2, 1}))}

Alone(fd) ==
  OneOfEach \cup CASE fd.kind \in Integer \cup {"double", "float"} -> Ends
             [] fd.kind \in {"string", "bytes", "enum"} -> Texts
             [] fd.kind = "message" -> InnerMaps \cup {Map([inner |-> m]) : m \in InnerMaps}
             [] OTHER -> {}

Listed(fd) ==
  OneOfEach \cup Lists(CASE fd.kind = "message" -> {Map([data |-> v]) : v \in Texts}
                   [] fd.kind \in Integer ->
                        {<<"text", <<"1">>>>, <<"text", <<"7">>>>} \cup Numbered({-3, -2, 0, 1, 3, 4, 7})
                   [] OTHER -> Texts)

Given(fd) == IF fd.repeated THEN Listed(fd) ELSE Alone(fd)

TestRequests ==
  {<<t, Having(<<>>)>> : t \in {"Ping", "Wide", "Texts", "Gone", "Inner", "Word"}} \cup
  {<<"Ping", Having([stray |-> <<"number", 1>>])>>} \cup
  UNION {UNION {{<<t, Having([x \in {f} |-> v])>> : v \in Given(FileA[t].of[f])} :
                  f \in DOMAIN FileA[t].of} : t \in {"Ping", "Wide", "Texts"}} \cup
  {<<"Ping", Having([data |-> v, numbers |-> l])>> : v \in Texts, l \in Lists(Numbered({0, 3, 4}))}

-----------------------------------------------------------------------------
NoList == <<"list", <<>>>>
PingLists == [numbers |-> NoList, words |-> NoList, parts |-> NoList]
InnerMessage ==
  <<"message", Having([data |-> <<"bytes", <<171>>>>, numbers |-> <<"list", <<<<"number", -2>>>>>>])>>

TestMessages ==
  {[number |-> 1, fields |-> Having(fields @@ PingLists)] : fields \in
     {<<>>, [big |-> <<"number", -8>>], [ubig |-> <<"number", 15>>],
      [near |-> <<"number", 6>>], [data |-> <<"bytes", <<0, 175, 255>>>>],
      [name |-> <<"string", <<"g">>>>], [odd |-> <<"other", 0>>],
      [inner |-> InnerMessage], [word |-> <<"enum", <<"B">>>>],
      [parts |-> <<"list", <<InnerMessage, InnerMessage>>>>],
      [words |-> <<"list", <<<<"enum", <<"A">>>>, <<"enum", <<"B">>>>>>>>]}} \cup
  {[number |-> 2, fields |-> Having([bigs |-> NoList, ubigs |-> NoList])],
   [number |-> 1, fields |-> Having([ubigs |-> <<"list", <<<<"number", 15>>>>>>])],
   [number |-> 3, fields |-> Having([names |-> NoList, blobs |-> NoList])],
   [number |-> 3, fields |-> Having([names |-> <<"list", <<<<"string", <<"g">>>>>>>>, blobs |-> NoList])],
   [number |-> 4, fields |-> Having(<<>>)], [number |-> 9, fields |-> Having(<<>>)]}

-----------------------------------------------------------------------------
Sizes == [chain_code |-> 1, public_key |-> 2]

Node == [depth |-> <<"number", 3>>, fingerprint |-> <<"number", 1>>, child_num |-> <<"number", 0>>,
         chain_code |-> <<"text", <<"f", "f">>>>, public_key |-> <<"text", <<"0", "2", "F", "e">>>>]

TestNodes ==
  {Having(fields) : fields \in
     {Node, <<>>, [Node EXCEPT !.depth = <<"number", 4>>],
      [Node EXCEPT !.public_key = <<"text", <<"0", "2">>>>],
      Node @@ [private_key |-> <<"text", <<"0", "a">>>>]}}
=============================================================================
