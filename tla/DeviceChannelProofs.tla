------------------------ MODULE DeviceChannelProofs ------------------------
(***************************************************************************)
(* Proofs about DeviceChannel.  On a little-endian host, which is what the *)
(* swapping of bytes in devices.cpp is written for, messages are written   *)
(* whole, and what is read is what the device has sent, in its order,      *)
(* however the reports are cut and wherever a read is given up.            *)
(***************************************************************************)
EXTENDS DeviceChannel, SequenceFacts

-----------------------------------------------------------------------------
(* Numbers and their bytes.                                                *)

LEMMA BytesBelowBase ==
  /\ Base \in Nat \ {0} /\ Magic \in Bytes /\ Magic # 0 /\ 0 \in Bytes
  /\ \A b \in Bytes : b \in Nat
BY Alphabet DEF Bytes

\* A number is its last digit and what is in front of it.
LEMMA Division ==
  ASSUME NEW b \in Nat \ {0}, NEW v \in Nat
  PROVE  v % b \in 0 .. b - 1 /\ v \div b \in Nat /\ v = (v % b) + b * (v \div b)
OBVIOUS

\* There is no other way to write it like that.
LEMMA DigitsUnique ==
  ASSUME NEW b \in Nat \ {0}, NEW d \in 0 .. b - 1, NEW q \in Nat,
         NEW e \in 0 .. b - 1, NEW p \in Nat, d + b * q = e + b * p
  PROVE  d = e /\ q = p
OBVIOUS

LEMMA TimesMonotonic ==
  ASSUME NEW a \in Nat, NEW b \in Nat, NEW c \in Nat, b <= c
  PROVE  a * b <= a * c
<1> DEFINE r == c - b
<1>1. r \in Nat /\ c = b + r
  OBVIOUS
<1> HIDE DEF r
<1>2. a * c = a * b + a * r /\ a * r >= 0 /\ a * b \in Int /\ a * r \in Int
  BY <1>1
<1> QED
  BY <1>2

\* The last digit comes off with % and \div.
LEMMA LastDigit ==
  ASSUME NEW d \in Bytes, NEW q \in Nat
  PROVE  /\ d + Base * q \in Nat
         /\ Low(d + Base * q) = d /\ High(d + Base * q) = q
<1> DEFINE v == d + Base * q
<1>1. Base \in Nat \ {0} /\ d \in 0 .. Base - 1
  BY BytesBelowBase DEF Bytes
<1>2. v \in Nat
  BY <1>1
<1>3. v % Base \in 0 .. Base - 1 /\ v \div Base \in Nat /\ v = (v % Base) + Base * (v \div Base)
  BY <1>1, <1>2, Division
<1> HIDE DEF v
<1>4. v = d + Base * q
  BY DEF v
<1>5. v % Base = d /\ v \div Base = q
  BY <1>1, <1>3, <1>4, DigitsUnique
<1> QED
  BY <1>2, <1>5 DEF v, Low, High

\* A byte has one digit.
LEMMA OneDigit ==
  ASSUME NEW d \in Bytes
  PROVE  Low(d) = d
<1>1. d + Base * 0 = d
  BY BytesBelowBase DEF Bytes
<1> QED
  BY <1>1, LastDigit

\* A number with one digit less, without its last one.
LEMMA Shorter ==
  ASSUME NEW v \in Nat, NEW limit \in Nat, v < Base * limit
  PROVE  /\ Low(v) \in Bytes /\ High(v) \in Nat /\ High(v) < limit
         /\ v = Low(v) + Base * High(v)
<1>1. Base \in Nat \ {0}
  BY BytesBelowBase
<1>2. v % Base \in 0 .. Base - 1 /\ v \div Base \in Nat /\ v = (v % Base) + Base * (v \div Base)
  BY <1>1, Division
<1>3. v \div Base < limit
  <2> DEFINE q == v \div Base
  <2>1. q \in Nat /\ Base * q < Base * limit
    BY <1>1, <1>2
  <2> HIDE DEF q
  <2>2. ASSUME q >= limit PROVE FALSE
    <3>1. Base * q >= Base * limit
      BY <1>1, <2>1, <2>2
    <3> QED
      BY <1>1, <2>1, <3>1
  <2> QED
    BY <2>1, <2>2 DEF q
<1> QED
  BY <1>2, <1>3 DEF Low, High, Bytes

\* The other way round.
LEMMA ReversedTwo ==
  ASSUME NEW a, NEW b
  PROVE  Reverse(<<a, b>>) = <<b, a>>
BY DEF Reverse

LEMMA ReversedFour ==
  ASSUME NEW a, NEW b, NEW c, NEW d
  PROVE  Reverse(<<a, b, c, d>>) = <<d, c, b, a>>
BY DEF Reverse

\* 16 bits are two bytes.
LEMMA TwoBytes ==
  ASSUME NEW v \in 0 .. Base * Base - 1
  PROVE  \E a, b \in Bytes : v = a + Base * b /\ Split16(v) = <<a, b>>
<1>1. v \in Nat /\ v < Base * Base /\ Base \in Nat
  BY BytesBelowBase
<1>2. Low(v) \in Bytes /\ High(v) \in Nat /\ High(v) < Base /\ v = Low(v) + Base * High(v)
  BY <1>1, Shorter
<1>3. High(v) \in Bytes
  BY <1>1, <1>2 DEF Bytes
<1>4. Low(High(v)) = High(v)
  BY <1>3, OneDigit
<1> QED
  BY <1>2, <1>3, <1>4 DEF Split16

LEMMA SplitJoined16 ==
  ASSUME NEW a \in Bytes, NEW b \in Bytes
  PROVE  Split16(a + Base * b) = <<a, b>>
<1>1. b \in Nat
  BY DEF Bytes
<1> QED
  BY <1>1, LastDigit, OneDigit DEF Split16

\* 32 bits are four bytes.
FourDigits == Base * (Base * (Base * Base))

LEMMA FourDigitsTyped == FourDigits \in Nat
BY BytesBelowBase DEF FourDigits

LEMMA FourBytes ==
  ASSUME NEW v \in Nat, v < FourDigits
  PROVE  \E a, b, c, d \in Bytes : v = Join32(<<a, b, c, d>>) /\ Split32(v) = <<a, b, c, d>>
<1> DEFINE limit2 == Base * Base
           limit3 == Base * limit2
<1>1. Base \in Nat /\ limit2 \in Nat /\ limit3 \in Nat /\ v < Base * limit3
  BY BytesBelowBase DEF FourDigits
<1> DEFINE v1 == High(v)
           v2 == High(v1)
           v3 == High(v2)
<1>2. Low(v) \in Bytes /\ v1 \in Nat /\ v1 < limit3 /\ v = Low(v) + Base * v1
  <2> HIDE DEF limit3
  <2> QED
    BY <1>1, Shorter
<1>3. Low(v1) \in Bytes /\ v2 \in Nat /\ v2 < limit2 /\ v1 = Low(v1) + Base * v2
  <2> HIDE DEF v1, limit2
  <2> QED
    BY <1>1, <1>2, Shorter
<1>4. Low(v2) \in Bytes /\ v3 \in Bytes /\ v2 = Low(v2) + Base * v3
  <2> HIDE DEF v2
  <2> QED
    BY <1>1, <1>3, Shorter DEF Bytes
<1>5. Low(v3) = v3
  <2> HIDE DEF v3
  <2> QED
    BY <1>4, OneDigit
<1>6. Split32(v) = <<Low(v), Low(v1), Low(v2), v3>>
  BY <1>5 DEF Split32
<1> HIDE DEF v1, v2, v3
<1>7. v = Low(v) + Base * (Low(v1) + Base * (Low(v2) + Base * v3))
  BY <1>2, <1>3, <1>4
<1>8. v = Join32(<<Low(v), Low(v1), Low(v2), v3>>)
  BY <1>7 DEF Join32
<1> QED
  BY <1>2, <1>3, <1>4, <1>6, <1>8

LEMMA SplitJoined32 ==
  ASSUME NEW a \in Bytes, NEW b \in Bytes, NEW c \in Bytes, NEW d \in Bytes
  PROVE  Split32(Join32(<<a, b, c, d>>)) = <<a, b, c, d>>
<1> DEFINE v3 == c + Base * d
           v2 == b + Base * v3
           v1 == a + Base * v2
<1>1. d \in Nat
  BY DEF Bytes
<1>2. v3 \in Nat /\ Low(v3) = c /\ High(v3) = d
  BY <1>1, LastDigit
<1>3. v2 \in Nat /\ Low(v2) = b /\ High(v2) = v3
  <2> HIDE DEF v3
  <2> QED
    BY <1>2, LastDigit
<1>4. Low(v1) = a /\ High(v1) = v2
  <2> HIDE DEF v2
  <2> QED
    BY <1>3, LastDigit
<1> HIDE DEF v1, v2, v3
<1>5. Split32(v1) = <<a, b, c, d>>
  BY <1>2, <1>3, <1>4, OneDigit DEF Split32
<1>6. Join32(<<a, b, c, d>>) = v1
  BY DEF v1, v2, v3, Join32
<1> QED
  BY <1>5, <1>6

\* On a little-endian host htons writes a number the other way round, and
\* ntohs, which is the same, reads it like that.
LEMMA Swap16 ==
  ASSUME LittleEndian, NEW v \in 0 .. Base * Base - 1
  PROVE  /\ Split16(htons(v)) = Reverse(Split16(v))
         /\ htons(Join16(Reverse(Split16(v)))) = v
<1>1. PICK a, b \in Bytes : v = a + Base * b /\ Split16(v) = <<a, b>>
  BY TwoBytes
<1>2. Reverse(Split16(v)) = <<b, a>>
  BY <1>1, ReversedTwo
<1>3. Join16(<<b, a>>) = b + Base * a /\ Join16(<<a, b>>) = a + Base * b
  BY DEF Join16
<1>4. Split16(b + Base * a) = <<b, a>>
  BY SplitJoined16
<1>5. Split16(htons(v)) = <<b, a>>
  BY <1>2, <1>3, <1>4 DEF htons
<1>6. htons(b + Base * a) = v
  BY <1>1, <1>3, <1>4, ReversedTwo DEF htons
<1> QED
  BY <1>2, <1>3, <1>5, <1>6

\* And so do htonl and ntohl.
LEMMA Swap32 ==
  ASSUME LittleEndian, NEW v \in Nat, v < FourDigits
  PROVE  /\ Split32(htonl(v)) = Reverse(Split32(v))
         /\ htonl(Join32(Reverse(Split32(v)))) = v
<1>1. PICK a, b, c, d \in Bytes : v = Join32(<<a, b, c, d>>) /\ Split32(v) = <<a, b, c, d>>
  BY FourBytes, FourDigitsTyped
<1>2. Reverse(Split32(v)) = <<d, c, b, a>> /\ Reverse(<<d, c, b, a>>) = <<a, b, c, d>>
  BY <1>1, ReversedFour
<1>3. Split32(Join32(<<d, c, b, a>>)) = <<d, c, b, a>>
  BY SplitJoined32
<1>4. Split32(htonl(v)) = <<d, c, b, a>>
  BY <1>2, <1>3 DEF htonl
<1>5. htonl(Join32(<<d, c, b, a>>)) = v
  BY <1>1, <1>2, <1>3 DEF htonl
<1> QED
  BY <1>2, <1>4, <1>5

\* The bytes of two and of four.
LEMMA SplitsTyped ==
  /\ \A v \in 0 .. Base * Base - 1 :
       /\ Reverse(Split16(v)) \in Seq(Bytes)
       /\ Len(Reverse(Split16(v))) = 2
  /\ \A v \in Nat : v < FourDigits =>
       /\ Reverse(Split32(v)) \in Seq(Bytes)
       /\ Len(Reverse(Split32(v))) = 4
<1>1. ASSUME NEW v \in 0 .. Base * Base - 1
      PROVE  Reverse(Split16(v)) \in Seq(Bytes) /\ Len(Reverse(Split16(v))) = 2
  <2>1. PICK a, b \in Bytes : Split16(v) = <<a, b>>
    BY TwoBytes
  <2>2. Reverse(Split16(v)) = <<b, a>>
    BY <2>1, ReversedTwo
  <2>3. <<b, a>> \in Seq(Bytes) /\ Len(<<b, a>>) = 2
    OBVIOUS
  <2> QED
    BY <2>2, <2>3
<1>2. ASSUME NEW v \in Nat, v < FourDigits
      PROVE  Reverse(Split32(v)) \in Seq(Bytes) /\ Len(Reverse(Split32(v))) = 4
  <2>1. PICK a, b, c, d \in Bytes : v = Join32(<<a, b, c, d>>) /\ Split32(v) = <<a, b, c, d>>
    BY <1>2, FourBytes, FourDigitsTyped
  <2>2. Reverse(Split32(v)) = <<d, c, b, a>>
    BY <2>1, ReversedFour
  <2>3. <<d, c, b, a>> \in Seq(Bytes) /\ Len(<<d, c, b, a>>) = 4
    OBVIOUS
  <2> QED
    BY <2>2, <2>3
<1> QED
  BY <1>1, <1>2

-----------------------------------------------------------------------------
(* A message on the wire.                                                  *)

\* What is put behind a sequence of bytes follows it.
LEMMA Concatenated ==
  \A s, t \in Seq(Bytes) :
    /\ s \o t \in Seq(Bytes) /\ Len(s \o t) = Len(s) + Len(t)
    /\ \A q \in 1 .. Len(s) : (s \o t)[q] = s[q]
    /\ \A q \in 1 .. Len(t) : (s \o t)[Len(s) + q] = t[q]
<1> TAKE s, t \in Seq(Bytes)
<1>1. s \o t \in Seq(Bytes) /\ Len(s \o t) = Len(s) + Len(t)
  OBVIOUS
<1>2. \A q \in 1 .. Len(s) : (s \o t)[q] = s[q]
  OBVIOUS
<1>3. \A q \in 1 .. Len(t) : (s \o t)[Len(s) + q] = t[q]
  OBVIOUS
<1> QED
  BY <1>1, <1>2, <1>3

Sendable == Outgoing \cup Incoming

\* The header takes eight bytes, the body follows.
LEMMA WireShape ==
  ASSUME NEW m \in Sendable
  PROVE  /\ Wire(m) \in Seq(Bytes)
         /\ Len(m.body) \in Nat
         /\ Len(Wire(m)) = 8 + Len(m.body)
         /\ Wire(m)[1] = Magic /\ Wire(m)[2] = Magic
         /\ \A q \in 1 .. 2 : Wire(m)[2 + q] = Reverse(Split16(m.type))[q]
         /\ \A q \in 1 .. 4 : Wire(m)[4 + q] = Reverse(Split32(Len(m.body)))[q]
         /\ \A q \in 1 .. Len(m.body) : Wire(m)[8 + q] = m.body[q]
<1> DEFINE mark == <<Magic, Magic>>
           type == Reverse(Split16(m.type))
           length == Reverse(Split32(Len(m.body)))
           two == mark \o type
           three == two \o length
<1>1. /\ m.body \in Seq(Bytes) /\ Len(m.body) \in Nat
      /\ m.type \in 0 .. Base * Base - 1
      /\ Len(m.body) < FourDigits
  BY MessagesTyped, LenProperties DEF Sendable, FourDigits
<1>2. /\ mark \in Seq(Bytes) /\ Len(mark) = 2 /\ mark[1] = Magic /\ mark[2] = Magic
      /\ type \in Seq(Bytes) /\ Len(type) = 2
      /\ length \in Seq(Bytes) /\ Len(length) = 4
  <2>1. mark \in Seq(Bytes) /\ Len(mark) = 2 /\ mark[1] = Magic /\ mark[2] = Magic
    BY BytesBelowBase
  <2>2. type \in Seq(Bytes) /\ Len(type) = 2
    BY <1>1, SplitsTyped
  <2>3. length \in Seq(Bytes) /\ Len(length) = 4
    BY <1>1, SplitsTyped
  <2> QED
    BY <2>1, <2>2, <2>3
<1> DEFINE n == Len(m.body)
           w == Wire(m)
           body == m.body
<1>3. body \in Seq(Bytes) /\ n \in Nat /\ Len(body) = n
  BY <1>1
<1>4. w = three \o body
  BY DEF Wire
<1> HIDE DEF mark, type, length, n, w, body
<1>5. /\ two \in Seq(Bytes) /\ Len(two) = 4
      /\ \A q \in 1 .. 2 : two[q] = mark[q]
      /\ \A q \in 1 .. 2 : two[2 + q] = type[q]
  <2>1. /\ two \in Seq(Bytes) /\ Len(two) = Len(mark) + Len(type)
        /\ \A q \in 1 .. Len(mark) : two[q] = mark[q]
        /\ \A q \in 1 .. Len(type) : two[Len(mark) + q] = type[q]
    BY <1>2, Concatenated, Zenon
  <2> HIDE DEF two
  <2>2. Len(two) = 4
    BY <1>2, <2>1
  <2>3. \A q \in 1 .. 2 : two[q] = mark[q]
    BY <1>2, <2>1
  <2>4. \A q \in 1 .. 2 : two[2 + q] = type[q]
    BY <1>2, <2>1
  <2> QED
    BY <2>1, <2>2, <2>3, <2>4
<1> HIDE DEF two
<1>6. /\ three \in Seq(Bytes) /\ Len(three) = 8
      /\ \A q \in 1 .. 4 : three[q] = two[q]
      /\ \A q \in 1 .. 4 : three[4 + q] = length[q]
  <2>1. /\ three \in Seq(Bytes) /\ Len(three) = Len(two) + Len(length)
        /\ \A q \in 1 .. Len(two) : three[q] = two[q]
        /\ \A q \in 1 .. Len(length) : three[Len(two) + q] = length[q]
    BY <1>2, <1>5, Concatenated, Zenon
  <2> HIDE DEF three
  <2>2. Len(three) = 8
    BY <1>2, <1>5, <2>1
  <2>3. \A q \in 1 .. 4 : three[q] = two[q]
    BY <1>2, <1>5, <2>1
  <2>4. \A q \in 1 .. 4 : three[4 + q] = length[q]
    BY <1>2, <1>5, <2>1
  <2> QED
    BY <2>1, <2>2, <2>3, <2>4
<1> HIDE DEF three
<1>7. /\ w \in Seq(Bytes) /\ Len(w) = 8 + n
      /\ \A q \in 1 .. 8 : w[q] = three[q]
      /\ \A q \in 1 .. n : w[8 + q] = body[q]
  <2> DEFINE four == three \o body
  <2>0. /\ four \in Seq(Bytes) /\ Len(four) = Len(three) + Len(body)
        /\ \A q \in 1 .. Len(three) : four[q] = three[q]
        /\ \A q \in 1 .. Len(body) : four[Len(three) + q] = body[q]
    BY <1>3, <1>6, Concatenated, Zenon
  <2> HIDE DEF four
  <2>1. /\ w \in Seq(Bytes) /\ Len(w) = Len(three) + Len(body)
        /\ \A q \in 1 .. Len(three) : w[q] = three[q]
        /\ \A q \in 1 .. Len(body) : w[Len(three) + q] = body[q]
    BY <1>4, <2>0 DEF four
  <2>2. Len(w) = 8 + n
    BY <1>3, <1>6, <2>1
  <2>3. \A q \in 1 .. 8 : w[q] = three[q]
    BY <1>3, <1>6, <2>1
  <2>4. \A q \in 1 .. n : w[8 + q] = body[q]
    BY <1>3, <1>6, <2>1
  <2> QED
    BY <2>1, <2>2, <2>3, <2>4
<1>8. w[1] = Magic /\ w[2] = Magic
  BY <1>2, <1>5, <1>6, <1>7
<1>9. \A q \in 1 .. 2 : w[2 + q] = type[q]
  BY <1>5, <1>6, <1>7
<1>10. \A q \in 1 .. 4 : w[4 + q] = length[q]
  BY <1>6, <1>7
<1> QED
  BY <1>3, <1>7, <1>8, <1>9, <1>10 DEF n, w, body, type, length

\* DeviceChannel::write puts it there.
LEMMA WrittenAsWire ==
  ASSUME LittleEndian, NEW m \in Outgoing
  PROVE  OutBytes(m) = Wire(m)
<1>1. /\ m.type \in 0 .. Base * Base - 1 /\ Len(m.body) \in Nat
      /\ Len(m.body) < FourDigits
  BY MessagesTyped, LenProperties DEF FourDigits
<1> QED
  BY <1>1, Swap16, Swap32 DEF OutBytes, Wire

\* And read_header finds it there.
LEMMA HeaderRead ==
  ASSUME LittleEndian, NEW m \in Incoming, NEW b \in Seq(Bytes), Len(b) >= 6,
         \A q \in 1 .. 6 : b[q] = Wire(m)[2 + q]
  PROVE  /\ htons(Join16(b)) = m.type
         /\ htonl(Join32(SubSeq(b, 3, 6))) = Len(m.body)
<1> DEFINE type == Reverse(Split16(m.type))
           length == Reverse(Split32(Len(m.body)))
           four == SubSeq(b, 3, 6)
           w == Wire(m)
<1>1. /\ m.type \in 0 .. Base * Base - 1 /\ Len(m.body) \in Nat
      /\ Len(m.body) < FourDigits
  BY MessagesTyped, LenProperties DEF FourDigits
<1>2. /\ \A q \in 1 .. 2 : w[2 + q] = type[q]
      /\ \A q \in 1 .. 4 : w[4 + q] = length[q]
  BY WireShape DEF Sendable
<1>3. \A q \in 1 .. 4 : four[q] = b[q + 2]
  <2> DEFINE n == Len(b)
  <2>1. n \in Nat /\ n >= 6 /\ DOMAIN b = 1 .. n
    BY LenProperties
  <2> HIDE DEF n
  <2>2. \A q \in 3 .. 6 : q \in 1 .. n
    BY <2>1
  <2>3. \A q \in 3 .. 6 : b[q] \in Bytes
    BY <2>1, <2>2, ElementOfSeq DEF n
  <2>4. \A q \in 1 .. 6 - 3 + 1 : four[q] = b[3 + q - 1]
    BY <2>3, SubSeqProperties
  <2>5. \A q \in 1 .. 4 : q \in 1 .. 6 - 3 + 1 /\ 3 + q - 1 = q + 2
    OBVIOUS
  <2> QED
    BY <2>4, <2>5
<1> HIDE DEF type, length, four, w
<1>4. \A q \in 1 .. 6 : b[q] = w[2 + q]
  BY DEF w
<1>5. b[1] = type[1] /\ b[2] = type[2]
  <2>1. b[1] = w[2 + 1] /\ b[2] = w[2 + 2]
    BY <1>4
  <2> QED
    BY <2>1, <1>2
<1>6. four[1] = length[1] /\ four[2] = length[2] /\ four[3] = length[3] /\ four[4] = length[4]
  <2>1. b[3] = w[4 + 1] /\ b[4] = w[4 + 2] /\ b[5] = w[4 + 3] /\ b[6] = w[4 + 4]
    BY <1>4
  <2>2. four[1] = b[3] /\ four[2] = b[4] /\ four[3] = b[5] /\ four[4] = b[6]
    BY <1>3
  <2> QED
    BY <2>1, <2>2, <1>2
<1>7. Join16(b) = Join16(type) /\ Join32(four) = Join32(length)
  BY <1>5, <1>6 DEF Join16, Join32
<1> QED
  BY <1>1, <1>7, Swap16, Swap32 DEF type, length, four

-----------------------------------------------------------------------------
(* Pieces of a message, padded.                                            *)

\* std::min.
LEMMA MinOfTwo ==
  ASSUME NEW a \in Int, NEW b \in Int
  PROVE  Min({a, b}) = IF a <= b THEN a ELSE b
<1> DEFINE least(x) == x \in {a, b} /\ \A y \in {a, b} : x <= y
           c == IF a <= b THEN a ELSE b
<1>1. least(c)
  OBVIOUS
<1>2. \A x : least(x) => x = c
  OBVIOUS
<1>3. Min({a, b}) = CHOOSE x : least(x)
  BY DEF Min
<1> HIDE DEF least, c
<1>4. least(CHOOSE x : least(x))
  BY <1>1, Zenon
<1>5. Min({a, b}) = c
  BY <1>2, <1>3, <1>4
<1> QED
  BY <1>5 DEF c

\* The bytes of w after the first `from`, and zeros behind its end.
PaddedFrom(w, from) ==
  [q \in 1 .. ChunkSize |-> IF from + q <= Len(w) THEN w[from + q] ELSE 0]

LEMMA PaddedTyped ==
  ASSUME NEW w \in Seq(Bytes), NEW from \in Nat
  PROVE  PaddedFrom(w, from) \in Seq(Bytes) /\ Len(PaddedFrom(w, from)) = ChunkSize
<1>1. ChunkSize \in Nat /\ Len(w) \in Nat
  BY Alphabet, LenProperties
<1>2. \A q \in 1 .. ChunkSize : (IF from + q <= Len(w) THEN w[from + q] ELSE 0) \in Bytes
  <2> SUFFICES ASSUME NEW q \in 1 .. ChunkSize
               PROVE  (IF from + q <= Len(w) THEN w[from + q] ELSE 0) \in Bytes
    OBVIOUS
  <2>1. CASE from + q <= Len(w)
    <3>1. from + q \in 1 .. Len(w)
      BY <1>1, <2>1
    <3> QED
      BY <2>1, <3>1, ElementOfSeq
  <2>2. CASE ~(from + q <= Len(w))
    BY <2>2, BytesBelowBase
  <2> QED
    BY <2>1, <2>2
<1>3. PaddedFrom(w, from) \in [1 .. ChunkSize -> Bytes]
  BY <1>2 DEF PaddedFrom
<1>4. PaddedFrom(w, from) \in Seq(Bytes)
  BY <1>1, <1>3, SeqDef
<1>5. Len(PaddedFrom(w, from)) \in Nat /\ DOMAIN PaddedFrom(w, from) = 1 .. Len(PaddedFrom(w, from))
  BY <1>4, LenProperties
<1> QED
  BY <1>1, <1>3, <1>4, <1>5

LEMMA ZerosTyped ==
  ASSUME NEW n \in Nat
  PROVE  Zeros(n) \in Seq(Bytes) /\ Len(Zeros(n)) = n /\ \A q \in 1 .. n : Zeros(n)[q] = 0
BY BytesBelowBase DEF Zeros

\* What fits in a report, or the rest.
LEMMA PieceShape ==
  ASSUME NEW w \in Seq(Bytes), NEW from \in Nat, from < Len(w)
  PROVE  LET n == Min({ChunkSize, Len(w) - from})
             piece == SubSeq(w, from + 1, from + n) IN
           /\ n \in 1 .. ChunkSize /\ from + n <= Len(w)
           /\ n < ChunkSize => from + n = Len(w)
           /\ piece \in Seq(Bytes) /\ Len(piece) = n
           /\ \A q \in 1 .. n : piece[q] = w[from + q]
           /\ piece \o Zeros(ChunkSize - n) = PaddedFrom(w, from)
<1> DEFINE n == Min({ChunkSize, Len(w) - from})
           piece == SubSeq(w, from + 1, from + n)
           zeros == Zeros(ChunkSize - n)
           len == Len(w)
<1>1. ChunkSize \in Nat \ {0} /\ len \in Nat
  BY Alphabet, LenProperties
<1>2. n = IF ChunkSize <= Len(w) - from THEN ChunkSize ELSE Len(w) - from
  BY <1>1, MinOfTwo
<1>3. n \in 1 .. ChunkSize /\ from + n <= len /\ (n < ChunkSize => from + n = len)
  <2> HIDE DEF n
  <2> QED
    BY <1>1, <1>2
<1> HIDE DEF n
<1>4. /\ piece \in Seq(Bytes) /\ Len(piece) = n
      /\ \A q \in 1 .. n : piece[q] = w[from + q]
  <2>1. \A q \in from + 1 .. from + n : w[q] \in Bytes
    <3>1. \A q \in 1 .. len : w[q] \in Bytes
      BY ElementOfSeq
    <3>2. \A q \in from + 1 .. from + n : q \in 1 .. len
      BY <1>1, <1>3
    <3> QED
      BY <3>1, <3>2
  <2>2. from + 1 \in Int /\ from + n \in Int /\ from + 1 <= from + n
    BY <1>3
  <2>3. /\ piece \in Seq(Bytes) /\ Len(piece) = (from + n) - (from + 1) + 1
        /\ \A q \in 1 .. (from + n) - (from + 1) + 1 : piece[q] = w[from + 1 + q - 1]
    BY <2>1, <2>2, SubSeqProperties
  <2> HIDE DEF piece
  <2> QED
    BY <1>3, <2>3
<1>5. zeros \in Seq(Bytes) /\ Len(zeros) = ChunkSize - n /\ \A q \in 1 .. ChunkSize - n : zeros[q] = 0
  <2> DEFINE rest == ChunkSize - n
  <2>1. rest \in Nat
    BY <1>1, <1>3
  <2> HIDE DEF rest
  <2>2. /\ Zeros(rest) \in Seq(Bytes) /\ Len(Zeros(rest)) = rest
        /\ \A q \in 1 .. rest : Zeros(rest)[q] = 0
    BY <2>1, ZerosTyped
  <2> QED
    BY <2>2 DEF rest
<1> HIDE DEF piece, zeros
<1> DEFINE both == piece \o zeros
<1>6. /\ both \in Seq(Bytes) /\ Len(both) = Len(piece) + Len(zeros)
      /\ \A q \in 1 .. Len(piece) : both[q] = piece[q]
      /\ \A q \in 1 .. Len(zeros) : both[Len(piece) + q] = zeros[q]
  BY <1>4, <1>5, Concatenated, Zenon
<1> HIDE DEF both
<1>7. Len(both) = ChunkSize /\ DOMAIN both = 1 .. ChunkSize
  <2>1. Len(both) = ChunkSize
    BY <1>1, <1>3, <1>4, <1>5, <1>6
  <2> QED
    BY <1>6, <2>1, LenProperties
<1>8. \A q \in 1 .. ChunkSize : both[q] = IF from + q <= len THEN w[from + q] ELSE 0
  <2> SUFFICES ASSUME NEW q \in 1 .. ChunkSize
               PROVE  both[q] = IF from + q <= len THEN w[from + q] ELSE 0
    OBVIOUS
  <2>1. CASE q <= n
    <3>1. q \in 1 .. n /\ from + q <= len
      BY <1>1, <1>3, <2>1
    <3> QED
      BY <1>4, <1>6, <3>1
  <2>2. CASE q > n
    <3> DEFINE r == q - n
    <3>1. r \in 1 .. ChunkSize - n /\ q = n + r /\ ~(from + q <= len)
      BY <1>1, <1>3, <2>2
    <3> HIDE DEF r
    <3>2. both[n + r] = zeros[r] /\ zeros[r] = 0
      BY <1>4, <1>5, <1>6, <3>1
    <3> QED
      BY <3>1, <3>2
  <2> QED
    BY <1>1, <1>3, <2>1, <2>2
<1>9. both = PaddedFrom(w, from)
  <2>1. both = [q \in DOMAIN both |-> both[q]]
    BY <1>6
  <2> QED
    BY <1>7, <1>8, <2>1 DEF PaddedFrom
<1> QED
  BY <1>3, <1>4, <1>9 DEF n, piece, zeros, both

\* It is what there is in the padded message.
LEMMA PaddedPiece ==
  ASSUME NEW w \in Seq(Bytes), NEW n \in Nat, NEW from \in Nat,
         from + ChunkSize <= Len(w) + n
  PROVE  SubSeq(w \o Zeros(n), from + 1, from + ChunkSize) = PaddedFrom(w, from)
<1> DEFINE zeros == Zeros(n)
           padded == w \o zeros
           len == Len(w)
           piece == SubSeq(padded, from + 1, from + ChunkSize)
<1>1. ChunkSize \in Nat \ {0} /\ len \in Nat
  BY Alphabet, LenProperties
<1>2. zeros \in Seq(Bytes) /\ Len(zeros) = n /\ \A q \in 1 .. n : zeros[q] = 0
  BY ZerosTyped
<1> HIDE DEF zeros
<1>3. /\ padded \in Seq(Bytes) /\ Len(padded) = Len(w) + Len(zeros)
      /\ \A q \in 1 .. Len(w) : padded[q] = w[q]
      /\ \A q \in 1 .. Len(zeros) : padded[Len(w) + q] = zeros[q]
  BY <1>2, Concatenated, Zenon
<1> HIDE DEF padded
<1>4. \A q \in 1 .. len + n : padded[q] = IF q <= len THEN w[q] ELSE 0
  <2> SUFFICES ASSUME NEW q \in 1 .. len + n
               PROVE  padded[q] = IF q <= len THEN w[q] ELSE 0
    OBVIOUS
  <2>1. CASE q <= len
    BY <1>1, <1>3, <2>1
  <2>2. CASE q > len
    <3> DEFINE r == q - len
    <3>1. r \in 1 .. n /\ q = len + r /\ ~(q <= len)
      BY <1>1, <2>2
    <3> HIDE DEF r
    <3>2. padded[len + r] = zeros[r] /\ zeros[r] = 0
      BY <1>2, <1>3, <3>1
    <3> QED
      BY <3>1, <3>2
  <2> QED
    BY <1>1, <2>1, <2>2
<1>5. /\ piece \in Seq(Bytes) /\ Len(piece) = ChunkSize
      /\ \A q \in 1 .. ChunkSize : piece[q] = padded[from + q]
  <2>1. \A q \in from + 1 .. from + ChunkSize : padded[q] \in Bytes
    <3>1. Len(padded) = len + n
      BY <1>2, <1>3
    <3>2. \A q \in from + 1 .. from + ChunkSize : q \in 1 .. len + n
      BY <1>1
    <3> QED
      BY <1>3, <3>1, <3>2, ElementOfSeq
  <2>2. from + 1 \in Int /\ from + ChunkSize \in Int /\ from + 1 <= from + ChunkSize
    BY <1>1
  <2>3. /\ piece \in Seq(Bytes) /\ Len(piece) = (from + ChunkSize) - (from + 1) + 1
        /\ \A q \in 1 .. (from + ChunkSize) - (from + 1) + 1 : piece[q] = padded[from + 1 + q - 1]
    BY <2>1, <2>2, SubSeqProperties
  <2> HIDE DEF piece
  <2> QED
    BY <1>1, <2>3
<1> HIDE DEF piece
<1>6. \A q \in 1 .. ChunkSize : piece[q] = IF from + q <= len THEN w[from + q] ELSE 0
  <2> SUFFICES ASSUME NEW q \in 1 .. ChunkSize
               PROVE  piece[q] = IF from + q <= len THEN w[from + q] ELSE 0
    OBVIOUS
  <2>1. from + q \in 1 .. len + n
    BY <1>1
  <2> QED
    BY <1>4, <1>5, <2>1
<1>7. piece = PaddedFrom(w, from)
  <2>1. piece = [q \in DOMAIN piece |-> piece[q]] /\ DOMAIN piece = 1 .. ChunkSize
    BY <1>5, LenProperties
  <2> QED
    BY <1>6, <2>1 DEF PaddedFrom
<1> QED
  BY <1>7 DEF piece, padded, zeros

-----------------------------------------------------------------------------
(* Writing.                                                                *)

Chunk == [first : Nat, data : Seq(Bytes)]

\* The reports on the wire are the message's, up to i.
WrittenUpTo(m) ==
  /\ bytes = Wire(m)
  /\ chunks \in Seq(Chunk)
  /\ i = ChunkSize * Len(chunks)
  /\ i < Len(bytes) + ChunkSize
  /\ pc \in Reading => i >= Len(bytes)
  /\ \A k \in DOMAIN chunks : chunks[k] # Lost =>
                               chunks[k].data = PaddedFrom(bytes, ChunkSize * (k - 1))

WriteInv ==
  /\ pc \in {"idle", "write"} \cup Reading
  /\ pc # "idle" => \E m \in Outgoing : WrittenUpTo(m)

LEMMA WriteInit == Init => WriteInv
BY DEF Init, WriteInv

LEMMA ChunkWritten ==
  ASSUME NEW m \in Outgoing, WrittenUpTo(m), WriteChunk
  PROVE  WrittenUpTo(m)'
<1> DEFINE n == Min({ChunkSize, Len(bytes) - i})
           data == SubSeq(bytes, i + 1, i + n) \o Zeros(ChunkSize - n)
           chunk == [first |-> ChunkSize, data |-> data]
           done == Len(chunks)
           len == Len(bytes)
<1>1. /\ ChunkSize \in Nat \ {0} /\ done \in Nat /\ len \in Nat
      /\ bytes = Wire(m) /\ bytes \in Seq(Bytes) /\ chunks \in Seq(Chunk)
      /\ i = ChunkSize * done /\ i \in Nat
  <2>1. bytes = Wire(m) /\ chunks \in Seq(Chunk) /\ i = ChunkSize * done
    BY DEF WrittenUpTo
  <2>2. bytes \in Seq(Bytes)
    BY <2>1, WireShape DEF Sendable
  <2>3. ChunkSize \in Nat \ {0} /\ done \in Nat /\ len \in Nat
    BY <2>1, <2>2, Alphabet, LenProperties
  <2> HIDE DEF done, len
  <2> QED
    BY <2>1, <2>2, <2>3
<1>2. PICK onWire \in {chunk, Lost} :
        /\ i < len /\ pc = "write" /\ pc' = pc /\ bytes' = bytes
        /\ chunks' = Append(chunks, onWire) /\ i' = i + ChunkSize
  BY DEF WriteChunk
<1>3. data = PaddedFrom(bytes, i)
  BY <1>1, <1>2, PieceShape
<1>4. onWire \in Chunk
  <2>1. PaddedFrom(bytes, i) \in Seq(Bytes)
    BY <1>1, PaddedTyped
  <2> HIDE DEF data
  <2>2. chunk \in Chunk
    BY <1>1, <1>3, <2>1 DEF Chunk
  <2>3. Lost \in Chunk
    BY DEF Lost, Chunk
  <2> QED
    BY <2>2, <2>3
<1> HIDE DEF chunk, data
<1>5. /\ chunks' \in Seq(Chunk) /\ Len(chunks') = done + 1
      /\ DOMAIN chunks' = DOMAIN chunks \cup {done + 1}
      /\ \A k \in DOMAIN chunks : chunks'[k] = chunks[k]
      /\ chunks'[done + 1] = onWire
  BY <1>1, <1>2, <1>4, AppendAdds, AppendProperties
<1> HIDE DEF done, len
<1>6. /\ i' = ChunkSize * Len(chunks')
      /\ i' < len + ChunkSize
      /\ ChunkSize * ((done + 1) - 1) = i
  BY <1>1, <1>2, <1>5
<1>7. \A k \in DOMAIN chunks' : chunks'[k] # Lost =>
                                chunks'[k].data = PaddedFrom(bytes, ChunkSize * (k - 1))
  <2> SUFFICES ASSUME NEW k \in DOMAIN chunks', chunks'[k] # Lost
               PROVE  chunks'[k].data = PaddedFrom(bytes, ChunkSize * (k - 1))
    OBVIOUS
  <2>1. CASE k \in DOMAIN chunks
    BY <1>5, <2>1 DEF WrittenUpTo
  <2>2. CASE k = done + 1
    <3>1. chunks'[k].data = data
      BY <1>5, <2>2 DEF chunk
    <3> QED
      BY <1>3, <1>6, <2>2, <3>1
  <2> QED
    BY <1>5, <2>1, <2>2
<1> QED
  BY <1>1, <1>2, <1>5, <1>6, <1>7 DEF WrittenUpTo, Reading, len

LEMMA WriteStep ==
  ASSUME LittleEndian, WriteInv, [Next]_vars
  PROVE  WriteInv'
<1>1. ASSUME NEW m \in Outgoing, Write(m) PROVE WriteInv'
  <2>1. OutBytes(m) = Wire(m) /\ Wire(m) \in Seq(Bytes) /\ Len(Wire(m)) \in Nat
    BY WrittenAsWire, WireShape, LenProperties DEF Sendable
  <2>2. ChunkSize \in Nat \ {0}
    BY Alphabet
  <2>3. bytes' = Wire(m) /\ i' = 0 /\ chunks' = <<>> /\ pc' = "write"
    BY <1>1, <2>1 DEF Write
  <2>4. chunks' \in Seq(Chunk) /\ Len(chunks') = 0 /\ DOMAIN chunks' = {}
    BY <2>3
  <2>5. i' = ChunkSize * Len(chunks') /\ i' < Len(bytes') + ChunkSize
    BY <2>1, <2>2, <2>3, <2>4
  <2>6. WrittenUpTo(m)'
    BY <2>3, <2>4, <2>5 DEF WrittenUpTo, Reading
  <2> QED
    BY <2>3, <2>6 DEF WriteInv
<1>2. ASSUME WriteChunk PROVE WriteInv'
  <2>1. pc = "write" /\ pc' = pc
    BY <1>2 DEF WriteChunk
  <2> QED
    BY <1>2, <2>1, ChunkWritten DEF WriteInv
<1>3. ASSUME WriteFails PROVE WriteInv'
  BY <1>3 DEF WriteFails, WriteInv
<1>4. ASSUME WriteDone PROVE WriteInv'
  <2>1. /\ pc = "write" /\ pc' = "align" /\ i >= Len(bytes)
        /\ bytes' = bytes /\ i' = i /\ chunks' = chunks
    BY <1>4 DEF WriteDone, writeVars
  <2> QED
    BY <2>1 DEF WriteInv, WrittenUpTo, Reading
<1>5. ASSUME BufferReport \/ TimeOut \/ Align \/ Second \/ Header \/ Body
      PROVE  WriteInv'
  <2>1. /\ pc \in Reading /\ pc' \in {"idle"} \cup Reading
        /\ bytes' = bytes /\ i' = i /\ chunks' = chunks
    BY <1>5 DEF BufferReport, TimeOut, Align, Second, Header, Body, writeVars, Reading
  <2> QED
    BY <2>1 DEF WriteInv, WrittenUpTo, Reading
<1>6. ASSUME NEW m \in Incoming, DeviceSends(m) PROVE WriteInv'
  BY <1>6 DEF DeviceSends, writeVars, WriteInv, WrittenUpTo
<1>7. ASSUME UNCHANGED vars PROVE WriteInv'
  BY <1>7 DEF vars, writeVars, WriteInv, WrittenUpTo
<1> QED
  BY <1>1, <1>2, <1>3, <1>4, <1>5, <1>6, <1>7 DEF Next

LEMMA WrittenInWhole ==
  ASSUME WriteInv
  PROVE  WrittenWhole
<1> SUFFICES ASSUME pc \in Reading
             PROVE  WrittenWhole
  BY DEF WrittenWhole
<1>1. PICK m \in Outgoing : WrittenUpTo(m)
  BY DEF WriteInv, Reading
<1> DEFINE w == Wire(m)
           done == Len(chunks)
           len == Len(w)
           padding == ChunkSize * Len(chunks) - Len(Wire(m))
           padded == Wire(m) \o Zeros(padding)
<1>2. /\ w \in Seq(Bytes) /\ len \in Nat
      /\ ChunkSize \in Nat \ {0} /\ done \in Nat /\ DOMAIN chunks = 1 .. done
  <2>1. w \in Seq(Bytes) /\ chunks \in Seq(Chunk)
    BY <1>1, WireShape DEF Sendable, WrittenUpTo
  <2> HIDE DEF w
  <2> QED
    BY <2>1, Alphabet, LenProperties
<1>3. /\ bytes = w /\ i = ChunkSize * done /\ i >= len /\ i < len + ChunkSize
      /\ \A k \in DOMAIN chunks : chunks[k] # Lost =>
                                   chunks[k].data = PaddedFrom(w, ChunkSize * (k - 1))
  BY <1>1 DEF WrittenUpTo
<1>4. padding \in 0 .. ChunkSize - 1
  <2> HIDE DEF done, len
  <2>1. ChunkSize * done - len \in 0 .. ChunkSize - 1
    BY <1>2, <1>3
  <2> QED
    BY <2>1 DEF done, len
<1>5. ASSUME NEW k \in DOMAIN chunks, chunks[k] # Lost
      PROVE  chunks[k].data = SubSeq(padded, (k - 1) * ChunkSize + 1, k * ChunkSize)
  <2> DEFINE from == ChunkSize * (k - 1)
  <2>1. /\ from \in Nat /\ from + ChunkSize <= len + padding
        /\ (k - 1) * ChunkSize + 1 = from + 1 /\ k * ChunkSize = from + ChunkSize
    <3>1. k \in 1 .. done
      BY <1>2
    <3>2. len + padding = ChunkSize * done
      <4> HIDE DEF done, len
      <4>1. len + (ChunkSize * done - len) = ChunkSize * done
        BY <1>2
      <4> QED
        BY <4>1 DEF done, len
    <3>3. ChunkSize * k <= ChunkSize * done
      <4> HIDE DEF done
      <4> QED
        BY <1>2, <3>1, TimesMonotonic
    <3>4. /\ k - 1 \in Nat
          /\ from \in Nat /\ ChunkSize * k = from + ChunkSize
          /\ (k - 1) * ChunkSize = from /\ k * ChunkSize = from + ChunkSize
      <4> HIDE DEF done
      <4> QED
        BY <1>2, <3>1
    <3> HIDE DEF from, done, padding, len
    <3> QED
      BY <3>2, <3>3, <3>4
  <2>2. padding \in Nat
    <3> HIDE DEF padding
    <3> QED
      BY <1>2, <1>4
  <2> HIDE DEF from, padding
  <2>3. SubSeq(w \o Zeros(padding), from + 1, from + ChunkSize) = PaddedFrom(w, from)
    BY <1>2, <2>1, <2>2, PaddedPiece
  <2> QED
    BY <1>3, <1>5, <2>1, <2>3 DEF from, padding
<1> QED
  BY <1>4, <1>5 DEF WrittenWhole

\* When the answer is awaited, the message is on the wire, big-endian, in
\* reports of which only the last is padded, without those, and only those,
\* that hid_write returned -1 for (devices.cpp:89-101, 171-195).
THEOREM WrittenCorrect ==
  ASSUME LittleEndian
  PROVE  Spec => []WrittenWhole
<1>1. WriteInv /\ [Next]_vars => WriteInv'
  BY WriteStep
<1> QED
  BY <1>1, WriteInit, WrittenInWhole, PTL DEF Spec

-----------------------------------------------------------------------------
(* Reports and the buffer.                                                 *)

Message == [type : Nat, body : Seq(Bytes)]

TypeOK ==
  /\ pc \in {"idle", "write"} \cup Reading
  /\ buffer \in Seq(Bytes)
  /\ head \in [type : Nat, length : Nat]
  /\ received \in Seq(Message)
  /\ torn \in BOOLEAN
  /\ sent \in Seq(Incoming)
  /\ reports \in Seq(Chunk)

\* What counts of a report are the first bytes of its data.
LEMMA CountedShape ==
  ASSUME NEW r \in Chunk
  PROVE  /\ Counted(r) = IF Len(r.data) <= r.first THEN Len(r.data) ELSE r.first
         /\ Counted(r) \in 0 .. Len(r.data)
         /\ SubSeq(r.data, 1, Counted(r)) \in Seq(Bytes)
         /\ Len(SubSeq(r.data, 1, Counted(r))) = Counted(r)
         /\ \A q \in 1 .. Counted(r) : SubSeq(r.data, 1, Counted(r))[q] = r.data[q]
<1> DEFINE len == Len(r.data)
           n == Counted(r)
           counted == SubSeq(r.data, 1, n)
<1>1. r.first \in Nat /\ r.data \in Seq(Bytes) /\ len \in Nat
  BY LenProperties DEF Chunk
<1>2. n = IF len <= r.first THEN len ELSE r.first
  <2> HIDE DEF len
  <2>1. Min({1 + len, r.first + 1}) = IF 1 + len <= r.first + 1 THEN 1 + len ELSE r.first + 1
    BY <1>1, MinOfTwo
  <2> QED
    BY <1>1, <2>1 DEF Counted, len
<1>3. n \in 0 .. len
  <2> HIDE DEF n, len
  <2> QED
    BY <1>1, <1>2
<1> HIDE DEF n
<1>4. \A q \in 1 .. n : r.data[q] \in Bytes
  <2>1. \A q \in 1 .. len : r.data[q] \in Bytes
    BY <1>1, ElementOfSeq
  <2> HIDE DEF len
  <2> QED
    BY <1>1, <1>3, <2>1
<1>5. /\ counted \in Seq(Bytes)
      /\ Len(counted) = IF 1 <= n THEN n - 1 + 1 ELSE 0
      /\ \A q \in 1 .. n - 1 + 1 : counted[q] = r.data[1 + q - 1]
  <2>1. n \in Int
    BY <1>3
  <2> QED
    BY <1>4, <2>1, SubSeqProperties
<1> HIDE DEF counted, len
<1>6. Len(counted) = n /\ \A q \in 1 .. n : counted[q] = r.data[q]
  BY <1>1, <1>3, <1>5
<1> QED
  BY <1>2, <1>3, <1>5, <1>6 DEF n, counted, len

\* Shifting leaves the other bytes, in their order.
LEMMA Shifted ==
  ASSUME NEW n \in Nat, buffer \in Seq(Bytes), Shift(n)
  PROVE  /\ buffer' \in Seq(Bytes)
         /\ Len(buffer) \in Nat /\ n <= Len(buffer) /\ Len(buffer') = Len(buffer) - n
         /\ \A q \in 1 .. Len(buffer') : buffer'[q] = buffer[n + q]
<1> DEFINE len == Len(buffer)
<1>1. len \in Nat /\ n <= len /\ buffer' = SubSeq(buffer, n + 1, len)
  BY LenProperties DEF Shift
<1>2. \A q \in n + 1 .. len : buffer[q] \in Bytes
  <2>1. \A q \in 1 .. len : buffer[q] \in Bytes
    BY ElementOfSeq
  <2> HIDE DEF len
  <2> QED
    BY <1>1, <2>1
<1>3. /\ buffer' \in Seq(Bytes)
      /\ Len(buffer') = IF n + 1 <= len THEN len - (n + 1) + 1 ELSE 0
      /\ \A q \in 1 .. len - (n + 1) + 1 : buffer'[q] = buffer[n + 1 + q - 1]
  <2>1. n + 1 \in Int /\ len \in Int
    BY <1>1
  <2> HIDE DEF len
  <2> QED
    BY <1>1, <1>2, <2>1, SubSeqProperties
<1> HIDE DEF len
<1>4. Len(buffer') = len - n
  BY <1>1, <1>3
<1>5. \A q \in 1 .. len - n : buffer'[q] = buffer[n + q]
  BY <1>1, <1>3
<1> QED
  BY <1>1, <1>3, <1>4, <1>5 DEF len

\* A message is in as many pieces as it takes.
LEMMA PiecesCover ==
  ASSUME NEW w \in Seq(Bytes), w # <<>>
  PROVE  /\ Pieces(w) \in Nat \ {0}
         /\ ChunkSize * (Pieces(w) - 1) < Len(w)
         /\ Len(w) <= ChunkSize * Pieces(w)
<1> DEFINE len == Len(w)
           v == len + ChunkSize - 1
           n == v \div ChunkSize
<1>1. ChunkSize \in Nat \ {0} /\ len \in Nat \ {0} /\ v \in Nat
  BY Alphabet, LenProperties, EmptySeq
<1>2. v % ChunkSize \in 0 .. ChunkSize - 1 /\ n \in Nat /\ v = (v % ChunkSize) + ChunkSize * n
  <2> HIDE DEF v
  <2> QED
    BY <1>1, Division
<1> DEFINE r == v % ChunkSize
<1>3. r \in 0 .. ChunkSize - 1 /\ len + ChunkSize - 1 = r + ChunkSize * n
  BY <1>2
<1> HIDE DEF r, n, v, len
<1>4. ChunkSize * n \in Int /\ ChunkSize * (n - 1) = ChunkSize * n - ChunkSize
  BY <1>1, <1>2
<1>5. ChunkSize * (n - 1) < len /\ len <= ChunkSize * n
  BY <1>1, <1>3, <1>4
<1>6. n # 0
  BY <1>1, <1>5
<1> QED
  BY <1>2, <1>5, <1>6 DEF n, v, len, Pieces

Styles == {"padded", "counted", "short"}

\* What counts of the k-th report of a message is its k-th piece, and its
\* padding if the device counts that.
LEMMA ReportShape ==
  ASSUME NEW w \in Seq(Bytes), w # <<>>, NEW k \in 1 .. Pieces(w), NEW style \in Styles
  PROVE  LET from == ChunkSize * (k - 1)
             r == Report(Piece(w, k), style) IN
           /\ from \in Nat /\ from < Len(w)
           /\ r \in Chunk
           /\ Counted(r) = IF style = "padded" \/ from + ChunkSize <= Len(w)
                             THEN ChunkSize ELSE Len(w) - from
           /\ \A q \in 1 .. Counted(r) :
                r.data[q] = IF from + q <= Len(w) THEN w[from + q] ELSE 0
<1> DEFINE from == ChunkSize * (k - 1)
           r == Report(Piece(w, k), style)
           len == Len(w)
           n == Min({ChunkSize, Len(w) - from})
           piece == SubSeq(w, from + 1, from + n)
           padded == PaddedFrom(w, from)
<1>1. ChunkSize \in Nat \ {0} /\ len \in Nat /\ Pieces(w) \in Nat /\ k \in Nat \ {0}
  BY Alphabet, LenProperties, PiecesCover
<1>2. from \in Nat /\ from < len
  <2>1. k - 1 \in Nat /\ Pieces(w) - 1 \in Nat /\ k - 1 <= Pieces(w) - 1
    BY <1>1
  <2>2. ChunkSize * (k - 1) <= ChunkSize * (Pieces(w) - 1)
    BY <1>1, <2>1, TimesMonotonic
  <2>3. ChunkSize * (Pieces(w) - 1) < len
    BY PiecesCover
  <2>4. ChunkSize * (k - 1) \in Nat /\ ChunkSize * (Pieces(w) - 1) \in Int
    BY <1>1, <2>1
  <2> QED
    BY <1>1, <2>2, <2>3, <2>4
<1>3. Piece(w, k) = piece
  <2>1. (k - 1) * ChunkSize + 1 = from + 1 /\ k * ChunkSize = from + ChunkSize
    BY <1>1
  <2> HIDE DEF from, len
  <2>2. Min({from + ChunkSize, Len(w)}) = IF from + ChunkSize <= len THEN from + ChunkSize ELSE len
    BY <1>1, <1>2, MinOfTwo DEF len
  <2>3. n = IF ChunkSize <= len - from THEN ChunkSize ELSE len - from
    BY <1>1, <1>2, MinOfTwo DEF len
  <2>4. Min({from + ChunkSize, Len(w)}) = from + n
    <3> HIDE DEF n
    <3> QED
      BY <1>1, <1>2, <2>2, <2>3
  <2> QED
    BY <2>1, <2>4 DEF Piece
<1>4. /\ n \in 1 .. ChunkSize /\ from + n <= len
      /\ n < ChunkSize => from + n = len
      /\ piece \in Seq(Bytes) /\ Len(piece) = n
      /\ \A q \in 1 .. n : piece[q] = w[from + q]
      /\ piece \o Zeros(ChunkSize - n) = padded
  <2> HIDE DEF from
  <2> QED
    BY <1>2, PieceShape
<1>5. padded \in Seq(Bytes) /\ Len(padded) = ChunkSize
  <2> HIDE DEF from
  <2> QED
    BY <1>2, PaddedTyped
<1>6. \A q \in 1 .. ChunkSize : padded[q] = IF from + q <= len THEN w[from + q] ELSE 0
  BY DEF PaddedFrom
<1>7. r = CASE style = "padded"  -> [first |-> ChunkSize, data |-> padded]
            [] style = "counted" -> [first |-> n, data |-> padded]
            [] style = "short"   -> [first |-> ChunkSize, data |-> piece]
  <2> HIDE DEF n, piece, padded
  <2> QED
    BY <1>3, <1>4 DEF Report
<1> HIDE DEF from, n, piece, padded, r, len
<1>8. n = IF from + ChunkSize <= len THEN ChunkSize ELSE len - from
  BY <1>1, <1>2, <1>4
<1>9. CASE style = "padded"
  <2>1. r = [first |-> ChunkSize, data |-> padded]
    BY <1>7, <1>9
  <2>2. r \in Chunk /\ r.first = ChunkSize /\ r.data = padded
    BY <1>1, <1>5, <2>1 DEF Chunk
  <2>3. Counted(r) = ChunkSize
    BY <1>1, <1>5, <2>2, CountedShape
  <2> QED
    BY <1>2, <1>6, <1>9, <2>2, <2>3 DEF from, r, len
<1>10. CASE style = "counted"
  <2>1. r = [first |-> n, data |-> padded]
    BY <1>7, <1>10
  <2>2. r \in Chunk /\ r.first = n /\ r.data = padded
    BY <1>1, <1>4, <1>5, <2>1 DEF Chunk
  <2>3. Counted(r) = n
    BY <1>1, <1>4, <1>5, <2>2, CountedShape
  <2>4. \A q \in 1 .. n : q \in 1 .. ChunkSize
    BY <1>1, <1>4
  <2> QED
    BY <1>2, <1>6, <1>8, <1>10, <2>2, <2>3, <2>4 DEF from, r, len
<1>11. CASE style = "short"
  <2>1. r = [first |-> ChunkSize, data |-> piece]
    BY <1>7, <1>11
  <2>2. r \in Chunk /\ r.first = ChunkSize /\ r.data = piece
    BY <1>1, <1>4, <2>1 DEF Chunk
  <2>3. Counted(r) = n
    BY <1>1, <1>4, <2>2, CountedShape
  <2>4. \A q \in 1 .. n : from + q <= len
    BY <1>1, <1>2, <1>4
  <2> QED
    BY <1>2, <1>4, <1>8, <1>11, <2>2, <2>3, <2>4 DEF from, r, len
<1> QED
  BY <1>9, <1>10, <1>11 DEF Styles

\* The reports rs carry the bytes of S up to e, those of rs[k] behind f[k].
Carry(rs, S, f, e) ==
  /\ \A k \in 1 .. Len(rs) + 1 : f[k] \in 0 .. e
  /\ f[Len(rs) + 1] = e
  /\ \A k \in DOMAIN rs :
       /\ f[k + 1] = f[k] + Counted(rs[k])
       /\ Counted(rs[k]) <= ChunkSize
       /\ \A q \in 1 .. Counted(rs[k]) : rs[k].data[q] = S[f[k] + q]

\* A message and what may come after it: zeros.
Padded(w) == [p \in Nat |-> IF p <= Len(w) THEN w[p] ELSE 0]

\* The reports of a message carry it, however it is cut.
LEMMA ReportsCarry ==
  ASSUME NEW w \in Seq(Bytes), w # <<>>, NEW style \in Styles
  PROVE  /\ Reports(w, style) \in Seq(Chunk)
         /\ \E g, e : /\ e \in Nat /\ Len(w) <= e /\ g[1] = 0
                      /\ Carry(Reports(w, style), Padded(w), g, e)
<1> DEFINE rs == Reports(w, style)
           n == Pieces(w)
           len == Len(w)
           e == IF style = "padded" THEN ChunkSize * n ELSE len
           g == [k \in Nat |-> IF k <= n THEN ChunkSize * (k - 1) ELSE e]
<1>1. /\ ChunkSize \in Nat \ {0} /\ len \in Nat /\ n \in Nat \ {0}
      /\ ChunkSize * (n - 1) < len /\ len <= ChunkSize * n
  BY Alphabet, LenProperties, PiecesCover
<1>2. \A k \in 1 .. n :
        /\ ChunkSize * (k - 1) \in Nat /\ ChunkSize * (k - 1) < len
        /\ rs[k] \in Chunk
        /\ Counted(rs[k]) = IF style = "padded" \/ ChunkSize * (k - 1) + ChunkSize <= len
                              THEN ChunkSize ELSE len - ChunkSize * (k - 1)
        /\ \A q \in 1 .. Counted(rs[k]) :
             rs[k].data[q] = IF ChunkSize * (k - 1) + q <= len
                               THEN w[ChunkSize * (k - 1) + q] ELSE 0
  <2> SUFFICES ASSUME NEW k \in 1 .. n
               PROVE  /\ ChunkSize * (k - 1) \in Nat /\ ChunkSize * (k - 1) < len
                      /\ rs[k] \in Chunk
                      /\ Counted(rs[k]) = IF style = "padded" \/ ChunkSize * (k - 1) + ChunkSize <= len
                                            THEN ChunkSize ELSE len - ChunkSize * (k - 1)
                      /\ \A q \in 1 .. Counted(rs[k]) :
                           rs[k].data[q] = IF ChunkSize * (k - 1) + q <= len
                                             THEN w[ChunkSize * (k - 1) + q] ELSE 0
    OBVIOUS
  <2>1. rs[k] = Report(Piece(w, k), style)
    BY DEF Reports
  <2> HIDE DEF rs
  <2> QED
    BY <2>1, ReportShape
<1>3. rs \in Seq(Chunk) /\ Len(rs) = n /\ DOMAIN rs = 1 .. n
  <2>1. rs = [k \in 1 .. n |-> rs[k]]
    BY DEF Reports
  <2> HIDE DEF rs
  <2>2. rs \in [1 .. n -> Chunk]
    BY <1>2, <2>1
  <2>3. rs \in Seq(Chunk)
    BY <1>1, <2>2, SeqDef
  <2>4. Len(rs) \in Nat /\ DOMAIN rs = 1 .. Len(rs)
    BY <2>3, LenProperties
  <2> QED
    BY <1>1, <2>2, <2>3, <2>4
<1>4. e \in Nat /\ len <= e
  <2> HIDE DEF n, len
  <2>1. ChunkSize * n \in Nat
    BY <1>1
  <2> QED
    BY <1>1, <2>1
<1> HIDE DEF rs, n, len
<1>5. g[1] = 0
  BY <1>1
<1>6. \A k \in 1 .. n : g[k] = ChunkSize * (k - 1) /\ g[k] \in 0 .. e
  <2> SUFFICES ASSUME NEW k \in 1 .. n
               PROVE  g[k] = ChunkSize * (k - 1) /\ g[k] \in 0 .. e
    OBVIOUS
  <2> DEFINE from == ChunkSize * (k - 1)
  <2>1. k \in Nat /\ k <= n
    BY <1>1
  <2>2. g[k] = from
    BY <2>1
  <2>3. from \in Nat /\ from < len
    BY <1>2
  <2> HIDE DEF g, e, from
  <2>4. from \in 0 .. e
    BY <1>1, <1>4, <2>3
  <2> QED
    BY <2>2, <2>4 DEF from
<1>7. g[n + 1] = e
  <2> HIDE DEF e
  <2> QED
    BY <1>1
<1>8. ASSUME NEW k \in 1 .. n
      PROVE  g[k + 1] = g[k] + Counted(rs[k]) /\ Counted(rs[k]) <= ChunkSize
  <2> DEFINE from == ChunkSize * (k - 1)
  <2>1. /\ from \in Nat /\ from < len /\ g[k] = from
        /\ Counted(rs[k]) = IF style = "padded" \/ from + ChunkSize <= len
                              THEN ChunkSize ELSE len - from
    BY <1>2, <1>6
  <2>2. k < n => from + ChunkSize <= len /\ g[k + 1] = from + ChunkSize
    <3> SUFFICES ASSUME k < n
                 PROVE  from + ChunkSize <= len /\ g[k + 1] = from + ChunkSize
      OBVIOUS
    <3>1. k + 1 \in 1 .. n /\ ChunkSize * ((k + 1) - 1) = from + ChunkSize
      BY <1>1
    <3>2. g[k + 1] = ChunkSize * ((k + 1) - 1) /\ ChunkSize * ((k + 1) - 1) < len
      BY <1>2, <1>6, <3>1
    <3> HIDE DEF g, from
    <3> QED
      BY <1>1, <2>1, <3>1, <3>2
  <2>3. k = n => g[k + 1] = e /\ ChunkSize * n = from + ChunkSize
    BY <1>1, <1>7
  <2> HIDE DEF g, from
  <2>4. CASE k < n
    BY <1>1, <2>1, <2>2, <2>4
  <2>5. CASE k = n
    <3>1. ChunkSize * n = from + ChunkSize /\ g[k + 1] = e
      BY <2>3, <2>5
    <3>2. CASE style = "padded"
      BY <1>1, <2>1, <3>1, <3>2
    <3>3. CASE style # "padded"
      <4>1. e = len
        BY <3>3
      <4> HIDE DEF e
      <4> QED
        BY <1>1, <2>1, <3>1, <3>3, <4>1
    <3> QED
      BY <3>2, <3>3
  <2> QED
    BY <1>1, <2>4, <2>5
<1>9. ASSUME NEW k \in 1 .. n, NEW q \in 1 .. Counted(rs[k])
      PROVE  rs[k].data[q] = Padded(w)[g[k] + q]
  <2> DEFINE from == ChunkSize * (k - 1)
  <2>1. /\ from \in Nat /\ g[k] = from /\ Counted(rs[k]) <= ChunkSize
        /\ rs[k].data[q] = IF from + q <= len THEN w[from + q] ELSE 0
    BY <1>2, <1>6, <1>8
  <2> HIDE DEF from, g
  <2>2. from + q \in Nat
    BY <2>1
  <2> QED
    BY <2>1, <2>2 DEF Padded, len
<1> HIDE DEF g, e
<1>10. \A k \in 1 .. n + 1 : g[k] \in 0 .. e
  <2>1. \A k \in 1 .. n + 1 : k \in 1 .. n \/ k = n + 1
    BY <1>1
  <2> QED
    BY <1>4, <1>6, <1>7, <2>1
<1>11. Carry(rs, Padded(w), g, e)
  BY <1>3, <1>7, <1>8, <1>9, <1>10 DEF Carry
<1> QED
  BY <1>3, <1>4, <1>5, <1>11 DEF rs, len

\* What is left without the first report.
LEMMA TailCarries ==
  ASSUME NEW rs \in Seq(Chunk), rs # <<>>, NEW S, NEW f, NEW e \in Nat, Carry(rs, S, f, e)
  PROVE  Carry(Tail(rs), S, [k \in Nat |-> f[k + 1]], e)
<1> DEFINE n == Len(rs)
           t == Tail(rs)
           g == [k \in Nat |-> f[k + 1]]
<1>1. /\ n \in Nat \ {0} /\ DOMAIN rs = 1 .. n
      /\ Len(t) = n - 1 /\ DOMAIN t = 1 .. n - 1 /\ \A k \in 1 .. n - 1 : t[k] = rs[k + 1]
  BY HeadTailProperties, LenProperties, EmptySeq
<1>2. \A k \in 1 .. n - 1 : k \in Nat /\ k + 1 \in Nat /\ k + 1 \in 1 .. n
  BY <1>1
<1>3. /\ \A k \in 1 .. n + 1 : f[k] \in 0 .. e
      /\ f[n + 1] = e
      /\ \A k \in 1 .. n :
           /\ f[k + 1] = f[k] + Counted(rs[k])
           /\ Counted(rs[k]) <= ChunkSize
           /\ \A q \in 1 .. Counted(rs[k]) : rs[k].data[q] = S[f[k] + q]
  BY <1>1 DEF Carry
<1> HIDE DEF n, t
<1>4. Len(t) + 1 = n
  BY <1>1
<1>5. \A k \in 1 .. n : g[k] \in 0 .. e
  <2>1. \A k \in 1 .. n : k \in Nat /\ k + 1 \in 1 .. n + 1
    BY <1>1
  <2> QED
    BY <1>3, <2>1
<1>6. g[n] = e
  BY <1>1, <1>3
<1>7. \A k \in 1 .. n - 1 :
        /\ g[k + 1] = g[k] + Counted(t[k])
        /\ Counted(t[k]) <= ChunkSize
        /\ \A q \in 1 .. Counted(t[k]) : t[k].data[q] = S[g[k] + q]
  <2> SUFFICES ASSUME NEW k \in 1 .. n - 1
               PROVE  /\ g[k + 1] = g[k] + Counted(t[k])
                      /\ Counted(t[k]) <= ChunkSize
                      /\ \A q \in 1 .. Counted(t[k]) : t[k].data[q] = S[g[k] + q]
    OBVIOUS
  <2>1. g[k] = f[k + 1] /\ g[k + 1] = f[(k + 1) + 1] /\ t[k] = rs[k + 1] /\ k + 1 \in 1 .. n
    BY <1>1, <1>2
  <2> HIDE DEF g
  <2> QED
    BY <1>3, <2>1
<1> HIDE DEF g
<1>8. Carry(t, S, g, e)
  BY <1>1, <1>4, <1>5, <1>6, <1>7 DEF Carry
<1> QED
  BY <1>8 DEF t, g

\* The bytes of S up to e, and then those of w.
Extended(S, e, w) == [p \in Nat |-> IF p <= e THEN S[p] ELSE Padded(w)[p - e]]

\* What is there when more reports come.
LEMMA BothCarry ==
  ASSUME NEW rs \in Seq(Chunk), NEW S, NEW f, NEW e \in Nat, Carry(rs, S, f, e),
         NEW more \in Seq(Chunk), NEW w \in Seq(Bytes), NEW g, NEW d \in Nat,
         Carry(more, Padded(w), g, d), g[1] = 0
  PROVE  Carry(rs \o more, Extended(S, e, w),
               [k \in Nat |-> IF k <= Len(rs) + 1 THEN f[k] ELSE e + g[k - Len(rs)]], e + d)
<1> DEFINE n == Len(rs)
           m == Len(more)
           all == rs \o more
           S2 == Extended(S, e, w)
           f2 == [k \in Nat |-> IF k <= n + 1 THEN f[k] ELSE e + g[k - n]]
<1>1. /\ n \in Nat /\ m \in Nat /\ DOMAIN rs = 1 .. n /\ DOMAIN more = 1 .. m
      /\ Len(all) = n + m /\ DOMAIN all = 1 .. n + m
      /\ \A k \in 1 .. n : all[k] = rs[k] /\ rs[k] \in Chunk
      /\ \A k \in 1 .. m : all[n + k] = more[k] /\ more[k] \in Chunk
  <2>1. n \in Nat /\ m \in Nat /\ DOMAIN rs = 1 .. n /\ DOMAIN more = 1 .. m
    BY LenProperties
  <2>2. all \in Seq(Chunk) /\ Len(all) = n + m
    BY ConcatProperties
  <2>3. DOMAIN all = 1 .. n + m
    BY <2>2, LenProperties
  <2>4. \A k \in 1 .. n : all[k] = rs[k]
    OBVIOUS
  <2>5. \A k \in 1 .. m : all[n + k] = more[k]
    OBVIOUS
  <2>6. /\ \A k \in 1 .. n : rs[k] \in Chunk
        /\ \A k \in 1 .. m : more[k] \in Chunk
    BY ElementOfSeq
  <2> HIDE DEF n, m, all
  <2> QED
    BY <2>1, <2>2, <2>3, <2>4, <2>5, <2>6
<1>2. /\ \A k \in 1 .. n + 1 : f[k] \in 0 .. e
      /\ f[n + 1] = e
      /\ \A k \in 1 .. n :
           /\ f[k + 1] = f[k] + Counted(rs[k])
           /\ Counted(rs[k]) <= ChunkSize
           /\ \A q \in 1 .. Counted(rs[k]) : rs[k].data[q] = S[f[k] + q]
  BY <1>1 DEF Carry
<1>3. /\ \A k \in 1 .. m + 1 : g[k] \in 0 .. d
      /\ g[m + 1] = d
      /\ \A k \in 1 .. m :
           /\ g[k + 1] = g[k] + Counted(more[k])
           /\ Counted(more[k]) <= ChunkSize
           /\ \A q \in 1 .. Counted(more[k]) : more[k].data[q] = Padded(w)[g[k] + q]
  BY <1>1 DEF Carry
<1>4. \A r \in Chunk : Counted(r) \in Nat
  BY CountedShape, LenProperties DEF Chunk
<1> HIDE DEF n, m, all
<1>5. \A k \in 1 .. n + 1 : f2[k] = f[k]
  BY <1>1
<1>6. \A k \in 1 .. m + 1 : f2[n + k] = e + g[k]
  <2> SUFFICES ASSUME NEW k \in 1 .. m + 1
               PROVE  f2[n + k] = e + g[k]
    OBVIOUS
  <2>1. CASE k = 1
    <3>1. f2[n + 1] = e
      BY <1>1, <1>2
    <3> QED
      BY <2>1, <3>1
  <2>2. CASE k # 1
    <3>1. n + k \in Nat /\ ~(n + k <= n + 1) /\ (n + k) - n = k
      BY <1>1, <2>2
    <3> QED
      BY <3>1
  <2> QED
    BY <2>1, <2>2
<1>7. \A k \in 1 .. n + m + 1 : k \in 1 .. n + 1 \/ \E j \in 1 .. m + 1 : k = n + j
  <2> SUFFICES ASSUME NEW k \in 1 .. n + m + 1, ~(k \in 1 .. n + 1)
               PROVE  \E j \in 1 .. m + 1 : k = n + j
    OBVIOUS
  <2>1. k - n \in 1 .. m + 1 /\ k = n + (k - n)
    BY <1>1
  <2> QED
    BY <2>1
<1> HIDE DEF f2
<1>8. \A k \in 1 .. n + m + 1 : f2[k] \in 0 .. e + d
  <2> SUFFICES ASSUME NEW k \in 1 .. n + m + 1
               PROVE  f2[k] \in 0 .. e + d
    OBVIOUS
  <2>1. CASE k \in 1 .. n + 1
    BY <1>2, <1>5, <2>1
  <2>2. ASSUME NEW j \in 1 .. m + 1, k = n + j
        PROVE  f2[k] \in 0 .. e + d
    BY <1>3, <1>6, <2>2
  <2> QED
    BY <1>7, <2>1, <2>2
<1>9. f2[n + m + 1] = e + d
  <2>1. m + 1 \in 1 .. m + 1 /\ n + m + 1 = n + (m + 1)
    BY <1>1
  <2> QED
    BY <1>3, <1>6, <2>1
<1>10. ASSUME NEW k \in 1 .. n
       PROVE  /\ f2[k + 1] = f2[k] + Counted(all[k])
              /\ Counted(all[k]) <= ChunkSize
              /\ \A q \in 1 .. Counted(all[k]) : all[k].data[q] = S2[f2[k] + q]
  <2>1. /\ all[k] = rs[k] /\ f2[k] = f[k] /\ f2[k + 1] = f[k + 1]
        /\ f[k] \in 0 .. e /\ f[k + 1] \in 0 .. e /\ f[k + 1] = f[k] + Counted(rs[k])
        /\ Counted(rs[k]) \in Nat
    <3>1. k \in 1 .. n + 1 /\ k + 1 \in 1 .. n + 1
      BY <1>1
    <3> QED
      BY <1>1, <1>2, <1>4, <1>5, <3>1
  <2>2. ASSUME NEW q \in 1 .. Counted(rs[k])
        PROVE  S2[f[k] + q] = S[f[k] + q]
    <3> DEFINE x == f[k]
               y == f[k + 1]
               counted == Counted(rs[k])
    <3>0. x \in 0 .. e /\ y \in 0 .. e /\ y = x + counted /\ counted \in Nat /\ q \in 1 .. counted
      BY <2>1
    <3> HIDE DEF x, y, counted
    <3>1. x + q \in Nat /\ x + q <= e
      BY <3>0
    <3> USE DEF x
    <3> QED
      BY <3>1 DEF Extended
  <2> HIDE DEF S2
  <2> QED
    BY <1>2, <2>1, <2>2
<1>11. ASSUME NEW k \in 1 .. m
       PROVE  /\ f2[n + k + 1] = f2[n + k] + Counted(all[n + k])
              /\ Counted(all[n + k]) <= ChunkSize
              /\ \A q \in 1 .. Counted(all[n + k]) : all[n + k].data[q] = S2[f2[n + k] + q]
  <2>1. /\ all[n + k] = more[k] /\ f2[n + k] = e + g[k] /\ f2[n + k + 1] = e + g[k + 1]
        /\ g[k] \in 0 .. d /\ g[k + 1] \in 0 .. d /\ g[k + 1] = g[k] + Counted(more[k])
        /\ Counted(more[k]) \in Nat
    <3>1. k \in 1 .. m + 1 /\ k + 1 \in 1 .. m + 1 /\ n + k + 1 = n + (k + 1)
      BY <1>1
    <3>2. f2[n + (k + 1)] = e + g[k + 1]
      BY <1>6, <3>1
    <3>3. f2[n + k + 1] = e + g[k + 1]
      BY <3>1, <3>2
    <3> QED
      BY <1>1, <1>3, <1>4, <1>6, <3>1, <3>3
  <2>2. ASSUME NEW q \in 1 .. Counted(more[k])
        PROVE  S2[e + g[k] + q] = Padded(w)[g[k] + q]
    <3> DEFINE x == g[k]
    <3>1. x \in Nat /\ q \in Nat \ {0}
      BY <2>1
    <3> HIDE DEF x
    <3>2. e + x + q \in Nat /\ ~(e + x + q <= e) /\ (e + x + q) - e = x + q
      BY <3>1
    <3>3. S2[e + x + q] = Padded(w)[x + q]
      BY <3>2 DEF Extended
    <3> QED
      BY <3>3 DEF x
  <2> HIDE DEF S2
  <2>3. f2[n + k + 1] = f2[n + k] + Counted(more[k])
    BY <2>1
  <2>4. \A q \in 1 .. Counted(more[k]) : more[k].data[q] = S2[f2[n + k] + q]
    BY <1>3, <2>1, <2>2
  <2> QED
    BY <1>3, <2>1, <2>3, <2>4
<1> HIDE DEF S2
<1>12. \A k \in 1 .. n + m : k \in 1 .. n \/ \E j \in 1 .. m : k = n + j
  <2> SUFFICES ASSUME NEW k \in 1 .. n + m, ~(k \in 1 .. n)
               PROVE  \E j \in 1 .. m : k = n + j
    OBVIOUS
  <2>1. k - n \in 1 .. m /\ k = n + (k - n)
    BY <1>1
  <2> QED
    BY <2>1
<1>13. Carry(all, S2, f2, e + d)
  <2>1. \A k \in DOMAIN all :
          /\ f2[k + 1] = f2[k] + Counted(all[k])
          /\ Counted(all[k]) <= ChunkSize
          /\ \A q \in 1 .. Counted(all[k]) : all[k].data[q] = S2[f2[k] + q]
    <3> SUFFICES ASSUME NEW k \in 1 .. n + m
                 PROVE  /\ f2[k + 1] = f2[k] + Counted(all[k])
                        /\ Counted(all[k]) <= ChunkSize
                        /\ \A q \in 1 .. Counted(all[k]) : all[k].data[q] = S2[f2[k] + q]
      BY <1>1
    <3>1. CASE k \in 1 .. n
      BY <1>10, <3>1
    <3>2. ASSUME NEW j \in 1 .. m, k = n + j
          PROVE  /\ f2[k + 1] = f2[k] + Counted(all[k])
                 /\ Counted(all[k]) <= ChunkSize
                 /\ \A q \in 1 .. Counted(all[k]) : all[k].data[q] = S2[f2[k] + q]
      BY <1>11, <3>2
    <3> QED
      BY <1>12, <3>1, <3>2
  <2> QED
    BY <1>1, <1>8, <1>9, <2>1 DEF Carry
<1> QED
  BY <1>13 DEF all, S2, f2, n

\* A report that is buffered.
LEMMA Buffering ==
  ASSUME buffer \in Seq(Bytes), reports \in Seq(Chunk), BufferReport
  PROVE  LET r == Head(reports)
             n == Counted(r) IN
           /\ reports # <<>> /\ r \in Chunk /\ reports[1] = r /\ 1 \in DOMAIN reports
           /\ reports' = Tail(reports) /\ reports' \in Seq(Chunk)
           /\ n \in Nat
           /\ Len(buffer) \in Nat /\ Len(buffer') = Len(buffer) + n
           /\ buffer' \in Seq(Bytes)
           /\ \A q \in 1 .. Len(buffer) : buffer'[q] = buffer[q]
           /\ \A q \in 1 .. n : buffer'[Len(buffer) + q] = r.data[q]
<1> DEFINE r == Head(reports)
           n == Counted(r)
           counted == SubSeq(r.data, 1, n)
<1>1. reports # <<>> /\ reports' = Tail(reports) /\ buffer' = buffer \o counted
  BY DEF BufferReport
<1>2. r \in Chunk /\ reports[1] = r /\ 1 \in DOMAIN reports /\ reports' \in Seq(Chunk)
  BY <1>1, TailShifts
<1> HIDE DEF r
<1>3. /\ n \in 0 .. Len(r.data) /\ counted \in Seq(Bytes) /\ Len(counted) = n
      /\ \A q \in 1 .. n : counted[q] = r.data[q]
  BY <1>2, CountedShape
<1>4. n \in Nat /\ Len(buffer) \in Nat
  <2>1. Len(r.data) \in Nat
    BY <1>2, LenProperties DEF Chunk
  <2> HIDE DEF n
  <2> QED
    BY <1>3, <2>1, LenProperties
<1> HIDE DEF n, counted
<1>5. /\ buffer \o counted \in Seq(Bytes) /\ Len(buffer \o counted) = Len(buffer) + Len(counted)
      /\ \A q \in 1 .. Len(buffer) : (buffer \o counted)[q] = buffer[q]
      /\ \A q \in 1 .. Len(counted) : (buffer \o counted)[Len(buffer) + q] = counted[q]
  BY <1>3, Concatenated, Zenon
<1>6. /\ buffer' \in Seq(Bytes) /\ Len(buffer') = Len(buffer) + n
      /\ \A q \in 1 .. Len(buffer) : buffer'[q] = buffer[q]
      /\ \A q \in 1 .. n : buffer'[Len(buffer) + q] = r.data[q]
  BY <1>1, <1>3, <1>5
<1> QED
  BY <1>1, <1>2, <1>4, <1>6 DEF r, n

\* Whatever the bytes of a header are, they are read as numbers.
LEMMA SwapTyped ==
  ASSUME LittleEndian, NEW v \in Nat
  PROVE  htons(v) \in Nat /\ htonl(v) \in Nat
<1>1. \A x \in Nat : Low(x) \in Nat /\ High(x) \in Nat
  <2>1. Base \in Nat \ {0}
    BY BytesBelowBase
  <2> QED
    BY <2>1, Division DEF Low, High
<1> DEFINE a == Low(v)
           b == Low(High(v))
           c == Low(High(High(v)))
           d == Low(High(High(High(v))))
<1>2. a \in Nat /\ b \in Nat /\ c \in Nat /\ d \in Nat
  BY <1>1
<1> HIDE DEF a, b, c, d
<1>3. Reverse(<<a, b>>) = <<b, a>> /\ Reverse(<<a, b, c, d>>) = <<d, c, b, a>>
  BY ReversedTwo, ReversedFour
<1>4. htons(v) = b + Base * a
  BY <1>3 DEF htons, Split16, Join16, a, b
<1>5. htonl(v) = d + Base * (c + Base * (b + Base * a))
  BY <1>3 DEF htonl, Split32, Join32, a, b, c, d
<1>6. \A x, y \in Nat : x + Base * y \in Nat
  BY BytesBelowBase
<1> QED
  BY <1>2, <1>4, <1>5, <1>6

LEMMA HeaderTyped ==
  ASSUME LittleEndian, NEW b \in Seq(Bytes), Len(b) >= 6
  PROVE  /\ htons(Join16(b)) \in Nat
         /\ htonl(Join32(SubSeq(b, 3, 6))) \in Nat
<1>1. \A q \in 1 .. 6 : b[q] \in Bytes
  <2>1. Len(b) \in Nat
    BY LenProperties
  <2>2. \A q \in 1 .. 6 : q \in 1 .. Len(b)
    BY <2>1
  <2> QED
    BY <2>2, ElementOfSeq
<1> DEFINE four == SubSeq(b, 3, 6)
<1>2. \A q \in 1 .. 6 - 3 + 1 : four[q] = b[3 + q - 1]
  BY <1>1, SubSeqProperties
<1> HIDE DEF four
<1>3. /\ b[1] \in Nat /\ b[2] \in Nat
      /\ four[1] \in Nat /\ four[2] \in Nat /\ four[3] \in Nat /\ four[4] \in Nat
  <2>1. \A q \in 1 .. 6 : b[q] \in Nat
    BY <1>1, BytesBelowBase
  <2>2. four[1] = b[3] /\ four[2] = b[4] /\ four[3] = b[5] /\ four[4] = b[6]
    BY <1>2
  <2> QED
    BY <2>1, <2>2
<1>4. \A x, y \in Nat : x + Base * y \in Nat
  BY BytesBelowBase
<1>5. Join16(b) \in Nat /\ Join32(four) \in Nat
  BY <1>3, <1>4 DEF Join16, Join32
<1> QED
  BY <1>5, SwapTyped DEF four

-----------------------------------------------------------------------------
(* Reading: the state has its types.                                       *)

LEMMA TypeInit == Init => TypeOK
<1> SUFFICES ASSUME Init PROVE TypeOK
  OBVIOUS
<1>1. head \in [type : Nat, length : Nat]
  BY DEF Init, NoHead
<1>2. \A S : <<>> \in Seq(S)
  OBVIOUS
<1> QED
  BY <1>1, <1>2 DEF Init, TypeOK

\* What a body is made of, once it has been buffered.
LEMMA BodyBytes ==
  ASSUME TypeOK, Body
  PROVE  /\ head.length \in Nat /\ head.length <= Len(buffer) /\ Len(buffer) \in Nat
         /\ SubSeq(buffer, 1, head.length) \in Seq(Bytes)
         /\ Len(SubSeq(buffer, 1, head.length)) = head.length
         /\ \A q \in 1 .. head.length : SubSeq(buffer, 1, head.length)[q] = buffer[q]
<1> DEFINE n == head.length
           len == Len(buffer)
           body == SubSeq(buffer, 1, n)
<1>1. n \in Nat /\ buffer \in Seq(Bytes) /\ len \in Nat /\ n <= len
  BY LenProperties DEF TypeOK, Body, Shift
<1>2. \A q \in 1 .. n : buffer[q] \in Bytes
  <2>1. \A q \in 1 .. len : buffer[q] \in Bytes
    BY <1>1, ElementOfSeq
  <2> HIDE DEF len, n
  <2> QED
    BY <1>1, <2>1
<1>3. /\ body \in Seq(Bytes)
      /\ Len(body) = IF 1 <= n THEN n - 1 + 1 ELSE 0
      /\ \A q \in 1 .. n - 1 + 1 : body[q] = buffer[1 + q - 1]
  <2> HIDE DEF n
  <2> QED
    BY <1>1, <1>2, SubSeqProperties
<1> HIDE DEF n, body, len
<1>4. Len(body) = n /\ \A q \in 1 .. n : body[q] = buffer[q]
  BY <1>1, <1>3
<1> QED
  BY <1>1, <1>3, <1>4 DEF n, body, len

LEMMA TypeStep ==
  ASSUME LittleEndian, TypeOK, [Next]_vars
  PROVE  TypeOK'
<1>1. ASSUME \/ \E m \in Outgoing : Write(m)
             \/ WriteChunk \/ WriteFails \/ WriteDone \/ TimeOut
             \/ UNCHANGED vars
      PROVE  TypeOK'
  BY <1>1 DEF TypeOK, Write, WriteChunk, WriteFails, WriteDone, TimeOut, vars, readVars,
              deviceVars, Reading
<1>2. ASSUME BufferReport PROVE TypeOK'
  <2>1. buffer' \in Seq(Bytes) /\ reports' \in Seq(Chunk)
    BY <1>2, Buffering DEF TypeOK
  <2> QED
    BY <1>2, <2>1 DEF TypeOK, BufferReport
<1>3. ASSUME Align \/ Second PROVE TypeOK'
  <2>1. Shift(1)
    BY <1>3 DEF Align, Second
  <2>2. buffer' \in Seq(Bytes)
    BY <2>1, Shifted DEF TypeOK
  <2> QED
    BY <1>3, <2>2 DEF TypeOK, Align, Second, Reading, deviceVars
<1>4. ASSUME Header PROVE TypeOK'
  <2>1. Shift(6) /\ buffer \in Seq(Bytes)
    BY <1>4 DEF Header, TypeOK
  <2>2. buffer' \in Seq(Bytes) /\ Len(buffer) >= 6
    BY <2>1, Shifted
  <2>3. head' \in [type : Nat, length : Nat]
    <3>1. /\ htons(Join16(buffer)) \in Nat
          /\ htonl(Join32(SubSeq(buffer, 3, 6))) \in Nat
      BY <2>1, <2>2, HeaderTyped
    <3> QED
      BY <1>4, <3>1 DEF Header
  <2> QED
    BY <1>4, <2>2, <2>3 DEF TypeOK, Header, Reading, deviceVars
<1>5. ASSUME Body PROVE TypeOK'
  <2>1. Shift(head.length) /\ head.length \in Nat /\ buffer \in Seq(Bytes)
    BY <1>5 DEF Body, TypeOK
  <2>2. buffer' \in Seq(Bytes)
    BY <2>1, Shifted
  <2>3. received' \in Seq(Message)
    <3> DEFINE m == [type |-> head.type, body |-> SubSeq(buffer, 1, head.length)]
    <3>1. m \in Message /\ received \in Seq(Message)
      BY <1>5, BodyBytes DEF TypeOK, Message
    <3>2. received' = received \/ received' = Append(received, m)
      BY <1>5 DEF Body
    <3> HIDE DEF m
    <3> QED
      BY <3>1, <3>2, AppendProperties
  <2> QED
    BY <1>5, <2>2, <2>3 DEF TypeOK, Body, Reading, deviceVars
<1>6. ASSUME NEW m \in Incoming, DeviceSends(m) PROVE TypeOK'
  <2>1. PICK style \in Styles : reports' = reports \o Reports(Wire(m), style)
    BY <1>6 DEF DeviceSends, Styles
  <2>2. Wire(m) \in Seq(Bytes) /\ Wire(m) # <<>>
    <3>1. Wire(m) \in Seq(Bytes) /\ Len(Wire(m)) = 8 + Len(m.body) /\ Len(m.body) \in Nat
      BY WireShape DEF Sendable
    <3> QED
      BY <3>1
  <2>3. Reports(Wire(m), style) \in Seq(Chunk)
    BY <2>2, ReportsCarry
  <2>4. reports' \in Seq(Chunk) /\ sent' \in Seq(Incoming)
    BY <1>6, <2>1, <2>3, ConcatProperties, AppendProperties DEF TypeOK, DeviceSends
  <2> QED
    BY <1>6, <2>4 DEF TypeOK, DeviceSends, readVars
<1> QED
  BY <1>1, <1>2, <1>3, <1>4, <1>5, <1>6 DEF Next

-----------------------------------------------------------------------------
(* Reading: what the bytes are.  S is all that has come from the device    *)
(* and e its end, st[j] is how much of it is in front of message j, c how  *)
(* much of it has been consumed, and f[k] how much of it is in front of    *)
(* the k-th report that has not been read.                                 *)

\* The messages are in S, one behind the other, and between them are zeros.
Layout(S, e, st) ==
  /\ e \in Nat
  /\ \A j \in DOMAIN sent :
       /\ st[j] \in Nat /\ st[j] + Len(Wire(sent[j])) <= e
       /\ \A q \in 1 .. Len(Wire(sent[j])) : S[st[j] + q] = Wire(sent[j])[q]
  /\ \A j, k \in DOMAIN sent : j < k => st[j] + Len(Wire(sent[j])) <= st[k]
  /\ \A p \in 1 .. e : S[p] # 0 =>
       \E j \in DOMAIN sent : st[j] < p /\ p <= st[j] + Len(Wire(sent[j]))

\* The buffer holds what is between the bytes consumed and the first report.
Buffered(S, c, f) ==
  /\ c \in Nat /\ c + Len(buffer) = f[1]
  /\ \A q \in 1 .. Len(buffer) : buffer[q] = S[c + q]

\* How much has been consumed of the message that is being read.
Taken == IF pc = "second" THEN 1 ELSE IF pc = "header" THEN 2 ELSE IF pc = "body" THEN 8 ELSE 0

\* What is read can be told: no read was given up, or no body looks like a header.
Told == ~torn \/ Unmistakable(sent)

\* The message that is being read is the j-th, from its beginning.
Within(st, c, j) ==
  Told =>
    /\ pc \in {"second", "header", "body"} => j \in DOMAIN sent
    /\ pc = "second" => c = st[j] + 1 \/ (torn /\ c = st[j] + 2)
    /\ pc = "header" => c = st[j] + 2
    /\ pc = "body" => /\ c = st[j] + 8
                      /\ head.type = sent[j].type
                      /\ head.length = Len(sent[j].body)

\* The messages received are those that `at` says, and they are behind.
Matched(st, c, at) ==
  Told =>
    /\ at \in [DOMAIN received -> KnownSent(Len(sent))]
    /\ ReadFrom(at)
    /\ \A k \in DOMAIN received : st[at[k]] + Len(Wire(sent[at[k]])) + Taken <= c

\* Until a read is given up, n messages are behind, all the known ones of
\* them have been received, and the others are ahead.
Complete(st, c, at, n, j) ==
  ~torn =>
    /\ n \in 0 .. Len(sent)
    /\ at \in Surjection(DOMAIN received, KnownSent(n))
    /\ \A k \in DOMAIN sent : IF k <= n THEN st[k] + Len(Wire(sent[k])) + Taken <= c
                                        ELSE c <= st[k] + Taken
    /\ pc \in {"second", "header", "body"} => j = n + 1

History(S, e, st, c, f, at, n, j) ==
  /\ Layout(S, e, st)
  /\ Carry(reports, S, f, e)
  /\ Buffered(S, c, f)
  /\ Within(st, c, j)
  /\ Matched(st, c, at)
  /\ Complete(st, c, at, n, j)

\* A length that is accepted is BUFFER_SIZE at most, and a body is all that a
\* report of it can take out of _buffer.
Bounded ==
  /\ pc = "body" => head.length <= BufferSize
  /\ Overrun => pc = "body" /\ head.length + ChunkSize - 1 > BufferSize

ReadInv ==
  /\ TypeOK
  /\ Bounded
  /\ \E S, e, st, c, f, at, n, j : History(S, e, st, c, f, at, n, j)

LEMMA ReadInit == Init => ReadInv
<1> SUFFICES ASSUME Init PROVE ReadInv
  OBVIOUS
<1>1. /\ pc = "idle" /\ buffer = <<>> /\ received = <<>> /\ torn = FALSE
      /\ sent = <<>> /\ reports = <<>>
  BY DEF Init
<1>2. /\ Len(buffer) = 0 /\ Len(reports) = 0 /\ Len(sent) = 0
      /\ DOMAIN received = {} /\ DOMAIN sent = {} /\ DOMAIN reports = {}
  BY <1>1
<1>3. Bounded
  <2>1. BufferSize \in Nat
    BY HeaderFits
  <2> QED
    BY <1>1, <1>2, <2>1 DEF Bounded, Overrun
<1> DEFINE f == [k \in Nat |-> 0]
           at == [k \in {} |-> 0]
<1>4. Layout(f, 0, f)
  BY <1>2 DEF Layout
<1>5. Carry(reports, f, f, 0)
  BY <1>2 DEF Carry
<1>6. Buffered(f, 0, f)
  BY <1>2 DEF Buffered
<1>7. Within(f, 0, 0)
  BY <1>1 DEF Within
<1>8. at \in [DOMAIN received -> KnownSent(0)] /\ at \in Surjection(DOMAIN received, KnownSent(0))
  <2>1. KnownSent(0) = {}
    BY DEF KnownSent
  <2> QED
    BY <1>2, <2>1 DEF Surjection
<1> HIDE DEF f, at
<1>9. Matched(f, 0, at)
  BY <1>2, <1>8 DEF Matched, ReadFrom
<1>10. Complete(f, 0, at, 0, 0)
  BY <1>1, <1>2, <1>8 DEF Complete
<1>11. History(f, 0, f, 0, f, at, 0, 0)
  BY <1>4, <1>5, <1>6, <1>7, <1>9, <1>10 DEF History
<1> QED
  BY <1>3, <1>11, TypeInit DEF ReadInv

\* The device's messages, and where their bytes are.
LEMMA SentShape ==
  ASSUME TypeOK
  PROVE  /\ Len(sent) \in Nat /\ DOMAIN sent = 1 .. Len(sent)
         /\ \A j \in DOMAIN sent :
              /\ sent[j] \in Incoming
              /\ sent[j] = [type |-> sent[j].type, body |-> sent[j].body]
              /\ sent[j].body \in Seq(Bytes) /\ Len(sent[j].body) \in Nat
              /\ Wire(sent[j]) \in Seq(Bytes)
              /\ Len(Wire(sent[j])) = 8 + Len(sent[j].body)
              /\ Wire(sent[j])[1] = Magic /\ Wire(sent[j])[2] = Magic
              /\ \A q \in 1 .. Len(sent[j].body) : Wire(sent[j])[8 + q] = sent[j].body[q]
<1>1. sent \in Seq(Incoming)
  BY DEF TypeOK
<1>2. Len(sent) \in Nat /\ DOMAIN sent = 1 .. Len(sent)
  BY <1>1, LenProperties
<1>3. \A j \in DOMAIN sent : sent[j] \in Incoming
  BY <1>1, <1>2, ElementOfSeq
<1>4. \A m \in Incoming : m = [type |-> m.type, body |-> m.body] /\ m.body \in Seq(Bytes)
  BY MessagesTyped
<1>5. \A m \in Incoming :
        /\ Len(m.body) \in Nat
        /\ Wire(m) \in Seq(Bytes) /\ Len(Wire(m)) = 8 + Len(m.body)
        /\ Wire(m)[1] = Magic /\ Wire(m)[2] = Magic
        /\ \A q \in 1 .. Len(m.body) : Wire(m)[8 + q] = m.body[q]
  BY WireShape DEF Sendable
<1> QED
  BY <1>2, <1>3, <1>4, <1>5

\* How much is in the buffer, and that it is within S.
LEMMA BufferedShape ==
  ASSUME TypeOK, NEW S, NEW e, NEW st, NEW c, NEW f, NEW at, NEW n, NEW j,
         History(S, e, st, c, f, at, n, j)
  PROVE  /\ e \in Nat /\ c \in Nat /\ Len(buffer) \in Nat
         /\ c + Len(buffer) = f[1] /\ c + Len(buffer) <= e
         /\ \A q \in 1 .. Len(buffer) : buffer[q] = S[c + q]
<1>1. e \in Nat /\ c \in Nat /\ c + Len(buffer) = f[1]
      /\ \A q \in 1 .. Len(buffer) : buffer[q] = S[c + q]
  BY DEF History, Layout, Buffered
<1>2. Len(buffer) \in Nat /\ Len(reports) \in Nat
  BY LenProperties DEF TypeOK
<1>3. \A k \in 1 .. Len(reports) + 1 : f[k] \in 0 .. e
  BY DEF History, Carry
<1>4. 1 \in 1 .. Len(reports) + 1
  BY <1>2
<1>5. f[1] \in 0 .. e
  BY <1>3, <1>4
<1> QED
  BY <1>1, <1>2, <1>5

\* Where no body looks like a header, a magic character begins a message.
LEMMA MagicPlace ==
  ASSUME TypeOK, Unmistakable(sent), NEW S, NEW e, NEW st, Layout(S, e, st),
         NEW p \in 1 .. e, S[p] = Magic
  PROVE  \E j \in DOMAIN sent : p = st[j] + 1 \/ p = st[j] + 2
<1>1. PICK j \in DOMAIN sent : st[j] < p /\ p <= st[j] + Len(Wire(sent[j]))
  BY BytesBelowBase DEF Layout
<1> DEFINE w == Wire(sent[j])
           len == Len(w)
           rest == SubSeq(w, 3, len)
           at == st[j]
           q == p - at
<1>2. /\ at \in Nat /\ w \in Seq(Bytes) /\ len \in Nat /\ len >= 8
      /\ \A k \in 1 .. len : S[at + k] = w[k]
      /\ Magic \notin Range(rest)
  <2>1. at \in Nat /\ \A k \in 1 .. len : S[at + k] = w[k]
    BY DEF Layout
  <2>2. w \in Seq(Bytes) /\ len = 8 + Len(sent[j].body) /\ Len(sent[j].body) \in Nat
    BY SentShape
  <2>3. Magic \notin Range(rest)
    BY DEF Unmistakable
  <2> HIDE DEF at, w, rest
  <2>4. len \in Nat /\ len >= 8
    BY <2>2
  <2> QED
    BY <2>1, <2>2, <2>3, <2>4
<1>3. p \in Nat /\ at < p /\ p <= at + len
  BY <1>1, BytesBelowBase DEF Layout
<1>4. \A k \in 3 .. len : w[k] # Magic
  <2> HIDE DEF w
  <2>1. \A k \in 3 .. len : w[k] \in Bytes
    <3>1. \A k \in 1 .. len : w[k] \in Bytes
      BY <1>2, ElementOfSeq
    <3> HIDE DEF len
    <3>2. \A k \in 3 .. len : k \in 1 .. len
      BY <1>2
    <3> QED
      BY <3>1, <3>2
  <2> HIDE DEF len
  <2>2. /\ rest \in Seq(Bytes) /\ Len(rest) = IF 3 <= len THEN len - 3 + 1 ELSE 0
        /\ \A k \in 1 .. len - 3 + 1 : rest[k] = w[3 + k - 1]
    BY <1>2, <2>1, SubSeqProperties
  <2>3. DOMAIN rest = 1 .. len - 2
    <3>1. Len(rest) = len - 2
      BY <1>2, <2>2
    <3> QED
      BY <2>2, <3>1, LenProperties
  <2> HIDE DEF rest
  <2> SUFFICES ASSUME NEW k \in 3 .. len PROVE w[k] # Magic
    OBVIOUS
  <2>4. /\ k - 2 \in 1 .. len - 2 /\ k - 2 \in 1 .. len - 3 + 1 /\ 3 + (k - 2) - 1 = k
    BY <1>2
  <2>5. rest[k - 2] = w[k] /\ k - 2 \in DOMAIN rest
    BY <2>2, <2>3, <2>4
  <2>6. rest[k - 2] \in Range(rest)
    BY <2>5 DEF Range
  <2> QED
    BY <1>2, <2>5, <2>6
<1> HIDE DEF w, len, rest, at
<1>5. q \in 1 .. len /\ p = at + q
  BY <1>2, <1>3
<1> HIDE DEF q
<1>6. w[q] = Magic
  BY <1>2, <1>5
<1>7. q = 1 \/ q = 2
  <2>1. ~(q \in 3 .. len)
    BY <1>4, <1>6
  <2> QED
    BY <1>2, <1>5, <2>1
<1> QED
  BY <1>5, <1>7 DEF at

-----------------------------------------------------------------------------
(* Reading: the steps.                                                     *)

LEMMA TakenTyped == Taken \in Nat
BY DEF Taken

\* Calls that read nothing, and the writing of a message.
LEMMA NothingRead ==
  ASSUME NEW S, NEW e, NEW st, NEW c, NEW f, NEW at, NEW n, NEW j,
         History(S, e, st, c, f, at, n, j),
         UNCHANGED <<buffer, received, torn, sent, reports>>,
         UNCHANGED <<pc, head>> \/ {pc, pc'} \subseteq {"idle", "write", "align"}
  PROVE  History(S, e, st, c, f, at, n, j)'
<1>1. Layout(S, e, st)' /\ Carry(reports, S, f, e)' /\ Buffered(S, c, f)'
  BY DEF History, Layout, Carry, Counted, Buffered
<1>2. /\ Told' = Told /\ Taken' = Taken
      /\ pc' \in {"second", "header", "body"} => pc' = pc /\ head' = head
      /\ \A k : KnownSent(k)' = KnownSent(k)
  BY DEF Told, Unmistakable, Taken, KnownSent
<1>3. Within(st, c, j)'
  BY <1>2 DEF History, Within
<1>4. Matched(st, c, at)'
  BY <1>2 DEF History, Matched, ReadFrom
<1>5. Complete(st, c, at, n, j)'
  BY <1>2 DEF History, Complete
<1> QED
  BY <1>1, <1>3, <1>4, <1>5 DEF History

\* A read that is given up.
LEMMA GivenUp ==
  ASSUME TypeOK, NEW S, NEW e, NEW st, NEW c, NEW f, NEW at, NEW n, NEW j,
         History(S, e, st, c, f, at, n, j),
         NEW d \in Nat, c <= d,
         torn' = TRUE, pc' = "idle", UNCHANGED <<received, sent, reports>>,
         Buffered(S, d, f)'
  PROVE  History(S, e, st, d, f, at, n, j)'
<1>1. Layout(S, e, st)' /\ Carry(reports, S, f, e)'
  BY DEF History, Layout, Carry, Counted
<1>2. Within(st, d, j)'
  BY DEF Within
<1>3. Complete(st, d, at, n, j)'
  BY DEF Complete
<1>4. Matched(st, d, at)'
  <2> SUFFICES ASSUME Told'
               PROVE  /\ at \in [DOMAIN received -> KnownSent(Len(sent))]'
                      /\ ReadFrom(at)'
                      /\ \A k \in DOMAIN received :
                           st[at[k]] + Len(Wire(sent[at[k]])) + Taken' <= d
    BY DEF Matched
  <2>1. Told
    BY DEF Told, Unmistakable
  <2>2. /\ at \in [DOMAIN received -> KnownSent(Len(sent))]
        /\ ReadFrom(at)
        /\ \A k \in DOMAIN received : st[at[k]] + Len(Wire(sent[at[k]])) + Taken <= c
    BY <2>1 DEF History, Matched
  <2>3. Taken' = 0
    BY DEF Taken
  <2>4. \A k \in DOMAIN received :
          st[at[k]] \in Nat /\ Len(Wire(sent[at[k]])) \in Nat
    <3>1. \A k \in DOMAIN received : at[k] \in DOMAIN sent
      BY <2>2, SentShape DEF KnownSent
    <3>2. \A k \in DOMAIN sent : st[k] \in Nat /\ Len(Wire(sent[k])) \in Nat
      BY SentShape DEF History, Layout
    <3> QED
      BY <3>1, <3>2
  <2>5. c \in Nat
    BY DEF History, Buffered
  <2>6. \A k \in DOMAIN received : st[at[k]] + Len(Wire(sent[at[k]])) + 0 <= d
    BY <2>2, <2>4, <2>5, TakenTyped
  <2> QED
    BY <2>2, <2>3, <2>6 DEF ReadFrom, KnownSent
<1> QED
  BY <1>1, <1>2, <1>3, <1>4 DEF History

\* n bytes are consumed.
LEMMA Consumed ==
  ASSUME TypeOK, NEW S, NEW e, NEW st, NEW c, NEW f, NEW at, NEW n, NEW j,
         History(S, e, st, c, f, at, n, j), NEW k \in Nat, Shift(k)
  PROVE  /\ Buffered(S, c + k, f)'
         /\ k <= Len(buffer) /\ c + k <= e
         /\ \A q \in 1 .. k : buffer[q] = S[c + q]
<1> DEFINE len == Len(buffer)
<1>1. /\ len \in Nat /\ k <= len /\ Len(buffer') = len - k
      /\ \A q \in 1 .. Len(buffer') : buffer'[q] = buffer[k + q]
  BY Shifted DEF TypeOK
<1>2. /\ e \in Nat /\ c \in Nat /\ c + len = f[1] /\ c + len <= e
      /\ \A q \in 1 .. len : buffer[q] = S[c + q]
  BY BufferedShape
<1> HIDE DEF len
<1>3. (c + k) + Len(buffer') = f[1] /\ c + k \in Nat /\ c + k <= e
  BY <1>1, <1>2
<1>4. \A q \in 1 .. Len(buffer') : buffer'[q] = S[(c + k) + q]
  <2> SUFFICES ASSUME NEW q \in 1 .. Len(buffer')
               PROVE  buffer'[q] = S[(c + k) + q]
    OBVIOUS
  <2>1. k + q \in 1 .. len /\ c + (k + q) = (c + k) + q
    BY <1>1, <1>2
  <2> QED
    BY <1>1, <1>2, <2>1
<1>5. \A q \in 1 .. k : buffer[q] = S[c + q]
  BY <1>1, <1>2
<1> QED
  BY <1>1, <1>3, <1>4, <1>5 DEF Buffered, len

\* A report is buffered.
LEMMA ReportRead ==
  ASSUME TypeOK, NEW S, NEW e, NEW st, NEW c, NEW f, NEW at, NEW n, NEW j,
         History(S, e, st, c, f, at, n, j), BufferReport
  PROVE  \E g : History(S, e, st, c, g, at, n, j)'
<1> DEFINE r == Head(reports)
           k == Counted(r)
           len == Len(buffer)
<1>1. PICK g : g = [x \in Nat |-> f[x + 1]]
  OBVIOUS
<1>2. /\ reports # <<>> /\ reports[1] = r /\ 1 \in DOMAIN reports
      /\ reports' = Tail(reports) /\ reports \in Seq(Chunk)
      /\ k \in Nat /\ len \in Nat /\ Len(buffer') = len + k
      /\ \A q \in 1 .. len : buffer'[q] = buffer[q]
      /\ \A q \in 1 .. k : buffer'[len + q] = r.data[q]
  BY Buffering DEF TypeOK
<1>3. UNCHANGED <<pc, head, received, torn, sent>>
  BY DEF BufferReport
<1>4. Layout(S, e, st)' /\ e \in Nat
  BY <1>3 DEF History, Layout
<1>5. Carry(reports, S, g, e)'
  <2>1. Carry(Tail(reports), S, [x \in Nat |-> f[x + 1]], e)
    BY <1>2, <1>4, TailCarries DEF History
  <2> QED
    BY <1>1, <1>2, <2>1
<1>6. Buffered(S, c, g)'
  <2>1. /\ f[1 + 1] = f[1] + k
        /\ \A q \in 1 .. k : r.data[q] = S[f[1] + q]
    BY <1>2 DEF History, Carry
  <2>2. g[1] = f[1 + 1]
    BY <1>1
  <2>3. c \in Nat /\ c + len = f[1] /\ \A q \in 1 .. len : buffer[q] = S[c + q]
    BY DEF History, Buffered
  <2> HIDE DEF k, len, r
  <2>4. c + Len(buffer') = g[1]
    BY <1>2, <2>1, <2>2, <2>3
  <2>5. \A q \in 1 .. len : buffer'[q] = S[c + q]
    BY <1>2, <2>3
  <2>6. ASSUME NEW q \in 1 .. k PROVE buffer'[len + q] = S[c + (len + q)]
    <3>1. c + (len + q) = f[1] + q
      BY <1>2, <2>3
    <3>2. r.data[q] = S[f[1] + q] /\ buffer'[len + q] = r.data[q]
      BY <1>2, <2>1
    <3> QED
      BY <3>1, <3>2
  <2>7. ASSUME NEW q \in 1 .. Len(buffer') PROVE buffer'[q] = S[c + q]
    <3>1. CASE q <= len
      BY <1>2, <2>5, <3>1
    <3>2. CASE q > len
      <4> DEFINE x == q - len
      <4>1. x \in 1 .. k /\ q = len + x
        BY <1>2, <3>2
      <4> HIDE DEF x
      <4> QED
        BY <2>6, <4>1
    <3> QED
      BY <1>2, <3>1, <3>2
  <2> QED
    BY <2>3, <2>4, <2>7 DEF Buffered
<1>7. /\ Told' = Told /\ Taken' = Taken
      /\ \A x : KnownSent(x)' = KnownSent(x)
  BY <1>3 DEF Told, Unmistakable, Taken, KnownSent
<1>8. Within(st, c, j)'
  BY <1>3, <1>7 DEF History, Within
<1>9. Matched(st, c, at)'
  BY <1>3, <1>7 DEF History, Matched, ReadFrom
<1>10. Complete(st, c, at, n, j)'
  BY <1>3, <1>7 DEF History, Complete
<1>11. History(S, e, st, c, g, at, n, j)'
  BY <1>4, <1>5, <1>6, <1>8, <1>9, <1>10 DEF History
<1> QED
  BY <1>11

\* Which message the magic character at c + 1 begins.
LEMMA MessageBegins ==
  ASSUME TypeOK, NEW S, NEW e, NEW st, NEW c, NEW f, NEW at, NEW n, NEW j,
         History(S, e, st, c, f, at, n, j), pc = "align",
         c + 1 <= e, S[c + 1] = Magic, Told
  PROVE  \E k \in DOMAIN sent :
           /\ c + 1 = st[k] + 1 \/ (torn /\ c + 1 = st[k] + 2)
           /\ ~torn => k = n + 1
<1>1. c \in Nat /\ Layout(S, e, st) /\ e \in Nat
  BY DEF History, Buffered, Layout
<1>2. c + 1 \in 1 .. e
  BY <1>1
<1>3. CASE torn
  <2>1. Unmistakable(sent)
    BY <1>3 DEF Told
  <2> QED
    BY <1>1, <1>2, <1>3, <2>1, MagicPlace
<1>4. CASE ~torn
  <2>1. PICK k \in DOMAIN sent : st[k] < c + 1 /\ c + 1 <= st[k] + Len(Wire(sent[k]))
    BY <1>1, <1>2, BytesBelowBase DEF Layout
  <2>2. /\ n \in 0 .. Len(sent)
        /\ \A x \in DOMAIN sent : IF x <= n THEN st[x] + Len(Wire(sent[x])) + 0 <= c
                                            ELSE c <= st[x] + 0
    BY <1>4 DEF History, Complete, Taken
  <2>3. /\ Len(sent) \in Nat /\ DOMAIN sent = 1 .. Len(sent)
        /\ \A x \in DOMAIN sent : st[x] \in Nat /\ Len(Wire(sent[x])) \in Nat
        /\ \A x \in DOMAIN sent : Len(Wire(sent[x])) >= 8
    <3>1. Len(sent) \in Nat /\ DOMAIN sent = 1 .. Len(sent)
      BY SentShape
    <3>2. \A x \in DOMAIN sent : st[x] \in Nat
      BY <1>1 DEF Layout
    <3>3. \A x \in DOMAIN sent : Len(Wire(sent[x])) \in Nat /\ Len(Wire(sent[x])) >= 8
      BY SentShape
    <3> QED
      BY <3>1, <3>2, <3>3
  <2>4. \A x, y \in DOMAIN sent : x < y => st[x] + Len(Wire(sent[x])) <= st[y]
    BY <1>1 DEF Layout
  <2> DEFINE len == Len(sent)
             w(x) == Len(Wire(sent[x]))
  <2>5. k \in 1 .. len /\ len \in Nat
    BY <2>3
  <2>6. ~(k <= n)
    <3> SUFFICES ASSUME k <= n PROVE FALSE
      OBVIOUS
    <3>1. st[k] + w(k) + 0 <= c /\ c + 1 <= st[k] + w(k) /\ st[k] \in Nat /\ w(k) \in Nat
      BY <2>1, <2>2, <2>3
    <3> HIDE DEF w
    <3> QED
      BY <1>1, <3>1
  <2>7. c = st[k]
    <3>1. c <= st[k] + 0 /\ st[k] < c + 1 /\ st[k] \in Nat
      BY <2>1, <2>2, <2>3, <2>6
    <3> QED
      BY <1>1, <3>1
  <2>8. k = n + 1
    <3> SUFFICES ASSUME k # n + 1 PROVE FALSE
      OBVIOUS
    <3>1. n + 1 \in 1 .. len /\ n + 1 < k /\ ~(n + 1 <= n)
      BY <2>2, <2>5, <2>6
    <3>2. n + 1 \in DOMAIN sent
      BY <2>3, <3>1
    <3>3. /\ c <= st[n + 1] + 0 /\ st[n + 1] + w(n + 1) <= st[k]
          /\ st[n + 1] \in Nat /\ w(n + 1) \in Nat /\ w(n + 1) >= 8
      BY <2>2, <2>3, <2>4, <3>1, <3>2
    <3> HIDE DEF w
    <3> QED
      BY <1>1, <2>7, <3>3
  <2> QED
    BY <2>7, <2>8
<1> QED
  BY <1>3, <1>4

\* Bytes are skipped up to the first magic character.
LEMMA Aligned ==
  ASSUME TypeOK, NEW S, NEW e, NEW st, NEW c, NEW f, NEW at, NEW n, NEW j,
         History(S, e, st, c, f, at, n, j), Align
  PROVE  \E k : History(S, e, st, c + 1, f, at, n, k)'
<1>1. /\ pc = "align" /\ UNCHANGED <<head, received, torn, sent, reports>>
      /\ pc' = IF buffer[1] = Magic THEN "second" ELSE "align"
  BY DEF Align, deviceVars
<1>2. /\ Buffered(S, c + 1, f)' /\ 1 <= Len(buffer) /\ c + 1 <= e
      /\ buffer[1] = S[c + 1]
  <2>1. Shift(1)
    BY DEF Align
  <2> QED
    BY <2>1, Consumed
<1>3. /\ Layout(S, e, st)' /\ Carry(reports, S, f, e)'
      /\ c \in Nat /\ e \in Nat
  BY <1>1 DEF History, Layout, Carry, Counted, Buffered
<1>4. Told' = Told /\ Taken = 0 /\ \A x : KnownSent(x)' = KnownSent(x)
  BY <1>1 DEF Told, Unmistakable, Taken, KnownSent
<1>5. Told =>
        /\ at \in [DOMAIN received -> KnownSent(Len(sent))]
        /\ ReadFrom(at)
        /\ \A x \in DOMAIN received : st[at[x]] + Len(Wire(sent[at[x]])) <= c
        /\ \A x \in DOMAIN received : st[at[x]] \in Nat /\ Len(Wire(sent[at[x]])) \in Nat
  <2> SUFFICES ASSUME Told
               PROVE  /\ at \in [DOMAIN received -> KnownSent(Len(sent))]
                      /\ ReadFrom(at)
                      /\ \A x \in DOMAIN received : st[at[x]] + Len(Wire(sent[at[x]])) <= c
                      /\ \A x \in DOMAIN received :
                           st[at[x]] \in Nat /\ Len(Wire(sent[at[x]])) \in Nat
    OBVIOUS
  <2>1. /\ at \in [DOMAIN received -> KnownSent(Len(sent))]
        /\ ReadFrom(at)
        /\ \A x \in DOMAIN received : st[at[x]] + Len(Wire(sent[at[x]])) + 0 <= c
    BY <1>4 DEF History, Matched
  <2>2. \A x \in DOMAIN received : at[x] \in DOMAIN sent
    BY <2>1, SentShape DEF KnownSent
  <2>3. \A x \in DOMAIN sent : st[x] \in Nat /\ Len(Wire(sent[x])) \in Nat
    BY SentShape DEF History, Layout
  <2> QED
    BY <2>1, <2>2, <2>3
<1>6. /\ \A x \in DOMAIN sent :
           st[x] \in Nat /\ Len(Wire(sent[x])) \in Nat /\ S[st[x] + 1] = Magic
  <2>1. \A x \in DOMAIN sent :
          /\ st[x] \in Nat
          /\ \A q \in 1 .. Len(Wire(sent[x])) : S[st[x] + q] = Wire(sent[x])[q]
    BY DEF History, Layout
  <2>2. \A x \in DOMAIN sent :
          /\ Len(Wire(sent[x])) \in Nat /\ Wire(sent[x])[1] = Magic
          /\ 1 \in 1 .. Len(Wire(sent[x]))
    BY SentShape
  <2> QED
    BY <2>1, <2>2
<1>7. CASE buffer[1] = Magic
  <2>1. pc' = "second" /\ Taken' = 1
    BY <1>1, <1>7 DEF Taken
  <2>2. PICK k : Told => /\ k \in DOMAIN sent
                         /\ c + 1 = st[k] + 1 \/ (torn /\ c + 1 = st[k] + 2)
                         /\ ~torn => k = n + 1
    <3>1. CASE Told
      <4>1. pc = "align" /\ c + 1 <= e /\ S[c + 1] = Magic
        BY <1>1, <1>2, <1>7
      <4>2. \E k \in DOMAIN sent :
              /\ c + 1 = st[k] + 1 \/ (torn /\ c + 1 = st[k] + 2)
              /\ ~torn => k = n + 1
        BY <3>1, <4>1, MessageBegins
      <4> QED
        BY <4>2
    <3>2. CASE ~Told
      BY <3>2
    <3> QED
      BY <3>1, <3>2
  <2>3. Within(st, c + 1, k)'
    BY <1>1, <1>4, <2>1, <2>2 DEF Within
  <2>4. Matched(st, c + 1, at)'
    <3> SUFFICES ASSUME Told PROVE Matched(st, c + 1, at)'
      BY <1>4 DEF Matched
    <3>1. \A x \in DOMAIN received : st[at[x]] + Len(Wire(sent[at[x]])) + 1 <= c + 1
      BY <1>3, <1>5
    <3> QED
      BY <1>1, <1>4, <1>5, <2>1, <3>1 DEF Matched, ReadFrom
  <2>5. Complete(st, c + 1, at, n, k)'
    <3> SUFFICES ASSUME ~torn PROVE Complete(st, c + 1, at, n, k)'
      BY <1>1 DEF Complete
    <3>1. /\ n \in 0 .. Len(sent)
          /\ at \in Surjection(DOMAIN received, KnownSent(n))
          /\ \A x \in DOMAIN sent : IF x <= n THEN st[x] + Len(Wire(sent[x])) + 0 <= c
                                              ELSE c <= st[x] + 0
      BY <1>4 DEF History, Complete
    <3>2. \A x \in DOMAIN sent : IF x <= n THEN st[x] + Len(Wire(sent[x])) + 1 <= c + 1
                                           ELSE c + 1 <= st[x] + 1
      BY <1>3, <1>6, <3>1
    <3>3. k = n + 1
      BY <2>2 DEF Told
    <3> QED
      BY <1>1, <1>4, <2>1, <3>1, <3>2, <3>3 DEF Complete
  <2>6. History(S, e, st, c + 1, f, at, n, k)'
    BY <1>2, <1>3, <2>3, <2>4, <2>5 DEF History
  <2> QED
    BY <2>6
<1>8. CASE buffer[1] # Magic
  <2>1. pc' = "align" /\ Taken' = 0
    BY <1>1, <1>8 DEF Taken
  <2>2. Within(st, c + 1, j)'
    BY <2>1 DEF Within
  <2>3. Matched(st, c + 1, at)'
    <3> SUFFICES ASSUME Told PROVE Matched(st, c + 1, at)'
      BY <1>4 DEF Matched
    <3>1. \A x \in DOMAIN received : st[at[x]] + Len(Wire(sent[at[x]])) + 0 <= c + 1
      BY <1>3, <1>5
    <3> QED
      BY <1>1, <1>4, <1>5, <2>1, <3>1 DEF Matched, ReadFrom
  <2>4. Complete(st, c + 1, at, n, j)'
    <3> SUFFICES ASSUME ~torn PROVE Complete(st, c + 1, at, n, j)'
      BY <1>1 DEF Complete
    <3>1. /\ n \in 0 .. Len(sent)
          /\ at \in Surjection(DOMAIN received, KnownSent(n))
          /\ \A x \in DOMAIN sent : IF x <= n THEN st[x] + Len(Wire(sent[x])) + 0 <= c
                                              ELSE c <= st[x] + 0
      BY <1>4 DEF History, Complete
    <3>2. \A x \in DOMAIN sent : c # st[x]
      BY <1>2, <1>6, <1>8
    <3>3. \A x \in DOMAIN sent : IF x <= n THEN st[x] + Len(Wire(sent[x])) + 0 <= c + 1
                                           ELSE c + 1 <= st[x] + 0
      BY <1>3, <1>6, <3>1, <3>2
    <3> QED
      BY <1>1, <1>4, <2>1, <3>1, <3>3 DEF Complete
  <2>5. History(S, e, st, c + 1, f, at, n, j)'
    BY <1>2, <1>3, <2>2, <2>3, <2>4 DEF History
  <2> QED
    BY <2>5
<1> QED
  BY <1>7, <1>8

\* What is behind stays behind, and what is ahead stays ahead, while k more
\* bytes of a message are consumed.
LEMMA FurtherOn ==
  ASSUME TypeOK, NEW S, NEW e, NEW st, NEW c, NEW f, NEW at, NEW n, NEW j,
         History(S, e, st, c, f, at, n, j),
         NEW k \in Nat, Taken' = Taken + k, pc \in {"second", "header", "body"},
         UNCHANGED <<received, torn, sent>>
  PROVE  Matched(st, c + k, at)' /\ Complete(st, c + k, at, n, j)'
<1>1. Told' = Told /\ \A x : KnownSent(x)' = KnownSent(x)
  BY DEF Told, Unmistakable, KnownSent
<1>2. /\ c \in Nat /\ Taken \in Nat
      /\ \A x \in DOMAIN sent : st[x] \in Nat /\ Len(Wire(sent[x])) \in Nat
  BY TakenTyped, SentShape DEF History, Layout, Buffered
<1>3. Matched(st, c + k, at)'
  <2> SUFFICES ASSUME Told PROVE Matched(st, c + k, at)'
    BY <1>1 DEF Matched
  <2>1. /\ at \in [DOMAIN received -> KnownSent(Len(sent))]
        /\ ReadFrom(at)
        /\ \A x \in DOMAIN received : st[at[x]] + Len(Wire(sent[at[x]])) + Taken <= c
    BY DEF History, Matched
  <2>2. \A x \in DOMAIN received : at[x] \in DOMAIN sent
    BY <2>1, SentShape DEF KnownSent
  <2>3. \A x \in DOMAIN received :
          st[at[x]] + Len(Wire(sent[at[x]])) + (Taken + k) <= c + k
    <3> SUFFICES ASSUME NEW x \in DOMAIN received
                 PROVE  st[at[x]] + Len(Wire(sent[at[x]])) + (Taken + k) <= c + k
      OBVIOUS
    <3> DEFINE a == st[at[x]]
               b == Len(Wire(sent[at[x]]))
    <3>1. a \in Nat /\ b \in Nat /\ a + b + Taken <= c
      BY <1>2, <2>1, <2>2
    <3> HIDE DEF a, b
    <3>2. a + b + (Taken + k) <= c + k
      BY <1>2, <3>1
    <3> QED
      BY <3>2 DEF a, b
  <2> QED
    BY <1>1, <2>1, <2>3 DEF Matched, ReadFrom
<1>4. Complete(st, c + k, at, n, j)'
  <2> SUFFICES ASSUME ~torn PROVE Complete(st, c + k, at, n, j)'
    BY DEF Complete
  <2>1. /\ n \in 0 .. Len(sent)
        /\ at \in Surjection(DOMAIN received, KnownSent(n))
        /\ \A x \in DOMAIN sent : IF x <= n THEN st[x] + Len(Wire(sent[x])) + Taken <= c
                                            ELSE c <= st[x] + Taken
        /\ j = n + 1
    BY DEF History, Complete
  <2>2. \A x \in DOMAIN sent : IF x <= n THEN st[x] + Len(Wire(sent[x])) + (Taken + k) <= c + k
                                         ELSE c + k <= st[x] + (Taken + k)
    <3> SUFFICES ASSUME NEW x \in DOMAIN sent
                 PROVE  IF x <= n THEN st[x] + Len(Wire(sent[x])) + (Taken + k) <= c + k
                                  ELSE c + k <= st[x] + (Taken + k)
      OBVIOUS
    <3> DEFINE a == st[x]
               b == Len(Wire(sent[x]))
    <3>1. a \in Nat /\ b \in Nat /\ IF x <= n THEN a + b + Taken <= c ELSE c <= a + Taken
      BY <1>2, <2>1
    <3> HIDE DEF a, b
    <3>2. IF x <= n THEN a + b + (Taken + k) <= c + k ELSE c + k <= a + (Taken + k)
      BY <1>2, <3>1
    <3> QED
      BY <3>2 DEF a, b
  <2> QED
    BY <1>1, <2>1, <2>2 DEF Complete
<1> QED
  BY <1>3, <1>4

\* The second magic character.
LEMMA SecondRead ==
  ASSUME TypeOK, NEW S, NEW e, NEW st, NEW c, NEW f, NEW at, NEW n, NEW j,
         History(S, e, st, c, f, at, n, j), Second
  PROVE  History(S, e, st, c + 1, f, at, n, j)'
<1>1. /\ pc = "second" /\ UNCHANGED <<head, received, sent, reports>>
      /\ IF buffer[1] = Magic THEN pc' = "header" /\ UNCHANGED torn
                              ELSE pc' = "idle" /\ torn' = TRUE
  BY DEF Second, deviceVars
<1>2. /\ Buffered(S, c + 1, f)' /\ c + 1 <= e /\ buffer[1] = S[c + 1]
  <2>1. Shift(1)
    BY DEF Second
  <2> QED
    BY <2>1, Consumed
<1>3. c \in Nat /\ e \in Nat /\ c + 1 \in Nat /\ c <= c + 1
  BY DEF History, Buffered, Layout
<1>4. CASE buffer[1] # Magic
  BY <1>1, <1>2, <1>3, <1>4, GivenUp
<1>5. CASE buffer[1] = Magic
  <2>1. pc' = "header" /\ UNCHANGED torn /\ Taken' = Taken + 1
    BY <1>1, <1>5 DEF Taken
  <2>2. Matched(st, c + 1, at)' /\ Complete(st, c + 1, at, n, j)'
    BY <1>1, <2>1, FurtherOn
  <2>3. Layout(S, e, st)' /\ Carry(reports, S, f, e)'
    BY <1>1 DEF History, Layout, Carry, Counted
  <2>4. Within(st, c + 1, j)'
    <3> SUFFICES ASSUME Told
                 PROVE  j \in DOMAIN sent /\ c + 1 = st[j] + 2
      BY <1>1, <2>1 DEF Within, Told, Unmistakable
    <3>1. j \in DOMAIN sent /\ (c = st[j] + 1 \/ (torn /\ c = st[j] + 2))
      BY <1>1 DEF History, Within
    <3>2. st[j] \in Nat
      BY <3>1 DEF History, Layout
    <3>3. CASE c = st[j] + 1
      BY <3>1, <3>2, <3>3
    <3>4. CASE torn /\ c = st[j] + 2
      <4>1. Unmistakable(sent) /\ Layout(S, e, st)
        BY <3>4 DEF Told, History
      <4>2. c + 1 \in 1 .. e /\ S[c + 1] = Magic
        BY <1>2, <1>3, <1>5
      <4>3. PICK k \in DOMAIN sent : c + 1 = st[k] + 1 \/ c + 1 = st[k] + 2
        BY <4>1, <4>2, MagicPlace
      <4>4. /\ st[k] \in Nat
            /\ Len(Wire(sent[j])) \in Nat /\ Len(Wire(sent[j])) >= 8
            /\ Len(Wire(sent[k])) \in Nat /\ Len(Wire(sent[k])) >= 8
            /\ Len(sent) \in Nat /\ DOMAIN sent = 1 .. Len(sent)
        BY <3>1, <4>1, SentShape DEF Layout
      <4>5. /\ j < k => st[j] + Len(Wire(sent[j])) <= st[k]
            /\ k < j => st[k] + Len(Wire(sent[k])) <= st[j]
        BY <3>1, <4>1 DEF Layout
      <4>6. j = k \/ j < k \/ k < j
        <5>1. j \in Int /\ k \in Int
          BY <3>1, <4>4
        <5> QED
          BY <5>1
      <4>7. c = st[j] + 2
        BY <3>4
      <4> DEFINE x == st[j]
                 y == st[k]
                 v == Len(Wire(sent[j]))
                 w == Len(Wire(sent[k]))
      <4>8. /\ x \in Nat /\ y \in Nat /\ v \in Nat /\ v >= 8 /\ w \in Nat /\ w >= 8
            /\ x = y \/ x + v <= y \/ y + w <= x
            /\ c = x + 2 /\ (c + 1 = y + 1 \/ c + 1 = y + 2)
        BY <3>2, <4>3, <4>4, <4>5, <4>6, <4>7
      <4> HIDE DEF x, y, v, w
      <4>9. FALSE
        BY <4>8
      <4> QED
        BY <4>9
    <3> QED
      BY <3>1, <3>3, <3>4
  <2> QED
    BY <1>2, <2>2, <2>3, <2>4 DEF History
<1> QED
  BY <1>4, <1>5

\* Type and length.
LEMMA HeaderDone ==
  ASSUME LittleEndian, TypeOK, NEW S, NEW e, NEW st, NEW c, NEW f, NEW at, NEW n, NEW j,
         History(S, e, st, c, f, at, n, j), Header
  PROVE  History(S, e, st, c + 6, f, at, n, j)'
<1>1. /\ pc = "header" /\ UNCHANGED <<received, sent, reports>>
      /\ head' = [type |-> htons(Join16(buffer)), length |-> htonl(Join32(SubSeq(buffer, 3, 6)))]
      /\ \/ pc' = "idle" /\ torn' = TRUE
         \/ pc' = "body" /\ UNCHANGED torn
  BY DEF Header, deviceVars
<1>2. /\ Buffered(S, c + 6, f)' /\ 6 <= Len(buffer) /\ buffer \in Seq(Bytes)
      /\ \A q \in 1 .. 6 : buffer[q] = S[c + q]
  <2>1. Shift(6) /\ buffer \in Seq(Bytes)
    BY DEF Header, TypeOK
  <2>2. 6 \in Nat
    OBVIOUS
  <2> QED
    BY <2>1, <2>2, Consumed
<1>3. c \in Nat /\ c + 6 \in Nat /\ c <= c + 6
  BY DEF History, Buffered
<1>4. CASE pc' = "idle" /\ torn' = TRUE
  BY <1>1, <1>2, <1>3, <1>4, GivenUp
<1>5. CASE pc' = "body" /\ UNCHANGED torn
  <2>1. Taken' = Taken + 6 /\ 6 \in Nat
    BY <1>1, <1>5 DEF Taken
  <2>2. Matched(st, c + 6, at)' /\ Complete(st, c + 6, at, n, j)'
    BY <1>1, <1>5, <2>1, FurtherOn
  <2>3. Layout(S, e, st)' /\ Carry(reports, S, f, e)'
    BY <1>1 DEF History, Layout, Carry, Counted
  <2>4. Within(st, c + 6, j)'
    <3> SUFFICES ASSUME Told
                 PROVE  /\ j \in DOMAIN sent /\ c + 6 = st[j] + 8
                        /\ head'.type = sent[j].type
                        /\ head'.length = Len(sent[j].body)
      BY <1>1, <1>5 DEF Within, Told, Unmistakable
    <3>1. j \in DOMAIN sent /\ c = st[j] + 2
      BY <1>1 DEF History, Within
    <3> DEFINE w == Wire(sent[j])
    <3>2. /\ st[j] \in Nat /\ sent[j] \in Incoming
          /\ \A q \in 1 .. Len(w) : S[st[j] + q] = w[q]
          /\ Len(w) \in Nat /\ Len(w) >= 8
      BY <3>1, SentShape DEF History, Layout
    <3>3. \A q \in 1 .. 6 : buffer[q] = w[2 + q]
      <4> HIDE DEF w
      <4> SUFFICES ASSUME NEW q \in 1 .. 6 PROVE buffer[q] = w[2 + q]
        OBVIOUS
      <4>1. 2 + q \in 1 .. Len(w) /\ c + q = st[j] + (2 + q)
        BY <3>1, <3>2
      <4>2. buffer[q] = S[c + q] /\ S[st[j] + (2 + q)] = w[2 + q]
        BY <1>2, <3>2, <4>1
      <4> QED
        BY <4>1, <4>2
    <3>4. Len(buffer) >= 6
      BY <1>2, LenProperties
    <3>5. /\ htons(Join16(buffer)) = sent[j].type
          /\ htonl(Join32(SubSeq(buffer, 3, 6))) = Len(sent[j].body)
      BY <1>2, <3>2, <3>3, <3>4, HeaderRead
    <3>6. c + 6 = st[j] + 8
      BY <3>1, <3>2
    <3> QED
      BY <1>1, <3>1, <3>5, <3>6
  <2> QED
    BY <1>2, <2>2, <2>3, <2>4 DEF History
<1> QED
  BY <1>1, <1>4, <1>5

\* The body: the message that is being read is received, if its type is known.
LEMMA BodyDone ==
  ASSUME TypeOK, NEW S, NEW e, NEW st, NEW c, NEW f, NEW at, NEW n, NEW j,
         History(S, e, st, c, f, at, n, j), Body
  PROVE  \E d, to, k : History(S, e, st, d, f, to, k, j)'
<1>0. PICK len, body, m, last :
        /\ len = head.length /\ body = SubSeq(buffer, 1, head.length)
        /\ m = [type |-> head.type, body |-> body] /\ last = Len(received)
  OBVIOUS
<1> DEFINE known == head.type \in KnownTypes
<1>1. /\ pc = "body" /\ pc' = "idle" /\ UNCHANGED <<head, torn, sent, reports>>
      /\ ~known => received' = received
      /\ known => received' = Append(received, m)
  BY <1>0 DEF Body, deviceVars
<1>2. /\ Buffered(S, c + len, f)' /\ len \in Nat /\ c \in Nat
      /\ \A q \in 1 .. len : buffer[q] = S[c + q]
  <2>1. Shift(len) /\ len \in Nat
    BY <1>0 DEF Body, TypeOK
  <2>2. c \in Nat
    BY DEF History, Buffered
  <2> QED
    BY <2>1, <2>2, Consumed
<1>3. Layout(S, e, st)' /\ Carry(reports, S, f, e)' /\ Layout(S, e, st)
  BY <1>1 DEF History, Layout, Carry, Counted
<1>4. /\ Told' = Told /\ Taken = 8 /\ Taken' = 0
      /\ \A x : KnownSent(x)' = KnownSent(x)
  BY <1>1 DEF Told, Unmistakable, Taken, KnownSent
<1>5. Within(st, c + len, j)'
  BY <1>1 DEF Within
<1>6. /\ last \in Nat /\ DOMAIN received = 1 .. last
      /\ known => /\ DOMAIN received' = DOMAIN received \cup {last + 1}
                  /\ \A x \in DOMAIN received : received'[x] = received[x]
                  /\ received'[last + 1] = m
  <2>1. received \in Seq(Message) /\ m \in Message
    BY <1>0, BodyBytes DEF TypeOK, Message
  <2>2. last \in Nat /\ DOMAIN received = 1 .. last
    BY <1>0, <2>1, LenProperties
  <2>3. /\ DOMAIN Append(received, m) = DOMAIN received \cup {last + 1}
        /\ \A x \in DOMAIN received : Append(received, m)[x] = received[x]
        /\ Append(received, m)[last + 1] = m
    BY <1>0, <2>1, AppendAdds
  <2> QED
    BY <1>1, <2>2, <2>3
<1>7. CASE ~Told
  <2>1. Matched(st, c + len, at)' /\ Complete(st, c + len, at, n, j)'
    BY <1>1, <1>4, <1>7 DEF Matched, Complete, Told
  <2>2. History(S, e, st, c + len, f, at, n, j)'
    BY <1>2, <1>3, <1>5, <2>1 DEF History
  <2> QED
    BY <2>2
<1>8. CASE Told
  <2> DEFINE a(x) == st[x]
             b(x) == Len(Wire(sent[x]))
  <2>1. /\ j \in DOMAIN sent /\ c = a(j) + 8
        /\ head.type = sent[j].type /\ len = Len(sent[j].body)
    BY <1>0, <1>1, <1>8 DEF History, Within
  <2>2. /\ Len(sent) \in Nat /\ DOMAIN sent = 1 .. Len(sent)
        /\ \A x \in DOMAIN sent : a(x) \in Nat /\ b(x) \in Nat /\ b(x) >= 8
        /\ \A x, y \in DOMAIN sent : x < y => a(x) + b(x) <= a(y)
        /\ b(j) = 8 + len
    <3>1. Len(sent) \in Nat /\ DOMAIN sent = 1 .. Len(sent)
      BY SentShape
    <3>2. \A x \in DOMAIN sent : a(x) \in Nat
      BY <1>3 DEF Layout
    <3>3. \A x \in DOMAIN sent : b(x) \in Nat /\ b(x) >= 8
      BY SentShape
    <3>4. \A x, y \in DOMAIN sent : x < y => a(x) + b(x) <= a(y)
      BY <1>3 DEF Layout
    <3>5. b(j) = 8 + len
      BY <2>1, SentShape
    <3> QED
      BY <3>1, <3>2, <3>3, <3>4, <3>5
  <2>3. m = sent[j]
    <3>1. /\ sent[j] = [type |-> sent[j].type, body |-> sent[j].body]
          /\ sent[j].body \in Seq(Bytes)
          /\ \A q \in 1 .. len : Wire(sent[j])[8 + q] = sent[j].body[q]
      BY <2>1, SentShape
    <3>2. /\ body \in Seq(Bytes) /\ Len(body) = len
          /\ \A q \in 1 .. len : body[q] = buffer[q]
      BY <1>0, BodyBytes
    <3>3. \A q \in 1 .. b(j) : S[a(j) + q] = Wire(sent[j])[q]
      BY <1>3, <2>1 DEF Layout
    <3>4. \A q \in 1 .. len : body[q] = sent[j].body[q]
      <4> SUFFICES ASSUME NEW q \in 1 .. len PROVE body[q] = sent[j].body[q]
        OBVIOUS
      <4>1. a(j) \in Nat /\ b(j) = 8 + len /\ c = a(j) + 8 /\ len \in Nat
        BY <1>2, <2>1, <2>2
      <4> HIDE DEF a, b
      <4>2. 8 + q \in 1 .. b(j) /\ c + q = a(j) + (8 + q)
        BY <4>1
      <4>3. /\ body[q] = buffer[q] /\ buffer[q] = S[c + q]
            /\ S[a(j) + (8 + q)] = Wire(sent[j])[8 + q]
        BY <1>2, <3>2, <3>3, <4>2
      <4> QED
        BY <3>1, <4>2, <4>3
    <3>5. body = sent[j].body
      <4> QED
        BY <2>1, <3>1, <3>2, <3>4, SeqEqual
    <3> QED
      BY <1>0, <2>1, <3>1, <3>5
  <2>4. /\ at \in [DOMAIN received -> KnownSent(Len(sent))]
        /\ ReadFrom(at)
        /\ \A x \in DOMAIN received : at[x] \in DOMAIN sent /\ a(at[x]) + b(at[x]) + 8 <= c
    <3>1. /\ at \in [DOMAIN received -> KnownSent(Len(sent))]
          /\ ReadFrom(at)
          /\ \A x \in DOMAIN received : a(at[x]) + b(at[x]) + 8 <= c
      BY <1>4, <1>8 DEF History, Matched
    <3> QED
      BY <2>2, <3>1 DEF KnownSent
  <2>5. ~torn => /\ n \in 0 .. Len(sent)
                 /\ at \in Surjection(DOMAIN received, KnownSent(n))
                 /\ \A x \in DOMAIN sent : IF x <= n THEN a(x) + b(x) + 8 <= c
                                                     ELSE c <= a(x) + 8
                 /\ j = n + 1
    BY <1>1, <1>4 DEF History, Complete
  <2> HIDE DEF a, b
  <2>6. c + len = a(j) + b(j)
    <3>1. a(j) \in Nat /\ b(j) = 8 + len /\ c = a(j) + 8 /\ len \in Nat
      BY <1>2, <2>1, <2>2
    <3> QED
      BY <3>1
  <2>7. \A x \in DOMAIN received : at[x] < j /\ a(at[x]) + b(at[x]) <= c + len
    <3> SUFFICES ASSUME NEW x \in DOMAIN received
                 PROVE  at[x] < j /\ a(at[x]) + b(at[x]) <= c + len
      OBVIOUS
    <3> DEFINE y == at[x]
    <3>1. /\ y \in DOMAIN sent /\ a(y) + b(y) + 8 <= c
          /\ a(y) \in Nat /\ b(y) \in Nat /\ b(y) >= 8
          /\ a(j) \in Nat /\ b(j) \in Nat /\ b(j) >= 8
          /\ j < y => a(j) + b(j) <= a(y)
          /\ c = a(j) + 8 /\ y \in Int /\ j \in Int
      BY <2>1, <2>2, <2>4
    <3> HIDE DEF y
    <3>2. y # j /\ ~(j < y)
      BY <3>1
    <3>3. y < j /\ a(y) + b(y) <= c + len
      BY <1>2, <3>1, <3>2
    <3> QED
      BY <3>3 DEF y
  <2>8. \A x \in DOMAIN sent : j < x => c + len <= a(x)
    BY <2>1, <2>2, <2>6
  <2>9. ~torn => \A x \in DOMAIN sent : IF x <= n + 1 THEN a(x) + b(x) + 0 <= c + len
                                                      ELSE c + len <= a(x) + 0
    <3> SUFFICES ASSUME ~torn, NEW x \in DOMAIN sent
                 PROVE  IF x <= n + 1 THEN a(x) + b(x) + 0 <= c + len
                                      ELSE c + len <= a(x) + 0
      OBVIOUS
    <3>1. /\ x \in Int /\ n \in Nat /\ j = n + 1
          /\ a(x) \in Nat /\ b(x) \in Nat
          /\ x <= n => a(x) + b(x) + 8 <= c
      BY <2>2, <2>5
    <3>2. CASE x <= n
      BY <1>2, <3>1, <3>2
    <3>3. CASE x = n + 1
      BY <2>6, <3>1, <3>3
    <3>4. CASE x > n + 1
      BY <2>8, <3>1, <3>4
    <3> QED
      BY <3>1, <3>2, <3>3, <3>4
  <2>10. ~torn => n + 1 \in 0 .. Len(sent)
    BY <2>1, <2>2, <2>5
  <2>11. /\ n \in Nat /\ j = n + 1 /\ ~known => KnownSent(n + 1) = KnownSent(n)
         /\ n \in Nat /\ j = n + 1 /\ known => KnownSent(n + 1) = KnownSent(n) \cup {j}
    <3>1. n \in Nat => 1 .. n + 1 = 1 .. n \cup {n + 1}
      OBVIOUS
    <3> QED
      BY <2>1, <3>1 DEF KnownSent
  <2>12. CASE ~known
    <3>1. received' = received
      BY <1>1, <2>12
    <3>2. Matched(st, c + len, at)'
      <4>1. \A x \in DOMAIN received : a(at[x]) + b(at[x]) + 0 <= c + len
        <5>1. \A x \in DOMAIN received : a(at[x]) \in Nat /\ b(at[x]) \in Nat
          BY <2>2, <2>4
        <5> QED
          BY <2>7, <5>1
      <4> QED
        BY <1>1, <1>4, <2>4, <3>1, <4>1 DEF Matched, ReadFrom, a, b
    <3>3. Complete(st, c + len, at, n + 1, j)'
      <4> SUFFICES ASSUME ~torn PROVE Complete(st, c + len, at, n + 1, j)'
        BY <1>1 DEF Complete
      <4>1. at \in Surjection(DOMAIN received, KnownSent(n + 1))
        BY <2>5, <2>11, <2>12
      <4> QED
        BY <1>1, <1>4, <2>9, <2>10, <3>1, <4>1 DEF Complete, a, b
    <3>4. History(S, e, st, c + len, f, at, n + 1, j)'
      BY <1>2, <1>3, <1>5, <3>2, <3>3 DEF History
    <3> QED
      BY <3>4
  <2>13. CASE known
    <3>1. PICK to : to = [x \in DOMAIN received \cup {last + 1} |-> IF x = last + 1 THEN j ELSE at[x]]
      OBVIOUS
    <3>2. /\ DOMAIN received' = DOMAIN received \cup {last + 1} /\ last + 1 \notin DOMAIN received
          /\ \A x \in DOMAIN received : received'[x] = received[x] /\ to[x] = at[x]
          /\ received'[last + 1] = sent[j] /\ to[last + 1] = j
      BY <1>6, <2>3, <2>13, <3>1
    <3>3. j \in KnownSent(Len(sent))
      BY <2>1, <2>2, <2>13 DEF KnownSent
    <3>4. to \in [DOMAIN received' -> KnownSent(Len(sent))]
      BY <2>4, <3>1, <3>2, <3>3
    <3>5. \A x \in DOMAIN received' : received'[x] = sent[to[x]]
      BY <2>4, <3>2 DEF ReadFrom
    <3>6. \A x, y \in DOMAIN received' : x < y => to[x] < to[y]
      <4> SUFFICES ASSUME NEW x \in DOMAIN received', NEW y \in DOMAIN received', x < y
                   PROVE  to[x] < to[y]
        OBVIOUS
      <4>1. x \in DOMAIN received
        BY <1>6, <3>2
      <4>2. CASE y \in DOMAIN received
        BY <2>4, <3>2, <4>1, <4>2 DEF ReadFrom
      <4>3. CASE y = last + 1
        BY <2>7, <3>2, <4>1, <4>3
      <4> QED
        BY <3>2, <4>2, <4>3
    <3>7. \A x \in DOMAIN received' : a(to[x]) + b(to[x]) + 0 <= c + len
      <4> SUFFICES ASSUME NEW x \in DOMAIN received'
                   PROVE  a(to[x]) + b(to[x]) + 0 <= c + len
        OBVIOUS
      <4>1. CASE x \in DOMAIN received
        <5>1. to[x] = at[x] /\ a(at[x]) \in Nat /\ b(at[x]) \in Nat
          BY <2>2, <2>4, <3>2, <4>1
        <5> QED
          BY <2>7, <4>1, <5>1
      <4>2. CASE x = last + 1
        <5>1. to[x] = j /\ a(j) \in Nat /\ b(j) \in Nat
          BY <2>1, <2>2, <3>2, <4>2
        <5> QED
          BY <2>6, <5>1
      <4> QED
        BY <3>2, <4>1, <4>2
    <3>8. Matched(st, c + len, to)'
      BY <1>1, <1>4, <3>4, <3>5, <3>6, <3>7 DEF Matched, ReadFrom, a, b
    <3>9. Complete(st, c + len, to, n + 1, j)'
      <4> SUFFICES ASSUME ~torn PROVE Complete(st, c + len, to, n + 1, j)'
        BY <1>1 DEF Complete
      <4>1. n \in Nat /\ KnownSent(n + 1) = KnownSent(n) \cup {j}
        BY <2>2, <2>5, <2>11, <2>13
      <4>2. /\ at \in [DOMAIN received -> KnownSent(n)]
            /\ \A t \in KnownSent(n) : \E x \in DOMAIN received : at[x] = t
        BY <2>5 DEF Surjection
      <4>3. to \in [DOMAIN received' -> KnownSent(n + 1)]
        BY <3>1, <3>2, <4>1, <4>2
      <4>4. \A t \in KnownSent(n + 1) : \E x \in DOMAIN received' : to[x] = t
        BY <3>2, <4>1, <4>2
      <4>5. to \in Surjection(DOMAIN received', KnownSent(n + 1))
        BY <4>3, <4>4 DEF Surjection
      <4> QED
        BY <1>1, <1>4, <2>9, <2>10, <4>5 DEF Complete, a, b
    <3>10. History(S, e, st, c + len, f, to, n + 1, j)'
      BY <1>2, <1>3, <1>5, <3>8, <3>9 DEF History
    <3> QED
      BY <3>10
  <2> QED
    BY <2>12, <2>13
<1> QED
  BY <1>7, <1>8
\* The device sends a message: it is ahead of all that has been consumed.
LEMMA MessageComes ==
  ASSUME TypeOK, NEW S, NEW e, NEW st, NEW c, NEW f, NEW at, NEW n, NEW j,
         History(S, e, st, c, f, at, n, j), NEW m \in Incoming, DeviceSends(m)
  PROVE  \E T, d, to, g : History(T, d, to, c, g, at, n, j)'
<1> DEFINE w == Wire(m)
<1>1. /\ sent' = Append(sent, m) /\ UNCHANGED <<pc, buffer, head, received, torn>>
      /\ sent \in Seq(Incoming) /\ reports \in Seq(Chunk)
  BY DEF DeviceSends, readVars, TypeOK
<1>2. w \in Seq(Bytes) /\ w # <<>> /\ Len(w) \in Nat
  <2>1. w \in Seq(Bytes) /\ Len(w) = 8 + Len(m.body) /\ Len(m.body) \in Nat
    BY WireShape DEF Sendable
  <2> HIDE DEF w
  <2> QED
    BY <2>1
<1>3. PICK style \in Styles : reports' = reports \o Reports(w, style)
  BY DEF DeviceSends, Styles
<1> HIDE DEF w
<1>4. /\ Reports(w, style) \in Seq(Chunk)
      /\ \E g, d : /\ d \in Nat /\ Len(w) <= d /\ g[1] = 0
                   /\ Carry(Reports(w, style), Padded(w), g, d)
  BY <1>2, ReportsCarry
<1>5. PICK g, d : /\ d \in Nat /\ Len(w) <= d /\ g[1] = 0
                  /\ Carry(Reports(w, style), Padded(w), g, d)
  BY <1>4
<1>6. PICK old, len : old = Len(reports) /\ len = Len(sent)
  OBVIOUS
<1>7. PICK T, h, to :
        /\ T = Extended(S, e, w)
        /\ h = [k \in Nat |-> IF k <= old + 1 THEN f[k] ELSE e + g[k - old]]
        /\ to = [x \in Nat |-> IF x <= len THEN st[x] ELSE e]
  OBVIOUS
<1>8. Layout(S, e, st) /\ Carry(reports, S, f, e) /\ e \in Nat
  BY DEF History, Layout
<1>9. /\ old \in Nat /\ len \in Nat
      /\ DOMAIN sent = 1 .. len /\ DOMAIN sent' = 1 .. len + 1
      /\ \A x \in 1 .. len : sent'[x] = sent[x]
      /\ sent'[len + 1] = m
  BY <1>1, <1>6, AppendProperties, LenProperties
<1>10. /\ \A x \in 1 .. len : x \in Nat /\ x <= len /\ to[x] = st[x]
       /\ to[len + 1] = e /\ h[1] = f[1]
  BY <1>7, <1>9
<1>11. Carry(reports, T, h, e + d)'
  <2>1. Carry(reports \o Reports(w, style), T, h, e + d)
    BY <1>1, <1>2, <1>4, <1>5, <1>6, <1>7, <1>8, BothCarry
  <2> QED
    BY <1>3, <2>1 DEF Carry, Counted
<1>12. Buffered(T, c, h)'
  <2>1. /\ c \in Nat /\ Len(buffer) \in Nat /\ c + Len(buffer) = f[1]
        /\ c + Len(buffer) <= e /\ \A q \in 1 .. Len(buffer) : buffer[q] = S[c + q]
    BY BufferedShape
  <2>2. \A q \in 1 .. Len(buffer) : c + q \in Nat /\ c + q <= e
    BY <1>8, <2>1
  <2>3. \A q \in 1 .. Len(buffer) : T[c + q] = S[c + q]
    BY <1>7, <2>2 DEF Extended
  <2> QED
    BY <1>1, <1>10, <2>1, <2>3 DEF Buffered
<1>13. \A x \in 1 .. len : st[x] \in Nat /\ Len(Wire(sent[x])) \in Nat /\ st[x] + Len(Wire(sent[x])) <= e
  <2>1. \A x \in 1 .. len : st[x] \in Nat /\ st[x] + Len(Wire(sent[x])) <= e
    BY <1>8, <1>9 DEF Layout
  <2>2. \A x \in 1 .. len : Len(Wire(sent[x])) \in Nat
    BY <1>9, SentShape
  <2> QED
    BY <2>1, <2>2
<1>14. Layout(T, e + d, to)'
  <2> DEFINE v(x) == Wire(sent'[x])
  <2>1. \A x \in 1 .. len : v(x) = Wire(sent[x])
    BY <1>9
  <2>2. v(len + 1) = w
    BY <1>9 DEF w
  <2>3. /\ \A x \in 1 .. len : to[x] \in Nat /\ Len(v(x)) \in Nat /\ to[x] + Len(v(x)) <= e
        /\ to[len + 1] = e /\ e + d \in Nat /\ Len(v(len + 1)) \in Nat
        /\ e + Len(v(len + 1)) <= e + d
    BY <1>2, <1>5, <1>8, <1>10, <1>13, <2>1, <2>2
  <2>4. \A p \in 1 .. e : p \in Nat /\ T[p] = S[p]
    BY <1>7, <1>8 DEF Extended
  <2>5. \A x \in 1 .. len : \A q \in 1 .. Len(v(x)) : T[to[x] + q] = v(x)[q]
    <3> SUFFICES ASSUME NEW x \in 1 .. len, NEW q \in 1 .. Len(v(x))
                 PROVE  T[to[x] + q] = v(x)[q]
      OBVIOUS
    <3>1. S[st[x] + q] = v(x)[q]
      BY <1>8, <1>9, <2>1 DEF Layout
    <3>2. to[x] = st[x] /\ st[x] + q \in 1 .. e
      BY <1>8, <1>10, <2>3
    <3> QED
      BY <2>4, <3>1, <3>2
  <2>6. \A q \in 1 .. Len(w) : T[e + q] = w[q]
    <3> SUFFICES ASSUME NEW q \in 1 .. Len(w) PROVE T[e + q] = w[q]
      OBVIOUS
    <3>1. q \in Nat \ {0} /\ q <= Len(w)
      BY <1>2
    <3> DEFINE p == e + q
    <3>2. p \in Nat /\ ~(p <= e) /\ p - e = q
      BY <1>8, <3>1
    <3> HIDE DEF p
    <3>3. T[p] = Padded(w)[p - e]
      BY <1>7, <3>2 DEF Extended
    <3>4. T[p] = w[q]
      BY <3>1, <3>2, <3>3 DEF Padded
    <3> QED
      BY <3>4 DEF p
  <2>7. \A p \in 1 .. e : T[p] # 0 =>
          \E x \in 1 .. len : to[x] < p /\ p <= to[x] + Len(v(x))
    BY <1>8, <1>9, <1>10, <2>1, <2>4 DEF Layout
  <2>8. \A p \in 1 .. e + d : p > e /\ T[p] # 0 => e < p /\ p <= e + Len(w)
    <3> SUFFICES ASSUME NEW p \in 1 .. e + d, p > e, T[p] # 0
                 PROVE  p <= e + Len(w)
      BY <1>8
    <3>1. p \in Nat /\ ~(p <= e) /\ p - e \in Nat
      BY <1>5, <1>8
    <3>2. T[p] = Padded(w)[p - e]
      BY <1>7, <3>1 DEF Extended
    <3>3. p - e <= Len(w)
      BY <3>1, <3>2 DEF Padded
    <3> QED
      BY <1>2, <1>8, <3>1, <3>3
  <2>9. \A x, y \in 1 .. len : x < y => to[x] + Len(v(x)) <= to[y]
    BY <1>8, <1>9, <1>10, <2>1 DEF Layout
  <2> HIDE DEF v
  <2>10. \A x \in 1 .. len + 1 :
           /\ to[x] \in Nat /\ to[x] + Len(v(x)) <= e + d
           /\ \A q \in 1 .. Len(v(x)) : T[to[x] + q] = v(x)[q]
    <3> SUFFICES ASSUME NEW x \in 1 .. len + 1
                 PROVE  /\ to[x] \in Nat /\ to[x] + Len(v(x)) <= e + d
                        /\ \A q \in 1 .. Len(v(x)) : T[to[x] + q] = v(x)[q]
      OBVIOUS
    <3>1. CASE x = len + 1
      BY <1>8, <2>2, <2>3, <2>6, <3>1
    <3>2. CASE x \in 1 .. len
      <4>1. to[x] \in Nat /\ Len(v(x)) \in Nat /\ to[x] + Len(v(x)) <= e
        BY <2>3, <3>2
      <4>2. to[x] + Len(v(x)) <= e + d
        BY <1>5, <1>8, <4>1
      <4> QED
        BY <2>5, <3>2, <4>1, <4>2
    <3> QED
      BY <1>9, <3>1, <3>2
  <2>11. \A x, y \in 1 .. len + 1 : x < y => to[x] + Len(v(x)) <= to[y]
    <3> SUFFICES ASSUME NEW x \in 1 .. len + 1, NEW y \in 1 .. len + 1, x < y
                 PROVE  to[x] + Len(v(x)) <= to[y]
      OBVIOUS
    <3>1. x \in 1 .. len /\ (y \in 1 .. len \/ y = len + 1)
      BY <1>9
    <3> QED
      BY <2>3, <2>9, <3>1
  <2>12. \A p \in 1 .. e + d : T[p] # 0 =>
           \E x \in 1 .. len + 1 : to[x] < p /\ p <= to[x] + Len(v(x))
    <3> SUFFICES ASSUME NEW p \in 1 .. e + d, T[p] # 0
                 PROVE  \E x \in 1 .. len + 1 : to[x] < p /\ p <= to[x] + Len(v(x))
      OBVIOUS
    <3>1. CASE p \in 1 .. e
      <4>1. PICK x \in 1 .. len : to[x] < p /\ p <= to[x] + Len(v(x))
        BY <2>7, <3>1
      <4>2. x \in 1 .. len + 1
        BY <1>9
      <4> QED
        BY <4>1, <4>2
    <3>2. CASE p > e
      <4>1. e < p /\ p <= e + Len(v(len + 1))
        BY <2>2, <2>8, <3>2
      <4>2. len + 1 \in 1 .. len + 1
        BY <1>9
      <4> QED
        BY <2>3, <4>1, <4>2
    <3> QED
      BY <1>8, <3>1, <3>2
  <2> QED
    BY <1>9, <2>3, <2>10, <2>11, <2>12 DEF Layout, v
<1>15. /\ Told' => Told
       /\ Taken' = Taken
       /\ \A x \in 0 .. len : KnownSent(x)' = KnownSent(x)
       /\ KnownSent(len) \subseteq KnownSent(len + 1)'
       /\ KnownSent(len) \subseteq 1 .. len
  <2>1. Unmistakable(sent') => Unmistakable(sent)
    BY <1>9 DEF Unmistakable
  <2>2. \A x \in 0 .. len : \A y \in 1 .. x : sent'[y] = sent[y]
    BY <1>9
  <2>3. len \in 0 .. len /\ \A y \in 1 .. len : y \in 1 .. len + 1 /\ sent'[y] = sent[y]
    BY <1>9
  <2> QED
    BY <1>1, <2>1, <2>2, <2>3 DEF Told, Taken, KnownSent
<1>16. Len(sent') = len + 1 /\ len \in 0 .. len /\ 0 .. len \subseteq 0 .. len + 1
  BY <1>1, <1>6, <1>9, AppendProperties
<1>17. Within(to, c, j)'
  <2> SUFFICES ASSUME Told, Told', pc \in {"second", "header", "body"} PROVE Within(to, c, j)'
    BY <1>1, <1>15 DEF Within
  <2>1. j \in 1 .. len
    BY <1>9 DEF History, Within
  <2>2. j \in 1 .. len + 1 /\ to[j] = st[j] /\ sent'[j] = sent[j]
    BY <1>9, <1>10, <2>1
  <2> QED
    BY <1>1, <1>9, <2>2 DEF History, Within
<1>18. Matched(to, c, at)'
  <2> SUFFICES ASSUME Told PROVE Matched(to, c, at)'
    BY <1>15 DEF Matched
  <2>1. /\ at \in [DOMAIN received -> KnownSent(len)]
        /\ ReadFrom(at)
        /\ \A k \in DOMAIN received : st[at[k]] + Len(Wire(sent[at[k]])) + Taken <= c
    BY <1>6 DEF History, Matched
  <2>2. \A k \in DOMAIN received :
          at[k] \in KnownSent(len + 1)' /\ to[at[k]] = st[at[k]] /\ sent'[at[k]] = sent[at[k]]
    <3> SUFFICES ASSUME NEW k \in DOMAIN received
                 PROVE  /\ at[k] \in KnownSent(len + 1)'
                        /\ to[at[k]] = st[at[k]] /\ sent'[at[k]] = sent[at[k]]
      OBVIOUS
    <3>1. at[k] \in KnownSent(len) /\ at[k] \in 1 .. len
      BY <1>15, <2>1
    <3> QED
      BY <1>9, <1>10, <1>15, <3>1
  <2>3. at \in [DOMAIN received -> KnownSent(len + 1)']
    BY <2>1, <2>2
  <2> QED
    BY <1>1, <1>15, <1>16, <2>1, <2>2, <2>3 DEF Matched, ReadFrom
<1>19. Complete(to, c, at, n, j)'
  <2> SUFFICES ASSUME ~torn PROVE Complete(to, c, at, n, j)'
    BY <1>1 DEF Complete
  <2>1. /\ n \in 0 .. len
        /\ at \in Surjection(DOMAIN received, KnownSent(n))
        /\ \A k \in 1 .. len : IF k <= n THEN st[k] + Len(Wire(sent[k])) + Taken <= c
                                         ELSE c <= st[k] + Taken
        /\ pc \in {"second", "header", "body"} => j = n + 1
    BY <1>6, <1>9 DEF History, Complete
  <2>2. \A k \in 1 .. len + 1 : IF k <= n THEN to[k] + Len(Wire(sent'[k])) + Taken <= c
                                          ELSE c <= to[k] + Taken
    <3> SUFFICES ASSUME NEW k \in 1 .. len + 1
                 PROVE  IF k <= n THEN to[k] + Len(Wire(sent'[k])) + Taken <= c
                                  ELSE c <= to[k] + Taken
      OBVIOUS
    <3>1. CASE k \in 1 .. len
      BY <1>9, <1>10, <2>1, <3>1
    <3>2. CASE k = len + 1
      <4>1. c \in Nat /\ Len(buffer) \in Nat /\ c + Len(buffer) <= e
        BY BufferedShape
      <4>2. c <= e + Taken
        BY <1>8, <4>1, TakenTyped
      <4>3. ~(k <= n)
        BY <1>9, <2>1, <3>2
      <4> QED
        BY <1>10, <3>2, <4>2, <4>3
    <3> QED
      BY <1>9, <3>1, <3>2
  <2> QED
    BY <1>1, <1>9, <1>15, <1>16, <2>1, <2>2 DEF Complete
<1>20. History(T, e + d, to, c, h, at, n, j)'
  BY <1>11, <1>12, <1>14, <1>17, <1>18, <1>19 DEF History
<1> QED
  BY <1>20
LEMMA BoundedStep ==
  ASSUME LittleEndian, TypeOK, Bounded, [Next]_vars,
         NEW S, NEW e, NEW st, NEW c, NEW f, NEW at, NEW n, NEW j,
         History(S, e, st, c, f, at, n, j)
  PROVE  Bounded'
<1>1. /\ buffer \in Seq(Bytes) /\ Len(buffer) \in Nat
      /\ BufferSize \in Nat /\ ChunkSize \in Nat \ {0} /\ 6 + ChunkSize - 1 <= BufferSize
      /\ head.length \in Nat
  BY HeaderFits, Alphabet, LenProperties DEF TypeOK
<1>2. ASSUME UNCHANGED <<buffer, head>>, pc' = pc PROVE Bounded'
  BY <1>2 DEF Bounded, Overrun
<1>3. ASSUME UNCHANGED buffer, ~Overrun, pc' # "body" PROVE Bounded'
  BY <1>3 DEF Bounded, Overrun
<1>4. ASSUME NEW k \in Nat, Shift(k), ~Overrun, pc' = "body" => head'.length <= BufferSize
      PROVE  Bounded'
  <2>1. Len(buffer') = Len(buffer) - k
    BY <1>1, <1>4, Shifted
  <2> QED
    BY <1>1, <1>4, <2>1 DEF Bounded, Overrun
<1>5. CASE BufferReport
  <2>1. PICK k : k = Counted(Head(reports))
    OBVIOUS
  <2>2. k \in Nat /\ Len(buffer') = Len(buffer) + k /\ k <= ChunkSize
    <3>1. /\ k \in Nat /\ Len(buffer') = Len(buffer) + k
          /\ reports[1] = Head(reports) /\ 1 \in DOMAIN reports
      BY <1>5, <2>1, Buffering DEF TypeOK
    <3>2. \A x \in DOMAIN reports : Counted(reports[x]) <= ChunkSize
      BY DEF History, Carry
    <3> QED
      BY <2>1, <3>1, <3>2
  <2>3. pc \in Reading /\ pc' = pc /\ head' = head /\ Len(buffer) < Needed
    BY <1>5 DEF BufferReport
  <2>4. CASE pc = "body"
    <3>1. Needed = head.length
      BY <2>4 DEF Needed
    <3> QED
      BY <1>1, <2>2, <2>3, <2>4, <3>1 DEF Bounded, Overrun
  <2>5. CASE pc # "body"
    <3>1. Needed \in 1 .. 6
      BY <2>5 DEF Needed
    <3>2. Len(buffer') <= BufferSize
      BY <1>1, <2>2, <2>3, <3>1
    <3> QED
      BY <1>1, <2>2, <2>3, <2>5, <3>2 DEF Bounded, Overrun
  <2> QED
    BY <2>4, <2>5
<1>6. CASE ~Overrun /\ (Align \/ Second)
  <2>1. Shift(1) /\ pc' # "body"
    BY <1>6 DEF Align, Second
  <2> QED
    BY <1>4, <1>6, <2>1
<1>7. CASE ~Overrun /\ Header
  <2>1. /\ Shift(6)
        /\ IF head'.length > BufferSize THEN pc' = "idle" ELSE pc' = "body"
        /\ head' \in [type : Nat, length : Nat]
    BY <1>7, TypeStep DEF Header, TypeOK
  <2>2. pc' = "body" => head'.length <= BufferSize
    BY <1>1, <2>1
  <2> QED
    BY <1>4, <1>7, <2>1, <2>2
<1>8. CASE ~Overrun /\ Body
  <2>1. Shift(head.length) /\ pc' = "idle"
    BY <1>8 DEF Body
  <2> QED
    BY <1>1, <1>4, <1>8, <2>1
<1>9. CASE ~Overrun /\ TimeOut
  BY <1>3, <1>9 DEF TimeOut
<1>10. CASE \/ \E m \in Outgoing : Write(m)
            \/ WriteFails \/ WriteDone
  <2>1. UNCHANGED buffer /\ pc # "body" /\ pc' # "body"
    BY <1>10 DEF Write, WriteFails, WriteDone, readVars
  <2>2. ~Overrun
    BY <2>1 DEF Bounded
  <2> QED
    BY <1>3, <2>1, <2>2
<1>11. CASE \/ WriteChunk \/ \E m \in Incoming : DeviceSends(m)
            \/ UNCHANGED vars
  BY <1>2, <1>11 DEF WriteChunk, DeviceSends, readVars, vars
<1> QED
  BY <1>5, <1>6, <1>7, <1>8, <1>9, <1>10, <1>11 DEF Next

LEMMA ReadStep ==
  ASSUME LittleEndian, ReadInv, [Next]_vars
  PROVE  ReadInv'
<1>1. TypeOK /\ Bounded
  BY DEF ReadInv
<1>2. PICK S, e, st, c, f, at, n, j : History(S, e, st, c, f, at, n, j)
  BY DEF ReadInv
<1>3. TypeOK' /\ Bounded'
  BY <1>1, <1>2, TypeStep, BoundedStep
<1> SUFFICES \E T, d, to, b, g, is, k, i1 : History(T, d, to, b, g, is, k, i1)'
  BY <1>3 DEF ReadInv
<1>4. CASE \/ \E m \in Outgoing : Write(m)
           \/ WriteChunk \/ WriteFails \/ WriteDone
           \/ UNCHANGED vars
  <2>1. /\ UNCHANGED <<buffer, received, torn, sent, reports>>
        /\ UNCHANGED <<pc, head>> \/ {pc, pc'} \subseteq {"idle", "write", "align"}
    BY <1>4 DEF Write, WriteChunk, WriteFails, WriteDone, readVars, deviceVars, vars
  <2>2. History(S, e, st, c, f, at, n, j)'
    BY <1>2, <2>1, NothingRead
  <2> QED
    BY <2>2
<1>5. CASE TimeOut
  <2>1. /\ torn' = TRUE /\ pc' = "idle" /\ UNCHANGED <<received, sent, reports>>
        /\ UNCHANGED buffer
    BY <1>5 DEF TimeOut, deviceVars
  <2>2. c \in Nat /\ c <= c /\ Buffered(S, c, f)'
    BY <1>2, <2>1 DEF History, Buffered
  <2>3. History(S, e, st, c, f, at, n, j)'
    BY <1>1, <1>2, <2>1, <2>2, GivenUp
  <2> QED
    BY <2>3
<1>6. CASE BufferReport
  <2>1. \E g : History(S, e, st, c, g, at, n, j)'
    BY <1>1, <1>2, <1>6, ReportRead
  <2> QED
    BY <2>1
<1>7. CASE Align
  <2>1. \E k : History(S, e, st, c + 1, f, at, n, k)'
    BY <1>1, <1>2, <1>7, Aligned
  <2> QED
    BY <2>1
<1>8. CASE Second
  <2>1. History(S, e, st, c + 1, f, at, n, j)'
    BY <1>1, <1>2, <1>8, SecondRead
  <2> QED
    BY <2>1
<1>9. CASE Header
  <2>1. History(S, e, st, c + 6, f, at, n, j)'
    BY <1>1, <1>2, <1>9, HeaderDone
  <2> QED
    BY <2>1
<1>10. CASE Body
  <2>1. \E d, to, k : History(S, e, st, d, f, to, k, j)'
    BY <1>1, <1>2, <1>10, BodyDone
  <2> QED
    BY <2>1
<1>11. ASSUME NEW m \in Incoming, DeviceSends(m)
       PROVE  \E T, d, to, b, g, is, k, i1 : History(T, d, to, b, g, is, k, i1)'
  <2>1. \E T, d, to, g : History(T, d, to, c, g, at, n, j)'
    BY <1>1, <1>2, <1>11, MessageComes
  <2> QED
    BY <2>1
<1> QED
  BY <1>4, <1>5, <1>6, <1>7, <1>8, <1>9, <1>10, <1>11 DEF Next

\* What the invariant says of the messages that have been received.
LEMMA ReadMeans ==
  ASSUME ReadInv
  PROVE  ReadInOrder /\ NothingMadeUp /\ BufferFits
<1>1. PICK S, e, st, c, f, at, n, j : History(S, e, st, c, f, at, n, j)
  BY DEF ReadInv
<1>2. Matched(st, c, at) /\ Complete(st, c, at, n, j)
  BY <1>1 DEF History
<1>3. ReadInOrder
  <2> SUFFICES ASSUME ~torn
               PROVE  \E x \in 0 .. Len(sent) :
                        \E y \in Surjection(DOMAIN received, KnownSent(x)) : ReadFrom(y)
    BY DEF ReadInOrder
  <2>1. n \in 0 .. Len(sent) /\ at \in Surjection(DOMAIN received, KnownSent(n))
    BY <1>2 DEF Complete
  <2>2. ReadFrom(at)
    BY <1>2 DEF Matched, Told
  <2> QED
    BY <2>1, <2>2
<1>4. NothingMadeUp
  BY <1>2 DEF NothingMadeUp, Matched, Told
<1>5. BufferFits
  <2> SUFFICES ASSUME Overrun PROVE BufferFits
    BY DEF BufferFits
  <2>1. /\ pc = "body" /\ head.length <= BufferSize
        /\ head.length + ChunkSize - 1 > BufferSize
    BY DEF ReadInv, Bounded
  <2>2. head.length \in BufferSize - ChunkSize + 2 .. BufferSize
    <3>1. head.length \in Nat /\ BufferSize \in Nat /\ ChunkSize \in Nat
      BY HeaderFits, Alphabet DEF ReadInv, TypeOK
    <3> QED
      BY <2>1, <3>1
  <2>3. Unmistakable(sent) => j \in DOMAIN sent /\ Len(sent[j].body) = head.length
    BY <1>1, <2>1 DEF History, Within, Told
  <2> QED
    BY <2>2, <2>3 DEF BufferFits
<1> QED
  BY <1>3, <1>4, <1>5

LEMMA ReadInvariant ==
  ASSUME LittleEndian
  PROVE  Spec => []ReadInv
<1>1. Init => ReadInv
  BY ReadInit
<1>2. ReadInv /\ [Next]_vars => ReadInv'
  BY ReadStep
<1> QED
  BY <1>1, <1>2, PTL DEF Spec

\* However the device cuts its messages, and whatever bytes are in them, they
\* are read whole and in order until a read goes wrong (devices.cpp:34-77,
\* 201-236), on a host where htons and htonl swap the bytes.
THEOREM ReadCorrect ==
  ASSUME LittleEndian
  PROVE  Spec => []ReadInOrder
<1>1. ReadInv => ReadInOrder
  BY ReadMeans
<1> QED
  BY <1>1, ReadInvariant, PTL

\* A read that was given up makes no message of the pieces, as long as no body
\* holds what a header begins with: reading aligns itself (devices.cpp:204-208).
THEOREM NothingInvented ==
  ASSUME LittleEndian
  PROVE  Spec => []NothingMadeUp
<1>1. ReadInv => NothingMadeUp
  BY ReadMeans
<1> QED
  BY <1>1, ReadInvariant, PTL

\* _buffer is overrun by nothing but a body of a length that is accepted and
\* leaves no room for the report it ends in (devices.cpp:34-46, 156), and, as
\* long as no body holds what a header begins with, the device has sent one.
THEOREM BufferBounded ==
  ASSUME LittleEndian
  PROVE  Spec => []BufferFits
<1>1. ReadInv => BufferFits
  BY ReadMeans
<1> QED
  BY <1>1, ReadInvariant, PTL
=============================================================================
