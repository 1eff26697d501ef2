--------------------------- MODULE MessagesProofs ---------------------------
(***************************************************************************)
(* Theorems about Messages, for any definitions, maps and widths, and for  *)
(* messages in messages to any depth.                                      *)
(*                                                                         *)
(* What holds of a value of a field is shown kind by kind, and carried     *)
(* over to lists, fields and messages; what holds of messages n deep then  *)
(* holds n + 1 deep, and by induction at every depth.                      *)
(***************************************************************************)
EXTENDS Messages, SequenceFacts, WellFoundedInduction

-----------------------------------------------------------------------------
(* Depth.                                                                  *)

\* Induction on the depth, for a set of depths.
LEMMA DepthInduction ==
  ASSUME NEW S, 0 \in S, \A n \in Nat : n \in S => n + 1 \in S
  PROVE  Nat \subseteq S
<1> DEFINE T == Nat \ S
           R == OpToRel(<, Nat)
<1>1. SUFFICES ASSUME T # {} PROVE FALSE
  OBVIOUS
<1>2. IsWellFoundedOn(R, Nat)
  BY NatLessThanWellFounded
<1>3. PICK x \in T : \A y \in T : ~(<<y, x>> \in R)
  <2> HIDE DEF R
  <2> QED
    BY <1>1, <1>2, WFMin
<1>4. x # 0 /\ x \in Nat /\ x - 1 \in Nat
  OBVIOUS
<1>5. x - 1 \notin S
  BY <1>4
<1>6. <<x - 1, x>> \in R
  BY <1>4 DEF OpToRel
<1> QED
  BY <1>3, <1>4, <1>5, <1>6

\* Every level of maps is what its definition says.
LEMMA MapsLevel ==
  Maps = [n \in 0 .. Depth |-> [Names -> Values(IF n = 0 THEN {} ELSE Maps[n - 1])]]
<1> DEFINE Step(n, g) == [Names -> Values(IF n = 0 THEN {} ELSE g[n - 1])]
           G(k, g) == g = [n \in 0 .. k |-> Step(n, g)]
           S == {k \in Nat : \E g : G(k, g)}
<1>0. \A n, g, h : (n # 0 => g[n - 1] = h[n - 1]) => Step(n, g) = Step(n, h)
  OBVIOUS
<1> HIDE DEF Step
<1>1. 0 \in S
  <2> DEFINE g == [n \in 0 .. 0 |-> Step(0, <<>>)]
  <2>1. Step(0, <<>>) = Step(0, g)
    BY <1>0
  <2>2. G(0, g)
    BY <2>1
  <2> QED
    BY <2>2
<1>2. ASSUME NEW k \in Nat, k \in S PROVE k + 1 \in S
  <2>1. PICK g : G(k, g)
    BY <1>2
  <2> DEFINE h == [n \in 0 .. k + 1 |-> IF n = k + 1 THEN Step(n, g) ELSE g[n]]
  <2>2. \A n \in 0 .. k + 1 : h[n] = Step(n, h)
    <3> TAKE n \in 0 .. k + 1
    <3>1. n # 0 => n - 1 \in 0 .. k + 1 /\ n - 1 # k + 1
      OBVIOUS
    <3>2. Step(n, g) = Step(n, h)
      BY <3>1, <1>0
    <3>3. n # k + 1 => n \in 0 .. k
      OBVIOUS
    <3>4. n # k + 1 => g[n] = Step(n, g)
      BY <3>3, <2>1
    <3> QED
      BY <3>2, <3>4
  <2>3. G(k + 1, h)
    BY <2>2
  <2> HIDE DEF G
  <2> QED
    BY <2>3
<1>3. Depth \in S
  BY <1>1, <1>2, DepthInduction, Nesting
<1>4. PICK g : G(Depth, g)
  BY <1>3
<1> QED
  BY <1>4 DEF Maps, Step

\* So is every level of message_from_map, ...
LEMMA FromMapsLevel ==
  ASSUME NEW defs
  PROVE  FromMaps(defs) = [n \in 0 .. Depth |->
           FromMapsAt(defs, n, IF n = 0 THEN <<>> ELSE FromMaps(defs)[n - 1])]
<1> DEFINE Step(n, g) == FromMapsAt(defs, n, IF n = 0 THEN <<>> ELSE g[n - 1])
           G(k, g) == g = [n \in 0 .. k |-> Step(n, g)]
           S == {k \in Nat : \E g : G(k, g)}
<1>1. \A n, g, h : (n # 0 => g[n - 1] = h[n - 1]) => Step(n, g) = Step(n, h)
  OBVIOUS
<1> HIDE DEF Step
<1>2. 0 \in S
  <2> DEFINE g == [n \in 0 .. 0 |-> Step(0, <<>>)]
  <2>1. G(0, g)
    BY <1>1
  <2> QED
    BY <2>1
<1>3. ASSUME NEW k \in Nat, k \in S PROVE k + 1 \in S
  <2>1. PICK g : G(k, g)
    BY <1>3
  <2> DEFINE h == [n \in 0 .. k + 1 |-> IF n = k + 1 THEN Step(n, g) ELSE g[n]]
  <2>2. \A n \in 0 .. k + 1 : h[n] = Step(n, h)
    <3> TAKE n \in 0 .. k + 1
    <3>1. n # 0 => n - 1 \in 0 .. k + 1 /\ n - 1 # k + 1
      OBVIOUS
    <3>2. Step(n, g) = Step(n, h)
      BY <3>1, <1>1
    <3>3. n # k + 1 => n \in 0 .. k
      OBVIOUS
    <3>4. n # k + 1 => g[n] = Step(n, g)
      BY <3>3, <2>1
    <3> QED
      BY <3>2, <3>4
  <2>3. G(k + 1, h)
    BY <2>2
  <2> HIDE DEF G
  <2> QED
    BY <2>3
<1>4. Depth \in S
  BY <1>2, <1>3, DepthInduction, Nesting
<1>5. PICK g : G(Depth, g)
  BY <1>4
<1> QED
  BY <1>5 DEF FromMaps, Step

\* ... of message_to_map, ...
LEMMA ToMapsLevel ==
  ASSUME NEW defs
  PROVE  ToMaps(defs) = [n \in 0 .. Depth |->
           ToMapsAt(defs, n, IF n = 0 THEN <<>> ELSE ToMaps(defs)[n - 1])]
<1> DEFINE Step(n, g) == ToMapsAt(defs, n, IF n = 0 THEN <<>> ELSE g[n - 1])
           G(k, g) == g = [n \in 0 .. k |-> Step(n, g)]
           S == {k \in Nat : \E g : G(k, g)}
<1>1. \A n, g, h : (n # 0 => g[n - 1] = h[n - 1]) => Step(n, g) = Step(n, h)
  OBVIOUS
<1> HIDE DEF Step
<1>2. 0 \in S
  <2> DEFINE g == [n \in 0 .. 0 |-> Step(0, <<>>)]
  <2>1. G(0, g)
    BY <1>1
  <2> QED
    BY <2>1
<1>3. ASSUME NEW k \in Nat, k \in S PROVE k + 1 \in S
  <2>1. PICK g : G(k, g)
    BY <1>3
  <2> DEFINE h == [n \in 0 .. k + 1 |-> IF n = k + 1 THEN Step(n, g) ELSE g[n]]
  <2>2. \A n \in 0 .. k + 1 : h[n] = Step(n, h)
    <3> TAKE n \in 0 .. k + 1
    <3>1. n # 0 => n - 1 \in 0 .. k + 1 /\ n - 1 # k + 1
      OBVIOUS
    <3>2. Step(n, g) = Step(n, h)
      BY <3>1, <1>1
    <3>3. n # k + 1 => n \in 0 .. k
      OBVIOUS
    <3>4. n # k + 1 => g[n] = Step(n, g)
      BY <3>3, <2>1
    <3> QED
      BY <3>2, <3>4
  <2>3. G(k + 1, h)
    BY <2>2
  <2> HIDE DEF G
  <2> QED
    BY <2>3
<1>4. Depth \in S
  BY <1>2, <1>3, DepthInduction, Nesting
<1>5. PICK g : G(Depth, g)
  BY <1>4
<1> QED
  BY <1>5 DEF ToMaps, Step

\* ... of what messages may hold, ...
LEMMA ContentsLevel ==
  ASSUME NEW defs
  PROVE  Contents(defs) = [n \in 0 .. Depth |->
           ContentsAt(defs, n, IF n = 0 THEN [type \in Types |-> {}] ELSE Contents(defs)[n - 1])]
<1> DEFINE Step(n, g) == ContentsAt(defs, n, IF n = 0 THEN [type \in Types |-> {}] ELSE g[n - 1])
           G(k, g) == g = [n \in 0 .. k |-> Step(n, g)]
           S == {k \in Nat : \E g : G(k, g)}
<1>1. \A n, g, h : (n # 0 => g[n - 1] = h[n - 1]) => Step(n, g) = Step(n, h)
  OBVIOUS
<1> HIDE DEF Step
<1>2. 0 \in S
  <2> DEFINE g == [n \in 0 .. 0 |-> Step(0, <<>>)]
  <2>1. G(0, g)
    BY <1>1
  <2> QED
    BY <2>1
<1>3. ASSUME NEW k \in Nat, k \in S PROVE k + 1 \in S
  <2>1. PICK g : G(k, g)
    BY <1>3
  <2> DEFINE h == [n \in 0 .. k + 1 |-> IF n = k + 1 THEN Step(n, g) ELSE g[n]]
  <2>2. \A n \in 0 .. k + 1 : h[n] = Step(n, h)
    <3> TAKE n \in 0 .. k + 1
    <3>1. n # 0 => n - 1 \in 0 .. k + 1 /\ n - 1 # k + 1
      OBVIOUS
    <3>2. Step(n, g) = Step(n, h)
      BY <3>1, <1>1
    <3>3. n # k + 1 => n \in 0 .. k
      OBVIOUS
    <3>4. n # k + 1 => g[n] = Step(n, g)
      BY <3>3, <2>1
    <3> QED
      BY <3>2, <3>4
  <2>3. G(k + 1, h)
    BY <2>2
  <2> HIDE DEF G
  <2> QED
    BY <2>3
<1>4. Depth \in S
  BY <1>2, <1>3, DepthInduction, Nesting
<1>5. PICK g : G(Depth, g)
  BY <1>4
<1> QED
  BY <1>5 DEF Contents, Step

\* ... and of likeness.
LEMMA AlikeLevel ==
  ASSUME NEW defs
  PROVE  Alike(defs) = [n \in 0 .. Depth |->
           AlikeAt(defs, n, IF n = 0 THEN <<>> ELSE Alike(defs)[n - 1])]
<1> DEFINE Step(n, g) == AlikeAt(defs, n, IF n = 0 THEN <<>> ELSE g[n - 1])
           G(k, g) == g = [n \in 0 .. k |-> Step(n, g)]
           S == {k \in Nat : \E g : G(k, g)}
<1>1. \A n, g, h : (n # 0 => g[n - 1] = h[n - 1]) => Step(n, g) = Step(n, h)
  OBVIOUS
<1> HIDE DEF Step
<1>2. 0 \in S
  <2> DEFINE g == [n \in 0 .. 0 |-> Step(0, <<>>)]
  <2>1. G(0, g)
    BY <1>1
  <2> QED
    BY <2>1
<1>3. ASSUME NEW k \in Nat, k \in S PROVE k + 1 \in S
  <2>1. PICK g : G(k, g)
    BY <1>3
  <2> DEFINE h == [n \in 0 .. k + 1 |-> IF n = k + 1 THEN Step(n, g) ELSE g[n]]
  <2>2. \A n \in 0 .. k + 1 : h[n] = Step(n, h)
    <3> TAKE n \in 0 .. k + 1
    <3>1. n # 0 => n - 1 \in 0 .. k + 1 /\ n - 1 # k + 1
      OBVIOUS
    <3>2. Step(n, g) = Step(n, h)
      BY <3>1, <1>1
    <3>3. n # k + 1 => n \in 0 .. k
      OBVIOUS
    <3>4. n # k + 1 => g[n] = Step(n, g)
      BY <3>3, <2>1
    <3> QED
      BY <3>2, <3>4
  <2>3. G(k + 1, h)
    BY <2>2
  <2> HIDE DEF G
  <2> QED
    BY <2>3
<1>4. Depth \in S
  BY <1>2, <1>3, DepthInduction, Nesting
<1>5. PICK g : G(Depth, g)
  BY <1>4
<1> QED
  BY <1>5 DEF Alike, Step

-----------------------------------------------------------------------------
(* Hexadecimal digits.                                                     *)

\* A digit, in either case, has one value.
LEMMA DigitsDiffer ==
  ASSUME NEW v \in 1 .. 16, NEW w \in 1 .. 16,
         {Upper[v], Lower[v]} \cap {Upper[w], Lower[w]} # {}
  PROVE  v = w
BY DEF Upper, Lower

\* A digit is read as what it stands for.
LEMMA DigitValue ==
  ASSUME NEW c, NEW v \in 1 .. 16, c \in {Upper[v], Lower[v]}
  PROVE  IsDigit(c) /\ DigitOf(c) = v - 1
<1> DEFINE P(w) == w \in 1 .. 16 /\ c \in {Upper[w], Lower[w]}
<1>1. \A w : P(w) => w = v
  BY DigitsDiffer
<1>2. (CHOOSE w \in 1 .. 16 : c \in {Upper[w], Lower[w]}) = v
  BY <1>1
<1> QED
  BY <1>2 DEF IsDigit, DigitOf

\* What is read of a digit is a hexadecimal digit's value.
LEMMA DigitRange ==
  ASSUME NEW c, IsDigit(c)
  PROVE  /\ DigitOf(c) \in 0 .. 15
         /\ c \in {Upper[DigitOf(c) + 1], Lower[DigitOf(c) + 1]}
<1>1. PICK v \in 1 .. 16 : c \in {Upper[v], Lower[v]}
  BY DEF IsDigit
<1>2. DigitOf(c) = v - 1
  BY <1>1, DigitValue
<1> QED
  BY <1>1, <1>2

\* The digits that are written are characters of texts.
LEMMA UpperIsCharacter ==
  ASSUME NEW v \in 1 .. 16
  PROVE  Upper[v] \in Characters
BY Alphabets

\* A byte has two digits, ...
LEMMA ByteDigits ==
  ASSUME NEW b \in 0 .. 255
  PROVE  b \div 16 \in 0 .. 15 /\ b % 16 \in 0 .. 15 /\ 16 * (b \div 16) + (b % 16) = b
OBVIOUS

\* ... and two digits make a byte.
LEMMA DigitsByte ==
  ASSUME NEW h \in 0 .. 15, NEW l \in 0 .. 15
  PROVE  16 * h + l \in 0 .. 255 /\ (16 * h + l) \div 16 = h /\ (16 * h + l) % 16 = l
OBVIOUS

\* A function on 1 .. n is a sequence of n elements.
LEMMA SequenceIs ==
  ASSUME NEW S, NEW n \in Nat, NEW s, s \in [1 .. n -> S]
  PROVE  s \in Seq(S) /\ Len(s) = n /\ DOMAIN s = 1 .. n
BY LenProperties, IsASeq

\* What hex_encode makes of bytes.
LEMMA Encoded ==
  ASSUME NEW bytes \in Seq(0 .. 255)
  PROVE  /\ HexEncode(bytes) \in Seq(Characters)
         /\ Len(bytes) \in Nat
         /\ Len(HexEncode(bytes)) = 2 * Len(bytes)
         /\ \A i \in 1 .. 2 * Len(bytes) : \E v \in 1 .. 16 : HexEncode(bytes)[i] = Upper[v]
         /\ \A i \in 1 .. Len(bytes) :
              /\ HexEncode(bytes)[2 * i - 1] = Upper[(bytes[i] \div 16) + 1]
              /\ HexEncode(bytes)[2 * i] = Upper[(bytes[i] % 16) + 1]
<1> DEFINE n == Len(bytes)
           digit(i) == (IF i % 2 = 1 THEN bytes[(i + 1) \div 2] \div 16 ELSE bytes[(i + 1) \div 2] % 16) + 1
           e == HexEncode(bytes)
<1>1. n \in Nat /\ bytes \in [1 .. n -> 0 .. 255]
  BY LenProperties
<1>2. e = [i \in 1 .. 2 * n |-> Upper[digit(i)]]
  BY DEF HexEncode
<1> HIDE DEF n, e
<1>3. \A i \in 1 .. 2 * n : digit(i) \in 1 .. 16
  <2> TAKE i \in 1 .. 2 * n
  <2>1. (i + 1) \div 2 \in 1 .. n
    BY <1>1
  <2> DEFINE byte == bytes[(i + 1) \div 2]
  <2>2. byte \in 0 .. 255
    BY <1>1, <2>1
  <2>3. digit(i) = (IF i % 2 = 1 THEN byte \div 16 ELSE byte % 16) + 1
    OBVIOUS
  <2> HIDE DEF byte, digit
  <2>4. byte \div 16 \in 0 .. 15 /\ byte % 16 \in 0 .. 15
    BY <2>2, ByteDigits
  <2> QED
    BY <2>3, <2>4
<1>4. \A i \in 1 .. n : /\ 2 * i - 1 \in 1 .. 2 * n /\ 2 * i \in 1 .. 2 * n
                        /\ digit(2 * i - 1) = (bytes[i] \div 16) + 1
                        /\ digit(2 * i) = (bytes[i] % 16) + 1
  <2> TAKE i \in 1 .. n
  <2>1. (2 * i - 1) % 2 = 1 /\ (2 * i) % 2 = 0 /\ ((2 * i - 1) + 1) \div 2 = i /\ (2 * i + 1) \div 2 = i
    BY <1>1
  <2>2. 2 * i - 1 \in 1 .. 2 * n /\ 2 * i \in 1 .. 2 * n
    BY <1>1
  <2> QED
    BY <2>1, <2>2
<1> HIDE DEF digit
<1>5. e \in [1 .. 2 * n -> Characters]
  BY <1>2, <1>3, UpperIsCharacter
<1>6. e \in Seq(Characters) /\ Len(e) = 2 * n
  BY <1>1, <1>5, SequenceIs
<1>7. \A i \in 1 .. n : e[2 * i - 1] = Upper[(bytes[i] \div 16) + 1] /\ e[2 * i] = Upper[(bytes[i] % 16) + 1]
  BY <1>2, <1>4
<1>8. \A i \in 1 .. 2 * n : \E v \in 1 .. 16 : e[i] = Upper[v]
  BY <1>2, <1>3
<1> QED
  BY <1>1, <1>6, <1>7, <1>8 DEF n, e

\* hex_decode gives bytes or throws, ...
LEMMA Decoded ==
  ASSUME NEW text \in Seq(Characters)
  PROVE  \/ HexDecode(text) = Throws
         \/ \E b \in Seq(0 .. 255) :
              /\ HexDecode(text) = <<"bytes", b>>
              /\ Len(text) = 2 * Len(b)
              /\ \A i \in 1 .. Len(text) : IsDigit(text[i])
              /\ \A i \in 1 .. Len(b) : b[i] = 16 * DigitOf(text[2 * i - 1]) + DigitOf(text[2 * i])
<1> DEFINE n == Len(text)
           b == [i \in 1 .. n \div 2 |-> 16 * DigitOf(text[2 * i - 1]) + DigitOf(text[2 * i])]
<1>1. n \in Nat
  BY LenProperties
<1>2. SUFFICES ASSUME n % 2 = 0 /\ \A i \in 1 .. n : IsDigit(text[i])
               PROVE  \E s \in Seq(0 .. 255) :
                        /\ HexDecode(text) = <<"bytes", s>>
                        /\ n = 2 * Len(s)
                        /\ \A i \in 1 .. n : IsDigit(text[i])
                        /\ \A i \in 1 .. Len(s) : s[i] = 16 * DigitOf(text[2 * i - 1]) + DigitOf(text[2 * i])
  BY DEF HexDecode
<1>3. HexDecode(text) = <<"bytes", b>>
  BY <1>2 DEF HexDecode
<1> HIDE DEF n
<1>4. n \div 2 \in Nat /\ n = 2 * (n \div 2)
  BY <1>1, <1>2
<1>5. \A i \in 1 .. n \div 2 : 2 * i - 1 \in 1 .. n /\ 2 * i \in 1 .. n
  BY <1>4
<1>6. \A i \in 1 .. n \div 2 : 16 * DigitOf(text[2 * i - 1]) + DigitOf(text[2 * i]) \in 0 .. 255
  <2> TAKE i \in 1 .. n \div 2
  <2> DEFINE h == DigitOf(text[2 * i - 1])
             l == DigitOf(text[2 * i])
  <2>1. h \in 0 .. 15 /\ l \in 0 .. 15
    BY <1>2, <1>5, DigitRange
  <2> HIDE DEF h, l
  <2>2. 16 * h + l \in 0 .. 255
    BY <2>1
  <2> QED
    BY <2>2 DEF h, l
<1>7. b \in [1 .. n \div 2 -> 0 .. 255]
  BY <1>6
<1>8. \A i \in 1 .. n \div 2 : b[i] = 16 * DigitOf(text[2 * i - 1]) + DigitOf(text[2 * i])
  OBVIOUS
<1> HIDE DEF b
<1>9. b \in Seq(0 .. 255) /\ Len(b) = n \div 2
  <2> DEFINE m == n \div 2
  <2>1. m \in Nat /\ b \in [1 .. m -> 0 .. 255]
    BY <1>4, <1>7
  <2> HIDE DEF m
  <2>2. b \in Seq(0 .. 255) /\ Len(b) = m
    BY <2>1, SequenceIs
  <2> QED
    BY <2>2 DEF m
<1> QED
  BY <1>2, <1>3, <1>4, <1>8, <1>9

\* ... and undoes hex_encode.
LEMMA DecodeEncode ==
  ASSUME NEW bytes \in Seq(0 .. 255)
  PROVE  HexDecode(HexEncode(bytes)) = <<"bytes", bytes>>
<1> DEFINE n == Len(bytes)
           e == HexEncode(bytes)
<1>1. n \in Nat /\ bytes \in [1 .. n -> 0 .. 255]
  BY LenProperties
<1>2. /\ e \in Seq(Characters) /\ Len(e) = 2 * n
      /\ \A i \in 1 .. 2 * n : \E v \in 1 .. 16 : e[i] = Upper[v]
      /\ \A i \in 1 .. n : /\ e[2 * i - 1] = Upper[(bytes[i] \div 16) + 1]
                           /\ e[2 * i] = Upper[(bytes[i] % 16) + 1]
  BY Encoded
<1> HIDE DEF n, e
<1>3. (2 * n) % 2 = 0 /\ (2 * n) \div 2 = n
  BY <1>1
<1>4. \A i \in 1 .. 2 * n : IsDigit(e[i])
  BY <1>2, DigitValue
<1>5. HexDecode(e) = <<"bytes", [i \in 1 .. n |-> 16 * DigitOf(e[2 * i - 1]) + DigitOf(e[2 * i])]>>
  BY <1>2, <1>3, <1>4 DEF HexDecode
<1>6. \A i \in 1 .. n : 16 * DigitOf(e[2 * i - 1]) + DigitOf(e[2 * i]) = bytes[i]
  <2> TAKE i \in 1 .. n
  <2> DEFINE h == bytes[i] \div 16
             l == bytes[i] % 16
  <2>1. bytes[i] \in 0 .. 255
    BY <1>1
  <2>2. h \in 0 .. 15 /\ l \in 0 .. 15 /\ 16 * h + l = bytes[i]
    BY <2>1, ByteDigits
  <2>3. e[2 * i - 1] = Upper[h + 1] /\ e[2 * i] = Upper[l + 1]
    BY <1>2
  <2> HIDE DEF h, l
  <2>4. h + 1 \in 1 .. 16 /\ l + 1 \in 1 .. 16
    BY <2>2
  <2>5. DigitOf(e[2 * i - 1]) = (h + 1) - 1 /\ DigitOf(e[2 * i]) = (l + 1) - 1
    BY <2>3, <2>4, DigitValue
  <2> QED
    BY <2>2, <2>5
<1> QED
  BY <1>1, <1>5, <1>6 DEF n, e

\* What is encoded again has the digits that were decoded, in upper case.
LEMMA EncodeDecode ==
  ASSUME NEW text \in Seq(Characters), NEW b \in Seq(0 .. 255), HexDecode(text) = <<"bytes", b>>
  PROVE  InUpperCase(text, HexEncode(b))
<1> DEFINE n == Len(b)
           e == HexEncode(b)
<1>1. <<"bytes", b>> # Throws
  BY DEF Throws
<1>2. PICK c \in Seq(0 .. 255) :
         /\ HexDecode(text) = <<"bytes", c>>
         /\ Len(text) = 2 * Len(c)
         /\ \A i \in 1 .. Len(text) : IsDigit(text[i])
         /\ \A i \in 1 .. Len(c) : c[i] = 16 * DigitOf(text[2 * i - 1]) + DigitOf(text[2 * i])
  BY <1>1, Decoded
<1>3. c = b
  BY <1>2
<1>4. /\ n \in Nat /\ b \in [1 .. n -> 0 .. 255]
      /\ Len(text) = 2 * n
      /\ \A i \in 1 .. 2 * n : IsDigit(text[i])
      /\ \A i \in 1 .. n : b[i] = 16 * DigitOf(text[2 * i - 1]) + DigitOf(text[2 * i])
  BY <1>2, <1>3, LenProperties
<1>5. /\ Len(e) = 2 * n
      /\ \A i \in 1 .. n : e[2 * i - 1] = Upper[(b[i] \div 16) + 1] /\ e[2 * i] = Upper[(b[i] % 16) + 1]
  BY Encoded
<1> HIDE DEF n, e
<1>6. \A i \in 1 .. 2 * n : e[i] = Upper[DigitOf(text[i]) + 1]
  <2> TAKE i \in 1 .. 2 * n
  <2> DEFINE j == (i + 1) \div 2
  <2>1. j \in 1 .. n /\ (i = 2 * j - 1 \/ i = 2 * j) /\ 2 * j - 1 \in 1 .. 2 * n /\ 2 * j \in 1 .. 2 * n
    BY <1>4
  <2> HIDE DEF j
  <2> DEFINE h == DigitOf(text[2 * j - 1])
             l == DigitOf(text[2 * j])
  <2>2. h \in 0 .. 15 /\ l \in 0 .. 15
    BY <1>4, <2>1, DigitRange
  <2>3. b[j] = 16 * h + l
    BY <1>4, <2>1
  <2>4. e[2 * j - 1] = Upper[(b[j] \div 16) + 1] /\ e[2 * j] = Upper[(b[j] % 16) + 1]
    BY <1>5, <2>1
  <2> HIDE DEF h, l
  <2>5. b[j] \div 16 = h /\ b[j] % 16 = l
    BY <2>2, <2>3, DigitsByte
  <2>6. e[2 * j - 1] = Upper[h + 1] /\ e[2 * j] = Upper[l + 1]
    BY <2>4, <2>5
  <2> QED
    BY <2>1, <2>6 DEF h, l
<1>7. ASSUME NEW i \in 1 .. 2 * n
      PROVE  \E v \in 1 .. 16 : e[i] = Upper[v] /\ text[i] \in {Upper[v], Lower[v]}
  <2> DEFINE digit == text[i]
  <2>1. IsDigit(digit) /\ e[i] = Upper[DigitOf(digit) + 1]
    BY <1>4, <1>6
  <2> HIDE DEF digit
  <2>2. DigitOf(digit) \in 0 .. 15 /\ digit \in {Upper[DigitOf(digit) + 1], Lower[DigitOf(digit) + 1]}
    BY <2>1, DigitRange
  <2>3. DigitOf(digit) + 1 \in 1 .. 16
    BY <2>2
  <2>4. \E v \in 1 .. 16 : e[i] = Upper[v] /\ digit \in {Upper[v], Lower[v]}
    BY <2>1, <2>2, <2>3
  <2> QED
    BY <2>4 DEF digit
<1>8. InUpperCase(text, e)
  BY <1>4, <1>5, <1>7 DEF InUpperCase
<1> QED
  BY <1>8 DEF e

-----------------------------------------------------------------------------
(* Values of a single field.                                               *)

\* Unset and Throws are no values.
LEMMA MarksTagged == Unset[1] = "unset" /\ Throws[1] = "throws"
BY DEF Unset, Throws

\* What is in a pair of a kind of value and what it holds.
LEMMA SinglesCases ==
  ASSUME NEW I, NEW val \in Singles(I)
  PROVE  /\ val = <<val[1], val[2]>>
         /\ val # Unset /\ val # Throws /\ val[1] # "list"
         /\ val[1] = "number" => val[2] \in Int
         /\ val[1] = "bool" => val[2] \in BOOLEAN
         /\ val[1] \in {"text", "string", "enum"} => val[2] \in Seq(Characters)
         /\ val[1] = "bytes" => val[2] \in Seq(0 .. 255)
         /\ val[1] \in {"map", "message"} => val[2] \in I
<1>1. val[1] \notin {"unset", "throws"} => val # Unset /\ val # Throws
  BY MarksTagged
<1>2. CASE val \in {"number"} \X Int
  BY <1>1, <1>2
<1>3. CASE val \in {"bool"} \X BOOLEAN
  BY <1>1, <1>3
<1>4. CASE val \in {"text", "string", "enum"} \X Seq(Characters)
  BY <1>1, <1>4
<1>5. CASE val \in {"bytes"} \X Seq(0 .. 255)
  BY <1>1, <1>5
<1>6. CASE val \in {"other"} \X {0}
  BY <1>1, <1>6
<1>7. CASE val \in {"map", "message"} \X I
  BY <1>1, <1>7
<1> QED
  BY <1>2, <1>3, <1>4, <1>5, <1>6, <1>7 DEF Singles, Simple

\* The ranges of the integer kinds.
LEMMA IntegersHaveRanges ==
  ASSUME NEW kind \in Integer
  PROVE  RangeOf(kind) \subseteq Int
BY Widths DEF RangeOf, Integer

\* What a float has made of a number stays as it is.
LEMMA FloatsStay ==
  ASSUME NEW n \in Int
  PROVE  ToFloat(n) \in {n - 1, n} /\ ToFloat(n) \in Int /\ ToFloat(ToFloat(n)) = ToFloat(n)
<1> DEFINE h == 2 * Half32
<1>1. h \in Nat /\ h % 2 = 0
  BY Widths
<1>2. \A m : ToFloat(m) = IF m \in -h .. h - 1 THEN m ELSE m - (m % 2)
  BY DEF ToFloat
<1> HIDE DEF h
<1>3. n % 2 \in {0, 1} /\ (n - (n % 2)) % 2 = 0
  OBVIOUS
<1> QED
  BY <1>1, <1>2, <1>3

\* What is known of the messages inside, whose maps are the set I: that what
\* comes from a map fits, ...
InnerFits(fd, I, from, holds) ==
  fd.kind = "message" =>
    \A m \in I : \/ from[fd.of][m] = Throws
                 \/ \E c \in holds[fd.of] : from[fd.of][m] = <<"message", c>>

\* ... that the map of a content gives the content again, ...
InnerReturns(fd, I, from, to, holds) ==
  fd.kind = "message" =>
    \A c \in holds[fd.of] :
      \/ to[fd.of][c] = Throws
      \/ \E b \in I : to[fd.of][c] = <<"map", b>> /\ from[fd.of][b] = <<"message", c>>

\* ... and that it is like the map the content came from.
InnerAlike(fd, I, from, to, alike) ==
  fd.kind = "message" =>
    \A m \in I :
      \/ from[fd.of][m] = Throws
      \/ \E c : /\ from[fd.of][m] = <<"message", c>>
               /\ \/ to[fd.of][c] = Throws
                  \/ \E b : to[fd.of][c] = <<"map", b>> /\ alike[fd.of][m][b]

\* The names of an enumeration are texts.
EnumIsTexts(defs, fd) == fd.kind = "enum" => defs[fd.of].of \subseteq Seq(Characters)

\* 32 bits are narrower than 64.
LEMMA NarrowIsWithin ==
  RangeOf("int32") \subseteq RangeOf("int64") /\ RangeOf("uint32") \subseteq RangeOf("uint64")
<1> DEFINE h == Half32
           k == Half64
<1>1. h \in Nat /\ k \in Nat /\ h < k
  BY Widths
<1>2. /\ RangeOf("int32") = -h .. h - 1 /\ RangeOf("int64") = -k .. k - 1
      /\ RangeOf("uint32") = 0 .. 2 * h - 1 /\ RangeOf("uint64") = 0 .. 2 * k - 1
  BY DEF RangeOf
<1> HIDE DEF h, k
<1> QED
  BY <1>1, <1>2

\* What convert_cast returns has the kind that was asked for, and is what it was
\* given if that had it; a list has none.
LEMMA CastCases ==
  ASSUME NEW kind \in Kinds, NEW I, NEW val \in Singles(I),
         NEW cast, cast = Cast(Asked(kind), val), cast # Throws
  PROVE  cast \in Singles(I) /\ cast[1] = Asked(kind)
<1>0. PICK want : want = Asked(kind)
  OBVIOUS
<1>1. CASE val[1] = want
  BY <1>0, <1>1 DEF Cast
<1>2. CASE val[1] # want
  <2>1. /\ want \in DOMAIN Conversions /\ val \in DOMAIN Conversions[want]
        /\ cast = <<want, Conversions[want][val]>>
    BY <1>0, <1>2 DEF Cast
  <2>2. want \in {"number", "bool", "text"}
    BY <2>1, Casts
  <2>3. Conversions[want][val] \in
          CASE want = "number" -> Int [] want = "bool" -> BOOLEAN [] OTHER -> Seq(Characters)
    BY <2>1, Casts
  <2>4. PICK x : x = Conversions[want][val]
    OBVIOUS
  <2>5. /\ want = "number" => x \in Int
        /\ want = "bool" => x \in BOOLEAN
        /\ want = "text" => x \in Seq(Characters)
    BY <2>3, <2>4
  <2>6. cast = <<want, x>>
    BY <2>1, <2>4
  <2>7. cast \in Simple
    BY <2>2, <2>5, <2>6 DEF Simple
  <2> QED
    BY <1>0, <2>6, <2>7 DEF Singles
<1> QED
  BY <1>1, <1>2

LEMMA CastOwn ==
  ASSUME NEW kind, NEW val, val[1] = Asked(kind)
  PROVE  Cast(Asked(kind), val) = val
BY DEF Cast

LEMMA NoCastOfList ==
  ASSUME NEW kind, NEW val, val[1] = "list"
  PROVE  Cast(Asked(kind), val) = Throws
<1>1. Asked(kind) # "list"
  BY DEF Asked, Integer
<1>2. \A want \in DOMAIN Conversions : val \notin DOMAIN Conversions[want]
  BY Casts
<1> QED
  BY <1>1, <1>2 DEF Cast

\* What is asked for, kind by kind, ...
LEMMA AskedCases ==
  ASSUME NEW kind \in Kinds
  PROVE  /\ kind \in Integer \cup {"double", "float"} => Asked(kind) = "number"
         /\ kind = "bool" => Asked(kind) = "bool"
         /\ kind = "message" => Asked(kind) = "map"
         /\ kind \in {"string", "bytes", "enum", "other"} => Asked(kind) = "text"
BY DEF Asked, Integer

\* ... and what is made of it.
LEMMA ParseCases ==
  ASSUME NEW defs, NEW inner, NEW fd, NEW val, NEW cast, cast = Cast(Asked(fd.kind), val),
         NEW out, out = ParseSingle(defs, inner, fd, val)
  PROVE  /\ cast = Throws => out = Throws
         /\ cast # Throws =>
              /\ fd.kind \in Integer => out = IF cast[2] \in RangeOf(fd.kind) THEN cast ELSE Throws
              /\ fd.kind \in {"double", "bool"} => out = cast
              /\ fd.kind = "float" => out = <<"number", ToFloat(cast[2])>>
              /\ fd.kind = "string" => out = <<"string", cast[2]>>
              /\ fd.kind = "bytes" => out = HexDecode(cast[2])
              /\ fd.kind = "enum" =>
                   out = IF cast[2] \in defs[fd.of].of THEN <<"enum", cast[2]>> ELSE Throws
              /\ fd.kind = "message" => out = inner[fd.of][cast[2]]
              /\ fd.kind = "other" => out = Throws
<1>1. cast = Throws => out = Throws
  BY DEF ParseSingle
<1>2. ASSUME cast # Throws, fd.kind \in Integer
      PROVE  out = IF cast[2] \in RangeOf(fd.kind) THEN cast ELSE Throws
  BY <1>2 DEF ParseSingle, Integer
<1>3. ASSUME cast # Throws, fd.kind \notin Integer
      PROVE  /\ fd.kind \in {"double", "bool"} => out = cast
             /\ fd.kind = "float" => out = <<"number", ToFloat(cast[2])>>
             /\ fd.kind = "string" => out = <<"string", cast[2]>>
             /\ fd.kind = "bytes" => out = HexDecode(cast[2])
             /\ fd.kind = "enum" =>
                  out = IF cast[2] \in defs[fd.of].of THEN <<"enum", cast[2]>> ELSE Throws
             /\ fd.kind = "message" => out = inner[fd.of][cast[2]]
             /\ fd.kind = "other" => out = Throws
  BY <1>3 DEF ParseSingle
<1>4. fd.kind \in Integer => fd.kind \notin {"double", "bool", "float", "string", "bytes", "enum",
                                             "message", "other"}
  BY DEF Integer
<1> QED
  BY <1>1, <1>2, <1>3, <1>4

\* An element of a list is parsed as a field is, but for the width.
LEMMA ElementCases ==
  ASSUME NEW defs, NEW inner, NEW fd \in Fields, NEW val, NEW out,
         out = ParseElement(defs, inner, fd, val)
  PROVE  /\ fd.kind \notin {"int64", "uint64"} => out = ParseSingle(defs, inner, fd, val)
         /\ fd.kind \in {"int64", "uint64"} =>
              \/ out = Throws
              \/ out = Cast("number", val) /\ out[2] \in RangeOf(fd.kind)
<1>1. ASSUME fd.kind \notin {"int64", "uint64"} PROVE out = ParseSingle(defs, inner, fd, val)
  <2>1. [fd EXCEPT !.kind = fd.kind] = fd
    BY DEF Fields
  <2>2. out = ParseSingle(defs, inner, [fd EXCEPT !.kind = fd.kind], val)
    BY <1>1 DEF ParseElement
  <2> QED
    BY <2>1, <2>2
<1>2. ASSUME NEW k \in {"int32", "uint32"}, out = ParseSingle(defs, inner, [fd EXCEPT !.kind = k], val)
      PROVE  out = Throws \/ (out = Cast("number", val) /\ out[2] \in RangeOf(k))
  <2>1. PICK narrow : narrow = [fd EXCEPT !.kind = k]
    OBVIOUS
  <2>2. narrow.kind = k /\ k \in Kinds /\ k \in Integer
    BY <2>1 DEF Fields, Kinds, Integer
  <2>3. Asked(k) = "number"
    BY <2>2, AskedCases
  <2>4. PICK cast : cast = Cast("number", val)
    OBVIOUS
  <2>5. out = ParseSingle(defs, inner, narrow, val) /\ cast = Cast(Asked(narrow.kind), val)
    BY <1>2, <2>1, <2>2, <2>3, <2>4
  <2>6. out = Throws \/ out = IF cast[2] \in RangeOf(k) THEN cast ELSE Throws
    BY <2>2, <2>5, ParseCases
  <2> QED
    BY <2>4, <2>6
<1>3. ASSUME fd.kind = "int64"
      PROVE  out = Throws \/ (out = Cast("number", val) /\ out[2] \in RangeOf(fd.kind))
  <2>1. out = ParseSingle(defs, inner, [fd EXCEPT !.kind = "int32"], val)
    BY <1>3 DEF ParseElement
  <2> QED
    BY <1>2, <1>3, <2>1, NarrowIsWithin
<1>4. ASSUME fd.kind = "uint64"
      PROVE  out = Throws \/ (out = Cast("number", val) /\ out[2] \in RangeOf(fd.kind))
  <2>1. out = ParseSingle(defs, inner, [fd EXCEPT !.kind = "uint32"], val)
    BY <1>4 DEF ParseElement
  <2> QED
    BY <1>2, <1>4, <2>1, NarrowIsWithin
<1> QED
  BY <1>1, <1>3, <1>4

\* What is parsed fits the field, if what is parsed of the messages inside does.
LEMMA SingleFits ==
  ASSUME NEW defs, NEW fd \in Fields, NEW I, NEW inner, NEW holds, NEW val \in Singles(I),
         InnerFits(fd, I, inner, holds)
  PROVE  ParseSingle(defs, inner, fd, val) \in {Throws} \cup Holds(defs, holds, fd)
<1>0. SUFFICES ASSUME NEW out, out = ParseSingle(defs, inner, fd, val),
                      NEW set, set = Holds(defs, holds, fd)
               PROVE  out = Throws \/ out \in set
  OBVIOUS
<1>1. fd.kind \in Kinds
  BY DEF Fields
<1> DEFINE cast == Cast(Asked(fd.kind), val)
<1>12. CASE cast = Throws
  BY <1>0, <1>12, ParseCases
<1>13. ASSUME cast # Throws, NEW c, c = cast
       PROVE  out = Throws \/ out \in set
  <2>1. c \in Singles(I) /\ c[1] = Asked(fd.kind)
    BY <1>1, <1>13, CastCases
  <2>2. /\ c = <<c[1], c[2]>>
        /\ c[1] = "number" => c[2] \in Int
        /\ c[1] = "bool" => c[2] \in BOOLEAN
        /\ c[1] = "text" => c[2] \in Seq(Characters)
        /\ c[1] = "map" => c[2] \in I
    BY <2>1, SinglesCases
  <2>3. c # Throws /\ c = Cast(Asked(fd.kind), val)
    BY <1>13
  <2> HIDE DEF cast
  <2>4. CASE fd.kind \in Integer
    <3>1. out = (IF c[2] \in RangeOf(fd.kind) THEN c ELSE Throws) /\ c[1] = "number"
      BY <1>0, <1>1, <2>1, <2>3, <2>4, ParseCases, AskedCases
    <3>2. set = {"number"} \X RangeOf(fd.kind)
      BY <1>1, <2>4, <1>0 DEF Holds, Integer
    <3> QED
      BY <2>2, <3>1, <3>2
  <2>5. CASE fd.kind = "double"
    <3>1. out = c /\ c[1] = "number" /\ set = {"number"} \X Int
      BY <1>0, <1>1, <2>1, <2>3, <2>5, ParseCases, AskedCases DEF Holds, Integer
    <3> QED
      BY <2>2, <3>1
  <2>6. CASE fd.kind = "float"
    <3>1. out = <<"number", ToFloat(c[2])>> /\ c[1] = "number"
      BY <1>0, <1>1, <2>1, <2>3, <2>6, ParseCases, AskedCases
    <3>2. set = {"number"} \X {n \in Int : ToFloat(n) = n}
      BY <1>0, <2>6 DEF Holds, Integer
    <3> QED
      BY <2>2, <3>1, <3>2, FloatsStay
  <2>7. CASE fd.kind = "bool"
    <3>1. out = c /\ c[1] = "bool" /\ set = {"bool"} \X BOOLEAN
      BY <1>0, <1>1, <2>1, <2>3, <2>7, ParseCases, AskedCases DEF Holds, Integer
    <3> QED
      BY <2>2, <3>1
  <2>8. CASE fd.kind = "string"
    <3>1. out = <<"string", c[2]>> /\ c[1] = "text"
      BY <1>0, <1>1, <2>1, <2>3, <2>8, ParseCases, AskedCases
    <3>2. set = {"string"} \X Seq(Characters)
      BY <1>0, <2>8 DEF Holds, Integer
    <3> QED
      BY <2>2, <3>1, <3>2
  <2>9. CASE fd.kind = "bytes"
    <3>1. out = HexDecode(c[2]) /\ c[1] = "text"
      BY <1>0, <1>1, <2>1, <2>3, <2>9, ParseCases, AskedCases
    <3>2. set = {"bytes"} \X Seq(0 .. 255)
      BY <1>0, <2>9 DEF Holds, Integer
    <3>3. \/ HexDecode(c[2]) = Throws
          \/ \E b \in Seq(0 .. 255) : HexDecode(c[2]) = <<"bytes", b>>
      BY <2>2, <3>1, Decoded
    <3> QED
      BY <3>1, <3>2, <3>3
  <2>10. CASE fd.kind = "enum"
    <3>1. out = IF c[2] \in defs[fd.of].of THEN <<"enum", c[2]>> ELSE Throws
      BY <1>0, <2>3, <2>10, ParseCases
    <3>2. set = {"enum"} \X defs[fd.of].of
      BY <1>0, <2>10 DEF Holds, Integer
    <3> QED
      BY <3>1, <3>2
  <2>11. CASE fd.kind = "message"
    <3>1. out = inner[fd.of][c[2]] /\ c[1] = "map"
      BY <1>0, <1>1, <2>1, <2>3, <2>11, ParseCases, AskedCases
    <3>2. set = {"message"} \X holds[fd.of]
      BY <1>0, <2>11 DEF Holds, Integer
    <3> QED
      BY <2>2, <2>11, <3>1, <3>2 DEF InnerFits
  <2>12. CASE fd.kind = "other"
    BY <1>0, <2>3, <2>12, ParseCases
  <2> QED
    BY <1>1, <2>4, <2>5, <2>6, <2>7, <2>8, <2>9, <2>10, <2>11, <2>12 DEF Kinds
<1> QED
  BY <1>12, <1>13

\* What is made of the value of a field is accepted for it, and gives the value again.
LEMMA SingleReturns ==
  ASSUME NEW defs, NEW fd \in Fields, NEW I, NEW from, NEW to, NEW holds,
         NEW val \in Holds(defs, holds, fd),
         EnumIsTexts(defs, fd), InnerReturns(fd, I, from, to, holds)
  PROVE  \/ SerializeSingle(to, fd, val) = Throws
         \/ /\ SerializeSingle(to, fd, val) \in Singles(I)
            /\ ParseSingle(defs, from, fd, SerializeSingle(to, fd, val)) = val
<1>0. SUFFICES ASSUME NEW back, back = SerializeSingle(to, fd, val), back # Throws,
                      NEW again, again = ParseSingle(defs, from, fd, back)
               PROVE  back \in Singles(I) /\ again = val
  OBVIOUS
<1>1. fd.kind \in Kinds
  BY DEF Fields
<1>2. /\ Simple \subseteq Singles(I) /\ \A b \in I : <<"map", b>> \in Singles(I)
      /\ \A n \in Int : <<"number", n>> \in Simple
      /\ \A b \in BOOLEAN : <<"bool", b>> \in Simple
      /\ \A s \in Seq(Characters) : <<"text", s>> \in Simple
  BY DEF Singles, Simple
<1>12. back[1] = Asked(fd.kind) =>
         /\ fd.kind \in Integer => again = IF back[2] \in RangeOf(fd.kind) THEN back ELSE Throws
         /\ fd.kind \in {"double", "bool"} => again = back
         /\ fd.kind = "float" => again = <<"number", ToFloat(back[2])>>
         /\ fd.kind = "string" => again = <<"string", back[2]>>
         /\ fd.kind = "bytes" => again = HexDecode(back[2])
         /\ fd.kind = "enum" =>
              again = IF back[2] \in defs[fd.of].of THEN <<"enum", back[2]>> ELSE Throws
         /\ fd.kind = "message" => again = from[fd.of][back[2]]
  <2> SUFFICES ASSUME NEW cast, cast = Cast(Asked(fd.kind), back), cast = back
               PROVE  /\ fd.kind \in Integer => again = IF cast[2] \in RangeOf(fd.kind) THEN cast ELSE Throws
                      /\ fd.kind \in {"double", "bool"} => again = cast
                      /\ fd.kind = "float" => again = <<"number", ToFloat(cast[2])>>
                      /\ fd.kind = "string" => again = <<"string", cast[2]>>
                      /\ fd.kind = "bytes" => again = HexDecode(cast[2])
                      /\ fd.kind = "enum" =>
                           again = IF cast[2] \in defs[fd.of].of THEN <<"enum", cast[2]>> ELSE Throws
                      /\ fd.kind = "message" => again = from[fd.of][cast[2]]
    BY CastOwn
  <2>1. cast # Throws /\ again = ParseSingle(defs, from, fd, back)
    BY <1>0
  <2>2. ASSUME fd.kind \in Integer
        PROVE  again = IF cast[2] \in RangeOf(fd.kind) THEN cast ELSE Throws
    BY <2>1, <2>2 DEF ParseSingle, Integer
  <2>3. ASSUME fd.kind \notin Integer
        PROVE  /\ fd.kind \in {"double", "bool"} => again = cast
               /\ fd.kind = "float" => again = <<"number", ToFloat(cast[2])>>
               /\ fd.kind = "string" => again = <<"string", cast[2]>>
               /\ fd.kind = "bytes" => again = HexDecode(cast[2])
               /\ fd.kind = "enum" =>
                    again = IF cast[2] \in defs[fd.of].of THEN <<"enum", cast[2]>> ELSE Throws
               /\ fd.kind = "message" => again = from[fd.of][cast[2]]
    BY <2>1, <2>3 DEF ParseSingle
  <2>4. fd.kind \in Integer => fd.kind \notin {"double", "bool", "float", "string", "bytes", "enum",
                                               "message"}
    BY DEF Integer
  <2> QED
    BY <2>2, <2>3, <2>4
<1>3. CASE fd.kind \in Integer
  <2>1. PICK n \in RangeOf(fd.kind) : val = <<"number", n>>
    BY <1>3 DEF Holds, Integer
  <2>2. back = val
    BY <1>3, <1>0 DEF SerializeSingle, Integer
  <2>3. back[1] = "number" => again = (IF back[2] \in RangeOf(fd.kind) THEN back ELSE Throws)
    BY <1>3, <1>12, <1>1, AskedCases
  <2> QED
    BY <1>2, <1>3, <2>1, <2>2, <2>3, IntegersHaveRanges
<1>4. CASE fd.kind = "double"
  <2>1. PICK n \in Int : val = <<"number", n>>
    BY <1>4 DEF Holds, Integer
  <2>2. back = val
    BY <1>4, <1>0 DEF SerializeSingle
  <2>3. back[1] = "number" => again = back
    BY <1>4, <1>12, <1>1, AskedCases
  <2> QED
    BY <1>2, <2>1, <2>2, <2>3
<1>5. CASE fd.kind = "float"
  <2>1. PICK n \in Int : val = <<"number", n>> /\ ToFloat(n) = n
    BY <1>5 DEF Holds, Integer
  <2>2. back = val
    BY <1>5, <1>0 DEF SerializeSingle
  <2>3. back[1] = "number" => again = <<"number", ToFloat(back[2])>>
    BY <1>5, <1>12, <1>1, AskedCases
  <2> QED
    BY <1>2, <2>1, <2>2, <2>3
<1>6. CASE fd.kind = "bool"
  <2>1. PICK b \in BOOLEAN : val = <<"bool", b>>
    BY <1>6 DEF Holds, Integer
  <2>2. back = val
    BY <1>6, <1>0 DEF SerializeSingle
  <2>3. back[1] = "bool" => again = back
    BY <1>6, <1>12, <1>1, AskedCases
  <2> QED
    BY <1>2, <2>1, <2>2, <2>3
<1>7. CASE fd.kind = "string"
  <2>1. PICK s \in Seq(Characters) : val = <<"string", s>>
    BY <1>7 DEF Holds, Integer
  <2>2. back = <<"text", val[2]>>
    BY <1>7, <1>0 DEF SerializeSingle, Integer
  <2>3. back[1] = "text" => again = <<"string", back[2]>>
    BY <1>7, <1>12, <1>1, AskedCases
  <2> QED
    BY <1>2, <2>1, <2>2, <2>3
<1>8. CASE fd.kind = "bytes"
  <2>1. PICK b \in Seq(0 .. 255) : val = <<"bytes", b>>
    BY <1>8 DEF Holds, Integer
  <2>2. back = <<"text", HexEncode(val[2])>>
    BY <1>8, <1>0 DEF SerializeSingle, Integer
  <2>3. back[1] = "text" => again = HexDecode(back[2])
    BY <1>8, <1>12, <1>1, AskedCases
  <2>4. HexEncode(b) \in Seq(Characters) /\ HexDecode(HexEncode(b)) = <<"bytes", b>>
    BY Encoded, DecodeEncode
  <2> QED
    BY <1>2, <2>1, <2>2, <2>3, <2>4
<1>9. CASE fd.kind = "enum"
  <2>1. PICK s \in defs[fd.of].of : val = <<"enum", s>>
    BY <1>9 DEF Holds, Integer
  <2>2. back = <<"text", val[2]>>
    BY <1>9, <1>0 DEF SerializeSingle, Integer
  <2>3. back[1] = "text" => again = (IF back[2] \in defs[fd.of].of THEN <<"enum", back[2]>> ELSE Throws)
    BY <1>9, <1>12, <1>1, AskedCases
  <2> QED
    BY <1>2, <1>9, <2>1, <2>2, <2>3 DEF EnumIsTexts
<1>10. CASE fd.kind = "message"
  <2>1. PICK c \in holds[fd.of] : val = <<"message", c>>
    BY <1>10 DEF Holds, Integer
  <2>2. back = to[fd.of][val[2]]
    BY <1>10, <1>0 DEF SerializeSingle, Integer
  <2>3. back[1] = "map" => again = from[fd.of][back[2]]
    BY <1>10, <1>12, <1>1, AskedCases
  <2>4. back = to[fd.of][c]
    BY <2>1, <2>2
  <2>5. PICK b \in I : back = <<"map", b>> /\ from[fd.of][b] = <<"message", c>>
    BY <1>0, <1>10, <2>4 DEF InnerReturns
  <2> QED
    BY <1>2, <2>1, <2>3, <2>5
<1>11. CASE fd.kind = "other"
  BY <1>11, <1>0 DEF SerializeSingle, Integer
<1> QED
  BY <1>1, <1>3, <1>4, <1>5, <1>6, <1>7, <1>8, <1>9, <1>10, <1>11 DEF Kinds

\* What the page gets for the value of a field is like what it gave.
LEMMA SingleAlike ==
  ASSUME NEW defs, NEW fd \in Fields, NEW I, NEW from, NEW to, NEW alike,
         NEW given \in Singles(I), NEW val, NEW back,
         val = ParseSingle(defs, from, fd, given), val # Throws,
         back = SerializeSingle(to, fd, val), back # Throws,
         InnerAlike(fd, I, from, to, alike)
  PROVE  AlikeSingle(alike, fd, given, back)
<1>1. fd.kind \in Kinds
  BY DEF Fields
<1>10. PICK c : c = Cast(Asked(fd.kind), given)
  OBVIOUS
<1>11. c # Throws /\ c \in Singles(I) /\ c[1] = Asked(fd.kind)
  <2>1. c # Throws
    BY <1>10, ParseCases
  <2> QED
    BY <1>1, <1>10, <2>1, CastCases
<1>2. /\ c = <<c[1], c[2]>>
      /\ c[1] = "number" => c[2] \in Int
      /\ c[1] = "text" => c[2] \in Seq(Characters)
      /\ c[1] = "map" => c[2] \in I
  BY <1>11, SinglesCases
<1>3. CASE fd.kind \in Integer
  <2>1. val = c
    BY <1>3, <1>10, <1>11, ParseCases
  <2>2. back = val
    BY <1>3 DEF SerializeSingle, Integer
  <2> QED
    BY <1>3, <1>10, <2>1, <2>2 DEF AlikeSingle, Integer
<1>4. CASE fd.kind \in {"double", "bool"}
  <2>1. val = c
    BY <1>4, <1>10, <1>11, ParseCases
  <2>2. back = val
    BY <1>4 DEF SerializeSingle
  <2> QED
    BY <1>4, <1>10, <2>1, <2>2 DEF AlikeSingle
<1>5. CASE fd.kind = "float"
  <2>1. c[1] = "number" /\ val = <<"number", ToFloat(c[2])>>
    BY <1>1, <1>5, <1>10, <1>11, ParseCases, AskedCases
  <2>2. back = val
    BY <1>5 DEF SerializeSingle
  <2>3. ToFloat(c[2]) \in {c[2] - 1, c[2]}
    BY <1>2, <2>1, FloatsStay
  <2> QED
    BY <1>5, <1>10, <2>1, <2>2, <2>3 DEF AlikeSingle
<1>6. CASE fd.kind \in {"string", "enum"}
  <2>1. c[1] = "text" /\ val[2] = c[2]
    BY <1>1, <1>6, <1>10, <1>11, ParseCases, AskedCases
  <2>2. back = <<"text", val[2]>>
    BY <1>6 DEF SerializeSingle, Integer
  <2>3. back = c
    BY <1>2, <2>1, <2>2
  <2> QED
    BY <1>6, <1>10, <2>3 DEF AlikeSingle
<1>7. CASE fd.kind = "bytes"
  <2>0. PICK text : c[2] = text
    OBVIOUS
  <2>1. c[1] = "text" /\ text \in Seq(Characters) /\ val = HexDecode(text)
    BY <1>1, <1>2, <1>7, <1>10, <1>11, <2>0, ParseCases, AskedCases
  <2>2. PICK b \in Seq(0 .. 255) : HexDecode(text) = <<"bytes", b>>
    BY <2>1, Decoded
  <2>3. val[2] = b
    BY <2>1, <2>2
  <2>4. back = <<"text", HexEncode(b)>>
    BY <1>7, <2>3 DEF SerializeSingle, Integer
  <2>5. InUpperCase(text, HexEncode(b))
    BY <2>1, <2>2, EncodeDecode
  <2>6. back[1] = "text" /\ back[2] = HexEncode(b)
    BY <2>4
  <2> QED
    BY <1>7, <1>10, <2>0, <2>5, <2>6 DEF AlikeSingle
<1>8. CASE fd.kind = "message"
  <2>1. c[1] = "map" /\ val = from[fd.of][c[2]]
    BY <1>1, <1>8, <1>10, <1>11, ParseCases, AskedCases
  <2>2. PICK m : /\ val = <<"message", m>>
                 /\ \/ to[fd.of][m] = Throws
                    \/ \E b : to[fd.of][m] = <<"map", b>> /\ alike[fd.of][c[2]][b]
    BY <1>2, <1>8, <2>1 DEF InnerAlike
  <2>3. back = to[fd.of][val[2]]
    BY <1>8 DEF SerializeSingle, Integer
  <2>4. back = to[fd.of][m]
    BY <2>2, <2>3
  <2>5. PICK b : back = <<"map", b>> /\ alike[fd.of][c[2]][b]
    BY <2>2, <2>4
  <2> QED
    BY <1>8, <1>10, <2>5 DEF AlikeSingle
<1>9. CASE fd.kind = "other"
  BY <1>9 DEF SerializeSingle, Integer
<1> QED
  BY <1>1, <1>3, <1>4, <1>5, <1>6, <1>7, <1>8, <1>9 DEF Kinds

\* What the field holds may be in a message.
LEMMA HoldsInSingles ==
  ASSUME NEW defs, NEW fd \in Fields, NEW I, NEW holds,
         EnumIsTexts(defs, fd), fd.kind = "message" => holds[fd.of] \subseteq I
  PROVE  Holds(defs, holds, fd) \subseteq Singles(I)
<1>1. fd.kind \in Kinds
  BY DEF Fields
<1>2. /\ {"number"} \X Int \subseteq Singles(I)
      /\ {"bool"} \X BOOLEAN \subseteq Singles(I)
      /\ {"string"} \X Seq(Characters) \subseteq Singles(I)
      /\ {"enum"} \X Seq(Characters) \subseteq Singles(I)
      /\ {"bytes"} \X Seq(0 .. 255) \subseteq Singles(I)
      /\ {"message"} \X I \subseteq Singles(I)
      /\ {"other"} \X {0} \subseteq Singles(I)
  BY DEF Singles, Simple
<1>3. CASE fd.kind \in Integer
  <2>1. Holds(defs, holds, fd) = {"number"} \X RangeOf(fd.kind)
    BY <1>3 DEF Holds, Integer
  <2> QED
    BY <1>2, <1>3, <2>1, IntegersHaveRanges
<1>4. CASE fd.kind = "double"
  BY <1>2, <1>4 DEF Holds, Integer
<1>5. CASE fd.kind = "float"
  BY <1>2, <1>5 DEF Holds, Integer
<1>6. CASE fd.kind = "bool"
  BY <1>2, <1>6 DEF Holds, Integer
<1>7. CASE fd.kind = "string"
  BY <1>2, <1>7 DEF Holds, Integer
<1>8. CASE fd.kind = "bytes"
  BY <1>2, <1>8 DEF Holds, Integer
<1>9. CASE fd.kind = "enum"
  BY <1>2, <1>9 DEF Holds, Integer, EnumIsTexts
<1>10. CASE fd.kind = "message"
  BY <1>2, <1>10 DEF Holds, Integer
<1>11. CASE fd.kind = "other"
  BY <1>2, <1>11 DEF Holds, Integer
<1> QED
  BY <1>1, <1>3, <1>4, <1>5, <1>6, <1>7, <1>8, <1>9, <1>10, <1>11 DEF Kinds

\* So does what is parsed of an element of a list.
LEMMA ElementFits ==
  ASSUME NEW defs, NEW fd \in Fields, NEW I, NEW inner, NEW holds, NEW val \in Singles(I),
         InnerFits(fd, I, inner, holds)
  PROVE  ParseElement(defs, inner, fd, val) \in {Throws} \cup Holds(defs, holds, fd)
<1>1. CASE fd.kind \notin {"int64", "uint64"}
  BY <1>1, ElementCases, SingleFits
<1>2. CASE fd.kind \in {"int64", "uint64"}
  <2>1. Holds(defs, holds, fd) = {"number"} \X RangeOf(fd.kind)
    BY <1>2 DEF Holds, Integer
  <2>2. fd.kind \in Kinds /\ Asked(fd.kind) = "number"
    BY <1>2, AskedCases DEF Fields, Integer
  <2>3. PICK out : out = ParseElement(defs, inner, fd, val)
    OBVIOUS
  <2>4. out = Throws \/ (out = Cast("number", val) /\ out[2] \in RangeOf(fd.kind))
    BY <1>2, <2>3, ElementCases
  <2>5. ASSUME out # Throws PROVE out = <<"number", out[2]>>
    <3>1. out \in Singles(I) /\ out[1] = "number"
      BY <2>2, <2>4, <2>5, CastCases
    <3> QED
      BY <3>1, SinglesCases
  <2> QED
    BY <2>1, <2>3, <2>4, <2>5
<1> QED
  BY <1>1, <1>2

\* A list of as many parts, if none of them throws.
LEMMA EachOutcome ==
  ASSUME NEW parts
  PROVE  \/ Each(parts) = Throws
         \/ /\ Each(parts) = <<"list", parts>>
            /\ \A i \in DOMAIN parts : parts[i] # Throws
BY DEF Each

\* A loop in which nothing throws.
LEMMA EachWithout ==
  ASSUME NEW parts, \A i \in DOMAIN parts : parts[i] # Throws
  PROVE  Each(parts) = <<"list", parts>>
BY DEF Each

\* A list is a list.
LEMMA ListIsNotThrows == \A x : <<"list", x>> # Throws /\ <<"list", x>> # Unset
BY DEF Throws, Unset

\* A function on the indices of a sequence is a sequence.
LEMMA Mapped ==
  ASSUME NEW S, NEW s \in Seq(S), NEW T, NEW t, t = [i \in DOMAIN s |-> t[i]],
         \A i \in DOMAIN s : t[i] \in T
  PROVE  t \in Seq(T) /\ Len(t) = Len(s) /\ DOMAIN t = DOMAIN s
<1>1. DOMAIN s = 1 .. Len(s) /\ Len(s) \in Nat
  BY LenProperties
<1>2. t \in [1 .. Len(s) -> T]
  BY <1>1
<1> QED
  BY <1>1, <1>2, SequenceIs

\* What the values of a field are, single and repeated.
LEMMA ValuesCases ==
  ASSUME NEW I, NEW val \in Values(I)
  PROVE  /\ val # Throws
         /\ val # Unset /\ val[1] # "list" => val \in Singles(I)
         /\ val[1] = "list" => val = <<"list", val[2]>> /\ val[2] \in Seq(Singles(I))
<1>1. CASE val = Unset
  BY <1>1 DEF Unset, Throws
<1>2. CASE val \in Singles(I)
  BY <1>2, SinglesCases
<1>3. CASE val \in {"list"} \X Seq(Singles(I))
  BY <1>3, ListIsNotThrows
<1> QED
  BY <1>1, <1>2, <1>3 DEF Values

\* What comes into a field fits it.
LEMMA FieldFits ==
  ASSUME NEW defs, NEW fd \in Fields, NEW I, NEW inner, NEW holds, NEW val \in Values(I),
         InnerFits(fd, I, inner, holds)
  PROVE  ParseField(defs, inner, fd, val) \in {Throws} \cup HoldsField(defs, holds, fd)
<1>1. CASE val = Unset /\ fd.repeated
  <2>1. ParseField(defs, inner, fd, val) = <<"list", <<>>>>
    BY <1>1 DEF ParseField
  <2>2. <<>> \in Seq(Holds(defs, holds, fd))
    OBVIOUS
  <2> QED
    <3>1. \A l \in Seq(Holds(defs, holds, fd)) : <<"list", l>> \in HoldsField(defs, holds, fd)
      BY <1>1 DEF HoldsField
    <3> QED
      BY <2>1, <2>2, <3>1
<1>2. CASE val = Unset /\ ~fd.repeated
  BY <1>2 DEF ParseField, HoldsField
<1>3. CASE val # Unset /\ ~fd.repeated
  <2>1. CASE val[1] = "list"
    <3>1. ParseField(defs, inner, fd, val) = Throws
      <4>1. ParseField(defs, inner, fd, val) = ParseSingle(defs, inner, fd, val)
        BY <1>3 DEF ParseField
      <4> QED
        BY <2>1, <4>1, NoCastOfList, ParseCases
    <3> QED
      BY <3>1
  <2>2. CASE val[1] # "list"
    <3>1. val \in Singles(I)
      BY <1>3, <2>2, ValuesCases
    <3>2. ParseSingle(defs, inner, fd, val) \in {Throws} \cup Holds(defs, holds, fd)
      BY <3>1, SingleFits
    <3> QED
      BY <1>3, <3>2 DEF ParseField, HoldsField
  <2> QED
    BY <2>1, <2>2
<1>4. CASE val # Unset /\ fd.repeated
  <2>1. ParseField(defs, inner, fd, val) = ParseRepeated(defs, inner, fd, val)
    BY <1>4 DEF ParseField
  <2>2. CASE val[1] # "list"
    BY <2>1, <2>2 DEF ParseRepeated
  <2>3. CASE val[1] = "list"
    <3>1. PICK s \in Seq(Singles(I)) : val[2] = s
      BY <2>3, ValuesCases
    <3> DEFINE parts == [i \in DOMAIN s |-> ParseElement(defs, inner, fd, s[i])]
    <3>2. ParseRepeated(defs, inner, fd, val) = Each(parts)
      BY <2>3, <3>1 DEF ParseRepeated
    <3>3. \A i \in DOMAIN s : s[i] \in Singles(I)
      OBVIOUS
    <3>4. \A i \in DOMAIN s : parts[i] \in {Throws} \cup Holds(defs, holds, fd)
      BY <3>3, ElementFits
    <3>5. DOMAIN parts = DOMAIN s /\ parts = [i \in DOMAIN s |-> parts[i]]
      OBVIOUS
    <3> HIDE DEF parts
    <3>6. CASE Each(parts) = Throws
      BY <2>1, <3>2, <3>6
    <3>7. CASE Each(parts) = <<"list", parts>> /\ \A i \in DOMAIN parts : parts[i] # Throws
      <4>1. parts \in Seq(Holds(defs, holds, fd))
        BY <3>4, <3>5, <3>7, Mapped
      <4> QED
        BY <1>4, <2>1, <3>2, <3>7, <4>1 DEF HoldsField
    <3> QED
      BY <3>6, <3>7, EachOutcome
  <2> QED
    BY <2>2, <2>3
<1> QED
  BY <1>1, <1>2, <1>3, <1>4

\* What a field holds may be in a message.
LEMMA FieldInValues ==
  ASSUME NEW defs, NEW fd \in Fields, NEW I, NEW holds,
         EnumIsTexts(defs, fd), fd.kind = "message" => holds[fd.of] \subseteq I
  PROVE  HoldsField(defs, holds, fd) \subseteq Values(I)
<1>1. Holds(defs, holds, fd) \subseteq Singles(I)
  BY HoldsInSingles
<1>2. Seq(Holds(defs, holds, fd)) \subseteq Seq(Singles(I))
  BY <1>1
<1> QED
  BY <1>1, <1>2 DEF HoldsField, Values

\* What a list gives, if serialize_repeated_field does not throw.
LEMMA RepeatedOutcome ==
  ASSUME NEW to, NEW fd \in Fields, NEW S, NEW s \in Seq(S), NEW val, val = <<"list", s>>,
         NEW back, back = SerializeRepeated(to, fd, val), back # Throws
  PROVE  \E parts :
           /\ parts = [i \in DOMAIN s |-> SerializeSingle(to, fd, s[i])]
           /\ back = <<"list", parts>> /\ \A i \in DOMAIN s : parts[i] # Throws
           /\ fd.kind \notin {"int64", "uint64"}
<1>1. val[2] = s
  OBVIOUS
<1>2. fd.kind \notin {"int64", "uint64"}
  BY DEF SerializeRepeated
<1> DEFINE parts == [i \in DOMAIN s |-> SerializeSingle(to, fd, s[i])]
<1>3. back = Each(parts)
  BY <1>1 DEF SerializeRepeated
<1>4. DOMAIN parts = DOMAIN s
  OBVIOUS
<1>5. back = <<"list", parts>> /\ \A i \in DOMAIN parts : parts[i] # Throws
  <2> HIDE DEF parts
  <2> QED
    BY <1>3, EachOutcome
<1> QED
  BY <1>2, <1>4, <1>5

\* What is made of a field is accepted for it, and gives the same again.
LEMMA FieldReturns ==
  ASSUME NEW defs, NEW fd \in Fields, NEW I, NEW from, NEW to, NEW holds,
         NEW val \in HoldsField(defs, holds, fd),
         EnumIsTexts(defs, fd), InnerReturns(fd, I, from, to, holds),
         fd.kind = "message" => holds[fd.of] \subseteq I,
         NEW back, back = SerializeField(to, fd, val), back # Throws
  PROVE  back \in Values(I) /\ ParseField(defs, from, fd, back) = val
<1>0. Holds(defs, holds, fd) \subseteq Singles(I)
  BY HoldsInSingles
<1>1. CASE ~fd.repeated /\ val = Unset
  BY <1>1 DEF SerializeField, ParseField, Values
<1>2. CASE ~fd.repeated /\ val # Unset
  <2>1. val \in Holds(defs, holds, fd)
    BY <1>2 DEF HoldsField
  <2>2. back = SerializeSingle(to, fd, val)
    BY <1>2 DEF SerializeField
  <2>3. back \in Singles(I) /\ ParseSingle(defs, from, fd, back) = val
    BY <2>1, <2>2, SingleReturns
  <2>4. back # Unset
    BY <2>3, SinglesCases
  <2> QED
    BY <1>2, <2>3, <2>4 DEF ParseField, Values
<1>3. CASE fd.repeated
  <2>1. PICK s \in Seq(Holds(defs, holds, fd)) : val = <<"list", s>>
    BY <1>3 DEF HoldsField
  <2>2. val # Unset
    BY <2>1, ListIsNotThrows
  <2>3. back = SerializeRepeated(to, fd, val)
    BY <1>3, <2>2 DEF SerializeField
  <2>4. PICK parts :
          /\ parts = [i \in DOMAIN s |-> SerializeSingle(to, fd, s[i])]
          /\ back = <<"list", parts>> /\ \A i \in DOMAIN s : parts[i] # Throws
          /\ fd.kind \notin {"int64", "uint64"}
    BY <2>1, <2>3, RepeatedOutcome
  <2>5. ASSUME NEW i \in DOMAIN s
        PROVE  parts[i] \in Singles(I) /\ ParseElement(defs, from, fd, parts[i]) = s[i]
    <3>1. s[i] \in Holds(defs, holds, fd)
      BY <2>5
    <3>2. parts[i] = SerializeSingle(to, fd, s[i]) /\ parts[i] # Throws
      BY <2>4
    <3>3. parts[i] \in Singles(I) /\ ParseSingle(defs, from, fd, parts[i]) = s[i]
      BY <3>1, <3>2, SingleReturns
    <3> QED
      BY <2>4, <3>3, ElementCases
  <2>6. parts \in Seq(Singles(I)) /\ DOMAIN parts = DOMAIN s
    <3>1. parts = [i \in DOMAIN s |-> parts[i]]
      BY <2>4
    <3> QED
      BY <2>5, <3>1, Mapped
  <2>7. back \in Values(I)
    <3>1. \A l \in Seq(Singles(I)) : <<"list", l>> \in Values(I)
      BY DEF Values
    <3> QED
      BY <2>4, <2>6, <3>1
  <2>8. ParseField(defs, from, fd, back) = ParseRepeated(defs, from, fd, back)
    BY <1>3, <2>4, ListIsNotThrows DEF ParseField
  <2> DEFINE again == [i \in DOMAIN parts |-> ParseElement(defs, from, fd, parts[i])]
  <2>9. ParseRepeated(defs, from, fd, back) = Each(again)
    <3>1. back[1] = "list" /\ back[2] = parts
      BY <2>4
    <3> QED
      BY <3>1 DEF ParseRepeated
  <2>10. again = s
    <3>1. again = [i \in DOMAIN s |-> s[i]]
      BY <2>5, <2>6
    <3>2. s = [i \in DOMAIN s |-> s[i]]
      OBVIOUS
    <3> QED
      BY <3>1, <3>2
  <2>11. \A i \in DOMAIN s : s[i] # Throws
    BY <1>0, SinglesCases
  <2> HIDE DEF again
  <2>12. Each(s) = <<"list", s>>
    BY <2>11, EachWithout
  <2> QED
    BY <2>1, <2>7, <2>8, <2>9, <2>10, <2>12
<1> QED
  BY <1>1, <1>2, <1>3

\* What comes back for a field is like what was given.

\* The same, of whatever the elements are.
LEMMA MappedAny ==
  ASSUME NEW S, NEW s \in Seq(S), NEW t, t = [i \in DOMAIN s |-> t[i]]
  PROVE  /\ t \in Seq({t[i] : i \in DOMAIN s})
         /\ Len(t) = Len(s) /\ DOMAIN t = DOMAIN s
<1> DEFINE T == {t[i] : i \in DOMAIN s}
<1>1. \A i \in DOMAIN s : t[i] \in T
  OBVIOUS
<1> HIDE DEF T
<1>2. t \in Seq(T) /\ Len(t) = Len(s) /\ DOMAIN t = DOMAIN s
  BY <1>1, Mapped
<1> QED
  BY <1>2 DEF T

\* What comes back for a field is like what was given.
LEMMA FieldAlike ==
  ASSUME NEW defs, NEW fd \in Fields, NEW I, NEW from, NEW to, NEW holds, NEW alike,
         NEW given \in Values(I), NEW val, NEW back,
         val = ParseField(defs, from, fd, given), val # Throws,
         back = SerializeField(to, fd, val), back # Throws,
         EnumIsTexts(defs, fd), InnerFits(fd, I, from, holds), InnerAlike(fd, I, from, to, alike),
         fd.kind = "message" => holds[fd.of] \subseteq I
  PROVE  AlikeField(alike, fd, given, back)
<1>1. CASE given = Unset /\ ~fd.repeated
  BY <1>1 DEF ParseField, SerializeField, AlikeField
<1>2. CASE given = Unset /\ fd.repeated
  <2>9. <<>> \in Seq({}) /\ DOMAIN <<>> = {} /\ Len(<<>>) = 0
    <3>1. <<>> \in Seq({}) /\ Len(<<>>) = 0
      OBVIOUS
    <3> QED
      BY <3>1
  <2>0. PICK empty, S : empty = <<>> /\ empty \in Seq(S)
    BY <2>9
  <2>1. val = <<"list", empty>>
    BY <1>2, <2>0 DEF ParseField
  <2>7. empty \in Seq(S)
    BY <2>0
  <2>2. val # Unset
    BY <2>1, ListIsNotThrows
  <2>3. back = SerializeRepeated(to, fd, val)
    BY <1>2, <2>2 DEF SerializeField
  <2>4. PICK parts : /\ parts = [i \in DOMAIN empty |-> SerializeSingle(to, fd, empty[i])]
                     /\ back = <<"list", parts>> /\ \A i \in DOMAIN empty : parts[i] # Throws
                     /\ fd.kind \notin {"int64", "uint64"}
    BY <2>1, <2>3, <2>7, RepeatedOutcome
  <2>5. parts = [i \in DOMAIN empty |-> parts[i]]
    BY <2>4
  <2>6. parts = <<>>
    <3>1. parts \in Seq({parts[i] : i \in DOMAIN empty}) /\ Len(parts) = Len(empty)
      BY <2>5, <2>7, MappedAny
    <3>2. Len(parts) = 0
      BY <2>9, <2>0, <3>1
    <3> QED
      BY <3>1, <3>2, EmptySeq
  <2> QED
    BY <1>2, <2>4, <2>6 DEF AlikeField
<1>3. CASE given # Unset /\ ~fd.repeated
  <2>1. val = ParseSingle(defs, from, fd, given)
    BY <1>3 DEF ParseField
  <2>2. given[1] # "list"
    BY <2>1, NoCastOfList, ParseCases
  <2>3. given \in Singles(I)
    BY <1>3, <2>2, ValuesCases
  <2>4. val # Unset
    <3>1. val \in Holds(defs, holds, fd)
      BY <2>1, <2>3, SingleFits
    <3>2. val \in Singles(I)
      BY <3>1, HoldsInSingles
    <3> QED
      BY <3>2, SinglesCases
  <2>5. back = SerializeSingle(to, fd, val)
    BY <1>3, <2>4 DEF SerializeField
  <2> QED
    BY <1>3, <2>1, <2>3, <2>5, SingleAlike DEF AlikeField
<1>4. CASE given # Unset /\ fd.repeated
  <2>1. val = ParseRepeated(defs, from, fd, given)
    BY <1>4 DEF ParseField
  <2>2. given[1] = "list"
    BY <2>1 DEF ParseRepeated
  <2>3. PICK s \in Seq(Singles(I)) : given[2] = s
    BY <2>2, ValuesCases
  <2> DEFINE parsed == [i \in DOMAIN s |-> ParseElement(defs, from, fd, s[i])]
  <2>4. val = Each(parsed)
    BY <2>1, <2>2, <2>3 DEF ParseRepeated
  <2>5. DOMAIN parsed = DOMAIN s /\ \A i \in DOMAIN s : parsed[i] = ParseElement(defs, from, fd, s[i])
    OBVIOUS
  <2>6. parsed = [i \in DOMAIN s |-> parsed[i]]
    OBVIOUS
  <2> HIDE DEF parsed
  <2>7. val = <<"list", parsed>> /\ \A i \in DOMAIN s : parsed[i] # Throws
    BY <2>4, <2>5, EachOutcome
  <2>8. val # Unset
    BY <2>7, ListIsNotThrows
  <2>9. back = SerializeRepeated(to, fd, val)
    BY <1>4, <2>8 DEF SerializeField
  <2>10. parsed \in Seq({parsed[i] : i \in DOMAIN s}) /\ Len(parsed) = Len(s)
    BY <2>6, MappedAny
  <2>11. PICK parts :
          /\ parts = [i \in DOMAIN parsed |-> SerializeSingle(to, fd, parsed[i])]
          /\ back = <<"list", parts>> /\ \A i \in DOMAIN parsed : parts[i] # Throws
          /\ fd.kind \notin {"int64", "uint64"}
    BY <2>7, <2>9, <2>10, RepeatedOutcome
  <2>12. ASSUME NEW i \in DOMAIN s
         PROVE  AlikeSingle(alike, fd, s[i], parts[i])
    <3>1. s[i] \in Singles(I)
      OBVIOUS
    <3>2. parsed[i] = ParseSingle(defs, from, fd, s[i]) /\ parsed[i] # Throws
      BY <2>5, <2>7, <2>11, ElementCases
    <3>3. parts[i] = SerializeSingle(to, fd, parsed[i]) /\ parts[i] # Throws
      BY <2>5, <2>11
    <3> QED
      BY <3>1, <3>2, <3>3, SingleAlike
  <2>13. Len(parts) = Len(s) /\ DOMAIN parts = DOMAIN s
    <3>1. parts = [i \in DOMAIN s |-> parts[i]]
      BY <2>5, <2>11
    <3> QED
      BY <3>1, MappedAny
  <2>14. back[1] = "list" /\ back[2] = parts
    BY <2>11
  <2>15. DOMAIN s = 1 .. Len(s)
    OBVIOUS
  <2> QED
    BY <1>4, <2>3, <2>12, <2>13, <2>14, <2>15 DEF AlikeField
<1> QED
  BY <1>1, <1>2, <1>3, <1>4

-----------------------------------------------------------------------------
(* Messages, one level deep: what holds of the messages inside, whose maps *)
(* are the set I, holds of those around them.                              *)

\* Definitions that protobuf has accepted.
Sound(defs) ==
  /\ DOMAIN defs \subseteq Types
  /\ \A name \in DOMAIN defs : IsDefinition(name, defs[name])
  /\ Resolved(defs)

\* What comes from their maps fits, ...
LevelFits(defs, I, from, holds) ==
  \A t : IsMessage(defs, t) =>
    /\ holds[t] \subseteq I
    /\ \A m \in I : \/ from[t][m] = Throws
                    \/ \E c \in holds[t] : from[t][m] = <<"message", c>>

\* ... the map of a content gives the content again, ...
LevelReturns(defs, I, from, to, holds) ==
  \A t : IsMessage(defs, t) =>
    \A c \in holds[t] :
      \/ to[t][c] = Throws
      \/ \E b \in I : to[t][c] = <<"map", b>> /\ from[t][b] = <<"message", c>>

\* ... and is like the map the content came from.
LevelAlike(defs, I, from, to, alike) ==
  \A t : IsMessage(defs, t) =>
    \A m \in I :
      \/ from[t][m] = Throws
      \/ \E c : /\ from[t][m] = <<"message", c>>
                /\ \/ to[t][c] = Throws
                   \/ \E b : to[t][c] = <<"map", b>> /\ alike[t][m][b]

\* What is known of a field of a message.
LEMMA FieldKnown ==
  ASSUME NEW defs, Sound(defs), NEW t, IsMessage(defs, t)
  PROVE  /\ t \in Types /\ DOMAIN defs[t].of \subseteq Names
         /\ \A f \in DOMAIN defs[t].of :
              /\ defs[t].of[f] \in Fields
              /\ EnumIsTexts(defs, defs[t].of[f])
              /\ defs[t].of[f].kind = "message" => IsMessage(defs, defs[t].of[f].of)
<1>1. t \in DOMAIN defs /\ defs[t].is = "message" /\ t \in Types
  BY DEF Sound, IsMessage
<1>2. IsDefinition(t, defs[t])
  BY <1>1 DEF Sound
<1>3. DOMAIN defs[t].of \subseteq Names /\ \A f \in DOMAIN defs[t].of : defs[t].of[f] \in Fields
  BY <1>1, <1>2 DEF IsDefinition
<1>4. ASSUME NEW f \in DOMAIN defs[t].of
      PROVE  /\ EnumIsTexts(defs, defs[t].of[f])
             /\ defs[t].of[f].kind = "message" => IsMessage(defs, defs[t].of[f].of)
  <2> DEFINE fd == defs[t].of[f]
  <2>1. /\ fd.kind = "message" => IsMessage(defs, fd.of)
        /\ fd.kind = "enum" => IsEnum(defs, fd.of)
    BY <1>1 DEF Sound, Resolved
  <2>2. fd.kind = "enum" => IsDefinition(fd.of, defs[fd.of]) /\ defs[fd.of].is = "enum"
    BY <2>1 DEF Sound, IsEnum
  <2>3. fd.kind = "enum" => defs[fd.of].of \subseteq Seq(Characters)
    BY <2>2 DEF IsDefinition
  <2> QED
    BY <2>1, <2>3 DEF EnumIsTexts
<1> QED
  BY <1>1, <1>3, <1>4

\* What is known of the messages inside holds of those a field refers to.
LEMMA InnerKnown ==
  ASSUME NEW defs, NEW fd, fd.kind = "message" => IsMessage(defs, fd.of),
         NEW I, NEW from, NEW to, NEW holds, NEW alike
  PROVE  /\ LevelFits(defs, I, from, holds) =>
              InnerFits(fd, I, from, holds) /\ (fd.kind = "message" => holds[fd.of] \subseteq I)
         /\ LevelReturns(defs, I, from, to, holds) => InnerReturns(fd, I, from, to, holds)
         /\ LevelAlike(defs, I, from, to, alike) => InnerAlike(fd, I, from, to, alike)
<1>1. LevelFits(defs, I, from, holds) =>
        InnerFits(fd, I, from, holds) /\ (fd.kind = "message" => holds[fd.of] \subseteq I)
  BY DEF LevelFits, InnerFits
<1>2. LevelReturns(defs, I, from, to, holds) => InnerReturns(fd, I, from, to, holds)
  BY DEF LevelReturns, InnerReturns
<1>3. LevelAlike(defs, I, from, to, alike) => InnerAlike(fd, I, from, to, alike)
  BY DEF LevelAlike, InnerAlike
<1> QED
  BY <1>1, <1>2, <1>3

\* What is not set is no exception, and neither are a message and a map.
LEMMA FieldValuesAreNot ==
  ASSUME NEW I
  PROVE  Unset \in Values(I) /\ Unset # Throws /\ \A x : <<"message", x>> # Throws /\ <<"map", x>> # Throws
BY DEF Values, Unset, Throws

\* What comes from a map fits the type.
LEMMA MessageFits ==
  ASSUME NEW defs, Sound(defs), NEW n, NEW I, Maps[n] = [Names -> Values(I)],
         NEW from, NEW holds, LevelFits(defs, I, from, holds)
  PROVE  LevelFits(defs, Maps[n], FromMapsAt(defs, n, from), ContentsAt(defs, n, holds))
<1> SUFFICES ASSUME NEW t, IsMessage(defs, t)
             PROVE  /\ ContentsAt(defs, n, holds)[t] \subseteq Maps[n]
                    /\ \A m \in Maps[n] :
                         \/ FromMapsAt(defs, n, from)[t][m] = Throws
                         \/ \E c \in ContentsAt(defs, n, holds)[t] :
                              FromMapsAt(defs, n, from)[t][m] = <<"message", c>>
  BY DEF LevelFits
<1> DEFINE fields == defs[t].of
           Suits(c) == \A f \in Names :
                         IF f \in DOMAIN fields THEN c[f] \in HoldsField(defs, holds, fields[f])
                         ELSE c[f] = Unset
<1>1. t \in Types /\ DOMAIN fields \subseteq Names
  BY FieldKnown
<1>2. ContentsAt(defs, n, holds)[t] = {c \in Maps[n] : Suits(c)}
  BY <1>1 DEF ContentsAt
<1>3. ASSUME NEW m \in Maps[n], FromMapsAt(defs, n, from)[t][m] # Throws
      PROVE  \E c \in Maps[n] : Suits(c) /\ FromMapsAt(defs, n, from)[t][m] = <<"message", c>>
  <2> DEFINE parts == [f \in Names |-> IF f \in DOMAIN fields
                                        THEN ParseField(defs, from, fields[f], m[f]) ELSE Unset]
  <2>1. FromMapsAt(defs, n, from)[t][m] = ParseFields(defs, from, t, m)
    BY <1>1 DEF FromMapsAt
  <2>2. /\ ParseFields(defs, from, t, m) = <<"message", parts>>
        /\ \A f \in Names : parts[f] # Throws
    BY <1>3, <2>1 DEF ParseFields
  <2>3. ASSUME NEW f \in Names
        PROVE  /\ parts[f] \in Values(I)
               /\ IF f \in DOMAIN fields THEN parts[f] \in HoldsField(defs, holds, fields[f])
                  ELSE parts[f] = Unset
    <3>1. CASE f \in DOMAIN fields
      <4> DEFINE fd == fields[f]
      <4>1. /\ fd \in Fields /\ EnumIsTexts(defs, fd)
            /\ fd.kind = "message" => IsMessage(defs, fd.of)
        BY <3>1, FieldKnown
      <4>2. InnerFits(fd, I, from, holds) /\ (fd.kind = "message" => holds[fd.of] \subseteq I)
        BY <4>1, InnerKnown
      <4>3. m[f] \in Values(I)
        OBVIOUS
      <4>4. parts[f] = ParseField(defs, from, fd, m[f])
        BY <3>1
      <4> HIDE DEF parts, fd
      <4>5. parts[f] \in HoldsField(defs, holds, fd)
        BY <2>2, <4>1, <4>2, <4>3, <4>4, FieldFits
      <4>6. HoldsField(defs, holds, fd) \subseteq Values(I)
        BY <4>1, <4>2, FieldInValues
      <4> QED
        BY <3>1, <4>5, <4>6 DEF fd
    <3>2. CASE f \notin DOMAIN fields
      BY <3>2, FieldValuesAreNot
    <3> QED
      BY <3>1, <3>2
  <2>4. parts \in Maps[n]
    BY <2>3
  <2>5. Suits(parts)
    BY <2>3
  <2> QED
    BY <2>1, <2>2, <2>4, <2>5
<1> QED
  BY <1>2, <1>3

\* The map of a content gives the content again.
LEMMA MessageReturns ==
  ASSUME NEW defs, Sound(defs), NEW n, NEW I, Maps[n] = [Names -> Values(I)],
         NEW from, NEW to, NEW holds,
         LevelFits(defs, I, from, holds), LevelReturns(defs, I, from, to, holds)
  PROVE  LevelReturns(defs, Maps[n], FromMapsAt(defs, n, from), ToMapsAt(defs, n, to),
                      ContentsAt(defs, n, holds))
<1> SUFFICES \A t : IsMessage(defs, t) =>
               \A c \in ContentsAt(defs, n, holds)[t] :
                 \/ ToMapsAt(defs, n, to)[t][c] = Throws
                 \/ \E b \in Maps[n] : /\ ToMapsAt(defs, n, to)[t][c] = <<"map", b>>
                                       /\ FromMapsAt(defs, n, from)[t][b] = <<"message", c>>
  BY DEF LevelReturns
<1> SUFFICES ASSUME NEW t, IsMessage(defs, t), NEW c \in ContentsAt(defs, n, holds)[t],
                    ToMapsAt(defs, n, to)[t][c] # Throws
             PROVE  \E b \in Maps[n] : /\ ToMapsAt(defs, n, to)[t][c] = <<"map", b>>
                                       /\ FromMapsAt(defs, n, from)[t][b] = <<"message", c>>
  OBVIOUS
<1> DEFINE fields == defs[t].of
           back == [f \in Names |-> IF f \in DOMAIN fields
                                    THEN SerializeField(to, fields[f], c[f]) ELSE Unset]
           again == [f \in Names |-> IF f \in DOMAIN fields
                                     THEN ParseField(defs, from, fields[f], back[f]) ELSE Unset]
<1>1. t \in Types /\ DOMAIN fields \subseteq Names
  BY FieldKnown
<1>2. /\ c \in Maps[n]
      /\ \A f \in Names : IF f \in DOMAIN fields THEN c[f] \in HoldsField(defs, holds, fields[f])
                          ELSE c[f] = Unset
  BY <1>1 DEF ContentsAt
<1>3. ToMapsAt(defs, n, to)[t][c] = SerializeFields(defs, to, t, c)
  BY <1>1, <1>2 DEF ToMapsAt
<1>4. /\ SerializeFields(defs, to, t, c) = <<"map", back>>
      /\ \A f \in Names : back[f] # Throws
  BY <1>3 DEF SerializeFields
<1>5. ASSUME NEW f \in Names
      PROVE  back[f] \in Values(I) /\ again[f] = c[f] /\ c[f] # Throws
  <2>1. CASE f \in DOMAIN fields
    <3> DEFINE fd == fields[f]
    <3>1. /\ fd \in Fields /\ EnumIsTexts(defs, fd)
          /\ fd.kind = "message" => IsMessage(defs, fd.of)
      BY <2>1, FieldKnown
    <3>2. /\ InnerFits(fd, I, from, holds) /\ (fd.kind = "message" => holds[fd.of] \subseteq I)
          /\ InnerReturns(fd, I, from, to, holds)
      BY <3>1, InnerKnown
    <3>3. c[f] \in HoldsField(defs, holds, fd)
      BY <1>2, <2>1
    <3>4. back[f] = SerializeField(to, fd, c[f]) /\ back[f] # Throws
      BY <1>4, <2>1
    <3>5. again[f] = ParseField(defs, from, fd, back[f])
      BY <2>1
    <3> HIDE DEF fd, back, again
    <3>6. back[f] \in Values(I) /\ ParseField(defs, from, fd, back[f]) = c[f]
      BY <3>1, <3>2, <3>3, <3>4, FieldReturns
    <3>7. c[f] # Throws
      BY <3>1, <3>2, <3>3, FieldInValues, ValuesCases
    <3> QED
      BY <3>5, <3>6, <3>7
  <2>2. CASE f \notin DOMAIN fields
    <3>1. c[f] = Unset
      BY <1>2, <2>2
    <3>2. back[f] = Unset /\ again[f] = Unset
      BY <2>2
    <3> QED
      BY <3>1, <3>2, FieldValuesAreNot
  <2> QED
    BY <2>1, <2>2
<1>6. back \in Maps[n]
  BY <1>5
<1>7. FromMapsAt(defs, n, from)[t][back] = ParseFields(defs, from, t, back)
  BY <1>1, <1>6 DEF FromMapsAt
<1>8. again = c
  <2>1. c = [f \in Names |-> c[f]]
    BY <1>2
  <2> QED
    BY <1>5, <2>1
<1>9. ParseFields(defs, from, t, back) = <<"message", again>>
  BY <1>5 DEF ParseFields
<1> QED
  BY <1>3, <1>4, <1>6, <1>7, <1>8, <1>9

\* And it is like the map the content came from.
LEMMA MessageAlike ==
  ASSUME NEW defs, Sound(defs), NEW n, NEW I, Maps[n] = [Names -> Values(I)],
         NEW from, NEW to, NEW holds, NEW alike,
         LevelFits(defs, I, from, holds), LevelReturns(defs, I, from, to, holds),
         LevelAlike(defs, I, from, to, alike)
  PROVE  LevelAlike(defs, Maps[n], FromMapsAt(defs, n, from), ToMapsAt(defs, n, to),
                    AlikeAt(defs, n, alike))
<1> SUFFICES ASSUME NEW t, IsMessage(defs, t), NEW m \in Maps[n],
                    FromMapsAt(defs, n, from)[t][m] # Throws
             PROVE  \E c : /\ FromMapsAt(defs, n, from)[t][m] = <<"message", c>>
                           /\ \/ ToMapsAt(defs, n, to)[t][c] = Throws
                              \/ \E b : /\ ToMapsAt(defs, n, to)[t][c] = <<"map", b>>
                                        /\ AlikeAt(defs, n, alike)[t][m][b]
  BY DEF LevelAlike
<1> DEFINE fields == defs[t].of
           parts == [f \in Names |-> IF f \in DOMAIN fields
                                     THEN ParseField(defs, from, fields[f], m[f]) ELSE Unset]
           back == [f \in Names |-> IF f \in DOMAIN fields
                                    THEN SerializeField(to, fields[f], parts[f]) ELSE Unset]
<1>1. t \in Types /\ DOMAIN fields \subseteq Names
  BY FieldKnown
<1>2. FromMapsAt(defs, n, from)[t][m] = ParseFields(defs, from, t, m)
  BY <1>1 DEF FromMapsAt
<1>3. /\ ParseFields(defs, from, t, m) = <<"message", parts>>
      /\ \A f \in Names : parts[f] # Throws
  BY <1>2 DEF ParseFields
<1>4. \E c \in ContentsAt(defs, n, holds)[t] : FromMapsAt(defs, n, from)[t][m] = <<"message", c>>
  <2>1. LevelFits(defs, Maps[n], FromMapsAt(defs, n, from), ContentsAt(defs, n, holds))
    BY MessageFits
  <2> QED
    BY <2>1 DEF LevelFits
<1>5. parts \in ContentsAt(defs, n, holds)[t]
  <2> HIDE DEF parts
  <2> QED
    BY <1>2, <1>3, <1>4
<1>6. parts \in Maps[n]
  <2> HIDE DEF parts
  <2> QED
    BY <1>1, <1>5 DEF ContentsAt
<1>7. SUFFICES ASSUME ToMapsAt(defs, n, to)[t][parts] # Throws
               PROVE  \E b : /\ ToMapsAt(defs, n, to)[t][parts] = <<"map", b>>
                             /\ AlikeAt(defs, n, alike)[t][m][b]
  BY <1>2, <1>3
<1>8. \E b \in Maps[n] : ToMapsAt(defs, n, to)[t][parts] = <<"map", b>>
  <2> HIDE DEF parts
  <2>1. LevelReturns(defs, Maps[n], FromMapsAt(defs, n, from), ToMapsAt(defs, n, to),
                     ContentsAt(defs, n, holds))
    BY MessageReturns
  <2> QED
    BY <1>5, <1>7, <2>1 DEF LevelReturns
<1>9. ToMapsAt(defs, n, to)[t][parts] = SerializeFields(defs, to, t, parts)
  <2> HIDE DEF parts
  <2> QED
    BY <1>1, <1>6 DEF ToMapsAt
<1>10. /\ SerializeFields(defs, to, t, parts) = <<"map", back>>
       /\ \A f \in Names : back[f] # Throws
  <2> HIDE DEF parts
  <2> QED
    BY <1>7, <1>9 DEF SerializeFields
<1>11. back \in Maps[n]
  <2> HIDE DEF back
  <2> QED
    BY <1>8, <1>9, <1>10
<1>12. ASSUME NEW f \in Names
       PROVE  IF f \in DOMAIN fields THEN AlikeField(alike, fields[f], m[f], back[f])
              ELSE back[f] = Unset
  <2>1. CASE f \in DOMAIN fields
    <3> DEFINE fd == fields[f]
    <3>1. /\ fd \in Fields /\ EnumIsTexts(defs, fd)
          /\ fd.kind = "message" => IsMessage(defs, fd.of)
      BY <2>1, FieldKnown
    <3>2. /\ InnerFits(fd, I, from, holds) /\ (fd.kind = "message" => holds[fd.of] \subseteq I)
          /\ InnerAlike(fd, I, from, to, alike)
      BY <3>1, InnerKnown
    <3>3. m[f] \in Values(I)
      OBVIOUS
    <3>4. parts[f] = ParseField(defs, from, fd, m[f]) /\ parts[f] # Throws
      BY <1>3, <2>1
    <3>5. back[f] = SerializeField(to, fd, parts[f]) /\ back[f] # Throws
      BY <1>10, <2>1
    <3> HIDE DEF fd, back, parts
    <3>6. AlikeField(alike, fd, m[f], back[f])
      BY <3>1, <3>2, <3>3, <3>4, <3>5, FieldAlike
    <3> QED
      BY <2>1, <3>6 DEF fd
  <2>2. CASE f \notin DOMAIN fields
    BY <2>2
  <2> QED
    BY <2>1, <2>2
<1>13. AlikeAt(defs, n, alike)[t][m][back]
  <2> HIDE DEF back, parts
  <2>1. AlikeAt(defs, n, alike)[t][m][back] =
          \A f \in Names : IF f \in DOMAIN fields
                           THEN AlikeField(alike, fields[f], m[f], back[f])
                           ELSE back[f] = Unset
    BY <1>1, <1>11 DEF AlikeAt
  <2> QED
    BY <1>12, <2>1
<1> QED
  BY <1>9, <1>10, <1>13

-----------------------------------------------------------------------------
(* Messages, however deep.                                                 *)

\* The levels of all five.
LEMMA Levels ==
  ASSUME NEW defs
  PROVE  /\ Maps[0] = [Names -> Values({})]
         /\ FromMaps(defs)[0] = FromMapsAt(defs, 0, <<>>)
         /\ ToMaps(defs)[0] = ToMapsAt(defs, 0, <<>>)
         /\ Contents(defs)[0] = ContentsAt(defs, 0, [type \in Types |-> {}])
         /\ Alike(defs)[0] = AlikeAt(defs, 0, <<>>)
         /\ \A n \in 1 .. Depth :
              /\ Maps[n] = [Names -> Values(Maps[n - 1])]
              /\ FromMaps(defs)[n] = FromMapsAt(defs, n, FromMaps(defs)[n - 1])
              /\ ToMaps(defs)[n] = ToMapsAt(defs, n, ToMaps(defs)[n - 1])
              /\ Contents(defs)[n] = ContentsAt(defs, n, Contents(defs)[n - 1])
              /\ Alike(defs)[n] = AlikeAt(defs, n, Alike(defs)[n - 1])
<1>1. 0 \in 0 .. Depth /\ \A n \in 1 .. Depth : n \in 0 .. Depth /\ n # 0
  BY Nesting
<1>2. Maps[0] = [Names -> Values({})] /\ \A n \in 1 .. Depth : Maps[n] = [Names -> Values(Maps[n - 1])]
  BY <1>1, MapsLevel
<1>3. /\ FromMaps(defs)[0] = FromMapsAt(defs, 0, <<>>)
      /\ \A n \in 1 .. Depth : FromMaps(defs)[n] = FromMapsAt(defs, n, FromMaps(defs)[n - 1])
  BY <1>1, FromMapsLevel
<1>4. /\ ToMaps(defs)[0] = ToMapsAt(defs, 0, <<>>)
      /\ \A n \in 1 .. Depth : ToMaps(defs)[n] = ToMapsAt(defs, n, ToMaps(defs)[n - 1])
  BY <1>1, ToMapsLevel
<1>5. /\ Contents(defs)[0] = ContentsAt(defs, 0, [type \in Types |-> {}])
      /\ \A n \in 1 .. Depth : Contents(defs)[n] = ContentsAt(defs, n, Contents(defs)[n - 1])
  BY <1>1, ContentsLevel
<1>6. /\ Alike(defs)[0] = AlikeAt(defs, 0, <<>>)
      /\ \A n \in 1 .. Depth : Alike(defs)[n] = AlikeAt(defs, n, Alike(defs)[n - 1])
  BY <1>1, AlikeLevel
<1> QED
  BY <1>2, <1>3, <1>4, <1>5, <1>6

\* At every depth: maps give contents that fit, contents give maps that give them
\* again, and what comes back is like what was given.
LEMMA EveryLevel ==
  ASSUME NEW defs, Sound(defs), NEW n \in 0 .. Depth
  PROVE  /\ LevelFits(defs, Maps[n], FromMaps(defs)[n], Contents(defs)[n])
         /\ LevelReturns(defs, Maps[n], FromMaps(defs)[n], ToMaps(defs)[n], Contents(defs)[n])
         /\ LevelAlike(defs, Maps[n], FromMaps(defs)[n], ToMaps(defs)[n], Alike(defs)[n])
<1> DEFINE Good(k) ==
             /\ LevelFits(defs, Maps[k], FromMaps(defs)[k], Contents(defs)[k])
             /\ LevelReturns(defs, Maps[k], FromMaps(defs)[k], ToMaps(defs)[k], Contents(defs)[k])
             /\ LevelAlike(defs, Maps[k], FromMaps(defs)[k], ToMaps(defs)[k], Alike(defs)[k])
           S == {k \in Nat : k <= Depth => Good(k)}
<1>1. 0 \in S
  <2> DEFINE none == [type \in Types |-> {}]
             nothing == <<>>
  <2>1. \A t : IsMessage(defs, t) => none[t] = {}
    BY FieldKnown
  <2> HIDE DEF none, nothing
  <2>2. LevelFits(defs, {}, nothing, none)
    BY <2>1 DEF LevelFits
  <2>3. LevelReturns(defs, {}, nothing, nothing, none)
    BY <2>1 DEF LevelReturns
  <2>4. LevelAlike(defs, {}, nothing, nothing, nothing)
    BY DEF LevelAlike
  <2>5. /\ Maps[0] = [Names -> Values({})]
        /\ FromMaps(defs)[0] = FromMapsAt(defs, 0, nothing)
        /\ ToMaps(defs)[0] = ToMapsAt(defs, 0, nothing)
        /\ Contents(defs)[0] = ContentsAt(defs, 0, none)
        /\ Alike(defs)[0] = AlikeAt(defs, 0, nothing)
    BY Levels DEF none, nothing
  <2>6. LevelFits(defs, Maps[0], FromMapsAt(defs, 0, nothing), ContentsAt(defs, 0, none))
    BY <2>2, <2>5, MessageFits
  <2>7. LevelReturns(defs, Maps[0], FromMapsAt(defs, 0, nothing), ToMapsAt(defs, 0, nothing),
                     ContentsAt(defs, 0, none))
    BY <2>2, <2>3, <2>5, MessageReturns
  <2>8. LevelAlike(defs, Maps[0], FromMapsAt(defs, 0, nothing), ToMapsAt(defs, 0, nothing),
                   AlikeAt(defs, 0, nothing))
    BY <2>2, <2>3, <2>4, <2>5, MessageAlike
  <2>9. Good(0)
    BY <2>5, <2>6, <2>7, <2>8
  <2> QED
    BY <2>9
<1>2. ASSUME NEW j \in Nat, j \in S PROVE j + 1 \in S
  <2>1. SUFFICES ASSUME j + 1 <= Depth PROVE Good(j + 1)
    OBVIOUS
  <2>2. PICK k : k = j + 1 /\ k - 1 = j /\ k \in 1 .. Depth /\ k - 1 <= Depth
    BY <2>1, Nesting
  <2>3. Good(k - 1)
    BY <1>2, <2>2
  <2> DEFINE I == Maps[k - 1]
             from == FromMaps(defs)[k - 1]
             to == ToMaps(defs)[k - 1]
             holds == Contents(defs)[k - 1]
             alike == Alike(defs)[k - 1]
  <2>4. /\ LevelFits(defs, I, from, holds)
        /\ LevelReturns(defs, I, from, to, holds)
        /\ LevelAlike(defs, I, from, to, alike)
    BY <2>3
  <2>5. /\ Maps[k] = [Names -> Values(I)]
        /\ FromMaps(defs)[k] = FromMapsAt(defs, k, from)
        /\ ToMaps(defs)[k] = ToMapsAt(defs, k, to)
        /\ Contents(defs)[k] = ContentsAt(defs, k, holds)
        /\ Alike(defs)[k] = AlikeAt(defs, k, alike)
    BY <2>2, Levels
  <2> HIDE DEF I, from, to, holds, alike
  <2>6. LevelFits(defs, Maps[k], FromMapsAt(defs, k, from), ContentsAt(defs, k, holds))
    BY <2>4, <2>5, MessageFits
  <2>7. LevelReturns(defs, Maps[k], FromMapsAt(defs, k, from), ToMapsAt(defs, k, to),
                     ContentsAt(defs, k, holds))
    BY <2>4, <2>5, MessageReturns
  <2>8. LevelAlike(defs, Maps[k], FromMapsAt(defs, k, from), ToMapsAt(defs, k, to),
                   AlikeAt(defs, k, alike))
    BY <2>4, <2>5, MessageAlike
  <2> QED
    BY <2>2, <2>5, <2>6, <2>7, <2>8
<1> HIDE DEF Good
<1>3. Nat \subseteq S
  BY <1>1, <1>2, DepthInduction
<1>4. Good(n)
  BY <1>3, Nesting
<1> QED
  BY <1>4 DEF Good

-----------------------------------------------------------------------------
(* What the pool knows of a type never changes.                            *)

\* q knows what p knows.
Grows(p, q) == \A t \in DOMAIN p : t \in DOMAIN q /\ q[t] = p[t]

\* What a field refers to is the same.
FieldSame(p, q, fd, from, from2, to, to2, holds, holds2) ==
  /\ fd.kind = "enum" => p[fd.of] = q[fd.of]
  /\ fd.kind = "message" =>
       from[fd.of] = from2[fd.of] /\ to[fd.of] = to2[fd.of] /\ holds[fd.of] = holds2[fd.of]

\* A field is converted as before when what it refers to is the same.
LEMMA FieldGrows ==
  ASSUME NEW p, NEW q, NEW fd \in Fields, NEW from, NEW from2, NEW to, NEW to2, NEW holds, NEW holds2,
         FieldSame(p, q, fd, from, from2, to, to2, holds, holds2), NEW val
  PROVE  /\ ParseField(p, from, fd, val) = ParseField(q, from2, fd, val)
         /\ SerializeField(to, fd, val) = SerializeField(to2, fd, val)
         /\ HoldsField(p, holds, fd) = HoldsField(q, holds2, fd)
<1>0. /\ fd.kind = "enum" => p[fd.of] = q[fd.of]
      /\ fd.kind = "message" =>
           from[fd.of] = from2[fd.of] /\ to[fd.of] = to2[fd.of] /\ holds[fd.of] = holds2[fd.of]
  BY DEF FieldSame
<1>1. ASSUME NEW v PROVE ParseSingle(p, from, fd, v) = ParseSingle(q, from2, fd, v)
  <2>1. CASE fd.kind \notin {"enum", "message"}
    BY <2>1 DEF ParseSingle
  <2>2. CASE fd.kind = "enum"
    BY <1>0, <2>2 DEF ParseSingle, Integer
  <2>3. CASE fd.kind = "message"
    BY <1>0, <2>3 DEF ParseSingle, Integer
  <2> QED
    BY <2>1, <2>2, <2>3
<1>2. ASSUME NEW v PROVE SerializeSingle(to, fd, v) = SerializeSingle(to2, fd, v)
  <2>1. CASE fd.kind # "message"
    BY <2>1 DEF SerializeSingle
  <2>2. CASE fd.kind = "message"
    BY <1>0, <2>2 DEF SerializeSingle, Integer
  <2> QED
    BY <2>1, <2>2
<1>3. Holds(p, holds, fd) = Holds(q, holds2, fd)
  <2>1. CASE fd.kind \notin {"enum", "message"}
    BY <2>1 DEF Holds
  <2>2. CASE fd.kind = "enum"
    BY <1>0, <2>2 DEF Holds, Integer
  <2>3. CASE fd.kind = "message"
    BY <1>0, <2>3 DEF Holds, Integer
  <2> QED
    BY <2>1, <2>2, <2>3
<1>4. ASSUME NEW v PROVE ParseElement(p, from, fd, v) = ParseElement(q, from2, fd, v)
  <2>1. CASE fd.kind = "int64"
    <3>1. PICK k : k = [fd EXCEPT !.kind = "int32"]
      OBVIOUS
    <3>2. /\ ParseElement(p, from, fd, v) = ParseSingle(p, from, k, v)
          /\ ParseElement(q, from2, fd, v) = ParseSingle(q, from2, k, v)
      BY <2>1, <3>1 DEF ParseElement
    <3>3. k.kind = "int32"
      BY <3>1 DEF Fields
    <3> QED
      BY <3>2, <3>3 DEF ParseSingle
  <2>2. CASE fd.kind = "uint64"
    <3>1. PICK k : k = [fd EXCEPT !.kind = "uint32"]
      OBVIOUS
    <3>2. /\ ParseElement(p, from, fd, v) = ParseSingle(p, from, k, v)
          /\ ParseElement(q, from2, fd, v) = ParseSingle(q, from2, k, v)
      BY <2>2, <3>1 DEF ParseElement
    <3>3. k.kind = "uint32"
      BY <3>1 DEF Fields
    <3> QED
      BY <3>2, <3>3 DEF ParseSingle
  <2>3. CASE fd.kind \notin {"int64", "uint64"}
    BY <1>1, <2>3, ElementCases
  <2> QED
    BY <2>1, <2>2, <2>3
<1>5. ParseRepeated(p, from, fd, val) = ParseRepeated(q, from2, fd, val)
  BY <1>4 DEF ParseRepeated
<1>6. SerializeRepeated(to, fd, val) = SerializeRepeated(to2, fd, val)
  BY <1>2 DEF SerializeRepeated
<1>7. ParseField(p, from, fd, val) = ParseField(q, from2, fd, val)
  BY <1>1, <1>5 DEF ParseField
<1>8. SerializeField(to, fd, val) = SerializeField(to2, fd, val)
  BY <1>2, <1>6 DEF SerializeField
<1>9. HoldsField(p, holds, fd) = HoldsField(q, holds2, fd)
  BY <1>3 DEF HoldsField
<1> QED
  BY <1>7, <1>8, <1>9

\* The messages inside are converted alike.
LevelSame(p, from, from2, to, to2, holds, holds2) ==
  \A t : IsMessage(p, t) => from[t] = from2[t] /\ to[t] = to2[t] /\ holds[t] = holds2[t]

\* What is the same for the messages inside is the same for those around them.
LEMMA LevelGrows ==
  ASSUME NEW p, NEW q, Sound(p), Grows(p, q), NEW n,
         NEW from, NEW from2, NEW to, NEW to2, NEW holds, NEW holds2,
         LevelSame(p, from, from2, to, to2, holds, holds2)
  PROVE  LevelSame(p, FromMapsAt(p, n, from), FromMapsAt(q, n, from2),
                   ToMapsAt(p, n, to), ToMapsAt(q, n, to2),
                   ContentsAt(p, n, holds), ContentsAt(q, n, holds2))
<1> SUFFICES ASSUME NEW t, IsMessage(p, t)
             PROVE  /\ FromMapsAt(p, n, from)[t] = FromMapsAt(q, n, from2)[t]
                    /\ ToMapsAt(p, n, to)[t] = ToMapsAt(q, n, to2)[t]
                    /\ ContentsAt(p, n, holds)[t] = ContentsAt(q, n, holds2)[t]
  BY DEF LevelSame
<1> DEFINE fields == p[t].of
<1>1. t \in Types /\ q[t] = p[t] /\ q[t].of = fields
  BY FieldKnown DEF IsMessage, Grows
<1>2. ASSUME NEW f \in DOMAIN fields, NEW val
      PROVE  /\ ParseField(p, from, fields[f], val) = ParseField(q, from2, fields[f], val)
             /\ SerializeField(to, fields[f], val) = SerializeField(to2, fields[f], val)
             /\ HoldsField(p, holds, fields[f]) = HoldsField(q, holds2, fields[f])
  <2> DEFINE fd == fields[f]
  <2>1. /\ fd \in Fields
        /\ fd.kind = "message" => IsMessage(p, fd.of)
        /\ fd.kind = "enum" => IsEnum(p, fd.of)
    BY FieldKnown DEF Sound, Resolved, IsMessage
  <2> HIDE DEF fd
  <2>2. fd.kind = "enum" => p[fd.of] = q[fd.of]
    BY <2>1 DEF IsEnum, Grows
  <2>3. fd.kind = "message" => /\ from[fd.of] = from2[fd.of]
                               /\ to[fd.of] = to2[fd.of]
                               /\ holds[fd.of] = holds2[fd.of]
    BY <2>1 DEF LevelSame
  <2>4. /\ ParseField(p, from, fd, val) = ParseField(q, from2, fd, val)
        /\ SerializeField(to, fd, val) = SerializeField(to2, fd, val)
        /\ HoldsField(p, holds, fd) = HoldsField(q, holds2, fd)
    <3>1. FieldSame(p, q, fd, from, from2, to, to2, holds, holds2)
      BY <2>2, <2>3 DEF FieldSame
    <3> QED
      BY <2>1, <3>1, FieldGrows
  <2> QED
    BY <2>4 DEF fd
<1> HIDE DEF fields
<1>3. FromMapsAt(p, n, from)[t] = FromMapsAt(q, n, from2)[t]
  <2>1. ASSUME NEW m \in Maps[n] PROVE ParseFields(p, from, t, m) = ParseFields(q, from2, t, m)
    <3> DEFINE parts == [f \in Names |-> IF f \in DOMAIN fields
                                         THEN ParseField(p, from, fields[f], m[f]) ELSE Unset]
               parts2 == [f \in Names |-> IF f \in DOMAIN fields
                                          THEN ParseField(q, from2, fields[f], m[f]) ELSE Unset]
    <3>1. parts = parts2
      BY <1>2
    <3>2. ParseFields(p, from, t, m) =
            IF \E f \in Names : parts[f] = Throws THEN Throws ELSE <<"message", parts>>
      BY DEF ParseFields, fields
    <3>3. ParseFields(q, from2, t, m) =
            IF \E f \in Names : parts2[f] = Throws THEN Throws ELSE <<"message", parts2>>
      BY <1>1 DEF ParseFields
    <3> HIDE DEF parts, parts2
    <3> QED
      BY <3>1, <3>2, <3>3
  <2>2. FromMapsAt(p, n, from)[t] = [m \in Maps[n] |-> ParseFields(p, from, t, m)]
    BY <1>1 DEF FromMapsAt
  <2>3. FromMapsAt(q, n, from2)[t] = [m \in Maps[n] |-> ParseFields(q, from2, t, m)]
    BY <1>1 DEF FromMapsAt
  <2> QED
    BY <2>1, <2>2, <2>3
<1>4. ContentsAt(p, n, holds)[t] = ContentsAt(q, n, holds2)[t]
  <2>1. ContentsAt(p, n, holds)[t] =
          {c \in Maps[n] : \A f \in Names :
             IF f \in DOMAIN fields THEN c[f] \in HoldsField(p, holds, fields[f]) ELSE c[f] = Unset}
    BY <1>1 DEF ContentsAt, fields
  <2>2. ContentsAt(q, n, holds2)[t] =
          {c \in Maps[n] : \A f \in Names :
             IF f \in DOMAIN fields THEN c[f] \in HoldsField(q, holds2, fields[f]) ELSE c[f] = Unset}
    BY <1>1 DEF ContentsAt
  <2> QED
    BY <1>2, <2>1, <2>2
<1>5. ToMapsAt(p, n, to)[t] = ToMapsAt(q, n, to2)[t]
  <2>1. ASSUME NEW c \in Maps[n]
        PROVE SerializeFields(p, to, t, c) = SerializeFields(q, to2, t, c)
    <3> DEFINE parts == [f \in Names |-> IF f \in DOMAIN fields
                                         THEN SerializeField(to, fields[f], c[f]) ELSE Unset]
               parts2 == [f \in Names |-> IF f \in DOMAIN fields
                                          THEN SerializeField(to2, fields[f], c[f]) ELSE Unset]
    <3>1. parts = parts2
      BY <1>2
    <3>2. SerializeFields(p, to, t, c) =
            IF \E f \in Names : parts[f] = Throws THEN Throws ELSE <<"map", parts>>
      BY DEF SerializeFields, fields
    <3>3. SerializeFields(q, to2, t, c) =
            IF \E f \in Names : parts2[f] = Throws THEN Throws ELSE <<"map", parts2>>
      BY <1>1 DEF SerializeFields
    <3> HIDE DEF parts, parts2
    <3> QED
      BY <3>1, <3>2, <3>3
  <2>2. ToMapsAt(p, n, to)[t] = [c \in Maps[n] |-> SerializeFields(p, to, t, c)]
    BY <1>1 DEF ToMapsAt
  <2>3. ToMapsAt(q, n, to2)[t] = [c \in Maps[n] |-> SerializeFields(q, to2, t, c)]
    BY <1>1 DEF ToMapsAt
  <2> QED
    BY <2>1, <2>2, <2>3
<1> QED
  BY <1>3, <1>4, <1>5

\* At every depth: more definitions change nothing for the types that were known.
LEMMA EveryLevelGrows ==
  ASSUME NEW p, NEW q, Sound(p), Grows(p, q), NEW n \in 0 .. Depth
  PROVE  LevelSame(p, FromMaps(p)[n], FromMaps(q)[n], ToMaps(p)[n], ToMaps(q)[n],
                   Contents(p)[n], Contents(q)[n])
<1> DEFINE Good(k) == LevelSame(p, FromMaps(p)[k], FromMaps(q)[k], ToMaps(p)[k], ToMaps(q)[k],
                                Contents(p)[k], Contents(q)[k])
           S == {k \in Nat : k <= Depth => Good(k)}
<1>1. 0 \in S
  <2> DEFINE none == [type \in Types |-> {}]
             nothing == <<>>
  <2>1. /\ FromMaps(p)[0] = FromMapsAt(p, 0, nothing) /\ FromMaps(q)[0] = FromMapsAt(q, 0, nothing)
        /\ ToMaps(p)[0] = ToMapsAt(p, 0, nothing) /\ ToMaps(q)[0] = ToMapsAt(q, 0, nothing)
        /\ Contents(p)[0] = ContentsAt(p, 0, none) /\ Contents(q)[0] = ContentsAt(q, 0, none)
    BY Levels
  <2> HIDE DEF none, nothing
  <2>2. LevelSame(p, nothing, nothing, nothing, nothing, none, none)
    BY DEF LevelSame
  <2>3. LevelSame(p, FromMapsAt(p, 0, nothing), FromMapsAt(q, 0, nothing),
                  ToMapsAt(p, 0, nothing), ToMapsAt(q, 0, nothing),
                  ContentsAt(p, 0, none), ContentsAt(q, 0, none))
    BY <2>2, LevelGrows
  <2>4. Good(0)
    BY <2>1, <2>3
  <2> QED
    BY <2>4
<1>2. ASSUME NEW j \in Nat, j \in S PROVE j + 1 \in S
  <2>1. SUFFICES ASSUME j + 1 <= Depth PROVE Good(j + 1)
    OBVIOUS
  <2>2. PICK k : k = j + 1 /\ k - 1 = j /\ k \in 1 .. Depth /\ k - 1 <= Depth
    BY <2>1, Nesting
  <2>3. Good(k - 1)
    BY <1>2, <2>2
  <2> DEFINE from == FromMaps(p)[k - 1]
             from2 == FromMaps(q)[k - 1]
             to == ToMaps(p)[k - 1]
             to2 == ToMaps(q)[k - 1]
             holds == Contents(p)[k - 1]
             holds2 == Contents(q)[k - 1]
  <2>4. LevelSame(p, from, from2, to, to2, holds, holds2)
    BY <2>3
  <2>5. /\ FromMaps(p)[k] = FromMapsAt(p, k, from) /\ FromMaps(q)[k] = FromMapsAt(q, k, from2)
        /\ ToMaps(p)[k] = ToMapsAt(p, k, to) /\ ToMaps(q)[k] = ToMapsAt(q, k, to2)
        /\ Contents(p)[k] = ContentsAt(p, k, holds) /\ Contents(q)[k] = ContentsAt(q, k, holds2)
    BY <2>2, Levels
  <2> HIDE DEF from, from2, to, to2, holds, holds2
  <2>6. LevelSame(p, FromMapsAt(p, k, from), FromMapsAt(q, k, from2),
                  ToMapsAt(p, k, to), ToMapsAt(q, k, to2),
                  ContentsAt(p, k, holds), ContentsAt(q, k, holds2))
    BY <2>4, LevelGrows
  <2> QED
    BY <2>2, <2>5, <2>6
<1> HIDE DEF Good
<1>3. Nat \subseteq S
  BY <1>1, <1>2, DepthInduction
<1>4. Good(n)
  BY <1>3, Nesting
<1> QED
  BY <1>4 DEF Good

\* What a map gives fits its type.
LEMMA MapIsConverted ==
  ASSUME NEW defs, Sound(defs), NEW t, IsMessage(defs, t), NEW m \in Maps[Depth],
         FromMap(defs, t, m) # Throws
  PROVE  \E c \in Contents(defs)[Depth][t] :
           FromMap(defs, t, m) = <<"message", c>> /\ c \in Maps[Depth]
<1>1. Depth \in 0 .. Depth
  BY Nesting
<1>2. LevelFits(defs, Maps[Depth], FromMaps(defs)[Depth], Contents(defs)[Depth])
  BY <1>1, EveryLevel
<1> QED
  BY <1>2 DEF LevelFits, FromMap

\* The map of a content gives the content again (message_to_map and
\* message_from_map are inverse, where they do not throw).
LEMMA ContentReturns ==
  ASSUME NEW defs, Sound(defs), NEW t, IsMessage(defs, t), NEW c \in Contents(defs)[Depth][t],
         ToMap(defs, t, c) # Throws
  PROVE  \E b \in Maps[Depth] : ToMap(defs, t, c) = <<"map", b>> /\ FromMap(defs, t, b) = <<"message", c>>
<1>1. Depth \in 0 .. Depth
  BY Nesting
<1>2. LevelReturns(defs, Maps[Depth], FromMaps(defs)[Depth], ToMaps(defs)[Depth], Contents(defs)[Depth])
  BY <1>1, EveryLevel
<1> QED
  BY <1>2 DEF LevelReturns, FromMap, ToMap

\* What comes back for a map is like the map.
LEMMA ComesBackAlike ==
  ASSUME NEW defs, Sound(defs), NEW t, IsMessage(defs, t), NEW m \in Maps[Depth], NEW c, NEW b,
         FromMap(defs, t, m) = <<"message", c>>, ToMap(defs, t, c) = <<"map", b>>
  PROVE  Alike(defs)[Depth][t][m][b]
<1>1. Depth \in 0 .. Depth
  BY Nesting
<1>2. LevelAlike(defs, Maps[Depth], FromMaps(defs)[Depth], ToMaps(defs)[Depth], Alike(defs)[Depth])
  BY <1>1, EveryLevel
<1>3. FromMaps(defs)[Depth][t][m] # Throws
  BY FieldValuesAreNot DEF FromMap
<1>4. PICK d : /\ FromMaps(defs)[Depth][t][m] = <<"message", d>>
               /\ \/ ToMaps(defs)[Depth][t][d] = Throws
                  \/ \E e : ToMaps(defs)[Depth][t][d] = <<"map", e>> /\ Alike(defs)[Depth][t][m][e]
  <2>1. \/ FromMaps(defs)[Depth][t][m] = Throws
        \/ \E d : /\ FromMaps(defs)[Depth][t][m] = <<"message", d>>
                 /\ \/ ToMaps(defs)[Depth][t][d] = Throws
                    \/ \E e : ToMaps(defs)[Depth][t][d] = <<"map", e>> /\ Alike(defs)[Depth][t][m][e]
    BY <1>2 DEF LevelAlike
  <2> QED
    BY <1>3, <2>1
<1>5. d = c
  BY <1>4 DEF FromMap
<1>6. ToMaps(defs)[Depth][t][d] = <<"map", b>> /\ ToMaps(defs)[Depth][t][d] # Throws
  BY <1>5, FieldValuesAreNot DEF ToMap
<1> QED
  BY <1>4, <1>6

\* The conversions of a type that is known stay what they are.
LEMMA ConversionsStay ==
  ASSUME NEW p, NEW q, Sound(p), Grows(p, q), NEW t, IsMessage(p, t)
  PROVE  /\ IsMessage(q, t)
         /\ \A m : FromMap(q, t, m) = FromMap(p, t, m)
         /\ \A c : ToMap(q, t, c) = ToMap(p, t, c)
         /\ Contents(q)[Depth][t] = Contents(p)[Depth][t]
<1>1. Depth \in 0 .. Depth
  BY Nesting
<1>2. LevelSame(p, FromMaps(p)[Depth], FromMaps(q)[Depth], ToMaps(p)[Depth], ToMaps(q)[Depth],
                Contents(p)[Depth], Contents(q)[Depth])
  BY <1>1, EveryLevelGrows
<1>3. /\ FromMaps(p)[Depth][t] = FromMaps(q)[Depth][t] /\ ToMaps(p)[Depth][t] = ToMaps(q)[Depth][t]
      /\ Contents(p)[Depth][t] = Contents(q)[Depth][t]
  BY <1>2 DEF LevelSame
<1> QED
  BY <1>3 DEF FromMap, ToMap, Grows, IsMessage

\* The type deriveChildNode works with.
NodeIsSound(defs) == IsMessage(defs, "HDNodeType") => IsNodeType(defs["HDNodeType"].of)

\* A turn of load_protobuf's loop adds to the pool or leaves it.
LEMMA FileAdds ==
  ASSUME NEW p, Sound(p), NodeIsSound(p), NEW file \in Files
  PROVE  /\ Sound(BuildFile(p, file)) /\ NodeIsSound(BuildFile(p, file))
         /\ Grows(p, BuildFile(p, file))
<1> DEFINE all == [name \in DOMAIN p \cup DOMAIN file |->
                     IF name \in DOMAIN p THEN p[name] ELSE file[name]]
<1>1. CASE BuildFile(p, file) = p
  BY <1>1 DEF Grows
<1>2. CASE BuildFile(p, file) = all /\ Resolved(all)
  <2>1. /\ DOMAIN file \subseteq Types
        /\ \A name \in DOMAIN file : IsDefinition(name, file[name])
        /\ "HDNodeType" \in DOMAIN file /\ file["HDNodeType"].is = "message"
             => IsNodeType(file["HDNodeType"].of)
    BY Definitions
  <2>2. /\ DOMAIN all = DOMAIN p \cup DOMAIN file
        /\ \A name \in DOMAIN p : all[name] = p[name]
        /\ \A name \in DOMAIN file : name \in DOMAIN p \/ all[name] = file[name]
    OBVIOUS
  <2> HIDE DEF all
  <2>3. Sound(all)
    BY <1>2, <2>1, <2>2 DEF Sound
  <2>4. NodeIsSound(all)
    BY <2>1, <2>2 DEF NodeIsSound, IsMessage
  <2>5. Grows(p, all)
    BY <2>2 DEF Grows
  <2> QED
    BY <1>2, <2>3, <2>4, <2>5
<1> QED
  BY <1>1, <1>2 DEF BuildFile

-----------------------------------------------------------------------------
(* The inductive invariant.                                                *)

\* The message is what became of the map the page gave.
Converted ==
  /\ message.type = request[1] /\ request[2] \in Maps[Depth]
  /\ FromMap(pool, message.type, request[2]) = <<"message", message.fields>>

\* The message is one of a type that the pool knows.
Known ==
  /\ IsMessage(pool, message.type)
  /\ message.fields \in Contents(pool)[Depth][message.type]
  /\ message.by = "page" => Converted

\* The answer is the map of a child of a node that the page gave.
Derived ==
  /\ IsMessage(pool, "HDNodeType") /\ request[2] \in Maps[Depth]
  /\ FromMap(pool, "HDNodeType", request[2]) # Throws
  /\ \E node \in Hdnodes(FromMap(pool, "HDNodeType", request[2])[2]) :
       LET child == HdnodePublicCkd(node, request[3])
           derived == FromHdnode(FromMap(pool, "HDNodeType", request[2])[2], child)
       IN  /\ derived \in Contents(pool)[Depth]["HDNodeType"]
           /\ Hdnodes(derived) = {child}
           /\ answer = <<"HDNodeType", ToMap(pool, "HDNodeType", derived)>>
           /\ answer[2] # Throws

\* The definitions are sound; what is under way has its type among them.
IInv ==
  /\ Sound(pool) /\ NodeIsSound(pool) /\ loading \in Seq(Files)
  /\ stage = "sent" => message.by = "page" /\ message.type \in DOMAIN Numbers(pool)
  /\ stage \in {"sent", "read", "answered"} => Known
  /\ stage = "answered" =>
       answer = <<message.type, ToMap(pool, message.type, message.fields)>> /\ answer[2] # Throws
  /\ stage = "derived" => Derived

-----------------------------------------------------------------------------
(* A derived node.                                                         *)

\* The bytes that are copied into a node.
LEMMA Copied ==
  ASSUME NEW size \in Nat, NEW bytes \in Seq(0 .. 255)
  PROVE  /\ Copies(bytes, size) \subseteq [1 .. size -> 0 .. 255]
         /\ Len(bytes) = size => Copies(bytes, size) = {bytes}
<1> DEFINE n == Len(bytes)
           copy(stray) == [i \in 1 .. size |-> IF i <= n THEN bytes[i] ELSE stray[i]]
<1>1. n \in Nat /\ bytes \in [1 .. n -> 0 .. 255]
  BY LenProperties
<1>2. Copies(bytes, size) = {copy(stray) : stray \in [1 .. size -> {0, 255}]}
  BY DEF Copies
<1> HIDE DEF n
<1>3. ASSUME NEW stray \in [1 .. size -> {0, 255}]
      PROVE  copy(stray) \in [1 .. size -> 0 .. 255]
  <2>1. \A i \in 1 .. size : i <= n => i \in 1 .. n
    BY <1>1
  <2>2. \A i \in 1 .. size : i <= n => bytes[i] \in 0 .. 255
    BY <1>1, <2>1
  <2>3. \A i \in 1 .. size : stray[i] \in {0, 255}
    OBVIOUS
  <2>4. \A i \in 1 .. size : stray[i] \in 0 .. 255
    BY <2>3
  <2> QED
    BY <2>2, <2>4
<1>4. ASSUME n = size, NEW stray
      PROVE  copy(stray) = bytes
  <2>1. copy(stray) = [i \in 1 .. size |-> bytes[i]]
    BY <1>4
  <2> QED
    BY <1>1, <1>4, <2>1
<1>5. \E stray : stray \in [1 .. size -> {0, 255}]
  <2>1. [i \in 1 .. size |-> 0] \in [1 .. size -> {0, 255}]
    OBVIOUS
  <2> QED
    BY <2>1
<1> HIDE DEF copy
<1>6. n = size => Copies(bytes, size) = {bytes}
  <2> DEFINE S == [1 .. size -> {0, 255}]
  <2>1. \E stray : stray \in S
    BY <1>5
  <2> HIDE DEF S
  <2>2. ASSUME n = size PROVE {copy(stray) : stray \in S} = {bytes}
    BY <1>4, <2>1, <2>2
  <2> QED
    BY <1>2, <2>2 DEF S
<1>7. Copies(bytes, size) \subseteq [1 .. size -> 0 .. 255]
  <2> DEFINE S == [1 .. size -> {0, 255}]
             T == [1 .. size -> 0 .. 255]
  <2>1. \A stray \in S : copy(stray) \in T
    BY <1>3
  <2> HIDE DEF S, T
  <2>2. {copy(stray) : stray \in S} \subseteq T
    BY <2>1
  <2> QED
    BY <1>2, <2>2 DEF S, T
<1> QED
  BY <1>6, <1>7 DEF n

\* What a node consists of.
IsNode(node) ==
  /\ node = [depth |-> node.depth, fingerprint |-> node.fingerprint, child_num |-> node.child_num,
             chain_code |-> node.chain_code, public_key |-> node.public_key]
  /\ {node.depth, node.fingerprint, node.child_num} \subseteq RangeOf("uint32")
  /\ node.chain_code \in [1 .. NodeSizes["chain_code"] -> 0 .. 255]
  /\ node.public_key \in [1 .. NodeSizes["public_key"] -> 0 .. 255]

\* A child of a node is a node, and so is what is left of one that has none.
LEMMA ChildIsNode ==
  ASSUME NEW node, IsNode(node), NEW index \in 0 .. 2 * Half32 - 1,
         NEW child, child = HdnodePublicCkd(node, index)
  PROVE  IsNode(child)
<1>12. CASE index >= Half32
  BY <1>12 DEF HdnodePublicCkd
<1> SUFFICES ASSUME ~(index >= Half32) PROVE IsNode(child)
  BY <1>12
<1> DEFINE w == 2 * Half32
           mix(bytes) == [i \in DOMAIN bytes |-> (bytes[i] + index + 1) % 256]
<1>1. w \in Nat \ {0} /\ RangeOf("uint32") = 0 .. w - 1 /\ index \in 0 .. w - 1
  BY Widths DEF RangeOf
<1>2. child = [depth |-> (node.depth + 1) % w, fingerprint |-> node.public_key[1] % w,
               child_num |-> index,
               chain_code |-> mix(node.chain_code), public_key |-> mix(node.public_key)]
  BY DEF HdnodePublicCkd
<1> HIDE DEF w
<1>3. \A n \in Int : n % w \in 0 .. w - 1
  BY <1>1
<1>4. node.public_key[1] \in Int
  <2>1. 1 \in 1 .. NodeSizes["public_key"]
    BY Inputs
  <2>2. node.public_key[1] \in 0 .. 255
    BY <2>1 DEF IsNode
  <2> QED
    BY <2>2
<1>5. ASSUME NEW n \in Nat, NEW bytes \in [1 .. n -> 0 .. 255]
      PROVE  mix(bytes) \in [1 .. n -> 0 .. 255]
  <2>1. index \in Int
    BY <1>1
  <2>2. \A i \in 1 .. n : bytes[i] \in 0 .. 255
    OBVIOUS
  <2>3. \A b \in 0 .. 255 : (b + index + 1) % 256 \in 0 .. 255
    BY <2>1
  <2>4. \A i \in 1 .. n : (bytes[i] + index + 1) % 256 \in 0 .. 255
    BY <2>2, <2>3
  <2>5. mix(bytes) = [i \in 1 .. n |-> (bytes[i] + index + 1) % 256]
    OBVIOUS
  <2> QED
    BY <2>4, <2>5
<1>6. NodeSizes["chain_code"] \in Nat /\ NodeSizes["public_key"] \in Nat
  BY Inputs
<1> HIDE DEF mix
<1>7. /\ child.chain_code = mix(node.chain_code) /\ child.public_key = mix(node.public_key)
      /\ child.depth = (node.depth + 1) % w /\ child.fingerprint = node.public_key[1] % w
      /\ child.child_num = index
  BY <1>2
<1>8. /\ child.chain_code \in [1 .. NodeSizes["chain_code"] -> 0 .. 255]
      /\ child.public_key \in [1 .. NodeSizes["public_key"] -> 0 .. 255]
  <2>1. /\ node.chain_code \in [1 .. NodeSizes["chain_code"] -> 0 .. 255]
        /\ node.public_key \in [1 .. NodeSizes["public_key"] -> 0 .. 255]
    BY DEF IsNode
  <2>2. mix(node.chain_code) \in [1 .. NodeSizes["chain_code"] -> 0 .. 255]
    BY <1>5, <1>6, <2>1
  <2>3. mix(node.public_key) \in [1 .. NodeSizes["public_key"] -> 0 .. 255]
    BY <1>5, <1>6, <2>1
  <2> QED
    BY <1>7, <2>2, <2>3
<1>10. node.depth \in Int
  BY IntegersHaveRanges DEF IsNode, Integer
<1>9. child.depth \in 0 .. w - 1 /\ child.fingerprint \in 0 .. w - 1 /\ child.child_num \in 0 .. w - 1
  <2>1. node.depth + 1 \in Int
    BY <1>10
  <2> QED
    BY <1>1, <1>3, <1>4, <1>7, <2>1
<1>11. child = [depth |-> child.depth, fingerprint |-> child.fingerprint, child_num |-> child.child_num,
                chain_code |-> child.chain_code, public_key |-> child.public_key]
  BY <1>2
<1> QED
  BY <1>1, <1>8, <1>9, <1>11 DEF IsNode

\* A content of the type of nodes.
IsNodeContent(content) ==
  /\ \A f \in {"depth", "fingerprint", "child_num"} :
       content[f] = Unset \/ content[f] \in {"number"} \X RangeOf("uint32")
  /\ \A f \in {"chain_code", "public_key"} :
       content[f] = Unset \/ content[f] \in {"bytes"} \X Seq(0 .. 255)

\* What message_to_hdnode reads is a node.
LEMMA HdnodesAreNodes ==
  ASSUME NEW content, IsNodeContent(content), NEW node \in Hdnodes(content)
  PROVE  IsNode(node)
<1> DEFINE number(f) == IF content[f] = Unset THEN 0 ELSE content[f][2]
           raw(f) == IF content[f] = Unset THEN <<>> ELSE content[f][2]
           bytes(f) == Copies(raw(f), NodeSizes[f])
<1>1. NodeSizes["chain_code"] \in Nat /\ NodeSizes["public_key"] \in Nat
  BY Inputs
<1>2. ASSUME NEW f \in {"depth", "fingerprint", "child_num"} PROVE number(f) \in RangeOf("uint32")
  <2>1. 0 \in RangeOf("uint32")
    BY Widths DEF RangeOf
  <2>2. content[f] = Unset \/ content[f] \in {"number"} \X RangeOf("uint32")
    BY DEF IsNodeContent
  <2> QED
    BY <2>1, <2>2
<1>3. ASSUME NEW f \in {"chain_code", "public_key"}
      PROVE  raw(f) \in Seq(0 .. 255)
  <2>1. content[f] = Unset \/ content[f] \in {"bytes"} \X Seq(0 .. 255)
    BY DEF IsNodeContent
  <2>2. <<>> \in Seq(0 .. 255)
    OBVIOUS
  <2> QED
    BY <2>1, <2>2
<1>4. Hdnodes(content) =
        {[depth |-> number("depth"), fingerprint |-> number("fingerprint"),
          child_num |-> number("child_num"), chain_code |-> c, public_key |-> p] :
           c \in bytes("chain_code"), p \in bytes("public_key")}
  BY DEF Hdnodes
<1> HIDE DEF number, raw
<1>5. PICK c \in bytes("chain_code"), p \in bytes("public_key") :
        node = [depth |-> number("depth"), fingerprint |-> number("fingerprint"),
                child_num |-> number("child_num"), chain_code |-> c, public_key |-> p]
  BY <1>4
<1>6. /\ bytes("chain_code") \subseteq [1 .. NodeSizes["chain_code"] -> 0 .. 255]
      /\ bytes("public_key") \subseteq [1 .. NodeSizes["public_key"] -> 0 .. 255]
  BY <1>1, <1>3, Copied
<1> QED
  BY <1>2, <1>5, <1>6 DEF IsNode

\* A node that is put into a content and taken out again is the same.
LEMMA NodeComesBack ==
  ASSUME NEW content, DOMAIN content = Names, NEW node, IsNode(node), NodeFields \subseteq Names,
         NEW out, out = FromHdnode(content, node)
  PROVE  /\ \A f \in Names \ NodeFields : out[f] = content[f]
         /\ \A f \in {"depth", "fingerprint", "child_num"} : out[f] = <<"number", node[f]>>
         /\ \A f \in {"chain_code", "public_key"} :
              out[f] = <<"bytes", node[f]>> /\ node[f] \in Seq(0 .. 255)
         /\ Hdnodes(out) = {node}
<1>1. \A f \in Names \ NodeFields : out[f] = content[f]
  BY DEF FromHdnode, NodeFields
<1>2. \A f \in {"depth", "fingerprint", "child_num"} : out[f] = <<"number", node[f]>>
  BY DEF FromHdnode, NodeFields
<1>3. \A f \in {"chain_code", "public_key"} : out[f] = <<"bytes", node[f]>>
  BY DEF FromHdnode, NodeFields
<1>4. /\ NodeSizes["chain_code"] \in Nat /\ NodeSizes["public_key"] \in Nat
  BY Inputs
<1>5. /\ node["chain_code"] \in Seq(0 .. 255) /\ Len(node["chain_code"]) = NodeSizes["chain_code"]
      /\ node["public_key"] \in Seq(0 .. 255) /\ Len(node["public_key"]) = NodeSizes["public_key"]
  BY <1>4, SequenceIs DEF IsNode
<1> DEFINE number(f) == IF out[f] = Unset THEN 0 ELSE out[f][2]
           raw(f) == IF out[f] = Unset THEN <<>> ELSE out[f][2]
           bytes(f) == Copies(raw(f), NodeSizes[f])
<1>6. \A x : <<"number", x>> # Unset /\ <<"bytes", x>> # Unset
  BY DEF Unset
<1>7. /\ number("depth") = node["depth"] /\ number("fingerprint") = node["fingerprint"]
      /\ number("child_num") = node["child_num"]
      /\ raw("chain_code") = node["chain_code"] /\ raw("public_key") = node["public_key"]
  <2>1. ASSUME NEW f \in {"depth", "fingerprint", "child_num"} PROVE number(f) = node[f]
    <3>1. out[f] = <<"number", node[f]>> /\ out[f] # Unset
      BY <1>2, <1>6
    <3> QED
      BY <3>1
  <2>2. ASSUME NEW f \in {"chain_code", "public_key"} PROVE raw(f) = node[f]
    <3>1. out[f] = <<"bytes", node[f]>> /\ out[f] # Unset
      BY <1>3, <1>6
    <3> QED
      BY <3>1
  <2> HIDE DEF number, raw
  <2> QED
    BY <2>1, <2>2
<1>8. Hdnodes(out) =
        {[depth |-> number("depth"), fingerprint |-> number("fingerprint"),
          child_num |-> number("child_num"), chain_code |-> c, public_key |-> p] :
           c \in bytes("chain_code"), p \in bytes("public_key")}
  BY DEF Hdnodes
<1> HIDE DEF number, raw
<1>9. bytes("chain_code") = {node["chain_code"]} /\ bytes("public_key") = {node["public_key"]}
  BY <1>4, <1>5, <1>7, Copied
<1> HIDE DEF bytes
<1>10. Hdnodes(out) =
         {[depth |-> node["depth"], fingerprint |-> node["fingerprint"],
           child_num |-> node["child_num"], chain_code |-> node["chain_code"],
           public_key |-> node["public_key"]]}
  BY <1>7, <1>8, <1>9
<1>11. Hdnodes(out) = {node}
  BY <1>10 DEF IsNode
<1> QED
  BY <1>1, <1>2, <1>3, <1>5, <1>11

\* What deriveChildNode makes is a content again, and nothing but the child.
LEMMA NodeDerived ==
  ASSUME NEW defs, Sound(defs), IsMessage(defs, "HDNodeType"), NodeIsSound(defs),
         NodeFields \subseteq DOMAIN defs["HDNodeType"].of,
         NEW made \in Contents(defs)[Depth]["HDNodeType"], NEW node \in Hdnodes(made),
         NEW index \in 0 .. 2 * Half32 - 1,
         NEW child, child = HdnodePublicCkd(node, index)
  PROVE  /\ FromHdnode(made, child) \in Contents(defs)[Depth]["HDNodeType"]
         /\ Hdnodes(FromHdnode(made, child)) = {child}
<1> DEFINE fields == defs["HDNodeType"].of
           out == FromHdnode(made, child)
<1>1. /\ "HDNodeType" \in Types /\ DOMAIN fields \subseteq Names
      /\ \A f \in DOMAIN fields : fields[f] \in Fields
  BY FieldKnown
<1>2. PICK holds, I : /\ Contents(defs)[Depth] = ContentsAt(defs, Depth, holds)
                      /\ Maps[Depth] = [Names -> Values(I)]
  <2>1. CASE Depth = 0
    BY <2>1, Levels
  <2>2. CASE Depth # 0
    <3>1. Depth \in 1 .. Depth
      BY <2>2, Nesting
    <3> QED
      BY <3>1, Levels
  <2> QED
    BY <2>1, <2>2
<1> DEFINE Suits(c) == \A f \in Names :
                         IF f \in DOMAIN fields THEN c[f] \in HoldsField(defs, holds, fields[f])
                         ELSE c[f] = Unset
<1>3. Contents(defs)[Depth]["HDNodeType"] = {c \in Maps[Depth] : Suits(c)}
  BY <1>1, <1>2 DEF ContentsAt
<1>4. made \in [Names -> Values(I)] /\ Suits(made)
  BY <1>2, <1>3
<1>5. \A f \in NodeFields : f \in DOMAIN fields /\ f \in Names
  BY <1>1
<1>6. ASSUME NEW f \in {"depth", "fingerprint", "child_num"}
      PROVE  /\ f \in NodeFields
             /\ HoldsField(defs, holds, fields[f]) = {Unset} \cup ({"number"} \X RangeOf("uint32"))
  <2>1. f \in NodeFields /\ f \notin {"chain_code", "public_key"}
    BY DEF NodeFields
  <2>2. ~fields[f].repeated /\ fields[f].kind = "uint32"
    BY <1>5, <2>1 DEF NodeIsSound, IsNodeType
  <2>3. Holds(defs, holds, fields[f]) = {"number"} \X RangeOf("uint32")
    BY <2>2 DEF Holds, Integer
  <2> QED
    BY <2>1, <2>2, <2>3 DEF HoldsField
<1>7. ASSUME NEW f \in {"chain_code", "public_key"}
      PROVE  /\ f \in NodeFields
             /\ HoldsField(defs, holds, fields[f]) = {Unset} \cup ({"bytes"} \X Seq(0 .. 255))
  <2>1. f \in NodeFields
    BY DEF NodeFields
  <2>2. ~fields[f].repeated /\ fields[f].kind = "bytes"
    BY <1>5, <2>1 DEF NodeIsSound, IsNodeType
  <2>3. Holds(defs, holds, fields[f]) = {"bytes"} \X Seq(0 .. 255)
    BY <2>2 DEF Holds, Integer
  <2> QED
    BY <2>1, <2>2, <2>3 DEF HoldsField
<1> HIDE DEF fields
<1>8. IsNodeContent(made)
  <2>1. ASSUME NEW f \in {"depth", "fingerprint", "child_num"}
        PROVE  made[f] = Unset \/ made[f] \in {"number"} \X RangeOf("uint32")
    <3>1. made[f] \in HoldsField(defs, holds, fields[f])
      BY <1>4, <1>5, <1>6
    <3> QED
      BY <1>6, <3>1
  <2>2. ASSUME NEW f \in {"chain_code", "public_key"}
        PROVE  made[f] = Unset \/ made[f] \in {"bytes"} \X Seq(0 .. 255)
    <3>1. made[f] \in HoldsField(defs, holds, fields[f])
      BY <1>4, <1>5, <1>7
    <3> QED
      BY <1>7, <3>1
  <2> QED
    BY <2>1, <2>2 DEF IsNodeContent
<1>9. IsNode(node)
  BY <1>8, HdnodesAreNodes
<1>10. /\ IsNode(child)
       /\ child["depth"] \in RangeOf("uint32") /\ child["fingerprint"] \in RangeOf("uint32")
       /\ child["child_num"] \in RangeOf("uint32")
  <2>1. IsNode(child)
    BY <1>9, ChildIsNode
  <2> QED
    BY <2>1 DEF IsNode
<1>11. /\ \A f \in Names \ NodeFields : out[f] = made[f]
       /\ \A f \in {"depth", "fingerprint", "child_num"} : out[f] = <<"number", child[f]>>
       /\ \A f \in {"chain_code", "public_key"} :
            out[f] = <<"bytes", child[f]>> /\ child[f] \in Seq(0 .. 255)
       /\ Hdnodes(out) = {child}
  <2>1. DOMAIN made = Names /\ NodeFields \subseteq Names
    BY <1>4, <1>5
  <2> QED
    BY <1>10, <2>1, NodeComesBack
<1>12. DOMAIN out = Names /\ out = [f \in Names |-> out[f]]
  BY DEF FromHdnode
<1> HIDE DEF out
<1>13. \A n \in RangeOf("uint32") : <<"number", n>> \in Values(I)
  <2>1. RangeOf("uint32") \subseteq Int
    BY IntegersHaveRanges DEF Integer
  <2> QED
    BY <2>1 DEF Values, Singles, Simple
<1>14. \A b \in Seq(0 .. 255) : <<"bytes", b>> \in Values(I)
  BY DEF Values, Singles, Simple
<1>15. ASSUME NEW f \in Names
       PROVE  /\ out[f] \in Values(I)
              /\ IF f \in DOMAIN fields THEN out[f] \in HoldsField(defs, holds, fields[f])
                 ELSE out[f] = Unset
  <2>1. CASE f \in {"depth", "fingerprint", "child_num"}
    <3>1. out[f] = <<"number", child[f]>> /\ child[f] \in RangeOf("uint32")
      BY <1>10, <1>11, <2>1
    <3> QED
      BY <1>5, <1>6, <1>13, <2>1, <3>1
  <2>2. CASE f \in {"chain_code", "public_key"}
    <3>1. out[f] = <<"bytes", child[f]>> /\ child[f] \in Seq(0 .. 255)
      BY <1>11, <2>2
    <3> QED
      BY <1>5, <1>7, <1>14, <2>2, <3>1
  <2>3. CASE f \notin NodeFields
    <3>1. out[f] = made[f]
      BY <1>11, <2>3
    <3> QED
      BY <1>4, <3>1
  <2> QED
    BY <2>1, <2>2, <2>3 DEF NodeFields
<1>16. out \in Maps[Depth]
  BY <1>2, <1>12, <1>15
<1>17. Suits(out)
  BY <1>15
<1> QED
  BY <1>3, <1>11, <1>16, <1>17 DEF out

-----------------------------------------------------------------------------
(* Integers, and the names of types.                                       *)

\* What is kept of a value given for an integer, or of a list of such values.
Kept(fd, given, sent) ==
  IF fd.repeated
  THEN /\ Len(sent[2]) = Len(given[2])
       /\ \A i \in 1 .. Len(given[2]) : sent[2][i] = Cast("number", given[2][i])
  ELSE sent = Cast("number", given)

LEMMA FieldKept ==
  ASSUME NEW defs, NEW from, NEW fd \in Fields, fd.kind \in Integer, NEW I, NEW val \in Values(I),
         val # Unset, NEW sent, sent = ParseField(defs, from, fd, val), sent # Throws
  PROVE  Kept(fd, val, sent)
<1>0. fd.kind \in Kinds /\ Asked(fd.kind) = "number"
  BY AskedCases DEF Fields
<1>3. ASSUME NEW v, NEW out, out = ParseSingle(defs, from, fd, v), out # Throws
      PROVE  out = Cast("number", v)
  BY <1>0, <1>3, ParseCases
<1>1. CASE ~fd.repeated
  <2>1. sent = ParseSingle(defs, from, fd, val)
    BY <1>1 DEF ParseField
  <2> QED
    BY <1>1, <1>3, <2>1 DEF Kept
<1>2. CASE fd.repeated
  <2>1. sent = ParseRepeated(defs, from, fd, val)
    BY <1>2 DEF ParseField
  <2>2. val[1] = "list"
    BY <2>1 DEF ParseRepeated
  <2>3. PICK s \in Seq(Singles(I)) : val[2] = s
    BY <2>2, ValuesCases
  <2> DEFINE parts == [i \in DOMAIN s |-> ParseElement(defs, from, fd, s[i])]
  <2>4. sent = Each(parts)
    BY <2>1, <2>2, <2>3 DEF ParseRepeated
  <2>5. DOMAIN parts = DOMAIN s /\ \A i \in DOMAIN s : parts[i] = ParseElement(defs, from, fd, s[i])
    OBVIOUS
  <2>6. parts = [i \in DOMAIN s |-> parts[i]]
    OBVIOUS
  <2> HIDE DEF parts
  <2>7. sent = <<"list", parts>> /\ \A i \in DOMAIN parts : parts[i] # Throws
    BY <2>4, EachOutcome
  <2>8. ASSUME NEW i \in DOMAIN s PROVE parts[i] = Cast("number", s[i])
    <3>1. CASE fd.kind \in {"int64", "uint64"}
      BY <2>5, <2>7, <3>1, ElementCases
    <3>2. CASE fd.kind \notin {"int64", "uint64"}
      <4>1. parts[i] = ParseSingle(defs, from, fd, s[i]) /\ parts[i] # Throws
        BY <2>5, <2>7, <3>2, ElementCases
      <4> QED
        BY <1>3, <4>1
    <3> QED
      BY <3>1, <3>2
  <2>9. Len(parts) = Len(s)
    BY <2>6, MappedAny
  <2>10. DOMAIN s = 1 .. Len(s)
    OBVIOUS
  <2>11. sent[2] = parts
    BY <2>7
  <2> QED
    BY <1>2, <2>3, <2>8, <2>9, <2>10, <2>11 DEF Kept
<1> QED
  BY <1>1, <1>2

\* So it is in a message.
LEMMA IntegersKept ==
  ASSUME NEW defs, Sound(defs), NEW t, IsMessage(defs, t), NEW m \in Maps[Depth], NEW c,
         FromMap(defs, t, m) = <<"message", c>>,
         NEW f \in DOMAIN defs[t].of, defs[t].of[f].kind \in Integer, m[f] # Unset
  PROVE  Kept(defs[t].of[f], m[f], c[f])
<1> DEFINE fields == defs[t].of
<1>1. PICK from, I : /\ FromMaps(defs)[Depth] = FromMapsAt(defs, Depth, from)
                     /\ Maps[Depth] = [Names -> Values(I)]
  <2>1. CASE Depth = 0
    BY <2>1, Levels
  <2>2. CASE Depth # 0
    <3>1. Depth \in 1 .. Depth
      BY <2>2, Nesting
    <3>2. /\ FromMaps(defs)[Depth] = FromMapsAt(defs, Depth, FromMaps(defs)[Depth - 1])
          /\ Maps[Depth] = [Names -> Values(Maps[Depth - 1])]
      BY <3>1, Levels
    <3> QED
      BY <3>2
  <2> QED
    BY <2>1, <2>2
<1> DEFINE parts == [g \in Names |-> IF g \in DOMAIN fields
                                     THEN ParseField(defs, from, fields[g], m[g]) ELSE Unset]
<1>2. t \in Types /\ f \in Names /\ fields[f] \in Fields
  BY FieldKnown
<1>3. FromMap(defs, t, m) = ParseFields(defs, from, t, m)
  BY <1>1, <1>2 DEF FromMap, FromMapsAt
<1>4. ParseFields(defs, from, t, m) # Throws
  BY <1>3, FieldValuesAreNot
<1>5. /\ ParseFields(defs, from, t, m) = <<"message", parts>>
      /\ \A g \in Names : parts[g] # Throws
  BY <1>4 DEF ParseFields
<1>6. parts[f] = ParseField(defs, from, fields[f], m[f]) /\ parts[f] # Throws
  BY <1>2, <1>5
<1>7. m[f] \in Values(I)
  BY <1>1, <1>2
<1> HIDE DEF parts, fields
<1>8. c = parts
  BY <1>3, <1>5
<1>9. fields[f].kind \in Integer
  BY DEF fields
<1>10. Kept(fields[f], m[f], c[f])
  BY <1>2, <1>6, <1>7, <1>8, <1>9, FieldKept
<1> QED
  BY <1>10 DEF fields

\* No two types have the same number.
LEMMA NumbersDiffer ==
  ASSUME NEW defs, Sound(defs)
  PROVE  \A t, u \in DOMAIN Numbers(defs) : Numbers(defs)[t] = Numbers(defs)[u] => t = u
<1>1. CASE "MessageType" \in DOMAIN defs
  <2>1. IsDefinition("MessageType", defs["MessageType"])
    BY <1>1 DEF Sound
  <2>2. Numbers(defs) = defs["MessageType"].of
    BY <1>1 DEF Numbers
  <2> QED
    BY <2>1, <2>2 DEF IsDefinition
<1>2. CASE "MessageType" \notin DOMAIN defs
  <2>1. Numbers(defs) = <<>>
    BY <1>2 DEF Numbers
  <2> QED
    BY <2>1
<1> QED
  BY <1>1, <1>2

\* message_name finds the type a message has the number of.
LEMMA NameOfNumber ==
  ASSUME Sound(pool), NEW t \in DOMAIN Numbers(pool)
  PROVE  MessageName(Numbers(pool)[t]) = t
BY NumbersDiffer DEF MessageName

\* The types that have a number keep one.
LEMMA NumbersStay ==
  ASSUME NEW p, NEW q, Grows(p, q)
  PROVE  DOMAIN Numbers(p) \subseteq DOMAIN Numbers(q)
<1>1. CASE "MessageType" \in DOMAIN p
  BY <1>1 DEF Numbers, Grows
<1>2. CASE "MessageType" \notin DOMAIN p
  <2>1. Numbers(p) = <<>>
    BY <1>2 DEF Numbers
  <2> QED
    BY <2>1
<1> QED
  BY <1>1, <1>2

-----------------------------------------------------------------------------
(* The invariant holds.                                                    *)

\* It holds before the first call.
LEMMA InitIInv == Init => IInv
<1> SUFFICES ASSUME Init PROVE IInv
  OBVIOUS
<1>0. pool = <<>> /\ loading = <<>>
  BY DEF Init
<1>1. DOMAIN pool = {}
  BY <1>0
<1>2. Sound(pool) /\ NodeIsSound(pool)
  BY <1>1 DEF Sound, Resolved, NodeIsSound, IsMessage
<1>3. loading \in Seq(Files)
  BY <1>0
<1>4. stage = "idle"
  BY DEF Init
<1> QED
  BY <1>2, <1>3, <1>4 DEF IInv

\* A growing pool and nothing else.
LEMMA LoadKeeps ==
  ASSUME IInv, LoadProtobuf
  PROVE  IInv'
<1>1. /\ Head(loading) \in Files /\ Tail(loading) \in Seq(Files)
      /\ pool' = BuildFile(pool, Head(loading)) /\ loading' = Tail(loading)
      /\ UNCHANGED <<stage, request, message, answer>>
  BY DEF IInv, LoadProtobuf
<1>2. Sound(pool) /\ NodeIsSound(pool)
  BY DEF IInv
<1>3. Sound(pool') /\ NodeIsSound(pool') /\ Grows(pool, pool')
  BY <1>1, <1>2, FileAdds
<1>4. Known => Known'
  <2> SUFFICES ASSUME Known PROVE Known'
    OBVIOUS
  <2>1. /\ IsMessage(pool', message.type)
        /\ \A m : FromMap(pool', message.type, m) = FromMap(pool, message.type, m)
        /\ Contents(pool')[Depth][message.type] = Contents(pool)[Depth][message.type]
    BY <1>2, <1>3, ConversionsStay DEF Known
  <2> QED
    BY <1>1, <2>1 DEF Known, Converted
<1>5. Known => ToMap(pool', message.type, message.fields) = ToMap(pool, message.type, message.fields)
  BY <1>2, <1>3, ConversionsStay DEF Known
<1>6. Derived => Derived'
  <2> SUFFICES ASSUME Derived PROVE Derived'
    OBVIOUS
  <2>1. IsMessage(pool, "HDNodeType")
    BY DEF Derived
  <2>2. /\ IsMessage(pool', "HDNodeType")
        /\ \A m : FromMap(pool', "HDNodeType", m) = FromMap(pool, "HDNodeType", m)
        /\ \A c : ToMap(pool', "HDNodeType", c) = ToMap(pool, "HDNodeType", c)
        /\ Contents(pool')[Depth]["HDNodeType"] = Contents(pool)[Depth]["HDNodeType"]
    BY <1>2, <1>3, <2>1, ConversionsStay
  <2> QED
    BY <1>1, <2>2 DEF Derived
<1>7. DOMAIN Numbers(pool) \subseteq DOMAIN Numbers(pool')
  BY <1>3, NumbersStay
<1> QED
  BY <1>1, <1>3, <1>4, <1>5, <1>6, <1>7 DEF IInv

\* create_message and message_from_map.
LEMMA CallKeeps ==
  ASSUME IInv, NEW r \in Requests, Call(r)
  PROVE  IInv'
<1> DEFINE type == r[1]
           made == IF IsMessage(pool, type) THEN FromMap(pool, type, r[2]) ELSE Throws
<1>1. /\ request' = <<r[1], r[2], 0>> /\ UNCHANGED <<pool, loading>>
      /\ Sound(pool) /\ NodeIsSound(pool) /\ loading \in Seq(Files)
  BY DEF Call, IInv
<1>2. CASE Fails
  BY <1>1, <1>2 DEF Fails, IInv
<1>3. CASE /\ made # Throws /\ type \in DOMAIN Numbers(pool)
           /\ stage' = "sent"
           /\ message' = [by |-> "page", type |-> type, fields |-> made[2]]
  <2>1. r \in Types \X Maps[Depth]
    BY Inputs
  <2>2. r[2] \in Maps[Depth] /\ request'[1] = type /\ request'[2] = r[2]
    BY <1>1, <2>1
  <2>3. IsMessage(pool, type) /\ made = FromMap(pool, type, r[2])
    BY <1>3
  <2> HIDE DEF type, made
  <2>4. PICK c \in Contents(pool)[Depth][type] : made = <<"message", c>>
    BY <1>1, <1>3, <2>2, <2>3, MapIsConverted
  <2>5. /\ message'.by = "page" /\ message'.type = type /\ message'.fields = c
        /\ message'.type = request'[1]
    BY <1>3, <2>2, <2>4
  <2>6. FromMap(pool, type, request'[2]) = <<"message", message'.fields>>
    BY <2>2, <2>3, <2>4, <2>5
  <2>7. Converted'
    BY <1>1, <2>2, <2>5, <2>6 DEF Converted
  <2>8. Known'
    BY <1>1, <2>3, <2>5, <2>7 DEF Known
  <2>9. message'.by = "page" /\ message'.type \in DOMAIN Numbers(pool')
    BY <1>1, <1>3, <2>5
  <2> QED
    BY <1>1, <1>3, <2>8, <2>9 DEF IInv
<1> QED
  BY <1>2, <1>3 DEF Call

\* read(), of a message that fits its type.
LEMMA ReadKeeps ==
  ASSUME IInv, NEW by, NEW number, NEW content, Read(by, number, content),
         Readable(number) => content \in Contents(pool)[Depth][MessageName(number)],
         Readable(number) /\ by = "page" =>
           /\ MessageName(number) = request[1] /\ request[2] \in Maps[Depth]
           /\ FromMap(pool, request[1], request[2]) = <<"message", content>>
  PROVE  IInv'
<1>1. /\ UNCHANGED <<pool, loading, request>>
      /\ Sound(pool) /\ NodeIsSound(pool) /\ loading \in Seq(Files)
  BY DEF Read, IInv
<1>2. CASE Fails
  BY <1>1, <1>2 DEF Fails, IInv
<1>3. CASE /\ Readable(number) /\ stage' = "read"
           /\ message' = [by |-> by, type |-> MessageName(number), fields |-> content]
  <2>1. PICK t \in DOMAIN Numbers(pool) : Numbers(pool)[t] = number /\ IsMessage(pool, t)
    BY <1>3 DEF Readable
  <2>2. MessageName(number) = t
    BY <1>1, <2>1, NameOfNumber
  <2>3. message'.by = by /\ message'.type = t /\ message'.fields = content
    BY <1>3, <2>2
  <2>4. message'.by = "page" => Converted'
    BY <1>1, <1>3, <2>2, <2>3 DEF Converted
  <2>5. Known'
    BY <1>1, <1>3, <2>1, <2>2, <2>3, <2>4 DEF Known
  <2> QED
    BY <1>1, <1>3, <2>5 DEF IInv
<1> QED
  BY <1>2, <1>3 DEF Read

\* The answer has the type and the content of what was sent.
LEMMA EchoKeeps ==
  ASSUME IInv, DeviceEchoes
  PROVE  IInv'
<1>1. /\ Sound(pool) /\ Known /\ message.by = "page" /\ message.type \in DOMAIN Numbers(pool)
      /\ Read("page", Numbers(pool)[message.type], message.fields)
  BY DEF IInv, DeviceEchoes
<1>2. MessageName(Numbers(pool)[message.type]) = message.type
  BY <1>1, NameOfNumber
<1>3. /\ message.fields \in Contents(pool)[Depth][message.type]
      /\ message.type = request[1] /\ request[2] \in Maps[Depth]
      /\ FromMap(pool, request[1], request[2]) = <<"message", message.fields>>
  BY <1>1 DEF Known, Converted
<1> QED
  BY <1>1, <1>2, <1>3, ReadKeeps

\* The device's own messages fit their types.
LEMMA AnswerKeeps ==
  ASSUME IInv, NEW m \in DeviceMessages, DeviceAnswers(m)
  PROVE  IInv'
<1>1. /\ Readable(m.number) => m.fields \in Contents(pool)[Depth][MessageName(m.number)]
      /\ Read("device", m.number, m.fields)
  BY DEF DeviceAnswers
<1>2. "device" # "page"
  OBVIOUS
<1> QED
  BY <1>1, <1>2, ReadKeeps

\* message_to_map.
LEMMA RespondKeeps ==
  ASSUME IInv, Respond
  PROVE  IInv'
<1>1. /\ UNCHANGED <<pool, loading, request>>
      /\ Sound(pool) /\ NodeIsSound(pool) /\ loading \in Seq(Files) /\ Known
  BY DEF Respond, IInv
<1>2. CASE Fails
  BY <1>1, <1>2 DEF Fails, IInv
<1>3. CASE /\ ToMap(pool, message.type, message.fields) # Throws
           /\ stage' = "answered"
           /\ answer' = <<message.type, ToMap(pool, message.type, message.fields)>>
           /\ UNCHANGED message
  <2>1. Known'
    BY <1>1, <1>3 DEF Known, Converted
  <2>2. /\ answer' = <<message'.type, ToMap(pool', message'.type, message'.fields)>>
        /\ answer'[2] # Throws
    BY <1>1, <1>3
  <2> QED
    BY <1>1, <1>3, <2>1, <2>2 DEF IInv
<1> QED
  BY <1>2, <1>3 DEF Respond

\* deriveChildNode.
LEMMA DeriveKeeps ==
  ASSUME IInv, NEW map \in Nodes, NEW index \in Indices, DeriveChildNode(map, index)
  PROVE  IInv'
<1> DEFINE made == IF IsMessage(pool, "HDNodeType") THEN FromMap(pool, "HDNodeType", map) ELSE Throws
<1>1. /\ request' = <<"HDNodeType", map, index>> /\ UNCHANGED <<pool, loading>>
      /\ Sound(pool) /\ NodeIsSound(pool) /\ loading \in Seq(Files)
  BY DEF DeriveChildNode, IInv
<1>2. CASE Fails
  BY <1>1, <1>2 DEF Fails, IInv
<1>3. ASSUME made # Throws, NodeFields \subseteq DOMAIN pool["HDNodeType"].of,
             NEW node \in Hdnodes(made[2]), NEW child, child = HdnodePublicCkd(node, index),
             NEW derived, derived = FromHdnode(made[2], child),
             NEW back, back = ToMap(pool, "HDNodeType", derived), back # Throws,
             stage' = "derived", answer' = <<"HDNodeType", back>>
      PROVE  IInv'
  <2>1. /\ map \in Maps[Depth] /\ index \in 0 .. 2 * Half32 - 1
        /\ request'[2] = map /\ request'[3] = index
    BY <1>1, Inputs
  <2>2. IsMessage(pool, "HDNodeType") /\ made = FromMap(pool, "HDNodeType", map)
    BY <1>3
  <2> HIDE DEF made
  <2>3. PICK c \in Contents(pool)[Depth]["HDNodeType"] : made = <<"message", c>>
    BY <1>1, <1>3, <2>1, <2>2, MapIsConverted
  <2>4. made[2] = c
    BY <2>3
  <2>5. node \in Hdnodes(c) /\ derived = FromHdnode(c, child)
    BY <1>3, <2>4
  <2>6. derived \in Contents(pool)[Depth]["HDNodeType"] /\ Hdnodes(derived) = {child}
    BY <1>1, <1>3, <2>1, <2>2, <2>5, NodeDerived
  <2>7. /\ FromMap(pool', "HDNodeType", request'[2]) = made
        /\ child = HdnodePublicCkd(node, request'[3])
        /\ answer' = <<"HDNodeType", ToMap(pool', "HDNodeType", derived)>> /\ answer'[2] # Throws
    BY <1>1, <1>3, <2>1, <2>2
  <2>8. Derived'
    BY <1>1, <1>3, <2>1, <2>2, <2>6, <2>7 DEF Derived
  <2> QED
    BY <1>1, <1>3, <2>8 DEF IInv
<1> QED
  BY <1>2, <1>3 DEF DeriveChildNode

\* So every step keeps the invariant.
LEMMA NextIInv == IInv /\ [Next]_vars => IInv'
<1> SUFFICES ASSUME IInv, [Next]_vars PROVE IInv'
  OBVIOUS
<1>1. ASSUME NEW c \in Configurations, Configure(c) PROVE IInv'
  <2>1. /\ loading' \in Seq(Files) /\ UNCHANGED <<pool, stage, request, message, answer>>
    BY <1>1, Definitions DEF Configure
  <2> QED
    BY <2>1 DEF IInv, Known, Converted, Derived
<1>2. CASE NextCall
  BY <1>2 DEF NextCall, IInv
<1>3. CASE UNCHANGED vars
  BY <1>3 DEF vars, IInv, Known, Converted, Derived
<1> QED
  BY <1>1, <1>2, <1>3, LoadKeeps, CallKeeps, EchoKeeps, AnswerKeeps, RespondKeeps, DeriveKeeps DEF Next

\* The message is always one of a type that the pool knows, with a content that
\* fits it, and one that the page gave is what became of the page's map, whatever
\* configure() loads in between (messages.cpp:12-20, 386-412; plugin.cpp:295-315).
THEOREM Invariant == Spec => []IInv
BY InitIInv, NextIInv, PTL DEF Spec

-----------------------------------------------------------------------------
(* What follows.                                                           *)

\* A number the plug-in accepts for an integer is sent as it was given, alone or in
\* a list, whatever the widths, and so is one that convert_cast finds in a text
\* (messages.cpp:230-244, 298-316).
THEOREM NothingIsAltered == Spec => []NothingAltered
<1>1. IInv => NothingAltered
  <2> SUFFICES ASSUME IInv, stage = "sent",
                      NEW f \in DOMAIN pool[message.type].of,
                      pool[message.type].of[f].kind \in Integer, request[2][f] # Unset
               PROVE  Kept(pool[message.type].of[f], request[2][f], message.fields[f])
    BY DEF NothingAltered, Kept
  <2>1. /\ Sound(pool) /\ IsMessage(pool, message.type) /\ request[2] \in Maps[Depth]
        /\ FromMap(pool, message.type, request[2]) = <<"message", message.fields>>
    BY DEF IInv, Known, Converted
  <2> QED
    BY <2>1, IntegersKept
<1> QED
  BY <1>1, Invariant, PTL

\* What the page got from the device can be sent back, and is the same message
\* then, however deep the messages in it are (messages.cpp:102-412).
THEOREM AnswerIsAccepted == Spec => []AnswerAccepted
<1>1. IInv => AnswerAccepted
  <2> SUFFICES ASSUME IInv, stage = "answered"
               PROVE  FromMap(pool, answer[1], answer[2][2]) = <<"message", message.fields>>
    BY DEF AnswerAccepted
  <2>1. /\ Sound(pool) /\ IsMessage(pool, message.type)
        /\ message.fields \in Contents(pool)[Depth][message.type]
        /\ answer[1] = message.type /\ answer[2] = ToMap(pool, message.type, message.fields)
        /\ answer[2] # Throws
    BY DEF IInv, Known
  <2>2. PICK b : /\ answer[2] = <<"map", b>>
                 /\ FromMap(pool, message.type, b) = <<"message", message.fields>>
    BY <2>1, ContentReturns
  <2>3. answer[2][2] = b
    BY <2>2
  <2> QED
    BY <2>1, <2>2, <2>3
<1> QED
  BY <1>1, Invariant, PTL

\* What the device sends back reaches the page as the page gave it, or as what
\* convert_cast made of a value of another kind, complete and in order, at every depth
\* (messages.cpp:102-412; plugin.cpp:303-312).
THEOREM EchoesComeBack == Spec => []EchoComesBack
<1>1. IInv => EchoComesBack
  <2> SUFFICES ASSUME IInv, stage = "answered", message.by = "page"
               PROVE  /\ answer[1] = request[1]
                      /\ Alike(pool)[Depth][request[1]][request[2]][answer[2][2]]
    BY DEF EchoComesBack
  <2>1. /\ Sound(pool) /\ IsMessage(pool, message.type)
        /\ message.fields \in Contents(pool)[Depth][message.type]
        /\ message.type = request[1] /\ request[2] \in Maps[Depth]
        /\ FromMap(pool, message.type, request[2]) = <<"message", message.fields>>
        /\ answer[1] = message.type /\ answer[2] = ToMap(pool, message.type, message.fields)
        /\ answer[2] # Throws
    BY DEF IInv, Known, Converted
  <2>2. PICK b : answer[2] = <<"map", b>> /\ ToMap(pool, message.type, message.fields) = <<"map", b>>
    BY <2>1, ContentReturns
  <2>3. answer[2][2] = b
    BY <2>2
  <2>4. Alike(pool)[Depth][message.type][request[2]][b]
    BY <2>1, <2>2, ComesBackAlike
  <2> QED
    BY <2>1, <2>3, <2>4
<1> QED
  BY <1>1, Invariant, PTL

\* A derived node, given to deriveChildNode again, is read as the very node that
\* hdnode_public_ckd left, a child or not (apis.cpp:101-122, messages.cpp:414-455).
THEOREM DerivationsChain == Spec => []DerivationChains
<1>1. IInv => DerivationChains
  <2> SUFFICES ASSUME IInv, stage = "derived"
               PROVE  \E node \in Hdnodes(FromMap(pool, "HDNodeType", request[2])[2]) :
                        Hdnodes(FromMap(pool, "HDNodeType", answer[2][2])[2])
                          = {HdnodePublicCkd(node, request[3])}
    BY DEF DerivationChains
  <2>1. Sound(pool) /\ Derived /\ IsMessage(pool, "HDNodeType")
    BY DEF IInv, Derived
  <2>2. PICK node, derived :
          /\ node \in Hdnodes(FromMap(pool, "HDNodeType", request[2])[2])
          /\ derived \in Contents(pool)[Depth]["HDNodeType"]
          /\ Hdnodes(derived) = {HdnodePublicCkd(node, request[3])}
          /\ answer = <<"HDNodeType", ToMap(pool, "HDNodeType", derived)>>
          /\ answer[2] # Throws
    BY <2>1 DEF Derived
  <2>3. answer[2] = ToMap(pool, "HDNodeType", derived)
    BY <2>2
  <2>4. PICK b : answer[2] = <<"map", b>> /\ FromMap(pool, "HDNodeType", b) = <<"message", derived>>
    BY <2>1, <2>2, <2>3, ContentReturns
  <2>5. answer[2][2] = b /\ FromMap(pool, "HDNodeType", b)[2] = derived
    BY <2>4
  <2> QED
    BY <2>2, <2>5
<1> QED
  BY <1>1, Invariant, PTL
=============================================================================
