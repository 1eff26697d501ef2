---------------------------- MODULE DeviceChannel ----------------------------
(***************************************************************************)
(* DeviceChannel and HIDBuffer (src/devices.cpp, src/devices.h): how a     *)
(* protocol message is cut into HID reports, and how the bytes of the      *)
(* reports that come back are buffered, aligned to the magic characters    *)
(* and put together to messages again, with a time-out at any byte.        *)
(*                                                                         *)
(* The constants scale the bytes, the 63 of a report and the 2048 of the   *)
(* buffer; a body is what protobuf made of a message.  The device's side   *)
(* is external: it sends whole messages, cut in one of three ways.         *)
(***************************************************************************)
EXTENDS Naturals, Sequences, SequencesExt, FiniteSetsExt

CONSTANTS
  Base,           \* a byte is a number below Base (256)
  Magic,          \* the byte '#'
  ChunkSize,      \* data bytes in a report (63)
  BufferSize,     \* HIDBuffer::BUFFER_SIZE (2048)
  LittleEndian,   \* BOOLEAN: does htons on this host swap bytes?
  Outgoing,       \* the messages the plug-in may write
  Incoming,       \* the messages the device may send
  MaxMessages,    \* bound: how many of them
  KnownTypes      \* the types in the MessageType enum of the wire protocol

Bytes == 0 .. Base - 1
Low(v) == v % Base         \* v & 0xFF
High(v) == v \div Base     \* v >> 8
Split16(v) == <<Low(v), Low(High(v))>>
Split32(v) == <<Low(v), Low(High(v)), Low(High(High(v))), Low(High(High(High(v))))>>
Join16(b) == b[1] + Base * b[2]
Join32(b) == b[1] + Base * (b[2] + Base * (b[3] + Base * b[4]))

\* They are ntohs and ntohl as well.
htons(v) == IF LittleEndian THEN Join16(Reverse(Split16(v))) ELSE v
htonl(v) == IF LittleEndian THEN Join32(Reverse(Split32(v))) ELSE v

\* What a message looks like on the wire, which is big-endian.
Wire(m) == <<Magic, Magic>> \o Reverse(Split16(m.type))
                            \o Reverse(Split32(Len(m.body))) \o m.body

ASSUME Alphabet == /\ Base \in Nat /\ Magic \in Bytes \ {0}
                   /\ ChunkSize \in Nat \ {0} /\ LittleEndian \in BOOLEAN
                   /\ MaxMessages \in Nat
ASSUME MessagesTyped ==
  \A m \in Outgoing \cup Incoming :
    /\ m = [type |-> m.type, body |-> m.body]
    /\ m.type \in 0 .. Base * Base - 1
    /\ m.body \in Seq(Bytes)
    /\ Len(m.body) < Base * (Base * (Base * Base))
\* The buffer takes a header, and the end of the report it ends in.
ASSUME HeaderFits == BufferSize \in Nat /\ 6 + ChunkSize - 1 <= BufferSize

VARIABLES
  pc,          \* "idle", or the call of HIDBuffer::read or write under way
  bytes,       \* what is being written
  i,           \* HIDBuffer::write's position in it
  chunks,      \* what each pass has put on the wire: a report, or Lost
  buffer,      \* HIDBuffer::_buffer, up to _buffer_length
  head,        \* the type and the length read_header found
  received,    \* the messages read (history)
  torn,        \* a read has ended without a message (history)
  sent,        \* the messages the device has sent (history)
  reports      \* its reports that have not been read yet

writeVars == <<bytes, i, chunks>>
readVars == <<buffer, head, received, torn>>
deviceVars == <<sent, reports>>
vars == <<pc, writeVars, readVars, deviceVars>>

NoHead == [type |-> 0, length |-> 0]
Reading == {"align", "second", "header", "body"}

Init ==
  /\ pc = "idle"
  /\ bytes = <<>> /\ i = 0 /\ chunks = <<>>
  /\ buffer = <<>> /\ head = NoHead /\ received = <<>> /\ torn = FALSE
  /\ sent = <<>> /\ reports = <<>>

-----------------------------------------------------------------------------
(* DeviceChannel::write and HIDBuffer::write.                              *)

\* The '#', '#', type, length and body of DeviceChannel::write.
OutBytes(m) ==
  <<Magic, Magic>> \o Split16(htons(m.type)) \o Split32(htonl(Len(m.body))) \o m.body

Write(m) ==
  /\ pc = "idle"
  /\ bytes' = OutBytes(m)
  /\ i' = 0
  /\ chunks' = <<>>
  /\ pc' = "write"
  /\ UNCHANGED <<readVars, deviceVars>>

Zeros(n) == [k \in 1 .. n |-> 0]

\* No report: hid_write has returned -1.
Lost == [first |-> 0, data |-> <<>>]

\* Faulty: the position moves by the size of the report, not of its data.
WriteChunkSkips ==
  /\ pc = "write"
  /\ i < Len(bytes)
  /\ LET ncopy == Min({ChunkSize, Len(bytes) - i})
         chunk == [first |-> ChunkSize,
                   data |-> SubSeq(bytes, i + 1, i + ncopy) \o Zeros(ChunkSize - ncopy)] IN
       \E onWire \in {chunk, Lost} : chunks' = Append(chunks, onWire)
  /\ i' = i + ChunkSize + 1
  /\ UNCHANGED <<pc, bytes, readVars, deviceVars>>

\* One pass of the loop; chunk[0] counts the padding, too.  The result is
\* compared with sizeof(chunk) as an unsigned number: -1 is not less, and the
\* loop goes on without the report.
WriteChunk ==
  /\ pc = "write"
  /\ i < Len(bytes)
  /\ LET ncopy == Min({ChunkSize, Len(bytes) - i})
         chunk == [first |-> ChunkSize,
                   data |-> SubSeq(bytes, i + 1, i + ncopy) \o Zeros(ChunkSize - ncopy)] IN
       \E onWire \in {chunk, Lost} : chunks' = Append(chunks, onWire)
  /\ i' = i + ChunkSize
  /\ UNCHANGED <<pc, bytes, readVars, deviceVars>>

\* hid_write came up short, with 0 to 63: WriteError.
WriteFails ==
  /\ pc = "write"
  /\ i < Len(bytes)
  /\ chunks' = <<>>
  /\ pc' = "idle"
  /\ UNCHANGED <<bytes, i, readVars, deviceVars>>

\* The loop has got through the message; the answer is awaited.
WriteDone ==
  /\ pc = "write"
  /\ i >= Len(bytes)
  /\ pc' = "align"
  /\ UNCHANGED <<writeVars, readVars, deviceVars>>

-----------------------------------------------------------------------------
(* HIDBuffer::read: reports are buffered until there are enough bytes.     *)

Needed == IF pc = "header" THEN 6 ELSE IF pc = "body" THEN head.length ELSE 1

\* chlen - 1, with chlen = std::min(res, int(chunk[0]) + 1).
Counted(chunk) == Min({1 + Len(chunk.data), chunk.first + 1}) - 1

\* Faulty: a report is read ahead of need.
BufferAhead ==
  /\ pc \in Reading
  /\ Len(buffer) <= Needed
  /\ reports # <<>>
  /\ buffer' = buffer \o SubSeq(Head(reports).data, 1, Counted(Head(reports)))
  /\ reports' = Tail(reports)
  /\ UNCHANGED <<pc, writeVars, head, received, torn, sent>>

\* res > 0: at most chunk[0] bytes of it count.  Nothing checks that they have
\* room in _buffer.
BufferReport ==
  /\ pc \in Reading
  /\ Len(buffer) < Needed
  /\ reports # <<>>
  /\ buffer' = buffer \o SubSeq(Head(reports).data, 1, Counted(Head(reports)))
  /\ reports' = Tail(reports)
  /\ UNCHANGED <<pc, writeVars, head, received, torn, sent>>

\* No report in time, or an error: what has been consumed is gone, what has
\* been buffered stays.
TimeOut ==
  /\ pc \in Reading
  /\ Len(buffer) < Needed
  /\ torn' = TRUE
  /\ pc' = "idle"
  /\ UNCHANGED <<writeVars, buffer, head, received, deviceVars>>

\* The first n bytes are copied out and the rest is shifted.
Shift(n) ==
  /\ Len(buffer) >= n
  /\ buffer' = SubSeq(buffer, n + 1, Len(buffer))

\* read_header: skip to the first magic character ...
Align ==
  /\ pc = "align"
  /\ Shift(1)
  /\ pc' = IF buffer[1] = Magic THEN "second" ELSE "align"
  /\ UNCHANGED <<writeVars, head, received, torn, deviceVars>>

\* ... the next must be one as well ...
Second ==
  /\ pc = "second"
  /\ Shift(1)
  /\ IF buffer[1] = Magic THEN pc' = "header" /\ UNCHANGED torn
                          ELSE pc' = "idle" /\ torn' = TRUE
  /\ UNCHANGED <<writeVars, head, received, deviceVars>>

\* Faulty: ntohs and ntohl are forgotten.
HeaderHostOrder ==
  /\ pc = "header"
  /\ Shift(6)
  /\ head' = [type |-> Join16(buffer), length |-> Join32(SubSeq(buffer, 3, 6))]
  /\ IF head'.length > BufferSize THEN pc' = "idle" /\ torn' = TRUE
                                  ELSE pc' = "body" /\ UNCHANGED torn
  /\ UNCHANGED <<writeVars, received, deviceVars>>

\* ... then type and length, which is checked against the buffer's size.
Header ==
  /\ pc = "header"
  /\ Shift(6)
  /\ head' = [type |-> htons(Join16(buffer)), length |-> htonl(Join32(SubSeq(buffer, 3, 6)))]
  /\ IF head'.length > BufferSize THEN pc' = "idle" /\ torn' = TRUE
                                  ELSE pc' = "body" /\ UNCHANGED torn
  /\ UNCHANGED <<writeVars, received, deviceVars>>

\* Faulty: the body is what has come of it so far.
BodyCutShort ==
  /\ pc = "body"
  /\ LET n == Min({head.length, Len(buffer)}) IN
       /\ Shift(n)
       /\ received' = IF head.type \notin KnownTypes THEN received
                      ELSE Append(received, [type |-> head.type,
                                             body |-> SubSeq(buffer, 1, n)])
  /\ pc' = "idle"
  /\ UNCHANGED <<writeVars, head, torn, deviceVars>>

\* The message of a known type, or MessageTypeUnknown.
Body ==
  /\ pc = "body"
  /\ Shift(head.length)
  /\ received' = IF head.type \notin KnownTypes THEN received
                 ELSE Append(received, [type |-> head.type,
                                        body |-> SubSeq(buffer, 1, head.length)])
  /\ pc' = "idle"
  /\ UNCHANGED <<writeVars, head, torn, deviceVars>>

-----------------------------------------------------------------------------
(* The device.                                                             *)

Pieces(w) == (Len(w) + ChunkSize - 1) \div ChunkSize
Piece(w, k) == SubSeq(w, (k - 1) * ChunkSize + 1, Min({k * ChunkSize, Len(w)}))

\* A report counts its padding, or excludes it, or is cut short.
Report(piece, style) ==
  LET padded == piece \o Zeros(ChunkSize - Len(piece)) IN
    CASE style = "padded"  -> [first |-> ChunkSize, data |-> padded]
      [] style = "counted" -> [first |-> Len(piece), data |-> padded]
      [] style = "short"   -> [first |-> ChunkSize, data |-> piece]

Reports(w, style) == [k \in 1 .. Pieces(w) |-> Report(Piece(w, k), style)]

DeviceSends(m) ==
  /\ Len(sent) < MaxMessages
  /\ sent' = Append(sent, m)
  /\ \E style \in {"padded", "counted", "short"} :
       reports' = reports \o Reports(Wire(m), style)
  /\ UNCHANGED <<pc, writeVars, readVars>>
-----------------------------------------------------------------------------
\* Bytes have been written behind the end of _buffer.  What the program does
\* from there on is undefined: the model reads no further.
Overrun == Len(buffer) > BufferSize

Next ==
  \/ \E m \in Outgoing : Write(m)
  \/ WriteChunk \/ WriteFails \/ WriteDone
  \/ ~Overrun /\ (BufferReport \/ TimeOut \/ Align \/ Second \/ Header \/ Body)
  \/ \E m \in Incoming : DeviceSends(m)

Spec == Init /\ [][Next]_vars
-----------------------------------------------------------------------------
(* Properties.                                                             *)

\* When the answer is awaited, each pass has put its part of the message on the
\* wire, big-endian, only the last one padded, with zeros, and no part of the
\* message is missing but those hid_write returned -1 for (devices.cpp:89-101,
\* 171-195).
WrittenWhole ==
  pc \in Reading =>
    \E m \in Outgoing :
      LET padding == ChunkSize * Len(chunks) - Len(Wire(m))
          padded == Wire(m) \o Zeros(padding) IN
        /\ padding \in 0 .. ChunkSize - 1
        /\ \A k \in DOMAIN chunks : chunks[k] # Lost =>
             chunks[k].data = SubSeq(padded, (k - 1) * ChunkSize + 1, k * ChunkSize)

\* The first n messages of the device's, without those of an unknown type.
KnownSent(n) == {k \in 1 .. n : sent[k].type \in KnownTypes}

\* Each message read is the one of the device's that `at` says, in their order.
ReadFrom(at) ==
  /\ \A j \in DOMAIN received : received[j] = sent[at[j]]
  /\ \A j, k \in DOMAIN received : j < k => at[j] < at[k]

\* However the device cuts its messages, and whatever bytes are in them, they
\* are read whole and in order until a read goes wrong (devices.cpp:34-77).
ReadInOrder ==
  ~torn => \E n \in 0 .. Len(sent) :
             \E at \in Surjection(DOMAIN received, KnownSent(n)) : ReadFrom(at)

\* No magic character beyond the first two of a message.
Unmistakable(messages) ==
  \A j \in DOMAIN messages :
    Magic \notin Range(SubSeq(Wire(messages[j]), 3, Len(Wire(messages[j]))))

\* A read that times out at any byte costs messages, but no message is made up
\* of the pieces: reading aligns itself (devices.cpp:204-208).
NothingMadeUp ==
  Unmistakable(sent) => \E at \in [DOMAIN received -> KnownSent(Len(sent))] : ReadFrom(at)

\* _buffer is overrun by nothing but a body of a length that is accepted and
\* leaves no room for the report it ends in, 1987 to 2048 (devices.cpp:34-46,
\* 156): a device that sends no message that long never overruns it.
BufferFits ==
  Overrun =>
    /\ head.length \in BufferSize - ChunkSize + 2 .. BufferSize
    /\ Unmistakable(sent) => \E j \in DOMAIN sent : Len(sent[j].body) = head.length
=============================================================================
