--------------------------- MODULE MCDeviceChannel ---------------------------
(* Instances of DeviceChannel for TLC: four bytes, of which 3 is '#'. *)
EXTENDS DeviceChannel

Message(type, body) == [type |-> type, body |-> body]

\* A body of nothing but header, and a message of an unknown type.
Tricky == {Message(2, <<3, 3>>), Message(7, <<0, 3>>)}

\* No 3 in type, length or body; one body is empty, one needs two reports.
Plain == {Message(2, <<>>), Message(10, <<0, 0, 2>>)}

\* Its length is accepted: padded, its last report overruns the buffer.
Long == Message(2, <<0, 0, 1, 0, 0, 0, 0, 0, 2>>)

Received == Tricky \cup Plain \cup {Long}

\* A last piece that is full and one of one byte, and digits htons must swap.
Written == {Message(2, <<>>), Message(9, <<3>>)}
=============================================================================
