---------------------------- MODULE PacketBuffer ----------------------------
(***************************************************************************)
(* packet_buffer.c: packets built and taken apart field by field.          *)
(*                                                                         *)
(* A buffer is a record: code, data (the bytes after the header), length   *)
(* (the header's length field, header included), max_length (the size of   *)
(* the block), position (the next byte to read, counted as in C from the   *)
(* start of the header) and valid (FALSE once an assertion has ended the   *)
(* program).  The 16 bits of the lengths are a parameter, so that a small  *)
(* instance reaches the end of their range.                                *)
(*                                                                         *)
(* A field is a record: kind, size and value.  An "int" of size bytes has  *)
(* a number as its value, "bytes" a sequence of size bytes, an "ntstring"  *)
(* a sequence of bytes other than zero.                                    *)
(***************************************************************************)
EXTENDS Integers, SequencesExt

CONSTANTS
  WIDTH,            \* bits of position, max_length and the length field
  STARTING_LENGTH,  \* the block create_buffer allocates
  MAX_PACKET        \* the longest packet read_buffer accepts

HEADER == 4
Mark   == 255       \* the first byte of every packet
Power2[k \in 0..WIDTH] == IF k = 0 THEN 1 ELSE 2 * Power2[k - 1]
Wrap(n) == n % Power2[WIDTH]

(* The first block is a power of two, so that doubling it again and again  *)
(* comes to exactly what WIDTH bits cannot hold; a length fits two bytes.  *)
ASSUME SizesAssumption ==
  /\ WIDTH \in Nat /\ MAX_PACKET \in Nat /\ Power2[WIDTH] <= 65536
  /\ \E k \in 0..(WIDTH - 1) : STARTING_LENGTH = Power2[k]
  /\ HEADER < STARTING_LENGTH
  /\ HEADER < MAX_PACKET /\ MAX_PACKET < Power2[WIDTH]

Weight == <<1, 256, 65536, 16777216>>
Little(n, size) == [i \in 1..size |-> (n \div Weight[i]) % 256]
FromLittle(s)   == FoldRight(LAMBDA byte, high : 256 * high + byte, s, 0)

(***************************************************************************)
(* Building                                                                *)
(***************************************************************************)
create_buffer(code) ==
  [code |-> code, data |-> << >>, length |-> HEADER,
   max_length |-> STARTING_LENGTH, position |-> HEADER, valid |-> TRUE]

create_buffer_data(code, data) ==
  [code |-> code, data |-> data, length |-> Wrap(Len(data) + HEADER),
   max_length |-> Wrap(Len(data) + HEADER), position |-> HEADER, valid |-> TRUE]

(* A full block is doubled; no block is left when the doubled size wraps   *)
(* to zero, and the assertion ends the program.                            *)
IsFull_LATE(buffer) == buffer.length > buffer.max_length
IsFull(buffer) == buffer.length = buffer.max_length

add_int8(buffer, byte) ==
  LET room == IF IsFull(buffer) THEN Wrap(2 * buffer.max_length) ELSE buffer.max_length
  IN  IF ~buffer.valid \/ room = 0
      THEN [buffer EXCEPT !.valid = FALSE]
      ELSE [buffer EXCEPT !.max_length = room,
                          !.data = Append(@, byte),
                          !.length = Wrap(@ + 1)]

(* add_int16, add_int32, add_ntstring and add_bytes. *)
BytesOf(field) ==
  CASE field.kind = "int"      -> Little(field.value, field.size)
    [] field.kind = "bytes"    -> field.value
    [] field.kind = "ntstring" -> Append(field.value, 0)

AddField(buffer, field) ==
  LET bytes == BytesOf(field)
      built[i \in 0..Len(bytes)] == IF i = 0 THEN buffer ELSE add_int8(built[i - 1], bytes[i])
  IN  built[Len(bytes)]

(* What send_buffer writes: the header and the data. *)
Image(buffer) == <<Mark, buffer.code>> \o Little(buffer.length, 2) \o buffer.data

(***************************************************************************)
(* Taking apart                                                            *)
(***************************************************************************)
Left(buffer) == SubSeq(buffer.data, buffer.position - HEADER + 1, Len(buffer.data))

(* can_read_int8, _int16, _int32, can_read_bytes and can_read_ntstring. *)
can_read_LAX(buffer, kind, size) == buffer.position <= buffer.length
can_read(buffer, kind, size) ==
  CASE kind = "int"      -> buffer.position + size <= buffer.length
    [] kind = "bytes"    -> buffer.position + size < buffer.length
    [] kind = "ntstring" -> 0 \in ToSet(Left(buffer))

(* read_next_ntstring reads up to the zero, but no more than the caller    *)
(* has room for; the callers have room for the whole packet.               *)
Room_HEADER(buffer) == HEADER - 1
Room(buffer) == buffer.length - 1

Extent(buffer, kind, size) ==
  IF kind = "ntstring"
  THEN LET zero == SelectInSeq(Left(buffer), LAMBDA byte : byte = 0)
       IN  IF zero \in 1..(Room(buffer) - 1) THEN zero ELSE Room(buffer) - 1
  ELSE size

Printed(byte) == IF byte = 0 \/ byte \in 32..127 THEN byte ELSE 46

(* The value read from the bytes taken: a number, the bytes themselves, or *)
(* a string of printable characters up to its zero.                        *)
ValueOf(kind, taken) ==
  CASE kind = "int"      -> FromLittle(taken)
    [] kind = "bytes"    -> taken
    [] kind = "ntstring" -> SelectSeq([i \in DOMAIN taken |-> Printed(taken[i])],
                                      LAMBDA byte : byte # 0)

Advance(buffer, kind, size) ==
  LET extent == Extent(buffer, kind, size)
  IN  IF extent <= Len(Left(buffer))
      THEN [buffer EXCEPT !.position = @ + extent]
      ELSE [buffer EXCEPT !.valid = FALSE]

Taken(buffer, kind, size) ==
  SubSeq(Left(buffer), 1, Min({Extent(buffer, kind, size), Len(Left(buffer))}))
=============================================================================
