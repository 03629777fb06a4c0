------------------------------- MODULE MCWire -------------------------------
(* The wire on a small instance: lengths of 5 bits, blocks of 8 bytes that *)
(* double once before the next doubling wraps, packets up to 14 bytes.     *)
EXTENDS Wire

Number(size, n) == [kind |-> "int", size |-> size, value |-> n]
Bytes(s)     == [kind |-> "bytes", size |-> Len(s), value |-> s]
Text(s)      == [kind |-> "ntstring", size |-> 0, value |-> s]

MCForms == {<<"int", 1>>, <<"int", 2>>, <<"bytes", 6>>, <<"ntstring", 0>>}

(* No byte of the data looks like the first byte of a packet. *)
Unmarked == {Number(2, 772), Bytes(<<65, 0, 5, 0, 66, 7>>), Text(<<65, 7, 66, 67, 68, 69>>)}

(* A hash in which a packet seems to start. *)
Marked == {Bytes(<<3, 255, 9, 4, 0, 8>>)}
=============================================================================
