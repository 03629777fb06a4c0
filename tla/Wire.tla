-------------------------------- MODULE Wire --------------------------------
(***************************************************************************)
(* One direction of a connection: a program builds packets and sends them, *)
(* the network delivers their bytes in pieces of any size, read_buffer     *)
(* looks for packets in what has arrived, and a handler takes them apart.  *)
(***************************************************************************)
EXTENDS PacketBuffer

CONSTANTS
  NULL,
  Fields,      \* the fields the sender puts into packets
  Forms,       \* <<kind, size>>: what a handler may try to read
  MaxFields,   \* the model's bound on the fields of a packet
  MaxPackets   \* the model's bound on the packets sent

(* What the programs put into packets, and what they may try to read.      *)
ASSUME FieldsAssumption ==
  /\ \A f \in Fields :
       \/ f \in [kind : {"int"}, size : {1, 2, 4}, value : Nat]
       \/ f \in [kind : {"bytes"}, size : Nat, value : Seq(0..255)] /\ f.size = Len(f.value)
       \/ f \in [kind : {"ntstring"}, size : Nat, value : Seq(1..255)]
  /\ Forms \subseteq {"int", "bytes", "ntstring"} \X Nat

VARIABLES
  out,       \* the packet under construction
  fields,    \* what was put into it
  sent,      \* for each packet sent: its image and its fields
  stream,    \* bytes written to the socket and not yet read
  arrived,   \* how many of them the receiver's host has
  closed,    \* the sender has closed its side or has ended
  pc,        \* where read_buffer, or the handler, is
  head,      \* the code and the length read so far
  packet,    \* the packet in the handler's hands, or NULL
  got,       \* what the handler has read from it
  received,  \* the images of the packets read_buffer has returned
  cut        \* how often it returned NULL for a packet that was not all there

sending   == <<out, fields, sent>>
network   == <<stream, arrived, closed>>
receiving == <<pc, head, packet, got, received, cut>>
vars == <<out, fields, sent, stream, arrived, closed,
          pc, head, packet, got, received, cut>>

NoHead == [code |-> 0, length |-> 0]

Init ==
  /\ out = create_buffer(1) /\ fields = << >> /\ sent = << >>
  /\ stream = << >> /\ arrived = 0 /\ closed = FALSE
  /\ pc = "header" /\ head = NoHead /\ packet = NULL /\ got = << >>
  /\ received = << >> /\ cut = 0

(***************************************************************************)
(* The sender.  Packets are numbered by their code.                        *)
(***************************************************************************)
Add(field) ==
  /\ ~closed /\ Len(sent) < MaxPackets /\ Len(fields) < MaxFields
  /\ out' = AddField(out, field)
  /\ fields' = Append(fields, field)
  /\ closed' = ~out'.valid
  /\ UNCHANGED <<sent, stream, arrived, receiving>>

Send ==
  /\ ~closed /\ Len(sent) < MaxPackets
  /\ stream' = stream \o Image(out)
  /\ sent' = Append(sent, [image |-> Image(out), fields |-> fields])
  /\ out' = create_buffer(Len(sent) + 2)
  /\ fields' = << >>
  /\ UNCHANGED <<arrived, closed, receiving>>

Close ==
  /\ ~closed
  /\ closed' = TRUE
  /\ UNCHANGED <<sending, stream, arrived, receiving>>

(* The network delivers in order, and as much at a time as it likes. *)
Deliver ==
  /\ arrived' \in (arrived + 1)..Len(stream)
  /\ UNCHANGED <<sending, stream, closed, receiving>>

(***************************************************************************)
(* read_buffer.  read(s, &byte, 1) waits for one byte.                     *)
(***************************************************************************)
Take(n) ==
  /\ stream' = SubSeq(stream, n + 1, Len(stream))
  /\ arrived' = arrived - n
  /\ UNCHANGED <<closed, sending>>

IsMark_ANY(byte) == TRUE
IsMark(byte) == byte = Mark

(* The byte for alignment; any other is discarded. *)
ReadHeader ==
  /\ pc = "header" /\ arrived > 0
  /\ Take(1)
  /\ pc' = IF IsMark(stream[1]) THEN "code" ELSE "header"
  /\ UNCHANGED <<head, packet, got, received, cut>>

ReadCode ==
  /\ pc = "code" /\ arrived > 0
  /\ Take(1)
  /\ pc' = "low"
  /\ head' = [code |-> stream[1], length |-> 0]
  /\ UNCHANGED <<packet, got, received, cut>>

ReadLow ==
  /\ pc = "low" /\ arrived > 0
  /\ Take(1)
  /\ pc' = "high"
  /\ head' = [head EXCEPT !.length = stream[1]]
  /\ UNCHANGED <<packet, got, received, cut>>

(* The length is complete; a connection with an impossible one is given up. *)
ReadHigh ==
  /\ pc = "high" /\ arrived > 0
  /\ Take(1)
  /\ LET length == head.length + 256 * stream[1]
     IN  /\ head' = [head EXCEPT !.length = length]
         /\ pc' = IF length \in HEADER..MAX_PACKET THEN "body" ELSE "gone"
  /\ UNCHANGED <<packet, got, received, cut>>

(* read(s, buf, length) returns what is there, at least one byte if any is *)
(* asked for.  Less than length is too little: what was read is dropped.   *)
IsWhole_ANY(amount) == TRUE
IsWhole(amount) == amount = head.length - HEADER

ReadBody ==
  /\ pc = "body"
  /\ arrived > 0 \/ head.length = HEADER
  /\ LET missing == head.length - HEADER
         amount  == IF arrived < missing THEN arrived ELSE missing
         whole   == create_buffer_data(head.code, SubSeq(stream, 1, amount))
     IN  /\ Take(amount)
         /\ \/ /\ IsWhole(amount)
               /\ packet' = whole
               /\ received' = Append(received, Image(whole))
               /\ pc' = "handler"
               /\ UNCHANGED cut
            \/ /\ ~IsWhole(amount)
               /\ cut' = cut + 1
               /\ pc' = "header"
               /\ UNCHANGED <<packet, received>>
  /\ head' = NoHead
  /\ UNCHANGED got

(* Nothing more comes: the first read of a call gives the connection up,   *)
(* a later one returns NULL.  The search for a header ends either way.     *)
ReadFails ==
  /\ closed /\ stream = << >>
  /\ pc \in {"header", "code", "low", "high", "body"}
  /\ ~(pc = "body" /\ head.length = HEADER)
  /\ pc' = IF pc = "header" THEN "gone" ELSE "header"
  /\ head' = NoHead
  /\ UNCHANGED <<packet, got, received, cut, network, sending>>

read_buffer ==
  ReadHeader \/ ReadCode \/ ReadLow \/ ReadHigh \/ ReadBody \/ ReadFails

(***************************************************************************)
(* The handler asks whether it can read what it expects, and reads it.     *)
(***************************************************************************)
Read(kind, size) ==
  /\ pc = "handler" /\ packet.valid
  /\ can_read(packet, kind, size)
  /\ packet' = Advance(packet, kind, size)
  /\ got' = Append(got, [kind |-> kind, size |-> size,
                         value |-> ValueOf(kind, Taken(packet, kind, size))])
  /\ UNCHANGED <<pc, head, received, cut, network, sending>>

destroy_buffer ==
  /\ pc = "handler" /\ packet.valid
  /\ packet' = NULL
  /\ got' = << >>
  /\ pc' = "header"
  /\ UNCHANGED <<head, received, cut, network, sending>>

Next ==
  \/ \E field \in Fields : Add(field)
  \/ Send \/ Close
  \/ Deliver
  \/ read_buffer
  \/ \E form \in Forms : Read(form[1], form[2])
  \/ destroy_buffer

Spec == Init /\ [][Next]_vars

(***************************************************************************)
(* Properties                                                              *)
(***************************************************************************)

(* add_int8 never writes outside the block that data points to, and no     *)
(* byte is lost from the count, at any size the 16 bits can or cannot      *)
(* express.                                                                *)
WritesInBounds ==
  /\ out.length <= out.max_length
  /\ out.length = Len(out.data) + HEADER

(* "These boolean functions check if there's enough bytes left in the      *)
(* buffer": a read they allow does not run into an assertion.              *)
GuardedReadsSucceed == packet # NULL => packet.valid

(* What a handler reads is what the sender put in, field by field, as long *)
(* as it reads the kinds that were written: strings with their unprintable *)
(* characters replaced, everything else unchanged.                         *)
RoundTrip ==
  \A i \in DOMAIN got :
    LET put == sent[packet.code].fields
        SameForm(j) == j \in DOMAIN put /\ got[j].kind = put[j].kind /\ got[j].size = put[j].size
    IN  (\A j \in 1..i : SameForm(j)) =>
          got[i].value = ValueOf(put[i].kind, BytesOf(put[i]))

(* Every packet read_buffer returns was sent, whole and in order, wherever *)
(* the network cut the bytes.                                              *)
IsSubSeq(s, t) ==
  \E f \in [DOMAIN s -> DOMAIN t] :
    /\ \A i \in DOMAIN s : s[i] = t[f[i]]
    /\ \A i, j \in DOMAIN s : i < j => f[i] < f[j]

ReadsWereSent == IsSubSeq(received, [i \in DOMAIN sent |-> sent[i].image])

(* "NULL on a recoverable error": a packet that was not all there costs    *)
(* itself and no other.  With everything read, each packet sent was        *)
(* returned or was cut.                                                    *)
CutsCostOne ==
  pc = "header" /\ stream = << >> => Len(received) + cut = Len(sent)
=============================================================================
