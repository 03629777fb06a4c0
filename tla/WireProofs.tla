----------------------------- MODULE WireProofs -----------------------------
(***************************************************************************)
(* Theorems about Wire: for any 16-bit-like width, any first block, any    *)
(* fields, any number of packets, and a network that delivers as it likes. *)
(***************************************************************************)
EXTENDS Wire, SequenceTheorems, Recursion

Byte == 0..255

(* The bytes that packets have behind their headers. *)
Data == {byte \in Byte : \E f \in Fields : \E i \in DOMAIN BytesOf(f) : byte = BytesOf(f)[i]}

(***************************************************************************)
(* Sizes of blocks                                                         *)
(***************************************************************************)
Blocks == {Power2[k] : k \in 0..(WIDTH - 1)}

LEMMA PowersDouble ==
  /\ Power2[0] = 1 /\ \A k \in 0..WIDTH : Power2[k] \in Nat /\ Power2[k] > 0
  /\ \A k \in 1..WIDTH : Power2[k] = 2 * Power2[k - 1]
<1> DEFINE T == Nat \ {0}
           step == [i \in 1..WIDTH |-> [x \in T |-> 2 * x]]
           Unfolds(g) == g = [k \in 0..WIDTH |-> IF k = 0 THEN 1 ELSE 2 * g[k - 1]]
<1>1. WIDTH \in Nat
  BY SizesAssumption
<1>2. step \in Steps(WIDTH, T) /\ 1 \in T
  BY DEF Steps
<1>3. PICK g : Runs(g, WIDTH, T, 1, step)
  <2> HIDE DEF step, T
  <2> QED
    BY <1>1, <1>2, RecursiveFunction
<1>4. g \in [0..WIDTH -> T] /\ g[0] = 1 /\ \A k \in 1..WIDTH : g[k] = step[k][g[k - 1]]
  BY <1>3 DEF Runs
<1>5. \A k \in 1..WIDTH : g[k] = 2 * g[k - 1]
  <2> TAKE k \in 1..WIDTH
  <2>1. k - 1 \in 0..WIDTH
    BY <1>1
  <2>2. g[k - 1] \in T
    BY <1>4, <2>1
  <2> QED
    BY <1>4, <2>2
<1>6. Unfolds(g)
  <2>1. \A k \in 0..WIDTH : k # 0 => k \in 1..WIDTH
    BY <1>1
  <2>2. \A k \in 0..WIDTH : g[k] = IF k = 0 THEN 1 ELSE 2 * g[k - 1]
    BY <1>4, <1>5, <2>1
  <2> QED
    BY <1>4, <2>2
<1>7. Unfolds(Power2)
  BY <1>6 DEF Power2
<1>8. /\ 0 \in 0..WIDTH /\ \A k \in 1..WIDTH : k \in 0..WIDTH /\ k # 0
  BY <1>1
<1>9. Power2[0] = 1 /\ \A k \in 1..WIDTH : Power2[k] = 2 * Power2[k - 1]
  BY <1>7, <1>8
<1>10. \A k \in 1..WIDTH : Power2[k - 1] \in T => Power2[k] \in T
  BY <1>9
<1>11. Power2[0] \in T
  BY <1>9
<1> HIDE DEF T
<1>12. \A k \in 0..WIDTH : Power2[k] \in T
  BY <1>1, <1>10, <1>11, PassedOn
<1> QED
  BY <1>9, <1>12 DEF T

LEMMA PowersBelow == \A k \in 0..WIDTH : Power2[k] <= Power2[WIDTH]
<1>1. WIDTH \in Nat
  BY SizesAssumption
<1> DEFINE S == {i \in 0..WIDTH : Power2[WIDTH - i] <= Power2[WIDTH]}
<1>2. 0 \in S
  BY <1>1, PowersDouble
<1>3. ASSUME NEW i \in 0..(WIDTH - 1), i \in S PROVE i + 1 \in S
  <2>1. WIDTH - i \in 1..WIDTH /\ (WIDTH - i) - 1 = WIDTH - (i + 1) /\ WIDTH - (i + 1) \in 0..WIDTH
    BY <1>1
  <2>2. Power2[WIDTH - i] = 2 * Power2[WIDTH - (i + 1)]
    BY <2>1, PowersDouble
  <2>3. Power2[WIDTH - (i + 1)] \in Nat /\ Power2[WIDTH] \in Nat /\ Power2[WIDTH - i] \in Nat
    BY <1>1, <2>1, PowersDouble
  <2>4. Power2[WIDTH - i] <= Power2[WIDTH]
    BY <1>3
  <2> QED
    BY <1>1, <2>2, <2>3, <2>4
<1> HIDE DEF S
<1>4. 0..WIDTH \subseteq S
  BY <1>1, <1>2, <1>3, IntervalInduction
<1> QED
  <2> TAKE k \in 0..WIDTH
  <2>1. WIDTH - k \in 0..WIDTH /\ WIDTH - (WIDTH - k) = k
    BY <1>1
  <2> QED
    BY <1>4, <2>1 DEF S

LEMMA Remainders ==
  ASSUME NEW R \in Nat, R > 0
  PROVE  (\A n \in 0..(R - 1) : n % R = n) /\ R % R = 0
OBVIOUS

(* A block that is doubled is a block again, or comes to nothing. *)
LEMMA Doubled ==
  ASSUME NEW b \in Blocks
  PROVE  /\ b \in Nat /\ b > 0 /\ b < Power2[WIDTH]
         /\ Wrap(2 * b) # 0 => Wrap(2 * b) = 2 * b /\ 2 * b \in Blocks
<1>1. WIDTH \in Nat
  BY SizesAssumption
<1>2. PICK k \in 0..(WIDTH - 1) : b = Power2[k]
  BY DEF Blocks
<1>3. k \in 0..WIDTH /\ k + 1 \in 1..WIDTH /\ k + 1 \in 0..WIDTH /\ (k + 1) - 1 = k /\ WIDTH \in 0..WIDTH
  BY <1>1
<1>4. /\ b \in Nat /\ b > 0 /\ Power2[k + 1] = 2 * b /\ Power2[WIDTH] \in Nat /\ Power2[WIDTH] > 0
  BY <1>2, <1>3, PowersDouble
<1>5. 2 * b <= Power2[WIDTH]
  BY <1>3, <1>4, PowersBelow
<1>6. CASE 2 * b = Power2[WIDTH]
  <2>1. Wrap(2 * b) = 0
    BY <1>4, <1>6, Remainders DEF Wrap
  <2> QED
    BY <1>4, <1>5, <2>1
<1>7. CASE 2 * b < Power2[WIDTH]
  <2>1. Wrap(2 * b) = 2 * b
    <3>1. 2 * b \in 0..(Power2[WIDTH] - 1)
      BY <1>4, <1>7
    <3> QED
      BY <1>4, <3>1, Remainders DEF Wrap
  <2>2. k + 1 # WIDTH
    BY <1>4, <1>7
  <2>3. k + 1 \in 0..(WIDTH - 1)
    BY <1>1, <2>2
  <2>4. 2 * b \in Blocks
    BY <1>4, <2>3 DEF Blocks
  <2> QED
    BY <1>4, <1>7, <2>1, <2>4
<1> QED
  BY <1>4, <1>5, <1>6, <1>7

LEMMA WrapsNot ==
  ASSUME NEW n \in Nat, n < Power2[WIDTH]
  PROVE  Wrap(n) = n
<1>1. WIDTH \in 0..WIDTH
  BY SizesAssumption
<1>2. Power2[WIDTH] \in Nat /\ Power2[WIDTH] > 0
  BY <1>1, PowersDouble
<1>3. n \in 0..(Power2[WIDTH] - 1)
  BY <1>2
<1> QED
  BY <1>2, <1>3, Remainders DEF Wrap

(***************************************************************************)
(* Bytes                                                                   *)
(***************************************************************************)
LEMMA ByteNat == Byte \subseteq Nat /\ \A n \in Nat : n % 256 \in Byte
BY DEF Byte

LEMMA Widened ==
  ASSUME NEW S, NEW T, S \subseteq T, NEW s \in Seq(S)
  PROVE  s \in Seq(T)
<1>1. \A i \in 1..Len(s) : s[i] \in T
  OBVIOUS
<1>2. s = [i \in 1..Len(s) |-> s[i]] /\ Len(s) \in Nat
  OBVIOUS
<1> QED
  BY <1>1, <1>2

LEMMA LittleBytes ==
  ASSUME NEW n \in Nat, NEW size \in {1, 2, 4}
  PROVE  Little(n, size) \in Seq(Byte) /\ Len(Little(n, size)) = size
<1>1. \A i \in 1..size : Weight[i] \in Nat /\ Weight[i] > 0
  BY DEF Weight
<1>2. ASSUME NEW w \in Nat, w > 0 PROVE (n \div w) % 256 \in Byte
  <2>1. n \div w \in Nat
    BY <1>2
  <2> QED
    BY <2>1, ByteNat
<1>3. \A i \in 1..size : (n \div Weight[i]) % 256 \in Byte
  BY <1>1, <1>2
<1> QED
  BY <1>3 DEF Little

(* Two bytes hold a length. *)
LEMMA TwoBytes ==
  ASSUME NEW n \in Nat, n < 65536
  PROVE  /\ Little(n, 2) \in Seq(Byte) /\ Len(Little(n, 2)) = 2
         /\ Little(n, 2)[1] + 256 * Little(n, 2)[2] = n
<1>1. n \div 256 \in Nat
  OBVIOUS
<1>2. n \div 256 <= 255
  OBVIOUS
<1>3. n = 256 * (n \div 256) + (n % 256)
  OBVIOUS
<1>4. (n \div 256) % 256 = n \div 256
  <2>1. n \div 256 \in 0..(256 - 1)
    BY <1>1, <1>2
  <2> QED
    BY <2>1, Remainders
<1>5. n \div 1 = n
  OBVIOUS
<1>6. Little(n, 2)[1] = n % 256 /\ Little(n, 2)[2] = n \div 256
  BY <1>4, <1>5 DEF Little, Weight
<1>7. n % 256 \in Nat
  OBVIOUS
<1> QED
  BY <1>1, <1>3, <1>6, <1>7, LittleBytes

LEMMA FieldBytes ==
  ASSUME NEW f \in Fields
  PROVE  BytesOf(f) \in Seq(Data)
<1> SUFFICES BytesOf(f) \in Seq(Byte)
  BY DEF Data
<1>1. CASE f \in [kind : {"int"}, size : {1, 2, 4}, value : Nat]
  BY <1>1, LittleBytes DEF BytesOf
<1>2. CASE f \in [kind : {"bytes"}, size : Nat, value : Seq(0..255)]
  BY <1>2 DEF BytesOf, Byte
<1>3. CASE f \in [kind : {"ntstring"}, size : Nat, value : Seq(1..255)]
  <2>1. f.value \in Seq(Byte)
    BY <1>3 DEF Byte
  <2>2. BytesOf(f) = Append(f.value, 0)
    BY <1>3 DEF BytesOf
  <2> QED
    BY <2>1, <2>2 DEF Byte
<1> QED
  BY <1>1, <1>2, <1>3, FieldsAssumption

(***************************************************************************)
(* Building a packet                                                       *)
(***************************************************************************)

(* A buffer under construction: the length is that of the data, and the    *)
(* block has room for it.                                                  *)
Buffers == [code : Nat, data : Seq(Data), length : Nat, max_length : Blocks,
            position : {HEADER}, valid : BOOLEAN]
Sound(b) == b \in Buffers /\ b.length = Len(b.data) + HEADER /\ b.length <= b.max_length

LEMMA CreatedSound ==
  ASSUME NEW code \in Nat
  PROVE  /\ Sound(create_buffer(code)) /\ create_buffer(code).valid
         /\ create_buffer(code).code = code /\ create_buffer(code).data = << >>
<1>1. WIDTH \in Nat /\ STARTING_LENGTH \in Blocks /\ HEADER < STARTING_LENGTH
  BY SizesAssumption DEF Blocks
<1>2. STARTING_LENGTH \in Nat
  BY <1>1, Doubled
<1> QED
  BY <1>1, <1>2 DEF create_buffer, Sound, Buffers, HEADER

LEMMA ByteSound ==
  ASSUME NEW b, Sound(b), NEW byte \in Data
  PROVE  /\ Sound(add_int8(b, byte)) /\ add_int8(b, byte).code = b.code
         /\ add_int8(b, byte).valid => b.valid /\ add_int8(b, byte).data = Append(b.data, byte)
<1> DEFINE room == IF IsFull(b) THEN Wrap(2 * b.max_length) ELSE b.max_length
           after == [b EXCEPT !.max_length = room, !.data = Append(b.data, byte),
                              !.length = Wrap(b.length + 1)]
<1>1. b \in Buffers /\ b.length = Len(b.data) + HEADER /\ b.length <= b.max_length
  BY DEF Sound
<1>2. b.max_length \in Blocks /\ b.length \in Nat /\ b.data \in Seq(Data) /\ b.code \in Nat
  BY <1>1 DEF Buffers
<1>3. CASE ~b.valid \/ room = 0
  <2>1. add_int8(b, byte) = [b EXCEPT !.valid = FALSE]
    BY <1>3 DEF add_int8
  <2> QED
    BY <1>1, <2>1 DEF Sound, Buffers
<1>4. CASE b.valid /\ room # 0
  <2>1. add_int8(b, byte) = after
    BY <1>4 DEF add_int8
  <2>2. /\ b.max_length \in Nat /\ b.max_length > 0 /\ b.max_length < Power2[WIDTH]
        /\ Wrap(2 * b.max_length) # 0 => Wrap(2 * b.max_length) = 2 * b.max_length /\ 2 * b.max_length \in Blocks
    BY <1>2, Doubled
  <2>3. room \in Blocks /\ b.length + 1 <= room
    <3>1. CASE IsFull(b)
      BY <1>1, <1>2, <1>4, <2>2, <3>1 DEF IsFull
    <3>2. CASE ~IsFull(b)
      BY <1>1, <1>2, <1>4, <2>2, <3>2 DEF IsFull
    <3> QED
      BY <3>1, <3>2
  <2>4. room \in Nat /\ room < Power2[WIDTH]
    <3> HIDE DEF room
    <3> QED
      BY <2>3, Doubled
  <2> HIDE DEF room
  <2>5. Power2[WIDTH] \in Nat
    <3>1. WIDTH \in 0..WIDTH
      BY SizesAssumption
    <3> QED
      BY <3>1, PowersDouble
  <2>6. Wrap(b.length + 1) = b.length + 1
    BY <1>2, <2>3, <2>4, <2>5, WrapsNot
  <2>7. /\ after \in Buffers /\ after.length = b.length + 1 /\ after.max_length = room
        /\ after.data = Append(b.data, byte) /\ after.code = b.code
    <3>1. Append(b.data, byte) \in Seq(Data) /\ b.length + 1 \in Nat
      BY <1>2
    <3> DEFINE d == Append(b.data, byte)
    <3> HIDE DEF d
    <3>2. d \in Seq(Data) => [b EXCEPT !.max_length = room, !.data = d, !.length = b.length + 1] \in Buffers
      BY <1>1, <2>3, <3>1 DEF Buffers
    <3>3. after = [b EXCEPT !.max_length = room, !.data = d, !.length = b.length + 1]
      BY <2>6 DEF d
    <3> HIDE DEF after
    <3>4. /\ after.length = b.length + 1 /\ after.max_length = room
          /\ after.data = d /\ after.code = b.code
      BY <1>1, <3>3 DEF Buffers
    <3> QED
      BY <3>1, <3>2, <3>3, <3>4 DEF d
  <2>8. Len(Append(b.data, byte)) = Len(b.data) + 1 /\ Len(b.data) \in Nat
    BY <1>2
  <2> HIDE DEF after
  <2> QED
    BY <1>1, <1>4, <2>1, <2>3, <2>7, <2>8 DEF Sound, HEADER
<1> QED
  BY <1>3, <1>4

(* A sequence with the first i of some bytes after it. *)
Longer(t, s, bytes, i) ==
  /\ Len(t) = Len(s) + i
  /\ \A j \in 1..Len(s) : t[j] = s[j]
  /\ \A j \in 1..i : t[Len(s) + j] = bytes[j]

LEMMA OneLonger ==
  ASSUME NEW S, NEW s \in Seq(S), NEW t \in Seq(S), NEW bytes, NEW i \in Nat, Longer(t, s, bytes, i),
         bytes[i + 1] \in S
  PROVE  Longer(Append(t, bytes[i + 1]), s, bytes, i + 1)
<1> DEFINE g == Append(t, bytes[i + 1])
<1>1. /\ Len(g) = Len(t) + 1 /\ g[Len(t) + 1] = bytes[i + 1]
      /\ \A j \in 1..Len(t) : g[j] = t[j]
  BY AppendProperties
<1>2. /\ Len(t) = Len(s) + i /\ \A j \in 1..Len(s) : t[j] = s[j]
      /\ \A j \in 1..i : t[Len(s) + j] = bytes[j]
  BY DEF Longer
<1>3. Len(s) \in Nat /\ Len(t) \in Nat
  OBVIOUS
<1> HIDE DEF g
<1>4. Len(g) = Len(s) + (i + 1)
  BY <1>1, <1>2, <1>3
<1>5. \A j \in 1..Len(s) : g[j] = s[j]
  BY <1>1, <1>2, <1>3
<1>6. \A j \in 1..i : g[Len(s) + j] = bytes[j]
  <2> TAKE j \in 1..i
  <2>1. Len(s) + j \in 1..Len(t)
    BY <1>2, <1>3
  <2> QED
    BY <1>1, <1>2, <2>1
<1>7. g[Len(s) + (i + 1)] = bytes[i + 1]
  <2>1. Len(s) + (i + 1) = Len(t) + 1
    BY <1>2, <1>3
  <2> QED
    BY <1>1, <2>1
<1>8. \A j \in 1..(i + 1) : j \in 1..i \/ j = i + 1
  OBVIOUS
<1>9. \A j \in 1..(i + 1) : g[Len(s) + j] = bytes[j]
  BY <1>6, <1>7, <1>8
<1> QED
  BY <1>4, <1>5, <1>9 DEF Longer, g

LEMMA LongerWhole ==
  ASSUME NEW S, NEW s \in Seq(S), NEW t \in Seq(S), NEW bytes \in Seq(S), Longer(t, s, bytes, Len(bytes))
  PROVE  t = s \o bytes
<1>1. /\ Len(t) = Len(s) + Len(bytes) /\ \A j \in 1..Len(s) : t[j] = s[j]
      /\ \A j \in 1..Len(bytes) : t[Len(s) + j] = bytes[j]
  BY DEF Longer
<1>2. Len(s) \in Nat /\ Len(bytes) \in Nat
  OBVIOUS
<1> DEFINE c == s \o bytes
<1>3. /\ c \in Seq(S) /\ Len(c) = Len(s) + Len(bytes)
      /\ \A j \in 1..(Len(s) + Len(bytes)) : c[j] = IF j <= Len(s) THEN s[j] ELSE bytes[j - Len(s)]
  BY ConcatProperties
<1> HIDE DEF c
<1>4. ASSUME NEW j \in 1..Len(t) PROVE t[j] = c[j]
  <2>1. CASE j <= Len(s)
    BY <1>1, <1>2, <1>3, <2>1
  <2>2. CASE ~(j <= Len(s))
    <3>1. j - Len(s) \in 1..Len(bytes) /\ Len(s) + (j - Len(s)) = j /\ j \in 1..(Len(s) + Len(bytes))
      BY <1>1, <1>2, <2>2
    <3>2. t[Len(s) + (j - Len(s))] = bytes[j - Len(s)]
      BY <1>1, <3>1
    <3> QED
      BY <1>3, <2>2, <3>1, <3>2
  <2> QED
    BY <2>1, <2>2
<1>5. t = c
  BY <1>1, <1>3, <1>4, SeqEqual
<1> QED
  BY <1>5 DEF c

(* The first i bytes added to a buffer. *)
Grown(e, b, bytes, i) ==
  /\ Sound(e) /\ e.code = b.code
  /\ e.valid => b.valid /\ Longer(e.data, b.data, bytes, i)

LEMMA Grows ==
  ASSUME NEW b, NEW bytes, NEW i \in Nat, NEW e, Grown(e, b, bytes, i), bytes[i + 1] \in Data,
         b.data \in Seq(Data)
  PROVE  Grown(add_int8(e, bytes[i + 1]), b, bytes, i + 1)
<1> DEFINE g == add_int8(e, bytes[i + 1])
<1>1. Sound(e) /\ e.code = b.code /\ e.data \in Seq(Data)
  BY DEF Grown, Sound, Buffers
<1>2. Sound(g) /\ g.code = e.code /\ (g.valid => e.valid /\ g.data = Append(e.data, bytes[i + 1]))
  BY <1>1, ByteSound
<1> HIDE DEF g
<1>3. ASSUME g.valid PROVE b.valid /\ Longer(g.data, b.data, bytes, i + 1)
  <2>1. b.valid /\ Longer(e.data, b.data, bytes, i)
    BY <1>2, <1>3 DEF Grown
  <2> QED
    BY <1>1, <1>2, <1>3, <2>1, OneLonger
<1> QED
  BY <1>1, <1>2, <1>3 DEF Grown, g

LEMMA FieldSound ==
  ASSUME NEW b, Sound(b), NEW f \in Fields
  PROVE  Grown(AddField(b, f), b, BytesOf(f), Len(BytesOf(f)))
<1> DEFINE bytes == BytesOf(f)
           n == Len(bytes)
           Unfolds(g) == g = [i \in 0..n |-> IF i = 0 THEN b ELSE add_int8(g[i - 1], bytes[i])]
           built == CHOOSE g : Unfolds(g)
           T == {e \in Buffers : Sound(e)}
           step == [i \in 1..n |-> [x \in T |-> add_int8(x, bytes[i])]]
<1>1. bytes \in Seq(Data) /\ n \in Nat
  BY FieldBytes
<1>2. AddField(b, f) = built[n]
  BY DEF AddField
<1> HIDE DEF bytes
<1>3. \A i \in 1..n : bytes[i] \in Data
  BY <1>1
<1>4. b \in T
  BY DEF Sound
<1>5. step \in Steps(n, T)
  <2>1. \A i \in 1..n : \A x \in T : add_int8(x, bytes[i]) \in T
    BY <1>3, ByteSound DEF Sound
  <2> HIDE DEF T
  <2> QED
    BY <2>1 DEF Steps
<1>6. PICK g : Runs(g, n, T, b, step)
  <2> HIDE DEF n, step, T
  <2> QED
    BY <1>1, <1>4, <1>5, RecursiveFunction
<1>7. g \in [0..n -> T] /\ g[0] = b /\ \A i \in 1..n : g[i] = step[i][g[i - 1]]
  BY <1>6 DEF Runs
<1> HIDE DEF T
<1>8. Unfolds(g)
  <2>1. \A i \in 1..n : g[i] = add_int8(g[i - 1], bytes[i])
    <3> TAKE i \in 1..n
    <3>1. i - 1 \in 0..n
      BY <1>1
    <3>2. g[i - 1] \in T
      BY <1>7, <3>1
    <3> QED
      BY <1>7, <3>2
  <2>2. \A i \in 0..n : i # 0 => i \in 1..n
    BY <1>1
  <2>3. \A i \in 0..n : g[i] = IF i = 0 THEN b ELSE add_int8(g[i - 1], bytes[i])
    BY <1>7, <2>1, <2>2
  <2> QED
    BY <1>7, <2>3
<1>9. Unfolds(built)
  BY <1>8
<1> HIDE DEF built
<1>10. built[0] = b /\ \A i \in 1..n : built[i] = add_int8(built[i - 1], bytes[i])
  <2>1. 0 \in 0..n /\ \A i \in 1..n : i \in 0..n /\ i # 0
    BY <1>1
  <2> QED
    BY <1>9, <2>1
<1> DEFINE S == {i \in 0..n : Grown(built[i], b, bytes, i)}
<1>11. b.data \in Seq(Data)
  BY DEF Sound, Buffers
<1>12. 0 \in S
  <2>1. Grown(b, b, bytes, 0)
    <3>1. Len(b.data) \in Nat
      BY <1>11
    <3> QED
      BY <3>1 DEF Grown, Longer
  <2> QED
    BY <1>1, <1>10, <2>1
<1>13. ASSUME NEW i \in 0..(n - 1), i \in S PROVE i + 1 \in S
  <2>1. i + 1 \in 1..n /\ (i + 1) - 1 = i /\ i + 1 \in 0..n /\ i \in Nat
    BY <1>1
  <2>2. built[i + 1] = add_int8(built[i], bytes[i + 1])
    BY <1>10, <2>1
  <2>3. Grown(built[i], b, bytes, i) /\ bytes[i + 1] \in Data
    BY <1>3, <1>13, <2>1
  <2> QED
    BY <1>11, <2>1, <2>2, <2>3, Grows
<1> HIDE DEF S
<1>14. 0..n \subseteq S
  <2> HIDE DEF n
  <2> QED
    BY <1>1, <1>12, <1>13, IntervalInduction
<1>15. n \in 0..n
  BY <1>1
<1> QED
  BY <1>2, <1>14, <1>15 DEF S, bytes

LEMMA FieldAdded ==
  ASSUME NEW b, Sound(b), NEW f \in Fields
  PROVE  /\ Sound(AddField(b, f)) /\ AddField(b, f).code = b.code
         /\ AddField(b, f).valid => AddField(b, f).data = b.data \o BytesOf(f)
<1> DEFINE e == AddField(b, f)
<1>1. Grown(e, b, BytesOf(f), Len(BytesOf(f)))
  BY FieldSound
<1> HIDE DEF e
<1>2. Sound(e) /\ e.code = b.code /\ e.data \in Seq(Data) /\ b.data \in Seq(Data) /\ BytesOf(f) \in Seq(Data)
  BY <1>1, FieldBytes DEF Grown, Sound, Buffers
<1>3. e.valid => Longer(e.data, b.data, BytesOf(f), Len(BytesOf(f)))
  BY <1>1 DEF Grown
<1>4. e.valid => e.data = b.data \o BytesOf(f)
  BY <1>2, <1>3, LongerWhole
<1> QED
  BY <1>2, <1>4 DEF e

(***************************************************************************)
(* A packet's bytes                                                        *)
(***************************************************************************)
Framed(code, data) == <<Mark, code>> \o Little(Len(data) + HEADER, 2) \o data
Fits(data) == Len(data) + HEADER < Power2[WIDTH]

LEMMA Joined ==
  ASSUME NEW S, NEW s \in Seq(S), NEW t \in Seq(S)
  PROVE  /\ s \o t \in Seq(S) /\ Len(s \o t) = Len(s) + Len(t)
         /\ \A j \in 1..Len(s) : (s \o t)[j] = s[j]
         /\ \A j \in 1..Len(t) : (s \o t)[Len(s) + j] = t[j]
<1> DEFINE c == s \o t
<1>1. /\ c \in Seq(S) /\ Len(c) = Len(s) + Len(t)
      /\ \A j \in 1..(Len(s) + Len(t)) : c[j] = IF j <= Len(s) THEN s[j] ELSE t[j - Len(s)]
  BY ConcatProperties
<1> HIDE DEF c
<1>2. Len(s) \in Nat /\ Len(t) \in Nat
  OBVIOUS
<1>3. \A j \in 1..Len(s) : j \in 1..(Len(s) + Len(t)) /\ j <= Len(s)
  BY <1>2
<1>4. \A j \in 1..Len(t) : /\ Len(s) + j \in 1..(Len(s) + Len(t)) /\ ~(Len(s) + j <= Len(s))
                           /\ (Len(s) + j) - Len(s) = j
  BY <1>2
<1>5. /\ \A j \in 1..Len(s) : c[j] = s[j]
      /\ \A j \in 1..Len(t) : c[Len(s) + j] = t[j]
  BY <1>1, <1>3, <1>4
<1> QED
  BY <1>1, <1>5 DEF c

Pair(s) == Len(s) = 2

Stack(s, t, u) == s \o t \o u

LEMMA Stacked ==
  ASSUME NEW s \in Seq(Nat), NEW t \in Seq(Nat), NEW u \in Seq(Nat), Pair(s), Pair(t)
  PROVE  /\ Stack(s, t, u) \in Seq(Nat) /\ Len(Stack(s, t, u)) = 4 + Len(u)
         /\ Stack(s, t, u)[1] = s[1] /\ Stack(s, t, u)[2] = s[2]
         /\ Stack(s, t, u)[3] = t[1] /\ Stack(s, t, u)[4] = t[2]
         /\ \A j \in 1..Len(u) : Stack(s, t, u)[4 + j] = u[j]
<1> DEFINE v == s \o t
           w == v \o u
<1>1. /\ v \in Seq(Nat) /\ Len(v) = Len(s) + Len(t)
      /\ \A j \in 1..Len(s) : v[j] = s[j]
      /\ \A j \in 1..Len(t) : v[Len(s) + j] = t[j]
  BY Joined
<1> HIDE DEF v
<1>2. /\ w \in Seq(Nat) /\ Len(w) = Len(v) + Len(u)
      /\ \A j \in 1..Len(v) : w[j] = v[j]
      /\ \A j \in 1..Len(u) : w[Len(v) + j] = u[j]
  <2>1. v \in Seq(Nat)
    BY <1>1
  <2> QED
    BY <2>1, Joined
<1> HIDE DEF w
<1>3. Len(v) = 4 /\ v[1] = s[1] /\ v[2] = s[2] /\ v[2 + 1] = t[1] /\ v[2 + 2] = t[2]
  <2>1. 1 \in 1..2 /\ 2 \in 1..2
    OBVIOUS
  <2> QED
    BY <1>1, <2>1 DEF Pair
<1>4. w[1] = v[1] /\ w[2] = v[2] /\ w[3] = v[3] /\ w[4] = v[4]
  <2>1. 1 \in 1..Len(v) /\ 2 \in 1..Len(v) /\ 3 \in 1..Len(v) /\ 4 \in 1..Len(v)
    BY <1>3
  <2> QED
    BY <1>2, <2>1
<1>5. /\ w[1] = s[1] /\ w[2] = s[2] /\ w[3] = t[1] /\ w[4] = t[2] /\ Len(w) = 4 + Len(u)
      /\ \A j \in 1..Len(u) : w[4 + j] = u[j]
  BY <1>2, <1>3, <1>4
<1> QED
  BY <1>2, <1>5 DEF v, w, Stack

LEMMA FramedBytes ==
  ASSUME NEW code \in Nat, NEW data \in Seq(Nat), Fits(data)
  PROVE  /\ Framed(code, data) \in Seq(Nat) /\ Len(Framed(code, data)) = Len(data) + HEADER
         /\ Framed(code, data)[1] = Mark /\ Framed(code, data)[2] = code
         /\ Framed(code, data)[3] + 256 * Framed(code, data)[4] = Len(data) + HEADER
         /\ \A j \in 1..Len(data) : Framed(code, data)[HEADER + j] = data[j]
<1> DEFINE n == Len(data) + HEADER
           start == <<Mark, code>>
           size == Little(n, 2)
           f == Stack(start, size, data)
<1>1. n \in Nat /\ n < 65536 /\ Len(data) \in Nat /\ n = Len(data) + 4
  <2>1. WIDTH \in 0..WIDTH /\ Power2[WIDTH] <= 65536
    BY SizesAssumption
  <2>2. Power2[WIDTH] \in Nat
    BY <2>1, PowersDouble
  <2> QED
    BY <2>1, <2>2 DEF Fits, HEADER
<1>2. Framed(code, data) = f
  BY DEF Framed, Stack
<1> HIDE DEF n
<1>3. size \in Seq(Byte) /\ Len(size) = 2 /\ size[1] + 256 * size[2] = n
  BY <1>1, TwoBytes
<1>4. size \in Seq(Nat)
  BY <1>3, ByteNat, Widened
<1> HIDE DEF size
<1>5. start \in Seq(Nat) /\ Len(start) = 2 /\ start[1] = Mark /\ start[2] = code
  BY DEF Mark
<1> HIDE DEF start
<1>6. /\ f \in Seq(Nat) /\ Len(f) = 4 + Len(data)
      /\ f[1] = start[1] /\ f[2] = start[2] /\ f[3] = size[1] /\ f[4] = size[2]
      /\ \A j \in 1..Len(data) : f[4 + j] = data[j]
  <2>1. Pair(start) /\ Pair(size) /\ start \in Seq(Nat) /\ size \in Seq(Nat)
    BY <1>3, <1>4, <1>5 DEF Pair
  <2> QED
    BY <2>1, Stacked
<1> HIDE DEF f
<1> QED
  BY <1>1, <1>2, <1>3, <1>5, <1>6 DEF HEADER, n

LEMMA DataNat == Data \subseteq Nat /\ Seq(Data) \subseteq Seq(Nat)
<1>1. Data \subseteq Nat
  BY ByteNat DEF Data
<1>2. \A s \in Seq(Data) : s \in Seq(Nat)
  BY <1>1, Widened
<1> QED
  BY <1>1, <1>2

LEMMA SoundImage ==
  ASSUME NEW b, Sound(b)
  PROVE  Image(b) = Framed(b.code, b.data) /\ Fits(b.data) /\ b.data \in Seq(Data) /\ b.code \in Nat
<1>1. b \in Buffers /\ b.length = Len(b.data) + HEADER /\ b.length <= b.max_length
  BY DEF Sound
<1>2. b.max_length \in Blocks /\ b.length \in Nat
  BY <1>1 DEF Buffers
<1>3. b.max_length \in Nat /\ b.max_length < Power2[WIDTH]
  BY <1>2, Doubled
<1>4. Power2[WIDTH] \in Nat
  <2>1. WIDTH \in 0..WIDTH
    BY SizesAssumption
  <2> QED
    BY <2>1, PowersDouble
<1>5. b.length < Power2[WIDTH]
  BY <1>1, <1>2, <1>3, <1>4
<1>6. Image(b) = Framed(b.code, b.data)
  BY <1>1 DEF Image, Framed
<1> QED
  BY <1>1, <1>5, <1>6 DEF Fits, Buffers

(***************************************************************************)
(* Reading a packet                                                        *)
(***************************************************************************)
LEMMA Rest ==
  ASSUME NEW S, NEW s \in Seq(S), NEW n \in 0..Len(s)
  PROVE  /\ SubSeq(s, n + 1, Len(s)) \in Seq(S) /\ Len(SubSeq(s, n + 1, Len(s))) = Len(s) - n
         /\ \A i \in 1..(Len(s) - n) : SubSeq(s, n + 1, Len(s))[i] = s[i + n]
<1> DEFINE r == SubSeq(s, n + 1, Len(s))
<1>1. Len(s) \in Nat /\ n + 1 \in Int /\ \A i \in (n + 1)..Len(s) : s[i] \in S
  OBVIOUS
<1>2. /\ r \in Seq(S) /\ Len(r) = IF n + 1 <= Len(s) THEN Len(s) - (n + 1) + 1 ELSE 0
      /\ \A i \in 1..(Len(s) - (n + 1) + 1) : r[i] = s[(n + 1) + i - 1]
  BY <1>1, SubSeqProperties
<1> HIDE DEF r
<1>3. \A i \in 1..(Len(s) - n) : i \in 1..(Len(s) - (n + 1) + 1) /\ (n + 1) + i - 1 = i + n
  BY <1>1
<1>4. r \in Seq(S) /\ Len(r) = Len(s) - n /\ \A i \in 1..(Len(s) - n) : r[i] = s[i + n]
  BY <1>1, <1>2, <1>3
<1> QED
  BY <1>4 DEF r

(* The bytes from one place on, as many as are asked for. *)
LEMMA FirstBytes ==
  ASSUME NEW S, NEW s \in Seq(S), NEW n \in 0..Len(s)
  PROVE  /\ SubSeq(s, 1, n) \in Seq(S) /\ Len(SubSeq(s, 1, n)) = n
         /\ \A i \in 1..n : SubSeq(s, 1, n)[i] = s[i]
<1> DEFINE r == SubSeq(s, 1, n)
<1>1. Len(s) \in Nat /\ \A i \in 1..n : s[i] \in S
  OBVIOUS
<1>2. /\ r \in Seq(S) /\ Len(r) = IF 1 <= n THEN n - 1 + 1 ELSE 0
      /\ \A i \in 1..(n - 1 + 1) : r[i] = s[1 + i - 1]
  BY <1>1, SubSeqProperties
<1> HIDE DEF r
<1>3. \A i \in 1..n : i \in 1..(n - 1 + 1) /\ 1 + i - 1 = i
  OBVIOUS
<1>4. r \in Seq(S) /\ Len(r) = n /\ \A i \in 1..n : r[i] = s[i]
  BY <1>1, <1>2, <1>3
<1> QED
  BY <1>4 DEF r

ZeroIn(s) == SelectInSeq(s, LAMBDA byte : byte = 0)

LEMMA FirstZero ==
  ASSUME NEW S, NEW s \in Seq(S)
  PROVE  /\ ZeroIn(s) \in 0..Len(s)
         /\ (\E i \in 1..Len(s) : s[i] = 0) =>
              /\ ZeroIn(s) \in 1..Len(s) /\ s[ZeroIn(s)] = 0
              /\ \A j \in 1..Len(s) : s[j] = 0 => ZeroIn(s) <= j
<1> DEFINE I == {i \in 1..Len(s) : s[i] = 0}
<1>1. ZeroIn(s) = IF I # {} THEN Min(I) ELSE 0
  BY DEF ZeroIn, SelectInSeq
<1>2. I \in SUBSET Nat /\ Len(s) \in Nat
  OBVIOUS
<1>3. I # {} => Min(I) \in I /\ \A i \in I : Min(I) <= i
  <2> HIDE DEF I
  <2>1. I # {} => \E least \in I : \A i \in I : least <= i
    BY <1>2, Smallest
  <2> QED
    BY <2>1 DEF Min
<1> QED
  BY <1>1, <1>2, <1>3

(* A packet in the handler's hands: its length is right, and the place to  *)
(* read at is inside it.                                                   *)
Packets == [code : Nat, data : Seq(Nat), length : Nat, max_length : Nat,
            position : Nat, valid : {TRUE}]
Readable(p) ==
  /\ p \in Packets /\ p.length = Len(p.data) + HEADER
  /\ p.position \in HEADER..p.length

LEMMA LeftBytes ==
  ASSUME NEW p, Readable(p)
  PROVE  /\ Left(p) \in Seq(Nat) /\ p.position - HEADER \in 0..Len(p.data)
         /\ Len(Left(p)) = Len(p.data) - (p.position - HEADER)
         /\ Len(Left(p)) = p.length - p.position
         /\ \A i \in 1..Len(Left(p)) : Left(p)[i] = p.data[i + (p.position - HEADER)]
<1> DEFINE d == p.data
           n == p.position - HEADER
           l == Left(p)
<1>1. d \in Seq(Nat) /\ p.length = Len(d) + 4 /\ p.position \in 4..p.length /\ p.length \in Nat
  BY DEF Readable, Packets, HEADER
<1>2. l = SubSeq(d, n + 1, Len(d)) /\ n = p.position - 4
  BY DEF Left, HEADER
<1> HIDE DEF l, n, d
<1>3. n \in 0..Len(d) /\ Len(d) \in Nat
  BY <1>1, <1>2
<1>4. l \in Seq(Nat) /\ Len(l) = Len(d) - n /\ \A i \in 1..(Len(d) - n) : l[i] = d[i + n]
  BY <1>1, <1>2, <1>3, Rest
<1>5. Len(l) = p.length - p.position
  <2> DEFINE length == p.length
             position == p.position
             here == Len(d)
  <2>1. length = here + 4 /\ n = position - 4 /\ position \in Nat /\ here \in Nat /\ Len(l) = here - n
    BY <1>1, <1>2, <1>3, <1>4
  <2> HIDE DEF length, position, here
  <2>2. Len(l) = length - position
    BY <2>1
  <2> QED
    BY <2>2 DEF length, position
<1> QED
  BY <1>3, <1>4, <1>5 DEF l, n, d

(* What is asked for before it is read is there. *)
LEMMA GuardHolds ==
  ASSUME NEW p, Readable(p), NEW kind, NEW size, <<kind, size>> \in Forms, can_read(p, kind, size)
  PROVE  Extent(p, kind, size) \in 0..Len(Left(p))
<1>1. kind \in {"int", "bytes", "ntstring"} /\ size \in Nat
  BY FieldsAssumption
<1>2. p.position \in Nat /\ p.length \in Nat /\ p.position <= p.length /\ HEADER <= p.position
  BY DEF Readable, Packets, HEADER
<1>3. Left(p) \in Seq(Nat) /\ Len(Left(p)) = p.length - p.position
  BY LeftBytes
<1> DEFINE l == Left(p)
<1>4. CASE kind = "ntstring"
  <2>1. 0 \in ToSet(l)
    BY <1>4 DEF can_read
  <2> HIDE DEF l
  <2>2. \E i \in 1..Len(l) : l[i] = 0
    BY <1>3, <2>1 DEF ToSet, l
  <2>3. ZeroIn(l) \in 1..Len(l)
    BY <1>3, <2>2, FirstZero DEF l
  <2>4. ZeroIn(l) \in 1..(Room(p) - 1)
    BY <1>2, <1>3, <2>3 DEF Room, HEADER, l
  <2>5. Extent(p, kind, size) = ZeroIn(l)
    BY <1>4, <2>4 DEF Extent, ZeroIn, l
  <2> QED
    BY <1>3, <2>3, <2>5 DEF l
<1>5. CASE kind # "ntstring"
  <2>1. Extent(p, kind, size) = size
    BY <1>5 DEF Extent
  <2>2. CASE kind = "int"
    <3>1. p.position + size <= p.length
      BY <2>2 DEF can_read
    <3> QED
      BY <1>1, <1>2, <1>3, <2>1, <3>1
  <2>3. CASE kind = "bytes"
    <3>1. p.position + size < p.length
      BY <2>3 DEF can_read
    <3> QED
      BY <1>1, <1>2, <1>3, <2>1, <3>1
  <2> QED
    BY <1>1, <1>5, <2>2, <2>3
<1> QED
  BY <1>4, <1>5

LEMMA StaysReadable ==
  ASSUME NEW p, Readable(p), NEW kind, NEW size, <<kind, size>> \in Forms, can_read(p, kind, size)
  PROVE  /\ Readable(Advance(p, kind, size))
         /\ Advance(p, kind, size).data = p.data /\ Advance(p, kind, size).code = p.code
         /\ Advance(p, kind, size).position = p.position + Extent(p, kind, size)
<1> DEFINE extent == Extent(p, kind, size)
<1>1. extent \in 0..Len(Left(p))
  BY GuardHolds
<1>2. Left(p) \in Seq(Nat) /\ Len(Left(p)) = p.length - p.position
  BY LeftBytes
<1>3. Advance(p, kind, size) = [p EXCEPT !.position = p.position + extent]
  BY <1>1, <1>2 DEF Advance
<1> HIDE DEF extent
<1>4. p \in Packets /\ p.position \in HEADER..p.length /\ p.length \in Nat /\ p.position \in Nat
  BY DEF Readable, Packets
<1>5. p.position + extent \in Nat /\ p.position + extent \in HEADER..p.length
  BY <1>1, <1>2, <1>4 DEF HEADER
<1> QED
  BY <1>3, <1>4, <1>5 DEF Readable, Packets, extent

(***************************************************************************)
(* Fields, one after the other                                             *)
(***************************************************************************)

(* at[k]: how many bytes the first k fields take.                          *)
Laid(at, data, fs) ==
  /\ at \in [0..Len(fs) -> 0..Len(data)] /\ at[0] = 0 /\ at[Len(fs)] = Len(data)
  /\ \A k \in 1..Len(fs) :
       /\ at[k] = at[k - 1] + Len(BytesOf(fs[k]))
       /\ \A j \in 1..Len(BytesOf(fs[k])) : data[at[k - 1] + j] = BytesOf(fs[k])[j]

LEMMA NothingLaid == \E at : Laid(at, << >>, << >>)
<1> DEFINE at == [k \in 0..0 |-> 0]
<1>1. Laid(at, << >>, << >>)
  BY DEF Laid
<1> QED
  BY <1>1

LEMMA Within ==
  ASSUME NEW a \in Nat, NEW n \in Nat, NEW m \in Nat, a + n <= m
  PROVE  \A j \in 1..n : a + j \in 1..m
OBVIOUS

LEMMA OneMoreLaid ==
  ASSUME NEW data \in Seq(Data), NEW fs \in Seq(Fields), NEW at, Laid(at, data, fs), NEW f \in Fields
  PROVE  \E to : Laid(to, data \o BytesOf(f), Append(fs, f))
<1> DEFINE bytes == BytesOf(f)
           more == data \o bytes
           gs == Append(fs, f)
           n == Len(fs)
           to == [k \in 0..(n + 1) |-> IF k <= n THEN at[k] ELSE Len(data) + Len(bytes)]
<1>1. bytes \in Seq(Data)
  BY FieldBytes
<1>2. /\ more \in Seq(Data) /\ Len(more) = Len(data) + Len(bytes)
      /\ \A j \in 1..Len(data) : more[j] = data[j]
      /\ \A j \in 1..Len(bytes) : more[Len(data) + j] = bytes[j]
  BY <1>1, Joined
<1>3. /\ Len(gs) = n + 1 /\ gs[n + 1] = f
      /\ \A k \in 1..n : gs[k] = fs[k] /\ fs[k] \in Fields
  BY AppendProperties
<1>4. n \in Nat /\ Len(data) \in Nat /\ Len(bytes) \in Nat
  BY <1>1
<1>5. /\ at \in [0..n -> 0..Len(data)] /\ at[0] = 0 /\ at[n] = Len(data)
      /\ \A k \in 1..n : /\ at[k] = at[k - 1] + Len(BytesOf(fs[k]))
                         /\ \A j \in 1..Len(BytesOf(fs[k])) : data[at[k - 1] + j] = BytesOf(fs[k])[j]
  BY DEF Laid
<1> HIDE DEF n, bytes, more, gs
<1>6. to \in [0..(n + 1) -> 0..Len(more)]
  <2>1. \A k \in 0..(n + 1) : k <= n => at[k] \in 0..Len(data)
    BY <1>4, <1>5
  <2>2. \A k \in 0..(n + 1) : (IF k <= n THEN at[k] ELSE Len(data) + Len(bytes)) \in 0..Len(more)
    BY <1>2, <1>4, <2>1
  <2> QED
    BY <2>2
<1>7. /\ to[0] = 0 /\ to[n + 1] = Len(more) /\ \A k \in 0..n : to[k] = at[k]
  <2>1. 0 \in 0..(n + 1) /\ 0 <= n /\ n + 1 \in 0..(n + 1) /\ ~(n + 1 <= n)
    BY <1>4
  <2>2. \A k \in 0..n : k \in 0..(n + 1) /\ k <= n
    BY <1>4
  <2> QED
    BY <1>2, <1>5, <2>1, <2>2
<1> HIDE DEF to
<1>8. ASSUME NEW k \in 1..(n + 1)
      PROVE  /\ to[k] = to[k - 1] + Len(BytesOf(gs[k]))
             /\ \A j \in 1..Len(BytesOf(gs[k])) : more[to[k - 1] + j] = BytesOf(gs[k])[j]
  <2>1. CASE k \in 1..n
    <3>1. k \in 0..n /\ k - 1 \in 0..n
      BY <1>4, <2>1
    <3>2. gs[k] = fs[k] /\ to[k] = at[k] /\ to[k - 1] = at[k - 1]
      BY <1>3, <1>7, <2>1, <3>1
    <3>3. to[k] = to[k - 1] + Len(BytesOf(gs[k]))
      BY <1>5, <2>1, <3>2
    <3>4. ASSUME NEW j \in 1..Len(BytesOf(gs[k])) PROVE more[to[k - 1] + j] = BytesOf(gs[k])[j]
      <4>1. data[at[k - 1] + j] = BytesOf(fs[k])[j]
        BY <1>5, <2>1, <3>2
      <4>2. /\ at[k - 1] \in Nat /\ Len(BytesOf(gs[k])) \in Nat
            /\ at[k - 1] + Len(BytesOf(gs[k])) <= Len(data)
        <5>1. Len(BytesOf(gs[k])) \in Nat
          <6>1. gs[k] \in Fields
            BY <1>3, <2>1
          <6> QED
            BY <6>1, FieldBytes
        <5>2. at[k - 1] \in 0..Len(data) /\ at[k] \in 0..Len(data)
          BY <1>5, <3>1
        <5> QED
          BY <1>4, <3>2, <3>3, <5>1, <5>2
      <4>3. at[k - 1] + j \in 1..Len(data)
        <5>1. Len(BytesOf(gs[k])) \in Nat
          BY <4>2
        <5> QED
          BY <1>4, <4>2, <5>1, Within
      <4> QED
        BY <1>2, <3>2, <4>1, <4>3
    <3> QED
      BY <3>3, <3>4
  <2>2. CASE k = n + 1
    <3>1. n \in 0..n /\ k - 1 = n
      BY <1>4, <2>2
    <3>2. to[k] = Len(more) /\ to[k - 1] = Len(data) /\ gs[k] = f
      BY <1>3, <1>5, <1>7, <2>2, <3>1
    <3> QED
      BY <1>2, <3>2 DEF bytes
  <2> QED
    BY <1>4, <2>1, <2>2
<1>9. Laid(to, more, gs)
  BY <1>3, <1>6, <1>7, <1>8 DEF Laid
<1> QED
  BY <1>9 DEF more, bytes, gs

(***************************************************************************)
(* The invariant of the two ends                                           *)
(***************************************************************************)

(* A packet that was sent: its image frames data in which the fields lie   *)
(* one after the other.                                                    *)
Packed(p, k) ==
  \E data \in Seq(Data) :
    /\ Fits(data) /\ p.image = Framed(k, data)
    /\ \E at : Laid(at, data, p.fields)

Sends ==
  /\ closed \in BOOLEAN /\ (~closed => out.valid)
  /\ Sound(out) /\ out.code = Len(sent) + 1
  /\ fields \in Seq(Fields)
  /\ out.valid => \E at : Laid(at, out.data, fields)
  /\ sent \in Seq([image : Seq(Nat), fields : Seq(Fields)])
  /\ \A k \in 1..Len(sent) : Packed(sent[k], k)

IsSeq(s) == \E S : s \in Seq(S)

Receives ==
  /\ stream \in Seq(Nat) /\ arrived \in 0..Len(stream)
  /\ head \in [code : Nat, length : Nat]
  /\ pc = "body" => head.length \in HEADER..MAX_PACKET
  /\ pc = "handler" => Readable(packet)
  /\ pc # "handler" => packet = NULL /\ got = << >>
  /\ IsSeq(got) /\ received \in Seq(Seq(Nat)) /\ cut \in Nat

IInv == Sends /\ Receives

LEMMA Initially == Init => IInv
<1> SUFFICES ASSUME Init PROVE IInv
  OBVIOUS
<1>1. Sound(create_buffer(1)) /\ create_buffer(1).valid
      /\ create_buffer(1).code = 1 /\ create_buffer(1).data = << >>
  BY CreatedSound
<1>2. Sends
  <2>1. out = create_buffer(1) /\ fields = << >> /\ sent = << >> /\ closed = FALSE
    BY DEF Init
  <2>2. Len(sent) = 0 /\ fields \in Seq(Fields) /\ sent \in Seq([image : Seq(Nat), fields : Seq(Fields)])
    BY <2>1
  <2>3. \E at : Laid(at, out.data, fields)
    BY <1>1, <2>1, NothingLaid
  <2>4. Sound(out) /\ out.valid /\ out.code = Len(sent) + 1
    BY <1>1, <2>1, <2>2
  <2>5. \A k \in 1..Len(sent) : Packed(sent[k], k)
    BY <2>2
  <2>6. closed \in BOOLEAN
    BY <2>1
  <2> QED
    BY <2>2, <2>3, <2>4, <2>5, <2>6 DEF Sends
<1>3. Receives
  BY DEF Init, Receives, NoHead, IsSeq
<1> QED
  BY <1>2, <1>3 DEF IInv

LEMMA AddSends == ASSUME Sends, NEW f \in Fields, Add(f) PROVE Sends'
<1>1. /\ ~closed /\ out' = AddField(out, f) /\ fields' = Append(fields, f)
      /\ closed' = ~out'.valid /\ sent' = sent
  BY DEF Add
<1>2. Sound(out) /\ out.valid /\ out.code = Len(sent) + 1 /\ fields \in Seq(Fields) /\ out.data \in Seq(Data)
  BY <1>1 DEF Sends, Sound, Buffers
<1>3. Sound(out') /\ out'.code = out.code /\ (out'.valid => out'.data = out.data \o BytesOf(f))
  BY <1>1, <1>2, FieldAdded
<1>4. out'.valid \in BOOLEAN
  BY <1>3 DEF Sound, Buffers
<1>5. out'.valid => \E at : Laid(at, out'.data, fields')
  BY <1>1, <1>2, <1>3, OneMoreLaid DEF Sends
<1>6. fields' \in Seq(Fields)
  BY <1>1, <1>2, AppendProperties
<1> QED
  BY <1>1, <1>2, <1>3, <1>4, <1>5, <1>6 DEF Sends

LEMMA SendSends == ASSUME Sends, Send PROVE Sends'
<1> DEFINE p == [image |-> Image(out), fields |-> fields]
           n == Len(sent)
<1>1. /\ ~closed /\ closed' = closed /\ sent' = Append(sent, p) /\ fields' = << >>
      /\ out' = create_buffer(n + 2)
  BY DEF Send
<1>2. /\ Sound(out) /\ out.valid /\ out.code = n + 1 /\ fields \in Seq(Fields)
      /\ sent \in Seq([image : Seq(Nat), fields : Seq(Fields)]) /\ n \in Nat
  BY <1>1 DEF Sends
<1>3. Image(out) = Framed(n + 1, out.data) /\ Fits(out.data) /\ out.data \in Seq(Data)
  BY <1>2, SoundImage
<1>4. Image(out) \in Seq(Nat)
  BY <1>2, <1>3, DataNat, FramedBytes
<1>5. p \in [image : Seq(Nat), fields : Seq(Fields)] /\ p.image = Image(out) /\ p.fields = fields
  BY <1>2, <1>4
<1>6. Packed(p, n + 1)
  BY <1>2, <1>3, <1>5 DEF Packed, Sends
<1> HIDE DEF p
<1>7. /\ sent' \in Seq([image : Seq(Nat), fields : Seq(Fields)]) /\ Len(sent') = n + 1
      /\ sent'[n + 1] = p /\ \A k \in 1..n : sent'[k] = sent[k]
  BY <1>1, <1>2, <1>5, AppendProperties
<1>8. \A k \in 1..n : Packed(sent[k], k)
  BY DEF Sends
<1> HIDE DEF n
<1>9. \A k \in 1..(n + 1) : Packed(sent'[k], k)
  <2> TAKE k \in 1..(n + 1)
  <2>1. k \in 1..n \/ k = n + 1
    BY <1>2
  <2>2. ASSUME k \in 1..n PROVE Packed(sent'[k], k)
    BY <1>7, <1>8, <2>2
  <2>3. ASSUME k = n + 1 PROVE Packed(sent'[k], k)
    BY <1>6, <1>7, <2>3
  <2> QED
    BY <2>1, <2>2, <2>3
<1>10. Sound(out') /\ out'.valid /\ out'.code = n + 2 /\ out'.data = << >>
  BY <1>1, <1>2, CreatedSound
<1> QED
  BY <1>1, <1>2, <1>7, <1>9, <1>10, NothingLaid DEF Sends

LEMMA SendsKept == ASSUME Sends, UNCHANGED sending, closed' = closed \/ (closed' = TRUE) PROVE Sends'
BY DEF Sends, sending

LEMMA TakesSome ==
  ASSUME Receives, NEW n \in 0..arrived, Take(n)
  PROVE  /\ stream' \in Seq(Nat) /\ Len(stream') = Len(stream) - n /\ arrived' \in 0..Len(stream')
         /\ \A i \in 1..(Len(stream) - n) : stream'[i] = stream[i + n]
<1>1. stream \in Seq(Nat) /\ arrived \in 0..Len(stream) /\ Len(stream) \in Nat
  BY DEF Receives
<1>2. stream' = SubSeq(stream, n + 1, Len(stream)) /\ arrived' = arrived - n
  BY DEF Take
<1>3. n \in 0..Len(stream)
  BY <1>1
<1>4. /\ stream' \in Seq(Nat) /\ Len(stream') = Len(stream) - n
      /\ \A i \in 1..(Len(stream) - n) : stream'[i] = stream[i + n]
  BY <1>1, <1>2, <1>3, Rest
<1> QED
  BY <1>1, <1>2, <1>4

(* The whole of a body makes a packet. *)
Missing == head.length - HEADER
Amount  == IF arrived < Missing THEN arrived ELSE Missing

LEMMA WholePacket ==
  ASSUME NEW code \in Nat, NEW data \in Seq(Nat), Fits(data)
  PROVE  /\ Readable(create_buffer_data(code, data))
         /\ Image(create_buffer_data(code, data)) = Framed(code, data)
         /\ Framed(code, data) \in Seq(Nat)
         /\ create_buffer_data(code, data).code = code /\ create_buffer_data(code, data).data = data
         /\ create_buffer_data(code, data).position = HEADER
<1> DEFINE b == create_buffer_data(code, data)
<1>1. Len(data) + HEADER \in Nat /\ HEADER \in Nat /\ HEADER <= Len(data) + HEADER
  BY DEF HEADER
<1>2. Wrap(Len(data) + HEADER) = Len(data) + HEADER
  BY <1>1, WrapsNot DEF Fits
<1>3. b = [code |-> code, data |-> data, length |-> Len(data) + HEADER,
           max_length |-> Len(data) + HEADER, position |-> HEADER, valid |-> TRUE]
  BY <1>2 DEF create_buffer_data
<1> HIDE DEF b
<1>4. Readable(b)
  <2>1. HEADER \in HEADER..(Len(data) + HEADER)
    BY <1>1
  <2> QED
    BY <1>1, <1>3, <2>1 DEF Readable, Packets
<1>5. Image(b) = Framed(code, data)
  BY <1>3 DEF Image, Framed
<1> QED
  BY <1>3, <1>4, <1>5, FramedBytes DEF b

LEMMA BodyRead ==
  ASSUME Receives, ReadBody
  PROVE  /\ Missing \in Nat /\ Amount \in 0..arrived /\ Take(Amount) /\ got' = got /\ head' = NoHead
         /\ \/ /\ Amount = Missing /\ pc' = "handler" /\ cut' = cut
               /\ packet' = create_buffer_data(head.code, SubSeq(stream, 1, Amount))
               /\ SubSeq(stream, 1, Amount) \in Seq(Nat) /\ Fits(SubSeq(stream, 1, Amount))
               /\ Len(SubSeq(stream, 1, Amount)) = Missing
               /\ \A i \in 1..Missing : SubSeq(stream, 1, Amount)[i] = stream[i]
               /\ received' = Append(received, Framed(head.code, SubSeq(stream, 1, Amount)))
            \/ /\ Amount < Missing /\ pc' = "header" /\ cut' = cut + 1
               /\ packet' = packet /\ received' = received
<1> DEFINE data == SubSeq(stream, 1, Amount)
<1>1. pc = "body" /\ Take(Amount) /\ head' = NoHead /\ got' = got
  BY DEF ReadBody, Amount, Missing
<1>2. /\ stream \in Seq(Nat) /\ arrived \in 0..Len(stream) /\ head.length \in HEADER..MAX_PACKET
      /\ head.code \in Nat
  BY <1>1 DEF Receives
<1>3. Missing \in Nat /\ arrived \in Nat /\ head.length = Missing + HEADER
  BY <1>2, SizesAssumption DEF Missing, HEADER
<1>4. Amount \in 0..arrived /\ (Amount # Missing => Amount < Missing)
  BY <1>3 DEF Amount
<1>5. Amount \in 0..Len(stream)
  BY <1>2, <1>4
<1>6. data \in Seq(Nat) /\ Len(data) = Amount /\ \A i \in 1..Amount : data[i] = stream[i]
  BY <1>2, <1>5, FirstBytes
<1>7. Amount = Missing => Fits(data)
  <2>1. head.length <= MAX_PACKET /\ MAX_PACKET < Power2[WIDTH] /\ MAX_PACKET \in Nat /\ head.length \in Nat
    BY <1>2, SizesAssumption DEF HEADER
  <2>2. Power2[WIDTH] \in Nat
    <3>1. WIDTH \in 0..WIDTH
      BY SizesAssumption
    <3> QED
      BY <3>1, PowersDouble
  <2>3. head.length < Power2[WIDTH]
    BY <2>1, <2>2
  <2> QED
    BY <1>3, <1>6, <2>3 DEF Fits
<1>8. \/ /\ Amount = Missing /\ pc' = "handler" /\ cut' = cut
         /\ packet' = create_buffer_data(head.code, data)
         /\ received' = Append(received, Image(create_buffer_data(head.code, data)))
      \/ /\ Amount # Missing /\ pc' = "header" /\ cut' = cut + 1
         /\ packet' = packet /\ received' = received
  BY DEF ReadBody, IsWhole, Amount, Missing
<1> HIDE DEF data
<1>9. Amount = Missing => Image(create_buffer_data(head.code, data)) = Framed(head.code, data)
  BY <1>2, <1>6, <1>7, WholePacket
<1>10. \/ /\ Amount = Missing /\ pc' = "handler" /\ cut' = cut
          /\ packet' = create_buffer_data(head.code, data)
          /\ data \in Seq(Nat) /\ Fits(data) /\ Len(data) = Missing
          /\ \A i \in 1..Missing : data[i] = stream[i]
          /\ received' = Append(received, Framed(head.code, data))
       \/ /\ Amount < Missing /\ pc' = "header" /\ cut' = cut + 1
          /\ packet' = packet /\ received' = received
  <2>1. CASE Amount = Missing
    BY <1>6, <1>7, <1>8, <1>9, <2>1
  <2>2. CASE Amount # Missing
    BY <1>4, <1>8, <2>2
  <2> QED
    BY <2>1, <2>2
<1> QED
  BY <1>1, <1>3, <1>4, <1>10 DEF data

LEMMA BytesKeep ==
  ASSUME Receives, ReadHeader \/ ReadCode \/ ReadLow \/ ReadHigh
  PROVE  Receives'
<1>1. arrived > 0 /\ Take(1) /\ UNCHANGED <<packet, got, received, cut>> /\ pc # "handler" /\ pc' # "handler"
  BY DEF ReadHeader, ReadCode, ReadLow, ReadHigh
<1>2. 1 \in 0..arrived
  BY <1>1 DEF Receives
<1>3. stream' \in Seq(Nat) /\ arrived' \in 0..Len(stream')
  BY <1>1, <1>2, TakesSome
<1>4. stream[1] \in Nat /\ stream \in Seq(Nat) /\ Len(stream) >= 1
  BY <1>1 DEF Receives
<1>5. head' \in [code : Nat, length : Nat] /\ (pc' = "body" => head'.length \in HEADER..MAX_PACKET)
  <2>0. head \in [code : Nat, length : Nat]
    BY DEF Receives
  <2>1. CASE ReadHeader
    BY <2>0, <2>1 DEF ReadHeader
  <2>2. CASE ReadCode
    BY <1>4, <2>0, <2>2 DEF ReadCode
  <2>3. CASE ReadLow
    BY <1>4, <2>0, <2>3 DEF ReadLow
  <2>4. CASE ReadHigh
    <3> DEFINE length == head.length + 256 * stream[1]
    <3>1. length \in Nat
      BY <1>4, <2>0
    <3>2. head' = [head EXCEPT !.length = length]
          /\ pc' = IF length \in HEADER..MAX_PACKET THEN "body" ELSE "gone"
      BY <2>4 DEF ReadHigh
    <3> HIDE DEF length
    <3> QED
      BY <2>0, <3>1, <3>2
  <2> QED
    BY <2>1, <2>2, <2>3, <2>4
<1> QED
  BY <1>1, <1>3, <1>5 DEF Receives

LEMMA BodyKeeps == ASSUME Receives, ReadBody PROVE Receives'
<1>1. /\ Missing \in Nat /\ Amount \in 0..arrived /\ Take(Amount) /\ got' = got /\ head' = NoHead
      /\ pc = "body"
  BY BodyRead DEF ReadBody
<1>2. stream' \in Seq(Nat) /\ arrived' \in 0..Len(stream')
  BY <1>1, TakesSome
<1>3. head.code \in Nat /\ received \in Seq(Seq(Nat)) /\ cut \in Nat /\ IsSeq(got) /\ packet = NULL /\ got = << >>
  BY <1>1 DEF Receives
<1>4. head' \in [code : Nat, length : Nat]
  BY <1>1 DEF NoHead
<1> DEFINE data == SubSeq(stream, 1, Amount)
<1>5. CASE /\ Amount = Missing /\ pc' = "handler" /\ cut' = cut
           /\ packet' = create_buffer_data(head.code, data)
           /\ data \in Seq(Nat) /\ Fits(data)
           /\ received' = Append(received, Framed(head.code, data))
  <2> HIDE DEF data
  <2>1. Readable(packet') /\ Framed(head.code, data) \in Seq(Nat)
    BY <1>3, <1>5, WholePacket
  <2>2. received' \in Seq(Seq(Nat))
    BY <1>3, <1>5, <2>1, AppendProperties
  <2> QED
    BY <1>1, <1>2, <1>3, <1>4, <1>5, <2>1, <2>2 DEF Receives
<1>6. CASE /\ Amount < Missing /\ pc' = "header" /\ cut' = cut + 1
           /\ packet' = packet /\ received' = received
  BY <1>1, <1>2, <1>3, <1>4, <1>6 DEF Receives
<1> QED
  BY <1>5, <1>6, BodyRead

LEMMA HandlerKeeps ==
  ASSUME Receives, destroy_buffer \/ \E form \in Forms : Read(form[1], form[2])
  PROVE  Receives'
<1>1. CASE destroy_buffer
  BY <1>1 DEF Receives, destroy_buffer, network, IsSeq
<1>2. CASE \E form \in Forms : Read(form[1], form[2])
  <2>1. PICK form \in Forms : Read(form[1], form[2])
    BY <1>2
  <2> DEFINE kind == form[1]
             size == form[2]
             item == [kind |-> kind, size |-> size,
                      value |-> ValueOf(kind, Taken(packet, kind, size))]
  <2>2. /\ pc = "handler" /\ can_read(packet, kind, size) /\ packet' = Advance(packet, kind, size)
        /\ got' = Append(got, item)
        /\ UNCHANGED <<pc, head, received, cut, network>>
    BY <2>1 DEF Read
  <2>3. <<kind, size>> \in Forms
    <3>1. form \in {"int", "bytes", "ntstring"} \X Nat
      BY FieldsAssumption
    <3>2. form = <<kind, size>>
      BY <3>1
    <3> QED
      BY <3>2
  <2> HIDE DEF kind, size
  <2>4. Readable(packet')
    BY <2>2, <2>3, StaysReadable DEF Receives
  <2>5. IsSeq(got')
    <3>1. PICK S : got \in Seq(S)
      BY DEF Receives, IsSeq
    <3> DEFINE T == S \cup {item}
    <3>2. got \in Seq(T) /\ item \in T
      BY <3>1, Widened
    <3> HIDE DEF T, item
    <3>3. got' \in Seq(T)
      BY <2>2, <3>2, AppendProperties
    <3> QED
      BY <3>3 DEF IsSeq
  <2> QED
    BY <2>2, <2>4, <2>5 DEF Receives, network
<1> QED
  BY <1>1, <1>2

LEMMA IInvStep == ASSUME IInv, [Next]_vars PROVE IInv'
<1>1. Sends /\ Receives
  BY DEF IInv
<1>2. CASE UNCHANGED vars
  BY <1>1, <1>2, SendsKept DEF vars, Receives, sending, IInv
<1>3. ASSUME NEW f \in Fields, Add(f) PROVE IInv'
  BY <1>1, <1>3, AddSends DEF Add, Receives, receiving, IInv
<1>4. CASE Send
  <2>1. stream' = stream \o Image(out) /\ UNCHANGED <<arrived, receiving>> /\ ~closed
    BY <1>4 DEF Send
  <2>2. Sound(out)
    BY <1>1 DEF Sends
  <2>3. Image(out) \in Seq(Nat)
    BY <2>2, SoundImage, DataNat, FramedBytes
  <2>4. stream \in Seq(Nat) /\ arrived \in 0..Len(stream)
    BY <1>1 DEF Receives
  <2>5. stream' \in Seq(Nat) /\ Len(stream') = Len(stream) + Len(Image(out))
    BY <2>1, <2>3, <2>4, Joined
  <2>6. Len(Image(out)) \in Nat /\ Len(stream) \in Nat
    BY <2>3, <2>4
  <2>7. arrived' \in 0..Len(stream')
    BY <2>1, <2>4, <2>5, <2>6
  <2>8. Receives'
    BY <1>1, <2>1, <2>5, <2>7 DEF Receives, receiving
  <2> QED
    BY <1>1, <1>4, <2>8, SendSends DEF IInv
<1>5. CASE Close
  BY <1>1, <1>5, SendsKept DEF Close, Receives, receiving, IInv
<1>6. CASE Deliver
  <2>1. arrived' \in 0..Len(stream') /\ UNCHANGED <<stream, closed, sending, receiving>>
    BY <1>1, <1>6 DEF Deliver, Receives
  <2> QED
    BY <1>1, <2>1, SendsKept DEF Receives, receiving, IInv
<1>7. CASE ReadHeader \/ ReadCode \/ ReadLow \/ ReadHigh
  <2>1. UNCHANGED <<closed, sending>>
    BY <1>7 DEF ReadHeader, ReadCode, ReadLow, ReadHigh, Take
  <2> QED
    BY <1>1, <1>7, <2>1, BytesKeep, SendsKept DEF IInv
<1>8. CASE ReadBody
  <2>1. UNCHANGED <<closed, sending>>
    BY <1>8 DEF ReadBody, Take
  <2> QED
    BY <1>1, <1>8, <2>1, BodyKeeps, SendsKept DEF IInv
<1>9. CASE ReadFails
  <2>1. /\ UNCHANGED <<closed, sending, stream, arrived, packet, got, received, cut>> /\ head' = NoHead
        /\ pc # "handler" /\ pc' \in {"header", "gone"}
    BY <1>9 DEF ReadFails, network
  <2>2. Receives'
    BY <1>1, <2>1 DEF Receives, NoHead
  <2> QED
    BY <1>1, <2>1, <2>2, SendsKept DEF IInv
<1>10. CASE destroy_buffer \/ \E form \in Forms : Read(form[1], form[2])
  <2>1. UNCHANGED <<closed, sending>>
    BY <1>10 DEF destroy_buffer, Read, network
  <2> QED
    BY <1>1, <1>10, <2>1, HandlerKeeps, SendsKept DEF IInv
<1> QED
  BY <1>2, <1>3, <1>4, <1>5, <1>6, <1>7, <1>8, <1>9, <1>10 DEF Next, read_buffer

(* Both ends and the packet in the handler's hands are sound in every       *)
(* state: what is under way can be read as what was sent.                  *)
THEOREM Invariance == Spec => []IInv
<1>1. IInv /\ [Next]_vars => IInv'
  BY IInvStep
<1> QED
  BY <1>1, Initially, PTL DEF Spec

(* packet_buffer.c, add_int8: for any width of the lengths and any first   *)
(* block, the byte to be written is inside the block that was allocated;   *)
(* the doubling that comes to nothing ends the program before it is used.  *)
THEOREM WritesStayInBounds == Spec => []WritesInBounds
<1>1. IInv => WritesInBounds
  BY DEF IInv, Sends, Sound, WritesInBounds
<1> QED
  BY <1>1, Invariance, PTL

(* packet_buffer.c, can_read_*: whatever packet has arrived, what they     *)
(* allow is inside it, in any order of reads.                              *)
THEOREM GuardedReads == Spec => []GuardedReadsSucceed
<1>1. IInv => GuardedReadsSucceed
  <2> SUFFICES ASSUME IInv, packet # NULL PROVE packet.valid
    BY DEF GuardedReadsSucceed
  <2>1. Readable(packet)
    BY DEF IInv, Receives
  <2> QED
    BY <2>1 DEF Readable, Packets
<1> QED
  BY <1>1, Invariance, PTL

(***************************************************************************)
(* Where the packets are in the stream                                     *)
(***************************************************************************)

(* start[k]: where in the stream packet k begins, counted from the next    *)
(* byte to be read; the packets read lie before it.  The last is where the *)
(* next packet will begin.                                                 *)
ImageOf(k) == sent[k].image
Size(k)    == Len(ImageOf(k))

Placed(start) ==
  /\ start \in [1..(Len(sent) + 1) -> Int] /\ start[Len(sent) + 1] = Len(stream) + 1
  /\ \A k \in 1..(Len(sent) + 1) : start[k] <= Len(stream) + 1
  /\ \A k \in 1..Len(sent) :
       /\ start[k + 1] = start[k] + Size(k)
       /\ \A j \in 1..Size(k) :
            start[k] + j - 1 >= 1 => stream[start[k] + j - 1] = ImageOf(k)[j]

(* The packets that were read, or cut, and the one that comes next.        *)
Done == Len(received) + cut

Current(start) ==
  /\ Done <= Len(sent)
  /\ pc = "header" => /\ start[Done + 1] >= 1
                      /\ \A i \in 1..(start[Done + 1] - 1) : stream[i] # Mark
  /\ pc = "code" => start[Done + 1] = 0 /\ Done < Len(sent)
  /\ pc = "low"  => /\ start[Done + 1] = -1 /\ Done < Len(sent)
                    /\ head.code = Done + 1
  /\ pc = "high" => /\ start[Done + 1] = -2 /\ Done < Len(sent)
                    /\ head.code = Done + 1 /\ head.length = ImageOf(Done + 1)[3]
  /\ pc = "body" => /\ start[Done + 1] = -3 /\ Done < Len(sent)
                    /\ head.code = Done + 1 /\ head.length = Size(Done + 1)
  /\ pc = "handler" => start[Done + 1] = 1

InStep == pc # "gone" => \E start : Placed(start) /\ Current(start)

(* What the image of packet k holds. *)
Carries(k, data) ==
  /\ ImageOf(k) = Framed(k, data) /\ \E at : Laid(at, data, sent[k].fields)
  /\ ImageOf(k) \in Seq(Nat) /\ Size(k) = Len(data) + 4 /\ Len(data) \in Nat
  /\ ImageOf(k)[1] = Mark /\ ImageOf(k)[2] = k
  /\ ImageOf(k)[3] + 256 * ImageOf(k)[4] = Size(k)
  /\ \A j \in 1..Len(data) : ImageOf(k)[4 + j] = data[j]

LEMMA SentImage ==
  ASSUME Sends, NEW k \in 1..Len(sent)
  PROVE  \E data \in Seq(Data) : Carries(k, data)
<1>1. PICK data \in Seq(Data) :
        Fits(data) /\ ImageOf(k) = Framed(k, data) /\ \E at : Laid(at, data, sent[k].fields)
  BY DEF Sends, Packed, ImageOf
<1>2. k \in Nat /\ data \in Seq(Nat) /\ Len(data) \in Nat
  BY <1>1, DataNat DEF Sends
<1>3. /\ Framed(k, data) \in Seq(Nat) /\ Len(Framed(k, data)) = Len(data) + 4
      /\ Framed(k, data)[1] = Mark /\ Framed(k, data)[2] = k
      /\ Framed(k, data)[3] + 256 * Framed(k, data)[4] = Len(data) + 4
      /\ \A j \in 1..Len(data) : Framed(k, data)[4 + j] = data[j]
  BY <1>1, <1>2, FramedBytes DEF HEADER
<1> DEFINE image == Framed(k, data)
<1>4. ImageOf(k) = image
  BY <1>1
<1> HIDE DEF image
<1>5. /\ ImageOf(k) \in Seq(Nat) /\ Size(k) = Len(data) + 4
      /\ ImageOf(k)[1] = Mark /\ ImageOf(k)[2] = k
      /\ ImageOf(k)[3] + 256 * ImageOf(k)[4] = Size(k)
      /\ \A j \in 1..Len(data) : ImageOf(k)[4 + j] = data[j]
  BY <1>3, <1>4, Zenon DEF Size, image
<1>6. Carries(k, data)
  BY <1>1, <1>2, <1>5, Zenon DEF Carries
<1> QED
  BY <1>1, <1>6

LEMMA Sizes ==
  ASSUME Sends
  PROVE  Len(sent) \in Nat /\ \A k \in 1..Len(sent) : Size(k) \in Nat /\ Size(k) >= 4
<1>1. Len(sent) \in Nat
  BY DEF Sends
<1>2. ASSUME NEW k \in 1..Len(sent) PROVE Size(k) \in Nat /\ Size(k) >= 4
  <2>1. PICK data \in Seq(Data) : Size(k) = Len(data) + 4 /\ Len(data) \in Nat
    BY SentImage DEF Carries
  <2> QED
    BY <2>1
<1> QED
  BY <1>1, <1>2

(* A byte of a packet that is still to be read. *)
LEMMA PlacedByte ==
  ASSUME Sends, NEW start, Placed(start), NEW k \in 1..Len(sent)
  PROVE  /\ start[k] \in Int /\ start[k + 1] \in Int /\ k \in 1..(Len(sent) + 1) /\ k + 1 \in 1..(Len(sent) + 1)
         /\ start[k + 1] = start[k] + Size(k) /\ start[k + 1] <= Len(stream) + 1
         /\ \A j \in 1..Size(k) :
              start[k] + j - 1 >= 1 =>
                start[k] + j - 1 <= Len(stream) /\ stream[start[k] + j - 1] = ImageOf(k)[j]
<1>1. Len(sent) \in Nat /\ Size(k) \in Nat
  BY Sizes
<1>2. k \in 1..(Len(sent) + 1) /\ k + 1 \in 1..(Len(sent) + 1)
  BY <1>1
<1>3. /\ start[k] \in Int /\ start[k + 1] \in Int /\ start[k + 1] <= Len(stream) + 1
      /\ start[k + 1] = start[k] + Size(k)
      /\ \A j \in 1..Size(k) : start[k] + j - 1 >= 1 => stream[start[k] + j - 1] = ImageOf(k)[j]
  BY <1>2 DEF Placed
<1>4. Len(sent) + 1 \in 1..(Len(sent) + 1)
  BY <1>1
<1>5. Len(stream) + 1 \in Int /\ start[Len(sent) + 1] = Len(stream) + 1
  BY <1>4 DEF Placed
<1> DEFINE end == Len(stream) + 1
           s == start[k]
<1>6. s \in Int /\ end \in Int /\ s + Size(k) <= end
  BY <1>3, <1>5
<1> HIDE DEF end, s
<1>7. \A j \in 1..Size(k) : s + j - 1 <= end - 1
  BY <1>1, <1>6
<1> QED
  BY <1>2, <1>3, <1>7 DEF end, s

(* Reading n bytes moves them all. *)
LEMMA Shifted ==
  ASSUME Sends, Receives, NEW start, Placed(start), NEW n \in 0..arrived, Take(n), UNCHANGED sent
  PROVE  \E to : /\ Placed(to)'
                 /\ \A k \in 1..(Len(sent) + 1) : to[k] = start[k] - n
<1>1. PICK to : to = [k \in 1..(Len(sent) + 1) |-> start[k] - n]
  OBVIOUS
<1>2. /\ stream' \in Seq(Nat) /\ Len(stream') = Len(stream) - n
      /\ \A i \in 1..(Len(stream) - n) : stream'[i] = stream[i + n]
  BY TakesSome
<1>3. /\ Len(sent) \in Nat /\ Len(stream) \in Nat /\ n \in Nat
      /\ Len(sent) + 1 \in 1..(Len(sent) + 1)
  BY Sizes DEF Receives
<1>4. /\ start \in [1..(Len(sent) + 1) -> Int] /\ start[Len(sent) + 1] = Len(stream) + 1
      /\ \A k \in 1..(Len(sent) + 1) : start[k] <= Len(stream) + 1
  BY DEF Placed
<1>5. /\ to \in [1..(Len(sent) + 1) -> Int] /\ \A k \in 1..(Len(sent) + 1) : to[k] = start[k] - n
  BY <1>1, <1>3, <1>4
<1> DEFINE long == Len(stream)
           less == Len(stream')
           last == Len(sent) + 1
<1>6. /\ to[Len(sent) + 1] = Len(stream') + 1
      /\ \A k \in 1..(Len(sent) + 1) : to[k] <= Len(stream') + 1
  <2>1. /\ long \in Nat /\ less = long - n /\ last \in 1..last /\ start[last] = long + 1
        /\ start \in [1..last -> Int]
        /\ \A k \in 1..last : to[k] = start[k] - n /\ start[k] <= long + 1
    BY <1>2, <1>3, <1>4, <1>5
  <2> HIDE DEF long, less, last
  <2>2. to[last] = less + 1
    BY <1>3, <2>1
  <2>3. ASSUME NEW k \in 1..last PROVE to[k] <= less + 1
    <3>1. start[k] \in Int /\ start[k] <= long + 1 /\ to[k] = start[k] - n
      BY <2>1
    <3> QED
      BY <1>3, <2>1, <3>1
  <2> QED
    BY <2>2, <2>3 DEF less, last
<1>7. ASSUME NEW k \in 1..Len(sent)
      PROVE  /\ to[k + 1] = to[k] + Size(k)
             /\ \A j \in 1..Size(k) : to[k] + j - 1 >= 1 => stream'[to[k] + j - 1] = ImageOf(k)[j]
  <2>1. /\ start[k] \in Int /\ start[k + 1] \in Int /\ k \in 1..(Len(sent) + 1) /\ k + 1 \in 1..(Len(sent) + 1)
        /\ start[k + 1] = start[k] + Size(k)
        /\ \A j \in 1..Size(k) :
             start[k] + j - 1 >= 1 =>
               start[k] + j - 1 <= Len(stream) /\ stream[start[k] + j - 1] = ImageOf(k)[j]
    BY PlacedByte
  <2>2. to[k] = start[k] - n /\ to[k + 1] = start[k + 1] - n /\ Size(k) \in Nat
    BY <1>5, <2>1, Sizes
  <2>3. to[k + 1] = to[k] + Size(k)
    BY <1>3, <2>1, <2>2
  <2>4. ASSUME NEW j \in 1..Size(k), to[k] + j - 1 >= 1 PROVE stream'[to[k] + j - 1] = ImageOf(k)[j]
    <3> DEFINE s == start[k]
               t == to[k]
               i == t + j - 1
    <3>1. s \in Int /\ t = s - n /\ j \in Int /\ i >= 1
      BY <2>1, <2>2, <2>4
    <3> HIDE DEF s, t
    <3>2. i \in Int /\ i >= 1 /\ i + n = s + j - 1
      BY <1>3, <3>1
    <3> HIDE DEF i
    <3>3. i + n >= 1
      BY <1>3, <3>2
    <3>4. i + n <= long /\ stream[i + n] = ImageOf(k)[j]
      BY <2>1, <3>2, <3>3 DEF s
    <3>5. i \in 1..(long - n)
      <4>1. long \in Nat
        BY <1>3
      <4> HIDE DEF long
      <4> QED
        BY <1>3, <3>2, <3>4, <4>1
    <3> QED
      BY <1>2, <3>4, <3>5 DEF i, t
  <2> QED
    BY <2>3, <2>4
<1>8. sent' = sent /\ Len(sent') = Len(sent) /\ \A k : ImageOf(k)' = ImageOf(k) /\ Size(k)' = Size(k)
  BY DEF ImageOf, Size
<1>9. Placed(to)'
  BY <1>5, <1>6, <1>7, <1>8 DEF Placed
<1> QED
  BY <1>5, <1>9

LEMMA DoneNat == ASSUME Receives PROVE Done \in Nat
BY DEF Receives, Done

(* The packet that comes next, when there is one. *)
LEMMA Upcoming ==
  ASSUME Sends, Receives, NEW start, Placed(start), Done < Len(sent)
  PROVE  /\ Done + 1 \in 1..Len(sent) /\ Done + 2 = (Done + 1) + 1
         /\ start[Done + 1] \in Int /\ start[Done + 2] = start[Done + 1] + Size(Done + 1)
         /\ start[Done + 2] <= Len(stream) + 1 /\ Size(Done + 1) \in Nat /\ Size(Done + 1) >= 4
         /\ \A j \in 1..4 : start[Done + 1] = 2 - j => stream[1] = ImageOf(Done + 1)[j]
<1>1. Done \in Nat /\ Len(sent) \in Nat
  BY DoneNat, Sizes
<1>2. Done + 1 \in 1..Len(sent) /\ Done + 2 = (Done + 1) + 1
  BY <1>1
<1>3. PICK k : k = Done + 1
  OBVIOUS
<1>4. k \in 1..Len(sent) /\ Done + 2 = k + 1
  BY <1>2, <1>3
<1>5. /\ start[k] \in Int /\ start[k + 1] = start[k] + Size(k) /\ start[k + 1] <= Len(stream) + 1
      /\ Size(k) \in Nat /\ Size(k) >= 4
      /\ \A j \in 1..Size(k) : start[k] + j - 1 >= 1 => stream[start[k] + j - 1] = ImageOf(k)[j]
  BY <1>4, PlacedByte, Sizes
<1>6. ASSUME NEW j \in 1..4, start[k] = 2 - j PROVE stream[1] = ImageOf(k)[j]
  <2> DEFINE s == start[k]
  <2>1. s + j - 1 = 1 /\ j \in 1..Size(k)
    BY <1>5, <1>6
  <2> HIDE DEF s
  <2>2. s + j - 1 >= 1
    BY <2>1
  <2> QED
    BY <1>5, <2>1, <2>2 DEF s
<1> QED
  BY <1>3, <1>4, <1>5, <1>6

(* With more to read, a packet that begins here is there. *)
LEMMA MoreToCome ==
  ASSUME Sends, Receives, NEW start, Placed(start), Done <= Len(sent),
         start[Done + 1] < Len(stream) + 1
  PROVE  Done < Len(sent)
<1>1. Done \in Nat /\ Len(sent) \in Nat /\ Len(stream) \in Nat
  BY DoneNat, Sizes DEF Receives
<1>2. start[Len(sent) + 1] = Len(stream) + 1
  BY DEF Placed
<1>3. Done # Len(sent)
  BY <1>1, <1>2
<1> QED
  BY <1>1, <1>3

(***************************************************************************)
(* Each step keeps the reader in step                                      *)
(***************************************************************************)
LEMMA ByteInStep ==
  ASSUME Sends, Receives, InStep, ReadHeader \/ ReadCode \/ ReadLow \/ ReadHigh
  PROVE  InStep'
<1>1. PICK start : Placed(start) /\ Current(start)
  BY DEF InStep, ReadHeader, ReadCode, ReadLow, ReadHigh
<1>2. Take(1) /\ UNCHANGED <<received, cut, sent>> /\ arrived > 0
  BY DEF ReadHeader, ReadCode, ReadLow, ReadHigh, Take, sending
<1>3. 1 \in 0..arrived /\ Len(stream) \in Nat /\ Len(stream) >= 1
  BY <1>2 DEF Receives
<1>4. PICK to : Placed(to)' /\ \A k \in 1..(Len(sent) + 1) : to[k] = start[k] - 1
  BY <1>1, <1>2, <1>3, Shifted
<1>5. /\ Len(stream') = Len(stream) - 1
      /\ \A i \in 1..(Len(stream) - 1) : stream'[i] = stream[i + 1]
  BY <1>2, <1>3, TakesSome
<1>6. /\ Done \in Nat /\ Done' = Done /\ Len(sent') = Len(sent) /\ Len(sent) \in Nat
      /\ ImageOf(Done + 1)' = ImageOf(Done + 1) /\ Size(Done + 1)' = Size(Done + 1)
  BY <1>2, DoneNat, Sizes DEF Done, ImageOf, Size
<1>7. Done <= Len(sent) /\ Done + 1 \in 1..(Len(sent) + 1)
  BY <1>1, <1>6 DEF Current
<1>8. /\ to[Done + 1] = start[Done + 1] - 1 /\ start[Done + 1] \in Int
      /\ start[Done + 1] <= Len(stream) + 1
  BY <1>1, <1>4, <1>7 DEF Placed
<1> DEFINE here == start[Done + 1]
           there == to[Done + 1]
<1>9. here \in Int /\ there = here - 1
  BY <1>8
<1>10. ASSUME ReadHeader PROVE Current(to)'
  <2>1. /\ pc = "header" /\ pc' = (IF stream[1] = Mark THEN "code" ELSE "header")
        /\ here >= 1 /\ \A i \in 1..(here - 1) : stream[i] # Mark
    BY <1>1, <1>10 DEF ReadHeader, IsMark, Current
  <2>2. CASE here = 1
    <3>1. Done < Len(sent)
      <4>1. here < Len(stream) + 1
        BY <1>3, <2>2
      <4> QED
        BY <1>1, <1>7, <4>1, MoreToCome
    <3>2. stream[1] = ImageOf(Done + 1)[1] /\ Done + 1 \in 1..Len(sent)
      BY <1>1, <2>2, <3>1, Upcoming
    <3>3. stream[1] = Mark
      BY <3>2, SentImage DEF Carries
    <3>4. pc' = "code" /\ there = 0
      BY <1>9, <2>1, <2>2, <3>3
    <3> QED
      BY <1>6, <1>7, <3>1, <3>4 DEF Current
  <2>3. CASE here > 1
    <3>1. stream[1] # Mark
      <4>1. 1 \in 1..(here - 1)
        BY <1>9, <2>3
      <4> QED
        BY <2>1, <4>1
    <3>2. pc' = "header" /\ there >= 1
      BY <1>9, <2>1, <2>3, <3>1
    <3>3. ASSUME NEW i \in 1..(there - 1) PROVE stream'[i] # Mark
      <4> DEFINE long == Len(stream)
      <4>1. long \in Nat /\ here <= long + 1
        BY <1>3, <1>8
      <4> HIDE DEF long, here, there
      <4>2. i \in 1..(long - 1) /\ i + 1 \in 1..(here - 1)
        BY <1>9, <4>1
      <4> QED
        BY <1>5, <2>1, <4>2 DEF long
    <3> QED
      BY <1>6, <1>7, <3>2, <3>3 DEF Current
  <2> QED
    BY <1>9, <2>1, <2>2, <2>3
<1>11. ASSUME ReadCode PROVE Current(to)'
  <2>1. pc' = "low" /\ head' = [code |-> stream[1], length |-> 0] /\ here = 0 /\ Done < Len(sent)
    BY <1>1, <1>11 DEF ReadCode, Current
  <2>2. stream[1] = ImageOf(Done + 1)[2] /\ Done + 1 \in 1..Len(sent)
    BY <1>1, <2>1, Upcoming
  <2>3. head'.code = Done + 1
    BY <2>1, <2>2, SentImage DEF Carries
  <2>4. there = -1
    BY <1>9, <2>1
  <2> QED
    BY <1>6, <1>7, <2>1, <2>3, <2>4 DEF Current
<1>12. ASSUME ReadLow PROVE Current(to)'
  <2>1. /\ pc' = "high" /\ head' = [head EXCEPT !.length = stream[1]] /\ here = -1
        /\ Done < Len(sent) /\ head.code = Done + 1
    BY <1>1, <1>12 DEF ReadLow, Current
  <2>2. stream[1] = ImageOf(Done + 1)[3]
    BY <1>1, <2>1, Upcoming
  <2>3. head'.code = Done + 1 /\ head'.length = ImageOf(Done + 1)[3]
    BY <2>1, <2>2 DEF Receives
  <2>4. there = -2
    BY <1>9, <2>1
  <2> QED
    BY <1>6, <1>7, <2>1, <2>3, <2>4 DEF Current
<1>13. ASSUME ReadHigh PROVE pc' # "gone" => Current(to)'
  <2> DEFINE length == head.length + 256 * stream[1]
  <2>1. /\ pc' = (IF length \in HEADER..MAX_PACKET THEN "body" ELSE "gone")
        /\ head' = [head EXCEPT !.length = length] /\ here = -2
        /\ Done < Len(sent) /\ head.code = Done + 1 /\ head.length = ImageOf(Done + 1)[3]
    BY <1>1, <1>13 DEF ReadHigh, Current
  <2>2. stream[1] = ImageOf(Done + 1)[4] /\ Done + 1 \in 1..Len(sent)
    BY <1>1, <2>1, Upcoming
  <2>3. ImageOf(Done + 1)[3] + 256 * ImageOf(Done + 1)[4] = Size(Done + 1)
    BY <2>2, SentImage DEF Carries
  <2>4. length = Size(Done + 1)
    BY <2>1, <2>2, <2>3
  <2> HIDE DEF length
  <2>5. head'.code = Done + 1 /\ head'.length = Size(Done + 1)
    BY <2>1, <2>4 DEF Receives
  <2>6. there = -3
    BY <1>9, <2>1
  <2> QED
    BY <1>6, <1>7, <2>1, <2>5, <2>6 DEF Current
<1> QED
  BY <1>4, <1>10, <1>11, <1>12, <1>13 DEF InStep

(* What is asked for as a body is the next packet's data. *)
LEMMA BodyBytes ==
  ASSUME Sends, Receives, NEW start, Placed(start), Current(start), pc = "body"
  PROVE  /\ Done < Len(sent) /\ Done + 1 \in 1..Len(sent) /\ head.code = Done + 1
         /\ start[Done + 1] = -3
         /\ \E data \in Seq(Data) :
              /\ Carries(Done + 1, data) /\ Len(data) = Missing
              /\ Missing <= Len(stream) /\ \A i \in 1..Missing : stream[i] = data[i]
<1>1. start[Done + 1] = -3 /\ Done < Len(sent) /\ head.code = Done + 1 /\ head.length = Size(Done + 1)
  BY DEF Current
<1>2. /\ Done + 1 \in 1..Len(sent) /\ start[Done + 2] = start[Done + 1] + Size(Done + 1)
      /\ start[Done + 2] <= Len(stream) + 1
  BY <1>1, Upcoming
<1>3. PICK k : k = Done + 1
  OBVIOUS
<1>4. k \in 1..Len(sent) /\ start[k] = -3
  BY <1>1, <1>2, <1>3
<1>5. PICK data \in Seq(Data) : Carries(k, data)
  BY <1>4, SentImage
<1>6. Size(k) = Len(data) + 4 /\ Len(data) \in Nat /\ \A i \in 1..Len(data) : ImageOf(k)[4 + i] = data[i]
  BY <1>5 DEF Carries
<1>7. Len(data) = Missing
  BY <1>1, <1>3, <1>6 DEF Missing, HEADER
<1>8. Len(data) <= Len(stream)
  <2> DEFINE long == Len(stream)
             next == start[Done + 2]
  <2>1. long \in Nat /\ next = -3 + Size(k) /\ next <= long + 1
    BY <1>1, <1>2, <1>3 DEF Receives
  <2> HIDE DEF long, next
  <2>2. Len(data) <= long
    BY <1>6, <2>1
  <2> QED
    BY <2>2 DEF long
<1>9. ASSUME NEW i \in 1..Len(data) PROVE stream[i] = data[i]
  <2>1. 4 + i \in 1..Size(k) /\ -3 + (4 + i) - 1 = i /\ i >= 1
    BY <1>6
  <2>2. \A j \in 1..Size(k) : start[k] + j - 1 >= 1 => stream[start[k] + j - 1] = ImageOf(k)[j]
    BY <1>4, PlacedByte
  <2>3. stream[i] = ImageOf(k)[4 + i]
    BY <1>4, <2>1, <2>2
  <2> QED
    BY <1>6, <2>3
<1> QED
  BY <1>1, <1>2, <1>3, <1>5, <1>7, <1>8, <1>9

(* No body has been cut yet, or no byte of the data looks like the start   *)
(* of a packet to a reader that is left in the middle of one.              *)
Aligned == cut = 0 \/ Mark \notin Data

LEMMA BodyInStep ==
  ASSUME Sends, Receives, Aligned', InStep, ReadBody
  PROVE  InStep'
<1>1. PICK start : Placed(start) /\ Current(start)
  BY DEF InStep, ReadBody
<1>2. pc = "body" /\ UNCHANGED sent
  BY DEF ReadBody, Take, sending
<1>3. /\ Missing \in Nat /\ Amount \in 0..arrived /\ Take(Amount)
      /\ \/ Amount = Missing /\ pc' = "handler" /\ cut' = cut /\ \E image : received' = Append(received, image)
         \/ Amount < Missing /\ pc' = "header" /\ cut' = cut + 1 /\ received' = received
  BY BodyRead
<1>4. PICK to : Placed(to)' /\ \A k \in 1..(Len(sent) + 1) : to[k] = start[k] - Amount
  BY <1>1, <1>2, <1>3, Shifted
<1>5. /\ Len(stream') = Len(stream) - Amount
      /\ \A i \in 1..(Len(stream) - Amount) : stream'[i] = stream[i + Amount]
  BY <1>3, TakesSome
<1>6. Done < Len(sent) /\ Done + 1 \in 1..Len(sent) /\ start[Done + 1] = -3
  BY <1>1, <1>2, BodyBytes
<1>7. PICK data \in Seq(Data) :
        /\ Carries(Done + 1, data) /\ Len(data) = Missing
        /\ Missing <= Len(stream) /\ \A i \in 1..Missing : stream[i] = data[i]
  BY <1>1, <1>2, BodyBytes
<1>8. Done \in Nat /\ Len(sent) \in Nat /\ Len(sent') = Len(sent) /\ Len(stream) \in Nat /\ Amount \in Nat
  BY <1>2, <1>3, DoneNat, Sizes DEF Receives
<1>9. Done' = Done + 1
  <2>1. received \in Seq(Seq(Nat)) /\ cut \in Nat /\ Len(received) \in Nat
    BY DEF Receives
  <2>2. CASE cut' = cut /\ \E image : received' = Append(received, image)
    <3>1. PICK image : received' = Append(received, image)
      BY <2>2
    <3>2. Len(received') = Len(received) + 1
      <4>1. received \in Seq(Seq(Nat) \cup {image})
        BY <2>1, Widened
      <4> QED
        BY <3>1, <4>1, AppendProperties
    <3> QED
      BY <2>1, <2>2, <3>2 DEF Done
  <2>3. CASE cut' = cut + 1 /\ received' = received
    BY <2>1, <2>3 DEF Done
  <2> QED
    BY <1>3, <2>2, <2>3
<1>10. to[Done' + 1] = 1 + Missing - Amount
  <2>1. Size(Done + 1) = Missing + 4
    BY <1>7 DEF Carries
  <2>2. start[Done + 2] = start[Done + 1] + Size(Done + 1)
    BY <1>1, <1>6, Upcoming
  <2>3. Done' + 1 = Done + 2 /\ Done + 2 \in 1..(Len(sent) + 1)
    BY <1>6, <1>8, <1>9
  <2>4. to[Done + 2] = start[Done + 2] - Amount
    BY <1>4, <2>3
  <2>5. start[Done + 2] = Missing + 1
    BY <1>3, <1>6, <2>1, <2>2
  <2> QED
    BY <1>3, <1>8, <2>3, <2>4, <2>5
<1>11. Done' <= Len(sent')
  BY <1>6, <1>8, <1>9
<1>12. CASE Amount = Missing /\ pc' = "handler"
  <2>1. to[Done' + 1] = 1
    BY <1>3, <1>10, <1>12
  <2>2. Current(to)'
    BY <1>11, <1>12, <2>1 DEF Current
  <2> QED
    BY <1>4, <2>2 DEF InStep
<1>13. CASE Amount < Missing /\ pc' = "header" /\ cut' = cut + 1
  <2>1. to[Done' + 1] >= 1
    BY <1>3, <1>8, <1>10, <1>13
  <2>2. ASSUME NEW i \in 1..(to[Done' + 1] - 1) PROVE stream'[i] # Mark
    <3> DEFINE long == Len(stream)
    <3>1. i \in 1..(Missing - Amount) /\ long \in Nat /\ Missing <= long
      BY <1>3, <1>7, <1>8, <1>10
    <3> HIDE DEF long
    <3>2. i \in 1..(long - Amount) /\ i + Amount \in 1..Missing
      BY <1>3, <1>8, <3>1
    <3>3. stream'[i] = data[i + Amount]
      BY <1>5, <1>7, <3>2 DEF long
    <3>4. data[i + Amount] \in Data
      BY <1>7, <3>2
    <3>5. Mark \notin Data
      BY <1>13 DEF Aligned, Receives
    <3> QED
      BY <3>3, <3>4, <3>5
  <2>3. Current(to)'
    BY <1>11, <1>13, <2>1, <2>2 DEF Current
  <2> QED
    BY <1>4, <2>3 DEF InStep
<1> QED
  BY <1>3, <1>12, <1>13

LEMMA FailsInStep ==
  ASSUME Sends, Receives, InStep, ReadFails
  PROVE  InStep'
<1>1. PICK start : Placed(start) /\ Current(start)
  BY DEF InStep, ReadFails
<1>2. Len(stream) = 0
  BY DEF ReadFails
<1>3. ASSUME pc \in {"code", "low", "high", "body"}, ~(pc = "body" /\ head.length = HEADER) PROVE FALSE
  <2>1. Done < Len(sent)
    BY <1>1, <1>3 DEF Current
  <2>2. /\ start[Done + 1] \in Int /\ start[Done + 1] + Size(Done + 1) <= 1 /\ Size(Done + 1) \in Nat
        /\ Size(Done + 1) >= 4
    BY <1>1, <1>2, <2>1, Upcoming
  <2>3. CASE pc \in {"code", "low", "high"}
    <3>1. start[Done + 1] \in {0, -1, -2}
      BY <1>1, <2>3 DEF Current
    <3> QED
      BY <2>2, <3>1
  <2>4. CASE pc = "body"
    <3>1. start[Done + 1] = -3 /\ head.length = Size(Done + 1) /\ Size(Done + 1) # 4
      BY <1>1, <1>3, <2>4 DEF Current, HEADER
    <3> QED
      BY <2>2, <3>1
  <2> QED
    BY <1>3, <2>3, <2>4
<1>4. pc = "header" /\ pc' = "gone"
  BY <1>3 DEF ReadFails
<1> QED
  BY <1>4 DEF InStep

(* A packet more is a packet more in the stream. *)
LEMMA SentMore ==
  ASSUME Sends, Receives, Send
  PROVE  /\ Len(sent') = Len(sent) + 1 /\ \A k \in 1..Len(sent) : sent'[k] = sent[k]
         /\ sent'[Len(sent) + 1].image = Image(out) /\ Image(out) \in Seq(Nat)
         /\ Len(stream') = Len(stream) + Len(Image(out))
         /\ \A i \in 1..Len(stream) : stream'[i] = stream[i]
         /\ \A j \in 1..Len(Image(out)) : stream'[Len(stream) + j] = Image(out)[j]
<1> DEFINE p == [image |-> Image(out), fields |-> fields]
<1>1. ~closed /\ sent' = Append(sent, p) /\ stream' = stream \o Image(out)
  BY DEF Send
<1>2. /\ Sound(out) /\ sent \in Seq([image : Seq(Nat), fields : Seq(Fields)])
      /\ fields \in Seq(Fields) /\ stream \in Seq(Nat)
  BY DEF Sends, Receives
<1>3. Image(out) \in Seq(Nat)
  <2>1. /\ Image(out) = Framed(out.code, out.data) /\ Fits(out.data)
        /\ out.data \in Seq(Data) /\ out.code \in Nat
    BY <1>2, SoundImage
  <2>2. out.data \in Seq(Nat)
    BY <2>1, DataNat
  <2> QED
    BY <2>1, <2>2, FramedBytes
<1>4. /\ Len(stream') = Len(stream) + Len(Image(out))
      /\ \A i \in 1..Len(stream) : stream'[i] = stream[i]
      /\ \A j \in 1..Len(Image(out)) : stream'[Len(stream) + j] = Image(out)[j]
  BY <1>1, <1>2, <1>3, Joined
<1>5. p \in [image : Seq(Nat), fields : Seq(Fields)] /\ p.image = Image(out)
  BY <1>2, <1>3
<1> HIDE DEF p
<1>6. /\ Len(sent') = Len(sent) + 1 /\ sent'[Len(sent) + 1] = p
      /\ \A k \in 1..Len(sent) : sent'[k] = sent[k]
  BY <1>1, <1>2, <1>5, AppendProperties
<1> QED
  BY <1>3, <1>4, <1>5, <1>6

LEMMA SendInStep ==
  ASSUME Sends, Receives, InStep, Send
  PROVE  InStep'
<1> SUFFICES ASSUME pc' # "gone" PROVE InStep'
  BY DEF InStep
<1>1. UNCHANGED <<pc, head, received, cut>>
  BY DEF Send, receiving
<1>2. PICK start : Placed(start) /\ Current(start)
  BY <1>1 DEF InStep
<1>0. PICK n : n = Len(sent)
  OBVIOUS
<1> DEFINE long == Len(stream)
           image == Image(out)
           size == Len(image)
<1>3. /\ n \in Nat /\ long \in Nat /\ size \in Nat /\ Done \in Nat /\ Done' = Done /\ Done <= n
      /\ Len(sent') = n + 1 /\ Len(stream') = long + size
  BY <1>0, <1>1, <1>2, Sizes, DoneNat, SentMore DEF Receives, Current, Done
<1>4. /\ \A k \in 1..n : ImageOf(k)' = ImageOf(k) /\ Size(k)' = Size(k)
      /\ ImageOf(n + 1)' = image /\ Size(n + 1)' = size
      /\ \A k \in 1..n : sent'[k] = sent[k]
  BY <1>0, SentMore DEF ImageOf, Size
<1>5. /\ \A i \in 1..long : stream'[i] = stream[i]
      /\ \A j \in 1..size : stream'[long + j] = image[j]
  BY SentMore
<1>6. /\ start \in [1..(n + 1) -> Int] /\ start[n + 1] = long + 1
      /\ \A k \in 1..(n + 1) : start[k] <= long + 1
  BY <1>0, <1>2 DEF Placed
<1>7. \A k \in 1..n :
        /\ start[k] \in Int /\ start[k + 1] = start[k] + Size(k) /\ Size(k) \in Nat
        /\ \A j \in 1..Size(k) :
             start[k] + j - 1 >= 1 =>
               start[k] + j - 1 <= long /\ stream[start[k] + j - 1] = ImageOf(k)[j]
  BY <1>0, <1>2, PlacedByte, Sizes
<1> HIDE DEF long, image, size
<1>8. PICK to : to = [k \in 1..(n + 2) |-> IF k = n + 2 THEN long + size + 1 ELSE start[k]]
  OBVIOUS
<1>9. /\ to \in [1..(n + 2) -> Int] /\ to[n + 2] = long + size + 1
      /\ \A k \in 1..(n + 1) : to[k] = start[k]
  BY <1>3, <1>6, <1>8
<1>10. ASSUME NEW k \in 1..(n + 2) PROVE to[k] <= long + size + 1
  <2>1. k \in 1..(n + 1) \/ k = n + 2
    BY <1>3
  <2>2. CASE k \in 1..(n + 1)
    BY <1>3, <1>6, <1>9, <2>2
  <2>3. CASE k = n + 2
    BY <1>3, <1>9, <2>3
  <2> QED
    BY <2>1, <2>2, <2>3
<1>11. ASSUME NEW k \in 1..(n + 1)
       PROVE  /\ to[k + 1] = to[k] + Size(k)'
              /\ \A j \in 1..Size(k)' :
                   to[k] + j - 1 >= 1 => stream'[to[k] + j - 1] = ImageOf(k)'[j]
  <2>1. k \in 1..n \/ k = n + 1
    BY <1>3
  <2>2. CASE k \in 1..n
    <3> DEFINE s == start[k]
    <3>1. k \in 1..(n + 1) /\ k + 1 \in 1..(n + 1)
      BY <1>3, <2>2
    <3>2. to[k] = s /\ to[k + 1] = s + Size(k)
      BY <1>7, <1>9, <2>2, <3>1
    <3>3. ASSUME NEW j \in 1..Size(k), s + j - 1 >= 1
          PROVE  stream'[s + j - 1] = ImageOf(k)[j]
      <4>1. s + j - 1 <= long /\ stream[s + j - 1] = ImageOf(k)[j] /\ s \in Int /\ Size(k) \in Nat
        BY <1>7, <2>2, <3>3
      <4> HIDE DEF s
      <4>2. s + j - 1 \in 1..long
        BY <1>3, <3>3, <4>1
      <4> QED
        BY <1>5, <4>1, <4>2
    <3> HIDE DEF s
    <3> QED
      BY <1>4, <2>2, <3>2, <3>3
  <2>3. CASE k = n + 1
    <3>1. to[k] = long + 1 /\ to[k + 1] = long + size + 1
      BY <1>3, <1>6, <1>9, <2>3
    <3>2. ASSUME NEW j \in 1..size PROVE stream'[(long + 1) + j - 1] = image[j]
      <4>1. (long + 1) + j - 1 = long + j
        BY <1>3
      <4> QED
        BY <1>5, <4>1
    <3>3. Size(k)' = size /\ ImageOf(k)' = image
      BY <1>4, <2>3 DEF Size, ImageOf
    <3>4. to[k + 1] = to[k] + size
      BY <1>3, <3>1
    <3> QED
      BY <3>1, <3>2, <3>3, <3>4
  <2> QED
    BY <2>1, <2>2, <2>3
<1>12. Placed(to)'
  <2>1. Len(sent') + 1 = n + 2 /\ Len(stream') + 1 = long + size + 1
    BY <1>3
  <2> QED
    <3>1. /\ to \in [1..(Len(sent') + 1) -> Int] /\ to[Len(sent') + 1] = Len(stream') + 1
          /\ \A k \in 1..(Len(sent') + 1) : to[k] <= Len(stream') + 1
      BY <1>9, <1>10, <2>1
    <3>2. \A k \in 1..Len(sent') :
            /\ to[k + 1] = to[k] + Size(k)'
            /\ \A j \in 1..Size(k)' :
                 to[k] + j - 1 >= 1 => stream'[to[k] + j - 1] = ImageOf(k)'[j]
      BY <1>3, <1>11, Zenon
    <3> QED
      BY <3>1, <3>2, Zenon DEF Placed
<1>13. Current(to)'
  <2>1. Done + 1 \in 1..(n + 1)
    BY <1>3
  <2>2. to[Done + 1] = start[Done + 1] /\ start[Done + 1] <= long + 1 /\ start[Done + 1] \in Int
    BY <1>6, <1>9, <2>1
  <2>3. ASSUME pc = "header"
        PROVE  /\ to[Done + 1] >= 1
               /\ \A i \in 1..(to[Done + 1] - 1) : stream'[i] # Mark
    <3>1. start[Done + 1] >= 1 /\ \A i \in 1..(start[Done + 1] - 1) : stream[i] # Mark
      BY <1>2, <2>3 DEF Current
    <3> DEFINE here == start[Done + 1]
    <3>2. here \in Int /\ here <= long + 1 /\ to[Done + 1] = here /\ here >= 1
      BY <2>2, <3>1
    <3>3. ASSUME NEW i \in 1..(here - 1) PROVE stream'[i] # Mark
      <4>1. stream[i] # Mark
        BY <3>1
      <4> HIDE DEF here
      <4>2. i \in 1..long
        BY <1>3, <3>2
      <4> QED
        BY <1>5, <4>1, <4>2
    <3> HIDE DEF here
    <3> QED
      BY <3>2, <3>3
  <2>4. Done < n => /\ ImageOf(Done + 1)' = ImageOf(Done + 1)
                    /\ Size(Done + 1)' = Size(Done + 1)
    <3> SUFFICES ASSUME Done < n PROVE sent'[Done + 1] = sent[Done + 1]
      BY <1>3 DEF ImageOf, Size
    <3>1. Done + 1 \in 1..n
      BY <1>3
    <3> QED
      BY <1>4, <3>1
  <2>5. Done <= Len(sent') /\ (Done < n => Done < Len(sent'))
    BY <1>3
  <2>6. /\ pc = "code" => start[Done + 1] = 0 /\ Done < n
        /\ pc = "low"  => start[Done + 1] = -1 /\ Done < n /\ head.code = Done + 1
        /\ pc = "high" => /\ start[Done + 1] = -2 /\ Done < n
                          /\ head.code = Done + 1 /\ head.length = ImageOf(Done + 1)[3]
        /\ pc = "body" => /\ start[Done + 1] = -3 /\ Done < n
                          /\ head.code = Done + 1 /\ head.length = Size(Done + 1)
        /\ pc = "handler" => start[Done + 1] = 1
    BY <1>0, <1>2 DEF Current
  <2> QED
    <3>1. /\ pc' = "code" => to[Done + 1] = 0 /\ Done < Len(sent')
          /\ pc' = "low"  => to[Done + 1] = -1 /\ Done < Len(sent') /\ head'.code = Done + 1
          /\ pc' = "handler" => to[Done + 1] = 1
      BY <1>1, <2>2, <2>5, <2>6
    <3>2. pc' = "high" => /\ to[Done + 1] = -2 /\ Done < Len(sent')
                          /\ head'.code = Done + 1 /\ head'.length = ImageOf(Done + 1)'[3]
      BY <1>1, <2>2, <2>4, <2>5, <2>6
    <3>3. pc' = "body" => /\ to[Done + 1] = -3 /\ Done < Len(sent')
                          /\ head'.code = Done + 1 /\ head'.length = Size(Done + 1)'
      BY <1>1, <2>2, <2>4, <2>5, <2>6
    <3> QED
      BY <1>1, <1>3, <2>3, <2>5, <3>1, <3>2, <3>3 DEF Current
<1> QED
  BY <1>12, <1>13 DEF InStep

(* What neither reads nor sends, and the handler that has finished. *)
LEMMA QuietInStep ==
  ASSUME Receives, InStep, UNCHANGED <<sent, stream, received, cut, head>>,
         pc' = pc \/ (pc = "handler" /\ pc' = "header")
  PROVE  InStep'
<1> SUFFICES ASSUME pc' # "gone" PROVE InStep'
  BY DEF InStep
<1>1. PICK start : Placed(start) /\ Current(start)
  BY DEF InStep
<1>2. Done' = Done /\ Len(sent') = Len(sent) /\ \A k : ImageOf(k)' = ImageOf(k) /\ Size(k)' = Size(k)
  BY DEF Done, ImageOf, Size
<1>3. Placed(start)'
  BY <1>1, <1>2 DEF Placed
<1>4. Current(start)'
  BY <1>1, <1>2 DEF Current
<1> QED
  BY <1>3, <1>4 DEF InStep

LEMMA InStepStep ==
  ASSUME IInv, InStep, Aligned', [Next]_vars
  PROVE  InStep'
<1>1. Sends /\ Receives
  BY DEF IInv
<1>2. CASE UNCHANGED vars
  BY <1>1, <1>2, QuietInStep DEF vars
<1>3. CASE (\E f \in Fields : Add(f)) \/ Close \/ Deliver \/ destroy_buffer \/ \E form \in Forms : Read(form[1], form[2])
  <2>1. UNCHANGED <<sent, stream, received, cut, head>> /\ (pc' = pc \/ (pc = "handler" /\ pc' = "header"))
    BY <1>3 DEF Add, Close, Deliver, destroy_buffer, Read, sending, receiving, network
  <2> QED
    BY <1>1, <2>1, QuietInStep
<1> QED
  BY <1>1, <1>2, <1>3, SendInStep, ByteInStep, BodyInStep, FailsInStep DEF Next, read_buffer

(* A body that was all there is the next packet's. *)
LEMMA WholeBody ==
  ASSUME Sends, Receives, InStep, ReadBody, pc' = "handler"
  PROVE  /\ Done < Len(sent) /\ Done + 1 \in 1..Len(sent) /\ sent' = sent /\ cut' = cut /\ got' = got
         /\ received' = Append(received, ImageOf(Done + 1))
         /\ packet'.code = Done + 1 /\ packet'.position = HEADER
         /\ \E at : Laid(at, packet'.data, sent[Done + 1].fields)
<1>1. PICK start : Placed(start) /\ Current(start)
  BY DEF InStep, ReadBody
<1>2. pc = "body" /\ sent' = sent
  BY DEF ReadBody, Take, sending
<1>3. Done < Len(sent) /\ Done + 1 \in 1..Len(sent) /\ head.code = Done + 1
  BY <1>1, <1>2, BodyBytes
<1>4. PICK data \in Seq(Data) :
        /\ Carries(Done + 1, data) /\ Len(data) = Missing
        /\ Missing <= Len(stream) /\ \A i \in 1..Missing : stream[i] = data[i]
  BY <1>1, <1>2, BodyBytes
<1> DEFINE body == SubSeq(stream, 1, Amount)
<1>5. /\ cut' = cut /\ got' = got
      /\ packet' = create_buffer_data(head.code, body)
      /\ body \in Seq(Nat) /\ Fits(body) /\ Len(body) = Missing
      /\ \A i \in 1..Missing : body[i] = stream[i]
      /\ received' = Append(received, Framed(head.code, body))
  BY BodyRead
<1> HIDE DEF body
<1>6. body = data
  <2>1. data \in Seq(Nat)
    BY <1>4, DataNat
  <2>2. Len(body) = Len(data) /\ \A i \in 1..Len(body) : body[i] = data[i]
    BY <1>4, <1>5
  <2> QED
    BY <1>5, <2>1, <2>2, SeqEqual
<1>7. ImageOf(Done + 1) = Framed(Done + 1, data) /\ \E at : Laid(at, data, sent[Done + 1].fields)
  BY <1>4 DEF Carries
<1>8. Done + 1 \in Nat
  BY DoneNat
<1>9. /\ create_buffer_data(Done + 1, data).code = Done + 1
      /\ create_buffer_data(Done + 1, data).data = data
      /\ create_buffer_data(Done + 1, data).position = HEADER
  BY <1>5, <1>6, <1>8, WholePacket
<1> QED
  BY <1>2, <1>3, <1>5, <1>6, <1>7, <1>9

(***************************************************************************)
(* The packets read among the packets sent                                 *)
(***************************************************************************)
Matches(f) ==
  /\ f \in [1..Len(received) -> 1..Len(sent)]
  /\ \A i \in 1..Len(received) : f[i] <= Done /\ received[i] = ImageOf(f[i])
  /\ \A i, j \in 1..Len(received) : i < j => f[i] < f[j]

Matched == \E f : Matches(f)

(* What was sent stays, and a step reads at most the packet that is next. *)
LEMMA SentStays ==
  ASSUME IInv, [Next]_vars
  PROVE  Len(sent') >= Len(sent) /\ \A k \in 1..Len(sent) : sent'[k] = sent[k]
<1>1. Sends /\ Receives /\ Len(sent) \in Nat
  BY Sizes DEF IInv
<1>2. CASE Send
  BY <1>1, <1>2, SentMore
<1>3. CASE ~Send
  <2>1. sent' = sent
    BY <1>3 DEF Next, vars, Add, Close, Deliver, read_buffer, ReadHeader, ReadCode, ReadLow, ReadHigh,
                ReadBody, ReadFails, Read, destroy_buffer, Take, sending
  <2> QED
    BY <1>1, <2>1
<1> QED
  BY <1>2, <1>3

LEMMA ReadsNext ==
  ASSUME IInv, InStep, [Next]_vars
  PROVE  \/ received' = received /\ (cut' = cut \/ cut' = cut + 1)
         \/ /\ Done < Len(sent) /\ Done + 1 \in 1..Len(sent) /\ sent' = sent /\ cut' = cut
            /\ received' = Append(received, ImageOf(Done + 1))
<1>1. Sends /\ Receives
  BY DEF IInv
<1>2. CASE ReadBody
  <2>1. CASE pc' = "handler"
    BY <1>1, <1>2, <2>1, WholeBody
  <2>2. CASE pc' # "handler"
    BY <1>1, <1>2, <2>2, BodyRead
  <2> QED
    BY <2>1, <2>2
<1>3. CASE ~ReadBody
  BY <1>3 DEF Next, vars, Add, Send, Close, Deliver, read_buffer, ReadHeader, ReadCode, ReadLow, ReadHigh,
              ReadFails, Read, destroy_buffer, receiving
<1> QED
  BY <1>2, <1>3

LEMMA MatchedStep ==
  ASSUME IInv, InStep, Matched, [Next]_vars
  PROVE  Matched'
<1>1. Sends /\ Receives /\ Len(sent) \in Nat /\ Done \in Nat
  BY Sizes, DoneNat DEF IInv
<1>2. PICK f : Matches(f)
  BY DEF Matched
<1>3. received \in Seq(Seq(Nat)) /\ Len(received) \in Nat /\ cut \in Nat
  BY <1>1 DEF Receives
<1>4. IInv'
  BY IInvStep
<1>5. Len(sent') \in Nat /\ Len(sent') >= Len(sent) /\ \A k \in 1..Len(sent) : sent'[k] = sent[k]
  <2>1. Len(sent') \in Nat
    BY <1>4 DEF IInv, Sends
  <2> QED
    BY <2>1, SentStays
<1>6. 1..Len(sent) \subseteq 1..Len(sent')
  BY <1>1, <1>5
<1>7. CASE received' = received /\ (cut' = cut \/ cut' = cut + 1)
  <2>1. Done' \in Nat /\ Done <= Done' /\ Len(received') = Len(received)
    BY <1>3, <1>7 DEF Done
  <2>2. f \in [1..Len(received) -> 1..Len(sent')]
    BY <1>2, <1>6 DEF Matches
  <2>3. ASSUME NEW i \in 1..Len(received)
        PROVE  f[i] <= Done' /\ received[i] = sent'[f[i]].image
    <3>1. f[i] \in 1..Len(sent) /\ f[i] <= Done /\ received[i] = sent[f[i]].image
      BY <1>2 DEF Matches, ImageOf
    <3>2. f[i] \in Nat
      BY <1>1, <3>1
    <3> QED
      BY <1>1, <1>5, <2>1, <3>1, <3>2
  <2>4. \A i, j \in 1..Len(received) : i < j => f[i] < f[j]
    BY <1>2 DEF Matches
  <2>5. Matches(f)'
    BY <1>7, <2>2, <2>3, <2>4 DEF Matches, ImageOf
  <2> QED
    BY <2>5 DEF Matched
<1>8. CASE /\ Done < Len(sent) /\ Done + 1 \in 1..Len(sent) /\ sent' = sent /\ cut' = cut
           /\ received' = Append(received, ImageOf(Done + 1))
  <2> DEFINE image == ImageOf(Done + 1)
  <2>0. PICK m : m = Len(received)
    OBVIOUS
  <2>1. PICK d : d = Done + 1
    OBVIOUS
  <2>2. PICK g : g = [i \in 1..(m + 1) |-> IF i = m + 1 THEN d ELSE f[i]]
    OBVIOUS
  <2>3. /\ Len(received') = m + 1 /\ received'[m + 1] = sent[d].image
        /\ \A i \in 1..m : received'[i] = received[i]
    <3>1. received \in Seq(Seq(Nat) \cup {image})
      BY <1>3, Widened
    <3> QED
      BY <1>8, <2>0, <2>1, <3>1, AppendProperties DEF ImageOf
  <2>4. Done' = d /\ d \in 1..Len(sent) /\ d \in Nat /\ m \in Nat /\ Done = d - 1
    BY <1>1, <1>3, <1>8, <2>0, <2>1, <2>3 DEF Done
  <2>5. /\ f \in [1..m -> 1..Len(sent)]
        /\ \A i \in 1..m : f[i] <= Done /\ received[i] = sent[f[i]].image
        /\ \A i, j \in 1..m : i < j => f[i] < f[j]
    BY <1>2, <2>0 DEF Matches, ImageOf
  <2>6. ASSUME NEW i \in 1..(m + 1)
        PROVE  g[i] \in 1..Len(sent) /\ g[i] <= d /\ received'[i] = sent[g[i]].image
    <3>1. i \in 1..m \/ i = m + 1
      BY <2>4
    <3>2. CASE i \in 1..m
      <4>1. g[i] = f[i]
        BY <2>2, <2>4, <3>2
      <4>2. f[i] \in 1..Len(sent) /\ f[i] <= Done /\ received[i] = sent[f[i]].image
        BY <2>5, <3>2
      <4>3. f[i] \in Nat /\ f[i] <= d
        BY <1>1, <2>4, <4>2
      <4> QED
        BY <2>3, <3>2, <4>1, <4>2, <4>3
    <3>3. CASE i = m + 1
      BY <2>2, <2>3, <2>4, <3>3
    <3> QED
      BY <3>1, <3>2, <3>3
  <2>7. ASSUME NEW i \in 1..(m + 1), NEW j \in 1..(m + 1), i < j
        PROVE  g[i] < g[j]
    <3>1. i \in 1..m
      BY <2>4, <2>7
    <3>2. g[i] = f[i] /\ f[i] <= Done /\ f[i] \in 1..Len(sent)
      BY <2>2, <2>4, <2>5, <3>1
    <3>3. CASE j \in 1..m
      <4>1. g[j] = f[j]
        BY <2>2, <2>4, <3>3
      <4> QED
        BY <2>5, <2>7, <3>1, <3>2, <3>3, <4>1
    <3>4. CASE j = m + 1
      <4>1. g[j] = d /\ f[i] \in Nat
        BY <1>1, <2>2, <3>2, <3>4
      <4> QED
        BY <2>4, <3>2, <4>1
    <3> QED
      BY <2>4, <3>3, <3>4
  <2>8. Matches(g)'
    <3>1. g \in [1..(m + 1) -> 1..Len(sent)]
      BY <2>2, <2>6
    <3> QED
      BY <1>8, <2>3, <2>4, <2>6, <2>7, <3>1 DEF Matches, ImageOf
  <2> QED
    BY <2>8 DEF Matched
<1> QED
  BY <1>7, <1>8, ReadsNext

(***************************************************************************)
(* What the handler reads                                                  *)
(***************************************************************************)
LEMMA FieldKinds ==
  ASSUME NEW f \in Fields
  PROVE  /\ f.kind \in {"int", "bytes"} => Len(BytesOf(f)) = f.size
         /\ f.kind = "ntstring" =>
              \E n \in Nat : /\ Len(BytesOf(f)) = n + 1 /\ BytesOf(f)[n + 1] = 0
                             /\ \A j \in 1..n : BytesOf(f)[j] # 0
         /\ f.kind \in {"int", "bytes", "ntstring"}
<1>1. CASE f \in [kind : {"int"}, size : {1, 2, 4}, value : Nat]
  <2>1. f.kind = "int" /\ f.size \in {1, 2, 4} /\ f.value \in Nat
    BY <1>1
  <2> QED
    BY <2>1, LittleBytes DEF BytesOf
<1>2. CASE f \in [kind : {"bytes"}, size : Nat, value : Seq(0..255)] /\ f.size = Len(f.value)
  BY <1>2 DEF BytesOf
<1>3. CASE f \in [kind : {"ntstring"}, size : Nat, value : Seq(1..255)]
  <2> DEFINE v == f.value
             n == Len(v)
             Char == 1..255
  <2>1. f.kind = "ntstring" /\ v \in Seq(Char) /\ BytesOf(f) = Append(v, 0)
    BY <1>3 DEF BytesOf
  <2>2. Char \subseteq Nat /\ 0 \notin Char
    OBVIOUS
  <2> HIDE DEF v, Char
  <2>3. v \in Seq(Nat) /\ n \in Nat /\ \A j \in 1..n : v[j] # 0
    <3>1. \A j \in 1..n : v[j] \in Char
      BY <2>1
    <3>2. v \in Seq(Nat)
      BY <2>1, <2>2, Widened
    <3>3. n \in Nat
      BY <3>2
    <3> HIDE DEF n
    <3> QED
      BY <2>2, <3>1, <3>2, <3>3
  <2>4. /\ Len(Append(v, 0)) = n + 1 /\ Append(v, 0)[n + 1] = 0
        /\ \A j \in 1..n : Append(v, 0)[j] = v[j]
    BY <2>3, AppendProperties
  <2> HIDE DEF n
  <2> QED
    BY <2>1, <2>3, <2>4
<1> QED
  BY <1>1, <1>2, <1>3, FieldsAssumption

(* At the place where a field lies, reading what was written takes exactly *)
(* the field's bytes.                                                      *)
LEMMA FieldRead ==
  ASSUME NEW p, Readable(p), NEW fs \in Seq(Fields), NEW at, Laid(at, p.data, fs),
         NEW n \in Nat, n + 1 \in 1..Len(fs), p.position = HEADER + at[n]
  PROVE  LET f == fs[n + 1]
         IN  /\ Extent(p, f.kind, f.size) = Len(BytesOf(f))
             /\ Taken(p, f.kind, f.size) = BytesOf(f)
             /\ at[n + 1] = at[n] + Len(BytesOf(f)) /\ at[n + 1] \in Nat /\ at[n] \in Nat
<1>1. PICK f : f = fs[n + 1]
  OBVIOUS
<1>2. f \in Fields
  BY <1>1
<1> DEFINE bytes == BytesOf(f)
           w == Len(bytes)
           left == Left(p)
           long == Len(p.data)
           a == at[n]
           b == at[n + 1]
<1>3. bytes \in Seq(Nat) /\ w \in Nat
  BY <1>2, FieldBytes, DataNat
<1>4. long \in Nat /\ p.length \in Nat /\ p.length = long + 4
  BY DEF Readable, Packets, HEADER
<1>5. /\ a \in 0..long /\ b \in 0..long /\ b = a + w
      /\ \A j \in 1..w : p.data[a + j] = bytes[j]
  <2>1. at \in [0..Len(fs) -> 0..long] /\ Len(fs) \in Nat
    BY DEF Laid
  <2>2. n \in 0..Len(fs) /\ n + 1 \in 0..Len(fs) /\ (n + 1) - 1 = n
    BY <2>1
  <2>3. /\ at[n + 1] = at[(n + 1) - 1] + Len(BytesOf(fs[n + 1]))
        /\ \A j \in 1..Len(BytesOf(fs[n + 1])) : p.data[at[(n + 1) - 1] + j] = BytesOf(fs[n + 1])[j]
    BY DEF Laid
  <2>4. at[n] \in 0..long /\ at[n + 1] \in 0..long
    BY <2>1, <2>2
  <2> QED
    BY <1>1, <2>2, <2>3, <2>4
<1>6. a \in Nat /\ b \in Nat /\ w <= long - a
  BY <1>3, <1>4, <1>5
<1>7. p.position - HEADER = a
  BY <1>6 DEF HEADER
<1>8. /\ left \in Seq(Nat) /\ Len(left) = long - a
      /\ \A i \in 1..Len(left) : left[i] = p.data[i + a]
  BY <1>7, LeftBytes
<1> HIDE DEF bytes, w, left, long, a, b
<1>9. ASSUME NEW j \in 1..w PROVE left[j] = bytes[j]
  <2>1. j \in 1..Len(left) /\ j + a = a + j
    BY <1>3, <1>4, <1>6, <1>8
  <2> QED
    BY <1>5, <1>8, <2>1
<1>10. Extent(p, f.kind, f.size) = w
  <2>1. CASE f.kind \in {"int", "bytes"}
    BY <1>2, <2>1, FieldKinds DEF Extent, w, bytes
  <2>2. CASE f.kind = "ntstring"
    <3>1. PICK m \in Nat : w = m + 1 /\ bytes[w] = 0 /\ \A j \in 1..m : bytes[j] # 0
      BY <1>2, <2>2, FieldKinds DEF w, bytes
    <3>2. w \in 1..Len(left) /\ left[w] = 0
      <4>1. w \in 1..w /\ w \in 1..Len(left)
        BY <1>3, <1>4, <1>6, <1>8, <3>1
      <4> QED
        BY <1>9, <3>1, <4>1
    <3> DEFINE zero == ZeroIn(left)
    <3>3. zero \in 1..Len(left) /\ left[zero] = 0 /\ zero <= w
      BY <1>8, <3>2, FirstZero
    <3> HIDE DEF zero
    <3>4. zero \notin 1..m
      <4> SUFFICES ASSUME zero \in 1..m PROVE FALSE
        OBVIOUS
      <4>1. zero \in 1..w
        BY <3>1
      <4> QED
        BY <1>9, <3>1, <3>3, <4>1
    <3>5. zero = w
      BY <1>4, <1>6, <1>8, <3>1, <3>3, <3>4
    <3>6. zero \in 1..(Room(p) - 1)
      BY <1>4, <1>6, <1>8, <3>3 DEF Room
    <3> QED
      BY <2>2, <3>5, <3>6 DEF Extent, zero, ZeroIn, left
  <2> QED
    BY <1>2, <2>1, <2>2, FieldKinds
<1>11. Taken(p, f.kind, f.size) = bytes
  <2>1. w <= Len(left) /\ Len(left) \in Nat /\ w \in 0..Len(left)
    BY <1>3, <1>4, <1>6, <1>8
  <2>2. Min({w, Len(left)}) = w
    <3> DEFINE l == Len(left)
    <3>1. w <= l /\ l \in Nat /\ w \in Nat
      BY <1>3, <2>1
    <3> HIDE DEF l
    <3>2. \A x : (x \in {w, l} /\ \A y \in {w, l} : x <= y) <=> x = w
      BY <3>1
    <3>3. Min({w, l}) = w
      BY <3>2 DEF Min
    <3> QED
      BY <3>3 DEF l
  <2>3. Taken(p, f.kind, f.size) = SubSeq(left, 1, w)
    BY <1>10, <2>2 DEF Taken, left
  <2>4. /\ SubSeq(left, 1, w) \in Seq(Nat) /\ Len(SubSeq(left, 1, w)) = w
        /\ \A i \in 1..w : SubSeq(left, 1, w)[i] = left[i]
    BY <1>8, <2>1, FirstBytes
  <2>5. SubSeq(left, 1, w) = bytes
    <3> DEFINE s == SubSeq(left, 1, w)
    <3>1. s \in Seq(Nat) /\ Len(s) = Len(bytes) /\ \A i \in 1..Len(s) : s[i] = bytes[i]
      BY <1>9, <2>4 DEF w
    <3> HIDE DEF s
    <3>2. s = bytes
      BY <1>3, <3>1, SeqEqual
    <3> QED
      BY <3>2 DEF s
  <2> QED
    BY <2>3, <2>5
<1> QED
  BY <1>1, <1>5, <1>6, <1>10, <1>11 DEF a, b, w, bytes

(* Put: the fields of the packet at hand.  As long as its handler has read *)
(* the kinds that were written, it is where the next field lies.           *)
Put == sent[packet.code].fields
ReadAs(j) == j \in DOMAIN Put /\ got[j].kind = Put[j].kind /\ got[j].size = Put[j].size
AllRead(n) == \A j \in 1..n : ReadAs(j)

Held ==
  pc = "handler" =>
    /\ packet.code \in 1..Len(sent)
    /\ \E at : /\ Laid(at, packet.data, Put)
               /\ AllRead(Len(got)) => packet.position = HEADER + at[Len(got)]
    /\ \A i \in DOMAIN got :
         AllRead(i) => got[i].value = ValueOf(Put[i].kind, BytesOf(Put[i]))

LEMMA HeldStep ==
  ASSUME IInv, InStep, Held, [Next]_vars
  PROVE  Held'
<1> SUFFICES ASSUME pc' = "handler" PROVE Held'
  BY DEF Held
<1>1. Sends /\ Receives
  BY DEF IInv
<1>2. IInv' /\ Len(sent') \in Nat /\ Len(sent) \in Nat
  <2>1. IInv'
    BY IInvStep
  <2> QED
    BY <1>1, <2>1 DEF IInv, Sends
<1>3. CASE pc = "handler" /\ UNCHANGED <<packet, got>>
  <2>1. packet.code \in 1..Len(sent) /\ packet.code \in 1..Len(sent')
    BY <1>2, <1>3, SentStays DEF Held
  <2>2. Put' = Put
    BY <1>3, <2>1, SentStays DEF Put
  <2>3. \A j : ReadAs(j)' <=> ReadAs(j)
    BY <1>3, <2>2 DEF ReadAs
  <2>4. \A n : AllRead(n)' <=> AllRead(n)
    BY <2>3 DEF AllRead
  <2> QED
    BY <1>3, <2>1, <2>2, <2>4 DEF Held
<1>4. CASE ReadBody
  <2>1. /\ Done + 1 \in 1..Len(sent) /\ sent' = sent /\ got' = got
        /\ packet'.code = Done + 1 /\ packet'.position = HEADER
        /\ \E at : Laid(at, packet'.data, sent[Done + 1].fields)
    BY <1>1, <1>4, WholeBody
  <2>2. got' = << >>
    BY <1>1, <1>4, <2>1 DEF Receives, ReadBody
  <2>3. packet'.code \in 1..Len(sent') /\ Put' = sent[Done + 1].fields
    BY <2>1 DEF Put
  <2>4. PICK at : Laid(at, packet'.data, Put')
    BY <2>1, <2>3
  <2>5. at[0] = 0 /\ Len(got') = 0 /\ DOMAIN got' = {}
    BY <2>2, <2>4 DEF Laid
  <2>6. packet'.position = HEADER + at[Len(got')]
    BY <2>1, <2>5 DEF HEADER
  <2> QED
    BY <2>3, <2>4, <2>5, <2>6 DEF Held
<1>5. CASE \E form \in Forms : Read(form[1], form[2])
  <2>1. PICK form \in Forms : Read(form[1], form[2])
    BY <1>5
  <2>2. PICK kind, size : kind = form[1] /\ size = form[2] /\ <<kind, size>> \in Forms
    <3>1. form \in {"int", "bytes", "ntstring"} \X Nat
      BY FieldsAssumption
    <3>2. form = <<form[1], form[2]>>
      BY <3>1
    <3> QED
      BY <3>2
  <2>3. PICK item : item = [kind |-> kind, size |-> size,
                            value |-> ValueOf(kind, Taken(packet, kind, size))]
    OBVIOUS
  <2>4. /\ pc = "handler" /\ can_read(packet, kind, size) /\ packet' = Advance(packet, kind, size)
        /\ got' = Append(got, item) /\ UNCHANGED sent
    BY <2>1, <2>2, <2>3 DEF Read, sending
  <2>5. /\ Readable(packet) /\ packet'.data = packet.data /\ packet'.code = packet.code
        /\ packet'.position = packet.position + Extent(packet, kind, size)
    BY <1>1, <2>2, <2>4, StaysReadable DEF Receives
  <2>6. Put' = Put /\ packet'.code \in 1..Len(sent')
    BY <2>4, <2>5 DEF Put, Held
  <2>7. PICK n : n = Len(got)
    OBVIOUS
  <2>8. /\ n \in Nat /\ Len(got') = n + 1 /\ got'[n + 1] = item /\ DOMAIN got = 1..n
        /\ DOMAIN got' = 1..(n + 1) /\ \A i \in 1..n : got'[i] = got[i]
    <3>1. PICK S : got \in Seq(S)
      BY <1>1 DEF Receives, IsSeq
    <3>2. got \in Seq(S \cup {item})
      BY <3>1, Widened
    <3> QED
      BY <2>4, <2>7, <3>2, AppendProperties
  <2>9. Put \in Seq(Fields)
    <3>1. packet.code \in 1..Len(sent)
      BY <2>4 DEF Held
    <3>2. sent \in Seq([image : Seq(Nat), fields : Seq(Fields)])
      BY <1>1 DEF Sends
    <3>3. sent[packet.code] \in [image : Seq(Nat), fields : Seq(Fields)]
      <4> DEFINE R == [image : Seq(Nat), fields : Seq(Fields)]
                 k == packet.code
      <4>1. sent \in Seq(R) /\ k \in 1..Len(sent)
        BY <3>1, <3>2
      <4> HIDE DEF R, k
      <4>2. sent[k] \in R
        BY <4>1
      <4> QED
        BY <4>2 DEF R, k
    <3> QED
      BY <3>3 DEF Put
  <2>10. PICK at : /\ Laid(at, packet.data, Put)
                   /\ AllRead(n) => packet.position = HEADER + at[n]
    BY <2>4, <2>7 DEF Held
  <2>11. ASSUME NEW i \in 1..n PROVE AllRead(i)' <=> AllRead(i)
    <3>1. \A j \in 1..i : j \in 1..n
      BY <2>8
    <3>2. \A j \in 1..i : ReadAs(j)' <=> ReadAs(j)
      BY <2>6, <2>8, <3>1 DEF ReadAs
    <3> QED
      BY <3>2 DEF AllRead
  <2>12. ASSUME AllRead(n + 1)'
         PROVE  /\ item.value = ValueOf(Put[n + 1].kind, BytesOf(Put[n + 1]))
                /\ packet'.position = HEADER + at[n + 1]
    <3>1. ReadAs(n + 1)'
      BY <2>8, <2>12 DEF AllRead
    <3>2. n + 1 \in DOMAIN Put /\ kind = Put[n + 1].kind /\ size = Put[n + 1].size
      BY <2>3, <2>6, <2>8, <3>1 DEF ReadAs
    <3>3. AllRead(n)
      <4>1. \A j \in 1..n : j \in 1..(n + 1)
        BY <2>8
      <4>2. \A j \in 1..n : ReadAs(j)
        BY <2>6, <2>8, <2>12, <4>1 DEF AllRead, ReadAs
      <4> QED
        BY <4>2 DEF AllRead
    <3>4. packet.position = HEADER + at[n] /\ n + 1 \in 1..Len(Put)
      BY <2>9, <2>10, <3>2, <3>3
    <3>5. /\ Extent(packet, kind, size) = Len(BytesOf(Put[n + 1]))
          /\ Taken(packet, kind, size) = BytesOf(Put[n + 1])
          /\ at[n + 1] = at[n] + Len(BytesOf(Put[n + 1])) /\ at[n + 1] \in Nat /\ at[n] \in Nat
      BY <2>5, <2>8, <2>9, <2>10, <3>2, <3>4, FieldRead
    <3>6. item.value = ValueOf(kind, Taken(packet, kind, size))
      BY <2>3
    <3>7. packet'.position = HEADER + at[n + 1]
      <4> DEFINE w == Len(BytesOf(Put[n + 1]))
      <4>1. /\ packet'.position = packet.position + w /\ packet.position = HEADER + at[n]
            /\ at[n + 1] = at[n] + w /\ w \in Nat
        <5>1. BytesOf(Put[n + 1]) \in Seq(Data)
          BY <2>9, <3>2, FieldBytes
        <5> QED
          BY <2>5, <3>4, <3>5, <5>1
      <4> HIDE DEF w
      <4> QED
        BY <3>5, <4>1 DEF HEADER
    <3> QED
      BY <3>2, <3>5, <3>6, <3>7
  <2>13. ASSUME NEW i \in DOMAIN got', AllRead(i)'
         PROVE  got'[i].value = ValueOf(Put'[i].kind, BytesOf(Put'[i]))
    <3>1. i \in 1..n \/ i = n + 1
      BY <2>8
    <3>2. CASE i \in 1..n
      BY <2>4, <2>6, <2>8, <2>11, <2>13, <3>2 DEF Held
    <3>3. CASE i = n + 1
      BY <2>6, <2>8, <2>12, <2>13, <3>3
    <3> QED
      BY <3>1, <3>2, <3>3
  <2>14. /\ Laid(at, packet'.data, Put')
         /\ (\A j \in 1..Len(got') : ReadAs(j)') => packet'.position = HEADER + at[Len(got')]
    BY <2>5, <2>6, <2>8, <2>10, <2>12 DEF AllRead
  <2>15. \A i \in DOMAIN got' :
           (\A j \in 1..i : ReadAs(j)') => got'[i].value = ValueOf(Put'[i].kind, BytesOf(Put'[i]))
    BY <2>13 DEF AllRead
  <2> QED
    BY <2>6, <2>14, <2>15 DEF Held, AllRead
<1>6. \/ pc = "handler" /\ UNCHANGED <<packet, got>>
      \/ ReadBody
      \/ \E form \in Forms : Read(form[1], form[2])
  BY DEF Next, vars, Add, Send, Close, Deliver, read_buffer, ReadHeader, ReadCode, ReadLow, ReadHigh,
         ReadFails, destroy_buffer, receiving
<1> QED
  BY <1>3, <1>4, <1>5, <1>6

(***************************************************************************)
(* What arrives                                                            *)
(***************************************************************************)

(* While the reader is aligned with the packets, it is in step with them.  *)
RInv == IInv /\ (Aligned => InStep /\ Matched /\ Held)

LEMMA AlignedBefore == ASSUME IInv, Aligned', [Next]_vars PROVE Aligned
<1>1. cut \in Nat
  BY DEF IInv, Receives
<1>2. cut' = cut \/ cut' = cut + 1
  BY DEF Next, vars, Add, Send, Close, Deliver, read_buffer, ReadHeader, ReadCode, ReadLow, ReadHigh,
         ReadBody, ReadFails, Read, destroy_buffer, receiving
<1> QED
  BY <1>1, <1>2 DEF Aligned

LEMMA InStepAtFirst == Init => InStep /\ Matched /\ Held
<1> SUFFICES ASSUME Init PROVE InStep /\ Matched /\ Held
  OBVIOUS
<1>1. /\ Len(sent) = 0 /\ Len(stream) = 0 /\ Len(received) = 0 /\ cut = 0 /\ pc = "header"
  BY DEF Init
<1>2. PICK start : start = [k \in 1..1 |-> 1]
  OBVIOUS
<1>3. Placed(start)
  BY <1>1, <1>2 DEF Placed
<1>4. Current(start)
  BY <1>1, <1>2 DEF Current, Done
<1>5. PICK f : f = [i \in 1..0 |-> 1]
  OBVIOUS
<1>6. Matches(f)
  BY <1>1, <1>5 DEF Matches
<1> QED
  BY <1>1, <1>3, <1>4, <1>6 DEF InStep, Matched, Held

(* Whatever bytes the data has, until a body is cut, and if no byte of the *)
(* data is like the start of a packet for good, the reader is in step with *)
(* the packets: it is at, inside or behind one, or among what is left of   *)
(* one it has cut.                                                         *)
THEOREM StaysInStep == Spec => []RInv
<1>1. RInv /\ [Next]_vars => RInv'
  <2> SUFFICES ASSUME RInv, [Next]_vars PROVE RInv'
    OBVIOUS
  <2>1. IInv /\ IInv'
    BY IInvStep DEF RInv
  <2>2. ASSUME Aligned' PROVE InStep' /\ Matched' /\ Held'
    <3>1. InStep /\ Matched /\ Held
      BY <2>1, <2>2, AlignedBefore DEF RInv
    <3> QED
      BY <2>1, <2>2, <3>1, InStepStep, MatchedStep, HeldStep
  <2> QED
    BY <2>1, <2>2 DEF RInv
<1>2. Init => RInv
  BY Initially, InStepAtFirst DEF RInv
<1> QED
  BY <1>1, <1>2, PTL DEF Spec

(* packet_buffer.c, read_buffer: what it returns was sent, whole and in    *)
(* order, however the network cuts the bytes, until a body is cut; and     *)
(* after that if no byte of the data is like the start of a packet.        *)
THEOREM ReadsSent == Spec => [](Aligned => ReadsWereSent)
<1>1. RInv => (Aligned => ReadsWereSent)
  <2> SUFFICES ASSUME RInv, Aligned PROVE ReadsWereSent
    OBVIOUS
  <2>1. PICK f : Matches(f)
    BY DEF RInv, Matched
  <2>2. DOMAIN received = 1..Len(received) /\ DOMAIN sent = 1..Len(sent)
    BY DEF RInv, IInv, Sends, Receives
  <2> DEFINE images == [i \in DOMAIN sent |-> sent[i].image]
  <2>3. f \in [DOMAIN received -> DOMAIN images]
    BY <2>1, <2>2 DEF Matches
  <2>4. \A i \in DOMAIN received : received[i] = images[f[i]]
    BY <2>1, <2>2, <2>3 DEF Matches, ImageOf
  <2>5. \A i, j \in DOMAIN received : i < j => f[i] < f[j]
    BY <2>1, <2>2 DEF Matches
  <2> HIDE DEF images
  <2>6. IsSubSeq(received, images)
    BY <2>3, <2>4, <2>5 DEF IsSubSeq
  <2> QED
    BY <2>6 DEF ReadsWereSent, images
<1> QED
  BY <1>1, StaysInStep, PTL

(* packet_buffer.c, "NULL on a recoverable error": with everything read,   *)
(* each packet sent was returned or was cut; none was lost with another,   *)
(* if no byte of the data is like the start of a packet.                   *)
THEOREM OneCutOnePacket == Spec => [](Aligned => CutsCostOne)
<1>1. RInv => (Aligned => CutsCostOne)
  <2> SUFFICES ASSUME RInv, Aligned, pc = "header", stream = << >> PROVE Done = Len(sent)
    BY DEF CutsCostOne, Done
  <2>1. Sends /\ Receives /\ InStep
    BY DEF RInv, IInv
  <2>2. PICK start : Placed(start) /\ Current(start)
    BY <2>1 DEF InStep
  <2>3. Done <= Len(sent) /\ start[Done + 1] >= 1 /\ Len(stream) = 0
    BY <2>2 DEF Current
  <2>4. Done \in Nat /\ Len(sent) \in Nat
    BY <2>1, DoneNat, Sizes
  <2>5. ~(Done < Len(sent))
    <3> SUFFICES ASSUME Done < Len(sent) PROVE FALSE
      OBVIOUS
    <3>1. /\ start[Done + 1] \in Int /\ start[Done + 1] + Size(Done + 1) <= 1
          /\ Size(Done + 1) \in Nat /\ Size(Done + 1) >= 4
      BY <2>1, <2>2, <2>3, Upcoming
    <3> QED
      BY <2>3, <3>1
  <2> QED
    BY <2>3, <2>4, <2>5
<1> QED
  BY <1>1, StaysInStep, PTL

(* packet_buffer.c: what a handler reads is what the sender put in, field  *)
(* by field, as long as it reads the kinds that were written: hashes and   *)
(* numbers with any bytes until a body is cut, and those without a byte    *)
(* like the start of a packet after that.                                  *)
THEOREM FieldsRoundTrip == Spec => [](Aligned => RoundTrip)
<1>1. RInv => (Aligned => RoundTrip)
  <2> SUFFICES ASSUME RInv, Aligned, NEW i \in DOMAIN got, AllRead(i)
               PROVE  got[i].value = ValueOf(Put[i].kind, BytesOf(Put[i]))
    BY DEF RoundTrip, AllRead, ReadAs, Put
  <2>1. pc = "handler"
    BY DEF RInv, IInv, Receives
  <2> QED
    BY <2>1 DEF RInv, Held
<1> QED
  BY <1>1, StaysInStep, PTL
=============================================================================
