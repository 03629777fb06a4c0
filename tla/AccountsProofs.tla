--------------------------- MODULE AccountsProofs ---------------------------
(***************************************************************************)
(* Theorems about Accounts: for names and hashes of any characters and     *)
(* lengths that fit the buffer, and a file of any length.                  *)
(***************************************************************************)
EXTENDS Accounts, SequenceTheorems, Recursion

Text == Seq(Characters)
Pages == Seq(Text)

LEMMA LengthsNat == /\ MIN_NAME \in Nat /\ MAX_NAME \in Nat /\ DIGITS \in Nat
                    /\ BufferSize = MAX_NAME + DIGITS /\ BufferSize \in Nat
<1>1. MIN_NAME \in Nat /\ MAX_NAME \in Nat /\ DIGITS \in Nat
  BY LengthsAssumption
<1> QED
  BY <1>1 DEF BufferSize, MAX_RECORD

(***************************************************************************)
(* Reading character by character                                          *)
(***************************************************************************)

LEMMA GrownPages ==
  ASSUME NEW L \in Pages, NEW c \in Characters
  PROVE  Grown(L, c) \in Pages
<1> DEFINE n == Len(L)
<1>1. n \in Nat
  BY DEF Pages
<1>2. <<c>> \in Text
  BY DEF Text
<1> DEFINE t == <<c>>
<1> HIDE DEF t
<1>3. Append(L, t) \in Pages
  BY <1>2, AppendProperties DEF Pages, t
<1>4. ASSUME n # 0 PROVE [L EXCEPT ![n] = Append(@, c)] \in Pages
  <2>1. n \in 1..n
    BY <1>1, <1>4
  <2>2. L[n] \in Text
    BY <2>1 DEF Pages
  <2> DEFINE line == L[n]
             more == Append(line, c)
  <2>3. line \in Seq(Characters)
    BY <2>2 DEF Text
  <2> HIDE DEF line
  <2>4. more \in Text
    BY <2>3, AppendProperties DEF Text
  <2>5. [L EXCEPT ![n] = Append(@, c)] = [L EXCEPT ![n] = more]
    BY DEF line
  <2> HIDE DEF more
  <2>6. [L EXCEPT ![n] = more] \in Pages
    BY <2>1, <2>4, ExceptSeq DEF Pages
  <2> QED
    BY <2>5, <2>6
<1> QED
  BY <1>3, <1>4 DEF Grown, t

(* The lines read so far, after each of the characters. *)
Reading(r, chars) ==
  /\ r \in [0..Len(chars) -> Pages] /\ r[0] = << >>
  /\ \A k \in 1..Len(chars) : r[k] = Grown(r[k - 1], chars[k])

LEMMA ReadingExists ==
  ASSUME NEW chars \in Text
  PROVE  \E r : Reading(r, chars) /\ LinesIn(chars) = r[Len(chars)]
<1> DEFINE n == Len(chars)
           Unfolds(g) == g = [k \in 0..n |-> IF k = 0 THEN << >> ELSE Grown(g[k - 1], chars[k])]
           read == CHOOSE g : Unfolds(g)
           step == [k \in 1..n |-> [x \in Pages |-> Grown(x, chars[k])]]
<1>1. n \in Nat /\ \A k \in 1..n : chars[k] \in Characters
  BY DEF Text
<1>2. LinesIn(chars) = read[n]
  BY DEF LinesIn
<1>3. << >> \in Pages
  BY DEF Pages
<1>4. step \in Steps(n, Pages)
  <2>1. \A k \in 1..n : \A x \in Pages : Grown(x, chars[k]) \in Pages
    BY <1>1, GrownPages
  <2> QED
    BY <2>1 DEF Steps
<1>5. PICK g : Runs(g, n, Pages, << >>, step)
  <2> HIDE DEF n, step
  <2> QED
    BY <1>1, <1>3, <1>4, RecursiveFunction
<1>6. g \in [0..n -> Pages] /\ g[0] = << >> /\ \A k \in 1..n : g[k] = step[k][g[k - 1]]
  BY <1>5 DEF Runs
<1>7. \A k \in 1..n : g[k] = Grown(g[k - 1], chars[k])
  <2> TAKE k \in 1..n
  <2>1. k - 1 \in 0..n
    BY <1>1
  <2>2. g[k - 1] \in Pages
    BY <1>6, <2>1
  <2> QED
    BY <1>6, <2>2
<1> HIDE DEF step
<1>8. Unfolds(g)
  <2>1. \A k \in 0..n : k # 0 => k \in 1..n
    BY <1>1
  <2>2. \A k \in 0..n : g[k] = IF k = 0 THEN << >> ELSE Grown(g[k - 1], chars[k])
    BY <1>6, <1>7, <2>1
  <2> QED
    BY <1>6, <2>2
<1>9. Unfolds(read)
  BY <1>8
<1> HIDE DEF read
<1>10. read[0] = << >> /\ \A k \in 1..n : read[k] = Grown(read[k - 1], chars[k])
  <2>1. 0 \in 0..n /\ \A k \in 1..n : k \in 0..n /\ k # 0
    BY <1>1
  <2> QED
    BY <1>9, <2>1
<1>11. \A k \in 0..n : read[k] \in Pages
  <2>1. \A k \in 1..n : read[k - 1] \in Pages => read[k] \in Pages
    BY <1>1, <1>10, GrownPages
  <2> HIDE DEF n
  <2> QED
    BY <1>1, <1>3, <1>10, <2>1, PassedOn
<1>12. read \in [0..n -> Pages]
  BY <1>9, <1>11
<1>13. Reading(read, chars)
  BY <1>10, <1>12 DEF Reading
<1> QED
  BY <1>2, <1>13

(* Reading on: the lines of a file with more behind it. *)
LEMMA ReadingOn ==
  ASSUME NEW s \in Text, NEW t \in Text
  PROVE  \E g : /\ g \in [0..Len(t) -> Pages] /\ g[0] = LinesIn(s)
                /\ \A k \in 1..Len(t) : g[k] = Grown(g[k - 1], t[k])
                /\ LinesIn(s \o t) = g[Len(t)]
<1>1. PICK w : w = s \o t
  OBVIOUS
<1>2. /\ w \in Text /\ Len(w) = Len(s) + Len(t) /\ Len(s) \in Nat /\ Len(t) \in Nat
      /\ \A k \in 1..Len(s) : w[k] = s[k]
      /\ \A k \in 1..Len(t) : w[Len(s) + k] = t[k]
  <2>1. Len(s) \in Nat /\ Len(t) \in Nat
    BY DEF Text
  <2>2. /\ w \in Text /\ Len(w) = Len(s) + Len(t)
        /\ \A k \in 1..(Len(s) + Len(t)) : w[k] = IF k <= Len(s) THEN s[k] ELSE t[k - Len(s)]
    BY <1>1, ConcatProperties DEF Text
  <2> DEFINE a == Len(s)
             b == Len(t)
  <2> HIDE DEF a, b
  <2>3. \A k \in 1..a : w[k] = s[k]
    BY <2>1, <2>2 DEF a, b
  <2>4. \A k \in 1..b : w[a + k] = t[k]
    <3> TAKE k \in 1..b
    <3>1. a + k \in 1..(a + b) /\ ~(a + k <= a) /\ (a + k) - a = k
      BY <2>1 DEF a, b
    <3> QED
      BY <2>2, <3>1 DEF a, b
  <2> QED
    BY <2>1, <2>2, <2>3, <2>4 DEF a, b
<1>3. PICK r : Reading(r, w) /\ LinesIn(w) = r[Len(w)]
  BY <1>2, ReadingExists
<1>4. PICK q : Reading(q, s) /\ LinesIn(s) = q[Len(s)]
  BY ReadingExists
<1>5. PICK a : a = Len(s)
  OBVIOUS
<1>6. PICK b : b = Len(t)
  OBVIOUS
<1>7. /\ a \in Nat /\ b \in Nat
      /\ r \in [0..(a + b) -> Pages] /\ r[0] = << >>
      /\ \A k \in 1..(a + b) : r[k] = Grown(r[k - 1], w[k])
      /\ q[0] = << >> /\ \A k \in 1..a : q[k] = Grown(q[k - 1], s[k])
      /\ LinesIn(w) = r[a + b] /\ LinesIn(s) = q[a]
      /\ \A k \in 1..a : w[k] = s[k]
      /\ \A k \in 1..b : w[a + k] = t[k]
  BY <1>2, <1>3, <1>4, <1>5, <1>6 DEF Reading
<1>8. r[a] = q[a]
  <2>1. \A k \in 1..a : r[k - 1] = q[k - 1] => r[k] = q[k]
    <3> TAKE k \in 1..a
    <3>1. k \in 1..(a + b)
      BY <1>7
    <3> QED
      BY <1>7, <3>1
  <2>2. a \in Nat /\ r[0] = q[0]
    BY <1>7
  <2> QED
    BY <2>1, <2>2, SameRun
<1>9. PICK g : g = [k \in 0..b |-> r[a + k]]
  OBVIOUS
<1>10. g \in [0..b -> Pages] /\ g[0] = LinesIn(s) /\ g[b] = LinesIn(w)
  <2>1. \A k \in 0..b : a + k \in 0..(a + b)
    BY <1>7
  <2>2. 0 \in 0..b /\ b \in 0..b /\ a + 0 = a
    BY <1>7
  <2> QED
    BY <1>7, <1>8, <1>9, <2>1, <2>2
<1>11. ASSUME NEW k \in 1..b PROVE g[k] = Grown(g[k - 1], t[k])
  <2>1. a + k \in 1..(a + b) /\ k \in 0..b /\ k - 1 \in 0..b /\ a + (k - 1) = (a + k) - 1
    BY <1>7
  <2>2. r[a + k] = Grown(r[(a + k) - 1], w[a + k]) /\ w[a + k] = t[k]
    BY <1>7, <2>1
  <2> QED
    BY <1>9, <2>1, <2>2
<1> QED
  BY <1>1, <1>6, <1>10, <1>11

(* The last line is over: what comes next begins a new one. *)
Ended(L) == L # << >> => Last(L[Len(L)]) = Newline

LEMMA Begins ==
  ASSUME NEW L \in Pages, Ended(L), NEW c
  PROVE  Grown(L, c) = Append(L, <<c>>)
<1>1. Len(L) # 0 => L # << >>
  OBVIOUS
<1> QED
  BY <1>1 DEF Grown, Ended

LEMMA GoesOn ==
  ASSUME NEW L \in Pages, NEW line \in Text, NEW c \in Characters,
         line[Len(line)] # Newline, Len(line) # BufferSize
  PROVE  Grown(Append(L, line), c) = Append(L, Append(line, c))
<1> DEFINE M == Append(L, line)
           n == Len(M)
           more == Append(line, c)
           N == Append(L, more)
<1>1. more \in Text
  BY AppendProperties DEF Text
<1>2. /\ M \in Pages /\ n \in Nat /\ n = Len(L) + 1 /\ M[n] = line
      /\ \A i \in 1..Len(L) : M[i] = L[i]
  BY AppendProperties DEF Pages
<1> HIDE DEF more
<1>3. /\ N \in Pages /\ Len(N) = Len(L) + 1 /\ N[n] = more
      /\ \A i \in 1..Len(L) : N[i] = L[i]
  <2>1. /\ N \in Pages /\ Len(N) = Len(L) + 1 /\ N[Len(L) + 1] = more
        /\ \A i \in 1..Len(L) : N[i] = L[i]
    BY <1>1, AppendProperties DEF Pages
  <2> QED
    BY <1>2, <2>1
<1>4. Len(L) \in Nat
  BY DEF Pages
<1> HIDE DEF M, n, N
<1>5. Grown(M, c) = [M EXCEPT ![n] = Append(@, c)]
  BY <1>2, <1>4 DEF Grown, Last, n
<1>6. [M EXCEPT ![n] = Append(@, c)] = [M EXCEPT ![n] = more]
  BY <1>2 DEF more
<1>7. n \in 1..n /\ n = Len(M)
  BY <1>2, <1>4 DEF n
<1> DEFINE K == [M EXCEPT ![n] = more]
<1>8. /\ K \in Pages /\ Len(K) = n /\ \A j \in 1..n : K[j] = IF j = n THEN more ELSE M[j]
  BY <1>1, <1>2, <1>7, ExceptSeq DEF Pages
<1> HIDE DEF K
<1>9. Len(K) = Len(N) /\ \A j \in 1..Len(K) : K[j] = N[j]
  BY <1>2, <1>3, <1>4, <1>8
<1>10. K = N
  BY <1>3, <1>8, <1>9, SeqEqual DEF Pages
<1> QED
  BY <1>5, <1>6, <1>10 DEF K, M, N, more

LEMMA Overflows ==
  ASSUME NEW L \in Pages, NEW line \in Text, NEW c, Len(line) = BufferSize
  PROVE  Grown(Append(L, line), c) = Append(Append(L, line), <<c>>)
<1>1. Append(L, line)[Len(Append(L, line))] = line
  BY AppendProperties DEF Pages
<1> QED
  BY <1>1 DEF Grown

(***************************************************************************)
(* A record                                                                *)
(***************************************************************************)
Bare(n, h) == n \o <<Semicolon>> \o h

Shaped(n, h, b) ==
  /\ b \in Text /\ Len(b) = Len(n) + 1 + DIGITS /\ Len(b) <= BufferSize
  /\ Len(n) \in Nat /\ Len(h) = DIGITS
  /\ \A i \in 1..Len(n) : b[i] = n[i] /\ b[i] # Semicolon
  /\ b[Len(n) + 1] = Semicolon
  /\ \A i \in 1..DIGITS : b[Len(n) + 1 + i] = h[i]
  /\ \A i \in 1..Len(b) : b[i] # Newline

LEMMA Three ==
  ASSUME NEW n \in Text, NEW s \in Characters, NEW h \in Text
  PROVE  /\ n \o <<s>> \o h \in Text /\ Len(n \o <<s>> \o h) = Len(n) + 1 + Len(h)
         /\ \A i \in 1..Len(n) : (n \o <<s>> \o h)[i] = n[i]
         /\ (n \o <<s>> \o h)[Len(n) + 1] = s
         /\ \A i \in 1..Len(h) : (n \o <<s>> \o h)[Len(n) + 1 + i] = h[i]
<1> DEFINE v == n \o <<s>>
           w == v \o h
           a == Len(n)
           b == Len(h)
           one == <<s>>
<1>1. a \in Nat /\ b \in Nat /\ one \in Text /\ Len(one) = 1 /\ one[1] = s
  BY DEF Text
<1> HIDE DEF one
<1>2. /\ v \in Text /\ Len(v) = a + 1
      /\ \A i \in 1..(a + 1) : v[i] = IF i <= a THEN n[i] ELSE one[i - a]
  BY <1>1, ConcatProperties DEF Text, one
<1> HIDE DEF v
<1>3. /\ w \in Text /\ Len(w) = Len(v) + b
      /\ \A i \in 1..(Len(v) + b) : w[i] = IF i <= Len(v) THEN v[i] ELSE h[i - Len(v)]
  <2>1. v \in Seq(Characters) /\ h \in Seq(Characters)
    BY <1>2 DEF Text
  <2> HIDE DEF b
  <2>2. /\ w \in Seq(Characters) /\ Len(w) = Len(v) + Len(h)
        /\ \A i \in 1..(Len(v) + Len(h)) : w[i] = IF i <= Len(v) THEN v[i] ELSE h[i - Len(v)]
    BY <2>1, ConcatProperties
  <2> QED
    BY <2>2 DEF Text, b
<1> HIDE DEF w, a, b
<1>4. \A i \in 1..(a + 1 + b) : w[i] = IF i <= a + 1 THEN v[i] ELSE h[i - (a + 1)]
  BY <1>1, <1>2, <1>3
<1>5. \A i \in 1..a : w[i] = n[i]
  <2> TAKE i \in 1..a
  <2>1. i \in 1..(a + 1) /\ i \in 1..(a + 1 + b) /\ i <= a /\ i <= a + 1
    BY <1>1
  <2> QED
    BY <1>2, <1>4, <2>1
<1>6. w[a + 1] = s
  <2>1. a + 1 \in 1..(a + 1) /\ a + 1 \in 1..(a + 1 + b) /\ ~(a + 1 <= a) /\ (a + 1) - a = 1
    BY <1>1
  <2> QED
    BY <1>1, <1>2, <1>4, <2>1
<1>7. \A i \in 1..b : w[a + 1 + i] = h[i]
  <2> TAKE i \in 1..b
  <2>1. a + 1 + i \in 1..(a + 1 + b) /\ ~(a + 1 + i <= a + 1) /\ (a + 1 + i) - (a + 1) = i
    BY <1>1
  <2> QED
    BY <1>4, <2>1
<1>8. Len(w) = a + 1 + b
  BY <1>2, <1>3
<1> QED
  BY <1>3, <1>5, <1>6, <1>7, <1>8 DEF a, b, w, v

LEMMA BareShaped ==
  ASSUME NEW n \in Names, NEW h \in Hashes
  PROVE  Shaped(n, h, Bare(n, h)) /\ n \in Text /\ h \in Text
<1>1. /\ n \in Text /\ h \in Text /\ Semicolon \in Characters /\ Semicolon # Newline
  BY CharactersAssumption DEF Text, Characters, Semicolon, Newline
<1>2. Len(n) \in Nat /\ Len(n) <= MAX_NAME - 1 /\ Len(h) = DIGITS
  <2>1. Len(n) \in MIN_NAME..(MAX_NAME - 1) /\ Len(h) = DIGITS
    BY LengthsAssumption
  <2> QED
    BY <2>1, LengthsNat
<1>3. \A i \in 1..Len(n) : n[i] # Semicolon /\ n[i] # Newline
  <2>1. {Semicolon, Newline} \cap ToSet(n) = {}
    BY CharactersAssumption
  <2>2. \A i \in 1..Len(n) : n[i] \in ToSet(n)
    BY <1>1 DEF ToSet, Text
  <2> QED
    BY <2>1, <2>2
<1>4. \A i \in 1..DIGITS : h[i] # Newline
  <2>1. ToSet(h) \subseteq Hex /\ Newline \notin Hex
    BY LengthsAssumption, CharactersAssumption
  <2>2. \A i \in 1..Len(h) : h[i] \in ToSet(h)
    BY <1>1 DEF ToSet, Text
  <2> QED
    BY <1>2, <2>1, <2>2
<1> DEFINE b == Bare(n, h)
           a == Len(n)
<1>5. /\ b \in Text /\ Len(b) = a + 1 + DIGITS
      /\ \A i \in 1..a : b[i] = n[i]
      /\ b[a + 1] = Semicolon
      /\ \A i \in 1..DIGITS : b[a + 1 + i] = h[i]
  <2>1. /\ b \in Text /\ Len(b) = a + 1 + Len(h)
        /\ \A i \in 1..a : b[i] = n[i]
        /\ b[a + 1] = Semicolon
        /\ \A i \in 1..Len(h) : b[a + 1 + i] = h[i]
    BY <1>1, Three DEF Bare
  <2> QED
    BY <1>2, <2>1
<1> HIDE DEF b
<1>6. Len(b) <= BufferSize
  BY <1>2, <1>5, LengthsNat
<1>7. \A i \in 1..Len(b) : b[i] # Newline
  <2> HIDE DEF a
  <2> TAKE i \in 1..Len(b)
  <2>1. i \in 1..a \/ i = a + 1 \/ i - (a + 1) \in 1..DIGITS
    BY <1>2, <1>5, LengthsNat DEF a
  <2>2. CASE i \in 1..a
    BY <1>3, <1>5, <2>2 DEF a
  <2>3. CASE i = a + 1
    BY <1>1, <1>5, <2>3
  <2>4. CASE i - (a + 1) \in 1..DIGITS
    <3>1. i = a + 1 + (i - (a + 1))
      BY <1>2, <1>5 DEF a
    <3> QED
      BY <1>4, <1>5, <2>4, <3>1
  <2> QED
    BY <2>1, <2>2, <2>3, <2>4
<1> QED
  BY <1>1, <1>2, <1>3, <1>5, <1>6, <1>7 DEF Shaped, b

(* A record as it is written. *)
Whole(n, h) == Append(Bare(n, h), Newline)

LEMMA RecordWhole ==
  ASSUME NEW n \in Names, NEW h \in Hashes
  PROVE  Record(n, h) = Whole(n, h) /\ Whole(n, h) \in Text
<1>1. Bare(n, h) \in Text
  BY BareShaped DEF Shaped
<1>2. Record(n, h) = Bare(n, h) \o <<Newline>>
  BY DEF Record, Bare
<1> DEFINE b == Bare(n, h)
           one == <<Newline>>
           w == Append(b, Newline)
<1>3. Newline \in Characters /\ one \in Text /\ Len(one) = 1 /\ one[1] = Newline
  BY DEF Characters, Newline, Text
<1> HIDE DEF b, one
<1>4. Len(b) \in Nat /\ b \in Text
  BY <1>1 DEF Text, b
<1>5. /\ w \in Text /\ Len(w) = Len(b) + 1 /\ w[Len(b) + 1] = Newline
      /\ \A i \in 1..Len(b) : w[i] = b[i]
  BY <1>3, <1>4, AppendProperties DEF Text
<1>6. /\ b \o one \in Text /\ Len(b \o one) = Len(b) + 1
      /\ \A i \in 1..(Len(b) + 1) : (b \o one)[i] = IF i <= Len(b) THEN b[i] ELSE one[i - Len(b)]
  BY <1>3, <1>4, ConcatProperties DEF Text
<1> DEFINE v == b \o one
           m == Len(b)
<1> HIDE DEF w, v, m
<1>7. \A i \in 1..(m + 1) : v[i] = w[i]
  <2> TAKE i \in 1..(m + 1)
  <2>1. m \in Nat
    BY <1>4 DEF m
  <2>2. i \in 1..m \/ i = m + 1
    BY <2>1
  <2>3. CASE i \in 1..m
    <3>1. i <= m
      BY <2>1, <2>3
    <3> QED
      BY <1>5, <1>6, <2>3, <3>1 DEF v, m
  <2>4. CASE i = m + 1
    <3>1. ~(i <= m) /\ i - m = 1
      BY <2>1, <2>4
    <3> QED
      BY <1>3, <1>5, <1>6, <2>4, <3>1 DEF v, m
  <2> QED
    BY <2>2, <2>3, <2>4
<1>8. v = w
  <2>1. v \in Seq(Characters) /\ w \in Seq(Characters) /\ Len(v) = Len(w) /\ \A i \in 1..Len(v) : v[i] = w[i]
    BY <1>5, <1>6, <1>7 DEF Text, v, m
  <2> QED
    BY <2>1, SeqEqual
<1> QED
  BY <1>2, <1>5, <1>8 DEF Whole, v, w, b, one

LEMMA Beginnings ==
  ASSUME NEW S, NEW s \in Seq(S)
  PROVE  /\ \A i \in 0..Len(s) :
              /\ SubSeq(s, 1, i) \in Seq(S) /\ Len(SubSeq(s, 1, i)) = i
              /\ \A j \in 1..i : SubSeq(s, 1, i)[j] = s[j]
         /\ SubSeq(s, 1, Len(s)) = s
         /\ \A i \in 0..(Len(s) - 1) : Append(SubSeq(s, 1, i), s[i + 1]) = SubSeq(s, 1, i + 1)
<1>1. Len(s) \in Nat
  OBVIOUS
<1>2. ASSUME NEW i \in 0..Len(s)
      PROVE  /\ SubSeq(s, 1, i) \in Seq(S) /\ Len(SubSeq(s, 1, i)) = i
             /\ \A j \in 1..i : SubSeq(s, 1, i)[j] = s[j]
  <2>1. i \in Nat /\ \A j \in 1..i : j \in 1..Len(s) /\ 1 + j - 1 = j
    BY <1>1
  <2>2. \A j \in 1..i : s[j] \in S
    BY <2>1
  <2>3. /\ SubSeq(s, 1, i) \in Seq(S)
        /\ Len(SubSeq(s, 1, i)) = (IF 1 <= i THEN i - 1 + 1 ELSE 0)
        /\ \A j \in 1..(i - 1 + 1) : SubSeq(s, 1, i)[j] = s[1 + j - 1]
    BY <2>1, <2>2, SubSeqProperties
  <2>4. i - 1 + 1 = i /\ (IF 1 <= i THEN i - 1 + 1 ELSE 0) = i
    BY <2>1
  <2>5. Len(SubSeq(s, 1, i)) = i
    BY <2>3, <2>4
  <2>6. ASSUME NEW j \in 1..i PROVE SubSeq(s, 1, i)[j] = s[j]
    BY <2>1, <2>3, <2>4
  <2> QED
    BY <2>3, <2>5, <2>6
<1>3. ASSUME NEW i \in 0..(Len(s) - 1)
      PROVE  Append(SubSeq(s, 1, i), s[i + 1]) = SubSeq(s, 1, i + 1)
  <2> DEFINE p == SubSeq(s, 1, i)
             q == SubSeq(s, 1, i + 1)
             x == s[i + 1]
             r == Append(p, x)
  <2>1. i \in 0..Len(s) /\ i + 1 \in 0..Len(s) /\ i + 1 \in 1..Len(s) /\ i \in Nat
    BY <1>1
  <2>2. /\ p \in Seq(S) /\ Len(p) = i /\ \A j \in 1..i : p[j] = s[j]
        /\ q \in Seq(S) /\ Len(q) = i + 1 /\ \A j \in 1..(i + 1) : q[j] = s[j]
        /\ x \in S
    BY <1>2, <2>1
  <2> HIDE DEF p, q
  <2>3. /\ r \in Seq(S) /\ Len(r) = i + 1 /\ r[i + 1] = x /\ \A j \in 1..i : r[j] = p[j]
    <3> HIDE DEF x
    <3>1. r \in Seq(S) /\ Len(r) = Len(p) + 1 /\ r[Len(p) + 1] = x /\ \A j \in 1..Len(p) : r[j] = p[j]
      BY <2>2, AppendProperties
    <3> QED
      BY <2>2, <3>1
  <2> HIDE DEF r
  <2>4. \A j \in 1..(i + 1) : r[j] = q[j]
    <3> TAKE j \in 1..(i + 1)
    <3>1. j \in 1..i \/ j = i + 1
      BY <2>1
    <3> QED
      BY <2>2, <2>3, <3>1
  <2>5. Len(r) = Len(q) /\ \A j \in 1..Len(r) : r[j] = q[j]
    BY <2>2, <2>3, <2>4
  <2>6. r = q
    BY <2>2, <2>3, <2>5, SeqEqual
  <2> QED
    BY <2>6 DEF r, p, q, x
<1> QED
  BY <1>2, <1>3, SubSeqFull

(* A record behind lines that are over makes lines of its own. *)
LEMMA RecordKept ==
  ASSUME NEW s \in Text, Ended(LinesIn(s)), NEW n \in Names, NEW h \in Hashes
  PROVE  /\ LinesIn(s) \in Pages
         /\ Len(Bare(n, h)) = BufferSize =>
              LinesIn(s \o Record(n, h)) = Append(Append(LinesIn(s), Bare(n, h)), <<Newline>>)
         /\ Len(Bare(n, h)) # BufferSize =>
              LinesIn(s \o Record(n, h)) = Append(LinesIn(s), Whole(n, h))
<1> DEFINE w == Whole(n, h)
           b == Bare(n, h)
           L == LinesIn(s)
           m == Len(b)
<1>1. Record(n, h) = w /\ w \in Text
  BY RecordWhole
<1>2. Shaped(n, h, b)
  BY BareShaped
<1>3. /\ b \in Text /\ m \in Nat /\ m >= 1 /\ m <= BufferSize
      /\ \A i \in 1..m : b[i] # Newline
  BY <1>2, LengthsNat DEF Shaped
<1>4. Newline \in Characters
  BY DEF Characters
<1>5. /\ Len(w) = m + 1 /\ w[m + 1] = Newline /\ \A i \in 1..m : w[i] = b[i]
  BY <1>3, <1>4, AppendProperties DEF Whole, Text
<1>6. L \in Pages
  <2>1. PICK r : Reading(r, s) /\ L = r[Len(s)]
    BY ReadingExists
  <2>2. Len(s) \in 0..Len(s)
    BY DEF Text
  <2> QED
    BY <2>1, <2>2 DEF Reading
<1>7. PICK g : /\ g \in [0..Len(w) -> Pages] /\ g[0] = L
               /\ \A k \in 1..Len(w) : g[k] = Grown(g[k - 1], w[k])
               /\ LinesIn(s \o w) = g[Len(w)]
  BY <1>1, ReadingOn
<1>8. Ended(L)
  OBVIOUS
<1> HIDE DEF w, b, L, m
<1>9. /\ g[0] = L /\ LinesIn(s \o w) = g[m + 1]
      /\ g[m + 1] = Grown(g[m], Newline)
      /\ \A k \in 1..m : g[k] = Grown(g[k - 1], b[k])
  <2>1. m + 1 \in 1..(m + 1) /\ (m + 1) - 1 = m /\ \A k \in 1..m : k \in 1..(m + 1)
    BY <1>3
  <2> QED
    BY <1>5, <1>7, <2>1
<1>16. /\ \A i \in 0..m : /\ SubSeq(b, 1, i) \in Text /\ Len(SubSeq(b, 1, i)) = i
                         /\ \A j \in 1..i : SubSeq(b, 1, i)[j] = b[j]
      /\ SubSeq(b, 1, m) = b
      /\ \A i \in 0..(m - 1) : Append(SubSeq(b, 1, i), b[i + 1]) = SubSeq(b, 1, i + 1)
  <2>1. b \in Seq(Characters)
    BY <1>3 DEF Text
  <2>2. /\ \A i \in 0..Len(b) : /\ SubSeq(b, 1, i) \in Seq(Characters) /\ Len(SubSeq(b, 1, i)) = i
                                /\ \A j \in 1..i : SubSeq(b, 1, i)[j] = b[j]
        /\ SubSeq(b, 1, Len(b)) = b
        /\ \A i \in 0..(Len(b) - 1) : Append(SubSeq(b, 1, i), b[i + 1]) = SubSeq(b, 1, i + 1)
    BY <2>1, Beginnings
  <2> QED
    BY <2>2 DEF m, Text
<1> DEFINE Read == {k \in 0..m : k = 0 \/ g[k] = Append(L, SubSeq(b, 1, k))}
<1>10. 0 \in Read
  BY <1>3
<1>11. ASSUME NEW i \in 0..(m - 1), i \in Read PROVE i + 1 \in Read
  <2>1. i + 1 \in 1..m /\ (i + 1) - 1 = i /\ i + 1 \in 0..m /\ i \in 0..Len(b) /\ i \in 0..(Len(b) - 1)
    BY <1>3 DEF m
  <2>2. g[i + 1] = Grown(g[i], b[i + 1])
    BY <1>9, <2>1
  <2>3. b[i + 1] \in Characters
    BY <1>3, <2>1 DEF m, Text
  <2>4. Append(SubSeq(b, 1, i), b[i + 1]) = SubSeq(b, 1, i + 1)
    BY <1>16
  <2>5. CASE i = 0
    <3>1. g[i] = L
      BY <1>9, <2>5
    <3>2. g[i + 1] = Append(L, <<b[i + 1]>>)
      BY <1>6, <1>8, <2>2, <3>1, Begins
    <3>3. <<b[i + 1]>> = SubSeq(b, 1, i + 1)
      <4>1. SubSeq(b, 1, i) = << >>
        BY <2>5, SubSeqEmpty
      <4>2. Append(<< >>, b[i + 1]) = <<b[i + 1]>>
        OBVIOUS
      <4> QED
        BY <2>4, <4>1, <4>2
    <3> QED
      BY <2>1, <3>2, <3>3
  <2>6. CASE i # 0
    <3> DEFINE line == SubSeq(b, 1, i)
               c == b[i + 1]
    <3>1. g[i] = Append(L, line)
      BY <1>11, <2>6
    <3>2. i \in 1..i /\ i \in 1..m /\ i # BufferSize
      BY <1>3, <2>1, <2>6, LengthsNat
    <3>3. line \in Text /\ Len(line) = i /\ line[i] = b[i]
      <4>1. i \in 0..m
        BY <1>3, <3>2
      <4> QED
        BY <1>16, <3>2, <4>1
    <3>4. line[Len(line)] # Newline /\ Len(line) # BufferSize
      BY <1>3, <3>2, <3>3
    <3> HIDE DEF line, c
    <3>5. Grown(Append(L, line), c) = Append(L, Append(line, c))
      BY <1>6, <2>3, <3>3, <3>4, GoesOn DEF c
    <3>6. g[i + 1] = Append(L, SubSeq(b, 1, i + 1))
      BY <2>2, <2>4, <3>1, <3>5 DEF line, c
    <3> QED
      BY <2>1, <3>6
  <2> QED
    BY <2>5, <2>6
<1> HIDE DEF Read
<1>12. m \in Read
  <2>1. 0..m \subseteq Read
    BY <1>3, <1>10, <1>11, IntervalInduction
  <2> QED
    BY <1>3, <2>1
<1>13. g[m] = Append(L, b)
  <2>1. g[m] = Append(L, SubSeq(b, 1, m))
    BY <1>3, <1>12 DEF Read
  <2>2. SubSeq(b, 1, m) = b
    BY <1>16
  <2> QED
    BY <2>1, <2>2
<1>14. m = BufferSize => LinesIn(s \o w) = Append(Append(L, b), <<Newline>>)
  BY <1>3, <1>6, <1>9, <1>13, Overflows DEF m
<1>15. m # BufferSize => LinesIn(s \o w) = Append(L, w)
  <2>1. b[Len(b)] # Newline
    BY <1>3 DEF m
  <2> QED
    BY <1>3, <1>4, <1>6, <1>9, <1>13, <2>1, GoesOn DEF m, w, b, Whole
<1> QED
  BY <1>1, <1>6, <1>14, <1>15 DEF L, w, b, m

(***************************************************************************)
(* What find_account makes of a line                                       *)
(***************************************************************************)

(* A line with the record of name n and hash h. *)
Recorded(n, h, line) ==
  /\ line \in Text /\ Len(line) >= Len(n) + 1 + DIGITS
  /\ Len(n) \in Nat /\ Len(h) = DIGITS /\ n \in Text /\ h \in Text
  /\ \A i \in 1..Len(n) : line[i] = n[i] /\ line[i] # Semicolon
  /\ line[Len(n) + 1] = Semicolon
  /\ \A i \in 1..DIGITS : line[Len(n) + 1 + i] = h[i]

LEMMA RecordsRecord ==
  ASSUME NEW n \in Names, NEW h \in Hashes
  PROVE  /\ Recorded(n, h, Bare(n, h)) /\ Recorded(n, h, Whole(n, h))
         /\ Whole(n, h)[Len(Whole(n, h))] = Newline
<1> DEFINE b == Bare(n, h)
           w == Whole(n, h)
<1>1. Shaped(n, h, b) /\ n \in Text /\ h \in Text /\ w \in Text
  BY BareShaped, RecordWhole
<1>2. Recorded(n, h, b)
  BY <1>1, LengthsNat DEF Shaped, Recorded
<1>3. Len(w) = Len(b) + 1 /\ w[Len(b) + 1] = Newline /\ \A i \in 1..Len(b) : w[i] = b[i]
  <2>1. Newline \in Characters /\ b \in Seq(Characters)
    BY <1>1 DEF Characters, Shaped, Text
  <2> QED
    BY <2>1, AppendProperties DEF Whole
<1> HIDE DEF b, w
<1>4. Recorded(n, h, w)
  <2> DEFINE a == Len(n)
             d == Len(b)
  <2>1. a \in Nat /\ d = a + 1 + DIGITS /\ DIGITS \in Nat
    BY <1>1, LengthsNat DEF Shaped
  <2>2. /\ \A i \in 1..a : b[i] = n[i] /\ b[i] # Semicolon
        /\ b[a + 1] = Semicolon
        /\ \A i \in 1..DIGITS : b[a + 1 + i] = h[i]
    BY <1>1 DEF Shaped
  <2> HIDE DEF a, d
  <2>3. /\ \A i \in 1..a : i \in 1..d
        /\ a + 1 \in 1..d
        /\ \A i \in 1..DIGITS : a + 1 + i \in 1..d
        /\ d + 1 >= a + 1 + DIGITS
    BY <2>1
  <2>4. \A i \in 1..d : w[i] = b[i]
    BY <1>3 DEF d
  <2>5. /\ \A i \in 1..a : w[i] = n[i] /\ w[i] # Semicolon
        /\ w[a + 1] = Semicolon
        /\ \A i \in 1..DIGITS : w[a + 1 + i] = h[i]
    BY <2>2, <2>3, <2>4
  <2>6. Len(w) >= a + 1 + DIGITS /\ Len(h) = DIGITS
    BY <1>1, <1>3, <2>3 DEF d, Shaped
  <2> QED
    BY <1>1, <2>1, <2>5, <2>6 DEF Recorded, a
<1> QED
  BY <1>2, <1>3, <1>4 DEF b, w

LEMMA CutIs ==
  ASSUME NEW line \in Text, NEW k \in 1..Len(line), line[k] = Semicolon,
         \A i \in 1..(k - 1) : line[i] # Semicolon
  PROVE  Cut(line) = k
<1> DEFINE I == {i \in 1..Len(line) : line[i] = Semicolon}
<1>1. Cut(line) = IF I # {} THEN Min(I) ELSE 0
  BY DEF Cut, SelectInSeq
<1>2. Len(line) \in Nat
  BY DEF Text
<1>3. k \in I /\ \A i \in I : k <= i
  <2>1. \A i \in 1..Len(line) : i < k => i \in 1..(k - 1)
    BY <1>2
  <2>2. \A i \in I : ~(i < k)
    BY <2>1
  <2> QED
    BY <1>2, <2>2
<1>4. I \subseteq Nat
  BY <1>2
<1> HIDE DEF I
<1>5. Min(I) \in I /\ \A i \in I : Min(I) <= i
  BY <1>3 DEF Min
<1>6. Min(I) <= k /\ k <= Min(I) /\ Min(I) \in Nat /\ k \in Nat
  BY <1>3, <1>4, <1>5
<1> QED
  BY <1>1, <1>3, <1>6

LEMMA BlankUncut == Cut(<<Newline>>) = 0
<1>1. Semicolon # Newline
  BY DEF Semicolon, Newline
<1> DEFINE I == {i \in 1..Len(<<Newline>>) : <<Newline>>[i] = Semicolon}
<1>2. I = {}
  BY <1>1
<1>3. Cut(<<Newline>>) = IF I # {} THEN Min(I) ELSE 0
  BY DEF Cut, SelectInSeq
<1> QED
  BY <1>2, <1>3

LEMMA RecordRead ==
  ASSUME NEW n \in Names, NEW h \in Hashes, NEW line, Recorded(n, h, line)
  PROVE  /\ line \in Text /\ Cut(line) > 0 /\ NameIn(line) = n /\ Digits(line) = h
         /\ Readable(line)
<1> DEFINE a == Len(n)
           d == Len(line)
<1>1. /\ line \in Text /\ n \in Text /\ h \in Text /\ a \in Nat /\ d \in Nat /\ DIGITS \in Nat
      /\ d >= a + 1 + DIGITS /\ Len(h) = DIGITS
      /\ \A i \in 1..a : line[i] = n[i] /\ line[i] # Semicolon
      /\ line[a + 1] = Semicolon
      /\ \A i \in 1..DIGITS : line[a + 1 + i] = h[i]
  BY LengthsNat DEF Recorded, Text
<1>2. a = Len(n) /\ d = Len(line)
  OBVIOUS
<1> HIDE DEF a, d
<1>3. Cut(line) = a + 1
  <2>1. a + 1 \in 1..Len(line) /\ (a + 1) - 1 = a
    BY <1>1, <1>2
  <2>2. \A i \in 1..((a + 1) - 1) : line[i] # Semicolon
    BY <1>1, <2>1
  <2> QED
    BY <1>1, <2>1, <2>2, CutIs
<1>4. NameIn(line) = n
  <2> DEFINE p == SubSeq(line, 1, a)
  <2>1. NameIn(line) = p
    BY <1>1, <1>3 DEF NameIn
  <2>2. line \in Seq(Characters) /\ n \in Seq(Characters) /\ a \in 0..Len(line)
    BY <1>1, <1>2 DEF Text
  <2>3. p \in Seq(Characters) /\ Len(p) = a /\ \A j \in 1..a : p[j] = line[j]
    BY <2>2, Beginnings
  <2> HIDE DEF p
  <2>4. Len(p) = Len(n) /\ \A j \in 1..Len(p) : p[j] = n[j]
    BY <1>1, <1>2, <2>3
  <2> QED
    BY <2>1, <2>2, <2>3, <2>4, SeqEqual
<1>5. Digits(line) = h
  <2> DEFINE t == SubSeq(line, a + 2, d)
             e == Len(t)
  <2>1. HashIn(line) = t
    <3>1. (a + 1) + 1 = a + 2
      BY <1>1
    <3> QED
      BY <1>2, <1>3, <3>1 DEF HashIn
  <2>2. /\ t \in Seq(Characters) /\ e >= DIGITS /\ e \in Nat
        /\ \A j \in 1..DIGITS : t[j] = h[j]
    <3>1. \A i \in (a + 2)..d : line[i] \in Characters
      <4>1. \A i \in (a + 2)..d : i \in 1..Len(line)
        BY <1>1, <1>2
      <4>2. line \in Seq(Characters)
        BY <1>1 DEF Text
      <4> QED
        BY <4>1, <4>2
    <3>2. /\ t \in Seq(Characters)
          /\ Len(t) = (IF a + 2 <= d THEN d - (a + 2) + 1 ELSE 0)
          /\ \A j \in 1..(d - (a + 2) + 1) : t[j] = line[a + 2 + j - 1]
      <4>1. a + 2 \in Int /\ d \in Int
        BY <1>1
      <4> QED
        BY <3>1, <4>1, SubSeqProperties
    <3> HIDE DEF t
    <3>3. Len(t) >= DIGITS /\ Len(t) \in Nat
      BY <1>1, <3>2
    <3>4. ASSUME NEW j \in 1..DIGITS PROVE t[j] = h[j]
      <4>1. j \in 1..(d - (a + 2) + 1) /\ a + 2 + j - 1 = a + 1 + j
        BY <1>1
      <4>2. t[j] = line[a + 2 + j - 1]
        BY <3>2, <4>1
      <4> QED
        BY <1>1, <4>1, <4>2
    <3> QED
      BY <3>2, <3>3, <3>4
  <2> HIDE DEF t
  <2>3. Min({DIGITS, e}) = DIGITS
    <3> HIDE DEF e
    <3> DEFINE S == {DIGITS, e}
    <3>1. DIGITS \in S /\ \A y \in S : DIGITS <= y
      BY <1>1, <2>2
    <3>2. \A x \in S : (\A y \in S : x <= y) => x = DIGITS
      BY <1>1, <2>2
    <3> HIDE DEF S
    <3>3. Min(S) = DIGITS
      BY <3>1, <3>2 DEF Min
    <3> QED
      BY <3>3 DEF S
  <2> DEFINE p == SubSeq(t, 1, DIGITS)
  <2>4. Digits(line) = p
    BY <2>1, <2>3 DEF Digits
  <2>5. DIGITS \in 0..Len(t) /\ h \in Seq(Characters)
    BY <1>1, <2>2 DEF Text
  <2>6. p \in Seq(Characters) /\ Len(p) = DIGITS /\ \A j \in 1..DIGITS : p[j] = t[j]
    BY <2>2, <2>5, Beginnings
  <2> HIDE DEF p
  <2>7. Len(p) = Len(h) /\ \A j \in 1..Len(p) : p[j] = h[j]
    BY <1>1, <2>2, <2>6
  <2> QED
    BY <2>4, <2>5, <2>6, <2>7, SeqEqual
<1>6. Readable(line)
  BY <1>1, <1>5, LengthsAssumption DEF Readable
<1> QED
  BY <1>1, <1>3, <1>4, <1>5, <1>6

(***************************************************************************)
(* The lines of a file                                                     *)
(***************************************************************************)

(* A line with a name, and the search for the first of them. *)
Named(line, n) == Cut(line) > 0 /\ NameIn(line) = n
FirstNamed(L, n) == SelectInSeq(L, LAMBDA line : Named(line, n))

LEMMA Search ==
  ASSUME NEW L \in Pages, NEW n
  PROVE  /\ FirstNamed(L, n) \in 0..Len(L)
         /\ FirstNamed(L, n) # 0 => Named(L[FirstNamed(L, n)], n)
         /\ FirstNamed(L, n) = 0 => \A i \in 1..Len(L) : ~Named(L[i], n)
         /\ \A i \in 1..Len(L) : Named(L[i], n) => FirstNamed(L, n) <= i
<1> DEFINE I == {i \in 1..Len(L) : Named(L[i], n)}
<1>1. FirstNamed(L, n) = IF I # {} THEN Min(I) ELSE 0
  BY DEF FirstNamed, SelectInSeq
<1>2. I \in SUBSET Nat /\ Len(L) \in Nat
  BY DEF Pages
<1>3. I # {} => Min(I) \in I /\ \A i \in I : Min(I) <= i
  <2> HIDE DEF I
  <2>1. I # {} => \E least \in I : \A i \in I : least <= i
    BY <1>2, Smallest
  <2> QED
    BY <2>1 DEF Min
<1>4. \A i \in I : i # 0
  BY <1>2
<1> QED
  BY <1>1, <1>2, <1>3, <1>4

LEMMA LineFound == \A n : LineOf(n) = IF FirstNamed(Lines, n) = 0 THEN NULL
                                      ELSE Lines[FirstNamed(Lines, n)]
  BY DEF LineOf, FirstNamed, Named

(* Every line is a record, or the newline of one that fills the buffer; no *)
(* two records have the same name.                                         *)
Rows(L) ==
  /\ L \in Pages
  /\ \A i \in 1..Len(L) :
       L[i] = <<Newline>> \/ \E n \in Names, h \in Hashes : Recorded(n, h, L[i])
Once(L) ==
  \A i, j \in 1..Len(L) :
    Cut(L[i]) > 0 /\ Cut(L[j]) > 0 /\ NameIn(L[i]) = NameIn(L[j]) => i = j

LEMMA RowsAreText ==
  ASSUME NEW L, Rows(L)
  PROVE  /\ L \in Pages /\ Len(L) \in Nat /\ DOMAIN L = 1..Len(L)
         /\ \A i \in 1..Len(L) : L[i] \in Text
  BY DEF Rows, Pages

LEMMA LineAdded ==
  ASSUME NEW L, Rows(L), Once(L), NEW x \in Text,
         x = <<Newline>> \/ \E n \in Names, h \in Hashes : Recorded(n, h, x),
         Cut(x) > 0 => \A i \in 1..Len(L) : ~Named(L[i], NameIn(x))
  PROVE  Rows(Append(L, x)) /\ Once(Append(L, x))
<1> DEFINE M == Append(L, x)
           k == Len(L)
<1>1. /\ M \in Pages /\ Len(M) = k + 1 /\ M[k + 1] = x /\ \A i \in 1..k : M[i] = L[i]
      /\ k \in Nat
  BY AppendProperties DEF Rows, Pages
<1> HIDE DEF M
<1>2. k + 1 \in 1..(k + 1) /\ \A i \in 1..(k + 1) : i = k + 1 \/ i \in 1..k
  BY <1>1
<1>3. \A i \in 1..k : i \in 1..(k + 1)
  BY <1>1
<1>4. /\ \A i \in 1..k : L[i] = <<Newline>> \/ \E n \in Names, h \in Hashes : Recorded(n, h, L[i])
      /\ \A i, j \in 1..k : Cut(L[i]) > 0 /\ Cut(L[j]) > 0 /\ NameIn(L[i]) = NameIn(L[j]) => i = j
      /\ Cut(x) > 0 => \A i \in 1..k : ~(Cut(L[i]) > 0 /\ NameIn(L[i]) = NameIn(x))
  BY DEF Rows, Once, Named
<1> HIDE DEF k
<1>5. Rows(M)
  <2> SUFFICES ASSUME NEW i \in 1..(k + 1)
               PROVE  M[i] = <<Newline>> \/ \E n \in Names, h \in Hashes : Recorded(n, h, M[i])
    BY <1>1 DEF Rows
  <2>1. CASE i = k + 1
    BY <1>1, <2>1
  <2>2. CASE i \in 1..k
    BY <1>1, <1>4, <2>2
  <2> QED
    BY <1>2, <2>1, <2>2
<1>6. Once(M)
  <2> SUFFICES ASSUME NEW i \in 1..(k + 1), NEW j \in 1..(k + 1),
                      Cut(M[i]) > 0, Cut(M[j]) > 0, NameIn(M[i]) = NameIn(M[j])
               PROVE  i = j
    BY <1>1 DEF Once
  <2>1. CASE i = k + 1
    <3>1. ASSUME j \in 1..k PROVE FALSE
      BY <1>1, <1>4, <2>1, <3>1
    <3> QED
      BY <1>2, <2>1, <3>1
  <2>2. CASE i \in 1..k
    <3>1. CASE j = k + 1
      BY <1>1, <1>4, <2>2, <3>1
    <3>2. CASE j \in 1..k
      BY <1>1, <1>4, <2>2, <3>2
    <3> QED
      BY <1>2, <3>1, <3>2
  <2> QED
    BY <1>2, <2>1, <2>2
<1> QED
  BY <1>5, <1>6 DEF M

(* The file after one more record of a name that it did not have.          *)
LEMMA RecordAdded ==
  ASSUME NEW s \in Text, Rows(LinesIn(s)), Once(LinesIn(s)), Ended(LinesIn(s)),
         NEW n \in Names, NEW h \in Hashes,
         \A i \in 1..Len(LinesIn(s)) : ~Named(LinesIn(s)[i], n)
  PROVE  /\ Rows(LinesIn(s \o Record(n, h))) /\ Once(LinesIn(s \o Record(n, h)))
         /\ Ended(LinesIn(s \o Record(n, h)))
<1> DEFINE L == LinesIn(s)
           M == LinesIn(s \o Record(n, h))
           b == Bare(n, h)
           w == Whole(n, h)
           blank == <<Newline>>
<1>1. Recorded(n, h, b) /\ Recorded(n, h, w) /\ w[Len(w)] = Newline
  BY RecordsRecord
<1>2. /\ b \in Text /\ Cut(b) > 0 /\ NameIn(b) = n
      /\ w \in Text /\ Cut(w) > 0 /\ NameIn(w) = n
  BY <1>1, RecordRead
<1>3. blank \in Text /\ Cut(blank) = 0 /\ blank = <<Newline>> /\ blank[Len(blank)] = Newline
  BY BlankUncut DEF Text, Characters
<1>4. Rows(L) /\ Once(L) /\ \A i \in 1..Len(L) : ~Named(L[i], n)
  OBVIOUS
<1>5. /\ Len(b) = BufferSize => M = Append(Append(L, b), blank)
      /\ Len(b) # BufferSize => M = Append(L, w)
  BY RecordKept
<1>6. \A K \in Pages, y \in Text : y[Len(y)] = Newline => Ended(Append(K, y))
  <2> SUFFICES ASSUME NEW K \in Pages, NEW y \in Text, y[Len(y)] = Newline
               PROVE  Ended(Append(K, y))
    OBVIOUS
  <2>1. Append(K, y)[Len(Append(K, y))] = y
    BY AppendProperties DEF Pages
  <2> QED
    BY <2>1 DEF Ended, Last
<1> HIDE DEF L, M, b, w, blank
<1>7. CASE Len(b) = BufferSize
  <2> DEFINE K == Append(L, b)
  <2>1. Rows(K) /\ Once(K)
    BY <1>1, <1>2, <1>4, LineAdded
  <2> HIDE DEF K
  <2>2. Rows(Append(K, blank)) /\ Once(Append(K, blank))
    BY <1>3, <2>1, LineAdded
  <2>3. Ended(Append(K, blank))
    BY <1>3, <1>6, <2>1 DEF Rows
  <2>4. M = Append(K, blank)
    BY <1>5, <1>7 DEF K
  <2> QED
    BY <2>1, <2>2, <2>3, <2>4 DEF L, M
<1>8. CASE Len(b) # BufferSize
  <2>1. Rows(Append(L, w)) /\ Once(Append(L, w))
    BY <1>1, <1>2, <1>4, LineAdded
  <2>2. Ended(Append(L, w))
    BY <1>1, <1>2, <1>4, <1>6 DEF Rows
  <2>3. M = Append(L, w)
    BY <1>5, <1>8
  <2> QED
    BY <2>1, <2>2, <2>3 DEF L, M
<1> QED
  BY <1>7, <1>8

(***************************************************************************)
(* A record that stands, whatever is appended                              *)
(***************************************************************************)

(* Line i is over: nothing behind the file changes it. *)
Over(L, i) ==
  /\ i \in 1..Len(L)
  /\ i < Len(L) \/ Last(L[i]) = Newline \/ Len(L[i]) = BufferSize

(* The first line with name n is over, and records hash h. *)
Stands(L, n, h) ==
  \E i \in 1..Len(L) :
    /\ Over(L, i) /\ Recorded(n, h, L[i])
    /\ \A j \in 1..(i - 1) : ~Named(L[j], n)

LEMMA LinesArePages ==
  ASSUME NEW s \in Text
  PROVE  LinesIn(s) \in Pages
<1>1. PICK r : Reading(r, s) /\ LinesIn(s) = r[Len(s)]
  BY ReadingExists
<1>2. Len(s) \in 0..Len(s)
  BY DEF Text
<1> QED
  BY <1>1, <1>2 DEF Reading

(* A line that is over stays as it is, and so do the lines before it. *)
LEMMA OverStays ==
  ASSUME NEW L \in Pages, NEW c \in Characters, NEW i, Over(L, i)
  PROVE  /\ Over(Grown(L, c), i)
         /\ \A j \in 1..i : Grown(L, c)[j] = L[j]
<1> DEFINE n == Len(L)
           t == <<c>>
<1>1. n \in Nat /\ i \in 1..n /\ (i < n \/ Last(L[i]) = Newline \/ Len(L[i]) = BufferSize)
  BY DEF Over, Pages
<1>2. t \in Text
  BY DEF Text
<1> HIDE DEF t
<1>3. CASE Grown(L, c) = Append(L, t)
  <2> DEFINE M == Append(L, t)
  <2>1. Len(M) = n + 1 /\ \A j \in 1..n : M[j] = L[j]
    BY <1>2, AppendProperties DEF Pages
  <2>2. i \in 1..(n + 1) /\ i < n + 1 /\ \A j \in 1..i : j \in 1..n
    BY <1>1
  <2> HIDE DEF M, n
  <2>3. Over(M, i) /\ \A j \in 1..i : M[j] = L[j]
    BY <2>1, <2>2 DEF Over
  <2> QED
    BY <1>3, <2>3 DEF M
<1>4. CASE Grown(L, c) # Append(L, t)
  <2>1. n # 0 /\ Last(L[n]) # Newline /\ Len(L[n]) # BufferSize
    BY <1>4 DEF Grown, t
  <2>2. i < n
    <3>1. i # n
      BY <1>1, <2>1
    <3> QED
      BY <1>1, <3>1
  <2> DEFINE M == [L EXCEPT ![n] = Append(@, c)]
  <2>3. Grown(L, c) = M
    BY <2>1 DEF Grown
  <2>4. L = [j \in 1..n |-> L[j]]
    BY DEF Pages
  <2>5. M = [j \in 1..n |-> IF j = n THEN Append(L[n], c) ELSE L[j]]
    BY <2>4
  <2> HIDE DEF M, n
  <2>6. Len(M) = n
    BY <1>1, <2>5
  <2>7. \A j \in 1..i : j \in 1..n /\ j # n
    BY <1>1, <2>2
  <2>8. \A j \in 1..i : M[j] = L[j]
    BY <2>5, <2>7
  <2>9. Over(M, i)
    BY <1>1, <2>2, <2>6 DEF Over
  <2> QED
    BY <2>3, <2>8, <2>9
<1> QED
  BY <1>3, <1>4

LEMMA GrownStands ==
  ASSUME NEW L \in Pages, NEW c \in Characters, NEW n, NEW h, Stands(L, n, h)
  PROVE  Stands(Grown(L, c), n, h)
<1>1. PICK i \in 1..Len(L) : /\ Over(L, i) /\ Recorded(n, h, L[i])
                            /\ \A j \in 1..(i - 1) : ~Named(L[j], n)
  BY DEF Stands
<1> PICK M : M = Grown(L, c)
  OBVIOUS
<1>2. Over(M, i) /\ \A j \in 1..i : M[j] = L[j]
  BY <1>1, OverStays
<1>3. i \in 1..i /\ \A j \in 1..(i - 1) : j \in 1..i
  <2>1. Len(L) \in Nat
    BY DEF Pages
  <2> QED
    BY <2>1
<1>4. Recorded(n, h, M[i]) /\ \A j \in 1..(i - 1) : ~Named(M[j], n)
  BY <1>1, <1>2, <1>3
<1> QED
  BY <1>2, <1>4 DEF Stands, Over

LEMMA StandsOn ==
  ASSUME NEW s \in Text, NEW t \in Text, NEW n, NEW h, Stands(LinesIn(s), n, h)
  PROVE  Stands(LinesIn(s \o t), n, h)
<1>1. PICK g : /\ g \in [0..Len(t) -> Pages] /\ g[0] = LinesIn(s)
               /\ \A k \in 1..Len(t) : g[k] = Grown(g[k - 1], t[k])
               /\ LinesIn(s \o t) = g[Len(t)]
  BY ReadingOn
<1>2. Len(t) \in Nat /\ \A k \in 1..Len(t) : t[k] \in Characters
  BY DEF Text
<1> DEFINE T == {L \in Pages : Stands(L, n, h)}
           m == Len(t)
<1>3. g[0] \in T
  BY <1>1, <1>2
<1>4. ASSUME NEW k \in 1..m, g[k - 1] \in T PROVE g[k] \in T
  <2>1. k \in 0..m
    BY <1>2
  <2>2. Stands(Grown(g[k - 1], t[k]), n, h)
    BY <1>2, <1>4, GrownStands
  <2> QED
    BY <1>1, <2>1, <2>2
<1> HIDE DEF T
<1>5. \A k \in 0..m : g[k] \in T
  <2> HIDE DEF m
  <2> QED
    BY <1>2, <1>3, <1>4, PassedOn DEF m
<1>6. g[m] \in T
  BY <1>2, <1>5
<1> QED
  BY <1>1, <1>6 DEF T

(* A record that is appended whole, at the start of a line, and is the     *)
(* first with its name.                                                    *)
LEMMA RecordStands ==
  ASSUME NEW s \in Text, Ended(LinesIn(s)), NEW n \in Names, NEW h \in Hashes,
         \A i \in 1..Len(LinesIn(s)) : ~Named(LinesIn(s)[i], n)
  PROVE  Stands(LinesIn(s \o Record(n, h)), n, h)
<1> DEFINE L == LinesIn(s)
           M == LinesIn(s \o Record(n, h))
           b == Bare(n, h)
           w == Whole(n, h)
           k == Len(L)
           blank == <<Newline>>
<1>1. Recorded(n, h, b) /\ Recorded(n, h, w) /\ w[Len(w)] = Newline
  BY RecordsRecord
<1>2. L \in Pages /\ k \in Nat /\ b \in Text /\ w \in Text /\ blank \in Text
  <2>1. L \in Pages
    BY LinesArePages
  <2>2. blank \in Text
    BY DEF Text, Characters
  <2> HIDE DEF L, b, w
  <2> QED
    BY <1>1, <2>1, <2>2 DEF Pages, Recorded
<1>3. /\ Len(b) = BufferSize => M = Append(Append(L, b), blank)
      /\ Len(b) # BufferSize => M = Append(L, w)
  BY RecordKept
<1>4. \A j \in 1..k : ~Named(L[j], n)
  OBVIOUS
<1> HIDE DEF L, M, b, w, blank
<1>5. ASSUME NEW x \in Text
      PROVE  /\ Append(L, x) \in Pages /\ Len(Append(L, x)) = k + 1 /\ Append(L, x)[k + 1] = x
             /\ \A j \in 1..k : Append(L, x)[j] = L[j]
  BY <1>2, AppendProperties DEF Pages
<1>6. k + 1 \in 1..(k + 1) /\ (k + 1) - 1 = k
  BY <1>2
<1>7. CASE Len(b) = BufferSize
  <2> DEFINE K == Append(L, b)
             N == Append(K, blank)
  <2>1. /\ K \in Pages /\ Len(K) = k + 1 /\ K[k + 1] = b
        /\ \A j \in 1..k : K[j] = L[j]
    BY <1>2, <1>5
  <2> HIDE DEF K
  <2>2. Len(N) = (k + 1) + 1 /\ \A j \in 1..(k + 1) : N[j] = K[j]
    BY <1>2, <2>1, AppendProperties DEF Pages
  <2> HIDE DEF N, k
  <2>3. k + 1 \in 1..Len(N) /\ k + 1 < Len(N) /\ \A j \in 1..k : j \in 1..(k + 1)
    BY <1>2, <2>2
  <2>4. N[k + 1] = b /\ \A j \in 1..k : N[j] = L[j]
    BY <1>6, <2>1, <2>2, <2>3
  <2>5. Over(N, k + 1) /\ Recorded(n, h, N[k + 1]) /\ \A j \in 1..((k + 1) - 1) : ~Named(N[j], n)
    BY <1>1, <1>4, <1>6, <2>3, <2>4 DEF Over
  <2>6. Stands(N, n, h)
    BY <2>3, <2>5 DEF Stands
  <2> QED
    BY <1>3, <1>7, <2>6 DEF N, K, M
<1>8. CASE Len(b) # BufferSize
  <2> DEFINE N == Append(L, w)
  <2>1. Len(N) = k + 1 /\ N[k + 1] = w /\ \A j \in 1..k : N[j] = L[j]
    BY <1>2, <1>5
  <2> HIDE DEF N, k
  <2>2. Over(N, k + 1) /\ Recorded(n, h, N[k + 1]) /\ \A j \in 1..((k + 1) - 1) : ~Named(N[j], n)
    BY <1>1, <1>4, <1>6, <2>1 DEF Over, Last
  <2>3. Stands(N, n, h)
    BY <1>6, <2>1, <2>2 DEF Stands
  <2> QED
    BY <1>3, <1>8, <2>3 DEF N, M
<1> QED
  BY <1>7, <1>8

LEMMA StandingIsFound ==
  ASSUME NEW L \in Pages, NEW n \in Names, NEW h \in Hashes, Stands(L, n, h)
  PROVE  FirstNamed(L, n) \in 1..Len(L) /\ Digits(L[FirstNamed(L, n)]) = h
<1>1. PICK i \in 1..Len(L) : /\ Recorded(n, h, L[i])
                            /\ \A j \in 1..(i - 1) : ~Named(L[j], n)
  BY DEF Stands
<1>2. Cut(L[i]) > 0 /\ NameIn(L[i]) = n /\ Digits(L[i]) = h
  BY <1>1, RecordRead
<1> DEFINE k == FirstNamed(L, n)
<1>3. Len(L) \in Nat
  BY DEF Pages
<1>4. /\ k \in 0..Len(L) /\ (k # 0 => Named(L[k], n))
      /\ (k = 0 => \A j \in 1..Len(L) : ~Named(L[j], n))
      /\ \A j \in 1..Len(L) : Named(L[j], n) => k <= j
  BY Search
<1> HIDE DEF k
<1>5. k # 0 /\ k <= i
  BY <1>2, <1>4 DEF Named
<1>6. k \in 1..Len(L) /\ (k = i \/ k \in 1..(i - 1))
  BY <1>3, <1>4, <1>5
<1>7. k = i
  BY <1>1, <1>4, <1>5, <1>6
<1> QED
  BY <1>2, <1>6, <1>7 DEF k

(* A file that ends with a newline ends with a line that does. *)
LEMMA EndsAlike ==
  ASSUME NEW s \in Text, s = << >> \/ Last(s) = Newline
  PROVE  Ended(LinesIn(s))
<1>1. PICK r : Reading(r, s) /\ LinesIn(s) = r[Len(s)]
  BY ReadingExists
<1> DEFINE n == Len(s)
<1>2. n \in Nat
  BY DEF Text
<1>3. CASE n = 0
  BY <1>1, <1>3 DEF Reading, Ended
<1>4. CASE n # 0
  <2> DEFINE c == s[n]
             L == r[n - 1]
             M == Grown(L, c)
  <2>1. n \in 1..n /\ n - 1 \in 0..n
    BY <1>2, <1>4
  <2>2. c = Newline /\ c \in Characters
    <3>1. s # << >>
      BY <1>4
    <3> QED
      BY <2>1, <3>1 DEF Last, Text
  <2>3. L \in Pages /\ LinesIn(s) = M
    BY <1>1, <2>1 DEF Reading
  <2> HIDE DEF L, c
  <2>4. Len(L) \in Nat
    BY <2>3 DEF Pages
  <2> DEFINE k == Len(L)
             one == <<c>>
  <2>5. one \in Text /\ one[Len(one)] = c
    BY <2>2 DEF Text
  <2> HIDE DEF one
  <2>6. CASE M = Append(L, one)
    <3>1. M[Len(M)] = one
      BY <2>3, <2>5, <2>6, AppendProperties DEF Pages
    <3> QED
      BY <2>2, <2>3, <2>5, <3>1 DEF Ended, Last
  <2>7. CASE M # Append(L, one)
    <3>1. k # 0 /\ M = [L EXCEPT ![k] = Append(@, c)]
      BY <2>7 DEF Grown, one
    <3>2. k \in 1..k
      BY <2>4, <3>1
    <3>3. L[k] \in Text
      BY <2>3, <3>2 DEF Pages
    <3> DEFINE line == L[k]
               more == Append(line, c)
    <3>4. more \in Text /\ more[Len(more)] = c
      <4>1. line \in Seq(Characters)
        BY <3>3 DEF Text
      <4> HIDE DEF line
      <4> QED
        BY <2>2, <4>1, AppendProperties DEF Text
    <3>5. M = [L EXCEPT ![k] = more]
      BY <3>1
    <3> HIDE DEF more, M, k
    <3>6. Len(M) = k /\ M[k] = more
      <4>1. k = Len(L)
        BY DEF k
      <4> QED
        BY <2>3, <3>2, <3>4, <3>5, <4>1, ExceptSeq DEF Pages
    <3> QED
      BY <2>2, <2>3, <3>4, <3>6 DEF Ended, Last
  <2> QED
    BY <2>6, <2>7
<1> QED
  BY <1>3, <1>4

(***************************************************************************)
(* The invariant                                                           *)
(***************************************************************************)
Requested == [Names -> Hashes \cup {NULL}]

(* Whoever is kept has a record that stands. *)
KInv ==
  /\ file \in Text /\ confirmed \in Requested /\ kept \subseteq Names
  /\ \A n \in kept : confirmed[n] \in Hashes /\ Stands(Lines, n, confirmed[n])

(* Until a record is torn, the file is a table of records. *)
TInv ==
  /\ torn \in Nat
  /\ torn = 0 => Rows(Lines) /\ Once(Lines) /\ Ended(Lines) /\ fate # "bad hash"

AInv == KInv /\ TInv

(* A line with a name is a record, and can be read. *)
LEMMA NamedIsRecord ==
  ASSUME NEW L, Rows(L), NEW i \in 1..Len(L), Cut(L[i]) > 0
  PROVE  L[i] \in Text /\ NameIn(L[i]) \in Names /\ Digits(L[i]) \in Hashes /\ Readable(L[i])
<1>1. L[i] # <<Newline>>
  BY BlankUncut
<1>2. PICK n \in Names, h \in Hashes : Recorded(n, h, L[i])
  BY <1>1 DEF Rows
<1> QED
  BY <1>2, RecordRead

LEMMA NoTextIsNull == NULL \notin Text
  BY CharactersAssumption DEF Text

LEMMA LinesOfFile == ASSUME KInv PROVE Lines \in Pages /\ Len(Lines) \in Nat
<1>1. Lines \in Pages
  BY LinesArePages DEF KInv, Lines
<1> QED
  BY <1>1 DEF Pages

LEMMA AllAccepted ==
  ASSUME Rows(Lines), NEW n
  PROVE  Accepted(n)
<1> DEFINE k == FirstNamed(Lines, n)
<1>1. Lines \in Pages /\ Len(Lines) \in Nat
  BY RowsAreText
<1>2. k \in 0..Len(Lines) /\ (k # 0 => Named(Lines[k], n))
  BY <1>1, Search
<1>3. LineOf(n) = IF k = 0 THEN NULL ELSE Lines[k]
  BY LineFound
<1> HIDE DEF k
<1>4. ASSUME k # 0 PROVE Readable(Lines[k])
  <2>1. k \in 1..Len(Lines) /\ Cut(Lines[k]) > 0
    BY <1>1, <1>2, <1>4 DEF Named
  <2> QED
    BY <2>1, NamedIsRecord
<1> QED
  BY <1>3, <1>4 DEF Accepted

LEMMA MissingIsNew ==
  ASSUME KInv, NEW n, MayAdd(n)
  PROVE  \A i \in 1..Len(Lines) : ~Named(Lines[i], n)
<1> DEFINE k == FirstNamed(Lines, n)
<1>1. Lines \in Pages /\ Len(Lines) \in Nat
  BY LinesOfFile
<1>2. k \in 0..Len(Lines) /\ (k = 0 => \A i \in 1..Len(Lines) : ~Named(Lines[i], n))
  BY <1>1, Search
<1>3. NULL = IF k = 0 THEN NULL ELSE Lines[k]
  BY LineFound DEF MayAdd
<1> HIDE DEF k
<1>4. k # 0 => Lines[k] \in Text
  <2>1. k # 0 => k \in 1..Len(Lines)
    BY <1>1, <1>2
  <2> QED
    BY <1>1, <2>1 DEF Pages
<1> QED
  BY <1>2, <1>3, <1>4, NoTextIsNull

LEMMA AInit == Init => AInv
<1> SUFFICES ASSUME Init PROVE AInv
  OBVIOUS
<1>1. /\ file \in Text /\ confirmed \in Requested /\ kept = {} /\ torn = 0
      /\ fate # "bad hash"
  BY DEF Init, Text, Requested
<1>2. Lines = << >>
  <2>1. << >> \in Text /\ Len(<< >>) = 0
    BY DEF Text
  <2>2. PICK r : Reading(r, << >>) /\ LinesIn(<< >>) = r[Len(<< >>)]
    BY <2>1, ReadingExists
  <2> QED
    BY <2>1, <2>2 DEF Reading, Lines, Init
<1>3. Rows(Lines) /\ Once(Lines) /\ Ended(Lines)
  BY <1>2 DEF Rows, Once, Ended, Pages
<1> QED
  BY <1>1, <1>3 DEF AInv, KInv, TInv

(* As much of a record as gets to the file, whether or not anybody hears   *)
(* of it.                                                                  *)
LEMMA PartIsText ==
  ASSUME NEW n \in Names, NEW h \in Hashes, NEW part \in Printed(Record(n, h))
  PROVE  part \in Text
<1> DEFINE record == Record(n, h)
<1>1. record \in Seq(Characters)
  BY RecordWhole DEF Text
<1>2. PICK k \in 0..Len(record) : part = SubSeq(record, 1, k)
  BY DEF Printed
<1> HIDE DEF record
<1>3. SubSeq(record, 1, k) \in Seq(Characters)
  BY <1>1, Beginnings
<1> QED
  BY <1>2, <1>3 DEF Text

LEMMA FlushStep ==
  ASSUME AInv, NEW n \in Names, NEW h \in Hashes, MayAdd(n),
         NEW part \in Printed(Record(n, h)), Flush(Record(n, h), part)
  PROVE  /\ file' \in Text
         /\ \A m, g : Stands(Lines, m, g) => Stands(Lines', m, g)
         /\ part = Record(n, h) /\ AtLineStart => Stands(Lines', n, h)
         /\ torn' \in Nat
         /\ torn' = 0 => torn = 0 /\ Rows(Lines') /\ Once(Lines') /\ Ended(Lines')
<1> PICK s : s = file
  OBVIOUS
<1> PICK record : record = Record(n, h)
  OBVIOUS
<1>1. /\ Lines = LinesIn(s) /\ file' = s \o part /\ Lines' = LinesIn(s \o part)
      /\ torn' = IF part \in {<< >>, record} THEN torn ELSE torn + 1
  BY DEF Flush, Lines
<1>2. /\ s \in Text /\ part \in Text /\ torn \in Nat
      /\ torn = 0 => Rows(LinesIn(s)) /\ Once(LinesIn(s)) /\ Ended(LinesIn(s))
  BY <1>1, PartIsText DEF AInv, KInv, TInv
<1>3. \A i \in 1..Len(LinesIn(s)) : ~Named(LinesIn(s)[i], n)
  BY <1>1, MissingIsNew DEF AInv
<1>4. file' \in Text
  BY <1>1, <1>2, ConcatProperties DEF Text
<1>5. \A m, g : Stands(Lines, m, g) => Stands(Lines', m, g)
  BY <1>1, <1>2, StandsOn
<1>6. ASSUME part = record, AtLineStart PROVE Stands(Lines', n, h)
  <2>1. Ended(LinesIn(s))
    BY <1>2, <1>6, EndsAlike DEF AtLineStart
  <2> QED
    BY <1>1, <1>2, <1>3, <1>6, <2>1, RecordStands
<1>7. torn' \in Nat
  BY <1>1, <1>2
<1>8. ASSUME torn' = 0 PROVE torn = 0 /\ Rows(Lines') /\ Once(Lines') /\ Ended(Lines')
  <2>1. torn = 0 /\ part \in {<< >>, record}
    BY <1>1, <1>2, <1>8
  <2>2. CASE part = << >>
    <3>1. s \o part = s
      BY <1>2, <2>2, ConcatEmptySeq DEF Text
    <3> QED
      BY <1>1, <1>2, <2>1, <3>1
  <2>3. CASE part = record
    BY <1>1, <1>2, <1>3, <2>1, <2>3, RecordAdded
  <2> QED
    BY <2>1, <2>2, <2>3
<1> QED
  BY <1>4, <1>5, <1>6, <1>7, <1>8

LEMMA AStep ==
  ASSUME AInv, [Next]_vars
  PROVE  AInv'
<1>1. ASSUME UNCHANGED <<file, confirmed, kept, torn>>, torn = 0 => fate' # "bad hash"
      PROVE  AInv'
  BY <1>1 DEF AInv, KInv, TInv, Lines
<1>2. ASSUME NEW n \in Names, account_login(n) PROVE AInv'
  <2>1. torn = 0 => Accepted(n)
    BY AllAccepted DEF AInv, TInv
  <2> QED
    BY <1>1, <1>2, <2>1 DEF account_login, exit, AInv, TInv, vars
<1>3. ASSUME NEW n \in Names, AccountExists(n) PROVE AInv'
  BY <1>1, <1>3 DEF AccountExists, AInv, TInv
<1>4. ASSUME NEW n \in Names, NEW h \in Hashes, add_account(n, h) PROVE AInv'
  <2>1. PICK part \in Printed(Record(n, h)) :
          /\ Flush(Record(n, h), part)
          /\ kept' = IF part = Record(n, h) /\ AtLineStart THEN kept \cup {n} ELSE kept \ {n}
    BY <1>4 DEF add_account
  <2>2. MayAdd(n) /\ confirmed' = [confirmed EXCEPT ![n] = h] /\ fate' = fate
    BY <1>4 DEF add_account
  <2>3. /\ file' \in Text
        /\ \A m, g : Stands(Lines, m, g) => Stands(Lines', m, g)
        /\ part = Record(n, h) /\ AtLineStart => Stands(Lines', n, h)
        /\ torn' \in Nat
        /\ torn' = 0 => torn = 0 /\ Rows(Lines') /\ Once(Lines') /\ Ended(Lines')
    BY <2>1, <2>2, FlushStep
  <2>4. /\ confirmed \in Requested /\ kept \subseteq Names
        /\ \A m \in kept : confirmed[m] \in Hashes /\ Stands(Lines, m, confirmed[m])
    BY DEF AInv, KInv
  <2>5. confirmed' \in Requested /\ confirmed'[n] = h /\ \A m \in Names : m # n => confirmed'[m] = confirmed[m]
    BY <2>2, <2>4 DEF Requested
  <2>6. kept' \subseteq Names
    BY <2>1, <2>4
  <2>7. ASSUME NEW m \in kept' PROVE confirmed'[m] \in Hashes /\ Stands(Lines', m, confirmed'[m])
    <3>1. CASE m = n
      <4>1. part = Record(n, h) /\ AtLineStart
        BY <2>1, <2>7, <3>1
      <4> QED
        BY <2>3, <2>5, <3>1, <4>1
    <3>2. CASE m # n
      <4>1. m \in kept /\ m \in Names
        BY <2>1, <2>4, <2>7, <3>2
      <4> QED
        BY <2>3, <2>4, <2>5, <3>2, <4>1
    <3> QED
      BY <3>1, <3>2
  <2>8. torn' = 0 => fate' # "bad hash"
    BY <2>2, <2>3 DEF AInv, TInv
  <2> QED
    BY <2>3, <2>5, <2>6, <2>7, <2>8 DEF AInv, KInv, TInv
<1>5. ASSUME NEW n \in Names, NEW h \in Hashes, Interrupted(n, h) PROVE AInv'
  <2>1. PICK part \in Printed(Record(n, h)) : Flush(Record(n, h), part)
    BY <1>5 DEF Interrupted
  <2>2. MayAdd(n) /\ confirmed' = confirmed /\ kept' = kept /\ fate' # "bad hash"
    BY <1>5 DEF Interrupted
  <2>3. /\ file' \in Text
        /\ \A m, g : Stands(Lines, m, g) => Stands(Lines', m, g)
        /\ torn' \in Nat
        /\ torn' = 0 => Rows(Lines') /\ Once(Lines') /\ Ended(Lines')
    BY <2>1, <2>2, FlushStep
  <2> QED
    BY <2>2, <2>3 DEF AInv, KInv, TInv
<1>6. ASSUME CreateExits PROVE AInv'
  BY <1>1, <1>6 DEF CreateExits, exit
<1>7. ASSUME Restart PROVE AInv'
  BY <1>1, <1>7 DEF Restart
<1>8. ASSUME UNCHANGED vars PROVE AInv'
  BY <1>1, <1>8 DEF vars, AInv, TInv
<1> QED
  BY <1>2, <1>3, <1>4, <1>5, <1>6, <1>7, <1>8 DEF Next

(* The record of whoever is kept is the first with its name, in a line     *)
(* that is over; and until a record is torn, nothing but whole records of  *)
(* names that had none before is in the file.                              *)
THEOREM Invariance == Spec => []AInv
<1>1. AInv /\ [Next]_vars => AInv'
  BY AStep
<1> QED
  BY <1>1, AInit, PTL DEF Spec

(* account_login finds every account that CREATE_SUCCESS was answered for  *)
(* and whose record got to the file whole and at the start of a line, with *)
(* the hash it was created with: whatever the file held before, however    *)
(* many whole or torn records are appended behind it, and however often    *)
(* the server is interrupted and restarted.                                *)
THEOREM KeptAccountsStay == Spec => []KeptCanLogIn
<1>1. AInv => KeptCanLogIn
  <2> SUFFICES ASSUME AInv, NEW n \in kept
               PROVE  StoredHash(n) = confirmed[n]
    BY DEF KeptCanLogIn
  <2> DEFINE k == FirstNamed(Lines, n)
             h == confirmed[n]
  <2>1. n \in Names /\ h \in Hashes /\ Stands(Lines, n, h) /\ Lines \in Pages /\ Len(Lines) \in Nat
    BY LinesOfFile DEF AInv, KInv
  <2> HIDE DEF h
  <2>2. k \in 1..Len(Lines) /\ Digits(Lines[k]) = h
    BY <2>1, StandingIsFound
  <2> HIDE DEF k
  <2>3. k # 0 /\ Lines[k] \in Text
    BY <2>1, <2>2 DEF Pages
  <2>4. LineOf(n) = Lines[k] /\ LineOf(n) # NULL
    BY <2>3, LineFound, NoTextIsNull DEF k
  <2> QED
    BY <2>2, <2>4 DEF StoredHash, h
<1> QED
  BY <1>1, Invariance, PTL

(* fgets and the search for the semicolon cut the file into the records    *)
(* add_account wrote, as long as none was torn: a record as long as the    *)
(* buffer leaves a line with nothing but its newline, and no request ends  *)
(* the process over a hash.                                                *)
THEOREM RecordsAreRead == Spec => []LinesAreRecords
<1>1. AInv => LinesAreRecords
  <2> SUFFICES ASSUME AInv, torn = 0, NEW i \in DOMAIN Lines, Cut(Lines[i]) > 0
               PROVE  NameIn(Lines[i]) \in Names /\ Digits(Lines[i]) \in Hashes
    BY DEF LinesAreRecords, AInv, TInv
  <2>1. i \in 1..Len(Lines)
    BY RowsAreText DEF AInv, TInv
  <2> QED
    BY <2>1, NamedIsRecord DEF AInv, TInv
<1> QED
  BY <1>1, Invariance, PTL

(* account_create asks find_account before it appends, and the process may *)
(* end in between or after: as long as no record was torn, no name has two.*)
THEOREM NamesAreUnique == Spec => []OneRecordPerName
<1>1. AInv => OneRecordPerName
  <2> SUFFICES ASSUME AInv, torn = 0 PROVE OneRecordPerName
    BY DEF OneRecordPerName
  <2>1. DOMAIN Lines = 1..Len(Lines)
    BY RowsAreText DEF AInv, TInv
  <2> QED
    BY <2>1 DEF OneRecordPerName, Once, AInv, TInv
<1> QED
  BY <1>1, Invariance, PTL
=============================================================================
