-------------------------- MODULE ChatWindowProofs --------------------------
(***************************************************************************)
(* What the clients show: the list of users that output.c puts together    *)
(* from the events around a join is the table of the room.                 *)
(***************************************************************************)
EXTENDS ChatProofs

-----------------------------------------------------------------------------
(* Reading one packet after the other *)

(* The recursion in Shown, unfolded: f has what is shown after each packet. *)
Showing(f, w, q) ==
  /\ Shown(w, q) = f[Len(q)]
  /\ f[0] = w
  /\ \A i \in 1..Len(q) : f[i] = display_channel_event(f[i - 1], q[i])
  /\ \A i \in 0..Len(q) : f[i] \in Windows

LEMMA ShownUpto ==
  ASSUME NEW w \in Windows, NEW q \in Seq(Letters)
  PROVE  \E f : Showing(f, w, q)
<1> DEFINE n == Len(q)
           step == [i \in 1..n |-> [v \in Windows |-> display_channel_event(v, q[i])]]
           Unfolds(g) == g = [i \in 0..n |-> IF i = 0 THEN w
                                             ELSE display_channel_event(g[i - 1], q[i])]
           f == CHOOSE g : Unfolds(g)
<1>1. n \in Nat
  OBVIOUS
<1>2. \A i \in 1..n, v \in Windows : display_channel_event(v, q[i]) \in Windows
  <2> TAKE i \in 1..n, v \in Windows
  <2>1. q[i] \in Letters
    OBVIOUS
  <2> QED
    BY <2>1, DisplayInside
<1>3. step \in Steps(n, Windows)
  BY <1>2 DEF Steps
<1>4. PICK g : Runs(g, n, Windows, w, step)
  <2> HIDE DEF n, step
  <2> QED
    BY <1>1, <1>3, RecursiveFunction
<1>5. /\ g \in [0..n -> Windows] /\ g[0] = w
      /\ \A i \in 1..n : g[i] = step[i][g[i - 1]]
  BY <1>4 DEF Runs
<1>6. Unfolds(g)
  <2>1. \A i \in 0..n : i # 0 => i \in 1..n /\ g[i - 1] \in Windows
    BY <1>1, <1>5
  <2>2. \A i \in 0..n : i # 0 => step[i][g[i - 1]] = display_channel_event(g[i - 1], q[i])
    BY <2>1
  <2> HIDE DEF step, n
  <2>3. \A i \in 0..n : g[i] = IF i = 0 THEN w ELSE display_channel_event(g[i - 1], q[i])
    BY <1>5, <2>1, <2>2
  <2> QED
    BY <1>5, <2>3
<1> HIDE DEF step
<1>7. Unfolds(f)
  BY <1>6
<1>8. Shown(w, q) = f[n]
  BY DEF Shown
<1> HIDE DEF f
<1>9. f[0] = w /\ \A i \in 1..n : f[i] = display_channel_event(f[i - 1], q[i])
  BY <1>1, <1>7
<1>10. \A i \in 0..n : f[i] \in Windows
  <2> HIDE DEF n
  <2>1. \A i \in 1..n : f[i - 1] \in Windows => f[i] \in Windows
    BY <1>2, <1>9
  <2>2. f[0] \in Windows
    BY <1>9
  <2> QED
    BY <1>1, <2>1, <2>2, PassedOn
<1> QED
  BY <1>8, <1>9, <1>10 DEF Showing

LEMMA ShownInside ==
  ASSUME NEW w \in Windows, NEW q \in Seq(Letters)
  PROVE  Shown(w, q) \in Windows
<1>1. PICK f : Showing(f, w, q)
  BY ShownUpto
<1>2. Len(q) \in 0..Len(q)
  OBVIOUS
<1> QED
  BY <1>1, <1>2 DEF Showing

LEMMA ShownNothing == ASSUME NEW w \in Windows PROVE Shown(w, << >>) = w
<1>1. << >> \in Seq(Letters) /\ Len(<< >>) = 0
  OBVIOUS
<1>2. PICK f : Showing(f, w, << >>)
  BY <1>1, ShownUpto
<1> QED
  BY <1>1, <1>2 DEF Showing

LEMMA ShownOne ==
  ASSUME NEW w \in Windows, NEW p \in Letters
  PROVE  Shown(w, << p >>) = display_channel_event(w, p)
<1>1. << p >> \in Seq(Letters) /\ Len(<< p >>) = 1 /\ << p >>[1] = p
  OBVIOUS
<1>2. PICK f : Showing(f, w, << p >>)
  BY <1>1, ShownUpto
<1>3. 1 \in 1..1 /\ 1 - 1 = 0
  OBVIOUS
<1>4. f[1] = display_channel_event(f[1 - 1], << p >>[1])
  BY <1>1, <1>2, <1>3 DEF Showing
<1> QED
  BY <1>1, <1>2, <1>3, <1>4 DEF Showing

(* What is read first and what is read then. *)
LEMMA ShownJoined ==
  ASSUME NEW w \in Windows, NEW q \in Seq(Letters), NEW s \in Seq(Letters)
  PROVE  Shown(w, q \o s) = Shown(Shown(w, q), s)
<1> DEFINE all == q \o s
<1>1. /\ all \in Seq(Letters) /\ Len(all) = Len(q) + Len(s) /\ Len(q) \in Nat /\ Len(s) \in Nat
      /\ \A i \in 1..Len(q) : all[i] = q[i]
      /\ \A i \in 1..Len(s) : all[Len(q) + i] = s[i]
  BY Joined
<1> HIDE DEF all
<1>2. PICK f : Showing(f, w, all)
  BY <1>1, ShownUpto
<1>3. PICK g : Showing(g, w, q)
  BY ShownUpto
<1>4. Shown(w, q) \in Windows
  BY ShownInside
<1>5. PICK h : Showing(h, Shown(w, q), s)
  BY <1>4, ShownUpto
<1> USE DEF Showing
<1>6. f[Len(q)] = g[Len(q)]
  <2>1. \A i \in 1..Len(q) : i \in 1..Len(all)
    BY <1>1
  <2>2. \A i \in 1..Len(q) : f[i - 1] = g[i - 1] => f[i] = g[i]
    BY <1>1, <1>2, <1>3, <2>1
  <2>3. f[0] = g[0]
    BY <1>2, <1>3
  <2> QED
    BY <1>1, <2>2, <2>3, SameRun
<1> DEFINE rest == [i \in 0..Len(s) |-> f[Len(q) + i]]
<1>7. rest[Len(s)] = h[Len(s)]
  <2>1. rest[0] = h[0]
    BY <1>1, <1>3, <1>5, <1>6
  <2>2. ASSUME NEW i \in 1..Len(s), rest[i - 1] = h[i - 1] PROVE rest[i] = h[i]
    <3>1. /\ Len(q) + i \in 1..Len(all) /\ (Len(q) + i) - 1 = Len(q) + (i - 1)
          /\ i \in 0..Len(s) /\ i - 1 \in 0..Len(s)
      BY <1>1
    <3>2. rest[i] = f[Len(q) + i] /\ rest[i - 1] = f[Len(q) + (i - 1)]
      BY <3>1
    <3>3. f[Len(q) + i] = display_channel_event(f[Len(q) + (i - 1)], s[i])
      BY <1>1, <1>2, <3>1
    <3> QED
      BY <1>5, <2>2, <3>2, <3>3
  <2> HIDE DEF rest
  <2> QED
    BY <1>1, <2>1, <2>2, SameRun
<1>8. rest[Len(s)] = f[Len(all)]
  BY <1>1
<1> QED
  BY <1>2, <1>5, <1>7, <1>8 DEF all

LEMMA ShownHead ==
  ASSUME NEW w \in Windows, NEW q \in Seq(Letters), q # << >>
  PROVE  Shown(w, q) = Shown(display_channel_event(w, Head(q)), Tail(q))
<1>1. Head(q) \in Letters /\ Tail(q) \in Seq(Letters) /\ << Head(q) >> \in Seq(Letters)
  BY HeadAndTail
<1>2. q = << Head(q) >> \o Tail(q)
  OBVIOUS
<1>3. Shown(w, << Head(q) >>) = display_channel_event(w, Head(q))
  BY <1>1, ShownOne
<1>4. Shown(w, << Head(q) >> \o Tail(q)) = Shown(Shown(w, << Head(q) >>), Tail(q))
  BY <1>1, ShownJoined
<1> QED
  BY <1>2, <1>3, <1>4

(* What changes nothing on the display. *)
Indifferent(p) ==
  p.kind \notin {"USER_JOIN_CHANNEL", "USER_IN_CHANNEL", "USER_LEAVE_CHANNEL", "CHANNEL"}

LEMMA NotShown ==
  ASSUME NEW w, NEW p, Indifferent(p)
  PROVE  display_channel_event(w, p) = w
BY DEF Indifferent, display_channel_event

(* A packet that arrives again shows nothing new. *)
LEMMA ShownAgain ==
  ASSUME NEW w \in Windows, NEW p
  PROVE  display_channel_event(display_channel_event(w, p), p) = display_channel_event(w, p)
<1>1. w.users \subseteq Names
  BY DEF Windows
<1>2. CASE p.kind = "CHANNEL"
  BY <1>2 DEF display_channel_event, NewChannel
<1>3. CASE p.kind = "USER_JOIN_CHANNEL"
  BY <1>3 DEF display_channel_event, update_userlist, Windows
<1>4. CASE p.kind = "USER_IN_CHANNEL"
  BY <1>4 DEF display_channel_event, update_userlist, Windows
<1>5. CASE p.kind = "USER_LEAVE_CHANNEL"
  BY <1>5 DEF display_channel_event, update_userlist, Windows
<1> QED
  BY <1>2, <1>3, <1>4, <1>5 DEF display_channel_event

-----------------------------------------------------------------------------
(* What a step of the server changes *)

(* p arrives at c. *)
Hears(p, c) ==
  /\ \E s \in p.to : LeadsTo(s, c)
  /\ p.kind # "SID_NULL"
  /\ p.kind = "USER_IN_CHANNEL" => p.about # {}

(* What c shows once it has read p, if it hears it. *)
AfterPacket(w, p, c) == IF Hears(p, c) THEN display_channel_event(w, p) ELSE w

(* However many copies arrive, the first one says it all. *)
LEMMA ShownCopies ==
  ASSUME NEW w \in Windows, NEW p \in Letters, NEW c
  PROVE  Copies(p, c) \in Seq(Letters) /\ Shown(w, Copies(p, c)) = AfterPacket(w, p, c)
<1> DEFINE To == {s \in p.to : LeadsTo(s, c)}
           k == Cardinality(To)
           All == [i \in 1..k |-> p]
           d == display_channel_event(w, p)
<1>1. p \in Packets /\ p.to \subseteq Users
  BY DEF Letters, Packets
<1>2. k \in Nat /\ (k = 0 <=> To = {})
  <2>1. IsFiniteSet(To)
    BY <1>1, UsersAssumption, FS_Subset
  <2> QED
    BY <2>1, FS_CardinalityType, FS_EmptySet
<1>3. Copies(p, c) \in Seq(Letters)
  BY <1>1, CopiesReach
<1>4. CASE ~Hears(p, c)
  <2>1. Copies(p, c) = << >>
    <3>1. CASE To = {}
      <4>1. Copies(p, c) = << >> \/ Copies(p, c) = All
        BY DEF Copies
      <4>2. k = 0
        BY <1>2, <3>1
      <4> HIDE DEF k
      <4>3. All = << >>
        BY <4>2
      <4> HIDE DEF All
      <4> QED
        BY <4>1, <4>3
    <3>2. CASE p.kind = "SID_NULL" \/ (p.kind = "USER_IN_CHANNEL" /\ p.about = {})
      BY <3>2 DEF Copies
    <3> QED
      BY <1>4, <3>1, <3>2 DEF Hears
  <2> QED
    BY <1>3, <1>4, <2>1, ShownNothing DEF AfterPacket
<1>5. CASE Hears(p, c)
  <2>1. Copies(p, c) = All
    BY <1>5 DEF Copies, Hears
  <2>2. To # {}
    BY <1>5 DEF Hears
  <2> HIDE DEF To
  <2>3. k >= 1
    BY <1>2, <2>2
  <2> HIDE DEF k
  <2>4. All \in Seq(Letters) /\ Len(All) = k /\ \A i \in 1..k : All[i] = p
    BY <1>2
  <2> HIDE DEF All
  <2>5. PICK f : Showing(f, w, All)
    BY <2>4, ShownUpto
  <2> DEFINE S == {i \in 0..k : i = 0 \/ f[i] = d}
  <2>6. \A i \in 0..(k - 1) : i \in S => i + 1 \in S
    <3> SUFFICES ASSUME NEW i \in 0..(k - 1), i \in S PROVE f[i + 1] = d
      BY <1>2
    <3>1. i + 1 \in 1..k /\ (i + 1) - 1 = i
      BY <1>2
    <3>2. f[i + 1] = display_channel_event(f[i], p)
      BY <2>4, <2>5, <3>1 DEF Showing
    <3>3. i = 0 => f[i] = w
      BY <2>5 DEF Showing
    <3>4. f[i] = w \/ f[i] = d
      BY <3>3
    <3> QED
      BY <3>2, <3>4, ShownAgain
  <2>7. 0 \in S
    BY <1>2
  <2> HIDE DEF S
  <2>8. 0..k \subseteq S
    BY <1>2, <2>6, <2>7, IntervalInduction
  <2>9. f[k] = d
    BY <1>2, <2>3, <2>8 DEF S
  <2> QED
    BY <1>3, <1>5, <2>1, <2>4, <2>5, <2>9 DEF AfterPacket, Showing
<1> QED
  BY <1>4, <1>5

(* g has what c shows once it has read what came from each of these        *)
(* packets.                                                                *)
Follows(g, w, packets, c) ==
  /\ g[0] = w
  /\ \A i \in 1..Len(packets) : g[i] = AfterPacket(g[i - 1], packets[i], c)
  /\ \A i \in 0..Len(packets) : g[i] \in Windows

LEMMA ShownReceived ==
  ASSUME wire' \in Seq(Letters), NEW w \in Windows, NEW c
  PROVE  \E g : Follows(g, w, wire', c) /\ Shown(w, Received(c)) = g[Len(wire')]
<1> DEFINE n == Len(wire')
<1>1. n \in Nat /\ wire' \in Seq(Packets) /\ \A i \in 1..n : wire'[i] \in Letters
  BY NewsAreLetters
<1>2. PICK f : /\ Received(c) = f[n] /\ f[0] = << >>
               /\ \A i \in 1..n : f[i] = f[i - 1] \o Copies(wire'[i], c)
               /\ \A i \in 0..n : f[i] \in Seq(Reaching(c))
  BY <1>1, ReceivedUpto
<1>3. Reaching(c) \subseteq Letters
  BY DEF Reaching
<1>4. \A i \in 0..n : f[i] \in Seq(Letters)
  BY <1>2, <1>3
<1> DEFINE g == [i \in 0..n |-> Shown(w, f[i])]
<1>5. \A i \in 0..n : g[i] \in Windows
  BY <1>4, ShownInside
<1>6. g[0] = w
  BY <1>1, <1>2, ShownNothing
<1>7. ASSUME NEW i \in 1..n PROVE g[i] = AfterPacket(g[i - 1], wire'[i], c)
  <2>1. i \in 0..n /\ i - 1 \in 0..n /\ wire'[i] \in Letters
    BY <1>1
  <2>2. f[i - 1] \in Seq(Letters) /\ Shown(w, f[i - 1]) \in Windows
    BY <1>4, <2>1, ShownInside
  <2>3. /\ Copies(wire'[i], c) \in Seq(Letters)
        /\ Shown(Shown(w, f[i - 1]), Copies(wire'[i], c)) = AfterPacket(Shown(w, f[i - 1]), wire'[i], c)
    BY <2>1, <2>2, ShownCopies
  <2>4. f[i] = f[i - 1] \o Copies(wire'[i], c)
    BY <1>2
  <2>5. Shown(w, f[i]) = Shown(Shown(w, f[i - 1]), Copies(wire'[i], c))
    BY <2>2, <2>3, <2>4, ShownJoined
  <2> QED
    BY <2>1, <2>3, <2>5
<1>8. g[n] = Shown(w, Received(c))
  BY <1>1, <1>2
<1> HIDE DEF g
<1> QED
  BY <1>5, <1>6, <1>7, <1>8 DEF Follows

(* Packets that are heard are among those received, and no others. *)
LEMMA HeardIsReceived ==
  ASSUME wire' \in Seq(Letters), NEW c, NEW i \in DOMAIN wire', Hears(wire'[i], c)
  PROVE  \E k \in DOMAIN Received(c) : Received(c)[k] = wire'[i]
<1> DEFINE n == Len(wire')
           p == wire'[i]
<1>1. n \in Nat /\ wire' \in Seq(Packets) /\ i \in 1..n /\ p \in Letters
  BY NewsAreLetters
<1>2. PICK f : /\ Received(c) = f[n] /\ f[0] = << >>
               /\ \A j \in 1..n : f[j] = f[j - 1] \o Copies(wire'[j], c)
               /\ \A j \in 0..n : f[j] \in Seq(Reaching(c))
  BY <1>1, ReceivedUpto
<1>3. \A j \in 1..n : Copies(wire'[j], c) \in Seq(Letters)
  <2> TAKE j \in 1..n
  <2>1. wire'[j] \in Letters /\ wire'[j].to \subseteq Users
    BY <1>1 DEF Letters, Packets
  <2> QED
    BY <2>1, CopiesReach
<1>4. Reaching(c) \subseteq Letters
  BY DEF Reaching
<1>5. \A j \in 0..n : f[j] \in Seq(Letters)
  BY <1>2, <1>4
<1> DEFINE Has(j) == \E k \in 1..Len(f[j]) : f[j][k] = p
           S == {j \in 0..n : j >= i => Has(j)}
<1>6. Copies(p, c) # << >> /\ \A k \in 1..Len(Copies(p, c)) : Copies(p, c)[k] = p
  <2> DEFINE To == {s \in p.to : LeadsTo(s, c)}
  <2>1. Copies(p, c) = [k \in 1..Cardinality(To) |-> p] /\ To # {}
    BY DEF Copies, Hears
  <2>2. IsFiniteSet(To)
    BY <1>1, UsersAssumption, FS_Subset DEF Letters, Packets
  <2>3. Cardinality(To) \in Nat /\ Cardinality(To) # 0
    BY <2>1, <2>2, FS_CardinalityType, FS_EmptySet
  <2> HIDE DEF To
  <2> QED
    BY <2>1, <2>3
<1>7. ASSUME NEW j \in 0..(n - 1), j \in S PROVE j + 1 \in S
  <2> SUFFICES ASSUME j + 1 >= i PROVE Has(j + 1)
    BY <1>1
  <2>1. j \in 0..n /\ j + 1 \in 1..n /\ (j + 1) - 1 = j
    BY <1>1
  <2> DEFINE q == f[j]
             s == Copies(wire'[j + 1], c)
  <2>2. q \in Seq(Letters) /\ s \in Seq(Letters) /\ f[j + 1] = q \o s
    BY <1>2, <1>3, <1>5, <2>1
  <2>6. Has(j) <=> \E k \in 1..Len(q) : q[k] = p
    OBVIOUS
  <2>7. Has(j + 1) <=> \E k \in 1..Len(q \o s) : (q \o s)[k] = p
    BY <2>2
  <2>8. j + 1 = i => s # << >> /\ \A k \in 1..Len(s) : s[k] = p
    BY <1>6
  <2>9. j >= i => Has(j)
    BY <1>7
  <2> HIDE DEF q, s, Has
  <2>3. /\ Len(q \o s) = Len(q) + Len(s) /\ Len(q) \in Nat /\ Len(s) \in Nat
        /\ \A k \in 1..Len(q) : (q \o s)[k] = q[k]
        /\ \A k \in 1..Len(s) : (q \o s)[Len(q) + k] = s[k]
    BY <2>2, Joined
  <2>4. CASE j >= i
    <3>1. PICK k \in 1..Len(q) : q[k] = p
      BY <2>4, <2>6, <2>9
    <3>2. k \in 1..Len(q \o s) /\ (q \o s)[k] = p
      BY <2>3, <3>1
    <3> QED
      BY <2>7, <3>2
  <2>5. CASE j + 1 = i
    <3>1. s # << >> /\ \A k \in 1..Len(s) : s[k] = p
      BY <2>5, <2>8
    <3>2. 1 \in 1..Len(s)
      BY <2>2, <3>1
    <3>3. Len(q) + 1 \in 1..Len(q \o s) /\ (q \o s)[Len(q) + 1] = p
      BY <2>3, <3>1, <3>2
    <3> QED
      BY <2>7, <3>3
  <2> QED
    BY <1>1, <2>1, <2>4, <2>5
<1>8. 0 \in S
  BY <1>1
<1> HIDE DEF S
<1>9. 0..n \subseteq S
  BY <1>1, <1>7, <1>8, IntervalInduction
<1>10. Has(n)
  BY <1>1, <1>9 DEF S
<1>11. DOMAIN f[n] = 1..Len(f[n])
  BY <1>1, <1>5
<1> QED
  BY <1>2, <1>10, <1>11

LEMMA ReceivedIsSent ==
  ASSUME wire' \in Seq(Letters), NEW c, NEW k \in DOMAIN Received(c)
  PROVE  \E i \in DOMAIN wire' : /\ Received(c)[k] = wire'[i]
                                 /\ \E s \in wire'[i].to : LeadsTo(s, c)
<1>1. wire' \in Seq(Packets)
  BY NewsAreLetters
<1>2. PICK f : /\ Received(c) = f[Len(wire')]
               /\ \A j \in 0..Len(wire') : f[j] \in Seq(Reaching(c))
  BY <1>1, ReceivedUpto
<1>3. Len(wire') \in 0..Len(wire')
  BY <1>1
<1>4. Received(c) \in Seq(Reaching(c))
  BY <1>2, <1>3
<1>5. Received(c)[k] \in Reaching(c)
  BY <1>4
<1> QED
  BY <1>5 DEF Reaching

(* A client that is not a stray after a step that told it of no channel    *)
(* was none before, and every room event it heard is of its own room.      *)
LEMMA NothingForeign ==
  ASSUME wire' \in Seq(Letters), Delivered, NEW c \in Users, c \notin stray',
         \A i \in DOMAIN wire' : Hears(wire'[i], c) => wire'[i].kind # "CHANNEL"
  PROVE  /\ c \notin stray
         /\ \A i \in DOMAIN wire' : Hears(wire'[i], c) /\ wire'[i].kind \in RoomEvents
                                    => room'[c] \in wire'[i].about
<1>1. ~IsStray(c)
  BY DEF Delivered, Clients
<1>2. \A k \in DOMAIN Received(c) : Received(c)[k].kind # "CHANNEL"
  <2> SUFFICES ASSUME NEW k \in DOMAIN Received(c), Received(c)[k].kind = "CHANNEL" PROVE FALSE
    OBVIOUS
  <2>1. PICK i \in DOMAIN wire' : /\ Received(c)[k] = wire'[i]
                                 /\ \E s \in wire'[i].to : LeadsTo(s, c)
    BY ReceivedIsSent
  <2> QED
    BY <2>1 DEF Hears
<1>3. c \notin stray
  BY <1>1, <1>2 DEF IsStray
<1>4. \A k \in DOMAIN Received(c) : Received(c)[k].kind \in RoomEvents
                                    => room'[c] \in Received(c)[k].about
  BY <1>1, <1>2 DEF IsStray
<1>5. ASSUME NEW i \in DOMAIN wire', Hears(wire'[i], c), wire'[i].kind \in RoomEvents
      PROVE  room'[c] \in wire'[i].about
  <2>1. PICK k \in DOMAIN Received(c) : Received(c)[k] = wire'[i]
    BY <1>5, HeardIsReceived
  <2> QED
    BY <1>4, <1>5, <2>1
<1> QED
  BY <1>3, <1>5

(* From w, these packets lead c's display to v. *)
Leads(w, packets, c, v) ==
  \E g : Follows(g, w, packets, c) /\ v = g[Len(packets)]

LEMMA LeadsNowhere ==
  ASSUME NEW w, NEW c, NEW v, Leads(w, << >>, c, v)
  PROVE  v = w
BY DEF Leads, Follows

LEMMA LeadsByOne ==
  ASSUME NEW w, NEW c, NEW v, NEW p, Leads(w, << p >>, c, v)
  PROVE  v = AfterPacket(w, p, c) /\ v \in Windows
<1>1. PICK g : Follows(g, w, << p >>, c) /\ v = g[1]
  BY DEF Leads
<1>2. Len(<< p >>) = 1 /\ << p >>[1] = p /\ 1 \in 1..1 /\ 1 \in 0..1 /\ 1 - 1 = 0
  OBVIOUS
<1>3. g[1] = AfterPacket(g[1 - 1], << p >>[1], c) /\ g[1] \in Windows /\ g[0] = w
  BY <1>1, <1>2 DEF Follows
<1> QED
  BY <1>1, <1>2, <1>3

LEMMA LeadsByTwo ==
  ASSUME NEW w, NEW c, NEW v, NEW p, NEW q, Leads(w, << p, q >>, c, v)
  PROVE  v = AfterPacket(AfterPacket(w, p, c), q, c) /\ AfterPacket(w, p, c) \in Windows
<1>1. PICK g : Follows(g, w, << p, q >>, c) /\ v = g[2]
  BY DEF Leads
<1>2. /\ Len(<< p, q >>) = 2 /\ << p, q >>[1] = p /\ << p, q >>[2] = q
      /\ 1 \in 1..2 /\ 2 \in 1..2 /\ 1 \in 0..2 /\ 1 - 1 = 0 /\ 2 - 1 = 1
  OBVIOUS
<1>3. /\ g[0] = w /\ g[1] \in Windows
      /\ g[1] = AfterPacket(g[1 - 1], << p, q >>[1], c)
      /\ g[2] = AfterPacket(g[2 - 1], << p, q >>[2], c)
  BY <1>1, <1>2 DEF Follows
<1> QED
  BY <1>1, <1>2, <1>3

LEMMA LeadsByThree ==
  ASSUME NEW w, NEW c, NEW v, NEW p, NEW q, NEW r, Leads(w, << p, q, r >>, c, v)
  PROVE  v = AfterPacket(AfterPacket(AfterPacket(w, p, c), q, c), r, c)
<1>1. PICK g : Follows(g, w, << p, q, r >>, c) /\ v = g[3]
  BY DEF Leads
<1>2. /\ Len(<< p, q, r >>) = 3
      /\ << p, q, r >>[1] = p /\ << p, q, r >>[2] = q /\ << p, q, r >>[3] = r
      /\ 1 \in 1..3 /\ 2 \in 1..3 /\ 3 \in 1..3 /\ 1 - 1 = 0 /\ 2 - 1 = 1 /\ 3 - 1 = 2
  OBVIOUS
<1>3. /\ g[0] = w
      /\ g[1] = AfterPacket(g[1 - 1], << p, q, r >>[1], c)
      /\ g[2] = AfterPacket(g[2 - 1], << p, q, r >>[2], c)
      /\ g[3] = AfterPacket(g[3 - 1], << p, q, r >>[3], c)
  BY <1>1, <1>2 DEF Follows
<1> QED
  BY <1>1, <1>2, <1>3

LEMMA LeadsInParts ==
  ASSUME NEW w, NEW c, NEW v, NEW s \in Seq(Letters), NEW t \in Seq(Letters), Leads(w, s \o t, c, v)
  PROVE  \E x \in Windows : Leads(w, s, c, x) /\ Leads(x, t, c, v)
<1> DEFINE all == s \o t
<1>1. /\ Len(all) = Len(s) + Len(t) /\ Len(s) \in Nat /\ Len(t) \in Nat
      /\ \A i \in 1..Len(s) : all[i] = s[i]
      /\ \A i \in 1..Len(t) : all[Len(s) + i] = t[i]
  BY Joined
<1> HIDE DEF all
<1>2. PICK g : Follows(g, w, all, c) /\ v = g[Len(all)]
  BY DEF Leads, all
<1> DEFINE h == [i \in 0..Len(t) |-> g[Len(s) + i]]
           x == g[Len(s)]
<1>3. Follows(g, w, s, c)
  <2>1. (\A i \in 1..Len(s) : i \in 1..Len(all)) /\ \A i \in 0..Len(s) : i \in 0..Len(all)
    BY <1>1
  <2> QED
    BY <1>1, <1>2, <2>1 DEF Follows
<1>4. x \in Windows
  BY <1>1, <1>3 DEF Follows
<1>5. Follows(h, x, t, c)
  <2>1. h[0] = x
    BY <1>1
  <2>2. ASSUME NEW i \in 0..Len(t) PROVE h[i] \in Windows
    <3>1. Len(s) + i \in 0..Len(all)
      BY <1>1
    <3> QED
      BY <1>2, <3>1 DEF Follows
  <2>3. ASSUME NEW i \in 1..Len(t) PROVE h[i] = AfterPacket(h[i - 1], t[i], c)
    <3>1. /\ Len(s) + i \in 1..Len(all) /\ (Len(s) + i) - 1 = Len(s) + (i - 1)
          /\ i \in 0..Len(t) /\ i - 1 \in 0..Len(t)
      BY <1>1
    <3>2. g[Len(s) + i] = AfterPacket(g[(Len(s) + i) - 1], all[Len(s) + i], c)
      BY <1>2, <3>1 DEF Follows
    <3> QED
      BY <1>1, <3>1, <3>2
  <2> HIDE DEF h, x
  <2> QED
    BY <2>1, <2>2, <2>3 DEF Follows
<1>6. h[Len(t)] = v
  BY <1>1, <1>2
<1>7. Leads(x, t, c, v)
  <2> HIDE DEF h, x
  <2> QED
    BY <1>5, <1>6 DEF Leads
<1>8. Leads(w, s, c, x)
  BY <1>3 DEF Leads
<1> QED
  BY <1>4, <1>7, <1>8

(* What c shows after a step of the server, if it is there. *)
LEMMA SettledLeads ==
  ASSUME wire' \in Seq(Letters), Delivered, ClientTypes, NEW c \in Users, Open(c), UNCHANGED window
  PROVE  Settled(c) \in Windows /\ Leads(Settled(c), wire', c, Settled(c)')
<1>1. window[c] \in Windows /\ toClient[c] \in Seq(Letters)
  BY DEF ClientTypes
<1>2. Settled(c) \in Windows
  BY <1>1, ShownInside DEF Settled
<1>3. Received(c) \in Seq(Letters)
  BY ReceivedInside, NewsAreLetters
<1>4. toClient'[c] = toClient[c] \o Received(c) /\ window'[c] = window[c]
  BY DEF Delivered, Deliver, Clients
<1>5. Settled(c)' = Shown(window[c], toClient[c] \o Received(c))
  BY <1>4 DEF Settled
<1>6. Settled(c)' = Shown(Settled(c), Received(c))
  BY <1>1, <1>3, <1>5, ShownJoined DEF Settled
<1>7. PICK g : Follows(g, Settled(c), wire', c) /\ Shown(Settled(c), Received(c)) = g[Len(wire')]
  BY <1>2, ShownReceived
<1> QED
  BY <1>2, <1>6, <1>7 DEF Leads

(* Packets that are not heard, or mean nothing to the display. *)
LEMMA LeadsBack ==
  ASSUME NEW w, NEW c, NEW v, NEW q \in Seq(Letters), Leads(w, q, c, v),
         \A i \in DOMAIN q : Hears(q[i], c) => Indifferent(q[i])
  PROVE  v = w
<1>1. PICK g : Follows(g, w, q, c) /\ v = g[Len(q)]
  BY DEF Leads
<1>2. Len(q) \in Nat /\ DOMAIN q = 1..Len(q)
  OBVIOUS
<1> DEFINE T == {w}
<1>3. ASSUME NEW i \in 1..Len(q), g[i - 1] \in T PROVE g[i] \in T
  <2>1. g[i] = AfterPacket(w, q[i], c)
    BY <1>1, <1>3 DEF Follows
  <2>2. Hears(q[i], c) => Indifferent(q[i])
    BY <1>2
  <2> QED
    BY <2>1, <2>2, NotShown DEF AfterPacket
<1>4. g[0] \in T
  BY <1>1 DEF Follows
<1>5. \A i \in 0..Len(q) : g[i] \in T
  <2> HIDE DEF T
  <2> QED
    BY <1>2, <1>3, <1>4, PassedOn
<1>6. Len(q) \in 0..Len(q)
  BY <1>2
<1> QED
  BY <1>1, <1>5, <1>6

-----------------------------------------------------------------------------
(* What a window shows of the rooms *)

(* The window of somebody in this room, or in none, shows its table. *)
Matches(w, r, seats) ==
  /\ w.channel = r
  /\ IF r = NULL THEN w.shown = {}
     ELSE w.users = get_keys(seats[r]) /\ w.shown = get_keys(seats[r])

(* The property alone is not inductive: an event is added to or taken from *)
(* the names the client remembers, which must be those it shows.           *)
Watching(c) == Running(c) /\ Connected(c) /\ c \notin stray
WInv == \A c \in Users : Watching(c) => Matches(Settled(c), room[c], members)

LEMMA MatchSuffices == WInv => WindowFollowsRoom
BY DEF WInv, Watching, Matches, WindowFollowsRoom, Clients

LEMMA HearsItself ==
  ASSUME IInv, NEW c \in Users, Connected(c), NEW s \in Users
  PROVE  (LeadsTo(c, c)) /\ (Connected(s) /\ LeadsTo(s, c) => s = c)
<1>1. \A u \in Users, f \in Fds : owner[f] = u => sock[u] = f
  BY DEF IInv, UsersPartition
<1>2. PICK f \in Fds : owner[f] = c
  BY DEF Connected
<1>3. LeadsTo(c, c)
  BY <1>1, <1>2 DEF LeadsTo
<1>4. ASSUME Connected(s), LeadsTo(s, c) PROVE s = c
  <2>1. PICK g \in Fds : owner[g] = s
    BY <1>4 DEF Connected
  <2> QED
    BY <1>1, <1>4, <2>1 DEF LeadsTo
<1> QED
  BY <1>3, <1>4

(* The names in a table after one of them is taken out or put in. *)
LEMMA KeysRemoved ==
  ASSUME NEW t \in [Names -> Users \cup {NULL}], NEW n \in Names
  PROVE  get_keys(table_remove(t, n)) = get_keys(t) \ {n}
BY DEF get_keys, table_remove

LEMMA KeysAdded ==
  ASSUME NEW t \in [Names -> Users \cup {NULL}], NEW n \in Names, NEW u \in Users
  PROVE  get_keys(table_add(t, n, u)) = get_keys(t) \cup {n}
BY NullAssumption DEF get_keys, table_add

(* Somebody else than the one who leaves hears of it if it is his room,    *)
(* and then his window shows the table as it is after that.                *)
LEMMA LeaveSeen ==
  ASSUME RInv, RInv', NEW c \in Users, Commanding(c), UNCHANGED <<username, owner>>,
         \A r \in RoomNames, n \in Names :
           \/ members'[r][n] = AfterLeaving(c)[r][n]
           \/ n = username[c] /\ members'[r][n] = c,
         NEW d \in Users, d # c, Connected(d), room'[d] = room[d],
         NEW w \in Windows, Matches(w, room[d], members),
         NEW v, Leads(w, LeaveMessages(c), d, v),
         \A i \in DOMAIN LeaveMessages(c) :
           Hears(LeaveMessages(c)[i], d) => room'[d] \in LeaveMessages(c)[i].about
  PROVE  v \in Windows /\ Matches(v, room[d], AfterLeaving(c))
<1> DEFINE left == AfterLeaving(c)
           news == room_message(left[room[c]], "USER_LEAVE_CHANNEL", username[c], room[c])
<1>1. CASE room[c] \notin rooms
  <2>1. LeaveMessages(c) = << >> /\ AfterLeaving(c) = members
    BY <1>1 DEF LeaveMessages, AfterLeaving
  <2> QED
    BY <2>1, LeadsNowhere
<1>2. CASE room[c] \in rooms
  <2>1. LeaveMessages(c) = << news >> /\ left = [members EXCEPT ![room[c]] = table_remove(@, username[c])]
    BY <1>2 DEF LeaveMessages, AfterLeaving, room_remove_user
  <2>2. v = AfterPacket(w, news, d) /\ v \in Windows
    BY <2>1, LeadsByOne
  <2>3. c \in OldUsers /\ username[c] \in Names
    BY CommandingInTable DEF RInv
  <2>4. /\ room[c] \in RoomNames /\ members \in [RoomNames -> [Names -> Users \cup {NULL}]]
        /\ room[d] \in RoomNames \cup {NULL}
    BY <1>2 DEF RInv, IInv, TypeOK
  <2>5. /\ news.kind = "USER_LEAVE_CHANNEL" /\ news.who = username[c] /\ news.about = {room[c]}
        /\ news.to = get_values(left[room[c]])
    BY DEF room_message, Packet
  <2>6. Hears(news, d) => room[d] = room[c]
    <3>1. 1 \in DOMAIN LeaveMessages(c) /\ LeaveMessages(c)[1] = news
      BY <2>1
    <3> QED
      BY <2>5, <3>1
  <2>7. room[d] = room[c] => Hears(news, d)
    <3> SUFFICES ASSUME room[d] = room[c] PROVE Hears(news, d)
      OBVIOUS
    <3>1. d \in OldUsers
      <4>1. InChat(d)
        BY <2>4, NullAssumption DEF RInv, BlankUntilLogin
      <4> QED
        BY <4>1, InChatInTable DEF RInv, IInv, UsersPartition
    <3>2. username[d] # username[c]
      BY <2>3, <3>1, NamesDiffer DEF RInv
    <3>3. AllHeard(LeaveMessages(c), Scene')
      BY LeaveHeard
    <3>4. Heard(news, Scene')
      BY <2>1, <3>3 DEF AllHeard
    <3>5. d \in Linked' /\ Scene'.linked = Linked' /\ Scene'.where = room' /\ Scene'.names = username'
      BY DEF Linked, Connected, Scene
    <3>6. d \in news.to
      BY <2>5, <3>2, <3>4, <3>5 DEF Heard, RoomEvents
    <3>7. LeadsTo(d, d)
      BY HearsItself DEF RInv
    <3> QED
      BY <2>5, <3>6, <3>7 DEF Hears
  <2>8. CASE room[d] = room[c]
    <3>1. v = update_userlist(w, w.users \ {username[c]})
      BY <2>2, <2>5, <2>7, <2>8 DEF AfterPacket, display_channel_event
    <3>2. get_keys(left[room[c]]) = get_keys(members[room[c]]) \ {username[c]}
      BY <2>1, <2>3, <2>4, KeysRemoved
    <3>3. room[d] # NULL
      BY <2>4, <2>8, NullAssumption
    <3>4. /\ w.channel = room[d] /\ w.users = get_keys(members[room[c]])
      BY <2>8, <3>3 DEF Matches
    <3>5. v.channel = w.channel /\ v.users = w.users \ {username[c]} /\ v.shown = v.users
      BY <3>1 DEF update_userlist, Windows
    <3> QED
      BY <2>2, <2>8, <3>2, <3>3, <3>4, <3>5 DEF Matches
  <2>9. CASE room[d] # room[c]
    <3>1. v = w
      BY <2>2, <2>6, <2>9 DEF AfterPacket
    <3>2. room[d] # NULL => left[room[d]] = members[room[d]]
      BY <2>1, <2>4, <2>9
    <3> QED
      BY <3>1, <3>2 DEF Matches
  <2> QED
    BY <2>8, <2>9
<1> QED
  BY <1>1, <1>2

(* The same of joining. *)
LEMMA JoinSeen ==
  ASSUME RInv, RInv', NEW c \in Users, Commanding(c), UNCHANGED <<username, owner>>,
         NEW left \in [RoomNames -> [Names -> Users \cup {NULL}]], NEW r \in RoomNames,
         username[c] \in Names,
         members' = [left EXCEPT ![r] = room_add_user(@, c)],
         NEW d \in Users, d # c, Connected(d), room'[d] = room[d],
         NEW w \in Windows, Matches(w, room[d], left),
         NEW news, news = room_message(members'[r], "USER_JOIN_CHANNEL", username[c], r),
         Hears(news, d) => room'[d] \in news.about
  PROVE  Matches(AfterPacket(w, news, d), room[d], members')
<1> DEFINE v == AfterPacket(w, news, d)
<1>1. /\ news.kind = "USER_JOIN_CHANNEL" /\ news.who = username[c] /\ news.about = {r}
      /\ news.to = get_values(members'[r])
  BY DEF room_message, Packet
<1>2. members'[r] = table_add(left[r], username[c], c)
  BY DEF room_add_user
<1>3. room[d] \in RoomNames \cup {NULL} /\ r # NULL
  BY NullAssumption DEF RInv, IInv, TypeOK
<1>4. room[d] = r => Hears(news, d)
  <2> SUFFICES ASSUME room[d] = r PROVE Hears(news, d)
    OBVIOUS
  <2>1. d \in Linked'
    BY DEF Linked, Connected
  <2>2. d \in get_values(members'[r])
    BY <2>1, SeatedAfter DEF Seated
  <2>3. LeadsTo(d, d)
    BY HearsItself DEF RInv
  <2> QED
    BY <1>1, <2>2, <2>3 DEF Hears
<1>5. CASE room[d] = r
  <2>1. v = update_userlist(w, w.users \cup {username[c]})
    BY <1>1, <1>4, <1>5 DEF AfterPacket, display_channel_event
  <2>2. get_keys(members'[r]) = get_keys(left[r]) \cup {username[c]}
    BY <1>2, KeysAdded
  <2>3. w.channel = r /\ w.users = get_keys(left[r])
    BY <1>3, <1>5 DEF Matches
  <2>4. v.channel = w.channel /\ v.users = w.users \cup {username[c]} /\ v.shown = v.users
    BY <2>1 DEF update_userlist, Windows
  <2> QED
    BY <1>3, <1>5, <2>2, <2>3, <2>4 DEF Matches
<1>6. CASE room[d] # r
  <2>1. v = w
    BY <1>1, <1>6 DEF AfterPacket
  <2>2. room[d] # NULL => members'[room[d]] = left[room[d]]
    BY <1>3, <1>6
  <2> QED
    BY <2>1, <2>2 DEF Matches
<1> QED
  BY <1>5, <1>6

(* The one who joins is told of the channel, of who is there, and of his   *)
(* own coming.                                                             *)
LEMMA OwnJoinSeen ==
  ASSUME IInv, NEW c \in Users, Connected(c), username[c] \in Names,
         NEW t \in [Names -> Users \cup {NULL}], NEW r \in RoomNames,
         NEW w \in Windows,
         NEW told \in Letters, told.to = {c}, told.kind = "CHANNEL", told.who = username[c], told.about = {r},
         NEW list \in Letters, list = Packet({c}, "USER_IN_CHANNEL", NULL, get_keys(t)),
         NEW news \in Letters, news = room_message(room_add_user(t, c), "USER_JOIN_CHANNEL", username[c], r)
  PROVE  LET v == AfterPacket(AfterPacket(AfterPacket(w, told, c), list, c), news, c)
             keys == get_keys(room_add_user(t, c))
         IN  v.channel = r /\ v.users = keys /\ v.shown = keys
<1> DEFINE n  == username[c]
           w1 == AfterPacket(w, told, c)
           w2 == AfterPacket(w1, list, c)
           w3 == AfterPacket(w2, news, c)
<1>1. LeadsTo(c, c)
  BY HearsItself
<1>2. w1 = [users |-> {n}, shown |-> {}, channel |-> r]
  <2>1. Hears(told, c)
    BY <1>1 DEF Hears
  <2>2. w1 = NewChannel(w, told)
    BY <2>1 DEF AfterPacket, display_channel_event
  <2>3. (CHOOSE x \in {r} : TRUE) = r
    OBVIOUS
  <2> QED
    BY <2>2, <2>3 DEF NewChannel
<1>3. list.kind = "USER_IN_CHANNEL" /\ list.about = get_keys(t) /\ list.to = {c}
  BY DEF Packet
<1> HIDE DEF w1
<1>4. w2.users = {n} \cup get_keys(t) /\ w2.channel = r /\ DOMAIN w2 = {"users", "shown", "channel"}
  <2>1. CASE get_keys(t) = {}
    <3>1. w2 = w1
      BY <1>3, <2>1 DEF Hears, AfterPacket
    <3> QED
      BY <1>2, <2>1, <3>1
  <2>2. CASE get_keys(t) # {}
    <3>1. Hears(list, c)
      BY <1>1, <1>3, <2>2 DEF Hears
    <3>2. w2 = update_userlist(w1, w1.users \cup get_keys(t))
      BY <1>3, <3>1 DEF AfterPacket, display_channel_event
    <3> HIDE DEF w2
    <3> QED
      BY <1>2, <3>2 DEF update_userlist
  <2> QED
    BY <2>1, <2>2
<1>5. Hears(news, c)
  <2>1. c \in get_values(room_add_user(t, c))
    BY NullAssumption DEF room_add_user, table_add, get_values, get_keys
  <2> QED
    BY <1>1, <2>1 DEF Hears, room_message, Packet
<1>6. w3 = update_userlist(w2, w2.users \cup {n})
  BY <1>5 DEF AfterPacket, display_channel_event, room_message, Packet
<1>7. get_keys(room_add_user(t, c)) = get_keys(t) \cup {n}
  BY KeysAdded DEF room_add_user
<1> HIDE DEF w2
<1>8. w3.channel = w2.channel /\ w3.users = w2.users \cup {n} /\ w3.shown = w2.users \cup {n}
  BY <1>4, <1>6 DEF update_userlist
<1> QED
  BY <1>4, <1>7, <1>8 DEF w2, w1

(* What is kept of a step of the server that changes no room. *)
LEMMA QuietServe ==
  ASSUME ClientTypes, WInv, wire' \in Seq(Letters), Delivered, UNCHANGED <<client, window, members, room>>,
         \A c \in Users : Connected(c)' => Connected(c),
         \A i \in DOMAIN wire' : Indifferent(wire'[i])
  PROVE  WInv'
<1> SUFFICES ASSUME NEW c \in Users, Watching(c)' PROVE Matches(Settled(c)', room'[c], members')
  BY DEF WInv
<1>1. Running(c) /\ Open(c) /\ Connected(c) /\ c \notin stray'
  BY DEF Watching, Running, Open
<1>2. c \notin stray
  BY <1>1, NothingForeign DEF Indifferent
<1>3. Matches(Settled(c), room[c], members)
  BY <1>1, <1>2 DEF WInv, Watching
<1>4. Settled(c) \in Windows /\ Leads(Settled(c), wire', c, Settled(c)')
  BY <1>1, SettledLeads
<1>5. Settled(c)' = Settled(c)
  BY <1>4, LeadsBack
<1> QED
  BY <1>3, <1>5

LEMMA LeaveChatWindows ==
  ASSUME RInv, RInv', ClientTypes, WInv, NEW c \in Users, LeaveChat(c), Delivered,
         wire' \in Seq(Letters), UNCHANGED <<client, window>>
  PROVE  WInv'
<1> DEFINE info == Reply(c, "INFO", {})
           told == Reply(c, "CHANNEL", {})
           left == AfterLeaving(c)
<1>1. /\ Commanding(c) /\ UNCHANGED <<username, owner, sock>>
      /\ members' = left /\ room' = [room EXCEPT ![c] = NULL]
      /\ wire' = LeaveMessages(c) \o << info, told >>
  BY DEF LeaveChat, net
<1>2. IInv /\ c \in OldUsers /\ username[c] \in Names /\ Connected(c)
  BY <1>1, CommandingInTable DEF RInv, IInv, UsersPartition
<1>3. LeaveMessages(c) \in Seq(Letters) /\ info \in Letters /\ told \in Letters
  BY <1>1, <1>2, NewsOfLeaving, NewsToSender DEF News
<1>4. info.to = {c} /\ told.to = {c}
  BY <1>1, <1>2, RepliesToSender
<1>5. info.kind = "INFO" /\ told.kind = "CHANNEL" /\ told.who = username[c] /\ told.about = {}
  BY DEF Reply, send_chat, Packet
<1> HIDE DEF info, told, left
<1>6. << info, told >> \in Seq(Letters)
  BY <1>3
<1> SUFFICES ASSUME NEW d \in Users, Watching(d)' PROVE Matches(Settled(d)', room'[d], members')
  BY DEF WInv
<1>7. Running(d) /\ Open(d) /\ Connected(d) /\ d \notin stray'
  BY <1>1 DEF Watching, Running, Open, Connected
<1>8. Settled(d) \in Windows /\ Leads(Settled(d), wire', d, Settled(d)')
  BY <1>7, SettledLeads
<1>9. PICK x \in Windows : /\ Leads(Settled(d), LeaveMessages(c), d, x)
                          /\ Leads(x, << info, told >>, d, Settled(d)')
  BY <1>1, <1>3, <1>6, <1>8, LeadsInParts
<1> DEFINE y == AfterPacket(x, info, d)
<1>11. Settled(d)' = AfterPacket(y, told, d) /\ y \in Windows
  BY <1>9, LeadsByTwo
<1>12. CASE d = c
  <2>1. Hears(told, c)
    BY <1>2, <1>4, <1>5, HearsItself DEF Hears
  <2>2. Settled(d)' = NewChannel(y, told)
    BY <1>5, <1>11, <1>12, <2>1 DEF AfterPacket, display_channel_event
  <2>3. room'[d] = NULL
    BY <1>1, <1>12 DEF RInv, IInv, TypeOK
  <2> QED
    BY <1>5, <2>2, <2>3 DEF NewChannel, Matches
<1>13. CASE d # c
  <2>1. ~Hears(told, d) /\ ~Hears(info, d)
    BY <1>2, <1>4, <1>7, <1>13, HearsItself DEF Hears
  <2>2. Settled(d)' = x
    BY <1>11, <2>1 DEF AfterPacket
  <2>3. room'[d] = room[d]
    BY <1>1, <1>13 DEF RInv, IInv, TypeOK
  <2>4. /\ \A i \in DOMAIN LeaveMessages(c) :
             LeaveMessages(c)[i].kind \in RoomEvents /\ LeaveMessages(c)[i].kind # "CHANNEL"
    BY DEF LeaveMessages, room_message, Packet, RoomEvents
  <2>5. \A i \in DOMAIN LeaveMessages(c) : i \in DOMAIN wire' /\ wire'[i] = LeaveMessages(c)[i]
    BY <1>1, <1>3, <1>6
  <2>6. \A i \in DOMAIN wire' : Hears(wire'[i], d) => wire'[i].kind # "CHANNEL"
    <3> SUFFICES ASSUME NEW i \in DOMAIN wire', Hears(wire'[i], d) PROVE wire'[i].kind # "CHANNEL"
      OBVIOUS
    <3>1. i \in DOMAIN LeaveMessages(c) \/ wire'[i] = info \/ wire'[i] = told
      BY <1>1, <1>3, <1>6
    <3> QED
      BY <2>1, <2>4, <2>5, <3>1
  <2>7. /\ d \notin stray
        /\ \A i \in DOMAIN wire' : Hears(wire'[i], d) /\ wire'[i].kind \in RoomEvents
                                   => room'[d] \in wire'[i].about
    BY <1>7, <2>6, NothingForeign
  <2>8. Matches(Settled(d), room[d], members)
    BY <1>7, <2>7 DEF WInv, Watching
  <2>9. Matches(x, room[d], left)
    <3>1. \A i \in DOMAIN LeaveMessages(c) :
            Hears(LeaveMessages(c)[i], d) => room'[d] \in LeaveMessages(c)[i].about
      BY <2>4, <2>5, <2>7
    <3> QED
      BY <1>1, <1>7, <1>8, <1>9, <1>13, <2>3, <2>8, <3>1, LeaveSeen DEF left
  <2> QED
    BY <1>1, <2>2, <2>3, <2>9
<1> QED
  BY <1>12, <1>13

LEMMA JoinRoomWindows ==
  ASSUME RInv, RInv', ClientTypes, WInv, NEW c \in Users, NEW r \in RoomNames, JoinRoom(c, r),
         Delivered, wire' \in Seq(Letters), UNCHANGED <<client, window>>
  PROVE  WInv'
<1> DEFINE left    == AfterLeaving(c)
           joined  == room_add_user(left[r], c)
           info    == Reply(c, "INFO", {})
           told    == Reply(c, "CHANNEL", {r})
           list    == Packet({c}, "USER_IN_CHANNEL", NULL, get_keys(left[r]))
           news    == room_message(joined, "USER_JOIN_CHANNEL", username[c], r)
           created == IF r \in rooms THEN << >> ELSE << info >>
           before  == LeaveMessages(c) \o created
           entered == << told, list, news >>
<1>1. /\ Commanding(c) /\ UNCHANGED <<username, owner, sock>>
      /\ members' = [left EXCEPT ![r] = joined] /\ room' = [room EXCEPT ![c] = r]
      /\ wire' = before \o entered
  BY DEF JoinRoom, net
<1>2. IInv /\ c \in OldUsers /\ username[c] \in Names /\ Connected(c)
  BY <1>1, CommandingInTable DEF RInv, IInv, UsersPartition
<1>3. left \in [RoomNames -> [Names -> Users \cup {NULL}]]
  BY <1>1, <1>2, LeavingTyped
<1>4. LeaveMessages(c) \in Seq(Letters) /\ info \in Letters /\ told \in Letters
  BY <1>1, <1>2, NewsOfLeaving, NewsToSender DEF News
<1>5. info.to = {c} /\ told.to = {c} /\ list.to = {c}
  BY <1>1, <1>2, RepliesToSender DEF Packet
<1>6. /\ info.kind = "INFO"
      /\ told.kind = "CHANNEL" /\ told.who = username[c] /\ told.about = {r}
      /\ list.kind = "USER_IN_CHANNEL"
      /\ news.kind = "USER_JOIN_CHANNEL" /\ news.about = {r}
  BY DEF Reply, send_chat, room_message, Packet
<1>7. created \in Seq(Letters)
  BY <1>4
<1>8. list \in Letters /\ news \in Letters
  <2>1. left[r] \in [Names -> Users \cup {NULL}]
    BY <1>3
  <2>2. joined \in [Names -> Users \cup {NULL}]
    BY <1>2, <2>1 DEF room_add_user, table_add
  <2>3. news \in Letters
    BY <1>2, <2>2, NewsFromRoom DEF RoomEvents, News
  <2>4. get_keys(left[r]) \in SUBSET Names
    BY <2>1, ValuesTyped
  <2> HIDE DEF left
  <2>5. list \in Packets
    BY <2>4, OnePacket DEF Kinds, ChatEvents
  <2>6. list \in Letters
    BY <2>4, <2>5 DEF Letters, Legible, Packet
  <2> QED
    BY <2>3, <2>6
<1>9. before \in Seq(Letters) /\ entered \in Seq(Letters)
  <2> HIDE DEF created, told, list, news
  <2> QED
    BY <1>4, <1>7, <1>8
<1>10. members'[r] = joined /\ members' = [left EXCEPT ![r] = room_add_user(@, c)]
  BY <1>1, <1>3
<1> SUFFICES ASSUME NEW d \in Users, Watching(d)' PROVE Matches(Settled(d)', room'[d], members')
  BY DEF WInv
<1>11. Running(d) /\ Open(d) /\ Connected(d) /\ d \notin stray'
  BY <1>1 DEF Watching, Running, Open, Connected
<1>12. Settled(d) \in Windows /\ Leads(Settled(d), wire', d, Settled(d)')
  BY <1>11, SettledLeads
<1> HIDE DEF before, entered
<1>13. PICK y \in Windows : Leads(Settled(d), before, d, y) /\ Leads(y, entered, d, Settled(d)')
  BY <1>1, <1>9, <1>12, LeadsInParts
<1> HIDE DEF created
<1>14. PICK x \in Windows : Leads(Settled(d), LeaveMessages(c), d, x) /\ Leads(x, created, d, y)
  BY <1>4, <1>7, <1>13, LeadsInParts DEF before
<1> HIDE DEF told, list, news
<1>15. Settled(d)' = AfterPacket(AfterPacket(AfterPacket(y, told, d), list, d), news, d)
  BY <1>13, LeadsByThree DEF entered
<1>16. CASE d = c
  <2>1. room'[d] = r /\ r # NULL
    BY <1>1, <1>16, NullAssumption DEF RInv, IInv, TypeOK
  <2>2. LET v == Settled(d)'
            keys == get_keys(joined)
        IN  v.channel = r /\ v.users = keys /\ v.shown = keys
    <3>1. left[r] \in [Names -> Users \cup {NULL}]
      BY <1>3
    <3> HIDE DEF left
    <3> QED
      BY <1>2, <1>4, <1>5, <1>6, <1>8, <1>15, <1>16, <3>1, OwnJoinSeen DEF list, news
  <2> HIDE DEF joined
  <2> QED
    BY <1>10, <2>1, <2>2 DEF Matches
<1>17. CASE d # c
  <2>1. ~Hears(told, d) /\ ~Hears(list, d) /\ ~Hears(info, d)
    BY <1>2, <1>5, <1>11, <1>17, HearsItself DEF Hears
  <2>2. Settled(d)' = AfterPacket(y, news, d)
    BY <1>15, <2>1 DEF AfterPacket
  <2> HIDE DEF info
  <2>3. y = x
    <3>1. CASE created = << >>
      BY <1>14, <3>1, LeadsNowhere
    <3>2. CASE created = << info >>
      BY <1>14, <2>1, <3>2, LeadsByOne DEF AfterPacket
    <3> QED
      BY <3>1, <3>2 DEF created
  <2>4. room'[d] = room[d]
    BY <1>1, <1>17 DEF RInv, IInv, TypeOK
  <2>5. \A i \in DOMAIN LeaveMessages(c) :
          LeaveMessages(c)[i].kind \in RoomEvents /\ LeaveMessages(c)[i].kind # "CHANNEL"
    BY DEF LeaveMessages, room_message, Packet, RoomEvents
  <2>6. /\ \A i \in DOMAIN LeaveMessages(c) : i \in DOMAIN before /\ before[i] = LeaveMessages(c)[i]
        /\ \A i \in DOMAIN before : i \in DOMAIN LeaveMessages(c) \/ before[i] = info
    <3>1. created = << >> \/ created = << info >>
      BY DEF created
    <3> QED
      BY <1>4, <1>7, <3>1 DEF before
  <2>7. /\ \A i \in DOMAIN before : i \in DOMAIN wire' /\ wire'[i] = before[i]
        /\ \A i \in DOMAIN wire' : i \in DOMAIN before \/ wire'[i] \in {told, list, news}
        /\ \E i \in DOMAIN wire' : wire'[i] = news
    <3>1. /\ Len(wire') = Len(before) + 3 /\ Len(before) \in Nat
          /\ \A i \in 1..Len(before) : wire'[i] = before[i]
          /\ \A i \in 1..3 : wire'[Len(before) + i] = entered[i]
      <4>1. Len(entered) = 3
        BY DEF entered
      <4>2. /\ Len(before \o entered) = Len(before) + Len(entered) /\ Len(before) \in Nat
            /\ \A i \in 1..Len(before) : (before \o entered)[i] = before[i]
            /\ \A i \in 1..Len(entered) : (before \o entered)[Len(before) + i] = entered[i]
        BY <1>9, Joined
      <4> QED
        BY <1>1, <4>1, <4>2
    <3>2. entered[1] = told /\ entered[2] = list /\ entered[3] = news
      BY DEF entered
    <3>3. DOMAIN wire' = 1..Len(wire') /\ DOMAIN before = 1..Len(before)
      BY <1>9
    <3>4. ASSUME NEW i \in DOMAIN wire', i \notin DOMAIN before PROVE wire'[i] \in {told, list, news}
      <4>1. i - Len(before) \in 1..3 /\ Len(before) + (i - Len(before)) = i
        BY <3>1, <3>3, <3>4
      <4>2. wire'[i] = entered[i - Len(before)]
        BY <3>1, <4>1
      <4> QED
        BY <3>2, <4>1, <4>2
    <3>5. Len(before) + 3 \in DOMAIN wire' /\ wire'[Len(before) + 3] = news
      BY <3>1, <3>2, <3>3
    <3> QED
      BY <3>1, <3>3, <3>4, <3>5
  <2>8. \A i \in DOMAIN wire' : Hears(wire'[i], d) => wire'[i].kind # "CHANNEL"
    <3> SUFFICES ASSUME NEW i \in DOMAIN wire', Hears(wire'[i], d) PROVE wire'[i].kind # "CHANNEL"
      OBVIOUS
    <3>1. \/ i \in DOMAIN LeaveMessages(c) /\ wire'[i] = LeaveMessages(c)[i]
          \/ wire'[i] = news
      BY <2>1, <2>6, <2>7
    <3> QED
      BY <1>6, <2>5, <3>1
  <2>9. /\ d \notin stray
        /\ \A i \in DOMAIN wire' : Hears(wire'[i], d) /\ wire'[i].kind \in RoomEvents
                                   => room'[d] \in wire'[i].about
    BY <1>11, <2>8, NothingForeign
  <2>10. Matches(Settled(d), room[d], members)
    BY <1>11, <2>9 DEF WInv, Watching
  <2>11. \A q \in RoomNames, n \in Names :
           members'[q][n] = left[q][n] \/ (n = username[c] /\ members'[q][n] = c)
    BY <1>1, <1>2, <1>3 DEF room_add_user, table_add
  <2>12. Matches(x, room[d], left)
    <3>1. \A i \in DOMAIN LeaveMessages(c) :
            Hears(LeaveMessages(c)[i], d) => room'[d] \in LeaveMessages(c)[i].about
      BY <2>5, <2>6, <2>7, <2>9
    <3> QED
      BY <1>1, <1>11, <1>12, <1>14, <1>17, <2>4, <2>10, <2>11, <3>1, LeaveSeen
  <2>13. Hears(news, d) => room'[d] \in news.about
    BY <1>6, <2>7, <2>9 DEF RoomEvents
  <2>14. news = room_message(members'[r], "USER_JOIN_CHANNEL", username[c], r)
    BY <1>10 DEF news
  <2> HIDE DEF left, joined
  <2>15. Matches(AfterPacket(x, news, d), room[d], members')
    BY <1>1, <1>2, <1>3, <1>10, <1>11, <1>17, <2>4, <2>12, <2>13, <2>14, JoinSeen
  <2> QED
    BY <2>2, <2>3, <2>4, <2>15
<1> QED
  BY <1>16, <1>17

(* Packets about logins, refusals and talk: nothing about who is where.    *)
LEMMA OtherServe ==
  ASSUME IInv, CInv, NEW c \in Users, Serve(c),
         ~LeaveChat(c), \A r \in RoomNames : ~JoinRoom(c, r)
  PROVE  /\ \A i \in DOMAIN wire' : Indifferent(wire'[i])
         /\ UNCHANGED <<members, room>>
<1> DEFINE Plain(p) == wire' = << p >> /\ Indifferent(p) /\ UNCHANGED <<members, room>>
<1>0. ASSUME NEW p, Plain(p)
      PROVE  (\A i \in DOMAIN wire' : Indifferent(wire'[i])) /\ UNCHANGED <<members, room>>
  BY <1>0
<1>1. CASE Refuse(c)
  <2>1. Plain(send_error(c))
    BY <1>1 DEF Refuse, send_error, send_packet, Packet, Indifferent, tables, sessions
  <2> QED
    BY <1>0, <2>1
<1>2. CASE process_SID_CLIENT_INFORMATION(c)
  <2>1. Plain(send_packet(c, "SID_SERVER_INFORMATION", NULL))
    BY <1>2 DEF process_SID_CLIENT_INFORMATION, send_packet, Packet, Indifferent, tables
  <2> QED
    BY <1>0, <2>1
<1>3. ASSUME NEW n, NEW p, process_SID_LOGIN(c, n, p)
      PROVE  (\A i \in DOMAIN wire' : Indifferent(wire'[i])) /\ UNCHANGED <<members, room>>
  <2> DEFINE packet == send_packet(c, LoginStatus(n, p), n)
  <2>1. LoginStatus(n, p) \in LoginResponses
    BY StatusIsLogin
  <2>2. Indifferent(packet)
    BY <2>1 DEF send_packet, Packet, Indifferent, LoginResponses
  <2>3. Plain(packet)
    BY <1>3, <2>2 DEF process_SID_LOGIN
  <2> QED
    BY <1>0, <2>3
<1>4. ASSUME NEW n, NEW p, process_SID_CREATE(c, n, p)
      PROVE  (\A i \in DOMAIN wire' : Indifferent(wire'[i])) /\ UNCHANGED <<members, room>>
  <2> DEFINE packet == send_packet(c, CreateStatus(n), n)
  <2>1. CreateStatus(n) \in CreateResponses
    BY StatusIsLogin
  <2>2. Indifferent(packet)
    BY <2>1 DEF send_packet, Packet, Indifferent, CreateResponses
  <2>3. Plain(packet)
    BY <1>4, <2>2 DEF process_SID_CREATE, tables, sessions
  <2> QED
    BY <1>0, <2>3
<1>5. ASSUME NEW text, Command(c, text)
      PROVE  (\A i \in DOMAIN wire' : Indifferent(wire'[i])) /\ UNCHANGED <<members, room>>
  <2>1. CASE ReplyOnly(c, "ERROR", {})
    <3>1. Plain(Reply(c, "ERROR", {}))
      BY <2>1 DEF ReplyOnly, Reply, send_chat, Packet, Indifferent, tables, sessions
    <3> QED
      BY <1>0, <3>1
  <2>2. CASE Talk(c)
    <3>1. Plain(room_message(members[room[c]], "TALK", username[c], room[c]))
      BY <2>2 DEF Talk, room_message, Packet, Indifferent, tables, sessions
    <3> QED
      BY <1>0, <3>1
  <2> QED
    BY <1>5, <2>1, <2>2, CommandCases
<1> QED
  BY <1>1, <1>2, <1>3, <1>4, <1>5 DEF Serve, Handle

LEMMA ServeWindows ==
  ASSUME RInv, RInv', CInv, LInv, WInv, NEW c \in Users, Serve(c)
  PROVE  WInv'
<1>1. IInv /\ ClientTypes
  BY DEF RInv, LInv
<1>2. wire' \in Seq(Letters)
  BY <1>1, ServerWrites
<1>3. Delivered /\ UNCHANGED <<client, window>>
  BY DEF Serve
<1>4. UNCHANGED net
  BY <1>1, ServeFrame
<1>5. CASE LeaveChat(c)
  BY <1>1, <1>2, <1>3, <1>5, LeaveChatWindows
<1>6. CASE \E r \in RoomNames : JoinRoom(c, r)
  BY <1>1, <1>2, <1>3, <1>6, JoinRoomWindows
<1>7. CASE ~LeaveChat(c) /\ \A r \in RoomNames : ~JoinRoom(c, r)
  <2>1. (\A i \in DOMAIN wire' : Indifferent(wire'[i])) /\ UNCHANGED <<members, room>>
    BY <1>1, <1>7, OtherServe
  <2>2. \A d \in Users : Connected(d)' => Connected(d)
    BY <1>4 DEF Connected, net
  <2> QED
    BY <1>1, <1>2, <1>3, <2>1, <2>2, QuietServe
<1> QED
  BY <1>5, <1>6, <1>7

LEMMA SameWindows ==
  ASSUME WInv, UNCHANGED <<members, room, toClient, window, stray>>,
         \A c \in Users : Running(c)' /\ Connected(c)' => Running(c) /\ Connected(c)
  PROVE  WInv'
<1> SUFFICES ASSUME NEW c \in Users, Watching(c)' PROVE Matches(Settled(c)', room'[c], members')
  BY DEF WInv
<1>1. Watching(c)
  BY DEF Watching
<1>2. Settled(c)' = Settled(c)
  BY DEF Settled
<1>3. Matches(Settled(c), room[c], members)
  BY <1>1 DEF WInv
<1> QED
  BY <1>2, <1>3

(* A short read or a lost connection: the server writes nothing. *)
LEMMA SilentTurnWindows ==
  ASSUME IInv, ClientTypes, NothingSaid, WInv, NEW c \in Users, ServerReadsShort(c) \/ HangsUp(c)
  PROVE  WInv'
<1>1. wire' = << >> /\ Deliver /\ Delivered /\ UNCHANGED <<members, room, window>>
  BY DEF ServerReadsShort, HangsUp, Ignore, CloseOld, CloseNew, Delivered, tables, sessions
<1>2. \A d \in Users : toClient'[d] = toClient[d]
  BY <1>1, NothingWritten
<1>3. \A d \in Users : Running(d)' => Running(d)
  <2>1. UNCHANGED client \/ client' = [client EXCEPT ![c] = "none"]
    BY DEF ServerReadsShort, HangsUp
  <2> QED
    BY <2>1 DEF Running, ClientTypes
<1>4. \A d \in Users : Connected(d)' => Connected(d)
  <2>1. CASE UNCHANGED net
    BY <2>1 DEF Connected, net
  <2>2. CASE CloseOld(c) \/ CloseNew(c)
    <3>1. c \in new_users \cup OldUsers /\ close(c)
      BY <2>2, TurnIsConnected DEF CloseOld, CloseNew
    <3>2. \A d \in Users, f \in Fds : owner'[f] = d => owner[f] = d
      BY <3>1, Closed
    <3> QED
      BY <3>2 DEF Connected
  <2> QED
    BY <2>1, <2>2 DEF ServerReadsShort, HangsUp, Ignore
<1> SUFFICES ASSUME NEW d \in Users, Watching(d)' PROVE Matches(Settled(d)', room'[d], members')
  BY DEF WInv
<1>5. d \notin stray
  <2>1. wire' \in Seq(Letters) /\ DOMAIN wire' = {}
    BY <1>1
  <2> QED
    BY <1>1, <2>1, NothingForeign DEF Watching
<1>6. Settled(d)' = Settled(d)
  BY <1>1, <1>2 DEF Settled
<1>7. Matches(Settled(d), room[d], members)
  BY <1>3, <1>4, <1>5 DEF WInv, Watching
<1> QED
  BY <1>1, <1>6, <1>7

(* The session select accepts is that of the client that waits, which has  *)
(* been told nothing yet.                                                  *)
LEMMA SelectWindows ==
  ASSUME RInv, CallerWaits, NothingSaid, ClientTypes, WInv, do_select
  PROVE  WInv'
<1>1. UNCHANGED <<members, room, toClient, window, stray, client>>
  BY DEF do_select, Select, do_keepalive, tables, sessions
<1>2. CASE UNCHANGED net
  BY <1>1, <1>2, SameWindows DEF net, Running, Connected
<1>3. ASSUME NEW u \in Users, NEW f \in Fds, Accept(u, f), backlog, caller \in new_users' PROVE WInv'
  <2>1. u = caller
    <3>1. caller # NULL /\ state[caller] = NULL
      BY <1>3 DEF CallerWaits
    <3>2. caller \notin new_users
      BY <3>1, NullAssumption DEF RInv, IInv, UsersPartition, States
    <3> QED
      BY <1>3, <3>2 DEF Accept
  <2> SUFFICES ASSUME NEW d \in Users, Watching(d)' PROVE Matches(Settled(d)', room'[d], members')
    BY DEF WInv
  <2>2. Settled(d)' = Settled(d) /\ Running(d) /\ d \notin stray
    BY <1>1 DEF Settled, Watching, Running
  <2>3. CASE d = u
    <3>1. toClient[d] = << >> /\ window[d] = NoWindow
      BY <2>1, <2>3 DEF NothingSaid
    <3>2. window[d] \in Windows
      BY DEF ClientTypes
    <3>3. Settled(d) = NoWindow
      BY <3>1, <3>2, ShownNothing DEF Settled
    <3>4. room[d] = NULL
      <4>1. state[d] = NULL
        BY <1>3, <2>3 DEF Accept, Unallocated
      <4>2. ~InChat(d)
        BY <4>1, NullAssumption DEF InChat, States
      <4> QED
        BY <4>2 DEF RInv, BlankUntilLogin
    <3> QED
      BY <1>1, <2>2, <3>3, <3>4 DEF Matches, NoWindow
  <2>4. CASE d # u
    <3>1. Connected(d)
      BY <1>3, <2>4 DEF Watching, Connected, Accept, RInv, IInv, TypeOK
    <3>2. Matches(Settled(d), room[d], members)
      BY <2>2, <3>1 DEF WInv, Watching
    <3> QED
      BY <1>1, <2>2, <3>2
  <2> QED
    BY <2>3, <2>4
<1> QED
  BY <1>2, <1>3 DEF do_select, Select, do_keepalive

(* What a client reads it no longer has to read. *)
LEMMA ReceiveWindows ==
  ASSUME ClientTypes, WInv, NEW c \in Users, Receive(c)
  PROVE  WInv'
<1>1. /\ UNCHANGED <<members, room, owner, stray>>
      /\ \A d \in Users \ {c} : /\ client'[d] = client[d] /\ toClient'[d] = toClient[d]
                               /\ window'[d] = window[d]
      /\ Running(c)
  BY DEF Receive, Reads, ConnectionClosed, ProcessResponse, process_SID_SERVER_INFORMATION,
       process_SID_LOGIN_RESPONSE, process_SID_CREATE_RESPONSE, process_SID_CHATEVENT,
       process_SID_ERROR, display_error, Running, ClientTypes, vars, tables, sessions, net
<1> SUFFICES ASSUME NEW d \in Users, Watching(d)' PROVE Matches(Settled(d)', room'[d], members')
  BY DEF WInv
<1>2. Connected(d) /\ d \notin stray
  BY <1>1 DEF Watching, Connected
<1>3. CASE d # c
  <2>1. Running(d) /\ Settled(d)' = Settled(d)
    BY <1>1, <1>3 DEF Watching, Running, Settled
  <2> QED
    BY <1>1, <1>2, <2>1 DEF WInv, Watching
<1>4. CASE d = c
  <2>1. Matches(Settled(c), room[c], members)
    BY <1>1, <1>2, <1>4 DEF WInv, Watching
  <2>2. window[c] \in Windows /\ toClient[c] \in Seq(Letters)
    BY DEF ClientTypes
  <2>3. ASSUME NEW kinds, Reads(c, kinds), window'[c] = display_channel_event(window[c], Head(toClient[c]))
        PROVE  Settled(c)' = Settled(c)
    <3>1. toClient[c] # << >> /\ toClient'[c] = Tail(toClient[c])
      BY <2>3 DEF Reads, ClientTypes
    <3>2. Settled(c)' = Shown(display_channel_event(window[c], Head(toClient[c])), Tail(toClient[c]))
      BY <2>3, <3>1 DEF Settled
    <3> QED
      BY <2>2, <3>1, <3>2, ShownHead DEF Settled
  <2>4. ASSUME NEW kinds, Reads(c, kinds), kinds \cap ChatEvents = {}, UNCHANGED window
        PROVE  Settled(c)' = Settled(c)
    <3>1. Head(toClient[c]).kind \notin ChatEvents
      BY <2>4 DEF Reads
    <3>2. Indifferent(Head(toClient[c]))
      BY <3>1 DEF Indifferent, ChatEvents, RoomEvents
    <3>3. window'[c] = display_channel_event(window[c], Head(toClient[c]))
      BY <2>4, <3>2, NotShown
    <3> QED
      BY <2>3, <2>4, <3>3
  <2>5. CASE process_SID_CHATEVENT(c)
    <3>1. Reads(c, ChatEvents) /\ window'[c] = display_channel_event(window[c], Head(toClient[c]))
      BY <2>5 DEF process_SID_CHATEVENT, ClientTypes
    <3> QED
      BY <1>1, <1>4, <2>1, <2>3, <3>1
  <2>6. CASE ConnectionClosed(c)
    BY <1>4, <2>6 DEF ConnectionClosed, HasLink, Watching, Connected, vars, net
  <2>7. CASE \E kinds : Reads(c, kinds) /\ kinds \cap ChatEvents = {} /\ UNCHANGED window
    BY <1>1, <1>4, <2>1, <2>4, <2>7
  <2>8. \/ process_SID_CHATEVENT(c) \/ ConnectionClosed(c)
        \/ \E kinds : Reads(c, kinds) /\ kinds \cap ChatEvents = {} /\ UNCHANGED window
    BY DEF Receive, ProcessResponse, process_SID_SERVER_INFORMATION, process_SID_LOGIN_RESPONSE,
         process_SID_CREATE_RESPONSE, process_SID_ERROR, ChatEvents, RoomEvents, LoginResponses,
         CreateResponses
  <2> QED
    BY <2>5, <2>6, <2>7, <2>8
<1> QED
  BY <1>3, <1>4

(* The program ends. *)
LEMMA EndsWindows ==
  ASSUME ClientTypes, WInv, NEW c \in Users, Ends(c)
  PROVE  WInv'
<1>1. /\ UNCHANGED <<members, room, owner>> /\ ~Running(c)'
      /\ \A d \in Users \ {c} : /\ client'[d] = client[d] /\ toClient'[d] = toClient[d]
                               /\ window'[d] = window[d] /\ (d \in stray' <=> d \in stray)
  BY DEF Ends, Running, ClientTypes, vars, tables, sessions, net
<1> SUFFICES ASSUME NEW d \in Users, Watching(d)' PROVE Matches(Settled(d)', room'[d], members')
  BY DEF WInv
<1>2. d # c
  BY <1>1 DEF Watching
<1>3. Watching(d) /\ Settled(d)' = Settled(d)
  BY <1>1, <1>2 DEF Watching, Running, Connected, Settled
<1> QED
  BY <1>1, <1>3 DEF WInv

LEMMA StartWindows ==
  ASSUME RInv, ClientTypes, WInv, NEW c \in Users, NEW l \in Logins, Start(c, l)
  PROVE  WInv'
<1>1. /\ UNCHANGED <<members, room, owner, toClient, window, stray>>
      /\ c \in Unallocated /\ client' = [client EXCEPT ![c] = "running"]
  BY DEF Start, Connect, tables, sessions, net
<1>2. ~Connected(c)
  <2>1. state[c] = NULL
    BY <1>1 DEF Unallocated
  <2>2. c \notin new_users \cup OldUsers
    BY <2>1, NullAssumption DEF RInv, IInv, UsersPartition, InChat, States
  <2> QED
    BY <2>2 DEF RInv, IInv, UsersPartition
<1> QED
  BY <1>1, <1>2, SameWindows DEF Running, Connected, ClientTypes

LEMMA WInvStep ==
  ASSUME RInv, RInv', CInv, LInv, WInv, [Next_Chat]_<<vars, cvars>>
  PROVE  WInv'
<1>1. IInv /\ ClientTypes /\ CallerWaits /\ NothingSaid
  BY DEF RInv, LInv
<1>2. ASSUME NEW c \in Users, Serve(c) PROVE WInv'
  BY <1>2, ServeWindows
<1>3. ASSUME NEW c \in Users, ServerReadsShort(c) \/ HangsUp(c) PROVE WInv'
  BY <1>1, <1>3, SilentTurnWindows
<1>4. CASE do_select
  BY <1>1, <1>4, SelectWindows
<1>5. ASSUME NEW c \in Users, Receive(c) PROVE WInv'
  BY <1>1, <1>5, ReceiveWindows
<1>6. ASSUME NEW c \in Users, PressAnyKey(c) \/ Quit(c) PROVE WInv'
  BY <1>1, <1>6, EndsWindows DEF PressAnyKey, Quit
<1>7. ASSUME NEW c \in Users, NEW l \in Logins, Start(c, l) PROVE WInv'
  BY <1>1, <1>7, StartWindows
<1>8. CASE ServerDies
  <2>1. \A c \in Users : ~Connected(c)'
    BY <1>8, NullAssumption DEF ServerDies, Die, Connected
  <2> QED
    BY <2>1 DEF WInv, Watching
<1>9. ASSUME NEW c \in Users, Arrives(c) PROVE WInv'
  BY <1>9, SameWindows DEF Arrives, Arrive, cvars, tables, sessions, net, Running, Connected
<1>10. ASSUME NEW c \in Users, NEW keys \in Bursts, Type(c, keys) PROVE WInv'
  BY <1>10, SameWindows DEF Type, vars, tables, sessions, net, Running, Connected
<1>11. CASE UNCHANGED <<vars, cvars>>
  BY <1>11, SameWindows DEF vars, cvars, tables, sessions, net, Running, Connected
<1> QED
  BY <1>2, <1>3, <1>4, <1>5, <1>6, <1>7, <1>8, <1>9, <1>10, <1>11
     DEF Next_Chat, ServerActs, Clients

LEMMA InitWInv == Init_Chat => WInv
BY DEF Init_Chat, Clients, WInv, Watching, Running

(* When a client has read all that is on its way it shows the channel it   *)
(* is in, and exactly the names in the table of that room.                 *)
THEOREM WindowsFollow == ChatSpec => []WindowFollowsRoom
<1>1. RInv /\ RInv' /\ CInv /\ LInv /\ WInv /\ [Next_Chat]_<<vars, cvars>> => WInv'
  BY WInvStep
<1>2. ChatSpec => []WInv
  BY <1>1, InitWInv, LoginsInvariance, PTL DEF ChatSpec
<1> QED
  BY <1>2, MatchSuffices, PTL
=============================================================================
