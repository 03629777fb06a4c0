----------------------------- MODULE ChatProofs -----------------------------
(***************************************************************************)
(* The server among its clients: each step of Chat is a step of Server or  *)
(* one the server does not notice, so that what is proved of Server holds  *)
(* whatever the clients do.  Then the clients: what their variables hold,  *)
(* the turns that the packets of a login take, and what the keys amount    *)
(* to, whatever is typed.                                                  *)
(***************************************************************************)
EXTENDS Chat, ServerProofs, Recursion, FiniteSetTheorems

(* Whatever the line, a command is one of these. *)
LEMMA CommandCases ==
  ASSUME NEW c \in Users, NEW text, Command(c, text)
  PROVE  \/ LeaveChat(c)
         \/ \E r \in RoomNames \ RefusedRooms : JoinRoom(c, r)
         \/ ReplyOnly(c, "ERROR", {})
         \/ Talk(c)
<1>1. CASE NamesRoom(text, RoomNames \ RefusedRooms) /\ JoinRoom(c, text[2])
  <2>1. text[2] \in RoomNames \ RefusedRooms
    BY <1>1 DEF NamesRoom
  <2> QED
    BY <1>1, <2>1
<1>2. CASE ~(NamesRoom(text, RoomNames \ RefusedRooms) /\ JoinRoom(c, text[2]))
  BY <1>2 DEF Command
<1> QED
  BY <1>1, <1>2

LEMMA CommandIsPacket ==
  ASSUME NEW c \in Users, NEW text, Command(c, text)
  PROVE  process_next_packet(c)
<1>1. CASE LeaveChat(c)
  BY <1>1 DEF process_next_packet, process_SID_CHATCOMMAND, process_command_join
<1>2. CASE \E r \in RoomNames \ RefusedRooms : JoinRoom(c, r)
  BY <1>2 DEF process_next_packet, process_SID_CHATCOMMAND, process_command_join
<1>3. CASE ReplyOnly(c, "ERROR", {})
  BY <1>3 DEF process_next_packet, process_SID_CHATCOMMAND
<1>4. CASE Talk(c)
  BY <1>4 DEF process_next_packet, process_SID_CHATCOMMAND
<1> QED
  BY <1>1, <1>2, <1>3, <1>4, CommandCases

(* A client that is there, or has left packets behind, entered something   *)
(* at the prompts.                                                         *)
Prompted == \A c \in Users : client[c] # "none" \/ toServer[c] # << >> => login[c] \in Logins

(* A login is handled with the name and the password of its client, so     *)
(* every client with a packet under way must have them.                    *)
CInv ==
  /\ DOMAIN client = Users /\ DOMAIN login = Users /\ DOMAIN toServer = Users
  /\ Prompted

LEMMA InitCInv == Init_Chat => CInv
BY DEF Init_Chat, CInv, Prompted, Clients

(* c wrote packets, or had one read or thrown away. *)
LEMMA OneQueue ==
  ASSUME CInv, UNCHANGED <<client, login>>, NEW c \in Users, NEW queue,
         toServer' = [toServer EXCEPT ![c] = queue],
         client[c] # "none" \/ toServer[c] # << >>
  PROVE  CInv'
BY DEF CInv, Prompted

LEMMA ClientKeepsCInv ==
  ASSUME CInv, NEW c \in Users,
         \/ Arrives(c) \/ ServerReadsShort(c) \/ Receive(c) \/ PressAnyKey(c) \/ Quit(c)
         \/ \E l \in Logins : Start(c, l)
         \/ \E keys \in Bursts : Type(c, keys)
  PROVE  CInv'
<1>1. CASE UNCHANGED <<client, login, toServer>>
  BY <1>1 DEF CInv, Prompted
<1>2. CASE ServerReadsShort(c)
  BY <1>2, OneQueue DEF ServerReadsShort
<1>3. ASSUME NEW packets, Write(c, packets), Running(c), UNCHANGED <<client, login>> PROVE CInv'
  BY <1>3, OneQueue DEF Write, Running
<1>4. ASSUME UNCHANGED <<login, toServer>>, NEW mode, client' = [client EXCEPT ![c] = mode],
             client[c] # "none"
      PROVE  CInv'
  BY <1>4 DEF CInv, Prompted
<1>5. CASE Receive(c)
  <2>1. CASE ProcessResponse(c, LoginResponses) \/ ProcessResponse(c, CreateResponses)
    BY <1>3, <1>4, <2>1 DEF ProcessResponse, Reads, Running, display_error
  <2>2. CASE process_SID_SERVER_INFORMATION(c)
    BY <1>3, <2>2 DEF process_SID_SERVER_INFORMATION, Reads
  <2>3. CASE ConnectionClosed(c)
    BY <1>4, <2>3 DEF ConnectionClosed, display_error, Running
  <2> QED
    BY <1>1, <1>5, <2>1, <2>2, <2>3
       DEF Receive, Reads, process_SID_LOGIN_RESPONSE, process_SID_CREATE_RESPONSE,
           process_SID_CHATEVENT, process_SID_ERROR
<1>6. CASE Ends(c) /\ client[c] # "none"
  BY <1>4, <1>6 DEF Ends
<1>7. ASSUME NEW l \in Logins, Start(c, l) PROVE CInv'
  BY <1>7 DEF Start, CInv, Prompted
<1>8. ASSUME NEW keys, Type(c, keys) PROVE CInv'
  BY <1>3, <1>8 DEF Type
<1> QED
  BY <1>1, <1>2, <1>5, <1>6, <1>7, <1>8 DEF Arrives, cvars, PressAnyKey, Quit, Running

LEMMA CInvStep == CInv /\ [Next_Chat]_<<vars, cvars>> => CInv'
<1> SUFFICES ASSUME CInv, [Next_Chat]_<<vars, cvars>> PROVE CInv'
  OBVIOUS
<1>1. CASE UNCHANGED <<client, login, toServer>>
  BY <1>1 DEF CInv, Prompted
<1>2. ASSUME NEW c \in Users, Serve(c) PROVE CInv'
  BY <1>2, OneQueue DEF Serve
<1>3. ASSUME NEW c \in Users, HangsUp(c) PROVE CInv'
  BY <1>3 DEF HangsUp, CInv, Prompted
<1>4. CASE ServerDies
  BY <1>4 DEF ServerDies, CInv, Prompted, Clients, Open
<1> QED
  BY <1>1, <1>2, <1>3, <1>4, ClientKeepsCInv
     DEF Next_Chat, ServerActs, do_select, Clients, cvars

-----------------------------------------------------------------------------
LEMMA ServeIsPacket ==
  ASSUME CInv, NEW c \in Users, Serve(c)
  PROVE  process_next_packet(c)
<1>1. login[c].name \in Names /\ login[c].password \in Passwords
  <2>1. login[c] \in Logins
    BY DEF Serve, CInv, Prompted
  <2> QED
    BY <2>1, LoginsAssumption
<1>2. Handle(c, Head(toServer[c]))
  BY DEF Serve
<1> QED
  BY <1>1, <1>2, CommandIsPacket DEF Handle, process_next_packet

LEMMA ServerNotices == ASSUME CInv, Next_Chat PROVE [Next]_vars
<1>1. ASSUME NEW c \in Users, process_next_packet(c) PROVE Next
  BY <1>1 DEF Next, ServerStep
<1>2. ASSUME NEW c \in Users, Serve(c) PROVE Next
  BY <1>1, <1>2, ServeIsPacket
<1>3. ASSUME NEW c \in Users, HangsUp(c) \/ ServerReadsShort(c) PROVE Next
  BY <1>1, <1>3 DEF HangsUp, ServerReadsShort, process_next_packet
<1>4. CASE do_select \/ ServerDies
  BY <1>4 DEF do_select, ServerDies, Next, ServerStep
<1>5. ASSUME NEW c \in Users, Arrives(c) \/ \E l \in Logins : Start(c, l) PROVE Next
  BY <1>5 DEF Arrives, Start, Next
<1>6. ASSUME NEW c \in Users, Receive(c) PROVE UNCHANGED vars
  BY <1>6 DEF Receive, Reads, ConnectionClosed, ProcessResponse, process_SID_SERVER_INFORMATION,
       process_SID_LOGIN_RESPONSE, process_SID_CREATE_RESPONSE, process_SID_CHATEVENT,
       process_SID_ERROR
<1>7. ASSUME NEW c \in Users, PressAnyKey(c) \/ Quit(c) \/ \E keys \in Bursts : Type(c, keys)
      PROVE  UNCHANGED vars
  BY <1>7 DEF PressAnyKey, Quit, Ends, Type
<1> QED
  BY <1>2, <1>3, <1>4, <1>5, <1>6, <1>7 DEF Next_Chat, ServerActs, Clients

(* Whatever the clients do, and whatever gets lost or stuck between them   *)
(* and the server, the server does nothing but what Server says.           *)
THEOREM ChatImplementsServer == ChatSpec => Spec
<1>1. Init_Chat => Init
  BY DEF Init_Chat
<1>2. CInv /\ [Next_Chat]_<<vars, cvars>> => [Next]_vars
  BY ServerNotices
<1> QED
  BY <1>1, <1>2, InitCInv, CInvStep, PTL DEF ChatSpec, Spec

(* The chat as a whole: to its users it is what Presence says, and the     *)
(* rooms' tables agree with the sessions.                                  *)
THEOREM ChatImplementsPresence == ChatSpec => ImplementsPresence /\ []RoomsMatchSessions
BY ChatImplementsServer, ServerImplementsPresence, RoomsMatch, PTL

-----------------------------------------------------------------------------

(* Queues *)
LEMMA HeadAndTail ==
  ASSUME NEW S, NEW q \in Seq(S), q # << >>
  PROVE  /\ Len(q) \in Nat /\ Len(q) >= 1
         /\ Head(q) = q[1] /\ q[1] \in S
         /\ Tail(q) \in Seq(S) /\ Len(Tail(q)) = Len(q) - 1
         /\ \A i \in 1..(Len(q) - 1) : Tail(q)[i] = q[i + 1]
OBVIOUS

LEMMA Joined ==
  ASSUME NEW S, NEW q \in Seq(S), NEW s \in Seq(S)
  PROVE  /\ q \o s \in Seq(S) /\ Len(q \o s) = Len(q) + Len(s)
         /\ Len(q) \in Nat /\ Len(s) \in Nat
         /\ \A i \in 1..Len(q) : (q \o s)[i] = q[i]
         /\ \A i \in 1..Len(s) : (q \o s)[Len(q) + i] = s[i]
OBVIOUS

(* The packets of the last step that go to c's descriptor. *)
Reaching(c) == {wire'[j] : j \in {i \in DOMAIN wire' : \E s \in wire'[i].to : LeadsTo(s, c)}}

LEMMA CopiesReach ==
  ASSUME NEW c, NEW T, NEW p, p.to \subseteq Users,
         (\E s \in p.to : LeadsTo(s, c)) => p \in T
  PROVE  Copies(p, c) \in Seq(T)
<1> DEFINE To == {s \in p.to : LeadsTo(s, c)}
<1>1. IsFiniteSet(To)
  BY UsersAssumption, FS_Subset
<1>2. Cardinality(To) \in Nat /\ (Cardinality(To) = 0 <=> To = {})
  BY <1>1, FS_CardinalityType, FS_EmptySet
<1> DEFINE All == [i \in 1..Cardinality(To) |-> p]
<1>0. Copies(p, c) = << >> \/ Copies(p, c) = All
  BY DEF Copies
<1>5. << >> \in Seq(T)
  OBVIOUS
<1> HIDE DEF All
<1>3. CASE To = {}
  <2>1. 1..Cardinality(To) = {}
    BY <1>2, <1>3
  <2>2. All = << >>
    BY <2>1 DEF All
  <2> QED
    BY <1>0, <1>5, <2>2
<1>4. CASE To # {}
  <2>1. p \in T
    BY <1>4
  <2> HIDE DEF To
  <2>2. All \in Seq(T)
    BY <1>2, <2>1 DEF All
  <2> QED
    BY <1>0, <1>5, <2>2
<1> QED
  BY <1>3, <1>4

(* The recursion in Received, unfolded. *)
LEMMA ReceivedUpto ==
  ASSUME NEW c, wire' \in Seq(Packets)
  PROVE  \E f : /\ Received(c) = f[Len(wire')]
                /\ f[0] = << >>
                /\ \A i \in 1..Len(wire') : f[i] = f[i - 1] \o Copies(wire'[i], c)
                /\ \A i \in 0..Len(wire') : f[i] \in Seq(Reaching(c))
<1> DEFINE n == Len(wire')
           T == Seq(Reaching(c))
           step == [i \in 1..n |-> [x \in T |-> x \o Copies(wire'[i], c)]]
           Unfolds(g) == g = [i \in 0..n |-> IF i = 0 THEN << >> ELSE g[i - 1] \o Copies(wire'[i], c)]
           f == CHOOSE g : Unfolds(g)
<1>1. n \in Nat
  OBVIOUS
<1>2. \A i \in 1..n : Copies(wire'[i], c) \in T
  <2> TAKE i \in 1..n
  <2>1. wire'[i] \in Packets
    OBVIOUS
  <2>2. wire'[i].to \subseteq Users
    BY <2>1 DEF Packets
  <2>3. (\E s \in wire'[i].to : LeadsTo(s, c)) => wire'[i] \in Reaching(c)
    BY DEF Reaching
  <2> QED
    BY <2>2, <2>3, CopiesReach
<1>3. step \in Steps(n, T)
  BY <1>2 DEF Steps
<1>4. << >> \in T
  OBVIOUS
<1> HIDE DEF T
<1>6. PICK g : Runs(g, n, T, << >>, step)
  <2> HIDE DEF n, step
  <2> QED
    BY <1>1, <1>3, <1>4, RecursiveFunction
<1>7. Unfolds(g)
  <2>0. g \in [0..n -> T] /\ g[0] = << >> /\ \A i \in 1..n : g[i] = step[i][g[i - 1]]
    BY <1>6 DEF Runs
  <2>1. \A i \in 0..n : i # 0 => i \in 1..n /\ g[i - 1] \in T
    BY <1>1, <2>0
  <2>2. \A i \in 0..n : i # 0 => step[i][g[i - 1]] = g[i - 1] \o Copies(wire'[i], c)
    BY <2>1
  <2> HIDE DEF step, n
  <2>3. \A i \in 0..n : g[i] = IF i = 0 THEN << >> ELSE g[i - 1] \o Copies(wire'[i], c)
    BY <2>0, <2>1, <2>2
  <2> QED
    BY <2>0, <2>3
<1> HIDE DEF step
<1>8. Unfolds(f)
  BY <1>7
<1>9. Received(c) = f[n]
  BY DEF Received
<1> HIDE DEF f
<1>10. /\ f[0] = << >>
       /\ \A i \in 1..n : f[i] = f[i - 1] \o Copies(wire'[i], c)
  BY <1>1, <1>8
<1>11. ASSUME NEW i \in 1..n, f[i - 1] \in T PROVE f[i] \in T
  <2>1. f[i] = f[i - 1] \o Copies(wire'[i], c) /\ Copies(wire'[i], c) \in T
    BY <1>2, <1>10
  <2> QED
    BY <1>11, <2>1 DEF T
<1>12. \A i \in 0..n : f[i] \in T
  <2> HIDE DEF n
  <2>1. f[0] \in T
    BY <1>4, <1>10
  <2> QED
    BY <1>1, <1>11, <2>1, PassedOn
<1> QED
  BY <1>9, <1>10, <1>12 DEF T

-----------------------------------------------------------------------------
(* The line being typed *)
TypedLines == {l \in [text : Seq(Words), at : 0..(MAX_MESSAGE - 1), top : 0..MAX_MESSAGE,
                  sent : Seq(Seq(Words))] :
            l.at <= Len(l.text)}

LEMMA LineFields ==
  ASSUME NEW l \in TypedLines
  PROVE  /\ l.text \in Seq(Words) /\ l.at \in 0..(MAX_MESSAGE - 1) /\ l.top \in 0..MAX_MESSAGE
         /\ l.sent \in Seq(Seq(Words)) /\ l.at <= Len(l.text)
         /\ l = Line(l.text, l.at, l.top, l.sent)
  BY DEF TypedLines, Line

LEMMA LineMade ==
  ASSUME NEW text \in Seq(Words), NEW at \in 0..(MAX_MESSAGE - 1), NEW top \in 0..MAX_MESSAGE,
         NEW sent \in Seq(Seq(Words)), at <= Len(text)
  PROVE  Line(text, at, top, sent) \in TypedLines
  BY DEF TypedLines, Line

(* What Store and HandOut make of a line. *)
LEMMA StoredLine ==
  ASSUME NEW l \in TypedLines, NEW text \in Seq(Words), Len(text) \in 0..MAX_MESSAGE
  PROVE  /\ Store(l, text).text = text /\ Store(l, text).at = Len(text)
         /\ Store(l, text).sent = l.sent
         /\ Len(text) < MAX_MESSAGE => Store(l, text) \in TypedLines
         /\ HandOut(Store(l, text)) \in TypedLines
         /\ HandOut(Store(l, text)).text = text /\ HandOut(Store(l, text)).at = 0
         /\ HandOut(Store(l, text)).sent = Append(l.sent, text)
<1> DEFINE top == IF Len(text) > l.top THEN Len(text) ELSE l.top
<1>1. /\ l.top \in 0..MAX_MESSAGE /\ l.sent \in Seq(Seq(Words))
      /\ l = Line(l.text, l.at, l.top, l.sent)
  BY LineFields
<1>2. top \in 0..MAX_MESSAGE
  BY <1>1
<1>3. Store(l, text) = Line(text, Len(text), top, l.sent)
  BY DEF Store
<1> HIDE DEF top
<1>4. HandOut(Store(l, text)) = Line(text, 0, top, Append(l.sent, text))
  BY <1>3 DEF HandOut, Line
<1>5. Len(text) < MAX_MESSAGE => Line(text, Len(text), top, l.sent) \in TypedLines
  <2>1. Len(text) < MAX_MESSAGE => Len(text) \in 0..(MAX_MESSAGE - 1) /\ Len(text) <= Len(text)
    BY RoomAssumption
  <2> QED
    BY <1>1, <1>2, <2>1, LineMade
<1>6. Line(text, 0, top, Append(l.sent, text)) \in TypedLines
  <2>1. Append(l.sent, text) \in Seq(Seq(Words)) /\ 0 \in 0..(MAX_MESSAGE - 1) /\ 0 <= Len(text)
    BY <1>1, RoomAssumption
  <2> QED
    BY <1>2, <2>1, LineMade
<1>7. /\ Line(text, Len(text), top, l.sent).text = text
      /\ Line(text, Len(text), top, l.sent).at = Len(text)
      /\ Line(text, Len(text), top, l.sent).sent = l.sent
      /\ Line(text, 0, top, Append(l.sent, text)).text = text
      /\ Line(text, 0, top, Append(l.sent, text)).at = 0
      /\ Line(text, 0, top, Append(l.sent, text)).sent = Append(l.sent, text)
  BY DEF Line
<1> QED
  BY <1>3, <1>4, <1>5, <1>6, <1>7

LEMMA HandedOutLine ==
  ASSUME NEW l \in TypedLines
  PROVE  /\ HandOut(l) \in TypedLines
         /\ HandOut(l).text = l.text /\ HandOut(l).at = 0
         /\ HandOut(l).sent = Append(l.sent, l.text)
<1>1. /\ l.text \in Seq(Words) /\ l.top \in 0..MAX_MESSAGE /\ l.sent \in Seq(Seq(Words))
      /\ l = Line(l.text, l.at, l.top, l.sent)
  BY LineFields
<1>2. HandOut(l) = Line(l.text, 0, l.top, Append(l.sent, l.text))
  BY DEF HandOut
<1>3. Line(l.text, 0, l.top, Append(l.sent, l.text)) \in TypedLines
  <2>1. Append(l.sent, l.text) \in Seq(Seq(Words)) /\ 0 \in 0..(MAX_MESSAGE - 1) /\ 0 <= Len(l.text)
    BY <1>1, RoomAssumption
  <2> QED
    BY <1>1, <2>1, LineMade
<1> QED
  BY <1>2, <1>3 DEF Line

(* The texts that backspace and a word leave. *)
LEMMA TextsTyped ==
  ASSUME NEW l \in TypedLines
  PROVE  /\ l.at # 0 => /\ SubSeq(l.text, 1, l.at - 1) \in Seq(Words)
                        /\ Len(SubSeq(l.text, 1, l.at - 1)) = l.at - 1
         /\ \A key \in Words : /\ Append(SubSeq(l.text, 1, l.at), key) \in Seq(Words)
                               /\ Len(Append(SubSeq(l.text, 1, l.at), key)) = l.at + 1
<1>1. l.text \in Seq(Words) /\ l.at \in 0..(MAX_MESSAGE - 1) /\ l.at <= Len(l.text)
  BY LineFields
<1>2. l.at \in Nat
  BY <1>1, RoomAssumption
<1> DEFINE d == l.at
           old == l.text
           kept == SubSeq(old, 1, d)
<1>3. d \in Nat /\ old \in Seq(Words) /\ d <= Len(old)
  BY <1>1, <1>2
<1> HIDE DEF d, old
<1>4. d # 0 => SubSeq(old, 1, d - 1) \in Seq(Words) /\ Len(SubSeq(old, 1, d - 1)) = d - 1
  BY <1>3
<1>5. kept \in Seq(Words) /\ Len(kept) = d
  BY <1>3
<1> HIDE DEF kept
<1>6. \A key \in Words : Append(kept, key) \in Seq(Words) /\ Len(Append(kept, key)) = d + 1
  BY <1>5
<1> QED
  BY <1>4, <1>6 DEF d, old, kept

LEMMA KeyStaysInside ==
  ASSUME NEW l \in TypedLines, NEW key \in Keys
  PROVE  read_next(l, key) \in TypedLines
<1>1. l.at \in 0..(MAX_MESSAGE - 1) /\ MAX_MESSAGE \in Nat
  BY LineFields, RoomAssumption
<1>2. CASE key = ENTER
  BY <1>2, HandedOutLine DEF read_next, PressEnter
<1>3. CASE key = BACKSPACE
  <2>1. CASE l.at = 0
    BY <1>3, <2>1, KeysAssumption DEF read_next, PressBackspace
  <2>2. CASE l.at # 0
    <3> DEFINE text == SubSeq(l.text, 1, l.at - 1)
    <3>1. text \in Seq(Words) /\ Len(text) \in 0..MAX_MESSAGE /\ Len(text) < MAX_MESSAGE
      BY <1>1, <2>2, TextsTyped
    <3>2. read_next(l, key) = Store(l, text)
      BY <1>3, <2>2, KeysAssumption DEF read_next, PressBackspace
    <3> HIDE DEF text
    <3> QED
      BY <3>1, <3>2, StoredLine
  <2> QED
    BY <2>1, <2>2
<1>4. CASE key \in Words
  <2> DEFINE text == Append(SubSeq(l.text, 1, l.at), key)
  <2>1. text \in Seq(Words) /\ Len(text) \in 0..MAX_MESSAGE
    BY <1>1, <1>4, TextsTyped
  <2>2. read_next(l, key) = IF Store(l, text).at >= MAX_MESSAGE THEN HandOut(Store(l, text))
                            ELSE Store(l, text)
    BY <1>4, KeysAssumption DEF read_next, PressWord
  <2> HIDE DEF text
  <2>3. /\ Store(l, text).at = Len(text) /\ HandOut(Store(l, text)) \in TypedLines
        /\ Len(text) < MAX_MESSAGE => Store(l, text) \in TypedLines
    BY <2>1, StoredLine
  <2>4. ~(Len(text) >= MAX_MESSAGE) => Len(text) < MAX_MESSAGE
    BY <1>1, <2>1
  <2> QED
    BY <2>2, <2>3, <2>4
<1> QED
  BY <1>2, <1>3, <1>4 DEF Keys

(* The lines from one key to the next. *)
Typing(g, l, keys) ==
  /\ g \in [0..Len(keys) -> TypedLines] /\ g[0] = l
  /\ \A i \in 1..Len(keys) : g[i] = read_next(g[i - 1], keys[i])

LEMMA TypingExists ==
  ASSUME NEW l \in TypedLines, NEW keys \in Seq(Keys)
  PROVE  \E g : Typing(g, l, keys) /\ Typed(l, keys) = g[Len(keys)]
<1> DEFINE n == Len(keys)
           step == [i \in 1..n |-> [x \in TypedLines |-> read_next(x, keys[i])]]
           Unfolds(g) == g = [i \in 0..n |-> IF i = 0 THEN l ELSE read_next(g[i - 1], keys[i])]
           f == CHOOSE g : Unfolds(g)
<1>1. n \in Nat /\ \A i \in 1..n : keys[i] \in Keys
  OBVIOUS
<1>2. step \in Steps(n, TypedLines)
  BY <1>1, KeyStaysInside DEF Steps
<1>3. PICK g : Runs(g, n, TypedLines, l, step)
  <2> HIDE DEF n, step
  <2> QED
    BY <1>1, <1>2, RecursiveFunction
<1>4. Unfolds(g)
  <2>1. g \in [0..n -> TypedLines] /\ g[0] = l /\ \A i \in 1..n : g[i] = step[i][g[i - 1]]
    BY <1>3 DEF Runs
  <2>2. \A i \in 0..n : i # 0 => i \in 1..n /\ g[i - 1] \in TypedLines
    BY <1>1, <2>1
  <2>3. \A i \in 0..n : i # 0 => step[i][g[i - 1]] = read_next(g[i - 1], keys[i])
    BY <2>2
  <2> HIDE DEF step, n
  <2>4. \A i \in 0..n : g[i] = IF i = 0 THEN l ELSE read_next(g[i - 1], keys[i])
    BY <2>1, <2>2, <2>3
  <2> QED
    BY <2>1, <2>4
<1> HIDE DEF step
<1>5. Unfolds(f)
  BY <1>4
<1>6. Typed(l, keys) = f[n]
  BY DEF Typed
<1> HIDE DEF f
<1>7. f[0] = l /\ \A i \in 1..n : f[i] = read_next(f[i - 1], keys[i])
  BY <1>1, <1>5
<1>8. ASSUME NEW i \in 1..n, f[i - 1] \in TypedLines PROVE f[i] \in TypedLines
  BY <1>1, <1>7, <1>8, KeyStaysInside
<1>9. \A i \in 0..n : f[i] \in TypedLines
  <2> HIDE DEF n
  <2> QED
    BY <1>1, <1>7, <1>8, PassedOn
<1>10. f \in [0..n -> TypedLines]
  BY <1>5, <1>9
<1> QED
  BY <1>6, <1>7, <1>10 DEF Typing

LEMMA TypingStaysInside ==
  ASSUME NEW l \in TypedLines, NEW keys \in Seq(Keys)
  PROVE  Typed(l, keys) \in TypedLines
<1>1. PICK g : Typing(g, l, keys) /\ Typed(l, keys) = g[Len(keys)]
  BY TypingExists
<1>2. Len(keys) \in 0..Len(keys)
  OBVIOUS
<1> QED
  BY <1>1, <1>2 DEF Typing

-----------------------------------------------------------------------------
(* What the packets of each kind carry, as far as the display looks.       *)
Legible(p) ==
  /\ p.kind \in {"USER_JOIN_CHANNEL", "USER_LEAVE_CHANNEL", "CHANNEL"} => p.who \in Names
  /\ p.kind = "USER_IN_CHANNEL" => p.about \subseteq Names
  /\ p.kind = "CHANNEL" => p.about \subseteq RoomNames

Letters == {p \in Packets : Legible(p)}
News    == {p \in Letters : p.kind \notin LoginKinds}
Windows == [users : SUBSET Names, shown : SUBSET Names, channel : RoomNames \cup {NULL}]

LEMMA DisplayInside ==
  ASSUME NEW w \in Windows, NEW p \in Letters
  PROVE  display_channel_event(w, p) \in Windows
<1>1. w.users \in SUBSET Names /\ w.shown \in SUBSET Names /\ w.channel \in RoomNames \cup {NULL}
  BY DEF Windows
<1>2. ASSUME NEW users \in SUBSET Names PROVE update_userlist(w, users) \in Windows
  BY DEF update_userlist, Windows
<1>3. Legible(p)
  BY DEF Letters
<1>4. CASE p.kind = "CHANNEL"
  <2> DEFINE channel == IF p.about = {} THEN NULL ELSE CHOOSE r \in p.about : TRUE
  <2>1. p.who \in Names /\ p.about \subseteq RoomNames
    BY <1>3, <1>4 DEF Legible
  <2>2. channel \in RoomNames \cup {NULL}
    BY <2>1
  <2> HIDE DEF channel
  <2>3. [users |-> {p.who}, shown |-> {}, channel |-> channel] \in Windows
    BY <2>1, <2>2 DEF Windows
  <2> QED
    BY <1>4, <2>3 DEF display_channel_event, NewChannel, channel
<1>5. CASE p.kind = "USER_JOIN_CHANNEL"
  BY <1>1, <1>2, <1>3, <1>5 DEF display_channel_event, Legible
<1>6. CASE p.kind = "USER_IN_CHANNEL"
  BY <1>1, <1>2, <1>3, <1>6 DEF display_channel_event, Legible
<1>7. CASE p.kind = "USER_LEAVE_CHANNEL"
  BY <1>1, <1>2, <1>7 DEF display_channel_event
<1> QED
  BY <1>4, <1>5, <1>6, <1>7 DEF display_channel_event

-----------------------------------------------------------------------------
(* What the server writes *)
LEMMA NewsFromRoom ==
  ASSUME NEW t \in [Names -> Users \cup {NULL}], NEW kind \in RoomEvents,
         NEW from \in Names, NEW r \in RoomNames
  PROVE  room_message(t, kind, from, r) \in News
<1>1. room_message(t, kind, from, r) \in Packets
  BY BroadcastTyped
<1>2. kind \notin LoginKinds /\ kind # "CHANNEL" /\ kind # "USER_IN_CHANNEL"
  BY DEF RoomEvents, LoginKinds, LoginResponses, CreateResponses
<1> QED
  BY <1>1, <1>2 DEF News, Letters, Legible, room_message, Packet

LEMMA NewsToSender ==
  ASSUME IInv, NEW u \in Users, Commanding(u), NEW kind \in {"INFO", "ERROR", "CHANNEL"},
         NEW about \in SUBSET RoomNames
  PROVE  Reply(u, kind, about) \in News
<1>1. kind \in Kinds /\ about \in SUBSET (Names \cup RoomNames)
  BY DEF Kinds, ChatEvents
<1>2. Reply(u, kind, about) \in Packets
  BY <1>1, ReplyTyped
<1>3. kind \notin LoginKinds
  BY DEF LoginKinds, LoginResponses, CreateResponses
<1>4. username[u] \in Names
  BY TurnIsConnected, InChatInTable DEF Commanding
<1> QED
  BY <1>2, <1>3, <1>4 DEF News, Letters, Legible, Reply, send_chat, Packet

LEMMA NewsOfLeaving ==
  ASSUME IInv, NEW u \in Users, Commanding(u)
  PROVE  LeaveMessages(u) \in Seq(News)
<1>1. CASE room[u] \in rooms
  <2>1. room[u] \in RoomNames /\ username[u] \in Names
    BY <1>1, TurnIsConnected, InChatInTable DEF Commanding, IInv, TypeOK
  <2>2. AfterLeaving(u)[room[u]] \in [Names -> Users \cup {NULL}]
    BY <2>1, LeavingTyped
  <2>3. room_message(AfterLeaving(u)[room[u]], "USER_LEAVE_CHANNEL", username[u], room[u]) \in News
    BY <2>1, <2>2, NewsFromRoom DEF RoomEvents
  <2> QED
    BY <1>1, <2>3 DEF LeaveMessages
<1>2. CASE room[u] \notin rooms
  BY <1>2 DEF LeaveMessages
<1> QED
  BY <1>1, <1>2

LEMMA NewsOfCommand ==
  ASSUME IInv, NEW c \in Users, NEW text, Command(c, text)
  PROVE  wire' \in Seq(News)
<1>1. Commanding(c)
  BY CommandCases DEF LeaveChat, ReplyOnly, JoinRoom, Talk
<1>2. CASE LeaveChat(c)
  <2>1. Reply(c, "INFO", {}) \in News /\ Reply(c, "CHANNEL", {}) \in News
    BY <1>1, NewsToSender
  <2>2. << Reply(c, "INFO", {}), Reply(c, "CHANNEL", {}) >> \in Seq(News)
    BY <2>1
  <2> QED
    BY <1>1, <1>2, <2>2, NewsOfLeaving DEF LeaveChat
<1>3. CASE \E r \in RoomNames \ RefusedRooms : JoinRoom(c, r)
  <2>1. PICK r \in RoomNames : JoinRoom(c, r)
    BY <1>3
  <2> DEFINE left   == AfterLeaving(c)
             joined == room_add_user(left[r], c)
             list   == Packet({c}, "USER_IN_CHANNEL", NULL, get_keys(left[r]))
             event  == room_message(joined, "USER_JOIN_CHANNEL", username[c], r)
  <2>2. username[c] \in Names
    BY <1>1, TurnIsConnected, InChatInTable DEF Commanding
  <2>3. left[r] \in [Names -> Users \cup {NULL}]
    BY <1>1, LeavingTyped
  <2>4. joined \in [Names -> Users \cup {NULL}]
    BY <2>2, <2>3 DEF room_add_user, table_add
  <2>5. event \in News
    BY <2>2, <2>4, NewsFromRoom DEF RoomEvents
  <2>6. list \in News
    <3>1. get_keys(left[r]) \in SUBSET Names
      BY <2>3, ValuesTyped
    <3> HIDE DEF left
    <3>2. list \in Packets
      BY <3>1, OnePacket DEF Kinds, ChatEvents
    <3> QED
      BY <3>1, <3>2 DEF News, Letters, Legible, Packet, LoginKinds, LoginResponses, CreateResponses
  <2>7. Reply(c, "CHANNEL", {r}) \in News /\ Reply(c, "INFO", {}) \in News
    BY <1>1, NewsToSender
  <2> HIDE DEF list, event
  <2>8. << Reply(c, "CHANNEL", {r}), list, event >> \in Seq(News)
    BY <2>5, <2>6, <2>7
  <2>9. (IF r \in rooms THEN << >> ELSE << Reply(c, "INFO", {}) >>) \in Seq(News)
    BY <2>7
  <2>10. wire' = LeaveMessages(c) \o (IF r \in rooms THEN << >> ELSE << Reply(c, "INFO", {}) >>)
                 \o << Reply(c, "CHANNEL", {r}), list, event >>
    BY <2>1 DEF JoinRoom, list, event
  <2> QED
    BY <1>1, <2>8, <2>9, <2>10, NewsOfLeaving
<1>4. CASE ReplyOnly(c, "ERROR", {})
  <2>1. Reply(c, "ERROR", {}) \in News
    BY <1>1, NewsToSender
  <2> QED
    BY <1>4, <2>1 DEF ReplyOnly
<1>5. CASE Talk(c)
  <2>1. username[c] \in Names /\ room[c] \in RoomNames
    BY <1>1, <1>5, TurnIsConnected, InChatInTable DEF Commanding, IInv, TypeOK, Talk
  <2>2. members[room[c]] \in [Names -> Users \cup {NULL}]
    BY <2>1 DEF IInv, TypeOK
  <2>3. room_message(members[room[c]], "TALK", username[c], room[c]) \in News
    BY <2>1, <2>2, NewsFromRoom DEF RoomEvents
  <2> QED
    BY <1>5, <2>3 DEF Talk
<1> QED
  BY <1>2, <1>3, <1>4, <1>5, CommandCases

LEMMA ReceivedInside ==
  ASSUME NEW c, NEW T, T \subseteq Packets, wire' \in Seq(T)
  PROVE  Received(c) \in Seq(T)
<1>1. wire' \in Seq(Packets)
  BY SMT
<1>2. PICK f : /\ Received(c) = f[Len(wire')]
               /\ \A i \in 0..Len(wire') : f[i] \in Seq(Reaching(c))
  BY <1>1, ReceivedUpto
<1>3. Reaching(c) \subseteq T
  BY DEF Reaching
<1>4. Len(wire') \in 0..Len(wire')
  BY <1>1
<1>5. Received(c) \in Seq(Reaching(c))
  BY <1>2, <1>4
<1> QED
  BY <1>3, <1>5

LEMMA NewsAreLetters == News \subseteq Letters /\ Letters \subseteq Packets
BY DEF News, Letters

LEMMA LetterTo ==
  ASSUME NEW u \in Users, NEW kind \in LoginKinds \cup {"SID_ERROR"}, NEW who \in Names \cup {NULL}
  PROVE  send_packet(u, kind, who) \in Letters
<1>1. kind \in Kinds /\ kind \notin ChatEvents
  BY DEF Kinds, LoginKinds, LoginResponses, CreateResponses, ChatEvents, RoomEvents
<1>2. send_packet(u, kind, who) \in Packets
  BY <1>1, OnePacket DEF send_packet
<1> QED
  BY <1>1, <1>2 DEF Letters, Legible, send_packet, Packet, ChatEvents, RoomEvents

LEMMA StatusIsLogin ==
  ASSUME NEW n, NEW p
  PROVE  LoginStatus(n, p) \in LoginResponses /\ CreateStatus(n) \in CreateResponses
BY DEF LoginStatus, account_login, CreateStatus, LoginResponses, CreateResponses

LEMMA ServerWrites ==
  ASSUME IInv, CInv, NEW c \in Users, Serve(c) \/ ServerReadsShort(c) \/ HangsUp(c)
  PROVE  wire' \in Seq(Letters)
<1>1. CASE ServerReadsShort(c) \/ HangsUp(c)
  <2>1. wire' = << >>
    BY <1>1 DEF ServerReadsShort, HangsUp, Ignore, CloseOld, CloseNew
  <2> QED
    BY <2>1
<1>2. CASE Serve(c)
  <2> DEFINE p == Head(toServer[c])
  <2>1. Handle(c, p)
    BY <1>2 DEF Serve
  <2>2. CASE Refuse(c)
    <3>1. send_error(c) \in Letters
      BY LetterTo DEF send_error
    <3> QED
      BY <2>2, <3>1 DEF Refuse
  <2>3. CASE process_SID_CLIENT_INFORMATION(c)
    <3>1. send_packet(c, "SID_SERVER_INFORMATION", NULL) \in Letters
      BY LetterTo DEF LoginKinds
    <3> QED
      BY <2>3, <3>1 DEF process_SID_CLIENT_INFORMATION
  <2>4. login[c].name \in Names
    BY <1>2, LoginsAssumption DEF Serve, CInv, Prompted
  <2>5. CASE process_SID_LOGIN(c, login[c].name, login[c].password)
    <3>1. LoginStatus(login[c].name, login[c].password) \in LoginKinds
      BY StatusIsLogin DEF LoginKinds
    <3>2. send_packet(c, LoginStatus(login[c].name, login[c].password), login[c].name) \in Letters
      BY <2>4, <3>1, LetterTo
    <3> QED
      BY <2>5, <3>2 DEF process_SID_LOGIN
  <2>6. CASE process_SID_CREATE(c, login[c].name, login[c].password)
    <3>1. CreateStatus(login[c].name) \in LoginKinds
      BY StatusIsLogin DEF LoginKinds
    <3>2. send_packet(c, CreateStatus(login[c].name), login[c].name) \in Letters
      BY <2>4, <3>1, LetterTo
    <3> QED
      BY <2>6, <3>2 DEF process_SID_CREATE
  <2>7. CASE Command(c, p.text)
    <3>1. wire' \in Seq(News)
      BY <2>7, NewsOfCommand
    <3> QED
      BY <3>1, NewsAreLetters
  <2> QED
    BY <2>1, <2>2, <2>3, <2>5, <2>6, <2>7 DEF Handle
<1> QED
  BY <1>1, <1>2

-----------------------------------------------------------------------------
(* The types of the clients' variables *)
Codes    == {"SID_CLIENT_INFORMATION", "SID_LOGIN", "SID_CREATE", "SID_CHATCOMMAND"}
Requests == [code : Codes, text : Seq(Words)]

ClientTypes ==
  /\ client \in [Users -> {"none", "running", "fatal", "gone"}]
  /\ login \in [Users -> Logins \cup {NULL}]
  /\ caller \in Users \cup {NULL}
  /\ cut \subseteq Users /\ stray \subseteq Users
  /\ toServer \in [Users -> Seq(Requests)]
  /\ toClient \in [Users -> Seq(Letters)]
  /\ line \in [Users -> {l \in TypedLines : l.sent = << >>}]
  /\ window \in [Users -> Windows]

LEMMA InitClientTypes == Init_Chat => ClientTypes
<1>1. NoLine \in TypedLines /\ NoLine.sent = << >>
  BY RoomAssumption DEF NoLine, Line, TypedLines
<1>2. NoWindow \in Windows
  BY DEF NoWindow, Windows
<1> QED
  BY <1>1, <1>2 DEF Init_Chat, ClientTypes, Clients

LEMMA DeliverTypes ==
  ASSUME ClientTypes, wire' \in Seq(Letters), Deliver
  PROVE  toClient' \in [Users -> Seq(Letters)]
<1>1. \A c \in Users : toClient[c] \o Received(c) \in Seq(Letters)
  BY ReceivedInside, NewsAreLetters, Joined DEF ClientTypes
<1>2. << >> \in Seq(Letters)
  OBVIOUS
<1> QED
  BY <1>1, <1>2 DEF Deliver, Clients

LEMMA WriteTypes ==
  ASSUME ClientTypes, NEW c \in Users, NEW packets \in Seq(Requests), Write(c, packets)
  PROVE  toServer' \in [Users -> Seq(Requests)]
<1>1. toServer[c] \o packets \in Seq(Requests) /\ << >> \in Seq(Requests)
  BY Joined DEF ClientTypes
<1> QED
  BY <1>1 DEF Write, ClientTypes

LEMMA ReadTypes ==
  ASSUME ClientTypes, NEW c \in Users, NEW kinds, Reads(c, kinds)
  PROVE  /\ toClient[c] # << >> /\ Head(toClient[c]) \in Letters
         /\ Tail(toClient[c]) \in Seq(Letters)
         /\ toClient' \in [Users -> Seq(Letters)]
<1>1. Head(toClient[c]) \in Letters /\ Tail(toClient[c]) \in Seq(Letters)
  BY HeadAndTail DEF Reads, ClientTypes
<1> QED
  BY <1>1 DEF Reads, ClientTypes

LEMMA CommandRequest ==
  ASSUME NEW text \in Seq(Words)
  PROVE  ChatCommand(text) \in Requests
BY DEF ChatCommand, Request, Requests, Codes

LEMMA AnswerTypes ==
  ASSUME ClientTypes, NEW c \in Users, login[c] \in Logins, NEW kind
  PROVE  Answer(c, kind) \in Seq(Requests)
<1>1. << >> \in Seq(Words) /\ << >> \in Seq(Requests)
  OBVIOUS
<1>2. Request("SID_LOGIN", << >>) \in Requests /\ Request("SID_CREATE", << >>) \in Requests
  BY <1>1 DEF Request, Requests, Codes
<1>3. AutoJoin(c) \in Requests
  <2>1. JOIN \in Words /\ login[c].channel \in Words
    BY WordsAssumption, LoginsAssumption
  <2>2. << JOIN, login[c].channel >> \in Seq(Words)
    BY <2>1
  <2> QED
    BY <2>2, CommandRequest DEF AutoJoin
<1> QED
  BY <1>1, <1>2, <1>3 DEF Answer

LEMMA ServeTypes ==
  ASSUME IInv, CInv, ClientTypes, NEW c \in Users, Serve(c) \/ ServerReadsShort(c) \/ HangsUp(c)
  PROVE  ClientTypes'
<1>1. wire' \in Seq(Letters)
  BY ServerWrites
<1>2. toClient' \in [Users -> Seq(Letters)]
  BY <1>1, DeliverTypes DEF Serve, ServerReadsShort, HangsUp, Delivered
<1>3. stray' \subseteq Users
  BY DEF Serve, ServerReadsShort, HangsUp, Delivered, Clients
<1>4. toServer' \in [Users -> Seq(Requests)]
  <2>1. CASE Serve(c) \/ ServerReadsShort(c)
    <3>1. toServer[c] # << >> /\ toServer' = [toServer EXCEPT ![c] = Tail(@)]
      BY <2>1 DEF Serve, ServerReadsShort
    <3>2. Tail(toServer[c]) \in Seq(Requests)
      BY <3>1, HeadAndTail DEF ClientTypes
    <3> QED
      BY <3>1, <3>2 DEF ClientTypes
  <2>2. CASE HangsUp(c)
    <3>1. << >> \in Seq(Requests)
      OBVIOUS
    <3> QED
      BY <2>2, <3>1 DEF HangsUp, ClientTypes
  <2> QED
    BY <2>1, <2>2
<1>5. cut' \subseteq Users
  BY DEF Serve, ServerReadsShort, HangsUp, ClientTypes
<1>6. /\ client' \in [Users -> {"none", "running", "fatal", "gone"}]
      /\ login' \in [Users -> Logins \cup {NULL}]
  BY DEF Serve, ServerReadsShort, HangsUp, ClientTypes
<1>7. UNCHANGED <<caller, line, window>>
  BY DEF Serve, ServerReadsShort, HangsUp
<1> QED
  BY <1>2, <1>3, <1>4, <1>5, <1>6, <1>7 DEF ClientTypes

LEMMA ReceiveTypes ==
  ASSUME CInv, ClientTypes, NEW c \in Users, Receive(c)
  PROVE  ClientTypes'
<1>1. Running(c)
  BY DEF Receive, ProcessResponse, Reads, ConnectionClosed, process_SID_SERVER_INFORMATION,
         process_SID_LOGIN_RESPONSE, process_SID_CREATE_RESPONSE, process_SID_CHATEVENT,
         process_SID_ERROR
<1>2. login[c] \in Logins
  BY <1>1 DEF CInv, Prompted, Running
<1>3. ASSUME NEW kinds, Reads(c, kinds), UNCHANGED <<client, window>>,
             \E kind : Write(c, Answer(c, kind))
      PROVE  ClientTypes'
  <2>1. PICK kind : Write(c, Answer(c, kind))
    BY <1>3
  <2>2. toServer' \in [Users -> Seq(Requests)]
    BY <1>2, <2>1, AnswerTypes, WriteTypes
  <2>3. toClient' \in [Users -> Seq(Letters)]
    BY <1>3, ReadTypes
  <2> QED
    BY <1>3, <2>2, <2>3 DEF ClientTypes, Reads
<1>4. CASE process_SID_SERVER_INFORMATION(c)
  BY <1>3, <1>4 DEF process_SID_SERVER_INFORMATION
<1>5. ASSUME NEW kinds, ProcessResponse(c, kinds) PROVE ClientTypes'
  <2>1. toClient' \in [Users -> Seq(Letters)]
    BY <1>5, ReadTypes DEF ProcessResponse
  <2>2. CASE display_error(c) /\ UNCHANGED toServer
    BY <1>5, <2>1, <2>2 DEF ProcessResponse, Reads, ClientTypes, display_error
  <2> QED
    BY <1>3, <1>5, <2>2 DEF ProcessResponse
<1>6. CASE process_SID_CHATEVENT(c)
  <2>1. /\ Head(toClient[c]) \in Letters
        /\ toClient' \in [Users -> Seq(Letters)]
    BY <1>6, ReadTypes DEF process_SID_CHATEVENT
  <2>2. display_channel_event(window[c], Head(toClient[c])) \in Windows
    BY <2>1, DisplayInside DEF ClientTypes
  <2> QED
    BY <1>6, <2>1, <2>2 DEF process_SID_CHATEVENT, Reads, ClientTypes
<1>7. CASE process_SID_ERROR(c)
  <2>1. toClient' \in [Users -> Seq(Letters)]
    BY <1>7, ReadTypes DEF process_SID_ERROR
  <2> QED
    BY <1>7, <2>1 DEF process_SID_ERROR, Reads, ClientTypes
<1>8. CASE ConnectionClosed(c)
  BY <1>8 DEF ConnectionClosed, display_error, ClientTypes
<1> QED
  BY <1>4, <1>5, <1>6, <1>7, <1>8
     DEF Receive, process_SID_LOGIN_RESPONSE, process_SID_CREATE_RESPONSE

LEMMA TypeTypes ==
  ASSUME ClientTypes, NEW c \in Users, NEW keys \in Bursts, Type(c, keys)
  PROVE  /\ ClientTypes'
         /\ \E packets \in Seq(Requests) :
              /\ Write(c, packets)
              /\ \A i \in 1..Len(packets) : packets[i].code = "SID_CHATCOMMAND"
<1> DEFINE typed   == Typed(line[c], keys)
           packets == [i \in DOMAIN typed.sent |-> ChatCommand(typed.sent[i])]
<1>1. typed \in TypedLines
  <2>1. keys \in Seq(Keys)
    BY BurstsAssumption
  <2>2. line[c] \in TypedLines
    BY DEF ClientTypes
  <2> QED
    BY <2>1, <2>2, TypingStaysInside
<1>2. line' = [line EXCEPT ![c] = [typed EXCEPT !.sent = << >>]] /\ Write(c, packets)
  BY DEF Type
<1> HIDE DEF typed
<1>3. /\ typed.text \in Seq(Words) /\ typed.at \in 0..(MAX_MESSAGE - 1)
      /\ typed.top \in 0..MAX_MESSAGE /\ typed.at <= Len(typed.text)
      /\ typed.sent \in Seq(Seq(Words))
      /\ typed = Line(typed.text, typed.at, typed.top, typed.sent)
  BY <1>1, LineFields
<1>4. [typed EXCEPT !.sent = << >>] \in {l \in TypedLines : l.sent = << >>}
  <2>1. [typed EXCEPT !.sent = << >>] = Line(typed.text, typed.at, typed.top, << >>)
    BY <1>3 DEF Line
  <2>2. << >> \in Seq(Seq(Words))
    OBVIOUS
  <2>3. Line(typed.text, typed.at, typed.top, << >>) \in TypedLines
    BY <1>3, <2>2, LineMade
  <2>4. Line(typed.text, typed.at, typed.top, << >>).sent = << >>
    BY DEF Line
  <2> QED
    BY <2>1, <2>3, <2>4
<1>5. packets \in Seq(Requests) /\ \A i \in 1..Len(packets) : packets[i].code = "SID_CHATCOMMAND"
  <2>1. /\ DOMAIN typed.sent = 1..Len(typed.sent) /\ Len(typed.sent) \in Nat
        /\ \A i \in DOMAIN typed.sent : typed.sent[i] \in Seq(Words)
    BY <1>3
  <2>2. \A i \in 1..Len(typed.sent) : packets[i] \in Requests /\ packets[i].code = "SID_CHATCOMMAND"
    BY <2>1, CommandRequest DEF ChatCommand, Request
  <2>3. packets \in [1..Len(typed.sent) -> Requests]
    BY <2>1, <2>2
  <2> HIDE DEF packets
  <2>4. packets \in Seq(Requests) /\ Len(packets) = Len(typed.sent)
    BY <2>1, <2>3
  <2> QED
    BY <2>2, <2>4
<1> HIDE DEF packets
<1>6. toServer' \in [Users -> Seq(Requests)]
  BY <1>2, <1>5, WriteTypes
<1>7. line' \in [Users -> {l \in TypedLines : l.sent = << >>}]
  BY <1>2, <1>4 DEF ClientTypes
<1>8. UNCHANGED <<client, login, toClient, caller, window, cut, stray>>
  BY DEF Type
<1> QED
  BY <1>2, <1>5, <1>6, <1>7, <1>8 DEF ClientTypes

LEMMA ClientTypesStep ==
  ASSUME IInv, CInv, ClientTypes, [Next_Chat]_<<vars, cvars>>
  PROVE  ClientTypes'
<1>1. CASE UNCHANGED cvars
  BY <1>1 DEF cvars, ClientTypes
<1>2. CASE do_select
  BY <1>2 DEF do_select, ClientTypes
<1>3. CASE ServerDies
  <2>1. << >> \in Seq(Requests)
    OBVIOUS
  <2> QED
    BY <1>3, <2>1 DEF ServerDies, ClientTypes, Clients, Open
<1>4. ASSUME NEW c \in Users, Ends(c) PROVE ClientTypes'
  <2>1. NoLine \in {l \in TypedLines : l.sent = << >>}
    BY RoomAssumption DEF NoLine, Line, TypedLines
  <2>2. NoWindow \in Windows
    BY DEF NoWindow, Windows
  <2>3. << >> \in Seq(Letters)
    OBVIOUS
  <2> QED
    BY <1>4, <2>1, <2>2, <2>3 DEF Ends, ClientTypes
<1>5. ASSUME NEW c \in Users, NEW l \in Logins, Start(c, l) PROVE ClientTypes'
  <2>1. << >> \in Seq(Words)
    OBVIOUS
  <2>2. Request("SID_CLIENT_INFORMATION", << >>) \in Requests
    BY <2>1 DEF Request, Requests, Codes
  <2>3. << Request("SID_CLIENT_INFORMATION", << >>) >> \in Seq(Requests)
    BY <2>2
  <2> QED
    BY <1>5, <2>3 DEF Start, ClientTypes
<1> QED
  BY <1>1, <1>2, <1>3, <1>4, <1>5, ServeTypes, ReceiveTypes, TypeTypes
     DEF Next_Chat, ServerActs, Clients, Arrives, PressAnyKey, Quit

LEMMA TypesSuffice == ClientTypes => ClientTypeOK
<1> SUFFICES ASSUME ClientTypes, NEW c \in Users
             PROVE  /\ toClient[c] \in Seq(Packets)
                    /\ line[c].at \in 0..(MAX_MESSAGE - 1) /\ line[c].top \in 0..MAX_MESSAGE
                    /\ window[c].users \subseteq Names /\ window[c].shown \subseteq Names
                    /\ window[c].channel \in RoomNames \cup {NULL}
  BY DEF ClientTypes, ClientTypeOK, Clients
<1>1. toClient[c] \in Seq(Letters) /\ line[c] \in TypedLines /\ window[c] \in Windows
  BY DEF ClientTypes
<1>2. toClient[c] \in Seq(Packets)
  BY <1>1, NewsAreLetters
<1> QED
  BY <1>1, <1>2 DEF TypedLines, Windows

(* Every client's variables keep their type, whatever is typed and         *)
(* whatever the server writes: no key stores anything further than one     *)
(* place behind the typing buffer.                                         *)
THEOREM ClientsTyped == ChatSpec => []ClientTypeOK
<1>1. Init_Chat => ClientTypes
  BY InitClientTypes
<1>2. IInv /\ CInv /\ ClientTypes /\ [Next_Chat]_<<vars, cvars>> => ClientTypes'
  BY ClientTypesStep
<1>3. ClientTypes => ClientTypeOK
  BY TypesSuffice
<1> QED
  BY <1>1, <1>2, <1>3, InitCInv, CInvStep, ChatImplementsServer, Invariance, PTL DEF ChatSpec

-----------------------------------------------------------------------------
(* Logging in                                                              *)

(* The connection that waits is that of a client the server does not know. *)
CallerWaits ==
  /\ caller # NULL <=> backlog
  /\ caller # NULL => state[caller] = NULL

(* Nothing is on its way to a client that is not there, or that waits to   *)
(* be accepted, and neither shows anything yet.                            *)
NothingSaid == \A c \in Users : ~Open(c) \/ c = caller => toClient[c] = << >> /\ window[c] = NoWindow

(* At most one packet of the login is under way; one that goes up comes in *)
(* the state in which the server takes it, one that comes down says what   *)
(* the session's state is; and it is missing only if it was lost.          *)
Turns(c) ==
  /\ \A i, j \in LoginUp(c) : i = j
  /\ \A i, j \in LoginDown(c) : i = j
  /\ LoginUp(c) = {} \/ LoginDown(c) = {}
  /\ \A i \in LoginUp(c) :
       IF c = caller THEN toServer[c][i].code = "SID_CLIENT_INFORMATION"
       ELSE Takes(c, toServer[c][i].code)
  /\ \A i \in LoginDown(c) :
       IF InChat(c) THEN toClient[c][i].kind = "LOGIN_SUCCESS"
       ELSE toClient[c][i].kind # "LOGIN_SUCCESS" /\ state[c] = "SENT_CLIENT_INFORMATION"
  /\ c \notin cut /\ ~InChat(c) => LoginUp(c) # {} \/ LoginDown(c) # {}

AllTurns == \A c \in Users : Running(c) /\ HasLink(c) => Turns(c)

LInv == ClientTypes /\ CallerWaits /\ NothingSaid /\ AllTurns

LEMMA InitLInv == Init_Chat => LInv
<1> SUFFICES ASSUME Init_Chat PROVE LInv
  OBVIOUS
<1>1. CallerWaits /\ NothingSaid /\ AllTurns
  BY DEF Init_Chat, Init, CallerWaits, NothingSaid, AllTurns, Running, Open, Clients
<1> QED
  BY <1>1, InitClientTypes DEF LInv

LEMMA TurnsSuffice == IInv /\ LInv => LoginTakesTurns
<1> SUFFICES ASSUME IInv, LInv, NEW c \in Users, Running(c), c \notin cut, HasLink(c)
             PROVE  /\ \A i \in LoginUp(c) :
                         IF c = caller THEN toServer[c][i].code = "SID_CLIENT_INFORMATION"
                         ELSE Takes(c, toServer[c][i].code)
                    /\ IF InChat(c)
                       THEN \A i \in LoginDown(c) :
                              LoginDown(c) = {i} /\ toClient[c][i].kind = "LOGIN_SUCCESS"
                       ELSE Cardinality(LoginUp(c)) + Cardinality(LoginDown(c)) = 1
  BY DEF LoginTakesTurns, Clients
<1>1. Turns(c)
  BY DEF LInv, AllTurns
<1> DEFINE up1 == LoginUp(c)
           down1 == LoginDown(c)
<1>2. /\ \A i, j \in up1 : i = j
      /\ \A i, j \in down1 : i = j
      /\ up1 = {} \/ down1 = {}
      /\ ~InChat(c) => up1 # {} \/ down1 # {}
  BY <1>1 DEF Turns
<1>3. ASSUME ~InChat(c) PROVE Cardinality(up1) + Cardinality(down1) = 1
  <2> HIDE DEF up1, down1
  <2>1. CASE up1 # {}
    <3>1. PICK i : up1 = {i} /\ down1 = {}
      BY <1>2, <2>1
    <3>2. Cardinality(up1) = 1 /\ Cardinality(down1) = 0
      BY <3>1, FS_EmptySet, FS_Singleton, Zenon
    <3> QED
      BY <3>2
  <2>2. CASE down1 # {}
    <3>1. PICK i : down1 = {i} /\ up1 = {}
      BY <1>2, <2>2
    <3>2. Cardinality(up1) = 0 /\ Cardinality(down1) = 1
      BY <3>1, FS_EmptySet, FS_Singleton, Zenon
    <3> QED
      BY <3>2
  <2> QED
    BY <1>2, <1>3, <2>1, <2>2
<1> QED
  BY <1>1, <1>2, <1>3 DEF Turns

(* Positions in queues that grow and shrink *)
LEMMA UpShrinks ==
  ASSUME ClientTypes, NEW c \in Users, toServer[c] # << >>, toServer'[c] = Tail(toServer[c])
  PROVE  /\ \A i \in LoginUp(c)' : i + 1 \in LoginUp(c) /\ toServer'[c][i] = toServer[c][i + 1]
         /\ \A i \in LoginUp(c) : i = 1 \/ i - 1 \in LoginUp(c)'
         /\ LoginUp(c) \subseteq Nat \ {0} /\ LoginUp(c)' \subseteq Nat \ {0}
         /\ Head(toServer[c]) = toServer[c][1] /\ Head(toServer[c]) \in Requests
         /\ Head(toServer[c]).code # "SID_CHATCOMMAND" => 1 \in LoginUp(c)
<1>1. toServer[c] \in Seq(Requests)
  BY DEF ClientTypes
<1>2. /\ Len(toServer[c]) \in Nat /\ Len(toServer[c]) >= 1
      /\ Head(toServer[c]) = toServer[c][1] /\ toServer[c][1] \in Requests
      /\ toServer'[c] \in Seq(Requests) /\ Len(toServer'[c]) = Len(toServer[c]) - 1
      /\ \A i \in 1..(Len(toServer[c]) - 1) : toServer'[c][i] = toServer[c][i + 1]
  BY <1>1, HeadAndTail
<1>3. /\ DOMAIN toServer[c] = 1..Len(toServer[c])
      /\ DOMAIN toServer'[c] = 1..(Len(toServer[c]) - 1)
  BY <1>1, <1>2
<1>4. \A i \in LoginUp(c)' : i + 1 \in LoginUp(c) /\ toServer'[c][i] = toServer[c][i + 1]
  BY <1>2, <1>3 DEF LoginUp
<1>5. ASSUME NEW i \in LoginUp(c), i # 1 PROVE i - 1 \in LoginUp(c)'
  <2>1. i - 1 \in 1..(Len(toServer[c]) - 1) /\ (i - 1) + 1 = i
    BY <1>2, <1>3, <1>5 DEF LoginUp
  <2>2. toServer'[c][i - 1] = toServer[c][i]
    BY <1>2, <2>1
  <2> QED
    BY <1>3, <2>1, <2>2 DEF LoginUp
<1> QED
  BY <1>2, <1>3, <1>4, <1>5 DEF LoginUp

LEMMA DownShrinks ==
  ASSUME ClientTypes, NEW c \in Users, toClient[c] # << >>, toClient'[c] = Tail(toClient[c])
  PROVE  /\ \A i \in LoginDown(c)' : i + 1 \in LoginDown(c) /\ toClient'[c][i] = toClient[c][i + 1]
         /\ \A i \in LoginDown(c) : i = 1 \/ i - 1 \in LoginDown(c)'
         /\ LoginDown(c) \subseteq Nat \ {0} /\ LoginDown(c)' \subseteq Nat \ {0}
         /\ Head(toClient[c]) = toClient[c][1]
         /\ Head(toClient[c]).kind \in LoginKinds => 1 \in LoginDown(c)
<1>1. toClient[c] \in Seq(Letters)
  BY DEF ClientTypes
<1>2. /\ Len(toClient[c]) \in Nat /\ Len(toClient[c]) >= 1 /\ Head(toClient[c]) = toClient[c][1]
      /\ toClient'[c] \in Seq(Letters) /\ Len(toClient'[c]) = Len(toClient[c]) - 1
      /\ \A i \in 1..(Len(toClient[c]) - 1) : toClient'[c][i] = toClient[c][i + 1]
  BY <1>1, HeadAndTail
<1>3. /\ DOMAIN toClient[c] = 1..Len(toClient[c])
      /\ DOMAIN toClient'[c] = 1..(Len(toClient[c]) - 1)
  BY <1>1, <1>2
<1>4. \A i \in LoginDown(c)' : i + 1 \in LoginDown(c) /\ toClient'[c][i] = toClient[c][i + 1]
  BY <1>2, <1>3 DEF LoginDown
<1>5. ASSUME NEW i \in LoginDown(c), i # 1 PROVE i - 1 \in LoginDown(c)'
  <2>1. i - 1 \in 1..(Len(toClient[c]) - 1) /\ (i - 1) + 1 = i
    BY <1>2, <1>3, <1>5 DEF LoginDown
  <2>2. toClient'[c][i - 1] = toClient[c][i]
    BY <1>2, <2>1
  <2> QED
    BY <1>3, <2>1, <2>2 DEF LoginDown
<1> QED
  BY <1>2, <1>3, <1>4, <1>5 DEF LoginDown

LEMMA UpGrows ==
  ASSUME ClientTypes, NEW c \in Users, NEW packets \in Seq(Requests),
         toServer'[c] = toServer[c] \o packets
  PROVE  /\ (\A i \in 1..Len(packets) : packets[i].code = "SID_CHATCOMMAND")
              => LoginUp(c)' = LoginUp(c)
         /\ LoginUp(c) \subseteq LoginUp(c)' /\ LoginUp(c) \subseteq Nat
         /\ \A i \in LoginUp(c) : toServer'[c][i] = toServer[c][i]
<1>1. toServer[c] \in Seq(Requests)
  BY DEF ClientTypes
<1>2. /\ Len(toServer'[c]) = Len(toServer[c]) + Len(packets) /\ toServer'[c] \in Seq(Requests)
      /\ Len(toServer[c]) \in Nat /\ Len(packets) \in Nat
      /\ \A i \in 1..Len(toServer[c]) : toServer'[c][i] = toServer[c][i]
      /\ \A i \in 1..Len(packets) : toServer'[c][Len(toServer[c]) + i] = packets[i]
  BY <1>1, Joined
<1>3. \A i \in 1..Len(toServer'[c]) :
        i \in 1..Len(toServer[c]) \/ \E k \in 1..Len(packets) : i = Len(toServer[c]) + k
  <2> TAKE i \in 1..Len(toServer'[c])
  <2>1. CASE i > Len(toServer[c])
    <3>1. i - Len(toServer[c]) \in 1..Len(packets) /\ i = Len(toServer[c]) + (i - Len(toServer[c]))
      BY <1>2, <2>1
    <3> QED
      BY <3>1
  <2> QED
    BY <1>2, <2>1
<1>4. DOMAIN toServer[c] = 1..Len(toServer[c]) /\ DOMAIN toServer'[c] = 1..Len(toServer'[c])
  BY <1>1, <1>2
<1>5. LoginUp(c) \subseteq LoginUp(c)' /\ LoginUp(c) \subseteq Nat
  BY <1>2, <1>4 DEF LoginUp
<1>6. ASSUME \A i \in 1..Len(packets) : packets[i].code = "SID_CHATCOMMAND", NEW i \in LoginUp(c)'
      PROVE  i \in LoginUp(c)
  <2>1. i \in 1..Len(toServer'[c]) /\ toServer'[c][i].code # "SID_CHATCOMMAND"
    BY <1>4, <1>6 DEF LoginUp
  <2>2. i \in 1..Len(toServer[c])
    BY <1>2, <1>3, <1>6, <2>1
  <2> QED
    BY <1>2, <1>4, <2>1, <2>2 DEF LoginUp
<1>7. \A i \in LoginUp(c) : toServer'[c][i] = toServer[c][i]
  BY <1>2, <1>4 DEF LoginUp
<1> QED
  BY <1>5, <1>6, <1>7

LEMMA UpGetsOne ==
  ASSUME ClientTypes, NEW c \in Users, NEW p \in Requests, p.code # "SID_CHATCOMMAND",
         toServer'[c] = toServer[c] \o << p >>
  PROVE  LoginUp(c) = {} => \E k : LoginUp(c)' = {k} /\ toServer'[c][k] = p
<1> SUFFICES ASSUME LoginUp(c) = {} PROVE \E k : LoginUp(c)' = {k} /\ toServer'[c][k] = p
  OBVIOUS
<1> DEFINE n == Len(toServer[c])
<1>1. toServer[c] \in Seq(Requests)
  BY DEF ClientTypes
<1>2. /\ n \in Nat /\ DOMAIN toServer[c] = 1..n /\ DOMAIN toServer'[c] = 1..(n + 1)
      /\ \A i \in 1..n : toServer'[c][i] = toServer[c][i]
      /\ toServer'[c][n + 1] = p
  BY <1>1
<1>3. \A i \in 1..(n + 1) : i \in 1..n \/ i = n + 1
  BY <1>2
<1> HIDE DEF n
<1>4. \A i \in 1..n : toServer[c][i].code = "SID_CHATCOMMAND"
  BY <1>2 DEF LoginUp
<1>5. n + 1 \in 1..(n + 1)
  BY <1>2
<1>6. LoginUp(c)' = {n + 1}
  BY <1>2, <1>3, <1>4, <1>5 DEF LoginUp
<1> QED
  BY <1>2, <1>6

LEMMA DownGrows ==
  ASSUME ClientTypes, NEW c \in Users, NEW packets \in Seq(News),
         toClient'[c] = toClient[c] \o packets
  PROVE  LoginDown(c)' = LoginDown(c) /\ \A i \in LoginDown(c) : toClient'[c][i] = toClient[c][i]
<1> DEFINE n == Len(toClient[c])
           m == Len(packets)
<1>1. toClient[c] \in Seq(Letters) /\ packets \in Seq(Letters)
  BY NewsAreLetters DEF ClientTypes
<1>2. /\ n \in Nat /\ m \in Nat /\ DOMAIN toClient[c] = 1..n /\ DOMAIN toClient'[c] = 1..(n + m)
      /\ \A i \in 1..n : toClient'[c][i] = toClient[c][i]
      /\ \A i \in 1..m : toClient'[c][n + i] = packets[i]
  BY <1>1
<1>3. \A i \in 1..m : packets[i].kind \notin LoginKinds
  BY DEF News
<1>4. \A i \in 1..(n + m) : i \in 1..n \/ (i - n \in 1..m /\ i = n + (i - n))
  BY <1>2
<1> HIDE DEF n, m
<1>5. ASSUME NEW i \in LoginDown(c)' PROVE i \in 1..n
  <2>1. i \in 1..(n + m) /\ toClient'[c][i].kind \in LoginKinds
    BY <1>2 DEF LoginDown
  <2>2. ASSUME i - n \in 1..m, i = n + (i - n) PROVE FALSE
    <3>1. toClient'[c][i] = packets[i - n]
      BY <1>2, <2>2
    <3> QED
      BY <1>3, <2>1, <2>2, <3>1
  <2> QED
    BY <1>4, <2>1, <2>2
<1>6. 1..n \subseteq 1..(n + m)
  BY <1>2
<1> QED
  BY <1>2, <1>5, <1>6 DEF LoginDown

LEMMA DownGetsOne ==
  ASSUME ClientTypes, NEW c \in Users, NEW p \in Letters, p.kind \in LoginKinds,
         toClient'[c] = toClient[c] \o << p >>
  PROVE  LoginDown(c) = {} => \E k : LoginDown(c)' = {k} /\ toClient'[c][k] = p
<1> SUFFICES ASSUME LoginDown(c) = {} PROVE \E k : LoginDown(c)' = {k} /\ toClient'[c][k] = p
  OBVIOUS
<1> DEFINE n == Len(toClient[c])
<1>1. toClient[c] \in Seq(Letters)
  BY DEF ClientTypes
<1>2. /\ n \in Nat /\ DOMAIN toClient[c] = 1..n /\ DOMAIN toClient'[c] = 1..(n + 1)
      /\ \A i \in 1..n : toClient'[c][i] = toClient[c][i]
      /\ toClient'[c][n + 1] = p
  BY <1>1
<1>3. \A i \in 1..(n + 1) : i \in 1..n \/ i = n + 1
  BY <1>2
<1> HIDE DEF n
<1>4. \A i \in 1..n : toClient[c][i].kind \notin LoginKinds
  BY <1>2 DEF LoginDown
<1>5. n + 1 \in 1..(n + 1)
  BY <1>2
<1>6. LoginDown(c)' = {n + 1}
  BY <1>2, <1>3, <1>4, <1>5 DEF LoginDown
<1> QED
  BY <1>2, <1>6

-----------------------------------------------------------------------------
(* What the server's packets mean for the logins *)

(* Either nothing of this is about a login, or it is one packet, to c.     *)
LEMMA ServeSays ==
  ASSUME IInv, CInv, NEW c \in Users, Serve(c)
  PROVE  \/ /\ wire' \in Seq(News)
            /\ \/ Refuse(c) /\ ~Takes(c, Head(toServer[c]).code)
               \/ Head(toServer[c]).code = "SID_CHATCOMMAND" /\ Command(c, Head(toServer[c]).text)
         \/ \E kind \in LoginKinds, who \in Names \cup {NULL} :
              /\ wire' = << send_packet(c, kind, who) >>
              /\ kind = "LOGIN_SUCCESS" => state' = [state EXCEPT ![c] = "NOT_IN_CHANNEL"]
              /\ kind # "LOGIN_SUCCESS" => state' = [state EXCEPT ![c] = "SENT_CLIENT_INFORMATION"]
              /\ ~InChat(c) /\ Head(toServer[c]).code # "SID_CHATCOMMAND"
<1> DEFINE p == Head(toServer[c])
<1>1. \/ Refuse(c) /\ ~Takes(c, p.code)
      \/ process_SID_CLIENT_INFORMATION(c) /\ p.code # "SID_CHATCOMMAND"
      \/ /\ process_SID_LOGIN(c, login[c].name, login[c].password)
         /\ p.code # "SID_CHATCOMMAND"
      \/ /\ process_SID_CREATE(c, login[c].name, login[c].password)
         /\ p.code # "SID_CHATCOMMAND"
      \/ p.code = "SID_CHATCOMMAND" /\ Command(c, p.text)
  BY DEF Serve, Handle
<1>2. CASE Refuse(c) /\ ~Takes(c, p.code)
  <2>1. send_error(c) \in Letters
    BY LetterTo DEF send_error
  <2>2. send_error(c) \in News
    BY <2>1 DEF News, send_error, send_packet, Packet, LoginKinds, LoginResponses, CreateResponses
  <2>3. << send_error(c) >> \in Seq(News)
    BY <2>2
  <2>4. wire' \in Seq(News)
    BY <1>2, <2>3 DEF Refuse
  <2> QED
    BY <1>2, <2>4
<1>3. CASE process_SID_CLIENT_INFORMATION(c) /\ p.code # "SID_CHATCOMMAND"
  <2>1. "SID_SERVER_INFORMATION" \in LoginKinds
    BY DEF LoginKinds
  <2> QED
    BY <1>3, <2>1 DEF process_SID_CLIENT_INFORMATION, InChat
<1>4. login[c].name \in Names
  BY LoginsAssumption DEF Serve, CInv, Prompted
<1>5. CASE process_SID_LOGIN(c, login[c].name, login[c].password) /\ p.code # "SID_CHATCOMMAND"
  <2> DEFINE kind == LoginStatus(login[c].name, login[c].password)
  <2>1. kind \in LoginKinds
    BY StatusIsLogin DEF LoginKinds
  <2>2. wire' = << send_packet(c, kind, login[c].name) >> /\ ~InChat(c)
    BY <1>5 DEF process_SID_LOGIN, InChat
  <2>3. kind = "LOGIN_SUCCESS" => state' = [state EXCEPT ![c] = "NOT_IN_CHANNEL"]
    BY <1>5 DEF process_SID_LOGIN
  <2>4. kind # "LOGIN_SUCCESS" => state' = state /\ state[c] = "SENT_CLIENT_INFORMATION"
    BY <1>5 DEF process_SID_LOGIN
  <2>5. kind # "LOGIN_SUCCESS" => state' = [state EXCEPT ![c] = "SENT_CLIENT_INFORMATION"]
    BY <2>4 DEF IInv, TypeOK
  <2> HIDE DEF kind
  <2> QED
    BY <1>4, <1>5, <2>1, <2>2, <2>3, <2>5
<1>6. CASE process_SID_CREATE(c, login[c].name, login[c].password) /\ p.code # "SID_CHATCOMMAND"
  <2> DEFINE kind == CreateStatus(login[c].name)
  <2>1. kind \in LoginKinds /\ kind # "LOGIN_SUCCESS"
    BY StatusIsLogin DEF LoginKinds, CreateResponses
  <2>2. wire' = << send_packet(c, kind, login[c].name) >> /\ ~InChat(c)
    BY <1>6 DEF process_SID_CREATE, InChat
  <2>3. state' = state /\ state[c] = "SENT_CLIENT_INFORMATION"
    BY <1>6 DEF process_SID_CREATE, sessions
  <2>4. state' = [state EXCEPT ![c] = "SENT_CLIENT_INFORMATION"]
    BY <2>3 DEF IInv, TypeOK
  <2> HIDE DEF kind
  <2> QED
    BY <1>4, <1>6, <2>1, <2>2, <2>4
<1>7. CASE p.code = "SID_CHATCOMMAND" /\ Command(c, p.text)
  BY <1>7, NewsOfCommand
<1> QED
  BY <1>1, <1>2, <1>3, <1>5, <1>6, <1>7

LEMMA NoOtherHears ==
  ASSUME IInv, NEW c \in Users, NEW d \in Users, Connected(c), d # c, NEW kind, NEW who,
         send_packet(c, kind, who) \in Packets, wire' = << send_packet(c, kind, who) >>
  PROVE  Received(d) = << >>
<1>1. ~LeadsTo(c, d)
  BY DEF LeadsTo, Connected, IInv, UsersPartition
<1>2. Reaching(d) = {}
  BY <1>1 DEF Reaching, send_packet, Packet
<1>3. wire' \in Seq(Packets)
  OBVIOUS
<1>4. Received(d) \in Seq({})
  <2>1. PICK f : /\ Received(d) = f[Len(wire')]
                 /\ \A i \in 0..Len(wire') : f[i] \in Seq(Reaching(d))
    BY <1>3, ReceivedUpto
  <2>2. Len(wire') \in 0..Len(wire')
    BY <1>3
  <2> QED
    BY <1>2, <2>1, <2>2
<1> QED
  BY <1>4

LEMMA HearsOnce ==
  ASSUME IInv, NEW c \in Users, Connected(c), NEW kind \in LoginKinds, NEW who,
         send_packet(c, kind, who) \in Packets, wire' = << send_packet(c, kind, who) >>
  PROVE  Received(c) = << send_packet(c, kind, who) >>
<1> DEFINE p == send_packet(c, kind, who)
<1>1. LeadsTo(c, c)
  BY DEF LeadsTo, Connected, IInv, UsersPartition
<1>2. {s \in p.to : LeadsTo(s, c)} = {c}
  BY <1>1 DEF send_packet, Packet
<1>3. p.kind # "SID_NULL" /\ p.kind # "USER_IN_CHANNEL"
  BY DEF send_packet, Packet, LoginKinds, LoginResponses, CreateResponses
<1>4. Copies(p, c) = << p >>
  <2>1. Cardinality({c}) = 1
    BY FS_Singleton
  <2>2. Copies(p, c) = [i \in 1..1 |-> p]
    BY <1>2, <1>3, <2>1 DEF Copies
  <2> QED
    BY <2>2
<1>5. wire' \in Seq(Packets) /\ Len(wire') = 1 /\ wire'[1] = p
  OBVIOUS
<1>6. PICK f : /\ Received(c) = f[1] /\ f[0] = << >>
               /\ f[1] = f[0] \o Copies(wire'[1], c)
  <2>1. PICK f : /\ Received(c) = f[Len(wire')] /\ f[0] = << >>
                 /\ \A i \in 1..Len(wire') : f[i] = f[i - 1] \o Copies(wire'[i], c)
    BY <1>5, ReceivedUpto
  <2>2. 1 \in 1..Len(wire') /\ 1 - 1 = 0
    BY <1>5
  <2>3. f[1] = f[0] \o Copies(wire'[1], c)
    BY <2>1, <2>2
  <2> QED
    BY <1>5, <2>1, <2>3
<1> QED
  BY <1>4, <1>5, <1>6

(* What a packet leaves alone, whatever it is. *)
LEMMA ServeFrame ==
  ASSUME IInv, CInv, NEW c \in Users, Serve(c)
  PROVE  /\ UNCHANGED <<net, backlog, caller, client, login, window, line>>
         /\ Connected(c) /\ state[c] # NULL
         /\ \A d \in Users \ {c} : state'[d] = state[d]
<1>1. Handle(c, Head(toServer[c])) /\ UNCHANGED <<caller, client, login, window, line>>
  BY DEF Serve
<1>2. Turn(c)
  BY <1>1 DEF Handle, Refuse, process_SID_CLIENT_INFORMATION, process_SID_LOGIN, process_SID_CREATE,
         Command, LeaveChat, ReplyOnly, JoinRoom, Talk, Commanding
<1>3. Connected(c)
  BY <1>2, TurnIsConnected DEF IInv, UsersPartition
<1>7. state[c] # NULL
  <2>1. state[c] \in {"CONNECTED", "SENT_CLIENT_INFORMATION"} \/ InChat(c)
    BY <1>2, TurnIsConnected DEF IInv, UsersPartition
  <2> QED
    BY <2>1, NullAssumption DEF InChat, States
<1>4. UNCHANGED backlog
  BY <1>2 DEF Turn
<1>5. UNCHANGED net
  BY <1>1 DEF Handle, Refuse, process_SID_CLIENT_INFORMATION, process_SID_LOGIN, process_SID_CREATE,
         Command, LeaveChat, ReplyOnly, JoinRoom, Talk, net
<1>6. \A d \in Users \ {c} : state'[d] = state[d]
  <2>1. UNCHANGED state \/ \E s : state' = [state EXCEPT ![c] = s]
    BY <1>1 DEF Handle, Refuse, process_SID_CLIENT_INFORMATION, process_SID_LOGIN, process_SID_CREATE,
           Command, LeaveChat, ReplyOnly, JoinRoom, Talk, sessions
  <2> QED
    BY <2>1 DEF IInv, TypeOK
<1> QED
  BY <1>1, <1>3, <1>4, <1>5, <1>6, <1>7

(* A session that is no longer counted as one that lost a packet is in a   *)
(* room, and has long logged in.                                           *)
LEMMA CutWhileOutside ==
  ASSUME RInv', NEW d \in Users, NEW c \in Users, Serve(c), d \notin cut', ~InChat(d)'
  PROVE  d \notin cut
<1>1. room'[d] = NULL
  BY DEF RInv, BlankUntilLogin
<1> QED
  BY <1>1 DEF Serve

LEMMA ServeOthersTurns ==
  ASSUME RInv, RInv', CInv, LInv, NEW c \in Users, Serve(c),
         NEW d \in Users \ {c}, Running(d)', HasLink(d)'
  PROVE  Turns(d)'
<1>1. IInv
  BY DEF RInv
<1>2. /\ UNCHANGED <<net, caller, client>> /\ Connected(c) /\ state'[d] = state[d]
  BY <1>1, ServeFrame
<1>3. Running(d) /\ HasLink(d)
  BY <1>2 DEF Running, HasLink, Connected, net
<1>4. Turns(d) /\ ClientTypes
  BY <1>3 DEF LInv, AllTurns
<1>5. toServer'[d] = toServer[d]
  BY <1>4 DEF Serve, ClientTypes
<1>6. LoginUp(d)' = LoginUp(d)
  BY <1>5 DEF LoginUp
<1>7. Received(d) \in Seq(News)
  <2>1. CASE wire' \in Seq(News)
    BY <2>1, NewsAreLetters, ReceivedInside
  <2>2. ASSUME NEW kind \in LoginKinds, NEW who \in Names \cup {NULL},
               wire' = << send_packet(c, kind, who) >>
        PROVE  Received(d) \in Seq(News)
    <3>1. send_packet(c, kind, who) \in Packets
      BY LetterTo, NewsAreLetters
    <3>2. Received(d) = << >>
      BY <1>1, <1>2, <2>2, <3>1, NoOtherHears
    <3> QED
      BY <3>2
  <2> QED
    BY <1>1, <2>1, <2>2, ServeSays
<1>8. toClient'[d] = toClient[d] \o Received(d)
  BY <1>3 DEF Serve, Delivered, Deliver, Clients, Open, Running
<1>9. LoginDown(d)' = LoginDown(d) /\ \A i \in LoginDown(d) : toClient'[d][i] = toClient[d][i]
  BY <1>4, <1>7, <1>8, DownGrows
<1>10. \A code : Takes(d, code)' = Takes(d, code)
  BY <1>2 DEF Takes, InChat
<1>11. InChat(d)' = InChat(d)
  BY <1>2 DEF InChat
<1>12. d \notin cut' /\ ~InChat(d)' => d \notin cut
  BY CutWhileOutside
<1> QED
  BY <1>2, <1>4, <1>5, <1>6, <1>9, <1>10, <1>11, <1>12 DEF Turns

LEMMA CommandInChat ==
  ASSUME IInv, NEW c \in Users, NEW text, Command(c, text)
  PROVE  InChat(c) /\ InChat(c)'
<1>1. InChat(c)
  BY CommandCases DEF LeaveChat, ReplyOnly, JoinRoom, Talk, Commanding
<1>2. \/ UNCHANGED state
      \/ \E r \in RoomNames \cup {NULL} : state' = [state EXCEPT ![c] = StateIn(r)]
  BY CommandCases DEF LeaveChat, ReplyOnly, JoinRoom, Talk, sessions
<1> QED
  BY <1>1, <1>2 DEF InChat, StateIn, IInv, TypeOK

LEMMA ServeOwnTurns ==
  ASSUME RInv, RInv', CInv, LInv, NEW c \in Users, Serve(c), Running(c)', HasLink(c)'
  PROVE  Turns(c)'
<1> DEFINE p == Head(toServer[c])
<1>1. IInv /\ ClientTypes /\ CallerWaits
  BY DEF RInv, LInv
<1>2. UNCHANGED <<net, caller, client>> /\ Connected(c) /\ state[c] # NULL
  BY <1>1, ServeFrame
<1>3. Running(c) /\ HasLink(c)
  BY <1>2 DEF Running, HasLink, Connected, net
<1>4. Turns(c) /\ c # caller /\ c # caller'
  BY <1>1, <1>2, <1>3, NullAssumption DEF LInv, AllTurns, CallerWaits
<1>5. toServer[c] # << >> /\ toServer'[c] = Tail(toServer[c])
  BY <1>1 DEF Serve, ClientTypes
<1>6. /\ \A i \in LoginUp(c)' : i + 1 \in LoginUp(c) /\ toServer'[c][i] = toServer[c][i + 1]
      /\ \A i \in LoginUp(c) : i = 1 \/ i - 1 \in LoginUp(c)'
      /\ LoginUp(c) \subseteq Nat \ {0} /\ LoginUp(c)' \subseteq Nat \ {0}
      /\ p = toServer[c][1]
      /\ p.code # "SID_CHATCOMMAND" => 1 \in LoginUp(c)
  BY <1>1, <1>5, UpShrinks
<1>7. toClient'[c] = toClient[c] \o Received(c)
  BY <1>3 DEF Serve, Delivered, Deliver, Clients, Open, Running
<1>8. CASE wire' \in Seq(News)
  <2>1. p.code = "SID_CHATCOMMAND"
    <3>1. 1 \in LoginUp(c) => Takes(c, p.code)
      BY <1>4, <1>6 DEF Turns
    <3>2. \/ ~Takes(c, p.code)
          \/ p.code = "SID_CHATCOMMAND"
          \/ \E kind \in LoginKinds, who \in Names \cup {NULL} : wire' = << send_packet(c, kind, who) >>
      BY <1>1, ServeSays
    <3>3. ASSUME NEW kind \in LoginKinds, NEW who, wire' = << send_packet(c, kind, who) >>
          PROVE  FALSE
      <4>1. wire'[1].kind = kind /\ wire'[1] \in News
        BY <1>8, <3>3 DEF send_packet, Packet
      <4> QED
        BY <4>1 DEF News
    <3> QED
      BY <1>6, <3>1, <3>2, <3>3
  <2>2. 1 \notin LoginUp(c)
    BY <1>6, <2>1 DEF LoginUp
  <2>3. Received(c) \in Seq(News)
    BY <1>8, NewsAreLetters, ReceivedInside
  <2>4. LoginDown(c)' = LoginDown(c) /\ \A i \in LoginDown(c) : toClient'[c][i] = toClient[c][i]
    BY <1>1, <1>7, <2>3, DownGrows
  <2>5. state'[c] = state[c] \/ (InChat(c) /\ InChat(c)')
    <3>1. Refuse(c) \/ Command(c, p.text)
      BY <1>1, <2>1, ServeSays
    <3> QED
      BY <1>1, <3>1, CommandInChat DEF Refuse, sessions
  <2>6. InChat(c)' = InChat(c)
    BY <2>5 DEF InChat
  <2>7. \A i \in LoginUp(c)' : Takes(c, toServer[c][i].code)'
    <3>1. CASE state'[c] = state[c]
      <4>1. \A code : Takes(c, code)' = Takes(c, code)
        BY <3>1 DEF Takes, InChat
      <4>2. \A i \in LoginUp(c) : Takes(c, toServer[c][i].code)
        BY <1>4 DEF Turns
      <4> QED
        BY <1>6, <4>1, <4>2
    <3>2. CASE InChat(c)
      <4>1. ASSUME NEW i \in LoginUp(c) PROVE FALSE
        <5>1. Takes(c, toServer[c][i].code) /\ toServer[c][i].code # "SID_CHATCOMMAND"
          BY <1>4 DEF Turns, LoginUp
        <5>2. toServer[c] \in Seq(Requests) /\ i \in DOMAIN toServer[c]
          BY <1>1 DEF ClientTypes, LoginUp
        <5>3. toServer[c][i] \in Requests
          BY <5>2
        <5>4. toServer[c][i].code \in Codes
          BY <5>3 DEF Requests
        <5> QED
          BY <3>2, <5>1, <5>4 DEF Takes, InChat, Codes
      <4> QED
        BY <1>6, <4>1
    <3> QED
      BY <2>5, <3>1, <3>2
  <2>8. /\ \A i, j \in LoginUp(c)' : i = j
        /\ LoginUp(c) # {} => LoginUp(c)' # {}
        /\ LoginUp(c) = {} => LoginUp(c)' = {}
    <3>1. \A i, j \in LoginUp(c)' : i + 1 = j + 1
      BY <1>4, <1>6 DEF Turns
    <3>2. \A i, j \in LoginUp(c)' : i \in Nat /\ j \in Nat
      BY <1>6
    <3>3. \A i, j \in LoginUp(c)' : i = j
      BY <3>1, <3>2
    <3> QED
      BY <1>6, <2>2, <3>3
  <2>9. c \notin cut' /\ ~InChat(c)' => c \notin cut
    BY CutWhileOutside
  <2>10. \A i \in LoginDown(c)' :
           IF InChat(c)' THEN toClient'[c][i].kind = "LOGIN_SUCCESS"
           ELSE toClient'[c][i].kind # "LOGIN_SUCCESS" /\ state'[c] = "SENT_CLIENT_INFORMATION"
    <3>1. ~InChat(c) => state'[c] = state[c]
      BY <2>5
    <3> QED
      BY <1>4, <2>4, <2>6, <3>1 DEF Turns
  <2>11. /\ \A i, j \in LoginDown(c)' : i = j
         /\ LoginUp(c)' = {} \/ LoginDown(c)' = {}
         /\ c \notin cut' /\ ~InChat(c)' => LoginUp(c)' # {} \/ LoginDown(c)' # {}
    BY <1>4, <2>4, <2>6, <2>8, <2>9 DEF Turns
  <2> QED
    BY <1>4, <2>7, <2>8, <2>10, <2>11 DEF Turns
<1>9. ASSUME NEW kind \in LoginKinds, NEW who \in Names \cup {NULL},
             wire' = << send_packet(c, kind, who) >>,
             kind = "LOGIN_SUCCESS" => state' = [state EXCEPT ![c] = "NOT_IN_CHANNEL"],
             kind # "LOGIN_SUCCESS" => state' = [state EXCEPT ![c] = "SENT_CLIENT_INFORMATION"],
             p.code # "SID_CHATCOMMAND"
      PROVE  Turns(c)'
  <2>1. 1 \in LoginUp(c) /\ LoginDown(c) = {} /\ \A i \in LoginUp(c) : i = 1
    BY <1>4, <1>6, <1>9 DEF Turns
  <2>2. LoginUp(c)' = {}
    <3>1. \A i \in LoginUp(c)' : i + 1 = 1 /\ i \in Nat \ {0}
      BY <1>6, <2>1
    <3> QED
      BY <3>1
  <2>3. send_packet(c, kind, who) \in Letters
    BY LetterTo
  <2>4. Received(c) = << send_packet(c, kind, who) >>
    BY <1>1, <1>2, <1>9, <2>3, NewsAreLetters, HearsOnce
  <2>5. send_packet(c, kind, who).kind = kind
    BY DEF send_packet, Packet
  <2>6. PICK k : LoginDown(c)' = {k} /\ toClient'[c][k] = send_packet(c, kind, who)
    BY <1>1, <1>7, <2>1, <2>3, <2>4, <2>5, DownGetsOne
  <2>7. IF InChat(c)' THEN kind = "LOGIN_SUCCESS"
        ELSE kind # "LOGIN_SUCCESS" /\ state'[c] = "SENT_CLIENT_INFORMATION"
    <3>1. state \in [Users -> States \cup {NULL}]
      BY <1>1 DEF IInv, TypeOK
    <3> QED
      BY <1>9, <3>1 DEF InChat
  <2> QED
    BY <2>2, <2>5, <2>6, <2>7 DEF Turns
<1> QED
  BY <1>1, <1>8, <1>9, ServeSays

-----------------------------------------------------------------------------
(* The other steps *)
LEMMA SameTurns ==
  ASSUME NEW d \in Users, Turns(d), toServer'[d] = toServer[d], toClient'[d] = toClient[d],
         state'[d] = state[d], d = caller' <=> d = caller, d \notin cut' => d \notin cut
  PROVE  Turns(d)'
<1>1. LoginUp(d)' = LoginUp(d) /\ LoginDown(d)' = LoginDown(d)
  BY DEF LoginUp, LoginDown
<1>2. \A code : Takes(d, code)' = Takes(d, code)
  BY DEF Takes, InChat
<1>3. InChat(d)' = InChat(d)
  BY DEF InChat
<1> QED
  BY <1>1, <1>2, <1>3 DEF Turns

LEMMA NothingWritten ==
  ASSUME ClientTypes, wire' = << >>, Deliver, NEW d \in Users, NothingSaid
  PROVE  toClient'[d] = toClient[d]
<1>1. wire' \in Seq({})
  OBVIOUS
<1>2. Received(d) \in Seq({})
  BY <1>1, ReceivedInside
<1>3. Received(d) = << >>
  BY <1>2
<1>4. toClient[d] \in Seq(Letters)
  BY DEF ClientTypes
<1> QED
  BY <1>3, <1>4 DEF Deliver, Clients, NothingSaid

LEMMA ShortTurns ==
  ASSUME RInv, LInv, NEW c \in Users, ServerReadsShort(c), NEW d \in Users, Running(d)', HasLink(d)'
  PROVE  Turns(d)'
<1>1. /\ ClientTypes /\ NothingSaid
      /\ wire' = << >> /\ Deliver
      /\ UNCHANGED <<state, room, net, caller, client>>
  BY DEF LInv, ServerReadsShort, Delivered, Ignore, sessions, net
<1>2. Running(d) /\ HasLink(d)
  BY <1>1 DEF Running, HasLink, Connected, net
<1>3. Turns(d)
  BY <1>2 DEF LInv, AllTurns
<1>4. toClient'[d] = toClient[d]
  BY <1>1, NothingWritten
<1>5. CASE d # c
  <2>1. toServer'[d] = toServer[d] /\ (d \notin cut' => d \notin cut)
    BY <1>1, <1>5 DEF ServerReadsShort, ClientTypes
  <2> QED
    BY <1>1, <1>3, <1>4, <2>1, SameTurns
<1>6. CASE d = c
  <2>1. toServer[c] # << >> /\ toServer'[c] = Tail(toServer[c])
    BY <1>1 DEF ServerReadsShort, ClientTypes
  <2>2. /\ \A i \in LoginUp(c)' : i + 1 \in LoginUp(c) /\ toServer'[c][i] = toServer[c][i + 1]
        /\ LoginUp(c)' \subseteq Nat \ {0}
    BY <1>1, <2>1, UpShrinks
  <2>3. LoginDown(c)' = LoginDown(c)
    BY <1>4, <1>6 DEF LoginDown
  <2>4. \A code : Takes(c, code)' = Takes(c, code)
    BY <1>1 DEF Takes, InChat
  <2>5. c \in cut' \/ InChat(c)
    BY DEF ServerReadsShort, RInv, BlankUntilLogin
  <2>6. InChat(c)' = InChat(c) /\ state'[c] = state[c]
    BY <1>1 DEF InChat
  <2>7. \A i, j \in LoginUp(c)' : i = j
    <3>1. \A i, j \in LoginUp(c)' : i + 1 = j + 1 /\ i \in Nat /\ j \in Nat
      BY <1>3, <1>6, <2>2 DEF Turns
    <3> QED
      BY <3>1
  <2>8. \A i \in LoginUp(c)' :
          IF c = caller THEN toServer'[c][i].code = "SID_CLIENT_INFORMATION"
          ELSE Takes(c, toServer[c][i].code)'
    <3>1. \A i \in LoginUp(c) :
            IF c = caller THEN toServer[c][i].code = "SID_CLIENT_INFORMATION"
            ELSE Takes(c, toServer[c][i].code)
      BY <1>3, <1>6 DEF Turns
    <3> QED
      BY <2>2, <2>4, <3>1
  <2>9. /\ \A i, j \in LoginDown(c)' : i = j
        /\ LoginUp(c)' = {} \/ LoginDown(c)' = {}
        /\ \A i \in LoginDown(c)' :
             IF InChat(c)' THEN toClient'[c][i].kind = "LOGIN_SUCCESS"
             ELSE toClient'[c][i].kind # "LOGIN_SUCCESS" /\ state'[c] = "SENT_CLIENT_INFORMATION"
    BY <1>3, <1>4, <1>6, <2>2, <2>3, <2>6 DEF Turns
  <2> QED
    BY <1>1, <1>6, <2>5, <2>6, <2>7, <2>8, <2>9 DEF Turns
<1> QED
  BY <1>5, <1>6

LEMMA HangsUpTurns ==
  ASSUME RInv, LInv, NEW c \in Users, HangsUp(c), NEW d \in Users, Running(d)', HasLink(d)'
  PROVE  Turns(d)'
<1>1. /\ ClientTypes /\ NothingSaid
      /\ wire' = << >> /\ Deliver
      /\ UNCHANGED <<state, caller, cut>>
  BY DEF LInv, HangsUp, Delivered, CloseOld, CloseNew, sessions
<1>2. d # c /\ Running(d)
  BY <1>1 DEF HangsUp, Running, ClientTypes
<1>3. HasLink(d)
  <2>1. owner' = [owner EXCEPT ![sock[c]] = NULL]
    BY DEF HangsUp, CloseOld, CloseNew, close
  <2> QED
    BY <1>1, <2>1, NullAssumption DEF HasLink, Connected, RInv, IInv, TypeOK
<1>4. toClient'[d] = toClient[d] /\ toServer'[d] = toServer[d]
  BY <1>1, <1>2, NothingWritten DEF HangsUp, ClientTypes
<1> QED
  BY <1>1, <1>2, <1>3, <1>4, SameTurns DEF LInv, AllTurns

LEMMA SelectTurns ==
  ASSUME RInv, LInv, do_select, NEW d \in Users, Running(d)', HasLink(d)'
  PROVE  Turns(d)'
<1>1. UNCHANGED <<client, toServer, toClient, cut>>
  BY DEF do_select
<1>2. Running(d)
  BY <1>1 DEF Running
<1>3. CASE UNCHANGED <<state, net, caller>>
  <2>1. HasLink(d)
    BY <1>3 DEF HasLink, Connected, net
  <2> QED
    BY <1>1, <1>2, <1>3, <2>1, SameTurns DEF LInv, AllTurns
<1>4. CASE Select /\ caller' = NULL /\ (backlog => caller \in new_users')
  <2>1. CASE ~backlog
    <3>1. UNCHANGED <<state, net>> /\ caller = NULL
      BY <1>4, <2>1 DEF Select, LInv, CallerWaits
    <3> QED
      BY <1>3, <1>4, <3>1
  <2>2. CASE backlog
    <3>1. PICK u \in Users, f \in Fds : Accept(u, f)
      BY <1>4, <2>2 DEF Select
    <3>2. caller # NULL /\ caller \notin new_users
      BY <2>2, NullAssumption DEF LInv, CallerWaits, RInv, IInv, UsersPartition, States
    <3>3. u = caller
      BY <1>4, <2>2, <3>1, <3>2 DEF Accept
    <3>4. /\ state' = [state EXCEPT ![u] = "CONNECTED"]
          /\ owner' = [owner EXCEPT ![f] = u]
      BY <3>1 DEF Accept
    <3>5. HasLink(d)
      BY <1>4, <3>3, <3>4, NullAssumption DEF HasLink, Connected, RInv, IInv, TypeOK
    <3>6. Turns(d)
      BY <1>2, <3>5 DEF LInv, AllTurns
    <3>7. CASE d # caller
      <4>1. state'[d] = state[d] /\ d # caller'
        BY <1>4, <3>3, <3>4, <3>7, NullAssumption DEF RInv, IInv, TypeOK
      <4> QED
        BY <1>1, <3>6, <3>7, <4>1, SameTurns
    <3>8. CASE d = caller
      <4>1. LoginUp(d)' = LoginUp(d) /\ LoginDown(d)' = LoginDown(d)
        BY <1>1 DEF LoginUp, LoginDown
      <4>2. LoginDown(d) = {}
        BY <3>8 DEF LInv, NothingSaid, LoginDown
      <4>3. state'[d] = "CONNECTED" /\ d # caller'
        BY <1>4, <3>3, <3>4, <3>8, NullAssumption DEF RInv, IInv, TypeOK
      <4>4. \A i \in LoginUp(d) : toServer[d][i].code = "SID_CLIENT_INFORMATION"
        BY <3>6, <3>8 DEF Turns
      <4>5. Takes(d, "SID_CLIENT_INFORMATION")'
        BY <4>3 DEF Takes
      <4>6. ~InChat(d)
        BY <3>2, <3>8, NullAssumption DEF LInv, CallerWaits, InChat, States
      <4>7. \A i \in LoginUp(d)' : Takes(d, toServer[d][i].code)'
        <5>1. \A i \in LoginUp(d)' : toServer'[d][i].code = "SID_CLIENT_INFORMATION"
          BY <1>1, <4>1, <4>4
        <5> QED
          BY <4>5, <5>1
      <4> QED
        BY <1>1, <3>6, <4>1, <4>2, <4>3, <4>6, <4>7 DEF Turns
    <3> QED
      BY <3>7, <3>8
  <2> QED
    BY <2>1, <2>2
<1> QED
  BY <1>3, <1>4 DEF do_select, do_keepalive, sessions

LEMMA StartTurns ==
  ASSUME RInv, LInv, NEW c \in Users, NEW l \in Logins, Start(c, l),
         NEW d \in Users, Running(d)', HasLink(d)'
  PROVE  Turns(d)'
<1>1. /\ UNCHANGED <<state, net, toClient, cut>>
      /\ ClientTypes /\ NothingSaid /\ caller = NULL /\ caller' = c
  BY NullAssumption DEF Start, Connect, sessions, LInv, CallerWaits
<1>2. CASE d # c
  <2>1. Running(d) /\ HasLink(d) /\ toServer'[d] = toServer[d]
    BY <1>1, <1>2 DEF Start, Running, HasLink, Connected, net, ClientTypes
  <2> QED
    BY <1>1, <1>2, <2>1, SameTurns, NullAssumption DEF LInv, AllTurns
<1>3. CASE d = c
  <2> DEFINE p == Request("SID_CLIENT_INFORMATION", << >>)
  <2>1. toServer'[c] = << p >> /\ p.code = "SID_CLIENT_INFORMATION"
    BY <1>1 DEF Start, ClientTypes, Request
  <2> HIDE DEF p
  <2>2. LoginUp(c)' = {1} /\ toServer'[c][1].code = "SID_CLIENT_INFORMATION"
    <3>1. DOMAIN << p >> = {1} /\ << p >>[1] = p
      OBVIOUS
    <3> QED
      BY <2>1, <3>1 DEF LoginUp
  <2>3. LoginDown(c)' = {}
    <3>1. toClient'[c] = << >>
      BY <1>1 DEF Start, NothingSaid, Open
    <3> QED
      BY <3>1 DEF LoginDown
  <2> QED
    BY <1>1, <1>3, <2>2, <2>3 DEF Turns
<1> QED
  BY <1>2, <1>3

LEMMA TypeTurns ==
  ASSUME RInv, LInv, NEW c \in Users, NEW keys \in Bursts, Type(c, keys),
         NEW d \in Users, Running(d)', HasLink(d)'
  PROVE  Turns(d)'
<1>1. /\ UNCHANGED <<state, net, client, toClient, caller, cut>>
      /\ ClientTypes
  BY DEF Type, vars, sessions, LInv
<1>2. Running(d) /\ HasLink(d) /\ Turns(d)
  BY <1>1 DEF Running, HasLink, Connected, net, LInv, AllTurns
<1>3. PICK packets \in Seq(Requests) :
        /\ Write(c, packets)
        /\ \A i \in 1..Len(packets) : packets[i].code = "SID_CHATCOMMAND"
  BY <1>1, TypeTypes
<1>4. CASE d # c
  <2>1. toServer'[d] = toServer[d]
    BY <1>1, <1>3, <1>4 DEF Write, ClientTypes
  <2> QED
    BY <1>1, <1>2, <2>1, SameTurns
<1>5. CASE d = c
  <2>1. toServer'[d] = toServer[d] \o packets
    BY <1>1, <1>2, <1>3, <1>5 DEF Write, ClientTypes
  <2>2. LoginUp(d)' = LoginUp(d) /\ \A i \in LoginUp(d) : toServer'[d][i] = toServer[d][i]
    BY <1>1, <1>3, <2>1, UpGrows
  <2>3. LoginDown(d)' = LoginDown(d) /\ toClient'[d] = toClient[d]
    BY <1>1 DEF LoginDown
  <2>4. \A code : Takes(d, code)' = Takes(d, code)
    BY <1>1 DEF Takes, InChat
  <2>5. InChat(d)' = InChat(d)
    BY <1>1 DEF InChat
  <2> QED
    BY <1>1, <1>2, <2>2, <2>3, <2>4, <2>5 DEF Turns
<1> QED
  BY <1>4, <1>5

(* A client reads a packet that is not about its login. *)
LEMMA OtherNewsTurns ==
  ASSUME LInv, NEW c \in Users, NEW kinds, Reads(c, kinds), kinds \cap LoginKinds = {},
         UNCHANGED toServer, NEW d \in Users, Turns(d)
  PROVE  Turns(d)'
<1>1. /\ UNCHANGED <<state, caller, cut>> /\ ClientTypes
      /\ toClient[c] # << >> /\ Head(toClient[c]).kind \notin LoginKinds
      /\ toClient' = [toClient EXCEPT ![c] = Tail(@)]
  BY DEF Reads, vars, sessions, LInv
<1>2. CASE d # c
  BY <1>1, <1>2, SameTurns DEF ClientTypes
<1>3. CASE d = c
  <2>1. toClient'[c] = Tail(toClient[c])
    BY <1>1 DEF ClientTypes
  <2>2. /\ \A i \in LoginDown(c)' : i + 1 \in LoginDown(c) /\ toClient'[c][i] = toClient[c][i + 1]
        /\ \A i \in LoginDown(c) : i = 1 \/ i - 1 \in LoginDown(c)'
        /\ LoginDown(c)' \subseteq Nat \ {0}
        /\ Head(toClient[c]) = toClient[c][1]
    BY <1>1, <2>1, DownShrinks
  <2>3. 1 \notin LoginDown(c)
    BY <1>1, <2>2 DEF LoginDown
  <2>4. LoginUp(c)' = LoginUp(c) /\ toServer'[c] = toServer[c]
    BY DEF LoginUp
  <2>5. \A code : Takes(c, code)' = Takes(c, code)
    BY <1>1 DEF Takes, InChat
  <2>6. InChat(c)' = InChat(c) /\ state'[c] = state[c]
    BY <1>1 DEF InChat
  <2>7. \A i, j \in LoginDown(c)' : i = j
    <3>1. \A i, j \in LoginDown(c)' : i + 1 = j + 1 /\ i \in Nat /\ j \in Nat
      BY <1>3, <2>2 DEF Turns
    <3> QED
      BY <3>1
  <2>8. LoginDown(c) = {} <=> LoginDown(c)' = {}
    BY <2>2, <2>3
  <2>9. Turns(c)
    BY <1>3
  <2>10. \A i \in LoginDown(c)' :
           IF InChat(c)' THEN toClient'[c][i].kind = "LOGIN_SUCCESS"
           ELSE toClient'[c][i].kind # "LOGIN_SUCCESS" /\ state'[c] = "SENT_CLIENT_INFORMATION"
    BY <2>2, <2>6, <2>9 DEF Turns
  <2>11. \A i \in LoginUp(c)' :
           IF c = caller' THEN toServer'[c][i].code = "SID_CLIENT_INFORMATION"
           ELSE Takes(c, toServer[c][i].code)'
    BY <1>1, <2>4, <2>5, <2>9 DEF Turns
  <2>12. /\ \A i, j \in LoginUp(c)' : i = j
         /\ LoginUp(c)' = {} \/ LoginDown(c)' = {}
         /\ c \notin cut' /\ ~InChat(c)' => LoginUp(c)' # {} \/ LoginDown(c)' # {}
    BY <1>1, <2>4, <2>6, <2>8, <2>9 DEF Turns
  <2> QED
    BY <1>3, <2>7, <2>10, <2>11, <2>12 DEF Turns
<1> QED
  BY <1>2, <1>3

(* The client answers a packet of the login with the next one. *)
LEMMA AnswerTurns ==
  ASSUME RInv, CInv, LInv, NEW c \in Users, NEW kinds, Reads(c, kinds),
         NEW kind \in LoginKinds \ Fatal, Head(toClient[c]).kind = kind, Write(c, Answer(c, kind)),
         HasLink(c), Turns(c)
  PROVE  Turns(c)'
<1>1. /\ UNCHANGED <<state, caller, cut, net>> /\ ClientTypes /\ Running(c)
      /\ toClient[c] # << >>
      /\ toClient'[c] = Tail(toClient[c])
  BY DEF Reads, vars, sessions, LInv, ClientTypes
<1>2. toServer'[c] = toServer[c] \o Answer(c, kind)
  BY <1>1 DEF Write, ClientTypes
<1>3. /\ \A i \in LoginDown(c)' : i + 1 \in LoginDown(c)
      /\ LoginDown(c)' \subseteq Nat \ {0}
      /\ Head(toClient[c]) = toClient[c][1] /\ 1 \in LoginDown(c)
  BY <1>1, DownShrinks
<1>4. LoginUp(c) = {} /\ LoginDown(c)' = {}
  <2>1. \A i \in LoginDown(c)' : i + 1 = 1 /\ i \in Nat \ {0}
    BY <1>3 DEF Turns
  <2> QED
    BY <1>3, <2>1 DEF Turns
<1>5. c # caller
  BY <1>1, NullAssumption DEF LInv, NothingSaid
<1>6. IF InChat(c) THEN kind = "LOGIN_SUCCESS"
      ELSE kind # "LOGIN_SUCCESS" /\ state[c] = "SENT_CLIENT_INFORMATION"
  BY <1>3 DEF Turns
<1>7. InChat(c)' = InChat(c) /\ state'[c] = state[c] /\ c # caller'
  BY <1>1, <1>5 DEF InChat
<1>8. login[c] \in Logins
  BY <1>1 DEF CInv, Prompted, Running
<1>9. Answer(c, kind) \in Seq(Requests)
  BY <1>1, <1>8, AnswerTypes
<1>10. CASE kind = "LOGIN_SUCCESS"
  <2>1. Answer(c, kind) = << AutoJoin(c) >>
    BY <1>10 DEF Answer
  <2>2. \A i \in 1..Len(Answer(c, kind)) : Answer(c, kind)[i].code = "SID_CHATCOMMAND"
    BY <2>1 DEF AutoJoin, ChatCommand, Request
  <2>3. LoginUp(c)' = {}
    BY <1>1, <1>2, <1>4, <1>9, <2>2, UpGrows
  <2>4. InChat(c)
    BY <1>6, <1>10
  <2> QED
    BY <1>4, <1>7, <2>3, <2>4 DEF Turns
<1>11. CASE kind # "LOGIN_SUCCESS"
  <2>1. state'[c] = "SENT_CLIENT_INFORMATION" /\ ~InChat(c)
    BY <1>6, <1>7, <1>11 DEF InChat
  <2>2. PICK code \in {"SID_LOGIN", "SID_CREATE"} : Answer(c, kind) = << Request(code, << >>) >>
    BY <1>11 DEF Answer, LoginKinds, LoginResponses, CreateResponses, Fatal
  <2> DEFINE p == Request(code, << >>)
  <2>3. p.code = code /\ p.code # "SID_CHATCOMMAND"
    BY DEF Request
  <2>4. p \in Requests
    <3>1. << >> \in Seq(Words)
      OBVIOUS
    <3> QED
      BY <3>1 DEF Request, Requests, Codes
  <2> HIDE DEF p
  <2>5. toServer'[c] = toServer[c] \o << p >>
    BY <1>2, <2>2 DEF p
  <2>6. PICK k : LoginUp(c)' = {k} /\ toServer'[c][k] = p
    BY <1>1, <1>4, <2>3, <2>4, <2>5, UpGetsOne
  <2>7. Takes(c, code)'
    BY <2>1 DEF Takes
  <2>8. \A i \in LoginUp(c)' : Takes(c, toServer[c][i].code)'
    <3>1. \A i \in LoginUp(c)' : toServer'[c][i].code = code
      BY <2>3, <2>6
    <3> QED
      BY <2>7, <3>1
  <2> QED
    BY <1>4, <1>7, <2>6, <2>8 DEF Turns
<1> QED
  BY <1>10, <1>11

LEMMA ReceiveTurns ==
  ASSUME RInv, CInv, LInv, NEW c \in Users, Receive(c), NEW d \in Users, Running(d)', HasLink(d)'
  PROVE  Turns(d)'
<1>1. UNCHANGED <<state, net, caller, cut>> /\ ClientTypes
  BY DEF Receive, Reads, ConnectionClosed, ProcessResponse, process_SID_SERVER_INFORMATION,
       process_SID_LOGIN_RESPONSE, process_SID_CREATE_RESPONSE, process_SID_CHATEVENT,
       process_SID_ERROR, vars, sessions, LInv
<1>2. UNCHANGED client \/ display_error(c)
  BY DEF Receive, ConnectionClosed, ProcessResponse, process_SID_SERVER_INFORMATION,
       process_SID_LOGIN_RESPONSE, process_SID_CREATE_RESPONSE, process_SID_CHATEVENT,
       process_SID_ERROR
<1>3. Running(d) /\ HasLink(d)
  BY <1>1, <1>2 DEF Running, HasLink, Connected, net, display_error, ClientTypes
<1>4. Turns(d)
  BY <1>3 DEF LInv, AllTurns
<1>5. ASSUME NEW kind \in LoginKinds \ Fatal, NEW kinds, Reads(c, kinds),
             Head(toClient[c]).kind = kind, Write(c, Answer(c, kind))
      PROVE  Turns(d)'
  <2>1. CASE d = c
    BY <1>3, <1>4, <1>5, <2>1, AnswerTurns
  <2>2. CASE d # c
    <3>1. toServer'[d] = toServer[d] /\ toClient'[d] = toClient[d]
      BY <1>1, <1>5, <2>2 DEF Write, Reads, ClientTypes
    <3> QED
      BY <1>1, <1>4, <3>1, SameTurns
  <2> QED
    BY <2>1, <2>2
<1>6. CASE process_SID_SERVER_INFORMATION(c)
  <2>1. "SID_SERVER_INFORMATION" \in LoginKinds \ Fatal
    BY DEF LoginKinds, Fatal
  <2>2. Head(toClient[c]).kind = "SID_SERVER_INFORMATION"
    BY <1>6 DEF process_SID_SERVER_INFORMATION, Reads
  <2> QED
    BY <1>5, <1>6, <2>1, <2>2 DEF process_SID_SERVER_INFORMATION
<1>7. ASSUME NEW kinds, kinds \subseteq LoginKinds, ProcessResponse(c, kinds) PROVE Turns(d)'
  <2>1. Reads(c, kinds) /\ Head(toClient[c]).kind \in LoginKinds
    BY <1>7 DEF ProcessResponse, Reads
  <2>2. CASE display_error(c) /\ UNCHANGED toServer
    <3>1. d # c
      BY <1>1, <2>2 DEF display_error, Running, ClientTypes
    <3>2. toServer'[d] = toServer[d] /\ toClient'[d] = toClient[d]
      BY <1>1, <2>1, <2>2, <3>1 DEF Reads, ClientTypes
    <3> QED
      BY <1>1, <1>4, <3>2, SameTurns
  <2> QED
    BY <1>5, <1>7, <2>1, <2>2 DEF ProcessResponse
<1>8. CASE process_SID_CHATEVENT(c)
  <2>1. ChatEvents \cap LoginKinds = {}
    BY DEF ChatEvents, RoomEvents, LoginKinds, LoginResponses, CreateResponses
  <2> QED
    BY <1>4, <1>8, <2>1, OtherNewsTurns DEF process_SID_CHATEVENT
<1>9. CASE process_SID_ERROR(c)
  <2>1. {"SID_ERROR"} \cap LoginKinds = {}
    BY DEF LoginKinds, LoginResponses, CreateResponses
  <2> QED
    BY <1>4, <1>9, <2>1, OtherNewsTurns DEF process_SID_ERROR
<1>10. CASE ConnectionClosed(c)
  BY <1>1, <1>4, <1>10, SameTurns DEF ConnectionClosed
<1> QED
  BY <1>6, <1>7, <1>8, <1>9, <1>10
     DEF Receive, process_SID_LOGIN_RESPONSE, process_SID_CREATE_RESPONSE, LoginKinds

LEMMA EndsTurns ==
  ASSUME RInv, LInv, NEW c \in Users, Ends(c), NEW d \in Users, Running(d)', HasLink(d)'
  PROVE  Turns(d)'
<1>1. /\ UNCHANGED <<state, net, caller, toServer>> /\ ClientTypes
  BY DEF Ends, vars, sessions, LInv
<1>2. d # c /\ Running(d)
  BY <1>1 DEF Ends, Running, ClientTypes
<1>3. HasLink(d) /\ toClient'[d] = toClient[d] /\ (d \notin cut' => d \notin cut)
  BY <1>1, <1>2 DEF Ends, HasLink, Connected, net, ClientTypes
<1> QED
  BY <1>1, <1>2, <1>3, SameTurns DEF LInv, AllTurns

LEMMA AllTurnsStep ==
  ASSUME RInv, RInv', CInv, LInv, [Next_Chat]_<<vars, cvars>>
  PROVE  AllTurns'
<1> SUFFICES ASSUME NEW d \in Users, Running(d)', HasLink(d)' PROVE Turns(d)'
  BY DEF AllTurns
<1>1. CASE ServerDies
  BY <1>1, NullAssumption DEF ServerDies, Die, HasLink, Connected
<1>2. CASE UNCHANGED cvars /\ UNCHANGED <<state, net>>
  <2>1. Running(d) /\ HasLink(d)
    BY <1>2 DEF cvars, Running, HasLink, Connected, net
  <2> QED
    BY <1>2, <2>1, SameTurns DEF cvars, LInv, AllTurns
<1>3. ASSUME NEW c \in Users, Serve(c) PROVE Turns(d)'
  BY <1>3, ServeOwnTurns, ServeOthersTurns
<1>4. ASSUME NEW c \in Users, Arrives(c) PROVE Turns(d)'
  BY <1>2, <1>4 DEF Arrives, Arrive, sessions
<1>5. CASE UNCHANGED <<vars, cvars>>
  BY <1>2, <1>5 DEF vars, sessions
<1> QED
  BY <1>1, <1>3, <1>4, <1>5, ShortTurns, HangsUpTurns, SelectTurns, StartTurns, TypeTurns,
     ReceiveTurns, EndsTurns
     DEF Next_Chat, ServerActs, Clients, PressAnyKey, Quit

LEMMA UnconnectedHearsNothing ==
  ASSUME NEW d \in Users, ~Connected(d), wire' \in Seq(Packets)
  PROVE  Received(d) = << >>
<1>1. Reaching(d) = {}
  BY DEF Reaching, LeadsTo, Connected
<1>2. PICK f : /\ Received(d) = f[Len(wire')]
               /\ \A i \in 0..Len(wire') : f[i] \in Seq(Reaching(d))
  BY ReceivedUpto
<1>3. Len(wire') \in 0..Len(wire')
  OBVIOUS
<1>4. Received(d) \in Seq({})
  BY <1>1, <1>2, <1>3
<1> QED
  BY <1>4

LEMMA CallerUnknown ==
  ASSUME IInv, CallerWaits, NEW d \in Users, d = caller
  PROVE  state[d] = NULL /\ ~Connected(d)
<1>1. state[d] = NULL
  BY NullAssumption DEF CallerWaits
<1>2. d \notin new_users \cup OldUsers
  BY <1>1, NullAssumption DEF IInv, UsersPartition, InChat, States
<1> QED
  BY <1>1, <1>2 DEF IInv, UsersPartition

LEMMA CallerWaitsStep ==
  ASSUME IInv, CInv, ClientTypes, CallerWaits, [Next_Chat]_<<vars, cvars>>
  PROVE  CallerWaits'
<1>1. CASE UNCHANGED <<caller, backlog, state>>
  BY <1>1 DEF CallerWaits
<1>2. CASE backlog' = FALSE /\ caller' = NULL
  BY <1>2 DEF CallerWaits
<1>3. ASSUME NEW c \in Users, Serve(c) PROVE CallerWaits'
  <2>1. UNCHANGED <<backlog, caller>> /\ state[c] # NULL /\ \A d \in Users \ {c} : state'[d] = state[d]
    BY <1>3, ServeFrame
  <2>2. caller \in Users \cup {NULL}
    BY DEF ClientTypes
  <2>3. caller # NULL => caller # c
    BY <2>1, NullAssumption DEF CallerWaits
  <2>4. caller # NULL => state'[caller] = state[caller]
    BY <2>1, <2>2, <2>3
  <2> QED
    BY <2>1, <2>4 DEF CallerWaits
<1>4. ASSUME NEW c \in Users, ServerReadsShort(c) \/ HangsUp(c) \/ Arrives(c) PROVE CallerWaits'
  <2>1. UNCHANGED <<caller, backlog, state>>
    BY <1>4 DEF ServerReadsShort, HangsUp, Arrives, Ignore, CloseOld, CloseNew, Turn, Arrive, cvars,
         sessions
  <2> QED
    BY <1>1, <2>1
<1>5. ASSUME NEW c \in Users, NEW l \in Logins, Start(c, l) PROVE CallerWaits'
  BY <1>5, NullAssumption DEF Start, Connect, Unallocated, sessions, CallerWaits
<1>6. CASE do_select
  BY <1>1, <1>2, <1>6 DEF do_select, Select, do_keepalive, sessions
<1>7. CASE ServerDies
  BY <1>2, <1>7 DEF ServerDies, Die
<1>8. ASSUME UNCHANGED <<vars, caller>> PROVE CallerWaits'
  BY <1>1, <1>8 DEF vars, sessions
<1>9. ASSUME NEW c \in Users, Receive(c) PROVE UNCHANGED <<vars, caller>>
  BY <1>9 DEF Receive, Reads, ConnectionClosed, ProcessResponse, process_SID_SERVER_INFORMATION,
       process_SID_LOGIN_RESPONSE, process_SID_CREATE_RESPONSE, process_SID_CHATEVENT,
       process_SID_ERROR
<1>10. ASSUME NEW c \in Users, Ends(c) \/ \E keys \in Bursts : Type(c, keys)
       PROVE  UNCHANGED <<vars, caller>>
  BY <1>10 DEF Ends, Type
<1>11. CASE UNCHANGED <<vars, cvars>>
  BY <1>8, <1>11 DEF cvars
<1> QED
  BY <1>3, <1>4, <1>5, <1>6, <1>7, <1>8, <1>9, <1>10, <1>11
     DEF Next_Chat, ServerActs, Clients, PressAnyKey, Quit

LEMMA NothingSaidStep ==
  ASSUME IInv, CInv, LInv, [Next_Chat]_<<vars, cvars>>
  PROVE  NothingSaid'
<1>1. ClientTypes /\ CallerWaits /\ NothingSaid
  BY DEF LInv
<1> SUFFICES ASSUME NEW d \in Users, ~Open(d)' \/ d = caller'
             PROVE  toClient'[d] = << >> /\ window'[d] = NoWindow
  BY DEF NothingSaid
<1>2. CASE UNCHANGED <<client, toClient, window>> /\ (caller' = caller \/ caller' = NULL)
  BY <1>1, <1>2, NullAssumption DEF NothingSaid, Open
<1>3. ASSUME NEW c \in Users, Serve(c) PROVE toClient'[d] = << >> /\ window'[d] = NoWindow
  <2>1. UNCHANGED <<caller, client, window>> /\ wire' \in Seq(Packets)
    <3>1. UNCHANGED <<caller, client, window>>
      BY <1>3 DEF Serve
    <3>2. wire' \in Seq(Letters)
      BY <1>3, ServerWrites
    <3> QED
      BY <3>1, <3>2, NewsAreLetters
  <2>2. toClient'[d] = IF Open(d) THEN toClient[d] \o Received(d) ELSE << >>
    BY <1>3 DEF Serve, Delivered, Deliver, Clients
  <2>3. toClient[d] = << >> /\ window[d] = NoWindow
    BY <1>1, <2>1 DEF NothingSaid, Open
  <2>4. d = caller => Received(d) = << >>
    BY <1>1, <2>1, CallerUnknown, UnconnectedHearsNothing
  <2> QED
    BY <2>1, <2>2, <2>3, <2>4 DEF Open
<1>4. ASSUME NEW c \in Users, ServerReadsShort(c) \/ HangsUp(c)
      PROVE  toClient'[d] = << >> /\ window'[d] = NoWindow
  <2>1. /\ wire' = << >> /\ Deliver /\ UNCHANGED <<caller, window>>
    BY <1>4 DEF ServerReadsShort, HangsUp, Ignore, CloseOld, CloseNew, Delivered
  <2>2. toClient'[d] = toClient[d]
    BY <1>1, <2>1, NothingWritten
  <2>3. ~Open(d) \/ d = caller
    BY <1>1, <1>4, <2>1 DEF ServerReadsShort, HangsUp, Open, ClientTypes
  <2> QED
    BY <1>1, <2>1, <2>2, <2>3 DEF NothingSaid
<1>5. CASE ServerDies
  BY <1>1, <1>5, NullAssumption DEF ServerDies, NothingSaid, Open, Clients
<1>6. ASSUME NEW c \in Users, NEW l \in Logins, Start(c, l)
      PROVE  toClient'[d] = << >> /\ window'[d] = NoWindow
  BY <1>1, <1>6 DEF Start, NothingSaid, Open, ClientTypes
<1>7. ASSUME NEW c \in Users, Receive(c) PROVE toClient'[d] = << >> /\ window'[d] = NoWindow
  <2>1. /\ Running(c) /\ client'[c] \in {"running", "fatal"} /\ UNCHANGED caller
        /\ \A e \in Users \ {c} : client'[e] = client[e] /\ toClient'[e] = toClient[e]
                                  /\ window'[e] = window[e]
    BY <1>1, <1>7 DEF Receive, Reads, ConnectionClosed, ProcessResponse,
         process_SID_SERVER_INFORMATION, process_SID_LOGIN_RESPONSE, process_SID_CREATE_RESPONSE,
         process_SID_CHATEVENT, process_SID_ERROR, display_error, Running, ClientTypes
  <2>2. ASSUME c = caller PROVE FALSE
    <3>1. toClient[c] # << >> \/ ConnectionClosed(c)
      BY <1>7 DEF Receive, Reads, ProcessResponse, process_SID_SERVER_INFORMATION,
         process_SID_LOGIN_RESPONSE, process_SID_CREATE_RESPONSE, process_SID_CHATEVENT,
         process_SID_ERROR
    <3> QED
      BY <1>1, <2>2, <3>1 DEF NothingSaid, ConnectionClosed, HasLink
  <2>3. d # c
    BY <2>1, <2>2 DEF Open
  <2> QED
    BY <1>1, <2>1, <2>3 DEF NothingSaid, Open
<1>8. ASSUME NEW c \in Users, Ends(c) PROVE toClient'[d] = << >> /\ window'[d] = NoWindow
  BY <1>1, <1>8 DEF Ends, NothingSaid, Open, ClientTypes
<1>9. ASSUME NEW c \in Users, NEW keys, Type(c, keys) PROVE toClient'[d] = << >> /\ window'[d] = NoWindow
  BY <1>2, <1>9 DEF Type
<1>10. CASE do_select
  BY <1>2, <1>10 DEF do_select
<1>11. CASE UNCHANGED cvars
  BY <1>2, <1>11 DEF cvars
<1> QED
  BY <1>3, <1>4, <1>5, <1>6, <1>7, <1>8, <1>9, <1>10, <1>11
     DEF Next_Chat, ServerActs, Clients, PressAnyKey, Quit, Arrives

LEMMA LInvStep ==
  ASSUME RInv, RInv', CInv, LInv, [Next_Chat]_<<vars, cvars>>
  PROVE  LInv'
<1>1. IInv
  BY DEF RInv
<1> QED
  BY <1>1, ClientTypesStep, CallerWaitsStep, NothingSaidStep, AllTurnsStep DEF LInv

(* Throughout, the rooms agree with the sessions, the clients' variables   *)
(* have their types, and every login is where its packets say it is.       *)
THEOREM LoginsInvariance == ChatSpec => [](RInv /\ CInv /\ LInv)
<1>1. Init_Chat => LInv
  BY InitLInv
<1>2. RInv /\ RInv' /\ CInv /\ LInv /\ [Next_Chat]_<<vars, cvars>> => LInv'
  BY LInvStep
<1> QED
  BY <1>1, <1>2, InitCInv, CInvStep, ChatImplementsServer, RoomsInvariance, PTL DEF ChatSpec

(* Until a client is in chat exactly one packet of its login is under way, *)
(* and the session is in the state in which the server takes it.           *)
THEOREM LoginsTakeTurns == ChatSpec => []LoginTakesTurns
<1>1. RInv /\ LInv => LoginTakesTurns
  BY TurnsSuffice DEF RInv
<1> QED
  BY <1>1, LoginsInvariance, PTL

-----------------------------------------------------------------------------
(* What is typed *)

LEMMA NothingTyped == NoLine \in TypedLines /\ NoLine.text = << >> /\ NoLine.at = 0 /\ NoLine.sent = << >>
  BY RoomAssumption DEF NoLine, Line, TypedLines

(* All that TypedAsMeant looks at is one run over the keys. *)
LEMMA OneTyping ==
  ASSUME NEW keys \in Seq(Keys)
  PROVE  \E g : /\ Typing(g, NoLine, keys)
                /\ \A k \in 0..Len(keys) : After(keys, k) = g[k].sent
<1>1. PICK g : Typing(g, NoLine, keys)
  BY NothingTyped, TypingExists
<1>2. ASSUME NEW k \in 0..Len(keys) PROVE After(keys, k) = g[k].sent
  <2> DEFINE p == SubSeq(keys, 1, k)
  <2>1. k \in Nat /\ k <= Len(keys) /\ Len(keys) \in Nat
    OBVIOUS
  <2>2. p \in Seq(Keys) /\ Len(p) = k /\ \A j \in 1..k : p[j] = keys[j]
    <3>1. \A j \in 1..k : j \in 1..Len(keys) /\ keys[j] \in Keys
      BY <2>1
    <3>2. /\ p \in Seq(Keys) /\ Len(p) = (IF 1 <= k THEN k - 1 + 1 ELSE 0)
          /\ \A j \in 1..(k - 1 + 1) : p[j] = keys[1 + j - 1]
      BY <2>1, <3>1, SubSeqProperties
    <3>3. k - 1 + 1 = k /\ (IF 1 <= k THEN k - 1 + 1 ELSE 0) = k /\ \A j \in 1..k : 1 + j - 1 = j
      BY <2>1
    <3> QED
      BY <3>2, <3>3
  <2>3. After(keys, k) = Typed(NoLine, p).sent
    BY DEF After
  <2> HIDE DEF p
  <2>4. PICK q : Typing(q, NoLine, p) /\ Typed(NoLine, p) = q[Len(p)]
    BY <2>2, NothingTyped, TypingExists
  <2>5. g[0] = q[0]
    BY <1>1, <2>4 DEF Typing
  <2>6. ASSUME NEW i \in 1..k, g[i - 1] = q[i - 1] PROVE g[i] = q[i]
    <3>1. i \in 1..Len(keys)
      BY <2>1
    <3> QED
      BY <1>1, <2>2, <2>4, <2>6, <3>1 DEF Typing
  <2>7. g[k] = q[k]
    BY <2>1, <2>5, <2>6, SameRun
  <2> QED
    BY <2>2, <2>3, <2>4, <2>7
<1> QED
  BY <1>1, <1>2

(* A key hands out one line, or none; the one it hands out is the buffer's *)
(* text, which is then written over from its start.                        *)
HandsOut(l, key, m) ==
  /\ m.sent = Append(l.sent, m.text) /\ m.at = 0
  /\ \/ key = ENTER /\ m.text = l.text
     \/ /\ key \in Words /\ l.at + 1 = MAX_MESSAGE
        /\ m.text = Append(SubSeq(l.text, 1, l.at), key)
GoesOn(l, key, m) ==
  /\ m.sent = l.sent /\ key # ENTER
  /\ \/ key = BACKSPACE /\ l.at = 0 /\ m = l
     \/ /\ key = BACKSPACE /\ l.at # 0 /\ m.at = l.at - 1
        /\ m.text = SubSeq(l.text, 1, l.at - 1)
     \/ /\ key \in Words /\ m.at = l.at + 1
        /\ m.text = Append(SubSeq(l.text, 1, l.at), key)

LEMMA EachKey ==
  ASSUME NEW l \in TypedLines, NEW key \in Keys
  PROVE  \/ /\ HandsOut(l, key, read_next(l, key))
            /\ Len(read_next(l, key).sent) = Len(l.sent) + 1
            /\ read_next(l, key).sent[Len(read_next(l, key).sent)] = read_next(l, key).text
         \/ GoesOn(l, key, read_next(l, key))
<1> DEFINE m == read_next(l, key)
           text == Append(SubSeq(l.text, 1, l.at), key)
<1>1. /\ l.text \in Seq(Words) /\ l.at \in 0..(MAX_MESSAGE - 1) /\ l.sent \in Seq(Seq(Words))
      /\ MAX_MESSAGE \in Nat
  BY LineFields, RoomAssumption
<1>2. ASSUME NEW t \in Seq(Words), m.sent = Append(l.sent, t), m.text = t
      PROVE  Len(m.sent) = Len(l.sent) + 1 /\ m.sent[Len(m.sent)] = m.text
  <2> HIDE DEF m
  <2> QED
    BY <1>1, <1>2, AppendProperties
<1>3. CASE key = ENTER
  <2>1. m = HandOut(l)
    BY <1>3 DEF read_next, PressEnter
  <2> HIDE DEF m
  <2>2. m.text = l.text /\ m.at = 0 /\ m.sent = Append(l.sent, l.text)
    BY <2>1, HandedOutLine
  <2>3. HandsOut(l, key, m)
    BY <1>3, <2>2 DEF HandsOut
  <2> QED
    BY <1>1, <1>2, <2>2, <2>3 DEF m
<1>4. CASE key = BACKSPACE
  <2>1. m = PressBackspace(l) /\ key # ENTER /\ key \notin Words
    BY <1>4, KeysAssumption DEF read_next
  <2>2. CASE l.at = 0
    BY <1>4, <2>1, <2>2 DEF PressBackspace, GoesOn
  <2>3. CASE l.at # 0
    <3> DEFINE kept == SubSeq(l.text, 1, l.at - 1)
    <3>1. m = Store(l, kept)
      BY <2>1, <2>3 DEF PressBackspace
    <3>2. kept \in Seq(Words) /\ Len(kept) = l.at - 1 /\ Len(kept) \in 0..MAX_MESSAGE
      BY <1>1, <2>3, TextsTyped
    <3> HIDE DEF m, kept
    <3>3. m.sent = l.sent /\ m.at = l.at - 1 /\ m.text = kept
      BY <3>1, <3>2, StoredLine
    <3>4. GoesOn(l, key, m)
      BY <1>4, <2>1, <2>3, <3>3 DEF GoesOn, kept
    <3> QED
      BY <3>4 DEF m
  <2> QED
    BY <2>2, <2>3
<1>5. CASE key \in Words
  <2>1. m = PressWord(l, key) /\ key # ENTER /\ key # BACKSPACE
    BY <1>5, KeysAssumption DEF read_next
  <2>2. m = IF Store(l, text).at >= MAX_MESSAGE THEN HandOut(Store(l, text)) ELSE Store(l, text)
    BY <2>1 DEF PressWord
  <2>3. text \in Seq(Words) /\ Len(text) = l.at + 1 /\ Len(text) \in 0..MAX_MESSAGE
    BY <1>1, <1>5, TextsTyped
  <2> HIDE DEF m, text
  <2>4. CASE ~(l.at + 1 >= MAX_MESSAGE)
    <3>1. Store(l, text).at = l.at + 1
      BY <2>3, StoredLine
    <3>2. m = Store(l, text)
      BY <2>2, <2>4, <3>1
    <3>3. m.sent = l.sent /\ m.at = l.at + 1 /\ m.text = text
      BY <2>3, <3>2, StoredLine
    <3>4. GoesOn(l, key, m)
      BY <1>5, <2>1, <3>3 DEF GoesOn, text
    <3> QED
      BY <3>4 DEF m
  <2>5. CASE l.at + 1 >= MAX_MESSAGE
    <3>1. Store(l, text).at = l.at + 1
      BY <2>3, StoredLine
    <3>2. m = HandOut(Store(l, text)) /\ l.at + 1 = MAX_MESSAGE
      BY <1>1, <2>2, <2>5, <3>1
    <3>3. m.sent = Append(l.sent, text) /\ m.at = 0 /\ m.text = text
      BY <2>3, <3>2, StoredLine
    <3>4. HandsOut(l, key, m)
      BY <1>5, <3>2, <3>3 DEF HandsOut, text
    <3>5. Len(m.sent) = Len(l.sent) + 1 /\ m.sent[Len(m.sent)] = m.text
      BY <1>2, <2>3, <3>3 DEF m
    <3> QED
      BY <3>4, <3>5 DEF m
  <2> QED
    BY <2>4, <2>5
<1> QED
  BY <1>3, <1>4, <1>5 DEF Keys

LEMMA CountNext ==
  ASSUME NEW keys, NEW a \in Int, NEW b \in Int, a <= b + 1, NEW of
  PROVE  /\ Count(keys, a, b, of) \in Nat
         /\ Count(keys, a, b + 1, of) = Count(keys, a, b, of) + IF keys[b + 1] \in of THEN 1 ELSE 0
<1> DEFINE S == {k \in a..b : keys[k] \in of}
           T == {k \in a..(b + 1) : keys[k] \in of}
<1>1. IsFiniteSet(S)
  <2>1. IsFiniteSet(a..b) /\ S \in SUBSET (a..b)
    BY FS_Interval
  <2> HIDE DEF S
  <2> QED
    BY <2>1, FS_Subset
<1>2. T = IF keys[b + 1] \in of THEN S \cup {b + 1} ELSE S
  OBVIOUS
<1>3. b + 1 \notin S
  OBVIOUS
<1>4. Count(keys, a, b, of) = Cardinality(S) /\ Count(keys, a, b + 1, of) = Cardinality(T)
  BY DEF Count
<1> HIDE DEF S, T
<1>5. Cardinality(S) \in Nat
  BY <1>1, FS_CardinalityType
<1>6. Cardinality(S \cup {b + 1}) = Cardinality(S) + 1
  BY <1>1, <1>3, FS_AddElement
<1> QED
  BY <1>2, <1>4, <1>5, <1>6

LEMMA CountNone ==
  ASSUME NEW keys, NEW a \in Int, NEW of
  PROVE  Count(keys, a + 1, a, of) = 0
<1>1. {k \in (a + 1)..a : keys[k] \in of} = {}
  OBVIOUS
<1> QED
  BY <1>1, FS_EmptySet DEF Count

(* Backspaces outnumber the words behind key e, of the keys up to k. *)
Erased(keys, e, k) ==
  ~(Count(keys, e + 1, k, {BACKSPACE}) <= Count(keys, e + 1, k, Words))

LEMMA StandsNext ==
  ASSUME NEW keys, NEW i \in Int, NEW k \in Int, i <= k + 1
  PROVE  /\ \A e \in i..k : e \in Stands(keys, i, k + 1) <=>
                              e \in Stands(keys, i, k) /\ ~Erased(keys, e, k + 1)
         /\ k + 1 \in Stands(keys, i, k + 1) <=> keys[k + 1] \in Words
<1> DEFINE Fine(e, f) == Count(keys, e + 1, f, {BACKSPACE}) <= Count(keys, e + 1, f, Words)
<1>1. \A d : Stands(keys, i, d) = {e \in i..d : keys[e] \in Words /\ \A f \in e..d : Fine(e, f)}
  BY DEF Stands
<1>2. \A e \in Int : Erased(keys, e, k + 1) <=> ~Fine(e, k + 1)
  BY DEF Erased
<1>3. Fine(k + 1, k + 1)
  <2>1. Count(keys, (k + 1) + 1, k + 1, {BACKSPACE}) = 0 /\ Count(keys, (k + 1) + 1, k + 1, Words) = 0
    BY CountNone
  <2> QED
    BY <2>1
<1> HIDE DEF Fine
<1>4. ASSUME NEW e \in i..k
      PROVE  e \in Stands(keys, i, k + 1) <=> e \in Stands(keys, i, k) /\ ~Erased(keys, e, k + 1)
  <2>1. e \in i..(k + 1) /\ \A f : f \in e..(k + 1) <=> f \in e..k \/ f = k + 1
    OBVIOUS
  <2> QED
    BY <1>1, <1>2, <2>1
<1>5. k + 1 \in Stands(keys, i, k + 1) <=> keys[k + 1] \in Words
  <2>1. k + 1 \in i..(k + 1) /\ \A f : f \in (k + 1)..(k + 1) => f = k + 1
    OBVIOUS
  <2> QED
    BY <1>1, <1>3, <2>1
<1> QED
  BY <1>4, <1>5

(* The keys of the words that stand, in order: behind each of them as many *)
(* more words than backspaces as there are words that stand.               *)
Surplus(keys, e, k) == Count(keys, e + 1, k, Words) - Count(keys, e + 1, k, {BACKSPACE})

Standing(p, d, keys, i, k) ==
  /\ d \in Nat /\ p \in [1..d -> i..k]
  /\ \A m, n \in 1..d : m < n => p[m] < p[n]
  /\ {p[n] : n \in 1..d} = Stands(keys, i, k)
  /\ \A n \in 1..d : Surplus(keys, p[n], k) = d - n

LEMMA SurplusNext ==
  ASSUME NEW keys, NEW e \in Int, NEW k \in Int, e <= k, keys[k + 1] \in Words \cup {BACKSPACE}
  PROVE  /\ Surplus(keys, e, k + 1) = IF keys[k + 1] \in Words THEN Surplus(keys, e, k) + 1
                                      ELSE Surplus(keys, e, k) - 1
         /\ Surplus(keys, e, k) \in Int
         /\ Erased(keys, e, k + 1) <=> Surplus(keys, e, k + 1) < 0
<1>1. \A of : /\ Count(keys, e + 1, k, of) \in Nat
              /\ Count(keys, e + 1, k + 1, of) =
                   Count(keys, e + 1, k, of) + IF keys[k + 1] \in of THEN 1 ELSE 0
  BY CountNext
<1>2. keys[k + 1] \in Words <=> keys[k + 1] \notin {BACKSPACE}
  BY KeysAssumption
<1> QED
  BY <1>1, <1>2 DEF Surplus, Erased

LEMMA WordStands ==
  ASSUME NEW keys, NEW i \in Int, NEW k \in Int, i <= k + 1, keys[k + 1] \in Words,
         NEW p, NEW d, Standing(p, d, keys, i, k)
  PROVE  Standing([n \in 1..(d + 1) |-> IF n <= d THEN p[n] ELSE k + 1], d + 1, keys, i, k + 1)
<1> DEFINE q == [n \in 1..(d + 1) |-> IF n <= d THEN p[n] ELSE k + 1]
<1>1. /\ d \in Nat /\ p \in [1..d -> i..k]
      /\ \A m, n \in 1..d : m < n => p[m] < p[n]
      /\ {p[n] : n \in 1..d} = Stands(keys, i, k)
      /\ \A n \in 1..d : Surplus(keys, p[n], k) = d - n
  BY DEF Standing
<1>2. /\ q[d + 1] = k + 1 /\ \A n \in 1..d : q[n] = p[n] /\ p[n] \in i..k
      /\ \A n \in 1..(d + 1) : n \in 1..d \/ n = d + 1
  BY <1>1
<1>3. q \in [1..(d + 1) -> i..(k + 1)]
  BY <1>1
<1> HIDE DEF q
<1>4. ASSUME NEW m \in 1..(d + 1), NEW n \in 1..(d + 1), m < n PROVE q[m] < q[n]
  <2>1. m \in 1..d /\ q[m] = p[m] /\ p[m] \in i..k
    <3>1. m \in 1..d
      BY <1>1, <1>4
    <3> QED
      BY <1>2, <3>1
  <2>2. CASE n \in 1..d
    BY <1>1, <1>2, <1>4, <2>1, <2>2
  <2>3. CASE n = d + 1
    BY <1>2, <2>1, <2>3
  <2> QED
    BY <1>2, <2>2, <2>3
<1>5. ASSUME NEW n \in 1..d PROVE Surplus(keys, q[n], k + 1) = d + 1 - n /\ ~Erased(keys, q[n], k + 1)
  <2>1. p[n] \in Int /\ p[n] <= k /\ Surplus(keys, p[n], k) = d - n /\ q[n] = p[n]
    <3>1. p[n] \in i..k
      BY <1>2
    <3>2. p[n] \in Int /\ p[n] <= k
      BY <3>1
    <3> QED
      BY <1>1, <1>2, <3>2
  <2>2. Surplus(keys, p[n], k + 1) = d - n + 1 /\ (Erased(keys, p[n], k + 1) <=> d - n + 1 < 0)
    BY <2>1, SurplusNext
  <2> QED
    BY <1>1, <2>1, <2>2
<1>6. Surplus(keys, q[d + 1], k + 1) = 0
  <2>1. \A of : Count(keys, (k + 1) + 1, k + 1, of) = 0
    BY CountNone
  <2> QED
    BY <1>2, <2>1 DEF Surplus
<1>7. \A n \in 1..(d + 1) : Surplus(keys, q[n], k + 1) = (d + 1) - n
  <2> TAKE n \in 1..(d + 1)
  <2>1. CASE n \in 1..d
    BY <1>1, <1>5, <2>1
  <2>2. CASE n = d + 1
    BY <1>1, <1>6, <2>2
  <2> QED
    BY <1>2, <2>1, <2>2
<1>8. {q[n] : n \in 1..(d + 1)} = Stands(keys, i, k + 1)
  <2>1. ASSUME NEW e \in Stands(keys, i, k + 1) PROVE \E n \in 1..(d + 1) : q[n] = e
    <3>1. e \in i..k \/ e = k + 1
      BY DEF Stands
    <3>2. CASE e \in i..k
      <4>1. e \in Stands(keys, i, k)
        BY <2>1, <3>2, StandsNext
      <4>2. PICK n \in 1..d : p[n] = e
        BY <1>1, <4>1
      <4>3. n \in 1..(d + 1)
        BY <1>1
      <4> QED
        BY <1>2, <4>2, <4>3
    <3>3. CASE e = k + 1
      <4>1. d + 1 \in 1..(d + 1)
        BY <1>1
      <4> QED
        BY <1>2, <3>3, <4>1
    <3> QED
      BY <3>1, <3>2, <3>3
  <2>2. ASSUME NEW n \in 1..(d + 1) PROVE q[n] \in Stands(keys, i, k + 1)
    <3>1. CASE n \in 1..d
      <4>1. q[n] \in Stands(keys, i, k) /\ q[n] \in i..k
        BY <1>1, <1>2, <3>1
      <4> QED
        BY <1>5, <3>1, <4>1, StandsNext
    <3>2. CASE n = d + 1
      BY <1>2, <3>2, StandsNext
    <3> QED
      BY <1>2, <3>1, <3>2
  <2> QED
    BY <2>1, <2>2
<1>9. d + 1 \in Nat
  BY <1>1
<1>10. Standing(q, d + 1, keys, i, k + 1)
  BY <1>3, <1>4, <1>7, <1>8, <1>9 DEF Standing
<1> QED
  BY <1>10 DEF q

LEMMA WordErased ==
  ASSUME NEW keys, NEW i \in Int, NEW k \in Int, i <= k + 1, keys[k + 1] = BACKSPACE,
         NEW p, NEW d, Standing(p, d, keys, i, k), d > 0
  PROVE  Standing([n \in 1..(d - 1) |-> p[n]], d - 1, keys, i, k + 1)
<1> DEFINE q == [n \in 1..(d - 1) |-> p[n]]
<1>1. /\ d \in Nat /\ p \in [1..d -> i..k]
      /\ \A m, n \in 1..d : m < n => p[m] < p[n]
      /\ {p[n] : n \in 1..d} = Stands(keys, i, k)
      /\ \A n \in 1..d : Surplus(keys, p[n], k) = d - n
  BY DEF Standing
<1>2. \A n \in 1..(d - 1) : n \in 1..d /\ q[n] = p[n] /\ p[n] \in i..(k + 1)
  BY <1>1
<1>3. q \in [1..(d - 1) -> i..(k + 1)] /\ d - 1 \in Nat
  BY <1>1, <1>2
<1> HIDE DEF q
<1>4. \A m, n \in 1..(d - 1) : m < n => q[m] < q[n]
  BY <1>1, <1>2
<1>5. ASSUME NEW n \in 1..d
      PROVE  /\ Surplus(keys, p[n], k + 1) = (d - 1) - n
             /\ Erased(keys, p[n], k + 1) <=> n = d
             /\ p[n] \in i..k
  <2>1. p[n] \in i..k /\ p[n] \in Int /\ p[n] <= k /\ Surplus(keys, p[n], k) = d - n
    BY <1>1
  <2>2. keys[k + 1] \notin Words /\ keys[k + 1] \in Words \cup {BACKSPACE}
    BY KeysAssumption
  <2>3. Surplus(keys, p[n], k + 1) = d - n - 1 /\ (Erased(keys, p[n], k + 1) <=> d - n - 1 < 0)
    BY <2>1, <2>2, SurplusNext
  <2> QED
    BY <1>1, <2>1, <2>3
<1>6. \A n \in 1..(d - 1) : Surplus(keys, q[n], k + 1) = (d - 1) - n
  BY <1>2, <1>5
<1>7. {q[n] : n \in 1..(d - 1)} = Stands(keys, i, k + 1)
  <2>1. ASSUME NEW e \in Stands(keys, i, k + 1) PROVE \E n \in 1..(d - 1) : q[n] = e
    <3>1. e \in i..k \/ e = k + 1
      BY DEF Stands
    <3>2. e # k + 1
      <4>1. k + 1 \notin Stands(keys, i, k + 1)
        BY StandsNext, KeysAssumption
      <4> QED
        BY <2>1, <4>1
    <3>3. e \in Stands(keys, i, k) /\ ~Erased(keys, e, k + 1)
      BY <2>1, <3>1, <3>2, StandsNext
    <3>4. PICK n \in 1..d : p[n] = e
      BY <1>1, <3>3
    <3>5. n \in 1..(d - 1)
      BY <1>1, <1>5, <3>3, <3>4
    <3> QED
      BY <1>2, <3>4, <3>5
  <2>2. ASSUME NEW n \in 1..(d - 1) PROVE q[n] \in Stands(keys, i, k + 1)
    <3>1. n \in 1..d /\ n # d /\ q[n] = p[n]
      BY <1>1, <1>2
    <3>2. p[n] \in Stands(keys, i, k) /\ p[n] \in i..k /\ ~Erased(keys, p[n], k + 1)
      BY <1>1, <1>5, <3>1
    <3> QED
      BY <3>1, <3>2, StandsNext
  <2> QED
    BY <2>1, <2>2
<1>8. Standing(q, d - 1, keys, i, k + 1)
  BY <1>3, <1>4, <1>6, <1>7 DEF Standing
<1> QED
  BY <1>8 DEF q

LEMMA NothingToErase ==
  ASSUME NEW keys, NEW i \in Int, NEW k \in Int, i <= k + 1, keys[k + 1] = BACKSPACE,
         NEW p, Standing(p, 0, keys, i, k)
  PROVE  Standing(p, 0, keys, i, k + 1)
<1>1. p \in [1..0 -> i..k] /\ {p[n] : n \in 1..0} = Stands(keys, i, k)
  BY DEF Standing
<1>2. Stands(keys, i, k) = {}
  BY <1>1
<1>3. Stands(keys, i, k + 1) = {}
  <2> SUFFICES ASSUME NEW e \in Stands(keys, i, k + 1) PROVE FALSE
    OBVIOUS
  <2>1. e \in i..k \/ e = k + 1
    BY DEF Stands
  <2>2. k + 1 \notin Stands(keys, i, k + 1)
    BY StandsNext, KeysAssumption
  <2>3. e \notin i..k
    BY <1>2, StandsNext
  <2> QED
    BY <2>1, <2>2, <2>3
<1>4. p \in [1..0 -> i..(k + 1)]
  BY <1>1
<1> QED
  BY <1>3, <1>4 DEF Standing

(* The first d words of a text are those that stand. *)
Spelled(text, d, keys, i, k) ==
  \E p : Standing(p, d, keys, i, k) /\ \A n \in 1..d : text[n] = keys[p[n]]

(* The line l behind key k, when the line before it was handed out with    *)
(* the key before i and looked like b then: what was typed since is in it. *)
Holds(l, b, keys, i, k) ==
  /\ l.sent = b.sent
  /\ Spelled(l.text, l.at, keys, i, k)
  /\ IF SomeTyped(keys, i, k) THEN Len(l.text) = l.at ELSE l.at = 0

LEMMA HoldsFirst ==
  ASSUME NEW l \in TypedLines, l.at = 0, NEW keys, NEW i \in Int
  PROVE  Holds(l, l, keys, i, i - 1)
<1> DEFINE p == [n \in 1..0 |-> i]
<1>1. Standing(p, 0, keys, i, i - 1)
  <2>1. Stands(keys, i, i - 1) = {}
    BY DEF Stands
  <2> QED
    BY <2>1 DEF Standing
<1>2. ~SomeTyped(keys, i, i - 1)
  BY DEF SomeTyped
<1> HIDE DEF p
<1> QED
  BY <1>1, <1>2 DEF Holds, Spelled

(* A word behind what is already there. *)
LEMMA WordAdded ==
  ASSUME NEW old \in Seq(Words), NEW d \in 0..Len(old), NEW keys, NEW i \in Int, NEW k \in Int,
         i <= k + 1, keys[k + 1] \in Words, Spelled(old, d, keys, i, k)
  PROVE  /\ Len(Append(SubSeq(old, 1, d), keys[k + 1])) = d + 1
         /\ Spelled(Append(SubSeq(old, 1, d), keys[k + 1]), d + 1, keys, i, k + 1)
<1> PICK p : Standing(p, d, keys, i, k) /\ \A n \in 1..d : old[n] = keys[p[n]]
  BY DEF Spelled
<1> DEFINE kept == SubSeq(old, 1, d)
           word == keys[k + 1]
           text == Append(kept, word)
           q == [n \in 1..(d + 1) |-> IF n <= d THEN p[n] ELSE k + 1]
<1>1. d \in Nat /\ d <= Len(old) /\ word \in Words
  OBVIOUS
<1>2. kept \in Seq(Words) /\ Len(kept) = d /\ \A n \in 1..d : kept[n] = old[n]
  BY <1>1
<1> HIDE DEF kept, word
<1>4. Len(text) = d + 1 /\ text[d + 1] = word /\ \A n \in 1..d : text[n] = kept[n]
  BY <1>1, <1>2, AppendProperties
<1> HIDE DEF text
<1>5. Standing(q, d + 1, keys, i, k + 1)
  BY WordStands
<1>6. \A n \in 1..(d + 1) : text[n] = keys[q[n]]
  <2> TAKE n \in 1..(d + 1)
  <2>1. CASE n \in 1..d
    <3>1. n <= d
      BY <1>1, <2>1
    <3>2. q[n] = p[n]
      BY <3>1
    <3> QED
      BY <1>2, <1>4, <2>1, <3>2
  <2>2. CASE n = d + 1
    <3>1. q[n] = k + 1
      BY <1>1, <2>2
    <3> QED
      BY <1>4, <2>2, <3>1 DEF word
  <2>3. n \in 1..d \/ n = d + 1
    BY <1>1
  <2> QED
    BY <2>1, <2>2, <2>3
<1> HIDE DEF q
<1> QED
  BY <1>4, <1>5, <1>6 DEF Spelled, text, kept, word

LEMMA StillHolds ==
  ASSUME NEW l \in TypedLines, NEW b, NEW keys, NEW i \in Int, NEW k \in Int, i <= k + 1,
         Holds(l, b, keys, i, k), NEW m, GoesOn(l, keys[k + 1], m), keys[k + 1] \in Keys
  PROVE  Holds(m, b, keys, i, k + 1)
<1>1. PICK p : Standing(p, l.at, keys, i, k) /\ \A n \in 1..l.at : l.text[n] = keys[p[n]]
  BY DEF Holds, Spelled
<1>2. /\ l.sent = b.sent /\ m.sent = l.sent /\ l.at \in Nat /\ l.text \in Seq(Words)
      /\ l.at <= Len(l.text)
  BY DEF Holds, GoesOn, TypedLines
<1>3. SomeTyped(keys, i, k + 1) <=> SomeTyped(keys, i, k) \/ keys[k + 1] \in Words
  <2>1. \A n : n \in i..(k + 1) <=> n \in i..k \/ n = k + 1
    OBVIOUS
  <2> QED
    BY <2>1 DEF SomeTyped
<1>4. IF SomeTyped(keys, i, k) THEN Len(l.text) = l.at ELSE l.at = 0
  BY DEF Holds
<1>5. CASE keys[k + 1] = BACKSPACE /\ l.at = 0 /\ m = l
  <2>1. Standing(p, 0, keys, i, k + 1)
    BY <1>1, <1>5, NothingToErase
  <2> QED
    BY <1>1, <1>2, <1>3, <1>4, <1>5, <2>1, KeysAssumption DEF Holds, Spelled
<1>6. CASE /\ keys[k + 1] = BACKSPACE /\ l.at # 0 /\ m.at = l.at - 1
           /\ m.text = SubSeq(l.text, 1, l.at - 1)
  <2> DEFINE q == [n \in 1..(l.at - 1) |-> p[n]]
  <2>1. Standing(q, m.at, keys, i, k + 1)
    <3> DEFINE d == l.at
    <3>1. d > 0 /\ m.at = d - 1 /\ Standing(p, d, keys, i, k) /\ keys[k + 1] = BACKSPACE
      BY <1>1, <1>2, <1>6
    <3> HIDE DEF d
    <3>2. Standing([n \in 1..(d - 1) |-> p[n]], d - 1, keys, i, k + 1)
      BY <3>1, WordErased
    <3> QED
      BY <3>1, <3>2 DEF d
  <2>2. Len(m.text) = m.at /\ \A n \in 1..m.at : m.text[n] = l.text[n]
    BY <1>2, <1>6
  <2>3. \A n \in 1..m.at : m.text[n] = keys[q[n]]
    <3> TAKE n \in 1..m.at
    <3>1. n \in 1..l.at /\ n \in 1..(l.at - 1)
      BY <1>2, <1>6
    <3> QED
      BY <1>1, <2>2, <3>1
  <2>4. SomeTyped(keys, i, k + 1)
    BY <1>3, <1>4, <1>6
  <2> HIDE DEF q
  <2> QED
    BY <1>2, <2>1, <2>2, <2>3, <2>4 DEF Holds, Spelled
<1>7. CASE /\ keys[k + 1] \in Words /\ m.at = l.at + 1
           /\ m.text = Append(SubSeq(l.text, 1, l.at), keys[k + 1])
  <2>1. Len(m.text) = l.at + 1 /\ Spelled(m.text, l.at + 1, keys, i, k + 1)
    <3> DEFINE d == l.at
               old == l.text
    <3>1. d \in 0..Len(old) /\ old \in Seq(Words) /\ Spelled(old, d, keys, i, k) /\ keys[k + 1] \in Words
      BY <1>2, <1>7 DEF Holds
    <3>2. m.text = Append(SubSeq(old, 1, d), keys[k + 1])
      BY <1>7
    <3> HIDE DEF d, old
    <3>3. /\ Len(Append(SubSeq(old, 1, d), keys[k + 1])) = d + 1
          /\ Spelled(Append(SubSeq(old, 1, d), keys[k + 1]), d + 1, keys, i, k + 1)
      BY <3>1, WordAdded
    <3> QED
      BY <3>2, <3>3 DEF d
  <2>2. SomeTyped(keys, i, k + 1)
    BY <1>3, <1>7
  <2> QED
    BY <1>2, <1>7, <2>1, <2>2 DEF Holds
<1> QED
  BY <1>5, <1>6, <1>7 DEF GoesOn

(* Lines are only added to those handed out. *)
LEMMA MoreLines ==
  ASSUME NEW keys \in Seq(Keys), NEW g, Typing(g, NoLine, keys),
         NEW j \in 0..Len(keys), NEW i \in 0..j
  PROVE  Len(g[i].sent) <= Len(g[j].sent) /\ Len(g[i].sent) \in Nat
<1> PICK n \in Nat : n = j - i
  OBVIOUS
<1> DEFINE h == [k \in 0..n |-> Len(g[i + k].sent)]
           More == {c \in Nat : Len(g[i].sent) <= c}
<1>1. \A k \in 0..Len(keys) : g[k] \in TypedLines /\ Len(g[k].sent) \in Nat
  <2> TAKE k \in 0..Len(keys)
  <2>1. g[k] \in TypedLines
    BY DEF Typing
  <2>2. g[k].sent \in Seq(Seq(Words))
    BY <2>1 DEF TypedLines
  <2> QED
    BY <2>1, <2>2
<1>2. h[0] \in More
  <2>1. 0 \in 0..n /\ i + 0 = i /\ i \in 0..Len(keys)
    OBVIOUS
  <2>2. Len(g[i].sent) \in Nat
    BY <1>1, <2>1
  <2> QED
    BY <2>1, <2>2
<1>3. ASSUME NEW k \in 1..n, h[k - 1] \in More PROVE h[k] \in More
  <2>1. /\ i + k \in 1..Len(keys) /\ (i + k) - 1 = i + (k - 1) /\ i + (k - 1) \in 0..Len(keys)
        /\ k - 1 \in 0..n /\ k \in 0..n
    OBVIOUS
  <2>2. g[i + k] = read_next(g[i + (k - 1)], keys[i + k]) /\ g[i + (k - 1)] \in TypedLines /\ keys[i + k] \in Keys
    BY <1>1, <2>1 DEF Typing
  <2>3. \/ Len(g[i + k].sent) = Len(g[i + (k - 1)].sent) + 1
        \/ g[i + k].sent = g[i + (k - 1)].sent
    BY <2>2, EachKey DEF GoesOn
  <2>4. Len(g[i].sent) <= Len(g[i + (k - 1)].sent) /\ Len(g[i + (k - 1)].sent) \in Nat
    BY <1>3, <2>1
  <2>5. i \in 0..Len(keys) /\ Len(g[i].sent) \in Nat
    BY <1>1
  <2>6. Len(g[i].sent) <= Len(g[i + k].sent) /\ Len(g[i + k].sent) \in Nat
    <3> DEFINE x == Len(g[i].sent)
               y == Len(g[i + (k - 1)].sent)
               z == Len(g[i + k].sent)
    <3>1. x \in Nat /\ y \in Nat /\ x <= y /\ (z = y + 1 \/ z = y)
      BY <2>3, <2>4, <2>5
    <3> HIDE DEF x, y, z
    <3>2. x <= z /\ z \in Nat
      BY <3>1
    <3> QED
      BY <3>2 DEF x, z
  <2> QED
    BY <2>1, <2>6
<1>4. n \in 0..n /\ i + n = j
  OBVIOUS
<1> HIDE DEF h, More
<1>5. h[n] \in More
  BY <1>2, <1>3, <1>4, PassedOn
<1> QED
  BY <1>1, <1>4, <1>5 DEF h, More

(* As long as no line is handed out, what was typed is in the buffer. *)
LEMMA HoldsAll ==
  ASSUME NEW keys \in Seq(Keys), NEW g, Typing(g, NoLine, keys),
         NEW i \in 1..Len(keys), NEW j \in i..Len(keys), g[i - 1].at = 0,
         Len(g[i - 1].sent) = Len(g[j - 1].sent)
  PROVE  Holds(g[j - 1], g[i - 1], keys, i, j - 1)
<1> PICK n \in Nat : n = j - i
  OBVIOUS
<1> DEFINE Good == {m \in 0..n : Holds(g[(i - 1) + m], g[i - 1], keys, i, (i - 1) + m)}
<1>1. \A k \in 0..Len(keys) : g[k] \in TypedLines
  BY DEF Typing
<1>2. 0 \in Good
  <2>1. (i - 1) + 0 = i - 1 /\ i - 1 \in 0..Len(keys) /\ 0 \in 0..n /\ i \in Int
    OBVIOUS
  <2>2. Holds(g[i - 1], g[i - 1], keys, i, i - 1)
    BY <1>1, <2>1, HoldsFirst
  <2> QED
    BY <2>1, <2>2
<1>3. ASSUME NEW m \in 0..(n - 1), m \in Good PROVE m + 1 \in Good
  <2> PICK k : k = (i - 1) + m
    OBVIOUS
  <2>1. /\ k \in 0..Len(keys) /\ k + 1 \in 1..Len(keys) /\ (k + 1) - 1 = k /\ m + 1 \in 0..n
        /\ k + 1 = (i - 1) + (m + 1) /\ k \in Int /\ i \in Int /\ i <= k + 1
        /\ k + 1 \in 0..(j - 1) /\ k \in 0..(k + 1) /\ j - 1 \in 0..Len(keys)
        /\ k + 1 \in 0..Len(keys) /\ i - 1 \in 0..k
    OBVIOUS
  <2>2. g[k + 1] = read_next(g[k], keys[k + 1]) /\ g[k] \in TypedLines /\ keys[k + 1] \in Keys
    BY <1>1, <2>1 DEF Typing
  <2>3. /\ Len(g[k].sent) <= Len(g[k + 1].sent) /\ Len(g[k + 1].sent) <= Len(g[j - 1].sent)
        /\ Len(g[i - 1].sent) <= Len(g[k].sent)
        /\ Len(g[k].sent) \in Nat /\ Len(g[k + 1].sent) \in Nat /\ Len(g[i - 1].sent) \in Nat
    BY <2>1, MoreLines
  <2>4. Len(g[k + 1].sent) = Len(g[k].sent)
    <3> DEFINE a == Len(g[i - 1].sent)
               b == Len(g[k].sent)
               c == Len(g[k + 1].sent)
    <3>1. a <= b /\ b <= c /\ c <= a /\ a \in Nat /\ b \in Nat /\ c \in Nat
      BY <2>3
    <3> HIDE DEF a, b, c
    <3>2. c = b
      BY <3>1
    <3> QED
      BY <3>2 DEF b, c
  <2>5. GoesOn(g[k], keys[k + 1], g[k + 1])
    <3>1. ~(Len(g[k + 1].sent) = Len(g[k].sent) + 1)
      BY <2>3, <2>4
    <3> QED
      BY <2>2, <3>1, EachKey
  <2>6. Holds(g[k], g[i - 1], keys, i, k)
    BY <1>3
  <2>7. Holds(g[k + 1], g[i - 1], keys, i, k + 1)
    BY <2>1, <2>2, <2>5, <2>6, StillHolds
  <2> QED
    BY <2>1, <2>7
<1>4. n \in 0..n /\ (i - 1) + n = j - 1
  OBVIOUS
<1> HIDE DEF Good
<1>5. n \in Good
  <2>1. 0..n \subseteq Good
    BY <1>2, <1>3, IntervalInduction
  <2> QED
    BY <1>4, <2>1
<1> QED
  BY <1>4, <1>5 DEF Good

(* Spelled is what Spells says, of the whole text. *)
LEMMA SpelledOut ==
  ASSUME NEW text, NEW keys, NEW i, NEW k, Spelled(text, Len(text), keys, i, k)
  PROVE  Spells(text, keys, i, k)
  BY DEF Spelled, Spells, Standing

(* The key that hands out a line hands out what was typed on it. *)
LEMMA EndsAsMeant ==
  ASSUME NEW keys \in Seq(Keys), NEW g, Typing(g, NoLine, keys),
         \A k \in 0..Len(keys) : After(keys, k) = g[k].sent,
         NEW i \in 1..Len(keys), NEW j \in i..Len(keys), OneLine(keys, i, j),
         SomeTyped(keys, i, j)
  PROVE  EndsWell(keys, i, j, LastLine(keys, j))
<1> DEFINE sent(k) == Len(g[k].sent)
           l == g[j - 1]
           m == g[j]
           b == g[i - 1]
           text == LastLine(keys, j)
<1>1. /\ i - 1 \in 0..Len(keys) /\ j - 1 \in 0..Len(keys) /\ j \in 0..Len(keys) /\ j \in 1..Len(keys)
      /\ i # 1 => i - 2 \in 0..Len(keys) /\ i - 1 \in 1..Len(keys) /\ (i - 1) - 1 = i - 2
      /\ i \in Int /\ j - 1 \in Int /\ (j - 1) + 1 = j /\ i <= j
  OBVIOUS
<1>2. sent(i - 1) = sent(j - 1) /\ sent(j - 1) < sent(j) /\ (i # 1 => sent(i - 2) < sent(i - 1))
  BY <1>1 DEF OneLine
<1>3. \A k \in 0..Len(keys) : g[k] \in TypedLines /\ sent(k) \in Nat
  <2> TAKE k \in 0..Len(keys)
  <2>1. g[k] \in TypedLines
    BY DEF Typing
  <2>2. g[k].sent \in Seq(Seq(Words))
    BY <2>1 DEF TypedLines
  <2> QED
    BY <2>1, <2>2
<1>4. ASSUME NEW k \in 1..Len(keys), sent(k - 1) < sent(k)
      PROVE  HandsOut(g[k - 1], keys[k], g[k]) /\ g[k].sent[sent(k)] = g[k].text
  <2>1. k - 1 \in 0..Len(keys) /\ g[k] = read_next(g[k - 1], keys[k]) /\ keys[k] \in Keys
    BY DEF Typing
  <2>2. ~(g[k].sent = g[k - 1].sent)
    BY <1>3, <1>4, <2>1
  <2> QED
    BY <1>3, <2>1, <2>2, EachKey DEF GoesOn
<1>5. b.at = 0
  <2>1. CASE i = 1
    <3>1. b = NoLine
      BY <2>1 DEF Typing
    <3> QED
      BY <3>1, NothingTyped
  <2>2. CASE i # 1
    BY <1>1, <1>2, <1>4, <2>2 DEF HandsOut
  <2> QED
    BY <2>1, <2>2
<1>6. HandsOut(l, keys[j], m) /\ text = m.text
  <2>1. HandsOut(l, keys[j], m) /\ m.sent[Len(m.sent)] = m.text
    BY <1>1, <1>2, <1>4
  <2>2. text = m.sent[Len(m.sent)]
    BY <1>1 DEF LastLine
  <2> QED
    BY <2>1, <2>2
<1>7. Holds(l, b, keys, i, j - 1)
  BY <1>2, <1>5, HoldsAll
<1>8. l \in TypedLines
  BY <1>1, <1>3
<1> HIDE DEF l, m, b, text
<1>9. CASE keys[j] = ENTER
  <2>1. text = l.text
    BY <1>6, <1>9, KeysAssumption DEF HandsOut
  <2>2. SomeTyped(keys, i, j - 1)
    <3>1. PICK k \in i..j : keys[k] \in Words
      BY DEF SomeTyped
    <3>2. k \in i..(j - 1)
      BY <1>1, <1>9, <3>1, KeysAssumption
    <3> QED
      BY <3>1, <3>2 DEF SomeTyped
  <2>3. Spells(text, keys, i, j - 1)
    BY <1>7, <2>1, <2>2, SpelledOut DEF Holds
  <2> QED
    BY <1>9, <2>3 DEF EndsWell, text
<1>10. CASE keys[j] # ENTER
  <2>1. /\ keys[j] \in Words /\ l.at + 1 = MAX_MESSAGE
        /\ text = Append(SubSeq(l.text, 1, l.at), keys[j])
    BY <1>6, <1>10 DEF HandsOut
  <2> DEFINE d == l.at
             old == l.text
  <2>2. d \in 0..Len(old) /\ old \in Seq(Words) /\ Spelled(old, d, keys, i, j - 1) /\ i <= (j - 1) + 1
    BY <1>1, <1>7, <1>8 DEF Holds, TypedLines
  <2>3. text = Append(SubSeq(old, 1, d), keys[j])
    BY <2>1
  <2> HIDE DEF d, old
  <2>4. /\ Len(Append(SubSeq(old, 1, d), keys[(j - 1) + 1])) = d + 1
        /\ Spelled(Append(SubSeq(old, 1, d), keys[(j - 1) + 1]), d + 1, keys, i, (j - 1) + 1)
    BY <1>1, <2>1, <2>2, WordAdded
  <2>5. Len(text) = d + 1 /\ Spelled(text, d + 1, keys, i, j)
    BY <1>1, <2>3, <2>4
  <2>6. Spells(text, keys, i, j)
    BY <2>5, SpelledOut
  <2> QED
    BY <2>1, <2>5, <2>6 DEF EndsWell, text, d
<1> QED
  BY <1>9, <1>10 DEF text

(* Every Enter ends a line. *)
LEMMA EnterEnds ==
  ASSUME NEW keys \in Seq(Keys), NEW g, Typing(g, NoLine, keys),
         \A k \in 0..Len(keys) : After(keys, k) = g[k].sent,
         NEW j \in 1..Len(keys), keys[j] = ENTER
  PROVE  \E i \in 1..j : OneLine(keys, i, j)
<1> DEFINE sent(k) == Len(g[k].sent)
           Same == {i \in 1..j : sent(i - 1) = sent(j - 1)}
<1>1. j \in Same /\ Same \in SUBSET Nat
  OBVIOUS
<1>2. PICK i \in Same : \A k \in Same : i <= k
  <2> HIDE DEF Same
  <2> QED
    BY <1>1, Smallest
<1>3. /\ i \in 1..j /\ sent(i - 1) = sent(j - 1) /\ i - 1 \in 0..Len(keys) /\ j - 1 \in 0..Len(keys)
      /\ j \in 0..Len(keys)
      /\ i # 1 => i - 2 \in 0..Len(keys) /\ i - 1 \in 1..j /\ (i - 1) - 1 = i - 2 /\ i - 2 \in 0..(i - 1)
  OBVIOUS
<1>4. sent(j - 1) < sent(j)
  <2>1. g[j] = read_next(g[j - 1], keys[j]) /\ keys[j] \in Keys /\ g[j - 1] \in TypedLines
    BY <1>3 DEF Typing
  <2>2. sent(j) = sent(j - 1) + 1
    BY <2>1, EachKey DEF GoesOn
  <2>3. sent(j - 1) \in Nat
    BY <1>3, MoreLines
  <2> DEFINE x == sent(j)
             y == sent(j - 1)
  <2> HIDE DEF x, y
  <2>4. y < x
    BY <2>2, <2>3 DEF x, y
  <2> QED
    BY <2>4 DEF x, y
<1>5. ASSUME i # 1 PROVE sent(i - 2) < sent(i - 1)
  <2>1. i - 1 \notin Same
    BY <1>2, <1>3, <1>5
  <2>2. sent(i - 2) # sent(i - 1)
    <3> HIDE DEF sent
    <3> QED
      BY <1>3, <1>5, <2>1
  <2>3. sent(i - 2) <= sent(i - 1) /\ sent(i - 2) \in Nat /\ sent(i - 1) \in Nat
    <3>1. i - 1 \in 0..(i - 1)
      BY <1>3
    <3> QED
      BY <1>3, <1>5, <3>1, MoreLines
  <2> DEFINE x == sent(i - 2)
             y == sent(i - 1)
  <2> HIDE DEF x, y
  <2>4. x < y
    BY <2>2, <2>3 DEF x, y
  <2> QED
    BY <2>4 DEF x, y
<1>6. OneLine(keys, i, j)
  BY <1>3, <1>4, <1>5 DEF OneLine
<1> QED
  BY <1>3, <1>6

LEMMA AllTypedAsMeant == \A keys \in Seq(Keys) : TypedAsMeant(keys)
<1> SUFFICES ASSUME NEW keys \in Seq(Keys) PROVE TypedAsMeant(keys)
  OBVIOUS
<1>1. PICK g : /\ Typing(g, NoLine, keys)
               /\ \A k \in 0..Len(keys) : After(keys, k) = g[k].sent
  BY OneTyping
<1>2. \A j \in 1..Len(keys) : keys[j] = ENTER => \E i \in 1..j : OneLine(keys, i, j)
  BY <1>1, EnterEnds
<1>3. ASSUME NEW i \in 1..Len(keys), NEW j \in 1..Len(keys), i <= j, OneLine(keys, i, j),
             SomeTyped(keys, i, j)
      PROVE  EndsWell(keys, i, j, LastLine(keys, j))
  <2>1. j \in i..Len(keys)
    BY <1>3
  <2> QED
    BY <1>1, <1>3, <2>1, EndsAsMeant
<1> QED
  BY <1>2, <1>3 DEF TypedAsMeant

(* read_next: whatever keys are pressed, each line on which anything was   *)
(* typed is sent as the words typed since the line before and not erased   *)
(* again, in their order; and every Enter and every full buffer ends one.  *)
THEOREM LinesTyped == ChatSpec => []LinesAreTyped
<1>1. LinesAreTyped
  <2> SUFFICES ASSUME NEW n \in 0..MaxKeys, NEW keys \in [1..n -> Keys] PROVE TypedAsMeant(keys)
    BY DEF LinesAreTyped
  <2>1. n \in Nat
    OBVIOUS
  <2>2. keys \in Seq(Keys)
    BY <2>1
  <2> QED
    BY <2>2, AllTypedAsMeant
<1> QED
  BY <1>1, PTL
=============================================================================
