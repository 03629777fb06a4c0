-------------------------------- MODULE Chat --------------------------------
(***************************************************************************)
(* The clients of client.c, with the display of output.c, connected to the *)
(* server: every step here is a step of Server, or one of a client that    *)
(* leaves the server's variables alone.                                    *)
(*                                                                         *)
(* A client is named by the session the server gives it.  The two are      *)
(* joined by two queues of packets: TCP keeps the order of what each side  *)
(* writes, and nothing orders what different clients write.                *)
(***************************************************************************)
EXTENDS Server, InputLine

CONSTANTS
  Logins,     \* what can be entered at the prompts: name, password, channel
  JOIN,       \* the word of a line that makes it a command to join
  Bursts,     \* what a user types in one go
  Fragile,    \* clients whose packets can arrive in pieces
  UpSpace,    \* packets that fit between a client's write and the server
  DownSpace,  \* packets that fit between the server's write and a client
  MaxKeys     \* the model's bound on the keys that LinesAreTyped looks at

(* A line is a command to join a room or, without one, to leave chat, or   *)
(* it is said: the word it begins with is no command.  More than one word  *)
(* behind the command are the name of a room that is refused, as too long. *)
IsJoin(text) == Len(text) > 0 /\ text[1] = JOIN
NamesRoom(text, named) == IsJoin(text) /\ Len(text) = 2 /\ text[2] \in named

ASSUME UsersAssumption  == IsFiniteSet(Users)
ASSUME LoginsAssumption ==
  Logins \subseteq [name : Names, password : Passwords, channel : RoomNames]
ASSUME FragileAssumption == Fragile \subseteq Users
ASSUME WordsAssumption  == Words = {JOIN} \cup RoomNames
ASSUME BurstsAssumption == \A keys \in Bursts : keys \in Seq(Keys)
ASSUME SpaceAssumption  == UpSpace \in Nat \ {0} /\ DownSpace \in Nat \ {0}

VARIABLES
  client,     \* none, running, fatal: showing a last message, or gone without
              \* the server having noticed
  login,      \* what its user entered at the prompts
  toServer,   \* packets the client wrote and the server has not read
  toClient,   \* packets the server wrote and the client has not read
  caller,     \* the client whose connection waits at the listening socket
  window,     \* what it shows: the users and the channel
  line,       \* the line being typed
  cut,        \* clients that lost a packet to a short read on their way in
  stray       \* clients that heard of a room they are not in

cvars == <<client, login, toServer, toClient, caller, window, line, cut, stray>>

Clients == Users
Running(c) == client[c] = "running"
Open(c)    == client[c] \in {"running", "fatal"}

(***************************************************************************)
(* Packets                                                                 *)
(***************************************************************************)
Request(code, text) == [code |-> code, text |-> text]
ChatCommand(text)   == Request("SID_CHATCOMMAND", text)
AutoJoin(c)         == ChatCommand(<< JOIN, login[c].channel >>)

(* A queue is full while the write that filled it has not returned: the    *)
(* sockets block, and who writes to a full queue stands still.             *)
UpFull(c)   == Len(toServer[c]) >= UpSpace
DownFull(c) == Open(c) /\ Len(toClient[c]) >= DownSpace

(***************************************************************************)
(* The display                                                             *)
(***************************************************************************)
(* Without a room the corner shows a placeholder: N/A until the first room. *)
NoWindow == [users |-> {}, shown |-> {}, channel |-> NULL]

(* update_userlist draws the table. *)
update_userlist(w, users) == [w EXCEPT !.users = users, !.shown = users]

(* EID_CHANNEL draws the empty table before it enters the client's own     *)
(* name: the name is shown once the next event draws the table again.      *)
NewChannel(w, p) ==
  [users |-> {p.who}, shown |-> {},
   channel |-> IF p.about = {} THEN NULL ELSE CHOOSE r \in p.about : TRUE]

display_channel_event_STAYS(w, p) ==
  CASE p.kind = "USER_JOIN_CHANNEL"  -> update_userlist(w, w.users \cup {p.who})
    [] p.kind = "USER_IN_CHANNEL"    -> update_userlist(w, w.users \cup p.about)
    [] p.kind = "CHANNEL"            -> NewChannel(w, p)
    [] OTHER                         -> w
display_channel_event(w, p) ==
  CASE p.kind = "USER_JOIN_CHANNEL"  -> update_userlist(w, w.users \cup {p.who})
    [] p.kind = "USER_IN_CHANNEL"    -> update_userlist(w, w.users \cup p.about)
    [] p.kind = "USER_LEAVE_CHANNEL" -> update_userlist(w, w.users \ {p.who})
    [] p.kind = "CHANNEL"            -> NewChannel(w, p)
    [] OTHER                         -> w

(* What a window shows when these packets have been read. *)
Shown(w, packets) ==
  LET after[i \in 0..Len(packets)] ==
        IF i = 0 THEN w ELSE display_channel_event(after[i - 1], packets[i])
  IN  after[Len(packets)]

(***************************************************************************)
(* What the server's steps mean for the clients                            *)
(***************************************************************************)

(* The packets of this step that reach c, one for each session in a room's *)
(* table whose descriptor is c's: a left-over session's may be.  A list of *)
(* nobody is no packet, and a keepalive means nothing to a client.         *)
Copies(p, c) ==
  IF p.kind = "SID_NULL" \/ (p.kind = "USER_IN_CHANNEL" /\ p.about = {}) THEN << >>
  ELSE [i \in 1..Cardinality({s \in p.to : LeadsTo(s, c)}) |-> p]
Received(c) ==
  LET upto[i \in 0..Len(wire')] == IF i = 0 THEN << >> ELSE upto[i - 1] \o Copies(wire'[i], c)
  IN  upto[Len(wire')]

Deliver ==
  toClient' = [c \in Clients |-> IF Open(c) THEN toClient[c] \o Received(c) ELSE << >>]

(* A room event of a room the client is not in makes it a stray, until it  *)
(* is told of a channel of its own.                                        *)
IsStray(c) ==
  LET told    == {i \in DOMAIN Received(c) : Received(c)[i].kind = "CHANNEL"}
      foreign == {i \in DOMAIN Received(c) : /\ Received(c)[i].kind \in RoomEvents
                                             /\ room'[c] \notin Received(c)[i].about}
  IN  \/ c \in stray /\ told = {}
      \/ \E i \in foreign : \A j \in told : j < i

Delivered == Deliver /\ stray' = {c \in Clients : IsStray(c)}

(* What was written before the connection was closed is read before the    *)
(* end of file is; a connection reset while it holds data loses it.        *)
Pending(c) == toServer[c] # << >> \/ ~Open(c)
AllArrived == \A c \in Clients : Connected(c) /\ Pending(c) => c \in readable

Arrives(c) ==
  /\ Idle /\ Pending(c)
  /\ Arrive(c)
  /\ UNCHANGED cvars

do_select ==
  /\ AllArrived
  /\ \/ /\ Select /\ (backlog => caller \in new_users')
        /\ caller' = NULL
     \/ do_keepalive /\ UNCHANGED caller
  /\ UNCHANGED <<client, login, toServer, toClient, window, line, cut, stray>>

(* The line the client typed, as the server takes it apart. *)
Command(c, text) ==
  \/ text = << JOIN >> /\ LeaveChat(c)
  \/ NamesRoom(text, RoomNames \ RefusedRooms) /\ JoinRoom(c, text[2])
  \/ /\ IsJoin(text) /\ text # << JOIN >> /\ ~NamesRoom(text, RoomNames \ RefusedRooms)
     /\ ReplyOnly(c, "ERROR", {})
  \/ /\ ~IsJoin(text)
     /\ \/ room[c] = NULL /\ ReplyOnly(c, "ERROR", {})
        \/ Talk(c)

(* The state a session must be in for the server to take a packet. *)
Takes(c, code) ==
  CASE code = "SID_CLIENT_INFORMATION"     -> state[c] = "CONNECTED"
    [] code \in {"SID_LOGIN", "SID_CREATE"} -> state[c] = "SENT_CLIENT_INFORMATION"
    [] code = "SID_CHATCOMMAND"            -> InChat(c)

Handle(c, p) ==
  \/ ~Takes(c, p.code) /\ Refuse(c)
  \/ p.code = "SID_CLIENT_INFORMATION" /\ process_SID_CLIENT_INFORMATION(c)
  \/ p.code = "SID_LOGIN"  /\ process_SID_LOGIN(c, login[c].name, login[c].password)
  \/ p.code = "SID_CREATE" /\ process_SID_CREATE(c, login[c].name, login[c].password)
  \/ p.code = "SID_CHATCOMMAND" /\ Command(c, p.text)

(* The server's thread is in no write that cannot return. *)
NotWriting == \A c \in Clients : ~DownFull(c)

Serve(c) ==
  /\ NotWriting
  /\ toServer[c] # << >>
  /\ Handle(c, Head(toServer[c]))
  /\ toServer' = [toServer EXCEPT ![c] = Tail(@)]
  /\ Delivered
  /\ cut' = {d \in cut : room'[d] = NULL}
  /\ UNCHANGED <<client, login, caller, window, line>>

(* Only a part of the packet has arrived: read_buffer gives it up. *)
ServerReadsShort(c) ==
  /\ c \in Fragile
  /\ NotWriting
  /\ toServer[c] # << >>
  /\ Ignore(c)
  /\ toServer' = [toServer EXCEPT ![c] = Tail(@)]
  /\ cut' = IF room[c] = NULL THEN cut \cup {c} ELSE cut
  /\ Delivered
  /\ UNCHANGED <<client, login, caller, window, line>>

HangsUp(c) ==
  /\ NotWriting
  /\ ~Open(c)
  /\ CloseOld(c) \/ CloseNew(c)
  /\ toServer' = [toServer EXCEPT ![c] = << >>]
  /\ client' = [client EXCEPT ![c] = "none"]
  /\ login' = [login EXCEPT ![c] = NULL]
  /\ Delivered
  /\ UNCHANGED <<caller, window, line, cut>>

(* The server dies: what it wrote still reaches the clients, what they     *)
(* wrote is lost.                                                          *)
ServerDies ==
  /\ Die
  /\ toServer' = [c \in Clients |-> << >>]
  /\ caller' = NULL
  /\ client' = [c \in Clients |-> IF Open(c) THEN client[c] ELSE "none"]
  /\ login' = [c \in Clients |-> IF Open(c) THEN login[c] ELSE NULL]
  /\ UNCHANGED <<toClient, window, line, cut, stray>>

(***************************************************************************)
(* The client.  It has no state of its own to speak of: each packet it     *)
(* reads makes it write the next one of the login, or changes the display. *)
(***************************************************************************)
Init_Chat ==
  /\ Init
  /\ client = [c \in Clients |-> "none"]
  /\ login = [c \in Clients |-> NULL]
  /\ toServer = [c \in Clients |-> << >>] /\ toClient = [c \in Clients |-> << >>]
  /\ caller = NULL
  /\ window = [c \in Clients |-> NoWindow]
  /\ line = [c \in Clients |-> NoLine]
  /\ cut = {} /\ stray = {}

(* main: the prompts, the connection, and the first packet. *)
Start(c, l) ==
  /\ client[c] = "none" /\ c \in Unallocated
  /\ Connect
  /\ caller' = c
  /\ client' = [client EXCEPT ![c] = "running"]
  /\ login' = [login EXCEPT ![c] = l]
  /\ toServer' = [toServer EXCEPT ![c] = << Request("SID_CLIENT_INFORMATION", << >>) >>]
  /\ UNCHANGED <<toClient, window, line, cut, stray>>

(* What is written to a connection the server has lost goes nowhere. *)
HasLink(c) == Connected(c) \/ c = caller
Write(c, packets) ==
  toServer' = [toServer EXCEPT ![c] = IF HasLink(c) THEN @ \o packets ELSE << >>]

(* An iteration of do_select handles the keyboard and the socket, in this  *)
(* order; neither while the client is inside a write.                      *)
Type(c, keys) ==
  LET typed == Typed(line[c], keys)
  IN  /\ Running(c) /\ ~UpFull(c)
      /\ line' = [line EXCEPT ![c] = [typed EXCEPT !.sent = << >>]]
      /\ Write(c, [i \in DOMAIN typed.sent |-> ChatCommand(typed.sent[i])])
      /\ UNCHANGED <<vars, client, login, toClient, caller, window, cut, stray>>

(* It is the turn of a packet of this kind at the client. *)
Reads(c, kinds) ==
  /\ Running(c) /\ ~UpFull(c)
  /\ toClient[c] # << >> /\ Head(toClient[c]).kind \in kinds
  /\ toClient' = [toClient EXCEPT ![c] = Tail(@)]
  /\ UNCHANGED <<vars, login, caller, line, cut, stray>>

(* What the client writes in answer to a packet, and the answers that end  *)
(* it: display_error shows a message and waits for a key, still connected. *)
Answer_FORGETS(c, kind) ==
  CASE kind = "SID_SERVER_INFORMATION" -> << Request("SID_LOGIN", << >>) >>
    [] kind = "UNKNOWN_ACCOUNT"        -> << Request("SID_CREATE", << >>) >>
    [] kind = "LOGIN_SUCCESS"          -> << AutoJoin(c) >>
    [] OTHER                           -> << >>
Answer_STAYS_OUT(c, kind) ==
  CASE kind \in {"SID_SERVER_INFORMATION", "CREATE_SUCCESS"} -> << Request("SID_LOGIN", << >>) >>
    [] kind = "UNKNOWN_ACCOUNT" -> << Request("SID_CREATE", << >>) >>
    [] OTHER                    -> << >>
Answer(c, kind) ==
  CASE kind \in {"SID_SERVER_INFORMATION", "CREATE_SUCCESS"} -> << Request("SID_LOGIN", << >>) >>
    [] kind = "UNKNOWN_ACCOUNT" -> << Request("SID_CREATE", << >>) >>
    [] kind = "LOGIN_SUCCESS"   -> << AutoJoin(c) >>
    [] OTHER                    -> << >>

Fatal == {"INCORRECT_PASSWORD", "ACCOUNT_IN_USE", "NAME_ILLEGAL", "ACCOUNT_EXISTS"}
display_error(c) == client' = [client EXCEPT ![c] = "fatal"]

process_SID_SERVER_INFORMATION(c) ==
  /\ Reads(c, {"SID_SERVER_INFORMATION"})
  /\ Write(c, Answer(c, "SID_SERVER_INFORMATION"))
  /\ UNCHANGED <<client, window>>

(* SID_LOGIN_RESPONSE and SID_CREATE_RESPONSE. *)
ProcessResponse(c, responses) ==
  LET kind == Head(toClient[c]).kind
  IN  /\ Reads(c, responses)
      /\ \/ kind \notin Fatal /\ Write(c, Answer(c, kind)) /\ UNCHANGED client
         \/ kind \in Fatal /\ display_error(c) /\ UNCHANGED toServer
      /\ UNCHANGED window

process_SID_LOGIN_RESPONSE(c)  == ProcessResponse(c, LoginResponses)
process_SID_CREATE_RESPONSE(c) == ProcessResponse(c, CreateResponses)

process_SID_CHATEVENT(c) ==
  /\ Reads(c, ChatEvents)
  /\ window' = [window EXCEPT ![c] = display_channel_event(@, Head(toClient[c]))]
  /\ UNCHANGED <<client, toServer>>

process_SID_ERROR(c) ==
  /\ Reads(c, {"SID_ERROR"})
  /\ UNCHANGED <<client, toServer, window>>

ConnectionClosed(c) ==
  /\ Running(c) /\ toClient[c] = << >>
  /\ ~HasLink(c)
  /\ display_error(c)
  /\ UNCHANGED <<vars, login, toServer, toClient, caller, window, line, cut, stray>>

Receive(c) ==
  \/ process_SID_SERVER_INFORMATION(c)
  \/ process_SID_LOGIN_RESPONSE(c)
  \/ process_SID_CREATE_RESPONSE(c)
  \/ process_SID_CHATEVENT(c)
  \/ process_SID_ERROR(c)
  \/ ConnectionClosed(c)

(* The program ends, and what it had not read is lost with it. *)
Ends(c) ==
  /\ client' = [client EXCEPT ![c] = IF HasLink(c) THEN "gone" ELSE "none"]
  /\ toClient' = [toClient EXCEPT ![c] = << >>]
  /\ window' = [window EXCEPT ![c] = NoWindow]
  /\ line' = [line EXCEPT ![c] = NoLine]
  /\ cut' = cut \ {c} /\ stray' = stray \ {c}
  /\ UNCHANGED <<vars, login, toServer, caller>>

PressAnyKey(c) == client[c] = "fatal" /\ Ends(c)

(* The user interrupts it, or it read a part of a packet: the NULL that    *)
(* read_buffer returns then is used without a look.                        *)
Quit(c) == Running(c) /\ Ends(c)

ServerActs == do_select \/ \E c \in Clients : Serve(c) \/ HangsUp(c)

Next_Chat ==
  \/ ServerActs
  \/ ServerDies
  \/ \E c \in Clients :
       \/ Arrives(c)
       \/ ServerReadsShort(c)
       \/ Receive(c)
       \/ PressAnyKey(c)
       \/ Quit(c)
       \/ \E l \in Logins : Start(c, l)
       \/ \E keys \in Bursts : Type(c, keys)

ChatSpec == Init_Chat /\ [][Next_Chat]_<<vars, cvars>>

(***************************************************************************)
(* Properties                                                              *)
(***************************************************************************)

(* Every client's variables keep their type.  What it types stays in the   *)
(* buffer but for the terminator of a full one, which output.c stores in   *)
(* the place behind it, and in no other; and it shows only names and       *)
(* channels there are.                                                     *)
ClientTypeOK ==
  /\ client \in [Clients -> {"none", "running", "fatal", "gone"}]
  /\ login \in [Clients -> Logins \cup {NULL}]
  /\ caller \in Clients \cup {NULL}
  /\ cut \subseteq Clients /\ stray \subseteq Clients
  /\ \A c \in Clients :
       /\ toClient[c] \in Seq(Packets)
       /\ line[c].at \in 0..(MAX_MESSAGE - 1) /\ line[c].top \in 0..MAX_MESSAGE
       /\ window[c].users \subseteq Names /\ window[c].shown \subseteq Names
       /\ window[c].channel \in RoomNames \cup {NULL}

(* output.c builds the list of users from the events around a join.  When  *)
(* a client has read all that is on its way, it shows the channel it is in *)
(* and exactly the names in the table of that room.                        *)
Settled(c) == Shown(window[c], toClient[c])

WindowFollowsRoom ==
  \A c \in Clients : Running(c) /\ Connected(c) /\ c \notin stray =>
    /\ Settled(c).channel = room[c]
    /\ Settled(c).shown = IF room[c] = NULL THEN {} ELSE get_keys(members[room[c]])

(* Logging in takes turns: until the client is in chat exactly one packet  *)
(* of the login is under way, in one direction or the other, and the       *)
(* session is in the state in which the server takes it.                   *)
LoginKinds   == LoginResponses \cup CreateResponses \cup {"SID_SERVER_INFORMATION"}
LoginUp(c)   == {i \in DOMAIN toServer[c] : toServer[c][i].code # "SID_CHATCOMMAND"}
LoginDown(c) == {i \in DOMAIN toClient[c] : toClient[c][i].kind \in LoginKinds}

LoginTakesTurns ==
  \A c \in Clients : Running(c) /\ c \notin cut /\ HasLink(c) =>
    /\ \A i \in LoginUp(c) :
         IF c = caller THEN toServer[c][i].code = "SID_CLIENT_INFORMATION"
         ELSE Takes(c, toServer[c][i].code)
    /\ IF InChat(c)
       THEN \A i \in LoginDown(c) : LoginDown(c) = {i} /\ toClient[c][i].kind = "LOGIN_SUCCESS"
       ELSE Cardinality(LoginUp(c)) + Cardinality(LoginDown(c)) = 1

(* read_next in output.c: whatever keys are pressed, and however they are  *)
(* corrected, a line on which anything was typed is sent as it was typed   *)
(* since the line before.  It is about the keys alone, and looked at once, *)
(* before any client starts.                                               *)
NobodyYet == up /\ \A c \in Clients : client[c] = "none" /\ c \in Unallocated
LinesAreTyped ==
  NobodyYet => \A n \in 0..MaxKeys : \A keys \in [1..n -> Keys] : TypedAsMeant(keys)

(***************************************************************************)
(* Liveness                                                                *)
(***************************************************************************)
FairChatSpec ==
  /\ ChatSpec
  /\ WF_<<vars, cvars>>(ServerActs)
  /\ \A c \in Clients :
       /\ WF_<<vars, cvars>>(Arrives(c))
       /\ SF_<<vars, cvars>>(Receive(c))
       /\ WF_<<vars, cvars>>(PressAnyKey(c))

(* Both ends wait for the other to read. *)
StuckTogether(c) == Running(c) /\ UpFull(c) /\ DownFull(c)

SettledIn(c) ==
  InChat(c) /\ (room[c] # NULL \/ (Running(c) /\ login[c].channel \in RefusedRooms))

(* client.c: what the prompts were answered leads somewhere.  A client     *)
(* that runs comes into chat, in the room it asked for if the server lets  *)
(* it, or ends with a message.  It waits for ever only if a packet of its  *)
(* login was lost to a short read, the server is gone, or the server and   *)
(* some client are both inside a write to the other.                       *)
GetsIn ==
  \A c \in Clients :
    Running(c) /\ ~InChat(c) ~> \/ SettledIn(c) \/ ~Running(c) \/ c \in cut \/ ~up
                                \/ \E d \in Clients : StuckTogether(d)
=============================================================================
