------------------------------- MODULE Server -------------------------------
(***************************************************************************)
(* The chat server: the select loop of server.c with every packet handler  *)
(* and chat command, the sessions of user.c, the rooms of room.c and the   *)
(* accounts of account.c.                                                  *)
(*                                                                         *)
(* The server is one thread.  An iteration of do_select takes a snapshot   *)
(* of the readable connections, accepts at most one new connection, then   *)
(* reads one packet of every readable authenticated session and after      *)
(* those one packet of every readable new session.  Here the head of the   *)
(* iteration is one action (Select) and the handling of each packet is     *)
(* another, so that clients connect, send and hang up in between.          *)
(***************************************************************************)
EXTENDS Sequences, Table

CONSTANTS
  Users,         \* user_t objects, one per accepted connection, never freed
  Names,         \* user names a packet can carry
  LegalNames,    \* those account_create accepts
  Passwords,     \* password hashes
  RoomNames,     \* non-empty room names a command can carry
  RefusedRooms,  \* those process_command_join refuses: restricted or too long
  Fds            \* descriptor numbers accept can return

(* user_states_t *)
States == {"CONNECTED", "SENT_CLIENT_INFORMATION", "NOT_IN_CHANNEL", "JOINED_CHANNEL"}

ASSUME NullAssumption ==
  /\ NULL \notin Users
  /\ NULL \notin Names
  /\ NULL \notin RoomNames
  /\ NULL \notin Passwords
  /\ NULL \notin Fds
  /\ NULL \notin States
ASSUME NamesAssumption ==
  /\ LegalNames \subseteq Names
  /\ RefusedRooms \subseteq RoomNames

VARIABLES
  up,         \* the process is running
  new_users,  \* the list of sessions that have not authenticated
  old_users,  \* the table name |-> authenticated session
  rooms,      \* the rooms created so far, the keys of the table of rooms
  members,    \* room |-> the table of its users, name |-> session
  state,      \* user->state, NULL before the object is allocated
  username,   \* user->username, NULL for the initial "Not logged in"
  room,       \* user->room
  sock,       \* user->socket
  owner,      \* the kernel's side: descriptor |-> session it leads to
  accounts,   \* the accounts file: name |-> password hash
  backlog,    \* a connection waits at the listening socket
  readable,   \* sessions whose connection holds data or an end of file
  oldTodo,    \* this iteration's readable authenticated sessions left to read
  newTodo,    \* this iteration's readable new sessions left to read
  blocked,    \* the session read_buffer waits for in the middle of a header
  wire        \* the packets written in the last step, in order

tables   == <<new_users, old_users, rooms, members>>
sessions == <<state, username, room>>
net      == <<sock, owner>>
loop     == <<readable, oldTodo, newTodo, blocked>>
vars == <<up, tables, sessions, net, accounts, backlog, loop, wire>>

RoomEvents == {"USER_JOIN_CHANNEL", "USER_LEAVE_CHANNEL", "TALK"}
ChatEvents == RoomEvents \cup
  {"USER_IN_CHANNEL", "INFO", "ERROR", "CHANNEL", "WHISPERTO", "WHISPERFROM"}
LoginResponses  == {"LOGIN_SUCCESS", "INCORRECT_PASSWORD", "UNKNOWN_ACCOUNT", "ACCOUNT_IN_USE"}
CreateResponses == {"CREATE_SUCCESS", "NAME_ILLEGAL", "ACCOUNT_EXISTS"}
Kinds == ChatEvents \cup LoginResponses \cup CreateResponses \cup
  {"SID_NULL", "SID_ERROR", "SID_SERVER_INFORMATION"}

(* A packet written to the sockets of the sessions in "to".  "who" is the  *)
(* user name in it; "about" is the room a room event is broadcast in, the  *)
(* room of an EID_CHANNEL, or the names a reply lists.                     *)
Packets == [to : SUBSET Users, kind : Kinds, who : Names \cup {NULL},
            about : SUBSET (Names \cup RoomNames)]

(***************************************************************************)
(* Sending                                                                 *)
(***************************************************************************)
Packet(to, kind, who, about) == [to |-> to, kind |-> kind, who |-> who, about |-> about]

(* An operator whose name ends in a remark in capitals (SWAPPED) is a slip *)
(* the definition after it avoids; no action uses it, and the README names *)
(* the property that tells the two apart.                                  *)

(* Packets the handlers address by the session they hold. *)
send_packet(u, kind, who) == Packet({u}, kind, who, {})
send_error(u)             == send_packet(u, "SID_ERROR", NULL)

(* send_chat addresses its recipient by name, through old_users; nothing   *)
(* is sent when the name is not there.                                     *)
send_chat_SWAPPED(kind, to, from, about) ==
  Packet({table_find(old_users, from)} \ {NULL}, kind, to, about)
send_chat(kind, to, from, about) ==
  Packet({table_find(old_users, to)} \ {NULL}, kind, from, about)

(* A reply to the user himself, as the commands write it. *)
Reply(u, kind, about) == send_chat(kind, username[u], username[u], about)

(* One packet to every session in a room's table. *)
room_message_SKIPS_SENDER(users, kind, from, r) ==
  Packet(get_values(table_remove(users, from)), kind, from, {r})
room_message(users, kind, from, r) == Packet(get_values(users), kind, from, {r})

(***************************************************************************)
(* Lists, rooms and accounts                                               *)
(***************************************************************************)
list_remove_value_KEEPS(list, u) == list
list_remove_value(list, u) == list \ {u}

room_add_user(users, u)    == table_add(users, username[u], u)
room_remove_user_KEEPS(users, u) == users
room_remove_user(users, u) == table_remove(users, username[u])

(* The tokens and the second hash are abstracted: a login packet made for  *)
(* this session matches exactly when its password hash is the stored one.  *)
account_login_TRUSTS(n, p) ==
  IF accounts[n] \in {NULL, p} THEN "LOGIN_SUCCESS" ELSE "INCORRECT_PASSWORD"
account_login(n, p) ==
  IF accounts[n] = NULL THEN "UNKNOWN_ACCOUNT"
  ELSE IF accounts[n] # p THEN "INCORRECT_PASSWORD" ELSE "LOGIN_SUCCESS"

LoginStatus_UNCHECKED(n, p) == account_login(n, p)
LoginStatus(n, p) ==
  IF table_find(old_users, n) # NULL THEN "ACCOUNT_IN_USE" ELSE account_login(n, p)

(* The file is opened for appending: the accounts in it stay.  What an     *)
(* interrupted or failing write does to them is modelled by Accounts.      *)
add_account(file, n, p) == [file EXCEPT ![n] = p]

CreateStatus(n) ==
  IF n \notin LegalNames THEN "NAME_ILLEGAL"
  ELSE IF accounts[n] # NULL THEN "ACCOUNT_EXISTS" ELSE "CREATE_SUCCESS"

(***************************************************************************)
(* Sessions                                                                *)
(***************************************************************************)
OldUsers     == get_values(old_users)
Connected(u) == \E f \in Fds : owner[f] = u
InChat(u)    == state[u] \in {"NOT_IN_CHANNEL", "JOINED_CHANNEL"}
FreeFds      == {f \in Fds : owner[f] = NULL}

(* What is written to the socket of session s is read by the client of     *)
(* session c.  A session keeps its socket's number after it is closed, and *)
(* the number leads to whoever accept returned it for since.               *)
LeadsTo(s, c) == sock[s] \in Fds /\ owner[sock[s]] = c
Hearers(packet) == {c \in Users : \E s \in packet.to : LeadsTo(s, c)}

(* The sessions in a room's table whose connection is gone: nothing takes  *)
(* them out when it is lost.                                               *)
LeftOver(r) == {v \in get_values(members[r]) : ~Connected(v)}

Unallocated  == {u \in Users : state[u] = NULL}

NoMembers  == [r \in RoomNames |-> table_create(Names)]
NoSessions == [u \in Users |-> NULL]

Init ==
  /\ up = TRUE
  /\ new_users = {}
  /\ old_users = table_create(Names)
  /\ rooms = {}
  /\ members = NoMembers
  /\ state = NoSessions /\ username = NoSessions /\ room = NoSessions
  /\ sock = NoSessions
  /\ owner = [f \in Fds |-> NULL]
  /\ backlog = FALSE
  /\ readable = {} /\ oldTodo = {} /\ newTodo = {}
  /\ blocked = NULL
  /\ wire = << >>
  /\ accounts = [n \in Names |-> NULL]

(***************************************************************************)
(* The clients' side: connecting, and a packet or a hang-up arriving.      *)
(* A packet is chosen when it is read.  The bounds are the objects and     *)
(* the descriptors: nobody connects once either is used up.                *)
(***************************************************************************)
Connect ==
  /\ up /\ ~backlog
  /\ Unallocated # {} /\ FreeFds # {}
  /\ backlog' = TRUE
  /\ wire' = << >>
  /\ UNCHANGED <<up, tables, sessions, net, accounts, loop>>

Arrive(u) ==
  /\ up /\ Connected(u) /\ u \notin readable
  /\ readable' = readable \cup {u}
  /\ wire' = << >>
  /\ UNCHANGED <<up, tables, sessions, net, accounts, backlog, oldTodo, newTodo, blocked>>

(***************************************************************************)
(* The head of do_select                                                   *)
(***************************************************************************)
Idle == up /\ oldTodo = {} /\ newTodo = {}

(* A new connection: create_user on the descriptor accept returned. *)
Accept(u, f) ==
  /\ u \in Unallocated /\ f \in FreeFds
  /\ new_users' = new_users \cup {u}
  /\ state' = [state EXCEPT ![u] = "CONNECTED"]
  /\ sock' = [sock EXCEPT ![u] = f]
  /\ owner' = [owner EXCEPT ![f] = u]

(* The sessions of a snapshot whose descriptor select reports. *)
Ready_ALL(snapshot) == readable
Ready_FIRST(snapshot) ==
  IF snapshot \cap readable = {} THEN {} ELSE {CHOOSE u \in snapshot \cap readable : TRUE}
Ready(snapshot) == snapshot \cap readable

Select ==
  /\ Idle
  /\ readable # {} \/ backlog
  /\ oldTodo' = Ready(OldUsers)
  /\ newTodo' = Ready(new_users)
  /\ backlog' = FALSE
  /\ \/ backlog /\ \E u \in Users, f \in Fds : Accept(u, f)
     \/ ~backlog /\ UNCHANGED <<new_users, state, net>>
  /\ wire' = << >>
  /\ UNCHANGED <<up, old_users, rooms, members, username, room, accounts, readable, blocked>>

(* Nothing arrived for KEEPALIVE seconds. *)
do_keepalive ==
  /\ Idle /\ readable = {} /\ ~backlog
  /\ wire' = << Packet(new_users \cup OldUsers, "SID_NULL", NULL, {}) >>
  /\ UNCHANGED <<up, tables, sessions, net, accounts, backlog, loop>>

(* Authenticated sessions go first. *)
NextInLine(u) == u \in oldTodo \/ (oldTodo = {} /\ u \in newTodo)

(* The sockets block: when only the first bytes of a header are there,     *)
(* read_buffer waits for the rest, and the whole server with it.           *)
ReadPartial(u) ==
  /\ up /\ blocked = NULL
  /\ NextInLine(u)
  /\ blocked' = u
  /\ readable' = readable \ {u}
  /\ wire' = << >>
  /\ UNCHANGED <<up, tables, sessions, net, accounts, backlog, oldTodo, newTodo>>

(* It is u's turn, and a header is there.  Reading consumes what arrived.  *)
Turn(u) ==
  /\ up /\ blocked \in {NULL, u}
  /\ NextInLine(u) /\ u \in readable
  /\ oldTodo' = oldTodo \ {u}
  /\ newTodo' = newTodo \ {u}
  /\ readable' = readable \ {u}
  /\ blocked' = NULL
  /\ UNCHANGED <<up, backlog>>

(***************************************************************************)
(* read_buffer finds the connection closed or the packet's length absurd.  *)
(***************************************************************************)
close(u) == owner' = [owner EXCEPT ![sock[u]] = NULL]

CloseOld(u) ==
  /\ Turn(u) /\ u \in oldTodo
  /\ old_users' = table_remove(old_users, username[u])
  /\ close(u)
  /\ wire' = << >>
  /\ UNCHANGED <<new_users, rooms, members, sessions, sock, accounts>>

CloseNew(u) ==
  /\ Turn(u) /\ u \in newTodo
  /\ new_users' = list_remove_value(new_users, u)
  /\ close(u)
  /\ wire' = << >>
  /\ UNCHANGED <<old_users, rooms, members, sessions, sock, accounts>>

(* SID_NULL, SID_ERROR, /help on an unknown command, or a packet           *)
(* read_buffer gives up on: no effect.                                     *)
Ignore(u) ==
  /\ Turn(u)
  /\ wire' = << >>
  /\ UNCHANGED <<tables, sessions, net, accounts>>

(* A packet the client may not send, may not send in this state, or that   *)
(* is not implemented.                                                     *)
Refuse(u) ==
  /\ Turn(u)
  /\ wire' = << send_error(u) >>
  /\ UNCHANGED <<tables, sessions, net, accounts>>

(***************************************************************************)
(* Logging in                                                              *)
(***************************************************************************)
process_SID_CLIENT_INFORMATION(u) ==
  /\ Turn(u) /\ state[u] = "CONNECTED"
  /\ state' = [state EXCEPT ![u] = "SENT_CLIENT_INFORMATION"]
  /\ wire' = << send_packet(u, "SID_SERVER_INFORMATION", NULL) >>
  /\ UNCHANGED <<tables, username, room, net, accounts>>

process_SID_LOGIN(u, n, p) ==
  /\ Turn(u) /\ state[u] = "SENT_CLIENT_INFORMATION"
  /\ wire' = << send_packet(u, LoginStatus(n, p), n) >>
  /\ \/ /\ LoginStatus(n, p) = "LOGIN_SUCCESS"
        /\ username' = [username EXCEPT ![u] = n]
        /\ state' = [state EXCEPT ![u] = "NOT_IN_CHANNEL"]
        /\ new_users' = list_remove_value(new_users, u)
        /\ old_users' = table_add(old_users, n, u)
     \/ /\ LoginStatus(n, p) # "LOGIN_SUCCESS"
        /\ UNCHANGED <<username, state, new_users, old_users>>
  /\ UNCHANGED <<rooms, members, room, net, accounts>>

process_SID_CREATE(u, n, p) ==
  /\ Turn(u) /\ state[u] = "SENT_CLIENT_INFORMATION"
  /\ accounts' = IF CreateStatus(n) = "CREATE_SUCCESS"
                 THEN add_account(accounts, n, p) ELSE accounts
  /\ wire' = << send_packet(u, CreateStatus(n), n) >>
  /\ UNCHANGED <<tables, sessions, net>>

(***************************************************************************)
(* Chat commands.  Replies go through send_chat, by the sender's name.     *)
(***************************************************************************)
Commanding(u) == Turn(u) /\ InChat(u)

(* Commands that only reply: /help, usage errors, unknown commands, talk   *)
(* outside a room, a whisper to nobody, a room that does not exist.        *)
ReplyOnly(u, kind, about) ==
  /\ Commanding(u)
  /\ wire' = << Reply(u, kind, about) >>
  /\ UNCHANGED <<tables, sessions, net, accounts>>

process_command_who(u, r) ==
  LET names == IF r \in rooms THEN get_keys(members[r]) ELSE {}
  IN  ReplyOnly(u, IF names = {} THEN "ERROR" ELSE "INFO", names)

process_command_rooms(u) ==
  ReplyOnly(u, "INFO", {r \in rooms : get_keys(members[r]) # {}})

process_command_finger(u, n) ==
  LET target == table_find(old_users, n)
  IN  \/ target = NULL /\ ReplyOnly(u, "ERROR", {})
      \/ target # NULL /\ ReplyOnly(u, "INFO", {username[target]} \cup ({room[target]} \ {NULL}))

process_command_w(u, n) ==
  LET to == table_find(old_users, n)
  IN  \/ to = NULL /\ ReplyOnly(u, "ERROR", {})
      \/ /\ to # NULL /\ Commanding(u)
         /\ wire' = << send_chat("WHISPERFROM", username[to], username[u], {}),
                       send_chat("WHISPERTO", username[u], username[to], {}) >>
         /\ UNCHANGED <<tables, sessions, net, accounts>>

(* A message that is no command, distributed to the sender's room. *)
Talk(u) ==
  /\ Commanding(u) /\ room[u] # NULL
  /\ wire' = << room_message(members[room[u]], "TALK", username[u], room[u]) >>
  /\ UNCHANGED <<tables, sessions, net, accounts>>

(* The rooms after u has left the one his session names, if it exists. *)
AfterLeaving(u) ==
  IF room[u] \in rooms
  THEN [members EXCEPT ![room[u]] = room_remove_user(members[room[u]], u)]
  ELSE members

LeaveMessages(u) ==
  IF room[u] \in rooms
  THEN << room_message(AfterLeaving(u)[room[u]], "USER_LEAVE_CHANNEL", username[u], room[u]) >>
  ELSE << >>

(* The state of a session whose room is r. *)
StateIn_SENT(r) == IF r = NULL THEN "SENT_CLIENT_INFORMATION" ELSE "JOINED_CHANNEL"
StateIn_DEAD(r) == IF r = NULL THEN "DEAD" ELSE "JOINED_CHANNEL"
StateIn(r) == IF r = NULL THEN "NOT_IN_CHANNEL" ELSE "JOINED_CHANNEL"

(* /join without a room: leave chat. *)
LeaveChat(u) ==
  /\ Commanding(u)
  /\ members' = AfterLeaving(u)
  /\ room' = [room EXCEPT ![u] = NULL]
  /\ state' = [state EXCEPT ![u] = StateIn(NULL)]
  /\ wire' = LeaveMessages(u) \o << Reply(u, "INFO", {}), Reply(u, "CHANNEL", {}) >>
  /\ UNCHANGED <<new_users, old_users, rooms, username, net, accounts>>

(* /join with a room: leave the old one, create the new one if it does not *)
(* exist, list its users to the one who joins, add him, and tell everybody *)
(* in it, himself included.  The list is a packet per user in the code; it *)
(* is one packet with the set of their names here.                         *)
JoinRoom(u, r) ==
  LET left   == AfterLeaving(u)
      joined == room_add_user(left[r], u)
  IN  /\ Commanding(u)
      /\ rooms' = rooms \cup {r}
      /\ members' = [left EXCEPT ![r] = joined]
      /\ room' = [room EXCEPT ![u] = r]
      /\ state' = [state EXCEPT ![u] = StateIn(r)]
      /\ wire' = LeaveMessages(u)
                 \o (IF r \in rooms THEN << >> ELSE << Reply(u, "INFO", {}) >>)
                 \o << Reply(u, "CHANNEL", {r}),
                       Packet({u}, "USER_IN_CHANNEL", NULL, get_keys(left[r])),
                       room_message(joined, "USER_JOIN_CHANNEL", username[u], r) >>
      /\ UNCHANGED <<new_users, old_users, username, net, accounts>>

process_command_join(u) ==
  \/ LeaveChat(u)
  \/ \E r \in RoomNames \ RefusedRooms : JoinRoom(u, r)
  \/ RefusedRooms # {} /\ ReplyOnly(u, "ERROR", {})

process_SID_CHATCOMMAND(u) ==
  \/ process_command_join(u)
  \/ \E r \in RoomNames : process_command_who(u, r)
  \/ \E n \in Names : process_command_finger(u, n)
  \/ \E n \in Names : process_command_w(u, n)
  \/ process_command_rooms(u)
  \/ Talk(u)
  \/ \E kind \in {"INFO", "ERROR"} : ReplyOnly(u, kind, {})

process_next_packet(u) ==
  \/ ReadPartial(u)
  \/ CloseOld(u)
  \/ CloseNew(u)
  \/ Ignore(u)
  \/ Refuse(u)
  \/ process_SID_CLIENT_INFORMATION(u)
  \/ \E n \in Names, p \in Passwords : process_SID_LOGIN(u, n, p)
  \/ \E n \in Names, p \in Passwords : process_SID_CREATE(u, n, p)
  \/ process_SID_CHATCOMMAND(u)

(***************************************************************************)
(* The process ends: a signal (die_gracefully), a packet too short for its *)
(* handler (assert in packet_buffer.c), or a write to a reset connection   *)
(* (SIGPIPE is not handled).  The accounts file is all that is left.       *)
(***************************************************************************)
Die ==
  /\ up
  /\ up' = FALSE
  /\ new_users' = {}
  /\ old_users' = table_create(Names)
  /\ rooms' = {}
  /\ members' = NoMembers
  /\ state' = NoSessions /\ username' = NoSessions /\ room' = NoSessions
  /\ sock' = NoSessions
  /\ owner' = [f \in Fds |-> NULL]
  /\ backlog' = FALSE
  /\ readable' = {} /\ oldTodo' = {} /\ newTodo' = {}
  /\ blocked' = NULL
  /\ wire' = << >>
  /\ UNCHANGED accounts

Restart ==
  /\ ~up
  /\ up' = TRUE
  /\ wire' = << >>
  /\ UNCHANGED <<tables, sessions, net, accounts, backlog, loop>>

ServerStep == Select \/ do_keepalive \/ \E u \in Users : process_next_packet(u)

Next ==
  \/ ServerStep
  \/ Connect
  \/ \E u \in Users : Arrive(u)
  \/ Die
  \/ Restart

Spec == Init /\ [][Next]_vars

(***************************************************************************)
(* Properties                                                              *)
(***************************************************************************)

(* Every variable stays in the set its declaration describes.              *)
TypeOK ==
  /\ up \in BOOLEAN
  /\ new_users \subseteq Users
  /\ old_users \in [Names -> Users \cup {NULL}]
  /\ rooms \subseteq RoomNames
  /\ members \in [RoomNames -> [Names -> Users \cup {NULL}]]
  /\ state \in [Users -> States \cup {NULL}]
  /\ username \in [Users -> Names \cup {NULL}]
  /\ room \in [Users -> RoomNames \cup {NULL}]
  /\ sock \in [Users -> Fds \cup {NULL}]
  /\ owner \in [Fds -> Users \cup {NULL}]
  /\ accounts \in [Names -> Passwords \cup {NULL}]
  /\ backlog \in BOOLEAN
  /\ readable \subseteq Users /\ oldTodo \subseteq Users /\ newTodo \subseteq Users
  /\ blocked \in Users \cup {NULL}
  /\ wire \in Seq(Packets)

(* The comment on old_users in server.c: the list of new users and the     *)
(* table of authenticated ones never share a session, and together they    *)
(* are exactly the connected ones; the socket of each leads back to it.    *)
(* What select watches and what the keepalive and die_gracefully cover     *)
(* depends on it.                                                          *)
UsersPartition ==
  /\ new_users \cap OldUsers = {}
  /\ new_users \cup OldUsers = {u \in Users : Connected(u)}
  /\ \A u \in new_users : state[u] \in {"CONNECTED", "SENT_CLIENT_INFORMATION"}
  /\ \A u \in OldUsers : InChat(u)
  /\ \A u \in Users, f \in Fds : owner[f] = u => sock[u] = f

(* No two connected sessions are logged in under one name, and the table   *)
(* finds each under its own: what the ACCOUNT_IN_USE check is for, and     *)
(* what removing a session by its name relies on.                          *)
OneSessionPerName ==
  /\ \A u, v \in Users : /\ Connected(u) /\ InChat(u)
                         /\ Connected(v) /\ InChat(v)
                         /\ username[u] = username[v]
                         => u = v
  /\ \A n \in get_keys(old_users) : username[old_users[n]] = n

(* do_select walks copies of the list and the table while the handlers     *)
(* change both ("doing new first might muck things up").  A session still  *)
(* to be read is still where the copy was made from, is still connected,   *)
(* and its turn comes with something to read, so that read cannot block    *)
(* on an idle connection; the only wait is for the rest of a header.       *)
SnapshotStaysValid ==
  /\ oldTodo \subseteq OldUsers
  /\ newTodo \subseteq new_users
  /\ (oldTodo \cup newTodo) \ {blocked} \subseteq readable
  /\ blocked # NULL => blocked \in oldTodo \cup newTodo
  /\ readable \subseteq new_users \cup OldUsers

(* A connected session's idea of its room and the rooms' tables agree: it  *)
(* is in the table of the room it names, which exists, and in no other.    *)
(* Talk dereferences the room without a check because of it.               *)
RoomsMatchSessions ==
  \A u \in OldUsers :
    /\ room[u] # NULL => room[u] \in rooms
    /\ \A r \in RoomNames : room[u] = r <=> u \in get_values(members[r])
    /\ state[u] = "JOINED_CHANNEL" <=> room[u] # NULL

(* Whoever was ever let in holds an account with a legal name.             *)
LoggedInHaveAccounts ==
  \A u \in Users : username[u] # NULL =>
    username[u] \in LegalNames /\ accounts[username[u]] # NULL

(* Talk, joins and leaves reach every client whose session is in the room, *)
(* only the one who leaves not being told of his own leaving.  Who else    *)
(* they reach is known too: a client that was given the descriptor number  *)
(* of a session left over in the room's table (room_message writes to its  *)
(* get_socket all the same), and nobody but such a client.                 *)
RoomEventsReachRoom ==
  \A i \in DOMAIN wire : wire[i].kind \in RoomEvents =>
    \A r \in wire[i].about, c \in Users : Connected(c) =>
      (c \in Hearers(wire[i]) <=>
         \/ /\ room[c] = r
            /\ wire[i].kind = "USER_LEAVE_CHANNEL" => username[c] # wire[i].who
         \/ \E v \in LeftOver(r) : LeadsTo(v, c))

(* A reply found by the sender's name goes to the session that sent the    *)
(* command, and only there.                                                *)
RepliesReachSender ==
  [][\A u \in readable \ readable', i \in DOMAIN wire' :
       wire'[i].kind \in {"INFO", "ERROR", "CHANNEL", "USER_IN_CHANNEL", "WHISPERTO"}
       => wire'[i].to = {u}]_vars

(* A session that has logged in stays logged in under that name as long as *)
(* the process runs: "an old user will never become a new user".           *)
LoginIsPermanent ==
  [][up' => \A u \in Users : InChat(u) => InChat(u)' /\ username'[u] = username[u]]_vars

(* types.h on EID_USER_JOIN_CHANNEL: "A user joined the channel you're     *)
(* currently in": what is told of others arrives only at clients that are  *)
(* in the room.                                                            *)
RoomEventsStayInRoom ==
  \A i \in DOMAIN wire : wire[i].kind \in RoomEvents =>
    \A r \in wire[i].about, c \in Hearers(wire[i]) :
      username[c] # wire[i].who => room[c] = r

(***************************************************************************)
(* Liveness: the operating system keeps running the server's thread.       *)
(***************************************************************************)
ServerFairSpec == Spec /\ WF_vars(ServerStep)

(* A client that began a header sends the rest of it, or hangs up. *)
Finish(u) == blocked = u /\ Arrive(u)

FairSpec == ServerFairSpec /\ \A u \in Users : WF_vars(Finish(u))

(* developer.txt: "When select() returns, the appropriate action is taken  *)
(* on any active sockets".  Whatever arrives on a connection is read,      *)
(* however busy the others are, and a waiting connection is accepted (or   *)
(* the process ends).                                                      *)
NobodyStarves ==
  /\ \A u \in Users : u \in readable ~> u \notin readable
  /\ backlog ~> ~backlog
=============================================================================
