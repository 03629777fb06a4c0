---------------------------- MODULE ServerProofs ----------------------------
(***************************************************************************)
(* Proofs about Server, for any users, names, rooms and descriptors; the   *)
(* last part: Server implements Presence, every step of the server, seen   *)
(* through the names, being a step of Presence or one that changes nothing *)
(* there.                                                                  *)
(***************************************************************************)
EXTENDS Server, ServerPresence, SequenceTheorems, TLAPS

(* A session is in the table of authenticated users under its own name     *)
(* only: the part of OneSessionPerName the rest of it follows from.        *)
OwnName == \A n \in Names : old_users[n] # NULL => username[old_users[n]] = n

(* What select watches is what is connected, and a session still to be     *)
(* read is where it was when the iteration began.  Each conjunct needs the *)
(* others: a name is removed from the table for the session that is read,  *)
(* so OwnName is needed for UsersPartition; a command's replies go through *)
(* the table by the sender's name, so TypeOK needs all of them.            *)
IInv == TypeOK /\ UsersPartition /\ OwnName /\ SnapshotStaysValid

-----------------------------------------------------------------------------
(* Tables *)

LEMMA AddValues ==
  ASSUME NEW K, NEW V, NULL \notin V, NEW t \in [K -> V \cup {NULL}], NEW k \in K, NEW v \in V,
         t[k] = NULL
  PROVE  /\ table_add(t, k, v) \in [K -> V \cup {NULL}]
         /\ get_values(table_add(t, k, v)) = get_values(t) \cup {v}
<1>1. table_add(t, k, v) \in [K -> V \cup {NULL}]
  BY DEF table_add
<1>2. \A x \in get_values(table_add(t, k, v)) : x \in get_values(t) \cup {v}
  BY DEF table_add, get_values, get_keys
<1>3. v \in get_values(table_add(t, k, v))
  BY DEF table_add, get_values, get_keys
<1>4. \A x \in get_values(t) : x \in get_values(table_add(t, k, v))
  BY DEF table_add, get_values, get_keys
<1> QED
  BY <1>1, <1>2, <1>3, <1>4

LEMMA RemoveValues ==
  ASSUME NEW t \in [Names -> Users \cup {NULL}], NEW k \in Names,
         \A a, b \in Names : t[a] = t[b] /\ t[a] # NULL => a = b
  PROVE  /\ table_remove(t, k) \in [Names -> Users \cup {NULL}]
         /\ get_values(table_remove(t, k)) = get_values(t) \ {t[k]}
<1>1. table_remove(t, k) \in [Names -> Users \cup {NULL}]
  BY DEF table_remove
<1>2. \A x \in get_values(table_remove(t, k)) : x \in get_values(t) \ {t[k]}
  BY DEF table_remove, get_values, get_keys
<1>3. \A x \in get_values(t) \ {t[k]} : x \in get_values(table_remove(t, k))
  BY DEF table_remove, get_values, get_keys
<1> QED
  BY <1>1, <1>2, <1>3

LEMMA EmptyValues ==
  ASSUME NEW K
  PROVE  get_values(table_create(K)) = {}
BY DEF table_create, get_values, get_keys

-----------------------------------------------------------------------------
(* Sequences of packets *)

LEMMA OnePacket ==
  ASSUME NEW to \in SUBSET Users, NEW kind \in Kinds, NEW who \in Names \cup {NULL},
         NEW about \in SUBSET (Names \cup RoomNames)
  PROVE  Packet(to, kind, who, about) \in Packets
BY DEF Packet, Packets

LEMMA NoPacket == << >> \in Seq(Packets)
OBVIOUS

LEMMA TwoPackets ==
  ASSUME NEW p \in Packets, NEW q \in Packets
  PROVE  <<p, q>> \in Seq(Packets)
OBVIOUS

-----------------------------------------------------------------------------
(* A session that is in chat is in the table, under its own name. *)
LEMMA InChatInTable ==
  ASSUME IInv, NEW u \in new_users \cup OldUsers, InChat(u)
  PROVE  /\ u \in Users
         /\ u \in OldUsers
         /\ u \notin new_users
         /\ username[u] \in Names
         /\ old_users[username[u]] = u
<1>1. u \in OldUsers /\ u \notin new_users
  BY DEF IInv, UsersPartition, InChat
<1>2. PICK n \in Names : old_users[n] # NULL /\ old_users[n] = u
  BY <1>1 DEF IInv, TypeOK, OldUsers, get_values, get_keys
<1>3. username[u] = n
  BY <1>2 DEF IInv, OwnName
<1>4. u \in Users
  BY <1>2, NullAssumption DEF IInv, TypeOK
<1> QED
  BY <1>1, <1>2, <1>3, <1>4

LEMMA OldUsersAreUsers ==
  ASSUME TypeOK
  PROVE  OldUsers \subseteq Users
BY DEF TypeOK, OldUsers, get_values, get_keys

LEMMA TurnIsConnected ==
  ASSUME IInv, NEW u \in Users, Turn(u)
  PROVE  u \in new_users \cup OldUsers
BY DEF IInv, SnapshotStaysValid, Turn

LEMMA InitIInv == Init => IInv
<1> SUFFICES ASSUME Init PROVE IInv
  OBVIOUS
<1>1. TypeOK
  <2>1. table_create(Names) \in [Names -> Users \cup {NULL}]
    BY DEF table_create
  <2>2. NoMembers \in [RoomNames -> [Names -> Users \cup {NULL}]]
    BY <2>1 DEF NoMembers
  <2> QED
    BY <2>1, <2>2, NoPacket DEF Init, TypeOK, NoSessions
<1>2. OldUsers = {}
  BY EmptyValues DEF Init, OldUsers
<1>3. UsersPartition
  BY <1>2, NullAssumption DEF Init, UsersPartition, Connected
<1>4. OwnName
  BY DEF Init, OwnName, table_create
<1>5. SnapshotStaysValid
  BY DEF Init, SnapshotStaysValid
<1> QED
  BY <1>1, <1>3, <1>4, <1>5 DEF IInv

(* A step that keeps the tables, the sockets and the names, and lets the   *)
(* state of sessions change only within the two groups the tables divide   *)
(* them into, keeps the invariant if it keeps the types and the snapshots. *)
LEMMA SameTables ==
  ASSUME IInv, TypeOK', SnapshotStaysValid',
         UNCHANGED <<new_users, old_users, username, net>>,
         \A u \in new_users : state'[u] \in {"CONNECTED", "SENT_CLIENT_INFORMATION"},
         \A u \in OldUsers : InChat(u)'
  PROVE  IInv'
<1>1. OldUsers' = OldUsers
  BY DEF OldUsers
<1>2. \A u \in Users : Connected(u)' = Connected(u)
  BY DEF Connected, net
<1>3. UsersPartition'
  BY <1>1, <1>2 DEF IInv, UsersPartition, net
<1>4. OwnName'
  BY DEF IInv, OwnName
<1> QED
  BY <1>3, <1>4 DEF IInv

(* What a turn does to the sessions still to be read. *)
LEMMA TurnSnapshot ==
  ASSUME IInv, NEW u \in Users, Turn(u),
         OldUsers \ {u} \subseteq OldUsers',
         new_users \ {u} \subseteq new_users'
  PROVE  SnapshotStaysValid'
<1>1. (oldTodo' \cup newTodo') \ {blocked'} \subseteq readable'
  BY DEF IInv, SnapshotStaysValid, Turn
<1> QED
  BY <1>1 DEF IInv, SnapshotStaysValid, Turn

LEMMA TurnTypes ==
  ASSUME IInv, NEW u \in Users, Turn(u)
  PROVE  /\ up' \in BOOLEAN /\ backlog' \in BOOLEAN
         /\ readable' \subseteq Users /\ oldTodo' \subseteq Users /\ newTodo' \subseteq Users
         /\ blocked' \in Users \cup {NULL}
BY DEF IInv, TypeOK, Turn

-----------------------------------------------------------------------------
(* The steps, one by one *)

LEMMA ConnectStep == ASSUME IInv, Connect PROVE IInv'
<1>1. TypeOK'
  BY NoPacket DEF IInv, TypeOK, Connect, tables, sessions, net, loop
<1>2. SnapshotStaysValid'
  BY DEF IInv, SnapshotStaysValid, Connect, OldUsers, tables, loop
<1> QED
  BY <1>1, <1>2, SameTables DEF IInv, UsersPartition, Connect, tables, sessions, InChat

LEMMA ArriveStep == ASSUME IInv, NEW u \in Users, Arrive(u) PROVE IInv'
<1>1. TypeOK'
  BY NoPacket DEF IInv, TypeOK, Arrive, tables, sessions, net
<1>2. u \in new_users \cup OldUsers
  BY DEF IInv, UsersPartition, Arrive
<1>3. SnapshotStaysValid'
  BY <1>2 DEF IInv, SnapshotStaysValid, Arrive, OldUsers, tables
<1> QED
  BY <1>1, <1>3, SameTables DEF IInv, UsersPartition, Arrive, tables, sessions, InChat

LEMMA SelectStep == ASSUME IInv, Select PROVE IInv'
<1>1. oldTodo' \subseteq OldUsers /\ newTodo' \subseteq new_users
      /\ oldTodo' \cup newTodo' \subseteq readable
  BY DEF Select, Ready
<1>2. blocked = NULL
  BY NullAssumption DEF IInv, SnapshotStaysValid, Select, Idle
<1>3. OldUsers' = OldUsers
  BY DEF Select, OldUsers
<1>4. OldUsers \subseteq Users
  BY OldUsersAreUsers DEF IInv
<1>5. CASE ~backlog /\ UNCHANGED <<new_users, state, net>>
  <2>1. TypeOK'
    BY <1>1, <1>4, <1>5, NoPacket DEF IInv, TypeOK, Select, net
  <2>2. SnapshotStaysValid'
    BY <1>1, <1>2, <1>3, <1>5 DEF IInv, SnapshotStaysValid, Select
  <2> QED
    BY <2>1, <2>2, <1>5, SameTables DEF IInv, UsersPartition, Select, InChat
<1>6. CASE backlog /\ \E u \in Users, f \in Fds : Accept(u, f)
  <2>1. PICK u \in Users, f \in Fds : Accept(u, f)
    BY <1>6
  <2>2. TypeOK'
    BY <1>1, <1>4, <2>1, NoPacket DEF IInv, TypeOK, Select, Accept, States
  <2>3. state[u] = NULL /\ owner[f] = NULL
    BY <2>1 DEF Accept, Unallocated, FreeFds
  <2>4. u \notin new_users /\ u \notin OldUsers
    BY <2>3, NullAssumption DEF IInv, UsersPartition, InChat, States
  <2>5. \A v \in Users : Connected(v)' <=> Connected(v) \/ v = u
    BY <2>1, <2>3, NullAssumption DEF IInv, TypeOK, Accept, Connected
  <2>6. UsersPartition'
    <3>1. new_users' \cap OldUsers' = {}
      BY <1>3, <2>1, <2>4 DEF IInv, UsersPartition, Accept
    <3>2. new_users' \cup OldUsers' = {v \in Users : Connected(v)'}
      BY <1>3, <1>4, <2>1, <2>5 DEF IInv, UsersPartition, TypeOK, Accept
    <3>3. \A v \in new_users' : state'[v] \in {"CONNECTED", "SENT_CLIENT_INFORMATION"}
      BY <2>1 DEF IInv, TypeOK, UsersPartition, Accept
    <3>4. \A v \in OldUsers' : InChat(v)'
      BY <1>3, <2>1, <2>4 DEF IInv, TypeOK, UsersPartition, Accept, InChat
    <3>5. \A v \in Users, g \in Fds : owner'[g] = v => sock'[v] = g
      <4>1. \A g \in Fds : owner[g] # u
        BY <2>4 DEF IInv, UsersPartition, Connected
      <4> QED
        BY <4>1, <2>1 DEF IInv, TypeOK, UsersPartition, Accept
    <3> QED
      BY <3>1, <3>2, <3>3, <3>4, <3>5 DEF UsersPartition
  <2>7. OwnName'
    BY DEF IInv, OwnName, Select
  <2>8. SnapshotStaysValid'
    BY <1>1, <1>2, <1>3, <2>1 DEF IInv, SnapshotStaysValid, Select, Accept
  <2> QED
    BY <2>2, <2>6, <2>7, <2>8 DEF IInv
<1> QED
  BY <1>5, <1>6 DEF Select

LEMMA KeepaliveStep == ASSUME IInv, do_keepalive PROVE IInv'
<1>1. wire' \in Seq(Packets)
  <2>1. Packet(new_users \cup OldUsers, "SID_NULL", NULL, {}) \in Packets
    BY OldUsersAreUsers, OnePacket DEF IInv, TypeOK, Kinds
  <2> QED
    BY <2>1 DEF do_keepalive
<1>2. TypeOK'
  BY <1>1 DEF IInv, TypeOK, do_keepalive, tables, sessions, net, loop
<1>3. SnapshotStaysValid'
  BY DEF IInv, SnapshotStaysValid, do_keepalive, OldUsers, tables, loop
<1> QED
  BY <1>2, <1>3, SameTables DEF IInv, UsersPartition, do_keepalive, tables, sessions, InChat

LEMMA ReadPartialStep == ASSUME IInv, NEW u \in Users, ReadPartial(u) PROVE IInv'
<1>1. TypeOK'
  BY NoPacket DEF IInv, TypeOK, ReadPartial, tables, sessions, net
<1>2. SnapshotStaysValid'
  BY NullAssumption DEF IInv, TypeOK, SnapshotStaysValid, ReadPartial, NextInLine, OldUsers, tables
<1> QED
  BY <1>1, <1>2, SameTables DEF IInv, UsersPartition, ReadPartial, tables, sessions, InChat

(* A turn that only writes packets, or changes the accounts. *)
LEMMA QuietTurn ==
  ASSUME IInv, NEW u \in Users, Turn(u),
         UNCHANGED <<tables, sessions, net>>,
         accounts' \in [Names -> Passwords \cup {NULL}],
         wire' \in Seq(Packets)
  PROVE  IInv'
<1>1. TypeOK'
  BY TurnTypes DEF IInv, TypeOK, tables, sessions, net
<1>2. SnapshotStaysValid'
  BY TurnSnapshot DEF tables, OldUsers
<1> QED
  BY <1>1, <1>2, SameTables DEF IInv, UsersPartition, tables, sessions, InChat

(* A connection ends: the session is in neither group any more, and its    *)
(* descriptor leads nowhere.                                               *)
LEMMA Closed ==
  ASSUME IInv, NEW u \in Users, u \in new_users \cup OldUsers, close(u)
  PROVE  /\ owner' \in [Fds -> Users \cup {NULL}]
         /\ \A v \in Users, f \in Fds : owner'[f] = v <=> owner[f] = v /\ v # u
<1>1. PICK f \in Fds : owner[f] = u
  BY DEF IInv, UsersPartition, Connected
<1>2. sock[u] = f /\ \A g \in Fds : owner[g] = u => g = f
  BY <1>1 DEF IInv, UsersPartition
<1>3. owner' = [owner EXCEPT ![f] = NULL]
  BY <1>2 DEF close
<1> QED
  BY <1>1, <1>2, <1>3, NullAssumption DEF IInv, TypeOK

LEMMA CloseOldStep == ASSUME IInv, NEW u \in Users, CloseOld(u) PROVE IInv'
<1>1. u \in OldUsers /\ InChat(u)
  BY DEF IInv, SnapshotStaysValid, UsersPartition, CloseOld
<1>2. username[u] \in Names /\ old_users[username[u]] = u
  BY <1>1, InChatInTable
<1>3. \A m, n \in Names : old_users[m] = old_users[n] /\ old_users[m] # NULL => m = n
  BY DEF IInv, OwnName
<1>4. old_users' \in [Names -> Users \cup {NULL}] /\ OldUsers' = OldUsers \ {u}
  <2>1. old_users \in [Names -> Users \cup {NULL}]
    BY DEF IInv, TypeOK
  <2>2. old_users' = table_remove(old_users, username[u])
    BY DEF CloseOld
  <2>3. /\ table_remove(old_users, username[u]) \in [Names -> Users \cup {NULL}]
        /\ get_values(table_remove(old_users, username[u]))
             = get_values(old_users) \ {old_users[username[u]]}
    BY <2>1, <1>2, <1>3, RemoveValues
  <2> QED
    BY <2>2, <2>3, <1>2 DEF OldUsers
<1>5. /\ owner' \in [Fds -> Users \cup {NULL}]
      /\ \A v \in Users, f \in Fds : owner'[f] = v <=> owner[f] = v /\ v # u
  BY <1>1, Closed DEF CloseOld
<1>6. TypeOK'
  BY <1>4, <1>5, NoPacket, TurnTypes DEF IInv, TypeOK, CloseOld, sessions
<1>7. SnapshotStaysValid'
  BY <1>4, TurnSnapshot DEF CloseOld
<1>8. OwnName'
  BY <1>2 DEF IInv, TypeOK, OwnName, CloseOld, table_remove, sessions
<1>9. UsersPartition'
  <2>1. u \notin new_users
    BY <1>1 DEF IInv, UsersPartition
  <2>2. \A v \in Users : Connected(v)' <=> Connected(v) /\ v # u
    BY <1>5 DEF Connected
  <2>3. new_users' \cup OldUsers' = {v \in Users : Connected(v)'}
    BY <1>4, <2>1, <2>2 DEF IInv, UsersPartition, CloseOld
  <2>4. \A v \in OldUsers' : InChat(v)'
    BY <1>4 DEF IInv, UsersPartition, CloseOld, InChat, sessions
  <2>5. \A v \in Users, f \in Fds : owner'[f] = v => sock'[v] = f
    BY <1>5 DEF IInv, UsersPartition, CloseOld
  <2>6. /\ new_users' \cap OldUsers' = {}
        /\ \A v \in new_users' : state'[v] \in {"CONNECTED", "SENT_CLIENT_INFORMATION"}
    BY <1>4 DEF IInv, UsersPartition, CloseOld, sessions
  <2> QED
    BY <2>3, <2>4, <2>5, <2>6 DEF UsersPartition
<1> QED
  BY <1>6, <1>7, <1>8, <1>9 DEF IInv

LEMMA CloseNewStep == ASSUME IInv, NEW u \in Users, CloseNew(u) PROVE IInv'
<1>1. u \in new_users /\ u \notin OldUsers
  BY DEF IInv, SnapshotStaysValid, UsersPartition, CloseNew
<1>2. OldUsers' = OldUsers
  BY DEF CloseNew, OldUsers
<1>3. new_users' = new_users \ {u}
  BY DEF CloseNew, list_remove_value
<1>4. /\ owner' \in [Fds -> Users \cup {NULL}]
      /\ \A v \in Users, f \in Fds : owner'[f] = v <=> owner[f] = v /\ v # u
  BY <1>1, Closed DEF CloseNew
<1>5. TypeOK'
  BY <1>3, <1>4, NoPacket, TurnTypes DEF IInv, TypeOK, CloseNew, sessions
<1>6. SnapshotStaysValid'
  BY <1>2, <1>3, TurnSnapshot DEF CloseNew
<1>7. OwnName'
  BY DEF IInv, OwnName, CloseNew, sessions
<1>8. UsersPartition'
  <2>1. \A v \in Users : Connected(v)' <=> Connected(v) /\ v # u
    BY <1>4 DEF Connected
  <2>2. new_users' \cup OldUsers' = {v \in Users : Connected(v)'}
    BY <1>1, <1>2, <1>3, <2>1 DEF IInv, UsersPartition
  <2>3. \A v \in Users, f \in Fds : owner'[f] = v => sock'[v] = f
    BY <1>4 DEF IInv, UsersPartition, CloseNew
  <2> QED
    BY <1>2, <1>3, <2>2, <2>3 DEF IInv, UsersPartition, CloseNew, sessions, InChat
<1> QED
  BY <1>5, <1>6, <1>7, <1>8 DEF IInv

LEMMA IgnoreStep == ASSUME IInv, NEW u \in Users, Ignore(u) PROVE IInv'
BY NoPacket, QuietTurn DEF Ignore, IInv, TypeOK

LEMMA RefuseStep == ASSUME IInv, NEW u \in Users, Refuse(u) PROVE IInv'
<1>1. send_error(u) \in Packets
  BY OnePacket DEF send_error, send_packet, Kinds
<1> QED
  BY <1>1, QuietTurn DEF Refuse, IInv, TypeOK

LEMMA ClientInformationStep ==
  ASSUME IInv, NEW u \in Users, process_SID_CLIENT_INFORMATION(u) PROVE IInv'
<1> USE DEF process_SID_CLIENT_INFORMATION
<1>1. send_packet(u, "SID_SERVER_INFORMATION", NULL) \in Packets
  BY OnePacket DEF send_packet, Kinds
<1>2. TypeOK'
  BY <1>1, TurnTypes DEF IInv, TypeOK, States, tables, net
<1>3. SnapshotStaysValid'
  BY TurnSnapshot DEF tables, OldUsers
<1>4. u \notin OldUsers
  BY DEF IInv, UsersPartition, InChat
<1>5. /\ \A v \in new_users : state'[v] \in {"CONNECTED", "SENT_CLIENT_INFORMATION"}
      /\ \A v \in OldUsers : InChat(v)'
  BY <1>4, OldUsersAreUsers DEF IInv, TypeOK, UsersPartition, InChat
<1> QED
  BY <1>2, <1>3, <1>5, SameTables DEF tables

LEMMA StatusKinds ==
  ASSUME NEW n, NEW p
  PROVE  LoginStatus(n, p) \in Kinds /\ CreateStatus(n) \in Kinds
BY DEF LoginStatus, account_login, CreateStatus, Kinds, LoginResponses, CreateResponses

LEMMA LoginStep ==
  ASSUME IInv, NEW u \in Users, NEW n \in Names, NEW p \in Passwords, process_SID_LOGIN(u, n, p)
  PROVE  IInv'
<1>1. Turn(u) /\ state[u] = "SENT_CLIENT_INFORMATION"
  BY DEF process_SID_LOGIN
<1>2. u \in new_users /\ u \notin OldUsers
  BY <1>1, TurnIsConnected DEF IInv, UsersPartition, InChat
<1>3. wire' \in Seq(Packets)
  BY StatusKinds, OnePacket DEF process_SID_LOGIN, send_packet
<1>4. CASE LoginStatus(n, p) # "LOGIN_SUCCESS"
  <2>1. UNCHANGED <<tables, sessions, net, accounts>>
    BY <1>4 DEF process_SID_LOGIN, tables, sessions
  <2> QED
    BY <2>1, <1>1, <1>3, QuietTurn DEF IInv, TypeOK
<1>5. CASE LoginStatus(n, p) = "LOGIN_SUCCESS"
  <2>1. /\ username' = [username EXCEPT ![u] = n]
        /\ state' = [state EXCEPT ![u] = "NOT_IN_CHANNEL"]
        /\ new_users' = list_remove_value(new_users, u)
        /\ old_users' = table_add(old_users, n, u)
        /\ UNCHANGED <<rooms, members, room, net, accounts>>
    BY <1>5 DEF process_SID_LOGIN
  <2>2. old_users[n] = NULL
    BY <1>5 DEF LoginStatus, table_find
  <2>3. old_users' \in [Names -> Users \cup {NULL}] /\ OldUsers' = OldUsers \cup {u}
    <3>1. old_users \in [Names -> Users \cup {NULL}]
      BY DEF IInv, TypeOK
    <3>2. /\ table_add(old_users, n, u) \in [Names -> Users \cup {NULL}]
          /\ get_values(table_add(old_users, n, u)) = get_values(old_users) \cup {u}
      BY <2>2, <3>1, AddValues, NullAssumption
    <3> QED
      BY <2>1, <3>2 DEF OldUsers
  <2>4. new_users' = new_users \ {u}
    BY <2>1 DEF list_remove_value
  <2>5. TypeOK'
    BY <1>1, <1>3, <2>1, <2>3, <2>4, TurnTypes DEF IInv, TypeOK, States, net
  <2>6. SnapshotStaysValid'
    BY <1>1, <2>3, <2>4, TurnSnapshot
  <2>7. OwnName'
    BY <1>2, <2>1, <2>2
       DEF IInv, TypeOK, OwnName, table_add, OldUsers, get_values, get_keys
  <2>8. UsersPartition'
    <3>1. \A v \in Users : Connected(v)' <=> Connected(v)
      BY <2>1 DEF Connected, net
    <3>2. new_users' \cap OldUsers' = {} /\ new_users' \cup OldUsers' = {v \in Users : Connected(v)'}
      BY <1>2, <2>3, <2>4, <3>1 DEF IInv, UsersPartition
    <3>3. \A v \in new_users' : state'[v] \in {"CONNECTED", "SENT_CLIENT_INFORMATION"}
      BY <2>1, <2>4 DEF IInv, TypeOK, UsersPartition
    <3>4. \A v \in OldUsers' : InChat(v)'
      BY <2>1, <2>3, OldUsersAreUsers DEF IInv, TypeOK, UsersPartition, InChat
    <3> QED
      BY <2>1, <3>2, <3>3, <3>4 DEF IInv, UsersPartition, net
  <2> QED
    BY <2>5, <2>6, <2>7, <2>8 DEF IInv
<1> QED
  BY <1>4, <1>5

LEMMA CreateStep ==
  ASSUME IInv, NEW u \in Users, NEW n \in Names, NEW p \in Passwords, process_SID_CREATE(u, n, p)
  PROVE  IInv'
<1>1. wire' \in Seq(Packets)
  BY StatusKinds, OnePacket DEF process_SID_CREATE, send_packet
<1>2. accounts' \in [Names -> Passwords \cup {NULL}]
  BY DEF process_SID_CREATE, add_account, IInv, TypeOK
<1> QED
  BY <1>1, <1>2, QuietTurn DEF process_SID_CREATE

-----------------------------------------------------------------------------
(* Chat commands *)

LEMMA ReplyTyped ==
  ASSUME IInv, NEW u \in Users, Commanding(u), NEW kind \in Kinds,
         NEW about \in SUBSET (Names \cup RoomNames)
  PROVE  Reply(u, kind, about) \in Packets
<1>1. username[u] \in Names /\ old_users[username[u]] = u
  BY TurnIsConnected, InChatInTable DEF Commanding
<1> QED
  BY <1>1, OnePacket DEF Reply, send_chat, table_find

LEMMA ValuesTyped ==
  ASSUME NEW t \in [Names -> Users \cup {NULL}]
  PROVE  get_values(t) \in SUBSET Users /\ get_keys(t) \in SUBSET Names
BY DEF get_values, get_keys

LEMMA BroadcastTyped ==
  ASSUME NEW t \in [Names -> Users \cup {NULL}], NEW kind \in RoomEvents,
         NEW from \in Names, NEW r \in RoomNames
  PROVE  room_message(t, kind, from, r) \in Packets
<1>1. kind \in Kinds
  BY DEF Kinds, ChatEvents
<1> QED
  BY <1>1, ValuesTyped, OnePacket DEF room_message

(* A command changes the rooms and the sender's place in them, nothing     *)
(* else.                                                                   *)
LEMMA ChatTurn ==
  ASSUME IInv, NEW u \in Users, Commanding(u),
         UNCHANGED <<new_users, old_users, username, net, accounts>>,
         rooms' \subseteq RoomNames,
         members' \in [RoomNames -> [Names -> Users \cup {NULL}]],
         room' \in [Users -> RoomNames \cup {NULL}],
         NEW r, state' = [state EXCEPT ![u] = StateIn(r)],
         wire' \in Seq(Packets)
  PROVE  IInv'
<1>1. state' \in [Users -> States \cup {NULL}]
  BY DEF IInv, TypeOK, StateIn, States
<1>2. TypeOK'
  BY <1>1, TurnTypes DEF Commanding, IInv, TypeOK, net
<1>3. SnapshotStaysValid'
  BY TurnSnapshot DEF Commanding, OldUsers
<1>4. u \notin new_users
  BY TurnIsConnected, InChatInTable DEF Commanding
<1>5. /\ \A v \in new_users : state'[v] \in {"CONNECTED", "SENT_CLIENT_INFORMATION"}
      /\ \A v \in OldUsers : InChat(v)'
  BY <1>4, OldUsersAreUsers DEF IInv, TypeOK, UsersPartition, InChat, StateIn
<1> QED
  BY <1>2, <1>3, <1>5, SameTables

LEMMA ReplyOnlyStep ==
  ASSUME IInv, NEW u \in Users, NEW kind \in Kinds, NEW about \in SUBSET (Names \cup RoomNames),
         ReplyOnly(u, kind, about)
  PROVE  IInv'
BY ReplyTyped, QuietTurn DEF ReplyOnly, Commanding, IInv, TypeOK

LEMMA WhisperStep ==
  ASSUME IInv, NEW u \in Users, NEW n \in Names, process_command_w(u, n)
  PROVE  IInv'
<1> DEFINE to == table_find(old_users, n)
<1>1. CASE to = NULL /\ ReplyOnly(u, "ERROR", {})
  BY <1>1, ReplyOnlyStep DEF Kinds, ChatEvents
<1>2. CASE to # NULL /\ ~ReplyOnly(u, "ERROR", {})
  <2>1. /\ Commanding(u) /\ UNCHANGED <<tables, sessions, net, accounts>>
        /\ wire' = << send_chat("WHISPERFROM", username[to], username[u], {}),
                      send_chat("WHISPERTO", username[u], username[to], {}) >>
    BY <1>2 DEF process_command_w
  <2>2. username[to] = n /\ old_users[n] \in Users
    BY <1>2 DEF IInv, TypeOK, OwnName, table_find
  <2>3. username[u] \in Names /\ old_users[username[u]] = u
    BY <2>1, TurnIsConnected, InChatInTable DEF Commanding
  <2>4. send_chat("WHISPERFROM", username[to], username[u], {}) \in Packets
    BY <2>2, <2>3, OnePacket DEF send_chat, table_find, Kinds, ChatEvents
  <2>5. send_chat("WHISPERTO", username[u], username[to], {}) \in Packets
    BY <2>2, <2>3, OnePacket DEF send_chat, table_find, Kinds, ChatEvents
  <2>6. wire' \in Seq(Packets)
    BY <2>1, <2>4, <2>5, TwoPackets
  <2> QED
    BY <2>1, <2>6, QuietTurn DEF Commanding, IInv, TypeOK
<1>3. CASE to # NULL /\ ReplyOnly(u, "ERROR", {})
  BY <1>3, ReplyOnlyStep DEF Kinds, ChatEvents
<1> QED
  BY <1>1, <1>2, <1>3 DEF process_command_w

LEMMA TalkStep == ASSUME IInv, NEW u \in Users, Talk(u) PROVE IInv'
<1>1. username[u] \in Names
  BY TurnIsConnected, InChatInTable DEF Talk, Commanding
<1>2. room[u] \in RoomNames /\ members[room[u]] \in [Names -> Users \cup {NULL}]
  BY DEF Talk, IInv, TypeOK
<1>3. room_message(members[room[u]], "TALK", username[u], room[u]) \in Packets
  BY <1>1, <1>2, BroadcastTyped DEF RoomEvents
<1> QED
  BY <1>3, QuietTurn DEF Talk, Commanding, IInv, TypeOK

LEMMA LeavingTyped ==
  ASSUME IInv, NEW u \in Users, Commanding(u)
  PROVE  /\ AfterLeaving(u) \in [RoomNames -> [Names -> Users \cup {NULL}]]
         /\ LeaveMessages(u) \in Seq(Packets)
<1>1. username[u] \in Names
  BY TurnIsConnected, InChatInTable DEF Commanding
<1>2. AfterLeaving(u) \in [RoomNames -> [Names -> Users \cup {NULL}]]
  BY DEF AfterLeaving, room_remove_user, table_remove, IInv, TypeOK
<1>3. CASE room[u] \notin rooms
  BY <1>2, <1>3, NoPacket DEF LeaveMessages
<1>4. CASE room[u] \in rooms
  <2>1. room[u] \in RoomNames
    BY <1>4 DEF IInv, TypeOK
  <2>2. room_message(AfterLeaving(u)[room[u]], "USER_LEAVE_CHANNEL", username[u], room[u]) \in Packets
    BY <1>1, <1>2, <2>1, BroadcastTyped DEF RoomEvents
  <2> QED
    BY <1>2, <1>4, <2>2 DEF LeaveMessages
<1> QED
  BY <1>3, <1>4

LEMMA LeaveChatStep == ASSUME IInv, NEW u \in Users, LeaveChat(u) PROVE IInv'
<1>1. Commanding(u)
  BY DEF LeaveChat
<1>2. Reply(u, "INFO", {}) \in Packets /\ Reply(u, "CHANNEL", {}) \in Packets
  BY <1>1, ReplyTyped DEF Kinds, ChatEvents
<1>3. wire' \in Seq(Packets)
  BY <1>1, <1>2, LeavingTyped, TwoPackets, ConcatProperties DEF LeaveChat
<1>4. /\ rooms' \subseteq RoomNames
      /\ members' \in [RoomNames -> [Names -> Users \cup {NULL}]]
      /\ room' \in [Users -> RoomNames \cup {NULL}]
  BY <1>1, LeavingTyped DEF LeaveChat, IInv, TypeOK
<1>5. UNCHANGED <<new_users, old_users, username, net, accounts>>
  BY DEF LeaveChat
<1>6. state' = [state EXCEPT ![u] = StateIn(NULL)]
  BY DEF LeaveChat
<1> QED
  BY <1>1, <1>3, <1>4, <1>5, <1>6, ChatTurn

LEMMA JoinRoomStep ==
  ASSUME IInv, NEW u \in Users, NEW r \in RoomNames, JoinRoom(u, r)
  PROVE  IInv'
<1> DEFINE left   == AfterLeaving(u)
           joined == room_add_user(left[r], u)
<1>1. Commanding(u)
  BY DEF JoinRoom
<1>2. username[u] \in Names
  BY <1>1, TurnIsConnected, InChatInTable DEF Commanding
<1>3. left \in [RoomNames -> [Names -> Users \cup {NULL}]] /\ LeaveMessages(u) \in Seq(Packets)
  BY <1>1, LeavingTyped
<1>4. joined \in [Names -> Users \cup {NULL}]
  BY <1>2, <1>3 DEF room_add_user, table_add
<1>5. wire' \in Seq(Packets)
  <2>1. Reply(u, "INFO", {}) \in Packets /\ Reply(u, "CHANNEL", {r}) \in Packets
    BY <1>1, ReplyTyped DEF Kinds, ChatEvents
  <2>2. Packet({u}, "USER_IN_CHANNEL", NULL, get_keys(left[r])) \in Packets
    <3>1. get_keys(left[r]) \in SUBSET (Names \cup RoomNames)
      BY <1>3, ValuesTyped
    <3> QED
      BY <3>1, OnePacket DEF Kinds, ChatEvents
  <2>3. room_message(joined, "USER_JOIN_CHANNEL", username[u], r) \in Packets
    BY <1>2, <1>4, BroadcastTyped DEF RoomEvents
  <2>4. << Reply(u, "CHANNEL", {r}),
           Packet({u}, "USER_IN_CHANNEL", NULL, get_keys(left[r])),
           room_message(joined, "USER_JOIN_CHANNEL", username[u], r) >> \in Seq(Packets)
    BY <2>1, <2>2, <2>3
  <2>5. (IF r \in rooms THEN << >> ELSE << Reply(u, "INFO", {}) >>) \in Seq(Packets)
    BY <2>1, NoPacket
  <2> QED
    BY <1>3, <2>4, <2>5, ConcatProperties DEF JoinRoom
<1>6. /\ rooms' \subseteq RoomNames
      /\ members' \in [RoomNames -> [Names -> Users \cup {NULL}]]
      /\ room' \in [Users -> RoomNames \cup {NULL}]
  BY <1>3, <1>4 DEF JoinRoom, IInv, TypeOK
<1>7. UNCHANGED <<new_users, old_users, username, net, accounts>>
  BY DEF JoinRoom
<1>8. state' = [state EXCEPT ![u] = StateIn(r)]
  BY DEF JoinRoom
<1> QED
  BY <1>1, <1>5, <1>6, <1>7, <1>8, ChatTurn

LEMMA ChatCommandStep ==
  ASSUME IInv, NEW u \in Users, process_SID_CHATCOMMAND(u)
  PROVE  IInv'
<1>1. CASE process_command_join(u)
  BY <1>1, LeaveChatStep, JoinRoomStep, ReplyOnlyStep
     DEF process_command_join, Kinds, ChatEvents
<1>2. ASSUME NEW r \in RoomNames, process_command_who(u, r) PROVE IInv'
  <2> DEFINE names == IF r \in rooms THEN get_keys(members[r]) ELSE {}
             kind  == IF names = {} THEN "ERROR" ELSE "INFO"
  <2>1. names \in SUBSET (Names \cup RoomNames)
    BY ValuesTyped DEF IInv, TypeOK
  <2>2. kind \in Kinds
    BY DEF Kinds, ChatEvents
  <2>3. ReplyOnly(u, kind, names)
    BY <1>2 DEF process_command_who
  <2> QED
    BY <2>1, <2>2, <2>3, ReplyOnlyStep
<1>3. ASSUME NEW n \in Names, process_command_finger(u, n) PROVE IInv'
  <2> DEFINE target == table_find(old_users, n)
             about  == {username[target]} \cup ({room[target]} \ {NULL})
  <2>1. CASE target = NULL /\ ReplyOnly(u, "ERROR", {})
    BY <2>1, ReplyOnlyStep DEF Kinds, ChatEvents
  <2>2. CASE target # NULL /\ ReplyOnly(u, "INFO", about)
    <3>1. target \in Users /\ username[target] = n
      BY <2>2 DEF IInv, TypeOK, OwnName, table_find
    <3>2. about \in SUBSET (Names \cup RoomNames)
      BY <3>1 DEF IInv, TypeOK
    <3> QED
      BY <2>2, <3>2, ReplyOnlyStep DEF Kinds, ChatEvents
  <2> QED
    BY <1>3, <2>1, <2>2 DEF process_command_finger
<1>4. ASSUME NEW n \in Names, process_command_w(u, n) PROVE IInv'
  BY <1>4, WhisperStep
<1>5. CASE process_command_rooms(u)
  <2> DEFINE about == {r \in rooms : get_keys(members[r]) # {}}
  <2>1. about \in SUBSET (Names \cup RoomNames)
    BY DEF IInv, TypeOK
  <2>2. "INFO" \in Kinds
    BY DEF Kinds, ChatEvents
  <2>3. ReplyOnly(u, "INFO", about)
    BY <1>5 DEF process_command_rooms
  <2> QED
    BY <2>1, <2>2, <2>3, ReplyOnlyStep
<1>6. CASE Talk(u)
  BY <1>6, TalkStep
<1>7. ASSUME NEW kind \in {"INFO", "ERROR"}, ReplyOnly(u, kind, {}) PROVE IInv'
  BY <1>7, ReplyOnlyStep DEF Kinds, ChatEvents
<1> QED
  BY <1>1, <1>2, <1>3, <1>4, <1>5, <1>6, <1>7 DEF process_SID_CHATCOMMAND

LEMMA PacketStep ==
  ASSUME IInv, NEW u \in Users, process_next_packet(u)
  PROVE  IInv'
BY ReadPartialStep, CloseOldStep, CloseNewStep, IgnoreStep, RefuseStep, ClientInformationStep,
   LoginStep, CreateStep, ChatCommandStep DEF process_next_packet

LEMMA DieStep == ASSUME IInv, Die PROVE IInv'
<1>1. TypeOK'
  <2>1. table_create(Names) \in [Names -> Users \cup {NULL}]
    BY DEF table_create
  <2>2. NoMembers \in [RoomNames -> [Names -> Users \cup {NULL}]]
    BY <2>1 DEF NoMembers
  <2> QED
    BY <2>1, <2>2, NoPacket DEF Die, IInv, TypeOK, NoSessions
<1>2. OldUsers' = {}
  BY EmptyValues DEF Die, OldUsers
<1>3. UsersPartition'
  BY <1>2, NullAssumption DEF Die, UsersPartition, Connected
<1>4. OwnName'
  BY DEF Die, OwnName, table_create
<1>5. SnapshotStaysValid'
  BY DEF Die, SnapshotStaysValid
<1> QED
  BY <1>1, <1>3, <1>4, <1>5 DEF IInv

LEMMA RestartStep == ASSUME IInv, Restart PROVE IInv'
<1>1. TypeOK'
  BY NoPacket DEF IInv, TypeOK, Restart, tables, sessions, net, loop
<1>2. SnapshotStaysValid'
  BY DEF IInv, SnapshotStaysValid, Restart, OldUsers, tables, loop
<1> QED
  BY <1>1, <1>2, SameTables DEF IInv, UsersPartition, Restart, tables, sessions, InChat

LEMMA StutterStep == ASSUME IInv, UNCHANGED vars PROVE IInv'
<1>1. TypeOK'
  BY DEF IInv, TypeOK, vars, tables, sessions, net, loop
<1>2. SnapshotStaysValid'
  BY DEF IInv, SnapshotStaysValid, vars, OldUsers, tables, loop
<1> QED
  BY <1>1, <1>2, SameTables DEF IInv, UsersPartition, vars, tables, sessions, InChat

-----------------------------------------------------------------------------
(* Theorems *)

(* IInv holds in every reachable state, whatever the clients send, however *)
(* the steps of clients and server interleave, and across crashes.         *)
THEOREM Invariance == Spec => []IInv
<1>1. IInv /\ [Next]_vars => IInv'
  BY ConnectStep, ArriveStep, SelectStep, KeepaliveStep, PacketStep, DieStep, RestartStep, StutterStep
     DEF Next, ServerStep
<1> QED
  BY <1>1, InitIInv, PTL DEF Spec

(* Every variable stays in the set its declaration describes; in           *)
(* particular every packet is built from fields that are there.            *)
THEOREM TypeCorrect == Spec => []TypeOK
<1>1. IInv => TypeOK
  BY DEF IInv
<1> QED
  BY <1>1, Invariance, PTL

(* The list of new users and the table of old ones divide the connected    *)
(* sessions between them, and every connection leads back to its session.  *)
THEOREM Partitioned == Spec => []UsersPartition
<1>1. IInv => UsersPartition
  BY DEF IInv
<1> QED
  BY <1>1, Invariance, PTL

(* A session do_select still has to read is still connected, and was       *)
(* reported readable.                                                      *)
THEOREM SnapshotsValid == Spec => []SnapshotStaysValid
<1>1. IInv => SnapshotStaysValid
  BY DEF IInv
<1> QED
  BY <1>1, Invariance, PTL

(* One name never has two connected sessions.                              *)
THEOREM NamesUnique == Spec => []OneSessionPerName
<1>1. IInv => OneSessionPerName
  <2> SUFFICES ASSUME IInv PROVE OneSessionPerName
    OBVIOUS
  <2>1. \A u \in Users : Connected(u) /\ InChat(u) => old_users[username[u]] = u
    BY InChatInTable DEF IInv, UsersPartition
  <2>2. \A n \in get_keys(old_users) : username[old_users[n]] = n
    BY DEF IInv, TypeOK, OwnName, get_keys
  <2> QED
    BY <2>1, <2>2 DEF OneSessionPerName
<1> QED
  BY <1>1, Invariance, PTL

-----------------------------------------------------------------------------
(* Action properties *)

Permanent == up' => \A u \in Users : InChat(u) => InChat(u)' /\ username'[u] = username[u]

(* Nothing but the end of the process takes a login back: no packet, no    *)
(* lost connection, no other session's command.                            *)
THEOREM LoginsPermanent == Spec => LoginIsPermanent
<1>1. ASSUME IInv, [Next]_vars PROVE Permanent
  <2>1. CASE UNCHANGED <<state, username>>
    BY <2>1 DEF Permanent, InChat
  <2>2. ASSUME NEW u \in Users, ~InChat(u),
               \A v \in Users \ {u} : state'[v] = state[v] /\ username'[v] = username[v]
        PROVE  Permanent
    BY <2>2 DEF Permanent, InChat
  <2>3. ASSUME NEW u \in Users, NEW r, state' = [state EXCEPT ![u] = StateIn(r)],
               UNCHANGED username
        PROVE  Permanent
    BY <2>3 DEF Permanent, InChat, StateIn, IInv, TypeOK
  <2>4. CASE Select
    <3>1. ASSUME NEW u \in Users, NEW f \in Fds, Accept(u, f) PROVE Permanent
      <4>1. ~InChat(u)
        BY <3>1, NullAssumption DEF Accept, Unallocated, InChat, States
      <4>2. \A v \in Users \ {u} : state'[v] = state[v] /\ username'[v] = username[v]
        BY <2>4, <3>1 DEF Select, Accept, IInv, TypeOK
      <4> QED
        BY <2>2, <4>1, <4>2
    <3> QED
      BY <2>1, <2>4, <3>1 DEF Select
  <2>5. ASSUME NEW u \in Users, process_next_packet(u) PROVE Permanent
    <3>1. CASE process_SID_CLIENT_INFORMATION(u)
      <4>1. ~InChat(u) /\ \A v \in Users \ {u} : state'[v] = state[v] /\ username'[v] = username[v]
        BY <3>1 DEF process_SID_CLIENT_INFORMATION, InChat, IInv, TypeOK
      <4> QED
        BY <2>2, <4>1
    <3>2. ASSUME NEW n \in Names, NEW p \in Passwords, process_SID_LOGIN(u, n, p) PROVE Permanent
      <4>1. ~InChat(u)
        BY <3>2 DEF process_SID_LOGIN, InChat
      <4>2. CASE LoginStatus(n, p) = "LOGIN_SUCCESS"
        <5>1. /\ state' = [state EXCEPT ![u] = "NOT_IN_CHANNEL"]
              /\ username' = [username EXCEPT ![u] = n]
          BY <3>2, <4>2 DEF process_SID_LOGIN
        <5>2. \A v \in Users \ {u} : state'[v] = state[v] /\ username'[v] = username[v]
          BY <5>1 DEF IInv, TypeOK
        <5> QED
          BY <2>2, <4>1, <5>2
      <4>3. CASE LoginStatus(n, p) # "LOGIN_SUCCESS"
        BY <2>1, <3>2, <4>3 DEF process_SID_LOGIN
      <4> QED
        BY <4>2, <4>3
    <3>3. CASE process_SID_CHATCOMMAND(u)
      <4>1. CASE LeaveChat(u)
        BY <2>3, <4>1 DEF LeaveChat
      <4>2. ASSUME NEW r \in RoomNames, JoinRoom(u, r) PROVE Permanent
        BY <2>3, <4>2 DEF JoinRoom
      <4> QED
        BY <2>1, <3>3, <4>1, <4>2 DEF process_SID_CHATCOMMAND, process_command_join, ReplyOnly,
           process_command_who, process_command_finger, process_command_w, process_command_rooms,
           Talk, sessions
    <3> QED
      BY <2>1, <2>5, <3>1, <3>2, <3>3 DEF process_next_packet, ReadPartial, CloseOld, CloseNew,
         Ignore, Refuse, process_SID_CREATE, sessions
  <2>6. CASE Die
    BY <2>6 DEF Die, Permanent
  <2> QED
    BY <1>1, <2>1, <2>4, <2>5, <2>6
       DEF Next, ServerStep, vars, do_keepalive, Connect, Arrive, Restart, sessions
<1>2. IInv /\ [Next]_vars => [Permanent]_vars
  BY <1>1
<1>3. LoginIsPermanent <=> [][Permanent]_vars
  BY PTL DEF LoginIsPermanent, Permanent
<1> QED
  BY <1>2, <1>3, Invariance, PTL DEF Spec

(***************************************************************************)
(* The rooms and the sessions: the sessions and the rooms' tables agree on *)
(* who is where, who hears a broadcast, who is let in, and where the       *)
(* replies to a command go.                                                *)
(***************************************************************************)

(* A room's table holds a session under its own name; this includes the    *)
(* sessions left over there after their connection was lost.               *)
OwnNameInRooms ==
  \A r \in RoomNames, n \in Names : members[r][n] # NULL => username[members[r][n]] = n

(* Before a session logs in it has no name and no room. *)
BlankUntilLogin == \A u \in Users : ~InChat(u) => username[u] = NULL /\ room[u] = NULL

(* A connected session is found in a room under its name exactly when it   *)
(* says it is there.                                                       *)
SeatsMatch ==
  \A u \in OldUsers :
    /\ room[u] # NULL => room[u] \in rooms
    /\ \A r \in RoomNames : room[u] = r <=> members[r][username[u]] = u
    /\ state[u] = "JOINED_CHANNEL" <=> room[u] # NULL

(* RoomsMatchSessions alone is not inductive: a session is removed from a  *)
(* room by its name, so the table must hold it under that name only, and   *)
(* nobody else's; and a login must not find the new session in a room.     *)
RInv == IInv /\ OwnNameInRooms /\ BlankUntilLogin /\ SeatsMatch

LEMMA RInvImpliesMatch == RInv => RoomsMatchSessions
<1> SUFFICES ASSUME RInv, NEW u \in OldUsers, NEW r \in RoomNames
             PROVE  members[r][username[u]] = u <=> u \in get_values(members[r])
  BY DEF RInv, SeatsMatch, RoomsMatchSessions
<1>1. u \in Users /\ username[u] \in Names
  BY InChatInTable DEF RInv, IInv, UsersPartition
<1>2. members[r] \in [Names -> Users \cup {NULL}]
  BY DEF RInv, IInv, TypeOK
<1>3. members[r][username[u]] = u => u \in get_values(members[r])
  BY <1>1, <1>2, NullAssumption DEF get_values, get_keys
<1>4. u \in get_values(members[r]) => members[r][username[u]] = u
  <2>1. SUFFICES ASSUME NEW n \in Names, members[r][n] # NULL, members[r][n] = u
                 PROVE  n = username[u]
    BY <1>2 DEF get_values, get_keys
  <2> QED
    BY <2>1 DEF RInv, OwnNameInRooms
<1> QED
  BY <1>3, <1>4

LEMMA InitRInv == Init => RInv
<1> SUFFICES ASSUME Init PROVE RInv
  OBVIOUS
<1>1. OldUsers = {}
  BY EmptyValues DEF Init, OldUsers
<1> QED
  BY <1>1, InitIInv, NullAssumption
     DEF RInv, OwnNameInRooms, BlankUntilLogin, SeatsMatch, Init, NoMembers, NoSessions, table_create

(* A step that leaves rooms and sessions alone, and authenticates nobody.  *)
LEMMA SameRooms ==
  ASSUME RInv, IInv', UNCHANGED <<rooms, members, sessions>>, OldUsers' \subseteq OldUsers
  PROVE  RInv'
BY DEF RInv, OwnNameInRooms, BlankUntilLogin, SeatsMatch, InChat, sessions

(* A step of a session that has not logged in, and does not. *)
LEMMA StillOutside ==
  ASSUME RInv, IInv', UNCHANGED <<rooms, members, username, room, old_users>>,
         NEW u \in Users \ OldUsers, ~InChat(u)',
         state' \in [Users -> States \cup {NULL}],
         \A v \in Users \ {u} : state'[v] = state[v],
         ~InChat(u)
  PROVE  RInv'
<1>1. OldUsers' = OldUsers
  BY DEF OldUsers
<1>2. OwnNameInRooms'
  BY DEF RInv, OwnNameInRooms
<1>3. BlankUntilLogin'
  BY DEF RInv, BlankUntilLogin, InChat
<1>4. SeatsMatch'
  BY <1>1, OldUsersAreUsers DEF RInv, IInv, SeatsMatch
<1> QED
  BY <1>2, <1>3, <1>4 DEF RInv

LEMMA SelectRooms == ASSUME RInv, Select, IInv' PROVE RInv'
<1>1. OldUsers' = OldUsers
  BY DEF Select, OldUsers
<1>2. CASE ~backlog /\ UNCHANGED <<new_users, state, net>>
  BY <1>1, <1>2, SameRooms DEF Select, sessions
<1>3. CASE \E u \in Users, f \in Fds : Accept(u, f)
  <2>1. PICK u \in Users, f \in Fds : Accept(u, f)
    BY <1>3
  <2>2. state[u] = NULL /\ ~InChat(u)
    BY <2>1, NullAssumption DEF Accept, Unallocated, InChat, States
  <2>3. u \notin OldUsers
    BY <2>2 DEF RInv, IInv, UsersPartition
  <2>4. ~InChat(u)' /\ \A v \in Users \ {u} : state'[v] = state[v]
    BY <2>1 DEF Accept, InChat, RInv, IInv, TypeOK
  <2>5. state' \in [Users -> States \cup {NULL}]
    BY DEF IInv, TypeOK
  <2> QED
    BY <2>2, <2>3, <2>4, <2>5, StillOutside DEF Select
<1> QED
  BY <1>2, <1>3 DEF Select

LEMMA ClientInformationRooms ==
  ASSUME RInv, NEW u \in Users, process_SID_CLIENT_INFORMATION(u), IInv'
  PROVE  RInv'
<1>1. ~InChat(u) /\ u \notin OldUsers
  BY DEF process_SID_CLIENT_INFORMATION, RInv, IInv, UsersPartition, InChat
<1>2. ~InChat(u)' /\ \A v \in Users \ {u} : state'[v] = state[v]
  BY DEF process_SID_CLIENT_INFORMATION, InChat, RInv, IInv, TypeOK
<1>3. state' \in [Users -> States \cup {NULL}]
  BY DEF IInv, TypeOK
<1> QED
  BY <1>1, <1>2, <1>3, StillOutside DEF process_SID_CLIENT_INFORMATION, tables

LEMMA LoginRooms ==
  ASSUME RInv, NEW u \in Users, NEW n \in Names, NEW p \in Passwords,
         process_SID_LOGIN(u, n, p), IInv'
  PROVE  RInv'
<1>1. CASE LoginStatus(n, p) # "LOGIN_SUCCESS"
  BY <1>1, SameRooms DEF process_SID_LOGIN, sessions, OldUsers
<1>2. CASE LoginStatus(n, p) = "LOGIN_SUCCESS"
  <2>1. /\ username' = [username EXCEPT ![u] = n]
        /\ state' = [state EXCEPT ![u] = "NOT_IN_CHANNEL"]
        /\ old_users' = table_add(old_users, n, u)
        /\ UNCHANGED <<rooms, members, room>>
    BY <1>2 DEF process_SID_LOGIN
  <2>2. ~InChat(u) /\ u \notin OldUsers
    BY DEF process_SID_LOGIN, RInv, IInv, UsersPartition, InChat
  <2>3. username[u] = NULL /\ room[u] = NULL
    BY <2>2 DEF RInv, BlankUntilLogin
  <2>4. \A r \in RoomNames, m \in Names : members[r][m] # u
    BY <2>3, NullAssumption DEF RInv, OwnNameInRooms
  <2>5. /\ username \in [Users -> Names \cup {NULL}] /\ state \in [Users -> States \cup {NULL}]
        /\ members \in [RoomNames -> [Names -> Users \cup {NULL}]]
        /\ old_users \in [Names -> Users \cup {NULL}]
    BY DEF RInv, IInv, TypeOK
  <2>6. OwnNameInRooms'
    <3> SUFFICES ASSUME NEW r \in RoomNames, NEW m \in Names, members[r][m] # NULL
                 PROVE  username'[members[r][m]] = m
      BY <2>1 DEF OwnNameInRooms
    <3>1. members[r][m] \in Users /\ members[r][m] # u
      BY <2>4, <2>5
    <3> QED
      BY <3>1, <2>1, <2>5 DEF RInv, OwnNameInRooms
  <2>7. BlankUntilLogin'
    BY <2>1, <2>5 DEF RInv, BlankUntilLogin, InChat
  <2>8. OldUsers' \subseteq OldUsers \cup {u}
    BY <2>1, <2>5 DEF OldUsers, table_add, get_values, get_keys
  <2>9. SeatsMatch'
    <3> SUFFICES ASSUME NEW v \in OldUsers'
                 PROVE  /\ room[v] # NULL => room[v] \in rooms
                        /\ \A r \in RoomNames : room[v] = r <=> members[r][username'[v]] = v
                        /\ state'[v] = "JOINED_CHANNEL" <=> room[v] # NULL
      BY <2>1 DEF SeatsMatch
    <3>1. CASE v = u
      <4>1. username'[v] = n /\ state'[v] = "NOT_IN_CHANNEL"
        BY <3>1, <2>1, <2>5
      <4> QED
        BY <3>1, <4>1, <2>3, <2>4, NullAssumption
    <3>2. CASE v # u
      <4>1. v \in OldUsers /\ v \in Users
        BY <3>2, <2>8, OldUsersAreUsers DEF RInv, IInv
      <4>2. username'[v] = username[v] /\ state'[v] = state[v]
        BY <3>2, <4>1, <2>1, <2>5
      <4> QED
        BY <4>1, <4>2 DEF RInv, SeatsMatch
    <3> QED
      BY <3>1, <3>2
  <2> QED
    BY <2>6, <2>7, <2>9 DEF RInv
<1> QED
  BY <1>1, <1>2

-----------------------------------------------------------------------------
(* Joining and leaving *)

LEMMA NamesDiffer ==
  ASSUME IInv, NEW u \in OldUsers, NEW v \in OldUsers, username[u] = username[v]
  PROVE  u = v
BY InChatInTable DEF IInv, UsersPartition

LEMMA CommandingInTable ==
  ASSUME IInv, NEW u \in Users, Commanding(u)
  PROVE  u \in OldUsers /\ username[u] \in Names
BY TurnIsConnected, InChatInTable DEF Commanding

(* The rooms once u has left his: nobody else's seat is touched. *)
LEMMA Left ==
  ASSUME RInv, NEW u \in OldUsers, username[u] \in Names
  PROVE  /\ AfterLeaving(u) \in [RoomNames -> [Names -> Users \cup {NULL}]]
         /\ \A r \in RoomNames, n \in Names :
              AfterLeaving(u)[r][n] # NULL => username[AfterLeaving(u)[r][n]] = n
         /\ \A r \in RoomNames : AfterLeaving(u)[r][username[u]] # u
         /\ \A v \in OldUsers \ {u}, r \in RoomNames :
              room[v] = r <=> AfterLeaving(u)[r][username[v]] = v
<1>1. /\ members \in [RoomNames -> [Names -> Users \cup {NULL}]]
      /\ rooms \subseteq RoomNames
      /\ NULL \notin RoomNames
      /\ u \in Users /\ NULL \notin Users
  BY OldUsersAreUsers, NullAssumption DEF RInv, IInv, TypeOK
<1>2. \A v \in OldUsers \ {u} : username[v] \in Names /\ username[v] # username[u]
  BY InChatInTable, NamesDiffer DEF RInv, IInv, UsersPartition
<1>3. CASE room[u] \notin rooms
  <2>1. room[u] = NULL
    BY <1>3 DEF RInv, SeatsMatch
  <2> QED
    BY <1>1, <1>3, <2>1 DEF RInv, OwnNameInRooms, SeatsMatch, AfterLeaving
<1>4. CASE room[u] \in rooms
  <2> DEFINE old == room[u]
  <2>1. old \in RoomNames
    BY <1>1, <1>4
  <2>2. \A r \in RoomNames \ {old} : AfterLeaving(u)[r] = members[r]
    BY <1>1, <1>4 DEF AfterLeaving
  <2>3. AfterLeaving(u)[old] = [members[old] EXCEPT ![username[u]] = NULL]
    BY <1>1, <1>4, <2>1 DEF AfterLeaving, room_remove_user, table_remove
  <2>4. AfterLeaving(u) \in [RoomNames -> [Names -> Users \cup {NULL}]]
    BY <1>1, <1>4 DEF AfterLeaving, room_remove_user, table_remove
  <2>5. \A r \in RoomNames, n \in Names :
          AfterLeaving(u)[r][n] # NULL => username[AfterLeaving(u)[r][n]] = n
    BY <1>1, <2>1, <2>2, <2>3 DEF RInv, OwnNameInRooms
  <2>6. \A r \in RoomNames : AfterLeaving(u)[r][username[u]] # u
    <3>1. AfterLeaving(u)[old][username[u]] = NULL
      BY <1>1, <2>1, <2>3
    <3>2. \A r \in RoomNames \ {old} : members[r][username[u]] # u
      BY DEF RInv, SeatsMatch
    <3> QED
      BY <1>1, <2>2, <3>1, <3>2
  <2>7. \A v \in OldUsers \ {u}, r \in RoomNames :
          room[v] = r <=> AfterLeaving(u)[r][username[v]] = v
    <3> SUFFICES ASSUME NEW v \in OldUsers \ {u}, NEW r \in RoomNames
                 PROVE  AfterLeaving(u)[r][username[v]] = members[r][username[v]]
      BY DEF RInv, SeatsMatch
    <3> QED
      BY <1>1, <1>2, <2>1, <2>2, <2>3
  <2> QED
    BY <2>4, <2>5, <2>6, <2>7
<1> QED
  BY <1>3, <1>4

LEMMA LeaveChatRooms == ASSUME RInv, NEW u \in Users, LeaveChat(u), IInv' PROVE RInv'
<1>1. u \in OldUsers /\ username[u] \in Names
  BY CommandingInTable DEF RInv, LeaveChat
<1>2. /\ members' = AfterLeaving(u)
      /\ room' = [room EXCEPT ![u] = NULL]
      /\ state' = [state EXCEPT ![u] = "NOT_IN_CHANNEL"]
      /\ UNCHANGED <<rooms, username, old_users>>
  BY DEF LeaveChat, StateIn
<1>3. OldUsers' = OldUsers /\ OldUsers \subseteq Users
  BY <1>2, OldUsersAreUsers DEF OldUsers, RInv, IInv
<1>4. /\ room \in [Users -> RoomNames \cup {NULL}] /\ state \in [Users -> States \cup {NULL}]
  BY DEF RInv, IInv, TypeOK
<1>5. OwnNameInRooms'
  BY <1>1, <1>2, Left DEF OwnNameInRooms
<1>6. BlankUntilLogin'
  BY <1>2, <1>4 DEF RInv, BlankUntilLogin, InChat
<1>7. SeatsMatch'
  <2> SUFFICES ASSUME NEW v \in OldUsers
               PROVE  /\ room'[v] # NULL => room'[v] \in rooms
                      /\ \A r \in RoomNames : room'[v] = r <=> members'[r][username[v]] = v
                      /\ state'[v] = "JOINED_CHANNEL" <=> room'[v] # NULL
    BY <1>2, <1>3 DEF SeatsMatch
  <2>1. CASE v = u
    BY <2>1, <1>1, <1>2, <1>4, Left, NullAssumption
  <2>2. CASE v # u
    <3>1. room'[v] = room[v] /\ state'[v] = state[v]
      BY <1>2, <1>3, <1>4, <2>2
    <3> QED
      BY <2>2, <3>1, <1>1, <1>2, Left DEF RInv, SeatsMatch
  <2> QED
    BY <2>1, <2>2
<1> QED
  BY <1>5, <1>6, <1>7 DEF RInv

LEMMA JoinRoomRooms ==
  ASSUME RInv, NEW u \in Users, NEW r \in RoomNames, JoinRoom(u, r), IInv'
  PROVE  RInv'
<1> DEFINE left == AfterLeaving(u)
<1>1. u \in OldUsers /\ username[u] \in Names
  BY CommandingInTable DEF RInv, JoinRoom
<1>2. /\ members' = [left EXCEPT ![r] = [left[r] EXCEPT ![username[u]] = u]]
      /\ room' = [room EXCEPT ![u] = r]
      /\ state' = [state EXCEPT ![u] = StateIn(r)]
      /\ rooms' = rooms \cup {r}
      /\ UNCHANGED <<username, old_users>>
  BY DEF JoinRoom, room_add_user, table_add
<1>3. OldUsers' = OldUsers /\ OldUsers \subseteq Users
  BY <1>2, OldUsersAreUsers DEF OldUsers, RInv, IInv
<1>4. /\ room \in [Users -> RoomNames \cup {NULL}] /\ state \in [Users -> States \cup {NULL}]
      /\ r # NULL
  BY NullAssumption DEF RInv, IInv, TypeOK
<1>5. state'[u] = "JOINED_CHANNEL"
  BY <1>2, <1>4 DEF StateIn
<1>6. left \in [RoomNames -> [Names -> Users \cup {NULL}]]
  BY <1>1, Left
<1>7. OwnNameInRooms'
  <2> SUFFICES ASSUME NEW q \in RoomNames, NEW n \in Names, members'[q][n] # NULL
               PROVE  username[members'[q][n]] = n
    BY <1>2 DEF OwnNameInRooms
  <2>1. CASE q = r /\ n = username[u]
    BY <2>1, <1>1, <1>2, <1>6
  <2>2. CASE ~(q = r /\ n = username[u])
    <3>1. members'[q][n] = left[q][n]
      BY <2>2, <1>2, <1>6
    <3> QED
      BY <3>1, <1>1, Left
  <2> QED
    BY <2>1, <2>2
<1>8. BlankUntilLogin'
  BY <1>2, <1>4, <1>5 DEF RInv, BlankUntilLogin, InChat
<1>9. SeatsMatch'
  <2> SUFFICES ASSUME NEW v \in OldUsers
               PROVE  /\ room'[v] # NULL => room'[v] \in rooms'
                      /\ \A q \in RoomNames : room'[v] = q <=> members'[q][username[v]] = v
                      /\ state'[v] = "JOINED_CHANNEL" <=> room'[v] # NULL
    BY <1>2, <1>3 DEF SeatsMatch
  <2>1. CASE v = u
    <3>1. room'[u] = r
      BY <1>2, <1>4
    <3>2. members'[r][username[u]] = u
      BY <1>1, <1>2, <1>6
    <3>3. \A q \in RoomNames \ {r} : members'[q][username[u]] # u
      BY <1>1, <1>2, <1>6, Left
    <3> QED
      BY <2>1, <1>2, <1>4, <1>5, <3>1, <3>2, <3>3
  <2>2. CASE v # u
    <3>1. room'[v] = room[v] /\ state'[v] = state[v]
      BY <1>2, <1>3, <1>4, <2>2
    <3>2. username[v] \in Names /\ username[v] # username[u]
      BY <1>1, <2>2, InChatInTable, NamesDiffer DEF RInv, IInv, UsersPartition
    <3>3. \A q \in RoomNames : members'[q][username[v]] = left[q][username[v]]
      BY <3>2, <1>1, <1>2, <1>6
    <3> QED
      BY <2>2, <3>1, <3>3, <1>1, <1>2, Left DEF RInv, SeatsMatch
  <2> QED
    BY <2>1, <2>2
<1> QED
  BY <1>7, <1>8, <1>9 DEF RInv

LEMMA PacketRooms ==
  ASSUME RInv, NEW u \in Users, process_next_packet(u), IInv'
  PROVE  RInv'
<1>1. CASE process_SID_CLIENT_INFORMATION(u)
  BY <1>1, ClientInformationRooms
<1>2. ASSUME NEW n \in Names, NEW p \in Passwords, process_SID_LOGIN(u, n, p) PROVE RInv'
  BY <1>2, LoginRooms
<1>3. CASE process_SID_CHATCOMMAND(u)
  <2>1. CASE LeaveChat(u)
    BY <2>1, LeaveChatRooms
  <2>2. ASSUME NEW r \in RoomNames, JoinRoom(u, r) PROVE RInv'
    BY <2>2, JoinRoomRooms
  <2>3. CASE UNCHANGED <<tables, sessions>>
    BY <2>3, SameRooms DEF tables, OldUsers
  <2> QED
    BY <1>3, <2>1, <2>2, <2>3 DEF process_SID_CHATCOMMAND, process_command_join, ReplyOnly,
       process_command_who, process_command_finger, process_command_w, process_command_rooms, Talk
<1>4. CASE CloseOld(u)
  <2>1. OldUsers' \subseteq OldUsers
    BY <1>4 DEF CloseOld, OldUsers, table_remove, get_values, get_keys, RInv, IInv, TypeOK
  <2> QED
    BY <1>4, <2>1, SameRooms DEF CloseOld
<1>5. CASE UNCHANGED <<rooms, members, sessions, old_users>>
  BY <1>5, SameRooms DEF OldUsers
<1> QED
  BY <1>1, <1>2, <1>3, <1>4, <1>5 DEF process_next_packet, ReadPartial, CloseNew, Ignore, Refuse,
     process_SID_CREATE, tables

LEMMA DieRooms == ASSUME RInv, Die, IInv' PROVE RInv'
<1>1. OldUsers' = {}
  BY EmptyValues DEF Die, OldUsers
<1> QED
  BY <1>1, NullAssumption
     DEF RInv, OwnNameInRooms, BlankUntilLogin, SeatsMatch, Die, NoMembers, NoSessions,
         table_create, InChat

(* Throughout, the rooms' tables and the sessions agree.                   *)
THEOREM RoomsInvariance == Spec => []RInv
<1>1. RInv /\ IInv' /\ [Next]_vars => RInv'
  <2> SUFFICES ASSUME RInv, IInv', [Next]_vars PROVE RInv'
    OBVIOUS
  <2>1. CASE UNCHANGED <<rooms, members, sessions, old_users>>
    BY <2>1, SameRooms DEF OldUsers
  <2> QED
    BY <2>1, SelectRooms, PacketRooms, DieRooms
       DEF Next, ServerStep, do_keepalive, Connect, Arrive, Restart, vars, tables
<1> QED
  BY <1>1, InitRInv, Invariance, PTL DEF Spec

(* A connected session is in the table of the room it names, which exists, *)
(* and in no other, whatever dead sessions the tables still hold.          *)
THEOREM RoomsMatch == Spec => []RoomsMatchSessions
BY RInvImpliesMatch, RoomsInvariance, PTL

-----------------------------------------------------------------------------
(* Who hears a broadcast *)

Linked == {u \in Users : Connected(u)}

(* The connected sessions, their rooms and names, and the sessions left    *)
(* over in each room.                                                      *)
Scene == [linked |-> Linked, where |-> room, names |-> username,
          gone |-> [r \in RoomNames |-> LeftOver(r)]]

(* A room event is written to the connected sessions of its room, save the *)
(* one who leaves, and to all those left over in it.                       *)
Heard(packet, scene) ==
  packet.kind \in RoomEvents =>
    \A r \in packet.about :
      /\ r \in RoomNames
      /\ packet.to \ scene.linked = scene.gone[r]
      /\ \A u \in scene.linked :
           u \in packet.to <=>
             /\ scene.where[u] = r
             /\ packet.kind = "USER_LEAVE_CHANNEL" => scene.names[u] # packet.who

AllHeard(packets, scene) == \A i \in DOMAIN packets : Heard(packets[i], scene)

(* The connected sessions in a room's table are those whose room it is. *)
Seated == \A r \in RoomNames, u \in Linked : u \in get_values(members[r]) <=> room[u] = r

LEMMA RInvImpliesSeated == RInv => Seated
<1> SUFFICES ASSUME RInv, NEW r \in RoomNames, NEW u \in Linked
             PROVE  u \in get_values(members[r]) <=> room[u] = r
  BY DEF Seated
<1>1. CASE u \in OldUsers
  BY <1>1, RInvImpliesMatch DEF RoomsMatchSessions
<1>2. CASE u \in new_users
  <2>1. username[u] = NULL /\ room[u] = NULL
    BY <1>2 DEF RInv, IInv, TypeOK, UsersPartition, BlankUntilLogin, InChat
  <2>2. u \notin get_values(members[r])
    BY <2>1, NullAssumption DEF RInv, OwnNameInRooms, IInv, TypeOK, get_values, get_keys
  <2> QED
    BY <2>1, <2>2, NullAssumption
<1> QED
  BY <1>1, <1>2 DEF RInv, IInv, UsersPartition, Linked

LEMMA SeatedAfter == RInv' => Seated'
BY RInvImpliesSeated, PTL

LEMMA Concatenated ==
  ASSUME NEW S, NEW s \in Seq(S), NEW t \in Seq(S), NEW scene,
         AllHeard(s, scene), AllHeard(t, scene)
  PROVE  AllHeard(s \o t, scene)
<1> SUFFICES ASSUME NEW i \in DOMAIN (s \o t) PROVE Heard((s \o t)[i], scene)
  BY DEF AllHeard
<1>1. CASE i \in 1..Len(s)
  <2>1. (s \o t)[i] = s[i] /\ i \in DOMAIN s
    BY <1>1, ConcatProperties
  <2> QED
    BY <2>1 DEF AllHeard
<1>2. CASE i \in Len(s) + 1 .. Len(s) + Len(t)
  <2>1. (s \o t)[i] = t[i - Len(s)] /\ i - Len(s) \in DOMAIN t
    BY <1>2, ConcatProperties
  <2> QED
    BY <2>1 DEF AllHeard
<1> QED
  BY <1>1, <1>2, ConcatProperties

(* A message to a room's table as the step leaves it. *)
LEMMA RoomHeard ==
  ASSUME RInv', NEW r \in RoomNames, NEW kind \in RoomEvents, kind # "USER_LEAVE_CHANNEL", NEW who
  PROVE  Heard(room_message(members'[r], kind, who, r), Scene')
<1> DEFINE to == get_values(members'[r])
<1>1. \A v \in Linked' : v \in to <=> room'[v] = r
  BY SeatedAfter DEF Seated
<1>2. members'[r] \in [Names -> Users \cup {NULL}]
  BY DEF RInv, IInv, TypeOK
<1>3. to \subseteq Users
  BY <1>2 DEF get_values, get_keys
<1>4. to \ Linked' = LeftOver(r)'
  BY <1>3 DEF LeftOver, Linked
<1>5. /\ Scene'.linked = Linked' /\ Scene'.where = room'
      /\ Scene'.gone[r] = LeftOver(r)'
  BY DEF Scene
<1> HIDE DEF to
<1>6. /\ room_message(members'[r], kind, who, r).to = to
      /\ room_message(members'[r], kind, who, r).kind = kind
      /\ room_message(members'[r], kind, who, r).about = {r}
  BY DEF room_message, Packet, to
<1> QED
  BY <1>1, <1>4, <1>5, <1>6 DEF Heard

LEMMA LeaveHeard ==
  ASSUME RInv, RInv', NEW u \in Users, Commanding(u), UNCHANGED <<username, owner>>,
         \A r \in RoomNames, n \in Names :
           \/ members'[r][n] = AfterLeaving(u)[r][n]
           \/ n = username[u] /\ members'[r][n] = u
  PROVE  AllHeard(LeaveMessages(u), Scene')
<1> DEFINE left == AfterLeaving(u)
           to   == get_values(left[room[u]])
<1>1. CASE room[u] \notin rooms
  BY <1>1 DEF LeaveMessages, AllHeard
<1>2. CASE room[u] \in rooms
  <2>1. PICK q \in RoomNames : room[u] = q
    BY <1>2 DEF RInv, IInv, TypeOK
  <2>2. u \in OldUsers /\ username[u] \in Names
    BY CommandingInTable DEF RInv
  <2>3. left \in [RoomNames -> [Names -> Users \cup {NULL}]]
        /\ members' \in [RoomNames -> [Names -> Users \cup {NULL}]]
    BY <2>2, Left DEF RInv, IInv, TypeOK
  <2>4. left[room[u]][username[u]] = NULL
    BY <1>2, <2>1, <2>2 DEF AfterLeaving, room_remove_user, table_remove, RInv, IInv, TypeOK
  <2>5. u \in Linked'
    BY <2>2 DEF Linked, Connected, RInv, IInv, UsersPartition
  <2>6. \A n \in Names \ {username[u]} : members'[room[u]][n] = left[room[u]][n]
    BY <2>1
  <2>7. \A v \in Users : v \in to <=> v \in get_values(members'[room[u]]) /\ username'[v] # username[u]
    <3> TAKE v \in Users
    <3>0. v # NULL
      BY NullAssumption
    <3>1. ASSUME v \in to
          PROVE  v \in get_values(members'[room[u]]) /\ username'[v] # username[u]
      <4>1. PICK n \in Names : left[room[u]][n] = v
        BY <2>1, <2>3, <3>1 DEF get_values, get_keys
      <4>2. n # username[u]
        BY <2>4, <3>0, <4>1
      <4>3. members'[room[u]][n] = v
        BY <2>6, <4>1, <4>2
      <4>4. username'[v] = n
        BY <2>1, <3>0, <4>3 DEF RInv, OwnNameInRooms
      <4> QED
        BY <2>1, <2>3, <3>0, <4>2, <4>3, <4>4 DEF get_values, get_keys
    <3>2. ASSUME v \in get_values(members'[room[u]]), username'[v] # username[u]
          PROVE  v \in to
      <4>1. PICK n \in Names : members'[room[u]][n] = v
        BY <2>1, <2>3, <3>2 DEF get_values, get_keys
      <4>2. username'[v] = n
        BY <2>1, <3>0, <4>1 DEF RInv, OwnNameInRooms
      <4>3. left[room[u]][n] = v
        BY <2>6, <3>2, <4>1, <4>2
      <4> QED
        BY <2>1, <2>3, <3>0, <4>3 DEF get_values, get_keys
    <3> QED
      BY <3>1, <3>2
  <2>8. \A v \in Linked' : v \in get_values(members'[room[u]]) <=> room'[v] = room[u]
    BY <2>1, SeatedAfter DEF Seated
  <2>9. to \subseteq Users /\ get_values(members'[room[u]]) \subseteq Users
    BY <2>1, <2>3 DEF get_values, get_keys
  <2>10. to \ Linked' = LeftOver(q)'
    <3>1. ASSUME NEW v \in LeftOver(q)' PROVE v \in to \ Linked'
      <4>1. v \in get_values(members'[room[u]]) /\ v \notin Linked'
        BY <2>1, <3>1 DEF LeftOver, Linked
      <4>2. PICK n \in Names : members'[room[u]][n] = v /\ v # NULL
        BY <2>1, <2>3, <4>1 DEF get_values, get_keys
      <4>3. username'[v] = n
        BY <2>1, <4>2 DEF RInv, OwnNameInRooms
      <4>4. n # username[u]
        BY <2>1, <2>4, <2>5, <4>1, <4>2
      <4> QED
        BY <2>7, <2>9, <4>1, <4>3, <4>4
    <3>2. ASSUME NEW v \in to \ Linked' PROVE v \in LeftOver(q)'
      <4>1. v \in Users /\ v \in get_values(members'[room[u]])
        BY <2>7, <2>9, <3>2
      <4> QED
        BY <2>1, <3>2, <4>1 DEF LeftOver, Linked
    <3> QED
      BY <3>1, <3>2
  <2>11. /\ Scene'.linked = Linked' /\ Scene'.where = room' /\ Scene'.names = username'
         /\ Scene'.gone[room[u]] = LeftOver(q)'
    BY <2>1 DEF Scene
  <2>12. Linked' \subseteq Users
    BY DEF Linked
  <2> DEFINE event == room_message(left[room[u]], "USER_LEAVE_CHANNEL", username[u], room[u])
  <2>13. /\ event.to = to /\ event.kind = "USER_LEAVE_CHANNEL"
         /\ event.who = username[u] /\ event.about = {room[u]}
    BY DEF room_message, Packet
  <2> HIDE DEF to, event
  <2>14. Heard(event, Scene')
    BY <2>1, <2>7, <2>8, <2>10, <2>11, <2>12, <2>13 DEF Heard
  <2> QED
    BY <1>2, <2>14 DEF LeaveMessages, AllHeard, event
<1> QED
  BY <1>1, <1>2

LEMMA TalkHeard ==
  ASSUME RInv, RInv', NEW u \in Users, Talk(u)
  PROVE  AllHeard(wire', Scene')
<1>1. room[u] \in RoomNames /\ members' = members
  BY DEF Talk, tables, RInv, IInv, TypeOK
<1>2. Heard(room_message(members'[room[u]], "TALK", username[u], room[u]), Scene')
  BY <1>1, RoomHeard DEF RoomEvents
<1> QED
  BY <1>1, <1>2 DEF Talk, AllHeard

LEMMA LeaveChatHeard ==
  ASSUME RInv, RInv', NEW u \in Users, LeaveChat(u)
  PROVE  AllHeard(wire', Scene')
<1> DEFINE replies == << Reply(u, "INFO", {}), Reply(u, "CHANNEL", {}) >>
<1>1. Commanding(u) /\ UNCHANGED <<username, owner>> /\ members' = AfterLeaving(u)
      /\ wire' = LeaveMessages(u) \o replies
  BY DEF LeaveChat, net
<1>2. AllHeard(LeaveMessages(u), Scene')
  BY <1>1, LeaveHeard
<1>3. AllHeard(replies, Scene')
  BY DEF AllHeard, Heard, Reply, send_chat, Packet, RoomEvents
<1>4. LeaveMessages(u) \in Seq(Packets) /\ replies \in Seq(Packets)
  <2>1. Reply(u, "INFO", {}) \in Packets /\ Reply(u, "CHANNEL", {}) \in Packets
    BY <1>1, ReplyTyped DEF RInv, Kinds, ChatEvents
  <2> QED
    BY <1>1, <2>1, LeavingTyped DEF RInv
<1> QED
  BY <1>1, <1>2, <1>3, <1>4, Concatenated

(* The rooms once u has left his and joined another. *)
LEMMA JoinedRooms ==
  ASSUME RInv, NEW u \in Users, NEW r \in RoomNames, JoinRoom(u, r)
  PROVE  /\ members'[r] = room_add_user(AfterLeaving(u)[r], u)
         /\ members'[r][username[u]] = u
         /\ \A q \in RoomNames, n \in Names :
              \/ members'[q][n] = AfterLeaving(u)[q][n]
              \/ n = username[u] /\ q = r
<1> DEFINE left == AfterLeaving(u)
<1>1. Commanding(u) /\ members' = [left EXCEPT ![r] = room_add_user(left[r], u)]
  BY DEF JoinRoom
<1>2. username[u] \in Names
  BY <1>1, CommandingInTable DEF RInv
<1>3. left \in [RoomNames -> [Names -> Users \cup {NULL}]]
  BY <1>1, LeavingTyped DEF RInv
<1> QED
  BY <1>1, <1>2, <1>3 DEF room_add_user, table_add

(* Who is told that u leaves his old room, and who that he joins the new   *)
(* one.                                                                    *)
LEMMA BothHeard ==
  ASSUME RInv, RInv', NEW u \in Users, NEW r \in RoomNames, JoinRoom(u, r)
  PROVE  /\ AllHeard(LeaveMessages(u), Scene')
         /\ Heard(room_message(room_add_user(AfterLeaving(u)[r], u),
                               "USER_JOIN_CHANNEL", username[u], r), Scene')
<1>1. Commanding(u) /\ UNCHANGED <<username, owner>>
  BY DEF JoinRoom, net
<1>2. \A q \in RoomNames, n \in Names :
        members'[q][n] = AfterLeaving(u)[q][n] \/ (n = username[u] /\ members'[q][n] = u)
  BY JoinedRooms
<1>3. AllHeard(LeaveMessages(u), Scene')
  BY <1>1, <1>2, LeaveHeard
<1>4. Heard(room_message(members'[r], "USER_JOIN_CHANNEL", username[u], r), Scene')
  BY RoomHeard DEF RoomEvents
<1> QED
  BY <1>3, <1>4, JoinedRooms

LEMMA JoinRoomHeard ==
  ASSUME RInv, RInv', NEW u \in Users, NEW r \in RoomNames, JoinRoom(u, r)
  PROVE  AllHeard(wire', Scene')
<1> DEFINE left    == AfterLeaving(u)
           joined  == room_add_user(left[r], u)
           created == IF r \in rooms THEN << >> ELSE << Reply(u, "INFO", {}) >>
           listed  == Packet({u}, "USER_IN_CHANNEL", NULL, get_keys(left[r]))
           news    == room_message(joined, "USER_JOIN_CHANNEL", username[u], r)
           entered == << Reply(u, "CHANNEL", {r}), listed, news >>
<1>1. Commanding(u) /\ wire' = LeaveMessages(u) \o created \o entered
  BY DEF JoinRoom
<1>2. username[u] \in Names
  BY <1>1, CommandingInTable DEF RInv
<1>3. left \in [RoomNames -> [Names -> Users \cup {NULL}]] /\ LeaveMessages(u) \in Seq(Packets)
  BY <1>1, LeavingTyped DEF RInv
<1>4. AllHeard(LeaveMessages(u), Scene') /\ Heard(news, Scene')
  BY BothHeard
<1>5. Reply(u, "INFO", {}) \in Packets /\ Reply(u, "CHANNEL", {r}) \in Packets
  BY <1>1, ReplyTyped DEF RInv, Kinds, ChatEvents
<1>6. created \in Seq(Packets) /\ AllHeard(created, Scene')
  BY <1>5, NoPacket DEF AllHeard, Heard, Reply, send_chat, Packet, RoomEvents
<1>8. AllHeard(entered, Scene')
  <2>1. Heard(Reply(u, "CHANNEL", {r}), Scene') /\ Heard(listed, Scene')
    BY DEF Heard, Reply, send_chat, Packet, RoomEvents
  <2> HIDE DEF listed, news
  <2> QED
    BY <1>4, <2>1 DEF AllHeard
<1>9. entered \in Seq(Packets)
  <2>1. listed \in Packets
    <3>1. get_keys(left[r]) \in SUBSET (Names \cup RoomNames)
      BY <1>3, ValuesTyped
    <3> QED
      BY <3>1, OnePacket DEF Kinds, ChatEvents
  <2>2. joined \in [Names -> Users \cup {NULL}]
    BY <1>2, <1>3 DEF room_add_user, table_add
  <2>3. news \in Packets
    BY <1>2, <2>2, BroadcastTyped DEF RoomEvents
  <2> HIDE DEF listed, news
  <2> QED
    BY <1>5, <2>1, <2>3
<1> HIDE DEF created, entered
<1>10. LeaveMessages(u) \o created \in Seq(Packets)
       /\ AllHeard(LeaveMessages(u) \o created, Scene')
  BY <1>3, <1>4, <1>6, Concatenated, ConcatProperties
<1> QED
  BY <1>1, <1>8, <1>9, <1>10, Concatenated

(* The packets of all other steps are no room events. *)
LEMMA OthersSilent ==
  ASSUME Next, ~ \E u \in Users : Talk(u) \/ LeaveChat(u) \/ \E r \in RoomNames : JoinRoom(u, r)
  PROVE  \A i \in DOMAIN wire' : wire'[i].kind \notin RoomEvents
<1> SUFFICES ASSUME NEW i \in DOMAIN wire' PROVE wire'[i].kind \notin RoomEvents
  OBVIOUS
<1>1. CASE wire' = << >>
  BY <1>1
<1>2. CASE do_keepalive
  BY <1>2 DEF do_keepalive, Packet, RoomEvents
<1>3. ASSUME NEW u \in Users, NEW kind, NEW who, kind \notin RoomEvents,
             wire' = << send_packet(u, kind, who) >>
      PROVE  wire'[i].kind \notin RoomEvents
  BY <1>3 DEF send_packet, Packet
<1>4. ASSUME NEW u \in Users, NEW kind \in {"INFO", "ERROR"}, NEW about, ReplyOnly(u, kind, about)
      PROVE  wire'[i].kind \notin RoomEvents
  BY <1>4 DEF ReplyOnly, Reply, send_chat, Packet, RoomEvents
<1>5. ASSUME NEW u \in Users, process_SID_CHATCOMMAND(u)
      PROVE  wire'[i].kind \notin RoomEvents
  <2>1. ASSUME NEW n \in Names, process_command_w(u, n) PROVE wire'[i].kind \notin RoomEvents
    BY <1>4, <2>1 DEF process_command_w, send_chat, Packet, RoomEvents
  <2>2. ASSUME NEW r \in RoomNames, process_command_who(u, r) PROVE wire'[i].kind \notin RoomEvents
    BY <1>4, <2>2 DEF process_command_who
  <2>3. ASSUME NEW n \in Names, process_command_finger(u, n) PROVE wire'[i].kind \notin RoomEvents
    BY <1>4, <2>3 DEF process_command_finger
  <2>4. CASE process_command_rooms(u)
    BY <1>4, <2>4 DEF process_command_rooms
  <2>5. ASSUME NEW kind \in {"INFO", "ERROR"}, ReplyOnly(u, kind, {})
        PROVE  wire'[i].kind \notin RoomEvents
    BY <1>4, <2>5
  <2> QED
    BY <1>5, <2>1, <2>2, <2>3, <2>4, <2>5 DEF process_SID_CHATCOMMAND, process_command_join
<1>6. ASSUME NEW u \in Users, process_next_packet(u)
      PROVE  wire'[i].kind \notin RoomEvents
  <2>1. CASE process_SID_CLIENT_INFORMATION(u)
    BY <1>3, <2>1 DEF process_SID_CLIENT_INFORMATION, RoomEvents
  <2>2. ASSUME NEW n \in Names, NEW p \in Passwords, process_SID_LOGIN(u, n, p)
        PROVE  wire'[i].kind \notin RoomEvents
    <3>1. LoginStatus(n, p) \notin RoomEvents
      BY DEF LoginStatus, account_login, RoomEvents
    <3> QED
      BY <1>3, <2>2, <3>1 DEF process_SID_LOGIN
  <2>3. ASSUME NEW n \in Names, NEW p \in Passwords, process_SID_CREATE(u, n, p)
        PROVE  wire'[i].kind \notin RoomEvents
    <3>1. CreateStatus(n) \notin RoomEvents
      BY DEF CreateStatus, RoomEvents
    <3> QED
      BY <1>3, <2>3, <3>1 DEF process_SID_CREATE
  <2>4. CASE Refuse(u)
    BY <1>3, <2>4 DEF Refuse, send_error, RoomEvents
  <2> QED
    BY <1>1, <1>5, <1>6, <2>1, <2>2, <2>3, <2>4
       DEF process_next_packet, ReadPartial, CloseOld, CloseNew, Ignore
<1> QED
  BY <1>1, <1>2, <1>6 DEF Next, ServerStep, Select, Connect, Arrive, Die, Restart

LEMMA OthersHeard ==
  ASSUME Next, ~ \E u \in Users : Talk(u) \/ LeaveChat(u) \/ \E r \in RoomNames : JoinRoom(u, r)
  PROVE  AllHeard(wire', Scene')
BY OthersSilent DEF AllHeard, Heard

(* The descriptor of a connected session leads to its own client. *)
LEMMA OwnLine ==
  ASSUME IInv, NEW s \in Users, Connected(s), NEW c \in Users
  PROVE  LeadsTo(s, c) <=> s = c
BY DEF LeadsTo, Connected, IInv, UsersPartition

(* From the sessions a room event is written to, to the clients that read  *)
(* it.                                                                     *)
Reached ==
  \A packet \in Packets : packet.kind \in RoomEvents /\ Heard(packet, Scene) =>
    \A r \in packet.about, c \in Linked :
      (c \in Hearers(packet) <=>
         \/ /\ room[c] = r
            /\ packet.kind = "USER_LEAVE_CHANNEL" => username[c] # packet.who
         \/ \E v \in LeftOver(r) : LeadsTo(v, c))

LEMMA HeardIsReached == IInv => Reached
<1> SUFFICES ASSUME IInv, NEW packet \in Packets, packet.kind \in RoomEvents, Heard(packet, Scene),
                    NEW r \in packet.about, NEW c \in Linked
             PROVE  (c \in Hearers(packet) <=>
                       \/ /\ room[c] = r
                          /\ packet.kind = "USER_LEAVE_CHANNEL" => username[c] # packet.who
                       \/ \E v \in LeftOver(r) : LeadsTo(v, c))
  BY DEF Reached
<1>1. c \in Users /\ Connected(c) /\ packet.to \subseteq Users
  BY DEF Linked, Packets
<1>2. /\ Scene.linked = Linked /\ Scene.where = room /\ Scene.names = username
      /\ r \in RoomNames /\ Scene.gone[r] = LeftOver(r)
  BY DEF Scene, Heard
<1>3. packet.to \ Linked = LeftOver(r)
  BY <1>2 DEF Heard
<1>4. c \in packet.to <=>
        room[c] = r /\ (packet.kind = "USER_LEAVE_CHANNEL" => username[c] # packet.who)
  BY <1>2 DEF Heard
<1>5. \A s \in packet.to \cap Linked : LeadsTo(s, c) <=> s = c
  BY <1>1, OwnLine DEF Linked
<1> QED
  BY <1>1, <1>3, <1>4, <1>5 DEF Hearers

LEMMA ReachedAfter == IInv' => Reached'
BY HeardIsReached, PTL

(* Talk, joins and leaves reach exactly the clients whose session is in    *)
(* the room at the moment of the event, and those that were given the      *)
(* descriptor of a session left over in it.                                *)
THEOREM BroadcastsReachRooms == Spec => []RoomEventsReachRoom
<1>1. Init => RoomEventsReachRoom
  BY DEF Init, RoomEventsReachRoom
<1>2. ASSUME RInv, RInv', Next PROVE RoomEventsReachRoom'
  <2>1. AllHeard(wire', Scene')
    BY <1>2, TalkHeard, LeaveChatHeard, JoinRoomHeard, OthersHeard
  <2>2. \A i \in DOMAIN wire' : wire'[i] \in Packets /\ Heard(wire'[i], Scene')
    BY <1>2, <2>1 DEF AllHeard, RInv, IInv, TypeOK
  <2>3. Reached'
    BY <1>2, ReachedAfter DEF RInv
  <2> SUFFICES ASSUME NEW i \in DOMAIN wire', wire'[i].kind \in RoomEvents,
                      NEW r \in wire'[i].about, NEW c \in Users, Connected(c)'
               PROVE  (c \in Hearers(wire[i]) <=>
                         \/ /\ room[c] = r
                            /\ wire[i].kind = "USER_LEAVE_CHANNEL" => username[c] # wire[i].who
                         \/ \E v \in LeftOver(r) : LeadsTo(v, c))'
    BY DEF RoomEventsReachRoom
  <2>4. c \in Linked'
    BY DEF Linked
  <2> QED
    BY <2>2, <2>3, <2>4 DEF Reached
<1>3. RoomEventsReachRoom /\ UNCHANGED vars => RoomEventsReachRoom'
  BY DEF RoomEventsReachRoom, Connected, Hearers, LeadsTo, LeftOver, vars, net, sessions, tables
<1>4. RoomEventsReachRoom /\ RInv /\ RInv' /\ [Next]_vars => RoomEventsReachRoom'
  BY <1>2, <1>3
<1> QED
  BY <1>1, <1>4, RoomsInvariance, PTL DEF Spec

-----------------------------------------------------------------------------
(* Accounts of those who are let in *)

(* Names get into the file through the check for legal names only.         *)
LegalAccounts == \A n \in Names : accounts[n] # NULL => n \in LegalNames

AInv == LoggedInHaveAccounts /\ LegalAccounts

LEMMA SameAccounts ==
  ASSUME AInv, UNCHANGED <<username, accounts>>
  PROVE  AInv'
BY DEF AInv, LoggedInHaveAccounts, LegalAccounts

LEMMA LoginAccounts ==
  ASSUME IInv, AInv, NEW u \in Users, NEW n \in Names, NEW p \in Passwords, process_SID_LOGIN(u, n, p)
  PROVE  AInv'
<1>1. CASE LoginStatus(n, p) = "LOGIN_SUCCESS"
  <2>1. username' = [username EXCEPT ![u] = n] /\ UNCHANGED accounts
    BY <1>1 DEF process_SID_LOGIN
  <2>2. accounts[n] # NULL
    BY <1>1 DEF LoginStatus, account_login
  <2> QED
    BY <2>1, <2>2 DEF AInv, LoggedInHaveAccounts, LegalAccounts, IInv, TypeOK
<1>2. CASE LoginStatus(n, p) # "LOGIN_SUCCESS"
  BY <1>2, SameAccounts DEF process_SID_LOGIN
<1> QED
  BY <1>1, <1>2

LEMMA CreateAccounts ==
  ASSUME IInv, AInv, NEW u \in Users, NEW n \in Names, NEW p \in Passwords, process_SID_CREATE(u, n, p)
  PROVE  AInv'
<1>0. UNCHANGED username
  BY DEF process_SID_CREATE, sessions
<1>1. CASE CreateStatus(n) = "CREATE_SUCCESS"
  <2>1. accounts' = [accounts EXCEPT ![n] = p]
    BY <1>1 DEF process_SID_CREATE, add_account
  <2>2. n \in LegalNames /\ p # NULL
    BY <1>1, NullAssumption DEF CreateStatus
  <2>3. \A m \in Names : accounts[m] # NULL => accounts'[m] # NULL
    BY <2>1, <2>2 DEF IInv, TypeOK
  <2>4. LegalAccounts'
    BY <2>1, <2>2 DEF AInv, LegalAccounts, IInv, TypeOK
  <2>5. LoggedInHaveAccounts'
    BY <1>0, <2>3 DEF AInv, LoggedInHaveAccounts, IInv, TypeOK
  <2> QED
    BY <2>4, <2>5 DEF AInv
<1>2. CASE CreateStatus(n) # "CREATE_SUCCESS"
  BY <1>0, <1>2, SameAccounts DEF process_SID_CREATE
<1> QED
  BY <1>1, <1>2

LEMMA PacketAccounts ==
  ASSUME IInv, AInv, NEW u \in Users, process_next_packet(u)
  PROVE  AInv'
<1>1. CASE process_SID_CHATCOMMAND(u)
  <2>1. UNCHANGED <<username, accounts>>
    BY <1>1 DEF process_SID_CHATCOMMAND, process_command_join, LeaveChat, JoinRoom, ReplyOnly,
       process_command_who, process_command_finger, process_command_w, process_command_rooms, Talk,
       sessions
  <2> QED
    BY <2>1, SameAccounts
<1>2. CASE ReadPartial(u) \/ CloseOld(u) \/ CloseNew(u) \/ Ignore(u) \/ Refuse(u)
           \/ process_SID_CLIENT_INFORMATION(u)
  <2>1. UNCHANGED <<username, accounts>>
    BY <1>2 DEF ReadPartial, CloseOld, CloseNew, Ignore, Refuse, process_SID_CLIENT_INFORMATION,
       sessions
  <2> QED
    BY <2>1, SameAccounts
<1> QED
  BY <1>1, <1>2, LoginAccounts, CreateAccounts DEF process_next_packet

(* Nobody gets a name without an account for it, and the name is legal;    *)
(* the account outlives the session.                                       *)
THEOREM AccountsBeforeLogins == Spec => []LoggedInHaveAccounts
<1>1. Init => AInv
  BY DEF Init, AInv, LoggedInHaveAccounts, LegalAccounts, NoSessions
<1>2. ASSUME IInv, AInv, [Next]_vars PROVE AInv'
  <2>1. CASE Die
    BY <1>2, <2>1 DEF Die, AInv, LoggedInHaveAccounts, LegalAccounts, NoSessions
  <2>2. CASE UNCHANGED <<username, accounts>>
    BY <1>2, <2>2, SameAccounts
  <2>3. ASSUME NEW u \in Users, process_next_packet(u) PROVE AInv'
    BY <1>2, <2>3, PacketAccounts
  <2> QED
    BY <1>2, <2>1, <2>2, <2>3
       DEF Next, ServerStep, vars, sessions, Select, do_keepalive, Connect, Arrive, Restart
<1>3. AInv => LoggedInHaveAccounts
  BY DEF AInv
<1> QED
  BY <1>1, <1>2, <1>3, Invariance, PTL DEF Spec

-----------------------------------------------------------------------------
(* Replies *)

Replies == {"INFO", "ERROR", "CHANNEL", "USER_IN_CHANNEL", "WHISPERTO"}

(* Among these packets, the replies go to u alone. *)
OnlyTo(u, packets) ==
  \A i \in DOMAIN packets : packets[i].kind \in Replies => packets[i].to = {u}

LEMMA TwoParts ==
  ASSUME NEW S, NEW s \in Seq(S), NEW t \in Seq(S), NEW u, OnlyTo(u, s), OnlyTo(u, t)
  PROVE  OnlyTo(u, s \o t) /\ s \o t \in Seq(S)
<1> SUFFICES ASSUME NEW i \in DOMAIN (s \o t), (s \o t)[i].kind \in Replies
             PROVE  (s \o t)[i].to = {u}
  BY ConcatProperties DEF OnlyTo
<1>1. CASE i \in 1..Len(s)
  <2>1. (s \o t)[i] = s[i] /\ i \in DOMAIN s
    BY <1>1, ConcatProperties
  <2> QED
    BY <2>1 DEF OnlyTo
<1>2. CASE i \in Len(s) + 1 .. Len(s) + Len(t)
  <2>1. (s \o t)[i] = t[i - Len(s)] /\ i - Len(s) \in DOMAIN t
    BY <1>2, ConcatProperties
  <2> QED
    BY <2>1 DEF OnlyTo
<1> QED
  BY <1>1, <1>2, ConcatProperties

(* The table finds the sender under his name, so what is addressed to the  *)
(* name is addressed to him.                                               *)
LEMMA FoundByName ==
  ASSUME IInv, NEW u \in Users, Commanding(u), NEW kind, NEW from, NEW about
  PROVE  send_chat(kind, username[u], from, about).to = {u}
<1>1. u \in OldUsers /\ username[u] \in Names
  BY CommandingInTable
<1>2. old_users[username[u]] = u /\ u # NULL
  BY <1>1, InChatInTable, NullAssumption DEF IInv, UsersPartition
<1> QED
  BY <1>2 DEF send_chat, Packet, table_find

LEMMA RepliesToSender ==
  ASSUME IInv, NEW u \in Users, Commanding(u), NEW kind, NEW about
  PROVE  Reply(u, kind, about).to = {u}
BY FoundByName DEF Reply

LEMMA LeaveSilent ==
  ASSUME NEW u
  PROVE  OnlyTo(u, LeaveMessages(u))
BY DEF OnlyTo, LeaveMessages, room_message, Packet, Replies

LEMMA LeaveChatReplies ==
  ASSUME IInv, NEW u \in Users, LeaveChat(u)
  PROVE  OnlyTo(u, wire')
<1> DEFINE first   == LeaveMessages(u)
           info    == Reply(u, "INFO", {})
           channel == Reply(u, "CHANNEL", {})
           replies == << info, channel >>
<1>1. Commanding(u) /\ wire' = first \o replies
  BY DEF LeaveChat
<1>2. OnlyTo(u, replies)
  <2>1. info.to = {u} /\ channel.to = {u}
    BY <1>1, RepliesToSender
  <2> HIDE DEF info, channel
  <2> QED
    BY <2>1 DEF OnlyTo
<1>3. first \in Seq(Packets) /\ replies \in Seq(Packets)
  <2>1. Reply(u, "INFO", {}) \in Packets /\ Reply(u, "CHANNEL", {}) \in Packets
    BY <1>1, ReplyTyped DEF Kinds, ChatEvents
  <2> QED
    BY <1>1, <2>1, LeavingTyped
<1> QED
  BY <1>1, <1>2, <1>3, LeaveSilent, TwoParts

LEMMA JoinRoomReplies ==
  ASSUME IInv, NEW u \in Users, NEW r \in RoomNames, JoinRoom(u, r)
  PROVE  OnlyTo(u, wire')
<1> DEFINE info == Reply(u, "INFO", {})
           created == IF r \in rooms THEN << >> ELSE << info >>
           a == Reply(u, "CHANNEL", {r})
           b == Packet({u}, "USER_IN_CHANNEL", NULL, get_keys(AfterLeaving(u)[r]))
           c == room_message(room_add_user(AfterLeaving(u)[r], u), "USER_JOIN_CHANNEL", username[u], r)
           any == Packets \cup {info, a, b, c}
<1>1. Commanding(u) /\ wire' = LeaveMessages(u) \o created \o << a, b, c >>
  BY DEF JoinRoom
<1>2. LeaveMessages(u) \in Seq(Packets)
  BY <1>1, LeavingTyped
<1>3. OnlyTo(u, created)
  <2>1. info.to = {u}
    BY <1>1, RepliesToSender
  <2> HIDE DEF info
  <2> QED
    BY <2>1 DEF OnlyTo
<1>4. a.to = {u} /\ b.to = {u} /\ c.kind \notin Replies
  <2>1. a.to = {u}
    BY <1>1, RepliesToSender
  <2>2. b.to = {u}
    BY DEF Packet
  <2>3. c.kind \notin Replies
    BY DEF Packet, room_message, Replies
  <2> QED
    BY <2>1, <2>2, <2>3
<1> HIDE DEF a, b, c
<1>5. OnlyTo(u, << a, b, c >>)
  BY <1>4 DEF OnlyTo
<1>6. LeaveMessages(u) \in Seq(any) /\ created \in Seq(any) /\ << a, b, c >> \in Seq(any)
  <2>1. LeaveMessages(u) \in Seq(any)
    BY <1>2
  <2>2. << >> \in Seq(any) /\ << info >> \in Seq(any) /\ << a, b, c >> \in Seq(any)
    OBVIOUS
  <2> QED
    BY <2>1, <2>2
<1> HIDE DEF created, any
<1>7. OnlyTo(u, LeaveMessages(u) \o created) /\ LeaveMessages(u) \o created \in Seq(any)
  BY <1>3, <1>6, LeaveSilent, TwoParts
<1> QED
  BY <1>1, <1>5, <1>6, <1>7, TwoParts

LEMMA CommandReplies ==
  ASSUME IInv, NEW u \in Users, process_SID_CHATCOMMAND(u)
  PROVE  OnlyTo(u, wire')
<1>1. ASSUME NEW kind, NEW about, ReplyOnly(u, kind, about) PROVE OnlyTo(u, wire')
  BY <1>1, FoundByName DEF ReplyOnly, Reply, OnlyTo
<1>2. ASSUME NEW n \in Names, process_command_w(u, n) PROVE OnlyTo(u, wire')
  <2>1. CASE table_find(old_users, n) = NULL
    BY <1>1, <1>2, <2>1 DEF process_command_w
  <2>2. CASE table_find(old_users, n) # NULL
    <3> DEFINE to == table_find(old_users, n)
               from == send_chat("WHISPERFROM", username[to], username[u], {})
               echo == send_chat("WHISPERTO", username[u], username[to], {})
    <3>1. Commanding(u) /\ wire' = << from, echo >>
      BY <1>2, <2>2 DEF process_command_w
    <3>2. from.kind \notin Replies /\ echo.to = {u}
      BY <3>1, FoundByName DEF send_chat, Packet, Replies
    <3> HIDE DEF from, echo
    <3> QED
      BY <3>1, <3>2 DEF OnlyTo
  <2> QED
    BY <2>1, <2>2
<1>3. CASE Talk(u)
  BY <1>3 DEF Talk, OnlyTo, room_message, Packet, Replies
<1>4. ASSUME NEW n \in Names, process_command_finger(u, n) PROVE OnlyTo(u, wire')
  BY <1>1, <1>4 DEF process_command_finger
<1>5. ASSUME NEW r \in RoomNames, process_command_who(u, r) PROVE OnlyTo(u, wire')
  BY <1>1, <1>5 DEF process_command_who
<1>6. CASE process_command_rooms(u)
  BY <1>1, <1>6 DEF process_command_rooms
<1>7. CASE process_command_join(u)
  BY <1>1, <1>7, LeaveChatReplies, JoinRoomReplies DEF process_command_join
<1> QED
  BY <1>1, <1>2, <1>3, <1>4, <1>5, <1>6, <1>7 DEF process_SID_CHATCOMMAND

LEMMA PacketReplies ==
  ASSUME IInv, NEW u \in Users, process_next_packet(u)
  PROVE  OnlyTo(u, wire') /\ readable' = readable \ {u}
<1>1. ASSUME NEW kind, NEW who, wire' = << send_packet(u, kind, who) >> PROVE OnlyTo(u, wire')
  BY <1>1 DEF OnlyTo, send_packet, Packet
<1>2. wire' = << >> => OnlyTo(u, wire')
  BY DEF OnlyTo
<1>3. OnlyTo(u, wire')
  <2>1. ASSUME NEW n \in Names, NEW p \in Passwords,
               process_SID_LOGIN(u, n, p) \/ process_SID_CREATE(u, n, p)
        PROVE  OnlyTo(u, wire')
    BY <1>1, <2>1 DEF process_SID_LOGIN, process_SID_CREATE
  <2>2. CASE Refuse(u) \/ process_SID_CLIENT_INFORMATION(u)
    BY <1>1, <2>2 DEF Refuse, send_error, process_SID_CLIENT_INFORMATION
  <2>3. CASE ReadPartial(u) \/ CloseOld(u) \/ CloseNew(u) \/ Ignore(u)
    BY <1>2, <2>3 DEF ReadPartial, CloseOld, CloseNew, Ignore
  <2> QED
    BY <2>1, <2>2, <2>3, CommandReplies DEF process_next_packet
<1>4. readable' = readable \ {u}
  <2>1. CASE process_SID_CHATCOMMAND(u)
    BY <2>1 DEF process_SID_CHATCOMMAND, process_command_join, LeaveChat, JoinRoom, ReplyOnly,
       process_command_who, process_command_finger, process_command_w, process_command_rooms, Talk,
       Commanding, Turn
  <2>2. CASE ~process_SID_CHATCOMMAND(u)
    BY <2>2 DEF process_next_packet, ReadPartial, CloseOld, CloseNew, Ignore, Refuse,
       process_SID_CLIENT_INFORMATION, process_SID_LOGIN, process_SID_CREATE, Turn
  <2> QED
    BY <2>1, <2>2
<1> QED
  BY <1>3, <1>4

ToSender ==
  \A u \in readable \ readable', i \in DOMAIN wire' :
    wire'[i].kind \in Replies => wire'[i].to = {u}

(* What a command answers goes to the session that sent it and to no other,*)
(* although it is addressed to a name.                                     *)
THEOREM RepliesFindSender == Spec => RepliesReachSender
<1>1. ASSUME IInv, [Next]_vars PROVE ToSender
  <2>1. ASSUME NEW u \in Users, process_next_packet(u) PROVE ToSender
    BY <1>1, <2>1, PacketReplies DEF ToSender, OnlyTo
  <2>2. CASE readable \subseteq readable' \/ wire' = << >>
    BY <2>2 DEF ToSender
  <2> QED
    BY <1>1, <2>1, <2>2
       DEF Next, ServerStep, vars, loop, Select, do_keepalive, Connect, Arrive, Die, Restart
<1>2. IInv /\ [Next]_vars => [ToSender]_vars
  BY <1>1
<1>3. RepliesReachSender <=> [][ToSender]_vars
  BY PTL DEF RepliesReachSender, ToSender, Replies
<1> QED
  BY <1>2, <1>3, Invariance, PTL DEF Spec

-----------------------------------------------------------------------------
(* Positions in order, for the one or two room events a step can have.     *)

LEMMA NoPosition ==
  ASSUME NEW most \in Nat
  PROVE  InOrder({}, most) = << >>
<1> DEFINE all  == UNION {[1..n -> {}] : n \in 0..most}
           Ok(s) == /\ \A i, j \in DOMAIN s : i < j => s[i] < s[j]
                    /\ \A p \in {} : \E i \in DOMAIN s : s[i] = p
<1>1. << >> \in all /\ Ok(<< >>)
  <2>1. << >> \in [1..0 -> {}] /\ 0 \in 0..most
    OBVIOUS
  <2> QED
    BY <2>1
<1>2. \A s \in all : s = << >>
  <2> SUFFICES ASSUME NEW n \in 0..most, NEW s \in [1..n -> {}] PROVE s = << >>
    OBVIOUS
  <2>1. n = 0
    OBVIOUS
  <2> QED
    BY <2>1
<1> QED
  BY <1>1, <1>2 DEF InOrder

LEMMA OnePosition ==
  ASSUME NEW most \in Nat, most >= 1, NEW p \in Nat
  PROVE  InOrder({p}, most) = << p >>
<1> DEFINE all  == UNION {[1..n -> {p}] : n \in 0..most}
           Ok(s) == /\ \A i, j \in DOMAIN s : i < j => s[i] < s[j]
                    /\ \A q \in {p} : \E i \in DOMAIN s : s[i] = q
<1>1. << p >> \in all /\ Ok(<< p >>)
  <2>1. << p >> \in [1..1 -> {p}] /\ 1 \in 0..most
    OBVIOUS
  <2> QED
    BY <2>1
<1>2. ASSUME NEW s \in all, Ok(s) PROVE s = << p >>
  <2>1. PICK n \in 0..most : s \in [1..n -> {p}]
    OBVIOUS
  <2>2. ~ n >= 2
    BY <1>2, <2>1
  <2>3. n # 0
    BY <1>2, <2>1
  <2>4. n = 1
    BY <2>2, <2>3
  <2> QED
    BY <2>1, <2>4
<1> QED
  BY <1>1, <1>2 DEF InOrder

LEMMA TwoPositions ==
  ASSUME NEW most \in Nat, most >= 2, NEW p \in Nat, NEW q \in Nat, p < q
  PROVE  InOrder({p, q}, most) = << p, q >>
<1> DEFINE all  == UNION {[1..n -> {p, q}] : n \in 0..most}
           Ok(s) == /\ \A i, j \in DOMAIN s : i < j => s[i] < s[j]
                    /\ \A r \in {p, q} : \E i \in DOMAIN s : s[i] = r
<1>1. << p, q >> \in all /\ Ok(<< p, q >>)
  <2>1. << p, q >> \in [1..2 -> {p, q}] /\ 2 \in 0..most
    OBVIOUS
  <2> QED
    BY <2>1
<1>2. ASSUME NEW s \in all, Ok(s) PROVE s = << p, q >>
  <2>1. PICK n \in 0..most : s \in [1..n -> {p, q}]
    OBVIOUS
  <2>2. ~ n >= 3
    <3> SUFFICES ASSUME n >= 3 PROVE FALSE
      OBVIOUS
    <3>1. 1 \in DOMAIN s /\ 2 \in DOMAIN s /\ 3 \in DOMAIN s
      BY <2>1
    <3>2. s[1] < s[2] /\ s[2] < s[3]
      BY <1>2, <3>1
    <3> QED
      BY <2>1, <3>1, <3>2
  <2>3. n # 0 /\ n # 1
    BY <1>2, <2>1
  <2>4. n = 2
    BY <2>2, <2>3
  <2>5. s[1] = p /\ s[2] = q
    BY <1>2, <2>1, <2>4
  <2> QED
    BY <2>1, <2>4, <2>5
<1> QED
  BY <1>1, <1>2 DEF InOrder

-----------------------------------------------------------------------------
(* What is heard of a sequence of packets *)

LEMMA NothingHeard ==
  ASSUME NEW packets \in Seq(Packets), NEW lines,
         \A i \in DOMAIN packets : packets[i].kind \notin RoomEvents
  PROVE  RoomEventsHeard(packets, lines) = << >>
<1> DEFINE at == InOrder({i \in DOMAIN packets : IsRoomEvent(packets[i])}, Len(packets))
<1>1. {i \in DOMAIN packets : IsRoomEvent(packets[i])} = {} /\ Len(packets) \in Nat
  BY DEF IsRoomEvent
<1>2. at = << >>
  BY <1>1, NoPosition
<1>3. RoomEventsHeard(packets, lines) = [i \in DOMAIN at |-> AsHeard(packets[at[i]], lines)]
  BY DEF RoomEventsHeard
<1> HIDE DEF at
<1> QED
  BY <1>2, <1>3

LEMMA OneHeard ==
  ASSUME NEW packets \in Seq(Packets), NEW lines, NEW k \in DOMAIN packets,
         packets[k].kind \in RoomEvents,
         \A i \in DOMAIN packets \ {k} : packets[i].kind \notin RoomEvents
  PROVE  RoomEventsHeard(packets, lines) = << AsHeard(packets[k], lines) >>
<1> DEFINE at == InOrder({i \in DOMAIN packets : IsRoomEvent(packets[i])}, Len(packets))
<1>1. /\ {i \in DOMAIN packets : IsRoomEvent(packets[i])} = {k}
      /\ Len(packets) \in Nat /\ Len(packets) >= 1 /\ k \in Nat
  BY DEF IsRoomEvent
<1>2. at = << k >>
  BY <1>1, OnePosition
<1>3. RoomEventsHeard(packets, lines) = [i \in DOMAIN at |-> AsHeard(packets[at[i]], lines)]
  BY DEF RoomEventsHeard
<1> HIDE DEF at
<1> QED
  BY <1>2, <1>3

LEMMA TwoHeard ==
  ASSUME NEW packets \in Seq(Packets), NEW lines,
         NEW j \in DOMAIN packets, NEW k \in DOMAIN packets, j < k,
         packets[j].kind \in RoomEvents, packets[k].kind \in RoomEvents,
         \A i \in DOMAIN packets \ {j, k} : packets[i].kind \notin RoomEvents
  PROVE  RoomEventsHeard(packets, lines)
           = << AsHeard(packets[j], lines), AsHeard(packets[k], lines) >>
<1> DEFINE at == InOrder({i \in DOMAIN packets : IsRoomEvent(packets[i])}, Len(packets))
<1>1. /\ {i \in DOMAIN packets : IsRoomEvent(packets[i])} = {j, k}
      /\ Len(packets) \in Nat /\ Len(packets) >= 2 /\ j \in Nat /\ k \in Nat
  BY DEF IsRoomEvent
<1>2. at = << j, k >>
  BY <1>1, TwoPositions
<1>3. RoomEventsHeard(packets, lines) = [i \in DOMAIN at |-> AsHeard(packets[at[i]], lines)]
  BY DEF RoomEventsHeard
<1> HIDE DEF at
<1> QED
  BY <1>2, <1>3

-----------------------------------------------------------------------------
(* Where people are, and who hears *)

LEMMA PresenceOfSession ==
  ASSUME RInv, NEW n \in Names, old_users[n] # NULL
  PROVE  /\ old_users[n] \in OldUsers /\ old_users[n] \in Users
         /\ username[old_users[n]] = n
         /\ PresenceOf(n) # OFFLINE
         /\ \A r \in RoomNames : PresenceOf(n) = r <=> room[old_users[n]] = r
<1>1. old_users[n] \in OldUsers
  BY DEF RInv, IInv, TypeOK, OldUsers, get_values, get_keys
<1>2. old_users[n] \in Users /\ username[old_users[n]] = n
  BY DEF RInv, IInv, TypeOK, OwnName
<1>3. room[old_users[n]] \in RoomNames \cup {NULL}
  BY <1>2 DEF RInv, IInv, TypeOK
<1>4. OFFLINE # LOBBY
  BY DEF OFFLINE, LOBBY
<1>5. PresenceOf(n) = IF room[old_users[n]] = NULL THEN LOBBY ELSE room[old_users[n]]
  BY DEF PresenceOf, table_find
<1> QED
  BY <1>1, <1>2, <1>3, <1>4, <1>5, PlacesAssumption, NullAssumption

LEMMA PresenceOfNobody ==
  ASSUME NEW n \in Names, old_users[n] = NULL
  PROVE  PresenceOf(n) = OFFLINE
BY DEF PresenceOf, table_find

(* A connected session in a room is the client of the person there under   *)
(* its name.                                                               *)
LEMMA PersonOfSession ==
  ASSUME RInv, NEW c \in Linked, NEW r \in RoomNames, room[c] = r
  PROVE  username[c] \in Names /\ old_users[username[c]] = c /\ PresenceOf(username[c]) = r
<1>1. c \in Users /\ room[c] # NULL
  BY NullAssumption DEF Linked
<1>2. c \in OldUsers
  BY <1>1, NullAssumption DEF RInv, IInv, UsersPartition, BlankUntilLogin, InChat, Linked
<1>3. username[c] \in Names /\ old_users[username[c]] = c
  BY <1>1, <1>2, InChatInTable DEF RInv, IInv, UsersPartition
<1> QED
  BY <1>1, <1>3, NullAssumption, PresenceOfSession

(* The people a room event is told to. *)
Told(packet, r) ==
  {n \in Names : PresenceOf(n) = r /\ (packet.kind = "USER_LEAVE_CHANNEL" => n # packet.who)}

(* Who hears a room event is one of the audiences Presence allows.         *)
RightAudience ==
  \A packet \in Packets, r \in RoomNames :
    packet.kind \in RoomEvents /\ packet.about = {r} /\ Heard(packet, Scene)
    => AsHeard(packet, Lines).hearers \in P!Audiences(Told(packet, r), LeftNames(r))

LEMMA HeardByAudience == RInv => RightAudience
<1> SUFFICES ASSUME RInv, NEW packet \in Packets, NEW r \in RoomNames,
                    packet.kind \in RoomEvents, packet.about = {r}, Heard(packet, Scene)
             PROVE  AsHeard(packet, Lines).hearers \in P!Audiences(Told(packet, r), LeftNames(r))
  BY DEF RightAudience
<1> DEFINE hearers == AsHeard(packet, Lines).hearers
           told    == {old_users[n] : n \in Told(packet, r)}
           others  == hearers \ told
<1>1. packet.to \subseteq Users
  BY DEF Packets
<1>2. hearers = {c \in Users : \E s \in packet.to : LeadsTo(s, c)}
  BY <1>1 DEF AsHeard, Lines
<1>3. /\ packet.to \ Linked = LeftOver(r)
      /\ \A c \in Linked : c \in packet.to <=>
           room[c] = r /\ (packet.kind = "USER_LEAVE_CHANNEL" => username[c] # packet.who)
  BY DEF Heard, Scene
<1>4. told \subseteq hearers
  <2> SUFFICES ASSUME NEW n \in Told(packet, r) PROVE old_users[n] \in hearers
    OBVIOUS
  <2> DEFINE c == old_users[n]
  <2>1. n \in Names /\ PresenceOf(n) = r /\ c # NULL
    BY PresenceOfNobody, PlacesAssumption DEF Told
  <2>2. c \in OldUsers /\ c \in Users /\ username[c] = n /\ room[c] = r
    BY <2>1, PresenceOfSession
  <2>3. Connected(c)
    BY <2>2 DEF RInv, IInv, UsersPartition
  <2> HIDE DEF c
  <2>4. c \in packet.to
    BY <1>3, <2>2, <2>3 DEF Told, Linked
  <2>5. LeadsTo(c, c)
    BY <2>2, <2>3, OwnLine DEF RInv
  <2>6. c \in hearers
    BY <1>2, <2>2, <2>4, <2>5
  <2> QED
    BY <2>6 DEF c
<1> HIDE DEF hearers
(* A stranger reads the line of a session left over in the room.           *)
<1>5. \A c \in others : \E n \in LeftNames(r) : LeadsTo(members[r][n], c)
  <2> SUFFICES ASSUME NEW c \in others PROVE \E n \in LeftNames(r) : LeadsTo(members[r][n], c)
    OBVIOUS
  <2>1. PICK s \in packet.to : LeadsTo(s, c)
    BY <1>2
  <2>2. c \in Users /\ s \in Users
    BY <1>1, <1>2
  <2>3. s \notin Linked
    <3> SUFFICES ASSUME s \in Linked PROVE FALSE
      OBVIOUS
    <3>1. s = c
      BY <2>1, <2>2, OwnLine DEF Linked, RInv
    <3>2. room[c] = r /\ (packet.kind = "USER_LEAVE_CHANNEL" => username[c] # packet.who)
      BY <1>3, <2>1, <3>1
    <3>3. username[c] \in Names /\ old_users[username[c]] = c /\ PresenceOf(username[c]) = r
      BY <3>1, <3>2, PersonOfSession
    <3> QED
      BY <3>2, <3>3 DEF Told
  <2>4. s \in LeftOver(r)
    BY <1>3, <2>1, <2>3
  <2>5. members[r] \in [Names -> Users \cup {NULL}]
    BY DEF RInv, IInv, TypeOK
  <2>6. PICK n \in Names : members[r][n] = s
    BY <2>4, <2>5 DEF LeftOver, get_values, get_keys
  <2> QED
    BY <2>1, <2>4, <2>6 DEF LeftNames
<1> DEFINE via == [c \in others |-> CHOOSE n \in LeftNames(r) : LeadsTo(members[r][n], c)]
<1>6. \A c \in others : via[c] \in LeftNames(r) /\ LeadsTo(members[r][via[c]], c)
  BY <1>5
<1> HIDE DEF others
<1>7. via \in [others -> LeftNames(r)]
  BY <1>6
<1>8. P!IsInjective(via)
  <2>1. \A c, d \in others : via[c] = via[d] => c = d
    BY <1>6 DEF LeadsTo
  <2> HIDE DEF via
  <2> QED
    BY <1>7, <2>1 DEF P!IsInjective
<1> HIDE DEF via
<1>9. P!ExistsInjection(others, LeftNames(r))
  BY <1>7, <1>8 DEF P!ExistsInjection, P!Injection
<1>10. hearers \subseteq Users
  BY <1>2
<1>11. hearers \in P!Audiences(Told(packet, r), LeftNames(r))
  BY <1>4, <1>9, <1>10 DEF P!Audiences, others
<1> QED
  BY <1>11 DEF hearers

LEMMA HeardByAudienceAfter == RInv' => RightAudience'
BY HeardByAudience, PTL

(* The event as it is heard after a step that keeps everybody logged in.   *)
LEMMA EventHeard ==
  ASSUME RInv', UNCHANGED old_users,
         NEW packet \in Packets, packet.kind \in RoomEvents, Heard(packet, Scene'),
         NEW r \in RoomNames, packet.about = {r},
         NEW people,
         people = {n \in Names : PresenceOf(n)' = r
                                  /\ (packet.kind = "USER_LEAVE_CHANNEL" => n # packet.who)}
  PROVE  \E hearers \in P!Audiences(people, LeftNames(r)') :
           AsHeard(packet, Lines') = P!Event(packet.kind, packet.who, r, hearers)
<1>1. people = Told(packet, r)'
  BY DEF Told
<1>2. AsHeard(packet, Lines').hearers \in P!Audiences(Told(packet, r), LeftNames(r))'
  BY HeardByAudienceAfter DEF RightAudience
<1>3. P!Audiences(people, LeftNames(r)') = P!Audiences(Told(packet, r), LeftNames(r))'
  BY <1>1 DEF P!Audiences
<1>4. (CHOOSE q \in {r} : TRUE) = r
  OBVIOUS
<1>5. AsHeard(packet, Lines') = P!Event(packet.kind, packet.who, r, AsHeard(packet, Lines').hearers)
  BY <1>4 DEF AsHeard, P!Event
<1> QED
  BY <1>2, <1>3, <1>5

-----------------------------------------------------------------------------
(* The packets of the steps that have room events *)

Silent(packets) == \A i \in DOMAIN packets : packets[i].kind \notin RoomEvents

LEMMA ThenSilence ==
  ASSUME NEW first \in Seq(Packets), NEW rest \in Seq(Packets), NEW lines, Silent(rest)
  PROVE  /\ first = << >> => RoomEventsHeard(first \o rest, lines) = << >>
         /\ \A event \in Packets : first = << event >> /\ event.kind \in RoomEvents
              => RoomEventsHeard(first \o rest, lines) = << AsHeard(event, lines) >>
<1> DEFINE all == first \o rest
<1>1. /\ all \in Seq(Packets)
      /\ DOMAIN all = 1 .. Len(first) + Len(rest)
      /\ \A i \in 1..Len(first) : all[i] = first[i]
      /\ \A i \in Len(first) + 1 .. Len(first) + Len(rest) : all[i] = rest[i - Len(first)]
  BY ConcatProperties
<1>2. Len(first) \in Nat /\ Len(rest) \in Nat
  OBVIOUS
<1> HIDE DEF all
<1>3. \A i \in Len(first) + 1 .. Len(first) + Len(rest) : all[i].kind \notin RoomEvents
  <2> SUFFICES ASSUME NEW i \in Len(first) + 1 .. Len(first) + Len(rest)
               PROVE  rest[i - Len(first)].kind \notin RoomEvents
    BY <1>1
  <2>1. i - Len(first) \in DOMAIN rest
    BY <1>2
  <2> QED
    BY <2>1 DEF Silent
<1>4. CASE first = << >>
  <2>1. Len(first) = 0
    BY <1>4
  <2>2. \A i \in DOMAIN all : all[i].kind \notin RoomEvents
    BY <1>1, <1>2, <1>3, <2>1
  <2>3. RoomEventsHeard(all, lines) = << >>
    BY <1>1, <2>2, NothingHeard
  <2> QED
    BY <1>4, <2>3 DEF all
<1>5. ASSUME NEW event \in Packets, first = << event >>, event.kind \in RoomEvents
      PROVE  RoomEventsHeard(all, lines) = << AsHeard(event, lines) >>
  <2>1. Len(first) = 1 /\ first[1] = event
    BY <1>5
  <2>2. 1 \in DOMAIN all /\ all[1] = event
    BY <1>1, <1>2, <2>1
  <2>3. \A i \in DOMAIN all \ {1} : all[i].kind \notin RoomEvents
    BY <1>1, <1>2, <1>3, <2>1
  <2>4. event.kind \in RoomEvents
    BY <1>5
  <2> QED
    BY <1>1, <2>2, <2>3, <2>4, OneHeard
<1> QED
  BY <1>4, <1>5 DEF all

(* After what "first" may have told, these packets tell the news. *)
TellsNews(packets, first, news, lines) ==
  /\ first = << >> => RoomEventsHeard(packets, lines) = << AsHeard(news, lines) >>
  /\ \A event \in Packets : first = << event >> /\ event.kind \in RoomEvents
       => RoomEventsHeard(packets, lines) = << AsHeard(event, lines), AsHeard(news, lines) >>

LEMMA ThenNews ==
  ASSUME NEW first \in Seq(Packets), NEW rest \in Seq(Packets), NEW lines, Silent(rest),
         NEW a \in Packets, NEW b \in Packets, NEW news \in Packets,
         a.kind \notin RoomEvents, b.kind \notin RoomEvents, news.kind \in RoomEvents
  PROVE  TellsNews(first \o rest \o << a, b, news >>, first, news, lines)
<1> DEFINE begun == first \o rest
           end   == << a, b, news >>
           all   == begun \o end
           m     == Len(first) + Len(rest)
<1>1. Len(first) \in Nat /\ Len(rest) \in Nat /\ m \in Nat
  OBVIOUS
<1>2. /\ begun \in Seq(Packets) /\ Len(begun) = m
      /\ \A i \in 1..Len(first) : begun[i] = first[i]
      /\ \A i \in Len(first) + 1 .. m : begun[i] = rest[i - Len(first)]
  BY ConcatProperties
<1>3. end \in Seq(Packets) /\ Len(end) = 3 /\ end[1] = a /\ end[2] = b /\ end[3] = news
  OBVIOUS
<1> HIDE DEF begun, end
<1>4. /\ all \in Seq(Packets) /\ Len(all) = m + 3
      /\ \A i \in 1..m : all[i] = begun[i]
      /\ \A i \in m + 1 .. m + 3 : all[i] = end[i - m]
  <2>1. /\ all \in Seq(Packets) /\ Len(all) = Len(begun) + Len(end)
        /\ \A i \in 1..Len(begun) : all[i] = begun[i]
        /\ \A i \in Len(begun) + 1 .. Len(begun) + Len(end) : all[i] = end[i - Len(begun)]
    <3>1. begun \in Seq(Packets) /\ end \in Seq(Packets)
      BY <1>2, <1>3
    <3> HIDE DEF m
    <3> QED
      BY ONLY <3>1, ConcatProperties
  <2> HIDE DEF m, all
  <2> QED
    BY <1>2, <1>3, <2>1
<1> HIDE DEF all
<1>5. DOMAIN all = 1 .. m + 3
  BY <1>4
<1>6. all[m + 1] = a /\ all[m + 2] = b /\ all[m + 3] = news
  <2>1. m + 1 \in m + 1 .. m + 3 /\ m + 2 \in m + 1 .. m + 3 /\ m + 3 \in m + 1 .. m + 3
    BY <1>1
  <2>2. (m + 1) - m = 1 /\ (m + 2) - m = 2 /\ (m + 3) - m = 3
    BY <1>1
  <2> HIDE DEF m
  <2>3. all[m + 1] = end[1] /\ all[m + 2] = end[2] /\ all[m + 3] = end[3]
    BY <1>4, <2>1, <2>2
  <2> QED
    BY <1>3, <2>3
<1>7. \A i \in Len(first) + 1 .. m + 2 : all[i].kind \notin RoomEvents
  <2> SUFFICES ASSUME NEW i \in Len(first) + 1 .. m + 2 PROVE all[i].kind \notin RoomEvents
    OBVIOUS
  <2>1. CASE i <= m
    <3>1. i - Len(first) \in DOMAIN rest
      BY <1>1, <2>1
    <3>2. all[i] = rest[i - Len(first)]
      BY <1>1, <1>2, <1>4, <2>1
    <3> QED
      BY <3>1, <3>2 DEF Silent
  <2>2. CASE i = m + 1 \/ i = m + 2
    BY <1>6, <2>2
  <2> QED
    BY <1>1, <2>1, <2>2
<1>8. ASSUME first = << >>
      PROVE  RoomEventsHeard(all, lines) = << AsHeard(news, lines) >>
  <2>1. Len(first) = 0
    BY <1>8
  <2>2. m + 3 \in DOMAIN all /\ \A i \in DOMAIN all \ {m + 3} : all[i].kind \notin RoomEvents
    BY <1>1, <1>5, <1>7, <2>1
  <2> HIDE DEF m
  <2> QED
    BY <1>4, <1>6, <2>2, OneHeard
<1>9. ASSUME NEW event \in Packets, first = << event >>, event.kind \in RoomEvents
      PROVE  RoomEventsHeard(all, lines) = << AsHeard(event, lines), AsHeard(news, lines) >>
  <2>1. Len(first) = 1 /\ first[1] = event
    BY <1>9
  <2>2. all[1] = event
    BY <1>1, <1>2, <1>4, <2>1
  <2>3. /\ 1 \in DOMAIN all /\ m + 3 \in DOMAIN all /\ 1 < m + 3
        /\ \A i \in DOMAIN all \ {1, m + 3} : all[i].kind \notin RoomEvents
    BY <1>1, <1>5, <1>7, <2>1
  <2> HIDE DEF m
  <2> QED
    BY <1>4, <1>6, <1>9, <2>2, <2>3, TwoHeard
<1> QED
  BY <1>8, <1>9 DEF TellsNews, all, begun, end

-----------------------------------------------------------------------------
(* One lemma for each kind of step *)

LEMMA NoPacketNoEvent ==
  ASSUME wire' = << >>
  PROVE  RoomEventsHeard(wire, Lines)' = << >>
<1>1. ASSUME NEW lines PROVE RoomEventsHeard(<< >>, lines) = << >>
  <2>1. << >> \in Seq(Packets) /\ \A i \in DOMAIN << >> : << >>[i].kind \notin RoomEvents
    OBVIOUS
  <2> QED
    BY <2>1, NothingHeard
<1>2. RoomEventsHeard(<< >>, Lines') = << >>
  BY <1>1
<1> QED
  BY <1>2

SameLeft == \A r \in RoomNames : LeftNames(r)' = LeftNames(r)

LEMMA QuietStep ==
  ASSUME RoomEventsHeard(wire, Lines)' = << >>, UNCHANGED <<old_users, room, accounts>>, SameLeft
  PROVE  P!Quiet
<1>1. \A n \in Names : PresenceOf(n)' = PresenceOf(n)
  BY DEF PresenceOf, table_find
<1> QED
  BY <1>1 DEF P!Quiet, P!places, SameLeft

LEMMA CommandingPerson ==
  ASSUME RInv, NEW u \in Users, Commanding(u)
  PROVE  /\ u \in OldUsers /\ u # NULL
         /\ username[u] \in Names
         /\ old_users[username[u]] = u
         /\ PresenceOf(username[u]) # OFFLINE
         /\ \A r \in RoomNames : PresenceOf(username[u]) = r <=> room[u] = r
<1>1. u \in OldUsers /\ username[u] \in Names /\ u # NULL
  BY CommandingInTable, NullAssumption DEF RInv
<1>2. old_users[username[u]] = u
  BY <1>1, InChatInTable DEF RInv, IInv, UsersPartition
<1> QED
  BY <1>1, <1>2, PresenceOfSession

(* A step that changes the presence of one name at most. *)
LEMMA OneMoves ==
  ASSUME RInv, RInv', NEW n \in Names, NEW u \in Users, NEW place,
         \A m \in Names \ {n} : old_users'[m] = old_users[m] /\ old_users[m] # u,
         \A v \in Users \ {u} : room'[v] = room[v],
         PresenceOf(n)' = place
  PROVE  /\ [m \in Names |-> PresenceOf(m)]'
              = [[m \in Names |-> PresenceOf(m)] EXCEPT ![n] = place]
         /\ \A m \in Names \ {n} : PresenceOf(m)' = PresenceOf(m)
<1>1. \A m \in Names \ {n} : PresenceOf(m)' = PresenceOf(m)
  BY DEF RInv, IInv, TypeOK, PresenceOf, table_find
<1> QED
  BY <1>1

(* Who is left over is as before when the tables and connections are.      *)
LEMMA NobodyLeft ==
  ASSUME UNCHANGED <<members, owner>>
  PROVE  SameLeft
BY DEF SameLeft, LeftNames, LeftOver, Connected, get_values, get_keys

(* Sessions that have not logged in are in no room, connected or not.      *)
LEMMA NewcomersLeaveNothing ==
  ASSUME RInv, UNCHANGED members, NEW u \in Users, ~InChat(u),
         \A v \in Users \ {u} : Connected(v)' <=> Connected(v)
  PROVE  SameLeft
<1>1. username[u] = NULL
  BY DEF RInv, BlankUntilLogin
<1>2. \A r \in RoomNames, n \in Names : members[r][n] # u
  BY <1>1, NullAssumption DEF RInv, OwnNameInRooms, IInv, TypeOK
<1>3. \A r \in RoomNames : members[r] \in [Names -> Users \cup {NULL}]
  BY DEF RInv, IInv, TypeOK
<1>4. \A r \in RoomNames : get_values(members[r]) \subseteq Users \ {u}
  BY <1>2, <1>3 DEF get_values, get_keys
<1>5. \A r \in RoomNames : LeftOver(r)' = LeftOver(r)
  BY <1>4 DEF LeftOver
<1> QED
  BY <1>5 DEF SameLeft, LeftNames

LEMMA SelectLeavesNothing ==
  ASSUME RInv, Select
  PROVE  SameLeft
<1>1. CASE UNCHANGED net
  BY <1>1, NobodyLeft DEF Select, net
<1>2. ASSUME NEW u \in Users, NEW f \in Fds, Accept(u, f) PROVE SameLeft
  <2>1. u \in Unallocated /\ f \in FreeFds /\ owner' = [owner EXCEPT ![f] = u] /\ ~InChat(u)
    BY <1>2, NullAssumption DEF Accept, Unallocated, InChat, States
  <2>2. owner \in [Fds -> Users \cup {NULL}] /\ owner[f] = NULL
    BY <2>1 DEF RInv, IInv, TypeOK, FreeFds
  <2>3. \A v \in Users \ {u} : Connected(v)' <=> Connected(v)
    BY <2>1, <2>2, NullAssumption DEF Connected
  <2> QED
    BY <2>1, <2>3, NewcomersLeaveNothing DEF Select
<1> QED
  BY <1>1, <1>2 DEF Select

LEMMA CloseNewLeavesNothing ==
  ASSUME RInv, NEW u \in Users, CloseNew(u)
  PROVE  SameLeft
<1>1. u \in new_users
  BY DEF CloseNew, RInv, IInv, SnapshotStaysValid
<1>2. Connected(u) /\ ~InChat(u)
  BY <1>1 DEF RInv, IInv, UsersPartition, InChat
<1>3. owner[sock[u]] = u /\ sock[u] \in Fds
  BY <1>2 DEF RInv, IInv, UsersPartition, Connected
<1>4. owner' = [owner EXCEPT ![sock[u]] = NULL] /\ owner \in [Fds -> Users \cup {NULL}]
  BY DEF CloseNew, close, RInv, IInv, TypeOK
<1>5. \A v \in Users \ {u} : Connected(v)' <=> Connected(v)
  BY <1>3, <1>4, NullAssumption DEF Connected
<1> QED
  BY <1>2, <1>5, NewcomersLeaveNothing DEF CloseNew

LEMMA CloseOldVanishes ==
  ASSUME RInv, RInv', NEW u \in Users, CloseOld(u)
  PROVE  P!Vanish(username[u])
<1> DEFINE n == username[u]
<1>1. u \in OldUsers
  BY DEF CloseOld, RInv, IInv, SnapshotStaysValid
<1>2. n \in Names /\ old_users[n] = u /\ u # NULL
  BY <1>1, InChatInTable, NullAssumption DEF RInv, IInv, UsersPartition
<1>3. /\ old_users' = [old_users EXCEPT ![n] = NULL]
      /\ UNCHANGED <<room, username, accounts, members>>
  BY DEF CloseOld, sessions, table_remove
<1>4. old_users \in [Names -> Users \cup {NULL}]
  BY DEF RInv, IInv, TypeOK
<1>5. PresenceOf(n)' = OFFLINE
  BY <1>2, <1>3, <1>4 DEF PresenceOf, table_find
<1>6. \A m \in Names \ {n} : old_users'[m] = old_users[m] /\ old_users[m] # u
  BY <1>2, <1>3, <1>4 DEF RInv, IInv, OwnName
<1>7. [m \in Names |-> PresenceOf(m)]'
        = [[m \in Names |-> PresenceOf(m)] EXCEPT ![n] = OFFLINE]
  BY <1>2, <1>3, <1>5, <1>6, OneMoves
<1>8. RoomEventsHeard(wire, Lines)' = << >>
  BY NoPacketNoEvent DEF CloseOld
<1>9. PresenceOf(n) # OFFLINE /\ \A r \in RoomNames : PresenceOf(n) = r <=> room[u] = r
  BY <1>2, PresenceOfSession
<1>10. u \in Linked /\ Linked' = Linked \ {u}
  <2>1. Connected(u)
    BY <1>1 DEF RInv, IInv, UsersPartition
  <2>2. /\ owner[sock[u]] = u /\ sock[u] \in Fds
        /\ \A f \in Fds : owner[f] = u => f = sock[u]
    BY <2>1 DEF RInv, IInv, UsersPartition, Connected
  <2>3. owner' = [owner EXCEPT ![sock[u]] = NULL] /\ owner \in [Fds -> Users \cup {NULL}]
    BY DEF CloseOld, close, RInv, IInv, TypeOK
  <2> QED
    BY <2>1, <2>2, <2>3, NullAssumption DEF Connected, Linked
<1>11. \A r \in RoomNames :
         LeftNames(r)' = IF PresenceOf(n) = r THEN LeftNames(r) \cup {n} ELSE LeftNames(r)
  <2> SUFFICES ASSUME NEW r \in RoomNames, NEW m \in Names
               PROVE  m \in LeftNames(r)' <=> m \in LeftNames(r) \/ (PresenceOf(n) = r /\ m = n)
    BY <1>2 DEF LeftNames
  <2>1. members[r] \in [Names -> Users \cup {NULL}]
    BY DEF RInv, IInv, TypeOK
  <2>2. m \in LeftNames(r) <=> members[r][m] # NULL /\ members[r][m] \notin Linked
    BY <2>1 DEF LeftNames, LeftOver, get_values, get_keys, Linked
  <2>3. m \in LeftNames(r)' <=> members[r][m] # NULL /\ members[r][m] \notin Linked'
    BY <1>3, <2>1 DEF LeftNames, LeftOver, get_values, get_keys, Linked
  <2>4. members[r][m] = u <=> PresenceOf(n) = r /\ m = n
    BY <1>1, <1>2, <1>9 DEF RInv, OwnNameInRooms, SeatsMatch
  <2>5. CASE members[r][m] = u
    BY <1>2, <1>10, <2>3, <2>4, <2>5
  <2>6. CASE members[r][m] # u
    BY <1>10, <2>2, <2>3, <2>4, <2>6
  <2> QED
    BY <2>5, <2>6
<1> QED
  BY <1>2, <1>3, <1>7, <1>8, <1>9, <1>11 DEF P!Vanish, P!Online

LEMMA DieCrashes ==
  ASSUME Die
  PROVE  P!Crash
<1>1. \A n \in Names : PresenceOf(n)' = OFFLINE
  BY DEF Die, PresenceOf, table_find, table_create
<1>2. RoomEventsHeard(wire, Lines)' = << >>
  BY NoPacketNoEvent DEF Die
<1>3. \A r \in RoomNames : LeftNames(r)' = {}
  BY DEF Die, NoMembers, table_create, LeftNames, LeftOver, get_values, get_keys
<1> QED
  BY <1>1, <1>2, <1>3 DEF P!Crash, Die, table_create

LEMMA LoginLogsIn ==
  ASSUME RInv, RInv', NEW u \in Users, NEW n \in Names, NEW p \in Passwords,
         process_SID_LOGIN(u, n, p), RoomEventsHeard(wire, Lines)' = << >>
  PROVE  P!LogIn(n, u) \/ P!Quiet
<1>0. SameLeft
  BY NobodyLeft DEF process_SID_LOGIN, net
<1>1. CASE LoginStatus(n, p) # "LOGIN_SUCCESS"
  BY <1>0, <1>1, QuietStep DEF process_SID_LOGIN
<1>2. CASE LoginStatus(n, p) = "LOGIN_SUCCESS"
  <2>1. /\ old_users' = [old_users EXCEPT ![n] = u]
        /\ UNCHANGED <<room, accounts>>
    BY <1>2 DEF process_SID_LOGIN, table_add
  <2>2. old_users[n] = NULL /\ accounts[n] # NULL
    BY <1>2 DEF LoginStatus, account_login, table_find
  <2>3. ~InChat(u) /\ u \notin OldUsers
    BY DEF process_SID_LOGIN, RInv, IInv, UsersPartition, InChat
  <2>4. room[u] = NULL /\ u # NULL
    BY <2>3, NullAssumption DEF RInv, BlankUntilLogin
  <2>5. old_users \in [Names -> Users \cup {NULL}]
    BY DEF RInv, IInv, TypeOK
  <2>6. PresenceOf(n)' = LOBBY
    BY <2>1, <2>4, <2>5 DEF PresenceOf, table_find
  <2>7. /\ \A m \in Names \ {n} : old_users'[m] = old_users[m] /\ old_users[m] # u
        /\ \A m \in Names : old_users[m] # u
    BY <2>1, <2>3, <2>4, <2>5 DEF OldUsers, get_values, get_keys
  <2>8. [m \in Names |-> PresenceOf(m)]'
          = [[m \in Names |-> PresenceOf(m)] EXCEPT ![n] = LOBBY]
    BY <2>1, <2>6, <2>7, OneMoves
  <2>9. PresenceOf(n) = OFFLINE
    BY <2>2, PresenceOfNobody
  <2>10. [r \in RoomNames |-> LeftNames(r)]' = [r \in RoomNames |-> LeftNames(r)]
    BY <1>0 DEF SameLeft
  <2> QED
    BY <2>1, <2>2, <2>7, <2>8, <2>9, <2>10 DEF P!LogIn, P!Online
<1> QED
  BY <1>1, <1>2

LEMMA CreateRegisters ==
  ASSUME RInv, NEW u \in Users, NEW n \in Names, NEW p \in Passwords,
         process_SID_CREATE(u, n, p), RoomEventsHeard(wire, Lines)' = << >>
  PROVE  P!Register(n) \/ P!Quiet
<1>1. UNCHANGED <<old_users, room>> /\ SameLeft
  BY NobodyLeft DEF process_SID_CREATE, tables, sessions, net
<1>2. CASE CreateStatus(n) # "CREATE_SUCCESS"
  BY <1>1, <1>2, QuietStep DEF process_SID_CREATE
<1>3. CASE CreateStatus(n) = "CREATE_SUCCESS"
  <2>1. accounts[n] = NULL /\ accounts' = [accounts EXCEPT ![n] = p]
    BY <1>3 DEF process_SID_CREATE, CreateStatus, add_account
  <2>2. p # NULL /\ accounts \in [Names -> Passwords \cup {NULL}]
    BY NullAssumption DEF RInv, IInv, TypeOK
  <2>3. {m \in Names : accounts[m] # NULL}' = {m \in Names : accounts[m] # NULL} \cup {n}
    BY <2>1, <2>2
  <2>4. \A m \in Names : PresenceOf(m)' = PresenceOf(m)
    BY <1>1 DEF PresenceOf, table_find
  <2> QED
    BY <1>1, <2>1, <2>3, <2>4 DEF P!Register, P!places, SameLeft
<1> QED
  BY <1>2, <1>3

LEMMA TalkSays ==
  ASSUME RInv, RInv', NEW u \in Users, Talk(u)
  PROVE  P!Say(username[u])
<1>0. PICK r \in RoomNames : room[u] = r
  BY DEF Talk, RInv, IInv, TypeOK
<1> DEFINE people == {n \in Names : PresenceOf(n) = r}
           news   == room_message(members[r], "TALK", username[u], r)
<1>1. /\ Commanding(u) /\ wire' = << news >>
      /\ UNCHANGED <<old_users, room, accounts, members, owner>>
  BY <1>0 DEF Talk, tables, sessions, net
<1>2. r \in RoomNames /\ room[u] = r
  BY <1>0
<1>3. PresenceOf(username[u]) = r /\ username[u] \in Names
  BY <1>1, <1>2, CommandingPerson
<1>4. wire' \in Seq(Packets) /\ news.kind \in RoomEvents /\ news \in Packets
  BY <1>1 DEF RInv, IInv, TypeOK, room_message, Packet, RoomEvents
<1>5. Heard(news, Scene')
  BY <1>1, TalkHeard DEF AllHeard
<1>6. \A n \in Names : PresenceOf(n)' = PresenceOf(n)
  BY <1>1 DEF PresenceOf, table_find
<1>7. SameLeft
  BY <1>1, NobodyLeft
<1>8. PICK hearers \in P!Audiences(people, LeftNames(r)) :
        AsHeard(news, Lines') = P!Event("TALK", username[u], r, hearers)
  <2>1. news.kind = "TALK" /\ news.who = username[u] /\ news.about = {r}
    BY DEF room_message, Packet
  <2>2. LeftNames(r)' = LeftNames(r)
    BY <1>2, <1>7 DEF SameLeft
  <2> HIDE DEF news
  <2>3. people = {n \in Names : PresenceOf(n)' = r
                                 /\ (news.kind = "USER_LEAVE_CHANNEL" => n # news.who)}
    BY <1>6, <2>1
  <2> HIDE DEF people
  <2> QED
    BY <1>1, <1>2, <1>4, <1>5, <2>1, <2>2, <2>3, EventHeard
<1> HIDE DEF news
<1>9. RoomEventsHeard(wire', Lines') = << AsHeard(news, Lines') >>
  <2>1. 1 \in DOMAIN wire' /\ DOMAIN wire' \ {1} = {} /\ wire'[1] = news
    BY <1>1
  <2> QED
    BY <1>4, <2>1, OneHeard
<1>10. RoomEventsHeard(wire, Lines)' = << P!Event("TALK", username[u], r, hearers) >>
  BY <1>8, <1>9
<1>11. P!In(r) = people
  BY DEF P!In
<1>12. P!Audiences(P!In(r), [q \in RoomNames |-> LeftNames(q)][r]) = P!Audiences(people, LeftNames(r))
  BY <1>2, <1>11
<1>13. UNCHANGED <<[n \in Names |-> PresenceOf(n)], old_users, [q \in RoomNames |-> LeftNames(q)],
                   {n \in Names : accounts[n] # NULL}>>
  BY <1>1, <1>6, <1>7 DEF SameLeft
<1> HIDE DEF people
<1> QED
  BY <1>1, <1>2, <1>3, <1>8, <1>10, <1>12, <1>13 DEF P!Say, P!places

(* What is heard in his old room when u leaves it, if he is in one: the    *)
(* presence of the others and those left over there are what they were.    *)
LEMMA Parted ==
  ASSUME RInv, RInv', NEW u \in Users, Commanding(u), UNCHANGED old_users,
         AllHeard(LeaveMessages(u), Scene'),
         \A n \in Names \ {username[u]} : PresenceOf(n)' = PresenceOf(n),
         \A r \in RoomNames : room[u] = r => LeftNames(r)' = LeftNames(r)
  PROVE  \/ LeaveMessages(u) = << >> /\ << >> \in P!Partings(username[u])
         \/ \E event \in Packets :
              /\ LeaveMessages(u) = << event >> /\ event.kind \in RoomEvents
              /\ << AsHeard(event, Lines') >> \in P!Partings(username[u])
<1> DEFINE n == username[u]
<1>1. /\ u \in OldUsers /\ n \in Names /\ old_users[n] = u
      /\ \A q \in RoomNames : PresenceOf(n) = q <=> room[u] = q
  BY CommandingPerson
<1>2. CASE room[u] \notin rooms
  <2>1. room[u] = NULL
    BY <1>1, <1>2 DEF RInv, SeatsMatch
  <2>2. PresenceOf(n) \notin RoomNames
    BY <1>1, <2>1, NullAssumption
  <2> QED
    BY <1>1, <1>2, <2>2 DEF LeaveMessages, P!Partings
<1>3. CASE room[u] \in rooms
  <2>0. PICK r \in RoomNames : room[u] = r
    BY <1>3 DEF RInv, IInv, TypeOK
  <2> DEFINE people == {m \in Names : PresenceOf(m) = r} \ {n}
             users  == AfterLeaving(u)[r]
             event  == room_message(users, "USER_LEAVE_CHANNEL", n, r)
  <2>1. r \in RoomNames /\ room[u] = r /\ PresenceOf(n) = r
    BY <1>1, <2>0
  <2>2. event \in Packets /\ event.kind \in RoomEvents
    <3>1. users \in [Names -> Users \cup {NULL}]
      BY <2>1, LeavingTyped DEF RInv
    <3>2. "USER_LEAVE_CHANNEL" \in RoomEvents
      BY DEF RoomEvents
    <3>3. event \in Packets
      BY <1>1, <2>1, <3>1, <3>2, BroadcastTyped
    <3> QED
      BY <3>2, <3>3 DEF room_message, Packet
  <2>3. LeaveMessages(u) = << event >>
    BY <1>3, <2>1 DEF LeaveMessages
  <2>4. Heard(event, Scene')
    BY <2>3 DEF AllHeard
  <2>5. event.kind = "USER_LEAVE_CHANNEL" /\ event.who = n /\ event.about = {r}
    BY DEF room_message, Packet
  <2> HIDE DEF event
  <2>6. PICK hearers \in P!Audiences(people, LeftNames(r)) :
          AsHeard(event, Lines') = P!Event("USER_LEAVE_CHANNEL", n, r, hearers)
    <3>1. LeftNames(r)' = LeftNames(r)
      BY <2>1
    <3>2. people = {m \in Names : PresenceOf(m)' = r
                                   /\ (event.kind = "USER_LEAVE_CHANNEL" => m # event.who)}
      BY <2>5
    <3> HIDE DEF people
    <3> QED
      BY <2>1, <2>2, <2>4, <2>5, <3>1, <3>2, EventHeard
  <2>7. P!In(r) \ {n} = people
    BY DEF P!In
  <2>8. << AsHeard(event, Lines') >> \in P!Partings(n)
    <3>1. /\ [m \in Names |-> PresenceOf(m)][n] = r
          /\ [q \in RoomNames |-> LeftNames(q)][r] = LeftNames(r)
      BY <1>1, <2>1
    <3> HIDE DEF people, n
    <3> QED
      BY <2>1, <2>6, <2>7, <3>1 DEF P!Partings
  <2> QED
    BY <2>2, <2>3, <2>8
<1> QED
  BY <1>2, <1>3

(* u goes to another place. *)
LEMMA Moved ==
  ASSUME RInv, RInv', NEW u \in Users, Commanding(u), UNCHANGED <<old_users, username>>,
         NEW r \in RoomNames \cup {NULL}, room' = [room EXCEPT ![u] = r]
  PROVE  /\ [m \in Names |-> PresenceOf(m)]'
              = [[m \in Names |-> PresenceOf(m)] EXCEPT ![username[u]] = IF r = NULL THEN LOBBY ELSE r]
         /\ PresenceOf(username[u])' = IF r = NULL THEN LOBBY ELSE r
         /\ \A m \in Names \ {username[u]} : PresenceOf(m)' = PresenceOf(m)
<1>1. username[u] \in Names /\ old_users[username[u]] = u /\ u # NULL
  BY CommandingPerson
<1>2. room'[u] = r /\ \A v \in Users \ {u} : room'[v] = room[v]
  BY DEF RInv, IInv, TypeOK
<1>3. PresenceOf(username[u])' = IF r = NULL THEN LOBBY ELSE r
  BY <1>1, <1>2 DEF PresenceOf, table_find
<1>4. \A m \in Names \ {username[u]} : old_users'[m] = old_users[m] /\ old_users[m] # u
  BY <1>1 DEF RInv, IInv, OwnName
<1> QED
  BY <1>1, <1>2, <1>3, <1>4, OneMoves

(* Those left over are not touched by a change of u's own seat, except     *)
(* that one under his name gives way to him.                               *)
LEMMA SeatChanges ==
  ASSUME RInv, RInv', NEW u \in Users, Commanding(u), UNCHANGED owner, NEW r \in RoomNames,
         \A n \in Names : members'[r][n] = AfterLeaving(u)[r][n] \/ (n = username[u] /\ members'[r][n] = u)
  PROVE  LeftNames(r)' = IF members'[r][username[u]] = u THEN LeftNames(r) \ {username[u]}
                         ELSE LeftNames(r)
<1> DEFINE me == username[u]
<1>1. u \in OldUsers /\ me \in Names /\ u # NULL
  BY CommandingPerson
<1>2. u \in Linked /\ Linked' = Linked
  BY <1>1 DEF RInv, IInv, UsersPartition, Connected, Linked
<1>3. members[r] \in [Names -> Users \cup {NULL}] /\ members'[r] \in [Names -> Users \cup {NULL}]
  BY DEF RInv, IInv, TypeOK
<1>4. \A n \in Names : AfterLeaving(u)[r][n] # members[r][n] =>
        n = me /\ members[r][n] = u /\ AfterLeaving(u)[r][n] = NULL
  <2> SUFFICES ASSUME NEW n \in Names, AfterLeaving(u)[r][n] # members[r][n]
               PROVE  n = me /\ members[r][n] = u /\ AfterLeaving(u)[r][n] = NULL
    OBVIOUS
  <2>1. room[u] \in rooms /\ r = room[u] /\ n = me /\ AfterLeaving(u)[r][n] = NULL
    BY <1>1 DEF AfterLeaving, room_remove_user, table_remove, RInv, IInv, TypeOK
  <2> QED
    BY <1>1, <2>1 DEF RInv, SeatsMatch
<1> SUFFICES ASSUME NEW n \in Names
             PROVE  n \in LeftNames(r)' <=> n \in LeftNames(r) /\ ~(n = me /\ members'[r][n] = u)
  BY <1>1 DEF LeftNames
<1>5. n \in LeftNames(r) <=> members[r][n] # NULL /\ members[r][n] \notin Linked
  BY <1>3 DEF LeftNames, LeftOver, get_values, get_keys, Linked
<1>6. n \in LeftNames(r)' <=> members'[r][n] # NULL /\ members'[r][n] \notin Linked'
  BY <1>3 DEF LeftNames, LeftOver, get_values, get_keys, Linked
<1>7. CASE members'[r][n] = members[r][n]
  BY <1>1, <1>2, <1>3, <1>5, <1>6, <1>7
<1>8. CASE n = me /\ members'[r][n] = u
  BY <1>2, <1>6, <1>8
<1>9. CASE members'[r][n] = AfterLeaving(u)[r][n] /\ members'[r][n] # members[r][n]
  BY <1>1, <1>2, <1>4, <1>5, <1>6, <1>9
<1> QED
  BY <1>7, <1>8, <1>9

LEMMA LeaveChatLeaves ==
  ASSUME RInv, RInv', NEW u \in Users, LeaveChat(u)
  PROVE  P!Leave(username[u])
<1> DEFINE info    == Reply(u, "INFO", {})
           channel == Reply(u, "CHANNEL", {})
           replies == << info, channel >>
<1>1. /\ Commanding(u) /\ wire' = LeaveMessages(u) \o replies
      /\ room' = [room EXCEPT ![u] = NULL]
      /\ members' = AfterLeaving(u)
      /\ UNCHANGED <<old_users, username, accounts, owner>>
  BY DEF LeaveChat, net
<1>2. info \in Packets /\ channel \in Packets
  BY <1>1, ReplyTyped DEF RInv, Kinds, ChatEvents
<1>3. info.kind \notin RoomEvents /\ channel.kind \notin RoomEvents
  BY DEF Reply, send_chat, Packet, RoomEvents
<1> HIDE DEF info, channel
<1>4. LeaveMessages(u) \in Seq(Packets) /\ replies \in Seq(Packets) /\ Silent(replies)
  <2>1. replies \in Seq(Packets) /\ Silent(replies)
    BY <1>2, <1>3 DEF Silent
  <2> QED
    BY <1>1, <2>1, LeavingTyped DEF RInv
<1> HIDE DEF replies
<1>5. SameLeft
  <2>1. \A r \in RoomNames : members'[r][username[u]] # u
    BY <1>1, CommandingPerson, Left
  <2> QED
    BY <1>1, <2>1, SeatChanges DEF SameLeft
<1>6. /\ [m \in Names |-> PresenceOf(m)]'
           = [[m \in Names |-> PresenceOf(m)] EXCEPT ![username[u]] = LOBBY]
      /\ \A m \in Names \ {username[u]} : PresenceOf(m)' = PresenceOf(m)
  BY <1>1, Moved
<1>7. \/ LeaveMessages(u) = << >> /\ << >> \in P!Partings(username[u])
      \/ \E event \in Packets :
           /\ LeaveMessages(u) = << event >> /\ event.kind \in RoomEvents
           /\ << AsHeard(event, Lines') >> \in P!Partings(username[u])
  <2>1. AllHeard(LeaveMessages(u), Scene')
    BY <1>1, LeaveHeard
  <2> QED
    BY <1>1, <1>5, <1>6, <2>1, Parted DEF SameLeft
<1>8. RoomEventsHeard(wire', Lines') \in P!Partings(username[u])
  BY <1>1, <1>4, <1>7, ThenSilence
<1>9. RoomEventsHeard(wire, Lines)' \in P!Partings(username[u])
  BY <1>8
<1>10. username[u] \in Names /\ PresenceOf(username[u]) # OFFLINE
  BY <1>1, CommandingPerson
<1>11. UNCHANGED <<{n \in Names : accounts[n] # NULL}, old_users, [r \in RoomNames |-> LeftNames(r)]>>
  BY <1>1, <1>5 DEF SameLeft
<1> QED
  BY <1>6, <1>9, <1>10, <1>11 DEF P!Leave, P!Online

LEMMA JoinRoomJoins ==
  ASSUME RInv, RInv', NEW u \in Users, NEW r \in RoomNames, JoinRoom(u, r)
  PROVE  P!Join(username[u], r)
<1> DEFINE me      == username[u]
           left    == AfterLeaving(u)
           joined  == room_add_user(left[r], u)
           info    == Reply(u, "INFO", {})
           created == IF r \in rooms THEN << >> ELSE << info >>
           channel == Reply(u, "CHANNEL", {r})
           listed  == Packet({u}, "USER_IN_CHANNEL", NULL, get_keys(left[r]))
           news    == room_message(joined, "USER_JOIN_CHANNEL", me, r)
           people  == {n \in Names : PresenceOf(n) = r} \cup {me}
<1>1. /\ Commanding(u) /\ wire' = LeaveMessages(u) \o created \o << channel, listed, news >>
      /\ room' = [room EXCEPT ![u] = r]
      /\ UNCHANGED <<old_users, username, accounts, owner>>
  BY DEF JoinRoom, net
<1>2. /\ u \in OldUsers /\ me \in Names /\ old_users[me] = u /\ u # NULL
      /\ PresenceOf(me) # OFFLINE
      /\ \A q \in RoomNames : PresenceOf(me) = q <=> room[u] = q
  BY <1>1, CommandingPerson
<1>3. left \in [RoomNames -> [Names -> Users \cup {NULL}]] /\ LeaveMessages(u) \in Seq(Packets)
  BY <1>1, LeavingTyped DEF RInv
<1>4. info \in Packets /\ channel \in Packets
  BY <1>1, ReplyTyped DEF RInv, Kinds, ChatEvents
<1>5. listed \in Packets
  <2>1. get_keys(left[r]) \in SUBSET (Names \cup RoomNames)
    BY <1>3, ValuesTyped
  <2> QED
    BY <2>1, OnePacket DEF Kinds, ChatEvents
<1>6. news \in Packets
  <2>1. joined \in [Names -> Users \cup {NULL}]
    BY <1>2, <1>3 DEF room_add_user, table_add
  <2> QED
    BY <1>2, <2>1, BroadcastTyped DEF RoomEvents
<1>7. /\ info.kind \notin RoomEvents /\ channel.kind \notin RoomEvents
      /\ listed.kind \notin RoomEvents /\ news.kind \in RoomEvents
  BY DEF Reply, send_chat, room_message, Packet, RoomEvents
<1>8. /\ [m \in Names |-> PresenceOf(m)]' = [[m \in Names |-> PresenceOf(m)] EXCEPT ![me] = r]
      /\ PresenceOf(me)' = r
      /\ \A m \in Names \ {me} : PresenceOf(m)' = PresenceOf(m)
  BY <1>1, Moved, NullAssumption
<1>9. \A q \in RoomNames : LeftNames(q)' = IF q = r THEN LeftNames(q) \ {me} ELSE LeftNames(q)
  <2>1. \A q \in RoomNames, n \in Names :
          members'[q][n] = left[q][n] \/ (n = me /\ members'[q][n] = u)
    BY JoinedRooms
  <2>2. \A q \in RoomNames : members'[q][me] = u <=> q = r
    BY <1>1, <1>2, JoinedRooms, Left
  <2> QED
    BY <1>1, <2>1, <2>2, SeatChanges
<1>10. PICK hearers \in P!Audiences(people, LeftNames(r) \ {me}) :
         AsHeard(news, Lines') = P!Event("USER_JOIN_CHANNEL", me, r, hearers)
  <2>1. news.kind = "USER_JOIN_CHANNEL" /\ news.who = me /\ news.about = {r}
    BY DEF room_message, Packet
  <2>2. LeftNames(r)' = LeftNames(r) \ {me} /\ Heard(news, Scene')
    BY <1>9, BothHeard
  <2> HIDE DEF news
  <2>3. people = {n \in Names : PresenceOf(n)' = r
                                 /\ (news.kind = "USER_LEAVE_CHANNEL" => n # news.who)}
    BY <1>2, <1>8, <2>1
  <2> HIDE DEF people
  <2> QED
    BY <1>1, <1>6, <1>7, <2>1, <2>2, <2>3, EventHeard
<1>11. \/ LeaveMessages(u) = << >> /\ << >> \in P!Partings(me)
       \/ \E event \in Packets :
            /\ LeaveMessages(u) = << event >> /\ event.kind \in RoomEvents
            /\ << AsHeard(event, Lines') >> \in P!Partings(me)
  <2>1. AllHeard(LeaveMessages(u), Scene')
    BY BothHeard
  <2>2. \A q \in RoomNames : room[u] = q => LeftNames(q)' = LeftNames(q)
    <3>1. ASSUME room[u] = r PROVE me \notin LeftNames(r)
      <4>1. members[r][me] = u /\ Connected(u)
        BY <1>2, <3>1 DEF RInv, SeatsMatch, IInv, UsersPartition
      <4> QED
        BY <4>1 DEF LeftNames, LeftOver
    <3> QED
      BY <1>9, <3>1
  <2> QED
    BY <1>1, <1>8, <2>1, <2>2, Parted
<1> HIDE DEF info, channel, listed, news
<1>12. created \in Seq(Packets) /\ Silent(created)
  BY <1>4, <1>7 DEF Silent
<1> HIDE DEF created
<1>13. \E parting \in P!Partings(me) :
         RoomEventsHeard(wire', Lines') = parting \o << AsHeard(news, Lines') >>
  <2>1. TellsNews(wire', LeaveMessages(u), news, Lines')
    BY <1>1, <1>3, <1>4, <1>5, <1>6, <1>7, <1>12, ThenNews
  <2>2. CASE LeaveMessages(u) = << >> /\ << >> \in P!Partings(me)
    <3>1. RoomEventsHeard(wire', Lines') = << >> \o << AsHeard(news, Lines') >>
      BY <2>1, <2>2 DEF TellsNews
    <3> QED
      BY <2>2, <3>1
  <2>3. ASSUME NEW event \in Packets, LeaveMessages(u) = << event >>, event.kind \in RoomEvents,
               << AsHeard(event, Lines') >> \in P!Partings(me)
        PROVE  \E parting \in P!Partings(me) :
                 RoomEventsHeard(wire', Lines') = parting \o << AsHeard(news, Lines') >>
    <3>1. RoomEventsHeard(wire', Lines') = << AsHeard(event, Lines') >> \o << AsHeard(news, Lines') >>
      BY <2>1, <2>3 DEF TellsNews
    <3> QED
      BY <2>3, <3>1
  <2> QED
    BY <1>11, <2>2, <2>3
<1>14. \E parting \in P!Partings(me), h \in P!Audiences(people, LeftNames(r) \ {me}) :
         RoomEventsHeard(wire, Lines)' = parting \o << P!Event("USER_JOIN_CHANNEL", me, r, h) >>
  BY <1>10, <1>13
<1>15. P!In(r) \cup {me} = people
  BY DEF P!In
<1>16. [q \in RoomNames |-> LeftNames(q)]'
         = [[q \in RoomNames |-> LeftNames(q)] EXCEPT ![r] = @ \ {me}]
  BY <1>9
<1>17. UNCHANGED <<{n \in Names : accounts[n] # NULL}, old_users>>
  BY <1>1
<1>18. /\ [m \in Names |-> PresenceOf(m)][me] # OFFLINE
       /\ [q \in RoomNames |-> LeftNames(q)][r] = LeftNames(r)
  BY <1>2
<1> HIDE DEF people
<1>19. \E parting \in P!Partings(me),
          h \in P!Audiences(P!In(r) \cup {me}, [q \in RoomNames |-> LeftNames(q)][r] \ {me}) :
         RoomEventsHeard(wire, Lines)' = parting \o << P!Event("USER_JOIN_CHANNEL", me, r, h) >>
  BY <1>14, <1>15, <1>18
<1> HIDE DEF me
<1>20. P!Join(me, r)
  BY <1>8, <1>16, <1>17, <1>18, <1>19 DEF P!Join, P!Online
<1> QED
  BY <1>20 DEF me

-----------------------------------------------------------------------------
(* The refinement *)

LEMMA Starting == Init => P!PInit
<1> SUFFICES ASSUME Init PROVE P!PInit
  OBVIOUS
<1>1. \A n \in Names : PresenceOf(n) = OFFLINE
  BY DEF Init, PresenceOf, table_find, table_create
<1>2. {n \in Names : accounts[n] # NULL} = {}
  BY DEF Init
<1>3. RoomEventsHeard(wire, Lines) = << >>
  <2>1. wire \in Seq(Packets) /\ \A i \in DOMAIN wire : wire[i].kind \notin RoomEvents
    BY DEF Init
  <2> QED
    BY <2>1, NothingHeard
<1>4. \A r \in RoomNames : LeftNames(r) = {}
  BY DEF Init, NoMembers, table_create, LeftNames, LeftOver, get_values, get_keys
<1> QED
  BY <1>1, <1>2, <1>3, <1>4 DEF P!PInit, Init, table_create

(* The commands without an event in a room change nothing. *)
LEMMA CommandKeeps ==
  ASSUME NEW u \in Users, process_SID_CHATCOMMAND(u),
         ~ Talk(u), ~ LeaveChat(u), ~ \E r \in RoomNames : JoinRoom(u, r)
  PROVE  UNCHANGED <<old_users, room, accounts, members, owner>>
BY DEF process_SID_CHATCOMMAND, process_command_join, process_command_who, process_command_finger,
       process_command_w, process_command_rooms, ReplyOnly, tables, sessions, net

LEMMA EachStep == ASSUME RInv, RInv', Next PROVE P!PNext
<1>1. ASSUME NEW u \in Users, Talk(u) \/ LeaveChat(u) \/ \E r \in RoomNames : JoinRoom(u, r)
      PROVE  P!PNext
  <2>1. Commanding(u)
    BY <1>1 DEF Talk, LeaveChat, JoinRoom
  <2>2. username[u] \in Names
    BY <2>1, CommandingPerson
  <2> QED
    BY <1>1, <2>2, TalkSays, LeaveChatLeaves, JoinRoomJoins DEF P!PNext
<1>2. ASSUME ~ \E u \in Users : Talk(u) \/ LeaveChat(u) \/ \E r \in RoomNames : JoinRoom(u, r)
      PROVE  P!PNext
  <2>1. RoomEventsHeard(wire, Lines)' = << >>
    <3>1. wire' \in Seq(Packets) /\ \A i \in DOMAIN wire' : wire'[i].kind \notin RoomEvents
      BY <1>2, OthersSilent DEF RInv, IInv, TypeOK
    <3>2. RoomEventsHeard(wire', Lines') = << >>
      BY <3>1, NothingHeard
    <3> QED
      BY <3>2
  <2>2. CASE UNCHANGED <<old_users, room, accounts, members, owner>>
    BY <2>1, <2>2, NobodyLeft, QuietStep DEF P!PNext
  <2>3. ASSUME NEW u \in Users, CloseOld(u) PROVE P!PNext
    <3>1. username[u] \in Names
      BY <2>3, InChatInTable DEF CloseOld, RInv, IInv, SnapshotStaysValid, UsersPartition
    <3> QED
      BY <2>3, <3>1, CloseOldVanishes DEF P!PNext
  <2>4. ASSUME NEW u \in Users, NEW n \in Names, NEW p \in Passwords, process_SID_LOGIN(u, n, p)
        PROVE  P!PNext
    BY <2>1, <2>4, LoginLogsIn DEF P!PNext
  <2>5. ASSUME NEW u \in Users, NEW n \in Names, NEW p \in Passwords, process_SID_CREATE(u, n, p)
        PROVE  P!PNext
    BY <2>1, <2>5, CreateRegisters DEF P!PNext
  <2>6. CASE Die
    BY <2>6, DieCrashes DEF P!PNext
  <2>7. CASE Select
    BY <2>1, <2>7, SelectLeavesNothing, QuietStep DEF P!PNext, Select
  <2>8. ASSUME NEW u \in Users, CloseNew(u) PROVE P!PNext
    BY <2>1, <2>8, CloseNewLeavesNothing, QuietStep DEF P!PNext, CloseNew, sessions
  <2>9. ASSUME NEW u \in Users, process_next_packet(u) PROVE P!PNext
    <3>1. CASE process_SID_CHATCOMMAND(u)
      BY <1>2, <2>2, <3>1, CommandKeeps
    <3> QED
      BY <2>2, <2>3, <2>4, <2>5, <2>8, <2>9, <3>1
         DEF process_next_packet, ReadPartial, Ignore, Refuse,
             process_SID_CLIENT_INFORMATION, tables, sessions, net
  <2> QED
    BY <2>2, <2>6, <2>7, <2>9
       DEF Next, ServerStep, do_keepalive, Connect, Arrive, Restart, tables, sessions, net
<1> QED
  BY <1>1, <1>2

LEMMA Stutters == UNCHANGED vars => UNCHANGED P!pvars
<1> SUFFICES ASSUME UNCHANGED vars PROVE UNCHANGED P!pvars
  OBVIOUS
<1>1. UNCHANGED <<old_users, room, accounts, wire, members, sock, owner>>
  BY DEF vars, tables, sessions, net
<1>2. \A n \in Names : PresenceOf(n)' = PresenceOf(n)
  BY <1>1 DEF PresenceOf, table_find
<1>3. UNCHANGED Lines
  BY <1>1 DEF Lines, LeadsTo
<1>4. UNCHANGED RoomEventsHeard(wire, Lines)
  BY <1>1, <1>3
<1>5. SameLeft
  BY <1>1, NobodyLeft
<1> QED
  BY <1>1, <1>2, <1>4, <1>5 DEF P!pvars, P!places, SameLeft

(* Whatever sessions and descriptors lie behind it, the server does to     *)
(* names and clients what Presence says: one login per name and client,    *)
(* events heard at the client of everybody in the room and by no more      *)
(* strangers than names were lost in it, accounts that outlive crashes.    *)
THEOREM ServerImplementsPresence == Spec => ImplementsPresence
<1>1. RInv /\ RInv' /\ [Next]_vars => [P!PNext]_(P!pvars)
  BY EachStep, Stutters
<1> QED
  BY <1>1, Starting, RoomsInvariance, PTL DEF Spec, ImplementsPresence, P!PSpec
=============================================================================
