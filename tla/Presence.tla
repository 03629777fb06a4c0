------------------------------ MODULE Presence ------------------------------
(***************************************************************************)
(* What the chat server promises, in terms of names and clients: who is    *)
(* logged in, at which client, in which room, and which clients hear of    *)
(* what happens in a room.  There are no descriptors, lists or tables of   *)
(* sessions; Server implements this.                                       *)
(***************************************************************************)
EXTENDS Sequences, Functions

CONSTANTS
  People,     \* user names
  Rooms,      \* room names
  Clients,    \* what connects and hears
  Nobody,     \* the client of a name nobody is logged in under
  Offline,    \* the presence of a name nobody is logged in under
  Lobby       \* the presence of a name logged in, in no room

VARIABLES
  account,    \* the names that have an account
  presence,   \* where each name is
  client,     \* the client each name is logged in at
  left,       \* room |-> the names whose connection was lost in it
  heard       \* the room events of the last step, each with who hears it

places == <<presence, client, left>>
pvars  == <<account, places, heard>>

Online(n) == presence[n] # Offline
In(r)     == {n \in People : presence[n] = r}

Event(kind, who, where, hearers) ==
  [kind |-> kind, who |-> who, where |-> where, hearers |-> hearers]

(* Who may hear what is told to some people in a room: the clients of all  *)
(* of them, and at most one stranger for each name that was lost there.    *)
Audiences(people, lost) ==
  {hearers \in SUBSET Clients :
     LET told == {client[n] : n \in people}
     IN  told \subseteq hearers /\ ExistsInjection(hearers \ told, lost)}

PInit ==
  /\ account = {}
  /\ presence = [n \in People |-> Offline]
  /\ client = [n \in People |-> Nobody]
  /\ left = [r \in Rooms |-> {}]
  /\ heard = << >>

Register(n) ==
  /\ n \notin account
  /\ account' = account \cup {n}
  /\ heard' = << >>
  /\ UNCHANGED places

(* Logging in takes an account, a name nobody is logged in under, and a    *)
(* client that is not logged in already.                                   *)
LogIn(n, c) ==
  /\ n \in account /\ ~Online(n)
  /\ \A m \in People : client[m] # c
  /\ presence' = [presence EXCEPT ![n] = Lobby]
  /\ client' = [client EXCEPT ![n] = c]
  /\ heard' = << >>
  /\ UNCHANGED <<account, left>>

(* The others in the room are told when n leaves it for another, for the   *)
(* lobby or to enter it again.                                             *)
Partings(n) ==
  IF presence[n] \in Rooms
  THEN {<< Event("USER_LEAVE_CHANNEL", n, presence[n], hearers) >> :
          hearers \in Audiences(In(presence[n]) \ {n}, left[presence[n]])}
  ELSE {<< >>}

(* Everybody in a room, n included, is told that n joined it.  Whoever     *)
(* joins under a name lost in the room takes its place.                    *)
Join(n, r) ==
  /\ Online(n)
  /\ presence' = [presence EXCEPT ![n] = r]
  /\ left' = [left EXCEPT ![r] = @ \ {n}]
  /\ \E parting \in Partings(n), hearers \in Audiences(In(r) \cup {n}, left[r] \ {n}) :
       heard' = parting \o << Event("USER_JOIN_CHANNEL", n, r, hearers) >>
  /\ UNCHANGED <<account, client>>

Leave(n) ==
  /\ Online(n)
  /\ presence' = [presence EXCEPT ![n] = Lobby]
  /\ heard' \in Partings(n)
  /\ UNCHANGED <<account, client, left>>

Say(n) ==
  /\ presence[n] \in Rooms
  /\ \E hearers \in Audiences(In(presence[n]), left[presence[n]]) :
       heard' = << Event("TALK", n, presence[n], hearers) >>
  /\ UNCHANGED <<account, places>>

(* A connection is lost.  Nobody in the room is told, and the name stays   *)
(* behind in it.                                                           *)
Vanish(n) ==
  /\ Online(n)
  /\ presence' = [presence EXCEPT ![n] = Offline]
  /\ client' = [client EXCEPT ![n] = Nobody]
  /\ left' = [r \in Rooms |-> IF presence[n] = r THEN left[r] \cup {n} ELSE left[r]]
  /\ heard' = << >>
  /\ UNCHANGED account

(* The server goes down; the accounts stay. *)
Crash ==
  /\ presence' = [n \in People |-> Offline]
  /\ client' = [n \in People |-> Nobody]
  /\ left' = [r \in Rooms |-> {}]
  /\ heard' = << >>
  /\ UNCHANGED account

(* Anything that is not an event in a room. *)
Quiet ==
  /\ heard' = << >>
  /\ UNCHANGED <<account, places>>

PNext ==
  \/ \E n \in People :
       \/ Register(n) \/ (\E c \in Clients : LogIn(n, c)) \/ Leave(n) \/ Say(n) \/ Vanish(n)
       \/ \E r \in Rooms : Join(n, r)
  \/ Crash
  \/ Quiet

PSpec == PInit /\ [][PNext]_pvars
=============================================================================
