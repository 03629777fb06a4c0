--------------------------- MODULE ServerPresence ---------------------------
(***************************************************************************)
(* Server implements Presence.  A name's presence is what the session the  *)
(* table of authenticated users holds under it says, its client is that    *)
(* session's; the hearers of a broadcast are the clients that the          *)
(* descriptors it is written to lead to, whoever had them before.          *)
(***************************************************************************)
EXTENDS Server, Integers

OFFLINE == "offline"
LOBBY   == "lobby"

ASSUME PlacesAssumption == OFFLINE \notin RoomNames /\ LOBBY \notin RoomNames

PresenceOf(n) ==
  LET u == table_find(old_users, n)
  IN  IF u = NULL THEN OFFLINE ELSE IF room[u] = NULL THEN LOBBY ELSE room[u]

LeftNames(r) == {n \in Names : members[r][n] \in LeftOver(r)}

(* The sessions whose descriptors lead to each client. *)
Lines == [c \in Users |-> {s \in Users : LeadsTo(s, c)}]

(* The room events among the packets of the last step, as they are heard.  *)
IsRoomEvent(packet) == packet.kind \in RoomEvents

AsHeard(packet, lines) ==
  [kind    |-> packet.kind,
   who     |-> packet.who,
   where   |-> CHOOSE r \in packet.about : TRUE,
   hearers |-> {c \in Users : lines[c] \cap packet.to # {}}]

(* A set of positions as a sequence, the first position first.             *)
InOrder(positions, most) ==
  CHOOSE s \in UNION {[1..n -> positions] : n \in 0..most} :
    /\ \A i, j \in DOMAIN s : i < j => s[i] < s[j]
    /\ \A p \in positions : \E i \in DOMAIN s : s[i] = p

RoomEventsHeard(packets, lines) ==
  LET at == InOrder({i \in DOMAIN packets : IsRoomEvent(packets[i])}, Len(packets))
  IN  [i \in DOMAIN at |-> AsHeard(packets[at[i]], lines)]

P == INSTANCE Presence WITH
       People   <- Names,
       Rooms    <- RoomNames,
       Clients  <- Users,
       Nobody   <- NULL,
       Offline  <- OFFLINE,
       Lobby    <- LOBBY,
       account  <- {n \in Names : accounts[n] # NULL},
       presence <- [n \in Names |-> PresenceOf(n)],
       client   <- old_users,
       left     <- [r \in RoomNames |-> LeftNames(r)],
       heard    <- RoomEventsHeard(wire, Lines)

(* Seen through the names, the server does what Presence says: one login   *)
(* at a time per name and client; joins, leaves and talk heard at the      *)
(* client of everybody in the room; accounts that outlive a crash.  A lost *)
(* connection leaves its name behind in the room, and each name left       *)
(* behind lets at most one other client hear what is told there (the one   *)
(* with its descriptor number now), until someone joins under it again.    *)
ImplementsPresence == P!PSpec
=============================================================================
