# CattleChat in TLA+

CattleChat is a small chat system in C: a single-threaded `select` server
(`server`) and an ncurses client (`client`), talking over TCP in packets modelled
on the Battle.net protocol. This directory holds TLA+ models of it, the TLC
configurations that check them, and theorems about them checked by TLAPS.
Line numbers refer to the files in `src/`.

## 1. The system

| Part | Source | State | Operations |
|---|---|---|---|
| Server | `server.c` | `new_users` (list), `old_users` (table by name), `rooms` (table by name), `listen_socket`, `select_timeout` | `do_select`, `process_next_packet`, the handlers `process_SID_*`, the commands `process_command_*`, `do_keepalive`, `die_gracefully` |
| Sessions | `user.c` | a `user_t` per accepted connection: state, name, room, socket, address, tokens; never freed | `create_user`, getters and setters |
| Rooms | `room.c` | a `room_t` per room: name, topic, table of users by name | create, add, remove, message |
| Accounts | `account.c` | the file `accounts.ini` | `account_login`, `account_create` over `find_account` and `add_account` |
| Tables | `table.c` | a linked list of key and value | add, find, remove, list, count |
| Lists | `list.c` | a linked list with a `locked` flag | add, remove, list, count |
| Packets | `packet_buffer.c` | a growing block with a 16-bit length, the read position | build, send, `read_buffer`, read fields |
| Client | `client.c` | the connection, the tokens, the user's name and password | a handler per packet, `do_select` over socket and keyboard |
| Display | `output.c` | windows, the line being typed, the table of users in the channel | `read_next`, `display_channel_event` |
| Password hashes | `password.c` | none | three calls into SHA-1 |

How they interact. An iteration of `do_select` (server.c:730-832) copies the list
of new users and the table of old ones, waits in `select` for anything readable
among them and the listening socket, accepts at most one connection, then handles
one packet of each readable old user, then one of each readable new user, walking
the copies. The handlers change the very list, table and rooms that were copied.
A client identifies itself (`SID_CLIENT_INFORMATION`), logs in (`SID_LOGIN`, after
`SID_CREATE` if there is no account), which moves its session from the list to
the table, and from then on sends chat commands. A broadcast goes to every
session in a room's table (`room_message`). A reply goes to whoever `old_users`
has under the sender's *name* (`send_chat`, server.c:91-116). Losing a connection
removes the session from the list or the table, and from nothing else.

Where it is hard:

* copies taken before `select`, used after the handlers have moved or closed
  sessions (server.c:800-828);
* three structures that must agree on who is where: `old_users`, the rooms'
  tables, and the room and state in each session (server.c:310-397);
* sessions left in a room's table by a lost connection, found there under a name
  that may log in again, on a descriptor that `accept` may give to somebody else;
* blocking reads of one byte in a single thread (packet_buffer.c:348-378);
* a packet read with a single `read`, and the search for the next header after a
  short one (packet_buffer.c:396-411);
* a process that may end at any packet, with one file to start again from, whose
  writes nobody looks at (account.c:131-135);
* a signal handler that takes a busy-wait lock of the code it interrupts
  (list.c:17-24, server.c:848);
* fixed sizes: a line buffer with nothing to spare (account.c:30, 64), 16-bit
  lengths doubled until they wrap (packet_buffer.c:116).

`PROJECT.json` lists each as a hazard with the properties that cover it.

What makes each part correct:

* *server*: every connected session is in exactly one of list and table; a name is
  logged in once; a copied session is still valid when its turn comes; sessions
  and rooms agree; events reach the room and replies the sender; everything that
  arrives is read;
* *accounts*: what was confirmed is found again; the file is read as it was written;
* *tables*: one node per key; a list behaves as a map;
* *lists*: one frame inside at a time; the lock does not stop the process for ever;
  a list of pointers holds what its header promises; a signal's clean-up closes every
  socket once;
* *packets*: no write outside the block; fields are read as written; only packets
  that were sent are returned;
* *client*: its list of users is the room's table once the events in flight are
  handled; its login takes turns with the server and leads into chat or to a message;
  each line it sends is what was typed.

## 2. The modules

| Module | What it is | Code |
|---|---|---|
| `Table` | a `table_t` as a map, operators only | table.c |
| `Server` | the server: one action per handler, command and step of the loop | server.c, user.c, room.c |
| `Presence` | what the chat promises in terms of names and clients | abstract |
| `ServerPresence` | the mapping under which `Server` implements `Presence` | |
| `MCServer` | the server's instance and its symmetry | |
| `ServerProofs` | theorems about `Server`, that it implements `Presence` among them | |
| `InputLine` | the line being typed, operators only | output.c |
| `Chat` | `Server`, its clients and the packets between them | client.c, output.c, and server.c through `Server` |
| `MCChat` | the chat's two instances | |
| `ChatProofs`, `ChatWindowProofs` | theorems about `Chat` | |
| `TableList` | the linked list of table.c | table.c |
| `TableMap` | the map with its operations' results, implemented by `TableList` | table.h |
| `TableListProofs` | theorems about `TableList` | |
| `Signals` | the list's lock and the signal handler, with a call stack | list.c, server.c |
| `NodeList` | the list of list.c pointer by pointer, operators only | list.c |
| `Registry`, `MCRegistry` | `Signals` and `NodeList` with the main loop that moves sessions between list and table | list.c, server.c |
| `RegistryProofs` | theorems about `Signals`, `NodeList` and `Registry` | |
| `Accounts`, `MCAccounts` | the accounts file character by character | account.c |
| `AccountsProofs` | theorems about `Accounts` | |
| `PacketBuffer` | building packets and taking them apart, operators only | packet_buffer.c |
| `Wire`, `MCWire` | sender, network, `read_buffer` and handler on one connection | packet_buffer.c |
| `WireProofs` | theorems about `PacketBuffer` and `Wire` | |
| `Recursion` | induction over numbers and functions defined by recursion, stated with sets | |

### Server

| Variable | Code |
|---|---|
| `new_users`, `old_users`, `rooms`, `members` | the globals of server.c:39-49 and the `users` of each room |
| `state`, `username`, `room`, `sock` | the fields of `user_t` |
| `owner` | the kernel: which connection a descriptor leads to |
| `accounts` | the accounts file as a map |
| `backlog`, `readable` | the kernel: a waiting connection, connections with something to read |
| `oldTodo`, `newTodo` | what is left of the copies `do_select` walks, as far as `select` reported them |
| `blocked` | the session whose header `read_buffer` is waiting for |
| `wire` | the packets the last step wrote: to which sessions, of which kind, about what |

The head of an iteration (copy, `select`, `accept`) is the action `Select`, the
handling of one packet is one action; clients connect, send and hang up in
between, because the kernel takes their bytes whatever the server is doing. What
a packet contains is chosen when it is read. A handler is one action with
everything it does: `JoinRoom` leaves the old room, tells it, creates the new one,
lists its users, adds the session and tells everybody, as server.c:335-395 does.
Sessions are never freed by the code; the model has as many as `Users`. Die stands
for every way the process ends: signals, an assertion on a packet too short for
its handler, `SIGPIPE`. `Restart` starts with empty tables and the old file.

Room names and user names are model values. The tables compare keys with `strcmp`
throughout, so equality of model values is the code's comparison. Hashes and
tokens are abstracted: a login packet made for the session matches exactly when
its password hash is the one stored.

`Presence` knows names, the clients they are logged in at, rooms and who hears what:
logging in needs an account and a name not in use, joins and talk are heard at the
client of everybody in the room, a leave at the others'. A lost connection leaves its
name behind in the room (`left`), and each name left behind lets at most one stranger
hear what is told there, until somebody joins under it again. `ImplementsPresence` says
the server is that: a broadcast is heard by the clients to which the descriptors lead
that `room_message` writes to (`LeadsTo`), whoever had those numbers before, and the
sessions left over in the table of a room are its lost names.

### Chat

`Chat` extends `Server`. Each of its steps is a step of `Server` together with what
it means to the clients, or a step of a client that leaves the server's variables
alone; `ChatProofs` proves it. A client is named by the session the server gives it.

| Variable | Code |
|---|---|
| `client` | the process: not there, running, in `display_error` with its last message, or gone while the server does not know |
| `login` | `username`, `password` and `channel`, as entered at the prompts |
| `toServer`, `toClient` | packets written and not read yet, per connection |
| `caller` | whose connection waits at the listening socket |
| `window` | the table `users` of output.c, what of it is drawn, and the channel |
| `line` | the static `read_buffer` up to its terminator, `read_location`, and how far anything was stored (`top`) |
| `cut`, `stray` | history: who lost a packet to a short read on the way in; who heard of a room he is not in |

*The queues.* TCP keeps the order on one connection, and nothing orders what
different clients write, so there is a queue for each direction of each connection.
The sockets block: a packet that fills a queue stands for a write that has not
returned, and whoever made it takes no step until the other side has read
(`UpFull`, `NotWriting`). The server writes what a step sends in one go, so a queue can
hold more than its space; that stands for the writes still to come.
Keepalives and empty lists of users are not queued: the first mean nothing to a client,
the second are not packets. `Copies` puts a packet into a queue once for each session
of the room's table whose descriptor leads there, because that is what `room_message`
does: a session left over in the table after its connection was lost, whose descriptor
number was given away again, gets the new connection a packet that is not meant for it.

*The server's side.* `do_select` and `Serve` are the actions of `Server` with the packet
read from the queue instead of any packet. The server looks for readable connections
only when it has nothing else to do, and sees all of them (`AllArrived`): what is
under way arrives before `select` is called or after, and both orders are in the model
because the client may write before or after. A header that arrives in part is
`Server`'s business (`ReadPartial`); in `Chat` it is read at once. A packet that arrives in
part is given up by `read_buffer` (`ServerReadsShort`, for the clients in `Fragile`), and at
the client ends the program, which does not look for the `NULL` (`Quit`). When the
server dies the clients read what was under way, then the end of file; it does not
start again in `Chat` (`Server` has the restart).

*The client.* There is an action per handler of client.c. It keeps no state of the login:
each packet makes it write the next (`Answer`). `Type` is a burst of keys followed by what
`read_next` hands out. The keys are whole words: what matters to the line is where its
end is and what is still in the buffer. Every key that stores something stores a
terminator behind it; that of the character which fills the buffer goes one place past
its end (output.c:262), and `top` counts it. `EID_CHANNEL` draws the list of users *before* it
enters the client's own name, so a client in an empty room sees itself only after its own
join is announced; `window.shown` is what is drawn, and the property is about that.

### Registry and NodeList

`Registry` extends `Signals` with what the frames do: the main loop copies the list, adds
an accepted session, moves one to the table at login, takes a lost one out and closes
its socket; a handler copies the list, reads the table without a lock and closes
every socket it finds. `task` says what the main loop is in the middle of, so that a
signal can strike between any two of these steps. `NodeList` has the list's memory:
first, next and value, and the nodes allocated. `list_remove_value` and the removal of the
first element by index forget their node; the model keeps it allocated.

### Tables

`TableList` keeps the sequence of nodes and the results of the last call. Its
property `ImplementsMap` is `TableMap`'s specification under the mapping that reads
the list as a map; `TableMap` is built from the operators of `Table`, the ones
`Server` uses, so the server's models rest on the list's.

### Signals

The call stack is a sequence of frames, only the top one runs, a handler is a
frame pushed on it. `list_lock` is two steps, the test and the set. `die_gracefully`
is installed for four signals with `signal()`; the makefile compiles with
`-ansi -D_POSIX_SOURCE`, under which a signal's handler is reset when it is
delivered and the same signal again ends the process.

### Accounts

The file is a sequence of characters. `Lines` is what successive calls of
`fgets(buffer, MAX_RECORD - 1, f)` return, and the lookup is done on those, so the
buffer's size matters. `Printed` is what can reach the file of a record: all of it,
nothing, or any beginning of it, because no result of a write is looked at
(account.c:131-135) and because a signal's `exit` flushes what is printed so far. Two
variables are history: `torn` counts the records of which a part got there, and `kept`
has the confirmed names whose record got there whole, at the start of a line. `find_account` leaves its
stream open when the account exists and no record is wanted (account.c:78); the
descriptors lost that way are counted, and at `FdLimit` every request ends the
process.

### Packets

`PacketBuffer` has the 16 bits of the lengths as the constant `WIDTH`. `Wire` runs
`read_buffer` one `read` at a time against a network that delivers bytes in pieces
of any size. The handler asks `can_read_*` and reads any kinds in any order, so
the properties cover every layout of a packet, and a packet of another layout than
the one expected.

## 3. What the runs check

Times are seconds to one or two minutes on two cores.

| Run | Instance | Result |
|---|---|---|
| `server` | 3 sessions, 3 descriptors, 2 legal names and an illegal one, 1 password, 2 rooms and a refused one | all properties hold |
| `server_liveness` | 2 sessions, 2 legal names and an illegal one, 2 passwords, 1 room, fair | `NobodyStarves`, `LoggedInHaveAccounts` and `LoginIsPermanent` hold |
| `server_reuse` | 3 sessions, 2 descriptors, 2 names, 1 room | `RoomEventsStayInRoom` violated |
| `table_list` | 3 keys, 2 values | the list is the map |
| `chat` | 3 clients on 2 descriptors, 2 legal names and an illegal one, 1 password, 2 rooms, 1 packet each way | all hold |
| `chat_liveness` | 2 clients of one name, the right and a wrong password, a room and a refused one, queues of 1, short reads for one client, fair | `GetsIn` holds |
| `signals` | 2 signals, 2 sessions, 3 nodes, 3 list operations in a row | all hold |
| `signals_deadlock` | the 4 signals, the lock alone | `CleansUpAndExits` violated |
| `accounts` | names of two and three characters, one of them all hex digits; 2 hashes; a file of up to 21 characters; one record cut short | all hold |
| `accounts_lost` | the same, a file of up to 12 characters | `CreatedCanLogIn` violated |
| `wire` | 2 packets of up to 2 fields, 5-bit lengths, no 0xFF in the data | all hold |
| `wire_resync` | the same, with 0xFF in the data | `ReadsWereSent` violated |

**Server.** `UsersPartition`: list and table are disjoint and together exactly the
connected sessions. `OneSessionPerName`: the check for `ACCOUNT_IN_USE` and the table
leave one session per name. `SnapshotStaysValid`: nothing a handler does makes the rest
of the copies stale; the comment "doing new first might muck things up" is about
this. `RoomsMatchSessions`: a connected session is in the table of the room it names
and of no other. `LoggedInHaveAccounts`, `LoginIsPermanent`: logins need accounts, an
old user never becomes a new one. `RoomEventsReachRoom`: an event reaches the client of
every session in the room, and otherwise exactly the clients that were given the
descriptor number of a session left over in the room's table. `RepliesReachSender`:
addressing replies by name finds the sender. `ImplementsPresence`: all of it seen from
outside.

*Bounds.* Two names are the least for "somebody else", three sessions for a left-over
session, a new login under its name and a third party at once; two rooms for moving
between rooms. Symmetry is used over sessions, descriptors, legal names and accepted
rooms, which the specification never distinguishes, and only in the run without
liveness properties. A wrong password needs a second one: `server_liveness` has it. Every run of the server
allows crashes and restarts. Nobody connects while no descriptor is free (`Connect`), so
`accept` never fails in the model; server.c:789-793 does not look whether it did, and
would go on with a session whose socket is -1. That is a bound, and a hazard no property
covers.

*Where the code and its documents part* (`findings`): a lost connection stays in its
room's table, so `/who` and `/rooms` still show it, and its descriptor number, given to
a new connection, carries the room's events to a client that is not in the room. The trace
of `server_reuse` has one user whose connection was lost in the room, another who
joins it, and a third client, just connected on the lost one's descriptor and not logged
in, to which that join is written. `ImplementsPresence` and `RoomEventsReachRoom` count
such clients among those that hear, and say that there are no others.

**Chat.** `WindowFollowsRoom`: let a client read everything that is under way to it, and
it shows its session's room and exactly the names in the room's table. The exception is
a `stray`, a client that heard of another room through a descriptor used again
(`server_reuse`), until it is told of a channel of its own. It depends on the order in
which the server sends the channel, the list, the parting from the old room and the
join, and on left-over names being in the list as they are in the table.
`LoginTakesTurns`: until it is in chat a client and the server have exactly one
packet of the login between them, and the session's state is the one that takes it;
lines typed too early, answers crossing and somebody else's login in between
included. `LinesAreTyped`: for every sequence of up to `MaxKeys` keys, whatever the client's
users type in this run, each line handed out on which something was typed is what was
typed and not erased since the line before. Of a line on which nothing was typed it says
nothing: there Enter sends the line before once more (output.c:240-245), which is modelled
and which no property approves of. The documents speak of lines that were typed
(developer.txt:72, user.txt:74) and not of empty ones. The property is said without the
buffer: a word *stands* if the keys after it erase no more than they enter, and a line
spells the words that stand. `ClientTypeOK`: the next character always has its place inside
the buffer, and nothing is stored further than one place behind it. That one place is
written when the buffer fills: output.c:262 puts the terminator at index `MAX_MESSAGE`
of an array of `MAX_MESSAGE` characters. `GetsIn`: whoever starts gets into
chat, in the room asked for unless it is refused, or gets a message. It names what
can keep one waiting for ever: a packet of its login lost to a short read (nobody
repeats it, nobody times out), a server that is down, and a server and a client that
each write to the other (`StuckTogether`), which the code does nothing against.

*Bounds.* Three clients on two descriptors are the least for a descriptor used again
while a third party is in the room; with room for one packet each way, both sides
can be unable to write, and what one step of the server writes still puts packets
behind one another. Users type a command to join, Enter, a command to leave and Enter,
or two words without Enter, so that lines are left unfinished, continued, and filled to
the last place. 1.24 million states, 71 seconds. The run has symmetry over sessions,
descriptors and names, and a `VIEW` that leaves out the packets of the last step, which
no step reads. `LinesAreTyped` is about
keys alone and evaluated before anybody has started, for up to six keys: with a buffer
for three words, enough to fill it, to type over what an Enter left, and to erase past the
line's beginning. `chat_liveness` has no view and no
symmetry, but prompts that lead everywhere: a name in use, a wrong password, a
refused room; and a user who presses Enter again and again. 80,000 states. The theorems
below hold without any of these bounds. A run's deadlock
check is off where the system may stop: everybody gone, or stuck together.

**Fairness.** `ServerFairSpec` is weak fairness of the server's step: the operating
system keeps running a thread that can run. That is not enough, because one byte of a
header holds the server until the next comes. `FairSpec` adds, per session, that a
header once begun is finished or the connection ends (`Finish`); the code does not
ensure that, so it is an assumption about clients and stated as such. Nothing
is assumed about what clients send otherwise, nor that they connect.
In `Chat` the server's thread runs (`ServerActs`), TCP delivers (`Arrives`), the user
presses the key a message waits for (`PressAnyKey`), and a client reads its socket
(`Receive`) under *strong* fairness: typing can fill the queue again and again just
before the socket's turn, but each iteration of the client's `do_select` looks at both
descriptors (client.c:359-372), so the keyboard cannot keep the socket waiting for ever.
No fairness is assumed of typing, starting or quitting.
In `Signals` and `Registry` the thread keeps running and somebody presses the key
`display_error` waits for; signals arrive as they like, or never.

**Tables.** Three keys make every position of a removed node (first, middle, last)
happen next to another.

**Signals.** Each signal is delivered at most once to the handler, so four signals
bound the stack at five frames without a bound of the model's own.
`ExitsUnlessStuck` says that the wait for an interrupted frame's lock is the only way
a signal fails to end the process; `CleansUpAndExits`, the comment's claim, fails by
that way. A deadlock check is off in both: the process ends.
`HandlerClosesAll`: wherever a signal strikes, the clean-up closes the socket of every
session but the one the main loop is just moving, and no socket the main loop has
closed already; the order in which a lost session is unlisted and closed is what it
rests on. `EachOnce`: a session is in list or table, never in both, and once in the
list. `ListKeepsPromise`: any three operations of list.c, on any list the server comes to,
leave and return what list.h says, reach no freed node, and lose the nodes they are known
to lose. (Removing the null pointer takes out every node that holds it and not the first,
since list.c:181 goes on while there is nothing to return; the server has no such value,
and the property leaves it out. The model does what the code does.)
Two signals are the least for a handler that interrupts a handler; two sessions and three
nodes let the three operations build a list with a first, a middle and a last node. The
run has the lock, the list and the main loop together; 0.11 million states. For longer
lists and more operations there is the proof.

**Accounts.** A name as long as allowed makes the record and the buffer's size meet
exactly; a name of hex digits could be mistaken for part of a hash. A failed write, or a
signal while a record is printed, may leave any beginning of the record in the file;
`MaxTorn` allows one record to be cut that way, and any number to get there whole or not at
all. `MaxFile` (21 characters) leaves room for a torn record in front of, between or
behind two whole ones. `KeptCanLogIn`: a confirmed account is found again with its hash
if its record got to the file whole and at the start of a line, whatever torn records lie
around it.
`LinesAreRecords` and `OneRecordPerName` speak of files in which no record was torn:
every line is a record, and a record nobody was told of is found by the next attempt, so
there is one per name. Behind a torn record they do not hold: of `x` alone and a record
of `01` the file has a line of `x01`, a name that nobody created and that may have a
record already. And what is confirmed can be lost then, which is the violated claim
(`accounts_lost`): nothing was written, a part was, or the record continues a torn line.
500,000 states, 70 seconds.

**Wire.** Lengths of 5 bits and a first block of 8 bytes: two fields double the block
once, reach its end, wrap the next doubling to zero (the assertion), and exceed
`MAX_PACKET` (14). Two packets are the least for one to be damaged by the other. A packet
that arrives in one piece may hold any bytes; the theorems say so. With no
0xFF in the data (texts have none: the clients send printable characters) a short
read costs one packet (`CutsCostOne`); hashes and tokens can have one, and then
`ReadsWereSent` fails. Header bytes are always read to the end, so a 0xFF in a length
does no harm. The deadlock check is off: both sides may stop.

### Variants

An operator whose name ends in capitals, such as `Ready_ALL`, is what its neighbour
`Ready` would be with a plausible slip. No action uses it. For each, a property tells
it from the real one; `mutants` in `PROJECT.json` names it:

| Variant | The slip | Told apart by |
|---|---|---|
| `StateIn_DEAD`, `StateIn_SENT` | a wrong state after leaving chat | `TypeOK`, `LoginIsPermanent` |
| `list_remove_value_KEEPS` | a session stays in the list | `UsersPartition` |
| `LoginStatus_UNCHECKED` | no check for a name in use | `OneSessionPerName` |
| `send_chat_SWAPPED` | recipient and sender exchanged | `RepliesReachSender` |
| `Ready_ALL`, `Ready_FIRST` | sessions read that were not copied; only one read per iteration | `SnapshotStaysValid`, `NobodyStarves` |
| `room_remove_user_KEEPS` | leaving forgets the table | `RoomsMatchSessions` |
| `account_login_TRUSTS` | an unknown account is let in | `LoggedInHaveAccounts` |
| `room_message_SKIPS_SENDER` | the sender is left out | `RoomEventsReachRoom`, `ImplementsPresence` |
| `table_add_APPENDS`, `Unlink_CUTS`, `table_find_KEY` | a second node; the rest of the list lost; the key for the value | `KeysUnique`, `ImplementsMap`, `TypeOK` |
| `LockSeen_BLIND`, `Unlocked_FORGETS` | no wait; the flag stays set | `OneInside`, `ExitsUnlessStuck` |
| `BufferSize_LESS`, `Record_BARE`, `MayAdd_ALWAYS` | a shorter buffer; no newline; no check | `KeptCanLogIn`, `LinesAreRecords`, `OneRecordPerName` |
| `IsFull_LATE`, `can_read_LAX`, `Room_HEADER` | off by one; too generous; too small | `WritesInBounds`, `GuardedReadsSucceed`, `RoundTrip` |
| `display_channel_event_STAYS` | who leaves stays in the list of users | `WindowFollowsRoom` |
| `Answer_FORGETS`, `Answer_STAYS_OUT` | no login after the account was created; no joining of the room asked for | `LoginTakesTurns`, `GetsIn` |
| `PressBackspace_KEEPS`, `PressWord_LATE` | the character erased stays in the text; the full buffer noticed one character late | `LinesAreTyped`, `ClientTypeOK` |
| `LosesNew_CLOSES_FIRST` | a lost session closed before it is unlisted | `HandlerClosesAll` |
| `list_remove_value_FORGETS`, `Unlink_SKIPS` | nothing removed; the node after it removed too | `EachOnce`, `ListKeepsPromise` |
| `IsWhole_ANY`, `IsMark_ANY` | a short read accepted; any byte as header | `ReadsWereSent`, `CutsCostOne` |

## 4. What is proved

For any sets of sessions, names, passwords, rooms and descriptors, finite or not,
from `NullAssumption` and `NamesAssumption` alone:

* `ServerProofs`: `Invariance` proves the inductive invariant
  `IInv == TypeOK /\ UsersPartition /\ OwnName /\ SnapshotStaysValid`. The conjuncts need
  each other: closing a connection removes a *name* from the table, so the
  partition survives only because each session is there under its own name
  (`OwnName`); that a session to be read is still in the table is what lets the
  handlers count on a name and a socket; and the types of the packets need them all,
  since replies go through the table by name. There is a lemma per action, and
  `Closed` and `QuietTurn` for what several share. From it: `TypeCorrect`,
  `Partitioned`, `SnapshotsValid`, `NamesUnique`, `LoginsPermanent`.
* `ServerProofs`, on the rooms: `RInv` strengthens `RoomsMatchSessions` to what is inductive in
  the presence of left-over sessions, on top of `IInv`; `RoomsMatch` follows, and
  `BroadcastsReachRooms` for the packets each action writes: these go to everybody in the
  room and to left-over sessions, and a descriptor leads to one client at a time
  (`OwnLine`); `AccountsBeforeLogins`, from the invariant that only legal names
  get accounts, and `RepliesFindSender`: a reply is addressed to a name, and by
  `UsersPartition` and `OwnName` the table has the sender under it.
* `ServerProofs`, last part: `ServerImplementsPresence`, the refinement. `RInv` says where each
  session sits in the rooms' tables, `OwnName` that a name leads to one session: together
  they turn "written to every session in the table" into "heard at the client of every name
  in the room", and what else is written to is a lost name's session, whose descriptor
  leads to one client at most: so there is an injection from the strangers that hear to
  the names lost in the room (`HeardByAudience`, and `EventHeard` on the tables before,
  between and after the moves of one command). `ThenSilence` and `ThenNews` find the one or two room
  events among a command's packets, in order. Then there is a lemma per kind of step,
  and `PlacesAssumption` is added: "offline" and "lobby" are not names of rooms.
* `ChatProofs`: `ChatImplementsServer`, every step of the composition is one of `Server` or
  invisible to it, from the invariant that a client with a packet under way has
  answered the prompts; `ChatImplementsPresence` puts the two refinements together.
  `ClientsTyped` follows the buffer's location, and how far anything is stored, through every
  key of a burst.
  `LoginsTakeTurns` comes from `LInv == ClientTypes /\ CallerWaits /\ NothingSaid /\ AllTurns`:
  `AllTurns` says of *both* queues of a connection what `LoginTakesTurns` says of the
  packets of the login in them, and adds where a packet of the login may stand among
  the others; `NothingSaid` is the start of it, since a descriptor's new connection must
  find empty queues. The steps that matter are the ones of other clients: what they
  make the server write to this one is never a packet of a login.
  `LinesTyped` is the input line's theorem, for sequences of keys of any length and any size of
  the buffer, from `KeysAssumption` and `RoomAssumption`. `EachKey` says what one key does:
  it hands out a line, or goes on with this one. Then `Standing(p, d, keys, i, k)` says what a
  buffer with `d` words means after key `k` of a line that began at `i`: `p` gives the keys of
  those words in their order, they are all the words that stand, and behind the `n`th of
  them the words outnumber the backspaces by `d - n`. The last part makes it inductive: the
  next backspace takes the last word away and leaves the others standing (`WordErased`), one
  at the line's beginning changes nothing (`NothingToErase`), and a word stands itself
  (`WordStands`). `Holds` adds that the text spells those words once something was typed; `HoldsAll` carries it along the keys from one line handed out to
  the next, `EndsAsMeant` is what the last key makes of it.
* `ChatWindowProofs`: `WindowsFollow`. A client's window *settled* (everything under way to
  it read) is a function along its queue. `WInv` says that this is the room's table, for
  a client that is watching; each packet added at the queue's end changes it as the
  step changes the table, and reading one at the front does not change it. That a
  client hears of a session at most once per step, and which packets come between the
  channel and the join, is where the order of the writes enters. It rests on the
  invariants of all the modules before it.
* `RegistryProofs`: `LockExcludes`, for any set of signals, from the invariant that
  relates the frames of the stack to the lock. `ListsKeepPromises`: every sequence of
  operations, of any length, on a list whose nodes form a chain (`Held`), with values other
  than the null pointer, leaves and returns what list.h says; by induction over the operations, from a lemma per operation about
  chains (`Chain`: distinct nodes, linked one to the next, the last to none). Then
  `RInv == IInv /\ Frozen /\ Registers /\ Closed` for the server: list and table and the
  session the main loop is carrying are the open sockets, disjoint; a frame that is
  interrupted never runs again, so neither changes under a handler; what the handler
  on top has closed is open, and nothing is left when it exits. From it
  `HandlerClosesAllOpen`, `SessionsRegisteredOnce`, `NewUsersKeepPromise`, and
  `ServerLockExcludes` for the lock in the whole.
* `TableListProofs`: `ListTyped`, `OneNodePerKey`, and `ListIsMap`: every step of the linked list is
  the map's step of the same name (the refinement), for any keys and values.
* `WireProofs`, from `SizesAssumption` (the first block is a power of two below `2^WIDTH`, which
  two bytes hold) and `FieldsAssumption` (what fields and reads there are), for any number
  of packets: `IInv == Sends /\ Receives`. `Sends` says that a block's size is a power of two, so
  that doubling it gives the next one or nothing, that the length counts the bytes, and
  that the data of every packet, sent or under construction, is its fields laid one after
  the other. From it `WritesStayInBounds` and `GuardedReads`, without a condition on the data.
  What arrives needs one, `Aligned`: no body has been cut by a short read yet, or no byte of
  the data is 0xFF (the run `wire_resync` shows why). Then `InStep` gives a place in the stream for every packet,
  those already read included, at negative places: the next one starts as many bytes
  before the first unread byte as `read_buffer` has taken of it, or behind bytes none of
  which is a header, when the packet before was cut. `Matched` maps the packets read to
  the packets sent, and `Held` says that the handler's position is where the next field
  lies as long as it has read what was written. `StaysInStep` proves them together, and
  from it `ReadsSent`, `OneCutOnePacket` and `FieldsRoundTrip`. A packet's code stands for its
  number there, and is not cut to a byte.
* `AccountsProofs`, from `LengthsAssumption` (names and hashes are no longer than the code
  allows) and `CharactersAssumption` (no semicolon or newline in a name, none among the
  digits; the value for "nothing" is not a text), for any names, hashes and lengths, a file
  of any length, and any number of records cut short anywhere. `ReadingOn` says that the
  lines of a file with more behind
  it are the lines of the file, read on; `RecordKept` that a record behind lines that are
  over becomes one line, or a full buffer and a line with nothing but the newline when
  its name is as long as allowed; `RecordRead` what `find_account` takes from either.
  The invariant is `AInv == KInv /\ TInv`. `KInv` is about whoever is kept: the first line
  with the name records its hash and is over (`Stands`, `Over`), so that nothing appended,
  torn or whole, changes it or comes before it (`OverStays`, `StandsOn`); a record appended
  at the start of a line, for a name that was searched for and not found, stands
  (`RecordStands`), and what stands is what the search finds (`StandingIsFound`).
  `TInv` says that until a record is torn the file is made of records (`Rows`), the last
  line over (`Ended`: without that a record would continue the line before), one per name
  (`Once`). Two records of one name are excluded because the name was searched for in the
  same file that is then appended to. From `KInv` comes `KeptAccountsStay`, from `TInv`
  come `RecordsAreRead` and `NamesAreUnique`.
* `Recursion` has what the others need of numbers: the library's induction takes a predicate,
  which the provers cannot instantiate, so the same facts are stated with a set (of the
  numbers that have the property) and with a function; `RecursiveFunction`, `PassedOn` and
  `SameRun` are what is used of functions defined by recursion.

Every safety invariant and action property of the passing runs is stated by one of these
theorems. Only model-checked: `NobodyStarves`, `GetsIn` and `ExitsUnlessStuck`; liveness under
fairness is beyond the prover.

## 5. What is not modelled

* Partial writes: a packet is written whole or not yet. The server's own model lets a
  write complete at once; `Chat` has the writes that block.
* Time: the keepalive may happen whenever nothing is waiting.
* Of the client: `SID_ROOM_LIST` and unknown packets, which this server never sends; the
  server's token and the hashes; the size of the buffer for the join command; and whose the byte is
  that lies behind the input line. Of the display: windows,
  colours, scrolling and texts of ncurses.
* Memory: packets nobody destroys, a list node allocated too small; `malloc` failing
  ends the process like any other `Die`.
* `accept` that fails: the session with socket -1 it would leave behind (server.c:789-793).
* Hashing (password.c and the SHA-1 behind it), tokens, addresses, the format of texts;
  `room_set_topic`, `room_packet` and `room_destroy` have no caller in the programs.
* The commands that user.txt explains and server.c does not have (`/tell`, `/bye`,
  `/newroom`, `/member`, `/logout`): they are answered like any unknown one (`ReplyOnly`).
* `udp.c` and `nc.c`, two stand-alone experiments; printing for debugging.

## 6. Plan

1. *Done*: `Table`, `Server`, `Presence` with the proofs, the refinement among them;
   `TableList` with its refinement proof; `Signals`, `NodeList` and `Registry`; `Accounts`;
   `PacketBuffer` and `Wire`; `InputLine` and `Chat` with the proof that the clients change
   nothing for the server.
2. *Done*: the clients' turns and windows, the list's operations and the two registers as
   theorems.
3. *Done*: packets as theorems, from the lengths that wrap to what arrives and what is read
   from it.
4. *Done*: the accounts file as theorems, from a lemma about the lines of a file with one
   record more.
5. *Done*: the input line as typed, for any sequence of keys, as a theorem.
