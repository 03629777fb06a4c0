------------------------------ MODULE Registry ------------------------------
(***************************************************************************)
(* The server's two registers of sessions, the list new_users and the      *)
(* table old_users, as the main loop moves sessions through them and as    *)
(* die_gracefully finds them when a signal interrupts it.  The lock, the   *)
(* call stack and the handler's steps are those of Signals; the list is    *)
(* that of list.c.                                                         *)
(***************************************************************************)
EXTENDS Signals, NodeList

CONSTANT Sessions    \* user_t objects; a socket each

ASSUME SessionsAssumption == NONE \notin Sessions

VARIABLES
  new_users,   \* the list
  old_users,   \* the sessions in the table; changed by one pointer each time
  open,        \* the sessions whose socket is open
  task,        \* what the main loop is in the middle of, and with whom
  closed       \* the sockets handlers have closed

rvars == <<new_users, old_users, open, task, closed>>

(* "list", "add", "login" and "drop" are to call the list next; "store" is *)
(* to call table_add, "close" to close the socket.                         *)
Task(kind, who) == [kind |-> kind, who |-> who]
NoTask   == Task("none", NONE)
OnList   == {"list", "add", "login", "drop"}
InList(u) == list_contains(new_users, u)
Looping  == At("away") /\ task = NoTask

Init_Registry ==
  /\ Init
  /\ new_users = list_create
  /\ old_users = {} /\ open = {} /\ closed = {}
  /\ task = NoTask

(* do_select copies the list before it waits. *)
Copies ==
  /\ Looping
  /\ task' = Task("list", NONE)
  /\ UNCHANGED <<vars, new_users, old_users, open, closed>>

(* accept and create_user. *)
Accepts(u) ==
  /\ Looping
  /\ u \notin open /\ HasMemory(new_users)
  /\ open' = open \cup {u}
  /\ task' = Task("add", u)
  /\ UNCHANGED <<vars, new_users, old_users, closed>>

(* A login succeeds: from the list to the table. *)
LogsIn(u) ==
  /\ Looping /\ InList(u)
  /\ task' = Task("login", u)
  /\ UNCHANGED <<vars, new_users, old_users, open, closed>>

(* A connection is lost: out of the list or the table, then closed. *)
LosesNew_CLOSES_FIRST(u) ==
  /\ Looping /\ InList(u)
  /\ task' = Task("drop", u)
  /\ open' = open \ {u}
  /\ UNCHANGED <<vars, new_users, old_users, closed>>
LosesNew(u) ==
  /\ Looping /\ InList(u)
  /\ task' = Task("drop", u)
  /\ UNCHANGED <<vars, new_users, old_users, open, closed>>

LosesOld(u) ==
  /\ Looping /\ u \in old_users
  /\ old_users' = old_users \ {u}
  /\ task' = Task("close", u)
  /\ UNCHANGED <<vars, new_users, open, closed>>

(* The operation on the list, from the lock to its release. *)
CallsList ==
  /\ task.kind \in OnList
  /\ Call
  /\ UNCHANGED rvars

AfterOperation ==
  CASE task.kind = "add"   -> list_add_end(new_users, task.who)
    [] task.kind \in {"login", "drop"} -> list_remove_value(new_users, task.who)
    [] task.kind = "list"  -> new_users

NextTask ==
  CASE task.kind = "login" -> Task("store", task.who)
    [] task.kind = "drop"  -> Task("close", task.who)
    [] OTHER               -> NoTask

MainUnlocks ==
  /\ Top.who = Main
  /\ Unlock
  /\ new_users' = AfterOperation
  /\ task' = NextTask
  /\ UNCHANGED <<old_users, open, closed>>

Stores ==
  /\ At("away") /\ task.kind = "store"
  /\ old_users' = old_users \cup {task.who}
  /\ task' = NoTask
  /\ UNCHANGED <<vars, new_users, open, closed>>

Closes ==
  /\ At("away") /\ task.kind = "close"
  /\ open' = open \ {task.who}
  /\ task' = NoTask
  /\ UNCHANGED <<vars, new_users, old_users, closed>>

(* The handler has its copy of the list, and closes what is in it and in   *)
(* the table, which it reads without a lock.                               *)
HandlerUnlocks ==
  /\ Top.who # Main
  /\ Unlock
  /\ closed' = closed \cup ToSet(list_get_array(new_users)) \cup old_users
  /\ UNCHANGED <<new_users, old_users, open, task>>

Locks == (TestLock \/ TakeLock) /\ UNCHANGED rvars
Exits == Exit /\ UNCHANGED rvars

Step_Registry ==
  \/ CallsList \/ Locks \/ MainUnlocks \/ HandlerUnlocks \/ Exits
  \/ Stores \/ Closes

Next_Registry ==
  \/ Step_Registry
  \/ Copies
  \/ \E u \in Sessions : Accepts(u) \/ LogsIn(u) \/ LosesNew(u) \/ LosesOld(u)
  \/ \E s \in Caught : Signal(s) /\ UNCHANGED rvars

(* The thread keeps running: it finishes what it began. *)
RegistrySpec ==
  Init_Registry /\ [][Next_Registry]_<<vars, rvars>> /\ WF_<<vars, rvars>>(Step_Registry)

(***************************************************************************)
(* Properties                                                              *)
(***************************************************************************)

(* die_gracefully closes the sockets of the sessions in the list and the   *)
(* table.  Wherever the signal strikes, when it is ready to exit it has    *)
(* closed every open socket but that of the one session the main loop was  *)
(* moving, and none that the main loop had closed before.                  *)
HandlerClosesAll ==
  /\ closed \subseteq open
  /\ Top.who # Main /\ At("exit") => open \ closed \subseteq {task.who}

(* A session is in the list or the table, never in both, and once in the   *)
(* list; which of them are open is what is in them or being moved.         *)
Registered == ToSet(list_get_array(new_users)) \cup old_users
EachOnce ==
  /\ \A u \in Sessions : InList(u) => u \notin old_users
  /\ IsInjective(list_get_array(new_users))
  /\ Registered \subseteq open
  /\ open \subseteq Registered \cup {task.who}
=============================================================================
