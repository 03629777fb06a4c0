------------------------------ MODULE Signals ------------------------------
(***************************************************************************)
(* The lock of list.c and the signal handler of server.c.  The server has  *)
(* one thread, but die_gracefully may interrupt it anywhere, inside an     *)
(* operation on new_users too, and takes the lock of that list itself.     *)
(*                                                                         *)
(* The call stack is a sequence of frames; only the last one runs.  A      *)
(* handler never returns to what it interrupted: it exits or aborts.  What *)
(* the operations do to the list is added by Registry.                     *)
(***************************************************************************)
EXTENDS Integers, Sequences

CONSTANTS
  Main,      \* the main loop, the frame at the bottom
  Caught     \* the signals main installs die_gracefully for

ASSUME MainAssumption == Main \notin Caught

VARIABLES
  stack,     \* the frames: who runs and where it is
  locked,    \* new_users->locked
  handled,   \* signals delivered once: the next one has its default action
  running    \* the process is alive

vars == <<stack, locked, handled, running>>

Frame(who, pc) == [who |-> who, pc |-> pc]
Depth    == Len(stack)
Top      == stack[Depth]
At(pc)   == running /\ Top.pc = pc
Goto(pc) == stack' = [stack EXCEPT ![Depth].pc = pc]

Init ==
  /\ stack = << Frame(Main, "away") >>
  /\ locked = FALSE
  /\ handled = {}
  /\ running = TRUE

(* The main loop calls list_add_end, list_remove_value or list_get_array. *)
Call ==
  /\ At("away")
  /\ Goto("lock")
  /\ UNCHANGED <<locked, handled, running>>

(* list_lock: the busy wait ends when the flag is found clear, and only    *)
(* then is the flag set.  While the flag is set the frame spins.           *)
LockSeen_BLIND == TRUE
LockSeen == ~locked

TestLock ==
  /\ At("lock") /\ LockSeen
  /\ Goto("take")
  /\ UNCHANGED <<locked, handled, running>>

TakeLock ==
  /\ At("take")
  /\ locked' = TRUE
  /\ Goto("inside")
  /\ UNCHANGED <<handled, running>>

(* The operation is over: list_unlock.  The main loop goes on; a handler   *)
(* closes the sockets of the list it got and of the authenticated users.   *)
Unlocked_FORGETS == locked
Unlocked == FALSE

Unlock ==
  /\ At("inside")
  /\ locked' = Unlocked
  /\ Goto(IF Top.who = Main THEN "away" ELSE "exit")
  /\ UNCHANGED <<handled, running>>

(* display_error waits for a key and calls exit; or abort. *)
Exit ==
  /\ At("exit")
  /\ running' = FALSE
  /\ UNCHANGED <<stack, locked, handled>>

(* A signal interrupts whatever runs.  The makefile asks for strict C89    *)
(* with _POSIX_SOURCE, where signal() resets a signal to its default when  *)
(* it is delivered: the same signal again ends the process at once.        *)
Signal(s) ==
  /\ running
  /\ \/ /\ s \notin handled
        /\ handled' = handled \cup {s}
        /\ stack' = Append(stack, Frame(s, "lock"))
        /\ UNCHANGED running
     \/ /\ s \in handled
        /\ running' = FALSE
        /\ UNCHANGED <<stack, handled>>
  /\ UNCHANGED locked

Step == Call \/ TestLock \/ TakeLock \/ Unlock \/ Exit

Next == Step \/ \E s \in Caught : Signal(s)

(* The thread keeps running, and somebody presses the key display_error    *)
(* waits for.                                                              *)
Spec == Init /\ [][Next]_vars /\ WF_vars(Step)

(***************************************************************************)
(* Properties                                                              *)
(***************************************************************************)

(* list.c: the flag keeps the users of the list apart.  It is tested and   *)
(* set in two steps ("isn't immune to race conditions"), yet two frames    *)
(* are never inside together: an interrupted frame does not run again.     *)
Inside(i) == stack[i].pc = "inside"
OneInside == \A i, j \in 1..Depth : Inside(i) /\ Inside(j) => i = j

(* The process is lost only by waiting for a lock held further down its    *)
(* own stack: in every other case a signal ends it, and while it spins,    *)
(* somebody below really is inside.                                        *)
Stuck == locked /\ Top.pc = "lock" /\ \E i \in 1..(Depth - 1) : Inside(i)
ExitsUnlessStuck == Depth > 1 ~> ~running \/ Stuck

(* server.c on die_gracefully: "When any of them occurs, it will display   *)
(* the fact that it happened, then clean up and exit cleanly."             *)
CleansUpAndExits == Depth > 1 ~> ~running
=============================================================================
