----------------------------- MODULE MCRegistry -----------------------------
(* Registry on a small instance, and every operation of list.c on every    *)
(* list the server comes to, MaxOps of them in a row.                      *)
EXTENDS Registry

CONSTANT MaxOps

ListOps ==
  {Op(name, v) : name \in Adding \cup {"remove_value"}, v \in Sessions}
    \cup {Op("remove_beginning", NONE), Op("remove_end", NONE)}
    \cup {Op("remove_element", num) : num \in 0..3}

(* Each list is looked at where nothing else is going on.                  *)
Quiet == stack = << Frame(Main, "away") >> /\ task = NoTask /\ running

(* list.c: whatever is done to new_users, it holds and returns what list.h *)
(* promises, and no freed node is reached again.  The values are sessions: *)
(* of the null pointer, list_remove_value does not keep the promise.       *)
ListKeepsPromise ==
  Quiet => \A n \in 0..MaxOps : \A ops \in [1..n -> ListOps] : KeepsPromise(new_users, ops)
=============================================================================
