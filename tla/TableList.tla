----------------------------- MODULE TableList -----------------------------
(***************************************************************************)
(* table.c: a table_t is a linked list of nodes, searched from the front.  *)
(* Here it is the sequence of its nodes.                                   *)
(***************************************************************************)
EXTENDS Integers, Sequences

CONSTANTS Keys, Values, NULL

ASSUME NullAssumption == NULL \notin Values

VARIABLES
  first,   \* the nodes, in the order of the list
  ret,     \* the pointer the last table_find or table_remove returned
  array,   \* the array the last get_keys or get_values returned
  count    \* its length, or the last table_get_count

vars == <<first, ret, array, count>>

Nodes == [key : Keys, value : Values]
Node(k, v) == [key |-> k, value |-> v]

(* The walk that stops at the first node with the key. *)
Has(list, k)   == \E i \in DOMAIN list : list[i].key = k
Place(list, k) == CHOOSE i \in DOMAIN list :
                    list[i].key = k /\ \A j \in 1..(i-1) : list[j].key # k

table_find_KEY(list, k) == IF Has(list, k) THEN list[Place(list, k)].key ELSE NULL
table_find(list, k) == IF Has(list, k) THEN list[Place(list, k)].value ELSE NULL

table_add_APPENDS(list, k, v) == Append(list, Node(k, v))
table_add(list, k, v) ==
  IF Has(list, k) THEN [list EXCEPT ![Place(list, k)].value = v]
  ELSE Append(list, Node(k, v))

(* The node before the one found is linked to the one after it. *)
Unlink_CUTS(list, i) == SubSeq(list, 1, i - 1)
Unlink(list, i) ==
  [j \in 1..(Len(list) - 1) |-> IF j < i THEN list[j] ELSE list[j + 1]]

table_remove(list, k) == IF Has(list, k) THEN Unlink(list, Place(list, k)) ELSE list

get_keys(list)   == [i \in DOMAIN list |-> list[i].key]
get_values(list) == [i \in DOMAIN list |-> list[i].value]

Init == first = << >> /\ ret = NULL /\ array = << >> /\ count = 0

Add(k, v) ==
  /\ first' = table_add(first, k, v)
  /\ UNCHANGED <<ret, array, count>>

Find(k) ==
  /\ ret' = table_find(first, k)
  /\ UNCHANGED <<first, array, count>>

Remove(k) ==
  /\ ret' = table_find(first, k)
  /\ first' = table_remove(first, k)
  /\ UNCHANGED <<array, count>>

(* get_keys and get_values count the nodes in a first walk and copy them   *)
(* in a second; table_get_count only counts.                               *)
Collect(what) ==
  /\ array' = what
  /\ count' = Len(first)
  /\ UNCHANGED <<first, ret>>

(* table_destroy, and a new table in its place. *)
Clear ==
  /\ first' = << >>
  /\ UNCHANGED <<ret, array, count>>

Next ==
  \/ \E k \in Keys : Find(k) \/ Remove(k) \/ \E v \in Values : Add(k, v)
  \/ Collect(get_keys(first)) \/ Collect(get_values(first)) \/ Collect(array)
  \/ Clear

Spec == Init /\ [][Next]_vars

(***************************************************************************)
(* Properties                                                              *)
(***************************************************************************)

(* Every variable stays in its type.                                       *)
TypeOK ==
  /\ first \in Seq(Nodes)
  /\ ret \in Values \cup {NULL}
  /\ array \in Seq(Keys \cup Values)
  /\ count \in Nat

(* table.c keeps one node per key by searching before it appends; remove   *)
(* stops at the first node it finds, so a second one would come to light   *)
(* as a user who cannot be removed from a room.                            *)
KeysUnique == \A i, j \in DOMAIN first : first[i].key = first[j].key => i = j

(* The map the list stands for, and the sets its arrays list. *)
AsMap == [k \in Keys |-> table_find(first, k)]
M == INSTANCE TableMap WITH
       table <- AsMap, listed <- {array[i] : i \in DOMAIN array}

(* table.h: adding replaces, removing takes a key away entirely, the       *)
(* arrays list every key present once, and table_get_count counts them.    *)
ImplementsMap == M!MSpec
=============================================================================
