------------------------------- MODULE Table -------------------------------
(***************************************************************************)
(* What table.c promises its callers: a table_t is a map from keys to      *)
(* non-NULL pointers.  table_find answers NULL for a key that is absent,   *)
(* so a table is a total function whose value is NULL at absent keys.      *)
(* TableList models the linked list behind it and implements this map.     *)
(***************************************************************************)
CONSTANT NULL

(* An empty table over the keys K. *)
table_create(K) == [k \in K |-> NULL]

(* Adds key |-> value; the value of a key already there is replaced. *)
table_add(table, key, value) == [table EXCEPT ![key] = value]

table_find(table, key) == table[key]

(* Removes the key; nothing happens if it is absent. *)
table_remove(table, key) == [table EXCEPT ![key] = NULL]

(* The keys and the values present; the code returns them in an order its  *)
(* header says nobody may rely on.                                         *)
get_keys(table)   == {k \in DOMAIN table : table[k] # NULL}
get_values(table) == {table[k] : k \in get_keys(table)}
=============================================================================
