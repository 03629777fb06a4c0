------------------------------ MODULE TableMap ------------------------------
(***************************************************************************)
(* A table as its callers see it: the map of Table with the results its    *)
(* operations return.  TableList implements it with a linked list.         *)
(***************************************************************************)
EXTENDS Table, FiniteSets

CONSTANTS Keys, Values

VARIABLES
  table,    \* key |-> value, NULL where absent
  ret,      \* the pointer the last table_find or table_remove returned
  listed,   \* what the last get_keys or get_values listed
  count     \* the number that came with it, or from table_get_count

mvars == <<table, ret, listed, count>>

MInit ==
  /\ table = table_create(Keys)
  /\ ret = NULL /\ listed = {} /\ count = 0

MAdd(k, v) ==
  /\ table' = table_add(table, k, v)
  /\ UNCHANGED <<ret, listed, count>>

MFind(k) ==
  /\ ret' = table_find(table, k)
  /\ UNCHANGED <<table, listed, count>>

MRemove(k) ==
  /\ ret' = table_find(table, k)
  /\ table' = table_remove(table, k)
  /\ UNCHANGED <<listed, count>>

(* There are as many keys and as many values as the count says: one per    *)
(* key that is present.                                                    *)
MList(what) ==
  /\ listed' = what
  /\ count' = Cardinality(get_keys(table))
  /\ UNCHANGED <<table, ret>>

MClear ==
  /\ table' = table_create(Keys)
  /\ UNCHANGED <<ret, listed, count>>

MNext ==
  \/ \E k \in Keys : MFind(k) \/ MRemove(k) \/ \E v \in Values : MAdd(k, v)
  \/ MList(get_keys(table)) \/ MList(get_values(table)) \/ MList(listed)
  \/ MClear

MSpec == MInit /\ [][MNext]_mvars
=============================================================================
