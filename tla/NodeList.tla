------------------------------ MODULE NodeList ------------------------------
(***************************************************************************)
(* The linked list of list.c, pointer by pointer.  Each operation runs     *)
(* under the list's lock and is one operator here, on the record of the    *)
(* list's memory; Registry has the lock and who waits for it.              *)
(***************************************************************************)
EXTENDS SequencesExt, Integers

CONSTANTS
  Nodes,    \* where malloc can put a list_member_t
  NONE      \* the null pointer, and the value of an absent element

ASSUME NodesAssumption == IsFiniteSet(Nodes) /\ NONE \notin Nodes

(* "used" are the nodes allocated and not freed. *)
list_create ==
  [first |-> NONE, next |-> [n \in Nodes |-> NONE], value |-> [n \in Nodes |-> NONE], used |-> {}]

(***************************************************************************)
(* Walking the list: the nodes from the first up to the null pointer.  A   *)
(* chain that does not end is cut when it is longer than the memory.       *)
(***************************************************************************)
Path(l) ==
  LET after[i \in 0..Cardinality(Nodes)] ==
        IF i = 0 THEN l.first ELSE IF after[i - 1] = NONE THEN NONE ELSE l.next[after[i - 1]]
  IN  [i \in {j \in 1..(Cardinality(Nodes) + 1) : after[j - 1] # NONE} |-> after[i - 1]]

list_get_array(l) == LET path == Path(l) IN [i \in DOMAIN path |-> l.value[path[i]]]
list_get_count(l) == Len(Path(l))
list_contains(l, v) == \E i \in DOMAIN list_get_array(l) : list_get_array(l)[i] = v
list_get_element(l, num) ==
  IF num < list_get_count(l) THEN list_get_array(l)[num + 1] ELSE NONE

(***************************************************************************)
(* Changing it                                                             *)
(***************************************************************************)
HasMemory(l) == l.used # Nodes
Malloc(l)    == CHOOSE n \in Nodes \ l.used : TRUE
Free(l, n)   == [l EXCEPT !.used = @ \ {n}]

(* The pointer that leads to the i-th node of the path is set to n. *)
Point(l, path, i, n) ==
  IF i = 1 THEN [l EXCEPT !.first = n] ELSE [l EXCEPT !.next[path[i - 1]] = n]

(* A new node, with the node after it. *)
NewNode(l, n, v, after) ==
  [l EXCEPT !.value[n] = v, !.next[n] = after, !.used = @ \cup {n}]

list_add_beginning(l, v) ==
  LET n == Malloc(l) IN [NewNode(l, n, v, l.first) EXCEPT !.first = n]

list_add_end(l, v) ==
  LET n == Malloc(l) IN Point(NewNode(l, n, v, NONE), Path(l), Len(Path(l)) + 1, n)

(* Taking the i-th node out leaves it allocated; the callers free it or    *)
(* forget it.                                                              *)
Unlink_SKIPS(l, path, i) == Point(l, path, i, IF i < Len(path) THEN l.next[path[i + 1]] ELSE NONE)
Unlink(l, path, i) == Point(l, path, i, l.next[path[i]])

list_remove_beginning(l) ==
  IF l.first = NONE THEN l ELSE Free(Unlink(l, Path(l), 1), l.first)

list_remove_end(l) ==
  LET path == Path(l)
  IN  IF path = << >> THEN l
      ELSE Free(Point(l, path, Len(path), NONE), path[Len(path)])

(* By value: the first node that holds it, which is never freed.  The walk *)
(* ends when it has something to return, so for the null pointer it takes  *)
(* one node after the other out, through the node before it, which may be  *)
(* out already.                                                            *)
list_remove_value_FORGETS(l, v) == l
list_remove_value(l, v) ==
  LET path == Path(l)
      at   == {i \in DOMAIN path : l.value[path[i]] = v}
      walked[i \in 0..Len(path)] ==
        IF i = 0 THEN l ELSE IF i \in at THEN Unlink(walked[i - 1], path, i) ELSE walked[i - 1]
  IN  IF at = {} THEN l
      ELSE IF v = NONE THEN walked[Len(path)]
      ELSE Unlink(l, path, CHOOSE i \in at : \A j \in at : i <= j)

(* By index: the first node is never freed either. *)
list_remove_element(l, num) ==
  LET path == Path(l)
  IN  IF num >= Len(path) THEN l
      ELSE IF num = 0 THEN Unlink(l, path, 1)
      ELSE Free(Unlink(l, path, num + 1), path[num + 1])

(* Frees every node of the chain, and the list with them. *)
list_destroy(l) == [l EXCEPT !.used = @ \ ToSet(Path(l))]

(***************************************************************************)
(* What list.h promises, on sequences of values                            *)
(***************************************************************************)
Op(name, arg) == [name |-> name, arg |-> arg]

Do(l, op) ==
  CASE op.name = "add_beginning"    -> list_add_beginning(l, op.arg)
    [] op.name = "add_end"          -> list_add_end(l, op.arg)
    [] op.name = "remove_beginning" -> list_remove_beginning(l)
    [] op.name = "remove_end"       -> list_remove_end(l)
    [] op.name = "remove_value"     -> list_remove_value(l, op.arg)
    [] op.name = "remove_element"   -> list_remove_element(l, op.arg)

(* The value an operation returns; an add returns none. *)
Returned(l, op) ==
  LET path == Path(l)
  IN  CASE op.name = "remove_beginning" -> IF l.first = NONE THEN NONE ELSE l.value[l.first]
        [] op.name = "remove_end"   -> IF path = << >> THEN NONE ELSE l.value[path[Len(path)]]
        [] op.name = "remove_value" -> IF list_contains(l, op.arg) THEN op.arg ELSE NONE
        [] op.name = "remove_element" -> list_get_element(l, op.arg)
        [] OTHER -> NONE

(* A promise: what is in the list, and how many nodes were forgotten. *)
Promise(items, lost) == [items |-> items, lost |-> lost]

Promised(p, op) ==
  CASE op.name = "add_beginning" -> Promise(<< op.arg >> \o p.items, p.lost)
    [] op.name = "add_end"       -> Promise(Append(p.items, op.arg), p.lost)
    [] op.name = "remove_value"  ->
         Promise(RemoveFirst(p.items, op.arg), IF Contains(p.items, op.arg) THEN p.lost + 1 ELSE p.lost)
    [] op.name = "remove_beginning" -> IF p.items = << >> THEN p ELSE Promise(Tail(p.items), p.lost)
    [] op.name = "remove_end"       -> IF p.items = << >> THEN p ELSE Promise(Front(p.items), p.lost)
    [] op.name = "remove_element"   ->
         IF op.arg >= Len(p.items) THEN p
         ELSE Promise(RemoveAt(p.items, op.arg + 1), IF op.arg = 0 THEN p.lost + 1 ELSE p.lost)

(* A removal returns what it removes, or the null pointer. *)
ReturnPromised(p, op) ==
  CASE op.name = "remove_beginning" -> IF p.items = << >> THEN NONE ELSE Head(p.items)
    [] op.name = "remove_end"       -> IF p.items = << >> THEN NONE ELSE Last(p.items)
    [] op.name = "remove_value"     -> IF Contains(p.items, op.arg) THEN op.arg ELSE NONE
    [] op.name = "remove_element"   -> IF op.arg >= Len(p.items) THEN NONE ELSE p.items[op.arg + 1]
    [] OTHER -> NONE

(* An add needs a node of its own.                                         *)
Adding == {"add_beginning", "add_end"}

(* The list forgets a node when it neither reaches nor frees it.           *)
Lost(l) == Cardinality(list_destroy(l).used)

(* It holds what was promised, reading it touches no freed node, and       *)
(* nothing was forgotten but what removals by value or of the first        *)
(* element forget.                                                         *)
Keeps(l, p) ==
  /\ list_get_array(l) = p.items
  /\ ToSet(Path(l)) \subseteq l.used
  /\ Lost(l) = p.lost
  /\ \A num \in 0..Len(p.items) :
       list_get_element(l, num) = IF num < Len(p.items) THEN p.items[num + 1] ELSE NONE

(* So it is after these operations, if there was memory for them, and each *)
(* of them returned what was promised.                                     *)
Both(b, op) == [list |-> Do(b.list, op), promise |-> Promised(b.promise, op)]

KeepsPromise(list, ops) ==
  LET start == [list |-> list, promise |-> Promise(list_get_array(list), Lost(list))]
      after[i \in 0..Len(ops)] == IF i = 0 THEN start ELSE Both(after[i - 1], ops[i])
      HadMemory == \A i \in 1..Len(ops) : ops[i].name \in Adding => HasMemory(after[i - 1].list)
  IN  HadMemory =>
        /\ Keeps(after[Len(ops)].list, after[Len(ops)].promise)
        /\ \A i \in 1..Len(ops) :
             Returned(after[i - 1].list, ops[i]) = ReturnPromised(after[i - 1].promise, ops[i])
=============================================================================
