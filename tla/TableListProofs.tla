-------------------------- MODULE TableListProofs --------------------------
(***************************************************************************)
(* For any keys and values: one node per key, and the list is a map.       *)
(***************************************************************************)
EXTENDS TableList, SequenceTheorems, FiniteSetTheorems, TLAPS

(* No two nodes of a list have the same key: KeysUnique, of any list. *)
Unique(list) == \A i, j \in DOMAIN list : list[i].key = list[j].key => i = j

(* What the walk finds in such a list, by the place of the node.           *)
LEMMA FoundAt ==
  ASSUME NEW list \in Seq(Nodes), Unique(list), NEW i \in DOMAIN list
  PROVE  /\ Has(list, list[i].key)
         /\ Place(list, list[i].key) = i
         /\ table_find(list, list[i].key) = list[i].value
<1> DEFINE k == list[i].key
           First(p) == list[p].key = k /\ \A j \in 1..(p-1) : list[j].key # k
<1>0. DOMAIN list = 1..Len(list) /\ Len(list) \in Nat
  OBVIOUS
<1>1. First(i)
  <2>1. ASSUME NEW j \in 1..(i-1), list[j].key = k PROVE FALSE
    <3>1. j \in DOMAIN list /\ j # i
      BY <1>0
    <3> QED BY <3>1, <2>1 DEF Unique
  <2> QED BY <2>1
<1>2. \A p \in DOMAIN list : First(p) => p = i
  BY DEF Unique
<1>3. Place(list, k) = i
  BY <1>1, <1>2 DEF Place
<1> QED BY <1>3 DEF Has, table_find

(* Nothing is found where no node has the key.                             *)
LEMMA NotFound ==
  ASSUME NEW list, NEW k, \A i \in DOMAIN list : list[i].key # k
  PROVE  ~Has(list, k) /\ table_find(list, k) = NULL
BY DEF Has, table_find

(* The node found is one of the list's, and has the key.                   *)
LEMMA PlaceOfHas ==
  ASSUME NEW list \in Seq(Nodes), Unique(list), NEW k, Has(list, k)
  PROVE  /\ Place(list, k) \in DOMAIN list
         /\ list[Place(list, k)].key = k
<1>1. PICK i \in DOMAIN list : list[i].key = k
  BY DEF Has
<1> QED BY <1>1, FoundAt

(* table_add: a list with one node per key stays one, and finds the new    *)
(* value under the key and under every other key what it found before.     *)
LEMMA AddProperties ==
  ASSUME NEW list \in Seq(Nodes), Unique(list), NEW k \in Keys, NEW v \in Values
  PROVE  LET new == table_add(list, k, v)
         IN  /\ new \in Seq(Nodes)
             /\ Unique(new)
             /\ table_find(new, k) = v
             /\ \A m \in Keys \ {k} : table_find(new, m) = table_find(list, m)
<1> DEFINE new == table_add(list, k, v)
<1>0. DOMAIN list = 1..Len(list) /\ Len(list) \in Nat
  OBVIOUS
<1>1. CASE Has(list, k)
  <2> DEFINE p == Place(list, k)
  <2>1. p \in DOMAIN list /\ list[p].key = k
    BY <1>1, PlaceOfHas
  <2>2. new = [list EXCEPT ![p].value = v]
    BY <1>1 DEF table_add
  <2>3. DOMAIN new = DOMAIN list
    BY <2>2
  <2>4. \A i \in DOMAIN list : list[i] \in Nodes
    OBVIOUS
  <2>5. \A i \in DOMAIN list : i # p => new[i] = list[i]
    BY <2>2
  <2>6. new[p] = [list[p] EXCEPT !.value = v]
    BY <2>1, <2>2
  <2>7. new[p] \in Nodes /\ new[p].key = k /\ new[p].value = v
    BY <2>1, <2>4, <2>6 DEF Nodes
  <2>8. new \in Seq(Nodes)
    <3>1. new = [i \in 1..Len(list) |-> new[i]]
      BY <2>2, <1>0
    <3>2. \A i \in 1..Len(list) : new[i] \in Nodes
      BY <1>0, <2>4, <2>5, <2>7
    <3> HIDE DEF new
    <3>3. [i \in 1..Len(list) |-> new[i]] \in Seq(Nodes)
      BY <1>0, <3>2, IsASeq
    <3> QED BY <3>1, <3>3
  <2>9. \A i \in DOMAIN list : new[i].key = list[i].key
    BY <2>1, <2>5, <2>7
  <2> HIDE DEF new, p
  <2>10. Unique(new)
    BY <2>3, <2>9 DEF Unique
  <2>11. table_find(new, k) = v
    BY <2>1, <2>3, <2>7, <2>8, <2>10, FoundAt
  <2>12. ASSUME NEW m \in Keys \ {k} PROVE table_find(new, m) = table_find(list, m)
    <3>1. CASE Has(list, m)
      <4>1. PICK i \in DOMAIN list : list[i].key = m
        BY <3>1 DEF Has
      <4>2. i # p
        BY <4>1, <2>1
      <4>3. new[i] = list[i]
        BY <4>2, <2>5
      <4>4. table_find(list, m) = list[i].value
        BY <4>1, FoundAt
      <4>5. table_find(new, m) = new[i].value
        BY <4>1, <4>3, <2>3, <2>8, <2>10, FoundAt
      <4> QED BY <4>3, <4>4, <4>5
    <3>2. CASE ~Has(list, m)
      <4>1. \A i \in DOMAIN new : new[i].key # m
        BY <3>2, <2>3, <2>9 DEF Has
      <4> QED BY <4>1, <3>2, NotFound DEF table_find
    <3> QED BY <3>1, <3>2
  <2> QED BY <2>8, <2>10, <2>11, <2>12 DEF new
<1>2. CASE ~Has(list, k)
  <2> DEFINE n == Node(k, v)
  <2>1. new = Append(list, n)
    BY <1>2 DEF table_add
  <2>2. n \in Nodes /\ n.key = k /\ n.value = v
    BY DEF Node, Nodes
  <2> HIDE DEF new, n
  <2>3. /\ new \in Seq(Nodes)
        /\ Len(new) = Len(list) + 1
        /\ DOMAIN new = 1..(Len(list) + 1)
        /\ \A i \in DOMAIN list : new[i] = list[i]
        /\ new[Len(list) + 1] = n
    BY <2>1, <2>2
  <2>4. Unique(new)
    <3>1. \A i \in DOMAIN list : new[i].key # k
      BY <1>2, <2>3 DEF Has
    <3> QED BY <1>0, <2>2, <2>3, <3>1 DEF Unique
  <2>5. table_find(new, k) = v
    <3>1. Len(list) + 1 \in DOMAIN new
      BY <1>0, <2>3
    <3> QED BY <2>2, <2>3, <2>4, <3>1, FoundAt
  <2>6. ASSUME NEW m \in Keys \ {k} PROVE table_find(new, m) = table_find(list, m)
    <3>1. CASE Has(list, m)
      <4>1. PICK i \in DOMAIN list : list[i].key = m
        BY <3>1 DEF Has
      <4>2. i \in DOMAIN new /\ new[i] = list[i]
        BY <1>0, <2>3
      <4>3. table_find(list, m) = list[i].value
        BY <4>1, FoundAt
      <4>4. table_find(new, m) = new[i].value
        BY <4>1, <4>2, <2>3, <2>4, FoundAt
      <4> QED BY <4>2, <4>3, <4>4
    <3>2. CASE ~Has(list, m)
      <4>1. \A i \in DOMAIN list : list[i].key # m
        BY <3>2 DEF Has
      <4>2. \A i \in DOMAIN new : new[i].key # m
        BY <1>0, <2>2, <2>3, <4>1
      <4> QED BY <4>1, <4>2, NotFound
    <3> QED BY <3>1, <3>2
  <2> QED BY <2>3, <2>4, <2>5, <2>6 DEF new
<1> QED BY <1>1, <1>2

(* table_remove: the key is gone, and nothing else changes.                *)
LEMMA RemoveProperties ==
  ASSUME NEW list \in Seq(Nodes), Unique(list), NEW k \in Keys
  PROVE  LET new == table_remove(list, k)
         IN  /\ new \in Seq(Nodes)
             /\ Unique(new)
             /\ table_find(new, k) = NULL
             /\ \A m \in Keys \ {k} : table_find(new, m) = table_find(list, m)
<1> DEFINE new == table_remove(list, k)
           p == Place(list, k)
           n == Len(list)
           old(j) == IF j < p THEN j ELSE j + 1
<1>0. DOMAIN list = 1..n /\ n \in Nat
  OBVIOUS
<1>1. CASE Has(list, k)
  <2>1. p \in 1..n /\ list[p].key = k
    BY <1>0, <1>1, PlaceOfHas
  <2>2. new = [j \in 1..(n - 1) |-> IF j < p THEN list[j] ELSE list[j + 1]]
    BY <1>1 DEF table_remove, Unlink
  <2>3. n - 1 \in Nat /\ \A j \in 1..(n - 1) : old(j) \in 1..n /\ old(j) # p
    BY <1>0, <2>1
  <2>4. \A i, j \in 1..(n - 1) : old(i) = old(j) => i = j
    BY <1>0, <2>1
  <2>5. \A i \in 1..n : i # p => \E j \in 1..(n - 1) : old(j) = i
    <3> TAKE i \in 1..n
    <3> HAVE i # p
    <3>1. CASE i < p
      BY <1>0, <2>1, <3>1
    <3>2. CASE i > p
      <4>1. i - 1 \in 1..(n - 1) /\ old(i - 1) = i
        BY <1>0, <2>1, <3>2
      <4> QED BY <4>1
    <3> QED BY <1>0, <2>1, <3>1, <3>2
  <2>6. \A j \in 1..(n - 1) : new[j] = list[old(j)]
    BY <2>2
  <2>7. new \in Seq(Nodes) /\ DOMAIN new = 1..(n - 1)
    <3>1. \A j \in 1..(n - 1) : (IF j < p THEN list[j] ELSE list[j + 1]) \in Nodes
      BY <1>0, <2>3
    <3> HIDE DEF new, p, n
    <3>2. [j \in 1..(n - 1) |-> IF j < p THEN list[j] ELSE list[j + 1]] \in Seq(Nodes)
      BY <2>3, <3>1, IsASeq
    <3> QED BY <2>2, <3>2
  <2> HIDE DEF new, p, n, old
  <2>8. Unique(new)
    BY <1>0, <2>3, <2>4, <2>6, <2>7 DEF Unique
  <2>9. table_find(new, k) = NULL
    <3>1. \A j \in DOMAIN new : new[j].key # k
      <4> SUFFICES ASSUME NEW j \in 1..(n - 1) PROVE new[j].key # k
        BY <2>7
      <4>1. old(j) \in DOMAIN list /\ old(j) # p /\ p \in DOMAIN list
        BY <1>0, <2>1, <2>3
      <4>2. list[old(j)].key # list[p].key
        BY <4>1 DEF Unique
      <4> QED BY <2>1, <2>6, <4>2
    <3> QED BY <3>1, NotFound
  <2>10. ASSUME NEW m \in Keys \ {k} PROVE table_find(new, m) = table_find(list, m)
    <3>1. CASE Has(list, m)
      <4>1. PICK i \in DOMAIN list : list[i].key = m
        BY <3>1 DEF Has
      <4>2. PICK j \in 1..(n - 1) : old(j) = i
        BY <1>0, <2>1, <2>5, <4>1
      <4>3. j \in DOMAIN new /\ new[j] = list[i]
        BY <2>6, <2>7, <4>2
      <4>4. table_find(list, m) = list[i].value
        BY <4>1, FoundAt
      <4>5. table_find(new, m) = new[j].value
        BY <4>1, <4>3, <2>7, <2>8, FoundAt
      <4> QED BY <4>3, <4>4, <4>5
    <3>2. CASE ~Has(list, m)
      <4>1. \A i \in DOMAIN list : list[i].key # m
        BY <3>2 DEF Has
      <4>2. \A j \in DOMAIN new : new[j].key # m
        BY <1>0, <2>3, <2>6, <2>7, <4>1
      <4> QED BY <4>1, <4>2, NotFound
    <3> QED BY <3>1, <3>2
  <2> QED BY <2>7, <2>8, <2>9, <2>10 DEF new
<1>2. CASE ~Has(list, k)
  <2>1. new = list
    BY <1>2 DEF table_remove
  <2> QED BY <1>2, <2>1 DEF table_find
<1> QED BY <1>1, <1>2

IInv == TypeOK /\ KeysUnique

(* Every operation keeps the types and one node per key.                   *)
LEMMA Inductive == IInv /\ [Next]_vars => IInv'
<1> SUFFICES ASSUME TypeOK, Unique(first), [Next]_vars PROVE TypeOK' /\ Unique(first')
  BY DEF IInv, KeysUnique, Unique
<1> USE DEF TypeOK
<1>0. \A k \in Keys : table_find(first, k) \in Values \cup {NULL}
  <2> TAKE k \in Keys
  <2>1. CASE Has(first, k)
    <3>1. PICK i \in DOMAIN first : first[i].key = k
      BY <2>1 DEF Has
    <3>2. first[i] \in Nodes /\ table_find(first, k) = first[i].value
      BY <3>1, FoundAt
    <3> QED BY <3>2 DEF Nodes
  <2>2. CASE ~Has(first, k)
    BY <2>2 DEF table_find
  <2> QED BY <2>1, <2>2
<1>1. ASSUME NEW k \in Keys, NEW v \in Values, Add(k, v) PROVE TypeOK' /\ Unique(first')
  BY <1>1, AddProperties DEF Add
<1>2. ASSUME NEW k \in Keys, Find(k) PROVE TypeOK' /\ Unique(first')
  BY <1>0, <1>2 DEF Find
<1>3. ASSUME NEW k \in Keys, Remove(k) PROVE TypeOK' /\ Unique(first')
  BY <1>0, <1>3, RemoveProperties DEF Remove
<1>4. ASSUME array' \in Seq(Keys \cup Values), count' = Len(first), UNCHANGED <<first, ret>>
      PROVE  TypeOK' /\ Unique(first')
  BY <1>4
<1>5. /\ get_keys(first) \in Seq(Keys \cup Values)
      /\ get_values(first) \in Seq(Keys \cup Values)
  <2>1. \A i \in 1..Len(first) : first[i] \in Nodes
    OBVIOUS
  <2>2. \A i \in 1..Len(first) : /\ first[i].key \in Keys \cup Values
                                  /\ first[i].value \in Keys \cup Values
    BY <2>1 DEF Nodes
  <2>3. Len(first) \in Nat /\ DOMAIN first = 1..Len(first)
    OBVIOUS
  <2>4. [i \in 1..Len(first) |-> first[i].key] \in Seq(Keys \cup Values)
    BY <2>2, <2>3, IsASeq
  <2>5. [i \in 1..Len(first) |-> first[i].value] \in Seq(Keys \cup Values)
    BY <2>2, <2>3, IsASeq
  <2> QED BY <2>3, <2>4, <2>5 DEF get_keys, get_values
<1>6. ASSUME Collect(get_keys(first)) \/ Collect(get_values(first)) \/ Collect(array)
      PROVE  TypeOK' /\ Unique(first')
  <2>1. array' \in Seq(Keys \cup Values) /\ count' = Len(first) /\ UNCHANGED <<first, ret>>
    BY <1>5, <1>6 DEF Collect
  <2> QED BY <1>4, <2>1
<1>7. CASE Clear
  BY <1>7 DEF Clear, Unique
<1>8. CASE UNCHANGED vars
  BY <1>8 DEF vars
<1> QED BY <1>1, <1>2, <1>3, <1>6, <1>7, <1>8 DEF Next

(* The first state has the types and no node at all.                       *)
LEMMA Initial == Init => IInv
BY DEF Init, IInv, TypeOK, KeysUnique

(* The list stays one of nodes of the table, and the last call's results   *)
(* are a value or NULL, keys or values, and their number.                  *)
THEOREM ListTyped == Spec => []TypeOK
<1>1. IInv => TypeOK
  BY DEF IInv
<1> QED BY Initial, Inductive, <1>1, PTL DEF Spec

(* table.c keeps one node per key, whatever is added and removed.          *)
THEOREM OneNodePerKey == Spec => []KeysUnique
<1>1. IInv => KeysUnique
  BY DEF IInv
<1> QED BY Initial, Inductive, <1>1, PTL DEF Spec

-----------------------------------------------------------------------------
(* The list implements the map *)

(* A key is present in the map exactly when a node has it, and the node's  *)
(* value is the one the map holds.                                         *)
LEMMA Represents ==
  ASSUME IInv
  PROVE  /\ M!get_keys(AsMap) = {first[i].key : i \in DOMAIN first}
         /\ M!get_values(AsMap) = {first[i].value : i \in DOMAIN first}
<1>0. first \in Seq(Nodes) /\ Unique(first)
  BY DEF IInv, TypeOK, KeysUnique, Unique
<1>1. \A i \in DOMAIN first : /\ first[i].key \in Keys
                               /\ first[i].value # NULL
                               /\ AsMap[first[i].key] = first[i].value
  <2> TAKE i \in DOMAIN first
  <2>1. first[i] \in Nodes
    BY <1>0
  <2>2. table_find(first, first[i].key) = first[i].value
    BY <1>0, FoundAt
  <2> QED BY <2>1, <2>2, NullAssumption DEF Nodes, AsMap
<1>2. \A k \in Keys : AsMap[k] # NULL => \E i \in DOMAIN first : first[i].key = k
  BY DEF AsMap, table_find, Has
<1>3. DOMAIN AsMap = Keys
  BY DEF AsMap
<1>4. M!get_keys(AsMap) = {first[i].key : i \in DOMAIN first}
  <2>1. M!get_keys(AsMap) = {k \in Keys : AsMap[k] # NULL}
    BY <1>3 DEF M!get_keys
  <2>2. \A k \in M!get_keys(AsMap) : k \in {first[i].key : i \in DOMAIN first}
    BY <1>2, <2>1
  <2>3. \A i \in DOMAIN first : first[i].key \in M!get_keys(AsMap)
    BY <1>1, <2>1
  <2> QED BY <2>2, <2>3
<1>5. M!get_values(AsMap) = {first[i].value : i \in DOMAIN first}
  <2>1. M!get_values(AsMap) = {AsMap[k] : k \in {first[i].key : i \in DOMAIN first}}
    BY <1>4 DEF M!get_values
  <2> QED BY <1>1, <2>1
<1> QED BY <1>4, <1>5

(* The nodes are as many as the keys of the map.                           *)
LEMMA Counted ==
  ASSUME IInv
  PROVE  Cardinality(M!get_keys(AsMap)) = Len(first)
<1> DEFINE n == Len(first)
           K == M!get_keys(AsMap)
           f == [i \in 1..n |-> first[i].key]
<1>1. n \in Nat /\ DOMAIN first = 1..n
  BY DEF IInv, TypeOK
<1>2. K = {first[i].key : i \in 1..n}
  BY <1>1, Represents
<1>3. \A i, j \in 1..n : f[i] = f[j] => i = j
  BY <1>1 DEF IInv, KeysUnique
<1>4. f \in [1..n -> K] /\ \A k \in K : \E i \in 1..n : f[i] = k
  BY <1>2
<1> HIDE DEF f, K, n
<1>5. f \in Bijection(1..n, K)
  BY <1>3, <1>4 DEF Bijection, Injection, Surjection, IsInjective
<1>6. ExistsBijection(1..n, K)
  BY <1>5 DEF ExistsBijection
<1> QED BY <1>1, <1>6, FS_CountingElements DEF n, K

LEMMA SameCardinality == \A S : M!Cardinality(S) = Cardinality(S)
BY DEF M!Cardinality, Cardinality

(* The first state is an empty map.                                        *)
LEMMA MapInitial == Init => M!MInit
<1> SUFFICES ASSUME Init PROVE M!MInit
  OBVIOUS
<1>1. \A k \in Keys : table_find(first, k) = NULL
  BY DEF Init, table_find, Has
<1>2. AsMap = M!table_create(Keys)
  BY <1>1 DEF AsMap, M!table_create
<1>3. {array[i] : i \in DOMAIN array} = {}
  BY DEF Init
<1> QED BY <1>2, <1>3 DEF Init, M!MInit

(* Every operation on the list is the operation of its name on the map.    *)
LEMMA MapStep == IInv /\ [Next]_vars => [M!MNext]_M!mvars
<1> SUFFICES ASSUME IInv, [Next]_vars PROVE [M!MNext]_M!mvars
  OBVIOUS
<1> DEFINE listed == {array[i] : i \in DOMAIN array}
<1>0. first \in Seq(Nodes) /\ Unique(first)
  BY DEF IInv, TypeOK, KeysUnique, Unique
<1>1. ASSUME NEW k \in Keys, NEW v \in Values, Add(k, v) PROVE M!MAdd(k, v)
  <2>1. \A m \in Keys : table_find(first', m) = IF m = k THEN v ELSE table_find(first, m)
    BY <1>0, <1>1, AddProperties DEF Add
  <2>2. AsMap' = M!table_add(AsMap, k, v)
    BY <2>1 DEF AsMap, M!table_add
  <2> QED BY <1>1, <2>2 DEF Add, M!MAdd
<1>2. ASSUME NEW k \in Keys, Find(k) PROVE M!MFind(k)
  <2>1. AsMap' = AsMap /\ ret' = M!table_find(AsMap, k)
    BY <1>2 DEF Find, AsMap, M!table_find
  <2> QED BY <1>2, <2>1 DEF Find, M!MFind
<1>3. ASSUME NEW k \in Keys, Remove(k) PROVE M!MRemove(k)
  <2>1. \A m \in Keys : table_find(first', m) = IF m = k THEN NULL ELSE table_find(first, m)
    BY <1>0, <1>3, RemoveProperties DEF Remove
  <2>2. AsMap' = M!table_remove(AsMap, k)
    BY <2>1 DEF AsMap, M!table_remove
  <2>3. ret' = M!table_find(AsMap, k)
    BY <1>3 DEF Remove, AsMap, M!table_find
  <2> QED BY <1>3, <2>2, <2>3 DEF Remove, M!MRemove
<1>4. ASSUME count' = Len(first), UNCHANGED <<first, ret>>
      PROVE  /\ AsMap' = AsMap
             /\ count' = M!Cardinality(M!get_keys(AsMap))
  BY <1>4, Counted, SameCardinality DEF AsMap
<1>5. CASE Collect(get_keys(first))
  <2>1. array' = get_keys(first) /\ count' = Len(first) /\ UNCHANGED <<first, ret>>
    BY <1>5 DEF Collect
  <2>2. {get_keys(first)[i] : i \in DOMAIN get_keys(first)} = M!get_keys(AsMap)
    BY Represents DEF get_keys
  <2>3. listed' = M!get_keys(AsMap)
    BY <2>1, <2>2
  <2> QED BY <1>4, <2>1, <2>3 DEF M!MNext, M!MList
<1>6. CASE Collect(get_values(first))
  <2>1. array' = get_values(first) /\ count' = Len(first) /\ UNCHANGED <<first, ret>>
    BY <1>6 DEF Collect
  <2>2. {get_values(first)[i] : i \in DOMAIN get_values(first)} = M!get_values(AsMap)
    BY Represents DEF get_values
  <2>3. listed' = M!get_values(AsMap)
    BY <2>1, <2>2
  <2> QED BY <1>4, <2>1, <2>3 DEF M!MNext, M!MList
<1>7. CASE Collect(array)
  <2>1. array' = array /\ count' = Len(first) /\ UNCHANGED <<first, ret>>
    BY <1>7 DEF Collect
  <2>2. listed' = listed
    BY <2>1
  <2> QED BY <1>4, <2>1, <2>2 DEF M!MNext, M!MList
<1>8. CASE Clear
  <2>1. \A k \in Keys : table_find(first', k) = NULL
    BY <1>8 DEF Clear, table_find, Has
  <2>2. AsMap' = M!table_create(Keys)
    BY <2>1 DEF AsMap, M!table_create
  <2>3. M!MClear
    BY <1>8, <2>2 DEF Clear, M!MClear
  <2> QED BY <2>3 DEF M!MNext
<1>9. CASE UNCHANGED vars
  BY <1>9 DEF vars, M!mvars, AsMap
<1> QED BY <1>1, <1>2, <1>3, <1>5, <1>6, <1>7, <1>8, <1>9 DEF Next, M!MNext

(* The linked list of table.c is the map of table.h: adding replaces,      *)
(* removing takes the key away, the arrays list every key present and the  *)
(* count is the number of them.                                            *)
THEOREM ListIsMap == Spec => ImplementsMap
BY Initial, Inductive, MapInitial, MapStep, PTL DEF Spec, ImplementsMap, M!MSpec
=============================================================================
