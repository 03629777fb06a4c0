--------------------------- MODULE RegistryProofs ---------------------------
(***************************************************************************)
(* The lock of list.c keeps its users apart, for any set of signals and a  *)
(* stack of any depth; list.c does to a list what list.h promises, and     *)
(* returns it, for any list of values other than the null pointer and any  *)
(* sequence of operations; and the server's two registers of sessions are  *)
(* whole wherever a signal finds them.                                     *)
(***************************************************************************)
EXTENDS MCRegistry, SequenceTheorems, FiniteSetTheorems, Recursion

(***************************************************************************)
(* The lock                                                                *)
(***************************************************************************)
Frames == [who : Caught \cup {Main}, pc : {"away", "lock", "take", "inside", "exit"}]

StackOK == stack \in Seq(Frames) /\ stack # << >> /\ locked \in BOOLEAN

(* The test and the set are two steps, and a handler may run in between.   *)
(* It does no harm because the interrupted frame never runs again: only    *)
(* the frame on top can set the flag, and if it has found the flag clear   *)
(* and is on top, the flag is still clear.                                 *)
IInv ==
  /\ StackOK
  /\ \A i \in 1..Depth : Inside(i) => locked
  /\ Top.pc = "take" => ~locked
  /\ OneInside

LEMMA Initial == Init => IInv
<1> SUFFICES ASSUME Init PROVE IInv
  OBVIOUS
<1>1. stack = << [who |-> Main, pc |-> "away"] >> /\ locked = FALSE
  BY DEF Init, Frame
<1>2. stack \in Seq(Frames) /\ stack # << >> /\ Len(stack) = 1 /\ stack[1].pc = "away"
  BY <1>1 DEF Frames
<1>3. 1..Depth = {1} /\ Top.pc = "away" /\ ~Inside(1)
  BY <1>2 DEF Depth, Top, Inside
<1> QED
  BY <1>1, <1>2, <1>3 DEF IInv, StackOK, OneInside

(* What a step does that moves the top frame and nothing else.             *)
LEMMA Moved ==
  ASSUME StackOK, NEW pc \in {"away", "lock", "take", "inside", "exit"}, Goto(pc)
  PROVE  /\ stack' \in Seq(Frames) /\ stack' # << >> /\ Depth' = Depth
         /\ Top'.pc = pc /\ Top'.who = Top.who
         /\ \A i \in 1..(Depth - 1) : stack'[i] = stack[i] /\ (Inside(i)' <=> Inside(i))
         /\ Inside(Depth)' <=> pc = "inside"
<1>1. Depth \in Nat \ {0} /\ DOMAIN stack = 1..Depth
  BY DEF StackOK, Depth
<1> DEFINE frame == [who |-> stack[Depth].who, pc |-> pc]
<1>2. stack' = [stack EXCEPT ![Depth] = frame]
  <2>1. stack' = [stack EXCEPT ![Depth].pc = pc]
    BY DEF Goto
  <2>2. stack[Depth] \in Frames
    BY <1>1 DEF StackOK
  <2>3. \A f \in Frames : [f EXCEPT !.pc = pc] = [who |-> f.who, pc |-> pc]
    BY DEF Frames
  <2> QED
    BY <2>1, <2>2, <2>3
<1>3. frame \in Frames
  <2>1. stack[Depth] \in Frames
    BY <1>1 DEF StackOK
  <2> QED
    BY <2>1 DEF Frames
<1> HIDE DEF frame
<1>4. stack' \in Seq(Frames) /\ Len(stack') = Len(stack)
  BY <1>1, <1>2, <1>3 DEF StackOK, Depth
<1>5. stack'[Depth].pc = pc /\ stack'[Depth].who = stack[Depth].who /\ \A i \in 1..(Depth - 1) : stack'[i] = stack[i]
  BY <1>1, <1>2, <1>3 DEF frame, StackOK
<1> QED
  BY <1>1, <1>4, <1>5 DEF Depth, Top, Inside

LEMMA StepKeeps == ASSUME IInv, Step PROVE IInv'
<1>1. Depth \in Nat \ {0} /\ 1..Depth = 1..(Depth - 1) \cup {Depth}
  BY DEF IInv, StackOK, Depth
<1>2. CASE Call
  BY <1>1, <1>2, Moved DEF Call, IInv, StackOK, OneInside
<1>3. CASE TestLock
  BY <1>1, <1>3, Moved DEF TestLock, LockSeen, IInv, StackOK, OneInside
<1>4. CASE TakeLock
  <2>1. \A i \in 1..Depth : ~Inside(i)
    BY <1>4 DEF TakeLock, At, IInv
  <2> QED
    BY <1>1, <1>4, <2>1, Moved DEF TakeLock, IInv, StackOK, OneInside
<1>5. CASE Unlock
  <2>1. Inside(Depth)
    BY <1>5 DEF Unlock, At, Inside, Top
  <2>2. \A i \in 1..(Depth - 1) : ~Inside(i)
    BY <1>1, <2>1 DEF IInv, OneInside
  <2>3. PICK pc \in {"away", "exit"} : Goto(pc)
    BY <1>5 DEF Unlock
  <2> QED
    BY <1>1, <1>5, <2>2, <2>3, Moved DEF Unlock, Unlocked, IInv, StackOK, OneInside
<1>6. CASE Exit
  BY <1>6 DEF Exit, IInv, StackOK, OneInside, Inside, Top, Depth
<1> QED
  BY <1>2, <1>3, <1>4, <1>5, <1>6 DEF Step

LEMMA SignalKeeps == ASSUME IInv, NEW s \in Caught, Signal(s) PROVE IInv'
<1>1. CASE stack' = stack
  BY <1>1 DEF Signal, IInv, StackOK, OneInside, Inside, Top, Depth
<1>2. CASE stack' = Append(stack, Frame(s, "lock"))
  <2>1. stack \in Seq(Frames) /\ Frame(s, "lock") \in Frames
    BY DEF IInv, StackOK, Frames, Frame
  <2>0. Len(stack) \in Nat /\ DOMAIN stack = 1..Len(stack)
    BY <2>1
  <2>2. /\ stack' \in Seq(Frames) /\ stack' # << >> /\ Depth' = Depth + 1
        /\ Depth \in Nat
        /\ stack'[Depth + 1] = Frame(s, "lock")
        /\ \A i \in 1..Depth : stack'[i] = stack[i]
    BY <1>2, <2>0, <2>1, AppendProperties DEF Depth
  <2>3. Top'.pc = "lock" /\ \A i \in 1..Depth : Inside(i)' <=> Inside(i)
    BY <2>2 DEF Inside, Top, Frame
  <2>4. \A i \in 1..Depth' : Inside(i)' => i \in 1..Depth
    <3>1. stack'[Depth + 1].pc = "lock"
      BY <2>2 DEF Frame
    <3>2. \A i \in 1..Depth' : i \in 1..Depth \/ i = Depth + 1
      BY <2>2
    <3> QED
      BY <3>1, <3>2 DEF Inside
  <2> QED
    BY <2>2, <2>3, <2>4 DEF Signal, IInv, StackOK, OneInside
<1> QED
  BY <1>1, <1>2 DEF Signal

(* No two frames of the stack are ever inside the list together, although  *)
(* the flag is tested and set in two steps.                                *)
THEOREM LockExcludes == Spec => []OneInside
<1>1. IInv /\ UNCHANGED vars => IInv'
  BY DEF IInv, StackOK, OneInside, Inside, Top, Depth, vars
<1>2. IInv /\ [Next]_vars => IInv'
  BY <1>1, StepKeeps, SignalKeeps DEF Next
<1>3. IInv => OneInside
  BY DEF IInv
<1> QED
  BY <1>2, <1>3, Initial, PTL DEF Spec

(* The memory of a list of values from V.                                  *)
Memories(V) ==
  [first : Nodes \cup {NONE}, next : [Nodes -> Nodes \cup {NONE}],
   value : [Nodes -> V \cup {NONE}], used : SUBSET Nodes]

(* The list's nodes, in order: allocated, each once, each leading to the   *)
(* next and the last to nothing.                                           *)
NodeAt(p, i) == IF i \in 1..Len(p) THEN p[i] ELSE NONE
Chain(l, p) ==
  /\ p \in Seq(l.used)
  /\ \A i, j \in 1..Len(p) : p[i] = p[j] => i = j
  /\ l.first = NodeAt(p, 1)
  /\ \A i \in 1..Len(p) : l.next[p[i]] = NodeAt(p, i + 1)

(* A chain is not longer than the memory. *)
LEMMA ChainFits ==
  ASSUME NEW V, NEW l \in Memories(V), NEW p, Chain(l, p)
  PROVE  /\ Cardinality(Nodes) \in Nat /\ Len(p) \in Nat /\ Len(p) <= Cardinality(Nodes)
         /\ p \in [1..Len(p) -> Nodes] /\ p \in [1..Len(p) -> l.used] /\ DOMAIN p = 1..Len(p)
<1>1. l.used \subseteq Nodes /\ p \in Seq(l.used)
  BY DEF Memories, Chain
<1>2. Len(p) \in Nat /\ p \in [1..Len(p) -> l.used]
  BY <1>1
<1>3. p \in [1..Len(p) -> Nodes]
  BY <1>1, <1>2
<1>4. p \in Injection(1..Len(p), Nodes)
  BY <1>3 DEF Injection, IsInjective, Chain
<1>5. IsFiniteSet(Nodes)
  BY NodesAssumption
<1>6. Cardinality(1..Len(p)) <= Cardinality(Nodes)
  BY <1>4, <1>5, FS_Injection
<1>7. Cardinality(1..Len(p)) = Len(p)
  BY <1>2, FS_Interval
<1>8. Cardinality(Nodes) \in Nat
  BY <1>5, FS_CardinalityType
<1> QED
  BY <1>2, <1>3, <1>6, <1>7, <1>8

(* The walk finds the chain. *)
LEMMA ChainIsPath ==
  ASSUME NEW V, NEW l \in Memories(V), NEW p, Chain(l, p)
  PROVE  Path(l) = p
<1> DEFINE n == Cardinality(Nodes)
           Unfolds(g) ==
             g = [i \in 0..n |-> IF i = 0 THEN l.first
                                 ELSE IF g[i - 1] = NONE THEN NONE ELSE l.next[g[i - 1]]]
           f == CHOOSE g : Unfolds(g)
           walk == [i \in 0..n |-> NodeAt(p, i + 1)]
<1>1. /\ n \in Nat /\ Len(p) \in Nat /\ Len(p) <= n /\ p \in [1..Len(p) -> Nodes]
  BY ChainFits
<1>2. l.first = NodeAt(p, 1) /\ \A i \in 1..Len(p) : l.next[p[i]] = NodeAt(p, i + 1)
  BY DEF Chain
<1>3. \A i \in 1..n : NodeAt(p, i + 1) = IF NodeAt(p, i) = NONE THEN NONE ELSE l.next[NodeAt(p, i)]
  BY <1>1, <1>2, NodesAssumption DEF NodeAt
<1>4. Unfolds(walk)
  <2>1. \A i \in 0..n : i # 0 => i \in 1..n /\ i - 1 \in 0..n /\ walk[i - 1] = NodeAt(p, i)
    BY <1>1
  <2>2. \A i \in 0..n : walk[i] = IF i = 0 THEN l.first
                                  ELSE IF walk[i - 1] = NONE THEN NONE ELSE l.next[walk[i - 1]]
    BY <1>1, <1>2, <1>3, <2>1
  <2> QED
    BY <2>2
<1>5. Unfolds(f)
  BY <1>4
<1>6. Path(l) = [i \in {j \in 1..(n + 1) : f[j - 1] # NONE} |-> f[i - 1]]
  BY DEF Path
<1> HIDE DEF f
<1>7. f = walk
  <2>0. f = [i \in 0..n |-> f[i]] /\ walk = [i \in 0..n |-> walk[i]]
    BY <1>5
  <2> DEFINE S == {i \in 0..n : f[i] = walk[i]}
  <2>1. 0 \in S
    BY <1>1, <1>2, <1>5
  <2>2. ASSUME NEW i \in 0..(n - 1), i \in S PROVE i + 1 \in S
    <3>1. i + 1 \in 0..n /\ i + 1 # 0 /\ (i + 1) - 1 = i
      BY <1>1
    <3>2. f[i + 1] = IF f[i] = NONE THEN NONE ELSE l.next[f[i]]
      BY <1>5, <3>1
    <3>3. walk[i + 1] = IF walk[i] = NONE THEN NONE ELSE l.next[walk[i]]
      BY <1>4, <3>1
    <3> QED
      BY <2>2, <3>1, <3>2, <3>3
  <2> HIDE DEF S
  <2>3. 0..n \subseteq S
    BY <1>1, <2>1, <2>2, IntervalInduction
  <2>4. \A i \in 0..n : f[i] = walk[i]
    BY <2>3 DEF S
  <2> HIDE DEF walk
  <2> QED
    BY <2>0, <2>4
<1>8. \A j \in 1..(n + 1) : f[j - 1] = NodeAt(p, j)
  BY <1>1, <1>7
<1> HIDE DEF n
<1>9. {j \in 1..(n + 1) : f[j - 1] # NONE} = 1..Len(p)
  BY <1>1, <1>8, NodesAssumption DEF NodeAt
<1>10. Path(l) = [i \in 1..Len(p) |-> f[i - 1]]
  BY <1>6, <1>9
<1>11. \A i \in 1..Len(p) : f[i - 1] = p[i]
  BY <1>1, <1>8 DEF NodeAt
<1> QED
  BY <1>1, <1>10, <1>11

(* What is read through it. *)
LEMMA ChainArray ==
  ASSUME NEW V, NEW l \in Memories(V), NEW p, Chain(l, p)
  PROVE  /\ list_get_array(l) \in Seq(V \cup {NONE})
         /\ Len(list_get_array(l)) = Len(p)
         /\ \A i \in 1..Len(p) : list_get_array(l)[i] = l.value[p[i]]
         /\ list_get_count(l) = Len(p)
         /\ ToSet(Path(l)) \subseteq l.used
<1>1. Path(l) = p
  BY ChainIsPath
<1>2. Len(p) \in Nat /\ p \in [1..Len(p) -> Nodes] /\ p \in [1..Len(p) -> l.used] /\ DOMAIN p = 1..Len(p)
  BY ChainFits
<1>3. list_get_array(l) = [i \in 1..Len(p) |-> l.value[p[i]]]
  BY <1>1, <1>2 DEF list_get_array
<1>4. \A i \in 1..Len(p) : l.value[p[i]] \in V \cup {NONE}
  BY <1>2 DEF Memories
<1>5. ToSet(p) \subseteq l.used
  BY <1>2 DEF ToSet
<1> QED
  BY <1>1, <1>2, <1>3, <1>4, <1>5 DEF list_get_count

(* What changing one pointer changes. *)
Leads(p, i, n) ==
  i \in Nat \ {0} /\ (i > 1 => p[i - 1] \in Nodes) /\ n \in Nodes \cup {NONE}

Changed(V, l, p, i, n, m) ==
  /\ m \in Memories(V) /\ m.value = l.value /\ m.used = l.used
  /\ m.first = IF i = 1 THEN n ELSE l.first
  /\ m.next = IF i = 1 THEN l.next ELSE [l.next EXCEPT ![p[i - 1]] = n]

LEMMA Pointed ==
  ASSUME NEW V, NEW l \in Memories(V), NEW p, NEW i, NEW n, Leads(p, i, n)
  PROVE  Changed(V, l, p, i, n, Point(l, p, i, n))
<1> USE DEF Leads, Changed
<1>1. CASE i = 1
  BY <1>1 DEF Point, Memories
<1>2. CASE i > 1
  <2>1. Point(l, p, i, n) = [l EXCEPT !.next = [l.next EXCEPT ![p[i - 1]] = n]]
    BY <1>2 DEF Point, Memories
  <2>2. [l.next EXCEPT ![p[i - 1]] = n] \in [Nodes -> Nodes \cup {NONE}]
    BY <1>2 DEF Memories
  <2> QED
    BY <1>2, <2>1, <2>2 DEF Memories
<1> QED
  BY <1>1, <1>2

(* Taking the k-th node out of the chain. *)
Without(s, k) == [i \in 1..(Len(s) - 1) |-> IF i < k THEN s[i] ELSE s[i + 1]]

LEMMA UnlinkChain ==
  ASSUME NEW V, NEW l \in Memories(V), NEW p, Chain(l, p), NEW k \in 1..Len(p)
  PROVE  /\ Unlink(l, p, k) \in Memories(V)
         /\ Unlink(l, p, k).value = l.value /\ Unlink(l, p, k).used = l.used
         /\ Chain(Unlink(l, p, k), Without(p, k))
         /\ \A i \in 1..Len(Without(p, k)) : Without(p, k)[i] # p[k]
<1> DEFINE m == Unlink(l, p, k)
           q == Without(p, k)
<1>1. Len(p) \in Nat /\ p \in [1..Len(p) -> Nodes] /\ p \in [1..Len(p) -> l.used] /\ l.used \subseteq Nodes
  BY ChainFits DEF Memories
<1>2. l.first = NodeAt(p, 1) /\ \A i \in 1..Len(p) : l.next[p[i]] = NodeAt(p, i + 1)
  BY DEF Chain
<1>3. \A i \in Nat : NodeAt(p, i) \in Nodes \cup {NONE}
  BY <1>1 DEF NodeAt
<1>4. /\ m \in Memories(V) /\ m.value = l.value /\ m.used = l.used
      /\ m.first = IF k = 1 THEN NodeAt(p, k + 1) ELSE l.first
      /\ m.next = IF k = 1 THEN l.next ELSE [l.next EXCEPT ![p[k - 1]] = NodeAt(p, k + 1)]
  <2>1. m = Point(l, p, k, NodeAt(p, k + 1))
    BY <1>2 DEF Unlink
  <2>2. Leads(p, k, NodeAt(p, k + 1))
    BY <1>1, <1>3 DEF Leads
  <2> HIDE DEF m
  <2> QED
    <3>1. Changed(V, l, p, k, NodeAt(p, k + 1), m)
      BY <2>1, <2>2, Pointed
    <3> QED
      BY <3>1 DEF Changed
<1>5. /\ q \in Seq(l.used) /\ Len(q) = Len(p) - 1
      /\ \A i \in 1..Len(q) : q[i] = IF i < k THEN p[i] ELSE p[i + 1]
  <2>1. \A i \in 1..(Len(p) - 1) : (IF i < k THEN p[i] ELSE p[i + 1]) \in l.used
    BY <1>1
  <2>2. Len(p) - 1 \in Nat
    BY <1>1
  <2> QED
    BY <2>1, <2>2 DEF Without
<1> HIDE DEF m, q
<1>6. \A i \in Nat \ {0} : NodeAt(q, i) = IF i < k THEN NodeAt(p, i) ELSE NodeAt(p, i + 1)
  BY <1>1, <1>5 DEF NodeAt
<1>7. \A i, j \in 1..Len(p) : p[i] = p[j] => i = j
  BY DEF Chain
<1>8. /\ \A i, j \in 1..Len(q) : q[i] = q[j] => i = j
      /\ \A i \in 1..Len(q) : q[i] # p[k]
  BY <1>1, <1>5, <1>7
<1>9. m.first = NodeAt(q, 1)
  BY <1>2, <1>4, <1>6
<1>10. ASSUME NEW i \in 1..Len(q) PROVE m.next[q[i]] = NodeAt(q, i + 1)
  <2>1. CASE k > 1 /\ i = k - 1
    <3>1. q[i] = p[k - 1] /\ p[k - 1] \in Nodes /\ l.next \in [Nodes -> Nodes \cup {NONE}]
      BY <1>1, <1>5, <2>1 DEF Memories
    <3>2. m.next[q[i]] = NodeAt(p, k + 1)
      BY <1>4, <2>1, <3>1
    <3> QED
      BY <1>6, <2>1, <3>2
  <2>2. CASE ~(k > 1 /\ i = k - 1)
    <3>1. k > 1 => q[i] # p[k - 1]
      BY <1>1, <1>5, <1>7, <2>2
    <3>2. m.next[q[i]] = l.next[q[i]]
      <4>1. l.next \in [Nodes -> Nodes \cup {NONE}]
        BY DEF Memories
      <4>2. q[i] \in Nodes
        BY <1>1, <1>5
      <4> QED
        BY <1>4, <3>1, <4>1, <4>2
    <3>3. CASE i < k
      <4>1. q[i] = p[i] /\ i + 1 < k /\ i \in 1..Len(p)
        BY <1>1, <1>5, <2>2, <3>3
      <4> QED
        BY <1>2, <1>6, <3>2, <4>1
    <3>4. CASE i >= k
      <4>1. q[i] = p[i + 1] /\ i + 1 \in 1..Len(p) /\ ~(i + 1 < k) /\ i + 1 \in Nat \ {0}
        BY <1>1, <1>5, <3>4
      <4>2. l.next[p[i + 1]] = NodeAt(p, (i + 1) + 1)
        BY <1>2, <4>1
      <4>3. NodeAt(q, i + 1) = NodeAt(p, (i + 1) + 1)
        BY <1>6, <4>1
      <4> QED
        BY <3>2, <4>1, <4>2, <4>3
    <3> QED
      BY <3>3, <3>4
  <2> QED
    BY <2>1, <2>2
<1> QED
  BY <1>4, <1>5, <1>8, <1>9, <1>10 DEF Chain, m, q

LEMMA FreeChain ==
  ASSUME NEW V, NEW l \in Memories(V), NEW p, Chain(l, p), NEW n, \A i \in 1..Len(p) : p[i] # n
  PROVE  /\ Free(l, n) \in Memories(V) /\ Chain(Free(l, n), p)
         /\ Free(l, n).value = l.value /\ Free(l, n).used = l.used \ {n}
<1>1. /\ Free(l, n) \in Memories(V) /\ Free(l, n).value = l.value /\ Free(l, n).used = l.used \ {n}
      /\ Free(l, n).first = l.first /\ Free(l, n).next = l.next
  BY DEF Free, Memories
<1>2. p \in Seq(l.used \ {n})
  BY DEF Chain
<1> QED
  BY <1>1, <1>2 DEF Chain

(* A new node, which nothing leads to yet. *)
LEMMA Allocated ==
  ASSUME NEW V, NEW l \in Memories(V), HasMemory(l), NEW v \in V, NEW after \in Nodes \cup {NONE}
  PROVE  LET n == Malloc(l)
             m == NewNode(l, n, v, after)
         IN  /\ n \in Nodes /\ n \notin l.used
             /\ m \in Memories(V) /\ m.used = l.used \cup {n} /\ m.first = l.first
             /\ m.value = [l.value EXCEPT ![n] = v]
             /\ m.next = [l.next EXCEPT ![n] = after]
<1> DEFINE n == Malloc(l)
<1>1. n \in Nodes /\ n \notin l.used
  <2>1. Nodes \ l.used # {}
    BY DEF HasMemory, Memories
  <2> QED
    BY <2>1 DEF Malloc
<1> HIDE DEF n
<1>2. NewNode(l, n, v, after) = [l EXCEPT !.value = [l.value EXCEPT ![n] = v],
                                          !.next = [l.next EXCEPT ![n] = after],
                                          !.used = l.used \cup {n}]
  BY DEF NewNode, Memories
<1>3. /\ [l.value EXCEPT ![n] = v] \in [Nodes -> V \cup {NONE}]
      /\ [l.next EXCEPT ![n] = after] \in [Nodes -> Nodes \cup {NONE}]
  BY <1>1 DEF Memories
<1> DEFINE m == NewNode(l, n, v, after)
<1>4. /\ m \in Memories(V) /\ m.used = l.used \cup {n} /\ m.first = l.first
      /\ m.value = [l.value EXCEPT ![n] = v] /\ m.next = [l.next EXCEPT ![n] = after]
  <2>1. m = [first |-> l.first, next |-> [l.next EXCEPT ![n] = after],
             value |-> [l.value EXCEPT ![n] = v], used |-> l.used \cup {n}]
    BY <1>2 DEF Memories
  <2>2. l.first \in Nodes \cup {NONE} /\ l.used \cup {n} \subseteq Nodes
    BY <1>1 DEF Memories
  <2> HIDE DEF m
  <2>3. m.used = l.used \cup {n} /\ m.first = l.first
        /\ m.value = [l.value EXCEPT ![n] = v] /\ m.next = [l.next EXCEPT ![n] = after]
    BY <2>1
  <2>4. m \in Memories(V)
    BY <1>3, <2>1, <2>2 DEF Memories
  <2> QED
    BY <2>3, <2>4
<1> HIDE DEF m
<1> QED
  BY <1>1, <1>4 DEF m, n

LEMMA AddEndChain ==
  ASSUME NEW V, NEW l \in Memories(V), NEW p, Chain(l, p), HasMemory(l), NEW v \in V
  PROVE  LET n == Malloc(l)
             m == list_add_end(l, v)
         IN  /\ n \in Nodes /\ n \notin l.used
             /\ m \in Memories(V) /\ m.used = l.used \cup {n}
             /\ m.value = [l.value EXCEPT ![n] = v]
             /\ Chain(m, Append(p, n))
<1> DEFINE n == Malloc(l)
           new == NewNode(l, n, v, NONE)
           m == list_add_end(l, v)
           q == Append(p, n)
<1>1. /\ n \in Nodes /\ n \notin l.used
      /\ new \in Memories(V) /\ new.used = l.used \cup {n} /\ new.first = l.first
      /\ new.value = [l.value EXCEPT ![n] = v] /\ new.next = [l.next EXCEPT ![n] = NONE]
  BY Allocated
<1>2. m = Point(new, p, Len(p) + 1, n)
  BY ChainIsPath DEF list_add_end
<1> HIDE DEF n, new, m, q
<1>3. Len(p) \in Nat /\ p \in [1..Len(p) -> Nodes] /\ p \in [1..Len(p) -> l.used]
  BY ChainFits
<1>4. /\ m \in Memories(V) /\ m.used = l.used \cup {n} /\ m.value = [l.value EXCEPT ![n] = v]
      /\ m.first = IF Len(p) = 0 THEN n ELSE l.first
      /\ m.next = IF Len(p) = 0 THEN new.next ELSE [new.next EXCEPT ![p[Len(p)]] = n]
  <2> DEFINE k == Len(p) + 1
  <2>1. k - 1 = Len(p) /\ (k = 1 <=> Len(p) = 0) /\ Leads(p, k, n)
    BY <1>1, <1>3 DEF Leads
  <2>2. m = Point(new, p, k, n)
    BY <1>2
  <2> HIDE DEF k
  <2>3. Changed(V, new, p, k, n, m)
    <3>1. new \in Memories(V)
      BY <1>1
    <3> QED
      BY <2>1, <2>2, <3>1, Pointed
  <2> QED
    BY <1>1, <2>1, <2>3 DEF Changed
<1>5. /\ q \in Seq(l.used \cup {n}) /\ Len(q) = Len(p) + 1 /\ q[Len(p) + 1] = n
      /\ \A i \in 1..Len(p) : q[i] = p[i]
  BY <1>3 DEF q
<1>6. l.first = NodeAt(p, 1) /\ \A i \in 1..Len(p) : l.next[p[i]] = NodeAt(p, i + 1)
  BY DEF Chain
<1>7. \A i, j \in 1..Len(p) : p[i] = p[j] => i = j
  BY DEF Chain
<1>8. \A i, j \in 1..Len(q) : q[i] = q[j] => i = j
  <2>1. \A i \in 1..Len(p) : q[i] # n
    BY <1>1, <1>3, <1>5
  <2>2. \A i \in 1..Len(q) : i \in 1..Len(p) \/ i = Len(p) + 1
    BY <1>3, <1>5
  <2> QED
    BY <1>5, <1>7, <2>1, <2>2
<1>9. m.first = NodeAt(q, 1)
  BY <1>3, <1>4, <1>5, <1>6 DEF NodeAt
<1>10. ASSUME NEW i \in 1..Len(q) PROVE m.next[q[i]] = NodeAt(q, i + 1)
  <2>0. l.next \in [Nodes -> Nodes \cup {NONE}]
    BY DEF Memories
  <2>1. CASE i < Len(p)
    <3>1. i \in 1..Len(p) /\ i + 1 \in 1..Len(p) /\ q[i] = p[i] /\ q[i + 1] = p[i + 1] /\ i + 1 \in 1..Len(q)
      BY <1>3, <1>5, <2>1
    <3>2. p[i] # n /\ p[i] # p[Len(p)] /\ p[i] \in Nodes
      BY <1>1, <1>3, <1>7, <2>1, <3>1
    <3>3. m.next[p[i]] = l.next[p[i]]
      BY <1>1, <1>3, <1>4, <2>0, <3>2
    <3> QED
      BY <1>6, <3>1, <3>3 DEF NodeAt
  <2>2. CASE i = Len(p)
    <3>1. q[i] = p[Len(p)] /\ q[i + 1] = n /\ i + 1 \in 1..Len(q) /\ p[Len(p)] \in Nodes /\ Len(p) # 0
      BY <1>3, <1>5, <2>2
    <3>2. new.next \in [Nodes -> Nodes \cup {NONE}]
      BY <1>1 DEF Memories
    <3>3. m.next[p[Len(p)]] = n
      BY <1>4, <3>1, <3>2
    <3> QED
      BY <3>1, <3>3 DEF NodeAt
  <2>3. CASE i = Len(p) + 1
    <3>1. q[i] = n /\ i + 1 \notin 1..Len(q)
      BY <1>3, <1>5, <2>3
    <3>2. Len(p) # 0 => p[Len(p)] # n
      BY <1>1, <1>3
    <3>3. m.next[n] = NONE
      BY <1>1, <1>4, <2>0, <3>2
    <3> QED
      BY <3>1, <3>3 DEF NodeAt
  <2> QED
    BY <1>3, <1>5, <2>1, <2>2, <2>3
<1>11. Chain(m, q)
  BY <1>4, <1>5, <1>8, <1>9, <1>10 DEF Chain
<1> QED
  BY <1>1, <1>4, <1>11 DEF n, m, q

LEMMA AddBeginningChain ==
  ASSUME NEW V, NEW l \in Memories(V), NEW p, Chain(l, p), HasMemory(l), NEW v \in V
  PROVE  LET n == Malloc(l)
             m == list_add_beginning(l, v)
         IN  /\ n \in Nodes /\ n \notin l.used
             /\ m \in Memories(V) /\ m.used = l.used \cup {n}
             /\ m.value = [l.value EXCEPT ![n] = v]
             /\ Chain(m, << n >> \o p)
<1> DEFINE n == Malloc(l)
           new == NewNode(l, n, v, l.first)
           m == list_add_beginning(l, v)
           q == << n >> \o p
<1>0. l.first \in Nodes \cup {NONE}
  BY DEF Memories
<1>1. /\ n \in Nodes /\ n \notin l.used
      /\ new \in Memories(V) /\ new.used = l.used \cup {n} /\ new.first = l.first
      /\ new.value = [l.value EXCEPT ![n] = v] /\ new.next = [l.next EXCEPT ![n] = l.first]
  BY <1>0, Allocated
<1>2. m = [new EXCEPT !.first = n]
  BY DEF list_add_beginning
<1> HIDE DEF n, new, m
<1>3. Len(p) \in Nat /\ p \in [1..Len(p) -> Nodes] /\ p \in [1..Len(p) -> l.used]
  BY ChainFits
<1>4. /\ m \in Memories(V) /\ m.used = l.used \cup {n} /\ m.value = [l.value EXCEPT ![n] = v]
      /\ m.first = n /\ m.next = new.next
  BY <1>1, <1>2 DEF Memories
<1>5. /\ q \in Seq(l.used \cup {n}) /\ Len(q) = Len(p) + 1 /\ q[1] = n
      /\ \A i \in 1..Len(p) : q[i + 1] = p[i]
  BY <1>3
<1> HIDE DEF q
<1>6. l.first = NodeAt(p, 1) /\ \A i \in 1..Len(p) : l.next[p[i]] = NodeAt(p, i + 1)
  BY DEF Chain
<1>7. \A i, j \in 1..Len(p) : p[i] = p[j] => i = j
  BY DEF Chain
<1>13. \A i \in 1..Len(q) : i # 1 => i - 1 \in 1..Len(p) /\ q[i] = p[i - 1] /\ q[i] # n /\ q[i] \in Nodes
  <2> SUFFICES ASSUME NEW i \in 1..Len(q), i # 1
               PROVE  i - 1 \in 1..Len(p) /\ q[i] = p[i - 1] /\ q[i] # n /\ q[i] \in Nodes
    OBVIOUS
  <2>1. i - 1 \in 1..Len(p) /\ (i - 1) + 1 = i
    BY <1>3, <1>5
  <2>2. q[i] = p[i - 1]
    BY <1>5, <2>1
  <2> QED
    BY <1>1, <1>3, <2>1, <2>2
<1>8. \A i, j \in 1..Len(q) : q[i] = q[j] => i = j
  <2> SUFFICES ASSUME NEW i \in 1..Len(q), NEW j \in 1..Len(q), q[i] = q[j] PROVE i = j
    OBVIOUS
  <2>1. CASE i = 1 \/ j = 1
    BY <1>5, <1>13, <2>1
  <2>2. CASE i # 1 /\ j # 1
    <3>1. i - 1 = j - 1
      BY <1>13, <1>7, <2>2
    <3> QED
      BY <1>3, <1>5, <3>1
  <2> QED
    BY <2>1, <2>2
<1>9. m.first = NodeAt(q, 1)
  BY <1>3, <1>4, <1>5 DEF NodeAt
<1>12. \A i \in 1..Len(q) : NodeAt(q, i + 1) = NodeAt(p, i)
  BY <1>3, <1>5 DEF NodeAt
<1>10. ASSUME NEW i \in 1..Len(q) PROVE m.next[q[i]] = NodeAt(q, i + 1)
  <2>0. l.next \in [Nodes -> Nodes \cup {NONE}]
    BY DEF Memories
  <2>1. CASE i = 1
    <3>1. m.next[n] = l.first
      BY <1>1, <1>4, <2>0
    <3> QED
      BY <1>5, <1>6, <1>12, <2>1, <3>1
  <2>2. CASE i # 1
    <3>1. i - 1 \in 1..Len(p) /\ q[i] = p[i - 1] /\ q[i] # n /\ q[i] \in Nodes /\ (i - 1) + 1 = i
      BY <1>13, <1>3, <1>5, <2>2
    <3>2. m.next[q[i]] = l.next[q[i]]
      BY <1>1, <1>4, <2>0, <3>1
    <3>3. l.next[p[i - 1]] = NodeAt(p, (i - 1) + 1)
      BY <1>6, <3>1
    <3> QED
      BY <1>12, <3>1, <3>2, <3>3
  <2> QED
    BY <2>1, <2>2
<1>11. Chain(m, q)
  BY <1>4, <1>5, <1>8, <1>9, <1>10 DEF Chain
<1> QED
  BY <1>1, <1>4, <1>11 DEF n, m, q

(* A list of nodes that holds these values. *)
Held(V, l, path, items) ==
  /\ l \in Memories(V) /\ Chain(l, path)
  /\ items \in Seq(V) /\ Len(items) = Len(path)
  /\ \A i \in 1..Len(path) : l.value[path[i]] = items[i]

LEMMA HeldRead ==
  ASSUME NEW V, NEW l, NEW path, NEW items, Held(V, l, path, items)
  PROVE  /\ Path(l) = path /\ list_get_array(l) = items /\ list_get_count(l) = Len(items)
         /\ ToSet(path) \subseteq l.used /\ IsFiniteSet(l.used)
         /\ Lost(l) = Cardinality(l.used \ ToSet(path))
         /\ Lost(l) \in Nat
<1>1. l \in Memories(V) /\ Chain(l, path)
  BY DEF Held
<1>2. /\ Path(l) = path
      /\ list_get_array(l) \in Seq(V \cup {NONE}) /\ Len(list_get_array(l)) = Len(path)
      /\ \A i \in 1..Len(path) : list_get_array(l)[i] = l.value[path[i]]
      /\ list_get_count(l) = Len(path)
      /\ ToSet(Path(l)) \subseteq l.used
  <2>1. Path(l) = path
    BY <1>1, ChainIsPath
  <2> QED
    BY <1>1, <2>1, ChainArray
<1>3. list_get_array(l) = items
  <2>1. items \in Seq(V \cup {NONE}) /\ Len(items) = Len(path)
    BY DEF Held
  <2>2. \A i \in 1..Len(path) : list_get_array(l)[i] = items[i]
    BY <1>2 DEF Held
  <2> QED
    BY <1>2, <2>1, <2>2, SeqEqual
<1>4. IsFiniteSet(l.used) /\ IsFiniteSet(l.used \ ToSet(path))
  BY <1>1, NodesAssumption, FS_Subset DEF Memories
<1>5. Lost(l) = Cardinality(l.used \ ToSet(path))
  BY <1>1, <1>2 DEF Lost, list_destroy, Memories
<1> QED
  BY <1>2, <1>3, <1>4, <1>5, FS_CardinalityType DEF Held

LEMMA WithoutSeq ==
  ASSUME NEW S, NEW s \in Seq(S), NEW k \in 1..Len(s)
  PROVE  /\ Without(s, k) \in Seq(S) /\ Len(Without(s, k)) = Len(s) - 1
         /\ \A i \in 1..(Len(s) - 1) : Without(s, k)[i] = IF i < k THEN s[i] ELSE s[i + 1]
<1>1. Len(s) \in Nat /\ Len(s) - 1 \in Nat /\ s \in [1..Len(s) -> S]
  OBVIOUS
<1>2. \A i \in 1..(Len(s) - 1) : (IF i < k THEN s[i] ELSE s[i + 1]) \in S
  BY <1>1
<1> QED
  BY <1>1, <1>2 DEF Without

(* What is not repeated is gone when it is removed, and nothing else is.   *)
LEMMA WithoutOnce ==
  ASSUME NEW S, NEW s \in Seq(S), IsInjective(s), NEW k \in 1..Len(s)
  PROVE  IsInjective(Without(s, k)) /\ ToSet(Without(s, k)) = ToSet(s) \ {s[k]}
<1> DEFINE t == Without(s, k)
           n == Len(s)
<1>1. n \in Nat /\ DOMAIN s = 1..n /\ k \in 1..n
  OBVIOUS
<1>2. /\ t \in Seq(S) /\ Len(t) = n - 1
      /\ \A i \in 1..(n - 1) : t[i] = IF i < k THEN s[i] ELSE s[i + 1]
  BY WithoutSeq
<1> HIDE DEF t
<1>3. DOMAIN t = 1..(n - 1)
  BY <1>2
<1> HIDE DEF n
<1>4. \A i, j \in 1..n : s[i] = s[j] => i = j
  BY <1>1 DEF IsInjective
(* The i-th of what is left was the From(i)-th. *)
<1> DEFINE From(i) == IF i < k THEN i ELSE i + 1
<1>5. \A i \in 1..(n - 1) : From(i) \in 1..n /\ From(i) # k /\ t[i] = s[From(i)]
  BY <1>1, <1>2
<1>6. \A i, j \in 1..(n - 1) : From(i) = From(j) => i = j
  BY <1>1
<1>7. ASSUME NEW i \in 1..n, i # k PROVE \E j \in 1..(n - 1) : t[j] = s[i]
  <2>1. CASE i < k
    BY <1>1, <1>2, <2>1
  <2>2. CASE i > k
    <3>1. i - 1 \in 1..(n - 1) /\ ~(i - 1 < k) /\ (i - 1) + 1 = i
      BY <1>1, <2>2
    <3> QED
      BY <1>2, <3>1
  <2> QED
    BY <1>1, <1>7, <2>1, <2>2
<1> HIDE DEF From
<1>8. IsInjective(t)
  <2>1. ASSUME NEW i \in 1..(n - 1), NEW j \in 1..(n - 1), t[i] = t[j] PROVE i = j
    <3>1. From(i) = From(j)
      BY <1>4, <1>5, <2>1
    <3> QED
      BY <1>6, <3>1
  <2> QED
    BY <1>3, <2>1 DEF IsInjective
<1>9. ASSUME NEW x PROVE x \in ToSet(t) <=> x \in ToSet(s) /\ x # s[k]
  <2>1. x \in ToSet(t) => x \in ToSet(s) /\ x # s[k]
    BY <1>1, <1>3, <1>4, <1>5 DEF ToSet
  <2>2. x \in ToSet(s) /\ x # s[k] => x \in ToSet(t)
    BY <1>1, <1>3, <1>7 DEF ToSet
  <2> QED
    BY <2>1, <2>2
<1>10. ToSet(t) = ToSet(s) \ {s[k]}
  BY <1>9
<1> QED
  BY <1>8, <1>10 DEF t

(* SequencesExt removes the same element. *)
LEMMA RemoveAtWithout ==
  ASSUME NEW S, NEW s \in Seq(S), NEW k \in 1..Len(s)
  PROVE  RemoveAt(s, k) = Without(s, k)
<1> DEFINE a == SubSeq(s, 1, k - 1)
           b == SubSeq(s, k + 1, Len(s))
<1>1. Len(s) \in Nat /\ k \in Nat /\ s \in [1..Len(s) -> S]
  OBVIOUS
<1>2. a \in Seq(S) /\ Len(a) = k - 1 /\ \A i \in 1..(k - 1) : a[i] = s[i]
  <2>1. 1 \in Int /\ k - 1 \in Int /\ \A i \in 1..(k - 1) : s[i] \in S
    BY <1>1
  <2>2. /\ a \in Seq(S) /\ Len(a) = IF 1 <= k - 1 THEN (k - 1) - 1 + 1 ELSE 0
        /\ \A i \in 1..((k - 1) - 1 + 1) : a[i] = s[1 + i - 1]
    BY <2>1, SubSeqProperties
  <2> HIDE DEF a
  <2> QED
    BY <1>1, <2>2
<1>3. b \in Seq(S) /\ Len(b) = Len(s) - k /\ \A i \in 1..(Len(s) - k) : b[i] = s[k + i]
  <2>1. k + 1 \in Int /\ Len(s) \in Int /\ \A i \in (k + 1)..Len(s) : s[i] \in S
    BY <1>1
  <2>2. /\ b \in Seq(S) /\ Len(b) = IF k + 1 <= Len(s) THEN Len(s) - (k + 1) + 1 ELSE 0
        /\ \A i \in 1..(Len(s) - (k + 1) + 1) : b[i] = s[(k + 1) + i - 1]
    BY <2>1, SubSeqProperties
  <2> HIDE DEF b
  <2>3. Len(b) = Len(s) - k
    <3>1. k <= Len(s)
      OBVIOUS
    <3>2. CASE k + 1 <= Len(s)
      <4>1. Len(b) = Len(s) - (k + 1) + 1
        BY <2>2, <3>2
      <4> QED
        BY <1>1, <4>1
    <3>3. CASE k = Len(s)
      <4>1. Len(b) = 0
        BY <1>1, <2>2, <3>3
      <4> QED
        BY <1>1, <3>3, <4>1
    <3>4. k + 1 <= Len(s) \/ k = Len(s)
      <4>1. Len(s) \in Nat /\ k \in Nat
        BY <1>1
      <4> QED
        BY <3>1, <4>1
    <3> QED
      BY <3>2, <3>3, <3>4
  <2>4. ASSUME NEW i \in 1..(Len(s) - k) PROVE b[i] = s[k + i]
    <3>1. i \in 1..(Len(s) - (k + 1) + 1) /\ (k + 1) + i - 1 = k + i
      BY <1>1
    <3>2. b[i] = s[(k + 1) + i - 1]
      BY <2>2, <3>1
    <3> QED
      BY <3>1, <3>2
  <2> QED
    BY <2>2, <2>3, <2>4
<1>4. RemoveAt(s, k) = a \o b
  BY DEF RemoveAt
<1> HIDE DEF a, b
<1>5. a \o b \in Seq(S) /\ Len(a \o b) = Len(s) - 1
  <2>1. a \o b \in Seq(S) /\ Len(a \o b) = Len(a) + Len(b)
    BY <1>2, <1>3, ConcatProperties
  <2> QED
    BY <1>1, <1>2, <1>3, <2>1
<1>6. \A i \in 1..(Len(s) - 1) : (a \o b)[i] = IF i < k THEN s[i] ELSE s[i + 1]
  <2> SUFFICES ASSUME NEW i \in 1..(Len(s) - 1) PROVE (a \o b)[i] = IF i < k THEN s[i] ELSE s[i + 1]
    OBVIOUS
  <2>1. CASE i < k
    BY <1>1, <1>2, <1>3, <2>1
  <2>2. CASE i >= k
    <3>1. i - (k - 1) \in 1..(Len(s) - k) /\ k + (i - (k - 1)) = i + 1 /\ ~(i <= k - 1)
      BY <1>1, <2>2
    <3>2. (a \o b)[i] = b[i - (k - 1)]
      BY <1>1, <1>2, <1>3, <3>1
    <3>3. (a \o b)[i] = s[i + 1] /\ ~(i < k)
      BY <1>1, <1>3, <2>2, <3>1, <3>2
    <3> QED
      BY <3>3
  <2>3. i < k \/ i >= k
    BY <1>1
  <2> QED
    BY <2>1, <2>2, <2>3
<1>7. Without(s, k) \in Seq(S) /\ Len(Without(s, k)) = Len(s) - 1
      /\ \A i \in 1..(Len(s) - 1) : Without(s, k)[i] = IF i < k THEN s[i] ELSE s[i + 1]
  BY WithoutSeq
<1>8. Len(a \o b) = Len(Without(s, k)) /\ \A i \in 1..Len(a \o b) : (a \o b)[i] = Without(s, k)[i]
  BY <1>5, <1>6, <1>7
<1>9. a \o b = Without(s, k)
  BY <1>5, <1>7, <1>8, SeqEqual
<1> QED
  BY <1>4, <1>9

LEMMA UnlinkHeld ==
  ASSUME NEW V, NEW l, NEW path, NEW items, Held(V, l, path, items), NEW k \in 1..Len(path)
  PROVE  /\ Held(V, Unlink(l, path, k), Without(path, k), Without(items, k))
         /\ Unlink(l, path, k).used = l.used
         /\ ToSet(Without(path, k)) = ToSet(path) \ {path[k]}
         /\ path[k] \in ToSet(path)
<1> DEFINE m == Unlink(l, path, k)
<1>1. /\ l \in Memories(V) /\ Chain(l, path) /\ items \in Seq(V) /\ Len(items) = Len(path)
      /\ \A i \in 1..Len(path) : l.value[path[i]] = items[i]
  BY DEF Held
<1>2. /\ m \in Memories(V) /\ m.value = l.value /\ m.used = l.used /\ Chain(m, Without(path, k))
      /\ \A i \in 1..Len(Without(path, k)) : Without(path, k)[i] # path[k]
  BY <1>1, UnlinkChain
<1> HIDE DEF m
<1>3. path \in Seq(Nodes) /\ Len(path) \in Nat /\ DOMAIN path = 1..Len(path)
  BY <1>1, ChainFits
<1>4. /\ Without(path, k) \in Seq(Nodes) /\ Len(Without(path, k)) = Len(path) - 1
      /\ \A i \in 1..(Len(path) - 1) : Without(path, k)[i] = IF i < k THEN path[i] ELSE path[i + 1]
  BY <1>3, WithoutSeq
<1>5. /\ Without(items, k) \in Seq(V) /\ Len(Without(items, k)) = Len(path) - 1
      /\ \A i \in 1..(Len(path) - 1) : Without(items, k)[i] = IF i < k THEN items[i] ELSE items[i + 1]
  BY <1>1, WithoutSeq
<1>6. \A i \in 1..(Len(path) - 1) : m.value[Without(path, k)[i]] = Without(items, k)[i]
  <2> SUFFICES ASSUME NEW i \in 1..(Len(path) - 1) PROVE m.value[Without(path, k)[i]] = Without(items, k)[i]
    OBVIOUS
  <2>1. i \in 1..Len(path) /\ i + 1 \in 1..Len(path)
    BY <1>3
  <2> QED
    BY <1>1, <1>2, <1>4, <1>5, <2>1
<1>7. Held(V, m, Without(path, k), Without(items, k))
  BY <1>2, <1>4, <1>5, <1>6 DEF Held
<1>8. ToSet(Without(path, k)) = ToSet(path) \ {path[k]}
  <2>1. IsInjective(path)
    BY <1>1, <1>3 DEF Chain, IsInjective
  <2> QED
    BY <1>3, <2>1, WithoutOnce
<1> QED
  BY <1>2, <1>3, <1>7, <1>8 DEF ToSet, m

(* A node that is taken out is lost unless it is freed. *)
LEMMA UnlinkLost ==
  ASSUME NEW V, NEW l, NEW path, NEW items, Held(V, l, path, items), NEW k \in 1..Len(path)
  PROVE  Lost(Unlink(l, path, k)) = Lost(l) + 1
<1> DEFINE m == Unlink(l, path, k)
<1>1. /\ Held(V, m, Without(path, k), Without(items, k)) /\ m.used = l.used
      /\ ToSet(Without(path, k)) = ToSet(path) \ {path[k]} /\ path[k] \in ToSet(path)
  BY UnlinkHeld
<1> HIDE DEF m
<1>2. /\ ToSet(path) \subseteq l.used /\ IsFiniteSet(l.used)
      /\ Lost(l) = Cardinality(l.used \ ToSet(path)) /\ Lost(l) \in Nat
  BY HeldRead
<1>3. Lost(m) = Cardinality(m.used \ ToSet(Without(path, k)))
  BY <1>1, HeldRead
<1>4. m.used \ ToSet(Without(path, k)) = (l.used \ ToSet(path)) \cup {path[k]}
  BY <1>1, <1>2
<1>5. IsFiniteSet(l.used \ ToSet(path)) /\ path[k] \notin l.used \ ToSet(path)
  BY <1>1, <1>2, FS_Subset
<1>6. Cardinality((l.used \ ToSet(path)) \cup {path[k]}) = Cardinality(l.used \ ToSet(path)) + 1
  BY <1>5, FS_AddElement
<1> QED
  BY <1>2, <1>3, <1>4, <1>6 DEF m

LEMMA UnlinkFreed ==
  ASSUME NEW V, NEW l, NEW path, NEW items, Held(V, l, path, items), NEW k \in 1..Len(path)
  PROVE  /\ Held(V, Free(Unlink(l, path, k), path[k]), Without(path, k), Without(items, k))
         /\ Lost(Free(Unlink(l, path, k), path[k])) = Lost(l)
<1> DEFINE m == Unlink(l, path, k)
           f == Free(m, path[k])
<1>1. /\ Held(V, m, Without(path, k), Without(items, k)) /\ m.used = l.used
      /\ ToSet(Without(path, k)) = ToSet(path) \ {path[k]} /\ path[k] \in ToSet(path)
  BY UnlinkHeld
<1> HIDE DEF m
<1>2. /\ m \in Memories(V) /\ Chain(m, Without(path, k))
      /\ Without(items, k) \in Seq(V) /\ Len(Without(items, k)) = Len(Without(path, k))
      /\ \A i \in 1..Len(Without(path, k)) : m.value[Without(path, k)[i]] = Without(items, k)[i]
  BY <1>1 DEF Held
<1>3. \A i \in 1..Len(Without(path, k)) : Without(path, k)[i] # path[k]
  <2>1. DOMAIN Without(path, k) = 1..Len(Without(path, k))
    BY <1>2 DEF Chain
  <2> QED
    BY <1>1, <2>1 DEF ToSet
<1>4. f \in Memories(V) /\ Chain(f, Without(path, k)) /\ f.value = m.value /\ f.used = m.used \ {path[k]}
  BY <1>2, <1>3, FreeChain
<1> HIDE DEF f
<1>5. Held(V, f, Without(path, k), Without(items, k))
  BY <1>2, <1>4 DEF Held
<1>6. Lost(f) = Cardinality(f.used \ ToSet(Without(path, k))) /\ Lost(l) = Cardinality(l.used \ ToSet(path))
  BY <1>5, HeldRead
<1>7. f.used \ ToSet(Without(path, k)) = l.used \ ToSet(path)
  BY <1>1, <1>4
<1> QED
  BY <1>5, <1>6, <1>7 DEF f, m

LEMMA RemoveFirstWithout ==
  ASSUME NEW S, NEW s \in Seq(S), NEW e, NEW k \in 1..Len(s), s[k] = e,
         \A j \in 1..Len(s) : s[j] = e => k <= j
  PROVE  RemoveFirst(s, e) = Without(s, k) /\ Contains(s, e)
<1> DEFINE I == {i \in 1..Len(s) : s[i] = e}
<1>1. k \in I /\ \A j \in I : k <= j
  OBVIOUS
<1>2. \A j \in I : j \in Nat
  OBVIOUS
<1> HIDE DEF I
<1>3. Min(I) = k
  <2>1. \E x \in I : \A y \in I : x <= y
    BY <1>1
  <2>2. Min(I) \in I /\ \A y \in I : Min(I) <= y
    BY <2>1 DEF Min
  <2>3. k <= Min(I) /\ Min(I) <= k /\ Min(I) \in Nat /\ k \in Nat
    BY <1>1, <1>2, <2>2
  <2> QED
    BY <2>3
<1>4. SelectInSeq(s, LAMBDA v : v = e) = k
  BY <1>1, <1>3 DEF SelectInSeq, I
<1>5. RemoveFirst(s, e) = RemoveAt(s, k)
  BY <1>4 DEF RemoveFirst
<1> QED
  BY <1>5, RemoveAtWithout DEF Contains

LEMMA TailWithout ==
  ASSUME NEW S, NEW s \in Seq(S), s # << >>
  PROVE  Len(s) \in Nat \ {0} /\ Tail(s) = Without(s, 1) /\ Front(s) = Without(s, Len(s))
<1>1. Len(s) \in Nat \ {0} /\ 1 \in 1..Len(s) /\ Len(s) \in 1..Len(s)
  BY EmptySeq
<1>2. /\ Without(s, 1) \in Seq(S) /\ Len(Without(s, 1)) = Len(s) - 1
      /\ \A i \in 1..(Len(s) - 1) : Without(s, 1)[i] = IF i < 1 THEN s[i] ELSE s[i + 1]
  BY <1>1, WithoutSeq
<1>3. /\ Without(s, Len(s)) \in Seq(S) /\ Len(Without(s, Len(s))) = Len(s) - 1
      /\ \A i \in 1..(Len(s) - 1) : Without(s, Len(s))[i] = IF i < Len(s) THEN s[i] ELSE s[i + 1]
  BY <1>1, WithoutSeq
<1>4. Tail(s) = Without(s, 1)
  <2>1. /\ Tail(s) \in Seq(S) /\ Len(Tail(s)) = Len(s) - 1
        /\ \A i \in 1..Len(Tail(s)) : Tail(s)[i] = s[i + 1]
    BY HeadTailProperties
  <2>2. \A i \in 1..Len(Tail(s)) : Tail(s)[i] = Without(s, 1)[i]
    BY <1>2, <2>1
  <2> QED
    BY <1>2, <2>1, <2>2, SeqEqual
<1>5. Front(s) = Without(s, Len(s))
  <2>1. 1 \in Int /\ Len(s) - 1 \in Int /\ \A i \in 1..(Len(s) - 1) : s[i] \in S
    BY <1>1
  <2>2. /\ Front(s) \in Seq(S) /\ Len(Front(s)) = IF 1 <= Len(s) - 1 THEN (Len(s) - 1) - 1 + 1 ELSE 0
        /\ \A i \in 1..((Len(s) - 1) - 1 + 1) : Front(s)[i] = s[1 + i - 1]
    BY <2>1, SubSeqProperties DEF Front
  <2> DEFINE n == Len(s) - 1
             f == Front(s)
  <2> HIDE DEF f
  <2>3. n \in Nat /\ Len(f) = IF 1 <= n THEN n - 1 + 1 ELSE 0
    BY <1>1, <2>2 DEF f
  <2>6. \A i \in 1..(n - 1 + 1) : f[i] = s[1 + i - 1]
    BY <2>2 DEF f
  <2> HIDE DEF n
  <2>7. Len(f) = n
    <3>1. 1 <= n \/ n = 0
      BY <2>3
    <3> QED
      BY <2>3, <3>1
  <2>4. \A i \in 1..n : f[i] = s[i]
    <3> TAKE i \in 1..n
    <3>1. i \in 1..(n - 1 + 1) /\ 1 + i - 1 = i
      BY <2>3
    <3>2. f[i] = s[1 + i - 1]
      BY <2>6, <3>1
    <3> QED
      BY <3>1, <3>2
  <2>5. \A i \in 1..(Len(s) - 1) : Without(s, Len(s))[i] = s[i]
    BY <1>1, <1>3
  <2> QED
    <3>1. f \in Seq(S) /\ Len(f) = Len(Without(s, Len(s)))
      BY <1>3, <2>2, <2>7 DEF f, n
    <3>2. \A i \in 1..Len(f) : f[i] = Without(s, Len(s))[i]
      BY <2>4, <2>5, <2>7 DEF n
    <3> QED
      BY <1>3, <3>1, <3>2, SeqEqual DEF f
<1> QED
  BY <1>1, <1>4, <1>5

(* What a list and a promise have in common: the list holds the promised   *)
(* items, and has lost as many nodes as was promised.                      *)
Holding(V, l, p) == Lost(l) = p.lost /\ \E path : Held(V, l, path, p.items)

LEMMA HoldingKeeps ==
  ASSUME NEW V, NEW l, NEW p, Holding(V, l, p)
  PROVE  Keeps(l, p)
<1>1. PICK path : Held(V, l, path, p.items)
  BY DEF Holding
<1>2. /\ Path(l) = path /\ list_get_array(l) = p.items /\ list_get_count(l) = Len(p.items)
      /\ ToSet(path) \subseteq l.used
  BY <1>1, HeldRead
<1>3. \A num \in 0..Len(p.items) :
        list_get_element(l, num) = IF num < Len(p.items) THEN p.items[num + 1] ELSE NONE
  BY <1>2 DEF list_get_element
<1> QED
  BY <1>2, <1>3 DEF Keeps, Holding

Ops(V) ==
  {Op(name, v) : name \in Adding \cup {"remove_value"}, v \in V}
    \cup {Op("remove_beginning", NONE), Op("remove_end", NONE)}
    \cup {Op("remove_element", num) : num \in Nat}

(* What adding a node after or before the others does. *)
Grown(V, l, v, n, m) ==
  /\ n \in Nodes /\ n \notin l.used
  /\ m \in Memories(V) /\ m.used = l.used \cup {n} /\ m.value = [l.value EXCEPT ![n] = v]
Extended(s, e, t) == t = Append(s, e) \/ t = << e >> \o s
SameEnd(s, e, t, s2, e2, t2) ==
  \/ t = Append(s, e) /\ t2 = Append(s2, e2)
  \/ t = << e >> \o s /\ t2 = << e2 >> \o s2

LEMMA ExtendedSeq ==
  ASSUME NEW S, NEW s \in Seq(S), NEW e, NEW t, Extended(s, e, t)
  PROVE  Len(s) \in Nat /\ t \in Seq(S \cup {e}) /\ Len(t) = Len(s) + 1
         /\ \A x : x \in ToSet(t) <=> x \in ToSet(s) \/ x = e
<1>1. Len(s) \in Nat /\ s \in Seq(S \cup {e}) /\ << e >> \in Seq(S \cup {e}) /\ Len(<< e >>) = 1
      /\ DOMAIN s = 1..Len(s)
  OBVIOUS
<1>2. CASE t = Append(s, e)
  <2>1. t \in Seq(S \cup {e}) /\ Len(t) = Len(s) + 1 /\ DOMAIN t = 1..(Len(s) + 1)
    BY <1>1, <1>2
  <2>2. t[Len(s) + 1] = e /\ \A i \in 1..Len(s) : t[i] = s[i]
    BY <1>1, <1>2
  <2>3. \A i \in 1..(Len(s) + 1) : i \in 1..Len(s) \/ i = Len(s) + 1
    BY <1>1
  <2>4. Len(s) + 1 \in 1..(Len(s) + 1) /\ \A i \in 1..Len(s) : i \in 1..(Len(s) + 1)
    BY <1>1
  <2>5. \A i \in DOMAIN t : t[i] \in ToSet(s) \cup {e}
    BY <1>1, <2>1, <2>2, <2>3 DEF ToSet
  <2>6. e \in ToSet(t) /\ \A i \in DOMAIN s : s[i] \in ToSet(t)
    BY <1>1, <2>1, <2>2, <2>4 DEF ToSet
  <2> QED
    BY <1>1, <2>1, <2>5, <2>6 DEF ToSet
<1>3. CASE t = << e >> \o s
  <2>1. t \in Seq(S \cup {e}) /\ Len(t) = Len(s) + 1
    <3>1. t \in Seq(S \cup {e}) /\ Len(t) = 1 + Len(s)
      BY <1>1, <1>3, ConcatProperties
    <3> QED
      BY <1>1, <3>1
  <2>2. DOMAIN t = 1..(Len(s) + 1)
    BY <2>1
  <2>3. t[1] = e /\ \A i \in 1..Len(s) : t[i + 1] = s[i]
    BY <1>1, <1>3
  <2>4. 1 \in 1..(Len(s) + 1) /\ \A i \in 1..Len(s) : i + 1 \in 1..(Len(s) + 1)
    BY <1>1
  <2>5. ASSUME NEW i \in DOMAIN t PROVE t[i] \in ToSet(s) \cup {e}
    <3>1. CASE i # 1
      <4>1. i - 1 \in 1..Len(s) /\ (i - 1) + 1 = i
        BY <1>1, <2>2, <3>1
      <4>2. t[i] = s[i - 1]
        BY <2>3, <4>1
      <4> QED
        BY <1>1, <4>1, <4>2 DEF ToSet
    <3> QED
      BY <2>3, <3>1
  <2>6. e \in ToSet(t) /\ \A i \in DOMAIN s : s[i] \in ToSet(t)
    BY <1>1, <2>2, <2>3, <2>4 DEF ToSet
  <2> QED
    BY <1>1, <2>1, <2>5, <2>6 DEF ToSet
<1> QED
  BY <1>2, <1>3 DEF Extended

LEMMA AddedHeld ==
  ASSUME NEW V, NEW l, NEW path, NEW items, Held(V, l, path, items), NEW v \in V,
         NEW n, NEW m, Grown(V, l, v, n, m), NEW q, Chain(m, q),
         NEW more, SameEnd(path, n, q, items, v, more)
  PROVE  Held(V, m, q, more) /\ Lost(m) = Lost(l)
<1>0. /\ n \in Nodes /\ n \notin l.used
      /\ m \in Memories(V) /\ m.used = l.used \cup {n} /\ m.value = [l.value EXCEPT ![n] = v]
  BY DEF Grown
<1>1. /\ l \in Memories(V) /\ Chain(l, path) /\ items \in Seq(V) /\ Len(items) = Len(path)
      /\ \A i \in 1..Len(path) : l.value[path[i]] = items[i]
  BY DEF Held
<1>2. /\ Len(path) \in Nat /\ path \in [1..Len(path) -> Nodes] /\ path \in [1..Len(path) -> l.used]
      /\ DOMAIN path = 1..Len(path) /\ path \in Seq(l.used)
  BY <1>1, ChainFits DEF Chain
<1>3. \A i \in 1..Len(path) : m.value[path[i]] = items[i]
  <2>1. l.value \in [Nodes -> V \cup {NONE}]
    BY <1>1 DEF Memories
  <2>2. \A i \in 1..Len(path) : path[i] \in Nodes /\ path[i] # n
    BY <1>0, <1>2
  <2> QED
    BY <1>0, <1>1, <2>1, <2>2
<1>4. m.value[n] = v
  BY <1>0, <1>1 DEF Memories
<1>5. more \in Seq(V) /\ Len(more) = Len(path) + 1 /\ Len(q) = Len(path) + 1
      /\ ToSet(q) = ToSet(path) \cup {n}
  <2>1. Extended(path, n, q) /\ Extended(items, v, more)
    BY DEF Extended, SameEnd
  <2>2. more \in Seq(V \cup {v}) /\ Len(more) = Len(items) + 1
    BY <1>1, <2>1, ExtendedSeq
  <2>0. path \in Seq(l.used)
    BY <1>2
  <2>3. Len(q) = Len(path) + 1 /\ \A x : x \in ToSet(q) <=> x \in ToSet(path) \/ x = n
    BY <2>0, <2>1, ExtendedSeq
  <2>5. ToSet(q) = ToSet(path) \cup {n}
    BY <2>3
  <2>4. V \cup {v} = V
    OBVIOUS
  <2> QED
    BY <1>1, <2>2, <2>3, <2>4, <2>5
<1>6. \A i \in 1..Len(q) : m.value[q[i]] = more[i]
  <2>1. CASE q = Append(path, n) /\ more = Append(items, v)
    <3>1. /\ q[Len(path) + 1] = n /\ more[Len(path) + 1] = v
          /\ \A i \in 1..Len(path) : q[i] = path[i] /\ more[i] = items[i]
      BY <1>1, <1>2, <2>1
    <3>2. \A i \in 1..Len(q) : i \in 1..Len(path) \/ i = Len(path) + 1
      BY <1>2, <1>5
    <3> QED
      BY <1>3, <1>4, <3>1, <3>2
  <2>2. CASE q = << n >> \o path /\ more = << v >> \o items
    <3>1. /\ q[1] = n /\ more[1] = v
          /\ \A i \in 1..Len(path) : q[i + 1] = path[i] /\ more[i + 1] = items[i]
      BY <1>1, <1>2, <2>2
    <3>2. ASSUME NEW i \in 1..Len(q), i # 1 PROVE m.value[q[i]] = more[i]
      <4>1. i - 1 \in 1..Len(path) /\ (i - 1) + 1 = i
        BY <1>2, <1>5, <3>2
      <4>2. q[i] = path[i - 1] /\ more[i] = items[i - 1]
        BY <3>1, <4>1
      <4> QED
        BY <1>3, <4>1, <4>2
    <3> QED
      BY <1>4, <3>1, <3>2
  <2> QED
    BY <2>1, <2>2 DEF SameEnd
<1>7. Held(V, m, q, more)
  BY <1>0, <1>5, <1>6 DEF Held
<1>8. Lost(m) = Cardinality(m.used \ ToSet(q)) /\ Lost(l) = Cardinality(l.used \ ToSet(path))
  BY <1>7, HeldRead
<1>9. m.used \ ToSet(q) = l.used \ ToSet(path)
  BY <1>0, <1>5
<1> QED
  BY <1>7, <1>8, <1>9

LEMMA AddsHold ==
  ASSUME NEW V, NEW l, NEW p, Holding(V, l, p), NEW op, NEW v \in V, op.arg = v,
         op.name \in Adding, HasMemory(l)
  PROVE  Holding(V, Do(l, op), Promised(p, op))
<1>1. PICK path : Held(V, l, path, p.items)
  BY DEF Holding
<1>2. l \in Memories(V) /\ Chain(l, path)
  BY <1>1 DEF Held
<1>3. CASE op.name = "add_end"
  <2> DEFINE n == Malloc(l)
             m == list_add_end(l, v)
  <2>1. /\ n \in Nodes /\ n \notin l.used
        /\ m \in Memories(V) /\ m.used = l.used \cup {n}
        /\ m.value = [l.value EXCEPT ![n] = v]
        /\ Chain(m, Append(path, n))
    BY <1>2, AddEndChain
  <2>2. Do(l, op) = m /\ Promised(p, op) = Promise(Append(p.items, v), p.lost)
    BY <1>3 DEF Do, Promised
  <2> HIDE DEF n, m
  <2> DEFINE q == Append(path, n)
             more == Append(p.items, v)
  <2>3. /\ Chain(m, q) /\ Grown(V, l, v, n, m)
        /\ SameEnd(path, n, q, p.items, v, more)
    BY <2>1 DEF Grown, SameEnd
  <2> HIDE DEF q, more
  <2>4. Held(V, m, q, more) /\ Lost(m) = Lost(l)
    BY <1>1, <2>3, AddedHeld
  <2> QED
    BY <2>2, <2>4 DEF Holding, Promise, q, more
<1>4. CASE op.name = "add_beginning"
  <2> DEFINE n == Malloc(l)
             m == list_add_beginning(l, v)
  <2>1. /\ n \in Nodes /\ n \notin l.used
        /\ m \in Memories(V) /\ m.used = l.used \cup {n}
        /\ m.value = [l.value EXCEPT ![n] = v]
        /\ Chain(m, << n >> \o path)
    BY <1>2, AddBeginningChain
  <2>2. Do(l, op) = m /\ Promised(p, op) = Promise(<< v >> \o p.items, p.lost)
    BY <1>4 DEF Do, Promised
  <2> HIDE DEF n, m
  <2> DEFINE q == << n >> \o path
             more == << v >> \o p.items
  <2>3. /\ Chain(m, q) /\ Grown(V, l, v, n, m)
        /\ SameEnd(path, n, q, p.items, v, more)
    BY <2>1 DEF Grown, SameEnd
  <2> HIDE DEF q, more
  <2>4. Held(V, m, q, more) /\ Lost(m) = Lost(l)
    BY <1>1, <2>3, AddedHeld
  <2> QED
    BY <2>2, <2>4 DEF Holding, Promise, q, more
<1> QED
  BY <1>3, <1>4 DEF Adding

(* What list_remove_value does to the items, and which node it loses.      *)
LEMMA RemoveValueHolds ==
  ASSUME NEW V, NEW l, NEW p, Holding(V, l, p), NEW op, op.name = "remove_value",
         op.arg # NONE
  PROVE  Holding(V, Do(l, op), Promised(p, op))
<1> DEFINE v == op.arg
<1>1. PICK path : Held(V, l, path, p.items)
  BY DEF Holding
<1> DEFINE at == {i \in DOMAIN path : l.value[path[i]] = v}
<1>2. /\ Do(l, op) = list_remove_value(l, v)
      /\ Promised(p, op) =
           Promise(RemoveFirst(p.items, v), IF Contains(p.items, v) THEN p.lost + 1 ELSE p.lost)
  BY DEF Do, Promised
<1>3. Path(l) = path /\ Lost(l) = p.lost
  BY <1>1, HeldRead DEF Holding
<1>4. /\ l \in Memories(V) /\ Chain(l, path) /\ p.items \in Seq(V) /\ Len(p.items) = Len(path)
      /\ \A i \in 1..Len(path) : l.value[path[i]] = p.items[i]
  BY <1>1 DEF Held
<1>5. DOMAIN path = 1..Len(path) /\ Len(path) \in Nat
  BY <1>4, ChainFits
<1>6. CASE at = {}
  <2>1. list_remove_value(l, v) = l
    BY <1>3, <1>6 DEF list_remove_value
  <2>2. \A i \in 1..Len(p.items) : p.items[i] # v
    BY <1>4, <1>5, <1>6
  <2>3. RemoveFirst(p.items, v) = p.items /\ ~Contains(p.items, v)
    BY <2>2 DEF RemoveFirst, Contains
  <2> QED
    BY <1>1, <1>2, <1>3, <2>1, <2>3 DEF Holding, Promise
<1>7. CASE at # {}
  <2> DEFINE k == CHOOSE i \in at : \A j \in at : i <= j
  <2>1. list_remove_value(l, v) = Unlink(l, path, k)
    BY <1>3, <1>7 DEF list_remove_value
  <2>2. \E i \in at : \A j \in at : i <= j
    <3>1. at \subseteq Nat /\ at # {}
      BY <1>5, <1>7
    <3> HIDE DEF at
    <3> QED
      BY <3>1, Smallest
  <2>3. k \in at /\ \A j \in at : k <= j
    BY <2>2
  <2> HIDE DEF k
  <2>4. /\ k \in 1..Len(path) /\ k \in 1..Len(p.items) /\ p.items[k] = v
        /\ \A j \in 1..Len(p.items) : p.items[j] = v => k <= j
    BY <1>4, <1>5, <2>3
  <2>5. RemoveFirst(p.items, v) = Without(p.items, k) /\ Contains(p.items, v)
    BY <1>4, <2>4, RemoveFirstWithout
  <2>6. /\ Held(V, Unlink(l, path, k), Without(path, k), Without(p.items, k))
        /\ Lost(Unlink(l, path, k)) = Lost(l) + 1
    BY <1>1, <2>4, UnlinkHeld, UnlinkLost
  <2> QED
    BY <1>2, <1>3, <2>1, <2>5, <2>6 DEF Holding, Promise
<1> QED
  BY <1>6, <1>7

(* The removals at the ends and by index. *)
LEMMA RemovalsHold ==
  ASSUME NEW V, NEW l, NEW p, Holding(V, l, p), NEW op,
         \/ op.name = "remove_beginning" \/ op.name = "remove_end"
         \/ op.name = "remove_element" /\ op.arg \in Nat
  PROVE  Holding(V, Do(l, op), Promised(p, op))
<1>1. PICK path : Held(V, l, path, p.items)
  BY DEF Holding
<1>2. Path(l) = path /\ Lost(l) = p.lost
  BY <1>1, HeldRead DEF Holding
<1>3. /\ l \in Memories(V) /\ Chain(l, path) /\ p.items \in Seq(V) /\ Len(p.items) = Len(path)
  BY <1>1 DEF Held
<1>4. /\ DOMAIN path = 1..Len(path) /\ Len(path) \in Nat /\ path \in [1..Len(path) -> Nodes]
      /\ path \in Seq(l.used)
  BY <1>3, ChainFits DEF Chain
<1>5. l.first = NodeAt(path, 1) /\ \A i \in 1..Len(path) : l.next[path[i]] = NodeAt(path, i + 1)
  BY <1>3 DEF Chain
<1>6. /\ path = << >> <=> Len(path) = 0
      /\ p.items = << >> <=> Len(path) = 0
  BY <1>3, <1>4, EmptySeq
<1>7. \A k \in 1..Len(path) :
        /\ Held(V, Unlink(l, path, k), Without(path, k), Without(p.items, k))
        /\ Lost(Unlink(l, path, k)) = Lost(l) + 1
        /\ Held(V, Free(Unlink(l, path, k), path[k]), Without(path, k), Without(p.items, k))
        /\ Lost(Free(Unlink(l, path, k), path[k])) = Lost(l)
  BY <1>1, UnlinkHeld, UnlinkLost, UnlinkFreed
<1>8. CASE op.name = "remove_beginning"
  <2>1. /\ Do(l, op) = list_remove_beginning(l)
        /\ Promised(p, op) = IF p.items = << >> THEN p ELSE Promise(Tail(p.items), p.lost)
    BY <1>8 DEF Do, Promised
  <2>2. CASE Len(path) = 0
    <3>1. l.first = NONE
      BY <1>5, <2>2 DEF NodeAt
    <3> QED
      BY <1>1, <1>2, <1>6, <2>1, <2>2, <3>1 DEF list_remove_beginning, Holding
  <2>3. CASE Len(path) # 0
    <3>1. 1 \in 1..Len(path) /\ l.first = path[1] /\ l.first # NONE
      BY <1>4, <1>5, <2>3, NodesAssumption DEF NodeAt
    <3>2. Do(l, op) = Free(Unlink(l, path, 1), path[1])
      BY <1>2, <2>1, <3>1 DEF list_remove_beginning
    <3>3. Promised(p, op) = Promise(Without(p.items, 1), p.lost)
      BY <1>3, <1>6, <2>1, <2>3, TailWithout
    <3> QED
      BY <1>2, <1>7, <3>1, <3>2, <3>3 DEF Holding, Promise
  <2> QED
    BY <2>2, <2>3
<1>9. CASE op.name = "remove_end"
  <2>1. /\ Do(l, op) = list_remove_end(l)
        /\ Promised(p, op) = IF p.items = << >> THEN p ELSE Promise(Front(p.items), p.lost)
    BY <1>9 DEF Do, Promised
  <2>2. CASE Len(path) = 0
    BY <1>1, <1>2, <1>6, <2>1, <2>2 DEF list_remove_end, Holding
  <2>3. CASE Len(path) # 0
    <3>1. Len(path) \in 1..Len(path) /\ Len(path) + 1 \notin 1..Len(path)
      BY <1>4, <2>3
    <3>2. l.next[path[Len(path)]] = NONE
      BY <1>5, <3>1 DEF NodeAt
    <3>3. Do(l, op) = Free(Unlink(l, path, Len(path)), path[Len(path)])
      BY <1>2, <1>6, <2>1, <2>3, <3>2 DEF list_remove_end, Unlink
    <3>4. Promised(p, op) = Promise(Without(p.items, Len(path)), p.lost)
      BY <1>3, <1>6, <2>1, <2>3, TailWithout
    <3> QED
      BY <1>2, <1>7, <3>1, <3>3, <3>4 DEF Holding, Promise
  <2> QED
    BY <2>2, <2>3
<1>10. CASE op.name = "remove_element" /\ op.arg \in Nat
  <2> DEFINE num == op.arg
  <2>1. /\ Do(l, op) = list_remove_element(l, num)
        /\ Promised(p, op) =
             IF num >= Len(p.items) THEN p
             ELSE Promise(RemoveAt(p.items, num + 1), IF num = 0 THEN p.lost + 1 ELSE p.lost)
    BY <1>10 DEF Do, Promised
  <2> HIDE DEF num
  <2>2. num \in Nat
    BY <1>10 DEF num
  <2>3. CASE num >= Len(path)
    BY <1>1, <1>2, <1>3, <2>1, <2>3 DEF list_remove_element, Holding
  <2>4. CASE ~(num >= Len(path))
    <3>1. num + 1 \in 1..Len(path) /\ num + 1 \in 1..Len(p.items)
      BY <1>3, <1>4, <2>2, <2>4
    <3>2. RemoveAt(p.items, num + 1) = Without(p.items, num + 1)
      BY <1>3, <3>1, RemoveAtWithout
    <3>3. Promised(p, op) = Promise(Without(p.items, num + 1), IF num = 0 THEN p.lost + 1 ELSE p.lost)
      BY <1>3, <2>1, <2>4, <3>2
    <3>4. Do(l, op) = IF num = 0 THEN Unlink(l, path, num + 1)
                      ELSE Free(Unlink(l, path, num + 1), path[num + 1])
      BY <1>2, <2>1, <2>4 DEF list_remove_element
    <3>5. /\ Held(V, Unlink(l, path, num + 1), Without(path, num + 1), Without(p.items, num + 1))
          /\ Lost(Unlink(l, path, num + 1)) = Lost(l) + 1
          /\ Held(V, Free(Unlink(l, path, num + 1), path[num + 1]), Without(path, num + 1), Without(p.items, num + 1))
          /\ Lost(Free(Unlink(l, path, num + 1), path[num + 1])) = Lost(l)
      BY <1>7, <3>1
    <3>6. CASE num = 0
      BY <1>2, <3>3, <3>4, <3>5, <3>6 DEF Holding, Promise
    <3>7. CASE num # 0
      BY <1>2, <3>3, <3>4, <3>5, <3>7 DEF Holding, Promise
    <3> QED
      BY <3>6, <3>7
  <2> QED
    BY <2>3, <2>4
<1> QED
  BY <1>8, <1>9, <1>10

(* Every operation returns what was promised. *)
LEMMA ReturnHolds ==
  ASSUME NEW V, NEW l, NEW p, Holding(V, l, p), NEW op \in Ops(V)
  PROVE  Returned(l, op) = ReturnPromised(p, op)
<1>1. PICK path : Held(V, l, path, p.items)
  BY DEF Holding
<1>2. /\ Path(l) = path /\ list_get_array(l) = p.items /\ list_get_count(l) = Len(p.items)
  BY <1>1, HeldRead
<1>3. /\ Chain(l, path) /\ p.items \in Seq(V) /\ Len(p.items) = Len(path)
      /\ l \in Memories(V) /\ \A i \in 1..Len(path) : l.value[path[i]] = p.items[i]
  BY <1>1 DEF Held
<1>4. Len(path) \in Nat /\ path \in [1..Len(path) -> Nodes]
  BY <1>3, ChainFits
<1>5. /\ path = << >> <=> Len(path) = 0
      /\ p.items = << >> <=> Len(path) = 0
  BY <1>3, <1>4, EmptySeq DEF Chain
<1>6. CASE op.name = "remove_beginning"
  <2>1. /\ Returned(l, op) = IF l.first = NONE THEN NONE ELSE l.value[l.first]
        /\ ReturnPromised(p, op) = IF p.items = << >> THEN NONE ELSE Head(p.items)
    BY <1>6 DEF Returned, ReturnPromised
  <2>2. l.first = NodeAt(path, 1)
    BY <1>3 DEF Chain
  <2>3. CASE Len(path) = 0
    BY <1>5, <2>1, <2>2, <2>3 DEF NodeAt
  <2>4. CASE Len(path) # 0
    <3>1. 1 \in 1..Len(path) /\ l.first = path[1] /\ path[1] \in Nodes
      BY <1>4, <2>2, <2>4 DEF NodeAt
    <3>2. Head(p.items) = p.items[1]
      OBVIOUS
    <3> QED
      BY <1>3, <1>5, <2>1, <2>4, <3>1, <3>2, NodesAssumption
  <2> QED
    BY <2>3, <2>4
<1>7. CASE op.name = "remove_end"
  <2>1. /\ Returned(l, op) = IF path = << >> THEN NONE ELSE l.value[path[Len(path)]]
        /\ ReturnPromised(p, op) = IF p.items = << >> THEN NONE ELSE p.items[Len(p.items)]
    BY <1>2, <1>7 DEF Returned, ReturnPromised, Last
  <2>2. Len(path) # 0 => Len(path) \in 1..Len(path)
    BY <1>4
  <2> QED
    BY <1>3, <1>5, <2>1, <2>2
<1>8. CASE op.name = "remove_value"
  <2>1. list_contains(l, op.arg) <=> Contains(p.items, op.arg)
    <3>1. DOMAIN p.items = 1..Len(p.items)
      BY <1>3
    <3> QED
      BY <1>2, <3>1 DEF list_contains, Contains
  <2> QED
    BY <1>8, <2>1 DEF Returned, ReturnPromised
<1>9. CASE op.name = "remove_element" /\ op.arg \in Nat
  <2>1. Len(p.items) \in Nat
    BY <1>3
  <2>2. op.arg < Len(p.items) <=> ~(op.arg >= Len(p.items))
    BY <1>9, <2>1
  <2>3. /\ Returned(l, op) = list_get_element(l, op.arg)
        /\ ReturnPromised(p, op) = IF op.arg >= Len(p.items) THEN NONE ELSE p.items[op.arg + 1]
    BY <1>9 DEF Returned, ReturnPromised
  <2> QED
    BY <1>2, <2>2, <2>3 DEF list_get_element
<1>10. CASE op.name \in Adding
  BY <1>10 DEF Adding, Returned, ReturnPromised
<1> QED
  BY <1>6, <1>7, <1>8, <1>9, <1>10 DEF Ops, Op

(* One operation of list.c keeps one promise of list.h.                    *)
LEMMA OperationHolds ==
  ASSUME NEW V, NONE \notin V, NEW l, NEW p, Holding(V, l, p), NEW op \in Ops(V), op.name \in Adding => HasMemory(l)
  PROVE  Holding(V, Do(l, op), Promised(p, op))
<1>1. \/ op.name \in Adding /\ op.arg \in V
      \/ op.name = "remove_value" /\ op.arg # NONE
      \/ op.name = "remove_beginning" \/ op.name = "remove_end"
      \/ op.name = "remove_element" /\ op.arg \in Nat
  BY DEF Ops, Op
<1> QED
  BY <1>1, AddsHold, RemoveValueHolds, RemovalsHold

(* So does any sequence of them, however long, on any list that is whole   *)
(* and of any values but the null pointer: it holds and has returned what  *)
(* list.h promises.  When asked to remove the null pointer,                *)
(* list_remove_value goes on behind the first one it finds.                *)
THEOREM ListsKeepPromises ==
  ASSUME NEW V, NONE \notin V, NEW l, NEW path, NEW items, Held(V, l, path, items), NEW ops \in Seq(Ops(V))
  PROVE  KeepsPromise(l, ops)
<1> DEFINE n == Len(ops)
           start == [list |-> l, promise |-> Promise(list_get_array(l), Lost(l))]
           Unfolds(g, m) == g = [i \in 0..m |-> IF i = 0 THEN start ELSE Both(g[i - 1], ops[i])]
           f == CHOOSE g : Unfolds(g, n)
           HadMemory == \A i \in 1..n : ops[i].name \in Adding => HasMemory(f[i - 1].list)
           AllReturned == \A i \in 1..n : Returned(f[i - 1].list, ops[i]) = ReturnPromised(f[i - 1].promise, ops[i])
<1>1. n \in Nat /\ \A i \in 1..n : ops[i] \in Ops(V)
  OBVIOUS
<1>2. KeepsPromise(l, ops) <=> (HadMemory => Keeps(f[n].list, f[n].promise) /\ AllReturned)
  BY DEF KeepsPromise
<1>3. Holding(V, start.list, start.promise)
  <2>1. start.list = l /\ start.promise.items = list_get_array(l) /\ start.promise.lost = Lost(l)
    BY DEF Promise
  <2>2. list_get_array(l) = items
    BY HeldRead
  <2> QED
    BY <2>1, <2>2 DEF Holding
<1> HIDE DEF n, start
<1>4. \E g : Unfolds(g, n)
  <2> DEFINE S == {m \in 0..n : \E g : Unfolds(g, m)}
  <2>1. 0 \in S
    <3> DEFINE g == [i \in 0..0 |-> start]
    <3>1. Unfolds(g, 0)
      OBVIOUS
    <3> HIDE DEF g, Unfolds
    <3> QED
      BY <1>1, <3>1
  <2>2. ASSUME NEW m \in 0..(n - 1), m \in S PROVE m + 1 \in S
    <3>1. PICK g : Unfolds(g, m)
      BY <2>2
    <3> DEFINE h == [i \in 0..(m + 1) |-> IF i <= m THEN g[i] ELSE Both(g[m], ops[m + 1])]
    <3>2. m \in Nat /\ m + 1 \in 0..n
      BY <1>1
    <3>3. ASSUME NEW i \in 0..(m + 1) PROVE h[i] = IF i = 0 THEN start ELSE Both(h[i - 1], ops[i])
      <4>1. CASE i = 0
        BY <3>1, <3>2, <4>1
      <4>2. CASE i # 0 /\ i <= m
        <5>1. i \in 0..m /\ i - 1 \in 0..(m + 1) /\ i - 1 <= m
          BY <3>2, <4>2
        <5>2. h[i] = g[i] /\ h[i - 1] = g[i - 1]
          BY <4>2, <5>1
        <5>3. g[i] = Both(g[i - 1], ops[i])
          BY <3>1, <4>2, <5>1
        <5> QED
          BY <4>2, <5>2, <5>3
      <4>3. CASE i = m + 1
        <5>1. ~(i <= m) /\ i - 1 = m /\ m \in 0..(m + 1) /\ i # 0
          BY <3>2, <4>3
        <5>2. h[i] = Both(g[m], ops[m + 1]) /\ h[m] = g[m]
          BY <3>2, <5>1
        <5> QED
          BY <4>3, <5>1, <5>2
      <4> QED
        BY <3>2, <4>1, <4>2, <4>3
    <3>4. Unfolds(h, m + 1)
      <4>1. h = [i \in 0..(m + 1) |-> h[i]]
        OBVIOUS
      <4> HIDE DEF h
      <4> QED
        BY <3>3, <4>1
    <3> HIDE DEF h, Unfolds
    <3> QED
      BY <3>2, <3>4
  <2>3. n \in S
    <3> HIDE DEF S
    <3>1. 0..n \subseteq S
      BY <1>1, <2>1, <2>2, IntervalInduction
    <3> QED
      BY <1>1, <3>1
  <2> QED
    BY <2>3
<1>5. Unfolds(f, n)
  BY <1>4
<1> HIDE DEF f
<1>6. ASSUME HadMemory PROVE \A i \in 0..n : Holding(V, f[i].list, f[i].promise)
  <2> DEFINE S == {i \in 0..n : Holding(V, f[i].list, f[i].promise)}
  <2>1. 0 \in S
    <3>1. f[0] = start
      BY <1>1, <1>5
    <3> QED
      BY <1>1, <1>3, <3>1
  <2>2. ASSUME NEW i \in 0..(n - 1), i \in S PROVE i + 1 \in S
    <3>1. i + 1 \in 0..n /\ i + 1 \in 1..n /\ (i + 1) - 1 = i /\ i + 1 # 0
      BY <1>1
    <3>2. f[i + 1] = Both(f[i], ops[i + 1])
      BY <1>5, <3>1
    <3>3. ops[i + 1].name \in Adding => HasMemory(f[i].list)
      BY <1>6, <3>1
    <3>4. Holding(V, Do(f[i].list, ops[i + 1]), Promised(f[i].promise, ops[i + 1]))
      BY <1>1, <2>2, <3>1, <3>3, OperationHolds
    <3> QED
      BY <3>1, <3>2, <3>4 DEF Both
  <2> HIDE DEF S
  <2>3. 0..n \subseteq S
    BY <1>1, <2>1, <2>2, IntervalInduction
  <2> QED
    BY <1>1, <2>3 DEF S
<1>7. ASSUME HadMemory PROVE AllReturned
  <2> SUFFICES ASSUME NEW i \in 1..n
               PROVE  Returned(f[i - 1].list, ops[i]) = ReturnPromised(f[i - 1].promise, ops[i])
    OBVIOUS
  <2>1. i - 1 \in 0..n
    BY <1>1
  <2> QED
    BY <1>1, <1>6, <1>7, <2>1, ReturnHolds
<1>8. ASSUME HadMemory PROVE Keeps(f[n].list, f[n].promise)
  <2>1. n \in 0..n
    BY <1>1
  <2> QED
    BY <1>6, <1>8, <2>1, HoldingKeeps
<1> QED
  BY <1>2, <1>7, <1>8

(***************************************************************************)
(* The server's registers                                                  *)
(***************************************************************************)
Listed == ToSet(list_get_array(new_users))

(* A new element at the end of a sequence repeats none.                    *)
Appended(s, e, t) == t = Append(s, e)

LEMMA AppendedOnce ==
  ASSUME NEW S, NEW s \in Seq(S), IsInjective(s), NEW e \in S, e \notin ToSet(s),
         NEW t, Appended(s, e, t)
  PROVE  IsInjective(t) /\ ToSet(t) = ToSet(s) \cup {e}
<1>1. Len(s) \in Nat /\ DOMAIN s = 1..Len(s)
  OBVIOUS
<1>2. Extended(s, e, t)
  BY DEF Extended, Appended
<1>3. \A x : x \in ToSet(t) <=> x \in ToSet(s) \/ x = e
  BY <1>2, ExtendedSeq
<1>4. /\ DOMAIN t = 1..(Len(s) + 1) /\ t[Len(s) + 1] = e
      /\ \A i \in 1..Len(s) : t[i] = s[i]
  BY DEF Appended
<1>5. \A i \in 1..Len(s) : t[i] # e
  BY <1>1, <1>4 DEF ToSet
<1>6. \A i \in 1..(Len(s) + 1) : i \in 1..Len(s) \/ i = Len(s) + 1
  BY <1>1
<1>7. IsInjective(t)
  BY <1>1, <1>4, <1>5, <1>6 DEF IsInjective
<1>8. ToSet(t) = ToSet(s) \cup {e}
  BY <1>3
<1> QED
  BY <1>7, <1>8

(* A list that is whole and holds each of its values once.                 *)
Whole(V, l) ==
  /\ \E path : Held(V, l, path, list_get_array(l))
  /\ IsInjective(list_get_array(l))

LEMMA CreatedWhole ==
  ASSUME NEW V
  PROVE  Whole(V, list_create) /\ ToSet(list_get_array(list_create)) = {}
<1> DEFINE l == list_create
<1>1. l \in Memories(V)
  BY DEF list_create, Memories
<1>2. /\ << >> \in Seq(l.used) /\ << >> \in Seq(V) /\ Len(<< >>) = 0 /\ 1..0 = {}
      /\ NodeAt(<< >>, 1) = NONE /\ l.first = NONE /\ DOMAIN << >> = {}
  BY DEF NodeAt, list_create
<1>3. Held(V, l, << >>, << >>)
  BY <1>1, <1>2 DEF Held, Chain
<1>4. list_get_array(l) = << >>
  BY <1>3, HeldRead
<1> QED
  BY <1>2, <1>3, <1>4 DEF Whole, IsInjective, ToSet

(* What a list operation does to a whole list, as other code sees it.      *)
LEMMA AddedWhole ==
  ASSUME NEW V, NONE \notin V, NEW l, Whole(V, l), HasMemory(l), NEW v \in V, v \notin ToSet(list_get_array(l))
  PROVE  /\ Whole(V, list_add_end(l, v))
         /\ ToSet(list_get_array(list_add_end(l, v))) = ToSet(list_get_array(l)) \cup {v}
<1> DEFINE items == list_get_array(l)
           m == list_add_end(l, v)
           p == Promise(items, Lost(l))
           more == Append(items, v)
           op == Op("add_end", v)
<1>1. PICK path : Held(V, l, path, items)
  BY DEF Whole
<1>2. Holding(V, l, p) /\ op \in Ops(V) /\ op.name = "add_end" /\ op.arg = v
  BY <1>1 DEF Holding, Promise, Op, Ops, Adding
<1>3. Holding(V, Do(l, op), Promised(p, op))
  BY <1>2, OperationHolds
<1>4. Do(l, op) = m /\ Promised(p, op) = Promise(more, Lost(l))
  BY <1>2 DEF Do, Promised, Promise
<1> HIDE DEF m, p, op, items, more
<1>5. PICK path2 : Held(V, m, path2, more)
  BY <1>3, <1>4 DEF Holding, Promise
<1>6. list_get_array(m) = more
  BY <1>5, HeldRead
<1>7. items \in Seq(V) /\ IsInjective(items) /\ v \notin ToSet(items) /\ Appended(items, v, more)
  BY <1>1 DEF Held, Whole, Appended, items, more
<1>8. IsInjective(more) /\ ToSet(more) = ToSet(items) \cup {v}
  BY <1>7, AppendedOnce
<1> QED
  BY <1>5, <1>6, <1>8 DEF Whole, m, items

LEMMA RemovedWhole ==
  ASSUME NEW V, NONE \notin V, NEW l, Whole(V, l), NEW v \in ToSet(list_get_array(l))
  PROVE  /\ Whole(V, list_remove_value(l, v))
         /\ ToSet(list_get_array(list_remove_value(l, v))) = ToSet(list_get_array(l)) \ {v}
<1> DEFINE items == list_get_array(l)
           m == list_remove_value(l, v)
           p == Promise(items, Lost(l))
           op == Op("remove_value", v)
<1>1. PICK path : Held(V, l, path, items)
  BY DEF Whole
<1>2. items \in Seq(V) /\ Len(items) \in Nat /\ DOMAIN items = 1..Len(items) /\ IsInjective(items)
  BY <1>1 DEF Held, Whole
<1>3. PICK k \in 1..Len(items) : items[k] = v
  BY <1>2 DEF ToSet
<1>4. v \in V
  BY <1>2, <1>3
<1>5. Holding(V, l, p) /\ op \in Ops(V) /\ op.name = "remove_value" /\ op.arg = v /\ op.name \notin Adding
  BY <1>1, <1>4 DEF Holding, Promise, Op, Ops, Adding
<1>6. Holding(V, Do(l, op), Promised(p, op))
  BY <1>5, OperationHolds
<1>7. Do(l, op) = m /\ Promised(p, op).items = RemoveFirst(items, v)
  BY <1>5 DEF Do, Promised, Promise
<1> HIDE DEF m, p, op, items
<1>8. PICK path2 : Held(V, m, path2, RemoveFirst(items, v))
  BY <1>6, <1>7 DEF Holding
<1>9. list_get_array(m) = RemoveFirst(items, v)
  BY <1>8, HeldRead
<1>10. \A j \in 1..Len(items) : items[j] = v => k <= j
  BY <1>2, <1>3 DEF IsInjective
<1>11. RemoveFirst(items, v) = Without(items, k)
  BY <1>2, <1>3, <1>10, RemoveFirstWithout
<1>12. IsInjective(Without(items, k)) /\ ToSet(Without(items, k)) = ToSet(items) \ {v}
  BY <1>2, <1>3, WithoutOnce
<1> QED
  BY <1>8, <1>9, <1>11, <1>12 DEF Whole, m, items

(***************************************************************************)
(* The invariant of the registers                                          *)
(***************************************************************************)

(* The sessions whose socket is open, and that are in neither register.    *)
Kinds    == OnList \cup {"none", "store", "close"}
Carrying == {"add", "store", "close"}
Carried  == IF task.kind \in Carrying THEN {task.who} ELSE {}

(* The main loop is at the bottom of the stack, and in the list only for a *)
(* task of that kind.  What is above it never goes back to the loop.       *)
Frozen ==
  /\ stack[1].who = Main /\ stack[1].pc # "exit"
  /\ \A i \in 2..Depth : stack[i].who # Main /\ stack[i].pc # "away"
  /\ stack[1].pc # "away" => task.kind \in OnList

Registers ==
  /\ Whole(Sessions, new_users)
  /\ Listed \cap old_users = {} /\ Listed \cup old_users \subseteq Sessions
  /\ open = Listed \cup old_users \cup Carried
  /\ task.kind \in Kinds
  /\ task.kind \in {"login", "drop"} => task.who \in Listed
  /\ task.kind \in Carrying => task.who \in Sessions \ (Listed \cup old_users)
  /\ task.kind = "add" => HasMemory(new_users)

(* Nothing is closed by a handler before there is one, and all that is in  *)
(* the registers before it exits.                                          *)
Closed ==
  /\ closed \subseteq open
  /\ Depth = 1 => closed = {}
  /\ Top.pc = "exit" => Listed \cup old_users \subseteq closed

RInv == IInv /\ Frozen /\ Registers /\ Closed

LEMMA InitialRegisters == Init_Registry => RInv
<1> SUFFICES ASSUME Init_Registry PROVE RInv
  OBVIOUS
<1>1. /\ Init /\ new_users = list_create /\ old_users = {} /\ open = {} /\ closed = {}
      /\ task.kind = "none"
  BY DEF Init_Registry, NoTask, Task
<1>2. stack = << [who |-> Main, pc |-> "away"] >>
  BY <1>1 DEF Init, Frame
<1>3. Len(stack) = 1 /\ stack[1].who = Main /\ stack[1].pc = "away" /\ 2..1 = {}
  BY <1>2
<1>4. Frozen
  BY <1>3 DEF Frozen, Depth
<1>5. Whole(Sessions, new_users) /\ Listed = {}
  BY <1>1, CreatedWhole DEF Listed
<1>6. Registers
  BY <1>1, <1>5 DEF Registers, Carried, Carrying, Kinds, OnList
<1>7. Closed
  BY <1>1, <1>3 DEF Closed, Top, Depth
<1> QED
  BY <1>1, <1>4, <1>6, <1>7, Initial DEF RInv

(* Where the main loop runs, nothing is above it.                          *)
LEMMA MainAlone ==
  ASSUME IInv, Frozen, Top.who = Main \/ Top.pc = "away"
  PROVE  Depth = 1 /\ Top = stack[1]
<1>1. Depth \in Nat \ {0}
  BY DEF IInv, StackOK, Depth
<1>2. Depth # 1 => Depth \in 2..Depth
  BY <1>1
<1> QED
  BY <1>2 DEF Frozen, Top

(* A step of the frame on top leaves the others where they are.            *)
LEMMA MovedFrozen ==
  ASSUME IInv, Frozen, NEW pc \in {"away", "lock", "take", "inside", "exit"}, Goto(pc),
         pc = "away" => Top.who = Main,
         pc = "exit" => Top.who # Main,
         Top.who = Main /\ pc # "away" => task'.kind \in OnList,
         Top.who # Main => task' = task
  PROVE  Frozen' /\ Depth' = Depth /\ Top'.pc = pc
<1>1. Depth \in Nat \ {0}
  BY DEF IInv, StackOK, Depth
<1>2. /\ Depth' = Depth /\ Top'.pc = pc /\ Top'.who = Top.who
      /\ \A i \in 1..(Depth - 1) : stack'[i] = stack[i]
  BY Moved DEF IInv
<1>3. stack'[Depth].pc = pc /\ stack'[Depth].who = stack[Depth].who
  BY <1>2 DEF Top
<1>4. CASE Depth = 1
  <2>1. Top = stack[1] /\ stack[1].who = Main /\ 2..Depth = {}
    BY <1>1, <1>4 DEF Top, Frozen
  <2> QED
    BY <1>2, <1>3, <1>4, <2>1 DEF Frozen
<1>5. CASE Depth # 1
  <2>1. Depth \in 2..Depth /\ 1 \in 1..(Depth - 1) /\ \A i \in 2..Depth : i \in 1..(Depth - 1) \/ i = Depth
    BY <1>1, <1>5
  <2>2. Top.who # Main
    BY <2>1 DEF Top, Frozen
  <2>3. stack'[1] = stack[1] /\ task' = task
    BY <1>2, <2>1, <2>2
  <2>4. \A i \in 2..Depth : stack'[i].who # Main /\ stack'[i].pc # "away"
    BY <1>2, <1>3, <2>1, <2>2 DEF Frozen, Top
  <2> QED
    BY <1>2, <2>3, <2>4 DEF Frozen
<1> QED
  BY <1>4, <1>5, <1>2

(* What is left of the registers' invariant when they are not touched.     *)
LEMMA RegistersKept ==
  ASSUME Registers, Closed, UNCHANGED rvars,
         Depth' = Depth \/ (Depth' = Depth + 1 /\ Depth \in Nat \ {0}),
         Top'.pc = "exit" => Top.pc = "exit"
  PROVE  Registers' /\ Closed'
<1>1. /\ new_users' = new_users /\ old_users' = old_users /\ open' = open /\ task' = task
      /\ closed' = closed /\ Listed' = Listed /\ Carried' = Carried
  BY DEF rvars, Listed, Carried
<1>2. Registers'
  BY <1>1 DEF Registers
<1>3. Depth' = 1 => Depth = 1
  OBVIOUS
<1>4. Closed'
  BY <1>1, <1>3 DEF Closed
<1> QED
  BY <1>2, <1>4

LEMMA StillFrozen ==
  ASSUME Frozen, stack' = stack, stack[1].pc # "away" => task'.kind \in OnList
  PROVE  Frozen' /\ Depth' = Depth /\ Top' = Top
BY DEF Frozen, Depth, Top

(* The main loop begins something: looping, it is alone.                   *)
LEMMA Begins ==
  ASSUME RInv, Looping, UNCHANGED <<vars, new_users, closed>>, Registers', closed' \subseteq open'
  PROVE  RInv'
<1>1. Depth = 1 /\ Top = stack[1] /\ Top.pc = "away"
  BY MainAlone DEF RInv, Looping, At
<1>2. Frozen' /\ Top' = Top /\ Depth' = Depth
  BY <1>1, StillFrozen DEF RInv, vars
<1>3. IInv'
  BY DEF RInv, IInv, StackOK, OneInside, Inside, Top, Depth, vars
<1>4. Closed'
  BY <1>1, <1>2 DEF Closed, RInv
<1> QED
  BY <1>2, <1>3, <1>4 DEF RInv

LEMMA LoopingTask == ASSUME Looping, Registers PROVE Carried = {} /\ open = Listed \cup old_users
BY DEF Looping, NoTask, Task, Carried, Carrying, Registers

LEMMA CopiesKeeps == ASSUME RInv, Copies PROVE RInv'
<1>1. /\ Looping /\ UNCHANGED <<vars, new_users, old_users, open, closed>> /\ task'.kind = "list"
  BY DEF Copies, Task
<1>2. Listed' = Listed /\ Carried' = {} /\ open = Listed \cup old_users
  BY <1>1, LoopingTask DEF RInv, Listed, Carried, Carrying
<1>3. Registers'
  BY <1>1, <1>2 DEF Registers, RInv, Kinds, OnList, Carrying
<1>4. closed' \subseteq open'
  BY <1>1 DEF RInv, Closed
<1> QED
  BY <1>1, <1>3, <1>4, Begins

LEMMA AcceptsKeeps == ASSUME RInv, NEW u \in Sessions, Accepts(u) PROVE RInv'
<1>1. /\ Looping /\ UNCHANGED <<vars, new_users, old_users, closed>>
      /\ task'.kind = "add" /\ task'.who = u /\ open' = open \cup {u}
      /\ u \notin open /\ HasMemory(new_users)
  BY DEF Accepts, Task
<1>2. Listed' = Listed /\ Carried' = {u} /\ open = Listed \cup old_users
  BY <1>1, LoopingTask DEF RInv, Listed, Carried, Carrying
<1>3. Registers'
  BY <1>1, <1>2 DEF Registers, RInv, Kinds, OnList, Carrying
<1>4. closed' \subseteq open'
  BY <1>1 DEF RInv, Closed
<1> QED
  BY <1>1, <1>3, <1>4, Begins

LEMMA InListed == ASSUME NEW u PROVE InList(u) <=> u \in Listed
BY DEF InList, list_contains, Listed, ToSet

LEMMA LeavesListKeeps ==
  ASSUME RInv, NEW u \in Sessions, LogsIn(u) \/ LosesNew(u)
  PROVE  RInv'
<1>1. /\ Looping /\ UNCHANGED <<vars, new_users, old_users, open, closed>>
      /\ task'.kind \in {"login", "drop"} /\ task'.who = u /\ u \in Listed
  BY InListed DEF LogsIn, LosesNew, Task
<1>2. Listed' = Listed /\ Carried' = {} /\ open = Listed \cup old_users
  BY <1>1, LoopingTask DEF RInv, Listed, Carried, Carrying
<1>3. Registers'
  BY <1>1, <1>2 DEF Registers, RInv, Kinds, OnList, Carrying
<1>4. closed' \subseteq open'
  BY <1>1 DEF RInv, Closed
<1> QED
  BY <1>1, <1>3, <1>4, Begins

LEMMA LosesOldKeeps == ASSUME RInv, NEW u \in Sessions, LosesOld(u) PROVE RInv'
<1>1. /\ Looping /\ UNCHANGED <<vars, new_users, open, closed>>
      /\ task'.kind = "close" /\ task'.who = u
      /\ u \in old_users /\ old_users' = old_users \ {u}
  BY DEF LosesOld, Task
<1>2. Listed' = Listed /\ Carried' = {u} /\ open = Listed \cup old_users
  BY <1>1, LoopingTask DEF RInv, Listed, Carried, Carrying
<1>3. Registers'
  BY <1>1, <1>2 DEF Registers, RInv, Kinds, OnList, Carrying
<1>4. closed' \subseteq open'
  BY <1>1 DEF RInv, Closed
<1> QED
  BY <1>1, <1>3, <1>4, Begins

(* The steps of the lock.                                                  *)
LEMMA CallsListKeeps == ASSUME RInv, CallsList PROVE RInv'
<1>1. Call /\ Goto("lock") /\ Top.pc = "away" /\ UNCHANGED rvars /\ task.kind \in OnList
  BY DEF CallsList, Call, At
<1>2. Frozen' /\ Depth' = Depth /\ Top'.pc = "lock"
  BY <1>1, MovedFrozen DEF RInv, rvars
<1>3. Registers' /\ Closed'
  BY <1>1, <1>2, RegistersKept DEF RInv
<1> QED
  BY <1>1, <1>2, <1>3, StepKeeps DEF RInv, Step

LEMMA LocksKeeps == ASSUME RInv, Locks PROVE RInv'
<1>1. UNCHANGED rvars /\ task' = task
  BY DEF Locks, rvars
<1>2. PICK pc \in {"take", "inside"} : Goto(pc)
  BY DEF Locks, TestLock, TakeLock
<1>3. Top.pc \in {"lock", "take"}
  BY DEF Locks, TestLock, TakeLock, At
<1>4. Top.who = Main => task.kind \in OnList
  BY <1>3, MainAlone DEF RInv, Frozen
<1>5. Frozen' /\ Depth' = Depth /\ Top'.pc = pc
  BY <1>1, <1>2, <1>4, MovedFrozen DEF RInv
<1>6. Registers' /\ Closed'
  BY <1>1, <1>2, <1>5, RegistersKept DEF RInv
<1> QED
  BY <1>5, <1>6, StepKeeps DEF RInv, Locks, Step

LEMMA ExitsKeeps == ASSUME RInv, Exits PROVE RInv'
<1>1. UNCHANGED rvars /\ stack' = stack /\ task' = task
  BY DEF Exits, Exit, rvars
<1>2. Frozen' /\ Depth' = Depth /\ Top' = Top
  BY <1>1, StillFrozen DEF RInv, Frozen
<1>3. Registers' /\ Closed'
  BY <1>1, <1>2, RegistersKept DEF RInv
<1> QED
  BY <1>2, <1>3, StepKeeps DEF RInv, Exits, Step

LEMMA SignalsKeep == ASSUME RInv, NEW s \in Caught, Signal(s), UNCHANGED rvars PROVE RInv'
<1>1. task' = task
  BY DEF rvars
<1>2. CASE stack' = stack
  <2>1. Frozen' /\ Depth' = Depth /\ Top' = Top
    BY <1>1, <1>2, StillFrozen DEF RInv, Frozen
  <2>2. Registers' /\ Closed'
    BY <2>1, RegistersKept DEF RInv
  <2> QED
    BY <2>1, <2>2, SignalKeeps DEF RInv
<1>3. CASE stack' = Append(stack, Frame(s, "lock"))
  <2>1. Depth \in Nat \ {0} /\ stack \in Seq(Frames) /\ Frame(s, "lock") \in Frames
    BY DEF RInv, IInv, StackOK, Depth, Frame, Frames
  <2>2. /\ Depth' = Depth + 1 /\ stack'[Depth + 1] = Frame(s, "lock")
        /\ \A i \in 1..Depth : stack'[i] = stack[i]
    BY <1>3, <2>1, AppendProperties DEF Depth
  <2>3. Top'.pc = "lock" /\ stack'[Depth + 1].who # Main /\ stack'[Depth + 1].pc = "lock"
    BY <2>2, MainAssumption DEF Top, Frame
  <2>4. stack'[1] = stack[1] /\ \A i \in 2..Depth' : i \in 2..Depth \/ i = Depth + 1
    BY <2>1, <2>2
  <2>5. \A i \in 2..Depth : stack'[i] = stack[i]
    BY <2>1, <2>2
  <2>6. Frozen'
    BY <1>1, <2>3, <2>4, <2>5 DEF RInv, Frozen
  <2>7. Registers' /\ Closed'
    BY <2>1, <2>2, <2>3, RegistersKept DEF RInv
  <2> QED
    BY <2>6, <2>7, SignalKeeps DEF RInv
<1> QED
  BY <1>2, <1>3 DEF Signal

(* The handler closes what it finds.                                       *)
LEMMA HandlerUnlocksKeeps == ASSUME RInv, HandlerUnlocks PROVE RInv'
<1>1. /\ Unlock /\ Top.who # Main /\ Goto("exit")
      /\ closed' = closed \cup Listed \cup old_users
      /\ UNCHANGED <<new_users, old_users, open, task>>
  BY DEF HandlerUnlocks, Unlock, Listed
<1>2. Frozen' /\ Depth' = Depth /\ Top'.pc = "exit"
  BY <1>1, MovedFrozen DEF RInv
<1>3. Listed' = Listed /\ Carried' = Carried /\ Registers'
  BY <1>1 DEF RInv, Registers, Listed, Carried
<1>4. Depth # 1
  BY <1>1 DEF RInv, Frozen, Top
<1>5. Closed'
  BY <1>1, <1>2, <1>3, <1>4 DEF RInv, Registers, Closed
<1> QED
  BY <1>1, <1>2, <1>3, <1>5, StepKeeps DEF RInv, Step

(* The main loop has the list changed.                                     *)
LEMMA MainUnlocksKeeps == ASSUME RInv, MainUnlocks PROVE RInv'
<1>1. /\ Unlock /\ Goto("away") /\ Top.who = Main /\ Top.pc = "inside"
      /\ new_users' = AfterOperation /\ task' = NextTask
      /\ UNCHANGED <<old_users, open, closed>>
  BY DEF MainUnlocks, Unlock, At
<1>2. Depth = 1 /\ Top = stack[1] /\ task.kind \in OnList
  BY <1>1, MainAlone DEF RInv, Frozen
<1>3. Frozen' /\ Depth' = Depth /\ Top'.pc = "away"
  BY <1>1, MovedFrozen DEF RInv
<1>4. /\ Whole(Sessions, new_users)
      /\ Listed \cap old_users = {} /\ Listed \cup old_users \subseteq Sessions
      /\ open = Listed \cup old_users \cup Carried
  BY DEF RInv, Registers
<1>5. Listed' = ToSet(list_get_array(new_users'))
  BY DEF Listed
<1>6. Registers'
  <2>1. CASE task.kind = "list"
    <3>1. new_users' = new_users /\ task'.kind = "none"
      BY <1>1, <2>1 DEF AfterOperation, NextTask, NoTask, Task
    <3>2. Listed' = Listed /\ Carried = {} /\ Carried' = {}
      BY <2>1, <3>1 DEF Listed, Carried, Carrying
    <3> QED
      BY <1>1, <1>4, <3>1, <3>2 DEF Registers, Kinds, OnList, Carrying
  <2>2. CASE task.kind = "add"
    <3>1. task.who \in Sessions \ (Listed \cup old_users) /\ HasMemory(new_users) /\ Carried = {task.who}
      BY <2>2 DEF RInv, Registers, Carrying, Carried
    <3>2. new_users' = list_add_end(new_users, task.who) /\ task'.kind = "none"
      BY <1>1, <2>2 DEF AfterOperation, NextTask, NoTask, Task
    <3>3. Whole(Sessions, new_users') /\ Listed' = Listed \cup {task.who}
      BY <1>4, <1>5, <3>1, <3>2, SessionsAssumption, AddedWhole DEF Listed
    <3>4. Carried' = {}
      BY <3>2 DEF Carried, Carrying
    <3> QED
      BY <1>1, <1>4, <3>1, <3>2, <3>3, <3>4 DEF Registers, Kinds, OnList, Carrying
  <2>3. CASE task.kind \in {"login", "drop"}
    <3>1. task.who \in Listed /\ Carried = {}
      BY <2>3 DEF RInv, Registers, Carrying, Carried
    <3>2. new_users' = list_remove_value(new_users, task.who)
          /\ task'.kind \in {"store", "close"} /\ task'.who = task.who
      BY <1>1, <2>3 DEF AfterOperation, NextTask, NoTask, Task
    <3>3. Whole(Sessions, new_users') /\ Listed' = Listed \ {task.who}
      BY <1>4, <1>5, <3>1, <3>2, SessionsAssumption, RemovedWhole DEF Listed
    <3>4. Carried' = {task.who}
      BY <3>2 DEF Carried, Carrying
    <3>5. task'.kind \notin {"login", "drop", "add"} /\ task'.kind \in Kinds
      BY <3>2 DEF Kinds
    <3> QED
      BY <1>1, <1>4, <3>1, <3>2, <3>3, <3>4, <3>5 DEF Registers
  <2> QED
    BY <1>2, <2>1, <2>2, <2>3 DEF OnList
<1>7. Closed'
  BY <1>1, <1>2, <1>3 DEF RInv, Closed
<1> QED
  BY <1>1, <1>3, <1>6, <1>7, StepKeeps DEF RInv, Step

(* It stores the session in the table, or closes its socket.               *)
LEMMA StoresKeeps == ASSUME RInv, Stores PROVE RInv'
<1>1. /\ Top.pc = "away" /\ task.kind = "store" /\ task'.kind = "none"
      /\ old_users' = old_users \cup {task.who}
      /\ UNCHANGED <<vars, new_users, open, closed>>
  BY DEF Stores, At, NoTask, Task
<1>2. Depth = 1 /\ Top = stack[1]
  BY <1>1, MainAlone DEF RInv
<1>3. Frozen' /\ Top' = Top /\ Depth' = Depth
  BY <1>1, <1>2, StillFrozen DEF RInv, vars
<1>4. Listed' = Listed /\ Carried = {task.who} /\ Carried' = {}
  BY <1>1 DEF Listed, Carried, Carrying
<1>5. task.who \in Sessions \ (Listed \cup old_users)
  BY <1>1 DEF RInv, Registers, Carrying
<1>6. Registers'
  BY <1>1, <1>4, <1>5 DEF RInv, Registers, Kinds, OnList, Carrying
<1>7. Closed'
  BY <1>1, <1>2, <1>3 DEF RInv, Closed
<1>8. IInv'
  BY <1>1 DEF RInv, IInv, StackOK, OneInside, Inside, Top, Depth, vars
<1> QED
  BY <1>3, <1>6, <1>7, <1>8 DEF RInv

LEMMA ClosesKeeps == ASSUME RInv, Closes PROVE RInv'
<1>1. /\ Top.pc = "away" /\ task.kind = "close" /\ task'.kind = "none"
      /\ open' = open \ {task.who}
      /\ UNCHANGED <<vars, new_users, old_users, closed>>
  BY DEF Closes, At, NoTask, Task
<1>2. Depth = 1 /\ Top = stack[1]
  BY <1>1, MainAlone DEF RInv
<1>3. Frozen' /\ Top' = Top /\ Depth' = Depth
  BY <1>1, <1>2, StillFrozen DEF RInv, vars
<1>4. Listed' = Listed /\ Carried = {task.who} /\ Carried' = {}
  BY <1>1 DEF Listed, Carried, Carrying
<1>5. task.who \in Sessions \ (Listed \cup old_users)
  BY <1>1 DEF RInv, Registers, Carrying
<1>6. Registers'
  BY <1>1, <1>4, <1>5 DEF RInv, Registers, Kinds, OnList, Carrying
<1>7. Closed'
  BY <1>1, <1>2, <1>3 DEF RInv, Closed
<1>8. IInv'
  BY <1>1 DEF RInv, IInv, StackOK, OneInside, Inside, Top, Depth, vars
<1> QED
  BY <1>3, <1>6, <1>7, <1>8 DEF RInv

LEMMA UntouchedKeeps == ASSUME RInv, UNCHANGED <<vars, rvars>> PROVE RInv'
<1>1. UNCHANGED rvars /\ stack' = stack /\ task' = task
  BY DEF vars, rvars
<1>2. Frozen' /\ Depth' = Depth /\ Top' = Top
  BY <1>1, StillFrozen DEF RInv, Frozen
<1>3. Registers' /\ Closed'
  BY <1>1, <1>2, RegistersKept DEF RInv
<1>4. IInv'
  BY DEF RInv, IInv, StackOK, OneInside, Inside, Top, Depth, vars
<1> QED
  BY <1>2, <1>3, <1>4 DEF RInv

LEMMA RegistryInvariance == RegistrySpec => []RInv
<1>1. RInv /\ [Next_Registry]_<<vars, rvars>> => RInv'
  <2> SUFFICES ASSUME RInv, [Next_Registry]_<<vars, rvars>> PROVE RInv'
    OBVIOUS
  <2>1. CASE Step_Registry
    BY <2>1, CallsListKeeps, LocksKeeps, MainUnlocksKeeps, HandlerUnlocksKeeps, ExitsKeeps, StoresKeeps, ClosesKeeps
       DEF Step_Registry
  <2>2. CASE Copies
    BY <2>2, CopiesKeeps
  <2>3. ASSUME NEW u \in Sessions, Accepts(u) \/ LogsIn(u) \/ LosesNew(u) \/ LosesOld(u) PROVE RInv'
    BY <2>3, AcceptsKeeps, LeavesListKeeps, LosesOldKeeps
  <2>4. ASSUME NEW s \in Caught, Signal(s), UNCHANGED rvars PROVE RInv'
    BY <2>4, SignalsKeep
  <2>5. CASE UNCHANGED <<vars, rvars>>
    BY <2>5, UntouchedKeeps
  <2> QED
    BY <2>1, <2>2, <2>3, <2>4, <2>5 DEF Next_Registry
<1> QED
  BY <1>1, InitialRegisters, PTL DEF RegistrySpec

(* The lock keeps its users apart in the server too, whatever the          *)
(* operations under it do.                                                 *)
THEOREM ServerLockExcludes == RegistrySpec => []OneInside
<1>1. RInv => OneInside
  BY DEF RInv, IInv
<1> QED
  BY <1>1, RegistryInvariance, PTL

(* Wherever a signal strikes, die_gracefully exits with every open socket  *)
(* closed but that of the session the main loop was moving, and has closed *)
(* none twice.                                                             *)
THEOREM HandlerClosesAllOpen == RegistrySpec => []HandlerClosesAll
<1>1. RInv => HandlerClosesAll
  <2> SUFFICES ASSUME RInv PROVE HandlerClosesAll
    OBVIOUS
  <2>1. Carried \subseteq {task.who}
    BY DEF Carried
  <2> QED
    BY <2>1 DEF RInv, Registers, Closed, HandlerClosesAll, At
<1> QED
  BY <1>1, RegistryInvariance, PTL

(* Every session is in one register or on its way between them, and in the *)
(* list once.                                                              *)
THEOREM SessionsRegisteredOnce == RegistrySpec => []EachOnce
<1>1. RInv => EachOnce
  <2> SUFFICES ASSUME RInv PROVE EachOnce
    OBVIOUS
  <2>1. Carried \subseteq {task.who} /\ Registered = Listed \cup old_users
    BY DEF Carried, Registered, Listed
  <2>2. \A u \in Sessions : InList(u) => u \notin old_users
    BY InListed DEF RInv, Registers
  <2> QED
    BY <2>1, <2>2 DEF RInv, Registers, Whole, EachOnce
<1> QED
  BY <1>1, RegistryInvariance, PTL

(* Whatever is done to the list of new users, wherever the server has got  *)
(* to, it holds what list.h promises and no freed node is reached again.   *)
THEOREM NewUsersKeepPromise == RegistrySpec => []ListKeepsPromise
<1>1. RInv => ListKeepsPromise
  <2> SUFFICES ASSUME RInv PROVE ListKeepsPromise
    OBVIOUS
  <2>1. PICK path : Held(Sessions, new_users, path, list_get_array(new_users))
    BY DEF RInv, Registers, Whole
  <2>2. ListOps \subseteq Ops(Sessions)
    BY DEF ListOps, Ops
  <2>3. ASSUME NEW n \in 0..MaxOps, NEW ops \in [1..n -> ListOps] PROVE KeepsPromise(new_users, ops)
    <3>1. n \in Nat
      BY <2>3
    <3>2. ops \in [1..n -> Ops(Sessions)]
      BY <2>2
    <3>3. ops \in Seq(Ops(Sessions))
      BY <3>1, <3>2
    <3> QED
      BY <2>1, <3>3, SessionsAssumption, ListsKeepPromises
  <2> QED
    BY <2>3 DEF ListKeepsPromise
<1> QED
  BY <1>1, RegistryInvariance, PTL
=============================================================================
