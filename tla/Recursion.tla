------------------------------ MODULE Recursion ------------------------------
(***************************************************************************)
(* Induction over the natural numbers, and functions defined by recursion, *)
(* stated with sets and functions instead of predicates and operators: in  *)
(* this form the facts can be cited for any definition.                    *)
(***************************************************************************)
EXTENDS Integers, Sequences, WellFoundedInduction, TLAPS

(* Numbers have a smallest among them. *)
LEMMA Smallest ==
  ASSUME NEW S \in SUBSET Nat, S # {}
  PROVE  \E least \in S : \A n \in S : least <= n
<1> DEFINE Less == {ss \in Nat \X Nat : ss[1] < ss[2]}
<1>1. IsWellFoundedOn(Less, Nat)
  BY NatLessThanWellFounded DEF OpToRel
<1>2. PICK least \in S : \A n \in S : <<n, least>> \notin Less
  BY <1>1, WFMin
<1>3. \A n \in S : ~(n < least)
  BY <1>2
<1> QED
  BY <1>3

(* A set with 0 that has n + 1 whenever it has n holds every number.       *)
LEMMA SetInduction ==
  ASSUME NEW S, 0 \in S, \A n \in Nat : n \in S => n + 1 \in S
  PROVE  Nat \subseteq S
<1> DEFINE Left == Nat \ S
<1> SUFFICES ASSUME Left # {} PROVE FALSE
  OBVIOUS
<1>1. Left \subseteq Nat
  OBVIOUS
<1> HIDE DEF Left
<1>2. PICK least \in Left : \A n \in Left : least <= n
  BY <1>1, Smallest
<1>3. least \in Nat /\ least \notin S /\ least # 0
  BY DEF Left
<1>4. least - 1 \in Nat /\ least - 1 \notin Left
  BY <1>2, <1>3
<1> QED
  BY <1>3, <1>4 DEF Left

(* The same up to a bound. *)
LEMMA IntervalInduction ==
  ASSUME NEW n \in Nat, NEW S, 0 \in S, \A i \in 0..(n - 1) : i \in S => i + 1 \in S
  PROVE  0..n \subseteq S
<1> DEFINE T == {i \in Nat : i <= n => i \in S}
<1>1. 0 \in T /\ \A i \in Nat : i \in T => i + 1 \in T
  OBVIOUS
<1> HIDE DEF T
<1>2. Nat \subseteq T
  BY <1>1, SetInduction
<1> QED
  BY <1>2 DEF T

(* From a first value, one step after the other: there is a function with  *)
(* all the values up to n.                                                 *)
Steps(n, T) == [1..n -> [T -> T]]
Runs(f, n, T, first, step) ==
  f \in [0..n -> T] /\ f[0] = first /\ \A i \in 1..n : f[i] = step[i][f[i - 1]]

LEMMA RecursiveFunction ==
  ASSUME NEW n \in Nat, NEW T, NEW first \in T, NEW step \in Steps(n, T)
  PROVE  \E f : Runs(f, n, T, first, step)
<1> USE DEF Steps
<1> DEFINE Good(f, m) == f[0] = first /\ \A i \in 1..m : f[i] = step[i][f[i - 1]]
           S == {m \in 0..n : \E f \in [0..m -> T] : Good(f, m)}
<1>1. 0 \in S
  <2> DEFINE f == [i \in 0..0 |-> first]
  <2>1. f \in [0..0 -> T] /\ Good(f, 0)
    OBVIOUS
  <2>2. 0 \in 0..n
    OBVIOUS
  <2> HIDE DEF f, Good
  <2> QED
    BY <2>1, <2>2
<1>2. ASSUME NEW m \in 0..(n - 1), m \in S PROVE m + 1 \in S
  <2>1. PICK f \in [0..m -> T] : Good(f, m)
    BY <1>2
  <2> DEFINE g == [i \in 0..(m + 1) |-> IF i <= m THEN f[i] ELSE step[m + 1][f[m]]]
  <2>2. step[m + 1] \in [T -> T] /\ f[m] \in T
    OBVIOUS
  <2>3. g \in [0..(m + 1) -> T]
    BY <2>2
  <2>4. Good(g, m + 1)
    <3>1. g[0] = first
      BY <2>1
    <3>2. ASSUME NEW i \in 1..(m + 1), i <= m PROVE g[i] = step[i][g[i - 1]]
      <4>1. i \in 1..m /\ i \in 0..(m + 1) /\ i - 1 \in 0..(m + 1) /\ i - 1 <= m
        BY <3>2
      <4> QED
        BY <2>1, <3>2, <4>1
    <3>3. ASSUME NEW i \in 1..(m + 1), ~(i <= m) PROVE g[i] = step[i][g[i - 1]]
      <4>1. i = m + 1 /\ i - 1 = m
        BY <3>3
      <4> QED
        BY <4>1
    <3> HIDE DEF g
    <3> QED
      BY <3>1, <3>2, <3>3
  <2>5. m + 1 \in 0..n
    OBVIOUS
  <2> HIDE DEF g, Good
  <2> QED
    BY <2>3, <2>4, <2>5
<1>3. n \in S
  <2> HIDE DEF S
  <2>1. 0..n \subseteq S
    BY <1>1, <1>2, IntervalInduction
  <2> QED
    BY <2>1
<1> QED
  BY <1>3 DEF Runs

(* What holds at first and is passed on holds to the end. *)
LEMMA PassedOn ==
  ASSUME NEW n \in Nat, NEW T, NEW f, f[0] \in T, \A i \in 1..n : f[i - 1] \in T => f[i] \in T
  PROVE  \A i \in 0..n : f[i] \in T
<1> DEFINE S == {i \in 0..n : f[i] \in T}
<1>1. 0 \in S
  OBVIOUS
<1>2. \A i \in 0..(n - 1) : i \in S => i + 1 \in S
  <2> SUFFICES ASSUME NEW i \in 0..(n - 1), f[i] \in T PROVE i + 1 \in S
    OBVIOUS
  <2>1. i + 1 \in 1..n /\ i + 1 \in 0..n /\ (i + 1) - 1 = i
    OBVIOUS
  <2> QED
    BY <2>1
<1> HIDE DEF S
<1>3. 0..n \subseteq S
  BY <1>1, <1>2, IntervalInduction
<1> QED
  BY <1>3 DEF S

(* Two runs that start with the same value and take the same steps. *)
LEMMA SameRun ==
  ASSUME NEW n \in Nat, NEW f, NEW g, f[0] = g[0],
         \A i \in 1..n : f[i - 1] = g[i - 1] => f[i] = g[i]
  PROVE  f[n] = g[n]
<1> DEFINE S == {i \in 0..n : f[i] = g[i]}
<1>1. 0 \in S
  OBVIOUS
<1>2. \A i \in 0..(n - 1) : i \in S => i + 1 \in S
  <2> SUFFICES ASSUME NEW i \in 0..(n - 1), f[i] = g[i] PROVE i + 1 \in S
    OBVIOUS
  <2>1. i + 1 \in 1..n /\ i + 1 \in 0..n /\ (i + 1) - 1 = i
    OBVIOUS
  <2> QED
    BY <2>1
<1> HIDE DEF S
<1>3. 0..n \subseteq S
  BY <1>1, <1>2, IntervalInduction
<1> QED
  BY <1>3 DEF S
=============================================================================
