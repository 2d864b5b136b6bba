------------------------------ MODULE Recursion ------------------------------
(***************************************************************************)
(* Recursive functions over 0 .. n and induction over them, stated for sets    *)
(* and functions so that they can be cited where a recursive function of a      *)
(* model has to be reasoned about.                                             *)
(***************************************************************************)
EXTENDS Naturals, WellFoundedInduction, TLAPS

(* The order of the numbers, as a relation. *)
LEMMA LessThan == \A a, b \in Nat : <<a, b>> \in OpToRel(<, Nat) <=> a < b
BY Zenon DEF OpToRel

(* Induction up to n, over the set of the numbers that have a property. *)
LEMMA UpTo ==
    ASSUME NEW n \in Nat, NEW P, 0 \in P, \A i \in 1 .. n : i - 1 \in P => i \in P
    PROVE  \A i \in 0 .. n : i \in P
<1> SUFFICES ASSUME (0 .. n) \ P # {} PROVE FALSE
  OBVIOUS
<1>1. PICK i \in (0 .. n) \ P : \A j \in (0 .. n) \ P : ~ (j < i)
  <2>1. (0 .. n) \ P \subseteq Nat
    OBVIOUS
  <2>2. PICK i \in (0 .. n) \ P : \A j \in (0 .. n) \ P : ~ (<<j, i>> \in OpToRel(<, Nat))
    BY <2>1, NatLessThanWellFounded, WFMin
  <2> QED
    BY <2>1, <2>2, LessThan
<1>2. i \in 1 .. n /\ i - 1 \in 0 .. n /\ i - 1 < i
  <2>1. i \in 0 .. n /\ i \notin P
    OBVIOUS
  <2> QED
    BY <2>1
<1> QED
  BY <1>1, <1>2

(* g starts with zero, and step gives each later value from the one before. *)
Follows(g, n, zero, step) ==
    g = [i \in 0 .. n |-> IF i = 0 THEN zero ELSE step[<<i, g[i - 1]>>]]

(* There is such a function for any first value and step. *)
LEMMA RecursionExists ==
    ASSUME NEW n \in Nat, NEW S, NEW zero \in S, NEW step \in [(1 .. n) \X S -> S]
    PROVE  \E f \in [0 .. n -> S] : Follows(f, n, zero, step)
<1> DEFINE Upto(k, f) == f[0] = zero /\ \A i \in 1 .. k : f[i] = step[<<i, f[i - 1]>>]
           P == {k \in 0 .. n : \E f \in [0 .. k -> S] : Upto(k, f)}
<1>1. 0 \in P
  <2> DEFINE f == [i \in 0 .. 0 |-> zero]
  <2>1. f \in [0 .. 0 -> S] /\ f[0] = zero /\ 1 .. 0 = {}
    OBVIOUS
  <2> HIDE DEF f
  <2>2. Upto(0, f)
    BY <2>1
  <2> QED
    BY <2>1, <2>2
<1>2. ASSUME NEW k \in 1 .. n, k - 1 \in P
      PROVE  k \in P
  <2>1. PICK f \in [0 .. k - 1 -> S] : Upto(k - 1, f)
    BY <1>2
  <2> DEFINE g == [i \in 0 .. k |-> IF i = k THEN step[<<k, f[k - 1]>>] ELSE f[i]]
  <2>2. f[k - 1] \in S /\ step[<<k, f[k - 1]>>] \in S
    BY <2>1
  <2>3. g \in [0 .. k -> S] /\ g[0] = zero
    BY <2>1, <2>2
  <2>4. ASSUME NEW i \in 1 .. k PROVE g[i] = step[<<i, g[i - 1]>>]
    <3>1. CASE i = k
      <4>1. g[k] = step[<<k, f[k - 1]>>] /\ g[k - 1] = f[k - 1]
        OBVIOUS
      <4> QED
        BY <3>1, <4>1
    <3>2. CASE i # k
      <4>1. i \in 1 .. k - 1 /\ i - 1 \in 0 .. k /\ i - 1 # k /\ i \in 0 .. k
        BY <3>2
      <4>2. g[i] = f[i] /\ g[i - 1] = f[i - 1]
        BY <4>1, <3>2
      <4> QED
        BY <2>1, <4>1, <4>2
    <3> QED
      BY <3>1, <3>2
  <2> HIDE DEF g
  <2>5. Upto(k, g)
    BY <2>3, <2>4
  <2> QED
    BY <2>3, <2>5
<1> HIDE DEF P
<1>3. \A i \in 0 .. n : i \in P
  BY <1>1, <1>2, UpTo
<1>4. PICK f \in [0 .. n -> S] : Upto(n, f)
  BY <1>3 DEF P
<1> DEFINE g == [i \in 0 .. n |-> IF i = 0 THEN zero ELSE step[<<i, f[i - 1]>>]]
<1>5. \A i \in 0 .. n : f[i] = g[i]
  BY <1>4
<1>6. f = g
  <2>1. DOMAIN g = 0 .. n /\ g = [i \in 0 .. n |-> g[i]] /\ f = [i \in 0 .. n |-> f[i]]
    OBVIOUS
  <2> HIDE DEF g
  <2> QED
    BY <1>5, <2>1
<1> QED
  BY <1>6 DEF Follows

=============================================================================
