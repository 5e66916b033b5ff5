------------------------------ MODULE Induction ------------------------------
(***************************************************************************)
(* Induction over data for the proof modules.  The theorems of module      *)
(* NaturalsInduction take a predicate as a parameter; here the predicate   *)
(* is a set of numbers, so that a proof can cite the lemma directly.       *)
(***************************************************************************)
EXTENDS FiniteSetTheorems, TLAPS

\* A set of numbers with 0 and with every successor of its elements has all.
LEMMA NatSetInduction ==
  ASSUME NEW S, 0 \in S, \A n \in Nat : n \in S => n + 1 \in S
  PROVE  Nat \subseteq S
<1> DEFINE Missing == Nat \ S
<1> SUFFICES ASSUME Missing # {} PROVE FALSE
  OBVIOUS
<1>1. PICK n \in Missing : \A m \in Missing : ~(<<m, n>> \in OpToRel(<, Nat))
  BY NatLessThanWellFounded, WFMin
<1>2. n \in Nat /\ n # 0
  OBVIOUS
<1>3. n - 1 \in Missing
  BY <1>2
<1>4. <<n - 1, n>> \in OpToRel(<, Nat)
  BY <1>2, <1>3 DEF OpToRel
<1> QED
  BY <1>1, <1>3, <1>4

\* Induction up to a bound.
LEMMA BoundedInduction ==
  ASSUME NEW m \in Nat, NEW S, 0 \in S, \A n \in 0 .. m - 1 : n \in S => n + 1 \in S
  PROVE  0 .. m \subseteq S
<1> DEFINE Good == {n \in Nat : n <= m => n \in S}
<1>1. 0 \in Good
  OBVIOUS
<1>2. \A n \in Nat : n \in Good => n + 1 \in Good
  OBVIOUS
<1>3. Nat \subseteq Good
  <2> HIDE DEF Good
  <2> QED
    BY <1>1, <1>2, NatSetInduction
<1> QED
  BY <1>3

\* The function g on 0 .. m starts with a and goes on with Step.
Unfolds(g, a, Step, m) ==
  \A n \in 0 .. m : g[n] = IF n = 0 THEN a ELSE Step[<<n, g[n - 1]>>]

\* A recursion over 0 .. m defines a function.
LEMMA RecursionExists ==
  ASSUME NEW T, NEW a \in T, NEW Step \in [Nat \X T -> T], NEW m \in Nat
  PROVE  \E g \in [0 .. m -> T] : Unfolds(g, a, Step, m)
<1> DEFINE Good == {n \in Nat : \E g \in [0 .. n -> T] :
             \A k \in 0 .. n : g[k] = IF k = 0 THEN a ELSE Step[<<k, g[k - 1]>>]}
<1>1. 0 \in Good
  <2> DEFINE g == [k \in 0 .. 0 |-> a]
  <2>1. g \in [0 .. 0 -> T]
    OBVIOUS
  <2>2. \A k \in 0 .. 0 : k = 0 /\ g[k] = a
    OBVIOUS
  <2> HIDE DEF g
  <2> QED
    BY <2>1, <2>2
<1>2. ASSUME NEW n \in Nat, n \in Good
      PROVE  n + 1 \in Good
  <2>1. PICK g \in [0 .. n -> T] :
           \A k \in 0 .. n : g[k] = IF k = 0 THEN a ELSE Step[<<k, g[k - 1]>>]
    BY <1>2
  <2> DEFINE h == [k \in 0 .. n + 1 |-> IF k = n + 1 THEN Step[<<k, g[n]>>] ELSE g[k]]
  <2>2. h \in [0 .. n + 1 -> T]
    <3>1. g[n] \in T /\ <<n + 1, g[n]>> \in Nat \X T
      OBVIOUS
    <3> QED
      BY <3>1
  <2>3. ASSUME NEW k \in 0 .. n + 1
        PROVE  h[k] = IF k = 0 THEN a ELSE Step[<<k, h[k - 1]>>]
    <3>1. CASE k = n + 1
      <4>1. k - 1 = n /\ k - 1 \in 0 .. n + 1 /\ k - 1 # n + 1 /\ k # 0
        BY <3>1
      <4> QED
        BY <3>1, <4>1
    <3>2. CASE k = 0
      <4>1. 0 \in 0 .. n /\ 0 # n + 1 /\ 0 \in 0 .. n + 1
        OBVIOUS
      <4>2. h[0] = g[0]
        BY <4>1
      <4> QED
        BY <2>1, <3>2, <4>1, <4>2
    <3>3. CASE k # n + 1 /\ k # 0
      <4>1. k \in 0 .. n /\ k - 1 \in 0 .. n + 1 /\ k - 1 # n + 1
        BY <3>3
      <4>2. h[k] = g[k] /\ h[k - 1] = g[k - 1]
        BY <3>3, <4>1
      <4> QED
        BY <2>1, <3>3, <4>1, <4>2
    <3> QED
      BY <3>1, <3>2, <3>3
  <2> QED
    <3> HIDE DEF h
    <3> QED
      BY <2>2, <2>3
<1>3. Nat \subseteq Good
  <2> HIDE DEF Good
  <2> QED
    BY <1>1, <1>2, NatSetInduction
<1> QED
  BY <1>3 DEF Unfolds

=============================================================================
