----------------------------- MODULE Induction -----------------------------
(****************************************************************************)
(* Induction over the numbers up to n, by the least one that would be left  *)
(* out, stated of a set instead of a predicate.                             *)
(****************************************************************************)
EXTENDS Naturals, NaturalsInduction, WellFoundedInduction, TLAPS

(* A set of numbers has a least one. *)
LEMMA LeastNumber ==
  ASSUME NEW T, T \subseteq Nat, T # {}
  PROVE  \E x \in T : \A y \in T : x <= y
<1>1. \E R : IsWellFoundedOn(R, Nat) /\ \A x \in Nat, y \in Nat : x < y => <<x, y>> \in R
  BY NatLessThanWellFounded DEF OpToRel
<1>2. PICK R : IsWellFoundedOn(R, Nat) /\ \A x \in Nat, y \in Nat : x < y => <<x, y>> \in R
  BY <1>1
<1>3. IsWellFoundedOn(R, Nat)
  BY <1>2
<1>4. \E x \in T : \A y \in T : ~ (<<y, x>> \in R)
  BY <1>3, WFMin
<1>5. PICK x \in T : \A y \in T : ~ (<<y, x>> \in R)
  BY <1>4
<1>6. ASSUME NEW y \in T PROVE x <= y
  <2>1. x \in Nat /\ y \in Nat
    OBVIOUS
  <2>2. ~(<<y, x>> \in R)
    BY <1>5
  <2>3. ~(y < x)
    BY <1>2, <2>1, <2>2
  <2>4. QED
    BY <2>1, <2>3
<1>7. QED
  BY <1>6

(* A set with 0 that has the successor of each number below n it has, has all up to n. *)
LEMMA Steps ==
  ASSUME NEW n \in Nat, NEW S, 0 \in S, \A i \in 0 .. n : i \in S /\ i < n => i + 1 \in S
  PROVE  \A i \in 0 .. n : i \in S
<1> DEFINE T == {i \in 0 .. n : i \notin S}
<1>1. SUFFICES ASSUME T # {} PROVE FALSE
  OBVIOUS
<1>2. PICK x \in T : \A y \in T : x <= y
  <2>1. T \subseteq Nat
    OBVIOUS
  <2> HIDE DEF T
  <2>2. QED
    BY <1>1, <2>1, LeastNumber
<1>3. x \in 1 .. n /\ x \notin S
  OBVIOUS
<1>4. x - 1 \in 0 .. n /\ (x - 1) + 1 = x /\ x - 1 < n /\ ~(x <= x - 1)
  BY <1>3
<1>5. x - 1 \in S
  BY <1>2, <1>4
<1>6. QED
  BY <1>3, <1>4, <1>5
=============================================================================
