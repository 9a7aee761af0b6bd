------------------------------ MODULE NatExtrema ------------------------------
(***************************************************************************)
(* The smallest and the largest element of a set of numbers: what a CHOOSE *)
(* in the models picks is there.                                           *)
(***************************************************************************)
EXTENDS Integers, WellFoundedInduction, TLAPS

\* A set of naturals that is not empty has a smallest element.
LEMMA SmallestNat ==
    ASSUME NEW S \in SUBSET Nat, S # {}
    PROVE  \E x \in S : \A y \in S : x <= y
  <1>1. \E x \in S : \A y \in S : ~(<<y, x>> \in OpToRel(<, Nat))
    BY WFMin, NatLessThanWellFounded
  <1>2. PICK x \in S : \A y \in S : ~(<<y, x>> \in OpToRel(<, Nat))
    BY <1>1
  <1>3. \A y \in S : ~(y < x)
    BY <1>2, Zenon DEF OpToRel
  <1>4. QED BY <1>3

\* One with an upper bound has a largest element.
LEMMA LargestNat ==
    ASSUME NEW n \in Nat, NEW S \in SUBSET 0..n, S # {}
    PROVE  \E x \in S : \A y \in S : y <= x
  <1> DEFINE D == {n - x : x \in S}
  <1>1. D \in SUBSET Nat /\ D # {}
    <2>1. \A x \in S : n - x \in Nat
      OBVIOUS
    <2>2. \E x : x \in S
      OBVIOUS
    <2>3. QED BY <2>1, <2>2
  <1>2. \A x \in S : n - x \in D
    OBVIOUS
  <1>3. \A d \in D : \E x \in S : d = n - x
    OBVIOUS
  <1> HIDE DEF D
  <1>4. PICK d \in D : \A e \in D : d <= e
    BY <1>1, SmallestNat
  <1>5. PICK x \in S : d = n - x
    BY <1>3
  <1>6. \A y \in S : y <= x
    BY <1>2, <1>4, <1>5
  <1>7. QED BY <1>6
=============================================================================
