------------------------------ MODULE LeastNat ------------------------------
(***************************************************************************)
(* The least element of a set of naturals, as the registry proofs use it   *)
(* for the first entry an equal_range walk visits.                         *)
(***************************************************************************)
EXTENDS Naturals, WellFoundedInduction, TLAPS

\* Every non-empty set of naturals has a least element (the first index of
\* an equal_range walk that matches is well defined).
LEMMA LeastElement ==
    ASSUME NEW S \in SUBSET Nat, S # {}
    PROVE  \E x \in S : \A y \in S : x <= y
  <1>1. PICK x \in S : \A y \in S : ~(<<y, x>> \in OpToRel(<, Nat))
    BY WFMin, NatLessThanWellFounded
  <1>2. OpToRel(<, Nat) = {ss \in Nat \X Nat : ss[1] < ss[2]}
    BY DEF OpToRel
  <1>3. ASSUME NEW y \in S PROVE x <= y
    <2>1. <<y, x>> \in Nat \X Nat /\ ~(<<y, x>> \in OpToRel(<, Nat))
      BY <1>1
    <2>2. ~(y < x)
      BY <2>1, <1>2
    <2>3. QED
      BY <2>2
  <1>4. QED
    BY <1>3

=============================================================================
