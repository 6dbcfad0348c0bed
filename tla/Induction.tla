------------------------------ MODULE Induction ------------------------------
(***************************************************************************)
(* Mathematical induction over the naturals for a property P, proved from  *)
(* the well-foundedness of < on Nat.  A proof instantiates this module     *)
(* with its own property,                                                  *)
(*     I == INSTANCE Induction WITH P <- MyProperty                        *)
(* and cites I!NatInductionPrinciple: the substitution is done by the      *)
(* proof system, so no backend has to find the instance of P.               *)
(***************************************************************************)
EXTENDS Naturals, WellFoundedInduction, TLAPS

CONSTANT P(_)

\* Every non-empty set of naturals has a least element.
LEMMA LeastNat ==
    ASSUME NEW T \in SUBSET Nat, T # {}
    PROVE  \E x \in T : \A y \in T : ~(y < x)
<1>1. PICK x \in T : \A y \in T : ~(<<y, x>> \in OpToRel(<, Nat))
  BY NatLessThanWellFounded, WFMin, Zenon
<1>2. \A y \in T : ~(y < x)
  <2> SUFFICES ASSUME NEW y \in T, y < x PROVE FALSE
    OBVIOUS
  <2>1. <<y, x>> \in OpToRel(<, Nat)
    BY Zenon DEF OpToRel
  <2>. QED  BY <2>1, <1>1
<1>. QED  BY <1>2

(***************************************************************************)
(* A property of 0 that passes from every natural to its successor holds   *)
(* of every natural: a least counterexample would have to be 0 or the      *)
(* successor of a natural with the property.                               *)
(***************************************************************************)
THEOREM NatInductionPrinciple ==
    P(0) /\ (\A n \in Nat : P(n) => P(n + 1)) => \A n \in Nat : P(n)
<1> SUFFICES ASSUME P(0), \A n \in Nat : P(n) => P(n + 1)
             PROVE  \A n \in Nat : P(n)
  OBVIOUS
<1> DEFINE T == {n \in Nat : ~P(n)}
<1> SUFFICES ASSUME T # {} PROVE FALSE
  OBVIOUS
<1>1. PICK x \in T : \A y \in T : ~(y < x)
  BY LeastNat
<1>2. x # 0
  BY <1>1
<1>3. x - 1 \in Nat /\ x - 1 \notin T
  BY <1>1, <1>2
<1>. QED  BY <1>1, <1>3
=============================================================================
