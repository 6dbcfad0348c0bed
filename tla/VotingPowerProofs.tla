------------------------- MODULE VotingPowerProofs --------------------------
(***************************************************************************)
(* Proofs about the limb arithmetic of the step circuit (VotingPower), for *)
(* every limb width and every number of validator slots.                   *)
(***************************************************************************)
EXTENDS VotingPower, TLAPS

\* The facts about the limb modulus B that every proof below uses.
LEMMA BFacts == B \in Nat /\ B >= 2
BY LimbAssumption DEF B

\* Division by B splits a natural number into a limb and a quotient.
LEMMA DivModB ==
    ASSUME NEW x \in Nat
    PROVE  /\ x % B \in Limb
           /\ x \div B \in Nat
           /\ x = (x % B) + B * (x \div B)
BY BFacts DEF Limb

\* A natural number below B is its own remainder and has quotient zero.
LEMMA SmallMod ==
    ASSUME NEW x \in Nat, x < B
    PROVE  x % B = x /\ x \div B = 0
BY BFacts

-----------------------------------------------------------------------------
(***************************************************************************)
(* One iteration of the accumulation loop of check_voting_power that does  *)
(* not overflow adds exactly e times the voting power to the accumulator   *)
(* and leaves two limbs.                                                   *)
(***************************************************************************)
LEMMA AccumulateStepExact ==
    ASSUME NEW v \in Limb \X Limb, NEW e \in {0, 1}, NEW a \in Limb \X Limb,
           ~AccumulateOverflows(v, e, a)
    PROVE  LET a2 == <<SumLower(v, e, a) % B, SumUpper(v, e, a) % B>>
           IN  a2 \in Limb \X Limb /\ Val(a2) = Val(a) + e * Val(v)
<1> DEFINE sl == SumLower(v, e, a)
           cl == CarryLimb(v, e, a)
           su == SumUpper(v, e, a)
<1>0. v[1] \in Nat /\ v[2] \in Nat /\ a[1] \in Nat /\ a[2] \in Nat
      /\ v[1] < B /\ a[1] < B
  BY BFacts DEF Limb
<1>1. sl = v[1] * e + a[1] /\ sl \in Nat
  BY <1>0 DEF SumLower
<1>2. /\ sl % B \in Limb
      /\ sl \div B \in Nat
      /\ sl = (sl % B) + B * (sl \div B)
  BY <1>1, DivModB
<1>3. cl = (sl \div B) + v[2] /\ cl \in Nat
  BY <1>0, <1>2 DEF CarryLimb
<1>4. cl < B /\ cl % B = cl
  <2>1. cl \div B = 0
    BY DEF AccumulateOverflows
  <2>2. cl = (cl % B) + B * (cl \div B) /\ cl % B \in Limb
    BY <1>3, DivModB
  <2>3. B * (cl \div B) = 0
    BY <2>1, BFacts
  <2>. QED  BY <1>3, <2>2, <2>3, BFacts DEF Limb
<1>5. su = cl * e + a[2] /\ su \in Nat
  BY <1>0, <1>3, <1>4 DEF SumUpper
<1>6. su < B /\ su % B = su
  <2>1. su \div B = 0
    BY DEF AccumulateOverflows
  <2>2. su = (su % B) + B * (su \div B) /\ su % B \in Limb
    BY <1>5, DivModB
  <2>3. B * (su \div B) = 0
    BY <2>1, BFacts
  <2>. QED  BY <1>5, <2>2, <2>3, BFacts DEF Limb
<1>7. (sl % B) + B * su = Val(a) + e * Val(v)
  <2>1. CASE e = 1
    <3>1. su = (sl \div B) + v[2] + a[2]
      BY <2>1, <1>0, <1>2, <1>3, <1>5
    <3>2. (sl % B) + B * su = sl + B * v[2] + B * a[2]
      BY <3>1, <1>1, <1>2, <1>0, BFacts
    <3>. QED  BY <2>1, <3>2, <1>0, <1>1, BFacts DEF Val
  <2>2. CASE e = 0
    <3>1. sl = a[1] /\ su = a[2]
      BY <2>2, <1>1, <1>3, <1>4, <1>5, <1>0, BFacts
    <3>2. sl % B = a[1]
      BY <3>1, <1>0, SmallMod
    <3>. QED  BY <2>2, <3>1, <3>2, <1>0, BFacts DEF Val
  <2>. QED  BY <2>1, <2>2
<1>. QED  BY <1>2, <1>5, <1>6, <1>7, BFacts DEF Val, Limb
-----------------------------------------------------------------------------
(***************************************************************************)
(* The inductive invariant behind AccumulatorExact: the inputs keep their *)
(* types, the accumulator is two limbs and stands for the history sum.    *)
(* The limb bound on acc is what makes the carry of the next iteration    *)
(* exact, so AccumulatorExact alone is not inductive.                      *)
(***************************************************************************)
AccInv ==
    /\ votingPower \in [Slots -> VotingPowers]
    /\ enabled \in [Slots -> {0, 1}]
    /\ acc \in Limb \X Limb
    /\ i \in 0 .. VALIDATOR_SET_SIZE_MAX
    /\ sum \in Nat
    /\ Val(acc) = sum

LEMMA AccInvInit == Init => AccInv
<1> SUFFICES ASSUME Init PROVE AccInv
  OBVIOUS
<1>1. acc \in Limb \X Limb
  <2>1. 0 \in Limb
    BY BFacts DEF Limb
  <2>. QED  BY <2>1 DEF Init
<1>2. Val(acc) = 0
  BY BFacts DEF Init, Val
<1>. QED  BY <1>1, <1>2, SizeAssumption DEF Init, AccInv

LEMMA AccInvNext == AccInv /\ [Next]_vars => AccInv'
<1> SUFFICES ASSUME AccInv, [Next]_vars PROVE AccInv'
  OBVIOUS
<1>1. CASE GetTotalVotingPower
  BY <1>1 DEF GetTotalVotingPower, AccInv, Val
<1>2. CASE AccumulateValidator
  <2> DEFINE v == votingPower[i]
             e == enabled[i]
  <2>1. v \in Limb \X Limb /\ e \in {0, 1}
    <3>1. i \in Slots
      BY <1>2, SizeAssumption DEF AccumulateValidator, AccInv, Slots
    <3>2. v \in VotingPowers /\ e \in {0, 1}
      BY <3>1 DEF AccInv
    <3>. QED  BY <3>2 DEF VotingPowers
  <2>2. CASE ~AccumulateOverflows(v, e, acc)
    <3>1. acc' = <<SumLower(v, e, acc) % B, SumUpper(v, e, acc) % B>>
          /\ i' = i + 1 /\ sum' = sum + e * Val(v)
      BY <1>2, <2>2 DEF AccumulateValidator
    <3>2. acc' \in Limb \X Limb /\ Val(acc') = Val(acc) + e * Val(v)
      BY <2>1, <2>2, <3>1, AccumulateStepExact DEF AccInv
    <3>3. Val(v) \in Nat
      BY <2>1, BFacts DEF Val, Limb
    <3>4. i' \in 0 .. VALIDATOR_SET_SIZE_MAX /\ sum' \in Nat
      BY <1>2, <2>1, <3>1, <3>3, SizeAssumption DEF AccumulateValidator, AccInv
    <3>. QED  BY <1>2, <3>1, <3>2, <3>3, <3>4 DEF AccumulateValidator, AccInv
  <2>3. CASE AccumulateOverflows(v, e, acc)
    BY <1>2, <2>3 DEF AccumulateValidator, AccInv
  <2>. QED  BY <2>2, <2>3
<1>3. CASE VotingPowerGreaterThanThreshold
  BY <1>3 DEF VotingPowerGreaterThanThreshold, AccInv
<1>4. CASE UNCHANGED vars
  BY <1>4 DEF vars, AccInv
<1>. QED  BY <1>1, <1>2, <1>3, <1>4 DEF Next

(***************************************************************************)
(* For every limb width and every number of slots, the two-limb           *)
(* accumulator of check_voting_power never loses a carry: it always       *)
(* stands for the exact sum of the enabled powers added so far.            *)
(***************************************************************************)
THEOREM AccumulatorExactInvariant == Spec => []AccumulatorExact
<1>1. AccInv => AccumulatorExact
  BY DEF AccInv, AccumulatorExact
<1>. QED  BY AccInvInit, AccInvNext, <1>1, PTL DEF Spec
-----------------------------------------------------------------------------
\* A limb plus B times a natural number stays below B * B exactly when the
\* number is itself a limb.
LEMMA TwoLimbBound ==
    ASSUME NEW r \in Limb, NEW y \in Nat
    PROVE  r + B * y < B * B <=> y < B
<1>1. CASE y < B
  <2>1. B * y <= B * (B - 1)
    BY <1>1, BFacts
  <2>. QED  BY <1>1, <2>1, BFacts DEF Limb
<1>2. CASE y >= B
  <2>1. B * y >= B * B
    BY <1>2, BFacts
  <2>2. r \in Nat
    BY BFacts DEF Limb
  <2>3. ~(r + B * y < B * B)
    BY <2>1, <2>2, BFacts
  <2>. QED  BY <1>2, <2>3, BFacts
<1>. QED  BY <1>1, <1>2, BFacts

\* The difference of two limbs is zero modulo B only when they are equal.
LEMMA LimbDiffMod ==
    ASSUME NEW x \in Limb, NEW y \in Limb
    PROVE  (x - y) % B = 0 <=> x = y
<1>1. CASE x >= y
  BY <1>1, SmallMod, BFacts DEF Limb
<1>2. CASE x < y
  <2>1. (x - y) % B = (x - y + B) % B
    BY BFacts DEF Limb
  <2>2. (x - y + B) % B = x - y + B
    BY <1>2, SmallMod, BFacts DEF Limb
  <2>. QED  BY <1>2, <2>1, <2>2, BFacts DEF Limb
<1>. QED  BY <1>1, <1>2 DEF Limb

(***************************************************************************)
(* is_i64_gte compares the integers two I64Targets stand for.              *)
(***************************************************************************)
LEMMA IsI64GteCorrect ==
    ASSUME NEW a \in Limb \X Limb, NEW b \in Limb \X Limb
    PROVE  IsI64Gte(a, b) <=> Val(a) >= Val(b)
<1>1. ((a[2] - b[2]) % B = 0) <=> a[2] = b[2]
  BY LimbDiffMod
<1>2. CASE a[2] = b[2]
  BY <1>1, <1>2, BFacts DEF IsI64Gte, Val, Limb
<1>3. CASE a[2] > b[2]
  <2>1. B * a[2] >= B * b[2] + B
    BY <1>3, BFacts DEF Limb
  <2>. QED  BY <1>1, <1>3, <2>1, BFacts DEF IsI64Gte, Val, Limb
<1>4. CASE a[2] < b[2]
  <2>1. B * b[2] >= B * a[2] + B
    BY <1>4, BFacts DEF Limb
  <2>. QED  BY <1>1, <1>4, <2>1, BFacts DEF IsI64Gte, Val, Limb
<1>. QED  BY <1>2, <1>3, <1>4 DEF Limb

\* A natural number has quotient zero by B exactly when it is below B.
LEMMA DivZero ==
    ASSUME NEW x \in Nat
    PROVE  x \div B = 0 <=> x < B
<1>1. x = (x % B) + B * (x \div B) /\ x % B \in Limb /\ x \div B \in Nat
  BY DivModB
<1>2. CASE x \div B = 0
  BY <1>1, <1>2, BFacts DEF Limb
<1>3. CASE x \div B # 0
  <2>1. B * (x \div B) >= B
    BY <1>1, <1>3, BFacts
  <2>. QED  BY <1>1, <1>3, <2>1, BFacts DEF Limb
<1>. QED  BY <1>2, <1>3

(***************************************************************************)
(* mul_i64_by_u32 succeeds exactly when the product fits in two limbs, and *)
(* then stands for the product.                                            *)
(***************************************************************************)
LEMMA MulI64ByU32Correct ==
    ASSUME NEW a \in Limb \X Limb, NEW c \in Nat
    PROVE  /\ MulI64ByU32Ok(a, c) <=> Val(a) * c < B * B
           /\ MulI64ByU32Ok(a, c) =>
                 /\ MulI64ByU32(a, c) \in Limb \X Limb
                 /\ Val(MulI64ByU32(a, c)) = Val(a) * c
<1> DEFINE p1 == a[1] * c
           p2 == a[2] * c
           q == p1 \div B
           m == (p2 % B) + q
<1>1. p1 \in Nat /\ p2 \in Nat
  BY BFacts DEF Limb
<1>2. p1 = (p1 % B) + B * q /\ p1 % B \in Limb /\ q \in Nat
  BY <1>1, DivModB
<1>3. Val(a) * c = (p1 % B) + B * (q + p2)
  <2>1. Val(a) * c = p1 + B * p2
    BY <1>1, BFacts DEF Val, Limb
  <2>. QED  BY <1>1, <1>2, <2>1, BFacts
<1>4. Val(a) * c < B * B <=> q + p2 < B
  BY <1>1, <1>2, <1>3, TwoLimbBound
<1>5. MulI64ByU32Ok(a, c) <=> q + p2 < B
  <2>1. CASE p2 < B
    <3>1. p2 % B = p2 /\ p2 \div B = 0
      BY <1>1, <2>1, SmallMod
    <3>2. m \div B = 0 <=> m < B
      BY <1>1, <1>2, <3>1, DivZero
    <3>. QED  BY <1>1, <1>2, <2>1, <3>1, <3>2 DEF MulI64ByU32Ok
  <2>2. CASE ~(p2 < B)
    <3>1. p2 \div B # 0
      BY <1>1, <2>2, DivZero
    <3>. QED  BY <1>1, <1>2, <2>2, <3>1, BFacts DEF MulI64ByU32Ok
  <2>. QED  BY <2>1, <2>2
<1>6. ASSUME MulI64ByU32Ok(a, c)
      PROVE  /\ MulI64ByU32(a, c) \in Limb \X Limb
             /\ Val(MulI64ByU32(a, c)) = Val(a) * c
  <2>1. p2 < B /\ q + p2 < B
    BY <1>1, <1>2, <1>5, <1>6, DivZero DEF MulI64ByU32Ok
  <2>2. m = q + p2 /\ m % B = m
    BY <1>1, <1>2, <2>1, SmallMod
  <2>3. MulI64ByU32(a, c) = <<p1 % B, m>>
    BY <2>2 DEF MulI64ByU32
  <2>4. m \in Limb
    <3>1. q + p2 \in 0 .. B - 1
      BY <1>1, <1>2, <2>1, BFacts
    <3>. QED  BY <2>2, <3>1 DEF Limb
  <2>. QED  BY <1>2, <1>3, <2>2, <2>3, <2>4 DEF Val
<1>. QED  BY <1>4, <1>5, <1>6

(***************************************************************************)
(* voting_power_greater_than_threshold, for every limb width: on an        *)
(* accumulated power acc and a total power total held in two limbs each,   *)
(* the condition under which the circuit accepts holds exactly when        *)
(* 3 * acc >= 2 * total and both products fit in 64 bits.  It is a         *)
(* non-strict comparison: exactly two thirds is accepted.                 *)
(***************************************************************************)
THEOREM ThresholdDecision ==
    ASSUME NEW a \in Limb \X Limb, NEW t \in Limb \X Limb
    PROVE  (/\ MulI64ByU32Ok(a, ThresholdDenominator)
            /\ MulI64ByU32Ok(t, ThresholdNumerator)
            /\ IsI64Gte(MulI64ByU32(a, ThresholdDenominator),
                        MulI64ByU32(t, ThresholdNumerator)))
           <=> /\ ThresholdDenominator * Val(a) < B * B
               /\ ThresholdNumerator * Val(t) < B * B
               /\ ThresholdDenominator * Val(a) >= ThresholdNumerator * Val(t)
<1>1. Val(a) \in Nat /\ Val(t) \in Nat
  BY BFacts DEF Val, Limb
<1>2. /\ MulI64ByU32Ok(a, 3) <=> Val(a) * 3 < B * B
      /\ MulI64ByU32Ok(a, 3) =>
            MulI64ByU32(a, 3) \in Limb \X Limb /\ Val(MulI64ByU32(a, 3)) = Val(a) * 3
  BY MulI64ByU32Correct
<1>3. /\ MulI64ByU32Ok(t, 2) <=> Val(t) * 2 < B * B
      /\ MulI64ByU32Ok(t, 2) =>
            MulI64ByU32(t, 2) \in Limb \X Limb /\ Val(MulI64ByU32(t, 2)) = Val(t) * 2
  BY MulI64ByU32Correct
<1>4. ASSUME MulI64ByU32Ok(a, 3), MulI64ByU32Ok(t, 2)
      PROVE  IsI64Gte(MulI64ByU32(a, 3), MulI64ByU32(t, 2)) <=> Val(a) * 3 >= Val(t) * 2
  BY <1>2, <1>3, <1>4, IsI64GteCorrect
<1>. QED  BY <1>1, <1>2, <1>3, <1>4 DEF ThresholdDenominator, ThresholdNumerator
-----------------------------------------------------------------------------
(***************************************************************************)
(* The sums of get_total_voting_power and of the properties are SumBelow,  *)
(* a function defined by recursion on Nat.  Its recursion equation is not  *)
(* given by the definition (which is a CHOOSE): it holds because the       *)
(* partial solutions on 0 .. n exist and agree, by induction on n.         *)
(***************************************************************************)
\* h solves the recursion of SumBelow(g) on 0 .. n.
Approx(g, h, n) ==
    /\ DOMAIN h = 0 .. n
    /\ h[0] = 0
    /\ \A k \in 1 .. n : h[k] = h[k - 1] + g[k - 1]

ApproxExistsP(n) == \A g : \E h : Approx(g, h, n)
ApproxExistsInd == INSTANCE Induction WITH P <- ApproxExistsP

LEMMA ApproxExists == \A n \in Nat : ApproxExistsP(n)
<1>1. ApproxExistsP(0)
  <2> SUFFICES ASSUME NEW g PROVE \E h : Approx(g, h, 0)
    BY DEF ApproxExistsP
  <2>1. Approx(g, [k \in 0 .. 0 |-> 0], 0)
    BY DEF Approx
  <2>. QED  BY <2>1
<1>2. ASSUME NEW n \in Nat, ApproxExistsP(n) PROVE ApproxExistsP(n + 1)
  <2> SUFFICES ASSUME NEW g PROVE \E h : Approx(g, h, n + 1)
    BY DEF ApproxExistsP
  <2>1. PICK h : Approx(g, h, n)
    BY <1>2 DEF ApproxExistsP
  <2>2. Approx(g, [k \in 0 .. n + 1 |-> IF k <= n THEN h[k] ELSE h[n] + g[n]], n + 1)
    BY <2>1 DEF Approx
  <2>. QED  BY <2>2
<1>. QED  BY <1>1, <1>2, ApproxExistsInd!NatInductionPrinciple

ApproxUniqueP(k) ==
    \A g, h1, h2, n :
        n \in Nat /\ k <= n /\ Approx(g, h1, n) /\ Approx(g, h2, n) => h1[k] = h2[k]
ApproxUniqueInd == INSTANCE Induction WITH P <- ApproxUniqueP

LEMMA ApproxUnique == \A k \in Nat : ApproxUniqueP(k)
<1>1. ApproxUniqueP(0)
  BY DEF ApproxUniqueP, Approx
<1>2. ASSUME NEW k \in Nat, ApproxUniqueP(k) PROVE ApproxUniqueP(k + 1)
  <2> SUFFICES ASSUME NEW g, NEW h1, NEW h2, NEW n \in Nat, k + 1 <= n,
                      Approx(g, h1, n), Approx(g, h2, n)
               PROVE  h1[k + 1] = h2[k + 1]
    BY DEF ApproxUniqueP
  <2>1. h1[k] = h2[k]
    BY <1>2 DEF ApproxUniqueP
  <2>. QED  BY <2>1 DEF Approx
<1>. QED  BY <1>1, <1>2, ApproxUniqueInd!NatInductionPrinciple

\* The recursion equation of SumBelow, for every g.
LEMMA SumBelowEquation ==
    ASSUME NEW g
    PROVE  SumBelow(g) = [n \in Nat |-> IF n = 0 THEN 0 ELSE SumBelow(g)[n - 1] + g[n - 1]]
<1> DEFINE H(n) == CHOOSE h : Approx(g, h, n)
           G == [n \in Nat |-> H(n)[n]]
<1>1. \A n \in Nat : Approx(g, H(n), n)
  BY ApproxExists DEF ApproxExistsP
<1>2. G = [n \in Nat |-> IF n = 0 THEN 0 ELSE G[n - 1] + g[n - 1]]
  <2> SUFFICES ASSUME NEW n \in Nat
               PROVE  G[n] = IF n = 0 THEN 0 ELSE G[n - 1] + g[n - 1]
    <3> DEFINE F == [m \in Nat |-> IF m = 0 THEN 0 ELSE G[m - 1] + g[m - 1]]
    <3>1. ASSUME \A m \in Nat : G[m] = F[m] PROVE G = F
      BY <3>1
    <3>. QED  BY <3>1
  <2>1. CASE n = 0
    BY <1>1, <2>1 DEF Approx
  <2>2. CASE n # 0
    <3> DEFINE R == [k \in 0 .. n - 1 |-> H(n)[k]]
    <3>1. Approx(g, R, n - 1)
      BY <1>1, <2>2 DEF Approx
    <3>2. Approx(g, H(n - 1), n - 1) /\ n - 1 \in Nat
      BY <1>1, <2>2
    <3>3. ApproxUniqueP(n - 1)
      BY <2>2, ApproxUnique
    <3>4. R[n - 1] = H(n - 1)[n - 1]
      BY <3>1, <3>2, <3>3 DEF ApproxUniqueP
    <3>5. H(n)[n - 1] = H(n - 1)[n - 1]
      BY <3>4, <2>2
    <3>6. G[n] = H(n)[n] /\ G[n - 1] = H(n - 1)[n - 1]
      BY <2>2
    <3>7. H(n)[n] = H(n)[n - 1] + g[n - 1]
      BY <1>1, <2>2 DEF Approx
    <3>. QED  BY <2>2, <3>5, <3>6, <3>7
  <2>. QED  BY <2>1, <2>2
<1>. QED  BY <1>2 DEF SumBelow

\* The two cases of the recursion, as the proofs below use them.
LEMMA SumBelowStep ==
    ASSUME NEW g, NEW n \in Nat
    PROVE  /\ SumBelow(g)[0] = 0
           /\ SumBelow(g)[n + 1] = SumBelow(g)[n] + g[n]
<1>1. SumBelow(g) = [m \in Nat |-> IF m = 0 THEN 0 ELSE SumBelow(g)[m - 1] + g[m - 1]]
  BY SumBelowEquation
<1>. QED  BY <1>1

\* g is natural-valued below n.
NatBelow(g, n) == \A k \in 0 .. n - 1 : g[k] \in Nat

SumBelowNatP(n) == \A g : NatBelow(g, n) => SumBelow(g)[n] \in Nat
SumBelowNatInd == INSTANCE Induction WITH P <- SumBelowNatP

\* A sum of naturals is a natural.
LEMMA SumBelowNat ==
    ASSUME NEW g, NEW n \in Nat, NatBelow(g, n)
    PROVE  SumBelow(g)[n] \in Nat
<1>1. SumBelowNatP(0)
  BY SumBelowStep DEF SumBelowNatP
<1>2. ASSUME NEW m \in Nat, SumBelowNatP(m) PROVE SumBelowNatP(m + 1)
  <2> SUFFICES ASSUME NEW h, NatBelow(h, m + 1) PROVE SumBelow(h)[m + 1] \in Nat
    BY DEF SumBelowNatP
  <2>1. NatBelow(h, m) /\ h[m] \in Nat
    BY DEF NatBelow
  <2>2. SumBelow(h)[m] \in Nat
    BY <1>2, <2>1 DEF SumBelowNatP
  <2>. QED  BY <2>1, <2>2, SumBelowStep
<1>. QED  BY <1>1, <1>2, SumBelowNatInd!NatInductionPrinciple DEF SumBelowNatP

SumBelowMonoP(n) ==
    \A g, m : NatBelow(g, n) /\ m \in 0 .. n => SumBelow(g)[m] <= SumBelow(g)[n]
SumBelowMonoInd == INSTANCE Induction WITH P <- SumBelowMonoP

\* A sum of naturals only grows as terms are added.
LEMMA SumBelowMono ==
    ASSUME NEW g, NEW n \in Nat, NEW m \in 0 .. n, NatBelow(g, n)
    PROVE  SumBelow(g)[m] <= SumBelow(g)[n]
<1>1. SumBelowMonoP(0)
  BY SumBelowStep DEF SumBelowMonoP
<1>2. ASSUME NEW j \in Nat, SumBelowMonoP(j) PROVE SumBelowMonoP(j + 1)
  <2> SUFFICES ASSUME NEW h, NEW k \in 0 .. j + 1, NatBelow(h, j + 1)
               PROVE  SumBelow(h)[k] <= SumBelow(h)[j + 1]
    BY DEF SumBelowMonoP
  <2>1. NatBelow(h, j) /\ h[j] \in Nat
    BY DEF NatBelow
  <2>2. SumBelow(h)[j] \in Nat /\ SumBelow(h)[k] \in Nat
    BY <2>1, SumBelowNat DEF NatBelow
  <2>3. SumBelow(h)[j + 1] = SumBelow(h)[j] + h[j]
    BY SumBelowStep
  <2>4. CASE k = j + 1
    BY <2>2, <2>4
  <2>5. CASE k \in 0 .. j
    <3>1. SumBelow(h)[k] <= SumBelow(h)[j]
      BY <1>2, <2>1, <2>5 DEF SumBelowMonoP
    <3>. QED  BY <2>1, <2>2, <2>3, <3>1
  <2>. QED  BY <2>4, <2>5
<1>. QED  BY <1>1, <1>2, SumBelowMonoInd!NatInductionPrinciple DEF SumBelowMonoP

SumBelowLimbsP(n) ==
    \A g1, g2, g3 :
        /\ NatBelow(g1, n) /\ NatBelow(g2, n)
        /\ \A k \in 0 .. n - 1 : g3[k] = g1[k] + B * g2[k]
        => SumBelow(g3)[n] = SumBelow(g1)[n] + B * SumBelow(g2)[n]
SumBelowLimbsInd == INSTANCE Induction WITH P <- SumBelowLimbsP

\* Summing two-limb values is summing the low limbs and the high limbs.
LEMMA SumBelowLimbs ==
    ASSUME NEW g1, NEW g2, NEW g3, NEW n \in Nat,
           NatBelow(g1, n), NatBelow(g2, n),
           \A k \in 0 .. n - 1 : g3[k] = g1[k] + B * g2[k]
    PROVE  SumBelow(g3)[n] = SumBelow(g1)[n] + B * SumBelow(g2)[n]
<1>1. SumBelowLimbsP(0)
  BY SumBelowStep, BFacts DEF SumBelowLimbsP
<1>2. ASSUME NEW j \in Nat, SumBelowLimbsP(j) PROVE SumBelowLimbsP(j + 1)
  <2> SUFFICES ASSUME NEW h1, NEW h2, NEW h3,
                      NatBelow(h1, j + 1), NatBelow(h2, j + 1),
                      \A k \in 0 .. j : h3[k] = h1[k] + B * h2[k]
               PROVE  SumBelow(h3)[j + 1] = SumBelow(h1)[j + 1] + B * SumBelow(h2)[j + 1]
    BY DEF SumBelowLimbsP
  <2>1. NatBelow(h1, j) /\ NatBelow(h2, j) /\ h1[j] \in Nat /\ h2[j] \in Nat
    BY DEF NatBelow
  <2>2. SumBelow(h3)[j] = SumBelow(h1)[j] + B * SumBelow(h2)[j]
    BY <1>2, <2>1 DEF SumBelowLimbsP
  <2>3. SumBelow(h1)[j] \in Nat /\ SumBelow(h2)[j] \in Nat
    BY <2>1, SumBelowNat
  <2>4. /\ SumBelow(h1)[j + 1] = SumBelow(h1)[j] + h1[j]
        /\ SumBelow(h2)[j + 1] = SumBelow(h2)[j] + h2[j]
        /\ SumBelow(h3)[j + 1] = SumBelow(h3)[j] + h3[j]
    BY SumBelowStep
  <2>. QED  BY <2>1, <2>2, <2>3, <2>4, BFacts
<1>. QED  BY <1>1, <1>2, SumBelowLimbsInd!NatInductionPrinciple DEF SumBelowLimbsP

-----------------------------------------------------------------------------
\* The terms of EnabledPower and TotalPower.
EnabledTerms == [j \in Slots |-> enabled[j] * Val(votingPower[j])]
PowerTerms == [j \in Slots |-> Val(votingPower[j])]

\* The right-hand side of ThresholdCorrect: what the circuit should decide.
ThresholdMet ==
    /\ TotalPower < B * B
    /\ ThresholdDenominator * EnabledPower < B * B
    /\ ThresholdNumerator * TotalPower < B * B
    /\ ThresholdDenominator * EnabledPower >= ThresholdNumerator * TotalPower

(***************************************************************************)
(* The inductive invariant behind ThresholdCorrect.  Besides the exact     *)
(* accumulator (AccInv), it records what each phase of the circuit has     *)
(* established: get_total_voting_power either rejected a total of at least *)
(* 2^(2w) or left the exact total in two limbs; the loop has accumulated   *)
(* the prefix sum of the enabled powers up to i; and a rejection already   *)
(* decided shows the threshold is not met.  Without the last conjunct a    *)
(* rejection in the loop could not be told from a correct one.             *)
(***************************************************************************)
ThresholdInv ==
    /\ AccInv
    /\ total \in Limb \X Limb
    /\ pc \in {"total", "accumulate", "accepted", "rejected"}
    /\ pc = "total" => i = 0 /\ sum = 0
    /\ pc \in {"accumulate", "accepted"} => Val(total) = TotalPower
    /\ pc = "accumulate" => sum = SumBelow(EnabledTerms)[i]
    /\ pc = "accepted" => ThresholdMet
    /\ pc = "rejected" => ~ThresholdMet

\* Two limbs stand for a natural number below B * B.
LEMMA ValBound ==
    ASSUME NEW x \in Limb \X Limb
    PROVE  Val(x) \in Nat /\ Val(x) < B * B
<1>1. x[1] \in Limb /\ x[2] \in Nat /\ x[2] < B
  BY BFacts DEF Limb
<1>. QED  BY <1>1, TwoLimbBound, BFacts DEF Val, Limb

(***************************************************************************)
(* An iteration of check_voting_power fails an assertion only when the     *)
(* accumulated power with this validator's reaches 2^(2w): the loop never  *)
(* rejects a sum that fits in an I64Target.                                *)
(***************************************************************************)
LEMMA OverflowMeansBig ==
    ASSUME NEW v \in Limb \X Limb, NEW e \in {0, 1}, NEW a \in Limb \X Limb,
           AccumulateOverflows(v, e, a)
    PROVE  Val(a) + e * Val(v) >= B * B
<1> DEFINE sl == SumLower(v, e, a)
           cl == CarryLimb(v, e, a)
           su == SumUpper(v, e, a)
<1>0. v[1] \in Nat /\ v[2] \in Nat /\ a[1] \in Nat /\ a[2] \in Nat
      /\ v[1] < B /\ v[2] < B /\ a[1] < B /\ a[2] < B
  BY BFacts DEF Limb
<1>1. CASE e = 0
  <2>1. sl = a[1] /\ sl \div B = 0
    BY <1>0, <1>1, SmallMod DEF SumLower
  <2>2. cl = v[2] /\ cl \div B = 0 /\ cl % B = v[2]
    BY <1>0, <2>1, SmallMod DEF CarryLimb
  <2>3. su = a[2] /\ su \div B = 0
    BY <1>0, <1>1, <2>2, SmallMod DEF SumUpper
  <2>. QED  BY <2>2, <2>3 DEF AccumulateOverflows
<1>2. CASE e = 1
  <2>1. sl = v[1] + a[1] /\ sl \in Nat
    BY <1>0, <1>2 DEF SumLower
  <2>2. sl = (sl % B) + B * (sl \div B) /\ sl % B \in Limb /\ sl \div B \in Nat
    BY <2>1, DivModB
  <2>3. cl = (sl \div B) + v[2] /\ cl \in Nat
    BY <1>0, <2>2 DEF CarryLimb
  <2>4. Val(a) + e * Val(v) = (sl % B) + B * cl + B * a[2]
    <3>1. Val(a) + e * Val(v) = sl + B * v[2] + B * a[2]
      BY <1>0, <1>2, <2>1, BFacts DEF Val
    <3>2. B * cl = B * (sl \div B) + B * v[2]
      BY <1>0, <2>2, <2>3, BFacts
    <3>3. (sl % B) \in Nat
      BY <2>2, BFacts DEF Limb
    <3>. QED  BY <3>1, <3>2, <3>3, <2>1, <2>2, <2>3, <1>0, BFacts
  <2>5. (sl % B) \in Nat /\ B * a[2] \in Nat
    BY <2>2, <1>0, BFacts DEF Limb
  <2>6. CASE cl \div B # 0
    <3>0. cl \div B = 0 <=> cl < B
      BY <2>3, DivZero
    <3>1. cl >= B
      BY <2>3, <2>6, <3>0, BFacts
    <3>2. B * cl >= B * B
      BY <3>1, <2>3, BFacts
    <3>. QED  BY <2>4, <2>5, <3>2, <2>3, BFacts
  <2>7. CASE cl \div B = 0
    <3>0. cl \div B = 0 <=> cl < B
      BY <2>3, DivZero
    <3>1. cl < B /\ cl % B = cl
      BY <2>3, <2>7, <3>0, SmallMod
    <3>2. su = cl + a[2] /\ su \in Nat
      BY <1>0, <1>2, <2>3, <3>1 DEF SumUpper
    <3>3. su \div B # 0
      BY <2>7 DEF AccumulateOverflows
    <3>4. su >= B
      <4>1. su \div B = 0 <=> su < B
        BY <3>2, DivZero
      <4>. QED  BY <3>2, <3>3, <4>1, BFacts
    <3>5. B * su >= B * B
      BY <3>2, <3>4, BFacts
    <3>. QED  BY <2>4, <2>5, <3>2, <3>5, <2>3, <1>0, BFacts
  <2>. QED  BY <2>6, <2>7
<1>. QED  BY <1>1, <1>2

(***************************************************************************)
(* The total of get_total_voting_power: the low and high sums are          *)
(* naturals and together stand for TotalPower.                             *)
(***************************************************************************)
\* The low and the high limbs of the voting powers, the inputs of add_many_u32.
LowTerms == [j \in Slots |-> votingPower[j][1]]
HighTerms == [j \in Slots |-> votingPower[j][2]]

LEMMA TotalLimbs ==
    ASSUME votingPower \in [Slots -> VotingPowers]
    PROVE  /\ LowSum \in Nat /\ HighSum \in Nat
           /\ TotalPower = LowSum + B * HighSum
<1> DEFINE N == VALIDATOR_SET_SIZE_MAX
<1>1. \A k \in 0 .. N - 1 :
         /\ LowTerms[k] \in Nat /\ HighTerms[k] \in Nat
         /\ PowerTerms[k] = LowTerms[k] + B * HighTerms[k]
  BY BFacts DEF Slots, VotingPowers, Limb, PowerTerms, LowTerms, HighTerms, Val
<1>2. NatBelow(LowTerms, N) /\ NatBelow(HighTerms, N)
  BY <1>1 DEF NatBelow
<1>3. N \in Nat
  BY SizeAssumption
<1>4. SumBelow(LowTerms)[N] \in Nat /\ SumBelow(HighTerms)[N] \in Nat
  BY <1>2, <1>3, SumBelowNat
<1>5. SumBelow(PowerTerms)[N] = SumBelow(LowTerms)[N] + B * SumBelow(HighTerms)[N]
  BY <1>1, <1>2, <1>3, SumBelowLimbs
<1>6. /\ LowSum = SumBelow(LowTerms)[N]
      /\ HighSum = SumBelow(HighTerms)[N]
      /\ TotalPower = SumBelow(PowerTerms)[N]
  BY DEF LowSum, HighSum, TotalPower, LowTerms, HighTerms, PowerTerms
<1>. QED  BY <1>4, <1>5, <1>6

\* get_total_voting_power passes its assertions exactly when the total fits,
\* and then holds it in two limbs.
LEMMA TotalDecision ==
    ASSUME votingPower \in [Slots -> VotingPowers]
    PROVE  /\ (HighSum \div B = 0 /\ CarrySum \div B = 0) <=> TotalPower < B * B
           /\ HighSum \div B = 0 /\ CarrySum \div B = 0 =>
                 /\ <<LowSum % B, CarrySum % B>> \in Limb \X Limb
                 /\ Val(<<LowSum % B, CarrySum % B>>) = TotalPower
<1>1. LowSum \in Nat /\ HighSum \in Nat /\ TotalPower = LowSum + B * HighSum
  BY TotalLimbs
<1>2. /\ LowSum = (LowSum % B) + B * (LowSum \div B)
      /\ LowSum % B \in Limb /\ LowSum \div B \in Nat
  BY <1>1, DivModB
<1>3. /\ HighSum = (HighSum % B) + B * (HighSum \div B)
      /\ HighSum % B \in Limb /\ HighSum \div B \in Nat
  BY <1>1, DivModB
<1>4. CarrySum \in Nat /\ CarrySum = (LowSum \div B) + (HighSum % B)
  BY <1>2, <1>3, BFacts DEF CarrySum, Limb
<1>5. TotalPower = (LowSum % B) + B * (CarrySum + B * (HighSum \div B))
  BY <1>1, <1>2, <1>3, <1>4, BFacts
<1>6. CarrySum + B * (HighSum \div B) \in Nat
  BY <1>3, <1>4, BFacts
<1>7. TotalPower < B * B <=> CarrySum + B * (HighSum \div B) < B
  BY <1>2, <1>5, <1>6, TwoLimbBound
<1>8. CarrySum + B * (HighSum \div B) < B <=> HighSum \div B = 0 /\ CarrySum \div B = 0
  <2>1. CASE HighSum \div B = 0
    <3>1. CarrySum \div B = 0 <=> CarrySum < B
      BY <1>4, DivZero
    <3>. QED  BY <2>1, <3>1, <1>4, BFacts
  <2>2. CASE HighSum \div B # 0
    <3>1. B * (HighSum \div B) >= B
      BY <2>2, <1>3, BFacts
    <3>. QED  BY <2>2, <3>1, <1>3, <1>4, BFacts
  <2>. QED  BY <2>1, <2>2
<1>9. ASSUME HighSum \div B = 0, CarrySum \div B = 0
      PROVE  /\ <<LowSum % B, CarrySum % B>> \in Limb \X Limb
             /\ Val(<<LowSum % B, CarrySum % B>>) = TotalPower
  <2>1. CarrySum \div B = 0 <=> CarrySum < B
    BY <1>4, DivZero
  <2>2. CarrySum < B /\ CarrySum % B = CarrySum
    BY <1>4, <1>9, <2>1, SmallMod
  <2>3. CarrySum \in Limb
    BY <1>4, <2>2, BFacts DEF Limb
  <2>4. TotalPower = (LowSum % B) + B * CarrySum
    BY <1>5, <1>9, <1>4, BFacts
  <2>5. Val(<<LowSum % B, CarrySum % B>>) = (LowSum % B) + B * CarrySum
    BY <2>2 DEF Val
  <2>. QED  BY <1>2, <2>3, <2>2, <2>4, <2>5
<1>. QED  BY <1>7, <1>8, <1>9

\* The inputs fixed, the powers the circuit should compare stay fixed.
LEMMA InputsFixed ==
    ASSUME UNCHANGED <<votingPower, enabled>>
    PROVE  /\ EnabledTerms' = EnabledTerms
           /\ TotalPower' = TotalPower
           /\ EnabledPower' = EnabledPower
           /\ ThresholdMet' = ThresholdMet
  BY DEF EnabledTerms, TotalPower, EnabledPower, ThresholdMet

\* The enabled terms are naturals, and their sum below n is EnabledPower's prefix.
LEMMA EnabledTermsNat ==
    ASSUME votingPower \in [Slots -> VotingPowers], enabled \in [Slots -> {0, 1}]
    PROVE  /\ NatBelow(EnabledTerms, VALIDATOR_SET_SIZE_MAX)
           /\ EnabledPower = SumBelow(EnabledTerms)[VALIDATOR_SET_SIZE_MAX]
<1>1. \A j \in Slots : Val(votingPower[j]) \in Nat
  BY BFacts DEF VotingPowers, Val, Limb
<1>2. NatBelow(EnabledTerms, VALIDATOR_SET_SIZE_MAX)
  BY <1>1 DEF NatBelow, EnabledTerms, Slots
<1>. QED  BY <1>2 DEF EnabledPower, EnabledTerms

LEMMA ThresholdInvInit == Init => ThresholdInv
<1> SUFFICES ASSUME Init PROVE ThresholdInv
  OBVIOUS
<1>1. AccInv
  BY AccInvInit
<1>2. total \in Limb \X Limb
  BY BFacts DEF Init, Limb
<1>. QED  BY <1>1, <1>2 DEF Init, ThresholdInv

LEMMA ThresholdInvNext == ThresholdInv /\ [Next]_vars => ThresholdInv'
<1> SUFFICES ASSUME ThresholdInv, [Next]_vars PROVE ThresholdInv'
  OBVIOUS
<1> DEFINE N == VALIDATOR_SET_SIZE_MAX
<1>0. /\ AccInv /\ total \in Limb \X Limb
      /\ votingPower \in [Slots -> VotingPowers] /\ enabled \in [Slots -> {0, 1}]
      /\ N \in Nat
  BY SizeAssumption DEF ThresholdInv, AccInv
<1>a. AccInv'
  BY <1>0, AccInvNext
<1>1. CASE GetTotalVotingPower
  <2>1. pc = "total" /\ i = 0 /\ sum = 0 /\ UNCHANGED <<votingPower, enabled, acc, i, sum>>
    BY <1>1 DEF GetTotalVotingPower, ThresholdInv
  <2>2. TotalPower' = TotalPower /\ ThresholdMet' = ThresholdMet /\ EnabledTerms' = EnabledTerms
    BY <2>1, InputsFixed
  <2>3. CASE HighSum \div B = 0 /\ CarrySum \div B = 0
    <3>1. total' = <<LowSum % B, CarrySum % B>> /\ pc' = "accumulate"
      BY <1>1, <2>3 DEF GetTotalVotingPower
    <3>2. total' \in Limb \X Limb /\ Val(total') = TotalPower
      BY <1>0, <2>3, <3>1, TotalDecision
    <3>3. sum' = SumBelow(EnabledTerms')[i']
      BY <2>1, <2>2, SumBelowStep
    <3>. QED  BY <1>a, <2>2, <3>1, <3>2, <3>3 DEF ThresholdInv
  <2>4. CASE ~(HighSum \div B = 0 /\ CarrySum \div B = 0)
    <3>1. pc' = "rejected" /\ total' = total
      BY <1>1, <2>4 DEF GetTotalVotingPower
    <3>2. ~(TotalPower < B * B)
      BY <1>0, <2>4, TotalDecision
    <3>3. ~ThresholdMet'
      BY <2>2, <3>2 DEF ThresholdMet
    <3>. QED  BY <1>0, <1>a, <3>1, <3>3 DEF ThresholdInv
  <2>. QED  BY <2>3, <2>4
<1>2. CASE AccumulateValidator
  <2> DEFINE v == votingPower[i]
             e == enabled[i]
  <2>1. /\ pc = "accumulate" /\ i \in Slots /\ i \in Nat /\ i + 1 \in 0 .. N
        /\ UNCHANGED <<votingPower, enabled, total>>
    BY <1>0, <1>2 DEF AccumulateValidator, ThresholdInv, AccInv, Slots
  <2>2. v \in Limb \X Limb /\ e \in {0, 1} /\ Val(v) \in Nat
    BY <1>0, <2>1, BFacts DEF VotingPowers, Val, Limb
  <2>3. /\ EnabledTerms' = EnabledTerms /\ TotalPower' = TotalPower
        /\ ThresholdMet' = ThresholdMet
    BY <2>1, InputsFixed
  <2>4. /\ sum = SumBelow(EnabledTerms)[i] /\ Val(acc) = sum
        /\ Val(total) = TotalPower
    BY <2>1 DEF ThresholdInv, AccInv
  <2>5. SumBelow(EnabledTerms)[i + 1] = sum + e * Val(v)
    <3>1. EnabledTerms[i] = e * Val(v)
      BY <2>1 DEF EnabledTerms
    <3>. QED  BY <2>1, <2>4, <3>1, SumBelowStep
  <2>6. CASE ~AccumulateOverflows(v, e, acc)
    <3>1. pc' = "accumulate" /\ i' = i + 1 /\ sum' = sum + e * Val(v)
      BY <1>2, <2>6 DEF AccumulateValidator
    <3>. QED  BY <1>0, <1>a, <2>1, <2>3, <2>4, <2>5, <3>1 DEF ThresholdInv
  <2>7. CASE AccumulateOverflows(v, e, acc)
    <3>1. pc' = "rejected"
      BY <1>2, <2>7 DEF AccumulateValidator
    <3>2. Val(acc) + e * Val(v) >= B * B
      BY <1>0, <2>2, <2>7, OverflowMeansBig DEF AccInv
    <3>3. NatBelow(EnabledTerms, N) /\ EnabledPower = SumBelow(EnabledTerms)[N]
      BY <1>0, EnabledTermsNat
    <3>4. SumBelow(EnabledTerms)[i + 1] <= SumBelow(EnabledTerms)[N]
      BY <1>0, <2>1, <3>3, SumBelowMono
    <3>5. SumBelow(EnabledTerms)[i + 1] \in Nat
      <4>1. NatBelow(EnabledTerms, i + 1)
        BY <1>0, <2>1, <3>3 DEF NatBelow
      <4>. QED  BY <2>1, <4>1, SumBelowNat
    <3>6. EnabledPower >= B * B /\ EnabledPower \in Nat
      <4>1. SumBelow(EnabledTerms)[N] \in Nat
        BY <1>0, <3>3, SumBelowNat
      <4>. QED  BY <2>2, <2>4, <2>5, <3>2, <3>3, <3>4, <3>5, <4>1, BFacts
    <3>7. ~ThresholdMet
      BY <3>6, BFacts DEF ThresholdMet, ThresholdDenominator
    <3>. QED  BY <1>0, <1>a, <2>1, <2>3, <3>1, <3>7 DEF ThresholdInv
  <2>. QED  BY <2>6, <2>7
<1>3. CASE VotingPowerGreaterThanThreshold
  <2>1. /\ pc = "accumulate" /\ i = N
        /\ UNCHANGED <<votingPower, enabled, total, acc, i, sum>>
    BY <1>3 DEF VotingPowerGreaterThanThreshold
  <2>2. ThresholdMet' = ThresholdMet /\ TotalPower' = TotalPower
    BY <2>1, InputsFixed
  <2>3. Val(acc) = EnabledPower /\ Val(total) = TotalPower
    <3>1. sum = SumBelow(EnabledTerms)[N] /\ Val(acc) = sum /\ Val(total) = TotalPower
      BY <2>1 DEF ThresholdInv, AccInv
    <3>. QED  BY <1>0, <3>1, EnabledTermsNat
  <2>4. TotalPower < B * B
    BY <1>0, <2>3, ValBound
  <2>5. (/\ MulI64ByU32Ok(acc, ThresholdDenominator)
         /\ MulI64ByU32Ok(total, ThresholdNumerator)
         /\ IsI64Gte(MulI64ByU32(acc, ThresholdDenominator),
                     MulI64ByU32(total, ThresholdNumerator)))
        <=> ThresholdMet
    <3>1. (/\ MulI64ByU32Ok(acc, ThresholdDenominator)
           /\ MulI64ByU32Ok(total, ThresholdNumerator)
           /\ IsI64Gte(MulI64ByU32(acc, ThresholdDenominator),
                       MulI64ByU32(total, ThresholdNumerator)))
          <=> /\ ThresholdDenominator * Val(acc) < B * B
              /\ ThresholdNumerator * Val(total) < B * B
              /\ ThresholdDenominator * Val(acc) >= ThresholdNumerator * Val(total)
      BY <1>0, ThresholdDecision DEF AccInv
    <3>. QED  BY <2>3, <2>4, <3>1 DEF ThresholdMet
  <2>6. pc' = IF /\ MulI64ByU32Ok(acc, ThresholdDenominator)
                 /\ MulI64ByU32Ok(total, ThresholdNumerator)
                 /\ IsI64Gte(MulI64ByU32(acc, ThresholdDenominator),
                             MulI64ByU32(total, ThresholdNumerator))
              THEN "accepted" ELSE "rejected"
    BY <1>3 DEF VotingPowerGreaterThanThreshold
  <2>7. (pc' = "accepted" => ThresholdMet') /\ (pc' = "rejected" => ~ThresholdMet')
        /\ pc' \in {"accepted", "rejected"}
    BY <2>2, <2>5, <2>6
  <2>. QED  BY <1>0, <1>a, <2>1, <2>2, <2>3, <2>7 DEF ThresholdInv
<1>4. CASE UNCHANGED vars
  <2>1. UNCHANGED <<votingPower, enabled>>
    BY <1>4 DEF vars
  <2>2. EnabledTerms' = EnabledTerms /\ TotalPower' = TotalPower /\ ThresholdMet' = ThresholdMet
    BY <2>1, InputsFixed
  <2>. QED  BY <1>4, <2>2 DEF vars, ThresholdInv, AccInv
<1>. QED  BY <1>1, <1>2, <1>3, <1>4 DEF Next

(***************************************************************************)
(* For every limb width and every number of validator slots, the limb      *)
(* arithmetic of check_voting_power (get_total_voting_power, the           *)
(* accumulation loop, mul_i64_by_u32 and is_i64_gte) decides the threshold *)
(* exactly: the circuit accepts if and only if the total, three times the  *)
(* enabled power and twice the total fit in 64 bits and three times the    *)
(* enabled power is at least twice the total.                              *)
(***************************************************************************)
THEOREM ThresholdCorrectInvariant == Spec => []ThresholdCorrect
<1>1. ThresholdInv => ThresholdCorrect
  BY DEF ThresholdInv, ThresholdCorrect, ThresholdMet
<1>. QED  BY ThresholdInvInit, ThresholdInvNext, <1>1, PTL DEF Spec

(***************************************************************************)
(* For every limb width and set size, check_voting_power keeps every       *)
(* I64Target it forms (the total and the accumulator) in two u32 limbs and *)
(* its loop index within the validator slots.                              *)
(***************************************************************************)
THEOREM VotingPowerTypeCorrect == Spec => []TypeOK
<1>1. ThresholdInv => TypeOK
  BY DEF ThresholdInv, AccInv, TypeOK
<1>. QED  BY ThresholdInvInit, ThresholdInvNext, <1>1, PTL DEF Spec
=============================================================================
