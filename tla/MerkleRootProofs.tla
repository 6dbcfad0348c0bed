-------------------------- MODULE MerkleRootProofs --------------------------
(***************************************************************************)
(* Facts about the Tendermint root of merkle.rs as MerkleHash defines it:  *)
(* powers of two, get_split_point, and the recursion equation of the      *)
(* recursive function MerkleRoots behind simple_hash_from_byte_vectors.    *)
(***************************************************************************)
EXTENDS MerkleHash, TLAPS

\* A power of two above one is even, and its half is a power of two.
LEMMA HalfPowerOfTwo ==
    ASSUME NEW n, IsPowerOfTwo(n), n > 1
    PROVE  n % 2 = 0 /\ IsPowerOfTwo(n \div 2)
<1>1. n \in Nat
  BY DEF IsPowerOfTwo
<1>2. n % 2 = 0
  <2>1. SUFFICES ASSUME n % 2 = 1 PROVE FALSE
    BY <1>1
  <2>2. n = n * 1 /\ n \in 1 .. n /\ 1 \in 1 .. n
    BY <1>1
  <2>. QED  BY <2>1, <2>2 DEF IsPowerOfTwo
<1>3. IsPowerOfTwo(n \div 2)
  <2> DEFINE m == n \div 2
  <2>1. m \in Nat \ {0} /\ n = 2 * m
    BY <1>1, <1>2
  <2>2. ASSUME NEW d \in 1 .. m, NEW k \in 1 .. m, m = d * k, d % 2 = 1
        PROVE  d = 1
    <3>1. n = d * (2 * k) /\ d \in 1 .. n /\ 2 * k \in 1 .. n
      BY <2>1, <2>2
    <3>. QED  BY <2>2, <3>1 DEF IsPowerOfTwo
  <2>. QED  BY <2>1, <2>2 DEF IsPowerOfTwo
<1>. QED  BY <1>2, <1>3

\* Twice a power of two is a power of two.
LEMMA DoublePowerOfTwo ==
    ASSUME NEW p, IsPowerOfTwo(p)
    PROVE  IsPowerOfTwo(2 * p)
<1>1. p \in Nat \ {0}
  BY DEF IsPowerOfTwo
<1>2. ASSUME NEW d \in 1 .. 2 * p, NEW k \in 1 .. 2 * p, 2 * p = d * k, d % 2 = 1
      PROVE  d = 1
  <2>1. PICK a \in Nat : d = 2 * a + 1
    BY <1>2
  <2>2. k % 2 = 0
    <3>1. SUFFICES ASSUME k % 2 = 1 PROVE FALSE
      BY <1>2
    <3>2. PICK b \in Nat : k = 2 * b + 1
      BY <3>1
    <3>3. d * k = 2 * (2 * a * b + a + b) + 1
      BY <2>1, <3>2
    <3>. QED  BY <1>1, <1>2, <3>3
  <2>3. PICK c \in 1 .. p : k = 2 * c
    <3>1. k \div 2 \in 1 .. p /\ k = 2 * (k \div 2)
      BY <1>1, <1>2, <2>2
    <3>. QED  BY <3>1
  <2>4. p = d * c
    BY <1>1, <1>2, <2>3
  <2>5. d \in 1 .. p
    BY <1>1, <1>2, <2>3, <2>4
  <2>. QED  BY <1>2, <2>3, <2>4, <2>5 DEF IsPowerOfTwo
<1>. QED  BY <1>1, <1>2 DEF IsPowerOfTwo

\* Of two distinct powers of two the larger is at least twice the smaller.
GapP(m) ==
    \A p, q : IsPowerOfTwo(p) /\ IsPowerOfTwo(q) /\ p <= m /\ p < q => 2 * p <= q
GapInd == INSTANCE Induction WITH P <- GapP

LEMMA PowerOfTwoGap ==
    ASSUME NEW p, NEW q, IsPowerOfTwo(p), IsPowerOfTwo(q), p < q
    PROVE  2 * p <= q
<1>1. GapP(0)
  BY DEF GapP, IsPowerOfTwo
<1>2. ASSUME NEW m \in Nat, GapP(m) PROVE GapP(m + 1)
  <2> SUFFICES ASSUME NEW p1, NEW q1, IsPowerOfTwo(p1), IsPowerOfTwo(q1),
                      p1 <= m + 1, p1 < q1
               PROVE  2 * p1 <= q1
    BY DEF GapP
  <2>0. p1 \in Nat \ {0} /\ q1 \in Nat \ {0}
    BY DEF IsPowerOfTwo
  <2>1. q1 > 1 /\ q1 % 2 = 0 /\ IsPowerOfTwo(q1 \div 2)
    BY <2>0, HalfPowerOfTwo
  <2>2. CASE p1 = 1
    BY <2>0, <2>1, <2>2
  <2>3. CASE p1 > 1
    <3>1. p1 % 2 = 0 /\ IsPowerOfTwo(p1 \div 2)
      BY <2>3, HalfPowerOfTwo
    <3>2. p1 \div 2 <= m /\ p1 \div 2 < q1 \div 2
      BY <2>0, <2>1, <3>1
    <3>3. 2 * (p1 \div 2) <= q1 \div 2
      BY <1>2, <2>1, <3>1, <3>2 DEF GapP
    <3>. QED  BY <2>0, <2>1, <3>1, <3>3
  <2>. QED  BY <2>0, <2>2, <2>3
<1>3. \A m \in Nat : GapP(m)
  BY <1>1, <1>2, GapInd!NatInductionPrinciple
<1>4. p \in Nat
  BY DEF IsPowerOfTwo
<1>. QED  BY <1>3, <1>4 DEF GapP

\* Every n >= 1 lies between a power of two and its double.
FloorExistsP(n) == n # 0 => \E p \in 1 .. n : IsPowerOfTwo(p) /\ n < 2 * p
FloorExistsInd == INSTANCE Induction WITH P <- FloorExistsP

LEMMA OneIsPowerOfTwo == IsPowerOfTwo(1)
  BY DEF IsPowerOfTwo

LEMMA FloorExists == \A n \in Nat : FloorExistsP(n)
<1>1. FloorExistsP(0)
  BY DEF FloorExistsP
<1>2. ASSUME NEW n \in Nat, FloorExistsP(n) PROVE FloorExistsP(n + 1)
  <2>1. CASE n = 0
    BY <2>1, OneIsPowerOfTwo DEF FloorExistsP
  <2>2. CASE n # 0
    <3>1. PICK p \in 1 .. n : IsPowerOfTwo(p) /\ n < 2 * p
      BY <1>2, <2>2 DEF FloorExistsP
    <3>2. CASE n + 1 < 2 * p
      BY <3>1, <3>2 DEF FloorExistsP
    <3>3. CASE n + 1 = 2 * p
      <4>1. IsPowerOfTwo(2 * p)
        BY <3>1, DoublePowerOfTwo
      <4>. QED  BY <3>1, <3>3, <4>1 DEF FloorExistsP
    <3>. QED  BY <3>1, <3>2, <3>3
  <2>. QED  BY <2>1, <2>2
<1>. QED  BY <1>1, <1>2, FloorExistsInd!NatInductionPrinciple

\* What FloorPow2 chooses: the power of two of n's bit length.
LEMMA FloorPow2Spec ==
    ASSUME NEW n \in Nat \ {0}
    PROVE  /\ FloorPow2(n) \in 1 .. n
           /\ IsPowerOfTwo(FloorPow2(n))
           /\ n < 2 * FloorPow2(n)
<1>1. \E p \in 1 .. n : IsPowerOfTwo(p) /\ n < 2 * p
  BY FloorExists DEF FloorExistsP
<1>. QED  BY <1>1 DEF FloorPow2

\* It is the only power of two p with p <= n < 2 * p.
LEMMA FloorPow2Unique ==
    ASSUME NEW n \in Nat \ {0}, NEW p, IsPowerOfTwo(p), p <= n, n < 2 * p
    PROVE  FloorPow2(n) = p
<1> DEFINE f == FloorPow2(n)
<1>1. f \in 1 .. n /\ IsPowerOfTwo(f) /\ n < 2 * f
  BY FloorPow2Spec
<1>2. p \in Nat
  BY DEF IsPowerOfTwo
<1>3. ~(f < p)
  <2> SUFFICES ASSUME f < p PROVE FALSE
    OBVIOUS
  <2>1. 2 * f <= p
    BY <1>1, PowerOfTwoGap
  <2>. QED  BY <1>1, <1>2, <2>1
<1>4. ~(p < f)
  <2> SUFFICES ASSUME p < f PROVE FALSE
    OBVIOUS
  <2>1. 2 * p <= f
    BY <1>1, PowerOfTwoGap
  <2>. QED  BY <1>1, <1>2, <2>1
<1>. QED  BY <1>1, <1>2, <1>3, <1>4

\* get_split_point(n) for n >= 2 leaves both subtrees non-empty.
LEMMA SplitPointBounds ==
    ASSUME NEW n \in Nat, n >= 2
    PROVE  SplitPoint(n) \in 1 .. n - 1
<1>1. FloorPow2(n) \in 1 .. n
  BY FloorPow2Spec
<1>. QED  BY <1>1 DEF SplitPoint

(***************************************************************************)
(* A slice of more than B and at most 2 * B items, B a power of two, is    *)
(* split after its first B items: the left subtree is a full block.        *)
(***************************************************************************)
LEMMA SplitPointBlock ==
    ASSUME NEW B, IsPowerOfTwo(B), NEW L \in Nat, B < L, L <= 2 * B
    PROVE  SplitPoint(L) = B
<1>1. B \in Nat \ {0}
  BY DEF IsPowerOfTwo
<1>2. CASE L < 2 * B
  <2>1. FloorPow2(L) = B
    BY <1>1, <1>2, FloorPow2Unique
  <2>. QED  BY <1>1, <1>2, <2>1 DEF SplitPoint
<1>3. CASE L = 2 * B
  <2>1. IsPowerOfTwo(2 * B)
    BY DoublePowerOfTwo
  <2>2. FloorPow2(L) = L
    BY <1>1, <1>3, <2>1, FloorPow2Unique
  <2>. QED  BY <1>1, <1>3, <2>2 DEF SplitPoint
<1>. QED  BY <1>1, <1>2, <1>3

-----------------------------------------------------------------------------
(***************************************************************************)
(* The recursion equation of MerkleRoots.  The definition of a recursive   *)
(* function is a CHOOSE; the equation holds because the solutions on       *)
(* 0 .. n exist and agree, by induction on n, since the root of a slice of *)
(* len >= 2 items reads only the roots of its two shorter halves.          *)
(***************************************************************************)
\* The right-hand side of the definition of MerkleRoots(s), for roots h.
RootsBody(s, h, len) ==
    [a \in Nat |->
       IF len = 0 THEN EmptyHash
       ELSE IF len = 1 THEN LeafHash(s[a])
       ELSE InnerHash(h[SplitPoint(len)][a],
                      h[len - SplitPoint(len)][a + SplitPoint(len)])]

\* The roots of slices of len items depend only on the roots of shorter ones.
LEMMA RootsBodyLocal ==
    ASSUME NEW s, NEW h1, NEW h2, NEW len \in Nat,
           \A j \in 0 .. len - 1 : h1[j] = h2[j]
    PROVE  RootsBody(s, h1, len) = RootsBody(s, h2, len)
<1>1. CASE len < 2
  BY <1>1 DEF RootsBody
<1>2. CASE len >= 2
  <2>1. SplitPoint(len) \in 1 .. len - 1
    BY <1>2, SplitPointBounds
  <2>2. h1[SplitPoint(len)] = h2[SplitPoint(len)]
        /\ h1[len - SplitPoint(len)] = h2[len - SplitPoint(len)]
    BY <2>1
  <2>. QED  BY <1>2, <2>2 DEF RootsBody
<1>. QED  BY <1>1, <1>2

\* h solves the recursion of MerkleRoots(s) on 0 .. n.
RootsApprox(s, h, n) ==
    /\ DOMAIN h = 0 .. n
    /\ \A m \in 0 .. n : h[m] = RootsBody(s, h, m)

RootsExistP(n) == \A s : \E h : RootsApprox(s, h, n)
RootsExistInd == INSTANCE Induction WITH P <- RootsExistP

LEMMA RootsExist == \A n \in Nat : RootsExistP(n)
<1>1. RootsExistP(0)
  <2> SUFFICES ASSUME NEW s PROVE \E h : RootsApprox(s, h, 0)
    BY DEF RootsExistP
  <2> DEFINE h == [m \in 0 .. 0 |-> [a \in Nat |-> EmptyHash]]
  <2>1. h[0] = RootsBody(s, h, 0)
    BY DEF RootsBody
  <2>. QED  BY <2>1 DEF RootsApprox
<1>2. ASSUME NEW n \in Nat, RootsExistP(n) PROVE RootsExistP(n + 1)
  <2> SUFFICES ASSUME NEW s PROVE \E h : RootsApprox(s, h, n + 1)
    BY DEF RootsExistP
  <2>1. PICK h : RootsApprox(s, h, n)
    BY <1>2 DEF RootsExistP
  <2> DEFINE h2 == [m \in 0 .. n + 1 |-> IF m <= n THEN h[m] ELSE RootsBody(s, h, n + 1)]
  <2>2. ASSUME NEW m \in 0 .. n + 1 PROVE h2[m] = RootsBody(s, h2, m)
    <3>1. \A j \in 0 .. m - 1 : h[j] = h2[j]
      BY <2>1 DEF RootsApprox
    <3>2. RootsBody(s, h, m) = RootsBody(s, h2, m)
      BY <3>1, RootsBodyLocal
    <3>3. h2[m] = RootsBody(s, h, m)
      BY <2>1 DEF RootsApprox
    <3>. QED  BY <3>2, <3>3
  <2>. QED  BY <2>2 DEF RootsApprox
<1>. QED  BY <1>1, <1>2, RootsExistInd!NatInductionPrinciple

RootsUniqueP(k) ==
    \A s, h1, h2, n1, n2 :
        /\ n1 \in Nat /\ n2 \in Nat /\ k <= n1 /\ k <= n2
        /\ RootsApprox(s, h1, n1) /\ RootsApprox(s, h2, n2)
        => \A j \in 0 .. k : h1[j] = h2[j]
RootsUniqueInd == INSTANCE Induction WITH P <- RootsUniqueP

LEMMA RootsUnique == \A k \in Nat : RootsUniqueP(k)
<1>1. RootsUniqueP(0)
  <2> SUFFICES ASSUME NEW s, NEW h1, NEW h2, NEW n1 \in Nat, NEW n2 \in Nat,
                      RootsApprox(s, h1, n1), RootsApprox(s, h2, n2)
               PROVE  h1[0] = h2[0]
    BY DEF RootsUniqueP
  <2>1. RootsBody(s, h1, 0) = RootsBody(s, h2, 0)
    BY RootsBodyLocal
  <2>. QED  BY <2>1 DEF RootsApprox
<1>2. ASSUME NEW k \in Nat, RootsUniqueP(k) PROVE RootsUniqueP(k + 1)
  <2> SUFFICES ASSUME NEW s, NEW h1, NEW h2, NEW n1 \in Nat, NEW n2 \in Nat,
                      k + 1 <= n1, k + 1 <= n2,
                      RootsApprox(s, h1, n1), RootsApprox(s, h2, n2)
               PROVE  \A j \in 0 .. k + 1 : h1[j] = h2[j]
    BY DEF RootsUniqueP
  <2>1. \A j \in 0 .. k : h1[j] = h2[j]
    BY <1>2 DEF RootsUniqueP
  <2>2. RootsBody(s, h1, k + 1) = RootsBody(s, h2, k + 1)
    BY <2>1, RootsBodyLocal
  <2>3. h1[k + 1] = h2[k + 1]
    BY <2>2 DEF RootsApprox
  <2>. QED  BY <2>1, <2>3
<1>. QED  BY <1>1, <1>2, RootsUniqueInd!NatInductionPrinciple

\* The recursion equation of MerkleRoots, for every sequence s.
LEMMA MerkleRootsEquation ==
    ASSUME NEW s
    PROVE  MerkleRoots(s) = [len \in Nat |-> RootsBody(s, MerkleRoots(s), len)]
<1> DEFINE H(n) == CHOOSE h : RootsApprox(s, h, n)
           G == [n \in Nat |-> H(n)[n]]
<1>1. \A n \in Nat : RootsApprox(s, H(n), n)
  BY RootsExist DEF RootsExistP
<1>2. G = [len \in Nat |-> RootsBody(s, G, len)]
  <2> SUFFICES ASSUME NEW n \in Nat PROVE G[n] = RootsBody(s, G, n)
    <3> DEFINE F == [len \in Nat |-> RootsBody(s, G, len)]
    <3>1. ASSUME \A m \in Nat : G[m] = F[m] PROVE G = F
      BY <3>1
    <3>. QED  BY <3>1
  <2>1. ASSUME NEW j \in 0 .. n - 1 PROVE H(n)[j] = G[j]
    <3>1. RootsApprox(s, H(n), n) /\ RootsApprox(s, H(j), j) /\ j \in Nat
      BY <1>1
    <3>2. RootsUniqueP(j)
      BY RootsUnique
    <3>3. H(n)[j] = H(j)[j]
      BY <3>1, <3>2 DEF RootsUniqueP
    <3>. QED  BY <3>3
  <2>2. RootsBody(s, H(n), n) = RootsBody(s, G, n)
    BY <2>1, RootsBodyLocal
  <2>3. G[n] = RootsBody(s, H(n), n)
    BY <1>1 DEF RootsApprox
  <2>. QED  BY <2>2, <2>3
<1>. QED  BY <1>2 DEF MerkleRoots, RootsBody

\* The three cases of trails_from_byte_slices, as the proofs use them.
LEMMA MerkleRootsCases ==
    ASSUME NEW s, NEW len \in Nat, NEW a \in Nat
    PROVE  /\ len = 0 => MerkleRoots(s)[len][a] = EmptyHash
           /\ len = 1 => MerkleRoots(s)[len][a] = LeafHash(s[a])
           /\ len >= 2 => MerkleRoots(s)[len][a] =
                            InnerHash(MerkleRoots(s)[SplitPoint(len)][a],
                                      MerkleRoots(s)[len - SplitPoint(len)][a + SplitPoint(len)])
<1>1. MerkleRoots(s)[len] = RootsBody(s, MerkleRoots(s), len)
  BY MerkleRootsEquation
<1>. QED  BY <1>1 DEF RootsBody
=============================================================================
