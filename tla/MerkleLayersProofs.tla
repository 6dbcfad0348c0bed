------------------------- MODULE MerkleLayersProofs -------------------------
(***************************************************************************)
(* Proofs about the layered Merkle reduction of hash_merkle_layer          *)
(* (MerkleLayers), for every power-of-two width.                           *)
(***************************************************************************)
EXTENDS MerkleLayers, MerkleRootProofs, FiniteSetTheorems, TLAPS

-----------------------------------------------------------------------------
(***************************************************************************)
(* The inductive invariant: the types, the layer size a power of two (so   *)
(* that every layer the loop hashes has even size and the pairs it reads   *)
(* are inside the layer), and the enabled prefix.                          *)
(***************************************************************************)
LayersInv ==
    /\ TypeOK
    /\ IsPowerOfTwo(layerSize)
    /\ EnabledPrefix

LEMMA WidthFacts == Width \in Nat \ {0} /\ IsPowerOfTwo(Width)
BY WidthAssumption DEF IsPowerOfTwo

LEMMA InitCommitmentInv == InitCommitment => LayersInv
<1> SUFFICES ASSUME InitCommitment PROVE LayersInv
  OBVIOUS
<1>1. PICK window \in 0 .. Width :
        /\ leaves \in [0 .. window - 1 -> Data]
        /\ leafEnabled = [j \in Slots |-> j < window]
        /\ hashes = [j \in Slots |-> IF j < window THEN LeafHash(leaves[j])
                                                   ELSE ZeroHash]
        /\ enabled = leafEnabled
        /\ layerSize = Width
  BY DEF InitCommitment
<1>2. TypeOK
  BY <1>1, WidthFacts DEF TypeOK, Slots
<1>3. EnabledPrefix
  BY <1>1, WidthFacts DEF EnabledPrefix, Slots
<1>. QED  BY <1>1, <1>2, <1>3, WidthFacts DEF LayersInv

(***************************************************************************)
(* One iteration of the loop keeps the types and the power-of-two layer    *)
(* size, whatever the enable bits: the pairs it reads are inside the layer *)
(* and the new layer is half as large.                                     *)
(***************************************************************************)
TypesInv ==
    /\ TypeOK
    /\ IsPowerOfTwo(layerSize)

LEMMA TypesStep == TypesInv /\ HashMerkleLayer => TypesInv'
<1> SUFFICES ASSUME TypesInv, HashMerkleLayer PROVE TypesInv'
  OBVIOUS
<1> DEFINE s == layerSize
<1>1. s \in 1 .. Width /\ s > 1 /\ s % 2 = 0 /\ IsPowerOfTwo(s \div 2)
  BY HalfPowerOfTwo DEF TypesInv, TypeOK, HashMerkleLayer
<1>2. LayerPairs(s) = s \div 2
  BY <1>1 DEF LayerPairs
<1>3. enabled' = [j \in Slots |-> IF j < s \div 2 THEN enabled[2 * j] \/ enabled[2 * j + 1]
                                                   ELSE enabled[j]]
  BY <1>2 DEF HashMerkleLayer, LayerEnabled, TypesInv, TypeOK
<1>4. enabled' \in [Slots -> BOOLEAN]
  BY <1>1, <1>3, WidthFacts DEF TypesInv, TypeOK, Slots
<1>5. DOMAIN hashes' = Slots /\ layerSize' \in 1 .. Width
  BY <1>1, WidthFacts DEF HashMerkleLayer, LayerHashes, TypesInv, TypeOK
<1>. QED  BY <1>1, <1>4, <1>5 DEF HashMerkleLayer, TypesInv, TypeOK

\* One iteration of the loop keeps the invariant.
LEMMA LayerStepInv == LayersInv /\ HashMerkleLayer => LayersInv'
<1> SUFFICES ASSUME LayersInv, HashMerkleLayer PROVE LayersInv'
  OBVIOUS
<1> DEFINE s == layerSize
<1>1. s \in 1 .. Width /\ s > 1 /\ s % 2 = 0 /\ IsPowerOfTwo(s \div 2)
  BY HalfPowerOfTwo DEF LayersInv, TypeOK, HashMerkleLayer
<1>2. LayerPairs(s) = s \div 2
  BY <1>1 DEF LayerPairs
<1>3. enabled' = [j \in Slots |-> IF j < s \div 2 THEN enabled[2 * j] \/ enabled[2 * j + 1]
                                                   ELSE enabled[j]]
  BY <1>2 DEF HashMerkleLayer, LayerEnabled, LayersInv, TypeOK
<1>4. TypeOK' /\ IsPowerOfTwo(layerSize')
  BY TypesStep DEF LayersInv, TypesInv
<1>5. EnabledPrefix'
  <2>1. PICK c \in 0 .. s : \A j \in 0 .. s - 1 : enabled[j] <=> j < c
    BY DEF LayersInv, EnabledPrefix
  <2>2. (c + 1) \div 2 \in 0 .. layerSize'
    BY <1>1, <2>1 DEF HashMerkleLayer
  <2>3. \A j \in 0 .. layerSize' - 1 : enabled'[j] <=> j < (c + 1) \div 2
    <3>1. SUFFICES ASSUME NEW j \in 0 .. s \div 2 - 1
                   PROVE  enabled'[j] <=> j < (c + 1) \div 2
      BY DEF HashMerkleLayer
    <3>2. 2 * j \in 0 .. s - 1 /\ 2 * j + 1 \in 0 .. s - 1 /\ j \in Slots
      BY <1>1, <3>1, WidthFacts DEF Slots
    <3>3. enabled'[j] = (enabled[2 * j] \/ enabled[2 * j + 1])
      BY <1>1, <1>3, <3>1, <3>2
    <3>4. (enabled[2 * j] <=> 2 * j < c) /\ (enabled[2 * j + 1] <=> 2 * j + 1 < c)
      BY <2>1, <3>2
    <3>5. (2 * j < c \/ 2 * j + 1 < c) <=> j < (c + 1) \div 2
      BY <1>1, <2>1, <3>1
    <3>. QED  BY <3>3, <3>4, <3>5, Zenon
  <2>. QED  BY <2>2, <2>3 DEF EnabledPrefix
<1>. QED  BY <1>4, <1>5 DEF LayersInv

LEMMA LayersInvNext == LayersInv /\ [Next]_vars => LayersInv'
<1>1. LayersInv /\ UNCHANGED vars => LayersInv'
  BY DEF LayersInv, TypeOK, EnabledPrefix, vars
<1>. QED  BY <1>1, LayerStepInv DEF Next

(***************************************************************************)
(* In get_data_commitment, for every power-of-two NUM_LEAVES and every     *)
(* window, the enabled nodes of every layer of the loop are a prefix of    *)
(* the layer, and the loop keeps every vector of NUM_LEAVES entries.       *)
(***************************************************************************)
THEOREM EnabledPrefixInvariant == SpecCommitment => [](TypeOK /\ EnabledPrefix)
<1>1. LayersInv => TypeOK /\ EnabledPrefix
  BY DEF LayersInv
<1>. QED  BY InitCommitmentInv, LayersInvNext, <1>1, PTL DEF SpecCommitment


-----------------------------------------------------------------------------
(***************************************************************************)
(* get_data_commitment refines DataCommitment.  With a window of n leaves  *)
(* and blocks of B = NUM_LEAVES / merkle_layer_size leaves, node i of the  *)
(* current layer stands for the leaves i * B .. i * B + B - 1 of the       *)
(* window: it is enabled exactly when that block holds a leaf, and then    *)
(* its hash is the Tendermint root of the leaves of the block; otherwise   *)
(* it is the zero hash.  Two blocks join into one of 2 * B leaves, and the *)
(* Tendermint tree splits such a slice after its first B leaves, which is *)
(* why the layer loop and the recursive tree agree.                        *)
(***************************************************************************)
\* The window as the sequence simple_hash_from_byte_vectors takes.
WindowSeq(n) == [k \in 1 .. n |-> leaves[k - 1]]

\* The number of leaves of the window in block i of B leaves.
BlockLen(n, B, i) == IF n - i * B < B THEN n - i * B ELSE B

RefInv ==
    /\ LayersInv
    /\ \E n \in 0 .. Width, B \in 1 .. Width :
          /\ leaves \in [0 .. n - 1 -> Data]
          /\ IsPowerOfTwo(B) /\ B * layerSize = Width
          /\ \A i \in 0 .. layerSize - 1 :
                /\ enabled[i] <=> i * B < n
                /\ enabled[i] => hashes[i] = MerkleRoots(WindowSeq(n))[BlockLen(n, B, i)][i * B + 1]
                /\ ~enabled[i] => hashes[i] = ZeroHash

\* The blocks of the first layer are the single leaves of the window.
LEMMA RefInvInit == InitCommitment => RefInv
<1> SUFFICES ASSUME InitCommitment PROVE RefInv
  OBVIOUS
<1>1. PICK n \in 0 .. Width :
        /\ leaves \in [0 .. n - 1 -> Data]
        /\ leafEnabled = [j \in Slots |-> j < n]
        /\ hashes = [j \in Slots |-> IF j < n THEN LeafHash(leaves[j]) ELSE ZeroHash]
        /\ enabled = leafEnabled
        /\ layerSize = Width
  BY DEF InitCommitment
<1>2. LayersInv
  BY InitCommitmentInv
<1>3. ASSUME NEW i \in 0 .. layerSize - 1
      PROVE  /\ enabled[i] <=> i * 1 < n
             /\ enabled[i] => hashes[i] = MerkleRoots(WindowSeq(n))[BlockLen(n, 1, i)][i * 1 + 1]
             /\ ~enabled[i] => hashes[i] = ZeroHash
  <2>1. i \in Slots /\ i * 1 = i
    BY <1>1, WidthFacts DEF Slots
  <2>2. ASSUME i < n
        PROVE  LeafHash(leaves[i]) = MerkleRoots(WindowSeq(n))[BlockLen(n, 1, i)][i + 1]
    <3>1. BlockLen(n, 1, i) = 1
      BY <2>2, <2>1 DEF BlockLen
    <3>2. MerkleRoots(WindowSeq(n))[1][i + 1] = LeafHash(WindowSeq(n)[i + 1])
      BY <2>1, MerkleRootsCases
    <3>3. WindowSeq(n)[i + 1] = leaves[i]
      BY <2>1, <2>2 DEF WindowSeq
    <3>. QED  BY <3>1, <3>2, <3>3
  <2>. QED  BY <1>1, <2>1, <2>2
<1>4. 1 \in 1 .. Width /\ IsPowerOfTwo(1) /\ 1 * layerSize = Width
  BY <1>1, OneIsPowerOfTwo, WidthFacts
<1>5. \A i \in 0 .. layerSize - 1 :
          /\ enabled[i] <=> i * 1 < n
          /\ enabled[i] => hashes[i] = MerkleRoots(WindowSeq(n))[BlockLen(n, 1, i)][i * 1 + 1]
          /\ ~enabled[i] => hashes[i] = ZeroHash
  BY <1>3
<1>. QED  BY <1>1, <1>2, <1>4, <1>5, Zenon DEF RefInv

(***************************************************************************)
(* One iteration of the loop joins blocks 2 * k and 2 * k + 1 of B leaves  *)
(* into block k of 2 * B leaves: both enabled, the right block is not      *)
(* empty and the Tendermint tree splits the joined slice after B leaves;   *)
(* only the left enabled, the right block is empty and the left root is    *)
(* the root of the joined slice; neither, and both are the zero hash.      *)
(***************************************************************************)
LEMMA RefInvStep == RefInv /\ HashMerkleLayer => RefInv'
<1> SUFFICES ASSUME RefInv, HashMerkleLayer PROVE RefInv'
  OBVIOUS
<1> DEFINE s == layerSize
<1>1. s \in 1 .. Width /\ s > 1 /\ s % 2 = 0 /\ IsPowerOfTwo(s \div 2)
  BY HalfPowerOfTwo DEF RefInv, LayersInv, TypeOK, HashMerkleLayer
<1>2. LayersInv'
  BY LayerStepInv DEF RefInv
<1>3. PICK n \in 0 .. Width, B \in 1 .. Width :
        /\ leaves \in [0 .. n - 1 -> Data]
        /\ IsPowerOfTwo(B) /\ B * layerSize = Width
        /\ \A i \in 0 .. layerSize - 1 :
              /\ enabled[i] <=> i * B < n
              /\ enabled[i] => hashes[i] = MerkleRoots(WindowSeq(n))[BlockLen(n, B, i)][i * B + 1]
              /\ ~enabled[i] => hashes[i] = ZeroHash
  BY DEF RefInv
<1> DEFINE R == MerkleRoots(WindowSeq(n))
<1>4. /\ 2 * B \in 1 .. Width /\ IsPowerOfTwo(2 * B)
      /\ (2 * B) * layerSize' = Width /\ layerSize' = s \div 2
  <2>1. s = 2 * (s \div 2) /\ s \div 2 \in Nat \ {0}
    BY <1>1
  <2>2. (2 * B) * (s \div 2) = B * s
    BY <2>1
  <2>3. 2 * B <= Width
    <3>1. (2 * B) * (s \div 2) >= 2 * B
      BY <2>1
    <3>. QED  BY <1>3, <2>2, <3>1
  <2>. QED  BY <1>3, <2>2, <2>3, DoublePowerOfTwo DEF HashMerkleLayer
<1>5. WindowSeq(n)' = WindowSeq(n) /\ leaves' = leaves
  BY DEF WindowSeq, HashMerkleLayer
<1>6. ASSUME NEW k \in 0 .. s \div 2 - 1
      PROVE  /\ enabled'[k] <=> k * (2 * B) < n
             /\ enabled'[k] => hashes'[k] = R[BlockLen(n, 2 * B, k)][k * (2 * B) + 1]
             /\ ~enabled'[k] => hashes'[k] = ZeroHash
  <2>1. /\ 2 * k \in 0 .. s - 1 /\ 2 * k + 1 \in 0 .. s - 1 /\ k \in Slots
        /\ k < LayerPairs(s)
    BY <1>1, WidthFacts DEF Slots, LayerPairs
  <2>2. enabled'[k] = (enabled[2 * k] \/ enabled[2 * k + 1])
    BY <2>1 DEF HashMerkleLayer, LayerEnabled, RefInv, LayersInv, TypeOK
  <2>3. hashes'[k] = IF enabled[2 * k] /\ enabled[2 * k + 1]
                     THEN InnerHash(hashes[2 * k], hashes[2 * k + 1])
                     ELSE hashes[2 * k]
    BY <2>1 DEF HashMerkleLayer, LayerHashes, RefInv, LayersInv, TypeOK
  <2>4. /\ (2 * k) * B = k * (2 * B)
        /\ (2 * k + 1) * B = k * (2 * B) + B
        /\ k * (2 * B) \in Nat
    BY <1>3, <2>1
  <2>5. /\ enabled[2 * k] <=> k * (2 * B) < n
        /\ enabled[2 * k + 1] <=> k * (2 * B) + B < n
        /\ enabled[2 * k] => hashes[2 * k] = R[BlockLen(n, B, 2 * k)][k * (2 * B) + 1]
        /\ enabled[2 * k + 1] =>
              hashes[2 * k + 1] = R[BlockLen(n, B, 2 * k + 1)][k * (2 * B) + B + 1]
        /\ ~enabled[2 * k] => hashes[2 * k] = ZeroHash
    BY <1>3, <2>1, <2>4
  <2>6. CASE enabled[2 * k] /\ enabled[2 * k + 1]
    <3> DEFINE a == k * (2 * B) + 1
               r == BlockLen(n, B, 2 * k + 1)
    <3>1. BlockLen(n, B, 2 * k) = B /\ r \in 1 .. B
      BY <1>3, <2>4, <2>5, <2>6 DEF BlockLen
    <3>2. BlockLen(n, 2 * B, k) = B + r
      BY <1>3, <2>4, <2>5, <2>6 DEF BlockLen
    <3>3. SplitPoint(B + r) = B /\ B + r >= 2 /\ a \in Nat
      <4>1. B + r \in Nat /\ B < B + r /\ B + r <= 2 * B /\ B + r >= 2 /\ a \in Nat
        BY <1>3, <2>4, <3>1
      <4>2. SplitPoint(B + r) = B
        BY <1>3, <4>1, SplitPointBlock
      <4>. QED  BY <4>1, <4>2
    <3>4. R[B + r][a] = InnerHash(R[B][a], R[r][a + B])
      <4>1. R[B + r][a] = InnerHash(R[SplitPoint(B + r)][a],
                                    R[B + r - SplitPoint(B + r)][a + SplitPoint(B + r)])
        BY <3>1, <3>3, MerkleRootsCases
      <4>. QED  BY <3>1, <3>3, <4>1
    <3>5. k * (2 * B) + B + 1 = a + B
      BY <2>4, <1>3
    <3>. QED  BY <2>2, <2>3, <2>5, <2>6, <3>1, <3>2, <3>4, <3>5
  <2>7. CASE enabled[2 * k] /\ ~enabled[2 * k + 1]
    <3>1. BlockLen(n, B, 2 * k) = BlockLen(n, 2 * B, k)
      BY <1>3, <2>4, <2>5, <2>7 DEF BlockLen
    <3>. QED  BY <2>2, <2>3, <2>5, <2>7, <3>1
  <2>8. CASE ~enabled[2 * k]
    <3>1. ~enabled[2 * k + 1]
      BY <1>3, <2>4, <2>5, <2>8
    <3>. QED  BY <2>2, <2>3, <2>5, <2>8, <3>1
  <2>. QED  BY <2>6, <2>7, <2>8
<1>7. \A i \in 0 .. layerSize' - 1 :
          /\ enabled'[i] <=> i * (2 * B) < n
          /\ enabled'[i] => hashes'[i] = MerkleRoots(WindowSeq(n))[BlockLen(n, 2 * B, i)][i * (2 * B) + 1]
          /\ ~enabled'[i] => hashes'[i] = ZeroHash
  BY <1>4, <1>6
<1>. QED  BY <1>2, <1>3, <1>4, <1>5, <1>7, Zenon DEF RefInv

LEMMA RefInvNext == RefInv /\ [Next]_vars => RefInv'
<1>1. RefInv /\ UNCHANGED vars => RefInv'
  BY DEF RefInv, LayersInv, TypeOK, EnabledPrefix, vars, WindowSeq
<1>. QED  BY <1>1, RefInvStep DEF Next

\* The abstract commitment, with the instance's definitions expanded.
LEMMA AbstractDefs ==
    /\ Abstract!NoHash = NoHash
    /\ \A w : Abstract!WindowRoot(w) =
                 IF DOMAIN w = {} THEN ZeroHash
                 ELSE SimpleHash([k \in 1 .. Cardinality(DOMAIN w) |-> w[k - 1]])
  BY DEF Abstract!NoHash, NoHash, Abstract!WindowRoot, Abstract!SimpleHash, SimpleHash,
         Abstract!MerkleRoots, MerkleRoots, Abstract!SplitPoint, SplitPoint,
         Abstract!FloorPow2, FloorPow2, Abstract!IsPowerOfTwo, IsPowerOfTwo,
         Abstract!LeafHash, LeafHash, Abstract!InnerHash, InnerHash,
         Abstract!EmptyHash, EmptyHash, Abstract!Cardinality, Cardinality

\* The loop starts at merkle_layer_size = NUM_LEAVES > 1: no commitment yet.
LEMMA RefineInit == Width > 1 /\ InitCommitment => Abstract!Init
  BY AbstractDefs DEF InitCommitment, Abstract!Init

\* Once merkle_layer_size is 1, Root is the commitment DataCommitment produces.
RootDone == layerSize = 1 => Root = Abstract!WindowRoot(leaves)

(***************************************************************************)
(* At merkle_layer_size = 1 the one block is the whole window, so node 0   *)
(* holds the Tendermint root of the window when it is not empty and the    *)
(* zero hash when it is.                                                   *)
(***************************************************************************)
LEMMA RootIsWindowRoot == RefInv => RootDone
<1> SUFFICES ASSUME RefInv, layerSize = 1 PROVE Root = Abstract!WindowRoot(leaves)
  BY DEF RootDone
<1>1. PICK n \in 0 .. Width, B \in 1 .. Width :
        /\ leaves \in [0 .. n - 1 -> Data]
        /\ IsPowerOfTwo(B) /\ B * layerSize = Width
        /\ \A i \in 0 .. layerSize - 1 :
              /\ enabled[i] <=> i * B < n
              /\ enabled[i] => hashes[i] = MerkleRoots(WindowSeq(n))[BlockLen(n, B, i)][i * B + 1]
              /\ ~enabled[i] => hashes[i] = ZeroHash
  BY DEF RefInv
<1>2. B = Width /\ 0 \in 0 .. layerSize - 1 /\ DOMAIN leaves = 0 .. n - 1
  BY <1>1
<1>3. CASE n = 0
  <2>1. DOMAIN leaves = {}
    BY <1>2, <1>3
  <2>2. Abstract!WindowRoot(leaves) = ZeroHash
    BY <2>1, AbstractDefs
  <2>3. ~enabled[0]
    BY <1>1, <1>2, <1>3
  <2>. QED  BY <1>1, <1>2, <2>2, <2>3 DEF Root
<1>4. CASE n # 0
  <2>1. BlockLen(n, B, 0) = n
    BY <1>1, <1>2 DEF BlockLen
  <2>2. Root = MerkleRoots(WindowSeq(n))[n][1]
    BY <1>1, <1>2, <1>4, <2>1 DEF Root
  <2>3. Cardinality(DOMAIN leaves) = n /\ DOMAIN leaves # {}
    <3>1. Cardinality(0 .. n - 1) = IF 0 > n - 1 THEN 0 ELSE (n - 1) - 0 + 1
      BY <1>4, FS_Interval
    <3>. QED  BY <1>2, <1>4, <3>1
  <2>4. [k \in 1 .. Cardinality(DOMAIN leaves) |-> leaves[k - 1]] = WindowSeq(n)
    BY <2>3 DEF WindowSeq
  <2>5. SimpleHash(WindowSeq(n)) = MerkleRoots(WindowSeq(n))[n][1]
    BY DEF SimpleHash, WindowSeq
  <2>. QED  BY <2>2, <2>3, <2>4, <2>5, AbstractDefs
<1>. QED  BY <1>3, <1>4

(***************************************************************************)
(* Every iteration but the last leaves the abstract commitment unproduced  *)
(* (a stutter); the last produces the window's root (Commit).              *)
(***************************************************************************)
LEMMA RefineStep ==
    RefInv /\ RootDone' /\ [Next]_vars => [Abstract!Commit]_Abstract!vars
<1> SUFFICES ASSUME RefInv, RootDone', [Next]_vars
             PROVE  [Abstract!Commit]_Abstract!vars
  OBVIOUS
<1>1. CASE UNCHANGED vars
  BY <1>1 DEF vars, Abstract!vars, Root
<1>2. CASE HashMerkleLayer
  <2>1. layerSize > 1 /\ leaves' = leaves /\ layerSize' \in Nat
    BY <1>2 DEF HashMerkleLayer, RefInv, LayersInv, TypeOK
  <2>2. CASE layerSize' # 1
    BY <2>1, <2>2 DEF Abstract!vars
  <2>3. CASE layerSize' = 1
    <3>1. Root' = Abstract!WindowRoot(leaves)
      BY <2>1, <2>3 DEF RootDone
    <3>. QED  BY <2>1, <2>3, <3>1, AbstractDefs DEF Abstract!Commit
  <2>. QED  BY <2>2, <2>3
<1>. QED  BY <1>1, <1>2 DEF Next

(***************************************************************************)
(* get_data_commitment implements DataCommitment, for every power-of-two   *)
(* NUM_LEAVES above one and every window: the while loop of                *)
(* hash_merkle_layer produces once, at merkle_layer_size = 1, the root     *)
(* that merkle.rs's recursive split at get_split_point gives for the same  *)
(* window, and the zero hash for an empty window.                          *)
(***************************************************************************)
THEOREM DataCommitmentRefinement ==
    ASSUME Width > 1
    PROVE  SpecCommitment => Abstract!Spec
<1>1. InitCommitment => RefInv /\ Abstract!Init
  BY RefInvInit, RefineInit
<1>2. RefInv /\ [Next]_vars => RefInv'
  BY RefInvNext
<1>3. RefInv => RootDone
  BY RootIsWindowRoot
<1>4. RefInv /\ RootDone' /\ [Next]_vars => [Abstract!Commit]_Abstract!vars
  BY RefineStep
<1>. QED  BY <1>1, <1>2, <1>3, <1>4, PTL DEF SpecCommitment, Abstract!Spec

-----------------------------------------------------------------------------
LEMMA InitValidatorSetTypes == InitValidatorSet => TypesInv
  BY WidthFacts DEF InitValidatorSet, TypesInv, TypeOK, Slots

LEMMA TypesInvNext == TypesInv /\ [Next]_vars => TypesInv'
<1>1. TypesInv /\ UNCHANGED vars => TypesInv'
  BY DEF TypesInv, TypeOK, vars
<1>. QED  BY <1>1, TypesStep DEF Next

(***************************************************************************)
(* In hash_validator_set, for every power-of-two VALIDATOR_SET_SIZE_MAX    *)
(* and whatever enable bits the prover chooses (enabled slots need not     *)
(* come first), every iteration of the loop reads pairs inside the current *)
(* layer and keeps every vector of VALIDATOR_SET_SIZE_MAX entries with a   *)
(* layer size between 1 and the width: the reduction is well defined for   *)
(* any witness, not only for the honest prefix of the data commitment.     *)
(***************************************************************************)
THEOREM ValidatorSetTypeCorrect == SpecValidatorSet => []TypeOK
<1>1. TypesInv => TypeOK
  BY DEF TypesInv
<1>. QED  BY InitValidatorSetTypes, TypesInvNext, <1>1, PTL DEF SpecValidatorSet
=============================================================================
