----------------------------- MODULE MerkleHash -----------------------------
(***************************************************************************)
(* The hash functions of the Tendermint Merkle trees (src/src/merkle.rs,   *)
(* src/src/validator.rs, src/src/commitment.rs), abstracted to terms.      *)
(*                                                                         *)
(* SHA-256 is modelled as a free constructor: a leaf hash is the term      *)
(* <<0, leaf>> and an inner hash the term <<1, left, right>>, which is     *)
(* the domain-separation prefix 0x00 / 0x01 followed by the hashed bytes.  *)
(* Two terms are equal only when they are built from equal parts, which is *)
(* the collision resistance the bridge relies on.  No RECURSIVE operator   *)
(* here (the tree root is a recursive function), so modules that are       *)
(* proved about may extend this one.                                       *)
(***************************************************************************)
EXTENDS Naturals, Sequences

\* SHA256(0x00 || leaf): merkle.rs leaf_hash, validator.rs hash_validator_leaf.
LeafHash(leaf) == <<0, leaf>>

\* SHA256(0x01 || left || right): merkle.rs inner_hash, validator.rs inner_hash.
InnerHash(left, right) == <<1, left, right>>

\* SHA256 of the empty input, the root of a tree with no leaves.
EmptyHash == <<2>>

\* n is a power of two: its only odd factor is 1.
IsPowerOfTwo(n) ==
    /\ n \in Nat \ {0}
    /\ \A d, k \in 1 .. n : n = d * k /\ d % 2 = 1 => d = 1

\* 1 << floor(log2(n)): the largest power of two that is at most n, n >= 1.
FloorPow2(n) == CHOOSE p \in 1 .. n : IsPowerOfTwo(p) /\ n < 2 * p

(***************************************************************************)
(* get_split_point: the size of the left subtree of a tree of n >= 1       *)
(* leaves, the largest power of two strictly below n.  The code computes   *)
(* floor(log2(n)) through an f64, which is exact for the sizes modelled.   *)
(***************************************************************************)
SplitPoint(n) == IF FloorPow2(n) = n THEN n \div 2 ELSE FloorPow2(n)

(***************************************************************************)
(* trails_from_byte_slices, root part, on the items of the sequence s:     *)
(* MerkleRoots(s)[len][a] is the root of the len items from position a,    *)
(* H() for none, the leaf hash for one, and otherwise the inner hash of    *)
(* the roots of the first get_split_point(len) items and of the rest.      *)
(***************************************************************************)
MerkleRoots(s) ==
    LET r[len \in Nat] ==
          [a \in Nat |->
             IF len = 0 THEN EmptyHash
             ELSE IF len = 1 THEN LeafHash(s[a])
             ELSE InnerHash(r[SplitPoint(len)][a],
                            r[len - SplitPoint(len)][a + SplitPoint(len)])]
    IN  r

\* simple_hash_from_byte_vectors: the root of all the items of s.
SimpleHash(s) == MerkleRoots(s)[Len(s)][1]

\* The result of compute_hash_from_aunts when it returns None.
NoHash == <<3>>      \* None: a term no hash equals

(***************************************************************************)
(* hash_merkle_layer (validator.rs, commitment.rs) on the vectors h and e  *)
(* of node hashes and enable bits, for a layer of s nodes.  For each even  *)
(* i below s the node i / 2 becomes the inner hash of nodes i and i + 1    *)
(* when both are enabled, and node i otherwise; it is enabled unless both  *)
(* children are disabled.  The code overwrites the vectors in place, but   *)
(* node i / 2 is written only after nodes i and i + 1 are read and no      *)
(* later iteration reads an index below i + 2, so the layer is computed    *)
(* from the old vectors all at once.  Slots from (s + 1) \div 2 on keep    *)
(* their stale values.                                                     *)
(***************************************************************************)
LayerPairs(s) == (s + 1) \div 2

\* Fault model: the inner hash taken whenever the left node is enabled.
LayerHashesLeftEnabled(h, e, s) ==
    [j \in DOMAIN h |->
        IF j < LayerPairs(s)
        THEN IF e[2 * j] THEN InnerHash(h[2 * j], h[2 * j + 1]) ELSE h[2 * j]
        ELSE h[j]]

LayerHashes(h, e, s) ==
    [j \in DOMAIN h |->
        IF j < LayerPairs(s)
        THEN IF e[2 * j] /\ e[2 * j + 1] THEN InnerHash(h[2 * j], h[2 * j + 1])
                                        ELSE h[2 * j]
        ELSE h[j]]

LayerEnabled(e, s) ==
    [j \in DOMAIN e |->
        IF j < LayerPairs(s) THEN e[2 * j] \/ e[2 * j + 1] ELSE e[j]]
=============================================================================
