----------------------------- MODULE MerkleTree -----------------------------
(***************************************************************************)
(* The Tendermint Merkle tree of src/src/merkle.rs beyond its root (which  *)
(* is SimpleHash of MerkleHash): the layer reduction as a whole, proofs,   *)
(* aunts and paths.  The RECURSIVE operators live here, in a module that   *)
(* only the TLC runs use.                                                  *)
(***************************************************************************)
EXTENDS MerkleHash, Sequences, Integers, TLC

(***************************************************************************)
(* The while loop of hash_validator_set and get_data_commitment: layers    *)
(* of hash_merkle_layer from size width down to 1, then node 0.            *)
(***************************************************************************)
RECURSIVE ReduceLayers(_, _, _)
ReduceLayers(h, e, s) ==
    IF s > 1 THEN ReduceLayers(LayerHashes(h, e, s), LayerEnabled(e, s), s \div 2)
             ELSE h[0]

(***************************************************************************)
(* The aunts of the proof of leaf index (from 0) that proofs_from_byte_    *)
(* slices returns: trails_from_byte_slices links each subtree root to its  *)
(* sibling and flatten_aunts collects the siblings from the leaf upwards,  *)
(* so the last aunt is the sibling subtree of the top split.               *)
(***************************************************************************)
RECURSIVE ProofAunts(_, _)
ProofAunts(s, index) ==
    IF Len(s) <= 1 THEN << >>
    ELSE LET k == SplitPoint(Len(s))
             left == SubSeq(s, 1, k)
             right == SubSeq(s, k + 1, Len(s))
         IN  IF index < k THEN Append(ProofAunts(left, index), SimpleHash(right))
                          ELSE Append(ProofAunts(right, index - k), SimpleHash(left))


(***************************************************************************)
(* compute_hash_from_aunts: None for an index out of range, for a single   *)
(* leaf with aunts left over, or for a split with no aunt left; otherwise  *)
(* the inner hash of the subtree result and the last aunt, in the order    *)
(* the split point gives.                                                  *)
(***************************************************************************)
\* Fault model: an index equal to the split point sent to the left subtree.
RECURSIVE ComputeHashFromAuntsLe(_, _, _, _)
ComputeHashFromAuntsLe(index, total, leafHash, aunts) ==
    IF index >= total \/ total = 0 THEN NoHash
    ELSE IF total = 1 THEN IF aunts = << >> THEN leafHash ELSE NoHash
    ELSE IF aunts = << >> THEN NoHash
    ELSE LET numLeft == SplitPoint(total)
             rest == SubSeq(aunts, 1, Len(aunts) - 1)
             top == aunts[Len(aunts)]
         IN  IF index <= numLeft
             THEN LET h == ComputeHashFromAuntsLe(index, numLeft, leafHash, rest)
                  IN  IF h = NoHash THEN NoHash ELSE InnerHash(h, top)
             ELSE LET h == ComputeHashFromAuntsLe(index - numLeft, total - numLeft,
                                                   leafHash, rest)
                  IN  IF h = NoHash THEN NoHash ELSE InnerHash(top, h)

RECURSIVE ComputeHashFromAunts(_, _, _, _)
ComputeHashFromAunts(index, total, leafHash, aunts) ==
    IF index >= total \/ total = 0 THEN NoHash
    ELSE IF total = 1 THEN IF aunts = << >> THEN leafHash ELSE NoHash
    ELSE IF aunts = << >> THEN NoHash
    ELSE LET numLeft == SplitPoint(total)
             rest == SubSeq(aunts, 1, Len(aunts) - 1)
             top == aunts[Len(aunts)]
         IN  IF index < numLeft
             THEN LET h == ComputeHashFromAunts(index, numLeft, leafHash, rest)
                  IN  IF h = NoHash THEN NoHash ELSE InnerHash(h, top)
             ELSE LET h == ComputeHashFromAunts(index - numLeft, total - numLeft,
                                                 leafHash, rest)
                  IN  IF h = NoHash THEN NoHash ELSE InnerHash(top, h)

(***************************************************************************)
(* Proof::verify of the proof [total, index, leafHash, aunts] against      *)
(* root_hash for the bytes leaf: an error when the stored leaf hash is not *)
(* the leaf's, a panic (the expect on compute_root_hash) when              *)
(* compute_hash_from_aunts returns None, an error when the computed root   *)
(* differs.                                                                *)
(***************************************************************************)
ProofVerify(proof, rootHash, leaf) ==
    LET computed == ComputeHashFromAunts(proof.index, proof.total, proof.leafHash,
                                         proof.aunts)
    IN  IF proof.leafHash # LeafHash(leaf) THEN "invalid leaf hash"
        ELSE IF computed = NoHash THEN "panic"
        ELSE IF computed # rootHash THEN "invalid root hash"
        ELSE "ok"

(***************************************************************************)
(* get_path_indices (src/src/inputs.rs): one bit per halving of total - 1, *)
(* the bit being whether the index is odd at that level (TRUE: the hash so *)
(* far is on the right).  The same loop, on total instead of total - 1,    *)
(* is the one of the merkle.rs test.  Called with total >= 1.              *)
(***************************************************************************)
RECURSIVE PathLoop(_, _)
PathLoop(index, currentTotal) ==
    IF currentTotal >= 1
    THEN <<index % 2 = 1>> \o PathLoop(index \div 2, currentTotal \div 2)
    ELSE << >>

GetPathIndices(index, total) == PathLoop(index, total - 1)

(***************************************************************************)
(* get_root_from_merkle_proof of the circuits (validator.rs, commitment.rs *)
(* and the header proofs of step): from the leaf hash upwards, a path bit  *)
(* TRUE puts the aunt on the left, FALSE on the right.                     *)
(***************************************************************************)
\* Fault model: the two arms of the select swapped.
GetRootFromMerkleProofSwapped(aunts, path, leafHash) ==
    LET hashSoFar[k \in 0 .. Len(aunts)] ==
            IF k = 0 THEN leafHash
            ELSE IF path[k] THEN InnerHash(hashSoFar[k - 1], aunts[k])
                            ELSE InnerHash(aunts[k], hashSoFar[k - 1])
    IN  hashSoFar[Len(aunts)]

GetRootFromMerkleProof(aunts, path, leafHash) ==
    LET hashSoFar[k \in 0 .. Len(aunts)] ==
            IF k = 0 THEN leafHash
            ELSE IF path[k] THEN InnerHash(aunts[k], hashSoFar[k - 1])
                            ELSE InnerHash(hashSoFar[k - 1], aunts[k])
    IN  hashSoFar[Len(aunts)]

\* get_root_from_merkle_proof of validator.rs: the same loop, from the
\* header leaf itself, hashed first by hash_header_leaf.
GetRootFromHeaderLeaf(aunts, path, leaf) ==
    GetRootFromMerkleProof(aunts, path, LeafHash(leaf))

\* generate_proofs_from_header: the number of fields of a Tendermint header,
\* the leaves of the tree whose root is the header hash.
HeaderFields == 14

(***************************************************************************)
(* generate_step_inputs, header proofs: for the header fields fields and   *)
(* the field index, the encoded leaf, the path get_path_indices gives for  *)
(* the index and the proof's total, and the aunts of                      *)
(* generate_proofs_from_header.                                            *)
(***************************************************************************)
HeaderFieldProof(fields, index) ==
    [encLeaf |-> fields[index + 1],
     path |-> GetPathIndices(index, Len(fields)),
     proof |-> ProofAunts(fields, index)]

(***************************************************************************)
(* Reference: the side of the leaf at each level of the get_split_point   *)
(* tree, from the leaf upwards (TRUE: in the right subtree).               *)
(***************************************************************************)
RECURSIVE SplitPath(_, _)
SplitPath(index, total) ==
    IF total <= 1 THEN << >>
    ELSE LET k == SplitPoint(total)
         IN  IF index < k THEN Append(SplitPath(index, k), FALSE)
                          ELSE Append(SplitPath(index - k, total - k), TRUE)

(***************************************************************************)
(* The paths step hard-codes for its four header-field proofs, by field    *)
(* index in the 14-leaf header tree: last_block_id (4), data_hash (6),     *)
(* validators_hash (7) and next_validators_hash (8).                       *)
(***************************************************************************)
StepFieldPaths ==
    (4 :> <<FALSE, FALSE, TRUE, FALSE>>) @@ (6 :> <<FALSE, TRUE, TRUE, FALSE>>) @@
    (7 :> <<TRUE, TRUE, TRUE, FALSE>>) @@ (8 :> <<FALSE, FALSE, FALSE, TRUE>>)
=============================================================================
