--------------------------- MODULE MCMerkleProofs ---------------------------
(***************************************************************************)
(* Checks the inclusion-proof algorithms of MerkleTree against the         *)
(* reference tree, for every tree size up to MaxLeaves and every leaf.     *)
(* The leaves are the distinct values 1..total, so that a proof that       *)
(* lands on the wrong position cannot reach the root by accident.  A state *)
(* is one proof: its total and index, as in the Proof struct; the          *)
(* computation has no steps.                                               *)
(***************************************************************************)
EXTENDS MerkleTree

CONSTANT MaxLeaves   \* largest tree checked; 14 is the header tree

ASSUME MaxLeavesAssumption == MaxLeaves \in Nat /\ MaxLeaves >= HeaderFields

VARIABLES total, index

vars == <<total, index>>

Items == [k \in 1 .. total |-> k]
Root == SimpleHash(Items)
Aunts == ProofAunts(Items, index)
Leaf == LeafHash(Items[index + 1])

Init == total \in 1 .. MaxLeaves /\ index \in 0 .. total - 1

Next == UNCHANGED vars

Spec == Init /\ [][Next]_vars

\* The proof of leaf index with the given aunts, as proofs_from_byte_slices
\* builds it.
ProofWith(aunts) == [total |-> total, index |-> index, leafHash |-> Leaf, aunts |-> aunts]

(***************************************************************************)
(* Proof::verify of merkle.rs: the proof proofs_from_byte_slices builds    *)
(* for any leaf of any tree (trails and flatten_aunts) verifies against    *)
(* the root, for that leaf only; and one aunt too few or too many makes   *)
(* compute_hash_from_aunts return None, which verify's expect turns into a *)
(* panic rather than an error.                                             *)
(***************************************************************************)
ProofRoundTrip ==
    /\ ProofVerify(ProofWith(Aunts), Root, Items[index + 1]) = "ok"
    /\ \A k \in DOMAIN Items \ {index + 1} :
         ProofVerify(ProofWith(Aunts), Root, Items[k]) = "invalid leaf hash"
    /\ ProofVerify(ProofWith(Append(Aunts, Leaf)), Root, Items[index + 1]) = "panic"
    /\ Aunts # << >> =>
         ProofVerify(ProofWith(Tail(Aunts)), Root, Items[index + 1]) = "panic"

(***************************************************************************)
(* The circuits' get_root_from_merkle_proof, given the leaf's side at each *)
(* level of the split-point tree, recomputes the root from the aunts of    *)
(* merkle.rs.  For the header fields step proves (4, 6, 7 and 8), the      *)
(* proof generate_step_inputs builds, checked from the field's leaf along  *)
(* the path step hard-codes, gives the header hash; that path is the       *)
(* field's own side path and the one get_path_indices hands in, so each    *)
(* field proof can only open its own field.                                *)
(***************************************************************************)
CircuitPathSound ==
    /\ GetRootFromMerkleProof(Aunts, SplitPath(index, total), Leaf) = Root
    /\ total = HeaderFields /\ index \in DOMAIN StepFieldPaths =>
         LET p == HeaderFieldProof(Items, index)
         IN  /\ GetRootFromHeaderLeaf(p.proof, StepFieldPaths[index], p.encLeaf) = Root
             /\ SplitPath(index, total) = StepFieldPaths[index]
             /\ p.path = StepFieldPaths[index]

(***************************************************************************)
(* The comment of get_path_indices: the bits say, level by level, whether  *)
(* the hash so far is on the right, for any index and total.               *)
(***************************************************************************)
PathIndicesMatchTree == GetPathIndices(index, total) = SplitPath(index, total)
=============================================================================
