---------------------------- MODULE MerkleLayers ----------------------------
(***************************************************************************)
(* The layer-by-layer Merkle reduction with enable bits that the circuits  *)
(* use instead of the recursive Tendermint tree:                           *)
(*   - hash_validator_set / hash_merkle_layer (src/src/validator.rs), the  *)
(*     validators_hash of a padded validator set in the step circuit;      *)
(*   - get_data_commitment / hash_merkle_layer (src/src/commitment.rs),    *)
(*     the data commitment over a window of blocks.                        *)
(* The circuit is a fixed program; the state below is the value of its     *)
(* local variables as the while loop runs, one step per call of            *)
(* hash_merkle_layer.                                                      *)
(***************************************************************************)
EXTENDS MerkleHash, Naturals

CONSTANTS
    Width,      \* VALIDATOR_SET_SIZE_MAX, resp. NUM_LEAVES: the padded width
    Data,       \* leaf contents: marshalled validators or data-root tuples
    ZeroHash    \* the all-false 256-bit hash of an unused commitment slot

(***************************************************************************)
(* The code reads merkle_hashes[i + 1] for every even i below the layer    *)
(* size and halves the size after each layer, which visits every node only *)
(* when every layer but the last has even size: VALIDATOR_SET_SIZE_MAX and *)
(* the NUM_LEAVES of the data-commitment circuits are powers of two.       *)
(***************************************************************************)
ASSUME WidthAssumption == IsPowerOfTwo(Width)

VARIABLES
    leaves,       \* the leaf data handed to the gadget (input, constant)
    leafEnabled,  \* the enable bit of each leaf (input, constant)
    hashes,       \* current_validator_hashes / current_nodes
    enabled,      \* current_validator_enabled / current_node_enabled
    layerSize     \* merkle_layer_size

vars == <<leaves, leafEnabled, hashes, enabled, layerSize>>

Slots == 0 .. Width - 1

-----------------------------------------------------------------------------
(***************************************************************************)
(* Entry into the loop.                                                    *)
(*                                                                         *)
(* get_data_commitment: the first WINDOW_RANGE slots hold the leaf hashes  *)
(* of the window's tuples and are enabled; the remaining slots up to       *)
(* NUM_LEAVES hold the zero hash and are disabled.                         *)
(***************************************************************************)
\* Fault model: the window written one slot too far (leaf_enabled[i + 1]).
InitCommitmentShifted ==
    \E window \in 0 .. Width :
        /\ leaves \in [0 .. window - 1 -> Data]
        /\ leafEnabled = [j \in Slots |-> 1 <= j /\ j <= window]
        /\ hashes = [j \in Slots |-> IF j < window THEN LeafHash(leaves[j])
                                                   ELSE ZeroHash]
        /\ enabled = leafEnabled
        /\ layerSize = Width

InitCommitment ==
    \E window \in 0 .. Width :
        /\ leaves \in [0 .. window - 1 -> Data]
        /\ leafEnabled = [j \in Slots |-> j < window]
        /\ hashes = [j \in Slots |-> IF j < window THEN LeafHash(leaves[j])
                                                   ELSE ZeroHash]
        /\ enabled = leafEnabled
        /\ layerSize = Width

(***************************************************************************)
(* hash_validator_set: every slot holds the leaf hash of a marshalled      *)
(* validator (the padding slots a dummy validator) and its enable bit is   *)
(* the validators_enabled witness of the step circuit, which no constraint *)
(* ties to the others.                                                     *)
(***************************************************************************)
InitValidatorSet ==
    /\ leaves \in [Slots -> Data]
    /\ leafEnabled \in [Slots -> BOOLEAN]
    /\ hashes = [j \in Slots |-> LeafHash(leaves[j])]
    /\ enabled = leafEnabled
    /\ layerSize = Width

-----------------------------------------------------------------------------
(***************************************************************************)
(* One iteration of the while loop: hash_merkle_layer on the current layer *)
(* (LayerHashes and LayerEnabled of MerkleHash), then merkle_layer_size    *)
(* /= 2.                                                                   *)
(***************************************************************************)
\* Fault model: the loop condition merkle_layer_size > 0.
HashMerkleLayerSizeZero ==
    /\ layerSize > 0
    /\ hashes' = LayerHashes(hashes, enabled, layerSize)
    /\ enabled' = LayerEnabled(enabled, layerSize)
    /\ layerSize' = layerSize \div 2
    /\ UNCHANGED <<leaves, leafEnabled>>

HashMerkleLayer ==
    /\ layerSize > 1
    /\ hashes' = LayerHashes(hashes, enabled, layerSize)
    /\ enabled' = LayerEnabled(enabled, layerSize)
    /\ layerSize' = layerSize \div 2
    /\ UNCHANGED <<leaves, leafEnabled>>

\* The loop stops when one node is left; the gadget returns hashes[0].
Root == hashes[0]

Next == HashMerkleLayer

SpecCommitment == InitCommitment /\ [][Next]_vars

SpecValidatorSet == InitValidatorSet /\ [][Next]_vars

(***************************************************************************)
(* The circuit's loop is straight-line code: witness generation runs every *)
(* iteration until one node is left, so a step that is enabled is taken.  *)
(***************************************************************************)
FairSpecCommitment == SpecCommitment /\ WF_vars(Next)

(***************************************************************************)
(* The refinement mapping onto DataCommitment: the abstract commitment is  *)
(* the root the layer loop returns once merkle_layer_size reaches 1, and   *)
(* nothing before.  The window and the constants are the same on both     *)
(* sides.                                                                  *)
(***************************************************************************)
Abstract == INSTANCE DataCommitment
                WITH commitment <- IF layerSize = 1 THEN Root ELSE NoHash

-----------------------------------------------------------------------------
\* Type invariant.
TypeOK ==
    /\ DOMAIN leaves \subseteq Slots
    /\ leafEnabled \in [Slots -> BOOLEAN]
    /\ DOMAIN hashes = Slots
    /\ enabled \in [Slots -> BOOLEAN]
    /\ layerSize \in 1 .. Width

(***************************************************************************)
(* In the data commitment the enabled nodes of every layer are a prefix of *)
(* it.  This is what makes hash_merkle_layer's choice of passing the left  *)
(* hash up when a pair is not fully enabled correct: the only such pair    *)
(* with an enabled node is the last enabled node and its disabled right    *)
(* neighbour.                                                              *)
(***************************************************************************)
EnabledPrefix ==
    \E c \in 0 .. layerSize : \A j \in 0 .. layerSize - 1 : enabled[j] <=> j < c
=============================================================================
