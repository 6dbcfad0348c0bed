--------------------------- MODULE MCMerkleLayers ---------------------------
(***************************************************************************)
(* Model-checking harness for MerkleLayers: the layer loop refines the     *)
(* abstract DataCommitment, whose root is the reference Tendermint tree.   *)
(***************************************************************************)
EXTENDS MerkleLayers, MerkleTree, FiniteSets

CONSTANTS d1, d2, zero

MCData == {d1, d2}

\* The leaf data of the enabled slots, in slot order.
EnabledLeaves ==
    LET idx == SelectSeq([k \in 1 .. Width |-> k - 1], LAMBDA j : leafEnabled[j])
    IN  [k \in 1 .. Len(idx) |-> leaves[idx[k]]]

(***************************************************************************)
(* get_data_commitment implements DataCommitment: every iteration of the   *)
(* while loop but the last leaves the commitment unproduced, the last one  *)
(* produces the RFC 6962 root that merkle.rs's recursive split at          *)
(* get_split_point gives for the same window (for every window size up to  *)
(* NUM_LEAVES, powers of two or not, where passing the left hash up must   *)
(* act as the split point), and the loop does reach it.                    *)
(***************************************************************************)
ImplementsDataCommitment == Abstract!FairSpec

(***************************************************************************)
(* What the spec asks of hash_validator_set: the root is the Tendermint    *)
(* hash of exactly the enabled validators, so that every enabled slot of   *)
(* the step circuit (whose power counts towards the threshold) is bound by *)
(* the header's validators_hash.                                           *)
(***************************************************************************)
ValidatorRootCommitsEnabled ==
    layerSize = 1 /\ Len(EnabledLeaves) > 0 => Root = SimpleHash(EnabledLeaves)
=============================================================================
