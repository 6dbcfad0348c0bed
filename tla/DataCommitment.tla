--------------------------- MODULE DataCommitment ---------------------------
(***************************************************************************)
(* What get_data_commitment (src/src/commitment.rs) promises, with no      *)
(* layers, enable bits or padding: given the leaves of a window of blocks, *)
(* it produces once the RFC 6962 (Tendermint) root of exactly those        *)
(* leaves, the root that merkle.rs's simple_hash_from_byte_vectors gives,  *)
(* and the zero hash for an empty window.                                  *)
(***************************************************************************)
EXTENDS MerkleHash, FiniteSets

CONSTANTS
    Width,      \* NUM_LEAVES: the largest window the circuit takes
    Data,       \* the encoded data-root tuples
    ZeroHash    \* the all-false 256-bit hash

VARIABLES
    leaves,     \* the window: its leaves at positions 0 .. window - 1
    commitment  \* the commitment produced, NoHash before it is

vars == <<leaves, commitment>>

\* The commitment of a window: its Tendermint root, the zero hash if empty.
WindowRoot(w) ==
    IF DOMAIN w = {} THEN ZeroHash
    ELSE SimpleHash([k \in 1 .. Cardinality(DOMAIN w) |-> w[k - 1]])

Init ==
    /\ leaves \in UNION {[0 .. n - 1 -> Data] : n \in 0 .. Width}
    /\ commitment = NoHash

\* The commitment is produced once; the window never changes.
Commit ==
    /\ commitment = NoHash
    /\ commitment' = WindowRoot(leaves)
    /\ UNCHANGED leaves

Spec == Init /\ [][Commit]_vars

\* The circuit is straight-line: once the window is given, the root follows.
FairSpec == Spec /\ WF_vars(Commit)
=============================================================================
