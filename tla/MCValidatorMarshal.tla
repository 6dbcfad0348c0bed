------------------------- MODULE MCValidatorMarshal -------------------------
(***************************************************************************)
(* Checks the validator leaf encoding of the step circuit against the      *)
(* protobuf varint encoding, for every voting power and every witness byte *)
(* length of a scaled varint.                                              *)
(***************************************************************************)
EXTENDS ValidatorMarshal

CONSTANTS k1, k2
MCPubKeys == {k1, k2}

VARIABLES
    pubkey,       \* the validator's key
    votingPower,  \* its voting power, both limbs
    byteLength    \* the validator_byte_length witness

vars == <<pubkey, votingPower, byteLength>>

Init ==
    /\ pubkey \in PubKeys
    /\ votingPower \in Powers
    /\ byteLength \in ByteLengthMin - 3 .. ByteLengthMax + 3

\* The inputs are fixed for the whole circuit.
Next == UNCHANGED vars

-----------------------------------------------------------------------------
\* Reference: the protobuf encoding of an unsigned varint, 7-bit groups low
\* first, the top bit of every byte but the last set.
RECURSIVE ProtoVarint(_)
ProtoVarint(v) ==
    IF v < 2^SeptetBits THEN <<v>>
    ELSE <<(v % 2^SeptetBits) + 2^SeptetBits>> \o ProtoVarint(v \div 2^SeptetBits)

\* The byte length of the canonical leaf of a validator of power v.
CanonicalLength(v) == 4 + PubKeyBytes + 1 + Len(ProtoVarint(v))

(***************************************************************************)
(* marshal_int64_varint reproduces the protobuf varint of every voting     *)
(* power that passes its top-bit assertion, followed by zero bytes up to  *)
(* VOTING_POWER_BYTES_LENGTH_MAX (spec section 4.3: 1 to 9 bytes, the top *)
(* bit set iff more groups follow).                                        *)
(***************************************************************************)
VarintMatchesProtobuf ==
    MarshalOk(votingPower) =>
        LET ref == ProtoVarint(votingPower)
        IN  /\ Len(ref) <= Septets
            /\ SubSeq(VarintBytes(votingPower), 1, Len(ref)) = ref
            /\ \A i \in Len(ref) + 1 .. Septets : VarintBytes(votingPower)[i] = 0

(***************************************************************************)
(* The byte length of a validator leaf is a free witness that the circuit *)
(* only range-checks.  Whatever length in range the prover picks, the     *)
(* leaf hash it selects equals the canonical leaf hash of a validator      *)
(* (pk2, v2) only when it is that validator's own canonical leaf: the     *)
(* witness length cannot make a leaf stand for another key or power.      *)
(***************************************************************************)
LeafBinding ==
    MarshalOk(votingPower) /\ ByteLengthOk(byteLength) =>
        \A pk2 \in PubKeys, v2 \in Powers :
            MarshalOk(v2) /\
            ValidatorLeafHash(pubkey, votingPower, byteLength)
                = ValidatorLeafHash(pk2, v2, CanonicalLength(v2))
            => /\ pk2 = pubkey /\ v2 = votingPower
               /\ byteLength = CanonicalLength(votingPower)
=============================================================================
