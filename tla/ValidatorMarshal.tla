-------------------------- MODULE ValidatorMarshal --------------------------
(***************************************************************************)
(* The validator leaf of the validators_hash tree as the step circuit      *)
(* builds it (src/src/validator.rs): marshal_int64_varint,                 *)
(* marshal_tendermint_validator, hash_validator_leaf and                   *)
(* hash_validator_leaves.                                                  *)
(*                                                                         *)
(* A byte is a number, the 32-byte public key one symbolic element (it has *)
(* a fixed length, so it never shifts the bytes after it), and field       *)
(* subtraction is taken modulo the constant FieldModulus.  The varint is   *)
(* kept exact but scaled: SeptetBits bits per group and Septets groups (7  *)
(* and 9 in the code), so that every voting power can be enumerated.       *)
(***************************************************************************)
EXTENDS MerkleHash, Integers, Sequences

CONSTANTS
    SeptetBits,     \* payload bits of a varint byte (7)
    Septets,        \* VOTING_POWER_BYTES_LENGTH_MAX (9)
    FieldModulus,   \* the order of the circuit's field
    PubKeys         \* Ed25519 public keys

ASSUME MarshalAssumption ==
    /\ SeptetBits \in Nat \ {0} /\ Septets \in Nat \ {0}
    /\ FieldModulus \in Nat /\ FieldModulus > 2 * (4 + 32 + 1 + Septets + 16)

PubKeyBytes == 32                     \* PUBKEY_BYTES_LEN
RangeCheckBits == 4                   \* range_check(diff, 4)
VoteBits == SeptetBits * Septets      \* the bits the septets cover (63)
\* VALIDATOR_BYTE_LENGTH_MIN / _MAX: prefix, key, 0x10 and 1 .. Septets bytes.
ByteLengthMin == 4 + PubKeyBytes + 1 + 1
ByteLengthMax == 4 + PubKeyBytes + 1 + Septets
NumByteLengths == ByteLengthMax - ByteLengthMin + 1

\* A voting power: the two u32 limbs, VoteBits + 1 bits in the scaled model.
Powers == 0 .. 2^(VoteBits + 1) - 1

\* Subtraction in the circuit's field.
FieldSub(a, b) == (a - b) % FieldModulus

-----------------------------------------------------------------------------
(***************************************************************************)
(* marshal_int64_varint.  The bits of both limbs, low first; the top bit   *)
(* is asserted zero (MarshalOk).  Septet i is the number formed by bits    *)
(* i * 7 .. i * 7 + 6.  The loop over the septets selects the index of the *)
(* last non-zero septet (0 when all are zero).  Byte i holds septet i and  *)
(* its top bit is set when last - (i + 1), a field element, is one of      *)
(* 0 .. Septets - 1, i.e. when i is below the last non-zero septet.        *)
(***************************************************************************)
PowerBit(v, k) == (v \div 2^k) % 2

MarshalOk(v) == PowerBit(v, VoteBits) = 0

Septet(v, i) == (v \div 2^(i * SeptetBits)) % 2^SeptetBits

LastNonZeroSeptet(v) ==
    LET nonZero == {i \in 0 .. Septets - 1 : Septet(v, i) # 0}
    IN  IF nonZero = {} THEN 0 ELSE CHOOSE i \in nonZero : \A j \in nonZero : j <= i

\* Fault model: the candidate index compared with i instead of i + 1.
ContinuationBitOffByOne(v, i) ==
    \E j \in 0 .. Septets - 1 : FieldSub(LastNonZeroSeptet(v), i) = j

ContinuationBit(v, i) ==
    \E j \in 0 .. Septets - 1 : FieldSub(LastNonZeroSeptet(v), i + 1) = j

VarintBytes(v) ==
    [i \in 1 .. Septets |->
        Septet(v, i - 1) + (IF ContinuationBit(v, i - 1) THEN 2^SeptetBits ELSE 0)]

(***************************************************************************)
(* marshal_tendermint_validator: the bytes 10 34 10 32, the public key,    *)
(* the byte 16 and the Septets bytes of the varint.                        *)
(***************************************************************************)
MarshalTendermintValidator(pk, v) ==
    <<10, 34, 10, 32>> \o <<pk>> \o <<16>> \o VarintBytes(v)

\* Fault model: the key counted as 33 bytes, dropping the last byte.
ValidatorPrefixShort(bytes, n) == SubSeq(bytes, 1, n - PubKeyBytes)

\* The first n bytes of a marshalled validator (the key counts 32 bytes).
ValidatorPrefix(bytes, n) == SubSeq(bytes, 1, n - (PubKeyBytes - 1))

\* The hash all of whose bits are false: ret_validator_leaf_hash before
\* any selector fires.
FalseHash == <<4>>   \* a term no leaf hash equals

(***************************************************************************)
(* hash_validator_leaf with the witness validator_byte_length len: both    *)
(* len - MIN and MAX - len must pass range_check(_, 4) as field elements;  *)
(* the leaf hash of every possible length is computed and the one whose    *)
(* index equals len - MIN is selected.  Undefined (no proof) when the      *)
(* range check fails.                                                      *)
(***************************************************************************)
ByteLengthOk(len) ==
    /\ FieldSub(len, ByteLengthMin) < 2^RangeCheckBits
    /\ FieldSub(ByteLengthMax, len) < 2^RangeCheckBits

HashValidatorLeaf(bytes, len) ==
    LET index == FieldSub(len, ByteLengthMin)
    IN  IF \E j \in 0 .. NumByteLengths - 1 : index = j
        THEN LeafHash(ValidatorPrefix(bytes, ByteLengthMin + index))
        ELSE FalseHash

\* The leaf hash step commits to for key pk, power v and witness length len.
ValidatorLeafHash(pk, v, len) ==
    HashValidatorLeaf(MarshalTendermintValidator(pk, v), len)
=============================================================================
