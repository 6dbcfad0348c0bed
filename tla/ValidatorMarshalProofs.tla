------------------------ MODULE ValidatorMarshalProofs ------------------------
(***************************************************************************)
(* Proofs about the validator leaf of hash_validator_leaf                  *)
(* (src/src/validator.rs), module ValidatorMarshal: what the two range     *)
(* checks on the free witness validator_byte_length guarantee, and what    *)
(* the selected leaf hash binds, for every varint width and field order.   *)
(***************************************************************************)
EXTENDS ValidatorMarshal, SequenceTheorems, TLAPS

USE MarshalAssumption

\* The field elements: what the witness validator_byte_length can be.
Field == 0 .. FieldModulus - 1

\* A difference of two field elements, reduced into the field.
LEMMA FieldSubValue ==
    ASSUME NEW a \in Int, NEW b \in Int, a - b \in -FieldModulus + 1 .. FieldModulus - 1
    PROVE  FieldSub(a, b) = IF a >= b THEN a - b ELSE a - b + FieldModulus
  BY DEF FieldSub

(***************************************************************************)
(* The two range checks of hash_validator_leaf, range_check(len - MIN, 4)  *)
(* and range_check(MAX - len, 4) on field elements, confine the witness to *)
(* VALIDATOR_BYTE_LENGTH_MIN .. VALIDATOR_BYTE_LENGTH_MAX: a length below  *)
(* MIN wraps around to a field element far above 2^4, and so does MAX     *)
(* minus a length above MAX.                                               *)
(***************************************************************************)
LEMMA RangeCheckSound ==
    ASSUME NEW len \in Field, ByteLengthOk(len)
    PROVE  len \in ByteLengthMin .. ByteLengthMax
<1> USE DEF Field, ByteLengthMin, ByteLengthMax, PubKeyBytes, RangeCheckBits
<1>1. FieldSub(len, ByteLengthMin) < 16 /\ FieldSub(ByteLengthMax, len) < 16
  BY DEF ByteLengthOk
<1>2. len >= ByteLengthMin
  <2>1. FieldSub(len, ByteLengthMin) =
            IF len >= ByteLengthMin THEN len - ByteLengthMin
            ELSE len - ByteLengthMin + FieldModulus
    BY FieldSubValue
  <2>. QED  BY <1>1, <2>1
<1>3. len <= ByteLengthMax
  <2>1. FieldSub(ByteLengthMax, len) =
            IF ByteLengthMax >= len THEN ByteLengthMax - len
            ELSE ByteLengthMax - len + FieldModulus
    BY FieldSubValue
  <2>. QED  BY <1>1, <2>1
<1>. QED  BY <1>2, <1>3

(***************************************************************************)
(* The bytes marshal_tendermint_validator writes: 6 + Septets of them (the *)
(* key counting as one), with the public key in position 5.                *)
(***************************************************************************)
LEMMA MarshalShape ==
    ASSUME NEW pk, NEW v \in Powers
    PROVE  LET M == MarshalTendermintValidator(pk, v)
           IN  /\ Len(M) = 6 + Septets
               /\ M[5] = pk
<1> DEFINE V == VarintBytes(v)
           H == <<10, 34, 10, 32>> \o <<pk>> \o <<16>>
           S == {V[i] : i \in 1 .. Septets} \cup {10, 34, 32, 16, pk}
<1>1. V \in Seq(S) /\ Len(V) = Septets
  <2>1. V = [i \in 1 .. Septets |-> V[i]]
    BY DEF VarintBytes
  <2>. QED  BY <2>1
<1>2. H \in Seq(S) /\ Len(H) = 6 /\ H[5] = pk
  OBVIOUS
<1>3. Len(H \o V) = 6 + Septets /\ (H \o V)[5] = pk
  BY <1>1, <1>2
<1>. QED  BY <1>3 DEF MarshalTendermintValidator

(***************************************************************************)
(* For a witness length in range, hash_validator_leaf selects the leaf     *)
(* hash of the first len bytes (the key counting 32), never the all-false  *)
(* hash.                                                                   *)
(***************************************************************************)
LEMMA SelectedLeaf ==
    ASSUME NEW bytes, NEW len \in ByteLengthMin .. ByteLengthMax
    PROVE  HashValidatorLeaf(bytes, len) =
               LeafHash(SubSeq(bytes, 1, len - (PubKeyBytes - 1)))
<1> USE DEF ByteLengthMin, ByteLengthMax, PubKeyBytes
<1>1. FieldSub(len, ByteLengthMin) = len - ByteLengthMin
  BY FieldSubValue
<1>2. len - ByteLengthMin \in 0 .. NumByteLengths - 1
  BY DEF NumByteLengths
<1>3. ByteLengthMin + (len - ByteLengthMin) = len
  OBVIOUS
<1>. QED  BY <1>1, <1>2, <1>3 DEF HashValidatorLeaf, ValidatorPrefix

(***************************************************************************)
(* For every varint width and field order: whatever byte lengths a prover  *)
(* picks for two slots, if they pass the range checks of                   *)
(* hash_validator_leaf and give the same leaf hash, then the two slots     *)
(* have the same public key and the same byte length.  The free witness    *)
(* validator_byte_length cannot make a validator's leaf stand for a leaf   *)
(* of another key, so the validators_hash root binds every slot's key.     *)
(***************************************************************************)
THEOREM LeafBindsKeyAndLength ==
    ASSUME NEW pk, NEW pk2, NEW v \in Powers, NEW v2 \in Powers,
           NEW len \in Field, NEW len2 \in Field,
           ByteLengthOk(len), ByteLengthOk(len2),
           ValidatorLeafHash(pk, v, len) = ValidatorLeafHash(pk2, v2, len2)
    PROVE  pk = pk2 /\ len = len2
<1> DEFINE M1 == MarshalTendermintValidator(pk, v)
           M2 == MarshalTendermintValidator(pk2, v2)
           P1 == SubSeq(M1, 1, len - 31)
           P2 == SubSeq(M2, 1, len2 - 31)
<1>1. len \in ByteLengthMin .. ByteLengthMax /\ len2 \in ByteLengthMin .. ByteLengthMax
  BY RangeCheckSound
<1>2. LeafHash(P1) = LeafHash(P2)
  BY <1>1, SelectedLeaf DEF ValidatorLeafHash, PubKeyBytes
<1>3. P1 = P2
  BY <1>2 DEF LeafHash
<1>4. /\ Len(M1) = 6 + Septets /\ M1[5] = pk
      /\ Len(M2) = 6 + Septets /\ M2[5] = pk2
  BY MarshalShape
<1>5. /\ DOMAIN P1 = 1 .. len - 31 /\ P1[5] = pk
      /\ DOMAIN P2 = 1 .. len2 - 31 /\ P2[5] = pk2
  BY <1>1, <1>4 DEF ByteLengthMin, ByteLengthMax, PubKeyBytes
<1>. QED  BY <1>1, <1>3, <1>5 DEF ByteLengthMin, ByteLengthMax, PubKeyBytes
=============================================================================
