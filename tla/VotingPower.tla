---------------------------- MODULE VotingPower -----------------------------
(***************************************************************************)
(* The voting-power arithmetic of the step circuit (src/src/validator.rs): *)
(* get_total_voting_power, the accumulation loop of check_voting_power,    *)
(* mul_i64_by_u32, is_i64_gte and voting_power_greater_than_threshold.     *)
(*                                                                         *)
(* A voting power is an I64Target, two u32 limbs [low, high].  Every       *)
(* assert_zero_u32 of the code is a constraint: when one fails no proof    *)
(* exists, which the model records as the outcome "rejected", like a       *)
(* threshold check that returns false and is connected to one.  The limb   *)
(* width is the constant LimbBits (32 in the code) so that TLC can reach   *)
(* the overflow cases.                                                     *)
(***************************************************************************)
EXTENDS Naturals

CONSTANTS
    LimbBits,              \* bits of a U32Target limb (32 in the code)
    VALIDATOR_SET_SIZE_MAX \* number of validator slots of the circuit

ASSUME LimbAssumption ==
    /\ LimbBits \in Nat \ {0}
    /\ 2^LimbBits \in Nat /\ 2^LimbBits >= 2

ASSUME SizeAssumption == VALIDATOR_SET_SIZE_MAX \in Nat \ {0}

B == 2^LimbBits                    \* the modulus of one limb
Limb == 0 .. B - 1
Slots == 0 .. VALIDATOR_SET_SIZE_MAX - 1

\* The integer an I64Target [low, high] stands for.
Val(x) == x[1] + B * x[2]

\* marshal_int64_varint asserts that bit 63 of a voting power is zero.
VotingPowers == {x \in Limb \X Limb : x[2] < B \div 2}

\* threshold_numerator / threshold_denominator, the constants 2 and 3 of step.
ThresholdNumerator == 2
ThresholdDenominator == 3

VARIABLES
    votingPower,  \* validator_voting_power (input)
    enabled,      \* validators_enabled_u32, 0 or 1 (input)
    total,        \* total_voting_power
    acc,          \* accumulated_voting_power
    i,            \* the loop index of check_voting_power
    pc,           \* "total", "accumulate", "accepted" or "rejected"
    sum           \* history variable: the exact integer acc should hold

vars == <<votingPower, enabled, total, acc, i, pc, sum>>

Init ==
    /\ votingPower \in [Slots -> VotingPowers]
    /\ enabled \in [Slots -> {0, 1}]
    /\ total = <<0, 0>>
    /\ acc = <<0, 0>>
    /\ i = 0
    /\ pc = "total"
    /\ sum = 0

-----------------------------------------------------------------------------
(***************************************************************************)
(* get_total_voting_power: add_many_u32 of the low limbs and of the high   *)
(* limbs, each giving a sum and a carry limb; the carry of the high limbs  *)
(* and the carry of adding the low carry to the high sum must be zero.     *)
(***************************************************************************)
\* g[0] + ... + g[n - 1] at n: the exact sum add_many_u32 splits into limbs.
SumBelow(g) == LET s[n \in Nat] == IF n = 0 THEN 0 ELSE s[n - 1] + g[n - 1] IN s

LowSum == SumBelow([j \in Slots |-> votingPower[j][1]])[VALIDATOR_SET_SIZE_MAX]
HighSum == SumBelow([j \in Slots |-> votingPower[j][2]])[VALIDATOR_SET_SIZE_MAX]
CarrySum == (LowSum \div B) + (HighSum % B)

GetTotalVotingPower ==
    /\ pc = "total"
    /\ \/ /\ HighSum \div B = 0
          /\ CarrySum \div B = 0
          /\ total' = <<LowSum % B, CarrySum % B>>
          /\ pc' = "accumulate"
       \/ /\ HighSum \div B # 0 \/ CarrySum \div B # 0
          /\ pc' = "rejected"
          /\ UNCHANGED total
    /\ UNCHANGED <<votingPower, enabled, acc, i, sum>>

(***************************************************************************)
(* One iteration of the loop of check_voting_power: mul_add_u32 of the low *)
(* limb by the enable bit onto the low accumulator, the carry added to the *)
(* high limb (asserted not to overflow), and mul_add_u32 of that by the    *)
(* enable bit onto the high accumulator (asserted not to overflow).        *)
(***************************************************************************)
SumLower(v, e, a) == v[1] * e + a[1]
\* Fault model: the carry of the low limbs not added to the high limb.
CarryLimbNoLowCarry(v, e, a) == v[2]
CarryLimb(v, e, a) == (SumLower(v, e, a) \div B) + v[2]
SumUpper(v, e, a) == (CarryLimb(v, e, a) % B) * e + a[2]
AccumulateOverflows(v, e, a) ==
    CarryLimb(v, e, a) \div B # 0 \/ SumUpper(v, e, a) \div B # 0

\* Fault model: the low accumulator limb not reduced to 32 bits.
AccumulateValidatorNoTrunc ==
    /\ pc = "accumulate"
    /\ i < VALIDATOR_SET_SIZE_MAX
    /\ LET v == votingPower[i]
           e == enabled[i]
       IN  \/ /\ ~AccumulateOverflows(v, e, acc)
              /\ acc' = <<SumLower(v, e, acc), SumUpper(v, e, acc) % B>>
              /\ i' = i + 1
              /\ sum' = sum + e * Val(v)
              /\ UNCHANGED pc
           \/ /\ AccumulateOverflows(v, e, acc)
              /\ pc' = "rejected"
              /\ UNCHANGED <<acc, i, sum>>
    /\ UNCHANGED <<votingPower, enabled, total>>

AccumulateValidator ==
    /\ pc = "accumulate"
    /\ i < VALIDATOR_SET_SIZE_MAX
    /\ LET v == votingPower[i]
           e == enabled[i]
       IN  \/ /\ ~AccumulateOverflows(v, e, acc)
              /\ acc' = <<SumLower(v, e, acc) % B, SumUpper(v, e, acc) % B>>
              /\ i' = i + 1
              /\ sum' = sum + e * Val(v)
              /\ UNCHANGED pc
           \/ /\ AccumulateOverflows(v, e, acc)
              /\ pc' = "rejected"
              /\ UNCHANGED <<acc, i, sum>>
    /\ UNCHANGED <<votingPower, enabled, total>>

(***************************************************************************)
(* mul_i64_by_u32: both limbs multiplied by b with mul_u32; the carry of   *)
(* the high product must be zero, and so must the carry of adding the low  *)
(* carry to the high product.                                              *)
(***************************************************************************)
MulI64ByU32(a, b) ==
    <<(a[1] * b) % B, (((a[2] * b) % B) + ((a[1] * b) \div B)) % B>>
MulI64ByU32Ok(a, b) ==
    /\ (a[2] * b) \div B = 0
    /\ (((a[2] * b) % B) + ((a[1] * b) \div B)) \div B = 0

(***************************************************************************)
(* is_i64_gte: sub_u32 of the high limbs, giving a difference modulo B and *)
(* a borrow; true when the high limbs differ without a borrow, or are      *)
(* equal and the low subtraction does not borrow.                          *)
(***************************************************************************)
\* Fault model: equal high limbs compared strictly on the low limbs.
IsI64GteStrict(a, b) ==
    \/ a[2] # b[2] /\ a[2] >= b[2]
    \/ a[2] = b[2] /\ a[1] > b[1]

IsI64Gte(a, b) ==
    LET upperEqual == (a[2] - b[2]) % B = 0
        noUnderflowHigh == a[2] >= b[2]
        noUnderflowLow == a[1] >= b[1]
    IN  \/ ~upperEqual /\ noUnderflowHigh
        \/ upperEqual /\ noUnderflowLow

(***************************************************************************)
(* The end of check_voting_power: voting_power_greater_than_threshold of   *)
(* the accumulated power, connected to one by step.                        *)
(***************************************************************************)
VotingPowerGreaterThanThreshold ==
    /\ pc = "accumulate"
    /\ i = VALIDATOR_SET_SIZE_MAX
    /\ LET scaledAcc == MulI64ByU32(acc, ThresholdDenominator)
           scaledTotal == MulI64ByU32(total, ThresholdNumerator)
       IN  pc' = IF /\ MulI64ByU32Ok(acc, ThresholdDenominator)
                    /\ MulI64ByU32Ok(total, ThresholdNumerator)
                    /\ IsI64Gte(scaledAcc, scaledTotal)
                 THEN "accepted" ELSE "rejected"
    /\ UNCHANGED <<votingPower, enabled, total, acc, i, sum>>

Next ==
    \/ GetTotalVotingPower
    \/ AccumulateValidator
    \/ VotingPowerGreaterThanThreshold

Spec == Init /\ [][Next]_vars

-----------------------------------------------------------------------------
\* Type invariant.
TypeOK ==
    /\ votingPower \in [Slots -> VotingPowers]
    /\ enabled \in [Slots -> {0, 1}]
    /\ total \in Limb \X Limb
    /\ acc \in Limb \X Limb
    /\ i \in 0 .. VALIDATOR_SET_SIZE_MAX
    /\ pc \in {"total", "accumulate", "accepted", "rejected"}
    /\ sum \in Nat

(***************************************************************************)
(* The two-limb accumulator of check_voting_power never loses a carry:     *)
(* after every iteration the I64Target [low, high] stands for exactly the  *)
(* sum of the enabled voting powers added so far.                          *)
(***************************************************************************)
AccumulatorExact == Val(acc) = sum

\* The exact powers the circuit is meant to compare.
EnabledPower == SumBelow([j \in Slots |-> enabled[j] * Val(votingPower[j])])[VALIDATOR_SET_SIZE_MAX]
TotalPower == SumBelow([j \in Slots |-> Val(votingPower[j])])[VALIDATOR_SET_SIZE_MAX]

(***************************************************************************)
(* The limb arithmetic of get_total_voting_power, check_voting_power,      *)
(* mul_i64_by_u32 and is_i64_gte together decide the threshold exactly:    *)
(* the circuit accepts if and only if the enabled power times 3 is at      *)
(* least the total power times 2, unless one of the 64-bit quantities it   *)
(* forms (total, 3 * enabled, 2 * total) does not fit, in which case it    *)
(* rejects.                                                                *)
(***************************************************************************)
ThresholdCorrect ==
    pc \in {"accepted", "rejected"} =>
        (pc = "accepted" <=>
            /\ TotalPower < B * B
            /\ ThresholdDenominator * EnabledPower < B * B
            /\ ThresholdNumerator * TotalPower < B * B
            /\ ThresholdDenominator * EnabledPower >= ThresholdNumerator * TotalPower)

=============================================================================
