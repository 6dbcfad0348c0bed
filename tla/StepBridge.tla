----------------------------- MODULE StepBridge -----------------------------
(***************************************************************************)
(* The step circuit (step in src/src/step.rs) as the relation it enforces  *)
(* between a target header, the previous header and a witness, used by a  *)
(* light-client bridge that keeps a trusted header and replaces it by the  *)
(* target of every step proof whose prev_header is the trusted header.     *)
(*                                                                         *)
(* Two provers submit steps: the honest relayer, whose witness is the one  *)
(* generate_step_inputs (src/src/inputs.rs) builds from the chain, and an  *)
(* adversary, who may choose any witness and may build headers of its     *)
(* own.  Hashes are terms (MerkleHash), a header hash is the header record *)
(* itself, and the four header-field proofs are taken to open exactly the  *)
(* fields of the header they are checked against, which MCMerkleProofs     *)
(* establishes for the paths step hard-codes.  The voting-power check is   *)
(* the exact comparison that VotingPower shows the limb arithmetic         *)
(* computes for powers that fit in 64 bits.                                *)
(***************************************************************************)
EXTENDS MerkleTree, FiniteSets, Functions

CONSTANTS
    Nodes,                  \* validator keys, numbers (their sort order)
    Faulty,                 \* the keys whose private keys the adversary holds
    Dummy,                  \* the padding key: the Ed25519 key of a zero secret
    Power,                  \* voting power of every key
    VALIDATOR_SET_SIZE_MAX, \* number of validator slots of the circuit
    MaxHeight,              \* height of the honest chain
    ValSetSizes             \* the sizes the chain's validator sets may have

ASSUME StepAssumption ==
    /\ Nodes \subseteq Nat /\ Faulty \subseteq Nodes /\ Dummy \notin Nodes
    /\ Power \in [Nodes -> Nat \ {0}]
    /\ VALIDATOR_SET_SIZE_MAX \in Nat \ {0}
    /\ MaxHeight \in Nat \ {0}
    /\ ValSetSizes \subseteq 1 .. Cardinality(Nodes)

Slots == 0 .. VALIDATOR_SET_SIZE_MAX - 1

\* The leaf marshal_tendermint_validator encodes: key and voting power.
PowerOf(n) == IF n = Dummy THEN 0 ELSE Power[n]
ValidatorLeaf(n) == <<n, PowerOf(n)>>

\* A set of keys in the protocol's order.
Sorted(S) == CHOOSE s \in [1 .. Cardinality(S) -> S] :
                 \A a, b \in DOMAIN s : a < b => s[a] < s[b]

\* validators_hash of a header: the Tendermint root of the set's leaves.
ValSetHash(S) == SimpleHash([k \in 1 .. Cardinality(S) |-> ValidatorLeaf(Sorted(S)[k])])

ValSetChoices == {S \in SUBSET Nodes : Cardinality(S) \in ValSetSizes}

VARIABLES
    valSets,   \* the validator set of each height of the honest chain
    header,    \* the header of each height of the honest chain
    trusted,   \* the bridge's trusted header
    lastStep   \* the last accepted step proof: its trusted and target
               \* headers and its witness (history, for the properties)

vars == <<valSets, header, trusted, lastStep>>

NoStep == [none |-> TRUE]
Genesis == [genesis |-> TRUE]   \* last_block_id of the first header

\* The honest chain for the validator sets vs: height, last_block_id,
\* validators_hash and next_validators_hash of every header.
ChainOf(vs) ==
    LET hdr[h \in 1 .. MaxHeight] ==
            [height |-> h,
             lastBlockId |-> IF h = 1 THEN Genesis ELSE hdr[h - 1],
             validatorsHash |-> ValSetHash(vs[h]),
             nextValidatorsHash |-> ValSetHash(vs[h + 1])]
    IN  hdr

Chain == {header[h] : h \in 1 .. MaxHeight}

\* An honest validator signs a precommit only for the header of its height;
\* the adversary signs anything with the faulty keys and with the dummy key.
CanSign(n, hdr) ==
    \/ n \in Faulty \cup {Dummy}
    \/ \E h \in 1 .. MaxHeight : hdr = header[h] /\ n \in valSets[h]

-----------------------------------------------------------------------------
(***************************************************************************)
(* The constraints of step, for target header hdr with previous header    *)
(* prev and witness w = [slot, enabled, signed]:                           *)
(*  - hash_validator_set of the marshalled slots with the enable bits     *)
(*    equals the validators_hash opened by validator_hash_proof;           *)
(*  - check_voting_power over validators_enabled_u32 against the total of *)
(*    all slots, threshold 2/3, is connected to one;                       *)
(*  - verify_signatures over validators_signed, and verify_hash_in_message *)
(*    equal to signed: a signed slot carries a valid signature of a        *)
(*    message holding hdr, an unsigned one a message without it;           *)
(*  - prev_header is the hash in the last_block_id leaf of hdr.            *)
(* The next_validators_hash proof is checked against hdr only.             *)
(***************************************************************************)
EnabledPower(w) == SumFunction([j \in Slots |-> IF w.enabled[j] THEN PowerOf(w.slot[j]) ELSE 0])
TotalPower(w) == SumFunction([j \in Slots |-> PowerOf(w.slot[j])])

StepAccepts(hdr, prev, w) ==
    /\ ReduceLayers([j \in Slots |-> LeafHash(ValidatorLeaf(w.slot[j]))], w.enabled,
                    VALIDATOR_SET_SIZE_MAX) = hdr.validatorsHash
    /\ 3 * EnabledPower(w) >= 2 * TotalPower(w)
    /\ \A j \in Slots : w.signed[j] => CanSign(w.slot[j], hdr)
    /\ hdr.lastBlockId = prev

\* The bridge consumes a proof whose prev_header is its trusted header.
Accept(hdr, w) ==
    /\ StepAccepts(hdr, trusted, w)
    /\ trusted' = hdr
    /\ lastStep' = [from |-> trusted, to |-> hdr, witness |-> w]
    /\ UNCHANGED <<valSets, header>>

-----------------------------------------------------------------------------
\* The least power of two at or above n: generate_step_inputs pads to it.
\* Fault model: the padding loop run while total <= len.
PaddedSizeAbove(n) == CHOOSE p \in {2^e : e \in 0 .. n + 1} : p > n /\ p \div 2 <= n

PaddedSize(n) == CHOOSE p \in {2^e : e \in 0 .. n} : p >= n /\ (p = 1 \/ p \div 2 < n)

(***************************************************************************)
(* generate_step_inputs for the header of height h whose commit has the   *)
(* signatures commit: one slot per validator in order, enabled, signed     *)
(* when its signature is a commit (absent and nil votes are unsigned),     *)
(* then dummy slots up to the next power of two, disabled and unsigned.    *)
(* The harness of step.rs assigns its slots 0 .. VALIDATOR_SET_SIZE_MAX-1  *)
(* to the circuit, so a witness of another length cannot be proved.        *)
(***************************************************************************)
HonestWitness(h, commit) ==
    LET vs == Sorted(valSets[h])
        n == Len(vs)
    IN  [slot |-> [j \in Slots |-> IF j < n THEN vs[j + 1] ELSE Dummy],
         enabled |-> [j \in Slots |-> j < n],
         signed |-> [j \in Slots |-> j < n /\ vs[j + 1] \in commit]]

\* A commit of Tendermint: signatures of more than 2/3 of the power.
Commits(h) ==
    {C \in SUBSET valSets[h] :
        3 * SumFunction([n \in C |-> Power[n]])
            > 2 * SumFunction([n \in valSets[h] |-> Power[n]])}

Init ==
    /\ valSets \in [1 .. MaxHeight + 1 -> ValSetChoices]
    /\ header = ChainOf(valSets)
    /\ trusted = header[1]
    /\ lastStep = NoStep

(***************************************************************************)
(* The relayer proves the step from the trusted header of height h to the  *)
(* header of height h + 1 with the inputs generate_step_inputs builds.    *)
(***************************************************************************)
HonestStep ==
    \E h \in 1 .. MaxHeight - 1 :
        /\ trusted = header[h]
        /\ PaddedSize(Cardinality(valSets[h + 1])) = VALIDATOR_SET_SIZE_MAX
        /\ \E commit \in Commits(h + 1) : Accept(header[h + 1], HonestWitness(h + 1, commit))

\* The headers an adversary can name as a target: the chain's, and headers
\* of its own on top of the trusted one with a validator set of its choice.
Forged(S) ==
    [height |-> trusted.height + 1, lastBlockId |-> trusted,
     validatorsHash |-> ValSetHash(S), nextValidatorsHash |-> ValSetHash(S)]

Witnesses ==
    [slot : [Slots -> Nodes \cup {Dummy}], enabled : [Slots -> BOOLEAN],
     signed : [Slots -> BOOLEAN]]

AdversaryStep ==
    /\ trusted.height < MaxHeight
    /\ \E hdr \in Chain \cup {Forged(S) : S \in ValSetChoices}, w \in Witnesses :
           Accept(hdr, w)

Next == HonestStep \/ AdversaryStep

HonestNext == HonestStep

Spec == Init /\ [][Next]_vars

\* The relayer keeps submitting steps (the loop of zkblobstream).
HonestSpec == Init /\ [][HonestNext]_vars /\ WF_vars(HonestStep)

-----------------------------------------------------------------------------
(***************************************************************************)
(* Completeness of step for the relayer: with the inputs that             *)
(* generate_step_inputs builds from each block and its commit, the bridge *)
(* reaches the last header of the chain.                                  *)
(***************************************************************************)
HonestProgress == <>(trusted = header[MaxHeight])

(***************************************************************************)
(* Light-client safety, spec section 4.6: the bridge only ever trusts     *)
(* headers of the chain, each step chaining trust through the trusted     *)
(* header's next_validators_hash.                                          *)
(***************************************************************************)
BridgeSafety == trusted \in Chain

(***************************************************************************)
(* Spec section 4.4: a header is accepted only if the validators that     *)
(* signed it hold at least two thirds of the power of its validator set.  *)
(* Stated for the headers of the chain, whose validator set is known.     *)
(***************************************************************************)
SignedQuorum ==
    lastStep # NoStep /\ lastStep.to \in Chain =>
        LET h == lastStep.to.height
            w == lastStep.witness
            signers == {w.slot[j] : j \in {k \in Slots : w.signed[k]}} \cap valSets[h]
        IN  3 * SumFunction([n \in signers |-> Power[n]])
                >= 2 * SumFunction([n \in valSets[h] |-> Power[n]])
=============================================================================
