# TLA+ verification of the Blobstream step and data-commitment circuits

This directory models the zk light-client circuits of the repository: the
Tendermint Merkle tree they must reproduce, the layered Merkle reduction with
enable bits, the validator leaf encoding, the two-limb voting-power arithmetic,
and the step circuit as used by a bridge that follows a chain. It holds:
- TLC runs on small instances;
- TLAPS proofs of the key invariants for every value of the constants.

## The system and how its parts interact

- **Merkle engine** (`src/src/merkle.rs`) is the off-circuit reference, from
  which the honest inputs are built:
  - `get_split_point` splits the leaves at the largest power of two below n;
  - `leaf_hash` and `inner_hash` prefix the hash input with 0x00 and 0x01;
  - `proofs_from_byte_slices`, `trails_from_byte_slices` and `flatten_aunts`
    build inclusion proofs;
  - `compute_hash_from_aunts` and `Proof::verify` check them.
- **Circuit Merkle gadgets** (`validator.rs`, `commitment.rs`):
  - `get_root_from_merkle_proof` walks a fixed path of side bits;
  - `hash_merkle_layer` halves a layer, pairing nodes only when both are
    enabled and otherwise passing the left node up.
  - `hash_validator_set` and `get_data_commitment` loop `hash_merkle_layer` from
    a power-of-two width down to one node.
- **Validator leaf** (`validator.rs`):
  - `marshal_int64_varint` builds the protobuf varint of the voting power with
    a select loop over 9 septets;
  - `marshal_tendermint_validator` writes `10 34 10 32 | key | 16 | varint`;
  - `hash_validator_leaf` hashes every possible length 38..46 and selects the
    one named by the witness `validator_byte_length`.
- **Voting power** (`validator.rs`) works on two u32 limbs:
  - `get_total_voting_power`;
  - the accumulation loop of `check_voting_power`;
  - `mul_i64_by_u32`, `is_i64_gte` and `voting_power_greater_than_threshold`.
- **Step** (`step.rs`) connects these parts for one header:
  - the validator-set root equals the `validators_hash` leaf;
  - the enabled power passes 2/3;
  - signed slots carry signatures over messages holding the header;
  - four header-field proofs along hard-coded paths give the header;
  - `prev_header` is the `last_block_id` leaf.
  - `make_step_circuit` leaves every validator field as a free witness.
- **Inputs** (`inputs.rs`):
  - `generate_step_inputs` builds the honest witness from a block: one enabled
    slot per validator, signed iff its commit signature is a commit, then
    dummies up to the next power of two;
  - it also builds the four header proofs with `get_path_indices`;
  - the test harness of `step.rs` assigns `VALIDATOR_SET_SIZE_MAX` slots from
    it.
- **Relayer** (`src/blobstream/bin/zkblobstream.rs`) drives the contract:
  - it reads the latest header over RPC;
  - it calls `request_combined_skip(latest_block - 10)`;
  - it sleeps 30 minutes and stops after 20 calls;
  - every `unwrap`/`expect` ends the process.

## Modules

| Module | Models | State / actions |
|---|---|---|
| `MerkleHash` | hashes as terms, split point, one `hash_merkle_layer` pass (`LayerHashes`, `LayerEnabled`), the Tendermint root `SimpleHash` (through the recursive function `MerkleRoots`: the root of the `len` items from position `a`) | operators only; no RECURSIVE, so proofs can use it |
| `MerkleTree` | `ReduceLayers`, `ProofAunts`, `ComputeHashFromAunts`, `ProofVerify`, `GetPathIndices`, `GetRootFromMerkleProof`, `GetRootFromHeaderLeaf`, `HeaderFieldProof`, `StepFieldPaths` | recursive operators, TLC only |
| `DataCommitment` | the abstract promise of `get_data_commitment`: a window of leaves, and its Tendermint root produced once | `leaves`, `commitment`; action `Commit` |
| `MerkleLayers` | the while loop of `get_data_commitment` and `hash_validator_set`, and the refinement mapping `Abstract` onto `DataCommitment` | `hashes`, `enabled`, `layerSize`, `leaves`, `leafEnabled`; `InitCommitment` (a window of leaves, the rest `ZeroHash` and disabled), `InitValidatorSet` (any enable bits), action `HashMerkleLayer` |
| `VotingPower` | `check_voting_power` with its callees | `votingPower`, `enabled`, `total`, `acc`, `i`, `pc`, plus the ghost `sum`; actions `GetTotalVotingPower`, `AccumulateValidator`, `VotingPowerGreaterThanThreshold`; a failed `assert_zero_u32` is `pc = "rejected"` |
| `ValidatorMarshal` | `marshal_int64_varint`, `marshal_tendermint_validator`, `hash_validator_leaf`, `hash_validator_leaves` | operators; the varint is scaled (see Bounds) |
| `StepBridge` | `step` as a relation (`StepAccepts`), `generate_step_inputs` (`HonestWitness`, `PaddedSize`), the harness (`HonestStep`), and a bridge that trusts the target of every accepted step whose `prev_header` is its trusted header | `valSets`, `header` (the honest chain), `trusted`, `lastStep`; actions `HonestStep`, `AdversaryStep` |
| `Relayer` | the loop of `main` in `zkblobstream.rs` | `tip` (the chain, the environment), `latestBlock`, `lastRequest`, `callsSoFar`, `pc`; actions `ChainGrows`, `Start`, `QueryLatest`, `RpcFails`, `RequestCombinedSkip`, `SubtractOverflows`, `SendFails`, `Wake`; the constant `OverflowChecks` is the build profile |
| `MC*` | instances for TLC: model values, reference definitions (`ProtoVarint`, `SplitPath`), properties | |
| `Induction` | induction over `Nat` for a constant operator `P`, proved from `WFMin` | instantiated `WITH P <- ...` by the proofs |
| `MerkleRootProofs`, `MerkleLayersProofs`, `VotingPowerProofs`, `ValidatorMarshalProofs` | TLAPS proofs | |

Each mutation operator (`...SizeZero`, `...NoTrunc`, `...Swapped`, ...) sits
just before the definition it varies. It is a plausible fault in that code, and
the run of the property it names must reject it.

## Runs

Runs expected to pass (`PROJECT.json` lists each property and its mutant):

- `merkle_layers` (Width 8, every window 0..8, two data values):
  - `EnabledPrefix`: the enabled nodes of each layer are a prefix;
  - `ImplementsDataCommitment`: the loop refines `DataCommitment`. The
    mapping sends `commitment` to `Root` once `layerSize = 1` and to `NoHash`
    before. So every layer but the last is a stutter of the abstract spec,
    and the last layer is its `Commit`: it yields the Tendermint `SimpleHash`
    of the window, or the zero hash for an empty window. With
    `FairSpecCommitment`, the loop also reaches the end. This covers
    non-power-of-two windows 3, 5, 6 and 7, where the left-pass rule must act
    as the split point.
- `voting_power` (2-bit limbs, 3 slots, every power and enable vector):
  - `AccumulatorExact`: the limb accumulator equals the exact sum;
  - `ThresholdCorrect`: accepts iff nothing overflows and 3*enabled ≥ 2*total.
- `merkle_proofs` (every tree of 1..16 leaves, every index):
  - `ProofRoundTrip`: the proofs verify only for their own leaf, and a proof
    with an aunt too many or too few panics in `Proof::verify`;
  - `CircuitPathSound`: the circuit path loop recomputes the root. In the
    14-leaf header tree, the proof `generate_step_inputs` builds for fields 4, 6,
    7 and 8, walked along the path `step` hard-codes, gives the header hash.
- `validator_marshal` (2-bit septets, 3 of them, every power and every length
  within 3 of the valid range):
  - `VarintMatchesProtobuf`: the varint is the protobuf encoding;
  - `LeafBinding`: no in-range length witness makes a leaf equal another
    validator's canonical leaf.
- `step_honest`, `HonestProgress`: with sets of 3 or 4 of 4 keys and 4 slots,
  the honest relayer reaches the last header.
Runs that find a violation (each backs a finding in `PROJECT.json`):

- `relayer_release_wrap` (a release build: `OverflowChecks = FALSE`, lag 10,
  20 calls, heights 1..14 in 5 bits), `RequestsBehindTip`: on a chain below
  height 10, `latest_block - 10` wraps and `request_combined_skip` is asked
  for a block far beyond the tip, while the comment above the loop says it is
  called with the latest block number. A debug build panics at the same line
  instead; `Cargo.toml` sets no profile, so which of the two happens depends
  on how the binary is built.
- `validator_root_enabled`: with any enable bits, the root is not the hash of
  the enabled validators. The left hash is passed up, unlike spec §4.3.
- `path_indices`: `get_path_indices` is wrong for non-power-of-two totals, e.g.
  total 3, index 2.
- `step_forgery`: a header forged by a prover holding no key is accepted.
  There is no `next_validators_hash` link, and enabled slots need not sign.
- `step_quorum`: the threshold counts enabled power, not signed power.
- `step_small_set`: a set of at most half of `VALIDATOR_SET_SIZE_MAX` is padded
  too short for the harness, so it cannot be proved.

## Bounds

- **Merkle runs.** Width 8 and 16 leaves cover every non-power-of-two shape up
  to the 14-leaf header tree, including splits of 3, 5, 6 and 7.
- **Voting power.** 2-bit limbs make B = 4, so overflow of either limb, of the
  carry and of the products by 2 and 3 are all reached with 3 slots. The
  proofs cover every width.
- **Validator marshal.** The varint is scaled: 2 bits per group and 3 groups
  instead of 7 and 9. The loop structure (last non-zero septet, continuation
  bit by field subtraction) is unchanged, and every power of 7 bits is
  enumerated. The field modulus only has to exceed the differences that occur.
- **Relayer.** The real lag (10) and call limit (20) are kept. Heights up to
  14 include both young chains (below 10) and chains past the lag. Height
  width 5 is enough to make the wrap visible. Chain growth is unbounded in
  pace between loop steps, up to `MaxHeight`.
- **StepBridge.** 3 or 4 keys, 2 or 4 slots and chains of 2 or 3 heights are
  enough for a forged step and padding mismatches.

## Fairness

`HonestSpec` assumes weak fairness of `HonestStep`: a prover that keeps
submitting the honest step proofs. The repository's relayer (`zkblobstream.rs`)
loops requesting proofs but stops after 20 calls and on a failed send, so
`HonestProgress` is a completeness property of the circuit and its input
generator under a live prover, not a guarantee of that binary. `Relayer`
assumes no fairness: the code sets no timeout on `reqwest::get`, so a server
that never answers blocks the loop forever (listed as a hazard), and no
liveness of the loop is claimed.
`FairSpecCommitment` assumes weak fairness of the layer loop. The circuit's
witness generation runs that straight-line loop to the end. The other runs
check safety only. The runs that stop (the layer loop reaching one node, the
voting-power check deciding, the bridge at the chain's last header) disable
the deadlock check for that reason.

## Proofs (TLAPS)

- `MerkleLayersProofs!EnabledPrefixInvariant`:
  `SpecCommitment => [](TypeOK /\ EnabledPrefix)` for every power-of-two
  `Width`.
  - The inductive invariant `LayersInv` adds `IsPowerOfTwo(layerSize)`. Without
    it, a layer of odd size would read a node outside the layer and the
    prefix could break.
  - `HalfPowerOfTwo` shows that halving keeps the size a power of two.
  - `LayerStepInv` carries the prefix bound c to (c+1) div 2.
- `VotingPowerProofs!AccumulatorExactInvariant`: `Spec => []AccumulatorExact`
  for every limb width and set size.
  - The inductive invariant `AccInv` states the limbs' ranges and
    `Val(acc) = sum`.
  - `AccumulateStepExact` shows that an iteration that passes both assertions
    adds exactly `enabled * power`, using `DivModB` on the carries.
- `VotingPowerProofs!ThresholdDecision`: for all limb pairs, the circuit's test
  (two `mul_i64_by_u32` and `is_i64_gte`) holds iff both products fit in two
  limbs and 3·acc ≥ 2·total. It rests on `MulI64ByU32Correct` and
  `IsI64GteCorrect`.

- `MerkleLayersProofs!ValidatorSetTypeCorrect`: `SpecValidatorSet => []TypeOK`
  for every power-of-two `Width` and any enable bits, including a prover's
  bits with disabled slots before enabled ones.
  - `EnabledPrefix` fails for such bits, so the inductive invariant is only
    `TypesInv == TypeOK /\ IsPowerOfTwo(layerSize)`.
  - `TypesStep` (which `LayerStepInv` now reuses) uses `HalfPowerOfTwo`:
    every layer the loop hashes has even size, so the pair it reads,
    `2j+1`, is inside the layer.
- `ValidatorMarshalProofs!LeafBindsKeyAndLength`: for every varint width
  (`Septets`) and field order, two validator leaves are equal only if they
  have the same key and the same byte length.
  - The hypotheses are that their byte-length witnesses pass the two range
    checks of `hash_validator_leaf` and that they give the same leaf hash.
  - `RangeCheckSound` shows that the checks on field elements
    (`FieldSubValue`) confine the witness to 38..46.
  - `SelectedLeaf` shows that the selector picks the hash of the first
    `len - 31` marshalled bytes.
  - `MarshalShape` shows that the key sits at byte 5 of a sequence of
    `6 + Septets`.
  - The run's `LeafBinding` is a stronger statement and stays TLC-checked:
    the selected leaf equals the canonical leaf of `(pk2, v2)` only for that
    validator itself. It relates the selected bytes to `ProtoVarint`, a
    recursive reference.

- `VotingPowerProofs!ThresholdCorrectInvariant` (`Spec => []ThresholdCorrect`)
  and `VotingPowerProofs!VotingPowerTypeCorrect` (`Spec => []TypeOK`), for
  every limb width and set size. `check_voting_power` accepts exactly when the
  total, 3·enabled and 2·total fit in 64 bits and 3·enabled ≥ 2·total.
  - Both rest on the inductive invariant `ThresholdInv`. It extends `AccInv`
    with what each phase has established:
    - the total in two limbs, equal to `TotalPower`, once
      `get_total_voting_power` has passed;
    - the ghost `sum` equal to the prefix sum `SumBelow(EnabledTerms)[i]`
      during the loop;
    - a decided `pc` that agrees with `ThresholdMet`.

    The last conjunct is what makes a rejection in the middle of the loop
    provably right.
  - The sums are `SumBelow`, a function defined by recursion on `Nat`. Its
    recursion equation (`SumBelowEquation`) is proved from partial solutions
    on `0..n` that exist (`ApproxExists`) and agree (`ApproxUnique`).
  - `SumBelowNat`, `SumBelowMono` and `SumBelowLimbs` (the sum of two-limb
    values is the low sum plus B times the high sum) are proved by induction
    through the `Induction` module.
  - `OverflowMeansBig`: a failed assertion in the loop means the running sum
    has reached B·B. Since the sum only grows, the threshold is then not met.
  - `TotalDecision`: `get_total_voting_power` passes exactly when the total
    fits, and then holds it exactly.
  - `ThresholdDecision` closes the last step.

- `MerkleLayersProofs!DataCommitmentRefinement`:
  `Width > 1 => (SpecCommitment => Abstract!Spec)`. This is the safety part
  of the `ImplementsDataCommitment` run, for every power-of-two width.
  - The loop of `get_data_commitment` produces, once, the RFC 6962 root of
    the window. That root is the one `trails_from_byte_slices` builds by
    splitting at `get_split_point`.
  - The inductive invariant is `RefInv`. Let the window have `n` leaves and
    let `B = Width / layerSize`.
    - Node `i` of the current layer stands for block `i` of `B` leaves.
    - Node `i` is enabled exactly when its block holds a leaf (`i * B < n`).
    - An enabled node holds `MerkleRoots(WindowSeq(n))[BlockLen(n, B, i)][i * B + 1]`,
      the root of the leaves of its block.
    - A disabled node holds the zero hash.
  - `RefInvStep` joins two blocks into one of `2 * B` leaves. Its cases
    follow `hash_merkle_layer`'s branches.
    - Both nodes enabled: the right block is non-empty, and
      `SplitPointBlock` shows that the tree splits the joined slice after
      `B` leaves.
    - Only the left enabled: the joined slice is the left one.
    - Neither enabled: the zero hash.
  - At `layerSize = 1` the one block is the window (`RootIsWindowRoot`,
    which uses `FS_Interval` for the window's length).
  - `RefineStep` maps every iteration but the last to a stutter, and the
    last to `Commit`.
  - `Width > 1` is needed because a width of 1 starts with the root already
    computed, where the abstract spec has none yet.
  - The lemmas of `MerkleRootProofs` support the argument:
    - doubling and halving powers of two;
    - `PowerOfTwoGap` (of two powers of two, the larger is at least twice
      the smaller);
    - `FloorPow2Spec` and `FloorPow2Unique` (what `1 << log2(n)` chooses);
    - `SplitPointBounds` and `SplitPointBlock`;
    - `MerkleRootsEquation`, the recursion equation of `MerkleRoots`. It is
      proved like `SumBelowEquation`, with strong recursion: the root of
      `len >= 2` items reads only the shorter halves (`RootsBodyLocal`).

The assumptions are `WidthAssumption` (the width is a power of two), and
`LimbAssumption` and `SizeAssumption` (a positive limb width and set size), and `MarshalAssumption` (the varint width and field order of `ValidatorMarshal`).

Observed and not kept as a run: `ThresholdDecision` shows that exactly
two thirds is accepted. The comments at `validator.rs:161/170` and
`step.rs:173` say "greater than", but spec §4.4 asks for >=, as the code does.

Only model-checked:
- the liveness part of `ImplementsDataCommitment` (`WF_vars(Commit)` of
  `FairSpec`), and the refinement for `Width = 1`, where the loop does not
  run and the root exists in the initial state;
- liveness (`HonestProgress`), since TLAPS here does not handle fairness or
  ENABLED;
- everything about the recursive operators (`ReduceLayers`, proofs and
  aunts, varint reference);
- the properties of `StepBridge`, `MCMerkleProofs` and `MCValidatorMarshal`.
  These modules reach the
  `RECURSIVE` operators of `MerkleTree` (or the recursive reference
  `ProtoVarint`), and the SMT backend is unavailable in any module that
  reaches a `RECURSIVE` operator.

The installed provers cannot instantiate the operator parameter of the
library's induction theorems (`NatInduction` and the like). The project
therefore proves induction once, in `Induction`, for a declared constant
operator `P`. Each use instantiates the module with its own property
(`INSTANCE Induction WITH P <- SumBelowNatP`), and tlapm performs the
substitution itself. This is how the facts about `SumBelow`, powers of two
and `MerkleRoots` are proved.

## Not modelled

- The SHA-256 and curta byte layouts (`encode_data_root_tuple`,
  `leaf_hash_stark`, the padding conversions and the chunk counts of the SHA
  gadget). Hashes are terms.
- Ed25519 verification (`verify_signatures`, from an external crate). It is
  abstracted to: a signed slot's key signed a message holding the header.
- The skip circuit and the data-commitment wrappers, which delegate to external
  builders.
- The RPC fetchers and the fixture scripts (I/O). The relayer's RPC and
  contract calls are modelled only by their outcomes (an answer, or a panic).
- The byte offsets of `verify_hash_in_message`. The header hash is read at
  byte 16 or 25, chosen by one free `round_present` witness. Messages are
  terms in `StepBridge`, so the offsets are not represented.
