------------------------------ MODULE Relayer ------------------------------
(***************************************************************************)
(* The relayer loop of src/blobstream/bin/zkblobstream.rs: it reads the    *)
(* latest Tendermint header over RPC, asks the ZKBlobstream contract for a *)
(* combined skip to the block Lag below it, sleeps, and stops after        *)
(* MaxCalls requests.  The chain grows underneath it.  Every unwrap and    *)
(* expect on an RPC or a send is a panic that ends the process; time is    *)
(* abstracted, so the chain may grow by any number of blocks between two   *)
(* steps of the loop.                                                      *)
(***************************************************************************)
EXTENDS Integers

CONSTANTS
    MaxCalls,       \* the 20 of `calls_so_far == 20`
    Lag,            \* the 10 of `latest_block - 10`
    HeightBits,     \* the width of u64, the type of latest_block
    MaxHeight,      \* the highest chain height explored
    OverflowChecks  \* the build: TRUE for debug, FALSE for release

Modulus == 2 ^ HeightBits

\* The constants: MaxCalls in Nat \ {0}, Lag in Nat, HeightBits in Nat \ {0},
\* MaxHeight in 1 .. Modulus - 1 and OverflowChecks in BOOLEAN.

\* No request sent yet (not a height: heights are below Modulus).
NoRequest == Modulus

VARIABLES
    tip,          \* the chain's latest height
    latestBlock,  \* latest_block, as last read by get_latest_header
    lastRequest,  \* the argument of the last request_combined_skip sent
    callsSoFar,   \* calls_so_far
    pc            \* "start", "query", "request", "sleep", "done", "crashed"

vars == <<tip, latestBlock, lastRequest, callsSoFar, pc>>

Init ==
    /\ tip \in 1 .. MaxHeight
    /\ latestBlock = 0
    /\ lastRequest = NoRequest
    /\ callsSoFar = 0
    /\ pc = "start"

-----------------------------------------------------------------------------
\* The environment: a new block.
ChainGrows ==
    /\ tip < MaxHeight
    /\ tip' = tip + 1
    /\ UNCHANGED <<latestBlock, lastRequest, callsSoFar, pc>>

(***************************************************************************)
(* get_latest_header before the loop (lines 60-61): the height is only     *)
(* printed.                                                                *)
(***************************************************************************)
Start ==
    /\ pc = "start"
    /\ pc' = "query"
    /\ UNCHANGED <<tip, latestBlock, lastRequest, callsSoFar>>

\* get_latest_header at the top of the loop: the chain's current height.
QueryLatest ==
    /\ pc = "query"
    /\ latestBlock' = tip
    /\ pc' = "request"
    /\ UNCHANGED <<tip, lastRequest, callsSoFar>>

\* reqwest::get(...).unwrap() or the JSON expect in get_latest_header.
RpcFails ==
    /\ pc \in {"start", "query"}
    /\ pc' = "crashed"
    /\ UNCHANGED <<tip, latestBlock, lastRequest, callsSoFar>>

\* block_to_request = latest_block - 10 on u64: wraps in a release build.
BlockToRequest(latest) == (latest - Lag) % Modulus

(***************************************************************************)
(* request_combined_skip(block_to_request).send().await succeeds.  The     *)
(* subtraction panics in a debug build when latest_block < 10 (the next    *)
(* action); in a release build it wraps.                                   *)
(***************************************************************************)
RequestCombinedSkip ==
    /\ pc = "request"
    /\ latestBlock >= Lag \/ ~OverflowChecks
    /\ lastRequest' = BlockToRequest(latestBlock)
    /\ pc' = "sleep"
    /\ UNCHANGED <<tip, latestBlock, callsSoFar>>

\* "attempt to subtract with overflow" in a debug build.
SubtractOverflows ==
    /\ pc = "request"
    /\ latestBlock < Lag
    /\ OverflowChecks
    /\ pc' = "crashed"
    /\ UNCHANGED <<tip, latestBlock, lastRequest, callsSoFar>>

\* .expect("failed to request combined skip"): the send is rejected.
SendFails ==
    /\ pc = "request"
    /\ latestBlock >= Lag \/ ~OverflowChecks
    /\ pc' = "crashed"
    /\ UNCHANGED <<tip, latestBlock, lastRequest, callsSoFar>>

\* After the 30-minute sleep: count the call, break at MaxCalls.
Wake ==
    /\ pc = "sleep"
    /\ callsSoFar' = callsSoFar + 1
    /\ pc' = IF callsSoFar' = MaxCalls THEN "done" ELSE "query"
    /\ UNCHANGED <<tip, latestBlock, lastRequest>>

\* One step of the relayer process, whichever await completes.
RelayerStep ==
    \/ Start \/ QueryLatest \/ RpcFails
    \/ RequestCombinedSkip \/ SubtractOverflows \/ SendFails
    \/ Wake

Next == ChainGrows \/ RelayerStep

Spec == Init /\ [][Next]_vars

-----------------------------------------------------------------------------
(***************************************************************************)
(* What the comment above the loop (line 80) promises: the relayer calls   *)
(* request_combined_skip "with the latest block number", i.e. for a block  *)
(* the chain already has, Lag blocks below the tip read by                 *)
(* get_latest_header.  block_to_request = latest_block - 10 is a u64       *)
(* subtraction: a debug build panics on a chain below height 10, a release *)
(* build (overflow checks off) wraps and asks for a block near 2^64.       *)
(***************************************************************************)
RequestsBehindTip ==
    lastRequest # NoRequest => lastRequest + Lag <= tip
=============================================================================
