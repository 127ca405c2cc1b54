--------------------------- MODULE AllocationRules ---------------------------
(***************************************************************************)
(* An allocation on its way around: the LLM's answer through the schema,   *)
(* the sanity gate and the drift gate to the contract's own check, and     *)
(* back from the contract, by the node or by the REST service, into the    *)
(* drift gate of the next run.  Five places each have their own idea of    *)
(* what an allocation is; the model asks whether the ideas fit.            *)
(*                                                                         *)
(* An allocation is a sequence of entries, as in the code, since order,    *)
(* repeated assets and missing assets matter to some of the five.  The     *)
(* gates for pause, balance and confidence are in module AgentLoop; that   *)
(* the vault is paused, or has another agent, when the call arrives, is    *)
(* here.                                                                   *)
(***************************************************************************)
EXTENDS Integers, Sequences, FiniteSets, SequencesExt, FiniteSetsExt

CONSTANTS
    NumAssets,          \* 5
    Total,              \* TOTAL_BPS, 10_000
    MaxWeight,          \* MAX_ASSET_WEIGHT_BPS
    DriftBps,           \* REALLOCATION_DRIFT_BPS
    Default,            \* defaultVaultAllocation
    Null

VARIABLES
    stored,             \* the contract's vector: empty at first
    view,               \* the allocation the run compares with, or Null
    sent,               \* what the last run submitted, or Null
    outcome,            \* how the last run, or the last call, ended
    paused, agent       \* the contract's guards; agent: "ours" or "other"

vars == <<stored, view, sent, outcome, paused, agent>>

Assets == 0 .. NumAssets - 1
Entries(ids, weights) == [assetId : ids, bps : weights]

AllocationAssumption ==
    /\ {NumAssets, Total, MaxWeight} \subseteq Nat \ {0}
    /\ DriftBps \in Nat
    /\ Default \in [1 .. NumAssets -> Entries(Assets, 0 .. Total)]

\* What an LLM may answer: an unknown asset, a weight outside the range, an entry too
\* few or too many.
Answers ==
    [1 .. NumAssets -> Entries(-1 .. NumAssets, -1 .. Total + 1)]
        \cup {Tail(Default), Append(Default, Default[1])}

\* What a contract call can carry: any u8 and u32.
CallVectors == UNION {[1 .. n -> Entries(0 .. NumAssets, 0 .. Total)] : n \in 0 .. NumAssets}

-----------------------------------------------------------------------------
\* new Map(entries): of entries with one id the last counts.
Weights(allocation) ==
    [id \in {e.assetId : e \in ToSet(allocation)} |->
        allocation[Max({i \in DOMAIN allocation : allocation[i].assetId = id})].bps]

WeightIn(weights, id) == IF id \in DOMAIN weights THEN weights[id] ELSE 0

\* driftBps
Drift(current, recommended) ==
    LET c == Weights(current)
        r == Weights(recommended)
        Apart(id) == LET d == WeightIn(c, id) - WeightIn(r, id) IN IF d < 0 THEN -d ELSE d
    IN  Max({0} \cup {Apart(id) : id \in DOMAIN c \cup DOMAIN r})

WeightSum(allocation) == FoldLeft(LAMBDA sum, e : sum + e.bps, 0, allocation)

\* allocationMapSchema, of llmDecisionSchema
PassesSchema(allocation) ==
    /\ Len(allocation) = NumAssets
    /\ \A e \in ToSet(allocation) : e.assetId \in Assets /\ e.bps \in 0 .. Total

\* Slip: the sum is left to the contract.
PassesSanity_AnySum(allocation) ==
    /\ Len(allocation) = NumAssets
    /\ Cardinality({e.assetId : e \in ToSet(allocation)}) = NumAssets
    /\ \A e \in ToSet(allocation) : e.assetId \in Assets /\ e.bps \in 0 .. MaxWeight

\* allocationSanityCheck
PassesSanity(allocation) ==
    /\ Len(allocation) = NumAssets
    /\ Cardinality({e.assetId : e \in ToSet(allocation)}) = NumAssets
    /\ \A e \in ToSet(allocation) : e.assetId \in Assets /\ e.bps \in 0 .. MaxWeight
    /\ WeightSum(allocation) = Total

\* What Vault::reallocate asks of an allocation: its sum alone.
ContractAccepts(allocation) == WeightSum(allocation) = Total

\* readVaultStateFromRpc: the vector as it is, the default for none.
RpcView(vector) == IF vector = << >> THEN Default ELSE vector

\* The members of a set of numbers in ascending order.
Ascending(S) ==
    CHOOSE s \in [1 .. Cardinality(S) -> S] : \A i, j \in DOMAIN s : i < j => s[i] < s[j]

\* parseVaultState: the service has an object, an entry per id in ascending order; as
\* long as entries are missing, one is added whose id is the number of entries.
RestView(vector) ==
    LET weights == Weights(vector)
        ids == Ascending(DOMAIN weights)
        entries == [i \in DOMAIN ids |-> [assetId |-> ids[i], bps |-> weights[ids[i]]]]
    IN  entries \o [i \in 1 .. Max({0, NumAssets - Len(ids)}) |->
                        [assetId |-> Len(ids) + i - 1, bps |-> 0]]

-----------------------------------------------------------------------------
Init ==
    /\ stored = << >>
    /\ view = Null
    /\ sent = Null
    /\ outcome = "none"
    /\ paused = FALSE /\ agent = "ours"

Perceive ==
    /\ view = Null
    /\ view' \in {RpcView(stored), RestView(stored), Default}
    /\ outcome' = IF view' = RpcView(stored) THEN "read" ELSE "guessed"
    /\ UNCHANGED <<stored, sent, paused, agent>>

\* The gates, in their order, stop a recommendation or let it be submitted.
Decide ==
    /\ view # Null
    /\ \E answer \in Answers :
          /\ outcome' =
                IF ~PassesSchema(answer) THEN "llm_invalid_output"
                ELSE IF ~PassesSanity(answer) THEN "allocation_out_of_bounds"
                ELSE IF Drift(view, answer) <= DriftBps THEN "drift_below_threshold"
                ELSE IF outcome = "read" THEN "acted" ELSE "acted_on_guess"
          /\ sent' = IF outcome' \in {"acted", "acted_on_guess"} THEN answer ELSE Null
    /\ view' = Null
    /\ UNCHANGED <<stored, paused, agent>>

\* The transaction of the last run is executed, or never: reallocate has its guards for
\* the pause and the caller before it looks at the weights.
Execute ==
    /\ sent # Null
    /\ outcome' = IF paused THEN "reverted_paused"
                  ELSE IF agent # "ours" THEN "reverted_not_agent"
                  ELSE IF ~ContractAccepts(sent) THEN "reverted_sum"
                  ELSE "executed"
    /\ stored' = IF outcome' = "executed" THEN sent ELSE stored
    /\ sent' = Null
    /\ UNCHANGED <<view, paused, agent>>

\* Another agent sends what it likes, whatever of ours is under way.
OtherAgent ==
    /\ view = Null
    /\ agent = "other" /\ ~paused
    /\ \E vector \in CallVectors :
          /\ ContractAccepts(vector)
          /\ stored' = vector
    /\ outcome' = "replaced"
    /\ UNCHANGED <<view, sent, paused, agent>>

\* pause, unpause and set_agent, at any moment.
Owner ==
    /\ \/ paused' = ~paused /\ UNCHANGED agent
       \/ agent' \in {"ours", "other"} \ {agent} /\ UNCHANGED paused
    /\ UNCHANGED <<stored, view, sent, outcome>>

Next == Perceive \/ Decide \/ Execute \/ OtherAgent \/ Owner

Spec == Init /\ [][Next]_vars

-----------------------------------------------------------------------------
TypeOK ==
    /\ stored \in CallVectors
    /\ view = Null \/ Len(view) >= NumAssets \/ ContractAccepts(view)
    /\ sent = Null \/ sent \in [1 .. NumAssets -> Entries(Assets, 0 .. MaxWeight)]
    /\ paused \in BOOLEAN /\ agent \in {"ours", "other"}

\* reallocate may revert what the gates let through for the pause or the caller, which
\* change until it runs, but never for its weights: no gas is spent on an allocation the
\* agent could have known to be wrong (loop.ts:391, vault.rs:319-330).
NeverForItsWeights == outcome # "reverted_sum"

\* What the agent writes gives every asset exactly one weight, none above the cap:
\* the contract would take less (allocation.ts:57).
EachAssetOnce ==
    outcome = "executed" =>
        /\ DOMAIN Weights(stored) = Assets
        /\ Len(stored) = NumAssets
        /\ \A i \in DOMAIN stored : stored[i].bps <= MaxWeight

\* An allocation of its own that the agent reads back from the chain it does not write
\* again in another order: where the contract holds one that would pass the sanity gate,
\* an action on a true reading changes some weight by more than the threshold
\* (loop.ts:424).
ActsOnChange ==
    (outcome = "acted" /\ PassesSanity(RpcView(stored))) =>
        \E id \in Assets :
            LET d == Weights(RpcView(stored))[id] - Weights(sent)[id]
            IN  d > DriftBps \/ -d > DriftBps
=============================================================================
