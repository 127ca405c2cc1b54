-------------------------------- MODULE Reads --------------------------------
(***************************************************************************)
(* What the agent reads and what it makes of it: the RPC reads of a vault  *)
(* state and of a reputation (RpcRead), the bytes they decode (OdraCodec)  *)
(* and the allocation rules they are compared by (AllocationRules).        *)
(***************************************************************************)
EXTENDS RpcRead

CONSTANTS
    Base, HashBytes, Accounts, Profiles, Vectors, Times,    \* OdraCodec
    NumAssets, Total, MaxWeight, DriftBps, Default,         \* AllocationRules
    Null

VARIABLES
    fields, state, answer,                  \* OdraCodec
    stored, view, submitted, outcome,       \* AllocationRules
    paused, agent

C == INSTANCE OdraCodec

A == INSTANCE AllocationRules WITH sent <- submitted

ASSUME ReadsAssumption == C!CodecAssumption /\ A!AllocationAssumption

\* The reader finds and decodes what the contract has stored under the fields' numbers,
\* and bytes that end too early are read as null, never as a smaller number.
DecodingIsTrue == C!TypeOK /\ C!ReadsWhatWasStored /\ C!CutValuesAreNull

\* The agent's rules and the contract's agree: reallocate reverts what the gates let
\* through for the pause or the caller only, never for its weights; what it writes gives
\* every asset one weight within the cap; and a run that submits on a true reading of an
\* allocation within the rules changes some weight by more than the threshold
\* (loop.ts:391-430, vault.rs:319-343).
RulesAgree == A!TypeOK /\ A!NeverForItsWeights /\ A!EachAssetOnce /\ A!ActsOnChange
=============================================================================
