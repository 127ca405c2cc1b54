------------------------------ MODULE RpcRead ------------------------------
(***************************************************************************)
(* How the agent's read client puts a vault state or a reputation together *)
(* (casper-rpc-read.ts, casper-rpc-retry.ts, casper-read-client.ts): one   *)
(* JSON-RPC call after another, each answered from the latest block of its *)
(* own moment, each retried by a policy; then a REST fallback, a           *)
(* placeholder, a cache and a rate-limit flag around it.                   *)
(*                                                                         *)
(* An action is one answer of the node, or of the REST API; blocks land,   *)
(* and the cache ages, between any two of them.                            *)
(*                                                                         *)
(* Abstracted: a value is the height of the block that wrote it, so a torn *)
(* state shows; balance and share supply are written by the same calls and *)
(* so are allocation and timestamp (module Vault).  A named key that the   *)
(* contract has not got spares the calls that need it, whose defaults then *)
(* stand, as after an answer without a value.  What the REST API says is   *)
(* not compared.                                                           *)
(***************************************************************************)
EXTENDS Integers, Sequences, FiniteSets

CONSTANTS
    MaxTries,           \* attempts of withRpcRetry
    MaxHeight           \* bound: blocks explored

ASSUME RpcAssumption == MaxTries \in Nat \ {0} /\ MaxHeight \in Nat

VARIABLES
    kind,               \* what this behaviour reads: "vault" or "reputation"
    policy,             \* RpcReadPolicy: "retry" or "fast-fail"
    blocks,             \* the contract's state after each block
    \* a read in progress
    step,               \* the call being made, 0 when no read is in progress
    inner, outer,       \* failed attempts of the call, and of the call around it
    from,               \* height when the read began
    at,                 \* height at which each call was answered
    got,                \* what each call returned
    how,                \* whether it was read, or why a default stands for it
    sent,               \* requests already sent for the current call
    limitedAt,          \* requests sent in this read since one was answered 429
    \* the read client
    stage,              \* "idle", "rpc" or "rest"
    failedBy,           \* how the last RPC read failed, and at which call
    result,             \* what getVaultState or getReputation last returned
    cache,              \* results cached and still fresh: at most one
    perceiveRateLimited

read == <<step, inner, outer, from, at, got, how, sent, limitedAt>>
client == <<stage, failedBy, result, cache, perceiveRateLimited>>
vars == <<kind, policy, blocks, read, client>>

-----------------------------------------------------------------------------
(* The contract, as the node shows it.                                     *)

\* Nothing is stored under a key that was never written.
Absent == -1

\* init writes every field of the vault; only a profile may be missing.
FreshVault == [funds |-> 0, alloc |-> 0, agent |-> 0, paused |-> FALSE]

FreshProfile == [profile |-> Absent]

Height == Len(blocks) - 1
Latest == blocks[Len(blocks)]

\* The state fields each call reads; the first two resolve the contract.
VaultCalls == <<"package", "contract", "balance", "supply",
                "allocation", "agent", "paused", "timestamp">>
ReputationCalls == <<"package", "contract", "profile">>

Calls == IF kind = "vault" THEN VaultCalls ELSE ReputationCalls

\* Fields of the `state` dictionary: readStateField answers null for a missing item.
StateFields == {"allocation", "agent", "paused", "timestamp", "profile"}

\* What the node answers for a call in a state of the contract.
Stored(call, state) ==
    CASE call \in {"package", "contract"} -> 0
      [] call \in {"balance", "supply"} -> state.funds
      [] call \in {"allocation", "timestamp"} -> state.alloc
      [] call = "agent" -> state.agent
      [] call = "paused" -> IF state.paused THEN 1 ELSE 0
      [] call = "profile" -> state.profile

\* A block with one call of the contract in it.
Blocks(h) ==
    IF kind = "vault"
    THEN { [Latest EXCEPT !.funds = h], [Latest EXCEPT !.alloc = h],
           [Latest EXCEPT !.agent = h], [Latest EXCEPT !.paused = ~@] }
    ELSE { [Latest EXCEPT !.profile = h] }

NewBlock ==
    /\ Height < MaxHeight
    /\ \E state \in Blocks(Height + 1) : blocks' = Append(blocks, state)
    /\ UNCHANGED <<read, client>>

-----------------------------------------------------------------------------
(* The result of a call of the read client.                                *)

\* source: where it comes from; fields: what an RPC read found, by call, and how.
NoResult == [source |-> "none", fields |-> << >>, how |-> << >>, at |-> << >>, from |-> 0]

NoFailure == [err |-> "none", call |-> "none"]

Placeholder == [NoResult EXCEPT !.source = "placeholder"]

Rest == [NoResult EXCEPT !.source = "rest"]

Init ==
    /\ kind \in {"vault", "reputation"} /\ policy \in {"retry", "fast-fail"}
    /\ blocks = << IF kind = "vault" THEN FreshVault ELSE FreshProfile >>
    /\ step = 0 /\ inner = 0 /\ outer = 0 /\ from = 0
    /\ at = << >> /\ got = << >> /\ how = << >>
    /\ sent = 0 /\ limitedAt = 0
    /\ stage = "idle"
    /\ failedBy = NoFailure
    /\ result = NoResult
    /\ cache = {}
    /\ perceiveRateLimited = FALSE

\* The call goes back to its caller with a value, which may be kept.
Return(value, keep) ==
    /\ stage' = "idle"
    /\ result' = value
    /\ cache' = IF keep THEN {value} ELSE cache

\* getVaultState and getReputation up to the first await.
Begin ==
    /\ stage = "idle"
    /\ \/ /\ \E value \in cache : Return(value, FALSE)
          /\ UNCHANGED <<read, failedBy>>
       \/ /\ cache = {}
          /\ stage' = "rpc"
          /\ step' = 1
          /\ from' = Height
          /\ inner' = 0 /\ outer' = 0 /\ sent' = 0 /\ limitedAt' = 0
          /\ at' = << >> /\ got' = << >> /\ how' = << >>
          /\ failedBy' = NoFailure
          /\ UNCHANGED <<result, cache>>
    /\ UNCHANGED <<blocks, perceiveRateLimited>>

-----------------------------------------------------------------------------
(* One request and its answer.                                             *)

Errors == {"429", "notFound", "error"}

\* Slip: transient errors are retried twice.
TriesFor_ThreeTransient(err) ==
    IF policy = "retry" THEN MaxTries ELSE IF err = "429" THEN 1 ELSE 3

\* withRpcCall: how often a call that ends in this error is attempted.
TriesFor(err) ==
    IF policy = "retry" THEN MaxTries ELSE IF err = "429" THEN 1 ELSE 2

\* resolveStateUref wraps resolveContractInstanceKey, which wraps its own call.
Nested == kind = "reputation" /\ step = 1

\* The read has all its fields: the vault is returned whole, a reputation may turn
\* out to be null, on which the client goes on to the REST API.
Complete(fields, ways, moments) ==
    LET value == [source |-> "rpc", fields |-> fields, how |-> ways, at |-> moments, from |-> from]
    IN  \/ /\ kind = "reputation" /\ fields[3] = Absent
           /\ stage' = "rest"
           /\ UNCHANGED <<result, cache>>
        \/ /\ ~(kind = "reputation" /\ fields[3] = Absent)
           /\ Return(value, TRUE)

\* A call is over: its value is kept and the next one is made.
Answered(value, way) ==
    /\ got' = Append(got, value)
    /\ how' = Append(how, way)
    /\ at' = Append(at, Height)
    /\ inner' = 0 /\ outer' = 0 /\ sent' = 0
    /\ \/ /\ step < Len(Calls)
          /\ step' = step + 1
          /\ UNCHANGED <<stage, result, cache>>
       \/ /\ step = Len(Calls)
          /\ step' = 0
          /\ Complete(got', how', at')
    /\ UNCHANGED <<from, failedBy, perceiveRateLimited>>

\* The read as a whole fails.  A 429 raises the flag and a placeholder is returned;
\* anything else goes to the REST API.
ReadFails(err) ==
    /\ step' = 0
    /\ inner' = 0 /\ outer' = 0 /\ sent' = 0
    /\ failedBy' = [err |-> err, call |-> Calls[step]]
    /\ \/ /\ err = "429"
          /\ perceiveRateLimited' = TRUE
          /\ Return(Placeholder, FALSE)
       \/ /\ err # "429"
          /\ stage' = "rest"
          /\ UNCHANGED <<result, cache, perceiveRateLimited>>
    /\ UNCHANGED <<from, at, got, how>>

\* Slip: whatever error a state field ends in, its default is used.
GiveUpCall_AnyError(err) ==
    \/ /\ Calls[step] \in StateFields
       /\ Answered(Absent, err)
    \/ /\ Calls[step] \notin StateFields
       /\ ReadFails(err)

\* The attempts are used up.  A state field is null, and its default stands, after an
\* error that is taken for a missing item (isNotFoundError: any failed query); every
\* other error is thrown out of the read.
GiveUpCall(err) ==
    \/ /\ Calls[step] \in StateFields /\ err = "notFound"
       /\ Answered(Absent, err)
    \/ /\ ~(Calls[step] \in StateFields /\ err = "notFound")
       /\ ReadFails(err)

\* The call throws: the one around it tries again, or lets go too.
Thrown(err) ==
    \/ /\ Nested /\ outer + 1 < TriesFor(err)
       /\ inner' = 0
       /\ outer' = outer + 1
       /\ sent' = sent + 1
       /\ UNCHANGED <<step, from, at, got, how, client>>
    \/ /\ ~(Nested /\ outer + 1 < TriesFor(err))
       /\ GiveUpCall(err)

\* One attempt has failed: try again, or throw.
Fail(err) ==
    \/ /\ inner + 1 < TriesFor(err)
       /\ inner' = inner + 1
       /\ sent' = sent + 1
       /\ UNCHANGED <<step, outer, from, at, got, how, client>>
    \/ /\ inner + 1 >= TriesFor(err)
       /\ Thrown(err)

\* An answer without the value asked for, or with one that cannot be decoded: the
\* default stands, but a package without a version is an error.
Empty ==
    \/ /\ Calls[step] = "package"
       /\ Thrown("error")
    \/ /\ Calls[step] \notin {"package", "contract"}
       /\ Answered(Absent, "empty")

\* The node answers with what is stored, or with nothing of use, or the call fails:
\* with "not found" where nothing is stored, and for other reasons as well.
Request ==
    /\ step > 0
    /\ LET stored == Stored(Calls[step], Latest) IN
       \/ /\ \/ stored # Absent /\ Answered(stored, "read")
             \/ Empty
          /\ limitedAt' = limitedAt + (IF limitedAt > 0 THEN 1 ELSE 0)
       \/ \E err \in Errors :
             /\ Fail(err)
             /\ limitedAt' = IF err = "429" \/ limitedAt > 0 THEN limitedAt + 1 ELSE 0
    /\ UNCHANGED blocks

-----------------------------------------------------------------------------
(* Around the read.                                                        *)

\* Slip: the placeholder is cached as well.
RestAnswer_CachesPlaceholder ==
    /\ stage = "rest"
    /\ \/ Return(Rest, TRUE)
       \/ Return(Placeholder, TRUE)
    /\ UNCHANGED <<blocks, read, failedBy, perceiveRateLimited>>

\* The REST API answers within its ten seconds and is believed, or does not.
RestAnswer ==
    /\ stage = "rest"
    /\ \/ Return(Rest, TRUE)
       \/ Return(Placeholder, FALSE)
    /\ UNCHANGED <<blocks, read, failedBy, perceiveRateLimited>>

CacheExpires ==
    /\ cache # {}
    /\ cache' = {}
    /\ UNCHANGED <<blocks, read, stage, failedBy, result, perceiveRateLimited>>

\* consumePerceiveRateLimited, called by the loop between two reads.
ConsumeFlag ==
    /\ stage = "idle"
    /\ perceiveRateLimited
    /\ perceiveRateLimited' = FALSE
    /\ UNCHANGED <<blocks, read, stage, failedBy, result, cache>>

Next ==
    /\ \/ NewBlock
       \/ Begin
       \/ Request
       \/ RestAnswer
       \/ CacheExpires
       \/ ConsumeFlag
    /\ UNCHANGED <<kind, policy>>

Spec == Init /\ [][Next]_vars

-----------------------------------------------------------------------------
\* The most attempts the policy allows: of one call, and of the call around it.
MostTries == IF policy = "retry" THEN MaxTries ELSE 2

Heights == 0 .. MaxHeight
Found == Heights \cup {0, 1} \cup {Absent}

\* How a field came about: read, or a default for want of a value, or after an error.
Ways == {"read", "empty"} \cup Errors

Results == [source : {"none", "rpc", "rest", "placeholder"}, fields : Seq(Found),
            how : Seq(Ways), at : Seq(Heights), from : Heights]

TypeOK ==
    /\ step \in 0 .. Len(Calls)
    /\ inner \in 0 .. MostTries - 1
    /\ outer \in 0 .. MostTries - 1
    /\ from \in Heights
    /\ at \in Seq(Heights)
    /\ got \in Seq(Found)
    /\ how \in Seq(Ways)
    /\ stage = "rpc" <=> step > 0
    /\ failedBy.err \in Errors \cup {"none"}
    /\ result \in Results
    /\ cache \subseteq Results /\ Cardinality(cache) <= 1
    /\ perceiveRateLimited \in BOOLEAN

\* A default stands for a field when the node had nothing to say, or said something
\* that is taken for that; never because the node refused or could not be reached.
MayStand(i, way) == way = "empty" \/ (way = "notFound" /\ Calls[i] \in StateFields)

\* What an RPC read returns was true, field by field, at moments in the order of the
\* calls and within the read, or is a default that may stand: a block in the middle
\* shows in the later fields only, and a read no block interrupts, and no answer
\* fails, is the contract's state (readVaultStateFromRpc reads each field from the
\* latest block of its moment).
FieldsWereTrue ==
    result.source = "rpc" =>
        \A i \in DOMAIN result.fields :
           /\ \/ /\ result.how[i] = "read"
                 /\ result.fields[i] = Stored(Calls[i], blocks[result.at[i] + 1])
              \/ MayStand(i, result.how[i]) /\ result.fields[i] = Absent
           /\ result.at[i] >= IF i = 1 THEN result.from ELSE result.at[i - 1]

\* A vault that was paused for the whole of a read is returned as open only by the
\* default: when the answer for `paused` held nothing, or was taken for a missing item.
PauseNoticed ==
    (kind = "vault" /\ result.source = "rpc") =>
        \/ result.fields[7] = 1
        \/ result.fields[7] = Absent /\ MayStand(7, result.how[7])
        \/ \E h \in result.from .. result.at[7] : ~blocks[h + 1].paused

\* Requests per call: as many as the policy has attempts; and, where one loop runs
\* within another (the contract's key of a reputation read), as many as the square of
\* that, which under fast-fail is four where the policy speaks of one retry.
AttemptsBounded ==
    step > 0 => sent < IF Nested THEN MostTries * MostTries ELSE MostTries

\* casper-rpc-retry.ts: "no retry on 429": after one, the read sends nothing more,
\* although the call may be wrapped twice, and what it returns is a placeholder,
\* never an answer of the REST API.
LimitEndsTheRead ==
    policy = "fast-fail" =>
        /\ limitedAt <= 1
        /\ (limitedAt = 1 /\ stage = "idle" /\ cache = {}) => result = Placeholder
        /\ limitedAt = 1 => stage # "rest"

\* Under either policy a read that ends in a 429 returns its placeholder with the flag
\* raised, for the loop to find.
LimitIsFlagged ==
    [][(step > 0 /\ step' = 0 /\ failedBy'.err = "429")
          => perceiveRateLimited' /\ result' = Placeholder]_vars

\* What a read says is true or a default that may stand: a field that was read is what
\* the contract stored at a moment of the read, in the order of the calls; a default
\* never hides a refusal or a failed connection; and a vault paused during a whole read
\* is returned as open by a default only (casper-rpc-read.ts:245-280, 381-490).
ReadIsTrue == TypeOK /\ FieldsWereTrue /\ PauseNoticed

\* A call sends no more requests than its policy has attempts, their square where two
\* retry loops are nested; after a 429 a fast-fail read sends nothing more; and a read
\* that a 429 ends returns a placeholder and raises the flag (casper-rpc-retry.ts:40-78,
\* casper-rpc-read.ts:326-340, casper-read-client.ts:140-165).
RetriesEnd == [](AttemptsBounded /\ LimitEndsTheRead) /\ LimitIsFlagged

\* What the agent loop assumes of its read client (AgentLoop, ReadVault).
AsReadClient ==
    INSTANCE ReadClient WITH
        busy <- stage # "idle",
        fresh <- cache # {},
        limited <- perceiveRateLimited,
        answer <- CASE result.source = "none" -> "none"
                    [] result.source = "placeholder" -> "placeholder"
                    [] OTHER -> "read"

ImplementsReadClient == AsReadClient!Spec
=============================================================================
