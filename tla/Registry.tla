------------------------------ MODULE Registry ------------------------------
(***************************************************************************)
(* The reputation registry (contracts/aegis-contracts/src/registry.rs): a  *)
(* profile per agent, created once by the owner with score 0 and moved by  *)
(* signed deltas that stop at 0 and at the largest u64.                    *)
(*                                                                         *)
(* One action per entry point; a reverted call is a stuttering step.       *)
(* `gained` and `lost` are history: what the updates of an agent added up  *)
(* to had the score no limits.                                             *)
(***************************************************************************)
EXTENDS Integers

CONSTANTS
    Agents,             \* addresses the owner may register
    Accounts,           \* accounts that call the contract
    Owner,
    MaxU64,             \* largest u64
    Deltas,             \* the i64 deltas explored
    MaxBlockTime,       \* bound: last block time explored
    MaxHistory          \* bound: largest sum of deltas explored, each way

ASSUME RegistryAssumption ==
    /\ Owner \in Accounts
    /\ MaxU64 \in Nat \ {0}
    /\ Deltas \subseteq Int
    /\ MaxBlockTime \in Nat
    /\ MaxHistory \in Nat

VARIABLES
    registered,         \* the flags, a Mapping of their own
    profiles,           \* the profiles, one where there is none included
    blockTime,
    gained, lost

vars == <<registered, profiles, blockTime, gained, lost>>

U64 == 0 .. MaxU64

NoProfile == [score |-> 0, totalDecisions |-> 0, totalCorrect |-> 0,
              registeredAt |-> -1]

SaturatingAdd(a, b) == IF a + b > MaxU64 THEN MaxU64 ELSE a + b
SaturatingSub(a, b) == IF b > a THEN 0 ELSE a - b

\* Slips: the score wraps around at both ends; the counter of decisions wraps
\* around, the counter of correct ones does not.
Applied_ScoreWraps(profile, delta) ==
    [profile EXCEPT !.score = (@ + delta) % (MaxU64 + 1),
                    !.totalDecisions = SaturatingAdd(@, 1),
                    !.totalCorrect = IF delta > 0 THEN SaturatingAdd(@, 1) ELSE @]
Applied_DecisionsWrap(profile, delta) ==
    [profile EXCEPT !.score = IF delta >= 0 THEN SaturatingAdd(@, delta)
                                            ELSE SaturatingSub(@, -delta),
                    !.totalDecisions = (@ + 1) % (MaxU64 + 1),
                    !.totalCorrect = IF delta > 0 THEN SaturatingAdd(@, 1) ELSE @]

\* The profile after an update.
Applied(profile, delta) ==
    [profile EXCEPT !.score = IF delta >= 0 THEN SaturatingAdd(@, delta)
                                            ELSE SaturatingSub(@, -delta),
                    !.totalDecisions = SaturatingAdd(@, 1),
                    !.totalCorrect = IF delta > 0 THEN SaturatingAdd(@, 1) ELSE @]

-----------------------------------------------------------------------------
Init ==
    /\ registered = [a \in Agents |-> FALSE]
    /\ profiles = [a \in Agents |-> NoProfile]
    /\ blockTime = 0
    /\ gained = [a \in Agents |-> 0]
    /\ lost = [a \in Agents |-> 0]

RegisterAgent(caller, agent) ==
    /\ caller = Owner
    /\ ~registered[agent]
    /\ profiles' = [profiles EXCEPT ![agent] = [NoProfile EXCEPT !.registeredAt = blockTime]]
    /\ registered' = [registered EXCEPT ![agent] = TRUE]
    /\ UNCHANGED <<blockTime, gained, lost>>

UpdateReputation(caller, agent, delta) ==
    /\ caller = Owner
    /\ registered[agent]
    /\ profiles' = [profiles EXCEPT ![agent] = Applied(@, delta)]
    /\ gained' = [gained EXCEPT ![agent] = IF delta > 0 THEN @ + delta ELSE @]
    /\ lost' = [lost EXCEPT ![agent] = IF delta < 0 THEN @ - delta ELSE @]
    /\ UNCHANGED <<registered, blockTime>>

NextBlock ==
    /\ blockTime < MaxBlockTime
    /\ blockTime' = blockTime + 1
    /\ UNCHANGED <<registered, profiles, gained, lost>>

Next ==
    \/ \E c \in Accounts, a \in Agents :
         \/ RegisterAgent(c, a)
         \/ \E delta \in Deltas :
                /\ gained[a] + delta <= MaxHistory
                /\ lost[a] - delta <= MaxHistory
                /\ UpdateReputation(c, a, delta)
    \/ NextBlock

Spec == Init /\ [][Next]_vars

-----------------------------------------------------------------------------
(* Properties.                                                             *)

\* Scores and counters are u64 values; a flag and a profile for every agent.
TypeOK ==
    /\ registered \in [Agents -> BOOLEAN]
    /\ profiles \in [Agents -> [score : U64, totalDecisions : U64,
                                totalCorrect : U64, registeredAt : Int]]
    /\ blockTime \in Nat
    /\ gained \in [Agents -> Nat]
    /\ lost \in [Agents -> Nat]

\* The flag and the profile, two mappings, agree: get_reputation of a registered
\* agent finds a profile, and a profile is found for no other.
FlagMeansProfile ==
    \A a \in Agents : registered[a] <=> profiles[a].registeredAt >= 0

\* An accuracy computed from the counters is a fraction, at the limit of u64 too.
CorrectAtMostDecisions ==
    \A a \in Agents : profiles[a].totalCorrect <= profiles[a].totalDecisions

\* Clamping at 0 forgives, clamping at the limit forgets: the score never
\* exceeds what was gained, and is at least the balance of gains and losses as
\* long as the gains fit a u64.
ScoreBetweenBalanceAndGains ==
    \A a \in Agents :
        /\ profiles[a].score <= gained[a]
        /\ gained[a] <= MaxU64 => profiles[a].score >= gained[a] - lost[a]
=============================================================================
