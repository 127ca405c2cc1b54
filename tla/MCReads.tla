------------------------------- MODULE MCReads -------------------------------
(* Reads on small instances for TLC.  Its three parts share no state, so a    *)
(* behaviour runs one.                                                        *)
EXTENDS Reads

VARIABLE part                               \* what this behaviour runs

codecVars == <<fields, state, answer>>
ruleVars == <<stored, view, submitted, outcome, paused, agent>>

\* Bytes of four values, so that a number of four bytes ends at 255, one of eight at 65535.
MCAccounts == {<<0, 1>>, <<3, 0>>}
MCProfiles == {[score |-> 65535, totalDecisions |-> 1, totalCorrect |-> 0, registeredAt |-> 7]}
MCVectors == { << >>, <<[assetId |-> 3, bps |-> 0], [assetId |-> 1, bps |-> 100]>> }

\* Two assets and a total of four: every vector of up to three entries, with unknown
\* assets and weights out of range.
MCDefault == <<[assetId |-> 0, bps |-> 2], [assetId |-> 1, bps |-> 2]>>

\* With the policy of every caller, and the other one (the default) for a reputation.
MCInit ==
    /\ part \in {"reads", "codec", "rules"}
    /\ Init /\ C!Init /\ A!Init
    /\ kind = "vault" => policy = "fast-fail"
    /\ part # "reads" => kind = "vault"

\* Of the fields of a read, and of the one before, so many are left to their defaults.
MaxMissing == 1

Missing(ways) == Cardinality({i \in DOMAIN ways : ways[i] # "read"})

FewMissing == Missing(how') + (IF step' > 0 THEN Missing(result'.how) ELSE 0) <= MaxMissing

\* A read begins after one that no block came into, or that the node did not answer.
PlainBefore == (step = 0 /\ step' = 1) => \A i \in DOMAIN result.at : result.at[i] = result.from

ReadsStep ==
    /\ part = "reads"
    /\ Next /\ FewMissing /\ PlainBefore
    /\ UNCHANGED <<part, codecVars, ruleVars>>

\* Of the nine fields so many are written, one more than it takes for two to collide.
MaxFields == 3

Decodes ==
    /\ part = "codec"
    /\ C!Next /\ Cardinality(DOMAIN fields') <= MaxFields
    /\ UNCHANGED <<part, vars, ruleVars>>

Decides == part = "rules" /\ A!Next /\ UNCHANGED <<part, vars, codecVars>>

MCNext == ReadsStep \/ Decodes \/ Decides

MCSpec == MCInit /\ [][MCNext]_<<part, vars, codecVars, ruleVars>>
=============================================================================
