----------------------------- MODULE ReadClient -----------------------------
(***************************************************************************)
(* What the agent loop may rely on when it calls getVaultState or          *)
(* getReputation (CasperReadClient): a fresh cached value is returned at   *)
(* once; otherwise a call is made, and it ends in a value that was read    *)
(* and is cached, or in a placeholder that is not cached, and only a       *)
(* placeholder may come with the rate-limit flag raised.                   *)
(***************************************************************************)
VARIABLES
    busy,               \* a call is in progress
    fresh,              \* a cached value has not expired
    limited,            \* perceiveRateLimited
    answer              \* what the last call returned

vars == <<busy, fresh, limited, answer>>

Init ==
    /\ busy = FALSE
    /\ fresh = FALSE
    /\ limited = FALSE
    /\ answer = "none"

FromCache ==
    /\ ~busy /\ fresh
    /\ answer' = "read"
    /\ UNCHANGED <<busy, fresh, limited>>

Call ==
    /\ ~busy /\ ~fresh
    /\ busy' = TRUE
    /\ UNCHANGED <<fresh, limited, answer>>

Read ==
    /\ busy
    /\ busy' = FALSE
    /\ fresh' = TRUE
    /\ answer' = "read"
    /\ UNCHANGED limited

StandIn ==
    /\ busy
    /\ busy' = FALSE
    /\ answer' = "placeholder"
    /\ limited' \in {limited, TRUE}
    /\ UNCHANGED fresh

Expire ==
    /\ fresh
    /\ fresh' = FALSE
    /\ UNCHANGED <<busy, limited, answer>>

Consume ==
    /\ ~busy /\ limited
    /\ limited' = FALSE
    /\ UNCHANGED <<busy, fresh, answer>>

Next == FromCache \/ Call \/ Read \/ StandIn \/ Expire \/ Consume

Spec == Init /\ [][Next]_vars
=============================================================================
