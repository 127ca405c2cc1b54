----------------------------- MODULE AgentChain -----------------------------
(***************************************************************************)
(* The agent and the vault together: what the agent reads may be 30 s old  *)
(* or made up, what it sends is executed later, in any order, or never,    *)
(* and a background task polls for the outcome of each transaction.        *)
(*                                                                         *)
(* Module AgentLoop has the runs in detail, module Vault the contract.     *)
(* Here a run is: perceive, decide with the drift gate, submit with        *)
(* retries.  Runs are not counted, so the model can be asked whether the   *)
(* vault ends up where the decisions point.                                *)
(*                                                                         *)
(* Bounded: transactions and their watches share a fixed number of slots;  *)
(* a run that finds none free waits.                                       *)
(***************************************************************************)
EXTENDS Integers, FiniteSets

CONSTANTS
    Allocations,        \* allocations more than the drift threshold apart
    EqualWeights,       \* the one the vault starts with, and the placeholder's
    Target,             \* what the LLM recommends once it has settled
    MaxTries,           \* attempts of withRetry
    MaxPolls,           \* polls before the deadline of a watch
    Slots               \* bound: transactions followed at a time

ASSUME ChainAssumption ==
    /\ {EqualWeights, Target} \subseteq Allocations
    /\ MaxTries \in Nat \ {0}
    /\ MaxPolls \in Nat
    /\ Slots # {}

VARIABLES
    pc,                 \* "idle", "decide" or "submit"
    view,               \* the vault state the run decides on
    rec,                \* the allocation it submits
    tries,
    cache,              \* the vault state read less than 30 s ago: at most one
    settled,            \* the LLM recommends Target from now on
    vault,              \* what the contract holds
    txs                 \* by slot: a transaction, what became of it, its watch

vars == <<pc, view, rec, tries, cache, settled, vault, txs>>
run == <<pc, view, rec, tries>>

\* States of the vault as the agent sees them.
Vaults == [alloc : Allocations, paused : BOOLEAN]
Views == [state : Vaults, real : BOOLEAN]

Placeholder == [state |-> [alloc |-> EqualWeights, paused |-> FALSE], real |-> FALSE]

\* exec: the node has it ("pending"), or how it was executed; polls: what is left of
\* the watch; said: what the watch reported.
Free == [alloc |-> EqualWeights, exec |-> "none", polls |-> 0, said |-> "nothing"]

Init ==
    /\ pc = "idle" /\ view = Placeholder /\ rec = EqualWeights /\ tries = 0
    /\ cache = {}
    /\ settled = FALSE
    /\ vault = [alloc |-> EqualWeights, paused |-> FALSE]
    /\ txs = [s \in Slots |-> Free]

(* A run.                                                                  *)

\* getVaultState: the cache, or the chain, or a placeholder.
Perceive ==
    /\ pc = "idle"
    /\ pc' = "decide"
    /\ \/ \E state \in cache :
             /\ view' = [state |-> state, real |-> TRUE]
             /\ UNCHANGED cache
       \/ /\ cache = {}
          /\ view' = [state |-> vault, real |-> TRUE]
          /\ cache' = {vault}
       \/ /\ cache = {}
          /\ view' = Placeholder
          /\ UNCHANGED cache
    /\ UNCHANGED <<rec, tries, settled, vault, txs>>

\* The LLM recommends, and the pause and drift gates compare with what was read.
Decide ==
    /\ pc = "decide"
    /\ \E r \in Allocations :
          /\ settled => r = Target
          /\ \/ /\ ~view.state.paused /\ view.state.alloc # r
                /\ pc' = "submit" /\ rec' = r
             \/ /\ view.state.paused \/ view.state.alloc = r
                /\ pc' = "idle" /\ rec' = EqualWeights
    /\ tries' = 0
    /\ UNCHANGED <<view, cache, settled, vault, txs>>

\* The transaction a run builds: its allocation, entry by entry, for the vault.
Transaction(polls) == [Free EXCEPT !.alloc = rec, !.exec = "pending", !.polls = polls]

\* Attempts left: try again; otherwise the run fails.
RetryOrFail ==
    \/ /\ tries + 1 < MaxTries
       /\ tries' = tries + 1
       /\ UNCHANGED pc
    \/ /\ tries + 1 >= MaxTries
       /\ tries' = 0
       /\ pc' = "idle"

\* submitReallocate, one attempt: accepted and answered, and a watch begins; accepted
\* without an answer, so that nobody watches; refused.
Submit ==
    /\ pc = "submit"
    /\ \/ \E s \in Slots :
             /\ txs[s] = Free
             /\ \/ /\ txs' = [txs EXCEPT ![s] = Transaction(MaxPolls)]
                   /\ pc' = "idle" /\ tries' = 0
                \/ /\ txs' = [txs EXCEPT ![s] = Transaction(0)]
                   /\ RetryOrFail
       \/ RetryOrFail /\ UNCHANGED txs
    /\ UNCHANGED <<view, rec, cache, settled, vault>>

Settle ==
    /\ ~settled
    /\ settled' = TRUE
    /\ UNCHANGED <<run, cache, vault, txs>>

\* Slip: entries of the cache do not expire.
CacheExpires_Never == FALSE /\ UNCHANGED vars

CacheExpires ==
    /\ cache # {}
    /\ cache' = {}
    /\ UNCHANGED <<run, settled, vault, txs>>

(* The watch of a transaction.                                             *)

\* Slip: whatever was executed is confirmed.
StatusOf_AnyExecution(exec) == IF exec = "pending" THEN "pending" ELSE "confirmed"

\* getTransactionStatus, when the node answers.
StatusOf(exec) ==
    CASE exec = "failure" -> "failed"
      [] exec = "success" -> "confirmed"
      [] OTHER -> "pending"

\* confirmInBackground after a pause of 10 s: the node is asked; without an answer
\* the transaction is taken as pending, and at the deadline the watch is given up.
Poll(s) ==
    /\ txs[s].polls > 0
    /\ \E status \in {StatusOf(txs[s].exec), "pending"} :
          txs' = IF status # "pending"
                 THEN [txs EXCEPT ![s].polls = 0, ![s].said = status]
                 ELSE [txs EXCEPT ![s].polls = @ - 1,
                                  ![s].said = IF txs[s].polls = 1 THEN "timeout" ELSE @]
    /\ UNCHANGED <<run, cache, settled, vault>>

(* The chain.                                                              *)

\* The vault executes reallocate, which reverts while it is paused; or the
\* transaction's time to live ends first.
Execute(s) ==
    /\ txs[s].exec = "pending"
    /\ \/ /\ ~vault.paused
          /\ vault' = [vault EXCEPT !.alloc = txs[s].alloc]
          /\ txs' = [txs EXCEPT ![s].exec = "success"]
       \/ /\ vault.paused
          /\ txs' = [txs EXCEPT ![s].exec = "failure"]
          /\ UNCHANGED vault
       \/ /\ txs' = [txs EXCEPT ![s].exec = "expired"]
          /\ UNCHANGED vault
    /\ UNCHANGED <<run, cache, settled>>

\* A transaction that is over, and watched no longer, is forgotten.
Forget(s) ==
    /\ txs[s].exec \in {"success", "failure", "expired"}
    /\ txs[s].polls = 0
    /\ txs' = [txs EXCEPT ![s] = Free]
    /\ UNCHANGED <<run, cache, settled, vault>>

\* The owner pauses the vault or opens it again.
TogglePause ==
    /\ vault' = [vault EXCEPT !.paused = ~@]
    /\ UNCHANGED <<run, cache, settled, txs>>

Next ==
    \/ Perceive
    \/ Decide
    \/ Submit
    \/ Settle
    \/ CacheExpires
    \/ \E s \in Slots : Poll(s) \/ Execute(s) \/ Forget(s)
    \/ TogglePause

Spec == Init /\ [][Next]_vars

RealRead == Perceive /\ view'.real
Sent == Submit /\ \E s \in Slots : txs[s] = Free /\ txs'[s].exec = "pending"
Executed(s) == Execute(s) /\ txs'[s].exec # "expired"

\* The timer goes on and every step of a run is taken; the chain is read and written
\* again and again, though any one read, submission or transaction may fail.
FairSpec ==
    /\ Spec
    /\ WF_vars(Perceive) /\ WF_vars(Decide) /\ WF_vars(Submit)
    /\ WF_vars(CacheExpires)
    /\ SF_vars(RealRead) /\ SF_vars(Sent)
    /\ \A s \in Slots : WF_vars(Poll(s)) /\ SF_vars(Executed(s)) /\ WF_vars(Forget(s))

-----------------------------------------------------------------------------
TypeOK ==
    /\ pc \in {"idle", "decide", "submit"}
    /\ view \in Views
    /\ rec \in Allocations
    /\ tries \in 0 .. MaxTries - 1
    /\ cache \subseteq Vaults /\ Cardinality(cache) <= 1
    /\ vault \in Vaults
    /\ txs \in [Slots -> [alloc : Allocations,
                          exec : {"none", "pending", "success", "failure", "expired"},
                          polls : 0 .. MaxPolls,
                          said : {"nothing", "confirmed", "failed", "timeout"}]]

\* What a watch reports is what the chain did: confirmed only if the vault was
\* reallocated, failed only if it refused; otherwise it says that it gave up
\* (loop.ts:485-519, casper-tx-client.ts:277-293).
WatchesTellTheTruth ==
    \A s \in Slots :
        /\ txs[s].said = "confirmed" => txs[s].exec = "success"
        /\ txs[s].said = "failed" => txs[s].exec = "failure"

\* No watch outlives its deadline, whatever the node answers (loop.ts:484).
WatchesEnd == \A s \in Slots : txs[s].polls > 0 ~> txs[s].polls = 0

\* A watch ends, and in the truth: what it comes to say is what the chain did.
WatchesEndInTruth == [](TypeOK /\ WatchesTellTheTruth) /\ WatchesEnd

\* The agent brings the vault where its decisions point: once the LLM recommends one
\* allocation and the vault is open, the vault comes to hold it for good, although
\* reads are stale or made up, submissions are lost or doubled, and a transaction of
\* an earlier decision may still overwrite a later one for a while.
VaultFollowsDecisions ==
    <>[](settled /\ ~vault.paused) => <>[](vault.alloc = Target)
=============================================================================
