----------------------------- MODULE AgentLoop -----------------------------
(***************************************************************************)
(* The agent process (packages/agent): a timer and a trigger port start    *)
(* runs of perceive -> decide -> act, one at a time; a run reads the vault *)
(* and the reputation through a cache, asks the oracle and the LLM, passes *)
(* the gates, submits a reallocate transaction with retries and writes its *)
(* decision to the log.                                                    *)
(*                                                                         *)
(* JavaScript runs to the next await, so an action is the code between two *)
(* awaits, and everything else may happen between two actions: a tick, a   *)
(* trigger, a cache entry ageing, a crash.  A run is known by its number   *)
(* `r`, never reused; `iteration`, the code's own counter, restarts with   *)
(* the process.  This is the online configuration (no offline demo, the    *)
(* contract hashes and the key are set).                                   *)
(*                                                                         *)
(* Abstracted: the vault answers any state (module Vault says which); its  *)
(* balance is above the minimum or not, which with `paused` is one flag;   *)
(* two allocations that differ have drifted; the zod, sanity and           *)
(* confidence gates only say whether the LLM's answer is usable.           *)
(* Left out: what a background confirmation prints, since it changes no    *)
(* state, and what a reputation epoch does after it was spawned.           *)
(***************************************************************************)
EXTENDS Integers, Sequences, FiniteSets

CONSTANTS
    Allocations,        \* allocations the LLM may recommend and the vault hold
    EqualWeights,       \* the allocation of the placeholder state
    MaxTries,           \* attempts of withRetry
    Epochs,             \* reputationUpdateEpochs
    MaxRuns             \* bound: runs explored

ASSUME AgentAssumption ==
    /\ EqualWeights \in Allocations
    /\ MaxTries \in Nat \ {0}
    /\ Epochs \in Nat \ {0}
    /\ MaxRuns \in Nat

VARIABLES
    \* the agent process
    iteration,          \* AgentLoop.iteration
    running,            \* AgentLoop.running
    cooldown,           \* now < rateLimitedUntil
    rateLimited,        \* CasperReadClient.perceiveRateLimited
    cache,              \* the vault state cached and still fresh: at most one
    triggerBlocked,     \* less than MIN_INTERVAL_MS since the last trigger
    runs,               \* what each run is doing and what it holds
    started,            \* runs started so far, over all lives of the process
    epochs,             \* runs that spawned a reputation epoch
    \* outside it
    log,                \* decisions.jsonl
    txs                 \* transactions the node has accepted

client  == <<rateLimited, cache>>
outside == <<log, txs>>
vars == <<iteration, running, cooldown, client, triggerBlocked, runs, started,
          epochs, outside>>

RunIds == 1 .. MaxRuns

\* A vault state as a run holds it: whether it lets the agent act, and whether
\* it was read or made up.
Views == [alloc : Allocations, open : BOOLEAN, real : BOOLEAN]

ReadViews == {view \in Views : view.real}

Placeholder == [alloc |-> EqualWeights, open |-> TRUE, real |-> FALSE]

\* Where a run is: at the call it awaits, or appending to the log, or over.
Active == {"vault", "reputation", "oracle", "decide", "submit"}
Stages == {"new"} \cup Active \cup {"log", "done", "lost"}

Outcomes == {"none", "acted", "gate", "rate limited", "error"}

Runs == [pc : Stages, iteration : Nat, view : Views, limited : BOOLEAN,
         oracleOk : BOOLEAN, rec : Allocations, tries : Nat, outcome : Outcomes]

NewRun == [pc |-> "new", iteration |-> 0, view |-> Placeholder, limited |-> FALSE,
           oracleOk |-> FALSE, rec |-> EqualWeights, tries |-> 0, outcome |-> "none"]

\* A run that is over holds nothing any more.
Over(pc) == [NewRun EXCEPT !.pc = pc]

\* `tx` is the attempt whose hash the entry carries, 0 for null.
Entries == [run : RunIds, outcome : Outcomes, tx : Nat]

Transactions == [run : RunIds, try : Nat, alloc : Allocations]

-----------------------------------------------------------------------------
Init ==
    /\ iteration = 0
    /\ running = FALSE
    /\ cooldown = FALSE
    /\ rateLimited = FALSE
    /\ cache = {}
    /\ triggerBlocked = FALSE
    /\ runs = [r \in RunIds |-> NewRun]
    /\ started = 0
    /\ epochs = {}
    /\ log = << >>
    /\ txs = {}

(* Starting a run.                                                         *)

\* Slips: a guard of tick and runOnce is missing.
MayStart_WhileRunning == ~cooldown
MayStart_InCooldown == ~running

\* The guards tick and runOnce share.
MayStart == ~running /\ ~cooldown

\* iterate() up to its first await: a fresh cached vault state is taken as read,
\* and the run is already asking for the reputation.
Iterate ==
    /\ MayStart
    /\ started < MaxRuns
    /\ started' = started + 1
    /\ running' = TRUE
    /\ iteration' = iteration + 1
    /\ \/ /\ cache = {}
          /\ runs' = [runs EXCEPT ![started'].pc = "vault",
                                  ![started'].iteration = iteration']
       \/ \E view \in cache :
             runs' = [runs EXCEPT ![started'].pc = "reputation",
                                  ![started'].iteration = iteration',
                                  ![started'].view = view]

Tick ==
    /\ Iterate
    /\ UNCHANGED <<cooldown, client, triggerBlocked, epochs, outside>>

\* POST /trigger.  It answers 202 and holds back the next trigger even when
\* runOnce then declines because a run is active.
Trigger ==
    /\ ~triggerBlocked
    /\ ~cooldown
    /\ triggerBlocked' = TRUE
    /\ \/ Iterate
       \/ ~MayStart /\ UNCHANGED <<started, running, iteration, runs>>
    /\ UNCHANGED <<cooldown, client, epochs, outside>>

(* Perceive.                                                               *)

\* Slip: the placeholder goes through setCached like a value read.
ReadVault_CachesPlaceholder(r) ==
    /\ runs[r].pc = "vault"
    /\ \E view \in ReadViews \cup {Placeholder} :
          /\ runs' = [runs EXCEPT ![r].pc = "reputation", ![r].view = view]
          /\ cache' = {view}
    /\ UNCHANGED <<iteration, running, cooldown, rateLimited, triggerBlocked, started,
                   epochs, outside>>

\* getVaultState.  The node or the REST API answers and the answer is cached, or
\* the node answers 429, which raises the flag, or both fail, which does not:
\* either way a placeholder stands in.
ReadVault(r) ==
    /\ runs[r].pc = "vault"
    /\ \/ \E view \in ReadViews :
             /\ runs' = [runs EXCEPT ![r].pc = "reputation", ![r].view = view]
             /\ cache' = {view}
             /\ UNCHANGED rateLimited
       \/ \E limited \in BOOLEAN :
             /\ runs' = [runs EXCEPT ![r].pc = "reputation", ![r].view = Placeholder,
                                     ![r].limited = limited]
             /\ rateLimited' = (rateLimited \/ limited)
             /\ UNCHANGED cache
    /\ UNCHANGED <<iteration, running, cooldown, triggerBlocked, started, epochs, outside>>

\* getReputation: the score only reaches the prompt, but a 429 raises the flag.
ReadReputation(r) ==
    /\ runs[r].pc = "reputation"
    /\ \E limited \in BOOLEAN :
          /\ runs' = [runs EXCEPT ![r].pc = "oracle", ![r].limited = @ \/ limited]
          /\ rateLimited' = (rateLimited \/ limited)
    /\ UNCHANGED <<iteration, running, cooldown, cache, triggerBlocked, started, epochs,
                   outside>>

\* Slip: a throw leaves `running` set.
Fail_KeepsRunning(r, is429) ==
    /\ runs' = [runs EXCEPT ![r].pc = "log", ![r].outcome = "error"]
    /\ cooldown' = (cooldown \/ is429)
    /\ UNCHANGED running

\* The catch and finally of iterate: the entry becomes an error entry, a 429
\* starts the cooldown, and the overlap guard is released.
Fail(r, is429) ==
    /\ runs' = [runs EXCEPT ![r].pc = "log", ![r].outcome = "error"]
    /\ cooldown' = (cooldown \/ is429)
    /\ running' = FALSE

\* The oracle answers and the receipt is logged, or it does not answer and a demo
\* snapshot stands in, or the receipt cannot be written and the run throws.
AskOracle(r) ==
    /\ runs[r].pc = "oracle"
    /\ \/ \E ok \in BOOLEAN :
             /\ runs' = [runs EXCEPT ![r].pc = "decide", ![r].oracleOk = ok]
             /\ UNCHANGED <<running, cooldown>>
       \/ Fail(r, FALSE)
    /\ UNCHANGED <<iteration, client, triggerBlocked, started, epochs, outside>>

(* Decide.                                                                 *)

\* Gates 1 to 6, and an LLM that fails twice or answers nonsense.
Declines(run, rec, usable) ==
    \/ ~usable
    \/ ~run.view.open
    \/ run.view.alloc = rec
    \/ ~run.oracleOk

\* A gate holds the run back: it returns, and iterate's finally releases the
\* overlap guard, before the entry is logged.
Skip(r, reason) ==
    /\ runs' = [runs EXCEPT ![r].pc = "log", ![r].outcome = reason]
    /\ running' = FALSE

\* Slip: the flag is consumed without looking at it.
Decide_FlagDropped(r) ==
    /\ runs[r].pc = "decide"
    /\ \E rec \in Allocations, usable \in BOOLEAN :
          \/ /\ Declines(runs[r], rec, usable)
             /\ Skip(r, "gate")
             /\ UNCHANGED rateLimited
          \/ /\ ~Declines(runs[r], rec, usable)
             /\ rateLimited' = FALSE
             /\ runs' = [runs EXCEPT ![r].pc = "submit", ![r].rec = rec]
             /\ UNCHANGED running
    /\ UNCHANGED <<iteration, cooldown, cache, triggerBlocked, started, epochs, outside>>

\* The LLM's decision, then the gates in their order.  Only a run that gets past
\* gate 6 consumes the rate-limit flag.
Decide(r) ==
    /\ runs[r].pc = "decide"
    /\ \E rec \in Allocations, usable \in BOOLEAN :
          \/ /\ Declines(runs[r], rec, usable)
             /\ Skip(r, "gate")
             /\ UNCHANGED <<cooldown, rateLimited>>
          \/ /\ ~Declines(runs[r], rec, usable)
             /\ rateLimited
             /\ rateLimited' = FALSE
             /\ cooldown' = TRUE
             /\ Skip(r, "rate limited")
          \/ /\ ~Declines(runs[r], rec, usable)
             /\ ~rateLimited
             /\ runs' = [runs EXCEPT ![r].pc = "submit", ![r].rec = rec]
             /\ UNCHANGED <<running, cooldown, rateLimited>>
    /\ UNCHANGED <<iteration, cache, triggerBlocked, started, epochs, outside>>

(* Act.                                                                    *)

Try(r) == runs[r].tries + 1

\* putTransaction reaches the node.  Every attempt builds and signs a transaction
\* of its own, so an accepted attempt is always one more transaction.
Accepted(r) == txs' = txs \cup {[run |-> r, try |-> Try(r), alloc |-> runs[r].rec]}

\* Slip: a refusal is taken for an answer.
Retry_AnyAnswer(r, is429) ==
    /\ runs' = [runs EXCEPT ![r].pc = "log", ![r].tries = Try(r), ![r].outcome = "acted"]
    /\ running' = FALSE
    /\ UNCHANGED cooldown

\* The catch of withRetry: wait for the next attempt, or throw the last error.
Retry(r, is429) ==
    \/ /\ Try(r) < MaxTries
       /\ runs' = [runs EXCEPT ![r].tries = Try(r)]
       /\ UNCHANGED <<running, cooldown>>
    \/ Try(r) = MaxTries /\ Fail(r, is429)

\* One attempt of submitReallocate: accepted and answered; accepted, the answer
\* lost; or refused.
Submit(r) ==
    /\ runs[r].pc = "submit"
    /\ \/ /\ Accepted(r)
          /\ runs' = [runs EXCEPT ![r].pc = "log", ![r].tries = Try(r),
                                  ![r].outcome = "acted"]
          /\ running' = FALSE
          /\ UNCHANGED cooldown
       \/ Accepted(r) /\ Retry(r, FALSE)
       \/ \E is429 \in BOOLEAN : Retry(r, is429) /\ UNCHANGED txs
    /\ UNCHANGED <<iteration, client, triggerBlocked, started, epochs, log>>

(* Log.                                                                    *)

EntryOf(r) ==
    [run |-> r, outcome |-> runs[r].outcome,
     tx |-> IF runs[r].outcome = "acted" THEN runs[r].tries ELSE 0]

SpawnEpoch(r) ==
    epochs' = IF runs[r].iteration % Epochs = 0 THEN epochs \cup {r} ELSE epochs

\* Slip: the epoch is spawned whether or not the entry was written.
AppendLog_EpochAnyway(r) ==
    /\ runs[r].pc = "log"
    /\ log' \in {log, Append(log, EntryOf(r))}
    /\ SpawnEpoch(r)
    /\ runs' = [runs EXCEPT ![r] = Over("done")]
    /\ UNCHANGED <<iteration, running, cooldown, client, triggerBlocked, started, txs>>

\* appendJsonl: the entry is written and the epoch check follows, or the append
\* fails, iterate rejects, and both the entry and the epoch are gone.  The next
\* run may have started meanwhile.
AppendLog(r) ==
    /\ runs[r].pc = "log"
    /\ \/ /\ log' = Append(log, EntryOf(r))
          /\ SpawnEpoch(r)
          /\ runs' = [runs EXCEPT ![r] = Over("done")]
       \/ /\ runs' = [runs EXCEPT ![r] = Over("lost")]
          /\ UNCHANGED <<log, epochs>>
    /\ UNCHANGED <<iteration, running, cooldown, client, triggerBlocked, started, txs>>

(* Time, and the process dying.                                            *)

CacheExpires ==
    /\ cache # {}
    /\ cache' = {}
    /\ UNCHANGED <<iteration, running, cooldown, rateLimited, triggerBlocked, runs,
                   started, epochs, outside>>

CooldownEnds ==
    /\ cooldown
    /\ cooldown' = FALSE
    /\ UNCHANGED <<iteration, running, client, triggerBlocked, runs, started, epochs,
                   outside>>

TriggerUnblocks ==
    /\ triggerBlocked
    /\ triggerBlocked' = FALSE
    /\ UNCHANGED <<iteration, running, cooldown, client, runs, started, epochs, outside>>

\* The process dies and is started again: nothing but the log is on disk.
Crash ==
    /\ started > 0
    /\ iteration' = 0
    /\ running' = FALSE
    /\ cooldown' = FALSE
    /\ rateLimited' = FALSE
    /\ cache' = {}
    /\ triggerBlocked' = FALSE
    /\ runs' = [r \in RunIds |-> IF runs[r].pc \in Active \cup {"log"}
                                 THEN Over("lost") ELSE runs[r]]
    /\ UNCHANGED <<started, epochs, outside>>

-----------------------------------------------------------------------------
RunStep(r) ==
    \/ ReadVault(r)
    \/ ReadReputation(r)
    \/ AskOracle(r)
    \/ Decide(r)
    \/ Submit(r)
    \/ AppendLog(r)

Next ==
    \/ Tick
    \/ Trigger
    \/ \E r \in RunIds : RunStep(r)
    \/ CacheExpires
    \/ CooldownEnds
    \/ TriggerUnblocks
    \/ Crash

Spec == Init /\ [][Next]_vars

\* Every call a run awaits answers or fails in the end (the oracle and REST calls
\* and the file writes by themselves, the node and the LLM by the libraries used
\* to call them), and a cooldown, being a point in time, passes.
FairSpec ==
    /\ Spec
    /\ \A r \in RunIds : WF_vars(RunStep(r))
    /\ WF_vars(CooldownEnds)

-----------------------------------------------------------------------------
(* Properties.                                                             *)

ActiveRuns == {r \in RunIds : runs[r].pc \in Active}
Logged == {log[i] : i \in DOMAIN log}
TxsOf(r) == {tx \in txs : tx.run = r}

\* Every variable has its type; a run keeps within the attempts of withRetry, and the
\* cache holds only states that were read, never a placeholder
\* (casper-read-client.ts:131-152).
TypeOK ==
    /\ iteration \in 0 .. MaxRuns
    /\ {running, cooldown, rateLimited, triggerBlocked} \subseteq BOOLEAN
    /\ cache \subseteq ReadViews
    /\ Cardinality(cache) <= 1
    /\ runs \in [RunIds -> Runs]
    /\ \A r \in RunIds : runs[r].tries <= MaxTries
    /\ started \in 0 .. MaxRuns
    /\ epochs \subseteq RunIds
    /\ Logged \subseteq Entries
    /\ txs \subseteq Transactions

\* The overlap guard (loop.ts:161, 255) is set exactly while one run is between
\* its start and its decision, over every way a run can end, and never two are.
OneRunAtATime ==
    /\ running => Cardinality(ActiveRuns) = 1
    /\ ~running => ActiveRuns = {}

\* No run perceives or acts while the agent backs off after a 429, whether the
\* cooldown came from a gate or from a failed submission (loop.ts:174, 242, 442).
CooldownStopsRuns == cooldown => ActiveRuns = {}

\* A run whose own reads were rate limited never submits (gate 7, loop.ts:440):
\* the flag one of its reads raised is still there when the run reaches the gate.
LimitedRunNeverSubmits ==
    \A r \in RunIds : runs[r].pc = "submit" => ~runs[r].limited

\* The log is right about what reached the chain: an acted entry carries the hash
\* of a transaction the node accepted from that run, and a run a gate held back
\* has put none there (loop.ts:232-262, 459-464).
LogTellsTheTruth ==
    \A entry \in Logged :
        /\ entry.outcome = "acted" => \E tx \in TxsOf(entry.run) : tx.try = entry.tx
        /\ entry.outcome \in {"gate", "rate limited"} => TxsOf(entry.run) = {}

\* A reputation epoch finds the decision of the run that spawned it in the log it
\* is about to read (loop.ts:259, 277).
EpochFollowsItsEntry ==
    \A r \in epochs : \E entry \in Logged : entry.run = r

\* The agent never wedges: whatever fails, `running` is released and the cooldown
\* passes, and the next tick may start a run (FR-A-06).
AlwaysReadyAgain == []<>MayStart

(* What the repository says and the code does not do.                      *)

\* "Every reallocation transaction hash SHALL be logged to logs/decisions.jsonl"
\* (NFR-O-03): when a run's entry is written, its transactions are all in it.
EveryTxHashLogged ==
    \A entry \in Logged : \A tx \in TxsOf(entry.run) : tx.try = entry.tx
=============================================================================
