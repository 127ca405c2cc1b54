-------------------------- MODULE ReputationEpoch --------------------------
(***************************************************************************)
(* What becomes of the agent's decisions: each run appends its entry to    *)
(* decisions.jsonl, every Epochs-th run spawns a reputation epoch in the   *)
(* background (loop.ts, reputation.ts), which reads the end of the log,    *)
(* asks the oracle for the yields of the day, judges the decisions that    *)
(* were acted on and sends a delta of 1 or -1 to the registry, with the    *)
(* retries of the transaction client.  Epochs overlap runs and each other. *)
(*                                                                         *)
(* The registry is module Registry, with the one agent, which is its owner *)
(* as well (ASSUMPTIONS.md A-016); deploy-testnet registers it and seeds   *)
(* its score.                                                              *)
(*                                                                         *)
(* Abstracted: a run is its end (module AgentLoop is the rest); of a       *)
(* decision the judge looks at the asset with the highest weight only;     *)
(* the rationale hash is the set of decisions hashed, which the log puts   *)
(* in order: every one is of another run.                                  *)
(***************************************************************************)
EXTENDS Integers, Sequences, FiniteSets, FiniteSetsExt

CONSTANTS
    Assets,             \* asset ids of the oracle
    Sheets,             \* the yields the oracle gives, one after the other
    Epochs,             \* reputationUpdateEpochs
    Lookback,           \* 3: lines an epoch reads, in multiples of Epochs
    MaxTries,           \* attempts of withRetry
    Agent,              \* the agent's account, the registry's owner
    Seed,               \* REPUTATION_SEED_SCORE
    MaxU64,             \* largest score of the registry
    MaxRuns,            \* bound: runs explored
    Restarts,           \* bound: restarts explored
    OldLines            \* bound: unreadable lines in the log at first

ASSUME EpochAssumption ==
    /\ Assets # {} /\ IsFiniteSet(Assets)
    /\ Sheets \in Seq([Assets -> Nat]) /\ Sheets # << >>
    /\ Epochs \in Nat \ {0} /\ Lookback \in Nat \ {0}
    /\ MaxTries \in Nat \ {0}
    /\ Seed \in Nat /\ MaxU64 \in Nat \ {0}
    /\ MaxRuns \in Nat /\ Restarts \in Nat /\ OldLines \in Nat

VARIABLES
    \* the agent
    iteration,          \* AgentLoop.iteration
    run,                \* runs over all lives of the process
    life,               \* restarts so far
    era,                \* which of the sheets the oracle gives now
    log,                \* lines of decisions.jsonl
    torn,               \* the last line was not written to its end
    epochs,             \* by the run that spawned it, what an epoch holds
    \* the chain
    txs,                \* update_reputation transactions the node accepted
    executed,           \* those that were executed
    lostAnswers,        \* by epoch, acceptances whose answer was lost
    registered, profiles, blockTime, gained, lost   \* module Registry

registry == <<registered, profiles, blockTime, gained, lost>>
chain == <<txs, executed, lostAnswers, registry>>
agent == <<iteration, run, life, log, torn>>
vars == <<agent, era, epochs, chain>>

\* The registry as the agent's transactions find it.
OnChain == INSTANCE Registry WITH
    Agents <- {Agent}, Accounts <- {Agent}, Owner <- Agent,
    Deltas <- {-1, 1, Seed}, MaxBlockTime <- 0, MaxHistory <- Seed + MaxRuns * MaxTries

RunIds == 1 .. MaxRuns

\* What the log keeps of a decision: whether it was acted on (a transaction hash
\* came back), the asset it put most weight on, and the sheet it was made from.
Decisions == [run : RunIds, acted : BOOLEAN, top : Assets, era : DOMAIN Sheets]

\* A line JSON.parse refuses.
Malformed == [run |-> 0]

NoEpoch == [pc |-> "none", line |-> 0, seen |-> 0, judged |-> {}, delta |-> 0,
            era |-> 0, tries |-> 0]

-----------------------------------------------------------------------------
Init ==
    /\ iteration = 0 /\ run = 0 /\ life = 0
    /\ era = 1
    /\ log = [i \in 1 .. OldLines |-> Malformed] /\ torn = FALSE
    /\ epochs = [r \in RunIds |-> NoEpoch]
    /\ txs = {} /\ executed = {}
    /\ lostAnswers = [r \in RunIds |-> 0]
    /\ OnChain!Init

(* The log.                                                                *)

\* appendJsonl: one line more, or the rest of a line that was never finished.
Written(line) ==
    IF torn THEN [log EXCEPT ![Len(log)] = Malformed] ELSE Append(log, line)

\* Slip: a limit takes lines from the beginning of the file.
LastLines_First(n) == {log[i] : i \in 1 .. (IF n < Len(log) THEN n ELSE Len(log))}

\* readJsonl with a limit: the last lines first, then those that parse.
LastLines(n) == {log[i] : i \in (IF n < Len(log) THEN Len(log) - n + 1 ELSE 1) .. Len(log)}

Parsed(lines) == lines \ {Malformed}

(* Runs.                                                                   *)

\* The end of a run: its entry is written, and every Epochs-th run of this life
\* spawns an epoch; or the append fails, with nothing or a part of the line
\* written, and iterate rejects before the epoch check.
Iteration ==
    /\ run < MaxRuns
    /\ run' = run + 1
    /\ iteration' = iteration + 1
    /\ \/ \E acted \in BOOLEAN, top \in Assets :
             /\ log' = Written([run |-> run', acted |-> acted, top |-> top, era |-> era])
             /\ torn' = FALSE
             /\ epochs' = IF iteration' % Epochs = 0
                          THEN [epochs EXCEPT ![run'].pc = "read", ![run'].line = Len(log')]
                          ELSE epochs
       \/ UNCHANGED <<log, torn, epochs>>
       \/ /\ log' = Written(Malformed)
          /\ torn' = TRUE
          /\ UNCHANGED epochs
    /\ UNCHANGED <<life, era, chain>>

\* The oracle's data moves on.
NextSheet ==
    /\ era < Len(Sheets)
    /\ era' = era + 1
    /\ UNCHANGED <<agent, epochs, chain>>

(* An epoch.                                                               *)

\* The end of the log, and of that the decisions acted on.
ReadLog(r) ==
    /\ epochs[r].pc = "read"
    /\ epochs' = [epochs EXCEPT ![r].pc = "oracle", ![r].seen = Len(log),
                                ![r].judged = {d \in Parsed(LastLines(Lookback * Epochs)) :
                                                  d.acted}]
    /\ UNCHANGED <<agent, era, chain>>

\* Assets that yield more than the average of the sheet.
AboveAverage(sheet) ==
    {a \in Assets : sheet[a] * Cardinality(Assets) > MapThenSumSet(LAMBDA b : sheet[b], Assets)}

\* computeReputationDelta of at least one decision: was most of them right?
Delta(judged, sheet) ==
    LET correct == {d \in judged : d.top \in AboveAverage(sheet)}
    IN  IF 2 * Cardinality(correct) > Cardinality(judged) THEN 1 ELSE -1

\* The oracle is asked (and paid) once more; without its answer, or without a
\* decision, the epoch is skipped.
Judge(r) ==
    /\ epochs[r].pc = "oracle"
    /\ \/ epochs' = [epochs EXCEPT ![r] = [NoEpoch EXCEPT !.pc = "done"]]
       \/ /\ epochs[r].judged # {}
          /\ epochs' = [epochs EXCEPT ![r].pc = "submit", ![r].era = era,
                                      ![r].delta = Delta(epochs[r].judged, Sheets[era])]
    /\ UNCHANGED <<agent, era, chain>>

Try(r) == epochs[r].tries + 1

\* Slip: the verdict is made where the transaction is built, once an attempt.
Accepted_JudgedAgain(r) ==
    txs' = txs \cup {[epoch |-> r, try |-> Try(r), judged |-> epochs[r].judged,
                      delta |-> Delta(epochs[r].judged, Sheets[era])]}

\* An accepted attempt is a transaction of its own (buildUpdateReputationTx).
Accepted(r) ==
    txs' = txs \cup {[epoch |-> r, try |-> Try(r), judged |-> epochs[r].judged,
                      delta |-> epochs[r].delta]}

\* Slip: an attempt is not counted.
Retry_Uncounted(r) ==
    epochs' = [epochs EXCEPT ![r].tries = (@ + 1) % MaxTries]

\* withRetry: one more attempt, or the error is logged and the epoch is over.
Retry(r) ==
    IF Try(r) < MaxTries
    THEN epochs' = [epochs EXCEPT ![r].tries = Try(r)]
    ELSE epochs' = [epochs EXCEPT ![r] = [NoEpoch EXCEPT !.pc = "done"]]

\* One attempt of submitUpdateReputation: accepted; accepted, the answer lost; or
\* refused.
Submit(r) ==
    /\ epochs[r].pc = "submit"
    /\ \/ /\ Accepted(r)
          /\ epochs' = [epochs EXCEPT ![r] = [NoEpoch EXCEPT !.pc = "done"]]
          /\ UNCHANGED lostAnswers
       \/ /\ Accepted(r)
          /\ lostAnswers' = [lostAnswers EXCEPT ![r] = @ + 1]
          /\ Retry(r)
       \/ /\ Retry(r)
          /\ UNCHANGED <<txs, lostAnswers>>
    /\ UNCHANGED <<agent, era, executed, registry>>

\* The process dies and is started again: its epochs are gone, and it counts its
\* iterations from 1.
Restart ==
    /\ life < Restarts
    /\ life' = life + 1
    /\ iteration' = 0
    /\ epochs' = [r \in RunIds |-> IF epochs[r].pc = "none" THEN NoEpoch
                                   ELSE [NoEpoch EXCEPT !.pc = "done"]]
    /\ UNCHANGED <<run, era, log, torn, chain>>

(* The chain.                                                              *)

\* deploy-testnet registers the agent, then seeds its score with an update.
Deploy ==
    /\ \/ OnChain!RegisterAgent(Agent, Agent)
       \/ /\ profiles[Agent].totalDecisions = 0
          /\ OnChain!UpdateReputation(Agent, Agent, Seed)
    /\ UNCHANGED <<agent, era, epochs, txs, executed, lostAnswers>>

\* An accepted transaction is executed once, in no particular order, or never; one
\* for an agent that is not registered reverts.
Execute(tx) ==
    /\ tx \notin executed
    /\ executed' = executed \cup {tx}
    /\ \/ OnChain!UpdateReputation(Agent, Agent, tx.delta)
       \/ ~registered[Agent] /\ UNCHANGED registry
    /\ UNCHANGED <<agent, era, epochs, txs, lostAnswers>>

EpochStep(r) == ReadLog(r) \/ Judge(r) \/ Submit(r)

Next ==
    \/ Iteration
    \/ NextSheet
    \/ \E r \in RunIds : EpochStep(r)
    \/ Restart
    \/ Deploy
    \/ \E tx \in txs : Execute(tx)

Spec == Init /\ [][Next]_vars

\* The calls of an epoch are answered or fail.
FairSpec == Spec /\ \A r \in RunIds : WF_vars(EpochStep(r))

-----------------------------------------------------------------------------
(* Properties.                                                             *)

TxsOf(r) == {tx \in txs : tx.epoch = r}
InLog == {log[i] : i \in DOMAIN log}

TypeOK ==
    /\ iteration \in 0 .. run /\ run \in 0 .. MaxRuns
    /\ era \in DOMAIN Sheets
    /\ InLog \subseteq Decisions \cup {Malformed}
    /\ torn => log # << >> /\ log[Len(log)] = Malformed
    /\ \A r \in RunIds :
          /\ epochs[r].pc \in {"none", "read", "oracle", "submit", "done"}
          /\ epochs[r].tries \in 0 .. MaxTries - 1
          /\ epochs[r].pc = "submit" <=> epochs[r].delta # 0
    /\ executed \subseteq txs
    /\ OnChain!TypeOK

\* Whatever the attempts, an epoch has one verdict: every transaction it leaves on
\* the chain carries the same delta and commits to the same decisions, and there is
\* one more than answers were lost at the most (casper-tx-client.ts:432, the
\* transaction is built in the retried function, the verdict is not).
OneVerdict ==
    \A r \in RunIds :
        /\ Cardinality(TxsOf(r)) <= 1 + lostAnswers[r]
        /\ \A s, t \in TxsOf(r) : s.delta = t.delta /\ s.judged = t.judged

\* The rationale hash on the chain can be recomputed from the log: it covers at
\* least one decision, and only decisions that are in the log and were acted on
\* (loop.ts:549, 554).
HashCoversActedDecisions ==
    \A tx \in txs :
        /\ tx.judged # {}
        /\ \A d \in tx.judged : d \in InLog /\ d.acted

\* An epoch that reads the log before Lookback * Epochs more lines are written judges the
\* decision of the run that spawned it, if its line can be parsed (loop.ts:545).
JudgesItsOwnRun ==
    \A r \in RunIds :
        (/\ epochs[r].pc \in {"oracle", "submit"}
         /\ epochs[r].seen - epochs[r].line < Lookback * Epochs
         /\ log[epochs[r].line] # Malformed
         /\ log[epochs[r].line].acted)
        => \E d \in epochs[r].judged : d.run = r

\* A delta of 1 says that the decisions put most weight on better assets than the
\* average more often than not: an epoch of decisions for one asset that is no
\* better than the average never raises the score (reputation.ts:42-55).
NoPraiseForTheAverage ==
    \A r \in RunIds :
        (epochs[r].pc = "submit" /\ epochs[r].delta = 1) =>
            LET judged == epochs[r].judged
                wrong == {d \in judged : d.top \notin AboveAverage(Sheets[epochs[r].era])}
            IN  Cardinality(wrong) < Cardinality(judged \ wrong)

\* What an epoch judges and says: everything of the right kind, the hash covers decisions
\* of the log that were acted on, an epoch judges its own run's decision, and it praises
\* nobody for the average (loop.ts:540-590, reputation.ts:33-60).
EpochIsSound ==
    TypeOK /\ HashCoversActedDecisions /\ JudgesItsOwnRun /\ NoPraiseForTheAverage

\* An epoch ends, whatever fails, so that none piles up on the next (RISK-07).
EpochsEnd == \A r \in RunIds : epochs[r].pc = "read" ~> epochs[r].pc = "done"
=============================================================================
