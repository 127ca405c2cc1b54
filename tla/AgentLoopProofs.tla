-------------------------- MODULE AgentLoopProofs --------------------------
(***************************************************************************)
(* Theorems about AgentLoop: the safety properties of the agent process,   *)
(* for every set of allocations, number of attempts and number of runs.    *)
(* At the end, what the watches of AgentChain report.                      *)
(***************************************************************************)
EXTENDS AgentLoop, FiniteSetTheorems, SequenceTheorems, TLAPS

-----------------------------------------------------------------------------
(* The inductive invariant.                                                *)

Types ==
    /\ iteration \in 0 .. started
    /\ running \in BOOLEAN /\ cooldown \in BOOLEAN
    /\ rateLimited \in BOOLEAN /\ triggerBlocked \in BOOLEAN
    /\ cache \subseteq ReadViews
    /\ Cardinality(cache) <= 1
    /\ runs \in [RunIds -> Runs]
    /\ started \in 0 .. MaxRuns
    /\ epochs \subseteq RunIds
    /\ log \in Seq(Entries)
    /\ txs \subseteq Transactions

\* The overlap guard without counting: `running` is set while a run is active,
\* and two active runs are the same run.
GuardIsExact ==
    /\ running <=> \E r \in RunIds : runs[r].pc \in Active
    /\ \A r, s \in RunIds : runs[r].pc \in Active /\ runs[s].pc \in Active => r = s

\* A run number that was not given out yet names no run: the next run to start
\* finds no trace of another one.
FreshRuns == \A r \in RunIds : r > started => runs[r] = NewRun

NoRunWhileCooling == cooldown => \A r \in RunIds : runs[r].pc \notin Active

\* A run that one of its reads told it is rate limited finds the flag still up
\* when it comes to gate 7, and has not got past it.
FlagWaitsForItsRun ==
    \A r \in RunIds : runs[r].limited =>
        /\ runs[r].pc \in Active => rateLimited
        /\ runs[r].pc # "submit"

BeforeSubmit == {"new", "vault", "reputation", "oracle", "decide"}

\* A run that submits has an attempt left.
AttemptsLeft ==
    \A r \in RunIds :
        /\ runs[r].tries <= MaxTries
        /\ runs[r].pc \in BeforeSubmit => runs[r].tries = 0
        /\ runs[r].pc = "submit" => runs[r].tries < MaxTries

\* What the node has of a run, by where the run is: nothing before it submits,
\* nothing when a gate held it back, the attempt it names when it acted.
NodeAgreesWithRun ==
    \A r \in RunIds :
        /\ runs[r].pc \in BeforeSubmit => TxsOf(r) = {}
        /\ runs[r].pc = "log" /\ runs[r].outcome \in {"gate", "rate limited"}
              => TxsOf(r) = {}
        /\ runs[r].pc = "log" /\ runs[r].outcome = "acted"
              => \E tx \in TxsOf(r) : tx.try = runs[r].tries

\* An entry is about a run that is over, so nothing it says can change any more.
EntriesAreOver == \A entry \in Logged : runs[entry.run].pc = "done"

IInv ==
    /\ Types
    /\ GuardIsExact
    /\ FreshRuns
    /\ NoRunWhileCooling
    /\ FlagWaitsForItsRun
    /\ AttemptsLeft
    /\ NodeAgreesWithRun
    /\ EntriesAreOver
    /\ LogTellsTheTruth
    /\ EpochFollowsItsEntry

-----------------------------------------------------------------------------
(* Facts the steps share.                                                  *)

\* The constants of the model have their types.
LEMMA RunTypes ==
    /\ Placeholder \in Views /\ ~Placeholder.real
    /\ NewRun \in Runs /\ NewRun.pc = "new" /\ NewRun.tries = 0 /\ NewRun.limited = FALSE
    /\ \A pc \in Stages : /\ Over(pc) \in Runs /\ Over(pc).pc = pc
                          /\ Over(pc).tries = 0 /\ Over(pc).limited = FALSE
<1>1. Placeholder \in Views /\ ~Placeholder.real
  BY AgentAssumption DEF Placeholder, Views
<1>2. NewRun \in Runs /\ NewRun.pc = "new" /\ NewRun.tries = 0 /\ NewRun.limited = FALSE
  BY <1>1, AgentAssumption DEF NewRun, Runs, Stages, Active, Outcomes
<1>3. ASSUME NEW pc \in Stages
      PROVE  /\ Over(pc) \in Runs /\ Over(pc).pc = pc
             /\ Over(pc).tries = 0 /\ Over(pc).limited = FALSE
  BY <1>2 DEF Over, NewRun, Runs
<1>. QED  BY <1>1, <1>2, <1>3

\* The entries of a log are entries.
LEMMA LoggedAreEntries ==
    ASSUME log \in Seq(Entries)
    PROVE  Logged \subseteq Entries
<1>1. DOMAIN log = 1 .. Len(log)
  OBVIOUS
<1>. QED  BY <1>1, ElementOfSeq DEF Logged

\* Writing an entry adds exactly that one.
LEMMA AppendedIsLogged ==
    ASSUME log \in Seq(Entries), NEW entry \in Entries, log' = Append(log, entry)
    PROVE  log' \in Seq(Entries) /\ Logged' = Logged \cup {entry}
<1>1. DOMAIN log = 1 .. Len(log) /\ Len(log) \in Nat
  OBVIOUS
<1>2. /\ log' \in Seq(Entries) /\ DOMAIN log' = 1 .. (Len(log) + 1)
      /\ \A i \in 1 .. Len(log) : log'[i] = log[i]
      /\ log'[Len(log) + 1] = entry
  BY AppendProperties
<1>3. /\ \A i \in 1 .. (Len(log) + 1) : i \in 1 .. Len(log) \/ i = Len(log) + 1
      /\ 1 .. Len(log) \subseteq 1 .. (Len(log) + 1)
      /\ Len(log) + 1 \in 1 .. (Len(log) + 1)
  BY <1>1
<1>4. Logged' \subseteq Logged \cup {entry}
  BY <1>1, <1>2, <1>3 DEF Logged
<1>5. Logged \cup {entry} \subseteq Logged'
  BY <1>1, <1>2, <1>3 DEF Logged
<1>. QED  BY <1>2, <1>4, <1>5

\* A run keeps its record until a step of its own, which puts a run in its place.
LEMMA OneRecordChanges ==
    ASSUME runs \in [RunIds -> Runs], NEW r \in RunIds, NEW n \in Runs,
           runs' = [runs EXCEPT ![r] = n]
    PROVE  /\ runs' \in [RunIds -> Runs]
           /\ runs'[r] = n
           /\ \A s \in RunIds : s # r => runs'[s] = runs[s]
OBVIOUS

\* What any step of a run does to the guard, to the cooldown and to the run
\* numbers: it stays active, keeping both, or it stops being active and releases
\* the guard, or it was over already and leaves the guard to whoever has it.
RunMoves(r, n) ==
    /\ runs' = [runs EXCEPT ![r] = n]
    /\ started' = started
    /\ \/ /\ runs[r].pc \in Active /\ n.pc \in Active
          /\ running' = running /\ cooldown' = cooldown
       \/ /\ runs[r].pc \in Active /\ n.pc \notin Active
          /\ running' = FALSE
       \/ /\ runs[r].pc = "log" /\ n.pc \notin Active
          /\ running' = running /\ cooldown' = cooldown

LEMMA MovesKeepTheGuard ==
    ASSUME IInv, NEW r \in RunIds, NEW n \in Runs, RunMoves(r, n)
    PROVE  /\ runs' \in [RunIds -> Runs]
           /\ runs'[r] = n
           /\ \A s \in RunIds : s # r => runs'[s] = runs[s]
           /\ started' \in 0 .. MaxRuns
           /\ GuardIsExact'
           /\ FreshRuns'
           /\ NoRunWhileCooling'
<1>1. /\ runs \in [RunIds -> Runs] /\ started \in 0 .. MaxRuns
      /\ running \in BOOLEAN /\ cooldown \in BOOLEAN
  BY DEF IInv, Types
<1>2. /\ runs' \in [RunIds -> Runs]
      /\ runs'[r] = n
      /\ \A s \in RunIds : s # r => runs'[s] = runs[s]
  BY <1>1, OneRecordChanges DEF RunMoves
<1>3. FreshRuns'
  <2>1. runs[r].pc # "new"
    BY DEF RunMoves, Active
  <2>2. ~(r > started)
    BY <2>1, RunTypes DEF IInv, FreshRuns
  <2>3. started' = started
    BY DEF RunMoves
  <2>. QED  BY <1>2, <2>2, <2>3 DEF IInv, FreshRuns
<1>4. GuardIsExact'
  <2>1. CASE runs[r].pc \in Active /\ n.pc \in Active /\ running' = running
    BY <1>2, <2>1 DEF IInv, GuardIsExact
  <2>2. CASE runs[r].pc \in Active /\ n.pc \notin Active /\ running' = FALSE
    BY <1>2, <2>2 DEF IInv, GuardIsExact
  <2>3. CASE runs[r].pc = "log" /\ n.pc \notin Active /\ running' = running
    <3>1. runs[r].pc \notin Active
      BY <2>3 DEF Active
    <3>2. \A s \in RunIds : runs'[s].pc \in Active <=> runs[s].pc \in Active
      BY <1>2, <2>3, <3>1
    <3>. QED  BY <2>3, <3>2 DEF IInv, GuardIsExact
  <2>. QED  BY <2>1, <2>2, <2>3 DEF RunMoves
<1>5. NoRunWhileCooling'
  <2>1. CASE cooldown' = cooldown
    <3>1. n.pc \in Active => runs[r].pc \in Active
      BY DEF RunMoves
    <3>. QED  BY <1>2, <2>1, <3>1 DEF IInv, NoRunWhileCooling
  <2>2. CASE runs[r].pc \in Active /\ n.pc \notin Active
    BY <1>2, <2>2 DEF IInv, GuardIsExact, NoRunWhileCooling
  <2>. QED  BY <2>1, <2>2 DEF RunMoves
<1>6. started' \in 0 .. MaxRuns
  BY <1>1 DEF RunMoves
<1>. QED  BY <1>2, <1>3, <1>4, <1>5, <1>6

-----------------------------------------------------------------------------
(* The steps of a run up to its decision: the node and the log are not     *)
(* touched, and the run goes on or is on its way to the log without having *)
(* acted.                                                                  *)

BeforeActing(r, n) ==
    /\ RunMoves(r, n)
    /\ runs[r].pc \in BeforeSubmit
    /\ n.pc \in {"reputation", "oracle", "decide", "submit", "log"}
    /\ n.pc = "log" => n.outcome \in {"gate", "rate limited", "error"}
    /\ n.tries = runs[r].tries
    /\ n.limited => /\ n.pc \in Active => rateLimited'
                    /\ n.pc # "submit"
    /\ UNCHANGED <<iteration, triggerBlocked, epochs, outside>>

LEMMA BeforeActingKeepsInvariant ==
    ASSUME IInv, NEW r \in RunIds, NEW n \in Runs, BeforeActing(r, n),
           cooldown' \in BOOLEAN, rateLimited' \in BOOLEAN,
           running' \in BOOLEAN,
           cache' \subseteq ReadViews, Cardinality(cache') <= 1
    PROVE  IInv'
<1>1. /\ runs \in [RunIds -> Runs] /\ iteration \in 0 .. started /\ log \in Seq(Entries)
      /\ triggerBlocked \in BOOLEAN /\ epochs \subseteq RunIds /\ txs \subseteq Transactions
  BY DEF IInv, Types
<1>2. /\ iteration' = iteration /\ triggerBlocked' = triggerBlocked /\ epochs' = epochs
      /\ log' = log /\ txs' = txs /\ started' = started
  BY DEF BeforeActing, RunMoves, outside
<1>3. RunMoves(r, n)
  BY DEF BeforeActing
<1>4. /\ runs' \in [RunIds -> Runs]
      /\ runs'[r] = n
      /\ \A s \in RunIds : s # r => runs'[s] = runs[s]
      /\ started' \in 0 .. MaxRuns
      /\ GuardIsExact' /\ FreshRuns' /\ NoRunWhileCooling'
  BY <1>3, MovesKeepTheGuard
<1>5. Types'
  BY <1>1, <1>2, <1>4 DEF Types
<1>6. runs[r].pc \in Active
  BY DEF BeforeActing, RunMoves, BeforeSubmit
<1>7. \A s \in RunIds : s # r => runs'[s].pc \notin Active
  BY <1>4, <1>6 DEF IInv, GuardIsExact
<1>8. FlagWaitsForItsRun'
  <2>1. \A s \in RunIds : s # r => runs'[s].pc # "submit"
    BY <1>7 DEF Active
  <2>2. n.limited => (n.pc \in Active => rateLimited') /\ n.pc # "submit"
    BY DEF BeforeActing
  <2>. QED  BY <1>4, <1>7, <2>1, <2>2 DEF FlagWaitsForItsRun
<1>9. AttemptsLeft'
  <2>1. runs[r].pc \in BeforeSubmit /\ n.tries = runs[r].tries
    BY DEF BeforeActing
  <2>2. n.tries = 0
    BY <2>1 DEF IInv, AttemptsLeft
  <2>3. 0 < MaxTries /\ 0 <= MaxTries
    BY AgentAssumption
  <2>. QED  BY <1>4, <2>2, <2>3 DEF IInv, AttemptsLeft
<1>10. NodeAgreesWithRun'
  <2>1. TxsOf(r) = {}
    BY DEF IInv, NodeAgreesWithRun, BeforeActing
  <2>2. \A s \in RunIds : TxsOf(s)' = TxsOf(s)
    BY <1>2 DEF TxsOf
  <2>3. n.pc = "log" => n.outcome # "acted"
    BY DEF BeforeActing
  <2>. QED  BY <1>4, <2>1, <2>2, <2>3 DEF IInv, NodeAgreesWithRun
<1>11. Logged' = Logged
  BY <1>2 DEF Logged
<1>12. EntriesAreOver'
  <2>1. runs[r].pc # "done"
    BY <1>6 DEF Active
  <2>2. \A entry \in Logged : entry.run \in RunIds
    BY <1>1, LoggedAreEntries DEF Entries
  <2>. QED  BY <1>4, <1>11, <2>1, <2>2 DEF IInv, EntriesAreOver
<1>13. LogTellsTheTruth'
  BY <1>2, <1>11 DEF IInv, LogTellsTheTruth, TxsOf
<1>14. EpochFollowsItsEntry'
  BY <1>2, <1>11 DEF IInv, EpochFollowsItsEntry
<1>. QED  BY <1>4, <1>5, <1>8, <1>9, <1>10, <1>12, <1>13, <1>14 DEF IInv

LEMMA ReadVaultKeepsInvariant ==
    ASSUME IInv, NEW r \in RunIds, ReadVault(r)
    PROVE  IInv'
<1>1. /\ runs \in [RunIds -> Runs] /\ cache \subseteq ReadViews /\ Cardinality(cache) <= 1
      /\ running \in BOOLEAN /\ cooldown \in BOOLEAN /\ rateLimited \in BOOLEAN
  BY DEF IInv, Types
<1>2. /\ runs[r] \in Runs /\ runs[r].pc = "vault"
      /\ running' = running /\ cooldown' = cooldown /\ started' = started
      /\ UNCHANGED <<iteration, triggerBlocked, epochs, outside>>
  BY <1>1 DEF ReadVault
<1>3. ASSUME NEW view \in ReadViews, cache' = {view}, rateLimited' = rateLimited,
             runs' = [runs EXCEPT ![r].pc = "reputation", ![r].view = view]
      PROVE  IInv'
  <2>. DEFINE n == [runs[r] EXCEPT !.pc = "reputation", !.view = view]
  <2>1. /\ n \in Runs /\ n.pc = "reputation" /\ n.tries = runs[r].tries
        /\ n.limited = runs[r].limited
    BY <1>2 DEF Runs, Stages, Active, ReadViews
  <2>2. runs' = [runs EXCEPT ![r] = n]
    BY <1>1, <1>3
  <2>. HIDE DEF n
  <2>3. cache' \subseteq ReadViews /\ Cardinality(cache') <= 1
    BY <1>3, FS_Singleton
  <2>4. n.limited => rateLimited'
    BY <1>2, <1>3, <2>1 DEF IInv, FlagWaitsForItsRun, Active
  <2>5. BeforeActing(r, n)
    BY <1>2, <2>1, <2>2, <2>4 DEF BeforeActing, RunMoves, BeforeSubmit, Active
  <2>. QED  BY <1>1, <1>2, <1>3, <2>1, <2>3, <2>5, BeforeActingKeepsInvariant
<1>4. ASSUME NEW limited \in BOOLEAN, cache' = cache,
             rateLimited' = (rateLimited \/ limited),
             runs' = [runs EXCEPT ![r].pc = "reputation", ![r].view = Placeholder,
                                  ![r].limited = limited]
      PROVE  IInv'
  <2>. DEFINE n == [runs[r] EXCEPT !.pc = "reputation", !.view = Placeholder,
                                   !.limited = limited]
  <2>1. /\ n \in Runs /\ n.pc = "reputation" /\ n.tries = runs[r].tries
        /\ n.limited = limited
    BY <1>2, RunTypes DEF Runs, Stages, Active
  <2>2. runs' = [runs EXCEPT ![r] = n]
    BY <1>1, <1>4
  <2>. HIDE DEF n
  <2>3. n.limited => rateLimited'
    BY <1>4, <2>1
  <2>4. BeforeActing(r, n)
    BY <1>2, <2>1, <2>2, <2>3 DEF BeforeActing, RunMoves, BeforeSubmit, Active
  <2>. QED  BY <1>1, <1>2, <1>4, <2>1, <2>4, BeforeActingKeepsInvariant
<1>. QED  BY <1>3, <1>4 DEF ReadVault

LEMMA ReadReputationKeepsInvariant ==
    ASSUME IInv, NEW r \in RunIds, ReadReputation(r)
    PROVE  IInv'
<1>1. /\ runs \in [RunIds -> Runs] /\ cache \subseteq ReadViews /\ Cardinality(cache) <= 1
      /\ running \in BOOLEAN /\ cooldown \in BOOLEAN /\ rateLimited \in BOOLEAN
  BY DEF IInv, Types
<1>2. /\ runs[r] \in Runs /\ runs[r].pc = "reputation" /\ cache' = cache
      /\ running' = running /\ cooldown' = cooldown /\ started' = started
      /\ UNCHANGED <<iteration, triggerBlocked, epochs, outside>>
  BY <1>1 DEF ReadReputation
<1>3. PICK limited \in BOOLEAN :
         /\ runs' = [runs EXCEPT ![r].pc = "oracle", ![r].limited = @ \/ limited]
         /\ rateLimited' = (rateLimited \/ limited)
  BY DEF ReadReputation
<1>. DEFINE n == [runs[r] EXCEPT !.pc = "oracle", !.limited = @ \/ limited]
<1>4. /\ n \in Runs /\ n.pc = "oracle" /\ n.tries = runs[r].tries
      /\ n.limited = (runs[r].limited \/ limited)
  BY <1>2 DEF Runs, Stages, Active
<1>5. runs' = [runs EXCEPT ![r] = n]
  BY <1>1, <1>3
<1>. HIDE DEF n
<1>6. n.limited => rateLimited'
  BY <1>2, <1>3, <1>4 DEF IInv, FlagWaitsForItsRun, Active
<1>7. BeforeActing(r, n)
  BY <1>2, <1>4, <1>5, <1>6 DEF BeforeActing, RunMoves, BeforeSubmit, Active
<1>8. rateLimited' \in BOOLEAN
  BY <1>3
<1>. QED  BY <1>1, <1>2, <1>4, <1>7, <1>8, BeforeActingKeepsInvariant

\* What a run that throws holds, and what becomes of the guard and the cooldown.
LEMMA FailFacts ==
    ASSUME IInv, NEW r \in RunIds, NEW is429 \in BOOLEAN, Fail(r, is429)
    PROVE  LET n == [runs[r] EXCEPT !.pc = "log", !.outcome = "error"]
           IN  /\ n \in Runs /\ n.pc = "log" /\ n.outcome = "error"
               /\ n.tries = runs[r].tries /\ n.limited = runs[r].limited
               /\ runs' = [runs EXCEPT ![r] = n]
               /\ running' = FALSE /\ cooldown' \in BOOLEAN
<1>1. runs \in [RunIds -> Runs] /\ runs[r] \in Runs /\ cooldown \in BOOLEAN
  BY DEF IInv, Types
<1>2. running' = FALSE /\ cooldown' \in BOOLEAN
  BY DEF Fail
<1>3. runs' = [runs EXCEPT ![r] = [runs[r] EXCEPT !.pc = "log", !.outcome = "error"]]
  BY <1>1 DEF Fail
<1>. QED  BY <1>1, <1>2, <1>3 DEF Runs, Stages, Outcomes

LEMMA AskOracleKeepsInvariant ==
    ASSUME IInv, NEW r \in RunIds, AskOracle(r)
    PROVE  IInv'
<1>1. /\ runs \in [RunIds -> Runs] /\ cache \subseteq ReadViews /\ Cardinality(cache) <= 1
      /\ running \in BOOLEAN /\ cooldown \in BOOLEAN /\ rateLimited \in BOOLEAN
  BY DEF IInv, Types
<1>2. /\ runs[r] \in Runs /\ runs[r].pc = "oracle"
      /\ cache' = cache /\ rateLimited' = rateLimited /\ started' = started
      /\ UNCHANGED <<iteration, triggerBlocked, epochs, outside>>
  BY <1>1 DEF AskOracle, client
<1>3. runs[r].limited => rateLimited
  BY <1>2 DEF IInv, FlagWaitsForItsRun, Active
<1>4. ASSUME NEW ok \in BOOLEAN, running' = running, cooldown' = cooldown,
             runs' = [runs EXCEPT ![r].pc = "decide", ![r].oracleOk = ok]
      PROVE  IInv'
  <2>. DEFINE n == [runs[r] EXCEPT !.pc = "decide", !.oracleOk = ok]
  <2>1. /\ n \in Runs /\ n.pc = "decide" /\ n.tries = runs[r].tries
        /\ n.limited = runs[r].limited
    BY <1>2 DEF Runs, Stages, Active
  <2>2. runs' = [runs EXCEPT ![r] = n]
    BY <1>1, <1>4
  <2>. HIDE DEF n
  <2>3. BeforeActing(r, n)
    BY <1>2, <1>3, <1>4, <2>1, <2>2 DEF BeforeActing, RunMoves, BeforeSubmit, Active
  <2>. QED  BY <1>1, <1>2, <1>4, <2>1, <2>3, BeforeActingKeepsInvariant
<1>5. CASE Fail(r, FALSE)
  <2>. DEFINE n == [runs[r] EXCEPT !.pc = "log", !.outcome = "error"]
  <2>1. /\ n \in Runs /\ n.pc = "log" /\ n.outcome = "error"
        /\ n.tries = runs[r].tries /\ n.limited = runs[r].limited
        /\ runs' = [runs EXCEPT ![r] = n]
        /\ running' = FALSE /\ cooldown' \in BOOLEAN
    BY <1>5, FailFacts
  <2>. HIDE DEF n
  <2>2. BeforeActing(r, n)
    BY <1>2, <2>1 DEF BeforeActing, RunMoves, BeforeSubmit, Active
  <2>. QED  BY <1>1, <1>2, <2>1, <2>2, BeforeActingKeepsInvariant
<1>. QED  BY <1>4, <1>5 DEF AskOracle

LEMMA SkipFacts ==
    ASSUME IInv, NEW r \in RunIds, NEW reason \in Outcomes, Skip(r, reason)
    PROVE  LET n == [runs[r] EXCEPT !.pc = "log", !.outcome = reason]
           IN  /\ n \in Runs /\ n.pc = "log" /\ n.outcome = reason
               /\ n.tries = runs[r].tries
               /\ runs' = [runs EXCEPT ![r] = n]
               /\ running' = FALSE
<1>1. runs \in [RunIds -> Runs] /\ runs[r] \in Runs
  BY DEF IInv, Types
<1>2. runs' = [runs EXCEPT ![r] = [runs[r] EXCEPT !.pc = "log", !.outcome = reason]]
  BY <1>1 DEF Skip
<1>. QED  BY <1>1, <1>2 DEF Runs, Stages, Skip

LEMMA DecideKeepsInvariant ==
    ASSUME IInv, NEW r \in RunIds, Decide(r)
    PROVE  IInv'
<1>1. /\ runs \in [RunIds -> Runs] /\ cache \subseteq ReadViews /\ Cardinality(cache) <= 1
      /\ running \in BOOLEAN /\ cooldown \in BOOLEAN /\ rateLimited \in BOOLEAN
  BY DEF IInv, Types
<1>2. /\ runs[r] \in Runs /\ runs[r].pc = "decide"
      /\ cache' = cache /\ started' = started
      /\ UNCHANGED <<iteration, triggerBlocked, epochs, outside>>
  BY <1>1 DEF Decide
<1>3. runs[r].limited => rateLimited
  BY <1>2 DEF IInv, FlagWaitsForItsRun, Active
<1>4. ASSUME NEW reason \in {"gate", "rate limited"}, Skip(r, reason),
             cooldown' \in BOOLEAN, rateLimited' \in BOOLEAN
      PROVE  IInv'
  <2>. DEFINE n == [runs[r] EXCEPT !.pc = "log", !.outcome = reason]
  <2>1. reason \in Outcomes
    BY DEF Outcomes
  <2>2. /\ n \in Runs /\ n.pc = "log" /\ n.outcome = reason
        /\ n.tries = runs[r].tries
        /\ runs' = [runs EXCEPT ![r] = n]
        /\ running' = FALSE
    BY <1>4, <2>1, SkipFacts
  <2>. HIDE DEF n
  <2>3. BeforeActing(r, n)
    BY <1>2, <1>4, <2>2 DEF BeforeActing, RunMoves, BeforeSubmit, Active
  <2>. QED  BY <1>1, <1>2, <1>4, <2>2, <2>3, BeforeActingKeepsInvariant
<1>5. ASSUME NEW rec \in Allocations, ~rateLimited,
             runs' = [runs EXCEPT ![r].pc = "submit", ![r].rec = rec],
             UNCHANGED <<running, cooldown, rateLimited>>
      PROVE  IInv'
  <2>. DEFINE n == [runs[r] EXCEPT !.pc = "submit", !.rec = rec]
  <2>1. /\ n \in Runs /\ n.pc = "submit" /\ n.tries = runs[r].tries
        /\ n.limited = runs[r].limited
    BY <1>2 DEF Runs, Stages, Active
  <2>2. runs' = [runs EXCEPT ![r] = n]
    BY <1>1, <1>5
  <2>. HIDE DEF n
  <2>3. ~n.limited
    BY <1>3, <1>5, <2>1
  <2>4. BeforeActing(r, n)
    BY <1>2, <1>5, <2>1, <2>2, <2>3 DEF BeforeActing, RunMoves, BeforeSubmit, Active
  <2>. QED  BY <1>1, <1>2, <1>5, <2>1, <2>4, BeforeActingKeepsInvariant
<1>6. PICK rec \in Allocations, usable \in BOOLEAN :
         \/ /\ Skip(r, "gate")
            /\ UNCHANGED <<cooldown, rateLimited>>
         \/ /\ rateLimited' = FALSE /\ cooldown' = TRUE
            /\ Skip(r, "rate limited")
         \/ /\ ~rateLimited
            /\ runs' = [runs EXCEPT ![r].pc = "submit", ![r].rec = rec]
            /\ UNCHANGED <<running, cooldown, rateLimited>>
  BY DEF Decide
<1>7. CASE Skip(r, "gate") /\ UNCHANGED <<cooldown, rateLimited>>
  BY <1>1, <1>4, <1>7
<1>8. CASE rateLimited' = FALSE /\ cooldown' = TRUE /\ Skip(r, "rate limited")
  BY <1>4, <1>8
<1>. QED  BY <1>5, <1>6, <1>7, <1>8

-----------------------------------------------------------------------------
(* The submission and the log.                                             *)

\* What one attempt of a run does: the node may have accepted it, and the run
\* waits for the next attempt or goes to the log, naming this attempt if it acted.
Attempts(r, n) ==
    /\ RunMoves(r, n)
    /\ runs[r].pc = "submit"
    /\ n.pc \in {"submit", "log"}
    /\ ~n.limited
    /\ n.tries <= MaxTries
    /\ n.pc = "submit" => n.tries < MaxTries
    /\ n.pc = "log" => n.outcome \in {"acted", "error"}
    /\ txs' = txs \/ Accepted(r)
    /\ n.pc = "log" /\ n.outcome = "acted" => Accepted(r) /\ n.tries = Try(r)
    /\ UNCHANGED <<iteration, client, triggerBlocked, epochs, log>>

LEMMA AttemptsKeepInvariant ==
    ASSUME IInv, NEW r \in RunIds, NEW n \in Runs, Attempts(r, n),
           cooldown' \in BOOLEAN, running' \in BOOLEAN
    PROVE  IInv'
<1>1. /\ runs \in [RunIds -> Runs] /\ iteration \in 0 .. started /\ log \in Seq(Entries)
      /\ triggerBlocked \in BOOLEAN /\ epochs \subseteq RunIds /\ txs \subseteq Transactions
      /\ rateLimited \in BOOLEAN /\ cache \subseteq ReadViews /\ Cardinality(cache) <= 1
  BY DEF IInv, Types
<1>2. /\ iteration' = iteration /\ triggerBlocked' = triggerBlocked /\ epochs' = epochs
      /\ log' = log /\ started' = started /\ rateLimited' = rateLimited /\ cache' = cache
  BY DEF Attempts, RunMoves, client
<1>3. RunMoves(r, n) /\ runs[r].pc = "submit" /\ runs[r] \in Runs
  BY <1>1 DEF Attempts
<1>4. /\ runs' \in [RunIds -> Runs]
      /\ runs'[r] = n
      /\ \A s \in RunIds : s # r => runs'[s] = runs[s]
      /\ started' \in 0 .. MaxRuns
      /\ GuardIsExact' /\ FreshRuns' /\ NoRunWhileCooling'
  BY <1>3, MovesKeepTheGuard
<1>5. /\ txs \subseteq txs' /\ txs' \subseteq Transactions
      /\ \A s \in RunIds : s # r => TxsOf(s)' = TxsOf(s)
  <2>. DEFINE tx == [run |-> r, try |-> Try(r), alloc |-> runs[r].rec]
  <2>1. Try(r) \in Nat /\ runs[r].rec \in Allocations
    BY <1>3 DEF Try, Runs
  <2>2. tx \in Transactions /\ tx.run = r
    BY <2>1 DEF Transactions
  <2>3. txs' = txs \/ txs' = txs \cup {tx}
    BY DEF Attempts, Accepted
  <2>. HIDE DEF tx
  <2>. QED  BY <1>1, <2>2, <2>3 DEF TxsOf
<1>6. Types'
  BY <1>1, <1>2, <1>4, <1>5 DEF Types
<1>7. FlagWaitsForItsRun'
  <2>1. ~n.limited
    BY DEF Attempts
  <2>. QED  BY <1>2, <1>4, <2>1 DEF IInv, FlagWaitsForItsRun
<1>8. AttemptsLeft'
  <2>1. n.tries <= MaxTries /\ (n.pc = "submit" => n.tries < MaxTries)
        /\ n.pc \notin BeforeSubmit
    BY DEF Attempts, BeforeSubmit
  <2>. QED  BY <1>4, <2>1 DEF IInv, AttemptsLeft
<1>9. NodeAgreesWithRun'
  <2>1. \A s \in RunIds : s # r =>
           /\ runs'[s].pc \in BeforeSubmit => TxsOf(s)' = {}
           /\ runs'[s].pc = "log" /\ runs'[s].outcome \in {"gate", "rate limited"}
                 => TxsOf(s)' = {}
           /\ runs'[s].pc = "log" /\ runs'[s].outcome = "acted"
                 => \E tx \in TxsOf(s)' : tx.try = runs'[s].tries
    BY <1>4, <1>5 DEF IInv, NodeAgreesWithRun
  <2>2. n.pc \notin BeforeSubmit
        /\ (n.pc = "log" => n.outcome \notin {"gate", "rate limited"})
    BY DEF Attempts, BeforeSubmit
  <2>3. ASSUME n.pc = "log", n.outcome = "acted"
        PROVE  \E tx \in TxsOf(r)' : tx.try = n.tries
    <3>1. Accepted(r) /\ n.tries = Try(r)
      BY <2>3 DEF Attempts
    <3>2. [run |-> r, try |-> Try(r), alloc |-> runs[r].rec] \in TxsOf(r)'
      BY <3>1 DEF Accepted, TxsOf
    <3>. QED  BY <3>1, <3>2
  <2>. QED  BY <1>4, <2>1, <2>2, <2>3 DEF NodeAgreesWithRun
<1>10. Logged' = Logged /\ \A entry \in Logged : entry.run \in RunIds /\ entry.run # r
  <2>1. \A entry \in Logged : entry.run \in RunIds
    BY <1>1, LoggedAreEntries DEF Entries
  <2>2. \A entry \in Logged : entry.run # r
    BY <1>3 DEF IInv, EntriesAreOver
  <2>. QED  BY <1>2, <2>1, <2>2 DEF Logged
<1>11. EntriesAreOver'
  BY <1>4, <1>10 DEF IInv, EntriesAreOver
<1>12. LogTellsTheTruth'
  BY <1>5, <1>10 DEF IInv, LogTellsTheTruth
<1>13. EpochFollowsItsEntry'
  BY <1>2, <1>10 DEF IInv, EpochFollowsItsEntry
<1>. QED  BY <1>4, <1>6, <1>7, <1>8, <1>9, <1>11, <1>12, <1>13 DEF IInv

LEMMA SubmitKeepsInvariant ==
    ASSUME IInv, NEW r \in RunIds, Submit(r)
    PROVE  IInv'
<1>1. /\ runs \in [RunIds -> Runs] /\ running \in BOOLEAN /\ cooldown \in BOOLEAN
  BY DEF IInv, Types
<1>2. /\ runs[r] \in Runs /\ runs[r].pc = "submit" /\ started' = started
      /\ UNCHANGED <<iteration, client, triggerBlocked, epochs, log>>
  BY <1>1 DEF Submit
<1>3. /\ ~runs[r].limited /\ Try(r) \in Nat /\ runs[r].tries \in Nat /\ MaxTries \in Nat
      /\ Try(r) <= MaxTries /\ runs[r].tries <= MaxTries
  <2>1. runs[r].tries \in Nat /\ MaxTries \in Nat
    BY <1>2, AgentAssumption DEF Runs
  <2>2. ~runs[r].limited /\ runs[r].tries < MaxTries /\ runs[r].tries <= MaxTries
    BY <1>2 DEF IInv, FlagWaitsForItsRun, AttemptsLeft
  <2>. QED  BY <2>1, <2>2 DEF Try
<1>4. ASSUME Accepted(r), running' = FALSE, cooldown' = cooldown,
             runs' = [runs EXCEPT ![r].pc = "log", ![r].tries = Try(r),
                                  ![r].outcome = "acted"]
      PROVE  IInv'
  <2>. DEFINE n == [runs[r] EXCEPT !.pc = "log", !.tries = Try(r), !.outcome = "acted"]
  <2>1. /\ n \in Runs /\ n.pc = "log" /\ n.tries = Try(r) /\ n.outcome = "acted"
        /\ n.limited = runs[r].limited
    BY <1>2, <1>3 DEF Runs, Stages, Outcomes
  <2>2. runs' = [runs EXCEPT ![r] = n]
    BY <1>1, <1>4
  <2>. HIDE DEF n
  <2>3. RunMoves(r, n)
    BY <1>2, <1>4, <2>1, <2>2 DEF RunMoves, Active
  <2>4. Attempts(r, n)
    BY <1>2, <1>3, <1>4, <2>1, <2>3 DEF Attempts
  <2>. QED  BY <1>1, <1>4, <2>1, <2>4, AttemptsKeepInvariant
<1>5. ASSUME NEW is429 \in BOOLEAN, Retry(r, is429), txs' = txs \/ Accepted(r)
      PROVE  IInv'
  <2>1. CASE /\ Try(r) < MaxTries
             /\ runs' = [runs EXCEPT ![r].tries = Try(r)]
             /\ UNCHANGED <<running, cooldown>>
    <3>. DEFINE n == [runs[r] EXCEPT !.tries = Try(r)]
    <3>1. /\ n \in Runs /\ n.pc = "submit" /\ n.tries = Try(r)
          /\ n.limited = runs[r].limited
      BY <1>2, <1>3 DEF Runs
    <3>2. runs' = [runs EXCEPT ![r] = n]
      BY <1>1, <2>1
    <3>. HIDE DEF n
    <3>3. RunMoves(r, n)
      BY <1>2, <2>1, <3>1, <3>2 DEF RunMoves, Active
    <3>4. Attempts(r, n)
      BY <1>2, <1>3, <1>5, <2>1, <3>1, <3>3 DEF Attempts
    <3>. QED  BY <1>1, <2>1, <3>1, <3>4, AttemptsKeepInvariant
  <2>2. CASE Fail(r, is429)
    <3>. DEFINE n == [runs[r] EXCEPT !.pc = "log", !.outcome = "error"]
    <3>1. /\ n \in Runs /\ n.pc = "log" /\ n.outcome = "error"
          /\ n.tries = runs[r].tries /\ n.limited = runs[r].limited
          /\ runs' = [runs EXCEPT ![r] = n]
          /\ running' = FALSE /\ cooldown' \in BOOLEAN
      BY <2>2, FailFacts
    <3>. HIDE DEF n
    <3>2. RunMoves(r, n)
      BY <1>2, <3>1 DEF RunMoves, Active
    <3>3. Attempts(r, n)
      BY <1>2, <1>3, <1>5, <3>1, <3>2 DEF Attempts
    <3>. QED  BY <1>1, <3>1, <3>3, AttemptsKeepInvariant
  <2>. QED  BY <1>5, <2>1, <2>2 DEF Retry
<1>. QED  BY <1>4, <1>5 DEF Submit

\* What a run that is over keeps: nothing, and it is over for good.
LEMMA AppendLogKeepsInvariant ==
    ASSUME IInv, NEW r \in RunIds, AppendLog(r)
    PROVE  IInv'
<1>1. /\ runs \in [RunIds -> Runs] /\ iteration \in 0 .. started /\ log \in Seq(Entries)
      /\ triggerBlocked \in BOOLEAN /\ epochs \subseteq RunIds /\ txs \subseteq Transactions
      /\ rateLimited \in BOOLEAN /\ cache \subseteq ReadViews /\ Cardinality(cache) <= 1
      /\ running \in BOOLEAN /\ cooldown \in BOOLEAN
  BY DEF IInv, Types
<1>2. /\ runs[r] \in Runs /\ runs[r].pc = "log"
      /\ UNCHANGED <<iteration, running, cooldown, client, triggerBlocked, started, txs>>
  BY <1>1 DEF AppendLog
<1>3. PICK pc \in {"done", "lost"} :
         /\ runs' = [runs EXCEPT ![r] = Over(pc)]
         /\ \/ pc = "done" /\ log' = Append(log, EntryOf(r)) /\ SpawnEpoch(r)
            \/ log' = log /\ epochs' = epochs
  BY DEF AppendLog
<1>. DEFINE n == Over(pc)
<1>4. n \in Runs /\ n.pc = pc /\ n.tries = 0 /\ n.limited = FALSE
  BY RunTypes DEF Stages
<1>5. runs' = [runs EXCEPT ![r] = n]
  BY <1>3
<1>. HIDE DEF n
<1>6. RunMoves(r, n)
  BY <1>2, <1>4, <1>5 DEF RunMoves, Active
<1>7. /\ runs' \in [RunIds -> Runs]
      /\ runs'[r] = n
      /\ \A s \in RunIds : s # r => runs'[s] = runs[s]
      /\ started' \in 0 .. MaxRuns
      /\ GuardIsExact' /\ FreshRuns' /\ NoRunWhileCooling'
  BY <1>4, <1>6, MovesKeepTheGuard
<1>8. /\ EntryOf(r) \in Entries /\ EntryOf(r).run = r
      /\ EntryOf(r).outcome = runs[r].outcome
      /\ runs[r].outcome = "acted" => EntryOf(r).tx = runs[r].tries
  BY <1>2 DEF EntryOf, Entries, Runs
<1>. DEFINE entry == EntryOf(r)
<1>9. \/ /\ pc = "done" /\ log' = Append(log, entry) /\ SpawnEpoch(r)
         /\ log' \in Seq(Entries) /\ Logged' = Logged \cup {entry}
      \/ log' = log /\ Logged' = Logged /\ epochs' = epochs
  BY <1>1, <1>3, <1>8, AppendedIsLogged DEF Logged
<1>10. Types'
  <2>1. log' \in Seq(Entries) /\ epochs' \subseteq RunIds
    BY <1>1, <1>9 DEF SpawnEpoch
  <2>. QED  BY <1>1, <1>2, <1>7, <2>1 DEF Types, client
<1>11. FlagWaitsForItsRun'
  BY <1>2, <1>4, <1>7 DEF IInv, FlagWaitsForItsRun, client
<1>12. AttemptsLeft'
  <2>1. n.tries <= MaxTries /\ n.tries = 0 /\ n.pc # "submit"
    BY <1>4, AgentAssumption
  <2>. QED  BY <1>7, <2>1 DEF IInv, AttemptsLeft
<1>13. \A s \in RunIds : TxsOf(s)' = TxsOf(s)
  BY <1>2 DEF TxsOf
<1>14. NodeAgreesWithRun'
  <2>1. n.pc \notin BeforeSubmit /\ n.pc # "log"
    BY <1>4 DEF BeforeSubmit
  <2>. QED  BY <1>7, <1>13, <2>1 DEF IInv, NodeAgreesWithRun
<1>15. \A e \in Logged : e.run \in RunIds /\ e.run # r /\ runs'[e.run] = runs[e.run]
  <2>1. \A e \in Logged : e.run \in RunIds
    BY <1>1, LoggedAreEntries DEF Entries
  <2>2. \A e \in Logged : e.run # r
    BY <1>2 DEF IInv, EntriesAreOver
  <2>. QED  BY <1>7, <2>1, <2>2
<1>16. EntriesAreOver'
  <2>1. pc = "done" => runs'[entry.run].pc = "done"
    BY <1>4, <1>7, <1>8
  <2>. QED  BY <1>9, <1>15, <2>1 DEF IInv, EntriesAreOver
<1>17. LogTellsTheTruth'
  <2>1. Logged' \subseteq Logged \cup {entry}
    BY <1>9
  <2>2. /\ runs[r].outcome = "acted" => \E tx \in TxsOf(r) : tx.try = runs[r].tries
        /\ runs[r].outcome \in {"gate", "rate limited"} => TxsOf(r) = {}
    BY <1>2 DEF IInv, NodeAgreesWithRun
  <2>3. ASSUME NEW e \in Logged'
        PROVE  /\ e.outcome = "acted" => \E tx \in TxsOf(e.run)' : tx.try = e.tx
               /\ e.outcome \in {"gate", "rate limited"} => TxsOf(e.run)' = {}
    <3>1. CASE e \in Logged
      BY <1>13, <1>15, <3>1 DEF IInv, LogTellsTheTruth
    <3>2. CASE e = entry
      BY <1>8, <1>13, <2>2, <3>2
    <3>. QED  BY <2>1, <2>3, <3>1, <3>2
  <2>. QED  BY <2>3 DEF LogTellsTheTruth
<1>18. EpochFollowsItsEntry'
  <2>1. epochs' \subseteq epochs \cup {r}
    BY <1>9 DEF SpawnEpoch
  <2>. QED  BY <1>8, <1>9, <2>1 DEF IInv, EpochFollowsItsEntry
<1>. QED  BY <1>7, <1>10, <1>11, <1>12, <1>14, <1>16, <1>17, <1>18 DEF IInv

-----------------------------------------------------------------------------
(* Starting a run.                                                         *)

\* A run that starts takes a number nobody has used, holds nothing of another
\* run, and is the only active one.
LEMMA IterateKeepsInvariant ==
    ASSUME IInv, Iterate, triggerBlocked' \in BOOLEAN,
           UNCHANGED <<cooldown, client, epochs, outside>>
    PROVE  IInv'
<1>. DEFINE r == started + 1
<1>1. /\ runs \in [RunIds -> Runs] /\ iteration \in 0 .. started /\ log \in Seq(Entries)
      /\ epochs \subseteq RunIds /\ txs \subseteq Transactions
      /\ rateLimited \in BOOLEAN /\ cache \subseteq ReadViews /\ Cardinality(cache) <= 1
      /\ running \in BOOLEAN /\ cooldown \in BOOLEAN /\ started \in 0 .. MaxRuns
  BY DEF IInv, Types
<1>2. /\ ~running /\ ~cooldown /\ started < MaxRuns /\ started' = r /\ running' = TRUE
      /\ iteration' = iteration + 1
      /\ cooldown' = cooldown /\ rateLimited' = rateLimited /\ cache' = cache
      /\ epochs' = epochs /\ log' = log /\ txs' = txs
  BY DEF Iterate, MayStart, client, outside
<1>3. /\ r \in RunIds /\ r > started /\ started' \in 0 .. MaxRuns
      /\ iteration' \in 0 .. started' /\ iteration' \in Nat
  BY <1>1, <1>2, AgentAssumption DEF RunIds
<1>4. runs[r] = NewRun
  BY <1>3 DEF IInv, FreshRuns
<1>5. PICK n \in Runs :
         /\ runs' = [runs EXCEPT ![r] = n]
         /\ n.pc \in {"vault", "reputation"} /\ n.tries = 0 /\ n.limited = FALSE
  <2>1. NewRun \in Runs /\ NewRun.tries = 0 /\ NewRun.limited = FALSE
    BY RunTypes
  <2>2. CASE runs' = [runs EXCEPT ![r].pc = "vault", ![r].iteration = iteration']
    <3>. DEFINE m == [runs[r] EXCEPT !.pc = "vault", !.iteration = iteration']
    <3>1. /\ m \in Runs /\ m.pc = "vault" /\ m.tries = 0 /\ m.limited = FALSE
      BY <1>3, <1>4, <2>1 DEF Runs, Stages, Active
    <3>2. runs' = [runs EXCEPT ![r] = m]
      BY <1>1, <1>3, <2>2
    <3>. QED  BY <3>1, <3>2
  <2>3. ASSUME NEW view \in cache,
               runs' = [runs EXCEPT ![r].pc = "reputation", ![r].iteration = iteration',
                                    ![r].view = view]
        PROVE  \E n \in Runs :
                  /\ runs' = [runs EXCEPT ![r] = n]
                  /\ n.pc \in {"vault", "reputation"} /\ n.tries = 0 /\ n.limited = FALSE
    <3>. DEFINE m == [runs[r] EXCEPT !.pc = "reputation", !.iteration = iteration',
                                     !.view = view]
    <3>1. view \in Views
      BY <1>1, <2>3 DEF ReadViews
    <3>2. /\ m \in Runs /\ m.pc = "reputation" /\ m.tries = 0 /\ m.limited = FALSE
      BY <1>3, <1>4, <2>1, <3>1 DEF Runs, Stages, Active
    <3>3. runs' = [runs EXCEPT ![r] = m]
      BY <1>1, <1>3, <2>3
    <3>. QED  BY <3>2, <3>3
  <2>4. \/ runs' = [runs EXCEPT ![r].pc = "vault", ![r].iteration = iteration']
        \/ \E view \in cache :
              runs' = [runs EXCEPT ![r].pc = "reputation", ![r].iteration = iteration',
                                   ![r].view = view]
    BY <1>2 DEF Iterate
  <2>. QED  BY <2>2, <2>3, <2>4
<1>6. /\ runs' \in [RunIds -> Runs]
      /\ runs'[r] = n
      /\ \A s \in RunIds : s # r => runs'[s] = runs[s]
  BY <1>1, <1>3, <1>5, OneRecordChanges
<1>. HIDE DEF r
<1>7. Types'
  BY <1>1, <1>2, <1>3, <1>6 DEF Types
<1>8. n.pc \in Active /\ n.pc \in BeforeSubmit /\ n.pc # "submit" /\ n.pc # "log"
  BY <1>5 DEF Active, BeforeSubmit
<1>9. GuardIsExact'
  <2>1. \A s \in RunIds : runs[s].pc \notin Active
    BY <1>2 DEF IInv, GuardIsExact
  <2>. QED  BY <1>2, <1>3, <1>6, <1>8, <2>1 DEF GuardIsExact
<1>10. FreshRuns'
  <2>1. \A s \in RunIds : s > r => s # r /\ s > started
    BY <1>1 DEF r, RunIds
  <2>. QED  BY <1>2, <1>6, <2>1 DEF IInv, FreshRuns
<1>11. NoRunWhileCooling'
  BY <1>2 DEF NoRunWhileCooling
<1>12. FlagWaitsForItsRun'
  BY <1>2, <1>5, <1>6 DEF IInv, FlagWaitsForItsRun
<1>13. AttemptsLeft'
  <2>1. n.tries = 0 /\ n.tries <= MaxTries
    BY <1>5, AgentAssumption
  <2>. QED  BY <1>6, <1>8, <2>1 DEF IInv, AttemptsLeft
<1>14. \A s \in RunIds : TxsOf(s)' = TxsOf(s)
  BY <1>2 DEF TxsOf
<1>15. runs[r].pc \in BeforeSubmit /\ runs[r].pc # "done"
  BY <1>4, RunTypes DEF BeforeSubmit
<1>16. NodeAgreesWithRun'
  <2>1. TxsOf(r) = {}
    BY <1>3, <1>15 DEF IInv, NodeAgreesWithRun
  <2>. QED  BY <1>6, <1>8, <1>14, <2>1 DEF IInv, NodeAgreesWithRun
<1>17. Logged' = Logged
  BY <1>2 DEF Logged
<1>18. EntriesAreOver'
  <2>1. \A e \in Logged : e.run \in RunIds /\ e.run # r
    BY <1>1, <1>15, LoggedAreEntries DEF IInv, EntriesAreOver, Entries
  <2>. QED  BY <1>6, <1>17, <2>1 DEF IInv, EntriesAreOver
<1>19. LogTellsTheTruth'
  BY <1>2, <1>17 DEF IInv, LogTellsTheTruth, TxsOf
<1>20. EpochFollowsItsEntry'
  BY <1>2, <1>17 DEF IInv, EpochFollowsItsEntry
<1>. QED  BY <1>7, <1>9, <1>10, <1>11, <1>12, <1>13, <1>16, <1>18, <1>19, <1>20 DEF IInv

-----------------------------------------------------------------------------
(* Time, a declined trigger and the process dying.                         *)

\* Time only takes: a cached state, the cooldown, the trigger's hold-back.
LEMMA TimeKeepsInvariant ==
    ASSUME IInv,
           UNCHANGED <<iteration, running, rateLimited, runs, started, epochs, outside>>,
           cache' = cache \/ cache' = {},
           cooldown' = cooldown \/ cooldown' = FALSE,
           triggerBlocked' \in BOOLEAN
    PROVE  IInv'
<1>1. Types'
  <2>1. cache' \subseteq ReadViews /\ Cardinality(cache') <= 1
    <3>1. Cardinality({}) = 0 /\ cache \subseteq ReadViews /\ Cardinality(cache) <= 1
      BY FS_EmptySet DEF IInv, Types
    <3>. QED  BY <3>1
  <2>2. cooldown' \in BOOLEAN
    BY DEF IInv, Types
  <2>. QED  BY <2>1, <2>2 DEF IInv, Types, outside
<1>2. Logged' = Logged /\ \A s \in RunIds : TxsOf(s)' = TxsOf(s)
  BY DEF Logged, TxsOf, outside
<1>3. GuardIsExact' /\ FreshRuns' /\ NoRunWhileCooling' /\ FlagWaitsForItsRun' /\ AttemptsLeft'
  BY DEF IInv, GuardIsExact, FreshRuns, NoRunWhileCooling, FlagWaitsForItsRun, AttemptsLeft
<1>4. NodeAgreesWithRun' /\ EntriesAreOver'
  BY <1>2 DEF IInv, NodeAgreesWithRun, EntriesAreOver
<1>5. LogTellsTheTruth' /\ EpochFollowsItsEntry'
  BY <1>2 DEF IInv, LogTellsTheTruth, EpochFollowsItsEntry, TxsOf, outside
<1>. QED  BY <1>1, <1>3, <1>4, <1>5 DEF IInv

\* A crash ends every run that was not over, and what is on disk and at the node
\* stays.
LEMMA CrashKeepsInvariant ==
    ASSUME IInv, Crash
    PROVE  IInv'
<1>1. /\ runs \in [RunIds -> Runs] /\ log \in Seq(Entries) /\ epochs \subseteq RunIds
      /\ txs \subseteq Transactions /\ started \in 0 .. MaxRuns
  BY DEF IInv, Types
<1>2. /\ iteration' = 0 /\ running' = FALSE /\ cooldown' = FALSE /\ rateLimited' = FALSE
      /\ cache' = {} /\ triggerBlocked' = FALSE
      /\ started' = started /\ epochs' = epochs /\ log' = log /\ txs' = txs
  BY DEF Crash, outside
<1>3. Over("lost") \in Runs /\ Over("lost").pc = "lost" /\ Over("lost").tries = 0
      /\ Over("lost").limited = FALSE
  BY RunTypes DEF Stages
<1>4. /\ runs' \in [RunIds -> Runs]
      /\ \A s \in RunIds :
            \/ runs[s].pc \in Active \cup {"log"} /\ runs'[s] = Over("lost")
            \/ runs[s].pc \notin Active \cup {"log"} /\ runs'[s] = runs[s]
  BY <1>1, <1>3 DEF Crash
<1>5. \A s \in RunIds : runs'[s].pc \notin Active /\ runs'[s].pc # "log"
                        /\ runs'[s].pc # "submit"
  BY <1>3, <1>4 DEF Active
<1>6. Types'
  <2>1. Cardinality(cache') <= 1 /\ cache' \subseteq ReadViews /\ 0 \in 0 .. started
    BY <1>1, <1>2, FS_EmptySet, AgentAssumption
  <2>. QED  BY <1>1, <1>2, <1>4, <2>1 DEF Types
<1>7. GuardIsExact' /\ NoRunWhileCooling'
  BY <1>2, <1>5 DEF GuardIsExact, NoRunWhileCooling
<1>8. FreshRuns'
  <2>1. NewRun.pc \notin Active \cup {"log"}
    BY RunTypes DEF Active
  <2>. QED  BY <1>2, <1>4, <2>1 DEF IInv, FreshRuns
<1>9. FlagWaitsForItsRun'
  BY <1>5 DEF FlagWaitsForItsRun
<1>10. AttemptsLeft'
  <2>1. Over("lost").tries = 0 /\ Over("lost").tries <= MaxTries
    BY <1>3, AgentAssumption
  <2>. QED  BY <1>4, <1>5, <2>1 DEF IInv, AttemptsLeft
<1>11. Logged' = Logged /\ \A s \in RunIds : TxsOf(s)' = TxsOf(s)
  BY <1>2 DEF Logged, TxsOf
<1>12. NodeAgreesWithRun'
  <2>1. Over("lost").pc \notin BeforeSubmit
    BY <1>3 DEF BeforeSubmit
  <2>. QED  BY <1>4, <1>5, <1>11, <2>1 DEF IInv, NodeAgreesWithRun
<1>13. EntriesAreOver'
  <2>1. \A e \in Logged : e.run \in RunIds /\ runs[e.run].pc \notin Active \cup {"log"}
    BY <1>1, LoggedAreEntries DEF IInv, EntriesAreOver, Entries, Active
  <2>. QED  BY <1>4, <1>11, <2>1 DEF IInv, EntriesAreOver
<1>14. LogTellsTheTruth' /\ EpochFollowsItsEntry'
  BY <1>2, <1>11 DEF IInv, LogTellsTheTruth, EpochFollowsItsEntry, TxsOf
<1>. QED  BY <1>6, <1>7, <1>8, <1>9, <1>10, <1>12, <1>13, <1>14 DEF IInv

-----------------------------------------------------------------------------
(* The invariant holds in every reachable state.                           *)

LEMMA InitInvariant == Init => IInv
<1>. SUFFICES ASSUME Init PROVE IInv
  OBVIOUS
<1>1. NewRun \in Runs /\ NewRun.pc = "new" /\ NewRun.tries = 0 /\ NewRun.limited = FALSE
  BY RunTypes
<1>2. /\ runs \in [RunIds -> Runs] /\ \A r \in RunIds : runs[r] = NewRun
      /\ log = << >> /\ txs = {} /\ epochs = {} /\ cache = {} /\ started = 0
      /\ iteration = 0 /\ running = FALSE /\ cooldown = FALSE /\ rateLimited = FALSE
      /\ triggerBlocked = FALSE
  BY <1>1 DEF Init
<1>3. Logged = {}
  BY <1>2 DEF Logged
<1>4. Types
  <2>1. Cardinality({}) <= 1
    BY FS_EmptySet
  <2>2. 0 \in 0 .. started /\ started \in 0 .. MaxRuns
    BY <1>2, AgentAssumption
  <2>. QED  BY <1>2, <2>1, <2>2, EmptySeq DEF Types
<1>5. \A r \in RunIds : /\ runs[r].pc = "new" /\ runs[r].tries = 0
                        /\ runs[r].limited = FALSE /\ TxsOf(r) = {}
  BY <1>1, <1>2 DEF TxsOf
<1>6. GuardIsExact /\ FreshRuns /\ NoRunWhileCooling
  BY <1>2, <1>5 DEF GuardIsExact, FreshRuns, NoRunWhileCooling, Active
<1>7. FlagWaitsForItsRun /\ NodeAgreesWithRun
  BY <1>5 DEF FlagWaitsForItsRun, NodeAgreesWithRun
<1>8. AttemptsLeft
  <2>1. 0 <= MaxTries
    BY AgentAssumption
  <2>. QED  BY <1>5, <2>1 DEF AttemptsLeft
<1>9. EntriesAreOver /\ LogTellsTheTruth /\ EpochFollowsItsEntry
  BY <1>2, <1>3 DEF EntriesAreOver, LogTellsTheTruth, EpochFollowsItsEntry
<1>. QED  BY <1>4, <1>6, <1>7, <1>8, <1>9 DEF IInv

LEMMA StepKeepsInvariant == IInv /\ [Next]_vars => IInv'
<1>. SUFFICES ASSUME IInv, [Next]_vars PROVE IInv'
  OBVIOUS
<1>1. triggerBlocked \in BOOLEAN
  BY DEF IInv, Types
<1>2. CASE Tick
  BY <1>1, <1>2, IterateKeepsInvariant DEF Tick
<1>3. CASE Trigger
  <2>1. CASE Iterate
    BY <1>3, <2>1, IterateKeepsInvariant DEF Trigger
  <2>2. CASE UNCHANGED <<started, running, iteration, runs>>
    BY <1>3, <2>2, TimeKeepsInvariant DEF Trigger, client, outside
  <2>. QED  BY <1>3, <2>1, <2>2 DEF Trigger
<1>4. ASSUME NEW r \in RunIds, RunStep(r)
      PROVE  IInv'
  BY <1>4, ReadVaultKeepsInvariant, ReadReputationKeepsInvariant, AskOracleKeepsInvariant,
     DecideKeepsInvariant, SubmitKeepsInvariant, AppendLogKeepsInvariant DEF RunStep
<1>5. CASE CacheExpires \/ CooldownEnds \/ TriggerUnblocks
  BY <1>1, <1>5, TimeKeepsInvariant
  DEF CacheExpires, CooldownEnds, TriggerUnblocks, client, outside
<1>6. CASE Crash
  BY <1>6, CrashKeepsInvariant
<1>7. CASE UNCHANGED vars
  BY <1>1, <1>7, TimeKeepsInvariant DEF vars, client, outside
<1>. QED  BY <1>2, <1>3, <1>4, <1>5, <1>6, <1>7 DEF Next

\* The inductive invariant of the agent process holds throughout.
THEOREM Invariant == Spec => []IInv
BY InitInvariant, StepKeepsInvariant, PTL DEF Spec

\* Types, within the attempts of withRetry; and the cache never holds a placeholder.
THEOREM TypesHold == Spec => []TypeOK
<1>1. IInv => TypeOK
  <2>. SUFFICES ASSUME IInv PROVE TypeOK
    OBVIOUS
  <2>1. iteration \in 0 .. MaxRuns
    BY AgentAssumption DEF IInv, Types
  <2>2. Logged \subseteq Entries
    BY LoggedAreEntries DEF IInv, Types
  <2>3. \A r \in RunIds : runs[r].tries <= MaxTries
    BY DEF IInv, AttemptsLeft
  <2>4. {running, cooldown, rateLimited, triggerBlocked} \subseteq BOOLEAN
    BY DEF IInv, Types
  <2>. QED  BY <2>1, <2>2, <2>3, <2>4 DEF IInv, Types, TypeOK
<1>. QED  BY <1>1, Invariant, PTL

\* The overlap guard of tick and runOnce is set exactly while one run is between
\* its start and its decision, however runs end, and two never are.
THEOREM OneRun == Spec => []OneRunAtATime
<1>1. IInv => OneRunAtATime
  <2>. SUFFICES ASSUME IInv PROVE OneRunAtATime
    OBVIOUS
  <2>1. ASSUME running PROVE Cardinality(ActiveRuns) = 1
    <3>1. PICK r \in RunIds : runs[r].pc \in Active
      BY <2>1 DEF IInv, GuardIsExact
    <3>2. ActiveRuns = {r}
      BY <3>1 DEF IInv, GuardIsExact, ActiveRuns
    <3>. QED  BY <3>2, FS_Singleton
  <2>2. ~running => ActiveRuns = {}
    BY DEF IInv, GuardIsExact, ActiveRuns
  <2>. QED  BY <2>1, <2>2 DEF OneRunAtATime
<1>. QED  BY <1>1, Invariant, PTL

\* No run perceives or acts while the agent backs off after a 429.
THEOREM NoRunInCooldown == Spec => []CooldownStopsRuns
<1>1. IInv => CooldownStopsRuns
  BY DEF IInv, NoRunWhileCooling, CooldownStopsRuns, ActiveRuns
<1>. QED  BY <1>1, Invariant, PTL

\* A run whose own reads were rate limited never comes to submit: the flag its
\* read raised is still up at gate 7.
THEOREM LimitedRunsStop == Spec => []LimitedRunNeverSubmits
<1>1. IInv => LimitedRunNeverSubmits
  BY DEF IInv, FlagWaitsForItsRun, LimitedRunNeverSubmits
<1>. QED  BY <1>1, Invariant, PTL

\* What the decision log says of a run is what the node had of it, through lost
\* answers, retries, crashes and entries that could not be written.
THEOREM LogIsTrue == Spec => []LogTellsTheTruth
<1>1. IInv => LogTellsTheTruth
  BY DEF IInv
<1>. QED  BY <1>1, Invariant, PTL

\* Every reputation epoch was spawned by a run whose entry is in the log.
THEOREM EpochsAreLogged == Spec => []EpochFollowsItsEntry
<1>1. IInv => EpochFollowsItsEntry
  BY DEF IInv
<1>. QED  BY <1>1, Invariant, PTL

-----------------------------------------------------------------------------
(* What the watches say, of whatever is sent.  AgentChain has the runs in  *)
(* less detail and its own record of the transactions: those with a watch. *)

CONSTANTS
    Target,             \* as in AgentChain
    MaxPolls,
    Slots
VARIABLES
    pc, view, rec, attempts,
    seen,               \* the cache of AgentChain
    settled, vault,
    followed            \* its transactions

W == INSTANCE AgentChain WITH tries <- attempts, cache <- seen, txs <- followed

Reports == [alloc : Allocations,
            exec : {"none", "pending", "success", "failure", "expired"},
            polls : 0 .. MaxPolls,
            said : {"nothing", "confirmed", "failed", "timeout"}]

TruthOf(t) ==
    /\ t.said = "confirmed" => t.exec = "success"
    /\ t.said = "failed" => t.exec = "failure"

\* The inductive invariant; the cache without a cardinality.
WatchInv ==
    /\ pc \in {"idle", "decide", "submit"}
    /\ view \in W!Views
    /\ rec \in Allocations
    /\ attempts \in 0 .. MaxTries - 1
    /\ seen = {} \/ \E state \in W!Vaults : seen = {state}
    /\ vault \in W!Vaults
    /\ followed \in [Slots -> Reports]
    /\ \A s \in Slots : TruthOf(followed[s])

LEMMA WatchesStart == W!ChainAssumption /\ W!Init => WatchInv
<1>. SUFFICES ASSUME W!ChainAssumption, W!Init PROVE WatchInv
  OBVIOUS
<1>1. W!Free \in Reports /\ TruthOf(W!Free)
  BY DEF W!ChainAssumption, W!Free, Reports, TruthOf
<1>2. W!Placeholder \in W!Views
  BY DEF W!ChainAssumption, W!Placeholder, W!Views, W!Vaults
<1>3. followed \in [Slots -> Reports] /\ \A s \in Slots : TruthOf(followed[s])
  BY <1>1, Zenon DEF W!Init
<1>. QED  BY <1>2, <1>3 DEF WatchInv, W!Init, W!ChainAssumption, W!Vaults

\* A run: it reads, decides and sends, and what it sends is reported by nobody yet.
LEMMA RunKeepsReports ==
    ASSUME W!ChainAssumption, WatchInv, W!Perceive \/ W!Decide \/ W!Submit
    PROVE  WatchInv'
<1>1. CASE W!Perceive
  <2>1. /\ \A state \in seen : state \in W!Vaults
        /\ W!Placeholder \in W!Views
        /\ \A state \in W!Vaults : [state |-> state, real |-> TRUE] \in W!Views
    BY DEF WatchInv, W!ChainAssumption, W!Placeholder, W!Views, W!Vaults
  <2>2. view' \in W!Views /\ (seen' = seen \/ seen' = {vault})
    BY <1>1, <2>1 DEF W!Perceive, WatchInv
  <2>3. pc' = "decide" /\ UNCHANGED <<rec, attempts, vault, followed>>
    BY <1>1 DEF W!Perceive
  <2>4. seen' = {} \/ \E state \in W!Vaults : seen' = {state}
    BY <2>2 DEF WatchInv
  <2>. HIDE DEF W!Views, W!Vaults, Reports, TruthOf
  <2>. QED  BY <2>2, <2>3, <2>4 DEF WatchInv
<1>2. CASE W!Decide
  <2>1. pc' \in {"submit", "idle"} /\ rec' \in Allocations
    BY <1>2 DEF W!Decide, W!ChainAssumption
  <2>2. attempts' \in 0 .. MaxTries - 1
    BY <1>2 DEF W!Decide, W!ChainAssumption
  <2>3. UNCHANGED <<view, seen, vault, followed>>
    BY <1>2 DEF W!Decide
  <2>. QED  BY <2>1, <2>2, <2>3 DEF WatchInv
<1>3. CASE W!Submit
  <2>1. ASSUME NEW n \in {0, MaxPolls}
        PROVE  W!Transaction(n) \in Reports /\ TruthOf(W!Transaction(n))
    <3>1. n \in 0 .. MaxPolls /\ rec \in Allocations
      BY DEF W!ChainAssumption, WatchInv
    <3>2. W!Free \in [alloc : {EqualWeights}, exec : {"none"}, polls : {0}, said : {"nothing"}]
      BY DEF W!Free
    <3>3. W!Transaction(n) \in Reports
      BY <3>1, <3>2 DEF W!Transaction, Reports
    <3>4. W!Transaction(n).said = "nothing"
      BY <3>2 DEF W!Transaction
    <3>. QED  BY <3>3, <3>4 DEF TruthOf
  <2>2. W!RetryOrFail => attempts' \in 0 .. MaxTries - 1 /\ pc' \in {"idle", "submit"}
    BY <1>3 DEF W!RetryOrFail, W!Submit, W!ChainAssumption, WatchInv
  <2>3. attempts' \in 0 .. MaxTries - 1 /\ pc' \in {"idle", "submit"}
    <3>1. W!RetryOrFail \/ (pc' = "idle" /\ attempts' = 0)
      BY <1>3 DEF W!Submit
    <3>. QED  BY <2>2, <3>1 DEF W!ChainAssumption
  <2>4. \/ followed' = followed
        \/ \E s \in Slots, n \in {0, MaxPolls} : followed' = [followed EXCEPT ![s] = W!Transaction(n)]
    BY <1>3 DEF W!Submit
  <2>. HIDE DEF W!Transaction, TruthOf
  <2>5. followed' \in [Slots -> Reports] /\ \A s \in Slots : TruthOf(followed'[s])
    <3>1. CASE followed' = followed
      BY <3>1 DEF WatchInv
    <3>2. ASSUME NEW s \in Slots, NEW n \in {0, MaxPolls}, followed' = [followed EXCEPT ![s] = W!Transaction(n)]
          PROVE  followed' \in [Slots -> Reports] /\ \A z \in Slots : TruthOf(followed'[z])
      <4>. DEFINE t == W!Transaction(n)
      <4>1. t \in Reports /\ TruthOf(t)
        BY <2>1
      <4>2. followed' = [followed EXCEPT ![s] = t]
        BY <3>2
      <4>. HIDE DEF t
      <4>. QED  BY <4>1, <4>2 DEF WatchInv
    <3>. QED  BY <2>4, <3>1, <3>2
  <2>6. UNCHANGED <<view, rec, seen, vault>>
    BY <1>3 DEF W!Submit
  <2>. QED  BY <2>3, <2>5, <2>6 DEF WatchInv
<1>. QED  BY <1>1, <1>2, <1>3

\* A watch says what it was answered, and nothing is executed twice: what was said of an
\* execution remains so.
LEMMA ChainKeepsReports ==
    ASSUME W!ChainAssumption, WatchInv, NEW s \in Slots, W!Poll(s) \/ W!Execute(s) \/ W!Forget(s)
    PROVE  WatchInv'
<1>1. followed[s] \in Reports /\ TruthOf(followed[s])
  BY DEF WatchInv
<1>2. PICK t \in Reports : TruthOf(t) /\ followed' = [followed EXCEPT ![s] = t]
  <2>1. CASE W!Poll(s)
    <3>1. PICK status \in {W!StatusOf(followed[s].exec), "pending"} :
             followed' = IF status # "pending"
                         THEN [followed EXCEPT ![s].polls = 0, ![s].said = status]
                         ELSE [followed EXCEPT ![s].polls = @ - 1,
                                  ![s].said = IF followed[s].polls = 1 THEN "timeout" ELSE @]
      BY <2>1 DEF W!Poll
    <3>2. followed[s].polls \in 1 .. MaxPolls
      BY <1>1, <2>1 DEF W!Poll, Reports
    <3>. DEFINE u == [followed[s] EXCEPT !.polls = 0, !.said = status]
                said == IF followed[s].polls = 1 THEN "timeout" ELSE followed[s].said
                v == [followed[s] EXCEPT !.polls = followed[s].polls - 1, !.said = said]
    <3>3. CASE status # "pending"
      <4>1. \/ followed[s].exec = "failure" /\ status = "failed"
            \/ followed[s].exec = "success" /\ status = "confirmed"
        BY <3>1, <3>3 DEF W!StatusOf
      <4>2. u \in Reports /\ TruthOf(u)
        <5>1. 0 \in 0 .. MaxPolls /\ status \in {"confirmed", "failed"}
          BY <4>1 DEF W!ChainAssumption
        <5>2. u \in Reports
          BY <1>1, <5>1 DEF Reports
        <5>3. u.said = status /\ u.exec = followed[s].exec
          BY <1>1 DEF Reports
        <5>. QED  BY <4>1, <5>2, <5>3 DEF TruthOf
      <4>3. followed' = [followed EXCEPT ![s] = u]
        BY <3>1, <3>3 DEF WatchInv, Reports
      <4>. QED  BY <4>2, <4>3
    <3>4. CASE status = "pending"
      <4>1. v \in Reports /\ TruthOf(v)
        <5>. DEFINE left == followed[s].polls - 1
        <5>1. left \in 0 .. MaxPolls
          BY <3>2 DEF W!ChainAssumption
        <5>2. said = "timeout" \/ said = followed[s].said
          OBVIOUS
        <5>. HIDE DEF said, left
        <5>3. v = [followed[s] EXCEPT !.polls = left, !.said = said]
          BY DEF left
        <5>4. v \in Reports
          BY <1>1, <5>1, <5>2, <5>3 DEF Reports
        <5>5. v.said = said /\ v.exec = followed[s].exec
          BY <1>1, <5>3 DEF Reports
        <5>. QED  BY <1>1, <5>2, <5>4, <5>5 DEF TruthOf
      <4>2. followed' = [followed EXCEPT ![s] = v]
        BY <3>1, <3>4 DEF WatchInv, Reports
      <4>. QED  BY <4>1, <4>2
    <3>. QED  BY <3>3, <3>4
  <2>2. CASE W!Execute(s)
    <3>1. PICK e \in {"success", "failure", "expired"} : followed' = [followed EXCEPT ![s].exec = e]
      BY <2>2 DEF W!Execute
    <3>. DEFINE u == [followed[s] EXCEPT !.exec = e]
    <3>2. followed[s].said \notin {"confirmed", "failed"}
      BY <1>1, <2>2 DEF W!Execute, TruthOf
    <3>3. u \in Reports /\ TruthOf(u)
      BY <1>1, <3>2 DEF Reports, TruthOf
    <3>4. followed' = [followed EXCEPT ![s] = u]
      BY <3>1 DEF WatchInv
    <3>. QED  BY <3>3, <3>4
  <2>3. CASE W!Forget(s)
    <3>1. W!Free \in Reports /\ TruthOf(W!Free)
      <4>1. 0 \in 0 .. MaxPolls /\ EqualWeights \in Allocations
        BY AgentAssumption DEF W!ChainAssumption
      <4>. QED  BY <4>1 DEF W!Free, Reports, TruthOf
    <3>. QED  BY <2>3, <3>1 DEF W!Forget
  <2>. QED  BY <2>1, <2>2, <2>3
<1>. HIDE DEF TruthOf, Reports
<1>3. followed' \in [Slots -> Reports] /\ \A z \in Slots : TruthOf(followed'[z])
  BY <1>2 DEF WatchInv
<1>4. vault' \in W!Vaults
  <2>1. followed[s].alloc \in Allocations
    BY <1>1 DEF Reports
  <2>2. vault' = vault \/ vault' = [vault EXCEPT !.alloc = followed[s].alloc]
    BY DEF W!Poll, W!Execute, W!Forget
  <2>. QED  BY <2>1, <2>2 DEF WatchInv, W!Vaults
<1>5. UNCHANGED <<pc, view, rec, attempts, seen>>
  BY DEF W!Poll, W!Execute, W!Forget, W!run
<1>. QED  BY <1>3, <1>4, <1>5 DEF WatchInv

\* A background confirmation reports what the chain did, for any number of transactions,
\* attempts and polls, whether the node answers or not and in whatever order the
\* transactions are executed: the part of WatchesEndInTruth that is not liveness
\* (loop.ts, casper-tx-client.ts).
THEOREM WatchesAreTrue ==
    ASSUME W!ChainAssumption
    PROVE  W!Spec => [](W!TypeOK /\ W!WatchesTellTheTruth)
<1>1. W!Init => WatchInv
  BY WatchesStart
<1>2. WatchInv /\ [W!Next]_(W!vars) => WatchInv'
  <2>. SUFFICES ASSUME WatchInv, [W!Next]_(W!vars) PROVE WatchInv'
    OBVIOUS
  <2>1. CASE W!Perceive \/ W!Decide \/ W!Submit
    BY <2>1, RunKeepsReports
  <2>2. CASE \E s \in Slots : W!Poll(s) \/ W!Execute(s) \/ W!Forget(s)
    BY <2>2, ChainKeepsReports
  <2>3. CASE W!Settle \/ W!CacheExpires
    BY <2>3 DEF WatchInv, W!Settle, W!CacheExpires, W!run
  <2>4. CASE W!TogglePause
    <3>1. vault' \in W!Vaults
      BY <2>4 DEF W!TogglePause, WatchInv, W!Vaults
    <3>2. UNCHANGED <<pc, view, rec, attempts, seen, followed>>
      BY <2>4 DEF W!TogglePause, W!run
    <3>. QED  BY <3>1, <3>2 DEF WatchInv
  <2>5. CASE UNCHANGED W!vars
    BY <2>5 DEF WatchInv, W!vars
  <2>. QED  BY <2>1, <2>2, <2>3, <2>4, <2>5 DEF W!Next
<1>3. WatchInv => W!TypeOK /\ W!WatchesTellTheTruth
  <2>. SUFFICES ASSUME WatchInv PROVE W!TypeOK /\ W!WatchesTellTheTruth
    OBVIOUS
  <2>1. seen \subseteq W!Vaults /\ W!Cardinality(seen) <= 1
    <3>1. W!Cardinality(seen) = Cardinality(seen)
      BY Zenon DEF W!Cardinality, Cardinality
    <3>2. Cardinality(seen) <= 1
      BY FS_EmptySet, FS_Singleton DEF WatchInv
    <3>3. seen \subseteq W!Vaults
      BY DEF WatchInv
    <3>. QED  BY <3>1, <3>2, <3>3
  <2>2. W!WatchesTellTheTruth
    BY DEF WatchInv, TruthOf, W!WatchesTellTheTruth
  <2>3. W!TypeOK
    BY <2>1 DEF WatchInv, Reports, W!TypeOK
  <2>. QED  BY <2>2, <2>3
<1>. QED  BY <1>1, <1>2, <1>3, PTL DEF W!Spec
=============================================================================
