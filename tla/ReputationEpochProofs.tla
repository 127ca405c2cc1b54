----------------------- MODULE ReputationEpochProofs -----------------------
(***************************************************************************)
(* Theorems about ReputationEpoch: what the reputation epochs of the agent *)
(* judge and send, for every set of assets, every list of yields and every *)
(* window, number of attempts, runs and restarts.                          *)
(***************************************************************************)
EXTENDS ReputationEpoch, FiniteSetTheorems, SequenceTheorems, TLAPS

-----------------------------------------------------------------------------
(* The inductive invariant.                                                *)

Lines == Decisions \cup {Malformed}

EpochStages == {"none", "read", "oracle", "submit", "done"}

EpochRecords == [pc : EpochStages, line : Nat, seen : Nat, judged : SUBSET Decisions,
                 delta : {-1, 0, 1}, era : 0 .. Len(Sheets), tries : 0 .. MaxTries - 1]

Transactions == [epoch : RunIds, try : 1 .. MaxTries, judged : SUBSET Decisions,
                 delta : {-1, 1}]

Types ==
    /\ run \in 0 .. MaxRuns /\ iteration \in 0 .. run
    /\ era \in 1 .. Len(Sheets)
    /\ log \in Seq(Lines)
    /\ torn \in BOOLEAN
    /\ torn => log # << >> /\ log[Len(log)] = Malformed
    /\ epochs \in [RunIds -> EpochRecords]
    /\ lostAnswers \in [RunIds -> Nat]
    /\ txs \subseteq Transactions
    /\ executed \subseteq txs

RegistryTypes ==
    /\ registered \in [{Agent} -> BOOLEAN]
    /\ profiles \in [{Agent} -> [score : 0 .. MaxU64, totalDecisions : 0 .. MaxU64,
                                 totalCorrect : 0 .. MaxU64, registeredAt : Int]]
    /\ blockTime \in Nat
    /\ gained \in [{Agent} -> Nat] /\ lost \in [{Agent} -> Nat]

\* Runs to come have no epoch yet.
FreshEpochs == \A r \in RunIds : r > run => epochs[r] = NoEpoch

\* Where an epoch is tells whether it has a verdict, and whether it has sent
\* anything: the verdict is there exactly while it submits, and everything sent so
\* far repeats it, under an attempt of its own.
VerdictOf(r) ==
    /\ epochs[r].pc = "submit" <=> epochs[r].delta # 0
    /\ epochs[r].pc \in {"none", "read", "oracle"} => TxsOf(r) = {} /\ epochs[r].tries = 0
    /\ epochs[r].pc = "submit" =>
          /\ epochs[r].era \in 1 .. Len(Sheets)
          /\ epochs[r].judged # {}
          /\ epochs[r].delta = Delta(epochs[r].judged, Sheets[epochs[r].era])
          /\ Cardinality(TxsOf(r)) <= lostAnswers[r]
          /\ \A tx \in TxsOf(r) : /\ tx.try <= epochs[r].tries
                                  /\ tx.delta = epochs[r].delta
                                  /\ tx.judged = epochs[r].judged

\* An epoch knows the line its own run wrote, if that can be read at all.
KnowsLine(r) ==
    epochs[r].pc \in {"read", "oracle", "submit"} =>
        /\ epochs[r].line \in 1 .. Len(log)
        /\ log[epochs[r].line] = Malformed \/ log[epochs[r].line].run = r

\* What an epoch has read is still in the log, and the line of its own run is
\* among it when it was within the window.
JudgedInLog(r) ==
    epochs[r].pc \in {"oracle", "submit"} =>
        /\ epochs[r].judged \subseteq InLog
        /\ \A d \in epochs[r].judged : d.acted
        /\ IsFiniteSet(epochs[r].judged)
        /\ (/\ epochs[r].seen - epochs[r].line < Lookback * Epochs
            /\ log[epochs[r].line] # Malformed
            /\ log[epochs[r].line].acted)
           => log[epochs[r].line] \in epochs[r].judged

EpochsFit == \A r \in RunIds : VerdictOf(r) /\ KnowsLine(r) /\ JudgedInLog(r)

\* An attempt of an epoch is one transaction at most.
AttemptsAreNumbered ==
    \A s, t \in txs : s.epoch = t.epoch /\ s.try = t.try => s = t

IInv ==
    /\ Types
    /\ RegistryTypes
    /\ FreshEpochs
    /\ EpochsFit
    /\ AttemptsAreNumbered
    /\ OneVerdict
    /\ HashCoversActedDecisions

-----------------------------------------------------------------------------
(* Facts the steps share.                                                  *)

\* An epoch that was not spawned, one that is spawned and one that is over hold
\* nothing.
LEMMA EmptyEpochs ==
    /\ NoEpoch \in EpochRecords
    /\ NoEpoch.pc = "none" /\ NoEpoch.tries = 0 /\ NoEpoch.delta = 0
    /\ [NoEpoch EXCEPT !.pc = "done"] \in EpochRecords
    /\ [NoEpoch EXCEPT !.pc = "done"].pc = "done"
    /\ [NoEpoch EXCEPT !.pc = "done"].delta = 0
<1>1. 0 \in 0 .. MaxTries - 1 /\ 0 \in 0 .. Len(Sheets)
  BY EpochAssumption
<1>2. NoEpoch \in EpochRecords
  BY <1>1 DEF NoEpoch, EpochRecords, EpochStages
<1>. QED  BY <1>1, <1>2 DEF NoEpoch, EpochRecords, EpochStages

\* There are no more transactions than runs have attempts.
LEMMA TransactionsAreFew ==
    ASSUME txs \subseteq Transactions, AttemptsAreNumbered
    PROVE  /\ IsFiniteSet(txs)
           /\ Cardinality(txs) <= MaxRuns * MaxTries
           /\ Cardinality(txs) \in Nat
<1>. DEFINE Pairs == RunIds \X (1 .. MaxTries)
            f == [tx \in txs |-> <<tx.epoch, tx.try>>]
<1>1. MaxRuns \in Nat /\ MaxTries \in Nat
  BY EpochAssumption
<1>2. IsFiniteSet(RunIds) /\ Cardinality(RunIds) = MaxRuns
  BY <1>1, FS_Interval DEF RunIds
<1>3. IsFiniteSet(1 .. MaxTries) /\ Cardinality(1 .. MaxTries) = MaxTries
  BY <1>1, FS_Interval
<1>4. IsFiniteSet(Pairs) /\ Cardinality(Pairs) = MaxRuns * MaxTries
  BY <1>2, <1>3, FS_Product
<1>5. f \in Injection(txs, Pairs)
  <2>1. \A tx \in txs : <<tx.epoch, tx.try>> \in Pairs
    BY DEF Transactions
  <2>2. f \in [txs -> Pairs]
    BY <2>1
  <2>3. \A s, t \in txs : f[s] = f[t] => s = t
    BY DEF AttemptsAreNumbered
  <2>. QED  BY <2>2, <2>3 DEF Injection, IsInjective
<1>6. IsFiniteSet(txs) /\ Cardinality(txs) <= Cardinality(Pairs)
  BY <1>4, <1>5, FS_Injection
<1>. QED  BY <1>4, <1>6, FS_CardinalityType

LEMMA EpochTransactionsAreFinite ==
    ASSUME txs \subseteq Transactions, AttemptsAreNumbered, NEW r \in RunIds
    PROVE  IsFiniteSet(TxsOf(r)) /\ Cardinality(TxsOf(r)) \in Nat
<1>1. IsFiniteSet(txs) /\ TxsOf(r) \subseteq txs
  BY TransactionsAreFew DEF TxsOf
<1>2. IsFiniteSet(TxsOf(r))
  BY <1>1, FS_Subset
<1>. QED  BY <1>2, FS_CardinalityType

\* The lines of the log stay where they are.
LinesStay ==
    /\ log' \in Seq(Lines)
    /\ Len(log) <= Len(log')
    /\ \A i \in 1 .. Len(log) : log'[i] = log[i]

LEMMA LogFacts ==
    ASSUME log \in Seq(Lines)
    PROVE  Len(log) \in Nat /\ DOMAIN log = 1 .. Len(log) /\ InLog \subseteq Lines
<1>1. Len(log) \in Nat /\ DOMAIN log = 1 .. Len(log)
  OBVIOUS
<1>. QED  BY <1>1, ElementOfSeq DEF InLog

LEMMA StayingLinesAreThere ==
    ASSUME log \in Seq(Lines), LinesStay
    PROVE  InLog \subseteq InLog'
<1>1. /\ Len(log) \in Nat /\ DOMAIN log = 1 .. Len(log)
      /\ Len(log') \in Nat /\ DOMAIN log' = 1 .. Len(log')
  BY DEF LinesStay
<1>2. \A i \in 1 .. Len(log) : i \in 1 .. Len(log') /\ log'[i] = log[i]
  BY <1>1 DEF LinesStay
<1>. QED  BY <1>1, <1>2 DEF InLog

\* A write adds a line at the end, or completes an unreadable one and leaves it
\* unreadable; either way no line that was there changes.
LEMMA WrittenFacts ==
    ASSUME Types, NEW line \in Lines, log' = Written(line)
    PROVE  /\ LinesStay
           /\ log' # << >>
           /\ Len(log') \in 1 .. Len(log')
           /\ log'[Len(log')] \in {line, Malformed}
<1>1. log \in Seq(Lines) /\ Len(log) \in Nat
  BY DEF Types
<1>2. CASE torn
  <2>1. log # << >> /\ log[Len(log)] = Malformed /\ Len(log) # 0
    BY <1>1, <1>2 DEF Types
  <2>2. log' = [log EXCEPT ![Len(log)] = Malformed]
    BY <1>2 DEF Written
  <2>3. Len(log) \in DOMAIN log
    BY <1>1, <2>1
  <2>4. log' = log
    BY <1>1, <2>1, <2>2, <2>3
  <2>. QED  BY <1>1, <2>1, <2>4 DEF LinesStay
<1>3. CASE ~torn
  <2>1. log' = Append(log, line)
    BY <1>3 DEF Written
  <2>2. /\ log' \in Seq(Lines) /\ Len(log') = Len(log) + 1
        /\ \A i \in 1 .. Len(log) : log'[i] = log[i]
        /\ log'[Len(log) + 1] = line
    BY <1>1, <2>1, AppendProperties
  <2>. QED  BY <1>1, <2>2 DEF LinesStay
<1>. QED  BY <1>2, <1>3

\* The window: lines of the log, finitely many, the last one included.
LEMMA WindowFacts ==
    ASSUME log \in Seq(Lines), NEW n \in Nat
    PROVE  /\ LastLines(n) \subseteq InLog
           /\ IsFiniteSet(LastLines(n))
           /\ \A i \in 1 .. Len(log) : Len(log) - i < n => log[i] \in LastLines(n)
<1>. DEFINE first == IF n < Len(log) THEN Len(log) - n + 1 ELSE 1
            f == [i \in first .. Len(log) |-> log[i]]
<1>1. Len(log) \in Nat /\ DOMAIN log = 1 .. Len(log) /\ first \in Nat /\ 1 <= first
  OBVIOUS
<1>2. LastLines(n) = {log[i] : i \in first .. Len(log)}
  BY DEF LastLines
<1>3. \A i \in first .. Len(log) : i \in 1 .. Len(log)
  BY <1>1
<1>4. IsFiniteSet(LastLines(n))
  <2>1. IsFiniteSet(first .. Len(log))
    <3>1. first \in Int /\ Len(log) \in Int
      BY <1>1
    <3>. HIDE DEF first
    <3>. QED  BY <3>1, FS_Interval
  <2>2. f \in Surjection(first .. Len(log), LastLines(n))
    BY <1>2 DEF Surjection
  <2>. QED  BY <2>1, <2>2, FS_Surjection
<1>5. \A i \in 1 .. Len(log) : Len(log) - i < n => i \in first .. Len(log)
  BY <1>1
<1>. QED  BY <1>1, <1>2, <1>3, <1>4, <1>5 DEF InLog

LEMMA DeltaIsOneOrMinusOne ==
    ASSUME NEW judged, NEW sheet
    PROVE  Delta(judged, sheet) \in {-1, 1}
BY DEF Delta

\* An epoch's step, and one that leaves all epochs alone, keep what is known of the
\* others.
LEMMA OtherEpochsFit ==
    ASSUME IInv, NEW s \in RunIds, LinesStay,
           epochs'[s] = epochs[s], TxsOf(s)' = TxsOf(s), lostAnswers'[s] = lostAnswers[s]
    PROVE  VerdictOf(s)' /\ KnowsLine(s)' /\ JudgedInLog(s)'
<1>1. VerdictOf(s) /\ KnowsLine(s) /\ JudgedInLog(s)
  BY DEF IInv, EpochsFit
<1>2. log \in Seq(Lines) /\ Len(log) \in Nat
  BY DEF IInv, Types
<1>3. InLog \subseteq InLog' /\ Len(log') \in Nat /\ Len(log) <= Len(log')
  BY <1>2, StayingLinesAreThere DEF LinesStay
<1>4. VerdictOf(s)'
  BY <1>1 DEF VerdictOf
<1>5. KnowsLine(s)'
  BY <1>1, <1>2, <1>3 DEF KnowsLine, LinesStay
<1>6. JudgedInLog(s)'
  BY <1>1, <1>2, <1>3 DEF KnowsLine, JudgedInLog, LinesStay
<1>. QED  BY <1>4, <1>5, <1>6

LEMMA EpochsUntouched ==
    ASSUME IInv, LinesStay, UNCHANGED <<epochs, txs, lostAnswers>>
    PROVE  EpochsFit'
<1>1. ASSUME NEW s \in RunIds
      PROVE  VerdictOf(s)' /\ KnowsLine(s)' /\ JudgedInLog(s)'
  <2>1. TxsOf(s)' = TxsOf(s)
    BY DEF TxsOf
  <2>. QED  BY <2>1, OtherEpochsFit
<1>. QED  BY <1>1 DEF EpochsFit

-----------------------------------------------------------------------------
(* The agent's steps.                                                      *)

\* Steps that add nothing to the chain and leave the log's lines where they are.
LEMMA AgentStepKeepsInvariant ==
    ASSUME IInv, Types', FreshEpochs', EpochsFit', LinesStay, UNCHANGED chain
    PROVE  IInv'
<1>1. /\ txs' = txs /\ executed' = executed /\ lostAnswers' = lostAnswers
      /\ registered' = registered /\ profiles' = profiles /\ blockTime' = blockTime
      /\ gained' = gained /\ lost' = lost
  BY DEF chain, registry
<1>2. \A s \in RunIds : TxsOf(s)' = TxsOf(s)
  BY <1>1 DEF TxsOf
<1>4. RegistryTypes'
  BY <1>1 DEF IInv, RegistryTypes
<1>5. AttemptsAreNumbered'
  BY <1>1 DEF IInv, AttemptsAreNumbered
<1>6. OneVerdict'
  BY <1>1, <1>2 DEF IInv, OneVerdict
<1>7. HashCoversActedDecisions'
  <2>1. InLog \subseteq InLog'
    BY StayingLinesAreThere DEF IInv, Types
  <2>. QED  BY <1>1, <2>1 DEF IInv, HashCoversActedDecisions
<1>. QED  BY <1>4, <1>5, <1>6, <1>7 DEF IInv

LEMMA UnchangedLogStays ==
    ASSUME Types, log' = log
    PROVE  LinesStay
<1>1. log \in Seq(Lines) /\ Len(log) \in Nat
  BY DEF Types
<1>. QED  BY <1>1 DEF LinesStay

\* A run writes its line, and the epoch it may spawn knows which one it is.
LEMMA IterationKeepsInvariant ==
    ASSUME IInv, Iteration
    PROVE  IInv'
<1>1. /\ run \in 0 .. MaxRuns /\ iteration \in 0 .. run /\ era \in 1 .. Len(Sheets)
      /\ log \in Seq(Lines) /\ torn \in BOOLEAN /\ epochs \in [RunIds -> EpochRecords]
      /\ lostAnswers \in [RunIds -> Nat] /\ txs \subseteq Transactions /\ executed \subseteq txs
      /\ torn => log # << >> /\ log[Len(log)] = Malformed
  BY DEF IInv, Types
<1>2. /\ run < MaxRuns /\ run' = run + 1 /\ iteration' = iteration + 1
      /\ era' = era /\ txs' = txs /\ lostAnswers' = lostAnswers /\ executed' = executed
      /\ UNCHANGED chain
  BY DEF Iteration, chain
<1>3. /\ run' \in 0 .. MaxRuns /\ iteration' \in 0 .. run' /\ run' \in RunIds /\ run' > run
  BY <1>1, <1>2, EpochAssumption DEF RunIds
<1>4. epochs[run'] = NoEpoch
  BY <1>3 DEF IInv, FreshEpochs
<1>5. ASSUME epochs' = epochs, LinesStay,
             torn' \in BOOLEAN, torn' => log' # << >> /\ log'[Len(log')] = Malformed
      PROVE  IInv'
  <2>1. Types'
    BY <1>1, <1>2, <1>3, <1>5 DEF Types, LinesStay
  <2>2. FreshEpochs'
    BY <1>1, <1>2, <1>5 DEF IInv, FreshEpochs, RunIds
  <2>3. EpochsFit'
    BY <1>2, <1>5, EpochsUntouched DEF chain
  <2>. QED  BY <1>2, <1>5, <2>1, <2>2, <2>3, AgentStepKeepsInvariant
<1>6. ASSUME NEW acted \in BOOLEAN, NEW top \in Assets,
             log' = Written([run |-> run', acted |-> acted, top |-> top, era |-> era]),
             torn' = FALSE,
             epochs' = [epochs EXCEPT ![run'].pc = "read", ![run'].line = Len(log')]
      PROVE  IInv'
  <2>. DEFINE line == [run |-> run', acted |-> acted, top |-> top, era |-> era]
              e == [epochs[run'] EXCEPT !.pc = "read", !.line = Len(log')]
  <2>1. line \in Lines /\ line.run = run'
    BY <1>1, <1>3, EpochAssumption DEF Lines, Decisions
  <2>. HIDE DEF line
  <2>2. /\ LinesStay /\ log' # << >>
        /\ Len(log') \in 1 .. Len(log') /\ log'[Len(log')] \in {line, Malformed}
    BY <1>6, <2>1, WrittenFacts DEF IInv, line
  <2>3. /\ e \in EpochRecords /\ e.pc = "read" /\ e.line = Len(log') /\ e.delta = 0
        /\ e.tries = 0
    <3>1. Len(log') \in Nat
      BY <2>2 DEF LinesStay
    <3>. QED  BY <1>4, <3>1, EmptyEpochs DEF EpochRecords, EpochStages
  <2>4. epochs' = [epochs EXCEPT ![run'] = e]
    BY <1>1, <1>3, <1>6
  <2>. HIDE DEF e
  <2>5. /\ epochs' \in [RunIds -> EpochRecords] /\ epochs'[run'] = e
        /\ \A s \in RunIds \ {run'} : epochs'[s] = epochs[s]
    BY <1>1, <1>3, <2>3, <2>4
  <2>6. Types'
    BY <1>1, <1>2, <1>3, <1>6, <2>2, <2>5 DEF Types, LinesStay
  <2>7. FreshEpochs'
    <3>1. \A s \in RunIds : s > run' => s # run' /\ s > run
      BY <1>1, <1>2 DEF RunIds
    <3>. QED  BY <2>5, <3>1 DEF IInv, FreshEpochs
  <2>8. PICK r \in RunIds : r = run'
    BY <1>3
  <2>9. TxsOf(r)' = {}
    <3>1. TxsOf(r) = {}
      BY <1>4, <2>8, EmptyEpochs DEF IInv, EpochsFit, VerdictOf
    <3>. QED  BY <1>2, <3>1 DEF TxsOf
  <2>10. VerdictOf(r)'
    BY <2>3, <2>5, <2>8, <2>9 DEF VerdictOf
  <2>11. KnowsLine(r)'
    BY <2>1, <2>2, <2>3, <2>5, <2>8 DEF KnowsLine
  <2>12. JudgedInLog(r)'
    BY <2>3, <2>5, <2>8 DEF JudgedInLog
  <2>13. EpochsFit'
    <3>1. ASSUME NEW s \in RunIds
          PROVE  VerdictOf(s)' /\ KnowsLine(s)' /\ JudgedInLog(s)'
      <4>1. CASE s = r
        BY <2>10, <2>11, <2>12, <4>1
      <4>2. CASE s # r
        <5>1. TxsOf(s)' = TxsOf(s)
          BY <1>2 DEF TxsOf
        <5>. QED  BY <1>2, <2>2, <2>5, <2>8, <4>2, <5>1, OtherEpochsFit
      <4>. QED  BY <4>1, <4>2
    <3>. QED  BY <3>1 DEF EpochsFit
  <2>. QED  BY <1>2, <2>2, <2>6, <2>7, <2>13, AgentStepKeepsInvariant
<1>7. ASSUME NEW acted \in BOOLEAN, NEW top \in Assets,
             log' = Written([run |-> run', acted |-> acted, top |-> top, era |-> era]),
             torn' = FALSE, epochs' = epochs
      PROVE  IInv'
  <2>1. [run |-> run', acted |-> acted, top |-> top, era |-> era] \in Lines
    BY <1>1, <1>3, EpochAssumption DEF Lines, Decisions
  <2>2. LinesStay
    BY <1>7, <2>1, WrittenFacts DEF IInv
  <2>. QED  BY <1>5, <1>7, <2>2
<1>8. CASE UNCHANGED <<log, torn, epochs>>
  BY <1>1, <1>5, <1>8, UnchangedLogStays DEF IInv
<1>9. CASE log' = Written(Malformed) /\ torn' = TRUE /\ UNCHANGED epochs
  <2>1. Malformed \in Lines
    BY DEF Lines
  <2>2. LinesStay /\ log' # << >> /\ log'[Len(log')] = Malformed
    BY <1>9, <2>1, WrittenFacts DEF IInv
  <2>. QED  BY <1>5, <1>9, <2>2
<1>. QED  BY <1>6, <1>7, <1>8, <1>9 DEF Iteration

LEMMA NextSheetKeepsInvariant ==
    ASSUME IInv, NextSheet \/ era' = era, UNCHANGED <<agent, epochs, chain>>
    PROVE  IInv'
<1>1. Types
  BY DEF IInv
<1>2. era' \in 1 .. Len(Sheets)
  BY <1>1, EpochAssumption DEF NextSheet, Types
<1>3. Types' /\ FreshEpochs'
  BY <1>1, <1>2 DEF IInv, Types, FreshEpochs, agent, chain
<1>4. LinesStay
  BY <1>1, UnchangedLogStays DEF agent
<1>5. EpochsFit'
  BY <1>4, EpochsUntouched DEF chain
<1>. QED  BY <1>3, <1>4, <1>5, AgentStepKeepsInvariant

\* An epoch that is over, by itself or with its process, asks for nothing more.
LEMMA RestartKeepsInvariant ==
    ASSUME IInv, Restart
    PROVE  IInv'
<1>1. Types /\ epochs \in [RunIds -> EpochRecords] /\ run \in 0 .. MaxRuns
  BY DEF IInv, Types
<1>2. /\ iteration' = 0 /\ UNCHANGED <<run, era, log, torn, chain>>
      /\ txs' = txs /\ executed' = executed /\ lostAnswers' = lostAnswers
  BY DEF Restart, chain
<1>. DEFINE over == [NoEpoch EXCEPT !.pc = "done"]
<1>3. over \in EpochRecords /\ over.pc = "done" /\ over.delta = 0 /\ NoEpoch \in EpochRecords
      /\ NoEpoch.pc = "none"
  BY EmptyEpochs
<1>4. epochs' = [s \in RunIds |-> IF epochs[s].pc = "none" THEN NoEpoch ELSE over]
  BY DEF Restart
<1>. HIDE DEF over
<1>5. epochs' \in [RunIds -> EpochRecords]
  BY <1>3, <1>4
<1>6. Types'
  <2>1. iteration' \in 0 .. run'
    BY <1>1, <1>2
  <2>. QED  BY <1>1, <1>2, <1>5, <2>1 DEF Types
<1>7. FreshEpochs'
  BY <1>2, <1>3, <1>4 DEF IInv, FreshEpochs
<1>8. LinesStay
  BY <1>1, <1>2, UnchangedLogStays
<1>9. ASSUME NEW s \in RunIds
      PROVE  VerdictOf(s)' /\ KnowsLine(s)' /\ JudgedInLog(s)'
  <2>1. CASE epochs[s].pc = "none"
    <3>1. epochs'[s] = NoEpoch /\ NoEpoch.delta = 0 /\ NoEpoch.tries = 0
      BY <1>4, <2>1, EmptyEpochs
    <3>2. TxsOf(s)' = {}
      BY <1>2, <2>1 DEF IInv, EpochsFit, VerdictOf, TxsOf
    <3>. QED  BY <1>3, <3>1, <3>2 DEF VerdictOf, KnowsLine, JudgedInLog
  <2>2. CASE epochs[s].pc # "none"
    <3>1. epochs'[s] = over
      BY <1>4, <2>2
    <3>. QED  BY <1>3, <3>1 DEF VerdictOf, KnowsLine, JudgedInLog
  <2>. QED  BY <2>1, <2>2
<1>10. EpochsFit'
  BY <1>9 DEF EpochsFit
<1>. QED  BY <1>2, <1>6, <1>7, <1>8, <1>10, AgentStepKeepsInvariant

-----------------------------------------------------------------------------
(* The steps of an epoch.                                                  *)

LEMMA OneEpochMoves ==
    ASSUME IInv, NEW r \in RunIds, epochs[r].pc # "none",
           NEW e \in EpochRecords, epochs' = [epochs EXCEPT ![r] = e],
           UNCHANGED <<agent, era, executed>>,
           txs' \subseteq Transactions, txs \subseteq txs',
           \A tx \in txs' : tx \in txs \/ tx.epoch = r,
           lostAnswers' \in [RunIds -> Nat],
           \A s \in RunIds : s # r => lostAnswers'[s] = lostAnswers[s],
           VerdictOf(r)', KnowsLine(r)', JudgedInLog(r)'
    PROVE  /\ Types' /\ FreshEpochs' /\ EpochsFit' /\ LinesStay
           /\ \A s \in RunIds : s # r => TxsOf(s)' = TxsOf(s)
<1>1. Types /\ epochs \in [RunIds -> EpochRecords] /\ log' = log
  BY DEF IInv, Types, agent
<1>2. /\ epochs' \in [RunIds -> EpochRecords] /\ epochs'[r] = e
      /\ \A s \in RunIds : s # r => epochs'[s] = epochs[s]
  BY <1>1
<1>3. Types'
  BY <1>1, <1>2 DEF Types, agent
<1>4. FreshEpochs'
  <2>1. ~(r > run)
    BY EmptyEpochs DEF IInv, FreshEpochs
  <2>. QED  BY <1>2, <2>1 DEF IInv, FreshEpochs, agent
<1>5. LinesStay
  BY <1>1, UnchangedLogStays
<1>6. \A s \in RunIds : s # r => TxsOf(s)' = TxsOf(s)
  BY DEF TxsOf
<1>7. EpochsFit'
  <2>1. ASSUME NEW s \in RunIds
        PROVE  VerdictOf(s)' /\ KnowsLine(s)' /\ JudgedInLog(s)'
    <3>1. CASE s = r
      BY <3>1
    <3>2. CASE s # r
      BY <1>2, <1>5, <1>6, <3>2, OtherEpochsFit
    <3>. QED  BY <3>1, <3>2
  <2>. QED  BY <2>1 DEF EpochsFit
<1>. QED  BY <1>3, <1>4, <1>5, <1>6, <1>7

\* A record that keeps its line and what it judged keeps what is known of them.
LEMMA SameLineSameJudged ==
    ASSUME IInv, NEW r \in RunIds, log' = log,
           epochs'[r].line = epochs[r].line,
           epochs[r].pc \in {"oracle", "submit"},
           epochs'[r].seen = epochs[r].seen, epochs'[r].judged = epochs[r].judged
    PROVE  KnowsLine(r)' /\ JudgedInLog(r)'
<1>1. KnowsLine(r) /\ JudgedInLog(r)
  BY DEF IInv, EpochsFit
<1>2. InLog' = InLog
  BY DEF InLog
<1>. QED  BY <1>1, <1>2 DEF KnowsLine, JudgedInLog

\* An epoch that is over has no line and no verdict.
LEMMA OverIsFit ==
    ASSUME NEW r, epochs'[r] = [NoEpoch EXCEPT !.pc = "done"]
    PROVE  VerdictOf(r)' /\ KnowsLine(r)' /\ JudgedInLog(r)'
<1>1. epochs'[r].pc = "done" /\ epochs'[r].delta = 0
  BY EmptyEpochs
<1>. QED  BY <1>1 DEF VerdictOf, KnowsLine, JudgedInLog

LEMMA ReadLogKeepsInvariant ==
    ASSUME IInv, NEW r \in RunIds, ReadLog(r)
    PROVE  IInv'
<1>1. /\ Types /\ epochs \in [RunIds -> EpochRecords] /\ epochs[r] \in EpochRecords
      /\ log \in Seq(Lines) /\ Len(log) \in Nat
  BY DEF IInv, Types
<1>2. /\ epochs[r].pc = "read" /\ UNCHANGED <<agent, era, chain>>
      /\ txs' = txs /\ executed' = executed /\ lostAnswers' = lostAnswers
      /\ log' = log
  BY DEF ReadLog, chain, agent
<1>. DEFINE n == Lookback * Epochs
            J == {d \in Parsed(LastLines(n)) : d.acted}
            e == [epochs[r] EXCEPT !.pc = "oracle", !.seen = Len(log), !.judged = J]
<1>3. n \in Nat
  BY EpochAssumption
<1>4. /\ J \subseteq InLog /\ J \subseteq Decisions /\ IsFiniteSet(J)
      /\ \A d \in J : d.acted
      /\ \A i \in 1 .. Len(log) : /\ Len(log) - i < n /\ log[i] # Malformed /\ log[i].acted
                                  => log[i] \in J
  <2>1. /\ LastLines(n) \subseteq InLog /\ IsFiniteSet(LastLines(n))
        /\ \A i \in 1 .. Len(log) : Len(log) - i < n => log[i] \in LastLines(n)
    BY <1>1, <1>3, WindowFacts
  <2>2. InLog \subseteq Lines
    BY <1>1, LogFacts
  <2>3. J \subseteq LastLines(n) /\ J \subseteq Decisions
    BY <2>1, <2>2 DEF Parsed, Lines
  <2>4. IsFiniteSet(J)
    BY <2>1, <2>3, FS_Subset
  <2>. QED  BY <2>1, <2>3, <2>4 DEF Parsed
<1>5. epochs' = [epochs EXCEPT ![r] = e]
  BY <1>1 DEF ReadLog
<1>. HIDE DEF J
<1>6. /\ e \in EpochRecords /\ e.pc = "oracle" /\ e.seen = Len(log) /\ e.judged = J
      /\ e.line = epochs[r].line /\ e.delta = epochs[r].delta /\ e.tries = epochs[r].tries
  BY <1>1, <1>4 DEF EpochRecords, EpochStages
<1>. HIDE DEF e
<1>7. epochs'[r] = e
  BY <1>1, <1>5
<1>8. VerdictOf(r) /\ KnowsLine(r)
  BY DEF IInv, EpochsFit
<1>9. VerdictOf(r)'
  BY <1>2, <1>6, <1>7, <1>8 DEF VerdictOf, TxsOf
<1>10. KnowsLine(r)'
  BY <1>2, <1>6, <1>7, <1>8 DEF KnowsLine
<1>11. JudgedInLog(r)'
  <2>1. e.line \in 1 .. Len(log) /\ InLog' = InLog
    BY <1>2, <1>6, <1>8 DEF KnowsLine, InLog
  <2>. QED  BY <1>2, <1>4, <1>6, <1>7, <2>1 DEF JudgedInLog
<1>12. Types' /\ FreshEpochs' /\ EpochsFit' /\ LinesStay
  BY <1>1, <1>2, <1>5, <1>6, <1>9, <1>10, <1>11, OneEpochMoves DEF Types
<1>. QED  BY <1>2, <1>12, AgentStepKeepsInvariant

LEMMA JudgeKeepsInvariant ==
    ASSUME IInv, NEW r \in RunIds, Judge(r)
    PROVE  IInv'
<1>1. /\ Types /\ epochs \in [RunIds -> EpochRecords] /\ epochs[r] \in EpochRecords
      /\ era \in 1 .. Len(Sheets) /\ lostAnswers \in [RunIds -> Nat]
  BY DEF IInv, Types
<1>2. /\ epochs[r].pc = "oracle" /\ UNCHANGED <<agent, era, chain>>
      /\ txs' = txs /\ executed' = executed /\ lostAnswers' = lostAnswers
      /\ log' = log
  BY DEF Judge, chain, agent
<1>3. VerdictOf(r)
  BY DEF IInv, EpochsFit
<1>4. CASE epochs' = [epochs EXCEPT ![r] = [NoEpoch EXCEPT !.pc = "done"]]
  <2>1. epochs'[r] = [NoEpoch EXCEPT !.pc = "done"]
    BY <1>1, <1>4
  <2>2. Types' /\ FreshEpochs' /\ EpochsFit' /\ LinesStay
    BY <1>1, <1>2, <1>4, <2>1, EmptyEpochs, OverIsFit, OneEpochMoves DEF Types
  <2>. QED  BY <1>2, <2>2, AgentStepKeepsInvariant
<1>5. CASE /\ epochs[r].judged # {}
           /\ epochs' = [epochs EXCEPT ![r].pc = "submit", ![r].era = era,
                                       ![r].delta = Delta(epochs[r].judged, Sheets[era])]
  <2>. DEFINE delta == Delta(epochs[r].judged, Sheets[era])
              e == [epochs[r] EXCEPT !.pc = "submit", !.era = era, !.delta = delta]
  <2>1. delta \in {-1, 1} /\ delta # 0
    <3>1. delta \in {-1, 1}
      BY DeltaIsOneOrMinusOne
    <3>. QED  BY <3>1
  <2>2. epochs' = [epochs EXCEPT ![r] = e]
    BY <1>1, <1>5
  <2>. HIDE DEF delta
  <2>3. /\ e \in EpochRecords /\ e.pc = "submit" /\ e.era = era /\ e.delta = delta
        /\ e.judged = epochs[r].judged /\ e.line = epochs[r].line /\ e.seen = epochs[r].seen
    <3>1. era \in 0 .. Len(Sheets) /\ delta \in {-1, 0, 1}
      BY <1>1, <2>1, EpochAssumption
    <3>2. epochs[r] \in [pc : EpochStages, line : Nat, seen : Nat, judged : SUBSET Decisions,
                         delta : {-1, 0, 1}, era : 0 .. Len(Sheets), tries : 0 .. MaxTries - 1]
      BY <1>1 DEF EpochRecords
    <3>3. "submit" \in EpochStages
      BY DEF EpochStages
    <3>4. e \in [pc : EpochStages, line : Nat, seen : Nat, judged : SUBSET Decisions,
                 delta : {-1, 0, 1}, era : 0 .. Len(Sheets), tries : 0 .. MaxTries - 1]
      BY <3>1, <3>2, <3>3
    <3>5. /\ e.pc = "submit" /\ e.era = era /\ e.delta = delta
          /\ e.judged = epochs[r].judged /\ e.line = epochs[r].line /\ e.seen = epochs[r].seen
      BY <3>2
    <3>. QED  BY <3>4, <3>5 DEF EpochRecords
  <2>. HIDE DEF e
  <2>4. epochs'[r] = e
    BY <1>1, <2>2
  <2>5. KnowsLine(r)' /\ JudgedInLog(r)'
    BY <1>2, <2>3, <2>4, SameLineSameJudged
  <2>6. TxsOf(r)' = {} /\ Cardinality(TxsOf(r)') <= lostAnswers'[r]
    <3>1. TxsOf(r)' = {}
      BY <1>2, <1>3 DEF VerdictOf, TxsOf
    <3>2. Cardinality({}) = 0 /\ lostAnswers'[r] \in Nat
      BY <1>1, <1>2, FS_EmptySet
    <3>. QED  BY <3>1, <3>2
  <2>7. VerdictOf(r)'
    <3>1. e.judged # {} /\ e.era \in 1 .. Len(Sheets)
          /\ e.delta = Delta(e.judged, Sheets[e.era]) /\ e.delta # 0
      BY <1>1, <1>5, <2>1, <2>3 DEF delta
    <3>. QED  BY <2>3, <2>4, <2>6, <3>1 DEF VerdictOf
  <2>8. Types' /\ FreshEpochs' /\ EpochsFit' /\ LinesStay
    BY <1>1, <1>2, <2>2, <2>3, <2>5, <2>7, OneEpochMoves DEF Types
  <2>. QED  BY <1>2, <2>8, AgentStepKeepsInvariant
<1>. QED  BY <1>4, <1>5 DEF Judge

\* A transaction that is sent repeats the verdict of its epoch, under the number of
\* the attempt: this is what keeps OneVerdict, and the hash of what was acted on.
LEMMA AcceptedFacts ==
    ASSUME IInv, NEW r \in RunIds, epochs[r].pc = "submit", Accepted(r),
           UNCHANGED log
    PROVE  /\ txs' \subseteq Transactions /\ txs \subseteq txs'
           /\ \A tx \in txs' : tx \in txs \/ tx.epoch = r
           /\ \A tx \in TxsOf(r)' : /\ tx.try <= Try(r)
                                    /\ tx.delta = epochs[r].delta
                                    /\ tx.judged = epochs[r].judged
           /\ Cardinality(TxsOf(r)') <= 1 + lostAnswers[r]
           /\ AttemptsAreNumbered' /\ HashCoversActedDecisions'
<1>. DEFINE new == [epoch |-> r, try |-> Try(r), judged |-> epochs[r].judged,
                    delta |-> epochs[r].delta]
<1>1. /\ epochs[r] \in EpochRecords /\ txs \subseteq Transactions
      /\ lostAnswers[r] \in Nat /\ MaxTries \in Nat
  BY EpochAssumption DEF IInv, Types
<1>2. VerdictOf(r) /\ JudgedInLog(r)
  BY DEF IInv, EpochsFit
<1>3. /\ epochs[r].tries \in 0 .. MaxTries - 1 /\ epochs[r].judged \subseteq Decisions
      /\ epochs[r].delta \in {-1, 1} /\ Try(r) = epochs[r].tries + 1
  BY <1>1, <1>2 DEF EpochRecords, VerdictOf, Try
<1>4. Try(r) \in 1 .. MaxTries
  BY <1>1, <1>3
<1>5. /\ new \in Transactions /\ new.epoch = r /\ new.try = Try(r)
      /\ new.judged = epochs[r].judged /\ new.delta = epochs[r].delta
  BY <1>3, <1>4 DEF Transactions
<1>6. txs' = txs \cup {new}
  BY DEF Accepted
<1>. HIDE DEF new
<1>7. TxsOf(r)' = TxsOf(r) \cup {new}
  BY <1>5, <1>6 DEF TxsOf
<1>8. /\ \A tx \in TxsOf(r) : /\ tx.try <= epochs[r].tries
                              /\ tx.delta = epochs[r].delta
                              /\ tx.judged = epochs[r].judged
      /\ Cardinality(TxsOf(r)) <= lostAnswers[r]
  BY <1>2 DEF VerdictOf
<1>9. \A tx \in TxsOf(r)' : /\ tx.try <= Try(r)
                            /\ tx.delta = epochs[r].delta
                            /\ tx.judged = epochs[r].judged
  <2>1. \A tx \in TxsOf(r) : tx.try \in Nat
    BY <1>1 DEF TxsOf, Transactions
  <2>. QED  BY <1>3, <1>4, <1>5, <1>7, <1>8, <2>1
<1>10. Cardinality(TxsOf(r)') <= 1 + lostAnswers[r]
  <2>1. IsFiniteSet(TxsOf(r)) /\ Cardinality(TxsOf(r)) \in Nat
    BY <1>1, EpochTransactionsAreFinite DEF IInv
  <2>2. Cardinality(TxsOf(r) \cup {new}) <= Cardinality(TxsOf(r)) + 1
    <3>1. CASE new \in TxsOf(r)
      <4>1. TxsOf(r) \cup {new} = TxsOf(r)
        BY <3>1
      <4>2. Cardinality(TxsOf(r) \cup {new}) = Cardinality(TxsOf(r))
        BY <4>1, Zenon
      <4>. QED  BY <2>1, <4>2
    <3>2. CASE new \notin TxsOf(r)
      <4>1. Cardinality(TxsOf(r) \cup {new}) = Cardinality(TxsOf(r)) + 1
        BY <2>1, <3>2, FS_AddElement
      <4>. QED  BY <2>1, <4>1
    <3>. QED  BY <3>1, <3>2
  <2>5. Cardinality(TxsOf(r)') = Cardinality(TxsOf(r) \cup {new})
    BY <1>7, Zenon
  <2>6. Cardinality(TxsOf(r) \cup {new}) \in Nat
    <3>1. IsFiniteSet(TxsOf(r) \cup {new})
      BY <2>1, FS_AddElement
    <3>. QED  BY <3>1, FS_CardinalityType
  <2>. QED  BY <1>1, <1>8, <2>1, <2>2, <2>5, <2>6
<1>11. AttemptsAreNumbered'
  <2>1. \A t \in txs : t.epoch = r => t.try # new.try
    <3>1. \A t \in txs : t.epoch = r => t.try <= epochs[r].tries /\ t.try \in Nat
      BY <1>1, <1>8 DEF TxsOf, Transactions
    <3>. QED  BY <1>3, <1>5, <3>1
  <2>2. AttemptsAreNumbered
    BY DEF IInv
  <2>. QED  BY <1>5, <1>6, <2>1, <2>2 DEF AttemptsAreNumbered
<1>12. HashCoversActedDecisions'
  <2>1. InLog' = InLog
    BY DEF InLog
  <2>2. /\ epochs[r].judged # {} /\ epochs[r].judged \subseteq InLog
        /\ \A d \in epochs[r].judged : d.acted
    BY <1>2 DEF VerdictOf, JudgedInLog
  <2>. QED  BY <1>5, <1>6, <2>1, <2>2 DEF IInv, HashCoversActedDecisions
<1>13. txs' \subseteq Transactions /\ txs \subseteq txs'
       /\ \A tx \in txs' : tx \in txs \/ tx.epoch = r
  BY <1>1, <1>5, <1>6
<1>. QED  BY <1>9, <1>10, <1>11, <1>12, <1>13

\* Another attempt keeps what was read and judged; the last one ends the epoch.
LEMMA RetryFacts ==
    ASSUME IInv, NEW r \in RunIds, epochs[r].pc = "submit", Retry(r)
    PROVE  \E e \in EpochRecords :
              /\ epochs' = [epochs EXCEPT ![r] = e]
              /\ epochs'[r] = e
              /\ \/ e = [NoEpoch EXCEPT !.pc = "done"]
                 \/ /\ e.pc = "submit" /\ e.tries = Try(r) /\ e.line = epochs[r].line
                    /\ e.seen = epochs[r].seen /\ e.judged = epochs[r].judged
                    /\ e.delta = epochs[r].delta /\ e.era = epochs[r].era
<1>1. /\ epochs \in [RunIds -> EpochRecords] /\ epochs[r] \in EpochRecords
      /\ MaxTries \in Nat
  BY EpochAssumption DEF IInv, Types
<1>2. CASE Try(r) < MaxTries
  <2>. DEFINE e == [epochs[r] EXCEPT !.tries = Try(r)]
  <2>1. Try(r) \in 0 .. MaxTries - 1
    BY <1>1, <1>2 DEF Try, EpochRecords
  <2>2. /\ e \in EpochRecords
        /\ e.pc = "submit" /\ e.tries = Try(r) /\ e.line = epochs[r].line
        /\ e.seen = epochs[r].seen /\ e.judged = epochs[r].judged
        /\ e.delta = epochs[r].delta /\ e.era = epochs[r].era
    BY <1>1, <2>1 DEF EpochRecords
  <2>3. epochs' = [epochs EXCEPT ![r] = e]
    BY <1>1, <1>2 DEF Retry
  <2>. HIDE DEF e
  <2>4. epochs'[r] = e
    BY <1>1, <2>3
  <2>. QED  BY <2>2, <2>3, <2>4
<1>3. CASE ~(Try(r) < MaxTries)
  <2>1. epochs' = [epochs EXCEPT ![r] = [NoEpoch EXCEPT !.pc = "done"]]
    BY <1>3 DEF Retry
  <2>2. epochs'[r] = [NoEpoch EXCEPT !.pc = "done"]
    BY <1>1, <2>1
  <2>. QED  BY <2>1, <2>2, EmptyEpochs
<1>. QED  BY <1>2, <1>3

\* What is known of an epoch after an attempt: it may try again, or it is over.
LEMMA AttemptKeepsFit ==
    ASSUME IInv, NEW r \in RunIds, epochs[r].pc = "submit", UNCHANGED log,
           NEW e \in EpochRecords, epochs'[r] = e,
           \/ e = [NoEpoch EXCEPT !.pc = "done"]
           \/ /\ e.pc = "submit" /\ e.tries = Try(r) /\ e.line = epochs[r].line
              /\ e.seen = epochs[r].seen /\ e.judged = epochs[r].judged
              /\ e.delta = epochs[r].delta /\ e.era = epochs[r].era
              /\ Cardinality(TxsOf(r)') <= lostAnswers'[r]
              /\ \A tx \in TxsOf(r)' : /\ tx.try <= Try(r)
                                       /\ tx.delta = epochs[r].delta
                                       /\ tx.judged = epochs[r].judged
    PROVE  VerdictOf(r)' /\ KnowsLine(r)' /\ JudgedInLog(r)'
<1>1. CASE e = [NoEpoch EXCEPT !.pc = "done"]
  BY <1>1, OverIsFit
<1>2. CASE e.pc = "submit" /\ e # [NoEpoch EXCEPT !.pc = "done"]
  <2>1. VerdictOf(r)
    BY DEF IInv, EpochsFit
  <2>2. VerdictOf(r)'
    BY <1>2, <2>1 DEF VerdictOf
  <2>3. KnowsLine(r)' /\ JudgedInLog(r)'
    BY <1>2, SameLineSameJudged
  <2>. QED  BY <2>2, <2>3
<1>. QED  BY <1>1, <1>2

LEMMA SubmitKeepsInvariant ==
    ASSUME IInv, NEW r \in RunIds, Submit(r)
    PROVE  IInv'
<1>1. /\ epochs[r].pc = "submit" /\ UNCHANGED <<agent, era, executed, registry>>
      /\ log' = log /\ registered' = registered /\ profiles' = profiles
      /\ blockTime' = blockTime /\ gained' = gained /\ lost' = lost
  BY DEF Submit, agent, registry
<1>2. /\ Types /\ lostAnswers \in [RunIds -> Nat] /\ txs \subseteq Transactions
      /\ epochs \in [RunIds -> EpochRecords]
  BY DEF IInv, Types
<1>3. RegistryTypes'
  BY <1>1 DEF IInv, RegistryTypes
\* Everything but the epoch's own record and transactions.
<1>4. ASSUME NEW e \in EpochRecords, epochs' = [epochs EXCEPT ![r] = e],
             txs' \subseteq Transactions, txs \subseteq txs',
             \A tx \in txs' : tx \in txs \/ tx.epoch = r,
             lostAnswers' \in [RunIds -> Nat],
             \A s \in RunIds : s # r => lostAnswers'[s] = lostAnswers[s],
             VerdictOf(r)', KnowsLine(r)', JudgedInLog(r)',
             AttemptsAreNumbered', HashCoversActedDecisions',
             Cardinality(TxsOf(r)') <= 1 + lostAnswers'[r],
             \A s, t \in TxsOf(r)' : s.delta = t.delta /\ s.judged = t.judged
      PROVE  IInv'
  <2>1. /\ Types' /\ FreshEpochs' /\ EpochsFit' /\ LinesStay
        /\ \A s \in RunIds : s # r => TxsOf(s)' = TxsOf(s)
    BY <1>1, <1>4, OneEpochMoves
  <2>2. OneVerdict'
    <3>1. ASSUME NEW q \in RunIds
          PROVE  /\ Cardinality(TxsOf(q)') <= 1 + lostAnswers'[q]
                 /\ \A s, t \in TxsOf(q)' : s.delta = t.delta /\ s.judged = t.judged
      <4>1. CASE q = r
        BY <1>4, <4>1
      <4>2. CASE q # r
        BY <1>4, <2>1, <4>2 DEF IInv, OneVerdict
      <4>. QED  BY <4>1, <4>2
    <3>. QED  BY <3>1 DEF OneVerdict
  <2>. QED  BY <1>3, <1>4, <2>1, <2>2 DEF IInv
<1>. DEFINE over == [NoEpoch EXCEPT !.pc = "done"]
<1>5. CASE /\ Accepted(r)
           /\ epochs' = [epochs EXCEPT ![r] = over]
           /\ UNCHANGED lostAnswers
  <2>1. /\ txs' \subseteq Transactions /\ txs \subseteq txs'
        /\ \A tx \in txs' : tx \in txs \/ tx.epoch = r
        /\ \A tx \in TxsOf(r)' : tx.delta = epochs[r].delta /\ tx.judged = epochs[r].judged
        /\ Cardinality(TxsOf(r)') <= 1 + lostAnswers[r]
        /\ AttemptsAreNumbered' /\ HashCoversActedDecisions'
    BY <1>1, <1>5, AcceptedFacts
  <2>2. epochs'[r] = over /\ over \in EpochRecords
    BY <1>2, <1>5, EmptyEpochs
  <2>3. VerdictOf(r)' /\ KnowsLine(r)' /\ JudgedInLog(r)'
    BY <2>2, OverIsFit
  <2>4. /\ Cardinality(TxsOf(r)') <= 1 + lostAnswers'[r]
        /\ \A s, t \in TxsOf(r)' : s.delta = t.delta /\ s.judged = t.judged
    BY <1>5, <2>1
  <2>5. /\ lostAnswers' \in [RunIds -> Nat]
        /\ \A s \in RunIds : s # r => lostAnswers'[s] = lostAnswers[s]
    BY <1>2, <1>5
  <2>. HIDE DEF over
  <2>. QED  BY <1>4, <1>5, <2>1, <2>2, <2>3, <2>4, <2>5
<1>6. CASE /\ Accepted(r)
           /\ lostAnswers' = [lostAnswers EXCEPT ![r] = @ + 1]
           /\ Retry(r)
  <2>1. /\ txs' \subseteq Transactions /\ txs \subseteq txs'
        /\ \A tx \in txs' : tx \in txs \/ tx.epoch = r
        /\ \A tx \in TxsOf(r)' : /\ tx.try <= Try(r)
                                 /\ tx.delta = epochs[r].delta
                                 /\ tx.judged = epochs[r].judged
        /\ Cardinality(TxsOf(r)') <= 1 + lostAnswers[r]
        /\ AttemptsAreNumbered' /\ HashCoversActedDecisions'
    BY <1>1, <1>6, AcceptedFacts
  <2>2. PICK e \in EpochRecords :
              /\ epochs' = [epochs EXCEPT ![r] = e]
              /\ epochs'[r] = e
              /\ \/ e = over
                 \/ /\ e.pc = "submit" /\ e.tries = Try(r) /\ e.line = epochs[r].line
                    /\ e.seen = epochs[r].seen /\ e.judged = epochs[r].judged
                    /\ e.delta = epochs[r].delta /\ e.era = epochs[r].era
    BY <1>1, <1>6, RetryFacts
  <2>3. /\ lostAnswers' \in [RunIds -> Nat] /\ lostAnswers'[r] = lostAnswers[r] + 1
        /\ \A s \in RunIds : s # r => lostAnswers'[s] = lostAnswers[s]
    BY <1>2, <1>6
  <2>4. /\ Cardinality(TxsOf(r)') <= lostAnswers'[r]
        /\ Cardinality(TxsOf(r)') <= 1 + lostAnswers'[r]
    <3>1. Cardinality(TxsOf(r)') \in Nat
      <4>1. IsFiniteSet(TxsOf(r)') /\ Cardinality(TxsOf(r)') \in Nat
        <5>1. (txs \subseteq Transactions /\ AttemptsAreNumbered
                 => IsFiniteSet(TxsOf(r)) /\ Cardinality(TxsOf(r)) \in Nat)'
          BY EpochTransactionsAreFinite, PTL
        <5>. QED  BY <2>1, <5>1
      <4>. QED  BY <4>1
    <3>2. lostAnswers[r] \in Nat
      BY <1>2
    <3>. QED  BY <2>1, <2>3, <3>1, <3>2
  <2>5. VerdictOf(r)' /\ KnowsLine(r)' /\ JudgedInLog(r)'
    BY <1>1, <2>1, <2>2, <2>4, AttemptKeepsFit
  <2>6. \A s, t \in TxsOf(r)' : s.delta = t.delta /\ s.judged = t.judged
    BY <2>1
  <2>. HIDE DEF over
  <2>. QED  BY <1>4, <2>1, <2>2, <2>3, <2>4, <2>5, <2>6
<1>7. CASE Retry(r) /\ UNCHANGED <<txs, lostAnswers>>
  <2>1. PICK e \in EpochRecords :
              /\ epochs' = [epochs EXCEPT ![r] = e]
              /\ epochs'[r] = e
              /\ \/ e = over
                 \/ /\ e.pc = "submit" /\ e.tries = Try(r) /\ e.line = epochs[r].line
                    /\ e.seen = epochs[r].seen /\ e.judged = epochs[r].judged
                    /\ e.delta = epochs[r].delta /\ e.era = epochs[r].era
    BY <1>1, <1>7, RetryFacts
  <2>2. TxsOf(r)' = TxsOf(r)
    BY <1>7 DEF TxsOf
  <2>3. /\ Cardinality(TxsOf(r)) <= lostAnswers[r]
        /\ \A tx \in TxsOf(r) : /\ tx.try <= epochs[r].tries
                                /\ tx.delta = epochs[r].delta
                                /\ tx.judged = epochs[r].judged
    BY <1>1 DEF IInv, EpochsFit, VerdictOf
  <2>4. \A tx \in TxsOf(r) : tx.try <= Try(r)
    <3>1. \A tx \in TxsOf(r) : tx.try \in Nat
      BY <1>2 DEF TxsOf, Transactions
    <3>2. epochs[r].tries \in Nat
      <4>1. MaxTries \in Nat
        BY EpochAssumption
      <4>. QED  BY <1>2, <4>1 DEF EpochRecords
    <3>. QED  BY <2>3, <3>1, <3>2 DEF Try
  <2>5. VerdictOf(r)' /\ KnowsLine(r)' /\ JudgedInLog(r)'
    BY <1>1, <1>7, <2>1, <2>2, <2>3, <2>4, AttemptKeepsFit
  <2>6. AttemptsAreNumbered' /\ HashCoversActedDecisions'
    <3>1. InLog' = InLog
      BY <1>1 DEF InLog
    <3>. QED  BY <1>7, <3>1 DEF IInv, AttemptsAreNumbered, HashCoversActedDecisions
  <2>7. /\ Cardinality(TxsOf(r)') <= 1 + lostAnswers'[r]
        /\ \A s, t \in TxsOf(r)' : s.delta = t.delta /\ s.judged = t.judged
    BY <1>7, <2>2 DEF IInv, OneVerdict
  <2>8. /\ txs' \subseteq Transactions /\ txs \subseteq txs'
        /\ \A tx \in txs' : tx \in txs \/ tx.epoch = r
        /\ lostAnswers' \in [RunIds -> Nat]
        /\ \A s \in RunIds : s # r => lostAnswers'[s] = lostAnswers[s]
    BY <1>2, <1>7
  <2>. HIDE DEF over
  <2>. QED  BY <1>4, <2>1, <2>5, <2>6, <2>7, <2>8
<1>. QED  BY <1>1, <1>5, <1>6, <1>7 DEF Submit

-----------------------------------------------------------------------------
(* The steps of the chain.                                                 *)

\* A step of the registry leaves what the agent holds alone.
LEMMA ChainStepKeepsInvariant ==
    ASSUME IInv, UNCHANGED <<agent, era, epochs, txs, lostAnswers>>,
           executed' \subseteq txs, RegistryTypes'
    PROVE  IInv'
<1>1. Types /\ log' = log
  BY DEF IInv, Types, agent
<1>2. Types' /\ FreshEpochs'
  BY <1>1 DEF IInv, Types, FreshEpochs, agent
<1>3. EpochsFit'
  BY <1>1, UnchangedLogStays, EpochsUntouched
<1>4. AttemptsAreNumbered' /\ OneVerdict' /\ HashCoversActedDecisions'
  <2>1. InLog' = InLog /\ \A r \in RunIds : TxsOf(r)' = TxsOf(r)
    BY <1>1 DEF InLog, TxsOf
  <2>. QED  BY <2>1 DEF IInv, AttemptsAreNumbered, OneVerdict, HashCoversActedDecisions
<1>. QED  BY <1>2, <1>3, <1>4 DEF IInv

\* What an update leaves of a profile.
LEMMA AppliedFacts ==
    ASSUME NEW profile \in [score : 0 .. MaxU64, totalDecisions : 0 .. MaxU64,
                            totalCorrect : 0 .. MaxU64, registeredAt : Int],
           NEW delta \in Int
    PROVE  OnChain!Applied(profile, delta)
                  \in [score : 0 .. MaxU64, totalDecisions : 0 .. MaxU64,
                       totalCorrect : 0 .. MaxU64, registeredAt : Int]
<1>1. MaxU64 \in Nat /\ MaxU64 # 0
  BY EpochAssumption
<1>2. \A n \in 0 .. MaxU64 : OnChain!SaturatingAdd(n, 1) \in 0 .. MaxU64
  BY <1>1 DEF OnChain!SaturatingAdd
<1>3. \A n \in 0 .. MaxU64 : delta >= 0 => OnChain!SaturatingAdd(n, delta) \in 0 .. MaxU64
  BY <1>1 DEF OnChain!SaturatingAdd
<1>4. \A n \in 0 .. MaxU64 : ~(delta >= 0) => OnChain!SaturatingSub(n, -delta) \in 0 .. MaxU64
  BY <1>1 DEF OnChain!SaturatingSub
<1>. QED  BY <1>2, <1>3, <1>4 DEF OnChain!Applied

LEMMA UpdateKeepsTypes ==
    ASSUME RegistryTypes, NEW delta \in Int, OnChain!UpdateReputation(Agent, Agent, delta)
    PROVE  RegistryTypes'
<1>. DEFINE after == OnChain!Applied(profiles[Agent], delta)
<1>1. /\ registered' = registered /\ blockTime' = blockTime
      /\ profiles' = [profiles EXCEPT ![Agent] = after]
      /\ gained' = [gained EXCEPT ![Agent] = IF delta > 0 THEN @ + delta ELSE @]
      /\ lost' = [lost EXCEPT ![Agent] = IF delta < 0 THEN @ - delta ELSE @]
  BY DEF OnChain!UpdateReputation
<1>2. gained' \in [{Agent} -> Nat] /\ lost' \in [{Agent} -> Nat]
  BY <1>1 DEF RegistryTypes
<1>3. after \in [score : 0 .. MaxU64, totalDecisions : 0 .. MaxU64,
                 totalCorrect : 0 .. MaxU64, registeredAt : Int]
  <2>1. profiles[Agent] \in [score : 0 .. MaxU64, totalDecisions : 0 .. MaxU64,
                             totalCorrect : 0 .. MaxU64, registeredAt : Int]
    BY DEF RegistryTypes
  <2>. QED  BY <2>1, AppliedFacts
<1>. HIDE DEF after
<1>. QED  BY <1>1, <1>2, <1>3 DEF RegistryTypes

LEMMA DeployKeepsInvariant ==
    ASSUME IInv, Deploy
    PROVE  IInv'
<1>1. /\ UNCHANGED <<agent, era, epochs, txs, lostAnswers>> /\ executed' = executed
      /\ executed' \subseteq txs
  BY DEF Deploy, IInv, Types
<1>2. Seed \in Int /\ MaxU64 \in Nat /\ RegistryTypes
  BY EpochAssumption DEF IInv
<1>3. CASE OnChain!RegisterAgent(Agent, Agent)
  <2>1. RegistryTypes'
    BY <1>2, <1>3 DEF OnChain!RegisterAgent, OnChain!NoProfile, RegistryTypes
  <2>. QED  BY <1>1, <2>1, ChainStepKeepsInvariant
<1>4. CASE OnChain!UpdateReputation(Agent, Agent, Seed)
  <2>1. RegistryTypes'
    BY <1>2, <1>4, UpdateKeepsTypes
  <2>. QED  BY <1>1, <2>1, ChainStepKeepsInvariant
<1>. QED  BY <1>3, <1>4 DEF Deploy

LEMMA ExecuteKeepsInvariant ==
    ASSUME IInv, NEW tx \in txs, Execute(tx)
    PROVE  IInv'
<1>1. /\ UNCHANGED <<agent, era, epochs, txs, lostAnswers>>
      /\ executed' = executed \cup {tx}
  BY DEF Execute
<1>2. executed' \subseteq txs /\ tx.delta \in Int /\ RegistryTypes
  BY <1>1 DEF IInv, Types, Transactions
<1>3. CASE ~registered[Agent] /\ UNCHANGED registry
  <2>1. RegistryTypes'
    BY <1>2, <1>3 DEF RegistryTypes, registry
  <2>. QED  BY <1>1, <1>2, <2>1, ChainStepKeepsInvariant
<1>4. CASE OnChain!UpdateReputation(Agent, Agent, tx.delta)
  <2>1. RegistryTypes'
    BY <1>2, <1>4, UpdateKeepsTypes
  <2>. QED  BY <1>1, <1>2, <2>1, ChainStepKeepsInvariant
<1>. QED  BY <1>3, <1>4 DEF Execute

-----------------------------------------------------------------------------
(* Theorems.                                                               *)

LEMMA InitInvariant == Init => IInv
<1>. SUFFICES ASSUME Init
              PROVE  IInv
  OBVIOUS
<1>1. /\ iteration = 0 /\ run = 0 /\ era = 1 /\ torn = FALSE
      /\ log = [i \in 1 .. OldLines |-> Malformed]
      /\ epochs = [r \in RunIds |-> NoEpoch]
      /\ txs = {} /\ executed = {} /\ lostAnswers = [r \in RunIds |-> 0]
      /\ OnChain!Init
  BY DEF Init
<1>2. OldLines \in Nat /\ MaxRuns \in Nat /\ Seed \in Nat /\ MaxU64 \in Nat
  BY EpochAssumption
<1>3. era \in 1 .. Len(Sheets)
  BY <1>1, EpochAssumption
<1>4. log \in Seq(Lines)
  BY <1>1, <1>2 DEF Lines
<1>5. Types
  <2>1. run \in 0 .. MaxRuns /\ iteration \in 0 .. run
    BY <1>1, <1>2
  <2>2. epochs \in [RunIds -> EpochRecords] /\ lostAnswers \in [RunIds -> Nat]
    BY <1>1, EmptyEpochs
  <2>. QED  BY <1>1, <1>3, <1>4, <2>1, <2>2 DEF Types
<1>6. RegistryTypes
  BY <1>1, <1>2 DEF OnChain!Init, OnChain!NoProfile, RegistryTypes
<1>7. \A r \in RunIds : epochs[r] = NoEpoch /\ TxsOf(r) = {}
  BY <1>1 DEF TxsOf
<1>8. FreshEpochs /\ EpochsFit
  BY <1>7, EmptyEpochs DEF FreshEpochs, EpochsFit, VerdictOf, KnowsLine, JudgedInLog
<1>9. AttemptsAreNumbered /\ HashCoversActedDecisions
  BY <1>1 DEF AttemptsAreNumbered, HashCoversActedDecisions
<1>10. OneVerdict
  <2>1. Cardinality({}) = 0
    BY FS_EmptySet
  <2>2. \A r \in RunIds : Cardinality(TxsOf(r)) = 0 /\ lostAnswers[r] = 0
    <3>1. \A r \in RunIds : Cardinality(TxsOf(r)) = 0
      BY <1>7, <2>1, Zenon
    <3>. QED  BY <1>1, <3>1
  <2>. QED  BY <1>7, <2>2 DEF OneVerdict
<1>. QED  BY <1>5, <1>6, <1>8, <1>9, <1>10 DEF IInv

LEMMA StepKeepsInvariant == IInv /\ [Next]_vars => IInv'
<1>. SUFFICES ASSUME IInv, [Next]_vars
              PROVE  IInv'
  OBVIOUS
<1>1. CASE Iteration
  BY <1>1, IterationKeepsInvariant
<1>2. CASE NextSheet
  BY <1>2, NextSheetKeepsInvariant DEF NextSheet
<1>3. ASSUME NEW r \in RunIds, EpochStep(r)
      PROVE  IInv'
  BY <1>3, ReadLogKeepsInvariant, JudgeKeepsInvariant, SubmitKeepsInvariant DEF EpochStep
<1>4. CASE Restart
  BY <1>4, RestartKeepsInvariant
<1>5. CASE Deploy
  BY <1>5, DeployKeepsInvariant
<1>6. ASSUME NEW tx \in txs, Execute(tx)
      PROVE  IInv'
  BY <1>6, ExecuteKeepsInvariant
<1>7. CASE UNCHANGED vars
  BY <1>7, NextSheetKeepsInvariant DEF vars
<1>. QED  BY <1>1, <1>2, <1>3, <1>4, <1>5, <1>6, <1>7 DEF Next

\* The invariant holds whatever the runs, epochs, restarts and the node do.
THEOREM Invariant == Spec => []IInv
<1>. QED  BY InitInvariant, StepKeepsInvariant, PTL DEF Spec

\* However often it is tried, an epoch leaves transactions of one verdict only, and
\* one more than answers were lost at the most (loop.ts:540-590,
\* casper-tx-client.ts:432).
THEOREM VerdictIsOne == Spec => []OneVerdict
<1>1. IInv => OneVerdict
  BY DEF IInv
<1>. QED  BY <1>1, Invariant, PTL

LEMMA InvariantImpliesTypeOK == IInv => TypeOK
<1>. SUFFICES ASSUME IInv
              PROVE  TypeOK
  OBVIOUS
<1>1. Types /\ RegistryTypes
  BY DEF IInv
<1>2. /\ iteration \in 0 .. run /\ run \in 0 .. MaxRuns /\ era \in DOMAIN Sheets
      /\ InLog \subseteq Decisions \cup {Malformed}
      /\ torn => log # << >> /\ log[Len(log)] = Malformed
      /\ executed \subseteq txs
  BY <1>1, LogFacts, EpochAssumption DEF Types, Lines
<1>3. ASSUME NEW r \in RunIds
      PROVE  /\ epochs[r].pc \in {"none", "read", "oracle", "submit", "done"}
             /\ epochs[r].tries \in 0 .. MaxTries - 1
             /\ epochs[r].pc = "submit" <=> epochs[r].delta # 0
  BY <1>1 DEF IInv, EpochsFit, VerdictOf, Types, EpochRecords, EpochStages
<1>4. OnChain!TypeOK
  BY <1>1 DEF RegistryTypes, OnChain!TypeOK, OnChain!U64
<1>. QED  BY <1>2, <1>3, <1>4 DEF TypeOK

LEMMA InvariantImpliesJudgesItsOwnRun == IInv => JudgesItsOwnRun
<1>. SUFFICES ASSUME IInv, NEW r \in RunIds,
                     epochs[r].pc \in {"oracle", "submit"},
                     epochs[r].seen - epochs[r].line < Lookback * Epochs,
                     log[epochs[r].line] # Malformed,
                     log[epochs[r].line].acted
              PROVE  \E d \in epochs[r].judged : d.run = r
  BY DEF JudgesItsOwnRun
<1>1. KnowsLine(r) /\ JudgedInLog(r)
  BY DEF IInv, EpochsFit
<1>. QED  BY <1>1 DEF KnowsLine, JudgedInLog

\* A majority of right decisions is what is left of all when the wrong ones are a
\* minority.
LEMMA MajorityFacts ==
    ASSUME NEW J, IsFiniteSet(J), NEW right, right \subseteq J,
           2 * Cardinality(right) > Cardinality(J)
    PROVE  Cardinality(J \ right) < Cardinality(J \ (J \ right))
<1>1. IsFiniteSet(right)
  BY FS_Subset
<1>2. Cardinality(right) \in Nat /\ Cardinality(J) \in Nat
  BY <1>1, FS_CardinalityType
<1>3. J \cap right = right /\ J \ (J \ right) = right
  OBVIOUS
<1>4. Cardinality(J \ right) = Cardinality(J) - Cardinality(J \cap right)
  BY <1>1, FS_Difference
<1>5. Cardinality(J \cap right) = Cardinality(right)
  BY <1>3, Zenon
<1>6. Cardinality(J \ (J \ right)) = Cardinality(right)
  BY <1>3, Zenon
<1>. QED  BY <1>2, <1>4, <1>5, <1>6

LEMMA InvariantImpliesNoPraiseForTheAverage == IInv => NoPraiseForTheAverage
<1>. SUFFICES ASSUME IInv, NEW r \in RunIds,
                     epochs[r].pc = "submit", epochs[r].delta = 1
              PROVE  LET judged == epochs[r].judged
                         wrong == {d \in judged : d.top \notin AboveAverage(Sheets[epochs[r].era])}
                     IN  Cardinality(wrong) < Cardinality(judged \ wrong)
  BY DEF NoPraiseForTheAverage
<1>. DEFINE J == epochs[r].judged
            better == AboveAverage(Sheets[epochs[r].era])
            right == {d \in J : d.top \in better}
            wrong == {d \in J : d.top \notin better}
<1>1. IsFiniteSet(J) /\ Delta(J, Sheets[epochs[r].era]) = 1
  BY DEF IInv, EpochsFit, JudgedInLog, VerdictOf
<1>2. 2 * Cardinality(right) > Cardinality(J)
  BY <1>1 DEF Delta
<1>3. right \subseteq J /\ wrong = J \ right
  OBVIOUS
<1>. HIDE DEF J, better, right, wrong
<1>4. Cardinality(J \ right) < Cardinality(J \ (J \ right))
  BY <1>1, <1>2, <1>3, MajorityFacts
<1>5. Cardinality(wrong) < Cardinality(J \ wrong)
  BY <1>3, <1>4
<1>. QED  BY <1>5 DEF wrong, J, better

\* The hash covers decisions of the log that were acted on, at least one; an epoch
\* that is in time judges its own run; and the average is not praised
\* (loop.ts:540-590, reputation.ts:33-60).
THEOREM EpochsAreSound == Spec => []EpochIsSound
<1>1. IInv => EpochIsSound
  BY InvariantImpliesTypeOK, InvariantImpliesJudgesItsOwnRun,
     InvariantImpliesNoPraiseForTheAverage DEF IInv, EpochIsSound
<1>. QED  BY <1>1, Invariant, PTL

=============================================================================
