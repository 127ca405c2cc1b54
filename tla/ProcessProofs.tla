--------------------------- MODULE ProcessProofs ---------------------------
(***************************************************************************)
(* Theorems about the registry contract (Registry), for every width and    *)
(* every set of deltas, and about the processes beside the agent           *)
(* (Processes), for every value of their constants: the MCP server, the    *)
(* script that deploys the contracts, and the script that starts an agent. *)
(***************************************************************************)
EXTENDS Registry, Processes, FoldFacts

-----------------------------------------------------------------------------
(* The registry contract.                                                  *)

\* An agent nobody registered has had no update.
NoHistoryBefore == \A a \in Agents : ~registered[a] => gained[a] = 0 /\ lost[a] = 0

\* The invariants are inductive together, once it is known that a new profile
\* starts with no history.
RegistryInv ==
    /\ TypeOK
    /\ FlagMeansProfile
    /\ CorrectAtMostDecisions
    /\ ScoreBetweenBalanceAndGains
    /\ NoHistoryBefore

Profile == [score : U64, totalDecisions : U64, totalCorrect : U64, registeredAt : Int]

\* The registry begins with no profile.
LEMMA RegistryBegins == Init => RegistryInv
<1>. SUFFICES ASSUME Init PROVE RegistryInv
  OBVIOUS
<1>1. NoProfile \in Profile /\ NoProfile.registeredAt = -1
  BY RegistryAssumption DEF NoProfile, Profile, U64
<1>2. TypeOK
  <2>1. profiles \in [Agents -> Profile]
    BY <1>1 DEF Init
  <2>2. /\ registered \in [Agents -> BOOLEAN] /\ blockTime \in Nat
        /\ gained \in [Agents -> Nat] /\ lost \in [Agents -> Nat]
    BY DEF Init
  <2>. QED  BY <2>1, <2>2 DEF TypeOK, Profile
<1>3. FlagMeansProfile
  <2>1. \A a \in Agents : profiles[a].registeredAt = -1 /\ ~registered[a]
    BY <1>1 DEF Init
  <2>2. ~(-1 >= 0)
    OBVIOUS
  <2>. QED  BY <2>1, <2>2 DEF FlagMeansProfile
<1>4. CorrectAtMostDecisions /\ ScoreBetweenBalanceAndGains /\ NoHistoryBefore
  <2>1. \A a \in Agents : /\ profiles[a].score = 0
                          /\ profiles[a].totalDecisions = 0
                          /\ profiles[a].totalCorrect = 0
                          /\ gained[a] = 0 /\ lost[a] = 0
    BY DEF Init, NoProfile
  <2>. QED  BY <2>1 DEF CorrectAtMostDecisions, ScoreBetweenBalanceAndGains, NoHistoryBefore
<1>. QED  BY <1>2, <1>3, <1>4 DEF RegistryInv

\* What one update does to a profile and to the history of its agent.
LEMMA AppliedFacts ==
    ASSUME NEW p \in Profile, NEW d \in Int, NEW g \in Nat, NEW l \in Nat,
           p.totalCorrect <= p.totalDecisions,
           p.score <= g,
           g <= MaxU64 => p.score >= g - l
    PROVE  LET q == Applied(p, d)
               h == IF d > 0 THEN g + d ELSE g
               k == IF d < 0 THEN l - d ELSE l
           IN  /\ q \in Profile
               /\ q.registeredAt = p.registeredAt
               /\ q.totalDecisions >= p.totalDecisions
               /\ q.totalCorrect >= p.totalCorrect
               /\ q.totalCorrect <= q.totalDecisions
               /\ q.score <= h
               /\ h <= MaxU64 => q.score >= h - k
               /\ h \in Nat /\ k \in Nat
<1>. DEFINE q == Applied(p, d)
<1>1. /\ p.score \in U64 /\ p.totalDecisions \in U64 /\ p.totalCorrect \in U64
      /\ p.registeredAt \in Int /\ MaxU64 \in Nat
  BY RegistryAssumption DEF Profile
<1>2. /\ q.score = IF d >= 0 THEN SaturatingAdd(p.score, d) ELSE SaturatingSub(p.score, -d)
      /\ q.totalDecisions = SaturatingAdd(p.totalDecisions, 1)
      /\ q.totalCorrect = IF d > 0 THEN SaturatingAdd(p.totalCorrect, 1) ELSE p.totalCorrect
      /\ q.registeredAt = p.registeredAt
  BY DEF Applied, Profile
<1>3. q \in [score : {q.score}, totalDecisions : {q.totalDecisions},
            totalCorrect : {q.totalCorrect}, registeredAt : {q.registeredAt}]
  BY DEF Applied, Profile
<1>. HIDE DEF q
<1>4. q.score \in U64 /\ q.totalDecisions \in U64 /\ q.totalCorrect \in U64
  BY <1>1, <1>2 DEF U64, SaturatingAdd, SaturatingSub
<1>5. q \in Profile
  BY <1>1, <1>2, <1>3, <1>4 DEF Profile
<1>6. /\ q.totalDecisions >= p.totalDecisions
      /\ q.totalCorrect >= p.totalCorrect
      /\ q.totalCorrect <= q.totalDecisions
  BY <1>1, <1>2 DEF U64, SaturatingAdd
<1>7. CASE d > 0
  BY <1>1, <1>2, <1>5, <1>6, <1>7 DEF U64, SaturatingAdd, q
<1>8. CASE d = 0
  BY <1>1, <1>2, <1>5, <1>6, <1>8 DEF U64, SaturatingAdd, q
<1>9. CASE d < 0
  BY <1>1, <1>2, <1>5, <1>6, <1>9 DEF U64, SaturatingSub, q
<1>. QED  BY <1>7, <1>8, <1>9

LEMMA RegisterKeeps ==
    ASSUME RegistryInv, NEW c \in Accounts, NEW a \in Agents, RegisterAgent(c, a)
    PROVE  RegistryInv'
<1>. DEFINE new == [NoProfile EXCEPT !.registeredAt = blockTime]
<1>1. /\ registered \in [Agents -> BOOLEAN] /\ profiles \in [Agents -> Profile]
      /\ blockTime \in Nat /\ gained \in [Agents -> Nat] /\ lost \in [Agents -> Nat]
  BY DEF RegistryInv, TypeOK, Profile
<1>2. new = [score |-> 0, totalDecisions |-> 0, totalCorrect |-> 0, registeredAt |-> blockTime]
  BY DEF NoProfile
<1>3. new \in Profile
  BY <1>1, <1>2, RegistryAssumption DEF Profile, U64
<1>. HIDE DEF new
<1>4. /\ profiles' = [profiles EXCEPT ![a] = new]
      /\ registered' = [registered EXCEPT ![a] = TRUE]
      /\ gained' = gained /\ lost' = lost /\ blockTime' = blockTime
  BY DEF RegisterAgent, new
<1>5. profiles' \in [Agents -> Profile] /\ registered' \in [Agents -> BOOLEAN]
  BY <1>1, <1>3, <1>4
<1>6. TypeOK'
  BY <1>1, <1>4, <1>5 DEF TypeOK, Profile
<1>7. profiles'[a] = new /\ \A b \in Agents : b # a => profiles'[b] = profiles[b]
  BY <1>1, <1>4
<1>8. FlagMeansProfile'
  BY <1>1, <1>2, <1>4, <1>7 DEF RegistryInv, FlagMeansProfile
<1>9. CorrectAtMostDecisions'
  BY <1>2, <1>7 DEF RegistryInv, CorrectAtMostDecisions
<1>10. ScoreBetweenBalanceAndGains'
  <2>1. ~registered[a]
    BY DEF RegisterAgent
  <2>2. gained[a] = 0 /\ lost[a] = 0
    BY <2>1 DEF RegistryInv, NoHistoryBefore
  <2>. QED  BY <1>2, <1>4, <1>7, <2>2 DEF RegistryInv, ScoreBetweenBalanceAndGains
<1>11. NoHistoryBefore'
  BY <1>1, <1>4 DEF RegistryInv, NoHistoryBefore
<1>. QED  BY <1>6, <1>8, <1>9, <1>10, <1>11 DEF RegistryInv

LEMMA UpdateKeeps ==
    ASSUME RegistryInv, NEW c \in Accounts, NEW a \in Agents, NEW d \in Deltas,
           UpdateReputation(c, a, d)
    PROVE  RegistryInv'
<1>. DEFINE q == Applied(profiles[a], d)
            h == IF d > 0 THEN gained[a] + d ELSE gained[a]
            k == IF d < 0 THEN lost[a] - d ELSE lost[a]
<1>1. /\ registered \in [Agents -> BOOLEAN] /\ profiles \in [Agents -> Profile]
      /\ blockTime \in Nat /\ gained \in [Agents -> Nat] /\ lost \in [Agents -> Nat]
      /\ d \in Int
  BY RegistryAssumption DEF RegistryInv, TypeOK, Profile
<1>2. /\ profiles[a] \in Profile /\ gained[a] \in Nat /\ lost[a] \in Nat
      /\ profiles[a].totalCorrect <= profiles[a].totalDecisions
      /\ profiles[a].score <= gained[a]
      /\ gained[a] <= MaxU64 => profiles[a].score >= gained[a] - lost[a]
  BY <1>1 DEF RegistryInv, CorrectAtMostDecisions, ScoreBetweenBalanceAndGains
<1>3. /\ q \in Profile
      /\ q.registeredAt = profiles[a].registeredAt
      /\ q.totalCorrect <= q.totalDecisions
      /\ q.score <= h
      /\ h <= MaxU64 => q.score >= h - k
      /\ h \in Nat /\ k \in Nat
  BY <1>1, <1>2, AppliedFacts
<1>. HIDE DEF q, h, k
<1>4. /\ profiles' = [profiles EXCEPT ![a] = q]
      /\ gained' = [gained EXCEPT ![a] = h]
      /\ lost' = [lost EXCEPT ![a] = k]
      /\ registered' = registered /\ blockTime' = blockTime /\ registered[a]
  BY DEF UpdateReputation, q, h, k
<1>5. /\ profiles'[a] = q /\ gained'[a] = h /\ lost'[a] = k
      /\ \A b \in Agents : b # a => /\ profiles'[b] = profiles[b]
                                    /\ gained'[b] = gained[b]
                                    /\ lost'[b] = lost[b]
  BY <1>1, <1>4
<1>6. TypeOK'
  <2>1. profiles' \in [Agents -> Profile]
    BY <1>1, <1>3, <1>4
  <2>2. gained' \in [Agents -> Nat] /\ lost' \in [Agents -> Nat]
    BY <1>1, <1>3, <1>4
  <2>. QED  BY <1>1, <1>4, <2>1, <2>2 DEF TypeOK, Profile
<1>7. FlagMeansProfile'
  BY <1>3, <1>4, <1>5 DEF RegistryInv, FlagMeansProfile
<1>8. CorrectAtMostDecisions'
  BY <1>3, <1>5 DEF RegistryInv, CorrectAtMostDecisions
<1>9. ScoreBetweenBalanceAndGains'
  BY <1>3, <1>5 DEF RegistryInv, ScoreBetweenBalanceAndGains
<1>10. NoHistoryBefore'
  BY <1>4, <1>5 DEF RegistryInv, NoHistoryBefore
<1>. QED  BY <1>6, <1>7, <1>8, <1>9, <1>10 DEF RegistryInv

LEMMA RegistrySteps == RegistryInv /\ [Next]_vars => RegistryInv'
<1>. SUFFICES ASSUME RegistryInv, [Next]_vars PROVE RegistryInv'
  OBVIOUS
<1>1. ASSUME NEW c \in Accounts, NEW a \in Agents, RegisterAgent(c, a) PROVE RegistryInv'
  BY <1>1, RegisterKeeps
<1>2. ASSUME NEW c \in Accounts, NEW a \in Agents, NEW d \in Deltas,
             UpdateReputation(c, a, d)
      PROVE  RegistryInv'
  BY <1>2, UpdateKeeps
<1>3. CASE NextBlock
  BY <1>3 DEF NextBlock, RegistryInv, TypeOK, FlagMeansProfile, CorrectAtMostDecisions,
              ScoreBetweenBalanceAndGains, NoHistoryBefore
<1>4. CASE UNCHANGED vars
  BY <1>4 DEF vars, RegistryInv, TypeOK, FlagMeansProfile, CorrectAtMostDecisions,
              ScoreBetweenBalanceAndGains, NoHistoryBefore
<1>. QED  BY <1>1, <1>2, <1>3, <1>4 DEF Next

\* The invariant holds in every state the registry can reach.
THEOREM RegistryInvariant == Spec => []RegistryInv
BY RegistryBegins, RegistrySteps, PTL DEF Spec

\* Every counter and every score stays within a u64.
THEOREM TypeCorrect == Spec => []TypeOK
<1>1. RegistryInv => TypeOK
  BY DEF RegistryInv
<1>. QED  BY <1>1, RegistryInvariant, PTL

\* The two mappings agree on who is registered.
THEOREM FlagAndProfileAgree == Spec => []FlagMeansProfile
<1>1. RegistryInv => FlagMeansProfile
  BY DEF RegistryInv
<1>. QED  BY <1>1, RegistryInvariant, PTL

\* No more decisions are correct than were made.
THEOREM AccuracyIsAFraction == Spec => []CorrectAtMostDecisions
<1>1. RegistryInv => CorrectAtMostDecisions
  BY DEF RegistryInv
<1>. QED  BY <1>1, RegistryInvariant, PTL

\* The score lies between the balance of its updates and their gains.
THEOREM ScoreBounded == Spec => []ScoreBetweenBalanceAndGains
<1>1. RegistryInv => ScoreBetweenBalanceAndGains
  BY DEF RegistryInv
<1>. QED  BY <1>1, RegistryInvariant, PTL

-----------------------------------------------------------------------------
(* The MCP server.                                                         *)

\* The vault's version counts the reallocations it has executed.
Executed == {k \in 1..MaxChanges : sent[k] = "confirmed"}

\* Each call has done what its answer will say, and nothing before it is answered.
EffectsFit ==
    \A c \in ToolCalls :
        /\ c \in mock <=> toolCalls[c].pc = "answered" /\ toolCalls[c].answer = "submitted"
        /\ toolCalls[c].answer = "data" => c \in paid

\* At most one entry is cached.
OneEntry == \E entry \in states \union {0} : states \subseteq {entry}

\* The inductive invariant.
McpInv ==
    /\ M!TypeOK /\ OneEntry
    /\ version = Cardinality(Executed)
    /\ EffectsFit

\* What a call, the cache and the world outside are.
RequestTypes == [pc : {"free", "reading", "paying", "answered"}, tool : M!Tools \union {"none"},
          start : 0..MaxTime, value : M!Versions \union {M!Placeholder}, about : M!Versions,
          answer : {"none", "state", "dry_run", "submitted", "data", "error"} \union M!Statuses]

StateCacheTypes ==
    /\ Cardinality(states) <= 1
    /\ states \subseteq [value : M!Versions, expires : 0..(MaxTime + StateTtl)]

WorldTypes ==
    /\ mock \subseteq ToolCalls /\ paid \subseteq ToolCalls
    /\ version \in M!Versions /\ since \in [M!Versions -> 0..MaxTime]
    /\ sent \in [1..MaxChanges -> M!Statuses \union {"none"}]
    /\ now \in 0..MaxTime

\* Cardinality is the same inside the instance.
LEMMA McpCardinality == M!Cardinality(states) = Cardinality(states)
BY DEF M!Cardinality, Cardinality

LEMMA McpTypes == M!TypeOK <=> toolCalls \in [ToolCalls -> RequestTypes] /\ StateCacheTypes /\ WorldTypes
<1>1. M!TypeOK => toolCalls \in [ToolCalls -> RequestTypes] /\ StateCacheTypes /\ WorldTypes
  BY McpCardinality DEF M!TypeOK, RequestTypes, StateCacheTypes, WorldTypes
<1>2. toolCalls \in [ToolCalls -> RequestTypes] /\ StateCacheTypes /\ WorldTypes => M!TypeOK
  BY McpCardinality DEF M!TypeOK, RequestTypes, StateCacheTypes, WorldTypes
<1>. QED  BY <1>1, <1>2

LEMMA McpTypesNext ==
    M!TypeOK' <=> toolCalls' \in [ToolCalls -> RequestTypes] /\ StateCacheTypes' /\ WorldTypes'
<1>1. (M!TypeOK <=> toolCalls \in [ToolCalls -> RequestTypes] /\ StateCacheTypes /\ WorldTypes)'
  BY McpTypes, PTL
<1>. QED  BY <1>1 DEF RequestTypes, M!Tools, M!Versions, M!Statuses

LEMMA OneIsAtMostOne == ASSUME NEW group, NEW e, group \subseteq {e} PROVE Cardinality(group) <= 1
<1>1. CASE group = {}
  BY <1>1, FS_EmptySet
<1>2. CASE group = {e}
  BY <1>2, FS_Singleton
<1>. QED  BY <1>1, <1>2

LEMMA McpNumbers ==
    /\ MaxChanges \in Nat /\ MaxTime \in Nat /\ StateTtl \in Nat /\ StateReadTime \in Nat
    /\ M!Versions = 0..MaxChanges /\ 0 \in M!Versions /\ 0 \in 0..MaxTime
BY ProcessesAssumption DEF M!McpAssumption, M!Versions

\* No more reallocations are executed than there are.
LEMMA ExecutedFacts ==
    /\ IsFiniteSet(Executed)
    /\ Cardinality(Executed) \in 0..MaxChanges
    /\ \A k \in 1..MaxChanges : k \notin Executed => Cardinality(Executed) < MaxChanges
<1>1. IsFiniteSet(1..MaxChanges) /\ Cardinality(1..MaxChanges) = MaxChanges
  BY McpNumbers, FS_Interval
<1>2. Executed \subseteq 1..MaxChanges
  BY DEF Executed
<1>3. /\ IsFiniteSet(Executed) /\ Cardinality(Executed) <= MaxChanges
      /\ (Executed # 1..MaxChanges => Cardinality(Executed) < MaxChanges)
  <2>1. IsFiniteSet(Executed) /\ Cardinality(Executed) <= Cardinality(1..MaxChanges)
    BY <1>1, <1>2, FS_Subset
  <2>2. Cardinality(Executed) = Cardinality(1..MaxChanges) => Executed = 1..MaxChanges
    BY <1>1, <1>2, FS_Subset
  <2>3. Cardinality(Executed) \in Nat
    BY <2>1, FS_CardinalityType
  <2>. QED  BY <1>1, <2>1, <2>2, <2>3, McpNumbers
<1>4. Cardinality(Executed) \in Nat
  BY <1>3, FS_CardinalityType
<1>. QED  BY <1>3, <1>4, McpNumbers

LEMMA McpInit == M!Init => McpInv
<1>. SUFFICES ASSUME M!Init PROVE McpInv
  OBVIOUS
<1>1. toolCalls \in [ToolCalls -> RequestTypes]
  BY McpNumbers DEF M!Init, M!Free, RequestTypes
<1>2. StateCacheTypes /\ WorldTypes
  BY McpNumbers, FS_EmptySet DEF M!Init, StateCacheTypes, WorldTypes, M!Statuses
<1>3. Executed = {}
  BY DEF M!Init, Executed
<1>4. EffectsFit
  BY DEF M!Init, M!Free, EffectsFit
<1>. QED  BY <1>1, <1>2, <1>3, <1>4, McpTypes, FS_EmptySet DEF McpInv, OneEntry, M!Init

\* A step of one call that leaves the world alone.
CallStep(c, request) ==
    /\ toolCalls' = [toolCalls EXCEPT ![c] = request]
    /\ UNCHANGED <<version, since, sent, now>>

\* A step of one call that has done what it answers keeps the invariant.
LEMMA CallKeeps ==
    ASSUME McpInv, NEW c \in ToolCalls, NEW request \in RequestTypes, CallStep(c, request),
           StateCacheTypes', OneEntry', mock' \subseteq ToolCalls, paid' \subseteq ToolCalls, paid \subseteq paid',
           mock' \ {c} = mock \ {c},
           c \in mock' <=> request.pc = "answered" /\ request.answer = "submitted",
           request.answer = "data" => c \in paid'
    PROVE  McpInv'
<1>1. toolCalls \in [ToolCalls -> RequestTypes] /\ WorldTypes
  BY McpTypes DEF McpInv
<1>2. M!TypeOK'
  BY <1>1, McpTypesNext DEF CallStep, WorldTypes
<1>3. (version = Cardinality(Executed))'
  BY DEF McpInv, CallStep, Executed
<1>4. EffectsFit'
  BY <1>1 DEF McpInv, EffectsFit, CallStep
<1>. QED  BY <1>2, <1>3, <1>4 DEF McpInv

\* What a call may rely on.
LEMMA ToolFacts ==
    ASSUME McpInv, NEW c \in ToolCalls
    PROVE  /\ toolCalls \in [ToolCalls -> RequestTypes] /\ toolCalls[c] \in RequestTypes
           /\ states \subseteq [value : M!Versions, expires : 0..(MaxTime + StateTtl)]
           /\ mock \subseteq ToolCalls /\ paid \subseteq ToolCalls /\ now \in 0..MaxTime
           /\ version \in M!Versions
           /\ c \in mock <=> toolCalls[c].pc = "answered" /\ toolCalls[c].answer = "submitted"
           /\ toolCalls[c].answer = "data" => c \in paid
BY McpTypes DEF McpInv, StateCacheTypes, WorldTypes, EffectsFit

LEMMA CacheKeeps == ASSUME McpInv, states' \subseteq states PROVE StateCacheTypes' /\ OneEntry'
<1>1. PICK entry : states \subseteq {entry}
  BY DEF McpInv, OneEntry
<1>2. states' \subseteq {entry}
  BY <1>1
<1>3. OneEntry'
  BY <1>2 DEF OneEntry
<1>4. Cardinality(states') <= 1
  BY <1>2, OneIsAtMostOne
<1>. QED  BY <1>3, <1>4, McpTypes DEF McpInv, StateCacheTypes

LEMMA GetVaultStateKeeps == ASSUME McpInv, NEW c \in ToolCalls, M!GetVaultState(c) PROVE McpInv'
<1>1. StateCacheTypes' /\ OneEntry'
  BY CacheKeeps DEF M!GetVaultState, M!Cached
<1>2. PICK request \in RequestTypes :
        /\ toolCalls' = [toolCalls EXCEPT ![c] = request]
        /\ (request.pc = "reading" /\ request.answer = toolCalls[c].answer) \/ request.answer = "state"
  <2>1. CASE M!Cached # {}
    <3>1. PICK entry \in M!Cached :
            toolCalls' = [toolCalls EXCEPT ![c] = [toolCalls[c] EXCEPT !.pc = "answered", !.tool = "get_vault_state",
                                             !.answer = "state", !.start = now, !.value = entry.value]]
      BY <2>1 DEF M!GetVaultState
    <3>. DEFINE answered == [toolCalls[c] EXCEPT !.pc = "answered", !.tool = "get_vault_state",
                                                 !.answer = "state", !.start = now, !.value = entry.value]
    <3>2. entry.value \in M!Versions
      BY ToolFacts DEF M!Cached
    <3>3. answered \in RequestTypes /\ answered.answer = "state"
      BY <3>2, ToolFacts DEF RequestTypes, M!Tools
    <3>4. toolCalls' = [toolCalls EXCEPT ![c] = answered]
      BY <3>1
    <3>. HIDE DEF answered
    <3>. QED  BY <3>3, <3>4
  <2>2. CASE M!Cached = {}
    <3>. DEFINE reading == [toolCalls[c] EXCEPT !.pc = "reading", !.tool = "get_vault_state", !.start = now]
    <3>1. reading \in RequestTypes /\ reading.pc = "reading" /\ reading.answer = toolCalls[c].answer
      BY ToolFacts DEF RequestTypes, M!Tools
    <3>2. toolCalls' = [toolCalls EXCEPT ![c] = reading]
      BY <2>2 DEF M!GetVaultState
    <3>. HIDE DEF reading
    <3>. QED  BY <3>1, <3>2
  <2>. QED  BY <2>1, <2>2
<1>3. CallStep(c, request) /\ mock' = mock /\ paid' = paid /\ toolCalls[c].pc = "free"
  BY <1>2 DEF CallStep, M!GetVaultState
<1>4. c \notin mock
  BY <1>3, ToolFacts
<1>. QED  BY <1>1, <1>2, <1>3, <1>4, ToolFacts, CallKeeps

LEMMA NodeReadsKeeps == ASSUME McpInv, NEW c \in ToolCalls, M!NodeReads(c) PROVE McpInv'
<1>. DEFINE request == [toolCalls[c] EXCEPT !.value = version]
<1>1. StateCacheTypes' /\ OneEntry'
  BY CacheKeeps DEF M!NodeReads
<1>2. request \in RequestTypes /\ request.pc = "reading" /\ request.answer = toolCalls[c].answer
  BY ToolFacts DEF RequestTypes, M!NodeReads
<1>3. CallStep(c, request) /\ mock' = mock /\ paid' = paid
  BY DEF CallStep, M!NodeReads
<1>4. c \notin mock /\ (request.answer = "data" => c \in paid)
  BY <1>2, ToolFacts DEF M!NodeReads
<1>. HIDE DEF request
<1>. QED  BY <1>1, <1>2, <1>3, <1>4, ToolFacts, CallKeeps

LEMMA ReadEndsKeeps == ASSUME McpInv, NEW c \in ToolCalls, M!ReadEnds(c) PROVE McpInv'
<1>. DEFINE request == [toolCalls[c] EXCEPT !.pc = "answered", !.answer = "state"]
<1>. DEFINE entry == [value |-> toolCalls[c].value, expires |-> now + StateTtl]
<1>1. toolCalls[c].value \in M!Versions
  BY ToolFacts DEF RequestTypes, M!ReadEnds
<1>2. entry \in [value : M!Versions, expires : 0..(MaxTime + StateTtl)]
  BY <1>1, ToolFacts, McpNumbers
<1>3. states' = {entry}
  BY DEF M!ReadEnds
<1>4. StateCacheTypes' /\ OneEntry'
  <2>. HIDE DEF entry
  <2>1. Cardinality({entry}) = 1
    BY FS_Singleton
  <2>. QED  BY <1>2, <1>3, <2>1, McpNumbers DEF StateCacheTypes, OneEntry, M!Versions
<1>5. request \in RequestTypes /\ request.pc = "answered" /\ request.answer = "state"
  BY ToolFacts DEF RequestTypes
<1>6. CallStep(c, request) /\ mock' = mock /\ paid' = paid /\ c \notin mock
  BY ToolFacts DEF CallStep, M!ReadEnds
<1>. HIDE DEF request
<1>. QED  BY <1>4, <1>5, <1>6, ToolFacts, CallKeeps

LEMMA ReadFailsKeeps == ASSUME McpInv, NEW c \in ToolCalls, M!ReadFails(c) PROVE McpInv'
<1>. DEFINE request == [toolCalls[c] EXCEPT !.pc = "answered", !.answer = "state", !.value = M!Placeholder]
<1>1. StateCacheTypes' /\ OneEntry'
  BY CacheKeeps DEF M!ReadFails
<1>2. request \in RequestTypes /\ request.pc = "answered" /\ request.answer = "state"
  BY ToolFacts DEF RequestTypes
<1>3. CallStep(c, request) /\ mock' = mock /\ paid' = paid /\ c \notin mock
  BY ToolFacts DEF CallStep, M!ReadFails
<1>. HIDE DEF request
<1>. QED  BY <1>1, <1>2, <1>3, ToolFacts, CallKeeps

LEMMA FetchOracleKeeps == ASSUME McpInv, NEW c \in ToolCalls, M!FetchOracle(c) PROVE McpInv'
<1>. DEFINE request == [toolCalls[c] EXCEPT !.pc = "paying", !.tool = "fetch_rwa_oracle_data", !.start = now]
<1>1. StateCacheTypes' /\ OneEntry'
  BY CacheKeeps DEF M!FetchOracle
<1>2. request \in RequestTypes /\ request.pc = "paying" /\ request.answer = toolCalls[c].answer
  BY ToolFacts DEF RequestTypes, M!Tools
<1>3. CallStep(c, request) /\ mock' = mock /\ paid' = paid /\ c \notin mock
  BY ToolFacts DEF CallStep, M!FetchOracle
<1>4. request.answer = "data" => c \in paid
  BY <1>2, ToolFacts
<1>. HIDE DEF request
<1>. QED  BY <1>1, <1>2, <1>3, <1>4, ToolFacts, CallKeeps

LEMMA SubmitReallocationKeeps ==
    ASSUME McpInv, NEW c \in ToolCalls, NEW valid \in BOOLEAN, NEW dryRun \in BOOLEAN,
           M!SubmitReallocation(c, valid, dryRun)
    PROVE  McpInv'
<1>. DEFINE answer == IF ~valid THEN "error" ELSE IF dryRun THEN "dry_run" ELSE "submitted"
<1>. DEFINE request == [toolCalls[c] EXCEPT !.pc = "answered", !.tool = "submit_reallocation", !.answer = answer]
<1>1. StateCacheTypes' /\ OneEntry'
  BY CacheKeeps DEF M!SubmitReallocation
<1>2. request \in RequestTypes /\ request.pc = "answered" /\ request.answer = answer
  BY ToolFacts DEF RequestTypes, M!Tools
<1>3. CallStep(c, request) /\ paid' = paid /\ c \notin mock
  BY ToolFacts DEF CallStep, M!SubmitReallocation, M!Answers
<1>4. mock' = IF answer = "submitted" THEN mock \union {c} ELSE mock
  BY DEF M!SubmitReallocation
<1>5. answer # "data"
  OBVIOUS
<1>. HIDE DEF request, answer
<1>. QED  BY <1>1, <1>2, <1>3, <1>4, <1>5, ToolFacts, CallKeeps

LEMMA OraclePaidKeeps == ASSUME McpInv, NEW c \in ToolCalls, M!OraclePaid(c) PROVE McpInv'
<1>1. StateCacheTypes' /\ OneEntry'
  BY CacheKeeps DEF M!OraclePaid
<1>2. CallStep(c, toolCalls[c]) /\ mock' = mock /\ paid' = paid \union {c} /\ c \notin mock
  BY ToolFacts DEF CallStep, M!OraclePaid
<1>. QED  BY <1>1, <1>2, ToolFacts, CallKeeps DEF M!OraclePaid

LEMMA OracleAnswersKeeps == ASSUME McpInv, NEW c \in ToolCalls, M!OracleAnswers(c) PROVE McpInv'
<1>1. PICK answer \in {"data", "error"} :
        M!Answers(c, "fetch_rwa_oracle_data", answer) /\ (answer = "data" => c \in paid)
  BY DEF M!OracleAnswers
<1>. DEFINE request == [toolCalls[c] EXCEPT !.pc = "answered", !.tool = "fetch_rwa_oracle_data", !.answer = answer]
<1>2. StateCacheTypes' /\ OneEntry'
  BY CacheKeeps DEF M!OracleAnswers
<1>3. request \in RequestTypes /\ request.pc = "answered" /\ request.answer = answer
  BY ToolFacts DEF RequestTypes, M!Tools
<1>4. CallStep(c, request) /\ mock' = mock /\ paid' = paid /\ c \notin mock
  BY <1>1, ToolFacts DEF CallStep, M!OracleAnswers, M!Answers
<1>. HIDE DEF request
<1>. QED  BY <1>1, <1>2, <1>3, <1>4, ToolFacts, CallKeeps

LEMMA GetTransactionStatusKeeps ==
    ASSUME McpInv, NEW c \in ToolCalls, NEW k \in M!Versions, M!GetTransactionStatus(c, k)
    PROVE  McpInv'
<1>. DEFINE request == [toolCalls[c] EXCEPT !.pc = "answered", !.tool = "get_transaction_status",
                                            !.start = now, !.about = k, !.answer = M!MockStatus]
<1>1. StateCacheTypes' /\ OneEntry'
  BY CacheKeeps DEF M!GetTransactionStatus
<1>2. request \in RequestTypes /\ request.pc = "answered" /\ request.answer = "confirmed"
  BY ToolFacts DEF RequestTypes, M!Tools, M!MockStatus, M!Statuses
<1>3. CallStep(c, request) /\ mock' = mock /\ paid' = paid /\ c \notin mock
  BY ToolFacts DEF CallStep, M!GetTransactionStatus
<1>. HIDE DEF request
<1>. QED  BY <1>1, <1>2, <1>3, ToolFacts, CallKeeps

\* What the agent, the chain and the clock do leaves the calls alone.
LEMMA WorldKeeps ==
    ASSUME McpInv, UNCHANGED <<toolCalls, states, mock, paid>>,
           WorldTypes', (version = Cardinality(Executed))'
    PROVE  McpInv'
<1>1. M!TypeOK' /\ OneEntry'
  BY McpTypes, McpTypesNext DEF McpInv, StateCacheTypes, OneEntry
<1>2. EffectsFit'
  BY DEF McpInv, EffectsFit
<1>. QED  BY <1>1, <1>2 DEF McpInv

LEMMA AgentSubmitsKeeps == ASSUME McpInv, NEW k \in 1..MaxChanges, M!AgentSubmits(k) PROVE McpInv'
<1>1. WorldTypes /\ WorldTypes'
  BY McpTypes DEF McpInv, WorldTypes, M!AgentSubmits, M!Statuses
<1>2. Executed' = Executed
  BY <1>1 DEF WorldTypes, Executed, M!AgentSubmits
<1>. QED  BY <1>1, <1>2, WorldKeeps DEF McpInv, M!AgentSubmits

LEMMA ChainExecutesKeeps == ASSUME McpInv, NEW k \in 1..MaxChanges, M!ChainExecutes(k) PROVE McpInv'
<1>1. WorldTypes /\ k \notin Executed /\ version = Cardinality(Executed)
  BY McpTypes DEF McpInv, M!ChainExecutes, Executed
<1>2. version < MaxChanges /\ version + 1 \in M!Versions /\ version \in Nat
  BY <1>1, ExecutedFacts, McpNumbers
<1>3. CASE sent' = [sent EXCEPT ![k] = "failed"] /\ UNCHANGED <<version, since>>
  <2>1. WorldTypes'
    BY <1>1, <1>3 DEF WorldTypes, M!ChainExecutes, M!Statuses
  <2>2. Executed' = Executed
    BY <1>1, <1>3 DEF WorldTypes, Executed
  <2>. QED  BY <1>1, <1>3, <2>1, <2>2, WorldKeeps DEF M!ChainExecutes
<1>4. CASE /\ sent' = [sent EXCEPT ![k] = "confirmed"] /\ version' = version + 1
           /\ since' = [since EXCEPT ![version + 1] = now]
  <2>1. WorldTypes'
    BY <1>1, <1>2, <1>4 DEF WorldTypes, M!ChainExecutes, M!Statuses
  <2>2. Executed' = Executed \union {k}
    BY <1>1, <1>4 DEF WorldTypes, Executed
  <2>3. version' = Cardinality(Executed')
    BY <1>1, <1>2, <1>4, <2>2, ExecutedFacts, FS_AddElement
  <2>. QED  BY <2>1, <2>3, WorldKeeps DEF M!ChainExecutes
<1>. QED  BY <1>3, <1>4 DEF M!ChainExecutes

LEMMA McpTickKeeps == ASSUME McpInv, M!Tick PROVE McpInv'
<1>1. WorldTypes'
  BY McpTypes, McpNumbers DEF McpInv, WorldTypes, M!Tick
<1>2. (version = Cardinality(Executed))'
  BY DEF McpInv, Executed, M!Tick
<1>. QED  BY <1>1, <1>2, WorldKeeps DEF M!Tick

LEMMA McpNext == ASSUME McpInv, M!Next PROVE McpInv'
<1>1. ASSUME NEW c \in ToolCalls, M!ReadResource(c) PROVE McpInv'
  BY <1>1, GetVaultStateKeeps, FetchOracleKeeps DEF M!ReadResource
<1>. QED  BY <1>1, GetVaultStateKeeps, NodeReadsKeeps, ReadEndsKeeps, ReadFailsKeeps, SubmitReallocationKeeps,
             FetchOracleKeeps, OraclePaidKeeps, OracleAnswersKeeps, GetTransactionStatusKeeps,
             AgentSubmitsKeeps, ChainExecutesKeeps, McpTickKeeps DEF M!Next

LEMMA McpStutters == ASSUME McpInv, UNCHANGED mcpVars PROVE McpInv'
<1>1. WorldTypes'
  BY McpTypes DEF McpInv, WorldTypes, mcpVars
<1>2. (version = Cardinality(Executed))'
  BY DEF McpInv, Executed, mcpVars
<1>. QED  BY <1>1, <1>2, WorldKeeps DEF mcpVars

\* Every call's answer matches what it has done, for every number of calls and changes.
THEOREM McpInvariant == M!Spec => []McpInv
<1>1. M!Init => McpInv
  BY McpInit
<1>2. McpInv /\ [M!Next]_(M!vars) => McpInv'
  BY McpNext, McpStutters DEF mcpVars, M!vars
<1>. QED  BY <1>1, <1>2, PTL DEF M!Spec

\* An MCP tool says "submitted" exactly when it has submitted, and its oracle data are
\* paid for (tools.ts, mcp-server.ts).
THEOREM McpAnswersAreTrue == M!Spec => []McpIsTrue
<1>1. McpInv => McpIsTrue
  BY DEF McpInv, EffectsFit, McpIsTrue, M!AnswersMatchEffects
<1>. QED  BY <1>1, McpInvariant, PTL

-----------------------------------------------------------------------------
(* What the MCP server answers is recent.                                  *)

\* The vault was at version v at some moment not before t.
StillAt(v, t) == v <= version /\ (v = version \/ since[v + 1] >= t)

\* A read has its answer from while it has been under way, and is over in time.
RequestIsRecent(request) ==
    /\ request.pc # "answered" => request.answer = "none"
    /\ request.pc = "free" => request.value = M!Placeholder
    /\ request.pc = "reading" => request.start <= now /\ now <= request.start + StateReadTime
    /\ (request.pc = "reading" /\ request.value # M!Placeholder) => StillAt(request.value, request.start)

\* An entry was the vault's state when its read began, at the latest.
EntryIsRecent(entry) ==
    /\ entry.expires <= now + StateTtl
    /\ StillAt(entry.value, entry.expires - (StateTtl + StateReadTime))

RequestsAreRecent == \A c \in ToolCalls : RequestIsRecent(toolCalls[c])
EntriesAreRecent == \A entry \in states : EntryIsRecent(entry)

\* What StateIsRecent says of one step.
AnswersAreRecent ==
    \A c \in ToolCalls :
        (toolCalls[c].pc # "answered" /\ toolCalls'[c].answer = "state" /\ toolCalls'[c].value # M!Placeholder) =>
            \/ toolCalls'[c].value = version
            \/ since[toolCalls'[c].value + 1] >= now - (StateTtl + StateReadTime)

\* A state that is known to have been the vault's at t has been at any moment before.
LEMMA StillAtEarlier ==
    ASSUME McpInv, NEW v \in M!Versions, NEW t \in Int, NEW s \in Int, s <= t, StillAt(v, t)
    PROVE  StillAt(v, s) /\ (v = version \/ since[v + 1] >= s)
<1>1. version \in 0..MaxChanges /\ since \in [0..MaxChanges -> 0..MaxTime] /\ v \in 0..MaxChanges
  BY McpTypes, McpNumbers DEF McpInv, WorldTypes
<1>2. ASSUME v # version PROVE since[v + 1] >= s
  <2>1. v + 1 \in 0..MaxChanges
    BY <1>1, <1>2, McpNumbers DEF StillAt
  <2>2. since[v + 1] \in 0..MaxTime /\ since[v + 1] >= t
    BY <1>1, <1>2, <2>1 DEF StillAt
  <2>. DEFINE ended == since[v + 1]
  <2>. HIDE DEF ended
  <2>3. ended \in 0..MaxTime /\ ended >= t
    BY <2>2 DEF ended
  <2>4. ended >= s
    BY <2>3, McpNumbers
  <2>. QED  BY <2>4 DEF ended
<1>. QED  BY <1>2 DEF StillAt

\* The chain moves on: what the vault was at before it was still at until now.
LEMMA StillAtAfter ==
    ASSUME McpInv, NEW v \in M!Versions, NEW t \in Int, t <= now, StillAt(v, t),
           version < MaxChanges, version' = version + 1, since' = [since EXCEPT ![version + 1] = now]
    PROVE  StillAt(v, t)'
<1>1. version \in 0..MaxChanges /\ since \in [0..MaxChanges -> 0..MaxTime] /\ v \in 0..MaxChanges /\ now \in 0..MaxTime
  BY McpTypes, McpNumbers DEF McpInv, WorldTypes
<1>2. v <= version /\ v + 1 \in 0..MaxChanges /\ v <= version' /\ v # version'
  BY <1>1, McpNumbers DEF StillAt
<1>3. CASE v = version
  <2>1. since'[v + 1] = now
    BY <1>1, <1>2, <1>3
  <2>. QED  BY <1>2, <2>1 DEF StillAt
<1>4. CASE v # version
  <2>1. since'[v + 1] = since[v + 1]
    BY <1>1, <1>2, <1>4
  <2>. QED  BY <1>2, <1>4, <2>1 DEF StillAt
<1>. QED  BY <1>3, <1>4

\* A step of one call that leaves the world alone.
LEMMA CallStaysRecent ==
    ASSUME McpInv, RequestsAreRecent, NEW c \in ToolCalls, NEW request,
           CallStep(c, request), RequestIsRecent(request), \A entry \in states' : EntryIsRecent(entry),
           (toolCalls[c].pc # "answered" /\ request.answer = "state" /\ request.value # M!Placeholder) =>
               \/ request.value = version
               \/ since[request.value + 1] >= now - (StateTtl + StateReadTime)
    PROVE  RequestsAreRecent' /\ EntriesAreRecent' /\ AnswersAreRecent
<1>1. toolCalls'[c] = request /\ \A d \in ToolCalls : d # c => toolCalls'[d] = toolCalls[d]
  BY ToolFacts DEF CallStep
<1>2. UNCHANGED <<version, since, now>>
  BY DEF CallStep
<1>3. ASSUME NEW d \in ToolCalls PROVE RequestIsRecent(toolCalls[d])'
  <2>1. RequestIsRecent(toolCalls'[d])
    BY <1>1 DEF RequestsAreRecent
  <2>. QED  BY <1>2, <2>1 DEF RequestIsRecent, StillAt, M!Placeholder
<1>4. ASSUME NEW entry \in states' PROVE EntryIsRecent(entry)'
  BY <1>2 DEF EntryIsRecent, StillAt
<1>5. ASSUME NEW d \in ToolCalls, toolCalls[d].pc # "answered", toolCalls'[d].answer = "state",
             toolCalls'[d].value # M!Placeholder
      PROVE  \/ toolCalls'[d].value = version
             \/ since[toolCalls'[d].value + 1] >= now - (StateTtl + StateReadTime)
  <2>1. d = c
    BY <1>1, <1>5 DEF RequestsAreRecent, RequestIsRecent
  <2>. QED  BY <1>1, <1>5, <2>1
<1>. QED  BY <1>3, <1>4, <1>5 DEF RequestsAreRecent, EntriesAreRecent, AnswersAreRecent

\* A step that leaves the requests alone.
LEMMA NothingIsAnswered ==
    ASSUME RequestsAreRecent, toolCalls' = toolCalls
    PROVE  AnswersAreRecent
BY DEF RequestsAreRecent, RequestIsRecent, AnswersAreRecent

\* What the requests, the cache and the clock are.
LEMMA RecentFacts ==
    ASSUME McpInv, RequestsAreRecent, NEW c \in ToolCalls
    PROVE  /\ toolCalls[c] \in RequestTypes /\ RequestIsRecent(toolCalls[c])
           /\ now \in 0..MaxTime /\ version \in M!Versions /\ since \in [M!Versions -> 0..MaxTime]
           /\ \A entry \in states : entry.value \in M!Versions /\ entry.expires \in 0..(MaxTime + StateTtl)
           /\ StateTtl \in Nat /\ StateReadTime \in Nat /\ M!Placeholder = -1
<1>1. WorldTypes
  BY McpTypes DEF McpInv
<1>. QED  BY <1>1, ToolFacts, McpNumbers DEF RequestsAreRecent, WorldTypes, M!Placeholder

\* A cached state is given, or a read begins.
LEMMA AnsweredFromCache ==
    ASSUME McpInv, RequestsAreRecent, EntriesAreRecent, NEW c \in ToolCalls, M!GetVaultState(c)
    PROVE  RequestsAreRecent' /\ EntriesAreRecent' /\ AnswersAreRecent
<1>1. \A entry \in states' : EntryIsRecent(entry)
  BY DEF M!GetVaultState, M!Cached, EntriesAreRecent
<1>2. toolCalls[c].pc = "free" /\ toolCalls[c].value = M!Placeholder /\ toolCalls[c].answer = "none"
  BY RecentFacts DEF RequestIsRecent, M!GetVaultState
<1>3. CASE M!Cached # {}
  <2>1. PICK entry \in M!Cached :
          toolCalls' = [toolCalls EXCEPT ![c] = [toolCalls[c] EXCEPT !.pc = "answered", !.tool = "get_vault_state",
                                           !.answer = "state", !.start = now, !.value = entry.value]]
    BY <1>3 DEF M!GetVaultState
  <2>. DEFINE answered == [toolCalls[c] EXCEPT !.pc = "answered", !.tool = "get_vault_state",
                                               !.answer = "state", !.start = now, !.value = entry.value]
  <2>2. entry \in states /\ entry.expires > now /\ EntryIsRecent(entry)
    BY DEF M!Cached, EntriesAreRecent
  <2>3. answered.pc = "answered" /\ answered.value = entry.value
    BY RecentFacts DEF RequestTypes
  <2>4. CallStep(c, answered)
    BY <2>1 DEF CallStep, M!GetVaultState
  <2>. HIDE DEF answered
  <2>5. RequestIsRecent(answered)
    BY <2>3 DEF RequestIsRecent
  <2>6. entry.value = version \/ since[entry.value + 1] >= now - (StateTtl + StateReadTime)
    <3>. DEFINE held == entry.expires - (StateTtl + StateReadTime)
                limit == now - (StateTtl + StateReadTime)
    <3>1. held \in Int /\ limit \in Int /\ limit <= held
      BY <2>2, RecentFacts
    <3>2. StillAt(entry.value, held) /\ entry.value \in M!Versions
      BY <2>2, RecentFacts DEF EntryIsRecent
    <3>. HIDE DEF held, limit
    <3>3. entry.value = version \/ since[entry.value + 1] >= limit
      BY <3>1, <3>2, StillAtEarlier
    <3>. QED  BY <3>3 DEF limit
  <2>. QED  BY <1>1, <2>3, <2>4, <2>5, <2>6, CallStaysRecent
<1>4. CASE M!Cached = {}
  <2>. DEFINE reading == [toolCalls[c] EXCEPT !.pc = "reading", !.tool = "get_vault_state", !.start = now]
  <2>1. /\ reading.pc = "reading" /\ reading.start = now /\ reading.value = M!Placeholder
        /\ reading.answer = "none"
    BY <1>2, RecentFacts DEF RequestTypes
  <2>2. CallStep(c, reading)
    BY <1>4 DEF CallStep, M!GetVaultState
  <2>. HIDE DEF reading
  <2>3. RequestIsRecent(reading)
    BY <2>1, RecentFacts DEF RequestIsRecent
  <2>. QED  BY <1>1, <2>1, <2>2, <2>3, CallStaysRecent
<1>. QED  BY <1>3, <1>4

\* The node answers a read with the vault's version of the moment.
LEMMA NodeReadsRecent ==
    ASSUME McpInv, RequestsAreRecent, EntriesAreRecent, NEW c \in ToolCalls, M!NodeReads(c)
    PROVE  RequestsAreRecent' /\ EntriesAreRecent' /\ AnswersAreRecent
<1>. DEFINE request == [toolCalls[c] EXCEPT !.value = version]
<1>1. /\ request.pc = "reading" /\ request.start = toolCalls[c].start /\ request.value = version
      /\ request.answer = toolCalls[c].answer /\ toolCalls[c].pc = "reading"
  BY RecentFacts DEF RequestTypes, M!NodeReads
<1>2. CallStep(c, request) /\ states' = states
  BY DEF CallStep, M!NodeReads
<1>. HIDE DEF request
<1>3. RequestIsRecent(request)
  BY <1>1, RecentFacts, McpNumbers DEF RequestIsRecent, StillAt
<1>4. request.answer # "state"
  BY <1>1, RecentFacts DEF RequestIsRecent
<1>. QED  BY <1>2, <1>3, <1>4, CallStaysRecent DEF EntriesAreRecent

\* A read ends within its time, and its state is kept for a TTL.
LEMMA ReadEndsRecent ==
    ASSUME McpInv, RequestsAreRecent, EntriesAreRecent, NEW c \in ToolCalls, M!ReadEnds(c)
    PROVE  RequestsAreRecent' /\ EntriesAreRecent' /\ AnswersAreRecent
<1>. DEFINE request == [toolCalls[c] EXCEPT !.pc = "answered", !.answer = "state"]
            value == toolCalls[c].value
            start == toolCalls[c].start
            oldest == now - (StateTtl + StateReadTime)
            begun == (now + StateTtl) - (StateTtl + StateReadTime)
<1>1. request.pc = "answered" /\ request.value = value
  BY RecentFacts DEF RequestTypes
<1>2. CallStep(c, request) /\ states' = {[value |-> value, expires |-> now + StateTtl]}
  BY DEF CallStep, M!ReadEnds
<1>3. /\ value \in M!Versions /\ start \in 0..MaxTime
      /\ StillAt(value, start) /\ now <= start + StateReadTime
  BY RecentFacts DEF RequestIsRecent, RequestTypes, M!ReadEnds
<1>4. /\ start \in Int /\ oldest \in Int /\ begun \in Int /\ oldest <= start /\ begun <= start
  BY <1>3, RecentFacts
<1>. HIDE DEF request, value, start, oldest, begun
<1>5. StillAt(value, begun) /\ (value = version \/ since[value + 1] >= oldest)
  BY <1>3, <1>4, StillAtEarlier
<1>6. ASSUME NEW entry \in states' PROVE EntryIsRecent(entry)
  <2>1. entry.value = value /\ entry.expires = now + StateTtl
    BY <1>2
  <2>2. now + StateTtl \in Int
    BY RecentFacts
  <2>3. begun = entry.expires - (StateTtl + StateReadTime)
    BY <2>1, Zenon DEF begun
  <2>4. entry.expires <= now + StateTtl
    BY <2>1, <2>2
  <2>5. StillAt(entry.value, entry.expires - (StateTtl + StateReadTime))
    BY <1>5, <2>1, <2>3
  <2>. QED  BY <2>4, <2>5 DEF EntryIsRecent
<1>7. RequestIsRecent(request)
  BY <1>1 DEF RequestIsRecent
<1>. QED  BY <1>1, <1>2, <1>5, <1>6, <1>7, CallStaysRecent DEF oldest

\* Steps of a call that answer with no state of the vault.
LEMMA OtherAnswersRecent ==
    ASSUME McpInv, RequestsAreRecent, EntriesAreRecent, NEW c \in ToolCalls, NEW request,
           CallStep(c, request), states' = states,
           \/ request.pc = "answered" /\ (request.answer = "state" => request.value = M!Placeholder)
           \/ request.pc = "paying" /\ request.answer = "none"
    PROVE  RequestsAreRecent' /\ EntriesAreRecent' /\ AnswersAreRecent
<1>1. RequestIsRecent(request)
  BY DEF RequestIsRecent
<1>2. request.answer = "state" => request.value = M!Placeholder
  OBVIOUS
<1>. QED  BY <1>1, <1>2, CallStaysRecent DEF EntriesAreRecent

\* The other tools, and a read that fails.
LEMMA ToolsRecent ==
    ASSUME McpInv, RequestsAreRecent, EntriesAreRecent, NEW c \in ToolCalls,
           \/ M!ReadFails(c) \/ M!FetchOracle(c) \/ M!OracleAnswers(c)
           \/ \E valid, dryRun \in BOOLEAN : M!SubmitReallocation(c, valid, dryRun)
           \/ \E k \in M!Versions : M!GetTransactionStatus(c, k)
    PROVE  RequestsAreRecent' /\ EntriesAreRecent' /\ AnswersAreRecent
<1>1. PICK request :
        /\ CallStep(c, request) /\ states' = states
        /\ \/ request.pc = "answered" /\ (request.answer = "state" => request.value = M!Placeholder)
           \/ request.pc = "paying" /\ request.answer = "none"
  <2>1. CASE M!ReadFails(c)
    <3>. DEFINE failed == [toolCalls[c] EXCEPT !.pc = "answered", !.answer = "state", !.value = M!Placeholder]
    <3>1. failed.pc = "answered" /\ failed.value = M!Placeholder
      BY RecentFacts DEF RequestTypes
    <3>2. CallStep(c, failed) /\ states' = states
      BY <2>1 DEF CallStep, M!ReadFails
    <3>. HIDE DEF failed
    <3>. QED  BY <3>1, <3>2
  <2>2. CASE M!FetchOracle(c)
    <3>. DEFINE paying == [toolCalls[c] EXCEPT !.pc = "paying", !.tool = "fetch_rwa_oracle_data", !.start = now]
    <3>1. paying.pc = "paying" /\ paying.answer = "none"
      BY <2>2, RecentFacts DEF RequestTypes, M!FetchOracle, RequestIsRecent
    <3>2. CallStep(c, paying) /\ states' = states
      BY <2>2 DEF CallStep, M!FetchOracle
    <3>. HIDE DEF paying
    <3>. QED  BY <3>1, <3>2
  <2>3. ASSUME NEW tool, NEW answer, M!Answers(c, tool, answer), answer # "state",
               UNCHANGED <<states, version, since, sent, now>>
        PROVE  \E request : /\ CallStep(c, request) /\ states' = states
                            /\ request.pc = "answered" /\ request.answer # "state"
    <3>. DEFINE answered == [toolCalls[c] EXCEPT !.pc = "answered", !.tool = tool, !.answer = answer]
    <3>1. answered.pc = "answered" /\ answered.answer # "state"
      BY <2>3, RecentFacts DEF RequestTypes
    <3>2. CallStep(c, answered) /\ states' = states
      BY <2>3 DEF CallStep, M!Answers
    <3>. HIDE DEF answered
    <3>. QED  BY <3>1, <3>2
  <2>4. CASE M!OracleAnswers(c)
    <3>1. PICK answer \in {"data", "error"} : M!Answers(c, "fetch_rwa_oracle_data", answer)
      BY <2>4 DEF M!OracleAnswers
    <3>2. UNCHANGED <<states, version, since, sent, now>>
      BY <2>4 DEF M!OracleAnswers
    <3>. QED  BY <2>3, <3>1, <3>2
  <2>5. ASSUME NEW valid \in BOOLEAN, NEW dryRun \in BOOLEAN, M!SubmitReallocation(c, valid, dryRun)
        PROVE  \E answer \in {"error", "dry_run", "submitted"} : M!Answers(c, "submit_reallocation", answer)
    BY <2>5 DEF M!SubmitReallocation
  <2>6. CASE \E valid, dryRun \in BOOLEAN : M!SubmitReallocation(c, valid, dryRun)
    <3>1. PICK answer \in {"error", "dry_run", "submitted"} : M!Answers(c, "submit_reallocation", answer)
      BY <2>5, <2>6
    <3>2. UNCHANGED <<states, version, since, sent, now>>
      BY <2>6 DEF M!SubmitReallocation
    <3>. QED  BY <2>3, <3>1, <3>2
  <2>7. CASE \E k \in M!Versions : M!GetTransactionStatus(c, k)
    <3>1. PICK k \in M!Versions : M!GetTransactionStatus(c, k)
      BY <2>7
    <3>. DEFINE status == [toolCalls[c] EXCEPT !.pc = "answered", !.tool = "get_transaction_status",
                                               !.start = now, !.about = k, !.answer = M!MockStatus]
    <3>2. status.pc = "answered" /\ status.answer # "state"
      BY RecentFacts DEF RequestTypes, M!MockStatus
    <3>3. CallStep(c, status) /\ states' = states
      BY <3>1 DEF CallStep, M!GetTransactionStatus
    <3>. HIDE DEF status
    <3>. QED  BY <3>2, <3>3
  <2>. QED  BY <2>1, <2>2, <2>4, <2>6, <2>7
<1>. QED  BY <1>1, OtherAnswersRecent

\* Time passes, and a read is over before its time is.
LEMMA TickRecent ==
    ASSUME McpInv, RequestsAreRecent, EntriesAreRecent, M!Tick
    PROVE  RequestsAreRecent' /\ EntriesAreRecent'
<1>1. now \in 0..MaxTime /\ now' = now + 1 /\ UNCHANGED <<toolCalls, states, version, since>>
  BY McpTypes DEF McpInv, WorldTypes, M!Tick
<1>2. ASSUME NEW c \in ToolCalls PROVE RequestIsRecent(toolCalls[c])'
  <2>1. /\ RequestIsRecent(toolCalls[c]) /\ toolCalls[c] \in RequestTypes
        /\ toolCalls[c].start \in 0..MaxTime /\ StateReadTime \in Nat
        /\ toolCalls[c].pc = "reading" => now < toolCalls[c].start + StateReadTime
    BY RecentFacts DEF RequestTypes, M!Tick
  <2>. DEFINE start == toolCalls[c].start
  <2>2. start \in 0..MaxTime /\ toolCalls'[c].start = start
        /\ (toolCalls[c].pc = "reading" => start <= now /\ now < start + StateReadTime)
    BY <1>1, <2>1 DEF RequestIsRecent
  <2>. HIDE DEF start
  <2>3. toolCalls[c].pc = "reading" => start <= now' /\ now' <= start + StateReadTime
    BY <1>1, <2>1, <2>2, McpNumbers
  <2>. QED  BY <1>1, <2>1, <2>2, <2>3 DEF RequestIsRecent, StillAt, M!Placeholder
<1>3. ASSUME NEW entry \in states' PROVE EntryIsRecent(entry)'
  <2>1. entry \in states /\ EntryIsRecent(entry) /\ entry.expires \in 0..(MaxTime + StateTtl) /\ StateTtl \in Nat
    BY <1>1, McpTypes, McpNumbers DEF McpInv, StateCacheTypes, EntriesAreRecent
  <2>. DEFINE expires == entry.expires
  <2>2. expires \in 0..(MaxTime + StateTtl) /\ expires <= now + StateTtl
    BY <2>1 DEF EntryIsRecent
  <2>. HIDE DEF expires
  <2>3. expires <= now' + StateTtl
    BY <1>1, <2>1, <2>2, McpNumbers
  <2>. QED  BY <1>1, <2>1, <2>3 DEF EntryIsRecent, StillAt, expires
<1>. QED  BY <1>2, <1>3 DEF RequestsAreRecent, EntriesAreRecent

\* The chain executes a reallocation, or fails one.
LEMMA ChainRecent ==
    ASSUME McpInv, RequestsAreRecent, EntriesAreRecent, NEW k \in 1..MaxChanges,
           M!ChainExecutes(k) \/ M!AgentSubmits(k)
    PROVE  RequestsAreRecent' /\ EntriesAreRecent'
<1>1. UNCHANGED <<toolCalls, states, now>>
  BY DEF M!ChainExecutes, M!AgentSubmits
<1>2. CASE UNCHANGED <<version, since>>
  BY <1>1, <1>2 DEF RequestsAreRecent, EntriesAreRecent, RequestIsRecent, EntryIsRecent, StillAt, M!Placeholder
<1>3. CASE M!ChainExecutes(k) /\ version' = version + 1 /\ since' = [since EXCEPT ![version + 1] = now]
  <2>1. version < MaxChanges
    BY <1>3, McpTypes, ExecutedFacts DEF McpInv, WorldTypes, Executed, M!ChainExecutes
  <2>2. ASSUME NEW c \in ToolCalls PROVE RequestIsRecent(toolCalls[c])'
    <3>1. RequestIsRecent(toolCalls[c]) /\ toolCalls[c] \in RequestTypes
      BY RecentFacts
    <3>. DEFINE value == toolCalls[c].value
                start == toolCalls[c].start
    <3>2. /\ value \in M!Versions \union {M!Placeholder} /\ start \in 0..MaxTime /\ M!Placeholder = -1
          /\ toolCalls[c].pc = "reading" /\ value # M!Placeholder => start <= now /\ StillAt(value, start)
      BY <3>1, RecentFacts DEF RequestTypes, RequestIsRecent
    <3>. HIDE DEF value, start
    <3>3. toolCalls[c].pc = "reading" /\ value # M!Placeholder => StillAt(value, start)'
      <4>. SUFFICES ASSUME toolCalls[c].pc = "reading", value # M!Placeholder PROVE StillAt(value, start)'
        OBVIOUS
      <4>1. start \in Int /\ value \in M!Versions /\ start <= now /\ StillAt(value, start)
        BY <3>2, McpNumbers
      <4>2. value' = value /\ start' = start
        BY <1>1 DEF value, start
      <4>. QED  BY <1>3, <2>1, <4>1, <4>2, StillAtAfter DEF StillAt
    <3>. QED  BY <1>1, <3>1, <3>3 DEF RequestIsRecent, value, start, M!Placeholder
  <2>3. ASSUME NEW entry \in states' PROVE EntryIsRecent(entry)'
    <3>1. /\ EntryIsRecent(entry) /\ entry.value \in M!Versions /\ entry.expires \in 0..(MaxTime + StateTtl)
          /\ now \in 0..MaxTime
      BY <1>1, McpTypes DEF McpInv, StateCacheTypes, WorldTypes, EntriesAreRecent
    <3>. DEFINE value == entry.value
                held == entry.expires - (StateTtl + StateReadTime)
    <3>2. held \in Int /\ held <= now /\ StillAt(value, held) /\ value \in M!Versions
      BY <3>1, McpNumbers DEF EntryIsRecent
    <3>. HIDE DEF value, held
    <3>3. StillAt(value, held)'
      BY <1>3, <2>1, <3>2, StillAtAfter
    <3>. QED  BY <1>1, <3>1, <3>3 DEF EntryIsRecent, value, held
  <2>. QED  BY <2>2, <2>3 DEF RequestsAreRecent, EntriesAreRecent
<1>. QED  BY <1>2, <1>3 DEF M!ChainExecutes, M!AgentSubmits

\* One step of the server and of the world around it.
LEMMA RecentStep ==
    ASSUME McpInv, RequestsAreRecent, EntriesAreRecent, M!Next
    PROVE  RequestsAreRecent' /\ EntriesAreRecent' /\ AnswersAreRecent
<1>1. ASSUME NEW c \in ToolCalls, M!OraclePaid(c) PROVE RequestsAreRecent' /\ EntriesAreRecent' /\ AnswersAreRecent
  <2>1. UNCHANGED <<toolCalls, states, version, since, now>>
    BY <1>1 DEF M!OraclePaid
  <2>. QED  BY <2>1, NothingIsAnswered
              DEF RequestsAreRecent, EntriesAreRecent, RequestIsRecent, EntryIsRecent, StillAt, M!Placeholder
<1>2. ASSUME NEW k \in 1..MaxChanges, M!AgentSubmits(k) \/ M!ChainExecutes(k)
      PROVE RequestsAreRecent' /\ EntriesAreRecent' /\ AnswersAreRecent
  <2>1. toolCalls' = toolCalls
    BY <1>2 DEF M!AgentSubmits, M!ChainExecutes
  <2>. QED  BY <1>2, <2>1, ChainRecent, NothingIsAnswered
<1>3. CASE M!Tick
  <2>1. toolCalls' = toolCalls
    BY <1>3 DEF M!Tick
  <2>. QED  BY <1>3, <2>1, TickRecent, NothingIsAnswered
<1>4. ASSUME NEW c \in ToolCalls, M!ReadResource(c)
      PROVE RequestsAreRecent' /\ EntriesAreRecent' /\ AnswersAreRecent
  BY <1>4, AnsweredFromCache, ToolsRecent DEF M!ReadResource
<1>. QED  BY <1>1, <1>2, <1>3, <1>4, AnsweredFromCache, NodeReadsRecent, ReadEndsRecent, ToolsRecent DEF M!Next

\* A vault state that a tool answers with was the vault's within the last TTL and read
\* time, however many calls share the cache and whichever of them ends first
\* (casper-read-client.ts:86, tools.ts).
THEOREM StatesAreRecent == M!Spec => M!StateIsRecent
<1>1. M!Init => RequestsAreRecent /\ EntriesAreRecent
  BY DEF M!Init, M!Free, RequestsAreRecent, RequestIsRecent, EntriesAreRecent
<1>2. McpInv /\ RequestsAreRecent /\ EntriesAreRecent /\ [M!Next]_(M!vars) =>
          RequestsAreRecent' /\ EntriesAreRecent'
  <2>1. CASE UNCHANGED M!vars
    BY <2>1 DEF M!vars, RequestsAreRecent, EntriesAreRecent, RequestIsRecent, EntryIsRecent, StillAt, M!Placeholder
  <2>. QED  BY <2>1, RecentStep
<1>3. McpInv /\ RequestsAreRecent /\ EntriesAreRecent /\ [M!Next]_(M!vars) => [AnswersAreRecent]_toolCalls
  BY RecentStep DEF M!vars
<1>4. [AnswersAreRecent]_toolCalls => [\A c \in ToolCalls :
        (toolCalls[c].pc # "answered" /\ toolCalls'[c].answer = "state" /\ toolCalls'[c].value # M!Placeholder) =>
            \/ toolCalls'[c].value = version
            \/ since[toolCalls'[c].value + 1] >= now - (StateTtl + StateReadTime)]_toolCalls
  BY DEF AnswersAreRecent
<1>. QED  BY <1>1, <1>2, <1>3, <1>4, McpInvariant, PTL DEF M!Spec, M!StateIsRecent

-----------------------------------------------------------------------------
(* The deploy script.                                                      *)

\* A run of the script waits for its own transaction and for nothing else.
OneAtATime ==
    /\ \A t \in pending : t.run <= runs
    /\ \A t, u \in pending : t.run = u.run => t = u
    /\ \A t \in pending : (t.run = runs /\ P!Busy) =>
          /\ script.phase = "wait" /\ script.result = "none"
          /\ t.kind = script.step /\ t.registry = script.registry

\* Only a step with a transaction waits, and only an installation looks for a key.
PhasesFit ==
    /\ script.step \in {"preflight", "lookup", "record"} => script.phase = "put"
    /\ P!Busy /\ script.phase = "key" => script.step \in P!Contracts
    /\ P!Busy => runs # 0

\* The run that has seen its registration succeed, and has not sent the seed.
SeedDue(r) ==
    /\ script.registry = r
    /\ \/ script.step = "register" /\ script.phase = "wait" /\ script.result = "success"
       \/ script.step = "seed" /\ script.phase = "put"

SeedSent(r) == \E t \in pending : t.kind = "seed" /\ t.registry = r

\* A seed is due, on its way or applied: one of them, once, and after the registration.
SeedInOnePlace ==
    \A r \in P!Runs :
        /\ seeds[r] <= 1
        /\ seeds[r] = 1 => ~SeedDue(r) /\ ~SeedSent(r)
        /\ SeedDue(r) => ~SeedSent(r)
        /\ \A t, u \in pending : (t.kind = "seed" /\ u.kind = "seed" /\ t.registry = r /\ u.registry = r) => t = u
        /\ SeedDue(r) \/ SeedSent(r) \/ seeds[r] = 1 => r \in enrolled

\* What a run has seen succeed has been done.
SuccessIsTrue ==
    \/ script.step = "done"
    \/ script.step = "seed" /\ script.phase = "wait" /\ script.result = "success"
    => script.registry \in enrolled /\ seeds[script.registry] = 1

\* Only a registry that testnet.json has named is enrolled with.
NamedFirst ==
    /\ enrolled \subseteq named
    /\ script.step \in {"register", "seed", "done"} => script.registry \in named
    /\ \A t \in pending : t.kind \in {"register", "seed"} => t.registry \in named
    /\ {deployed.registry, env} \subseteq named \union {0}

\* A hash that was read is that of a contract on chain.
ReadIsInstalled ==
    /\ \A c \in P!Contracts : {key[c], seen[c]} \subseteq installed[c] \union {0}
    /\ script.step \in {"registry", "record"} => script.vault \in installed["vault"]
    /\ script.step = "record" => script.registry \in installed["registry"]
    /\ deployed.by # 0 => deployed.vault \in installed["vault"] /\ deployed.registry \in installed["registry"]

\* What the rest of the run costs, with and without the transaction of this step.
Later ==
    IF script.step = "vault" THEN InstallPayment + 2 * CallPayment
    ELSE IF script.step \in {"registry", "record", "lookup"} THEN 2 * CallPayment
    ELSE IF script.step = "register" THEN CallPayment ELSE 0

Price ==
    IF script.step \in P!Contracts THEN InstallPayment
    ELSE IF script.step \in {"register", "seed"} THEN CallPayment ELSE 0

\* ... and with it as long as it has not been paid.
Due == IF script.phase = "put" \/ pending # {} THEN Later + Price ELSE Later

\* A run that began with nothing pending pays for its own transactions only.
MoneyIsThere ==
    /\ P!Busy => script.reason = "none"
    /\ script.clear =>
        /\ P!Busy => \A t \in pending : t.run = runs
        /\ P!Busy /\ script.checked => script.step # "preflight" /\ money >= Due
        /\ script.checked => script.reason # "funds"

\* The inductive invariant.
DeployInv ==
    /\ P!TypeOK
    /\ PhasesFit /\ OneAtATime /\ SeedInOnePlace /\ SuccessIsTrue /\ NamedFirst /\ ReadIsInstalled /\ MoneyIsThere

\* The type invariant in parts.
ScriptSteps == P!Steps \union {"none", "preflight", "lookup", "done", "failed"}
Results == {"none", "success", "gas", "refused"}
Reasons == {"none", "low", "funds", "lookup", "node", "gas", "refused", "timeout", "key", "crash"}
Scripts == [step : ScriptSteps, phase : {"put", "wait", "key"}, only : BOOLEAN,
            vault : 0..MaxRuns, registry : 0..MaxRuns, result : Results, reason : Reasons,
            checked : BOOLEAN, clear : BOOLEAN]
Transactions == [kind : P!Steps \ {"record"}, run : P!Runs, wasm : {"none", "raw", "processed"},
                 registry : 0..MaxRuns]

BuildTypes ==
    /\ building \in 0..6 /\ target \subseteq P!Contracts
    /\ wasm \in [P!Contracts -> {"none", "raw", "processed"}]

FileTypes ==
    /\ deployed \in [vault : 0..MaxRuns, registry : 0..MaxRuns, by : 0..MaxRuns]
    /\ env \in 0..MaxRuns /\ named \subseteq P!Runs

ChainTypes ==
    /\ pending \subseteq Transactions
    /\ money \in Nat
    /\ installed \in [P!Contracts -> SUBSET P!Runs]
    /\ key \in [P!Contracts -> 0..MaxRuns] /\ seen \in [P!Contracts -> 0..MaxRuns]
    /\ enrolled \subseteq P!Runs
    /\ seeds \in [P!Runs -> 0..MaxRuns]

LEMMA DeployTypes ==
    P!TypeOK <=> runs \in 0..MaxRuns /\ script \in Scripts /\ BuildTypes /\ FileTypes /\ ChainTypes
BY DEF P!TypeOK, BuildTypes, FileTypes, ChainTypes, Scripts, ScriptSteps, Results, Reasons, Transactions

LEMMA DeployTypesNext ==
    P!TypeOK' <=> runs' \in 0..MaxRuns /\ script' \in Scripts /\ BuildTypes' /\ FileTypes' /\ ChainTypes'
BY DEF P!TypeOK, BuildTypes, FileTypes, ChainTypes, Scripts, ScriptSteps, Results, Reasons, Transactions

LEMMA DeployInit == P!Init => DeployInv
<1>. SUFFICES ASSUME P!Init PROVE DeployInv
  OBVIOUS
<1>. USE ProcessesAssumption DEF P!DeployAssumption
<1>1. P!TypeOK
  BY DEF P!Init, P!TypeOK, P!Idle, P!Contracts, P!Steps
<1>2. PhasesFit /\ OneAtATime /\ SuccessIsTrue /\ SeedInOnePlace /\ NamedFirst /\ ReadIsInstalled /\ MoneyIsThere
  BY DEF P!Init, PhasesFit, OneAtATime, SuccessIsTrue, SeedInOnePlace, NamedFirst, ReadIsInstalled, MoneyIsThere, P!Idle, P!Contracts, SeedDue, SeedSent, P!Busy
<1>. QED  BY <1>1, <1>2 DEF DeployInv

LEMMA BuildKeeps == DeployInv /\ (P!Build \/ P!BuildStops) => DeployInv'
<1>. SUFFICES ASSUME DeployInv, P!Build \/ P!BuildStops PROVE DeployInv'
  OBVIOUS
<1>1. BuildTypes'
  <2>0. BuildTypes
    BY DeployTypes DEF DeployInv
  <2>1. CASE P!BuildStops
    BY <2>0, <2>1 DEF BuildTypes, P!BuildStops
  <2>2. CASE P!Build
    <3>1. building' \in 0..6
      BY <2>0, <2>2 DEF BuildTypes, P!Build
    <3>2. PICK c \in P!Contracts : UNCHANGED <<target, wasm>> \/ P!Compile(c) \/ P!Copy(c) \/ P!Optimize(c)
      <4>1. "vault" \in P!Contracts /\ "registry" \in P!Contracts
        BY DEF P!Contracts
      <4>. DEFINE c == IF building < 4 THEN "vault" ELSE "registry"
      <4>2. c \in P!Contracts
        BY <4>1
      <4>3. CASE building = 0
        BY <2>2, <4>1, <4>3 DEF P!Build
      <4>4. CASE building \in {1, 4}
        BY <2>2, <4>2, <4>4 DEF P!Build
      <4>5. CASE building \in {2, 5}
        BY <2>2, <4>2, <4>5 DEF P!Build
      <4>6. CASE building \in {3, 6}
        BY <2>2, <4>2, <4>6 DEF P!Build
      <4>. QED  BY <2>0, <4>3, <4>4, <4>5, <4>6 DEF BuildTypes
    <3>. QED  BY <2>0, <3>1, <3>2 DEF BuildTypes, P!Compile, P!Copy, P!Optimize
  <2>. QED  BY <2>1, <2>2
<1>2. UNCHANGED <<runs, script, deployed, env, P!chainVars, named>>
  BY DEF P!Build, P!BuildStops
<1>3. P!TypeOK'
  BY <1>1, <1>2, DeployTypes, DeployTypesNext DEF DeployInv, FileTypes, ChainTypes, P!chainVars
<1>4. (PhasesFit /\ OneAtATime /\ SuccessIsTrue /\ SeedInOnePlace /\ NamedFirst /\ ReadIsInstalled /\ MoneyIsThere)'
  BY <1>2 DEF DeployInv, PhasesFit, OneAtATime, SuccessIsTrue, SeedInOnePlace, NamedFirst, ReadIsInstalled, MoneyIsThere, P!chainVars, SeedDue, SeedSent, P!Busy, Due, Later, Price
<1>. QED  BY <1>3, <1>4 DEF DeployInv

LEMMA ScriptStartKeeps == ASSUME NEW only \in BOOLEAN, DeployInv, P!StartScript(only) PROVE DeployInv'
<1>. USE DEF DeployInv
<1>1. /\ script'.step = "preflight" /\ script'.phase = "put" /\ script'.result = "none"
      /\ script'.reason = "none" /\ ~script'.checked /\ (script'.clear => pending = {})
      /\ script' \in Scripts
  <2>1. PICK clear \in BOOLEAN : /\ clear => pending = {}
                                /\ script' = [P!Idle EXCEPT !.step = "preflight", !.only = only, !.clear = clear]
    BY DEF P!StartScript
  <2>2. 0 \in 0..MaxRuns
    BY ProcessesAssumption DEF P!DeployAssumption
  <2>3. script' = [step |-> "preflight", phase |-> "put", only |-> only, vault |-> 0, registry |-> 0,
                   result |-> "none", reason |-> "none", checked |-> FALSE, clear |-> clear]
    BY <2>1 DEF P!Idle
  <2>4. script' \in Scripts
    BY <2>2, <2>3 DEF Scripts, ScriptSteps, Results, Reasons
  <2>5. script'.clear => pending = {}
    BY <2>1, <2>3
  <2>. QED  BY <2>3, <2>4, <2>5
<1>2. /\ runs' = runs + 1 /\ runs < MaxRuns
      /\ UNCHANGED <<building, target, wasm, deployed, env, pending, money, installed, key, seen, enrolled, seeds, named>>
  BY DEF P!StartScript, P!buildVars, P!chainVars
<1>3. /\ runs \in 0..MaxRuns /\ MaxRuns \in Nat
      /\ \A t \in pending : t.run \in Nat
  BY DeployTypes, ProcessesAssumption DEF P!DeployAssumption, ChainTypes, Transactions, P!Runs
<1>4. P!TypeOK'
  BY <1>1, <1>2, <1>3, DeployTypes, DeployTypesNext DEF BuildTypes, FileTypes, ChainTypes
<1>5. PhasesFit' /\ OneAtATime'
  BY <1>1, <1>2, <1>3 DEF PhasesFit, OneAtATime
<1>6. SeedInOnePlace'
  BY <1>1, <1>2 DEF SeedInOnePlace, SeedDue, SeedSent
<1>7. SuccessIsTrue' /\ NamedFirst' /\ ReadIsInstalled'
  BY <1>1, <1>2 DEF SuccessIsTrue, NamedFirst, ReadIsInstalled
<1>8. MoneyIsThere'
  BY <1>1, <1>2 DEF MoneyIsThere
<1>. QED  BY <1>4, <1>5, <1>6, <1>7, <1>8

\* A run that fails leaves everything else as it is.
LEMMA FailKeeps ==
    ASSUME DeployInv, NEW why \in Reasons, P!Fails(why),
           script.clear /\ script.checked => why # "funds",
           UNCHANGED <<P!buildVars, runs, deployed, env, P!chainVars, named>>
    PROVE  DeployInv'
<1>. USE DEF DeployInv
<1>1. script \in Scripts
  BY DeployTypes
<1>2. /\ script'.step = "failed" /\ script'.reason = why
      /\ (script'.checked <=> script.checked) /\ (script'.clear <=> script.clear)
      /\ script' \in Scripts
  BY <1>1 DEF P!Fails, Scripts, ScriptSteps
<1>3. UNCHANGED <<building, target, wasm, runs, deployed, env, pending, money, installed, key, seen, enrolled, seeds, named>>
  BY DEF P!buildVars, P!chainVars
<1>4. P!TypeOK'
  BY <1>2, <1>3, DeployTypes, DeployTypesNext DEF BuildTypes, FileTypes, ChainTypes
<1>5. PhasesFit' /\ OneAtATime'
  BY <1>2, <1>3 DEF PhasesFit, OneAtATime, P!Busy
<1>6. SeedInOnePlace'
  BY <1>2, <1>3 DEF SeedInOnePlace, SeedDue, SeedSent
<1>7. SuccessIsTrue' /\ NamedFirst' /\ ReadIsInstalled'
  BY <1>2, <1>3 DEF SuccessIsTrue, NamedFirst, ReadIsInstalled
<1>8. MoneyIsThere'
  BY <1>2, <1>3 DEF MoneyIsThere, P!Busy
<1>. QED  BY <1>4, <1>5, <1>6, <1>7, <1>8

\* The balance, if it could be read, is enough for the whole run.
LEMMA PreflightKeeps == ASSUME DeployInv, P!Preflight PROVE DeployInv'
<1>. USE DEF DeployInv
<1>1. PICK answer \in {0, money} :
        IF answer > 0 /\ answer < P!MinBalance THEN P!Fails("low")
        ELSE script' = [script EXCEPT !.step = IF script.only THEN "lookup" ELSE "vault",
                                      !.checked = answer > 0]
  BY DEF P!Preflight
<1>2. script.step = "preflight" /\ UNCHANGED <<P!buildVars, runs, deployed, env, P!chainVars, named>>
  BY DEF P!Preflight
<1>3. CASE answer > 0 /\ answer < P!MinBalance
  BY <1>1, <1>2, <1>3, FailKeeps DEF Reasons
<1>4. CASE ~(answer > 0 /\ answer < P!MinBalance)
  <2>1. script \in Scripts
    BY DeployTypes
  <2>0. PICK checked \in BOOLEAN :
            /\ checked => answer > 0
            /\ script' = [script EXCEPT !.step = IF script.only THEN "lookup" ELSE "vault",
                                        !.checked = checked]
    <3>1. (answer > 0) \in BOOLEAN
      OBVIOUS
    <3>. QED  BY <1>1, <1>4, <3>1, Zenon
  <2>2. /\ script'.step = IF script.only THEN "lookup" ELSE "vault"
        /\ script'.checked => answer > 0
        /\ (script'.clear <=> script.clear) /\ script'.phase = script.phase
        /\ script'.reason = script.reason
        /\ script' \in Scripts /\ script'.registry = script.registry /\ script'.result = script.result
    BY <2>0, <2>1 DEF Scripts, ScriptSteps, P!Steps
  <2>3. UNCHANGED <<building, target, wasm, runs, deployed, env, pending, money, installed, key, seen, enrolled, seeds, named>>
    BY <1>2 DEF P!buildVars, P!chainVars
  <2>4. P!TypeOK'
    BY <2>2, <2>3, DeployTypes, DeployTypesNext DEF BuildTypes, FileTypes, ChainTypes
  <2>5. \A t \in pending : t.kind # "preflight"
    BY DeployTypes DEF ChainTypes, Transactions, P!Steps
  <2>6. PhasesFit' /\ OneAtATime'
    BY <1>2, <2>2, <2>3, <2>5 DEF PhasesFit, OneAtATime, P!Busy
  <2>7. SeedInOnePlace'
    BY <2>2, <2>3 DEF SeedInOnePlace, SeedDue, SeedSent
  <2>8. SuccessIsTrue' /\ NamedFirst' /\ ReadIsInstalled'
    BY <2>2, <2>3 DEF SuccessIsTrue, NamedFirst, ReadIsInstalled
  <2>9. MoneyIsThere'
    <3>1. script.clear => \A t \in pending : t.run = runs
      BY <1>2 DEF MoneyIsThere, P!Busy
    <3>2. ASSUME answer > 0 PROVE money >= Due'
      BY <1>4, <3>2, <2>2, <2>3, DeployTypes, ProcessesAssumption
         DEF Due, Later, Price, P!MinBalance, P!Contracts, ChainTypes, P!DeployAssumption
    <3>3. script'.step # "preflight" /\ script'.reason = "none"
      BY <1>2, <2>2 DEF MoneyIsThere, P!Busy
    <3>4. script'.clear => \A t \in pending' : t.run = runs'
      BY <2>2, <2>3, <3>1
    <3>5. script'.checked => money' >= Due'
      BY <2>2, <2>3, <3>2
    <3>. QED  BY <3>3, <3>4, <3>5 DEF MoneyIsThere
  <2>. QED  BY <2>4, <2>6, <2>7, <2>8, <2>9
<1>. QED  BY <1>3, <1>4

LEMMA LookupKeeps == ASSUME DeployInv, P!Lookup PROVE DeployInv'
<1>. USE DEF DeployInv
<1>. DEFINE registry == IF env # 0 THEN env ELSE deployed.registry
<1>1. /\ script.step = "lookup"
      /\ IF registry = 0 THEN P!Fails("lookup")
         ELSE script' = [script EXCEPT !.step = "register", !.registry = registry]
      /\ UNCHANGED <<P!buildVars, runs, deployed, env, P!chainVars, named>>
  BY DEF P!Lookup
<1>2. CASE registry = 0
  BY <1>1, <1>2, FailKeeps DEF Reasons
<1>3. CASE registry # 0
  <2>1. script \in Scripts /\ registry \in 0..MaxRuns /\ registry \in {deployed.registry, env}
    BY DeployTypes DEF FileTypes
  <2>. HIDE DEF registry
  <2>2. /\ script'.step = "register" /\ script'.registry = registry
        /\ script'.phase = script.phase /\ script'.result = script.result
        /\ (script'.checked <=> script.checked) /\ (script'.clear <=> script.clear)
        /\ script'.reason = script.reason /\ script' \in Scripts /\ script'.vault = script.vault
    BY <1>1, <1>3, <2>1 DEF Scripts, ScriptSteps, P!Steps
  <2>3. UNCHANGED <<building, target, wasm, runs, deployed, env, pending, money, installed, key, seen, enrolled, seeds, named>>
    BY <1>1 DEF P!buildVars, P!chainVars
  <2>4. P!TypeOK'
    BY <2>2, <2>3, DeployTypes, DeployTypesNext DEF BuildTypes, FileTypes, ChainTypes
  <2>5. \A t \in pending : t.kind # "lookup"
    BY DeployTypes DEF ChainTypes, Transactions, P!Steps
  <2>6. P!Busy
    BY <1>1 DEF P!Busy
  <2>7. PhasesFit' /\ OneAtATime'
    BY <1>1, <2>2, <2>3, <2>5, <2>6 DEF PhasesFit, OneAtATime
  <2>8. SeedInOnePlace'
    BY <1>1, <2>2, <2>3 DEF SeedInOnePlace, SeedDue, SeedSent, PhasesFit
  <2>9. SuccessIsTrue' /\ NamedFirst' /\ ReadIsInstalled'
    BY <1>3, <2>1, <2>2, <2>3 DEF SuccessIsTrue, NamedFirst, ReadIsInstalled
  <2>10. MoneyIsThere'
    <3>1. script.clear /\ script.checked => money' >= Due'
      BY <1>1, <2>2, <2>3, <2>6, ProcessesAssumption
         DEF MoneyIsThere, PhasesFit, Due, Later, Price, P!Contracts, P!DeployAssumption
    <3>. QED  BY <1>1, <2>2, <2>3, <2>6, <3>1 DEF MoneyIsThere
  <2>. QED  BY <2>4, <2>7, <2>8, <2>9, <2>10
<1>. QED  BY <1>2, <1>3

LEMMA FailuresKeep ==
    ASSUME DeployInv, P!Timeout \/ P!KeyTimeout \/ P!Crash
    PROVE  DeployInv'
<1>1. PICK why \in {"timeout", "key", "crash"} : P!Fails(why)
  BY DEF P!Timeout, P!KeyTimeout, P!Crash
<1>2. UNCHANGED <<P!buildVars, runs, deployed, env, P!chainVars, named>>
  BY DEF P!Timeout, P!KeyTimeout, P!Crash
<1>. QED  BY <1>1, <1>2, FailKeeps DEF Reasons

LEMMA TransactionFacts ==
    ASSUME P!TypeOK, script.step \in P!Steps \ {"record"}, runs \in P!Runs
    PROVE  /\ P!Transaction \in Transactions
           /\ P!Transaction.kind = script.step /\ P!Transaction.run = runs
           /\ P!Transaction.registry = script.registry
<1>1. script.registry \in 0..MaxRuns /\ wasm \in [P!Contracts -> {"none", "raw", "processed"}]
  BY DeployTypes DEF Scripts, BuildTypes
<1>2. P!Wasm(script.step) \in {"none", "raw", "processed"} \/ script.step \notin P!Contracts
  BY <1>1 DEF P!Wasm
<1>. QED  BY <1>1, <1>2 DEF P!Transaction, Transactions

\* putTransaction, with the answer or without it.
LEMMA TakenKeeps ==
    ASSUME DeployInv, script.step \in P!Steps \ {"record"}, script.phase = "put",
           pending' = pending \union {P!Transaction},
           \/ script' = [script EXCEPT !.phase = "wait", !.result = "none"]
           \/ P!Fails("node"),
           UNCHANGED <<P!buildVars, runs, deployed, env, money, installed, key, seen, enrolled, seeds, named>>
    PROVE  DeployInv'
<1>. USE DEF DeployInv
<1>. DEFINE tx == P!Transaction
<1>1. script \in Scripts /\ P!Busy
  BY DeployTypes DEF P!Busy, P!Steps
<1>2. /\ runs \in P!Runs /\ tx \in Transactions /\ tx.kind = script.step /\ tx.run = runs
      /\ tx.registry = script.registry
  <2>1. runs \in P!Runs
    BY <1>1, DeployTypes, ProcessesAssumption DEF PhasesFit, P!Runs, P!DeployAssumption
  <2>. QED  BY <2>1, TransactionFacts
<1>3. /\ \/ script'.step = script.step /\ script'.phase = "wait" /\ script'.result = "none"
            /\ script'.reason = script.reason
         \/ script'.step = "failed" /\ script'.reason = "node"
      /\ script'.registry = script.registry /\ script'.vault = script.vault
      /\ (script'.checked <=> script.checked) /\ (script'.clear <=> script.clear)
      /\ script' \in Scripts
  BY <1>1 DEF P!Fails, Scripts, ScriptSteps, Results, Reasons
<1>4. UNCHANGED <<building, target, wasm, runs, deployed, env, money, installed, key, seen, enrolled, seeds, named>>
  BY DEF P!buildVars
<1>5. pending' = pending \union {tx}
  OBVIOUS
<1>. HIDE DEF tx
<1>6. \A t \in pending : t.run # runs
  BY <1>1 DEF OneAtATime
<1>7. P!TypeOK'
  BY <1>2, <1>3, <1>4, <1>5, DeployTypes, DeployTypesNext DEF BuildTypes, FileTypes, ChainTypes
<1>8. PhasesFit' /\ OneAtATime'
  <2>1. PhasesFit'
    BY <1>1, <1>3, <1>4 DEF PhasesFit, P!Busy, P!Steps
  <2>2. \A t \in pending' : t.run <= runs'
    BY <1>2, <1>4, <1>5 DEF OneAtATime, P!Runs
  <2>3. \A t, u \in pending' : t.run = u.run => t = u
    BY <1>2, <1>5, <1>6 DEF OneAtATime
  <2>4. \A t \in pending' : (t.run = runs' /\ P!Busy') =>
          /\ script'.phase = "wait" /\ script'.result = "none"
          /\ t.kind = script'.step /\ t.registry = script'.registry
    BY <1>2, <1>3, <1>4, <1>5, <1>6 DEF P!Busy
  <2>. QED  BY <2>1, <2>2, <2>3, <2>4 DEF OneAtATime
<1>9. SeedInOnePlace'
  BY <1>2, <1>3, <1>4, <1>5 DEF SeedInOnePlace, SeedDue, SeedSent
<1>10. SuccessIsTrue' /\ NamedFirst' /\ ReadIsInstalled'
  BY <1>2, <1>3, <1>4, <1>5 DEF SuccessIsTrue, NamedFirst, ReadIsInstalled
<1>11. MoneyIsThere'
  BY <1>1, <1>2, <1>3, <1>4, <1>5 DEF MoneyIsThere, P!Busy, Due, Later, Price
<1>. QED  BY <1>7, <1>8, <1>9, <1>10, <1>11

\* putTransaction
LEMMA SendKeeps == ASSUME DeployInv, P!Put PROVE DeployInv'
<1>1. /\ script.step \in P!Steps \ {"record"} /\ script.phase = "put"
      /\ UNCHANGED <<P!buildVars, runs, deployed, env, money, installed, key, seen, enrolled, seeds, named>>
  BY DEF P!Put
<1>2. CASE /\ pending' = pending \union {P!Transaction}
           /\ script' = [script EXCEPT !.phase = "wait", !.result = "none"] \/ P!Fails("node")
  BY <1>1, <1>2, TakenKeeps
<1>3. CASE UNCHANGED pending /\ P!Fails("node")
  BY <1>1, <1>3, FailKeeps DEF Reasons, P!chainVars
<1>4. CASE UNCHANGED pending /\ money < P!Payment(P!Transaction) /\ P!Fails("funds")
  <2>1. P!Transaction.kind = script.step
    BY DEF P!Transaction
  <2>2. P!Busy
    BY <1>1 DEF P!Busy, P!Steps
  <2>3. money \in Nat
    BY DeployTypes DEF DeployInv, ChainTypes
  <2>4. money >= Due => ~(money < P!Payment(P!Transaction))
    BY <1>1, <2>1, <2>3, ProcessesAssumption DEF Due, Later, Price, P!Payment, P!Contracts, P!Steps, P!DeployAssumption
  <2>5. ~(script.clear /\ script.checked)
    BY <1>4, <2>2, <2>4 DEF DeployInv, MoneyIsThere
  <2>. QED  BY <1>1, <1>4, <2>5, FailKeeps DEF Reasons, P!chainVars
<1>. QED  BY <1>2, <1>3, <1>4 DEF P!Put

\* waitForTransaction has an outcome.
LEMMA ConfirmKeeps == ASSUME DeployInv, P!Confirm PROVE DeployInv'
<1>. USE DEF DeployInv
<1>1. /\ script.phase = "wait" /\ script.result # "none" /\ P!Busy
      /\ UNCHANGED <<P!buildVars, runs, deployed, env, P!chainVars, named>>
      /\ IF script.result # "success" THEN P!Fails(script.result)
         ELSE script' = [script EXCEPT !.step = P!After,
                                       !.phase = IF script.step \in P!Contracts THEN "key" ELSE "put"]
  BY DEF P!Confirm
<1>2. script \in Scripts
  BY DeployTypes
<1>3. CASE script.result # "success"
  <2>1. script.result \in Reasons /\ script.result # "funds"
    BY <1>1, <1>2, <1>3 DEF Scripts, Results, Reasons
  <2>. QED  BY <1>1, <1>3, <2>1, FailKeeps
<1>4. CASE script.result = "success"
  <2>1. script.step \in P!Steps \ {"record"}
    BY <1>1, <1>2 DEF P!Busy, PhasesFit, Scripts, ScriptSteps, P!Steps
  <2>2. P!After = IF script.step = "register" THEN "seed" ELSE IF script.step = "seed" THEN "done" ELSE script.step
    BY DEF P!After
  <2>3. /\ script'.step = P!After
        /\ script'.phase = IF script.step \in P!Contracts THEN "key" ELSE "put"
        /\ script'.registry = script.registry /\ script'.vault = script.vault
        /\ script'.result = script.result /\ script'.reason = script.reason
        /\ (script'.checked <=> script.checked) /\ (script'.clear <=> script.clear)
        /\ script' \in Scripts
    BY <1>1, <1>2, <1>4, <2>1, <2>2 DEF Scripts, ScriptSteps, P!Steps
  <2>4. UNCHANGED <<building, target, wasm, runs, deployed, env, pending, money, installed, key, seen, enrolled, seeds, named>>
    BY <1>1 DEF P!buildVars, P!chainVars
  <2>5. \A t \in pending : t.run # runs
    BY <1>1 DEF OneAtATime
  <2>6. P!TypeOK'
    BY <2>3, <2>4, DeployTypes, DeployTypesNext DEF BuildTypes, FileTypes, ChainTypes
  <2>7. PhasesFit' /\ OneAtATime'
    BY <2>1, <2>2, <2>3, <2>4, <2>5 DEF PhasesFit, OneAtATime, P!Busy, P!Steps, P!Contracts
  <2>8. SeedInOnePlace'
    BY <1>1, <1>4, <2>1, <2>2, <2>3, <2>4 DEF SeedInOnePlace, SeedDue, SeedSent, P!Contracts
  <2>9. SuccessIsTrue' /\ NamedFirst' /\ ReadIsInstalled'
    BY <1>1, <1>4, <2>1, <2>2, <2>3, <2>4 DEF SuccessIsTrue, NamedFirst, ReadIsInstalled, P!Contracts
  <2>10. MoneyIsThere'
    <3>1. script.clear => pending = {}
      BY <1>1, <2>5 DEF MoneyIsThere
    <3>2. script.clear /\ script.checked => money' >= Due'
      BY <1>1, <2>1, <2>2, <2>3, <2>4, <3>1, ProcessesAssumption
         DEF MoneyIsThere, Due, Later, Price, P!Contracts, P!Steps, P!DeployAssumption
    <3>. QED  BY <1>1, <2>1, <2>2, <2>3, <2>4, <2>5, <3>1, <3>2 DEF MoneyIsThere, P!Busy, P!Steps
  <2>. QED  BY <2>6, <2>7, <2>8, <2>9, <2>10
<1>. QED  BY <1>3, <1>4

LEMMA ReadKeyKeeps == ASSUME DeployInv, P!ReadKey PROVE DeployInv'
<1>. USE DEF DeployInv
<1>1. /\ script.phase = "key" /\ P!Busy /\ seen[script.step] # 0
      /\ UNCHANGED <<P!buildVars, runs, deployed, env, P!chainVars, named>>
      /\ script' = IF script.step = "vault"
                   THEN [script EXCEPT !.step = "registry", !.phase = "put", !.vault = seen["vault"]]
                   ELSE [script EXCEPT !.step = "record", !.phase = "put", !.registry = seen["registry"]]
  BY DEF P!ReadKey
<1>2. /\ script \in Scripts /\ script.step \in {"vault", "registry"}
      /\ seen["vault"] \in 0..MaxRuns /\ seen["registry"] \in 0..MaxRuns
  BY <1>1, DeployTypes DEF PhasesFit, P!Contracts, ChainTypes
<1>3. /\ \/ script.step = "vault" /\ script'.step = "registry" /\ script'.vault = seen["vault"]
            /\ script'.registry = script.registry
         \/ script.step = "registry" /\ script'.step = "record" /\ script'.registry = seen["registry"]
            /\ script'.vault = script.vault
      /\ script'.phase = "put" /\ script'.result = script.result /\ script'.reason = script.reason
      /\ (script'.checked <=> script.checked) /\ (script'.clear <=> script.clear)
      /\ script' \in Scripts
  BY <1>1, <1>2 DEF Scripts, ScriptSteps, P!Steps
<1>4. UNCHANGED <<building, target, wasm, runs, deployed, env, pending, money, installed, key, seen, enrolled, seeds, named>>
  BY <1>1 DEF P!buildVars, P!chainVars
<1>5. \A t \in pending : t.run # runs
  BY <1>1 DEF OneAtATime
<1>6. P!TypeOK'
  BY <1>3, <1>4, DeployTypes, DeployTypesNext DEF BuildTypes, FileTypes, ChainTypes
<1>7. PhasesFit' /\ OneAtATime'
  BY <1>1, <1>3, <1>4, <1>5 DEF PhasesFit, OneAtATime
<1>8. SeedInOnePlace' /\ SuccessIsTrue' /\ NamedFirst'
  BY <1>3, <1>4 DEF SeedInOnePlace, SeedDue, SeedSent, SuccessIsTrue, NamedFirst
<1>9. ReadIsInstalled'
  <2>1. seen["vault"] \in installed["vault"] \union {0} /\ seen["registry"] \in installed["registry"] \union {0}
    BY DEF ReadIsInstalled, P!Contracts
  <2>. QED  BY <1>1, <1>3, <1>4, <2>1 DEF ReadIsInstalled
<1>10. MoneyIsThere'
  <2>1. script.clear => pending = {}
    BY <1>1, <1>5 DEF MoneyIsThere
  <2>2. script.clear /\ script.checked => money' >= Due'
    BY <1>1, <1>2, <1>3, <1>4, <2>1, ProcessesAssumption
       DEF MoneyIsThere, Due, Later, Price, P!Contracts, P!DeployAssumption
  <2>. QED  BY <1>1, <1>3, <1>4, <1>5, <2>1, <2>2 DEF MoneyIsThere
<1>. QED  BY <1>6, <1>7, <1>8, <1>9, <1>10

\* testnet.json is written before the registry is enrolled with.
LEMMA RecordKeeps == ASSUME DeployInv, P!Record PROVE DeployInv'
<1>. USE DEF DeployInv
<1>1. /\ script.step = "record"
      /\ deployed' = [vault |-> script.vault, registry |-> script.registry, by |-> runs]
      /\ named' = named \union {script.registry}
      /\ script' = [script EXCEPT !.step = "register"]
      /\ UNCHANGED <<building, target, wasm, runs, env, pending, money, installed, key, seen, enrolled, seeds>>
  BY DEF P!Record, P!buildVars, P!chainVars
<1>2. script \in Scripts /\ P!Busy /\ script.phase = "put" /\ runs \in 0..MaxRuns
  BY <1>1, DeployTypes DEF P!Busy, PhasesFit
<1>3. /\ script'.step = "register" /\ script'.phase = script.phase /\ script'.result = script.result
      /\ script'.registry = script.registry /\ script'.vault = script.vault
      /\ script'.reason = script.reason
      /\ (script'.checked <=> script.checked) /\ (script'.clear <=> script.clear)
      /\ script' \in Scripts
  BY <1>1, <1>2 DEF Scripts, ScriptSteps, P!Steps
<1>4. script.vault \in installed["vault"] /\ script.registry \in installed["registry"]
  BY <1>1 DEF ReadIsInstalled
<1>5. script.registry \in P!Runs /\ script.vault \in 0..MaxRuns /\ script.registry \in 0..MaxRuns
  BY <1>2, <1>4, DeployTypes DEF ChainTypes, P!Contracts, Scripts
<1>6. P!TypeOK'
  BY <1>1, <1>2, <1>3, <1>5, DeployTypes, DeployTypesNext DEF BuildTypes, FileTypes, ChainTypes
<1>7. \A t \in pending : t.run # runs
  BY <1>1, <1>2 DEF OneAtATime
<1>8. PhasesFit' /\ OneAtATime'
  BY <1>1, <1>2, <1>3, <1>7 DEF PhasesFit, OneAtATime
<1>9. SeedInOnePlace' /\ SuccessIsTrue'
  BY <1>1, <1>2, <1>3 DEF SeedInOnePlace, SeedDue, SeedSent, SuccessIsTrue
<1>10. NamedFirst' /\ ReadIsInstalled'
  BY <1>1, <1>3, <1>4 DEF NamedFirst, ReadIsInstalled
<1>11. MoneyIsThere'
  <2>1. script.clear /\ script.checked => money' >= Due'
    BY <1>1, <1>2, <1>3, ProcessesAssumption
       DEF MoneyIsThere, Due, Later, Price, P!Contracts, P!DeployAssumption
  <2>. QED  BY <1>1, <1>2, <1>3, <2>1 DEF MoneyIsThere
<1>. QED  BY <1>6, <1>8, <1>9, <1>10, <1>11

\* Steps that leave the script, the transactions and the contracts alone.
LEMMA ExportKeeps == ASSUME DeployInv, P!Export PROVE DeployInv'
<1>. USE DEF DeployInv
<1>1. /\ env' = deployed.registry
      /\ UNCHANGED <<building, target, wasm, runs, script, deployed, pending, money, installed, key, seen,
                     enrolled, seeds, named>>
  BY DEF P!Export, P!buildVars, P!chainVars
<1>2. P!TypeOK'
  BY <1>1, DeployTypes, DeployTypesNext DEF BuildTypes, FileTypes, ChainTypes
<1>3. PhasesFit' /\ OneAtATime' /\ SeedInOnePlace' /\ SuccessIsTrue' /\ NamedFirst' /\ ReadIsInstalled'
  BY <1>1 DEF PhasesFit, OneAtATime, SeedInOnePlace, SeedDue, SeedSent, SuccessIsTrue, NamedFirst,
              ReadIsInstalled, P!Busy
<1>4. MoneyIsThere'
  BY <1>1 DEF MoneyIsThere, P!Busy, Due, Later, Price
<1>. QED  BY <1>2, <1>3, <1>4

LEMMA CatchUpKeeps == ASSUME DeployInv, P!NodeCatchesUp PROVE DeployInv'
<1>. USE DEF DeployInv
<1>1. /\ seen' = key
      /\ UNCHANGED <<building, target, wasm, runs, script, deployed, env, pending, money, installed, key,
                     enrolled, seeds, named>>
  BY DEF P!NodeCatchesUp, P!buildVars
<1>2. P!TypeOK'
  BY <1>1, DeployTypes, DeployTypesNext DEF BuildTypes, FileTypes, ChainTypes
<1>3. PhasesFit' /\ OneAtATime' /\ SeedInOnePlace' /\ SuccessIsTrue' /\ NamedFirst' /\ ReadIsInstalled'
  BY <1>1 DEF PhasesFit, OneAtATime, SeedInOnePlace, SeedDue, SeedSent, SuccessIsTrue, NamedFirst,
              ReadIsInstalled, P!Busy
<1>4. MoneyIsThere'
  BY <1>1 DEF MoneyIsThere, P!Busy, Due, Later, Price
<1>. QED  BY <1>2, <1>3, <1>4

LEMMA ExpireKeeps == ASSUME DeployInv, NEW t \in pending, P!Expire(t) PROVE DeployInv'
<1>. USE DEF DeployInv
<1>1. /\ pending' = pending \ {t}
      /\ UNCHANGED <<building, target, wasm, runs, script, deployed, env, money, installed, key, seen,
                     enrolled, seeds, named>>
  BY DEF P!Expire, P!buildVars
<1>2. P!TypeOK'
  BY <1>1, DeployTypes, DeployTypesNext DEF BuildTypes, FileTypes, ChainTypes
<1>3. PhasesFit' /\ OneAtATime' /\ SuccessIsTrue' /\ NamedFirst' /\ ReadIsInstalled'
  BY <1>1 DEF PhasesFit, OneAtATime, SuccessIsTrue, NamedFirst, ReadIsInstalled, P!Busy
<1>4. SeedInOnePlace'
  BY <1>1 DEF SeedInOnePlace, SeedDue, SeedSent
<1>5. MoneyIsThere'
  <2>1. money >= Due => money' >= Due'
    BY <1>1, DeployTypes, ProcessesAssumption DEF Due, Later, Price, P!Contracts, P!DeployAssumption, ChainTypes
  <2>. QED  BY <1>1, <2>1 DEF MoneyIsThere, P!Busy
<1>. QED  BY <1>2, <1>3, <1>4, <1>5

\* The outcome of a transaction reaches the run that waits for it, and no other.
LEMMA OutcomeFacts ==
    ASSUME DeployInv, NEW t \in pending, NEW result \in {"success", "gas", "refused"},
           script' = P!Outcome(t, result)
    PROVE  /\ script' \in Scripts
           /\ script'.step = script.step /\ script'.phase = script.phase
           /\ script'.registry = script.registry /\ script'.vault = script.vault
           /\ script'.reason = script.reason
           /\ (script'.checked <=> script.checked) /\ (script'.clear <=> script.clear)
           /\ P!Busy /\ t.run = runs =>
                 /\ script'.result = result /\ script.phase = "wait"
                 /\ t.kind = script.step /\ t.registry = script.registry
           /\ ~(P!Busy /\ t.run = runs) => script'.result = script.result
<1>1. script \in Scripts /\ t.kind \in P!Steps \ {"record"}
  BY DeployTypes DEF DeployInv, ChainTypes, Transactions
<1>2. CASE P!Busy /\ t.run = runs
  <2>1. /\ script.phase = "wait" /\ t.kind = script.step /\ t.registry = script.registry
    BY <1>2 DEF DeployInv, OneAtATime
  <2>2. script' = [script EXCEPT !.result = result]
    BY <1>2, <2>1 DEF P!Outcome
  <2>. QED  BY <1>1, <1>2, <2>1, <2>2 DEF Scripts, Results
<1>3. CASE ~(P!Busy /\ t.run = runs)
  <2>1. script.step = t.kind => P!Busy
    BY <1>1 DEF P!Busy, P!Steps
  <2>2. script' = script
    BY <1>3, <2>1 DEF P!Outcome
  <2>. QED  BY <1>1, <1>3, <2>2
<1>. QED  BY <1>2, <1>3

\* The chain takes a transaction and its price.
PaidFor(t) ==
    /\ pending' = pending \ {t}
    /\ money >= P!Payment(t) /\ money' = money - P!Payment(t)
    /\ UNCHANGED <<building, target, wasm, runs, deployed, env, seen, named>>

\* Whatever comes of a transaction, the run that waits for it can still pay the rest.
LEMMA PaidKeeps ==
    ASSUME DeployInv, NEW t \in pending, NEW result \in {"success", "gas", "refused"},
           script' = P!Outcome(t, result), PaidFor(t)
    PROVE  PhasesFit' /\ OneAtATime' /\ MoneyIsThere' /\ money' \in Nat
<1>. USE DEF DeployInv, PaidFor
<1>1. /\ script'.step = script.step /\ script'.phase = script.phase
      /\ script'.registry = script.registry /\ script'.reason = script.reason
      /\ (script'.checked <=> script.checked) /\ (script'.clear <=> script.clear)
      /\ P!Busy /\ t.run = runs =>
            script.phase = "wait" /\ t.kind = script.step /\ t.registry = script.registry
      /\ ~(P!Busy /\ t.run = runs) => script'.result = script.result
  BY OutcomeFacts
<1>2. P!Payment(t) \in Nat /\ money' \in Nat
  BY DeployTypes, ProcessesAssumption DEF ChainTypes, P!Payment, P!DeployAssumption
<1>3. PhasesFit'
  BY <1>1 DEF PhasesFit, P!Busy
<1>4. OneAtATime'
  <2>1. \A u \in pending' : u.run <= runs'
    BY DEF OneAtATime
  <2>2. \A u, v \in pending' : u.run = v.run => u = v
    BY DEF OneAtATime
  <2>3. ASSUME NEW u \in pending', u.run = runs', P!Busy'
        PROVE  /\ script'.phase = "wait" /\ script'.result = "none"
               /\ u.kind = script'.step /\ u.registry = script'.registry
    <3>1. u \in pending /\ u # t /\ u.run = runs /\ P!Busy
      BY <1>1, <2>3 DEF P!Busy
    <3>2. t.run # runs
      BY <3>1 DEF OneAtATime
    <3>. QED  BY <1>1, <3>1, <3>2 DEF OneAtATime
  <2>. QED  BY <2>1, <2>2, <2>3 DEF OneAtATime
<1>5. MoneyIsThere'
  <2>1. P!Busy' => P!Busy
    BY <1>1 DEF P!Busy
  <2>2. ASSUME P!Busy, script.clear, script.checked
        PROVE  money' >= Due'
    <3>1. t.run = runs /\ \A u \in pending : u.run = runs
      BY <2>2 DEF MoneyIsThere
    <3>2. pending' = {}
      BY <3>1 DEF OneAtATime
    <3>3. script.phase = "wait" /\ t.kind = script.step
      BY <1>1, <2>2, <3>1
    <3>4. t.kind \in P!Steps \ {"record"}
      BY DeployTypes DEF ChainTypes, Transactions
    <3>5. money >= Later + Price
      BY <2>2 DEF MoneyIsThere, Due
    <3>6. P!Payment(t) = Price
      BY <3>3, <3>4 DEF P!Payment, Price, P!Contracts, P!Steps
    <3>7. Later' = Later /\ Later \in Nat /\ Price \in Nat
      BY <1>1, ProcessesAssumption DEF Later, Price, P!DeployAssumption
    <3>8. Due' = Later
      BY <1>1, <3>2, <3>3, <3>7 DEF Due
    <3>9. money \in Nat
      BY DeployTypes DEF ChainTypes
    <3>. QED  BY <3>5, <3>6, <3>7, <3>8, <3>9
  <2>. QED  BY <1>1, <2>1, <2>2 DEF MoneyIsThere
<1>. QED  BY <1>2, <1>3, <1>4, <1>5

\* The chain executes a transaction, in whatever order and however late.
LEMMA ExecuteKeeps == ASSUME DeployInv, NEW t \in pending, P!Execute(t) PROVE DeployInv'
<1>. USE DEF DeployInv
<1>1. PaidFor(t)
  BY DEF P!Execute, P!buildVars, PaidFor
<1>2. /\ t \in Transactions
      /\ t.kind \in {"register", "seed"} => t.registry \in P!Runs
      /\ ChainTypes /\ BuildTypes /\ FileTypes /\ runs \in 0..MaxRuns /\ script \in Scripts
  BY DeployTypes DEF ChainTypes, FileTypes, NamedFirst
<1>3. CASE P!ExecuteFails(t)
  <2>1. PICK result \in {"gas", "refused"} : script' = P!Outcome(t, result)
    BY <1>3 DEF P!ExecuteFails
  <2>2. PhasesFit' /\ OneAtATime' /\ MoneyIsThere' /\ money' \in Nat
    BY <1>1, <2>1, PaidKeeps
  <2>3. /\ script' \in Scripts
        /\ script'.step = script.step /\ script'.phase = script.phase
        /\ script'.registry = script.registry /\ script'.vault = script.vault
        /\ P!Busy /\ t.run = runs =>
              /\ script'.result # "success" /\ script.phase = "wait"
        /\ ~(P!Busy /\ t.run = runs) => script'.result = script.result
    BY <2>1, OutcomeFacts
  <2>4. UNCHANGED <<installed, key, enrolled, seeds>>
    BY <1>3 DEF P!ExecuteFails
  <2>5. P!TypeOK'
    BY <1>1, <1>2, <2>2, <2>3, <2>4, DeployTypesNext DEF PaidFor, BuildTypes, FileTypes, ChainTypes
  <2>6. SeedInOnePlace' /\ SuccessIsTrue'
    BY <1>1, <2>3, <2>4 DEF PaidFor, SeedInOnePlace, SeedDue, SeedSent, SuccessIsTrue
  <2>7. NamedFirst' /\ ReadIsInstalled'
    BY <1>1, <2>3, <2>4 DEF PaidFor, NamedFirst, ReadIsInstalled
  <2>. QED  BY <2>2, <2>5, <2>6, <2>7
<1>4. ASSUME script' = P!Outcome(t, "success")
      PROVE  /\ PhasesFit' /\ OneAtATime' /\ MoneyIsThere' /\ money' \in Nat
             /\ script' \in Scripts
             /\ script'.step = script.step /\ script'.phase = script.phase
             /\ script'.registry = script.registry /\ script'.vault = script.vault
             /\ P!Busy /\ t.run = runs =>
                   /\ script'.result = "success" /\ script.phase = "wait"
                   /\ t.kind = script.step /\ t.registry = script.registry
             /\ ~(P!Busy /\ t.run = runs) => script'.result = script.result
  BY <1>1, <1>4, PaidKeeps, OutcomeFacts
<1>5. CASE P!ExecuteInstalls(t)
  <2>1. /\ t.kind \in P!Contracts /\ script' = P!Outcome(t, "success")
        /\ installed' = [installed EXCEPT ![t.kind] = @ \union {t.run}]
        /\ key' = [key EXCEPT ![t.kind] = t.run]
        /\ UNCHANGED <<enrolled, seeds>>
    BY <1>5 DEF P!ExecuteInstalls
  <2>2. t.run \in P!Runs /\ t.run \in 0..MaxRuns
    BY <1>2 DEF Transactions, P!Runs
  <2>3. P!TypeOK'
    BY <1>1, <1>2, <1>4, <2>1, <2>2, DeployTypesNext DEF PaidFor, BuildTypes, FileTypes, ChainTypes
  <2>4. SeedInOnePlace' /\ SuccessIsTrue'
    BY <1>1, <1>4, <2>1 DEF PaidFor, SeedInOnePlace, SeedDue, SeedSent, SuccessIsTrue, P!Contracts
  <2>5. NamedFirst'
    BY <1>1, <1>4, <2>1 DEF PaidFor, NamedFirst
  <2>6. \A c \in P!Contracts : /\ installed[c] \subseteq installed'[c]
                               /\ key'[c] \in installed'[c] \/ key'[c] = key[c]
    BY <1>2, <2>1, <2>2 DEF ChainTypes
  <2>7. ReadIsInstalled'
    BY <1>1, <1>4, <2>1, <2>6 DEF PaidFor, ReadIsInstalled, P!Contracts
  <2>. QED  BY <1>4, <2>1, <2>3, <2>4, <2>5, <2>7
<1>6. CASE P!ExecuteRegisters(t)
  <2>1. /\ t.kind = "register" /\ t.registry \notin enrolled
        /\ enrolled' = enrolled \union {t.registry} /\ script' = P!Outcome(t, "success")
        /\ UNCHANGED <<installed, key, seeds>>
    BY <1>6 DEF P!ExecuteRegisters
  <2>2. P!TypeOK'
    BY <1>1, <1>2, <1>4, <2>1, DeployTypesNext DEF PaidFor, BuildTypes, FileTypes, ChainTypes
  <2>3. SeedInOnePlace'
    BY <1>1, <1>2, <1>4, <2>1 DEF PaidFor, SeedInOnePlace, SeedDue, SeedSent
  <2>4. SuccessIsTrue'
    BY <1>1, <1>2, <1>4, <2>1 DEF PaidFor, SuccessIsTrue
  <2>5. NamedFirst' /\ ReadIsInstalled'
    BY <1>1, <1>4, <2>1 DEF PaidFor, NamedFirst, ReadIsInstalled
  <2>. QED  BY <1>4, <2>1, <2>2, <2>3, <2>4, <2>5
<1>7. CASE P!ExecuteSeeds(t)
  <2>1. /\ t.kind = "seed" /\ t.registry \in enrolled
        /\ seeds' = [seeds EXCEPT ![t.registry] = @ + 1] /\ script' = P!Outcome(t, "success")
        /\ UNCHANGED <<installed, key, enrolled>>
    BY <1>7 DEF P!ExecuteSeeds
  <2>2. /\ t.registry \in P!Runs /\ seeds[t.registry] \in Nat
        /\ seeds[t.registry] = 0
    BY <1>2, <2>1 DEF SeedInOnePlace, SeedSent, ChainTypes
  <2>3. /\ seeds'[t.registry] = 1 /\ 1 \in 0..MaxRuns
        /\ \A r \in P!Runs : r # t.registry => seeds'[r] = seeds[r]
    BY <1>2, <2>1, <2>2, ProcessesAssumption DEF ChainTypes, P!Runs, P!DeployAssumption
  <2>4. P!TypeOK'
    BY <1>1, <1>2, <1>4, <2>1, <2>2, <2>3, DeployTypesNext DEF PaidFor, BuildTypes, FileTypes, ChainTypes
  <2>5. SeedInOnePlace'
    BY <1>1, <1>2, <1>4, <2>1, <2>2, <2>3 DEF PaidFor, SeedInOnePlace, SeedDue, SeedSent
  <2>6. SuccessIsTrue'
    BY <1>1, <1>2, <1>4, <2>1, <2>2, <2>3 DEF PaidFor, SuccessIsTrue
  <2>7. NamedFirst' /\ ReadIsInstalled'
    BY <1>1, <1>4, <2>1 DEF PaidFor, NamedFirst, ReadIsInstalled
  <2>. QED  BY <1>4, <2>1, <2>4, <2>5, <2>6, <2>7
<1>. QED  BY <1>3, <1>5, <1>6, <1>7 DEF P!Execute

LEMMA DeployStutters == ASSUME DeployInv, UNCHANGED P!vars PROVE DeployInv'
<1>1. UNCHANGED <<building, target, wasm, runs, script, deployed, env, pending, money, installed, key, seen,
                  enrolled, seeds, named>>
  BY DEF P!vars, P!buildVars, P!chainVars
<1>2. P!TypeOK'
  BY <1>1, DeployTypes, DeployTypesNext DEF DeployInv, BuildTypes, FileTypes, ChainTypes
<1>3. PhasesFit' /\ OneAtATime' /\ SeedInOnePlace' /\ SuccessIsTrue' /\ NamedFirst' /\ ReadIsInstalled'
  BY <1>1 DEF DeployInv, PhasesFit, OneAtATime, SeedInOnePlace, SeedDue, SeedSent, SuccessIsTrue, NamedFirst,
              ReadIsInstalled, P!Busy
<1>4. MoneyIsThere'
  BY <1>1 DEF DeployInv, MoneyIsThere, P!Busy, Due, Later, Price
<1>. QED  BY <1>2, <1>3, <1>4 DEF DeployInv

LEMMA DeployStep == ASSUME DeployInv, P!Next PROVE DeployInv'
BY BuildKeeps, ExportKeeps, ScriptStartKeeps, PreflightKeeps, LookupKeeps, SendKeeps, ConfirmKeeps, FailuresKeep,
   ReadKeyKeeps, RecordKeeps, ExecuteKeeps, ExpireKeeps, CatchUpKeeps DEF P!Next

\* However often the deploy script is run, crashes and times out, and however late the
\* chain executes: every seed is in one place, what a run has seen succeed has been done,
\* and a run that has seen enough money has enough left.
THEOREM DeployInvariant == P!Spec => []DeployInv
<1>1. P!Init => DeployInv
  BY DeployInit
<1>2. DeployInv /\ [P!Next]_(P!vars) => DeployInv'
  BY DeployStep, DeployStutters DEF P!vars
<1>. QED  BY <1>1, <1>2, PTL DEF P!Spec

\* "complete" means enrolled and seeded, no registry applies its seed twice, a run that
\* has seen enough money does not end for want of it, and testnet.json names what is on
\* chain (deploy-testnet.mjs).
THEOREM DeploysAreSafe == P!Spec => []DeployIsSafe
<1>1. DeployInv => DeployIsSafe
  <2>. SUFFICES ASSUME DeployInv PROVE DeployIsSafe
    OBVIOUS
  <2>1. P!CompleteMeansSeeded
    BY DEF DeployInv, SuccessIsTrue, P!CompleteMeansSeeded
  <2>2. P!SeededOnce
    BY DEF DeployInv, SeedInOnePlace, P!SeededOnce
  <2>3. P!PreflightCovers
    BY DEF DeployInv, MoneyIsThere, P!PreflightCovers
  <2>4. P!RecordedAndInstalled
    BY DEF DeployInv, NamedFirst, ReadIsInstalled, P!RecordedAndInstalled
  <2>. QED  BY <2>1, <2>2, <2>3, <2>4 DEF DeployInv, DeployIsSafe
<1>. QED  BY <1>1, DeployInvariant, PTL

-----------------------------------------------------------------------------
(* The start of an agent.                                                  *)

\* What one line of .env does to the environment.
SetLine(e, line) ==
    IF e[line[1]] = S!Unset \/ line[1] \in S!OverrideKeys THEN [e EXCEPT ![line[1]] = line[2]] ELSE e

\* The lines among t that are about k.
LinesAbout(k, t) == {i \in t : dotenv[i][1] = k}

\* The environments that the shell and the lines t may make: what the shell has set
\* stands, and the last line about a key that overrides counts.
MadeOf(t) ==
    {e \in S!Settings :
        /\ \A k \in S!Keys \ S!OverrideKeys : shell[k] # S!Unset => e[k] = shell[k]
        /\ \A k \in S!OverrideKeys :
              e[k] = IF LinesAbout(k, t) = {} THEN shell[k] ELSE dotenv[S!Max(LinesAbout(k, t))][2]}

\* The greatest of some lines.
LEMMA LastOf ==
    ASSUME NEW n \in Nat, NEW t \in SUBSET (1..n), t # {}
    PROVE  S!Max(t) \in t /\ \A y \in t : S!Max(t) >= y
<1>. DEFINE Good == {m \in Nat : \A s \in SUBSET (1..m) : s # {} => \E x \in s : \A y \in s : x >= y}
<1>1. 0 \in Good
  <2>1. 1..0 = {}
    OBVIOUS
  <2>. QED  BY <2>1
<1>2. ASSUME NEW m \in Nat, m \in Good PROVE m + 1 \in Good
  <2>1. ASSUME NEW s \in SUBSET (1..(m + 1)), s # {} PROVE \E x \in s : \A y \in s : x >= y
    <3>1. CASE m + 1 \in s
      BY <3>1
    <3>2. CASE m + 1 \notin s
      <4>1. s \in SUBSET (1..m)
        BY <3>2
      <4>. QED  BY <1>2, <2>1, <4>1
    <3>. QED  BY <3>1, <3>2
  <2>. QED  BY <2>1
<1>. HIDE DEF Good
<1>3. n \in Good
  BY <1>1, <1>2, NaturalsAre
<1>4. \E x \in t : \A y \in t : x >= y
  BY <1>3 DEF Good
<1>. QED  BY <1>4 DEF S!Max

LEMMA LineIsSet ==
    ASSUME NEW e \in S!Settings, NEW line \in S!Keys \X S!AllValues
    PROVE  /\ SetLine(e, line) \in S!Settings
           /\ \A k \in S!Keys \ S!OverrideKeys : e[k] # S!Unset => SetLine(e, line)[k] = e[k]
           /\ \A k \in S!OverrideKeys \intersect S!Keys :
                 SetLine(e, line)[k] = IF line[1] = k THEN line[2] ELSE e[k]
<1>1. line[1] \in S!Keys /\ line[2] \in S!AllValues
  OBVIOUS
<1>. QED  BY <1>1 DEF SetLine, S!Settings

\* The each of the fold: the line of the greatest number is set last.
LEMMA LineIsMade ==
    ASSUME dotenv \in Seq(S!Keys \X S!AllValues), shell \in S!Settings,
           NEW t \in SUBSET DOMAIN dotenv, NEW m \in t, \A y \in t : m >= y, NEW e \in MadeOf(t \ {m})
    PROVE  SetLine(e, dotenv[m]) \in MadeOf(t)
<1>. DEFINE made == SetLine(e, dotenv[m])
<1>1. /\ dotenv[m] \in S!Keys \X S!AllValues /\ e \in S!Settings
      /\ Len(dotenv) \in Nat /\ t \in SUBSET (1..Len(dotenv)) /\ m \in Nat
  BY DEF MadeOf
<1>2. S!OverrideKeys \subseteq S!Keys
  BY DEF S!OverrideKeys, S!Keys, S!Values
<1>3. /\ made \in S!Settings
      /\ \A k \in S!Keys \ S!OverrideKeys : e[k] # S!Unset => made[k] = e[k]
      /\ \A k \in S!OverrideKeys : made[k] = IF dotenv[m][1] = k THEN dotenv[m][2] ELSE e[k]
  <2>1. /\ made \in S!Settings
        /\ \A k \in S!Keys \ S!OverrideKeys : e[k] # S!Unset => made[k] = e[k]
        /\ \A k \in S!OverrideKeys \intersect S!Keys :
              made[k] = IF dotenv[m][1] = k THEN dotenv[m][2] ELSE e[k]
    <3>. DEFINE line == dotenv[m]
    <3>1. line \in S!Keys \X S!AllValues
      BY <1>1
    <3>. HIDE DEF line
    <3>2. /\ SetLine(e, line) \in S!Settings
          /\ \A k \in S!Keys \ S!OverrideKeys : e[k] # S!Unset => SetLine(e, line)[k] = e[k]
          /\ \A k \in S!OverrideKeys \intersect S!Keys :
                SetLine(e, line)[k] = IF line[1] = k THEN line[2] ELSE e[k]
      BY <1>1, <3>1, LineIsSet
    <3>. QED  BY <3>2 DEF line
  <2>. HIDE DEF made
  <2>. QED  BY <1>2, <2>1
<1>. HIDE DEF made
<1>4. ASSUME NEW k \in S!Keys \ S!OverrideKeys, shell[k] # S!Unset PROVE made[k] = shell[k]
  BY <1>3, <1>4 DEF MadeOf
<1>5. ASSUME NEW k \in S!OverrideKeys
      PROVE  made[k] = IF LinesAbout(k, t) = {} THEN shell[k] ELSE dotenv[S!Max(LinesAbout(k, t))][2]
  <2>. DEFINE about == LinesAbout(k, t)
  <2>1. CASE dotenv[m][1] = k
    <3>1. m \in about /\ about \in SUBSET (1..Len(dotenv)) /\ about # {}
      BY <1>1, <2>1 DEF LinesAbout
    <3>2. S!Max(about) \in about /\ S!Max(about) >= m
      BY <1>1, <3>1, LastOf
    <3>3. S!Max(about) \in t /\ S!Max(about) \in Nat
      BY <1>1, <3>1, <3>2 DEF LinesAbout
    <3>4. S!Max(about) = m
      BY <1>1, <3>2, <3>3
    <3>. QED  BY <1>3, <2>1, <3>1, <3>4
  <2>2. CASE dotenv[m][1] # k
    <3>1. LinesAbout(k, t \ {m}) = LinesAbout(k, t)
      BY <2>2 DEF LinesAbout
    <3>. QED  BY <1>3, <2>2, <3>1 DEF MadeOf
  <2>. QED  BY <2>1, <2>2
<1>. QED  BY <1>3, <1>4, <1>5 DEF MadeOf, made

\* hydrateProcessEnvFromRepoDotEnv: what its loop over the lines makes.
LEMMA HydratedIsMade ==
    ASSUME dotenv \in Seq(S!Keys \X S!AllValues), shell \in S!Settings
    PROVE  S!Hydrated \in MadeOf(DOMAIN dotenv)
<1>. DEFINE Lines == DOMAIN dotenv
            pick == [t \in SUBSET Lines |-> S!Max(t)]
            each == [p \in Lines \X S!Settings |-> SetLine(p[2], dotenv[p[1]])]
            iter == CHOOSE g : g = [t \in SUBSET Lines |->
                        IF t = {} THEN shell ELSE SetLine(g[t \ {S!Max(t)}], dotenv[S!Max(t)])]
<1>1. /\ Len(dotenv) \in Nat /\ Lines = 1..Len(dotenv) /\ IsFiniteSet(Lines)
      /\ \A i \in Lines : dotenv[i] \in S!Keys \X S!AllValues
  BY FS_Interval
<1>2. shell \in MadeOf({})
  BY DEF MadeOf, LinesAbout
<1>3. ASSUME NEW t \in SUBSET Lines, t # {}
      PROVE  S!Max(t) \in t /\ \A y \in t : S!Max(t) >= y
  BY <1>1, <1>3, LastOf
<1>. HIDE DEF Lines
<1>4. each \in [Lines \X S!Settings -> S!Settings] /\ \A i \in Lines, e \in S!Settings : each[<<i, e>>] = SetLine(e, dotenv[i])
  BY <1>1, LineIsSet
<1>5. /\ Picks(pick, Lines)
      /\ \A t \in SUBSET Lines : t # {} => S!Max(t) \in t /\ pick[t] = S!Max(t)
  BY <1>3 DEF Picks
<1>. HIDE DEF pick, each
<1>6. PICK f : FoldsAll(f, Lines, S!Settings, shell, each, pick)
  BY <1>1, <1>4, <1>5, FoldExists
<1>7. f = [t \in SUBSET Lines |-> IF t = {} THEN shell ELSE SetLine(f[t \ {S!Max(t)}], dotenv[S!Max(t)])]
  <2>1. ASSUME NEW t \in SUBSET Lines, t # {}
        PROVE  f[t] = SetLine(f[t \ {S!Max(t)}], dotenv[S!Max(t)])
    <3>1. f[t] = each[<<S!Max(t), f[t \ {S!Max(t)}]>>]
      BY <1>5, <1>6, <2>1 DEF FoldsAll
    <3>2. S!Max(t) \in Lines /\ f[t \ {S!Max(t)}] \in S!Settings
      BY <1>5, <1>6, <2>1 DEF FoldsAll
    <3>. QED  BY <1>4, <3>1, <3>2
  <2>. QED  BY <1>6, <2>1 DEF FoldsAll
<1>8. iter = [t \in SUBSET Lines |-> IF t = {} THEN shell ELSE SetLine(iter[t \ {S!Max(t)}], dotenv[S!Max(t)])]
  BY <1>7
<1>9. S!Hydrated = iter[Lines]
  BY DEF S!Hydrated, S!FoldLeft, S!MapThenFoldSet, SetLine, Lines
<1>. HIDE DEF iter
<1>10. \A t \in SUBSET Lines : iter[t] \in MadeOf(t)
  <2>. DEFINE Good == {t \in SUBSET Lines : iter[t] \in MadeOf(t)}
  <2>1. ASSUME NEW t \in SUBSET Lines, \A x \in t : t \ {x} \in Good PROVE t \in Good
    <3>1. CASE t = {}
      BY <1>2, <1>8, <3>1
    <3>2. CASE t # {}
      <4>1. S!Max(t) \in t /\ (\A y \in t : S!Max(t) >= y) /\ iter[t \ {S!Max(t)}] \in MadeOf(t \ {S!Max(t)})
        BY <1>3, <2>1, <3>2
      <4>2. iter[t] = SetLine(iter[t \ {S!Max(t)}], dotenv[S!Max(t)])
        BY <1>8, <3>2
      <4>3. t \in SUBSET DOMAIN dotenv
        BY DEF Lines
      <4>. QED  BY <4>1, <4>2, <4>3, LineIsMade
    <3>. QED  BY <3>1, <3>2
  <2>. HIDE DEF Good
  <2>2. SUBSET Lines \subseteq Good
    <3>1. IsFiniteSet(Lines)
      BY <1>1
    <3>. QED  BY <2>1, <3>1, SubsetsAre
  <2>. QED  BY <2>2 DEF Good
<1>. QED  BY <1>9, <1>10 DEF Lines

LEMMA HydratedIsSettings ==
    ASSUME dotenv \in Seq(S!Keys \X S!AllValues), shell \in S!Settings
    PROVE  S!Hydrated \in S!Settings
BY HydratedIsMade DEF MadeOf

\* What a process is.
ProcessRecords == [pc : {"down", "refused", "starting", "running", "crashed"}, signer : {"mock", "real"},
                   tx : {"mock", "real"}, llm : {"mock", "real"}, interval : {0, 15000, 30000, 900000},
                   env : S!Settings]

\* What one process may be.
ProcessFits(process) ==
    /\ process.pc \in {"down", "refused"} => process.interval = 0
    /\ S!Offline(process.env) =>
        /\ process.pc \in {"starting", "running"} =>
              process.tx = "mock" /\ process.llm = "mock" /\ process.interval <= 15000
        /\ process.pc = "refused" => ~S!Valid(process.env)

\* The inductive invariant.
StartInv ==
    /\ dotenv \in Seq(S!Keys \X S!AllValues) /\ shell \in S!Settings
    /\ agents \in [Starters -> ProcessRecords]
    /\ \A a \in Starters : ProcessFits(agents[a])
    /\ port \in {{}} \union {{a} : a \in Starters}
    /\ \A a \in Starters : agents[a].pc = "running" <=> port = {a}

LEMMA StartValues ==
    /\ S!Unset \in S!AllValues \union {S!Unset} /\ S!NoKeys \in S!Settings
    /\ S!Keys = {"offline", "account", "key", "llm", "api", "others", "interval"}
    /\ \A k \in S!Keys : S!Values[k] \subseteq S!AllValues
    /\ S!NoKeys.offline # "true"
<1>1. S!Keys = {"offline", "account", "key", "llm", "api", "others", "interval"}
  BY DEF S!Keys, S!Values
<1>2. S!NoKeys \in S!Settings /\ S!NoKeys.offline # "true"
  BY <1>1 DEF S!NoKeys, S!Settings, S!Unset
<1>3. \A k \in S!Keys : S!Values[k] \subseteq S!AllValues
  BY DEF S!AllValues
<1>. QED  BY <1>1, <1>2, <1>3

LEMMA DownFits == S!Down \in ProcessRecords /\ ProcessFits(S!Down) /\ S!Down.pc = "down"
BY StartValues DEF S!Down, ProcessRecords, ProcessFits, S!Offline

LEMMA StartInit == S!Init => StartInv
<1>. SUFFICES ASSUME S!Init PROVE StartInv
  OBVIOUS
<1>1. shell \in S!Settings
  <2>1. PICK s \in [ShellKeys -> S!AllValues \union {S!Unset}] :
          shell = [k \in S!Keys |-> IF k \in ShellKeys THEN s[k] ELSE S!Unset]
    BY DEF S!Init
  <2>. QED  BY <2>1 DEF S!Settings
<1>2. agents \in [Starters -> ProcessRecords] /\ \A a \in Starters : agents[a] = S!Down
  BY DownFits DEF S!Init
<1>3. port = {} /\ \A a \in Starters : agents[a].pc # "running" /\ port # {a}
  BY <1>2, DownFits DEF S!Init
<1>. QED  BY <1>1, <1>2, <1>3, DownFits DEF StartInv, S!Init

\* The operator edits .env.
LEMMA EditKeeps ==
    ASSUME StartInv, dotenv' \in Seq(S!Keys \X S!AllValues), UNCHANGED <<shell, agents, port>>
    PROVE  StartInv'
BY DEF StartInv

\* Seven elements make a sequence.
LEMMA SevenInSeq ==
    ASSUME NEW X, NEW a \in X, NEW b \in X, NEW c \in X, NEW d \in X, NEW e \in X, NEW f \in X, NEW g \in X
    PROVE  <<a, b, c, d, e, f, g>> \in Seq(X)
OBVIOUS

LEMMA ExampleIsEnv == S!Example \in Seq(S!Keys \X S!AllValues)
<1>1. /\ <<"key", "placeholder">> \in S!Keys \X S!AllValues /\ <<"account", "">> \in S!Keys \X S!AllValues
      /\ <<"llm", "key">> \in S!Keys \X S!AllValues /\ <<"offline", "false">> \in S!Keys \X S!AllValues
      /\ <<"api", "key">> \in S!Keys \X S!AllValues /\ <<"others", "fit">> \in S!Keys \X S!AllValues
      /\ <<"interval", "900000">> \in S!Keys \X S!AllValues
  <2>1. /\ "placeholder" \in S!Values["key"] /\ "" \in S!Values["account"] /\ "key" \in S!Values["llm"]
        /\ "key" \in S!Values["api"] /\ "fit" \in S!Values["others"]
        /\ "false" \in S!Values["offline"] /\ "900000" \in S!Values["interval"]
    BY DEF S!Values
  <2>. QED  BY <2>1, StartValues
<1>. DEFINE EnvLines == S!Keys \X S!AllValues
<1>2. <<"key", "placeholder">> \in EnvLines /\ <<"account", "">> \in EnvLines /\ <<"llm", "key">> \in EnvLines
      /\ <<"offline", "false">> \in EnvLines /\ <<"interval", "900000">> \in EnvLines
      /\ <<"api", "key">> \in EnvLines /\ <<"others", "fit">> \in EnvLines
  BY <1>1
<1>. HIDE DEF EnvLines
<1>3. S!Example \in Seq(EnvLines)
  BY <1>2, SevenInSeq DEF S!Example
<1>. QED  BY <1>3 DEF EnvLines

LEMMA OperatorKeeps ==
    ASSUME StartInv,
           \/ S!CopyExample
           \/ \E k \in Written : \E v \in S!Values[k] : S!AppendLine(k, v)
           \/ \E i \in {j \in DOMAIN dotenv : dotenv[j][1] \in Written} :
                  \E v \in S!Values[dotenv[i][1]] : S!EditLine(i, v)
    PROVE  StartInv'
<1>1. dotenv \in Seq(S!Keys \X S!AllValues) /\ Written \subseteq S!Keys
  BY ProcessesAssumption DEF StartInv, S!StartupAssumption
<1>2. CASE S!CopyExample
  BY <1>2, ExampleIsEnv, EditKeeps DEF S!CopyExample
<1>3. ASSUME NEW k \in Written, NEW v \in S!Values[k], S!AppendLine(k, v) PROVE StartInv'
  <2>1. <<k, v>> \in S!Keys \X S!AllValues
    BY <1>1, StartValues
  <2>2. dotenv' \in Seq(S!Keys \X S!AllValues)
    BY <1>1, <1>3, <2>1 DEF S!AppendLine
  <2>. QED  BY <1>3, <2>2, EditKeeps DEF S!AppendLine
<1>4. ASSUME NEW i \in DOMAIN dotenv, dotenv[i][1] \in Written, NEW v \in S!Values[dotenv[i][1]], S!EditLine(i, v)
      PROVE  StartInv'
  <2>1. <<dotenv[i][1], v>> \in S!Keys \X S!AllValues
    BY <1>1, <1>4, StartValues
  <2>2. dotenv' \in Seq(S!Keys \X S!AllValues)
    BY <1>1, <1>4, <2>1 DEF S!EditLine
  <2>. QED  BY <1>4, <2>2, EditKeeps DEF S!EditLine
<1>. QED  BY <1>2, <1>3, <1>4

LEMMA StopKeeps == ASSUME StartInv, NEW a \in Starters, S!Stop(a) PROVE StartInv'
<1>1. agents' = [agents EXCEPT ![a] = S!Down] /\ port' = port \ {a} /\ UNCHANGED <<dotenv, shell>>
  BY DEF S!Stop
<1>2. agents' \in [Starters -> ProcessRecords] /\ \A b \in Starters : ProcessFits(agents'[b])
  BY <1>1, DownFits DEF StartInv
<1>3. \A b \in Starters : agents'[b].pc = "running" <=> b # a /\ agents[b].pc = "running"
  BY <1>1, DownFits DEF StartInv
<1>4. port' = IF port = {a} THEN {} ELSE port
  BY <1>1 DEF StartInv
<1>5. port' \in {{}} \union {{b} : b \in Starters}
  BY <1>4 DEF StartInv
<1>6. \A b \in Starters : agents'[b].pc = "running" <=> port' = {b}
  BY <1>3, <1>4 DEF StartInv
<1>. QED  BY <1>1, <1>2, <1>5, <1>6 DEF StartInv

\* What run.ts makes of an environment.
LEMMA StartedFits ==
    ASSUME NEW e \in S!Settings, S!Valid(e), S!HasAccount(e), S!HasLlm(e)
    PROVE  LET process == [pc |-> "starting", env |-> e, signer |-> S!Signer(e), tx |-> S!TxClient(e),
                           llm |-> S!LlmClient(e), interval |-> S!LoopInterval(e)]
           IN  process \in ProcessRecords /\ ProcessFits(process)
<1>1. /\ S!Signer(e) \in {"mock", "real"} /\ S!TxClient(e) \in {"mock", "real"} /\ S!LlmClient(e) \in {"mock", "real"}
      /\ S!Offline(e) => S!TxClient(e) = "mock" /\ S!LlmClient(e) = "mock"
  BY DEF S!Signer, S!TxClient, S!LlmClient
<1>2. S!LoopInterval(e) \in {15000, 30000, 900000} /\ (S!Offline(e) => S!LoopInterval(e) <= 15000)
  BY DEF S!LoopInterval, S!IntervalMs
<1>. QED  BY <1>1, <1>2 DEF ProcessRecords, ProcessFits

\* A process that is refused has no interval.
LEMMA PutIntoRecord ==
    ASSUME NEW process \in ProcessRecords, process.interval = 0, NEW e \in S!Settings
    PROVE  LET refused == [process EXCEPT !.pc = "refused", !.env = e]
           IN  refused \in ProcessRecords /\ refused.pc = "refused" /\ refused.env = e /\ refused.interval = 0
<1>. DEFINE over == [process EXCEPT !.pc = "refused"]
<1>1. over \in ProcessRecords /\ over.pc = "refused" /\ over.interval = 0
  BY DEF ProcessRecords
<1>2. [process EXCEPT !.pc = "refused", !.env = e] = [over EXCEPT !.env = e]
  BY DEF ProcessRecords
<1>. HIDE DEF over
<1>3. [over EXCEPT !.env = e] \in ProcessRecords /\ [over EXCEPT !.env = e].pc = "refused"
      /\ [over EXCEPT !.env = e].env = e /\ [over EXCEPT !.env = e].interval = 0
  BY <1>1 DEF ProcessRecords
<1>. QED  BY <1>2, <1>3

LEMMA RefusedFits ==
    ASSUME NEW e \in S!Settings, ~(S!Valid(e) /\ S!HasAccount(e) /\ S!HasLlm(e))
    PROVE  /\ [S!Down EXCEPT !.pc = "refused", !.env = e] \in ProcessRecords
           /\ ProcessFits([S!Down EXCEPT !.pc = "refused", !.env = e])
           /\ [S!Down EXCEPT !.pc = "refused", !.env = e].pc = "refused"
<1>1. S!Offline(e) => ~S!Valid(e)
  BY DEF S!HasAccount, S!HasLlm
<1>2. S!Down \in ProcessRecords /\ S!Down.interval = 0
  BY DownFits DEF S!Down
<1>. DEFINE refused == [S!Down EXCEPT !.pc = "refused", !.env = e]
<1>3. refused \in ProcessRecords /\ refused.pc = "refused" /\ refused.env = e /\ refused.interval = 0
  BY <1>2, PutIntoRecord
<1>. HIDE DEF refused
<1>4. ProcessFits(refused)
  BY <1>1, <1>3 DEF ProcessFits
<1>. QED  BY <1>3, <1>4 DEF refused

LEMMA StartKeeps == ASSUME StartInv, NEW a \in Starters, S!Start(a) PROVE StartInv'
<1>1. dotenv \in Seq(S!Keys \X S!AllValues) /\ shell \in S!Settings /\ agents \in [Starters -> ProcessRecords]
  BY DEF StartInv
<1>2. PICK e \in S!Settings : e = S!Hydrated
  BY <1>1, HydratedIsSettings
<1>3. PICK process \in ProcessRecords :
        /\ agents' = [agents EXCEPT ![a] = process]
        /\ ProcessFits(process) /\ process.pc # "running"
  <2>1. CASE S!Valid(e) /\ S!HasAccount(e) /\ S!HasLlm(e)
    <3>. DEFINE started == [pc |-> "starting", env |-> e, signer |-> S!Signer(e), tx |-> S!TxClient(e),
                            llm |-> S!LlmClient(e), interval |-> S!LoopInterval(e)]
    <3>2. started \in ProcessRecords /\ ProcessFits(started)
      BY <2>1, StartedFits
    <3>3. agents' = [agents EXCEPT ![a] = started]
      BY <1>2, <2>1 DEF S!Start
    <3>4. started.pc # "running"
      OBVIOUS
    <3>. HIDE DEF started
    <3>. QED  BY <3>2, <3>3, <3>4
  <2>2. CASE ~(S!Valid(e) /\ S!HasAccount(e) /\ S!HasLlm(e))
    <3>. DEFINE refused == [S!Down EXCEPT !.pc = "refused", !.env = e]
    <3>1. refused \in ProcessRecords /\ ProcessFits(refused) /\ refused.pc = "refused"
      BY <2>2, RefusedFits
    <3>2. agents' = [agents EXCEPT ![a] = refused]
      BY <1>2, <2>2 DEF S!Start
    <3>. HIDE DEF refused
    <3>. QED  BY <3>1, <3>2
  <2>. QED  BY <2>1, <2>2
<1>4. agents' \in [Starters -> ProcessRecords] /\ \A b \in Starters : ProcessFits(agents'[b])
  BY <1>1, <1>3 DEF StartInv
<1>5. \A b \in Starters : agents'[b].pc = "running" <=> agents[b].pc = "running"
  BY <1>1, <1>3 DEF S!Start
<1>. QED  BY <1>1, <1>4, <1>5 DEF StartInv, S!Start

\* The listen takes the port if nobody has it, and ends the process otherwise.
LEMMA ListenKeeps == ASSUME StartInv, NEW a \in Starters, S!Listen(a) PROVE StartInv'
<1>1. agents \in [Starters -> ProcessRecords] /\ agents[a].pc = "starting" /\ ProcessFits(agents[a])
  BY DEF StartInv, S!Listen
<1>2. PICK pc \in {"running", "crashed"} :
        /\ agents' = [agents EXCEPT ![a].pc = pc] /\ (pc = "running" <=> port = {})
        /\ port' = IF port = {} THEN {a} ELSE port
        /\ UNCHANGED <<dotenv, shell>>
  BY DEF S!Listen
<1>. DEFINE process == [agents[a] EXCEPT !.pc = pc]
<1>3. process \in ProcessRecords /\ process.pc = pc /\ ProcessFits(process)
  BY <1>1 DEF ProcessRecords, ProcessFits
<1>4. agents' = [agents EXCEPT ![a] = process]
  BY <1>1, <1>2
<1>. HIDE DEF process
<1>5. agents' \in [Starters -> ProcessRecords] /\ \A b \in Starters : ProcessFits(agents'[b])
  BY <1>1, <1>3, <1>4 DEF StartInv
<1>6. \A b \in Starters : agents'[b].pc = IF b = a THEN pc ELSE agents[b].pc
  BY <1>1, <1>3, <1>4
<1>7. port' \in {{}} \union {{b} : b \in Starters}
  BY <1>2 DEF StartInv
<1>8. ASSUME NEW b \in Starters PROVE agents'[b].pc = "running" <=> port' = {b}
  <2>1. port # {a} /\ (agents[b].pc = "running" <=> port = {b})
    BY <1>1 DEF StartInv
  <2>. QED  BY <1>2, <1>6, <2>1
<1>. QED  BY <1>2, <1>5, <1>7, <1>8 DEF StartInv

LEMMA StartStutters == ASSUME StartInv, UNCHANGED startVars PROVE StartInv'
BY DEF StartInv, startVars

\* Every process fits its environment, and the one that listens is the one that goes on,
\* for every .env and every number of processes.
THEOREM StartInvariant == S!Spec => []StartInv
<1>1. S!Init => StartInv
  BY StartInit
<1>2. StartInv /\ [S!Next]_(S!vars) => StartInv'
  BY OperatorKeeps, StartKeeps, ListenKeeps, StopKeeps, StartStutters DEF S!Next, startVars, S!vars
<1>. QED  BY <1>1, <1>2, PTL DEF S!Spec

\* An offline agent needs no key and reaches nothing, and of agents that share a trigger
\* port the one that listens is the one that goes on (run.ts, trigger-server.ts, env.ts).
THEOREM StartsAreSafe == S!Spec => []StartIsSafe
<1>1. ASSUME StartInv PROVE S!TypeOK
  BY <1>1 DEF StartInv, S!TypeOK, ProcessRecords, ProcessFits
<1>2. ASSUME StartInv PROVE S!OfflineIsSelfContained
  BY <1>2 DEF StartInv, S!OfflineIsSelfContained, ProcessFits, S!Loops
<1>3. ASSUME StartInv PROVE S!OneAgentGoesOn
  BY <1>3 DEF StartInv, S!OneAgentGoesOn, S!Running
<1>4. StartInv => StartIsSafe
  BY <1>1, <1>2, <1>3 DEF StartIsSafe
<1>. QED  BY <1>4, StartInvariant, PTL

\* Whoever starts has the environment that .env and the shell make.
LEMMA OneLoads ==
    ASSUME StartInv, S!Next, NEW a \in Starters, S!Loads(a)
    PROVE  agents'[a].env = S!Hydrated
<1>1. agents \in [Starters -> ProcessRecords] /\ agents[a].pc = "down" /\ agents'[a].pc # "down"
  BY DEF StartInv, S!Loads
<1>2. \A b \in Starters : ~S!Stop(b)
  BY <1>1, DownFits DEF S!Stop
<1>3. PICK b \in Starters : S!Start(b)
  BY <1>1, <1>2 DEF S!Next, S!CopyExample, S!AppendLine, S!EditLine, S!Listen
<1>4. b = a
  BY <1>1, <1>3 DEF S!Start
<1>5. PICK e : e = S!Hydrated
  OBVIOUS
<1>. QED  BY <1>1, <1>3, <1>4, <1>5 DEF S!Start, S!Down

\* .env never overrides what the shell has set, and of the interval the last line in .env
\* counts (hydrateProcessEnvFromRepoDotEnv in env.ts).
THEOREM ShellComesFirstAlways == S!Spec => S!ShellComesFirst
<1>. DEFINE Step == \A a \in Starters : S!Loads(a) => \A k \in S!Keys :
                        IF k = "interval" /\ S!LastWritten(k) # S!Unset THEN agents'[a].env[k] = S!LastWritten(k)
                        ELSE shell[k] # S!Unset => agents'[a].env[k] = shell[k]
<1>1. ASSUME StartInv, S!Next, NEW a \in Starters, S!Loads(a), NEW k \in S!Keys
      PROVE  IF k = "interval" /\ S!LastWritten(k) # S!Unset THEN agents'[a].env[k] = S!LastWritten(k)
             ELSE shell[k] # S!Unset => agents'[a].env[k] = shell[k]
  <2>1. agents'[a].env \in MadeOf(DOMAIN dotenv)
    BY <1>1, OneLoads, HydratedIsMade DEF StartInv
  <2>2. CASE k \notin S!OverrideKeys
    BY <2>1, <2>2 DEF MadeOf, S!OverrideKeys
  <2>3. CASE k \in S!OverrideKeys
    <3>. DEFINE about == LinesAbout(k, DOMAIN dotenv)
    <3>1. k = "interval" /\ agents'[a].env[k] = IF about = {} THEN shell[k] ELSE dotenv[S!Max(about)][2]
      BY <2>1, <2>3 DEF MadeOf, S!OverrideKeys
    <3>2. S!LastWritten(k) = IF about = {} THEN S!Unset ELSE dotenv[S!Max(about)][2]
      BY DEF S!LastWritten, LinesAbout
    <3>3. CASE about = {}
      BY <3>1, <3>2, <3>3
    <3>4. CASE about # {}
      <4>1. Len(dotenv) \in Nat /\ about \in SUBSET (1..Len(dotenv)) /\ \A i \in 1..Len(dotenv) : dotenv[i] \in S!Keys \X S!AllValues
        BY <1>1 DEF StartInv, LinesAbout
      <4>2. S!Max(about) \in about
        BY <3>4, <4>1, LastOf
      <4>3. dotenv[S!Max(about)][2] \in S!AllValues
        BY <4>1, <4>2
      <4>4. S!Unset \notin S!AllValues
        <5>1. \A name \in S!Keys : S!Unset \notin S!Values[name]
          <6>1. /\ "unset" \notin {"true", "false"} /\ "unset" \notin {"", "hash"}
                /\ "unset" \notin {"", "placeholder", "hex"} /\ "unset" \notin {"", "key"}
                /\ "unset" \notin {"fit", "bad"} /\ "unset" \notin {"900000", "30000", "10"}
            OBVIOUS
          <6>2. /\ S!Values["offline"] = {"true", "false"} /\ S!Values["account"] = {"", "hash"}
                /\ S!Values["key"] = {"", "placeholder", "hex"} /\ S!Values["llm"] = {"", "key"}
                /\ S!Values["api"] = {"", "key"} /\ S!Values["others"] = {"fit", "bad"}
                /\ S!Values["interval"] = {"900000", "30000", "10"}
            BY DEF S!Values
          <6>. QED  BY <6>1, <6>2, StartValues DEF S!Unset
        <5>. QED  BY <5>1 DEF S!AllValues
      <4>. QED  BY <3>1, <3>2, <3>4, <4>3, <4>4
    <3>. QED  BY <3>3, <3>4
  <2>. QED  BY <2>2, <2>3
<1>2. StartInv /\ [S!Next]_(S!vars) => [Step]_(S!vars)
  BY <1>1
<1>. QED  BY <1>2, StartInvariant, PTL DEF S!Spec, S!ShellComesFirst
=============================================================================
