--------------------------- MODULE RpcReadProofs ---------------------------
(***************************************************************************)
(* Theorems about Reads: what a read that is put together from several     *)
(* calls says of the contract, how often it asks, and that with its cache, *)
(* its fallback and its flag it is the abstract read client, for both      *)
(* kinds of read, both policies, every number of attempts and of blocks;   *)
(* that the bytes it decodes give back what the contracts stored; and that *)
(* the agent's rules for an allocation fit the contract's.                 *)
(***************************************************************************)
EXTENDS Reads, FiniteSetTheorems, SequenceTheorems, FoldFacts, TLAPS

-----------------------------------------------------------------------------
(* The inductive invariant.                                                *)

States == IF kind = "vault"
          THEN [funds : Heights, alloc : Heights, agent : Heights, paused : BOOLEAN]
          ELSE [profile : Found]

Asked == kind \in {"vault", "reputation"} /\ policy \in {"retry", "fast-fail"}

Types ==
    /\ Asked
    /\ blocks \in Seq(States) /\ Len(blocks) \in 1 .. MaxHeight + 1
    /\ step \in 0 .. Len(Calls)
    /\ inner \in 0 .. MostTries - 1 /\ outer \in 0 .. MostTries - 1
    /\ sent \in Nat /\ limitedAt \in Nat
    /\ from \in 0 .. Height
    /\ at \in Seq(Heights) /\ got \in Seq(Found) /\ how \in Seq(Ways)
    /\ stage \in {"idle", "rpc", "rest"}
    /\ stage = "rpc" <=> step > 0
    /\ step > 0 => failedBy = NoFailure
    /\ failedBy.err \in Errors \cup {"none"}
    /\ result \in Results
    /\ cache \subseteq Results
    /\ perceiveRateLimited \in BOOLEAN

\* Every field was stored when it was read, or is a default that may stand, at moments
\* in order, none before start and none to come.
Truth(found, moments, ways, start) ==
    /\ Len(moments) = Len(found) /\ Len(ways) = Len(found)
    /\ \A i \in 1 .. Len(found) :
          /\ moments[i] \in 0 .. Height
          /\ start <= moments[i]
          /\ i > 1 => moments[i - 1] <= moments[i]
          /\ \/ ways[i] = "read" /\ found[i] = Stored(Calls[i], blocks[moments[i] + 1])
             \/ MayStand(i, ways[i]) /\ found[i] = Absent

\* A call is answered with what is stored now, or with a default that may stand.
Told(value, way) == \/ way = "read" /\ value = Stored(Calls[step], Latest)
                    \/ MayStand(step, way) /\ value = Absent

\* A read in progress has been told the truth so far.
TrueSoFar == step > 0 => Len(got) = step - 1 /\ Truth(got, at, how, from)

TrueResult(value) ==
    value.source = "rpc" => /\ Len(value.fields) = Len(Calls)
                            /\ Truth(value.fields, value.at, value.how, value.from)

\* What was returned is true, and so is what is kept to be returned again.
ResultsAreTrue ==
    /\ TrueResult(result)
    /\ \A value \in cache : TrueResult(value) /\ value.source \in {"rpc", "rest"}

\* One result is kept at most, and none while a call is under way.
CacheHoldsOne ==
    /\ \A v, w \in cache : v = w
    /\ stage # "idle" => cache = {}

\* Every failure of the inner loop is a request, and every failure of the outer one is
\* as many as the inner loop may make; only where two are nested is there an outer one.
RequestsAreFailures ==
    step > 0 => /\ sent <= outer * MostTries + inner
                /\ ~Nested => outer = 0

\* Under fast-fail a 429 is the last answer of a read.
LimitIsLast ==
    policy = "fast-fail" =>
        /\ limitedAt <= 1
        /\ limitedAt = 1 => stage = "idle" /\ cache = {} /\ result = Placeholder

IInv ==
    /\ Types
    /\ TrueSoFar
    /\ ResultsAreTrue
    /\ CacheHoldsOne
    /\ RequestsAreFailures
    /\ LimitIsLast

-----------------------------------------------------------------------------
(* Facts about the contract and the calls.                                 *)

LEMMA CallsFacts ==
    ASSUME Asked
    PROVE  /\ Len(Calls) \in Nat /\ Len(Calls) >= 3
           /\ kind = "vault" => Len(Calls) = 8 /\ Calls[7] = "paused"
           /\ kind = "reputation" => Len(Calls) = 3
           /\ \A i \in 1 .. Len(Calls) :
                 IF kind = "vault"
                 THEN Calls[i] \in {"package", "contract", "balance", "supply",
                                    "allocation", "agent", "paused", "timestamp"}
                 ELSE Calls[i] \in {"package", "contract", "profile"}
<1>1. kind \in {"vault", "reputation"}
  BY RpcAssumption DEF Asked
<1>2. CASE kind = "vault"
  BY <1>2 DEF Calls, VaultCalls
<1>3. CASE kind = "reputation"
  BY <1>3 DEF Calls, ReputationCalls
<1>. QED  BY <1>1, <1>2, <1>3

\* What is read, and how, stays.
LEMMA SameRead ==
    ASSUME UNCHANGED <<kind, policy>>
    PROVE  /\ Calls' = Calls /\ MostTries' = MostTries /\ States' = States
           /\ kind' = kind /\ policy' = policy /\ (Asked => Asked')
BY DEF Calls, MostTries, States, Asked

\* What a state holds under a call of its own kind is a height, a flag, or nothing.
LEMMA StoredFacts ==
    ASSUME Asked, NEW i \in 1 .. Len(Calls), NEW now \in States
    PROVE  Stored(Calls[i], now) \in Found
<1>1. {0, 1} \subseteq Found /\ Heights \subseteq Found
  BY DEF Found
<1>2. CASE kind = "vault"
  <2>1. now.funds \in Heights /\ now.alloc \in Heights /\ now.agent \in Heights
    BY <1>2 DEF States
  <2>2. Calls[i] \in {"package", "contract", "balance", "supply",
                      "allocation", "agent", "paused", "timestamp"}
    BY <1>2, CallsFacts
  <2>. QED  BY <1>1, <2>1, <2>2 DEF Stored
<1>3. CASE kind = "reputation"
  <2>1. now.profile \in Found
    BY <1>3 DEF States
  <2>2. Calls[i] \in {"package", "contract", "profile"}
    BY <1>3, CallsFacts
  <2>. QED  BY <1>1, <2>1, <2>2 DEF Stored
<1>. QED  BY <1>2, <1>3 DEF Asked

\* The latest block is a block, and the blocks below a height stay.
LEMMA HeightFacts ==
    ASSUME Types
    PROVE  /\ Len(blocks) \in Nat /\ Height \in Nat /\ Height \in Heights
           /\ Height + 1 = Len(blocks)
           /\ Latest = blocks[Height + 1] /\ Latest \in States
           /\ 0 .. Height \subseteq Heights
<1>1. Len(blocks) \in 1 .. MaxHeight + 1 /\ blocks \in Seq(States) /\ MaxHeight \in Nat
  BY RpcAssumption DEF Types
<1>2. blocks[Len(blocks)] \in States
  BY <1>1, ElementOfSeq
<1>. QED  BY <1>1, <1>2 DEF Height, Latest, Heights

BlocksStay ==
    /\ UNCHANGED <<kind, policy>>
    /\ Len(blocks) \in Nat /\ Len(blocks') \in Nat
    /\ Len(blocks) <= Len(blocks')
    /\ \A h \in 1 .. Len(blocks) : blocks'[h] = blocks[h]

LEMMA TruthStays ==
    ASSUME BlocksStay, NEW found, NEW moments, NEW ways, NEW start,
           Truth(found, moments, ways, start)
    PROVE  Truth(found, moments, ways, start)'
<1>1. /\ Height \in Int /\ Height' \in Int /\ Height <= Height'
      /\ \A h \in 0 .. Height : h \in 0 .. Height' /\ h + 1 \in 1 .. Len(blocks)
  BY DEF BlocksStay, Height
<1>2. \A h \in 0 .. Height : blocks'[h + 1] = blocks[h + 1]
  BY <1>1 DEF BlocksStay
<1>. QED  BY <1>1, <1>2, SameRead DEF Truth, MayStand, BlocksStay

\* The truth goes on with the next answer.
LEMMA TruthGrows ==
    ASSUME Types, step > 0, NEW value, NEW way, Told(value, way),
           Len(got) = step - 1, Truth(got, at, how, from)
    PROVE  /\ Append(got, value) \in Seq(Found) /\ Append(at, Height) \in Seq(Heights)
           /\ Append(how, way) \in Seq(Ways)
           /\ Len(Append(got, value)) = step
           /\ Truth(Append(got, value), Append(at, Height), Append(how, way), from)
<1>. DEFINE g == Append(got, value)
            a == Append(at, Height)
            w == Append(how, way)
<1>1. /\ step \in 1 .. Len(Calls) /\ step \in Nat /\ at \in Seq(Heights) /\ got \in Seq(Found)
      /\ how \in Seq(Ways) /\ from \in 0 .. Height
  BY CallsFacts DEF Types
<1>2. /\ Height \in Nat /\ Height \in Heights /\ Latest \in States
      /\ Latest = blocks[Height + 1]
  BY HeightFacts
<1>3. value \in Found /\ way \in Ways
  <2>1. Stored(Calls[step], Latest) \in Found
    BY <1>1, <1>2, StoredFacts DEF Types
  <2>. QED  BY <2>1 DEF Told, MayStand, Ways, Errors, Found
<1>4. Len(at) = step - 1 /\ Len(got) = step - 1 /\ Len(how) = step - 1
  BY DEF Truth
<1>5. /\ g \in Seq(Found) /\ Len(g) = step
      /\ \A i \in 1 .. step - 1 : g[i] = got[i]
      /\ g[step] = value
  BY <1>1, <1>3, <1>4, AppendProperties
<1>6. /\ a \in Seq(Heights) /\ Len(a) = step
      /\ \A i \in 1 .. step - 1 : a[i] = at[i]
      /\ a[step] = Height
  BY <1>1, <1>2, <1>4, AppendProperties
<1>7. /\ w \in Seq(Ways) /\ Len(w) = step
      /\ \A i \in 1 .. step - 1 : w[i] = how[i]
      /\ w[step] = way
  BY <1>1, <1>3, <1>4, AppendProperties
<1>. HIDE DEF g, a, w
<1>8. ASSUME NEW i \in 1 .. step
      PROVE  /\ a[i] \in 0 .. Height
             /\ from <= a[i]
             /\ i > 1 => a[i - 1] <= a[i]
             /\ \/ w[i] = "read" /\ g[i] = Stored(Calls[i], blocks[a[i] + 1])
                \/ MayStand(i, w[i]) /\ g[i] = Absent
  <2>1. CASE i = step
    <3>1. i > 1 => i - 1 \in 1 .. step - 1
      BY <1>1, <2>1
    <3>2. i > 1 => a[i - 1] \in 0 .. Height
      BY <1>4, <1>6, <3>1 DEF Truth
    <3>. QED  BY <1>1, <1>2, <1>5, <1>6, <1>7, <2>1, <3>2 DEF Told
  <2>2. CASE i # step
    <3>1. i \in 1 .. step - 1 /\ (i > 1 => i - 1 \in 1 .. step - 1)
      BY <1>1, <2>2
    <3>. QED  BY <1>4, <1>5, <1>6, <1>7, <3>1 DEF Truth
  <2>. QED  BY <2>1, <2>2
<1>9. Truth(g, a, w, from)
  BY <1>5, <1>6, <1>7, <1>8 DEF Truth
<1>. QED  BY <1>5, <1>6, <1>7, <1>9 DEF g, a, w

\* Results that are true stay true, and the placeholder and the REST API's answer say
\* nothing that was read.
LEMMA ResultsStay ==
    ASSUME IInv, BlocksStay, NEW value, TrueResult(value)
    PROVE  TrueResult(value)'
BY TruthStays, SameRead DEF TrueResult, BlocksStay

LEMMA OtherResults ==
    /\ Rest \in Results /\ Rest.source = "rest"
    /\ Placeholder \in Results /\ Placeholder.source = "placeholder"
    /\ NoResult \in Results /\ NoResult.source = "none"
<1>1. 0 \in Heights
  BY RpcAssumption DEF Heights
<1>2. << >> \in Seq(Found) /\ << >> \in Seq(Heights) /\ << >> \in Seq(Ways)
  OBVIOUS
<1>. QED  BY <1>1, <1>2 DEF Rest, Placeholder, NoResult, Results

LEMMA SameBlocksStay ==
    ASSUME UNCHANGED <<kind, policy>>, Types, UNCHANGED blocks
    PROVE  BlocksStay /\ Height' = Height
BY HeightFacts DEF BlocksStay, Height

-----------------------------------------------------------------------------
(* The steps of a read.                                                    *)

LEMMA NewBlockKeepsInvariant ==
    ASSUME UNCHANGED <<kind, policy>>, IInv, NewBlock
    PROVE  IInv'
<1>1. Types /\ blocks \in Seq(States) /\ UNCHANGED <<read, client>>
  BY DEF IInv, Types, NewBlock
<1>2. /\ Len(blocks) \in Nat /\ Height \in Nat /\ Height + 1 = Len(blocks)
      /\ Latest \in States /\ MaxHeight \in Nat
  BY <1>1, HeightFacts, RpcAssumption
<1>3. Height + 1 \in Heights /\ Height < MaxHeight
  BY <1>2 DEF NewBlock, Heights
<1>4. PICK now \in Blocks(Height + 1) : blocks' = Append(blocks, now)
  BY DEF NewBlock
<1>5. now \in States
  <2>1. CASE kind = "vault"
    BY <1>2, <1>3, <1>4, <2>1 DEF Blocks, States
  <2>2. CASE kind # "vault"
    BY <1>2, <1>3, <1>4, <2>2 DEF Blocks, States, Found
  <2>. QED  BY <2>1, <2>2
<1>6. /\ blocks' \in Seq(States) /\ Len(blocks') = Len(blocks) + 1
      /\ \A h \in 1 .. Len(blocks) : blocks'[h] = blocks[h]
  BY <1>1, <1>4, <1>5, AppendProperties
<1>7. BlocksStay
  BY <1>2, <1>6 DEF BlocksStay
<1>8. /\ step' = step /\ inner' = inner /\ outer' = outer /\ from' = from /\ at' = at
      /\ got' = got /\ how' = how /\ sent' = sent /\ limitedAt' = limitedAt /\ stage' = stage
      /\ failedBy' = failedBy /\ result' = result /\ cache' = cache
      /\ perceiveRateLimited' = perceiveRateLimited
  BY <1>1 DEF read, client
<1>9. Types'
  <2>1. Len(blocks') \in 1 .. MaxHeight + 1 /\ from' \in 0 .. Height'
    BY <1>1, <1>2, <1>3, <1>6, <1>8 DEF Types, Height
  <2>. QED  BY <1>1, <1>6, <1>8, <2>1, SameRead DEF Types
<1>10. TrueSoFar'
  BY <1>7, <1>8, TruthStays DEF IInv, TrueSoFar
<1>11. ResultsAreTrue'
  BY <1>7, <1>8, ResultsStay DEF IInv, ResultsAreTrue
<1>12. RequestsAreFailures'
  BY <1>8, SameRead DEF IInv, RequestsAreFailures, Nested
<1>. QED  BY <1>8, <1>9, <1>10, <1>11, <1>12 DEF IInv, CacheHoldsOne, LimitIsLast

\* A step that leaves blocks and answers alone.
LEMMA ClientStepKeepsInvariant ==
    ASSUME UNCHANGED <<kind, policy>>, IInv, UNCHANGED blocks, Types', TrueSoFar',
           result' \in {result, Rest, Placeholder} \cup cache,
           cache' \subseteq cache \cup {Rest},
           CacheHoldsOne', RequestsAreFailures', LimitIsLast'
    PROVE  IInv'
<1>1. BlocksStay
  BY SameBlocksStay DEF IInv
<1>2. ASSUME NEW value, value \in {result, Rest, Placeholder} \cup cache
      PROVE  TrueResult(value)'
  <2>1. TrueResult(value)
    BY <1>2, OtherResults DEF IInv, ResultsAreTrue, TrueResult
  <2>. QED  BY <1>1, <2>1, ResultsStay
<1>3. \A value \in cache' : TrueResult(value)' /\ value.source \in {"rpc", "rest"}
  BY <1>2, OtherResults DEF IInv, ResultsAreTrue
<1>4. TrueResult(result)'
  <2>1. PICK value \in {result, Rest, Placeholder} \cup cache : result' = value
    OBVIOUS
  <2>2. TrueResult(value)'
    BY <1>2
  <2>. QED  BY <2>1, <2>2 DEF TrueResult
<1>5. ResultsAreTrue'
  BY <1>3, <1>4 DEF ResultsAreTrue
<1>. QED  BY <1>5 DEF IInv

LEMMA MostTriesFacts ==
    ASSUME Asked
    PROVE  MostTries \in Nat \ {0} /\ 0 \in 0 .. MostTries - 1
BY RpcAssumption DEF MostTries, Asked

LEMMA BeginKeepsInvariant ==
    ASSUME UNCHANGED <<kind, policy>>, IInv, Begin
    PROVE  IInv'
<1>1. Types /\ stage = "idle" /\ UNCHANGED <<blocks, perceiveRateLimited>>
  BY DEF IInv, Types, Begin
<1>2. Height' = Height /\ Height \in Nat
  BY <1>1, SameBlocksStay, HeightFacts
<1>3. CASE (\E value \in cache : Return(value, FALSE)) /\ UNCHANGED <<read, failedBy>>
  <2>1. PICK value \in cache : Return(value, FALSE)
    BY <1>3
  <2>2. /\ stage' = "idle" /\ result' = value /\ cache' = cache
        /\ step' = step /\ inner' = inner /\ outer' = outer /\ from' = from /\ at' = at
        /\ got' = got /\ how' = how /\ sent' = sent /\ limitedAt' = limitedAt
        /\ failedBy' = failedBy
    BY <1>3, <2>1 DEF Return, read
  <2>3. Types'
    BY <1>1, <1>2, <2>1, <2>2, SameRead DEF Types
  <2>4. TrueSoFar' /\ RequestsAreFailures'
    BY <1>1, <2>2 DEF Types, TrueSoFar, RequestsAreFailures
  <2>5. CacheHoldsOne' /\ LimitIsLast'
    BY <2>1, <2>2 DEF IInv, CacheHoldsOne, LimitIsLast
  <2>. QED  BY <1>1, <2>1, <2>2, <2>3, <2>4, <2>5, ClientStepKeepsInvariant
<1>4. CASE /\ cache = {} /\ stage' = "rpc" /\ step' = 1 /\ from' = Height
           /\ inner' = 0 /\ outer' = 0 /\ sent' = 0 /\ limitedAt' = 0
           /\ at' = << >> /\ got' = << >> /\ how' = << >>
           /\ failedBy' = NoFailure
           /\ UNCHANGED <<result, cache>>
  <2>1. Types'
    <3>1. 1 \in 0 .. Len(Calls) /\ NoFailure.err = "none"
      BY <1>1, CallsFacts DEF NoFailure, Types
    <3>. QED  BY <1>1, <1>2, <1>4, <3>1, MostTriesFacts, SameRead DEF Types
  <2>2. TrueSoFar'
    BY <1>4 DEF TrueSoFar, Truth
  <2>3. CacheHoldsOne' /\ LimitIsLast' /\ RequestsAreFailures'
    BY <1>1, <1>4, MostTriesFacts, SameRead DEF Types, CacheHoldsOne, LimitIsLast, RequestsAreFailures
  <2>. QED  BY <1>1, <1>4, <2>1, <2>2, <2>3, ClientStepKeepsInvariant
<1>. QED  BY <1>3, <1>4 DEF Begin

\* The answer to a call is what the contract stores now, or a default that may stand.
LEMMA AnsweredKeepsInvariant ==
    ASSUME UNCHANGED <<kind, policy>>, IInv, UNCHANGED blocks, step > 0,
           NEW value, NEW way, Told(value, way), Answered(value, way),
           limitedAt' \in Nat, policy = "fast-fail" => limitedAt' = 0
    PROVE  IInv'
<1>1. /\ Types /\ Len(got) = step - 1 /\ Truth(got, at, how, from) /\ stage = "rpc"
      /\ cache = {} /\ from \in 0 .. Height /\ step \in 0 .. Len(Calls)
  BY DEF IInv, Types, TrueSoFar, CacheHoldsOne
<1>2. BlocksStay /\ Height' = Height /\ 0 .. Height \subseteq Heights
  BY <1>1, SameBlocksStay, HeightFacts
<1>3. /\ got' = Append(got, value) /\ at' = Append(at, Height)
      /\ how' = Append(how, way)
      /\ inner' = 0 /\ outer' = 0 /\ sent' = 0
      /\ from' = from /\ failedBy' = failedBy
      /\ perceiveRateLimited' = perceiveRateLimited
  BY DEF Answered
<1>4. PICK g, a, w, f : g = got' /\ a = at' /\ w = how' /\ f = from
  OBVIOUS
<1>5. /\ g \in Seq(Found) /\ a \in Seq(Heights) /\ w \in Seq(Ways)
      /\ Len(g) = step /\ Truth(g, a, w, f)
  BY <1>1, <1>3, <1>4, TruthGrows
<1>6. Truth(g, a, w, f)'
  BY <1>2, <1>5, TruthStays
<1>7. CASE step < Len(Calls) /\ step' = step + 1 /\ UNCHANGED <<stage, result, cache>>
  <2>1. Types'
    <3>1. step' \in 0 .. Len(Calls) /\ step' > 0
      BY <1>1, <1>7, CallsFacts
    <3>. QED  BY <1>1, <1>2, <1>3, <1>4, <1>5, <1>7, <3>1, MostTriesFacts, SameRead DEF Types
  <2>2. TrueSoFar'
    BY <1>1, <1>3, <1>4, <1>5, <1>6, <1>7 DEF TrueSoFar, Truth
  <2>3. CacheHoldsOne' /\ LimitIsLast' /\ RequestsAreFailures'
    BY <1>1, <1>3, <1>7, MostTriesFacts, SameRead
       DEF IInv, Types, CacheHoldsOne, LimitIsLast, RequestsAreFailures
  <2>. QED  BY <1>7, <2>1, <2>2, <2>3, ClientStepKeepsInvariant
<1>8. CASE step = Len(Calls) /\ step' = 0 /\ Complete(got', how', at')
  <2>1. CASE stage' = "rest" /\ UNCHANGED <<result, cache>>
    <3>1. Types'
      BY <1>1, <1>2, <1>3, <1>4, <1>5, <1>8, <2>1, MostTriesFacts, CallsFacts, SameRead DEF Types
    <3>2. TrueSoFar' /\ RequestsAreFailures' /\ CacheHoldsOne' /\ LimitIsLast'
      BY <1>1, <1>8, <2>1 DEF IInv, TrueSoFar, RequestsAreFailures, CacheHoldsOne, LimitIsLast
    <3>. QED  BY <2>1, <3>1, <3>2, ClientStepKeepsInvariant
  <2>2. CASE Return([source |-> "rpc", fields |-> got', how |-> how', at |-> at',
                     from |-> from], TRUE)
    <3>. DEFINE whole == [source |-> "rpc", fields |-> g, how |-> w, at |-> a, from |-> f]
    <3>1. stage' = "idle" /\ result' = whole /\ cache' = {whole}
      BY <1>4, <2>2 DEF Return
    <3>2. /\ whole \in Results /\ whole.source = "rpc" /\ whole.fields = g /\ whole.at = a
          /\ whole.how = w /\ whole.from = f
      BY <1>1, <1>2, <1>4, <1>5 DEF Results
    <3>. HIDE DEF whole
    <3>3. Types'
      BY <1>1, <1>2, <1>3, <1>4, <1>5, <1>8, <3>1, <3>2, MostTriesFacts, CallsFacts, SameRead DEF Types
    <3>4. TrueSoFar' /\ RequestsAreFailures' /\ CacheHoldsOne' /\ LimitIsLast'
      BY <1>1, <1>8, <3>1 DEF TrueSoFar, RequestsAreFailures, CacheHoldsOne, LimitIsLast
    <3>5. ResultsAreTrue'
      <4>1. Truth(result.fields, result.at, result.how, result.from)'
        BY <1>3, <1>6, <3>1, <3>2 DEF Truth, MayStand
      <4>2. TrueResult(result)'
        BY <1>5, <1>8, <3>1, <3>2, <4>1, SameRead DEF TrueResult
      <4>3. \A v \in cache' : v = result'
        BY <3>1
      <4>. QED  BY <3>1, <3>2, <4>2, <4>3 DEF ResultsAreTrue, TrueResult, Truth
    <3>. QED  BY <3>3, <3>4, <3>5 DEF IInv
  <2>. QED  BY <1>8, <2>1, <2>2 DEF Complete
<1>. QED  BY <1>7, <1>8 DEF Answered

\* A read that fails goes to the REST API, unless the node has had enough of it.
LEMMA ReadFailsKeepsInvariant ==
    ASSUME UNCHANGED <<kind, policy>>, IInv, UNCHANGED blocks, step > 0,
           NEW err \in Errors, ReadFails(err),
           limitedAt' \in Nat,
           policy = "fast-fail" => limitedAt' = IF err = "429" THEN 1 ELSE 0
    PROVE  IInv'
<1>1. Types /\ stage = "rpc" /\ cache = {} /\ step \in 0 .. Len(Calls)
  BY DEF IInv, Types, CacheHoldsOne
<1>2. /\ step' = 0 /\ inner' = 0 /\ outer' = 0 /\ sent' = 0
      /\ failedBy' = [err |-> err, call |-> Calls[step]]
      /\ from' = from /\ at' = at /\ got' = got /\ how' = how
  BY DEF ReadFails
<1>3. Height' = Height /\ failedBy'.err = err
  BY <1>1, <1>2, SameBlocksStay
<1>4. /\ stage' \in {"idle", "rest"} /\ result' \in {result, Placeholder} /\ cache' = {}
      /\ perceiveRateLimited' \in BOOLEAN
      /\ err = "429" => stage' = "idle" /\ result' = Placeholder
  BY <1>1 DEF ReadFails, Return, Types
<1>5. Types'
  BY <1>1, <1>2, <1>3, <1>4, OtherResults, MostTriesFacts, CallsFacts, SameRead DEF Types
<1>6. TrueSoFar' /\ RequestsAreFailures' /\ CacheHoldsOne' /\ LimitIsLast'
  BY <1>2, <1>4 DEF TrueSoFar, RequestsAreFailures, CacheHoldsOne, LimitIsLast
<1>. QED  BY <1>4, <1>5, <1>6, ClientStepKeepsInvariant

LEMMA RequestFacts ==
    ASSUME IInv, step > 0
    PROVE  /\ Types /\ stage = "rpc" /\ step \in 1 .. Len(Calls)
           /\ limitedAt \in Nat /\ sent \in Nat /\ MostTries \in Nat \ {0}
           /\ inner \in Nat /\ outer \in Nat /\ inner < MostTries /\ outer < MostTries
           /\ policy = "fast-fail" => limitedAt = 0
<1>1. /\ Types /\ stage = "rpc" /\ step \in 1 .. Len(Calls) /\ limitedAt \in Nat /\ sent \in Nat
  BY CallsFacts DEF IInv, Types
<1>2. MostTries \in Nat \ {0}
  BY <1>1, MostTriesFacts DEF Types
<1>3. inner \in 0 .. MostTries - 1 /\ outer \in 0 .. MostTries - 1
  BY <1>1 DEF Types
<1>4. policy = "fast-fail" => limitedAt = 0
  BY <1>1 DEF IInv, LimitIsLast
<1>. QED  BY <1>1, <1>2, <1>3, <1>4

\* A step that only counts one more request.
LEMMA RetryKeepsInvariant ==
    ASSUME UNCHANGED <<kind, policy>>, IInv, UNCHANGED blocks, step > 0,
           inner' \in Nat, outer' \in Nat, inner' < MostTries, outer' < MostTries,
           sent' = sent + 1, sent' <= outer' * MostTries + inner', ~Nested => outer' = 0,
           limitedAt' \in Nat, policy = "fast-fail" => limitedAt' = 0,
           UNCHANGED <<step, from, at, got, how, client>>
    PROVE  IInv'
<1>1. Types /\ stage = "rpc" /\ sent \in Nat /\ MostTries \in Nat \ {0}
  BY RequestFacts
<1>2. Height' = Height
  BY <1>1, SameBlocksStay
<1>3. /\ step' = step /\ from' = from /\ at' = at /\ got' = got /\ how' = how /\ stage' = stage
      /\ failedBy' = failedBy /\ result' = result /\ cache' = cache
      /\ perceiveRateLimited' = perceiveRateLimited
  BY DEF client
<1>4. Types'
  <2>1. inner' \in 0 .. MostTries - 1 /\ outer' \in 0 .. MostTries - 1 /\ sent' \in Nat
    BY <1>1
  <2>. QED  BY <1>1, <1>2, <1>3, <2>1, SameRead DEF Types
<1>5. TrueSoFar'
  BY <1>2, <1>3, SameRead DEF IInv, TrueSoFar, Truth, MayStand
<1>6. RequestsAreFailures'
  BY <1>3, SameRead DEF RequestsAreFailures, Nested
<1>7. CacheHoldsOne' /\ LimitIsLast'
  BY <1>1, <1>3, SameRead DEF IInv, CacheHoldsOne, LimitIsLast
<1>. QED  BY <1>3, <1>4, <1>5, <1>6, <1>7, ClientStepKeepsInvariant

LEMMA TriesForFacts ==
    ASSUME Asked, NEW err \in Errors
    PROVE  /\ TriesFor(err) \in Nat /\ TriesFor(err) <= MostTries
           /\ policy = "fast-fail" /\ err = "429" => TriesFor(err) = 1
BY RpcAssumption DEF TriesFor, MostTries, Asked

\* A call that throws is tried again around the inner loop, and never after a 429 under
\* fast-fail; or it ends.
LEMMA ThrownKeepsInvariant ==
    ASSUME UNCHANGED <<kind, policy>>, IInv, UNCHANGED blocks, step > 0,
           NEW err \in Errors, Thrown(err), limitedAt' \in Nat,
           policy = "fast-fail" => limitedAt' = IF err = "429" THEN 1 ELSE 0
    PROVE  IInv'
<1>1. /\ Types /\ sent \in Nat /\ MostTries \in Nat \ {0}
      /\ inner \in Nat /\ outer \in Nat /\ inner < MostTries /\ outer < MostTries
  BY RequestFacts
<1>2. /\ TriesFor(err) \in Nat /\ TriesFor(err) <= MostTries
      /\ policy = "fast-fail" /\ err = "429" => TriesFor(err) = 1
  BY <1>1, TriesForFacts DEF Types
<1>3. CASE /\ Nested /\ outer + 1 < TriesFor(err)
           /\ inner' = 0 /\ outer' = outer + 1 /\ sent' = sent + 1
           /\ UNCHANGED <<step, from, at, got, how, client>>
  <2>1. outer' < MostTries /\ inner' < MostTries /\ ~(policy = "fast-fail" /\ err = "429")
    BY <1>1, <1>2, <1>3
  <2>2. sent <= outer * MostTries + inner
    BY DEF IInv, RequestsAreFailures
  <2>3. (outer + 1) * MostTries = outer * MostTries + MostTries /\ outer * MostTries \in Nat
    BY <1>1
  <2>4. sent' <= outer' * MostTries + inner'
    BY <1>1, <1>3, <2>2, <2>3
  <2>. QED  BY <1>1, <1>3, <2>1, <2>4, RetryKeepsInvariant
<1>4. CASE GiveUpCall(err)
  <2>1. CASE Calls[step] \in StateFields /\ err = "notFound" /\ Answered(Absent, err)
    <3>1. Told(Absent, err)
      BY <2>1 DEF Told, MayStand
    <3>. QED  BY <2>1, <3>1, AnsweredKeepsInvariant
  <2>2. CASE ReadFails(err)
    BY <2>2, ReadFailsKeepsInvariant
  <2>. QED  BY <1>4, <2>1, <2>2 DEF GiveUpCall
<1>. QED  BY <1>3, <1>4 DEF Thrown

\* A failed attempt is tried again within the policy, and never after a 429 under
\* fast-fail; or the call throws.
LEMMA FailKeepsInvariant ==
    ASSUME UNCHANGED <<kind, policy>>, IInv, UNCHANGED blocks, step > 0,
           NEW err \in Errors, Fail(err),
           limitedAt' = IF err = "429" \/ limitedAt > 0 THEN limitedAt + 1 ELSE 0
    PROVE  IInv'
<1>1. /\ Types /\ sent \in Nat /\ MostTries \in Nat \ {0} /\ limitedAt \in Nat
      /\ inner \in Nat /\ outer \in Nat /\ inner < MostTries /\ outer < MostTries
      /\ policy = "fast-fail" => limitedAt = 0
  BY RequestFacts
<1>2. /\ TriesFor(err) \in Nat /\ TriesFor(err) <= MostTries
      /\ policy = "fast-fail" /\ err = "429" => TriesFor(err) = 1
  BY <1>1, TriesForFacts DEF Types
<1>3. /\ limitedAt' \in Nat
      /\ policy = "fast-fail" => limitedAt' = IF err = "429" THEN 1 ELSE 0
  BY <1>1
<1>4. CASE /\ inner + 1 < TriesFor(err)
           /\ inner' = inner + 1 /\ sent' = sent + 1
           /\ UNCHANGED <<step, outer, from, at, got, how, client>>
  <2>1. /\ inner' < MostTries /\ ~(policy = "fast-fail" /\ err = "429") /\ outer' = outer
    BY <1>1, <1>2, <1>4
  <2>2. sent <= outer * MostTries + inner /\ (~Nested => outer = 0)
    BY DEF IInv, RequestsAreFailures
  <2>3. outer * MostTries \in Nat
    BY <1>1
  <2>4. sent' <= outer' * MostTries + inner'
    BY <1>1, <1>4, <2>1, <2>2, <2>3
  <2>. QED  BY <1>1, <1>3, <1>4, <2>1, <2>2, <2>4, RetryKeepsInvariant
<1>5. CASE Thrown(err)
  BY <1>3, <1>5, ThrownKeepsInvariant
<1>. QED  BY <1>4, <1>5 DEF Fail

LEMMA RequestKeepsInvariant ==
    ASSUME UNCHANGED <<kind, policy>>, IInv, Request
    PROVE  IInv'
<1>1. /\ step > 0 /\ UNCHANGED blocks /\ limitedAt \in Nat
      /\ policy = "fast-fail" => limitedAt = 0
  BY RequestFacts DEF Request
<1>2. CASE /\ \/ Answered(Stored(Calls[step], Latest), "read")
              \/ Empty
           /\ limitedAt' = limitedAt + (IF limitedAt > 0 THEN 1 ELSE 0)
  <2>1. limitedAt' \in Nat /\ (policy = "fast-fail" => limitedAt' = 0)
    BY <1>1, <1>2
  <2>2. CASE Answered(Stored(Calls[step], Latest), "read")
    <3>1. Told(Stored(Calls[step], Latest), "read")
      BY DEF Told
    <3>. QED  BY <1>1, <2>1, <2>2, <3>1, AnsweredKeepsInvariant
  <2>3. CASE Thrown("error")
    <3>1. "error" \in Errors
      BY DEF Errors
    <3>. QED  BY <1>1, <2>1, <2>3, <3>1, ThrownKeepsInvariant
  <2>4. CASE Answered(Absent, "empty")
    <3>1. Told(Absent, "empty")
      BY DEF Told, MayStand
    <3>. QED  BY <1>1, <2>1, <2>4, <3>1, AnsweredKeepsInvariant
  <2>. QED  BY <1>2, <2>2, <2>3, <2>4 DEF Empty
<1>3. ASSUME NEW err \in Errors, Fail(err),
             limitedAt' = IF err = "429" \/ limitedAt > 0 THEN limitedAt + 1 ELSE 0
      PROVE  IInv'
  BY <1>1, <1>3, FailKeepsInvariant
<1>. QED  BY <1>2, <1>3 DEF Request

-----------------------------------------------------------------------------
(* The steps around it.                                                    *)

LEMMA RestAnswerKeepsInvariant ==
    ASSUME UNCHANGED <<kind, policy>>, IInv, RestAnswer
    PROVE  IInv'
<1>1. /\ Types /\ stage = "rest" /\ cache = {}
      /\ UNCHANGED <<blocks, read, failedBy, perceiveRateLimited>>
  BY DEF IInv, Types, CacheHoldsOne, RestAnswer
<1>2. /\ step' = step /\ inner' = inner /\ outer' = outer /\ from' = from /\ at' = at
      /\ got' = got /\ how' = how /\ sent' = sent /\ limitedAt' = limitedAt /\ step = 0
  BY <1>1, CallsFacts DEF read, Types
<1>3. /\ stage' = "idle" /\ result' \in {Rest, Placeholder} /\ cache' \subseteq {Rest}
  BY <1>1 DEF RestAnswer, Return
<1>4. Types'
  <2>1. Height' = Height
    BY <1>1, SameBlocksStay
  <2>. QED  BY <1>1, <1>2, <1>3, <2>1, OtherResults, CallsFacts, SameRead DEF Types
<1>5. TrueSoFar' /\ RequestsAreFailures' /\ CacheHoldsOne'
  BY <1>2, <1>3 DEF TrueSoFar, RequestsAreFailures, CacheHoldsOne
<1>6. LimitIsLast'
  BY <1>1, <1>2 DEF IInv, LimitIsLast
<1>. QED  BY <1>1, <1>3, <1>4, <1>5, <1>6, ClientStepKeepsInvariant

LEMMA CacheExpiresKeepsInvariant ==
    ASSUME UNCHANGED <<kind, policy>>, IInv,
           CacheExpires \/ ConsumeFlag \/ UNCHANGED vars
    PROVE  IInv'
<1>1. /\ Types /\ step' = step /\ inner' = inner /\ outer' = outer /\ from' = from
      /\ at' = at /\ got' = got /\ how' = how /\ sent' = sent /\ limitedAt' = limitedAt
      /\ blocks' = blocks /\ stage' = stage /\ failedBy' = failedBy /\ result' = result
      /\ cache' \subseteq cache /\ perceiveRateLimited' \in BOOLEAN
  BY DEF IInv, Types, CacheExpires, ConsumeFlag, read, client, vars
<1>2. Height' = Height
  BY <1>1, SameBlocksStay
<1>3. Types'
  BY <1>1, <1>2, SameRead DEF Types
<1>4. TrueSoFar' /\ CacheHoldsOne' /\ LimitIsLast'
  BY <1>1, <1>2, SameRead DEF IInv, TrueSoFar, Truth, MayStand, CacheHoldsOne, LimitIsLast
<1>5. RequestsAreFailures'
  BY <1>1, SameRead DEF IInv, RequestsAreFailures, Nested
<1>. QED  BY <1>1, <1>3, <1>4, <1>5, ClientStepKeepsInvariant

-----------------------------------------------------------------------------
(* Theorems.                                                               *)

LEMMA InitInvariant ==
    ASSUME Init
    PROVE  IInv
<1>0. Asked
  BY DEF Init, Asked
<1>1. /\ step = 0 /\ inner = 0 /\ outer = 0 /\ from = 0 /\ at = << >> /\ got = << >>
      /\ how = << >> /\ sent = 0 /\ limitedAt = 0 /\ stage = "idle" /\ failedBy = NoFailure
      /\ result = NoResult /\ cache = {} /\ perceiveRateLimited = FALSE
      /\ blocks = << IF kind = "vault" THEN FreshVault ELSE FreshProfile >>
  BY DEF Init
<1>2. blocks \in Seq(States) /\ Len(blocks) = 1 /\ MaxHeight \in Nat
  <2>1. (IF kind = "vault" THEN FreshVault ELSE FreshProfile) \in States
    <3>1. 0 \in Heights /\ Absent \in Found
      BY RpcAssumption DEF Heights, Found
    <3>2. CASE kind = "vault"
      <4>1. FreshVault \in [funds : Heights, alloc : Heights, agent : Heights, paused : BOOLEAN]
        BY <3>1 DEF FreshVault
      <4>. QED  BY <3>2, <4>1 DEF States
    <3>3. CASE kind # "vault"
      <4>1. FreshProfile \in [profile : Found]
        BY <3>1 DEF FreshProfile
      <4>. QED  BY <3>3, <4>1 DEF States
    <3>. QED  BY <3>2, <3>3
  <2>. QED  BY <1>1, <2>1, RpcAssumption
<1>3. Types
  <2>1. << >> \in Seq(Heights) /\ << >> \in Seq(Found) /\ NoFailure.err = "none"
    BY DEF NoFailure
  <2>2. Len(blocks) \in 1 .. MaxHeight + 1 /\ from \in 0 .. Height
    BY <1>1, <1>2 DEF Height
  <2>3. /\ step \in 0 .. Len(Calls) /\ inner \in 0 .. MostTries - 1
        /\ outer \in 0 .. MostTries - 1
    BY <1>1, <1>0, CallsFacts, MostTriesFacts
  <2>4. result \in Results /\ cache \subseteq Results /\ failedBy.err = "none"
    <3>1. result = NoResult /\ cache = {} /\ failedBy = NoFailure
      BY <1>1
    <3>. QED  BY <2>1, <3>1, OtherResults
  <2>5. at \in Seq(Heights) /\ got \in Seq(Found) /\ how \in Seq(Ways)
    <3>1. at = << >> /\ got = << >> /\ how = << >>
      BY <1>1
    <3>2. << >> \in Seq(Ways)
      OBVIOUS
    <3>. QED  BY <2>1, <3>1, <3>2
  <2>6. /\ stage \in {"idle", "rpc", "rest"} /\ (stage = "rpc" <=> step > 0)
        /\ sent \in Nat /\ limitedAt \in Nat /\ (step > 0 => failedBy = NoFailure)
    BY <1>1
  <2>7. perceiveRateLimited \in BOOLEAN
    BY <1>1
  <2>. QED  BY <1>0, <1>2, <2>2, <2>3, <2>4, <2>5, <2>6, <2>7 DEF Types
<1>4. ResultsAreTrue
  BY <1>1, OtherResults DEF ResultsAreTrue, TrueResult
<1>. QED  BY <1>1, <1>3, <1>4 DEF IInv, TrueSoFar, CacheHoldsOne, RequestsAreFailures, LimitIsLast

LEMMA StepKeepsInvariant ==
    ASSUME IInv, [Next]_vars
    PROVE  IInv'
<1>1. UNCHANGED <<kind, policy>>
  BY DEF Next, vars
<1>. QED  BY <1>1, NewBlockKeepsInvariant, BeginKeepsInvariant, RequestKeepsInvariant,
             RestAnswerKeepsInvariant, CacheExpiresKeepsInvariant DEF Next

\* The invariant holds through every interleaving of blocks, answers and failures.
THEOREM Invariant == Spec => []IInv
<1>1. Init => IInv
  BY InitInvariant
<1>2. IInv /\ [Next]_vars => IInv'
  BY StepKeepsInvariant
<1>. QED  BY <1>1, <1>2, PTL DEF Spec

LEMMA InvariantImpliesTypeOK ==
    ASSUME IInv
    PROVE  TypeOK
<1>1. Types /\ from \in Heights
  BY HeightFacts DEF IInv, Types
<1>2. Cardinality(cache) <= 1
  <2>1. CASE cache = {}
    BY <2>1, FS_EmptySet
  <2>2. CASE cache # {}
    <3>1. PICK value \in cache : TRUE
      BY <2>2
    <3>2. cache = {value}
      BY <3>1 DEF IInv, CacheHoldsOne
    <3>3. Cardinality({value}) = 1
      BY FS_Singleton
    <3>. QED  BY <3>2, <3>3
  <2>. QED  BY <2>1, <2>2
<1>. QED  BY <1>1, <1>2 DEF Types, TypeOK

LEMMA InvariantImpliesFieldsWereTrue ==
    ASSUME IInv
    PROVE  FieldsWereTrue
<1>. SUFFICES ASSUME result.source = "rpc", NEW i \in DOMAIN result.fields
              PROVE  /\ \/ /\ result.how[i] = "read"
                           /\ result.fields[i] = Stored(Calls[i], blocks[result.at[i] + 1])
                        \/ MayStand(i, result.how[i]) /\ result.fields[i] = Absent
                     /\ result.at[i] >= IF i = 1 THEN result.from ELSE result.at[i - 1]
  BY DEF FieldsWereTrue
<1>1. result.fields \in Seq(Found) /\ i \in 1 .. Len(result.fields)
  BY DEF IInv, Types, Results
<1>2. Truth(result.fields, result.at, result.how, result.from)
  BY DEF IInv, ResultsAreTrue, TrueResult
<1>3. Height \in Nat
  BY HeightFacts DEF IInv
<1>4. i > 1 => i - 1 \in 1 .. Len(result.fields)
  BY <1>1
<1>5. /\ \/ /\ result.how[i] = "read"
            /\ result.fields[i] = Stored(Calls[i], blocks[result.at[i] + 1])
         \/ MayStand(i, result.how[i]) /\ result.fields[i] = Absent
      /\ result.from <= result.at[i]
  BY <1>1, <1>2 DEF Truth
<1>6. result.at[i] \in Int
  BY <1>1, <1>2, <1>3 DEF Truth
<1>7. result.from \in Int
  BY DEF IInv, Types, Results, Heights
<1>8. CASE i = 1
  BY <1>5, <1>6, <1>7, <1>8
<1>9. CASE i > 1
  <2>1. i - 1 \in 1 .. Len(result.fields) /\ i # 1
    BY <1>1, <1>4, <1>9
  <2>2. result.at[i - 1] \in Int
    BY <1>2, <1>3, <2>1 DEF Truth
  <2>3. result.at[i - 1] <= result.at[i]
    BY <1>1, <1>2, <1>9 DEF Truth
  <2>. QED  BY <1>5, <1>6, <2>1, <2>2, <2>3
<1>10. i = 1 \/ i > 1
  BY <1>1
<1>. QED  BY <1>8, <1>9, <1>10

LEMMA InvariantImpliesPauseNoticed ==
    ASSUME IInv
    PROVE  PauseNoticed
<1>. SUFFICES ASSUME kind = "vault", result.source = "rpc",
                     ~(result.fields[7] = Absent /\ MayStand(7, result.how[7]))
              PROVE  \/ result.fields[7] = 1
                     \/ \E h \in result.from .. result.at[7] : ~blocks[h + 1].paused
  BY DEF PauseNoticed
<1>1. /\ Len(result.fields) = 8 /\ Calls[7] = "paused"
      /\ Truth(result.fields, result.at, result.how, result.from) /\ result.from \in Heights
  BY CallsFacts DEF IInv, Types, Results, ResultsAreTrue, TrueResult
<1>2. /\ result.fields[7] = Stored("paused", blocks[result.at[7] + 1])
      /\ result.at[7] \in 0 .. Height /\ result.from <= result.at[7]
  BY <1>1 DEF Truth
<1>3. result.at[7] \in result.from .. result.at[7]
  BY <1>1, <1>2, HeightFacts DEF IInv, Heights
<1>. QED  BY <1>2, <1>3 DEF Stored

\* Whatever blocks land between its calls and however often they fail, are taken for
\* missing items or hold nothing, every field a read returns was stored in the contract,
\* in the order of the calls and since the read began, or is the default for an answer
\* without a value or for a missing item; so a pause that lasts is noticed unless its own
\* call was answered so (casper-rpc-read.ts:245-280, 381-490).
THEOREM ReadsAreTrue == Spec => []ReadIsTrue
<1>1. IInv => ReadIsTrue
  BY InvariantImpliesTypeOK, InvariantImpliesFieldsWereTrue, InvariantImpliesPauseNoticed
     DEF ReadIsTrue
<1>. QED  BY <1>1, Invariant, PTL

\* A loop of m attempts within a loop of m attempts.
LEMMA NestedAttempts ==
    ASSUME NEW m \in Nat \ {0}, NEW i \in Nat, NEW o \in Nat, i < m, o < m
    PROVE  o * m + i < m * m
<1>1. PICK d \in Nat : m = o + 1 + d
  <2>1. m - o - 1 \in Nat /\ m = o + 1 + (m - o - 1)
    OBVIOUS
  <2>. QED  BY <2>1
<1>2. m * m = (o + 1 + d) * m
  BY <1>1
<1>3. (o + 1 + d) * m = o * m + m + d * m
  OBVIOUS
<1>4. d * m \in Nat /\ o * m \in Nat /\ m * m \in Nat
  OBVIOUS
<1>. QED  BY <1>2, <1>3, <1>4

LEMMA InvariantImpliesAttemptsBounded ==
    ASSUME IInv
    PROVE  AttemptsBounded
<1>. SUFFICES ASSUME step > 0
              PROVE  sent < IF Nested THEN MostTries * MostTries ELSE MostTries
  BY DEF AttemptsBounded
<1>1. /\ sent \in Nat /\ MostTries \in Nat \ {0} /\ inner \in Nat /\ outer \in Nat
      /\ inner < MostTries /\ outer < MostTries
  BY RequestFacts
<1>2. sent <= outer * MostTries + inner /\ (~Nested => outer = 0)
  BY DEF IInv, RequestsAreFailures
<1>3. CASE Nested
  <2>1. outer * MostTries + inner < MostTries * MostTries
    BY <1>1, NestedAttempts
  <2>2. outer * MostTries \in Nat /\ MostTries * MostTries \in Nat
    BY <1>1
  <2>. QED  BY <1>1, <1>2, <1>3, <2>1, <2>2
<1>4. CASE ~Nested
  <2>1. outer = 0 /\ 0 * MostTries = 0
    BY <1>1, <1>2, <1>4
  <2>. QED  BY <1>1, <1>2, <1>4, <2>1
<1>. QED  BY <1>3, <1>4

LimitStep ==
    (step > 0 /\ step' = 0 /\ failedBy'.err = "429")
       => perceiveRateLimited' /\ result' = Placeholder

LEMMA NoFailureSoFar ==
    ASSUME IInv, step > 0
    PROVE  failedBy.err = "none"
BY DEF IInv, Types, NoFailure

\* A step that ends a read is its last answer, or its failure.
LEMMA LimitStepHolds ==
    ASSUME IInv, [Next]_vars
    PROVE  LimitStep
<1>. SUFFICES ASSUME step > 0, step' = 0, failedBy'.err = "429"
              PROVE  perceiveRateLimited' /\ result' = Placeholder
  BY DEF LimitStep
<1>1. stage = "rpc" /\ failedBy.err = "none" /\ step \in Nat
  BY NoFailureSoFar, RequestFacts
<1>2. ASSUME UNCHANGED <<step>> \/ UNCHANGED <<failedBy>>
      PROVE  FALSE
  BY <1>1, <1>2
<1>3. ASSUME NEW err, ReadFails(err)
      PROVE  perceiveRateLimited' /\ result' = Placeholder
  <2>1. err = "429"
    BY <1>3 DEF ReadFails
  <2>. QED  BY <1>3, <2>1 DEF ReadFails, Return
<1>4. ASSUME NEW err, GiveUpCall(err)
      PROVE  perceiveRateLimited' /\ result' = Placeholder
  BY <1>2, <1>3, <1>4 DEF GiveUpCall, Answered
<1>5. ASSUME NEW err, Thrown(err)
      PROVE  perceiveRateLimited' /\ result' = Placeholder
  BY <1>2, <1>4, <1>5 DEF Thrown
<1>6. ASSUME NEW err, Fail(err)
      PROVE  perceiveRateLimited' /\ result' = Placeholder
  BY <1>2, <1>5, <1>6 DEF Fail
<1>7. CASE Request
  BY <1>2, <1>5, <1>6, <1>7 DEF Request, Answered, Empty
<1>8. CASE ~Request
  BY <1>1, <1>2, <1>8 DEF Next, NewBlock, Begin, RestAnswer, CacheExpires, ConsumeFlag,
                          read, client, vars
<1>. QED  BY <1>7, <1>8

\* A call sends no more requests than its policy has attempts, and no more than their
\* square where two loops are nested; under fast-fail a 429 is the last answer of a read,
\* which then returns a placeholder; and whichever read a 429 ends raises the flag
\* (casper-rpc-retry.ts:40-78, casper-read-client.ts:140-165).
THEOREM RetriesAreBounded == Spec => RetriesEnd
<1>1. IInv => AttemptsBounded
  BY InvariantImpliesAttemptsBounded
<1>2. IInv => LimitEndsTheRead
  BY DEF IInv, LimitIsLast, LimitEndsTheRead
<1>3. IInv => AttemptsBounded /\ LimitEndsTheRead
  BY <1>1, <1>2
<1>4. IInv /\ [Next]_vars => [LimitStep]_vars
  BY LimitStepHolds
<1>5. Spec => [](AttemptsBounded /\ LimitEndsTheRead)
  BY <1>3, Invariant, PTL
<1>6. Spec => [][LimitStep]_vars
  BY <1>4, Invariant, PTL DEF Spec
<1>7. Spec => LimitIsFlagged
  BY <1>6 DEF LimitIsFlagged, LimitStep
<1>. QED  BY <1>5, <1>7 DEF RetriesEnd

-----------------------------------------------------------------------------
(* The refinement of the abstract read client.                             *)

\* What the abstract client says of the last answer.
AnswerOf(value) == CASE value.source = "none" -> "none"
                     [] value.source = "placeholder" -> "placeholder"
                     [] OTHER -> "read"

LEMMA AnswerFacts ==
    /\ AnswerOf(Rest) = "read" /\ AnswerOf(Placeholder) = "placeholder"
    /\ AnswerOf(NoResult) = "none"
    /\ \A value : value.source \in {"rpc", "rest"} => AnswerOf(value) = "read"
BY OtherResults DEF AnswerOf

\* The steps of the abstract client in terms of this one.
AbstractNext ==
    \/ /\ stage = "idle" /\ cache # {}
       /\ AnswerOf(result)' = "read"
       /\ stage' = "idle" /\ cache' # {} /\ perceiveRateLimited' = perceiveRateLimited
    \/ /\ stage = "idle" /\ cache = {}
       /\ stage' # "idle" /\ cache' = {}
       /\ perceiveRateLimited' = perceiveRateLimited /\ result' = result
    \/ /\ stage # "idle" /\ stage' = "idle" /\ cache' # {}
       /\ AnswerOf(result)' = "read"
       /\ perceiveRateLimited' = perceiveRateLimited
    \/ /\ stage # "idle" /\ stage' = "idle" /\ (cache' # {} <=> cache # {})
       /\ AnswerOf(result)' = "placeholder"
       /\ perceiveRateLimited' \in {perceiveRateLimited, TRUE}
    \/ /\ cache # {} /\ cache' = {} /\ stage' = stage
       /\ perceiveRateLimited' = perceiveRateLimited /\ result' = result
    \/ /\ stage = "idle" /\ perceiveRateLimited /\ perceiveRateLimited' = FALSE
       /\ stage' = stage /\ cache' = cache /\ result' = result

\* A step the abstract client does not see.
Unseen ==
    /\ stage' # "idle" <=> stage # "idle"
    /\ cache' # {} <=> cache # {}
    /\ perceiveRateLimited' = perceiveRateLimited
    /\ result' = result

LEMMA AbstractSteps ==
    ASSUME AbstractNext \/ Unseen
    PROVE  [AsReadClient!Next]_(AsReadClient!vars)
BY DEF AbstractNext, Unseen, AnswerOf, AsReadClient!Next, AsReadClient!vars,
       AsReadClient!FromCache, AsReadClient!Call, AsReadClient!Read, AsReadClient!StandIn,
       AsReadClient!Expire, AsReadClient!Consume

LEMMA BeginIsAbstract ==
    ASSUME IInv, Begin
    PROVE  AbstractNext
<1>1. stage = "idle" /\ perceiveRateLimited' = perceiveRateLimited
  BY DEF Begin
<1>2. CASE \E value \in cache : Return(value, FALSE)
  <2>1. PICK value \in cache : Return(value, FALSE)
    BY <1>2
  <2>2. stage' = "idle" /\ result' = value /\ cache' = cache /\ cache # {}
    BY <2>1 DEF Return
  <2>3. AnswerOf(value) = "read"
    BY <2>1, AnswerFacts DEF IInv, ResultsAreTrue
  <2>4. AnswerOf(result)' = "read"
    BY <2>2, <2>3 DEF AnswerOf
  <2>. QED  BY <1>1, <2>2, <2>4 DEF AbstractNext
<1>3. CASE cache = {} /\ stage' = "rpc" /\ UNCHANGED <<result, cache>>
  BY <1>1, <1>3 DEF AbstractNext
<1>. QED  BY <1>2, <1>3 DEF Begin

LEMMA AnsweredIsAbstract ==
    ASSUME IInv, step > 0, NEW value, NEW way, Answered(value, way)
    PROVE  AbstractNext \/ Unseen
<1>1. stage = "rpc" /\ cache = {} /\ perceiveRateLimited' = perceiveRateLimited
  BY DEF IInv, Types, CacheHoldsOne, Answered
<1>2. CASE UNCHANGED <<stage, result, cache>>
  BY <1>1, <1>2 DEF Unseen
<1>3. CASE stage' = "rest" /\ UNCHANGED <<result, cache>>
  BY <1>1, <1>3 DEF Unseen
<1>4. CASE Return([source |-> "rpc", fields |-> got', how |-> how', at |-> at',
                   from |-> from], TRUE)
  <2>1. /\ stage' = "idle" /\ cache' # {}
        /\ result' = [source |-> "rpc", fields |-> got', how |-> how', at |-> at', from |-> from]
    BY <1>4 DEF Return
  <2>2. AnswerOf(result)' = "read"
    BY <2>1 DEF AnswerOf
  <2>. QED  BY <1>1, <2>1, <2>2 DEF AbstractNext
<1>. QED  BY <1>2, <1>3, <1>4 DEF Answered, Complete

LEMMA ReadFailsIsAbstract ==
    ASSUME IInv, step > 0, NEW err, ReadFails(err)
    PROVE  AbstractNext \/ Unseen
<1>1. stage = "rpc" /\ cache = {}
  BY DEF IInv, Types, CacheHoldsOne
<1>2. CASE perceiveRateLimited' = TRUE /\ Return(Placeholder, FALSE)
  <2>1. stage' = "idle" /\ cache' = {} /\ result' = Placeholder
    BY <1>1, <1>2 DEF Return
  <2>2. AnswerOf(result)' = "placeholder"
    BY <2>1, AnswerFacts DEF AnswerOf
  <2>. QED  BY <1>1, <1>2, <2>1, <2>2 DEF AbstractNext
<1>3. CASE stage' = "rest" /\ UNCHANGED <<result, cache, perceiveRateLimited>>
  BY <1>1, <1>3 DEF Unseen
<1>. QED  BY <1>2, <1>3 DEF ReadFails

LEMMA RequestIsAbstract ==
    ASSUME IInv, Request
    PROVE  AbstractNext \/ Unseen
<1>1. step > 0
  BY DEF Request
<1>2. ASSUME UNCHANGED client
      PROVE  AbstractNext \/ Unseen
  BY <1>2 DEF client, Unseen
<1>3. ASSUME NEW err, Thrown(err)
      PROVE  AbstractNext \/ Unseen
  <2>1. CASE GiveUpCall(err)
    BY <1>1, <2>1, AnsweredIsAbstract, ReadFailsIsAbstract DEF GiveUpCall
  <2>. QED  BY <1>2, <1>3, <2>1 DEF Thrown
<1>4. ASSUME NEW err, Fail(err)
      PROVE  AbstractNext \/ Unseen
  BY <1>2, <1>3, <1>4 DEF Fail
<1>5. ASSUME NEW value, NEW way, Answered(value, way)
      PROVE  AbstractNext \/ Unseen
  BY <1>1, <1>5, AnsweredIsAbstract
<1>6. CASE Empty
  BY <1>3, <1>5, <1>6 DEF Empty
<1>. QED  BY <1>4, <1>5, <1>6 DEF Request

LEMMA RestAnswerIsAbstract ==
    ASSUME IInv, RestAnswer
    PROVE  AbstractNext
<1>1. stage = "rest" /\ cache = {} /\ perceiveRateLimited' = perceiveRateLimited
  BY DEF IInv, CacheHoldsOne, RestAnswer
<1>2. CASE Return(Rest, TRUE)
  <2>1. AnswerOf(result)' = "read"
    BY <1>2, AnswerFacts DEF Return, AnswerOf
  <2>. QED  BY <1>1, <1>2, <2>1 DEF Return, AbstractNext
<1>3. CASE Return(Placeholder, FALSE)
  <2>1. AnswerOf(result)' = "placeholder"
    BY <1>3, AnswerFacts DEF Return, AnswerOf
  <2>. QED  BY <1>1, <1>3, <2>1 DEF Return, AbstractNext
<1>. QED  BY <1>2, <1>3 DEF RestAnswer

\* Whatever fails, what the loop sees of a read is the abstract client: a call ends in
\* an answer that was read and is kept, or in a placeholder that is not kept, and only
\* with a placeholder may the flag go up (casper-read-client.ts:90-240).
THEOREM ReadsImplementTheClient == Spec => ImplementsReadClient
<1>1. Init => AsReadClient!Init
  BY AnswerFacts DEF Init, AsReadClient!Init, AnswerOf
<1>2. IInv /\ [Next]_vars => [AsReadClient!Next]_(AsReadClient!vars)
  <2>. SUFFICES ASSUME IInv, [Next]_vars
                PROVE  AbstractNext \/ Unseen
    BY AbstractSteps
  <2>1. CASE NewBlock \/ UNCHANGED vars
    BY <2>1 DEF NewBlock, vars, client, Unseen
  <2>2. CASE Begin
    BY <2>2, BeginIsAbstract
  <2>3. CASE Request
    BY <2>3, RequestIsAbstract
  <2>4. CASE RestAnswer
    BY <2>4, RestAnswerIsAbstract
  <2>5. CASE CacheExpires
    BY <2>5 DEF CacheExpires, AbstractNext
  <2>6. CASE ConsumeFlag
    BY <2>6 DEF ConsumeFlag, AbstractNext
  <2>. QED  BY <2>1, <2>2, <2>3, <2>4, <2>5, <2>6 DEF Next
<1>. QED  BY <1>1, <1>2, Invariant, PTL DEF Spec, ImplementsReadClient, AsReadClient!Spec

-----------------------------------------------------------------------------
(* Numbers and their bytes.                                                *)

\* The constants of the codec.
LEMMA CodecConstants ==
    /\ Base \in Nat \ {0, 1} /\ C!Word \in Nat /\ C!Word = Base * Base * Base * Base
    /\ 32 < C!Word
    /\ HashBytes \in Nat \ {0} /\ 1 + HashBytes < C!Word
    /\ \A a \in Accounts : a \in Seq(C!Bytes) /\ Len(a) = HashBytes
    /\ Profiles \subseteq [score : C!U64, totalDecisions : C!U64, totalCorrect : C!U64, registeredAt : C!U64]
    /\ \A v \in Vectors : v \in Seq([assetId : C!Bytes, bps : C!U32]) /\ 4 + 5 * Len(v) < C!Word
    /\ Times \subseteq C!U64
    /\ Null \notin Seq(C!Bytes)
<1>1. Base * Base \in Nat /\ Base * Base * Base \in Nat /\ Base * Base * Base * Base \in Nat
  BY ReadsAssumption DEF C!CodecAssumption
<1>. QED  BY <1>1, ReadsAssumption DEF C!CodecAssumption, C!Word

\* A division with its rest.
LEMMA DivMod ==
    ASSUME NEW n \in Nat, NEW b \in Nat \ {0}
    PROVE  /\ n \div b \in Nat /\ n % b \in 0 .. b - 1
           /\ (n % b) + b * (n \div b) = n
OBVIOUS

\* A number below a product has a quotient below the other factor.
LEMMA DivBelow ==
    ASSUME NEW n \in Nat, NEW b \in Nat \ {0}, NEW m \in Nat, n < b * m
    PROVE  n \div b < m
<1>. DEFINE q == n \div b
<1>1. q \in Nat /\ b * q <= n
  BY DivMod
<1>. HIDE DEF q
<1>2. ASSUME q >= m PROVE FALSE
  <2>1. PICK d \in Nat : q = m + d
    <3>1. q - m \in Nat /\ q = m + (q - m)
      BY <1>1, <1>2
    <3>. QED  BY <3>1
  <2>2. b * q = b * m + b * d
    BY <2>1
  <2>3. b * d \in Nat /\ b * m \in Nat /\ b * q \in Nat
    BY <1>1, <2>1
  <2>. QED  BY <1>1, <2>2, <2>3
<1>3. q < m
  BY <1>1, <1>2
<1>. QED  BY <1>3 DEF q

\* Four bytes give back the number they were made of.
LEMMA U32RoundTrip ==
    ASSUME NEW n \in C!U32, NEW bytes, NEW o,
           \A k \in 1 .. 4 : bytes[o + k] = C!U32Bytes(n)[k]
    PROVE  C!U32At(bytes, o) = n
<1>. DEFINE a == n \div Base
            b == a \div Base
            c == b \div Base
<1>1. Base \in Nat \ {0} /\ Base * Base \in Nat /\ Base * Base * Base \in Nat
  BY CodecConstants
<1>2. n \in Nat /\ n < Base * (Base * Base * Base)
  <2>1. n \in Nat /\ n < C!Word
    BY CodecConstants DEF C!U32
  <2>2. Base * Base * Base * Base = Base * (Base * Base * Base)
    BY <1>1
  <2>. QED  BY <2>1, <2>2, CodecConstants
<1>3. a \in Nat /\ a < Base * Base * Base /\ (n % Base) + Base * a = n
  BY <1>1, <1>2, DivMod, DivBelow
<1>4. Base * Base * Base = Base * (Base * Base)
  BY <1>1
<1>. HIDE DEF a
<1>5. b \in Nat /\ b < Base * Base /\ (a % Base) + Base * b = a
  BY <1>1, <1>3, <1>4, DivMod, DivBelow
<1>. HIDE DEF b
<1>6. c \in Nat /\ c < Base /\ (b % Base) + Base * c = b
  BY <1>1, <1>5, DivMod, DivBelow
<1>7. c % Base = c
  <2>. HIDE DEF c
  <2>. QED  BY <1>1, <1>6
<1>8. C!U32Bytes(n) = <<n % Base, a % Base, b % Base, c % Base>>
  BY DEF C!U32Bytes, a, b
<1>. HIDE DEF c
<1>9. /\ bytes[o + 1] = n % Base /\ bytes[o + 2] = a % Base
      /\ bytes[o + 3] = b % Base /\ bytes[o + 4] = c
  BY <1>7, <1>8
<1>10. C!U32At(bytes, o) = (n % Base) + Base * ((a % Base) + Base * ((b % Base) + Base * c))
  BY <1>9, Zenon DEF C!U32At
<1>. QED  BY <1>3, <1>5, <1>6, <1>10

\* They are bytes.
LEMMA U32BytesType ==
    ASSUME NEW n \in Nat
    PROVE  C!U32Bytes(n) \in Seq(C!Bytes) /\ Len(C!U32Bytes(n)) = 4
<1>. DEFINE a == n \div Base
            b == a \div Base
            c == b \div Base
<1>1. Base \in Nat \ {0}
  BY CodecConstants
<1>2. \A m \in Nat : m \div Base \in Nat /\ m % Base \in C!Bytes
  BY <1>1, DivMod DEF C!Bytes
<1>3. a \in Nat /\ b \in Nat /\ c \in Nat
  BY <1>2
<1>4. n % Base \in C!Bytes /\ a % Base \in C!Bytes /\ b % Base \in C!Bytes /\ c % Base \in C!Bytes
  BY <1>2, <1>3
<1>5. C!U32Bytes(n) = <<n % Base, a % Base, b % Base, c % Base>>
  BY DEF C!U32Bytes
<1>. HIDE DEF a, b, c
<1>. QED  BY <1>4, <1>5

LEMMA U64Halves ==
    ASSUME NEW n \in C!U64
    PROVE  n % C!Word \in C!U32 /\ n \div C!Word \in C!U32 /\ (n % C!Word) + C!Word * (n \div C!Word) = n
<1>1. C!Word \in Nat \ {0} /\ n \in Nat /\ n < C!Word * C!Word
  BY CodecConstants DEF C!U64
<1>. DEFINE w == C!Word
            lo == n % w
            hi == n \div w
<1>. HIDE DEF w
<1>2. w \in Nat \ {0} /\ n \in Nat /\ n < w * w
  BY <1>1 DEF w
<1>3. lo \in 0 .. w - 1 /\ hi \in Nat /\ lo + w * hi = n
  BY <1>2, DivMod
<1>4. hi < w
  BY <1>2, DivBelow
<1>. HIDE DEF lo, hi
<1>5. hi \in 0 .. w - 1
  BY <1>2, <1>3, <1>4
<1>. QED  BY <1>3, <1>5 DEF C!U32, w, lo, hi

\* A list after another: its elements.
LEMMA ConcatAt ==
    ASSUME NEW S, NEW x \in Seq(S), NEW y \in Seq(S)
    PROVE  /\ x \o y \in Seq(S) /\ Len(x \o y) = Len(x) + Len(y)
           /\ \A k \in 1 .. Len(x) : (x \o y)[k] = x[k]
           /\ \A k \in 1 .. Len(y) : (x \o y)[Len(x) + k] = y[k]
<1>. DEFINE m == Len(x)
            n == Len(y)
<1>1. m \in Nat /\ n \in Nat
  BY LenProperties
<1>2. /\ x \o y \in Seq(S) /\ Len(x \o y) = m + n
      /\ \A k \in 1 .. m + n : (x \o y)[k] = IF k <= m THEN x[k] ELSE y[k - m]
  BY ConcatProperties
<1>. HIDE DEF m, n
<1>3. ASSUME NEW k \in 1 .. m PROVE (x \o y)[k] = x[k]
  BY <1>1, <1>2
<1>4. ASSUME NEW k \in 1 .. n PROVE (x \o y)[m + k] = y[k]
  <2>1. m + k \in 1 .. m + n /\ ~(m + k <= m) /\ (m + k) - m = k
    BY <1>1
  <2>. QED  BY <1>2, <2>1
<1>. QED  BY <1>2, <1>3, <1>4 DEF m, n

LEMMA U64BytesType ==
    ASSUME NEW n \in C!U64
    PROVE  C!U64Bytes(n) \in Seq(C!Bytes) /\ Len(C!U64Bytes(n)) = 8
<1>1. n % C!Word \in Nat /\ n \div C!Word \in Nat
  BY U64Halves, CodecConstants DEF C!U32
<1>2. /\ C!U32Bytes(n % C!Word) \in Seq(C!Bytes) /\ Len(C!U32Bytes(n % C!Word)) = 4
      /\ C!U32Bytes(n \div C!Word) \in Seq(C!Bytes) /\ Len(C!U32Bytes(n \div C!Word)) = 4
  BY <1>1, U32BytesType
<1>. DEFINE x == C!U32Bytes(n % C!Word)
            y == C!U32Bytes(n \div C!Word)
<1>3. C!U64Bytes(n) = x \o y
  BY DEF C!U64Bytes
<1>. HIDE DEF x, y
<1>4. x \in Seq(C!Bytes) /\ y \in Seq(C!Bytes) /\ Len(x) = 4 /\ Len(y) = 4
  BY <1>2 DEF x, y
<1>5. x \o y \in Seq(C!Bytes) /\ Len(x \o y) = 8
  <2>1. x \o y \in Seq(C!Bytes) /\ Len(x \o y) = Len(x) + Len(y)
    <3>1. x \in Seq(C!Bytes) /\ y \in Seq(C!Bytes)
      BY <1>4
    <3>. QED  BY <3>1, ConcatAt
  <2>. QED  BY <1>4, <2>1
<1>. QED  BY <1>3, <1>5

LEMMA U64RoundTrip ==
    ASSUME NEW n \in C!U64, NEW bytes, NEW o \in Nat,
           \A k \in 1 .. 8 : bytes[o + k] = C!U64Bytes(n)[k]
    PROVE  C!U64At(bytes, o) = n
<1>. DEFINE lo == n % C!Word
            hi == n \div C!Word
<1>1. lo \in C!U32 /\ hi \in C!U32 /\ lo + C!Word * hi = n /\ lo \in Nat /\ hi \in Nat
  BY U64Halves, CodecConstants DEF C!U32
<1>2. C!U64Bytes(n) = C!U32Bytes(lo) \o C!U32Bytes(hi)
  BY DEF C!U64Bytes
<1>. HIDE DEF lo, hi
<1>. DEFINE x == C!U32Bytes(lo)
            y == C!U32Bytes(hi)
<1>3. x \in Seq(C!Bytes) /\ y \in Seq(C!Bytes) /\ Len(x) = 4 /\ Len(y) = 4
  BY <1>1, U32BytesType
<1>. HIDE DEF x, y
<1>4. /\ \A k \in 1 .. 4 : (x \o y)[k] = x[k]
      /\ \A k \in 1 .. 4 : (x \o y)[4 + k] = y[k]
  <2>1. /\ \A k \in 1 .. Len(x) : (x \o y)[k] = x[k]
        /\ \A k \in 1 .. Len(y) : (x \o y)[Len(x) + k] = y[k]
    <3>1. x \in Seq(C!Bytes) /\ y \in Seq(C!Bytes)
      BY <1>3
    <3>. QED  BY <3>1, ConcatAt
  <2>2. Len(x) = 4 /\ Len(y) = 4
    BY <1>3
  <2>. QED  BY <2>1, <2>2
<1>5. ASSUME NEW k \in 1 .. 4
      PROVE  bytes[o + k] = x[k] /\ bytes[(o + 4) + k] = y[k]
  <2>1. k \in 1 .. 8 /\ 4 + k \in 1 .. 8 /\ o + (4 + k) = (o + 4) + k
    OBVIOUS
  <2>. QED  BY <1>2, <1>4, <2>1 DEF x, y
<1>6. C!U32At(bytes, o) = lo /\ C!U32At(bytes, o + 4) = hi
  BY <1>1, <1>5, U32RoundTrip DEF x, y
<1>. QED  BY <1>1, <1>6 DEF C!U64At

Fives(ss, n, S) == \A i \in 1 .. n : ss[i] \in Seq(S) /\ Len(ss[i]) = 5

Flattened(f, ss, n, S) ==
    /\ f \in Seq(S) /\ Len(f) = 5 * n
    /\ \A i \in 1 .. n, k \in 1 .. 5 : f[5 * (i - 1) + k] = ss[i][k]

\* Lists of five bytes, one after the other.
LEMMA FlatFives ==
    ASSUME NEW S, NEW n \in Nat, NEW ss, DOMAIN ss = 1 .. n, Len(ss) = n,
           n = 0 => ss = << >>, Fives(ss, n, S)
    PROVE  Flattened(C!FlattenSeq(ss), ss, n, S)
<1>. DEFINE At(k) == ss[((k - 1) \div 5) + 1][((k - 1) % 5) + 1]
            G == [i \in 1 .. n |-> [k \in 1 .. 5 * i |-> At(k)]]
<1>. DEFINE w == 5
<1>0. w = 5 /\ \A i \in 1 .. n : ss[i] \in Seq(S) /\ Len(ss[i]) = w
  BY DEF Fives
<1>. HIDE DEF w
<1>1. \A i \in 1 .. n : \A k \in 1 .. 5 : ss[i][k] \in S
  <2>. SUFFICES ASSUME NEW i \in 1 .. n, NEW k \in 1 .. 5 PROVE ss[i][k] \in S
    OBVIOUS
  <2>1. ss[i] \in Seq(S) /\ k \in 1 .. Len(ss[i])
    BY <1>0
  <2>. QED  BY <2>1, ElementOfSeq
<1>2. \A i \in 1 .. n : \A k \in 1 .. 5 : 5 * (i - 1) + k \in 1 .. 5 * i /\ At(5 * (i - 1) + k) = ss[i][k]
  <2>. SUFFICES ASSUME NEW i \in 1 .. n, NEW k \in 1 .. 5
                PROVE  5 * (i - 1) + k \in 1 .. 5 * i /\ At(5 * (i - 1) + k) = ss[i][k]
    OBVIOUS
  <2>. DEFINE q == 5 * (i - 1) + k
  <2>1. q \in 1 .. 5 * i /\ (q - 1) \div 5 = i - 1 /\ (q - 1) % 5 = k - 1
    OBVIOUS
  <2>2. (i - 1) + 1 = i /\ (k - 1) + 1 = k
    OBVIOUS
  <2>. HIDE DEF q
  <2>3. At(q) = ss[i][k]
    BY <2>1, <2>2
  <2>. QED  BY <2>1, <2>3 DEF q
<1>3. \A i \in 1 .. n : \A q \in 1 .. 5 * i : At(q) \in S
  <2>. SUFFICES ASSUME NEW i \in 1 .. n, NEW q \in 1 .. 5 * i PROVE At(q) \in S
    OBVIOUS
  <2>1. ((q - 1) \div 5) + 1 \in 1 .. n /\ ((q - 1) % 5) + 1 \in 1 .. 5
    OBVIOUS
  <2>. QED  BY <1>1, <2>1
<1>. HIDE DEF At
<1>4. \A i \in 1 .. n : G[i] \in Seq(S) /\ Len(G[i]) = 5 * i /\ \A q \in 1 .. 5 * i : G[i][q] = At(q)
  <2>. SUFFICES ASSUME NEW i \in 1 .. n
                PROVE  G[i] \in Seq(S) /\ Len(G[i]) = 5 * i /\ \A q \in 1 .. 5 * i : G[i][q] = At(q)
    OBVIOUS
  <2>. DEFINE m == 5 * i
  <2>1. m \in Nat /\ G[i] = [k \in 1 .. m |-> At(k)]
    OBVIOUS
  <2>2. \A q \in 1 .. m : At(q) \in S
    BY <1>3
  <2>. HIDE DEF m, G
  <2>3. G[i] \in [1 .. m -> S] /\ Len(G[i]) = m /\ \A q \in 1 .. m : G[i][q] = At(q)
    BY <2>1, <2>2
  <2>. QED  BY <2>1, <2>3 DEF m
<1>5. \A i \in 1 .. n : G[i] = IF i = 1 THEN ss[i] ELSE G[i - 1] \o ss[i]
  <2>. SUFFICES ASSUME NEW i \in 1 .. n
                PROVE  G[i] = IF i = 1 THEN ss[i] ELSE G[i - 1] \o ss[i]
    OBVIOUS
  <2>0. DOMAIN G = 1 .. n
    OBVIOUS
  <2>. HIDE DEF G
  <2>1. CASE i = 1
    <3>1. G[1] \in Seq(S) /\ Len(G[1]) = 5 /\ ss[1] \in Seq(S) /\ Len(ss[1]) = w
      <4>1. 1 \in 1 .. n /\ 5 * 1 = 5
        BY <2>1
      <4>2. G[1] \in Seq(S) /\ Len(G[1]) = 5 * 1
        BY <1>4, <4>1
      <4>. QED  BY <1>0, <4>1, <4>2
    <3>2. \A k \in 1 .. 5 : G[1][k] = ss[1][k]
      <4>. SUFFICES ASSUME NEW k \in 1 .. 5 PROVE G[1][k] = ss[1][k]
        OBVIOUS
      <4>1. 1 \in 1 .. n /\ k \in 1 .. 5 * 1
        BY <2>1
      <4>2. G[1][k] = At(k)
        BY <1>4, <4>1
      <4>3. At(5 * (1 - 1) + k) = ss[1][k] /\ 5 * (1 - 1) + k = k
        BY <1>2, <4>1
      <4>. QED  BY <4>2, <4>3
    <3>3. G[1] = ss[1]
      <4>1. Len(G[1]) = Len(ss[1])
        BY <1>0, <3>1
      <4>2. \A k \in 1 .. Len(G[1]) : G[1][k] = ss[1][k]
        BY <1>0, <3>1, <3>2
      <4>3. G[1] \in Seq(S) /\ ss[1] \in Seq(S)
        BY <3>1
      <4>. QED  BY <4>1, <4>2, <4>3, SeqEqual
    <3>. QED  BY <2>1, <3>3
  <2>2. CASE i # 1
    <3>. DEFINE x == G[i - 1]
                y == ss[i]
                z == G[i]
    <3>1. i - 1 \in 1 .. n
      BY <2>2
    <3>2. /\ x \in Seq(S) /\ Len(x) = 5 * (i - 1) /\ \A q \in 1 .. 5 * (i - 1) : x[q] = At(q)
          /\ z \in Seq(S) /\ Len(z) = 5 * i /\ \A q \in 1 .. 5 * i : z[q] = At(q)
          /\ y \in Seq(S) /\ Len(y) = w
      BY <1>0, <1>4, <3>1
    <3>3. \A k \in 1 .. 5 : z[5 * (i - 1) + k] = y[k]
      BY <1>2, <3>2
    <3>. HIDE DEF x, y, z
    <3>4. /\ x \o y \in Seq(S) /\ Len(x \o y) = Len(x) + Len(y)
          /\ \A k \in 1 .. Len(x) : (x \o y)[k] = x[k]
          /\ \A k \in 1 .. Len(y) : (x \o y)[Len(x) + k] = y[k]
      <4>1. x \in Seq(S) /\ y \in Seq(S)
        BY <3>2
      <4>. QED  BY <4>1, ConcatAt
    <3>. DEFINE u == x \o y
    <3>. HIDE DEF u
    <3>5. /\ u \in Seq(S) /\ Len(u) = Len(z) /\ z \in Seq(S)
          /\ \A q \in 1 .. 5 * (i - 1) : u[q] = x[q]
          /\ \A k \in 1 .. 5 : u[5 * (i - 1) + k] = y[k]
      <4>1. /\ u \in Seq(S) /\ Len(u) = Len(x) + Len(y)
            /\ \A k \in 1 .. Len(x) : u[k] = x[k]
            /\ \A k \in 1 .. Len(y) : u[Len(x) + k] = y[k]
        BY <3>4 DEF u
      <4>2. Len(x) = 5 * (i - 1) /\ Len(y) = 5 /\ Len(z) = 5 * i /\ z \in Seq(S)
        BY <1>0, <3>2
      <4>3. Len(u) = Len(z)
        BY <4>1, <4>2
      <4>4. \A q \in 1 .. 5 * (i - 1) : u[q] = x[q]
        BY <4>1, <4>2
      <4>5. \A k \in 1 .. 5 : u[5 * (i - 1) + k] = y[k]
        BY <4>1, <4>2
      <4>. QED  BY <4>1, <4>2, <4>3, <4>4, <4>5
    <3>6. ASSUME NEW q \in 1 .. Len(z) PROVE z[q] = u[q]
      <4>1. CASE q <= 5 * (i - 1)
        BY <3>2, <3>5, <3>6, <4>1
      <4>2. CASE ~(q <= 5 * (i - 1))
        <5>. DEFINE k == q - 5 * (i - 1)
        <5>1. k \in 1 .. 5 /\ 5 * (i - 1) + k = q
          BY <3>2, <3>6, <4>2
        <5>. HIDE DEF k
        <5>. QED  BY <3>3, <3>5, <5>1
      <4>. QED  BY <4>1, <4>2
    <3>7. z = u
      BY <3>5, <3>6, SeqEqual
    <3>. QED  BY <2>2, <3>7 DEF z, u, x, y
  <2>. QED  BY <2>1, <2>2
<1>6. G = [i \in 1 .. n |-> IF i = 1 THEN ss[i] ELSE G[i - 1] \o ss[i]]
  <2>1. G = [i \in 1 .. n |-> G[i]]
    OBVIOUS
  <2>. HIDE DEF G
  <2>. QED  BY <1>5, <2>1
<1>. HIDE DEF G
<1>. DEFINE F == CHOOSE f : f = [i \in 1 .. n |-> IF i = 1 THEN ss[i] ELSE f[i - 1] \o ss[i]]
<1>7. F = [i \in 1 .. n |-> IF i = 1 THEN ss[i] ELSE F[i - 1] \o ss[i]]
  BY <1>6
<1>8. C!FlattenSeq(ss) = IF n = 0 THEN ss ELSE F[n]
  <2>1. C!FlattenSeq(ss) =
            IF Len(ss) = 0 THEN ss
            ELSE (CHOOSE f : f = [i \in 1 .. Len(ss) |-> IF i = 1 THEN ss[i] ELSE f[i - 1] \o ss[i]])[Len(ss)]
    BY Zenon DEF C!FlattenSeq
  <2>2. C!FlattenSeq(ss) =
            IF n = 0 THEN ss
            ELSE (CHOOSE f : f = [i \in 1 .. n |-> IF i = 1 THEN ss[i] ELSE f[i - 1] \o ss[i]])[n]
    BY <2>1, Zenon
  <2>. QED  BY <2>2
<1>. HIDE DEF F
<1>9. \A i \in 1 .. n : F[i] = G[i]
  <2>. DEFINE Good == {m \in Nat : m \in 1 .. n => F[m] = G[m]}
  <2>1. 0 \in Good
    OBVIOUS
  <2>2. ASSUME NEW m \in Nat, m \in Good PROVE m + 1 \in Good
    <3>1. ASSUME m + 1 \in 1 .. n PROVE F[m + 1] = G[m + 1]
      <4>. DEFINE p == m + 1
      <4>1. p \in 1 .. n /\ p - 1 = m
        BY <3>1
      <4>2. F[p] = IF p = 1 THEN ss[p] ELSE F[p - 1] \o ss[p]
        BY <1>7, <3>1
      <4>3. G[p] = IF p = 1 THEN ss[p] ELSE G[p - 1] \o ss[p]
        BY <1>5, <3>1
      <4>4. p # 1 => F[p - 1] = G[p - 1]
        BY <2>2, <4>1
      <4>. HIDE DEF p
      <4>5. F[p] = G[p]
        BY <4>2, <4>3, <4>4
      <4>. QED  BY <4>5 DEF p
    <3>. QED  BY <3>1
  <2>. HIDE DEF Good
  <2>3. Nat \subseteq Good
    BY <2>1, <2>2, NaturalsAre
  <2>. QED  BY <2>3 DEF Good
<1>10. CASE n = 0
  BY <1>8, <1>10 DEF Flattened
<1>11. CASE n # 0
  <2>1. n \in 1 .. n
    BY <1>11
  <2>2. C!FlattenSeq(ss) = G[n]
    BY <1>8, <1>9, <1>11, <2>1
  <2>3. \A i \in 1 .. n, k \in 1 .. 5 : 5 * (i - 1) + k \in 1 .. 5 * n
    OBVIOUS
  <2>4. G[n] \in Seq(S) /\ Len(G[n]) = 5 * n /\ \A q \in 1 .. 5 * n : G[n][q] = At(q)
    BY <1>4, <2>1
  <2>5. ASSUME NEW i \in 1 .. n, NEW k \in 1 .. 5
        PROVE  G[n][5 * (i - 1) + k] = ss[i][k]
    <3>. DEFINE q == 5 * (i - 1) + k
    <3>1. q \in 1 .. 5 * n /\ At(q) = ss[i][k]
      BY <1>2, <2>3
    <3>. HIDE DEF q
    <3>2. G[n][q] = ss[i][k]
      BY <2>4, <3>1
    <3>. QED  BY <3>2 DEF q
  <2>. QED  BY <2>2, <2>4, <2>5 DEF Flattened
<1>. QED  BY <1>10, <1>11

\* The first n elements of a list, and all but them.
LEMMA Parts ==
    ASSUME NEW S, NEW s \in Seq(S), NEW n \in 0 .. Len(s)
    PROVE  /\ SubSeq(s, 1, n) \in Seq(S) /\ Len(SubSeq(s, 1, n)) = n
           /\ \A k \in 1 .. n : SubSeq(s, 1, n)[k] = s[k]
           /\ SubSeq(s, n + 1, Len(s)) \in Seq(S) /\ Len(SubSeq(s, n + 1, Len(s))) = Len(s) - n
           /\ \A k \in 1 .. Len(s) - n : SubSeq(s, n + 1, Len(s))[k] = s[n + k]
<1>. DEFINE m == Len(s)
            p == n + 1
            t == SubSeq(s, 1, n)
            u == SubSeq(s, p, m)
<1>1. m \in Nat /\ n \in 0 .. m /\ \A i \in 1 .. m : s[i] \in S
  BY LenProperties, ElementOfSeq
<1>. HIDE DEF m
<1>2. p \in Int /\ 1 <= p /\ p <= m + 1 /\ p = n + 1
  BY <1>1
<1>. HIDE DEF p
<1>3. /\ t \in Seq(S) /\ Len(t) = (IF 1 <= n THEN n-1+1 ELSE 0)
      /\ \A k \in 1 .. n-1+1 : t[k] = s[1+k-1]
  <2>1. \A i \in 1 .. n : s[i] \in S
    BY <1>1
  <2>. QED  BY <1>1, <2>1, SubSeqProperties
<1>4. /\ u \in Seq(S) /\ Len(u) = (IF p <= m THEN m-p+1 ELSE 0)
      /\ \A k \in 1 .. m-p+1 : u[k] = s[p+k-1]
  <2>1. \A i \in p .. m : s[i] \in S
    BY <1>1, <1>2
  <2>. QED  BY <1>1, <1>2, <2>1, SubSeqProperties
<1>. HIDE DEF t, u
<1>5. Len(t) = n /\ \A k \in 1 .. n : t[k] = s[k]
  <2>1. n-1+1 = n /\ \A k \in 1 .. n : 1+k-1 = k
    BY <1>1
  <2>2. ASSUME NEW k \in 1 .. n PROVE t[k] = s[k]
    <3>1. t[k] = s[1+k-1] /\ 1+k-1 = k
      BY <1>3, <2>1
    <3>. QED  BY <3>1
  <2>. QED  BY <1>1, <1>3, <2>1, <2>2
<1>6. Len(u) = m - n /\ \A k \in 1 .. m - n : u[k] = s[n + k]
  <2>1. m-p+1 = m - n /\ \A k \in 1 .. m - n : p+k-1 = n + k
    BY <1>1, <1>2
  <2>2. ASSUME NEW k \in 1 .. m - n PROVE u[k] = s[n + k]
    <3>1. u[k] = s[p+k-1] /\ p+k-1 = n + k
      BY <1>4, <2>1
    <3>. QED  BY <3>1
  <2>3. Len(u) = m - n
    BY <1>1, <1>2, <1>4
  <2>. QED  BY <2>2, <2>3
<1>. QED  BY <1>3, <1>4, <1>5, <1>6 DEF m, p, t, u

\* A stored value is taken apart again, and one that is cut short is not.
LEMMA InnerOfStored ==
    ASSUME NEW enc \in Seq(C!Bytes), Len(enc) < C!Word
    PROVE  LET raw == C!U32Bytes(Len(enc)) \o enc IN
           /\ SubSeq(raw, 5, Len(raw)) = enc
           /\ Len(raw) \in Nat
           /\ \A n \in 0 .. Len(raw) :
                 C!Inner(SubSeq(raw, 1, n)) = IF n = Len(raw) THEN enc ELSE Null
<1>. DEFINE m == Len(enc)
            head == C!U32Bytes(m)
            raw == head \o enc
            four == Len(head)
<1>1. m \in Nat /\ m \in C!U32
  BY LenProperties, CodecConstants DEF C!U32
<1>2. head \in Seq(C!Bytes) /\ four = 4
  BY <1>1, U32BytesType
<1>3. \A bytes : (\A k \in 1 .. 4 : bytes[0 + k] = head[k]) => C!U32At(bytes, 0) = m
  BY <1>1, U32RoundTrip
<1>. HIDE DEF head
<1>4. /\ raw \in Seq(C!Bytes) /\ Len(raw) = four + m
      /\ \A k \in 1 .. four : raw[k] = head[k]
      /\ \A k \in 1 .. m : raw[four + k] = enc[k]
  <2>1. head \in Seq(C!Bytes)
    BY <1>2
  <2>. QED  BY <2>1, ConcatAt
<1>. HIDE DEF raw, m, four
<1>5. Len(raw) \in Nat /\ 4 <= Len(raw) /\ Len(raw) = 4 + m
  BY <1>1, <1>2, <1>4
<1>8. SubSeq(raw, 5, Len(raw)) = enc
  <2>. DEFINE t == SubSeq(raw, four + 1, Len(raw))
  <2>1. four \in 0 .. Len(raw) /\ Len(raw) - four = m
    BY <1>1, <1>2, <1>5
  <2>2. t \in Seq(C!Bytes) /\ Len(t) = Len(raw) - four /\ \A k \in 1 .. Len(raw) - four : t[k] = raw[four + k]
    BY <1>4, <2>1, Parts
  <2>. HIDE DEF t
  <2>3. Len(t) = Len(enc) /\ \A k \in 1 .. Len(t) : t[k] = enc[k]
    BY <1>4, <2>1, <2>2 DEF m
  <2>4. t = enc
    BY <2>2, <2>3, SeqEqual
  <2>5. four + 1 = 5
    BY <1>2
  <2>. QED  BY <2>4, <2>5 DEF t
<1>9. ASSUME NEW n \in 0 .. Len(raw)
      PROVE  C!Inner(SubSeq(raw, 1, n)) = IF n = Len(raw) THEN enc ELSE Null
  <2>. DEFINE t == SubSeq(raw, 1, n)
              announced == C!U32At(t, 0)
  <2>1. t \in Seq(C!Bytes) /\ Len(t) = n /\ \A k \in 1 .. n : t[k] = raw[k]
    BY <1>4, Parts
  <2>2. C!Inner(t) = IF Len(t) < 4 \/ Len(t) - 4 < announced THEN Null
                     ELSE SubSeq(t, 5, 4 + announced)
    BY DEF C!Inner
  <2>. HIDE DEF t
  <2>3. CASE n < 4
    BY <1>5, <2>1, <2>2, <2>3 DEF t
  <2>4. CASE n >= 4
    <3>1. announced = m
      <4>1. ASSUME NEW k \in 1 .. 4 PROVE t[0 + k] = head[k]
        <5>1. 0 + k = k /\ k \in 1 .. n /\ k \in 1 .. four
          BY <1>2, <1>5, <2>4
        <5>. QED  BY <1>4, <2>1, <5>1
      <4>. QED  BY <1>3, <4>1
    <3>. HIDE DEF announced
    <3>2. CASE n # Len(raw)
      <4>1. n - 4 < m
        BY <1>1, <1>5, <3>2
      <4>. QED  BY <1>5, <2>1, <2>2, <3>1, <3>2, <4>1 DEF t
    <3>3. CASE n = Len(raw)
      <4>1. t = raw
        BY <1>4, <2>1, <3>3, SeqEqual
      <4>2. C!Inner(t) = SubSeq(t, 5, 4 + m)
        BY <1>1, <1>5, <2>1, <2>2, <2>4, <3>1, <3>3
      <4>. QED  BY <1>5, <1>8, <3>3, <4>1, <4>2 DEF t
    <3>. QED  BY <3>2, <3>3
  <2>. QED  BY <1>5, <2>3, <2>4
<1>. QED  BY <1>5, <1>8, <1>9 DEF raw, head, m

-----------------------------------------------------------------------------
(* The fields, written and read.                                           *)

\* What the contract stores in a field.
Values(field) ==
    CASE field \in {"agent", "owner"} -> Accounts
      [] field \in {"paused", "registered"} -> BOOLEAN
      [] field = "timestamp" -> Times
      [] field = "profile" -> Profiles
      [] field = "allocation" -> Vectors

Fields == {"agent", "owner", "paused", "registered", "timestamp", "profile", "allocation"}

\* An encoding is a list of bytes that can be announced, and its parser gives the value
\* back.
Fits(field, value) ==
    LET enc == C!Encoded(field, value) IN
    /\ enc \in Seq(C!Bytes) /\ Len(enc) < C!Word
    /\ field \in C!ReadFields => C!Parsed(field, enc) = value

LEMMA AddressFits ==
    ASSUME NEW field \in {"agent", "owner"}, NEW value \in Accounts
    PROVE  Fits(field, value)
<1>. DEFINE enc == <<0>> \o value
            tag == <<0>>
<1>1. C!Encoded(field, value) = enc
  BY DEF C!Encoded, C!AddressBytes
<1>2. value \in Seq(C!Bytes) /\ Len(value) = HashBytes /\ HashBytes \in Nat \ {0} /\ 1 + HashBytes < C!Word
  BY CodecConstants
<1>3. tag \in Seq(C!Bytes) /\ Len(tag) = 1
  BY CodecConstants DEF C!Bytes
<1>. DEFINE one == Len(tag)
<1>. HIDE DEF tag
<1>4. /\ tag \o value \in Seq(C!Bytes) /\ Len(tag \o value) = one + Len(value)
      /\ \A k \in 1 .. Len(value) : (tag \o value)[one + k] = value[k]
  <2>1. tag \in Seq(C!Bytes) /\ value \in Seq(C!Bytes)
    BY <1>2, <1>3
  <2>. QED  BY <2>1, ConcatAt
<1>5. /\ enc \in Seq(C!Bytes) /\ Len(enc) = one + HashBytes
      /\ \A k \in 1 .. HashBytes : enc[one + k] = value[k]
  BY <1>2, <1>4 DEF tag
<1>. HIDE DEF enc, one
<1>6. SubSeq(enc, one + 1, Len(enc)) = value
  <2>. DEFINE t == SubSeq(enc, one + 1, Len(enc))
  <2>1. one \in 0 .. Len(enc) /\ Len(enc) - one = HashBytes
    BY <1>2, <1>3, <1>5 DEF one
  <2>2. /\ t \in Seq(C!Bytes) /\ Len(t) = Len(enc) - one
        /\ \A k \in 1 .. Len(enc) - one : t[k] = enc[one + k]
    BY <1>5, <2>1, Parts
  <2>. HIDE DEF t
  <2>3. Len(t) = Len(value) /\ \A k \in 1 .. Len(t) : t[k] = value[k]
    BY <1>2, <1>5, <2>1, <2>2
  <2>4. t = value
    BY <1>2, <2>2, <2>3, SeqEqual
  <2>. QED  BY <2>4 DEF t
<1>7. one = 1
  BY <1>3 DEF one
<1>8. C!AddressOf(enc) = value
  <2>1. Len(enc) = 1 + HashBytes /\ SubSeq(enc, 2, 1 + HashBytes) = value
    <3>1. SubSeq(enc, 1 + 1, Len(enc)) = value /\ Len(enc) = 1 + HashBytes /\ 1 + 1 = 2
      BY <1>5, <1>6, <1>7
    <3>. QED  BY <3>1
  <2>. QED  BY <1>2, <2>1 DEF C!AddressOf
<1>9. enc # Null
  BY <1>5, CodecConstants
<1>10. field \in C!ReadFields => C!Parsed(field, enc) = value
  BY <1>8, <1>9 DEF C!Parsed, C!ReadFields
<1>11. Len(enc) < C!Word
  BY <1>2, <1>5, <1>7
<1>. QED  BY <1>1, <1>5, <1>10, <1>11 DEF Fits

LEMMA FlagFits ==
    ASSUME NEW field \in {"paused", "registered"}, NEW value \in BOOLEAN
    PROVE  Fits(field, value)
<1>. DEFINE byte == IF value THEN 1 ELSE 0
            enc == <<byte>>
<1>1. C!Encoded(field, value) = enc
  BY DEF C!Encoded
<1>2. byte \in C!Bytes /\ (byte # 0) = value
  BY CodecConstants DEF C!Bytes
<1>. HIDE DEF byte
<1>3. enc \in Seq(C!Bytes) /\ Len(enc) = 1 /\ enc[1] = byte
  BY <1>2
<1>4. enc # Null /\ Len(enc) < C!Word
  <2>1. 1 < C!Word
    BY CodecConstants
  <2>2. enc # Null
    BY <1>3, CodecConstants
  <2>. QED  BY <1>3, <2>1, <2>2
<1>. HIDE DEF enc
<1>5. C!BoolOf(enc) = value
  BY <1>2, <1>3 DEF C!BoolOf
<1>6. field \in C!ReadFields => C!Parsed(field, enc) = value
  BY <1>4, <1>5 DEF C!Parsed, C!ReadFields
<1>. QED  BY <1>1, <1>3, <1>4, <1>6 DEF Fits

LEMMA TimeFits ==
    ASSUME NEW value \in Times
    PROVE  Fits("timestamp", value)
<1>. DEFINE enc == C!U64Bytes(value)
<1>1. C!Encoded("timestamp", value) = enc
  BY DEF C!Encoded
<1>2. value \in C!U64
  BY CodecConstants
<1>3. enc \in Seq(C!Bytes) /\ Len(enc) = 8
  BY <1>2, U64BytesType
<1>4. C!U64At(enc, 0) = value
  <2>1. \A k \in 1 .. 8 : enc[0 + k] = C!U64Bytes(value)[k]
    OBVIOUS
  <2>. HIDE DEF enc
  <2>. QED  BY <1>2, <2>1, U64RoundTrip
<1>. HIDE DEF enc
<1>5. enc # Null /\ Len(enc) < C!Word
  BY <1>3, CodecConstants
<1>6. C!Parsed("timestamp", enc) = value
  BY <1>3, <1>4, <1>5 DEF C!Parsed, C!U64Of
<1>. QED  BY <1>1, <1>3, <1>5, <1>6 DEF Fits

LEMMA ProfileFits ==
    ASSUME NEW value \in Profiles
    PROVE  Fits("profile", value)
<1>. DEFINE p == C!U64Bytes(value.score)
            q == C!U64Bytes(value.totalDecisions)
            r == C!U64Bytes(value.totalCorrect)
            s == C!U64Bytes(value.registeredAt)
            pq == p \o q
            pqr == pq \o r
            enc == pqr \o s
            S == C!Bytes
<1>1. C!Encoded("profile", value) = enc
  BY DEF C!Encoded
<1>2. value \in [score : C!U64, totalDecisions : C!U64, totalCorrect : C!U64, registeredAt : C!U64]
  BY CodecConstants
<1>3. /\ p \in Seq(S) /\ q \in Seq(S) /\ r \in Seq(S) /\ s \in Seq(S)
  BY <1>2, U64BytesType
<1>4. Len(p) = 8 /\ Len(q) = 8 /\ Len(r) = 8 /\ Len(s) = 8
  BY <1>2, U64BytesType
<1>5. /\ \A bytes : (\A k \in 1 .. 8 : bytes[0 + k] = p[k]) => C!U64At(bytes, 0) = value.score
      /\ \A bytes : (\A k \in 1 .. 8 : bytes[8 + k] = q[k]) => C!U64At(bytes, 8) = value.totalDecisions
      /\ \A bytes : (\A k \in 1 .. 8 : bytes[16 + k] = r[k]) => C!U64At(bytes, 16) = value.totalCorrect
      /\ \A bytes : (\A k \in 1 .. 8 : bytes[24 + k] = s[k]) => C!U64At(bytes, 24) = value.registeredAt
  BY <1>2, U64RoundTrip
<1>. HIDE DEF p, q, r, s, S
<1>6. /\ pq \in Seq(S) /\ Len(pq) = Len(p) + Len(q)
      /\ \A k \in 1 .. Len(p) : pq[k] = p[k]
      /\ \A k \in 1 .. Len(q) : pq[Len(p) + k] = q[k]
  BY <1>3, ConcatAt
<1>. HIDE DEF pq
<1>7. /\ pqr \in Seq(S) /\ Len(pqr) = Len(pq) + Len(r)
      /\ \A k \in 1 .. Len(pq) : pqr[k] = pq[k]
      /\ \A k \in 1 .. Len(r) : pqr[Len(pq) + k] = r[k]
  <2>1. pq \in Seq(S) /\ r \in Seq(S)
    BY <1>3, <1>6
  <2>. QED  BY <2>1, ConcatAt
<1>. HIDE DEF pqr
<1>8. /\ enc \in Seq(S) /\ Len(enc) = Len(pqr) + Len(s)
      /\ \A k \in 1 .. Len(pqr) : enc[k] = pqr[k]
      /\ \A k \in 1 .. Len(s) : enc[Len(pqr) + k] = s[k]
  <2>1. pqr \in Seq(S) /\ s \in Seq(S)
    BY <1>3, <1>7
  <2>. QED  BY <2>1, ConcatAt
<1>. HIDE DEF enc
<1>9. Len(pq) = 16 /\ Len(pqr) = 24 /\ Len(enc) = 32
  BY <1>4, <1>6, <1>7, <1>8
<1>10. ASSUME NEW k \in 1 .. 8
       PROVE  enc[0 + k] = p[k] /\ enc[8 + k] = q[k] /\ enc[16 + k] = r[k] /\ enc[24 + k] = s[k]
  <2>1. pq[k] = p[k] /\ pq[8 + k] = q[k]
    BY <1>4, <1>6
  <2>2. pqr[k] = pq[k] /\ pqr[8 + k] = pq[8 + k] /\ pqr[16 + k] = r[k]
    <3>1. k \in 1 .. Len(pq) /\ 8 + k \in 1 .. Len(pq) /\ k \in 1 .. Len(r) /\ Len(pq) = 16
      BY <1>4, <1>9
    <3>. QED  BY <1>7, <3>1
  <2>3. enc[k] = pqr[k] /\ enc[8 + k] = pqr[8 + k] /\ enc[16 + k] = pqr[16 + k] /\ enc[24 + k] = s[k]
    <3>1. /\ k \in 1 .. Len(pqr) /\ 8 + k \in 1 .. Len(pqr) /\ 16 + k \in 1 .. Len(pqr)
          /\ k \in 1 .. Len(s) /\ Len(pqr) = 24
      BY <1>4, <1>9
    <3>. QED  BY <1>8, <3>1
  <2>4. 0 + k = k
    OBVIOUS
  <2>. QED  BY <2>1, <2>2, <2>3, <2>4
<1>11. /\ C!U64At(enc, 0) = value.score /\ C!U64At(enc, 8) = value.totalDecisions
       /\ C!U64At(enc, 16) = value.totalCorrect /\ C!U64At(enc, 24) = value.registeredAt
  BY <1>5, <1>10
<1>12. C!ProfileOf(enc) = value
  <2>1. ~(Len(enc) < 32)
    BY <1>9
  <2>2. C!ProfileOf(enc) = [score |-> value.score, totalDecisions |-> value.totalDecisions,
                            totalCorrect |-> value.totalCorrect, registeredAt |-> value.registeredAt]
    BY <1>11, <2>1 DEF C!ProfileOf
  <2>. QED  BY <1>2, <2>2
<1>13. enc # Null /\ Len(enc) < C!Word /\ enc \in Seq(C!Bytes)
  BY <1>8, <1>9, CodecConstants DEF S
<1>14. C!Parsed("profile", enc) = value
  BY <1>12, <1>13 DEF C!Parsed
<1>. QED  BY <1>1, <1>13, <1>14 DEF Fits

LEMMA AllocationFits ==
    ASSUME NEW value \in Vectors
    PROVE  Fits("allocation", value)
<1>. DEFINE n == Len(value)
            S == C!Bytes
            head == C!U32Bytes(n)
            entry == [i \in DOMAIN value |-> <<value[i].assetId>> \o C!U32Bytes(value[i].bps)]
            flat == C!FlattenSeq(entry)
            enc == head \o flat
<1>1. C!Encoded("allocation", value) = enc
  BY DEF C!Encoded
<1>2. /\ value \in Seq([assetId : C!Bytes, bps : C!U32]) /\ n \in Nat /\ DOMAIN value = 1 .. n
      /\ 4 + 5 * n < C!Word
  BY CodecConstants, LenProperties
<1>3. \A i \in 1 .. n : value[i] \in [assetId : C!Bytes, bps : C!U32]
  BY <1>2, ElementOfSeq
<1>4. value = [i \in 1 .. n |-> value[i]]
  BY <1>2
<1>. HIDE DEF n
<1>5. n \in C!U32
  BY <1>2, CodecConstants DEF C!U32
<1>6. head \in Seq(S) /\ Len(head) = 4
  BY <1>2, U32BytesType
<1>7. \A bytes, o : (\A k \in 1 .. 4 : bytes[o + k] = head[k]) => C!U32At(bytes, o) = n
  BY <1>5, U32RoundTrip
<1>8. ASSUME NEW i \in 1 .. n
      PROVE  /\ entry[i] \in Seq(S) /\ Len(entry[i]) = 5
             /\ entry[i][1] = value[i].assetId
             /\ \A k \in 1 .. 4 : entry[i][1 + k] = C!U32Bytes(value[i].bps)[k]
  <2>. DEFINE x == <<value[i].assetId>>
              y == C!U32Bytes(value[i].bps)
  <2>1. value[i].assetId \in S /\ value[i].bps \in Nat
    BY <1>3, CodecConstants DEF C!U32
  <2>2. x \in Seq(S) /\ Len(x) = 1 /\ x[1] = value[i].assetId
    BY <2>1
  <2>3. y \in Seq(S) /\ Len(y) = 4
    BY <2>1, U32BytesType
  <2>4. entry[i] = x \o y
    BY <1>2
  <2>. HIDE DEF x, y, entry
  <2>5. /\ x \o y \in Seq(S) /\ Len(x \o y) = Len(x) + Len(y)
        /\ \A k \in 1 .. Len(x) : (x \o y)[k] = x[k]
        /\ \A k \in 1 .. Len(y) : (x \o y)[Len(x) + k] = y[k]
    <3>1. x \in Seq(S) /\ y \in Seq(S)
      BY <2>2, <2>3
    <3>. QED  BY <3>1, ConcatAt
  <2>. DEFINE z == x \o y
  <2>6. z \in Seq(S) /\ Len(z) = 5 /\ z[1] = value[i].assetId /\ \A k \in 1 .. 4 : z[1 + k] = y[k]
    BY <2>2, <2>3, <2>5
  <2>. HIDE DEF z
  <2>7. entry[i] = z
    BY <2>4 DEF z
  <2>. QED  BY <2>6, <2>7 DEF y
<1>9. DOMAIN entry = 1 .. n /\ Len(entry) = n /\ (n = 0 => entry = << >>)
  <2>1. entry = [i \in 1 .. n |-> entry[i]]
    BY <1>2
  <2>. HIDE DEF entry
  <2>. QED  BY <1>2, <2>1
<1>. HIDE DEF entry, head, S
<1>10. /\ flat \in Seq(S) /\ Len(flat) = 5 * n
       /\ \A i \in 1 .. n, k \in 1 .. 5 : flat[5 * (i - 1) + k] = entry[i][k]
  <2>1. Fives(entry, n, S)
    BY <1>8 DEF Fives
  <2>2. n \in Nat /\ DOMAIN entry = 1 .. n /\ Len(entry) = n /\ (n = 0 => entry = << >>)
    BY <1>2, <1>9
  <2>3. Flattened(flat, entry, n, S)
    BY <2>1, <2>2, FlatFives
  <2>. QED  BY <2>3 DEF Flattened
<1>. HIDE DEF flat
<1>11. /\ enc \in Seq(S) /\ Len(enc) = Len(head) + Len(flat)
       /\ \A k \in 1 .. Len(head) : enc[k] = head[k]
       /\ \A k \in 1 .. Len(flat) : enc[Len(head) + k] = flat[k]
  <2>1. head \in Seq(S) /\ flat \in Seq(S)
    BY <1>6, <1>10
  <2>. QED  BY <2>1, ConcatAt
<1>. HIDE DEF enc
<1>12. /\ Len(enc) = 4 + 5 * n
       /\ \A k \in 1 .. 4 : enc[k] = head[k]
       /\ \A k \in 1 .. 5 * n : enc[4 + k] = flat[k]
  BY <1>6, <1>10, <1>11
<1>13. C!U32At(enc, 0) = n
  <2>1. \A k \in 1 .. 4 : enc[0 + k] = head[k]
    BY <1>12
  <2>. QED  BY <1>7, <2>1
<1>14. ASSUME NEW i \in 1 .. n
       PROVE  enc[5 * i] = value[i].assetId /\ C!U32At(enc, 5 * i) = value[i].bps
  <2>1. ASSUME NEW k \in 1 .. 5 PROVE enc[5 * i + (k - 1)] = entry[i][k]
    <3>. DEFINE j == 5 * (i - 1) + k
    <3>1. j \in 1 .. 5 * n /\ 4 + j = 5 * i + (k - 1)
      BY <1>2
    <3>2. flat[j] = entry[i][k]
      BY <1>10
    <3>. HIDE DEF j
    <3>. QED  BY <1>12, <3>1, <3>2
  <2>2. enc[5 * i] = entry[i][1]
    <3>1. 1 \in 1 .. 5 /\ 5 * i + (1 - 1) = 5 * i
      BY <1>2
    <3>. QED  BY <2>1, <3>1
  <2>3. ASSUME NEW k \in 1 .. 4 PROVE enc[5 * i + k] = C!U32Bytes(value[i].bps)[k]
    <3>1. 1 + k \in 1 .. 5 /\ (1 + k) - 1 = k
      OBVIOUS
    <3>2. enc[5 * i + ((1 + k) - 1)] = entry[i][1 + k]
      BY <2>1, <3>1
    <3>. QED  BY <1>8, <3>1, <3>2
  <2>4. value[i].bps \in C!U32
    BY <1>3
  <2>5. C!U32At(enc, 5 * i) = value[i].bps
    BY <2>3, <2>4, U32RoundTrip
  <2>. QED  BY <1>8, <2>2, <2>5
<1>15. C!AllocationOf(enc) = value
  <2>1. ~(Len(enc) < 4 \/ 4 + 5 * C!U32At(enc, 0) > Len(enc))
    BY <1>2, <1>12, <1>13
  <2>2. C!AllocationOf(enc) = [i \in 1 .. n |-> [assetId |-> enc[5 * i], bps |-> C!U32At(enc, 5 * i)]]
    BY <1>13, <2>1 DEF C!AllocationOf
  <2>3. \A i \in 1 .. n : [assetId |-> enc[5 * i], bps |-> C!U32At(enc, 5 * i)] = value[i]
    BY <1>3, <1>14
  <2>. QED  BY <1>4, <2>2, <2>3
<1>16. enc # Null /\ Len(enc) < C!Word /\ enc \in Seq(C!Bytes)
  BY <1>2, <1>11, <1>12, CodecConstants DEF S
<1>17. C!Parsed("allocation", enc) = value
  BY <1>15, <1>16 DEF C!Parsed
<1>. QED  BY <1>1, <1>16, <1>17 DEF Fits

LEMMA EverythingFits ==
    ASSUME NEW field \in Fields, NEW value \in Values(field)
    PROVE  Fits(field, value)
BY AddressFits, FlagFits, TimeFits, ProfileFits, AllocationFits DEF Fields, Values

-----------------------------------------------------------------------------
(* The fields' keys.                                                       *)

\* Where a field is: in which contract, and in a mapping for which account.
Places ==
    ({"vault"} \X {"agent", "owner", "paused", "allocation", "timestamp"} \X {C!NoAddress})
        \cup ({"registry"} \X {"profile", "registered"} \X {C!AddressBytes(a) : a \in Accounts})

\* The number of a field in its contract's declaration, counted from 1.
Index(field) ==
    CASE field = "agent" -> 2
      [] field = "owner" -> 3
      [] field = "paused" -> 4
      [] field = "allocation" -> 5
      [] field = "timestamp" -> 6
      [] field = "profile" -> 2
      [] field = "registered" -> 3

KeyOf(f) == <<f[1], C!ItemKey(<<Index(f[2])>>, f[3])>>

\* A fold over a single element is one application.
LEMMA FoldOfOne ==
    ASSUME NEW i \in Nat
    PROVE  C!OdraIndexBytes(<<i>>) = IF i <= 15 THEN [packed |-> i, long |-> << >>]
                                     ELSE [packed |-> -1, long |-> <<255, 1>> \o <<i>>]
<1>. DEFINE g == [s \in SUBSET {1} |-> IF s = {} THEN 0 ELSE i]
            Recursion(f) == f = [s \in SUBSET {1} |->
                                   IF s = {} THEN 0
                                   ELSE LET x == C!Max(s) IN f[s \ {x}] * 16 + <<i>>[x]]
            F == CHOOSE f : Recursion(f)
<1>1. C!Max({1}) = 1
  BY DEF C!Max
<1>2. \A s \in SUBSET {1} : s = {} \/ s = {1}
  OBVIOUS
<1>3. ASSUME NEW f, Recursion(f) PROVE f[{1}] = i
  <2>1. f[{}] = 0
    BY <1>3
  <2>2. f[{1}] = f[{1} \ {1}] * 16 + <<i>>[1]
    BY <1>1, <1>3
  <2>3. {1} \ {1} = {} /\ <<i>>[1] = i
    OBVIOUS
  <2>. QED  BY <2>1, <2>2, <2>3
<1>4. Recursion(g)
  <2>1. ASSUME NEW s \in SUBSET {1}
        PROVE  g[s] = IF s = {} THEN 0 ELSE LET x == C!Max(s) IN g[s \ {x}] * 16 + <<i>>[x]
    <3>1. CASE s = {}
      BY <3>1
    <3>2. CASE s = {1}
      <4>1. {1} \ {1} = {} /\ <<i>>[1] = i /\ g[{}] = 0 /\ g[{1}] = i
        OBVIOUS
      <4>. HIDE DEF g
      <4>2. g[{1} \ {1}] * 16 + <<i>>[1] = i
        BY <4>1
      <4>. QED  BY <1>1, <3>2, <4>1, <4>2
    <3>. QED  BY <1>2, <3>1, <3>2
  <2>2. g = [s \in SUBSET {1} |-> g[s]]
    OBVIOUS
  <2>. HIDE DEF g
  <2>. QED  BY <2>1, <2>2
<1>. HIDE DEF g, Recursion
<1>5. F[{1}] = i
  BY <1>3, <1>4
<1>6. DOMAIN <<i>> = {1} /\ \A k \in {1} : <<i>>[k] = i
  OBVIOUS
<1>7. C!FoldLeft(LAMBDA acc, index : acc * 16 + index, 0, <<i>>) = F[{1}]
  BY <1>6 DEF C!FoldLeft, C!MapThenFoldSet, Recursion
<1>. QED  BY <1>5, <1>6, <1>7 DEF C!OdraIndexBytes

\* Two fields are not kept under one key.
LEMMA KeysDiffer ==
    ASSUME NEW f \in Places, NEW g \in Places, KeyOf(f) = KeyOf(g)
    PROVE  f = g
<1>1. ASSUME NEW h \in Places
      PROVE  /\ Index(h[2]) \in 2 .. 6 /\ h = <<h[1], h[2], h[3]>>
             /\ C!OdraIndexBytes(<<Index(h[2])>>).packed = Index(h[2])
  <2>1. Index(h[2]) \in 2 .. 6 /\ h = <<h[1], h[2], h[3]>>
    BY DEF Places, Index
  <2>2. Index(h[2]) \in Nat /\ Index(h[2]) <= 15
    BY <2>1
  <2>3. C!OdraIndexBytes(<<Index(h[2])>>) = [packed |-> Index(h[2]), long |-> << >>]
    BY <2>2, FoldOfOne
  <2>. QED  BY <2>1, <2>3
<1>2. /\ f[1] = g[1]
      /\ C!ItemKey(<<Index(f[2])>>, f[3]) = C!ItemKey(<<Index(g[2])>>, g[3])
  BY DEF KeyOf
<1>3. C!OdraIndexBytes(<<Index(f[2])>>) = C!OdraIndexBytes(<<Index(g[2])>>) /\ f[3] = g[3]
  BY <1>2 DEF C!ItemKey
<1>4. Index(f[2]) = Index(g[2])
  BY <1>1, <1>3
<1>5. f[2] = g[2]
  BY <1>2, <1>4 DEF Places, Index
<1>. QED  BY <1>1, <1>2, <1>3, <1>5

\* The dictionaries hold every field that was stored, under its own key, and nothing else;
\* an answer is about a field that is read.
CodecInv ==
    /\ DOMAIN fields \subseteq Places
    /\ \A f \in DOMAIN fields : fields[f] \in Values(f[2])
    /\ DOMAIN state = {KeyOf(f) : f \in DOMAIN fields}
    /\ \A f \in DOMAIN fields : state[KeyOf(f)] = C!Stored(f[2], fields[f])
    /\ answer # Null =>
          /\ answer[1] \in Places /\ answer[1][2] \in C!ReadFields
          /\ C!ReadsWhatWasStored /\ C!CutValuesAreNull

LEMMA CodecInvInit == C!Init => CodecInv
<1>. SUFFICES ASSUME C!Init PROVE CodecInv
  OBVIOUS
<1>1. fields = << >> /\ state = << >> /\ answer = Null
  BY DEF C!Init
<1>2. DOMAIN fields = {} /\ DOMAIN state = {}
  BY <1>1
<1>. QED  BY <1>1, <1>2 DEF CodecInv

\* A field is written under its own key, and the others keep theirs.
LEMMA WriteKeepsCodec ==
    ASSUME CodecInv, NEW contract, NEW layout, NEW field, NEW mapped, NEW value \in Values(field),
           <<contract, field, mapped>> \in Places,
           (CHOOSE i \in DOMAIN layout : layout[i] = field) = Index(field),
           C!Write(contract, layout, field, mapped, value)
    PROVE  CodecInv'
<1>. DEFINE f == <<contract, field, mapped>>
            key == <<contract, C!ItemKey(<<Index(field)>>, mapped)>>
<1>1. /\ fields' = [g \in DOMAIN fields \cup {f} |-> IF g = f THEN value ELSE fields[g]]
      /\ state' = [k \in DOMAIN state \cup {key} |-> IF k = key THEN C!Stored(field, value) ELSE state[k]]
      /\ answer' = Null
  BY DEF C!Write
<1>2. f \in Places /\ KeyOf(f) = key /\ f[2] = field
  BY DEF KeyOf
<1>. HIDE DEF f, key
<1>3. DOMAIN fields' = DOMAIN fields \cup {f} /\ DOMAIN state' = DOMAIN state \cup {key}
  BY <1>1
<1>4. DOMAIN fields' \subseteq Places
  BY <1>2, <1>3 DEF CodecInv
<1>5. \A g \in DOMAIN fields' : fields'[g] \in Values(g[2])
  BY <1>1, <1>2, <1>3 DEF CodecInv
<1>6. DOMAIN state' = {KeyOf(g) : g \in DOMAIN fields'}
  BY <1>2, <1>3 DEF CodecInv
<1>7. ASSUME NEW g \in DOMAIN fields' PROVE state'[KeyOf(g)] = C!Stored(g[2], fields'[g])
  <2>1. CASE g = f
    BY <1>1, <1>2, <1>3, <2>1
  <2>2. CASE g # f
    <3>1. g \in DOMAIN fields /\ g \in Places /\ KeyOf(g) # key
      BY <1>2, <1>3, <2>2, KeysDiffer DEF CodecInv
    <3>2. KeyOf(g) \in DOMAIN state /\ fields'[g] = fields[g]
      BY <1>1, <1>3, <2>2, <3>1 DEF CodecInv
    <3>. QED  BY <1>1, <3>1, <3>2 DEF CodecInv
  <2>. QED  BY <2>1, <2>2
<1>. QED  BY <1>1, <1>4, <1>5, <1>6, <1>7 DEF CodecInv

\* The numbers in the layouts are the fields' numbers, and the readers have the same.
LEMMA Layouts ==
    /\ \A field \in {"agent", "owner", "paused", "allocation", "timestamp"} :
          (CHOOSE i \in DOMAIN C!VaultLayout : C!VaultLayout[i] = field) = Index(field)
    /\ \A field \in {"profile", "registered"} :
          (CHOOSE i \in DOMAIN C!RegistryLayout : C!RegistryLayout[i] = field) = Index(field)
    /\ \A field \in C!ReadFields : C!FieldIndex(field) = Index(field)
<1>1. DOMAIN C!VaultLayout = 1 .. 6 /\ DOMAIN C!RegistryLayout = 1 .. 3
  BY DEF C!VaultLayout, C!RegistryLayout
<1>2. ASSUME NEW field \in {"agent", "owner", "paused", "allocation", "timestamp"}
      PROVE  (CHOOSE i \in 1 .. 6 : C!VaultLayout[i] = field) = Index(field)
  <2>1. Index(field) \in 1 .. 6 /\ \A i \in 1 .. 6 : C!VaultLayout[i] = field <=> i = Index(field)
    BY DEF C!VaultLayout, Index
  <2>. QED  BY <2>1
<1>3. ASSUME NEW field \in {"profile", "registered"}
      PROVE  (CHOOSE i \in 1 .. 3 : C!RegistryLayout[i] = field) = Index(field)
  <2>1. Index(field) \in 1 .. 3 /\ \A i \in 1 .. 3 : C!RegistryLayout[i] = field <=> i = Index(field)
    BY DEF C!RegistryLayout, Index
  <2>. QED  BY <2>1
<1>4. \A field \in C!ReadFields : C!FieldIndex(field) = Index(field)
  BY DEF C!ReadFields, C!FieldIndex, Index
<1>. QED  BY <1>1, <1>2, <1>3, <1>4

\* A field is read from its own key: its value, or null if there is none or if bytes
\* are missing.
LEMMA ReadKeepsCodec ==
    ASSUME CodecInv, NEW field \in C!ReadFields, NEW mapped,
           <<C!Contract(field), field, mapped>> \in Places, C!Read(field, mapped)
    PROVE  CodecInv'
<1>. DEFINE f == <<C!Contract(field), field, mapped>>
            key == <<C!Contract(field), C!ItemKey(<<C!FieldIndex(field)>>, mapped)>>
<1>1. UNCHANGED <<fields, state>>
  BY DEF C!Read
<1>2. f \in Places /\ KeyOf(f) = key /\ f[2] = field
  BY Layouts DEF KeyOf
<1>3. \/ key \notin DOMAIN state /\ answer' = <<f, TRUE, Null>>
      \/ /\ key \in DOMAIN state
         /\ \E n \in 0 .. Len(state[key]) :
               answer' = <<f, n = Len(state[key]), C!Parsed(field, C!Inner(SubSeq(state[key], 1, n)))>>
      \/ /\ key \in DOMAIN state
         /\ answer' = <<f, TRUE, C!Parsed(field, SubSeq(state[key], 5, Len(state[key])))>>
  BY DEF C!Read
<1>. HIDE DEF f, key
<1>4. key \in DOMAIN state <=> f \in DOMAIN fields
  BY <1>2, KeysDiffer DEF CodecInv
<1>5. ASSUME f \in DOMAIN fields
      PROVE  /\ C!Parsed(field, SubSeq(state[key], 5, Len(state[key]))) = fields[f]
             /\ \A n \in 0 .. Len(state[key]) :
                   C!Parsed(field, C!Inner(SubSeq(state[key], 1, n))) =
                       IF n = Len(state[key]) THEN fields[f] ELSE Null
  <2>. DEFINE enc == C!Encoded(field, fields[f])
              raw == C!U32Bytes(Len(enc)) \o enc
  <2>1. state[key] = raw
    BY <1>2, <1>5 DEF CodecInv, C!Stored
  <2>2. enc \in Seq(C!Bytes) /\ Len(enc) < C!Word /\ C!Parsed(field, enc) = fields[f]
    <3>1. field \in Fields /\ fields[f] \in Values(field)
      BY <1>2, <1>5 DEF CodecInv, C!ReadFields, Fields
    <3>. QED  BY <3>1, EverythingFits DEF Fits
  <2>. HIDE DEF enc
  <2>3. /\ SubSeq(raw, 5, Len(raw)) = enc
        /\ \A n \in 0 .. Len(raw) :
              C!Inner(SubSeq(raw, 1, n)) = IF n = Len(raw) THEN enc ELSE Null
    BY <2>2, InnerOfStored
  <2>4. C!Parsed(field, Null) = Null
    BY DEF C!Parsed
  <2>. HIDE DEF raw
  <2>. QED  BY <2>1, <2>2, <2>3, <2>4
<1>6. PICK whole \in BOOLEAN :
         answer' = <<f, whole, IF whole /\ f \in DOMAIN fields THEN fields[f] ELSE Null>>
  BY <1>3, <1>4, <1>5
<1>. DEFINE found == IF whole /\ f \in DOMAIN fields THEN fields[f] ELSE Null
<1>7. /\ answer'[1] = f /\ answer'[2] = whole /\ answer'[3] = found
  BY <1>6
<1>8. C!ReadsWhatWasStored'
  BY <1>1, <1>6, <1>7 DEF C!ReadsWhatWasStored
<1>9. C!CutValuesAreNull'
  BY <1>6, <1>7 DEF C!CutValuesAreNull
<1>10. answer'[1] \in Places /\ answer'[1][2] \in C!ReadFields
  BY <1>2, <1>7
<1>. QED  BY <1>1, <1>8, <1>9, <1>10 DEF CodecInv

LEMMA CodecInvStep == CodecInv /\ [C!Next]_(C!vars) => CodecInv'
<1>. SUFFICES ASSUME CodecInv, [C!Next]_(C!vars) PROVE CodecInv'
  OBVIOUS
<1>1. CASE C!VaultWrites
  <2>1. PICK field \in {"agent", "owner", "paused", "allocation", "timestamp"} :
           \E value \in Values(field) : C!Write("vault", C!VaultLayout, field, C!NoAddress, value)
    BY <1>1 DEF C!VaultWrites, Values
  <2>2. <<"vault", field, C!NoAddress>> \in Places
    BY DEF Places
  <2>. QED  BY <2>1, <2>2, Layouts, WriteKeepsCodec
<1>2. CASE C!RegistryWrites
  <2>1. PICK a \in Accounts, field \in {"profile", "registered"} :
           \E value \in Values(field) :
              C!Write("registry", C!RegistryLayout, field, C!AddressBytes(a), value)
    BY <1>2 DEF C!RegistryWrites, Values
  <2>2. <<"registry", field, C!AddressBytes(a)>> \in Places
    BY DEF Places
  <2>. QED  BY <2>1, <2>2, Layouts, WriteKeepsCodec
<1>3. ASSUME NEW field \in C!ReadFields \ {"profile"}, C!Read(field, C!NoAddress) PROVE CodecInv'
  <2>1. <<C!Contract(field), field, C!NoAddress>> \in Places
    BY DEF Places, C!Contract, C!ReadFields
  <2>. QED  BY <1>3, <2>1, ReadKeepsCodec
<1>4. ASSUME NEW a \in Accounts, C!Read("profile", C!AddressBytes(a)) PROVE CodecInv'
  <2>1. <<C!Contract("profile"), "profile", C!AddressBytes(a)>> \in Places /\ "profile" \in C!ReadFields
    BY DEF Places, C!Contract, C!ReadFields
  <2>. QED  BY <1>4, <2>1, ReadKeepsCodec
<1>5. CASE UNCHANGED C!vars
  BY <1>5 DEF C!vars, CodecInv, C!ReadsWhatWasStored, C!CutValuesAreNull
<1>. QED  BY <1>1, <1>2, <1>3, <1>4, <1>5 DEF C!Next

LEMMA CodecInvHolds == C!Spec => []CodecInv
BY CodecInvInit, CodecInvStep, PTL DEF C!Spec

LEMMA CodecInvImplies == CodecInv => DecodingIsTrue
<1>. SUFFICES ASSUME CodecInv PROVE DecodingIsTrue
  OBVIOUS
<1>1. C!ReadsWhatWasStored /\ C!CutValuesAreNull
  BY DEF CodecInv, C!ReadsWhatWasStored, C!CutValuesAreNull
<1>2. C!TypeOK
  <2>. SUFFICES ASSUME answer # Null
                PROVE  C!TypeOK
    BY DEF C!TypeOK
  <2>. DEFINE field == answer[1][2]
              value == answer[3]
  <2>1. field \in C!ReadFields
    BY DEF CodecInv
  <2>2. value = Null \/ value \in Values(field)
    BY <1>1 DEF CodecInv, C!ReadsWhatWasStored, C!CutValuesAreNull
  <2>3. ASSUME value \in Values(field)
        PROVE  /\ field = "profile" => value.score \in C!U64 /\ value.registeredAt \in C!U64
               /\ field = "agent" => Len(value) = HashBytes
               /\ field = "paused" => value \in BOOLEAN
               /\ field = "timestamp" => value \in C!U64
               /\ field = "allocation" => \A i \in DOMAIN value : value[i].bps \in C!U32
    <3>. HIDE DEF field, value
    <3>1. field = "profile" => value.score \in C!U64 /\ value.registeredAt \in C!U64
      BY <2>3, CodecConstants DEF Values
    <3>2. field = "agent" => Len(value) = HashBytes
      BY <2>3, CodecConstants DEF Values
    <3>3. field = "paused" => value \in BOOLEAN
      BY <2>3 DEF Values
    <3>4. field = "timestamp" => value \in C!U64
      BY <2>3, CodecConstants DEF Values
    <3>5. ASSUME field = "allocation" PROVE \A i \in DOMAIN value : value[i].bps \in C!U32
      <4>1. value \in Seq([assetId : C!Bytes, bps : C!U32])
        BY <2>3, <3>5, CodecConstants DEF Values
      <4>2. \A i \in DOMAIN value : value[i] \in [assetId : C!Bytes, bps : C!U32]
        BY <4>1, LenProperties, ElementOfSeq
      <4>. QED  BY <4>2
    <3>. QED  BY <3>1, <3>2, <3>3, <3>4, <3>5
  <2>. QED  BY <2>1, <2>2, <2>3 DEF C!TypeOK, C!ReadFields
<1>. QED  BY <1>1, <1>2 DEF DecodingIsTrue

\* What a reader decodes is what the contract stored in the field of that name and for
\* that account, and bytes that end too early are null: for every width of a byte, every
\* length of an account hash, and whatever profiles, allocations and times are written.
THEOREM DecodingIsAlwaysTrue == C!Spec => []DecodingIsTrue
BY CodecInvHolds, CodecInvImplies, PTL

-----------------------------------------------------------------------------
(* The allocation rules.                                                   *)

\* The last submission is remembered with what it was compared with, and the contract's
\* vector with who wrote it.
RulesInv ==
    /\ stored \in A!CallVectors
    /\ stored = << >> \/ A!ContractAccepts(stored)
    /\ view = Null \/ Len(view) >= NumAssets \/ A!ContractAccepts(view)
    /\ submitted # Null =>
          /\ submitted \in [1 .. NumAssets -> A!Entries(A!Assets, 0 .. Total)]
          /\ A!PassesSanity(submitted)
    /\ outcome = "read" => view = A!RpcView(stored)
    /\ outcome = "acted" => /\ submitted \in [1 .. NumAssets -> A!Entries(A!Assets, 0 .. Total)]
                            /\ A!PassesSanity(submitted)
                            /\ A!Drift(A!RpcView(stored), submitted) > DriftBps
    /\ outcome = "executed" => A!PassesSanity(stored)
    /\ outcome # "reverted_sum"
    /\ paused \in BOOLEAN /\ agent \in {"ours", "other"}

\* The constants of the allocation rules.
LEMMA RulesConstants ==
    /\ NumAssets \in Nat \ {0} /\ Total \in Nat \ {0} /\ MaxWeight \in Nat \ {0}
    /\ DriftBps \in Nat
    /\ Default \in [1 .. NumAssets -> A!Entries(A!Assets, 0 .. Total)]
BY ReadsAssumption DEF A!AllocationAssumption

\* The module counts with the same operator.
LEMMA SameCardinality == \A S : A!Cardinality(S) = Cardinality(S)
BY Zenon DEF A!Cardinality, Cardinality

\* The ids of a vector that a contract can hold are a finite set of numbers, and so is
\* their listing in ascending order.
LEMMA IdsOfVector ==
    ASSUME NEW v \in A!CallVectors
    PROVE  LET ids == DOMAIN A!Weights(v) IN
           /\ IsFiniteSet(ids) /\ Cardinality(ids) \in Nat
           /\ A!Ascending(ids) \in [1 .. Cardinality(ids) -> ids]
<1>. DEFINE ids == DOMAIN A!Weights(v)
<1>1. ids = {e.assetId : e \in A!ToSet(v)}
  BY DEF A!Weights
<1>2. PICK n \in 0 .. NumAssets : v \in [1 .. n -> A!Entries(0 .. NumAssets, 0 .. Total)]
  BY DEF A!CallVectors
<1>3. ids \subseteq 0 .. NumAssets
  BY <1>1, <1>2 DEF A!ToSet, A!Entries
<1>4. IsFiniteSet(0 .. NumAssets)
  BY RulesConstants, FS_Interval
<1>. HIDE DEF ids
<1>5. IsFiniteSet(ids) /\ ids \subseteq Int
  <2>1. 0 .. NumAssets \subseteq Int
    OBVIOUS
  <2>. QED  BY <1>3, <1>4, <2>1, FS_Subset
<1>6. Cardinality(ids) \in Nat
  BY <1>5, FS_CardinalityType
<1>7. PICK s \in [1 .. Cardinality(ids) -> ids] : Ascends(s, ids)
  BY <1>5, AscendingExists
<1>8. A!Ascending(ids) \in [1 .. Cardinality(ids) -> ids]
  <2>1. \E u \in [1 .. Cardinality(ids) -> ids] : \A i, j \in DOMAIN u : i < j => u[i] < u[j]
    BY <1>7 DEF Ascends
  <2>2. \E u \in [1 .. A!Cardinality(ids) -> ids] : \A i, j \in DOMAIN u : i < j => u[i] < u[j]
    BY <2>1, SameCardinality
  <2>3. A!Ascending(ids) \in [1 .. A!Cardinality(ids) -> ids]
    BY <2>2, Zenon DEF A!Ascending
  <2>. QED  BY <2>3, SameCardinality
<1>. QED  BY <1>5, <1>6, <1>8 DEF ids

\* What parseVaultState makes of a vector has an entry per asset at least.
LEMMA RestViewIsWhole ==
    ASSUME NEW v \in A!CallVectors
    PROVE  Len(A!RestView(v)) >= NumAssets
<1>. DEFINE w == A!Weights(v)
            ids == A!Ascending(DOMAIN w)
            n == Cardinality(DOMAIN w)
            m == A!Max({0, NumAssets - n})
            head == [i \in 1 .. n |-> [assetId |-> ids[i], bps |-> w[ids[i]]]]
            tail == [i \in 1 .. m |-> [assetId |-> n + i - 1, bps |-> 0]]
<1>1. n \in Nat /\ ids \in [1 .. n -> DOMAIN w]
  BY IdsOfVector
<1>. HIDE DEF w
<1>2. DOMAIN ids = 1 .. n /\ Len(ids) = n
  BY <1>1
<1>3. A!RestView(v) = head \o tail
  BY <1>2 DEF A!RestView, w
<1>. HIDE DEF ids, n
<1>4. m \in Nat /\ m >= NumAssets - n
  <2>. DEFINE short == NumAssets - n
  <2>1. short \in Int
    BY <1>1, RulesConstants
  <2>. HIDE DEF short
  <2>2. IsFiniteSet({0, short})
    <3>1. IsFiniteSet({0} \cup {short}) /\ {0} \cup {short} = {0, short}
      BY FS_Singleton, FS_AddElement
    <3>. QED  BY <3>1
  <2>3. Max({0, short}) \in {0, short} /\ \A y \in {0, short} : Max({0, short}) >= y
    BY <2>1, <2>2, MaxIsMember
  <2>4. A!Max({0, short}) = Max({0, short})
    BY DEF A!Max, Max
  <2>5. A!Max({0, short}) \in Nat /\ A!Max({0, short}) >= short
    BY <2>1, <2>3, <2>4
  <2>. QED  BY <2>5 DEF short
<1>. HIDE DEF m
<1>. DEFINE S == {head[i] : i \in 1 .. n} \cup {tail[i] : i \in 1 .. m}
<1>5. head \in Seq(S) /\ tail \in Seq(S) /\ Len(head) = n /\ Len(tail) = m
  <2>1. \A i \in 1 .. n : head[i] \in S
    OBVIOUS
  <2>2. \A i \in 1 .. m : tail[i] \in S
    OBVIOUS
  <2>3. DOMAIN head = 1 .. n /\ DOMAIN tail = 1 .. m /\ head = [i \in 1 .. n |-> head[i]]
        /\ tail = [i \in 1 .. m |-> tail[i]]
    OBVIOUS
  <2>. HIDE DEF head, tail, S
  <2>4. head \in Seq(S) /\ Len(head) = n
    BY <1>1, <2>1, <2>3
  <2>5. tail \in Seq(S) /\ Len(tail) = m
    BY <1>4, <2>2, <2>3
  <2>. QED  BY <2>4, <2>5
<1>. HIDE DEF head, tail, S
<1>6. Len(head \o tail) = n + m
  BY <1>5, ConcatProperties
<1>. QED  BY <1>1, <1>3, <1>4, <1>6, RulesConstants

\* The weights of an allocation that passes the sanity gate: one of each asset.
LEMMA SaneWeights ==
    ASSUME NEW a, A!PassesSanity(a)
    PROVE  /\ DOMAIN A!Weights(a) = A!Assets
           /\ Len(a) = NumAssets
           /\ \A i \in DOMAIN a : a[i].assetId \in A!Assets /\ a[i].bps \in 0 .. MaxWeight
<1>. DEFINE ids == {e.assetId : e \in A!ToSet(a)}
<1>1. DOMAIN A!Weights(a) = ids
  BY DEF A!Weights
<1>2. /\ Cardinality(ids) = NumAssets
      /\ Len(a) = NumAssets
      /\ \A i \in DOMAIN a : a[i].assetId \in A!Assets /\ a[i].bps \in 0 .. MaxWeight
      /\ \A e \in A!ToSet(a) : e.assetId \in A!Assets
  <2>1. \A e \in A!ToSet(a) : e.assetId \in A!Assets /\ e.bps \in 0 .. MaxWeight
    BY DEF A!PassesSanity
  <2>2. \A i \in DOMAIN a : a[i] \in A!ToSet(a)
    BY DEF A!ToSet
  <2>. QED  BY <2>1, <2>2, SameCardinality DEF A!PassesSanity
<1>5. ids \subseteq A!Assets
  BY <1>2
<1>. HIDE DEF ids
<1>3. IsFiniteSet(A!Assets) /\ Cardinality(A!Assets) = NumAssets
  BY RulesConstants, FS_Interval DEF A!Assets
<1>4. ids = A!Assets
  BY <1>2, <1>3, <1>5, FS_Subset
<1>. QED  BY <1>1, <1>2, <1>4

\* The weight of an id is that of one of its entries.
LEMMA WeightIsAnEntrys ==
    ASSUME NEW W \in SUBSET Int, NEW I, NEW n \in Nat, NEW a \in [1 .. n -> A!Entries(I, W)]
    PROVE  /\ IsFiniteSet(DOMAIN A!Weights(a))
           /\ \A id \in DOMAIN A!Weights(a) : A!Weights(a)[id] \in W
<1>. DEFINE ids == {e.assetId : e \in A!ToSet(a)}
<1>1. DOMAIN A!Weights(a) = ids
  BY DEF A!Weights
<1>2. IsFiniteSet(ids)
  <2>1. ids = {a[i].assetId : i \in 1 .. n}
    BY DEF A!ToSet
  <2>. DEFINE idOf == [i \in 1 .. n |-> a[i].assetId]
  <2>2. ids = {idOf[i] : i \in 1 .. n} /\ DOMAIN idOf = 1 .. n /\ idOf = [i \in 1 .. n |-> idOf[i]]
    BY <2>1
  <2>. HIDE DEF idOf, ids
  <2>. QED  BY <2>2, FS_Interval, ImageIsFinite
<1>3. ASSUME NEW id \in ids PROVE A!Weights(a)[id] \in W
  <2>. DEFINE places == {i \in 1 .. n : a[i].assetId = id}
  <2>1. places # {}
    BY DEF A!ToSet
  <2>2. A!Weights(a)[id] = a[Max(places)].bps
    BY DEF A!Weights, A!Max, Max
  <2>3. IsFiniteSet(places) /\ places \subseteq Int
    BY FS_Interval, FS_Subset
  <2>4. Max(places) \in 1 .. n
    <3>1. places \subseteq 1 .. n
      OBVIOUS
    <3>. HIDE DEF places
    <3>. QED  BY <2>1, <2>3, <3>1, MaxIsMember
  <2>. HIDE DEF places
  <2>. QED  BY <2>2, <2>4 DEF A!Entries
<1>. QED  BY <1>1, <1>2, <1>3

\* A drift is a number, and one that is not 0 is some id's.
LEMMA DriftIsSomebodys ==
    ASSUME NEW W \in SUBSET Int, NEW I, NEW n \in Nat, NEW a \in [1 .. n -> A!Entries(I, W)],
           NEW J, NEW m \in Nat, NEW b \in [1 .. m -> A!Entries(J, W)]
    PROVE  /\ A!Drift(a, b) \in Int
           /\ A!Drift(a, b) # 0 =>
                \E id \in DOMAIN A!Weights(a) \cup DOMAIN A!Weights(b) :
                    LET d == A!WeightIn(A!Weights(a), id) - A!WeightIn(A!Weights(b), id)
                    IN  A!Drift(a, b) = IF d < 0 THEN -d ELSE d
<1>. DEFINE c == A!Weights(a)
            r == A!Weights(b)
            ids == DOMAIN c \cup DOMAIN r
            Apart(id) == LET d == A!WeightIn(c, id) - A!WeightIn(r, id) IN IF d < 0 THEN -d ELSE d
            all == {Apart(id) : id \in ids}
<1>1. A!Drift(a, b) = Max({0} \cup all)
  BY DEF A!Drift, A!Max, Max
<1>2. /\ IsFiniteSet(DOMAIN c) /\ \A id \in DOMAIN c : c[id] \in Int
      /\ IsFiniteSet(DOMAIN r) /\ \A id \in DOMAIN r : r[id] \in Int
  <2>1. IsFiniteSet(DOMAIN c) /\ \A id \in DOMAIN c : c[id] \in W
    BY WeightIsAnEntrys
  <2>2. IsFiniteSet(DOMAIN r) /\ \A id \in DOMAIN r : r[id] \in W
    BY WeightIsAnEntrys
  <2>. QED  BY <2>1, <2>2
<1>. HIDE DEF c, r
<1>3. \A id : A!WeightIn(c, id) \in Int /\ A!WeightIn(r, id) \in Int
  BY <1>2 DEF A!WeightIn
<1>4. IsFiniteSet(ids)
  BY <1>2, FS_Union
<1>5. \A id \in ids : Apart(id) \in Int
  BY <1>3
<1>. HIDE DEF Apart, ids
<1>6. IsFiniteSet(all) /\ all \subseteq Int
  <2>. DEFINE apart == [id \in ids |-> Apart(id)]
  <2>1. all = {apart[id] : id \in ids} /\ DOMAIN apart = ids /\ apart = [id \in ids |-> apart[id]]
    OBVIOUS
  <2>2. all \subseteq Int
    BY <1>5
  <2>. HIDE DEF apart, all
  <2>. QED  BY <1>4, <2>1, <2>2, ImageIsFinite
<1>. HIDE DEF all
<1>7. IsFiniteSet({0} \cup all) /\ {0} \cup all \subseteq Int
  <2>1. IsFiniteSet(all \cup {0}) /\ all \cup {0} = {0} \cup all
    BY <1>6, FS_AddElement
  <2>2. {0} \cup all \subseteq Int
    <3>1. 0 \in Int
      OBVIOUS
    <3>. QED  BY <1>6, <3>1, Zenon
  <2>. QED  BY <2>1, <2>2, Zenon
<1>8. Max({0} \cup all) \in {0} \cup all
  BY <1>7, MaxIsMember
<1>9. A!Drift(a, b) \in {0} \cup all
  BY <1>1, <1>8, Zenon
<1>10. A!Drift(a, b) # 0 => \E id \in ids : A!Drift(a, b) = Apart(id)
  BY <1>9 DEF all
<1>. QED  BY <1>7, <1>9, <1>10 DEF Apart, ids, c, r

\* A drift above the threshold between two allocations that pass the gate is some asset's.
LEMMA DriftIsSomeAssets ==
    ASSUME NEW W \in SUBSET Int, NEW I, NEW n \in Nat, NEW a \in [1 .. n -> A!Entries(I, W)],
           NEW J, NEW m \in Nat, NEW b \in [1 .. m -> A!Entries(J, W)],
           A!PassesSanity(a), A!PassesSanity(b), A!Drift(a, b) > DriftBps
    PROVE  \E id \in A!Assets :
              LET d == A!Weights(a)[id] - A!Weights(b)[id]
              IN  d > DriftBps \/ -d > DriftBps
<1>. DEFINE c == A!Weights(a)
            r == A!Weights(b)
            D == A!Drift(a, b)
<1>1. DOMAIN c = A!Assets /\ DOMAIN r = A!Assets
  BY SaneWeights
<1>2. D \in Int /\ D # 0 /\ DriftBps \in Int
  <2>1. D \in Int
    BY DriftIsSomebodys
  <2>. QED  BY <2>1, RulesConstants
<1>3. PICK id \in DOMAIN c \cup DOMAIN r :
         LET d == A!WeightIn(c, id) - A!WeightIn(r, id) IN D = IF d < 0 THEN -d ELSE d
  BY <1>2, DriftIsSomebodys
<1>. HIDE DEF c, r, D
<1>4. D = IF c[id] - r[id] < 0 THEN -(c[id] - r[id]) ELSE c[id] - r[id]
  BY <1>1, <1>3 DEF A!WeightIn
<1>5. c[id] - r[id] > DriftBps \/ -(c[id] - r[id]) > DriftBps
  BY <1>4 DEF D
<1>. QED  BY <1>1, <1>5 DEF c, r

\* What the contract holds or the reader puts in its place is a list of entries.
LEMMA RpcViewType ==
    ASSUME NEW v \in A!CallVectors
    PROVE  \E n \in Nat : A!RpcView(v) \in [1 .. n -> A!Entries(0 .. NumAssets, 0 .. Total)]
<1>1. Default \in [1 .. NumAssets -> A!Entries(0 .. NumAssets, 0 .. Total)]
  BY RulesConstants DEF A!Entries, A!Assets
<1>2. PICK n \in 0 .. NumAssets : v \in [1 .. n -> A!Entries(0 .. NumAssets, 0 .. Total)]
  BY DEF A!CallVectors
<1>3. n \in Nat /\ NumAssets \in Nat
  BY RulesConstants
<1>. QED  BY <1>1, <1>2, <1>3 DEF A!RpcView

LEMMA RulesInvInit == A!Init => RulesInv
<1>. SUFFICES ASSUME A!Init PROVE RulesInv
  OBVIOUS
<1>1. << >> \in A!CallVectors
  BY RulesConstants DEF A!CallVectors
<1>. QED  BY <1>1 DEF A!Init, RulesInv

\* An answer that passes the schema has an entry for each of the assets.
LEMMA SchemaType ==
    ASSUME NEW a \in A!Answers, A!PassesSchema(a)
    PROVE  a \in [1 .. NumAssets -> A!Entries(A!Assets, 0 .. Total)]
<1>. DEFINE E == A!Entries(A!Assets, 0 .. Total)
<1>1. Default \in Seq(E) /\ Len(Default) = NumAssets /\ Default # << >> /\ Default[1] \in E
  BY RulesConstants
<1>. HIDE DEF E
<1>2. Len(Tail(Default)) = NumAssets - 1
  BY <1>1, HeadTailProperties
<1>3. Len(Append(Default, Default[1])) = NumAssets + 1
  BY <1>1, AppendProperties
<1>4. Len(a) = NumAssets
  BY DEF A!PassesSchema
<1>5. a \in [1 .. NumAssets -> A!Entries(-1 .. NumAssets, -1 .. Total + 1)]
  BY <1>2, <1>3, <1>4, RulesConstants DEF A!Answers
<1>6. \A i \in 1 .. NumAssets : a[i].assetId \in A!Assets /\ a[i].bps \in 0 .. Total
  BY <1>5 DEF A!PassesSchema, A!ToSet
<1>7. \A i \in 1 .. NumAssets : a[i] \in E
  BY <1>5, <1>6 DEF A!Entries, E
<1>. QED  BY <1>5, <1>7 DEF E

LEMMA RulesInvStep == RulesInv /\ [A!Next]_(A!vars) => RulesInv'
<1>. SUFFICES ASSUME RulesInv, [A!Next]_(A!vars) PROVE RulesInv'
  OBVIOUS
<1>. USE RulesConstants
<1>1. CASE A!Perceive
  <2>1. view' \in {A!RpcView(stored), A!RestView(stored), Default} /\ UNCHANGED <<stored, submitted, paused, agent>>
        /\ outcome' = IF view' = A!RpcView(stored) THEN "read" ELSE "guessed"
    BY <1>1 DEF A!Perceive
  <2>2. Len(Default) = NumAssets
    OBVIOUS
  <2>3. view' = A!RpcView(stored) => Len(view') >= NumAssets \/ A!ContractAccepts(view')
    BY <2>2 DEF A!RpcView, RulesInv
  <2>4. Len(A!RestView(stored)) >= NumAssets
    BY RestViewIsWhole DEF RulesInv
  <2>5. Len(view') >= NumAssets \/ A!ContractAccepts(view')
    BY <2>1, <2>2, <2>3, <2>4
  <2>6. outcome' \in {"read", "guessed"} /\ (outcome' = "read" => view' = A!RpcView(stored'))
    BY <2>1
  <2>. QED  BY <2>1, <2>5, <2>6 DEF RulesInv
<1>2. CASE A!Decide
  <2>1. PICK given \in A!Answers :
          /\ outcome' =
                IF ~A!PassesSchema(given) THEN "llm_invalid_output"
                ELSE IF ~A!PassesSanity(given) THEN "allocation_out_of_bounds"
                ELSE IF A!Drift(view, given) <= DriftBps THEN "drift_below_threshold"
                ELSE IF outcome = "read" THEN "acted" ELSE "acted_on_guess"
          /\ submitted' = IF outcome' \in {"acted", "acted_on_guess"} THEN given ELSE Null
    BY <1>2 DEF A!Decide
  <2>2. view' = Null /\ stored' = stored /\ paused' = paused /\ agent' = agent
    BY <1>2 DEF A!Decide
  <2>3. ASSUME outcome' \in {"acted", "acted_on_guess"}
        PROVE  /\ submitted' = given /\ A!PassesSchema(given) /\ A!PassesSanity(given)
               /\ ~(A!Drift(view, given) <= DriftBps)
               /\ outcome' = "acted" => outcome = "read"
    BY <2>1, <2>3
  <2>4. submitted' # Null =>
          /\ submitted' \in [1 .. NumAssets -> A!Entries(A!Assets, 0 .. Total)]
          /\ A!PassesSanity(submitted')
    BY <2>1, <2>3, SchemaType
  <2>5. ASSUME outcome' = "acted"
        PROVE  /\ submitted' \in [1 .. NumAssets -> A!Entries(A!Assets, 0 .. Total)]
               /\ A!PassesSanity(submitted')
               /\ A!Drift(A!RpcView(stored'), submitted') > DriftBps
    <3>1. /\ submitted' = given /\ A!PassesSanity(given)
          /\ given \in [1 .. NumAssets -> A!Entries(A!Assets, 0 .. Total)]
      BY <2>3, <2>5, SchemaType
    <3>2. view = A!RpcView(stored) /\ stored \in A!CallVectors
      BY <2>3, <2>5 DEF RulesInv
    <3>3. PICK n \in Nat : A!RpcView(stored) \in [1 .. n -> A!Entries(0 .. NumAssets, 0 .. Total)]
      BY <3>2, RpcViewType
    <3>4. 0 .. Total \in SUBSET Int /\ NumAssets \in Nat
      OBVIOUS
    <3>5. A!Drift(A!RpcView(stored), given) \in Int
      BY <3>1, <3>3, <3>4, DriftIsSomebodys
    <3>6. A!Drift(A!RpcView(stored), given) > DriftBps
      <4>1. ~(A!Drift(A!RpcView(stored), given) <= DriftBps)
        BY <2>3, <2>5, <3>2
      <4>. QED  BY <3>5, <4>1
    <3>. QED  BY <2>2, <3>1, <3>6
  <2>6. outcome' \notin {"read", "executed", "reverted_sum"}
    BY <2>1
  <2>. QED  BY <2>2, <2>4, <2>5, <2>6 DEF RulesInv
<1>3. CASE A!Execute
  <2>1. A!PassesSanity(submitted) /\ A!ContractAccepts(submitted)
    BY <1>3 DEF A!Execute, RulesInv, A!PassesSanity, A!ContractAccepts
  <2>2. /\ outcome' \in {"reverted_paused", "reverted_not_agent", "executed"}
        /\ stored' = IF outcome' = "executed" THEN submitted ELSE stored
        /\ submitted' = Null /\ view' = view /\ paused' = paused /\ agent' = agent
    BY <1>3, <2>1 DEF A!Execute
  <2>3. submitted \in A!CallVectors
    <3>1. submitted \in [1 .. NumAssets -> A!Entries(0 .. NumAssets, 0 .. Total)]
      BY <1>3 DEF A!Execute, RulesInv, A!Entries, A!Assets
    <3>. QED  BY <3>1 DEF A!CallVectors
  <2>. QED  BY <2>1, <2>2, <2>3 DEF RulesInv
<1>4. CASE A!OtherAgent
  <2>1. stored' \in A!CallVectors /\ A!ContractAccepts(stored') /\ submitted' = submitted
        /\ outcome' = "replaced" /\ view' = view /\ paused' = paused /\ agent' = agent
    BY <1>4 DEF A!OtherAgent
  <2>. QED  BY <2>1 DEF RulesInv
<1>5. CASE A!Owner
  <2>1. /\ stored' = stored /\ view' = view /\ submitted' = submitted /\ outcome' = outcome
        /\ paused' \in BOOLEAN /\ agent' \in {"ours", "other"}
    BY <1>5 DEF A!Owner, RulesInv
  <2>. QED  BY <2>1 DEF RulesInv
<1>6. CASE UNCHANGED A!vars
  BY <1>6 DEF A!vars, RulesInv
<1>. QED  BY <1>1, <1>2, <1>3, <1>4, <1>5, <1>6 DEF A!Next

LEMMA RulesInvHolds == A!Spec => []RulesInv
BY RulesInvInit, RulesInvStep, PTL DEF A!Spec

LEMMA RulesInvImplies == RulesInv => RulesAgree
<1>. SUFFICES ASSUME RulesInv PROVE RulesAgree
  OBVIOUS
<1>1. A!TypeOK
  <2>1. submitted # Null => submitted \in [1 .. NumAssets -> A!Entries(A!Assets, 0 .. MaxWeight)]
    BY SaneWeights DEF RulesInv, A!Entries
  <2>. QED  BY <2>1 DEF RulesInv, A!TypeOK
<1>2. A!NeverForItsWeights
  BY DEF RulesInv, A!NeverForItsWeights
<1>3. A!EachAssetOnce
  <2>1. \A i \in DOMAIN stored : A!PassesSanity(stored) => stored[i].bps <= MaxWeight
    BY SaneWeights, RulesConstants
  <2>. QED  BY <2>1, SaneWeights DEF RulesInv, A!EachAssetOnce
<1>4. A!ActsOnChange
  <2>. SUFFICES ASSUME outcome = "acted", A!PassesSanity(A!RpcView(stored))
                PROVE  \E id \in A!Assets :
                          LET d == A!Weights(A!RpcView(stored))[id] - A!Weights(submitted)[id]
                          IN  d > DriftBps \/ -d > DriftBps
    BY DEF A!ActsOnChange
  <2>1. PICK n \in Nat : A!RpcView(stored) \in [1 .. n -> A!Entries(0 .. NumAssets, 0 .. Total)]
    BY RpcViewType DEF RulesInv
  <2>2. 0 .. Total \in SUBSET Int /\ NumAssets \in Nat
    BY RulesConstants
  <2>3. /\ submitted \in [1 .. NumAssets -> A!Entries(A!Assets, 0 .. Total)]
        /\ A!PassesSanity(submitted) /\ A!Drift(A!RpcView(stored), submitted) > DriftBps
    BY DEF RulesInv
  <2>. QED  BY <2>1, <2>2, <2>3, DriftIsSomeAssets
<1>. QED  BY <1>1, <1>2, <1>3, <1>4 DEF RulesAgree

\* The agent's rules and the contract's agree, for any number of assets, any total, cap and
\* threshold, and whatever the owner and another agent do in between: what passes the gates
\* reverts for the pause or the caller only, and names every asset once when it is written.
THEOREM RulesAlwaysAgree == A!Spec => []RulesAgree
BY RulesInvHolds, RulesInvImplies, PTL

=============================================================================
