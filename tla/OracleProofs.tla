---------------------------- MODULE OracleProofs ----------------------------
(***************************************************************************)
(* Theorems about Oracle: what the x402 endpoint promises, for every set   *)
(* of purchases, copies of their payloads, prices and lives of the oracle. *)
(***************************************************************************)
EXTENDS Oracle, FiniteSetTheorems, SequenceTheorems, TLAPS

-----------------------------------------------------------------------------
(* The inductive invariant.                                                *)

\* Presentations whose payment was verified and whose answer is not out yet.
Open(p) == handler[p] \in {"writing", "written"}

\* A presentation the oracle works on has used up its nonce, pays enough, and is
\* the only one of its nonce the oracle works on.
OpenOnesPaid ==
    /\ \A p \in Presentations : Open(p) => /\ Nonce(p) \in seenNonces
                                           /\ amount[Nonce(p)] >= Price
    /\ \A p, q \in Presentations :
          Open(p) /\ Open(q) /\ Nonce(p) = Nonce(q) => p = q

\* A nonce served in this life is used up, and nothing else is open for it.
ServedAreClosed ==
    \A s \in served :
        /\ s.life <= life
        /\ handler[s.by] = "served"
        /\ amount[Nonce(s.by)] >= Price
        /\ s.life = life =>
              /\ Nonce(s.by) \in seenNonces
              /\ \A p \in Presentations : Open(p) => Nonce(p) # Nonce(s.by)

\* Those of the presentations of C whose line was written whole.
Covered(C) == {p \in Presentations : Nonce(p) \in C /\ handler[p] \in {"written", "served"}}

\* The file ends in a line of C's that the next append will take with it.
Spare(C) == torn /\ Len(payments) \in LinesFor(C)

\* A line for every presentation that was written whole, and one more while a line
\* without its newline waits for the append that will be lost in it.
LinesCoverAnswers ==
    \A C \in SUBSET Purchases :
        /\ IsFiniteSet(Covered(C))
        /\ Cardinality(Covered(C)) + (IF Spare(C) THEN 1 ELSE 0) <= Cardinality(LinesFor(C))

AgentAfterOracle ==
    \A c \in Purchases : \A i \in DOMAIN payments :
        payments[i] = Entry("agent", c) => \E j \in LinesFor({c}) : j < i

UnderpaidHasNoEntry == \A c \in Purchases : amount[c] < Price => EntriesOf(c) = {}

\* A client that has its data has a line; one that has not paid yet has no request
\* under way, so paying never overwrites what became of an earlier one.
ClientsAreTrue ==
    \A c \in Purchases :
        /\ client[c] \in {"paid", "done"} => LinesFor({c}) # {}
        /\ client[c] \in {"idle", "asking", "offered"} => handler[<<c, 1>>] = "none"

IInv ==
    /\ TypeOK
    /\ latest <= now
    /\ OpenOnesPaid
    /\ ServedAreClosed
    /\ HonouredOncePerLife
    /\ LinesCoverAnswers
    /\ AgentAfterOracle
    /\ UnderpaidHasNoEntry
    /\ ClientsAreTrue

-----------------------------------------------------------------------------
(* Facts the steps share.                                                  *)

LEMMA PresentationFacts ==
    /\ \A p \in Presentations : Nonce(p) \in Purchases
    /\ \A c \in Purchases : <<c, 1>> \in Presentations /\ Nonce(<<c, 1>>) = c
BY OracleAssumption DEF Presentations, Nonce

LEMMA LineFacts ==
    /\ Broken \in Lines /\ Seeded \in Lines
    /\ Broken.writer = "nobody" /\ Seeded.writer = "demo" /\ Seeded # Broken
    /\ \A c \in Purchases : \A who \in {"oracle", "agent"} :
          /\ Entry(who, c) \in Lines /\ Entry(who, c).writer = who
          /\ Entry(who, c).nonce = c /\ Entry(who, c) # Broken
BY DEF Lines, Entries, Entry, Seeded, Broken

\* A line that counts for C, as LinesFor has it.
Counts(line, C) == line = Broken \/ (line.writer = "oracle" /\ line.nonce \in C)

LEMMA LinesAreFinite ==
    ASSUME payments \in Seq(Lines), NEW C
    PROVE  /\ IsFiniteSet(LinesFor(C)) /\ Cardinality(LinesFor(C)) \in Nat
           /\ \A i \in LinesFor(C) : i \in Nat /\ 1 <= i /\ i <= Len(payments)
<1>1. DOMAIN payments = 1 .. Len(payments) /\ Len(payments) \in Nat
  OBVIOUS
<1>2. LinesFor(C) \subseteq 1 .. Len(payments)
  BY <1>1 DEF LinesFor
<1>3. IsFiniteSet(LinesFor(C))
  <2>1. IsFiniteSet(1 .. Len(payments))
    BY <1>1, FS_Interval
  <2>. QED  BY <1>2, <2>1, FS_Subset
<1>. QED  BY <1>1, <1>2, <1>3, FS_CardinalityType

\* What an append does to the lines, whole or cut short, behind a torn line or not.
LEMMA LineWritten ==
    ASSUME payments \in Seq(Lines), torn => Len(payments) > 0,
           NEW line \in Lines, NEW cut, Written(line, cut)
    PROVE  /\ payments' \in Seq(Lines)
           /\ Len(payments') = IF torn THEN Len(payments) ELSE Len(payments) + 1
           /\ \A i \in 1 .. Len(payments) : payments'[i] = payments[i] \/ payments'[i] = Broken
           /\ torn => payments'[Len(payments)] = Broken
           /\ ~torn => /\ \A i \in 1 .. Len(payments) : payments'[i] = payments[i]
                       /\ payments'[Len(payments) + 1] = line
           /\ torn => \A i \in 1 .. Len(payments) : i # Len(payments) => payments'[i] = payments[i]
<1>1. DOMAIN payments = 1 .. Len(payments) /\ Len(payments) \in Nat
  OBVIOUS
<1>2. CASE torn
  <2>. DEFINE n == Len(payments)
  <2>1. n \in 1 .. Len(payments)
    BY <1>1, <1>2
  <2>2. payments' = [payments EXCEPT ![n] = Broken]
    BY <1>2 DEF Written
  <2>. HIDE DEF n
  <2>3. /\ payments' \in Seq(Lines) /\ Len(payments') = Len(payments) /\ payments'[n] = Broken
        /\ \A i \in 1 .. Len(payments) : i # n => payments'[i] = payments[i]
    BY <2>1, <2>2, ExceptSeq, LineFacts
  <2>. QED  BY <1>2, <2>1, <2>3 DEF n
<1>3. CASE ~torn
  <2>1. payments' = Append(payments, line)
    BY <1>3 DEF Written
  <2>2. /\ payments' \in Seq(Lines) /\ Len(payments') = Len(payments) + 1
        /\ \A i \in 1 .. Len(payments) : payments'[i] = payments[i]
        /\ payments'[Len(payments) + 1] = line
    BY <2>1, AppendProperties
  <2>. QED  BY <1>3, <2>2
<1>. QED  BY <1>2, <1>3

\* Behind a torn line the torn one becomes unreadable, and counts for everybody.
LEMMA LinesGrow ==
    ASSUME payments \in Seq(Lines), torn => Len(payments) > 0,
           NEW line \in Lines, NEW cut, Written(line, cut), NEW C
    PROVE  /\ torn => LinesFor(C)' = LinesFor(C) \cup {Len(payments)}
           /\ ~torn /\ Counts(line, C) => LinesFor(C)' = LinesFor(C) \cup {Len(payments) + 1}
           /\ ~torn /\ ~Counts(line, C) => LinesFor(C)' = LinesFor(C)
<1>. DEFINE n == Len(payments)
            before == LinesFor(C)
            after  == LinesFor(C)'
<1>1. n \in Nat /\ payments' \in Seq(Lines) /\ Len(payments') = IF torn THEN n ELSE n + 1
  BY LineWritten
<1>2. /\ \A i : i \in before <=> i \in 1 .. n /\ Counts(payments[i], C)
      /\ \A i : i \in after <=> i \in 1 .. Len(payments') /\ Counts(payments'[i], C)
  BY <1>1 DEF LinesFor, Counts
<1>3. Counts(Broken, C)
  BY DEF Counts
<1>. HIDE DEF before, after
<1>4. CASE torn
  <2>1. /\ n \in 1 .. n /\ payments'[n] = Broken
        /\ \A i \in 1 .. n : i # n => payments'[i] = payments[i]
    BY <1>1, <1>4, LineWritten
  <2>2. Len(payments') = n
    BY <1>1, <1>4
  <2>. HIDE DEF n
  <2>3. \A i : i \in after <=> i \in before \/ i = n
    BY <1>2, <1>3, <2>1, <2>2
  <2>4. after = before \cup {n}
    BY <2>3
  <2>. QED  BY <1>4, <2>4 DEF n, before, after
<1>5. CASE ~torn
  <2>. DEFINE m == n + 1
  <2>1. /\ m \notin 1 .. n /\ \A i : i \in 1 .. m <=> i \in 1 .. n \/ i = m
    BY <1>1
  <2>2. payments'[m] = line /\ \A i \in 1 .. n : payments'[i] = payments[i]
    BY <1>5, LineWritten
  <2>3. Len(payments') = m
    BY <1>1, <1>5
  <2>. HIDE DEF n, m
  <2>4. \A i : i \in after <=> i \in before \/ (i = m /\ Counts(line, C))
    BY <1>2, <2>1, <2>2, <2>3
  <2>5. (Counts(line, C) => after = before \cup {m}) /\ (~Counts(line, C) => after = before)
    BY <2>4
  <2>. QED  BY <1>5, <2>5 DEF n, m, before, after
<1>. QED  BY <1>4, <1>5

\* A line added keeps the balance: whole, it may pay for one presentation more; cut
\* short, it is the spare one.
LEMMA BalanceKept ==
    ASSUME payments \in Seq(Lines), torn => Len(payments) > 0,
           NEW line \in Lines, NEW cut \in BOOLEAN, Written(line, cut), NEW C, NEW k \in Nat,
           k + (IF Spare(C) THEN 1 ELSE 0) <= Cardinality(LinesFor(C))
    PROVE  /\ k + (IF Spare(C)' THEN 1 ELSE 0) <= Cardinality(LinesFor(C)')
           /\ ~cut /\ Counts(line, C) =>
                 /\ k + 1 <= Cardinality(LinesFor(C)') /\ ~Spare(C)'
<1>. DEFINE n == Len(payments)
            before == LinesFor(C)
            after  == LinesFor(C)'
<1>1. n \in Nat /\ payments' \in Seq(Lines) /\ Len(payments') = IF torn THEN n ELSE n + 1
  BY LineWritten
<1>2. /\ IsFiniteSet(before) /\ Cardinality(before) \in Nat
      /\ n + 1 \notin before
  BY <1>1, LinesAreFinite
<1>3. /\ torn => after = before \cup {n}
      /\ ~torn /\ Counts(line, C) => after = before \cup {n + 1}
      /\ ~torn /\ ~Counts(line, C) => after = before
  BY LinesGrow
<1>4. /\ Spare(C) <=> torn /\ n \in before
      /\ Spare(C)' <=> cut /\ Len(payments') \in after
  BY DEF Spare, Written
<1>5. k + (IF Spare(C) THEN 1 ELSE 0) <= Cardinality(before)
  OBVIOUS
<1>. HIDE DEF n, before, after
<1>6. CASE torn /\ n \in before
  <2>1. after = before
    BY <1>3, <1>6
  <2>. QED  BY <1>2, <1>4, <1>5, <1>6, <2>1 DEF before, after
<1>7. CASE torn /\ n \notin before
  <2>1. Cardinality(after) = Cardinality(before) + 1
    BY <1>2, <1>3, <1>7, FS_AddElement
  <2>. QED  BY <1>2, <1>4, <1>5, <1>7, <2>1 DEF before, after
<1>8. CASE ~torn /\ Counts(line, C)
  <2>1. Cardinality(after) = Cardinality(before) + 1
    BY <1>2, <1>3, <1>8, FS_AddElement
  <2>. QED  BY <1>2, <1>4, <1>5, <1>8, <2>1 DEF before, after
<1>9. CASE ~torn /\ ~Counts(line, C)
  <2>1. after = before /\ ~Spare(C)' /\ ~Spare(C)
    BY <1>1, <1>2, <1>3, <1>4, <1>9
  <2>. QED  BY <1>5, <1>9, <2>1 DEF before, after
<1>. QED  BY <1>6, <1>7, <1>8, <1>9

\* What an append leaves true whoever writes: the agent only for a purchase that has
\* a line, the oracle only for one that paid enough.
LEMMA LogKept ==
    ASSUME IInv, NEW line \in Lines, NEW cut \in BOOLEAN, Written(line, cut), UNCHANGED amount,
           line.writer = "agent" => LinesFor({line.nonce}) # {},
           line.writer = "oracle" => ~(amount[line.nonce] < Price)
    PROVE  /\ payments' \in Seq(Lines) /\ torn' \in BOOLEAN
           /\ cleared' \in Nat /\ cleared' <= Len(payments')
           /\ torn' => cleared' < Len(payments')
           /\ AgentAfterOracle' /\ UnderpaidHasNoEntry'
           /\ \A c \in Purchases : LinesFor({c}) # {} => LinesFor({c})' # {}
           /\ \A C \in SUBSET Purchases :
                 /\ Cardinality(Covered(C)) + (IF Spare(C)' THEN 1 ELSE 0) <= Cardinality(LinesFor(C)')
                 /\ ~cut /\ Counts(line, C) =>
                       Cardinality(Covered(C)) + 1 <= Cardinality(LinesFor(C)') /\ ~Spare(C)'
<1>1. /\ payments \in Seq(Lines) /\ torn \in BOOLEAN /\ cleared \in Nat /\ Len(payments) \in Nat
      /\ cleared <= Len(payments) /\ (torn => cleared < Len(payments)) /\ (torn => Len(payments) > 0)
  BY DEF IInv, TypeOK
<1>2. /\ payments' \in Seq(Lines) /\ torn' = cut /\ cleared' = cleared
      /\ Len(payments') = IF torn THEN Len(payments) ELSE Len(payments) + 1
  BY <1>1, LineWritten DEF Written
<1>3. /\ cleared' <= Len(payments') /\ (torn' => cleared' < Len(payments'))
  BY <1>1, <1>2
<1>4. \A C : LinesFor(C) \subseteq LinesFor(C)'
  <2>1. ASSUME NEW C PROVE LinesFor(C) \subseteq LinesFor(C)'
    BY <1>1, LinesGrow
  <2>. QED  BY <2>1
<1>5. AgentAfterOracle'
  <2>. SUFFICES ASSUME NEW c \in Purchases, NEW i \in DOMAIN payments',
                       payments'[i] = Entry("agent", c)
                PROVE  \E j \in LinesFor({c})' : j < i
    BY DEF AgentAfterOracle, Entry
  <2>1. i \in 1 .. Len(payments')
    BY <1>2
  <2>2. CASE i \in 1 .. Len(payments) /\ payments'[i] = payments[i]
    <3>1. i \in DOMAIN payments /\ payments[i] = Entry("agent", c)
      BY <1>1, <2>2
    <3>2. PICK j \in LinesFor({c}) : j < i
      BY <3>1 DEF IInv, AgentAfterOracle
    <3>. QED  BY <1>4, <3>2
  <2>3. CASE ~torn /\ i = Len(payments) + 1
    <3>1. payments'[i] = line
      BY <1>1, <2>3, LineWritten
    <3>2. PICK j \in LinesFor({c}) : TRUE
      BY <3>1, LineFacts
    <3>3. j \in Nat /\ j <= Len(payments)
      BY <1>1, <3>2, LinesAreFinite
    <3>4. j < i
      BY <1>1, <2>3, <3>3
    <3>. QED  BY <1>4, <3>2, <3>4
  <2>4. payments'[i] # Broken
    BY LineFacts
  <2>5. \A k \in 1 .. Len(payments) : payments'[k] = payments[k] \/ payments'[k] = Broken
    BY <1>1, LineWritten
  <2>6. i \in 1 .. Len(payments) \/ (~torn /\ i = Len(payments) + 1)
    BY <1>1, <1>2, <2>1
  <2>. QED  BY <2>2, <2>3, <2>4, <2>5, <2>6
<1>6. UnderpaidHasNoEntry'
  <2>. SUFFICES ASSUME NEW c \in Purchases, amount[c] < Price, NEW i \in EntriesOf(c)'
                PROVE  FALSE
    BY DEF UnderpaidHasNoEntry
  <2>1. /\ i \in 1 .. Len(payments') /\ payments'[i].writer = "oracle" /\ payments'[i].nonce = c
    BY <1>2 DEF EntriesOf
  <2>2. CASE i \in 1 .. Len(payments) /\ payments'[i] = payments[i]
    <3>1. i \in EntriesOf(c)
      BY <1>1, <2>1, <2>2 DEF EntriesOf
    <3>. QED  BY <3>1 DEF IInv, UnderpaidHasNoEntry
  <2>3. CASE ~torn /\ i = Len(payments) + 1
    <3>1. payments'[i] = line
      BY <1>1, <2>3, LineWritten
    <3>. QED  BY <2>1, <3>1
  <2>4. payments'[i] # Broken
    BY <2>1, LineFacts
  <2>5. \A k \in 1 .. Len(payments) : payments'[k] = payments[k] \/ payments'[k] = Broken
    BY <1>1, LineWritten
  <2>6. i \in 1 .. Len(payments) \/ (~torn /\ i = Len(payments) + 1)
    BY <1>1, <1>2, <2>1
  <2>. QED  BY <2>2, <2>3, <2>4, <2>5, <2>6
<1>7. ASSUME NEW C \in SUBSET Purchases
      PROVE  /\ Cardinality(Covered(C)) + (IF Spare(C)' THEN 1 ELSE 0) <= Cardinality(LinesFor(C)')
             /\ ~cut /\ Counts(line, C) =>
                   Cardinality(Covered(C)) + 1 <= Cardinality(LinesFor(C)') /\ ~Spare(C)'
  <2>. DEFINE k == Cardinality(Covered(C))
  <2>1. k \in Nat /\ k + (IF Spare(C) THEN 1 ELSE 0) <= Cardinality(LinesFor(C))
    BY FS_CardinalityType DEF IInv, LinesCoverAnswers
  <2>. HIDE DEF k
  <2>2. /\ k + (IF Spare(C)' THEN 1 ELSE 0) <= Cardinality(LinesFor(C)')
        /\ ~cut /\ Counts(line, C) => k + 1 <= Cardinality(LinesFor(C)') /\ ~Spare(C)'
    BY <1>1, <2>1, BalanceKept
  <2>. QED  BY <2>2 DEF k
<1>. QED  BY <1>1, <1>2, <1>3, <1>4, <1>5, <1>6, <1>7

\* The same, for an append that was cut short.
LEMMA CutKeepsLog ==
    ASSUME IInv, NEW line \in Lines, CutShort(line), UNCHANGED amount,
           line.writer = "agent" => LinesFor({line.nonce}) # {},
           line.writer = "oracle" => ~(amount[line.nonce] < Price)
    PROVE  /\ payments' \in Seq(Lines) /\ torn' \in BOOLEAN
           /\ cleared' \in Nat /\ cleared' <= Len(payments')
           /\ torn' => cleared' < Len(payments')
           /\ AgentAfterOracle' /\ UnderpaidHasNoEntry'
           /\ \A c \in Purchases : LinesFor({c}) # {} => LinesFor({c})' # {}
           /\ \A C \in SUBSET Purchases :
                 Cardinality(Covered(C)) + (IF Spare(C)' THEN 1 ELSE 0) <= Cardinality(LinesFor(C)')
<1>1. CASE Written(line, TRUE)
  BY <1>1, LogKept
<1>2. CASE Written(Broken, TRUE)
  BY <1>2, LogKept, LineFacts
<1>. QED  BY <1>1, <1>2 DEF CutShort

\* Steps that write no line, serve nothing and leave the requests the oracle works
\* on where they are.
LEMMA FrameKept ==
    ASSUME IInv, UNCHANGED <<life, amount, payments, torn, served>>,
           seenNonces \subseteq seenNonces',
           \A p \in Presentations :
               /\ Open(p)' <=> Open(p)
               /\ handler'[p] = "written" <=> handler[p] = "written"
               /\ handler'[p] = "served" <=> handler[p] = "served"
    PROVE  /\ OpenOnesPaid' /\ ServedAreClosed' /\ HonouredOncePerLife'
           /\ LinesCoverAnswers' /\ AgentAfterOracle' /\ UnderpaidHasNoEntry'
           /\ \A C : LinesFor(C)' = LinesFor(C)
<1>1. OpenOnesPaid'
  BY DEF IInv, OpenOnesPaid
<1>2. \A s \in served : s.by \in Presentations
  BY DEF IInv, TypeOK, Servings
<1>3. ServedAreClosed'
  BY <1>2 DEF IInv, ServedAreClosed
<1>4. \A C : LinesFor(C)' = LinesFor(C) /\ Covered(C)' = Covered(C) /\ (Spare(C)' <=> Spare(C))
  BY DEF LinesFor, Covered, Spare
<1>5. \A c \in Purchases : EntriesOf(c)' = EntriesOf(c)
  BY DEF EntriesOf
<1>6. HonouredOncePerLife' /\ AgentAfterOracle'
  BY <1>4 DEF IInv, HonouredOncePerLife, AgentAfterOracle
<1>7. LinesCoverAnswers' /\ UnderpaidHasNoEntry'
  BY <1>4, <1>5 DEF IInv, LinesCoverAnswers, UnderpaidHasNoEntry
<1>. QED  BY <1>1, <1>3, <1>4, <1>6, <1>7

BeforePaying == {"idle", "asking", "offered"}

\* A step of the frame whose client does not come to hold data the oracle has no
\* line for, nor goes back to before it paid.
Quiet ==
    /\ UNCHANGED <<life, amount, payments, torn, served>>
    /\ seenNonces \subseteq seenNonces'
    /\ \A p \in Presentations :
          /\ Open(p)' <=> Open(p)
          /\ handler'[p] = "written" <=> handler[p] = "written"
          /\ handler'[p] = "served" <=> handler[p] = "served"
    /\ \A c \in Purchases :
          /\ client'[c] \in {"paid", "done"} =>
                client[c] \in {"paid", "done"} \/ LinesFor({c}) # {}
          /\ client'[c] \in BeforePaying =>
                /\ client[c] \in BeforePaying
                /\ handler'[<<c, 1>>] = handler[<<c, 1>>]

LEMMA QuietKeepsInvariant ==
    ASSUME IInv, Quiet, TypeOK', latest' <= now'
    PROVE  IInv'
<1>1. /\ OpenOnesPaid' /\ ServedAreClosed' /\ HonouredOncePerLife'
      /\ LinesCoverAnswers' /\ AgentAfterOracle' /\ UnderpaidHasNoEntry'
      /\ \A C : LinesFor(C)' = LinesFor(C)
  BY FrameKept DEF Quiet
<1>2. ClientsAreTrue'
  BY <1>1 DEF IInv, ClientsAreTrue, Quiet, BeforePaying
<1>. QED  BY <1>1, <1>2 DEF IInv

\* A client's step that leaves the oracle alone is quiet.
LEMMA ClientMovesAreQuiet ==
    ASSUME IInv, NEW c \in Purchases, NEW stage \in ClientStages,
           client' = [client EXCEPT ![c] = stage],
           UNCHANGED <<oracle, amount, handler, log, served>>,
           stage \in {"paid", "done"} => client[c] \in {"paid", "done"} \/ LinesFor({c}) # {},
           stage \in BeforePaying => client[c] \in BeforePaying
    PROVE  Quiet /\ client' \in [Purchases -> ClientStages]
<1>1. client \in [Purchases -> ClientStages]
  BY DEF IInv, TypeOK
<1>2. /\ client' \in [Purchases -> ClientStages] /\ client'[c] = stage
      /\ \A d \in Purchases : d # c => client'[d] = client[d]
  BY <1>1
<1>3. \A p \in Presentations : Open(p)' <=> Open(p)
  BY DEF Open
<1>. QED  BY <1>2, <1>3 DEF Quiet, oracle, log

\* The purchase of a served presentation has a line.
LEMMA ServedHasLine ==
    ASSUME IInv, NEW s \in served
    PROVE  LinesFor({Nonce(s.by)}) # {}
<1>. DEFINE C == {Nonce(s.by)}
<1>1. payments \in Seq(Lines) /\ s.by \in Presentations /\ handler[s.by] = "served"
  BY DEF IInv, TypeOK, Servings, ServedAreClosed
<1>2. C \in SUBSET Purchases /\ s.by \in Covered(C)
  BY <1>1, PresentationFacts DEF Covered
<1>3. /\ IsFiniteSet(Covered(C))
      /\ Cardinality(Covered(C)) + (IF Spare(C) THEN 1 ELSE 0) <= Cardinality(LinesFor(C))
  BY <1>2 DEF IInv, LinesCoverAnswers
<1>. HIDE DEF C
<1>4. Cardinality(Covered(C)) \in Nat /\ Cardinality(Covered(C)) # 0
  BY <1>2, <1>3, FS_EmptySet, FS_CardinalityType
<1>5. Cardinality(LinesFor(C)) \in Nat
  BY <1>1, LinesAreFinite
<1>6. Cardinality(LinesFor(C)) # 0
  BY <1>3, <1>4, <1>5
<1>. QED  BY <1>6, FS_EmptySet DEF C

-----------------------------------------------------------------------------
(* The client.                                                             *)

LEMMA AskKeepsInvariant ==
    ASSUME IInv, NEW c \in Purchases, Ask(c), UNCHANGED amount
    PROVE  IInv'
<1>1. TypeOK /\ latest <= now
  BY DEF IInv
<1>2. Quiet /\ client' \in [Purchases -> ClientStages]
  BY ClientMovesAreQuiet DEF Ask, ClientStages, BeforePaying
<1>3. TypeOK' /\ latest' <= now'
  BY <1>1, <1>2 DEF TypeOK, Ask, oracle, log
<1>. QED  BY <1>2, <1>3, QuietKeepsInvariant

LEMMA RequireKeepsInvariant ==
    ASSUME IInv, NEW c \in Purchases, Require(c), UNCHANGED amount
    PROVE  IInv'
<1>1. TypeOK /\ latest <= now
  BY DEF IInv
<1>2. Quiet /\ client' \in [Purchases -> ClientStages]
  BY ClientMovesAreQuiet DEF Require, ClientStages, BeforePaying
<1>3. expiry' \in [Purchases -> 0 .. MaxNow + Window]
  <2>1. now + Window \in 0 .. MaxNow + Window
    BY <1>1, OracleAssumption DEF TypeOK, Times
  <2>. QED  BY <1>1, <2>1 DEF TypeOK, Require
<1>4. TypeOK' /\ latest' <= now'
  BY <1>1, <1>2, <1>3 DEF TypeOK, Require, oracle, log
<1>. QED  BY <1>2, <1>4, QuietKeepsInvariant

LEMMA PayKeepsInvariant ==
    ASSUME IInv, NEW c \in Purchases, Pay(c), UNCHANGED amount
    PROVE  IInv'
<1>1. TypeOK /\ latest <= now
  BY DEF IInv
<1>2. handler[<<c, 1>>] = "none"
  BY DEF Pay, IInv, ClientsAreTrue
<1>3. /\ handler' \in [Presentations -> HandlerStages] /\ client' \in [Purchases -> ClientStages]
      /\ handler'[<<c, 1>>] = "wire" /\ client'[c] = "paying"
      /\ \A p \in Presentations : p # <<c, 1>> => handler'[p] = handler[p]
      /\ \A d \in Purchases : d # c => client'[d] = client[d] /\ <<d, 1>> # <<c, 1>>
  BY <1>1, PresentationFacts DEF Pay, TypeOK, HandlerStages, ClientStages
<1>4. \A p \in Presentations : Open(p)' <=> Open(p)
  BY <1>2, <1>3 DEF Open
<1>5. Quiet
  BY <1>2, <1>3, <1>4, PresentationFacts DEF Quiet, Pay, oracle, log, BeforePaying
<1>6. TypeOK' /\ latest' <= now'
  BY <1>1, <1>3 DEF TypeOK, Pay, oracle, log
<1>. QED  BY <1>5, <1>6, QuietKeepsInvariant

LEMMA ReceiveKeepsInvariant ==
    ASSUME IInv, NEW c \in Purchases, Receive(c), UNCHANGED amount
    PROVE  IInv'
<1>1. TypeOK /\ latest <= now
  BY DEF IInv
<1>2. CASE /\ client' = [client EXCEPT ![c] = "paid"]
           /\ \E s \in served : /\ s.by = <<c, 1>>
                                /\ received' = [received EXCEPT ![c] = s.at]
  <2>1. PICK s \in served : /\ s.by = <<c, 1>>
                            /\ received' = [received EXCEPT ![c] = s.at]
    BY <1>2
  <2>2. LinesFor({c}) # {}
    BY <2>1, ServedHasLine, PresentationFacts
  <2>3. Quiet /\ client' \in [Purchases -> ClientStages]
    BY <1>2, <2>2, ClientMovesAreQuiet DEF Receive, ClientStages, BeforePaying
  <2>4. s.at \in Times
    BY <1>1 DEF TypeOK, Servings
  <2>5. received' \in [Purchases -> Times \cup {None}]
    BY <1>1, <2>1, <2>4 DEF TypeOK
  <2>6. TypeOK' /\ latest' <= now'
    BY <1>1, <2>3, <2>5 DEF TypeOK, Receive, oracle, log
  <2>. QED  BY <2>3, <2>6, QuietKeepsInvariant
<1>3. CASE client' = [client EXCEPT ![c] = "failed"] /\ UNCHANGED received
  <2>1. Quiet /\ client' \in [Purchases -> ClientStages]
    BY <1>3, ClientMovesAreQuiet DEF Receive, ClientStages, BeforePaying
  <2>2. TypeOK' /\ latest' <= now'
    BY <1>1, <1>3, <2>1 DEF TypeOK, Receive, oracle, log
  <2>. QED  BY <2>1, <2>2, QuietKeepsInvariant
<1>. QED  BY <1>2, <1>3 DEF Receive

LEMMA GiveUpKeepsInvariant ==
    ASSUME IInv, NEW c \in Purchases, GiveUp(c), UNCHANGED amount
    PROVE  IInv'
<1>1. TypeOK /\ latest <= now
  BY DEF IInv
<1>2. Quiet /\ client' \in [Purchases -> ClientStages]
  BY ClientMovesAreQuiet DEF GiveUp, ClientStages, BeforePaying
<1>3. TypeOK' /\ latest' <= now'
  BY <1>1, <1>2 DEF TypeOK, GiveUp, oracle, log
<1>. QED  BY <1>2, <1>3, QuietKeepsInvariant

\* A step of the agent's or of demo.mjs that writes to the log, or empties it.
LEMMA LogStepKeepsInvariant ==
    ASSUME IInv, TypeOK', AgentAfterOracle', UnderpaidHasNoEntry',
           UNCHANGED <<now, life, seenNonces, latest, handler, served, amount>>,
           \A C \in SUBSET Purchases :
               Cardinality(Covered(C)) + (IF Spare(C)' THEN 1 ELSE 0) <= Cardinality(LinesFor(C)'),
           \A c \in Purchases : LinesFor({c}) # {} => LinesFor({c})' # {},
           \A c \in Purchases : /\ client'[c] \in {"paid", "done"} => client[c] \in {"paid", "done"}
                                /\ client'[c] \in BeforePaying => client[c] \in BeforePaying
    PROVE  IInv'
<1>1. OpenOnesPaid' /\ ServedAreClosed' /\ HonouredOncePerLife' /\ latest' <= now'
  BY DEF IInv, OpenOnesPaid, ServedAreClosed, HonouredOncePerLife, Open
<1>2. \A C : Covered(C)' = Covered(C)
  BY DEF Covered
<1>3. LinesCoverAnswers'
  BY <1>2 DEF IInv, LinesCoverAnswers
<1>4. ClientsAreTrue'
  BY DEF IInv, ClientsAreTrue, BeforePaying
<1>. QED  BY <1>1, <1>3, <1>4 DEF IInv

\* The agent's own entry comes after the oracle's line, which was there before the
\* client had its data.
LEMMA LogReceiptKeepsInvariant ==
    ASSUME IInv, NEW c \in Purchases, LogReceipt(c), UNCHANGED amount
    PROVE  IInv'
<1>1. TypeOK /\ latest <= now /\ LinesFor({c}) # {}
  BY DEF IInv, LogReceipt, ClientsAreTrue
<1>2. CASE UNCHANGED log
  <2>1. Quiet /\ client' \in [Purchases -> ClientStages]
    BY <1>2, ClientMovesAreQuiet DEF LogReceipt, ClientStages, BeforePaying
  <2>2. TypeOK' /\ latest' <= now'
    BY <1>1, <1>2, <2>1 DEF TypeOK, LogReceipt, oracle, log
  <2>. QED  BY <2>1, <2>2, QuietKeepsInvariant
<1>3. CASE Written(Entry("agent", c), FALSE) \/ CutShort(Entry("agent", c))
  <2>. DEFINE line == Entry("agent", c)
  <2>1. line \in Lines /\ line.writer = "agent" /\ line.nonce = c
    BY LineFacts
  <2>. HIDE DEF line
  <2>2. Written(line, FALSE) \/ CutShort(line)
    BY <1>3 DEF line
  <2>3. /\ payments' \in Seq(Lines) /\ torn' \in BOOLEAN
        /\ cleared' \in Nat /\ cleared' <= Len(payments')
        /\ torn' => cleared' < Len(payments')
        /\ AgentAfterOracle' /\ UnderpaidHasNoEntry'
        /\ \A d \in Purchases : LinesFor({d}) # {} => LinesFor({d})' # {}
        /\ \A C \in SUBSET Purchases :
              Cardinality(Covered(C)) + (IF Spare(C)' THEN 1 ELSE 0) <= Cardinality(LinesFor(C)')
    <3>1. CASE Written(line, FALSE)
      BY <1>1, <2>1, <3>1, LogKept
    <3>2. CASE CutShort(line)
      BY <1>1, <2>1, <3>2, CutKeepsLog
    <3>. QED  BY <2>2, <3>1, <3>2
  <2>4. /\ UNCHANGED <<now, life, seenNonces, latest, handler, expiry, received, script, served>>
        /\ client \in [Purchases -> ClientStages]
        /\ client' = [client EXCEPT ![c] = "done"] /\ client[c] = "paid"
    BY <1>1 DEF LogReceipt, oracle, TypeOK
  <2>5. /\ client' \in [Purchases -> ClientStages] /\ client'[c] = "done"
        /\ \A d \in Purchases : d # c => client'[d] = client[d]
    BY <2>4 DEF ClientStages
  <2>6. TypeOK'
    BY <1>1, <2>3, <2>4, <2>5 DEF TypeOK
  <2>7. \A d \in Purchases : /\ client'[d] \in {"paid", "done"} => client[d] \in {"paid", "done"}
                             /\ client'[d] \in BeforePaying => client[d] \in BeforePaying
    BY <2>4, <2>5 DEF BeforePaying
  <2>. QED  BY <2>3, <2>4, <2>6, <2>7, LogStepKeepsInvariant
<1>. QED  BY <1>2, <1>3 DEF LogReceipt

\* The lines demo.mjs removes stay counted, and no line is torn in an empty file.
LEMMA ClearLogKeepsInvariant ==
    ASSUME IInv, ClearLog, UNCHANGED amount
    PROVE  IInv'
<1>1. TypeOK /\ Len(payments) \in Nat
  BY DEF IInv, TypeOK
<1>2. TypeOK'
  <2>1. script' \in 0 .. Seeds \cup {None}
    BY OracleAssumption DEF ClearLog
  <2>2. /\ payments' \in Seq(Lines) /\ cleared' \in Nat /\ cleared' <= Len(payments')
        /\ torn' = FALSE
    BY <1>1 DEF TypeOK, ClearLog
  <2>. QED  BY <1>1, <2>1, <2>2 DEF TypeOK, ClearLog, oracle, clients
<1>3. /\ UNCHANGED <<now, life, seenNonces, latest, handler, client, payments, served, amount>>
      /\ torn' = FALSE
  BY DEF ClearLog, oracle, clients
<1>4. /\ \A C : LinesFor(C)' = LinesFor(C) /\ ~Spare(C)'
      /\ \A c : EntriesOf(c)' = EntriesOf(c)
  BY <1>3 DEF LinesFor, EntriesOf, Spare
<1>5. AgentAfterOracle' /\ UnderpaidHasNoEntry'
  BY <1>3, <1>4 DEF IInv, AgentAfterOracle, UnderpaidHasNoEntry
<1>6. ASSUME NEW C \in SUBSET Purchases
      PROVE  Cardinality(Covered(C)) + (IF Spare(C)' THEN 1 ELSE 0) <= Cardinality(LinesFor(C)')
  <2>1. /\ Cardinality(Covered(C)) \in Nat /\ Cardinality(LinesFor(C)) \in Nat
        /\ Cardinality(Covered(C)) + (IF Spare(C) THEN 1 ELSE 0) <= Cardinality(LinesFor(C))
    BY <1>1, FS_CardinalityType, LinesAreFinite DEF IInv, LinesCoverAnswers, TypeOK
  <2>. QED  BY <1>4, <2>1
<1>. QED  BY <1>2, <1>3, <1>4, <1>5, <1>6, LogStepKeepsInvariant

LEMMA SeedLineKeepsInvariant ==
    ASSUME IInv, SeedLine, UNCHANGED amount
    PROVE  IInv'
<1>1. TypeOK
  BY DEF IInv
<1>2. Written(Seeded, FALSE) /\ Seeded \in Lines /\ Seeded.writer = "demo"
  BY LineFacts DEF SeedLine
<1>3. /\ payments' \in Seq(Lines) /\ torn' \in BOOLEAN
      /\ cleared' \in Nat /\ cleared' <= Len(payments')
      /\ torn' => cleared' < Len(payments')
      /\ AgentAfterOracle' /\ UnderpaidHasNoEntry'
      /\ \A d \in Purchases : LinesFor({d}) # {} => LinesFor({d})' # {}
      /\ \A C \in SUBSET Purchases :
            Cardinality(Covered(C)) + (IF Spare(C)' THEN 1 ELSE 0) <= Cardinality(LinesFor(C)')
  BY <1>2, LogKept
<1>4. TypeOK'
  <2>1. script' \in 0 .. Seeds \cup {None}
    BY <1>1, OracleAssumption DEF SeedLine, TypeOK, None
  <2>. QED  BY <1>1, <1>3, <2>1 DEF TypeOK, SeedLine, oracle, clients
<1>5. UNCHANGED <<now, life, seenNonces, latest, handler, client, served, amount>>
  BY DEF SeedLine, oracle, clients
<1>. QED  BY <1>3, <1>4, <1>5, LogStepKeepsInvariant

-----------------------------------------------------------------------------
(* The oracle.                                                             *)

LEMMA ResendKeepsInvariant ==
    ASSUME IInv, NEW p \in Presentations, Resend(p), UNCHANGED amount
    PROVE  IInv'
<1>1. TypeOK /\ latest <= now
  BY DEF IInv
<1>2. /\ handler' \in [Presentations -> HandlerStages] /\ handler'[p] = "wire"
      /\ handler[p] = "none" /\ handler[<<Nonce(p), 1>>] # "none"
      /\ \A q \in Presentations : q # p => handler'[q] = handler[q]
  BY <1>1 DEF Resend, TypeOK, HandlerStages
<1>3. \A q \in Presentations : Open(q)' <=> Open(q)
  BY <1>2 DEF Open
<1>4. \A c \in Purchases : handler'[<<c, 1>>] = handler[<<c, 1>>]
  <2>1. ASSUME NEW c \in Purchases, p = <<c, 1>> PROVE FALSE
    BY <1>2, <2>1, PresentationFacts
  <2>. QED  BY <1>2, <2>1, PresentationFacts
<1>5. Quiet
  BY <1>2, <1>3, <1>4 DEF Quiet, Resend, oracle, clients, log
<1>6. TypeOK' /\ latest' <= now'
  BY <1>1, <1>2 DEF TypeOK, Resend, oracle, clients, log
<1>. QED  BY <1>5, <1>6, QuietKeepsInvariant

LEMMA VerifyKeepsInvariant ==
    ASSUME IInv, NEW p \in Presentations, Verify(p), UNCHANGED amount
    PROVE  IInv'
<1>1. TypeOK /\ latest <= now
  BY DEF IInv
<1>2. /\ handler[p] = "wire" /\ Nonce(p) \in Purchases
      /\ UNCHANGED <<now, life, latest, client, expiry, received, payments, cleared, torn, script,
                     served, amount>>
  BY PresentationFacts DEF Verify, clients, log
<1>3. PICK stage \in {"refused", "writing"} :
         /\ handler' = [handler EXCEPT ![p] = stage]
         /\ \/ stage = "refused" /\ seenNonces' = seenNonces
            \/ /\ Nonce(p) \notin seenNonces
               /\ seenNonces' = seenNonces \cup {Nonce(p)}
               /\ stage = "writing" => ~Underpaid(p)
  BY DEF Verify, Replayed
<1>4. /\ handler' \in [Presentations -> HandlerStages] /\ handler'[p] = stage
      /\ \A q \in Presentations : q # p => handler'[q] = handler[q]
  BY <1>1, <1>3 DEF TypeOK, HandlerStages
<1>5. TypeOK' /\ latest' <= now'
  BY <1>1, <1>2, <1>3, <1>4 DEF TypeOK
<1>6. seenNonces \subseteq seenNonces'
  BY <1>3
<1>7. \A q \in Presentations : q # p => (Open(q)' <=> Open(q))
  BY <1>4 DEF Open
<1>8. \A q \in Presentations : /\ handler'[q] = "written" <=> handler[q] = "written"
                               /\ handler'[q] = "served" <=> handler[q] = "served"
  BY <1>2, <1>3, <1>4
<1>9. ~Open(p) /\ (Open(p)' <=> stage = "writing")
  BY <1>2, <1>3, <1>4 DEF Open
<1>10. \A c \in Purchases : client'[c] \in BeforePaying =>
          client[c] \in BeforePaying /\ handler'[<<c, 1>>] = handler[<<c, 1>>]
  <2>1. ASSUME NEW c \in Purchases, client'[c] \in BeforePaying, p = <<c, 1>>
        PROVE  FALSE
    BY <1>2, <2>1 DEF IInv, ClientsAreTrue, BeforePaying
  <2>. QED  BY <1>2, <1>4, <2>1, PresentationFacts
<1>11. CASE stage = "refused"
  <2>1. \A q \in Presentations : Open(q)' <=> Open(q)
    BY <1>7, <1>9, <1>11
  <2>2. Quiet
    BY <1>2, <1>6, <1>8, <1>10, <2>1 DEF Quiet
  <2>. QED  BY <1>5, <2>2, QuietKeepsInvariant
<1>12. CASE stage = "writing"
  <2>1. /\ Nonce(p) \notin seenNonces /\ Nonce(p) \in seenNonces'
        /\ ~Underpaid(p)
    BY <1>3, <1>12
  <2>2. amount[Nonce(p)] >= Price
    <3>1. amount[Nonce(p)] \in Nat /\ Price \in Nat
      BY <1>1, <1>2, OracleAssumption DEF TypeOK
    <3>. QED  BY <2>1, <3>1 DEF Underpaid
  <2>3. \A q \in Presentations : Open(q) => Nonce(q) \in seenNonces /\ Nonce(q) # Nonce(p)
    BY <2>1 DEF IInv, OpenOnesPaid
  <2>4. OpenOnesPaid'
    BY <1>2, <1>6, <1>7, <2>1, <2>2, <2>3 DEF IInv, OpenOnesPaid
  <2>5. \A s \in served : s.by \in Presentations
    BY <1>1 DEF TypeOK, Servings
  <2>6. ServedAreClosed'
    BY <1>2, <1>6, <1>7, <1>8, <2>1, <2>5 DEF IInv, ServedAreClosed
  <2>7. /\ \A C : LinesFor(C)' = LinesFor(C) /\ Covered(C)' = Covered(C) /\ (Spare(C)' <=> Spare(C))
        /\ \A c \in Purchases : EntriesOf(c)' = EntriesOf(c)
    BY <1>2, <1>8 DEF LinesFor, Covered, Spare, EntriesOf
  <2>8. LinesCoverAnswers' /\ UnderpaidHasNoEntry'
    BY <1>2, <2>7 DEF IInv, LinesCoverAnswers, UnderpaidHasNoEntry
  <2>9. HonouredOncePerLife' /\ AgentAfterOracle'
    BY <1>2, <2>7 DEF IInv, HonouredOncePerLife, AgentAfterOracle
  <2>10. ClientsAreTrue'
    BY <1>2, <1>10, <2>7 DEF IInv, ClientsAreTrue, BeforePaying
  <2>. QED  BY <1>5, <2>4, <2>6, <2>8, <2>9, <2>10 DEF IInv
<1>. QED  BY <1>3, <1>11, <1>12

\* The payment is on disk before the data exists: the line it adds, or spoils, is the
\* one the answer to come will need.
LEMMA RecordKeepsInvariant ==
    ASSUME IInv, NEW p \in Presentations, Record(p), UNCHANGED amount
    PROVE  IInv'
<1>1. TypeOK /\ latest <= now
  BY DEF IInv, TypeOK
<1>2. /\ handler[p] = "writing" /\ Nonce(p) \in Purchases
      /\ UNCHANGED <<now, life, seenNonces, latest, client, expiry, received, script, served, amount>>
  BY PresentationFacts DEF Record, clients, oracle
<1>3. /\ handler' \in [Presentations -> HandlerStages] /\ handler'[p] = "written"
      /\ \A q \in Presentations : q # p => handler'[q] = handler[q]
  BY <1>1 DEF TypeOK, HandlerStages, Record
<1>4. Open(p) /\ ~(amount[Nonce(p)] < Price)
  <2>1. amount[Nonce(p)] \in Nat /\ Price \in Nat
    BY <1>1, <1>2, OracleAssumption DEF TypeOK
  <2>2. Open(p)
    BY <1>2 DEF Open
  <2>3. amount[Nonce(p)] >= Price
    BY <2>2 DEF IInv, OpenOnesPaid
  <2>. QED  BY <2>1, <2>2, <2>3
<1>. DEFINE line == Entry("oracle", Nonce(p))
<1>5. line \in Lines /\ line.writer = "oracle" /\ line.nonce = Nonce(p) /\ Written(line, FALSE)
  BY <1>2, LineFacts DEF Record
<1>. HIDE DEF line
<1>6. /\ payments' \in Seq(Lines) /\ torn' \in BOOLEAN
      /\ cleared' \in Nat /\ cleared' <= Len(payments')
      /\ torn' => cleared' < Len(payments')
      /\ AgentAfterOracle' /\ UnderpaidHasNoEntry'
      /\ \A c \in Purchases : LinesFor({c}) # {} => LinesFor({c})' # {}
      /\ \A C \in SUBSET Purchases :
            /\ Cardinality(Covered(C)) + (IF Spare(C)' THEN 1 ELSE 0) <= Cardinality(LinesFor(C)')
            /\ Counts(line, C) => Cardinality(Covered(C)) + 1 <= Cardinality(LinesFor(C)') /\ ~Spare(C)'
  BY <1>2, <1>4, <1>5, LogKept
<1>7. TypeOK' /\ latest' <= now'
  BY <1>1, <1>2, <1>3, <1>6 DEF TypeOK
<1>8. \A q \in Presentations : Open(q)' <=> Open(q)
  BY <1>2, <1>3 DEF Open
<1>9. OpenOnesPaid'
  BY <1>2, <1>8 DEF IInv, OpenOnesPaid
<1>10. ServedAreClosed'
  <2>1. \A s \in served : s.by \in Presentations /\ s.by # p
    BY <1>1, <1>2 DEF TypeOK, Servings, IInv, ServedAreClosed
  <2>. QED  BY <1>2, <1>3, <1>8, <2>1 DEF IInv, ServedAreClosed
<1>11. HonouredOncePerLife'
  BY <1>2 DEF IInv, HonouredOncePerLife
<1>12. LinesCoverAnswers'
  <2>. SUFFICES ASSUME NEW C \in SUBSET Purchases
                PROVE  /\ IsFiniteSet(Covered(C)')
                       /\ Cardinality(Covered(C)') + (IF Spare(C)' THEN 1 ELSE 0)
                             <= Cardinality(LinesFor(C)')
    BY DEF LinesCoverAnswers
  <2>1. IsFiniteSet(Covered(C)) /\ Cardinality(Covered(C)) \in Nat /\ p \notin Covered(C)
    BY <1>2, FS_CardinalityType DEF IInv, LinesCoverAnswers, Covered
  <2>2. CASE Nonce(p) \in C
    <3>1. Covered(C)' = Covered(C) \cup {p}
      BY <1>2, <1>3, <2>2 DEF Covered
    <3>2. IsFiniteSet(Covered(C)') /\ Cardinality(Covered(C)') = Cardinality(Covered(C)) + 1
      BY <2>1, <3>1, FS_AddElement
    <3>3. Counts(line, C)
      BY <1>5, <2>2 DEF Counts
    <3>4. Cardinality(Covered(C)) + 1 <= Cardinality(LinesFor(C)') /\ ~Spare(C)'
      BY <1>6, <3>3
    <3>. QED  BY <2>1, <3>2, <3>4
  <2>3. CASE Nonce(p) \notin C
    <3>1. Covered(C)' = Covered(C)
      BY <1>2, <1>3, <2>3 DEF Covered
    <3>. QED  BY <1>6, <2>1, <3>1
  <2>. QED  BY <2>2, <2>3
<1>13. ClientsAreTrue'
  <2>1. \A c \in Purchases : handler[<<c, 1>>] = "none" => handler'[<<c, 1>>] = "none"
    BY <1>2, <1>3, PresentationFacts
  <2>. QED  BY <1>2, <1>6, <2>1 DEF IInv, ClientsAreTrue
<1>. QED  BY <1>6, <1>7, <1>9, <1>10, <1>11, <1>12, <1>13 DEF IInv

\* One answer more, for a presentation that had none and whose entry is written.
LEMMA ServeKeepsInvariant ==
    ASSUME IInv, NEW p \in Presentations, Serve(p), UNCHANGED amount
    PROVE  IInv'
<1>1. TypeOK /\ latest <= now
  BY DEF IInv
<1>2. /\ handler[p] = "written" /\ Nonce(p) \in Purchases /\ latest' = now
      /\ UNCHANGED <<now, life, seenNonces, client, expiry, received, payments, cleared, torn,
                     script, amount>>
  BY PresentationFacts DEF Serve, clients, log
<1>3. /\ handler' \in [Presentations -> HandlerStages] /\ handler'[p] = "served"
      /\ \A q \in Presentations : q # p => handler'[q] = handler[q]
  BY <1>1 DEF TypeOK, HandlerStages, Serve
<1>. DEFINE s == [by |-> p, life |-> life, at |-> now]
<1>4. s \in Servings /\ s.by = p /\ s.life = life /\ served' = served \cup {s}
  BY <1>1 DEF TypeOK, Servings, Serve
<1>. HIDE DEF s
<1>5. /\ Open(p) /\ Nonce(p) \in seenNonces /\ amount[Nonce(p)] >= Price
      /\ \A q \in Presentations : Open(q) /\ q # p => Nonce(q) # Nonce(p)
  <2>1. Open(p)
    BY <1>2 DEF Open
  <2>. QED  BY <2>1 DEF IInv, OpenOnesPaid
<1>6. \A q \in Presentations : Open(q)' <=> Open(q) /\ q # p
  BY <1>3 DEF Open
<1>7. TypeOK' /\ latest' <= now'
  <2>1. now \in Times /\ now \in Nat /\ latest' \in Times \cup {None} /\ latest' <= now'
    BY <1>1, <1>2, OracleAssumption DEF TypeOK, Times
  <2>2. served' \in SUBSET Servings
    BY <1>1, <1>4 DEF TypeOK
  <2>. QED  BY <1>1, <1>2, <1>3, <2>1, <2>2 DEF TypeOK
<1>8. OpenOnesPaid'
  BY <1>2, <1>6 DEF IInv, OpenOnesPaid
<1>9. \A t \in served : /\ t.by \in Presentations /\ t.by # p
                        /\ t.life = life => Nonce(t.by) # Nonce(p)
  BY <1>1, <1>2, <1>5 DEF TypeOK, Servings, IInv, ServedAreClosed
<1>10. ServedAreClosed'
  <2>1. life <= life
    BY <1>1, OracleAssumption DEF TypeOK, Lives
  <2>2. /\ s.life <= life' /\ handler'[s.by] = "served" /\ amount'[Nonce(s.by)] >= Price
        /\ s.life = life' => /\ Nonce(s.by) \in seenNonces'
                             /\ \A q \in Presentations : Open(q)' => Nonce(q) # Nonce(s.by)
    BY <1>2, <1>3, <1>4, <1>5, <1>6, <2>1
  <2>3. ASSUME NEW t \in served
        PROVE  /\ t.life <= life' /\ handler'[t.by] = "served" /\ amount'[Nonce(t.by)] >= Price
               /\ t.life = life' =>
                     /\ Nonce(t.by) \in seenNonces'
                     /\ \A q \in Presentations : Open(q)' => Nonce(q) # Nonce(t.by)
    BY <1>2, <1>3, <1>6, <1>9 DEF IInv, ServedAreClosed
  <2>. QED  BY <1>4, <2>2, <2>3 DEF ServedAreClosed
<1>11. HonouredOncePerLife'
  BY <1>4, <1>9 DEF IInv, HonouredOncePerLife
<1>12. /\ \A C : LinesFor(C)' = LinesFor(C) /\ Covered(C)' = Covered(C) /\ (Spare(C)' <=> Spare(C))
       /\ \A c \in Purchases : EntriesOf(c)' = EntriesOf(c)
  BY <1>2, <1>3 DEF LinesFor, Covered, Spare, EntriesOf
<1>13. LinesCoverAnswers' /\ UnderpaidHasNoEntry' /\ AgentAfterOracle'
  BY <1>2, <1>12 DEF IInv, LinesCoverAnswers, UnderpaidHasNoEntry, AgentAfterOracle
<1>14. ClientsAreTrue'
  <2>1. \A c \in Purchases : handler[<<c, 1>>] = "none" => handler'[<<c, 1>>] = "none"
    BY <1>2, <1>3, PresentationFacts
  <2>. QED  BY <1>2, <1>12, <2>1 DEF IInv, ClientsAreTrue
<1>. QED  BY <1>7, <1>8, <1>10, <1>11, <1>13, <1>14 DEF IInv

\* A new life knows no nonce, but it has served nothing and works on nothing: what
\* the old one served is of the old life.
LEMMA RestartKeepsInvariant ==
    ASSUME IInv, Restart, UNCHANGED amount
    PROVE  IInv'
<1>1. /\ TypeOK /\ latest <= now /\ life \in Nat /\ now \in Nat
  BY OracleAssumption DEF IInv, TypeOK, Lives, Times
<1>2. /\ life' = life + 1 /\ life < MaxLives /\ seenNonces' = {} /\ latest' = None
      /\ UNCHANGED <<now, client, expiry, received, script, served, amount>>
  BY DEF Restart, clients
<1>3. /\ handler' \in [Presentations -> HandlerStages]
      /\ \A p \in Presentations : /\ ~Open(p)'
                                  /\ handler'[p] # "written"
                                  /\ Open(p) => handler'[p] = "lost"
                                  /\ ~Open(p) => handler'[p] = handler[p]
  BY <1>1 DEF TypeOK, HandlerStages, Restart, Open
<1>4. /\ payments' \in Seq(Lines) /\ torn' \in BOOLEAN
      /\ cleared' \in Nat /\ cleared' <= Len(payments')
      /\ torn' => cleared' < Len(payments')
      /\ AgentAfterOracle' /\ UnderpaidHasNoEntry'
      /\ \A c \in Purchases : LinesFor({c}) # {} => LinesFor({c})' # {}
      /\ \A C \in SUBSET Purchases :
            Cardinality(Covered(C)) + (IF Spare(C)' THEN 1 ELSE 0) <= Cardinality(LinesFor(C)')
  <2>1. CASE UNCHANGED log
    <3>1. UNCHANGED <<payments, torn, cleared>>
      BY <2>1 DEF log
    <3>2. /\ \A C : LinesFor(C)' = LinesFor(C) /\ (Spare(C)' <=> Spare(C))
          /\ \A c \in Purchases : EntriesOf(c)' = EntriesOf(c)
      BY <3>1 DEF LinesFor, Spare, EntriesOf
    <3>3. AgentAfterOracle' /\ UnderpaidHasNoEntry'
      BY <1>2, <3>1, <3>2 DEF IInv, AgentAfterOracle, UnderpaidHasNoEntry
    <3>4. \A C \in SUBSET Purchases :
             Cardinality(Covered(C)) + (IF Spare(C)' THEN 1 ELSE 0) <= Cardinality(LinesFor(C)')
      BY <3>2 DEF IInv, LinesCoverAnswers
    <3>. QED  BY <1>1, <3>1, <3>2, <3>3, <3>4 DEF TypeOK
  <2>2. ASSUME NEW p \in Presentations, handler[p] = "writing", CutShort(Entry("oracle", Nonce(p)))
        PROVE  /\ payments' \in Seq(Lines) /\ torn' \in BOOLEAN
               /\ cleared' \in Nat /\ cleared' <= Len(payments')
               /\ torn' => cleared' < Len(payments')
               /\ AgentAfterOracle' /\ UnderpaidHasNoEntry'
               /\ \A c \in Purchases : LinesFor({c}) # {} => LinesFor({c})' # {}
               /\ \A C \in SUBSET Purchases :
                     Cardinality(Covered(C)) + (IF Spare(C)' THEN 1 ELSE 0) <= Cardinality(LinesFor(C)')
    <3>. DEFINE line == Entry("oracle", Nonce(p))
    <3>1. line \in Lines /\ line.writer = "oracle" /\ line.nonce = Nonce(p) /\ CutShort(line)
      BY <2>2, LineFacts, PresentationFacts
    <3>2. ~(amount[Nonce(p)] < Price)
      <4>1. amount[Nonce(p)] \in Nat /\ Price \in Nat
        BY <1>1, OracleAssumption, PresentationFacts DEF TypeOK
      <4>2. Open(p)
        BY <2>2 DEF Open
      <4>3. amount[Nonce(p)] >= Price
        BY <4>2 DEF IInv, OpenOnesPaid
      <4>. QED  BY <4>1, <4>3
    <3>. HIDE DEF line
    <3>. QED  BY <1>2, <3>1, <3>2, CutKeepsLog
  <2>. QED  BY <2>1, <2>2 DEF Restart
<1>5. TypeOK' /\ latest' <= now'
  <2>1. life' \in Lives /\ latest' \in Times \cup {None} /\ latest' <= now'
    BY <1>1, <1>2, OracleAssumption DEF Lives, None
  <2>. QED  BY <1>1, <1>2, <1>3, <1>4, <2>1 DEF TypeOK
<1>6. OpenOnesPaid'
  BY <1>3 DEF OpenOnesPaid
<1>7. ServedAreClosed'
  <2>1. ASSUME NEW s \in served
        PROVE  /\ s.by \in Presentations /\ s.life \in Nat
               /\ s.life <= life /\ handler[s.by] = "served" /\ amount[Nonce(s.by)] >= Price
    BY OracleAssumption DEF IInv, TypeOK, Servings, Lives, ServedAreClosed
  <2>2. ASSUME NEW s \in served
        PROVE  s.life <= life' /\ s.life # life' /\ handler'[s.by] = "served"
    <3>1. s.life <= life' /\ s.life # life'
      BY <1>1, <1>2, <2>1
    <3>2. ~Open(s.by)
      BY <2>1 DEF Open
    <3>. QED  BY <1>3, <2>1, <3>1, <3>2
  <2>. QED  BY <1>2, <2>1, <2>2 DEF ServedAreClosed
<1>8. HonouredOncePerLife'
  BY <1>2 DEF IInv, HonouredOncePerLife
<1>9. LinesCoverAnswers'
  <2>. SUFFICES ASSUME NEW C \in SUBSET Purchases
                PROVE  /\ IsFiniteSet(Covered(C)')
                       /\ Cardinality(Covered(C)') + (IF Spare(C)' THEN 1 ELSE 0)
                             <= Cardinality(LinesFor(C)')
    BY DEF LinesCoverAnswers
  <2>1. Covered(C)' \subseteq Covered(C)
    <3>1. ASSUME NEW p \in Presentations, handler'[p] = "served" PROVE handler[p] \in {"written", "served"}
      BY <1>3, <3>1 DEF Open
    <3>. QED  BY <1>3, <3>1 DEF Covered
  <2>. DEFINE before == Covered(C)
              after  == Covered(C)'
  <2>2. IsFiniteSet(before) /\ after \subseteq before
    BY <2>1 DEF IInv, LinesCoverAnswers
  <2>3. Cardinality(before) + (IF Spare(C)' THEN 1 ELSE 0) <= Cardinality(LinesFor(C)')
    BY <1>4
  <2>4. Cardinality(LinesFor(C)') \in Nat
    <3>1. payments' \in Seq(Lines)
      BY <1>4
    <3>2. IsFiniteSet(LinesFor(C)')
      <4>1. LinesFor(C)' \subseteq 1 .. Len(payments')
        BY <3>1 DEF LinesFor
      <4>2. IsFiniteSet(1 .. Len(payments'))
        BY <3>1, FS_Interval
      <4>. QED  BY <4>1, <4>2, FS_Subset
    <3>. QED  BY <3>2, FS_CardinalityType
  <2>. HIDE DEF before, after
  <2>5. /\ IsFiniteSet(after) /\ Cardinality(after) <= Cardinality(before)
        /\ Cardinality(after) \in Nat /\ Cardinality(before) \in Nat
    BY <2>2, FS_Subset, FS_CardinalityType
  <2>6. IsFiniteSet(after) /\ Cardinality(after) + (IF Spare(C)' THEN 1 ELSE 0) <= Cardinality(LinesFor(C)')
    BY <2>3, <2>4, <2>5
  <2>. QED  BY <2>6 DEF after
<1>10. ClientsAreTrue'
  <2>1. \A c \in Purchases : handler[<<c, 1>>] = "none" => handler'[<<c, 1>>] = "none"
    BY <1>3, PresentationFacts DEF Open
  <2>. QED  BY <1>2, <1>4, <2>1 DEF IInv, ClientsAreTrue
<1>. QED  BY <1>4, <1>5, <1>6, <1>7, <1>8, <1>9, <1>10 DEF IInv

\* The clock advances, or nothing happens.
LEMMA ElapseKeepsInvariant ==
    ASSUME IInv, Elapse \/ now' = now,
           UNCHANGED <<oracle, handler, amount, clients, log, script, served>>
    PROVE  IInv'
<1>1. /\ TypeOK /\ latest <= now /\ latest \in Int /\ now \in Nat
  BY OracleAssumption DEF IInv, TypeOK, Times, None
<1>2. now' \in Times /\ now <= now'
  BY <1>1, OracleAssumption DEF Elapse, TypeOK, Times
<1>3. TypeOK' /\ latest' <= now'
  BY <1>1, <1>2, OracleAssumption DEF TypeOK, oracle, clients, log, Times
<1>4. \A p \in Presentations : Open(p)' <=> Open(p)
  BY DEF Open
<1>5. Quiet
  BY <1>4 DEF Quiet, oracle, clients, log
<1>. QED  BY <1>3, <1>5, QuietKeepsInvariant

-----------------------------------------------------------------------------
(* The invariant holds in every reachable state.                           *)

LEMMA InitInvariant == Init => IInv
<1>. SUFFICES ASSUME Init PROVE IInv
  OBVIOUS
<1>1. /\ now = 0 /\ life = 1 /\ seenNonces = {} /\ latest = None /\ payments = << >>
      /\ cleared = 0 /\ torn = FALSE /\ script = None /\ served = {} /\ amount \in Amounts
      /\ handler \in [Presentations -> HandlerStages]
      /\ \A p \in Presentations : handler[p] = "none"
      /\ client \in [Purchases -> ClientStages]
      /\ \A c \in Purchases : client[c] = "idle"
  BY DEF Init, HandlerStages, ClientStages
<1>2. /\ expiry \in [Purchases -> 0 .. MaxNow + Window]
      /\ received \in [Purchases -> Times \cup {None}]
  BY OracleAssumption DEF Init
<1>3. payments \in Seq(Lines) /\ Len(payments) = 0 /\ DOMAIN payments = {}
  BY <1>1, EmptySeq
<1>4. TypeOK /\ latest <= now
  <2>1. now \in Times /\ life \in Lives /\ latest \in Times \cup {None} /\ latest <= now
    BY <1>1, OracleAssumption DEF Times, Lives, None
  <2>2. script \in 0 .. Seeds \cup {None} /\ cleared \in Nat /\ cleared <= Len(payments)
    BY <1>1, <1>3
  <2>. QED  BY <1>1, <1>2, <1>3, <2>1, <2>2 DEF TypeOK
<1>5. \A p \in Presentations : ~Open(p)
  BY <1>1 DEF Open
<1>6. /\ \A c \in Purchases : EntriesOf(c) = {}
      /\ \A C : LinesFor(C) = {} /\ Covered(C) = {} /\ ~Spare(C)
  BY <1>1, <1>3 DEF EntriesOf, LinesFor, Covered, Spare
<1>7. OpenOnesPaid /\ ServedAreClosed /\ HonouredOncePerLife
  BY <1>1, <1>5 DEF OpenOnesPaid, ServedAreClosed, HonouredOncePerLife
<1>8. LinesCoverAnswers
  <2>1. IsFiniteSet({}) /\ Cardinality({}) = 0
    BY FS_EmptySet
  <2>. QED  BY <1>6, <2>1 DEF LinesCoverAnswers
<1>9. AgentAfterOracle /\ UnderpaidHasNoEntry
  BY <1>3, <1>6 DEF AgentAfterOracle, UnderpaidHasNoEntry
<1>10. ClientsAreTrue
  BY <1>1, PresentationFacts DEF ClientsAreTrue
<1>. QED  BY <1>4, <1>7, <1>8, <1>9, <1>10 DEF IInv

LEMMA StepKeepsInvariant == IInv /\ [Next]_vars => IInv'
<1>. SUFFICES ASSUME IInv, [Next]_vars PROVE IInv'
  OBVIOUS
<1>1. ASSUME NEW c \in Purchases, ClientStep(c), UNCHANGED amount
      PROVE  IInv'
  BY <1>1, AskKeepsInvariant, RequireKeepsInvariant, PayKeepsInvariant, ReceiveKeepsInvariant,
     GiveUpKeepsInvariant, LogReceiptKeepsInvariant DEF ClientStep
<1>2. ASSUME NEW p \in Presentations, Resend(p) \/ OracleStep(p), UNCHANGED amount
      PROVE  IInv'
  BY <1>2, ResendKeepsInvariant, VerifyKeepsInvariant, RecordKeepsInvariant,
     ServeKeepsInvariant DEF OracleStep
<1>3. CASE Restart /\ UNCHANGED amount
  BY <1>3, RestartKeepsInvariant
<1>4. CASE Elapse /\ UNCHANGED amount
  BY <1>4, ElapseKeepsInvariant DEF Elapse
<1>5. CASE UNCHANGED vars
  BY <1>5, ElapseKeepsInvariant DEF vars
<1>6. CASE (ClearLog \/ SeedLine) /\ UNCHANGED amount
  BY <1>6, ClearLogKeepsInvariant, SeedLineKeepsInvariant
<1>. QED  BY <1>1, <1>2, <1>3, <1>4, <1>5, <1>6 DEF Next

\* The inductive invariant of the oracle and its clients holds throughout.
THEOREM Invariant == Spec => []IInv
BY InitInvariant, StepKeepsInvariant, PTL DEF Spec

\* A payload is honoured at most once in a life of the oracle, however often and
\* however concurrently it is presented.
THEOREM HonouredOnce == Spec => []HonouredOncePerLife
<1>1. IInv => HonouredOncePerLife
  BY DEF IInv
<1>. QED  BY <1>1, Invariant, PTL

\* Whoever holds data left a line of the oracle behind, for any set of purchases no
\* more of them unreadable than the log has unreadable lines, and the agent's own line
\* comes after it; through appends cut short, restarts and demo.mjs.
THEOREM ServingsAreLogged == Spec => []EveryServingLogged
<1>1. IInv => EveryServingLogged
  <2>. SUFFICES ASSUME IInv PROVE EveryServingLogged
    OBVIOUS
  <2>1. ASSUME NEW C \in SUBSET Purchases
        PROVE  Cardinality(AnsweredFor(C)) <= Cardinality(LinesFor(C))
    <3>1. AnsweredFor(C) \subseteq Covered(C)
      BY DEF IInv, ServedAreClosed, AnsweredFor, Covered
    <3>2. /\ IsFiniteSet(Covered(C))
          /\ Cardinality(Covered(C)) + (IF Spare(C) THEN 1 ELSE 0) <= Cardinality(LinesFor(C))
          /\ payments \in Seq(Lines)
      BY DEF IInv, LinesCoverAnswers, TypeOK
    <3>3. Cardinality(LinesFor(C)) \in Nat
      BY <3>2, LinesAreFinite
    <3>4. /\ Cardinality(AnsweredFor(C)) <= Cardinality(Covered(C))
          /\ Cardinality(AnsweredFor(C)) \in Nat /\ Cardinality(Covered(C)) \in Nat
      BY <3>1, <3>2, FS_Subset, FS_CardinalityType
    <3>. QED  BY <3>2, <3>3, <3>4
  <2>. QED  BY <2>1 DEF IInv, EveryServingLogged, AgentAfterOracle
<1>. QED  BY <1>1, Invariant, PTL

\* Nobody gets data for less than the price, and what was refused for paying too
\* little has no entry in any later life either.
THEOREM UnderpaidRefused == Spec => []UnderpaidNeverServed
<1>1. IInv => UnderpaidNeverServed
  BY DEF IInv, UnderpaidNeverServed, UnderpaidHasNoEntry, ServedAreClosed
<1>. QED  BY <1>1, Invariant, PTL

\* While the process lives, the public snapshot never goes back in time.
THEOREM SnapshotAdvances == Spec => SnapshotMovesForward
<1>1. IInv /\ [Next]_vars => [life' = life => latest' >= latest]_vars
  <2>. SUFFICES ASSUME IInv, Next, life' = life PROVE latest' >= latest
    OBVIOUS
  <2>1. latest <= now /\ latest \in Int /\ life \in Nat
    BY OracleAssumption DEF IInv, TypeOK, Times, Lives, None
  <2>2. ~Restart
    BY <2>1 DEF Restart
  <2>3. latest' = latest \/ latest' = now
    BY <2>2 DEF Next, ClientStep, OracleStep, Ask, Require, Pay, Receive, GiveUp, LogReceipt,
                Resend, Verify, Record, Serve, ClearLog, SeedLine, Elapse, oracle
  <2>. QED  BY <2>1, <2>3 DEF IInv, TypeOK
<1>. QED  BY <1>1, Invariant, PTL DEF Spec, SnapshotMovesForward

\* All that the paid endpoint promises beside.
THEOREM Sound == Spec => PurchasesAreSound
<1>1. IInv => TypeOK
  BY DEF IInv
<1>. QED  BY <1>1, Invariant, ServingsAreLogged, UnderpaidRefused, SnapshotAdvances, PTL
          DEF PurchasesAreSound

=============================================================================
