-------------------------- MODULE DashboardProofs --------------------------
(***************************************************************************)
(* Theorems about the dashboard: the deposit dialog and the wallet session *)
(* below it (VaultModal), for every set of accounts and of calls, every    *)
(* purse and every typed amount; and the panels of the page (Panels), for  *)
(* every value of their constants: the vault's figures on the cockpit, the *)
(* trigger button, the oracle's panel and the decision log's.              *)
(***************************************************************************)
EXTENDS VaultModal, Panels, FoldFacts, SequenceTheorems

-----------------------------------------------------------------------------
(* The inductive invariant.                                                *)

\* Before the provider's effect has run nothing has happened.
QuietBeforeMount ==
    ~mounted =>
        /\ connector = "mock" /\ status = "disconnected" /\ step = "closed"
        /\ \A c \in Calls : calls[c].pc = "unused"
        /\ tries = <<>>

\* The connector is chosen once: what was begun was begun by it.
OneConnector ==
    /\ Mock => connector = "mock"
    /\ \A c \in Calls : calls[c].pc # "unused" => calls[c].by = connector
    /\ \A k \in Ids : tries[k].by = connector

\* The account a connector answers with is one of its own.
AnswersFit ==
    \A c \in Calls :
        calls[c].pc = "balance" =>
            IF calls[c].by = "mock" THEN calls[c].account = MockAccount
                                    ELSE calls[c].account \in Accounts

\* Only the wallet refuses and broadcasts, the mock makes its hash up, and nobody
\* answers for a popup that is open.
StatesFit ==
    \A k \in Ids :
        /\ tries[k].state \in IF tries[k].by = "mock" THEN {"popup", "made_up"}
                                                      ELSE {"popup", "refused", "sent"}
        /\ tries[k].answered => tries[k].state # "popup"

\* A deposit of the account has been executed; only a deposit that was sent can be.
HasSpent(a) == \E j \in Ids : tries[j].landed /\ tries[j].account = a

\* What the page takes for the balance was once the account's, and is still covered
\* unless a deposit has been executed since.
Covers(a, n) == n <= owns[a] \/ HasSpent(a)
BalanceWasOwned == status = "connected" => account \in Owners /\ Covers(account, balance)

\* From the review on, the amount is one that handleContinue has let through.
ReviewedAmount ==
    step \in {"review", "signing", "submitted", "error"} =>
        amount # 0 /\ (mode = "deposit" => reviewed \in Owners /\ Covers(reviewed, amount))

\* The try that is awaited, or was submitted, is for the amount of the review.
SignedAsReviewed ==
    step \in {"signing", "submitted"} =>
        /\ Len(tries) \in Ids
        /\ tries[Len(tries)].amount = amount /\ tries[Len(tries)].mode = mode

\* The inductive invariant.
DialogInv ==
    /\ TypeOK
    /\ QuietBeforeMount /\ OneConnector /\ AnswersFit /\ ConnectedThroughChosen
    /\ BalanceWasOwned /\ StatesFit /\ ReviewedAmount /\ SignedAsReviewed
    /\ SigningIsTheLastTry /\ SubmittedIsTheLastTry
    /\ UncoveredOnlyWhenStale /\ OverlayFromDeposits

\* A call of connect().
Call == [pc : {"unused", "wallet", "late", "balance", "done"}, by : {"mock", "click"},
         account : Accounts \union {MockAccount, NoAccount}]

\* The part about the wallet session.
WalletIsTrue ==
    /\ WalletTypeOK
    /\ QuietBeforeMount /\ OneConnector /\ AnswersFit /\ ConnectedThroughChosen

-----------------------------------------------------------------------------
(* The wallet session.                                                     *)

\* A step of the session, or a call of connect, leaves the session true.
LEMMA SessionStaysTrue ==
    ASSUME DialogInv, tries' = tries, step' = step, flag' = flag,
           WalletStep \/ \E c \in Calls : Connect(c)
    PROVE  WalletIsTrue'
<1>1. /\ WalletTypeOK /\ QuietBeforeMount /\ OneConnector /\ AnswersFit
      /\ ConnectedThroughChosen /\ WalletAssumption
  BY WalletAssumption DEF DialogInv, TypeOK
<1>2. ASSUME Mount PROVE WalletIsTrue'
  <2>1. WalletTypeOK'
    BY <1>1, <1>2 DEF WalletTypeOK, Mount, Selected
  <2>2. QuietBeforeMount' /\ AnswersFit' /\ ConnectedThroughChosen'
    BY <1>1, <1>2 DEF QuietBeforeMount, AnswersFit, ConnectedThroughChosen, Mount
  <2>3. OneConnector'
    <3>1. Ids = {}
      BY <1>1, <1>2 DEF Mount, QuietBeforeMount, Ids
    <3>. QED  BY <1>1, <1>2, <3>1 DEF OneConnector, QuietBeforeMount, Mount, Selected, Mock, Ids
  <2>. QED  BY <2>1, <2>2, <2>3 DEF WalletIsTrue
<1>3. ASSUME RuntimeLoads \/ Leave \/ LeaveFails PROVE WalletIsTrue'
  <2>1. /\ WalletTypeOK'
        /\ UNCHANGED <<mounted, connector, status, account, calls>>
    BY <1>1, <1>3 DEF WalletTypeOK, RuntimeLoads, Leave, LeaveFails
  <2>. QED  BY <1>1, <2>1 DEF WalletIsTrue, QuietBeforeMount, OneConnector, AnswersFit,
                               ConnectedThroughChosen, Mock, Ids
<1>4. ASSUME Left PROVE WalletIsTrue'
  <2>1. WalletTypeOK'
    <3>1. {account', active'} \subseteq Accounts \union {MockAccount, NoAccount}
      BY <1>1, <1>4 DEF WalletTypeOK, Left
    <3>. QED  BY <1>1, <1>4, <3>1 DEF WalletTypeOK, Left
  <2>2. QuietBeforeMount'
    BY <1>1, <1>4 DEF WalletTypeOK, QuietBeforeMount, Left
  <2>3. OneConnector' /\ AnswersFit' /\ ConnectedThroughChosen'
    BY <1>1, <1>4 DEF WalletTypeOK, OneConnector, AnswersFit, ConnectedThroughChosen, Left, Mock, Ids
  <2>. QED  BY <2>1, <2>2, <2>3 DEF WalletIsTrue
<1>5. ASSUME NEW c \in Calls, Connect(c) PROVE WalletIsTrue'
  <2>1. WalletTypeOK'
    <3>1. calls \in [Calls -> Call]
      BY <1>1 DEF WalletTypeOK, Call
    <3>2. [pc |-> "wallet", by |-> connector, account |-> NoAccount] \in Call
      BY <1>1, <3>1 DEF Call, WalletTypeOK
    <3>3. calls' \in [Calls -> Call]
      BY <1>5, <3>1, <3>2 DEF Connect
    <3>4. {account', active'} \subseteq Accounts \union {MockAccount, NoAccount}
      BY <1>1, <1>5 DEF WalletTypeOK, Connect
    <3>5. balance' \in Nat
      BY <1>1, <1>5 DEF Connect
    <3>. QED  BY <1>1, <1>5, <3>3, <3>4, <3>5 DEF WalletTypeOK, Call, Connect
  <2>2. /\ \A d \in Calls : d # c => calls'[d] = calls[d]
        /\ calls'[c].pc = "wallet" /\ calls'[c].by = connector
    <3>1. calls' = [calls EXCEPT ![c] = [pc |-> "wallet", by |-> connector, account |-> NoAccount]]
      BY <1>5 DEF Connect
    <3>2. calls \in [Calls -> Call]
      BY <1>1 DEF WalletTypeOK, Call
    <3>3. calls'[c] = [pc |-> "wallet", by |-> connector, account |-> NoAccount]
      BY <3>1, <3>2
    <3>. QED  BY <3>1, <3>2, <3>3 DEF Call
  <2>3. mounted /\ mounted' /\ connector' = connector /\ status' = "connecting"
    BY <1>5 DEF Connect
  <2>4. QuietBeforeMount' /\ ConnectedThroughChosen'
    BY <2>3 DEF QuietBeforeMount, ConnectedThroughChosen
  <2>5. AnswersFit'
    BY <1>1, <2>2 DEF AnswersFit
  <2>6. OneConnector'
    BY <1>1, <2>2, <2>3 DEF OneConnector, Mock, Ids
  <2>. QED  BY <2>1, <2>4, <2>5, <2>6 DEF WalletIsTrue
<1>6. ASSUME NEW c \in Calls, Approve(c) PROVE WalletIsTrue'
  <2>1. PICK a \in IF calls[c].by = "mock" THEN {MockAccount} ELSE Accounts :
          /\ calls' = [calls EXCEPT ![c] = [pc |-> IF calls[c].pc = "late" THEN "done" ELSE "balance",
                                            by |-> calls[c].by, account |-> a]]
          /\ active' = IF calls[c].by = "click" THEN a ELSE active
    BY <1>6 DEF Approve
  <2>2. a \in Accounts \union {MockAccount}
    BY <2>1
  <2>3. /\ UNCHANGED <<mounted, connector, ready, status, account, balance, leaving, owns>>
        /\ calls[c].pc \in {"wallet", "late"} /\ mounted
    BY <1>1, <1>6 DEF Approve, QuietBeforeMount
  <2>4. WalletTypeOK'
    <3>1. calls \in [Calls -> Call]
      BY <1>1 DEF WalletTypeOK, Call
    <3>2. \A pc \in {"done", "balance"} :
              [pc |-> pc, by |-> calls[c].by, account |-> a] \in Call
      BY <2>2, <3>1 DEF Call
    <3>3. calls' \in [Calls -> Call]
      BY <2>1, <3>1, <3>2
    <3>4. {account', active'} \subseteq Accounts \union {MockAccount, NoAccount}
      BY <1>1, <2>1, <2>2, <2>3 DEF WalletTypeOK
    <3>. QED  BY <1>1, <2>3, <3>3, <3>4 DEF WalletTypeOK, Call
  <2>5. QuietBeforeMount' /\ ConnectedThroughChosen'
    BY <1>1, <2>3 DEF QuietBeforeMount, ConnectedThroughChosen
  <2>6. OneConnector'
    BY <1>1, <2>1, <2>3 DEF WalletTypeOK, OneConnector, Mock, Ids
  <2>7. AnswersFit'
    BY <1>1, <2>1, <2>3 DEF WalletTypeOK, AnswersFit
  <2>. QED  BY <2>4, <2>5, <2>6, <2>7 DEF WalletIsTrue
<1>7. ASSUME NEW c \in Calls, Decline(c) \/ ConnectTimeout(c) PROVE WalletIsTrue'
  <2>1. /\ \E pc \in {"late", "done"} : calls' = [calls EXCEPT ![c].pc = pc]
        /\ calls[c].pc # "unused" /\ mounted
        /\ \/ status' = "error" /\ account' = NoAccount /\ balance' = 0
           \/ UNCHANGED <<status, account, balance>>
        /\ UNCHANGED <<mounted, connector, ready, active, leaving, owns>>
    BY <1>1, <1>7 DEF Decline, ConnectTimeout, Fail, QuietBeforeMount
  <2>2. WalletTypeOK'
    BY <1>1, <2>1 DEF WalletTypeOK
  <2>3. QuietBeforeMount' /\ OneConnector' /\ AnswersFit' /\ ConnectedThroughChosen'
    BY <1>1, <2>1 DEF WalletTypeOK, QuietBeforeMount, OneConnector, AnswersFit,
                      ConnectedThroughChosen, Mock, Ids
  <2>. QED  BY <2>2, <2>3 DEF WalletIsTrue
<1>8. ASSUME NEW c \in Calls, BalanceRead(c) PROVE WalletIsTrue'
  <2>1. mounted
    BY <1>1, <1>8 DEF BalanceRead, QuietBeforeMount
  <2>2. WalletTypeOK'
    <3>1. calls[c].account \in Owners
      BY <1>1, <1>8 DEF WalletTypeOK, AnswersFit, BalanceRead, Owners
    <3>2. owns[calls[c].account] \in Nat
      BY <1>1, <3>1 DEF WalletTypeOK
    <3>3. balance' \in Nat
      BY <1>8, <3>2 DEF BalanceRead
    <3>4. calls' \in [Calls -> Call]
      <4>1. calls \in [Calls -> Call]
        BY <1>1 DEF WalletTypeOK, Call
      <4>. QED  BY <1>8, <4>1 DEF BalanceRead, Call
    <3>5. /\ status' = "connected" /\ account' = calls[c].account
          /\ UNCHANGED <<flag, mounted, connector, ready, active, leaving, owns>>
      BY <1>8 DEF BalanceRead
    <3>6. account' \in Owners
      BY <3>1, <3>5
    <3>. QED  BY <1>1, <3>3, <3>4, <3>5, <3>6 DEF WalletTypeOK, Call, Owners
  <2>3. ConnectedThroughChosen'
    BY <1>1, <1>8 DEF WalletTypeOK, ConnectedThroughChosen, OneConnector, AnswersFit, BalanceRead
  <2>4. QuietBeforeMount' /\ OneConnector' /\ AnswersFit'
    BY <1>1, <1>8, <2>1 DEF WalletTypeOK, QuietBeforeMount, OneConnector, AnswersFit,
                            BalanceRead, Mock, Ids
  <2>. QED  BY <2>2, <2>3, <2>4 DEF WalletIsTrue
<1>. QED  BY <1>2, <1>3, <1>4, <1>5, <1>6, <1>7, <1>8 DEF WalletStep

\* The balance the page shows is the one it has read.
LEMMA BalanceStaysOwned ==
    ASSUME DialogInv, tries' = tries, WalletStep \/ \E c \in Calls : Connect(c)
    PROVE  BalanceWasOwned' /\ owns' = owns
<1>1. /\ WalletTypeOK /\ AnswersFit /\ BalanceWasOwned
  BY DEF DialogInv, TypeOK
<1>2. owns' = owns
  BY DEF WalletStep, Mount, RuntimeLoads, Leave, Left, LeaveFails, Approve, Decline,
         ConnectTimeout, Fail, BalanceRead, Connect
<1>3. CASE \E c \in Calls : BalanceRead(c)
  <2>1. PICK c \in Calls : BalanceRead(c)
    BY <1>3
  <2>2. calls[c].account \in Owners
    BY <1>1, <2>1 DEF WalletTypeOK, AnswersFit, BalanceRead, Owners
  <2>3. account' = calls[c].account /\ balance' \in {0, owns[calls[c].account]}
    BY <2>1 DEF BalanceRead
  <2>4. owns[account'] \in Nat
    BY <1>1, <2>2, <2>3 DEF WalletTypeOK
  <2>5. balance' <= owns'[account']
    BY <1>2, <2>3, <2>4
  <2>6. Covers(account, balance)'
    BY <2>5 DEF Covers
  <2>7. account' \in Owners
    BY <2>2, <2>3
  <2>. QED  BY <1>2, <2>6, <2>7 DEF BalanceWasOwned, Owners
<1>4. CASE ~\E c \in Calls : BalanceRead(c)
  <2>1. status' # "connected" \/ UNCHANGED <<status, account, balance>>
    BY <1>4 DEF WalletStep, Mount, RuntimeLoads, Leave, Left, LeaveFails, Approve, Decline,
                ConnectTimeout, Fail, Connect
  <2>. QED  BY <1>1, <1>2, <2>1 DEF BalanceWasOwned, Covers, HasSpent, Ids
<1>. QED  BY <1>2, <1>3, <1>4

-----------------------------------------------------------------------------
(* What the submitted deposits come to.                                    *)

\* The deposits OverlayFromDeposits counts, and their sum.
Submitted(ts) ==
    {k \in 1 .. Len(ts) : /\ ts[k].mode = "deposit" /\ ts[k].state = "made_up"
                          /\ ts[k].answered /\ ~ts[k].timedOut}
Total(ts) == MapThenSumSet(LAMBDA k : ts[k].amount, Submitted(ts))

OverlayBounded == added \in 0 .. Total(tries)

LEMMA OverlayIsTotal == OverlayFromDeposits <=> OverlayBounded
BY DEF OverlayFromDeposits, OverlayBounded, Total, Submitted, Ids

LEMMA OverlayIsTotalNext == OverlayFromDeposits' <=> OverlayBounded'
BY OverlayIsTotal, PTL

AmountsOf(ts) == [k \in Submitted(ts) |-> ts[k].amount]

LEMMA SubmittedFacts ==
    ASSUME NEW ts \in Seq(Try)
    PROVE  /\ IsFiniteSet(Submitted(ts))
           /\ AmountsOf(ts) \in [Submitted(ts) -> Nat]
           /\ \A k \in Submitted(ts) : AmountsOf(ts)[k] = ts[k].amount
<1>1. Len(ts) \in Nat
  BY LenProperties
<1>2. IsFiniteSet(1 .. Len(ts))
  <2>1. 1 \in Int /\ Len(ts) \in Int
    BY <1>1
  <2>. QED  BY <2>1, FS_Interval
<1>3. Submitted(ts) \subseteq 1 .. Len(ts)
  BY DEF Submitted
<1>4. IsFiniteSet(Submitted(ts))
  BY <1>2, <1>3, FS_Subset
<1>5. \A k \in 1 .. Len(ts) : ts[k] \in Try
  BY ElementOfSeq
<1>6. \A k \in Submitted(ts) : ts[k].amount \in Nat
  BY <1>3, <1>5 DEF Try
<1>. QED  BY <1>4, <1>6 DEF AmountsOf

LEMMA TotalIsSum ==
    ASSUME NEW ts \in Seq(Try)
    PROVE  \E g : IsSum(g, AmountsOf(ts), Submitted(ts)) /\ Total(ts) = g[Submitted(ts)]
<1>. DEFINE K == Submitted(ts)
            w == AmountsOf(ts)
            sum == CHOOSE g : g = [t \in SUBSET K |->
                                      IF t = {} THEN 0 ELSE ts[First(t)].amount + g[t \ {First(t)}]]
<1>1. IsFiniteSet(K) /\ w \in [K -> Nat] /\ \A k \in K : w[k] = ts[k].amount
  BY SubmittedFacts
<1>2. Total(ts) = sum[K]
  BY DEF Total, MapThenSumSet, MapThenFoldSet, First
<1>. HIDE DEF K, w
<1>3. PICK f : IsSum(f, w, K)
  BY <1>1, SumExists
<1>4. \A t \in SUBSET K : t # {} => w[First(t)] = ts[First(t)].amount
  BY <1>1, FirstFacts
<1>5. f = [t \in SUBSET K |-> IF t = {} THEN 0 ELSE ts[First(t)].amount + f[t \ {First(t)}]]
  BY <1>3, <1>4 DEF IsSum
<1>6. sum = [t \in SUBSET K |-> IF t = {} THEN 0 ELSE ts[First(t)].amount + sum[t \ {First(t)}]]
  BY <1>5
<1>. HIDE DEF sum
<1>7. sum = [t \in SUBSET K |-> IF t = {} THEN 0 ELSE w[First(t)] + sum[t \ {First(t)}]]
  BY <1>4, <1>6
<1>8. IsSum(sum, w, K)
  BY <1>1, <1>7, SumIsUnique
<1>. QED  BY <1>2, <1>8 DEF K, w

\* The total depends on the submitted deposits and their amounts alone.
LEMMA TotalIsKept ==
    ASSUME NEW ts \in Seq(Try), NEW us \in Seq(Try), Submitted(us) = Submitted(ts),
           \A k \in Submitted(ts) : us[k].amount = ts[k].amount
    PROVE  Total(us) = Total(ts) /\ Total(ts) \in Nat
<1>. DEFINE K == Submitted(ts)
<1>1. PICK g : IsSum(g, AmountsOf(ts), K) /\ Total(ts) = g[K]
  BY TotalIsSum
<1>2. PICK h : IsSum(h, AmountsOf(us), K) /\ Total(us) = h[K]
  BY TotalIsSum
<1>3. /\ IsFiniteSet(K) /\ AmountsOf(ts) \in [K -> Nat] /\ AmountsOf(us) \in [K -> Nat]
      /\ \A k \in K : AmountsOf(ts)[k] = AmountsOf(us)[k]
  BY SubmittedFacts
<1>. HIDE DEF K
<1>4. g[K] = h[K]
  BY <1>1, <1>2, <1>3, SumsAgree
<1>5. g[K] \in Nat
  BY <1>1 DEF IsSum
<1>. QED  BY <1>1, <1>2, <1>4, <1>5

SameAmounts(ts, us) == \A k \in Submitted(ts) : us[k].amount = ts[k].amount

\* One more deposit adds its amount.
LEMMA TotalGrows ==
    ASSUME NEW ts \in Seq(Try), NEW us \in Seq(Try), NEW n,
           n \notin Submitted(ts), Submitted(us) = Submitted(ts) \union {n},
           SameAmounts(ts, us)
    PROVE  Total(us) = Total(ts) + us[n].amount
<1>1. PICK g : IsSum(g, AmountsOf(ts), Submitted(ts)) /\ Total(ts) = g[Submitted(ts)]
  BY TotalIsSum
<1>2. PICK h : IsSum(h, AmountsOf(us), Submitted(us)) /\ Total(us) = h[Submitted(us)]
  BY TotalIsSum
<1>3. /\ IsFiniteSet(Submitted(ts)) /\ AmountsOf(ts) \in [Submitted(ts) -> Nat]
      /\ AmountsOf(us) \in [Submitted(us) -> Nat]
      /\ \A k \in Submitted(ts) : AmountsOf(us)[k] = AmountsOf(ts)[k]
      /\ AmountsOf(us)[n] = us[n].amount
  BY SubmittedFacts DEF SameAmounts
<1>4. h[Submitted(us)] = g[Submitted(ts)] + AmountsOf(us)[n]
  <2>. DEFINE K == Submitted(ts)
              U == Submitted(us)
              w == AmountsOf(ts)
              v == AmountsOf(us)
  <2>1. n \notin K /\ U = K \union {n}
    OBVIOUS
  <2>2. IsSum(g, w, K) /\ IsSum(h, v, U)
    BY <1>1, <1>2
  <2>3. /\ IsFiniteSet(K) /\ w \in [K -> Nat] /\ v \in [U -> Nat]
        /\ \A k \in K : v[k] = w[k]
    BY <1>3
  <2>. HIDE DEF K, U, w, v
  <2>4. h[U] = g[K] + v[n]
    BY <2>1, <2>2, <2>3, SumGrows
  <2>. QED  BY <2>4 DEF K, U, v
<1>. QED  BY <1>1, <1>2, <1>3, <1>4

-----------------------------------------------------------------------------
(* The tries.                                                              *)

\* One try is replaced.
LEMMA TryReplaced ==
    ASSUME tries \in Seq(Try), NEW k \in Ids, NEW t \in Try, tries' = [tries EXCEPT ![k] = t]
    PROVE  /\ tries' \in Seq(Try) /\ Len(tries') = Len(tries) /\ Ids' = Ids
           /\ tries'[k] = t
           /\ \A j \in Ids : j # k => tries'[j] = tries[j]
<1>1. Len(tries) \in Nat /\ DOMAIN tries = Ids /\ \A j \in Ids : tries[j] \in Try
  BY LenProperties, ElementOfSeq DEF Ids
<1>2. tries' \in Seq(Try) /\ Len(tries') = Len(tries)
  BY ExceptSeq DEF Ids
<1>. QED  BY <1>1, <1>2 DEF Ids

\* One try is added.
LEMMA TryAdded ==
    ASSUME tries \in Seq(Try), NEW t \in Try, tries' = Append(tries, t)
    PROVE  /\ tries' \in Seq(Try)
           /\ Len(tries) \in Nat /\ Len(tries') = Len(tries) + 1
           /\ Ids' = Ids \union {Len(tries')} /\ Len(tries') \notin Ids
           /\ tries'[Len(tries')] = t
           /\ \A j \in Ids : tries'[j] = tries[j]
<1>1. Len(tries) \in Nat
  BY LenProperties
<1>2. /\ tries' \in Seq(Try) /\ Len(tries') = Len(tries) + 1
      /\ \A j \in 1 .. Len(tries) : tries'[j] = tries[j]
      /\ tries'[Len(tries) + 1] = t
  BY AppendProperties
<1>3. 1 .. Len(tries') = (1 .. Len(tries)) \union {Len(tries')}
  BY <1>1, <1>2
<1>4. Len(tries') \notin 1 .. Len(tries)
  BY <1>1, <1>2
<1>. QED  BY <1>1, <1>2, <1>3, <1>4 DEF Ids

LEMMA TriesFacts ==
    ASSUME DialogInv
    PROVE  /\ tries \in Seq(Try) /\ Len(tries) \in Nat /\ Ids = 1 .. Len(tries)
           /\ \A k \in Ids : tries[k] \in Try
<1>1. tries \in Seq(Try)
  BY DEF DialogInv, TypeOK
<1>. QED  BY <1>1, LenProperties, ElementOfSeq DEF Ids

\* A signature that is awaited is the last one asked for.
LEMMA AwaitedIsLast ==
    ASSUME DialogInv, NEW k \in Ids, ~tries[k].answered, ~tries[k].timedOut
    PROVE  step = "signing" /\ k = Len(tries)
BY DEF DialogInv, SigningIsTheLastTry

\* The dialog is open only on a mounted page, and so is any try.
LEMMA OpenIsMounted ==
    ASSUME DialogInv, step # "closed" \/ Ids # {}
    PROVE  mounted
BY DEF DialogInv, QuietBeforeMount, Ids

-----------------------------------------------------------------------------
(* Steps that leave the tries alone.                                       *)

\* A step that asks for no signature and decides none, and leaves the amount reviewed.
LEMMA QuietStep ==
    ASSUME DialogInv, TypeOK', ReviewedAmount', UNCHANGED walletVars, tries' = tries, added' = added,
           step # "signing", step' \notin {"signing", "submitted"}, mounted
    PROVE  DialogInv'
<1>1. /\ QuietBeforeMount' /\ OneConnector' /\ AnswersFit' /\ ConnectedThroughChosen'
  BY DEF DialogInv, QuietBeforeMount, OneConnector, AnswersFit, ConnectedThroughChosen,
         walletVars, Mock, Ids
<1>2. StatesFit' /\ SignedAsReviewed' /\ SubmittedIsTheLastTry' /\ UncoveredOnlyWhenStale'
  BY DEF DialogInv, StatesFit, SignedAsReviewed, SubmittedIsTheLastTry, UncoveredOnlyWhenStale,
         Spent, Ids
<1>5. BalanceWasOwned'
  BY DEF DialogInv, BalanceWasOwned, Covers, HasSpent, Ids, walletVars
<1>3. SigningIsTheLastTry'
  BY DEF DialogInv, SigningIsTheLastTry, Ids
<1>4. OverlayFromDeposits'
  <2>1. OverlayFromDeposits
    BY DEF DialogInv
  <2>. QED  BY <2>1, OverlayIsTotal, OverlayIsTotalNext DEF OverlayBounded
<1>. QED  BY <1>1, <1>2, <1>3, <1>4, <1>5 DEF DialogInv

\* Rounding gives an amount again.
LEMMA RoundedNat ==
    ASSUME NEW n \in Nat
    PROVE  Rounded(n) \in Nat
<1>1. Grain \in Nat \ {0} /\ 2 * Grain \in Nat \ {0} /\ 2 * n + Grain \in Nat
  BY ModalAssumption
<1>. DEFINE a == 2 * n + Grain
            b == 2 * Grain
            q == a \div b
<1>2. a \in Nat /\ b \in Nat \ {0}
  BY <1>1
<1>. HIDE DEF a, b
<1>3. q \in Nat
  BY <1>2
<1>. HIDE DEF q
<1>4. q * Grain \in Nat
  BY <1>1, <1>3
<1>. QED  BY <1>4 DEF Rounded, a, b, q

LEMMA OfferedNat ==
    ASSUME DialogInv
    PROVE  Offered \in Nat /\ (mode = "deposit" => Offered = balance)
<1>1. balance \in Nat /\ added \in Nat /\ VaultShares \in Nat
  BY ModalAssumption DEF DialogInv, TypeOK, WalletTypeOK
<1>2. Offered \in {balance, VaultShares + added, VaultShares + 0}
  BY DEF Offered
<1>3. mode = "deposit" => Offered = balance
  BY DEF Offered
<1>. QED  BY <1>1, <1>2, <1>3

\* Opening, typing, continuing, going back, trying again, closing, and a signature that
\* cannot be asked for, for want of a contract.
LEMMA QuietStepsAreTrue ==
    ASSUME DialogInv,
           \/ \E m \in {"deposit", "withdraw"} : Open(m)
           \/ Enter \/ Continue \/ Back \/ TryAgain \/ Close
           \/ Sign /\ ~Configured
    PROVE  DialogInv'
<1>1. TypeOK /\ ReviewedAmount /\ SigningIsTheLastTry /\ ModalAssumption
  BY ModalAssumption DEF DialogInv
<1>2. UNCHANGED walletVars => WalletTypeOK'
  BY <1>1 DEF TypeOK, WalletTypeOK, walletVars
<1>3. tries' = tries => Ids' = Ids
  BY DEF Ids
<1>4. ASSUME NEW m \in {"deposit", "withdraw"}, Open(m) PROVE DialogInv'
  <2>1. TypeOK' /\ ReviewedAmount'
    BY <1>1, <1>2, <1>3, <1>4 DEF Open, TypeOK, ReviewedAmount, Steps
  <2>. QED  BY <1>4, <2>1, QuietStep DEF Open
<1>5. ASSUME Enter PROVE DialogInv'
  <2>1. amount' \in Nat
    BY <1>1, <1>5, OfferedNat, RoundedNat DEF Enter, ModalAssumption
  <2>2. TypeOK' /\ ReviewedAmount'
    BY <1>1, <1>2, <1>3, <1>5, <2>1 DEF Enter, TypeOK, ReviewedAmount, Steps
  <2>. QED  BY <1>5, <2>2, OpenIsMounted, QuietStep DEF Enter
<1>6. ASSUME Continue PROVE DialogInv'
  <2>1. amountError' \in {"none", "invalid", "exceeds"} /\ step' \in {"amount", "review"}
    BY <1>6 DEF Continue
  <2>2. step' = "review" => amount # 0 /\ ~(amount > Offered) /\ reviewed' = account
    BY <1>6 DEF Continue
  <2>3. amount \in Nat /\ balance \in Nat /\ owns \in [Owners -> Nat]
    BY <1>1 DEF TypeOK, WalletTypeOK
  <2>6. /\ account \in Owners /\ Covers(account, balance)
        /\ UNCHANGED <<walletVars, mode, amount, waits, tries, shown, added>>
        /\ reviewed' \in {account, NoAccount}
    BY <1>6 DEF Continue, DialogInv, BalanceWasOwned
  <2>7. ASSUME step' = "review", mode = "deposit" PROVE Covers(account, amount)
    <3>1. amount <= balance
      BY <2>2, <2>3, <2>7, OfferedNat
    <3>2. owns[account] \in Nat
      BY <2>3, <2>6
    <3>. QED  BY <2>3, <2>6, <3>1, <3>2 DEF Covers
  <2>8. Covers(account, amount) => Covers(account, amount)'
    BY <2>6 DEF Covers, HasSpent, Ids, walletVars
  <2>9. account' = account
    BY <2>6 DEF walletVars
  <2>4. ReviewedAmount'
    <3>1. CASE step' = "review"
      BY <2>2, <2>6, <2>7, <2>8, <2>9, <3>1 DEF ReviewedAmount
    <3>. QED  BY <2>1, <3>1 DEF ReviewedAmount
  <2>5. TypeOK'
    BY <1>1, <1>2, <1>3, <2>1, <2>6 DEF TypeOK, Steps
  <2>. QED  BY <1>6, <2>1, <2>4, <2>5, OpenIsMounted, QuietStep DEF Continue
<1>7. ASSUME Back \/ Close PROVE DialogInv'
  <2>1. TypeOK' /\ ReviewedAmount'
    BY <1>1, <1>2, <1>3, <1>7 DEF Back, Close, TypeOK, ReviewedAmount, Steps
  <2>. QED  BY <1>7, <2>1, OpenIsMounted, QuietStep DEF Back, Close
<1>8. ASSUME TryAgain \/ (Sign /\ ~Configured) PROVE DialogInv'
  <2>1. TypeOK'
    BY <1>1, <1>2, <1>3, <1>8 DEF TryAgain, Sign, TypeOK, Steps
  <2>2. /\ step \in {"review", "error"} /\ step' \in {"review", "error"}
        /\ UNCHANGED <<walletVars, mode, amount, tries, reviewed>>
    BY <1>8 DEF TryAgain, Sign
  <2>3. ReviewedAmount'
    BY <1>1, <2>2 DEF ReviewedAmount, Covers, HasSpent, Ids, walletVars
  <2>. QED  BY <1>8, <2>1, <2>3, OpenIsMounted, QuietStep DEF TryAgain, Sign
<1>. QED  BY <1>4, <1>5, <1>6, <1>7, <1>8

\* A step of the session, with or without the dialog waiting for it.
LEMMA SessionStepIsTrue ==
    ASSUME DialogInv, flag' = flag, waits' \in Calls \union {0},
           UNCHANGED <<mode, step, amount, amountError, tries, shown, added, reviewed>>,
           WalletStep \/ \E c \in Calls : Connect(c)
    PROVE  DialogInv'
<1>1. WalletIsTrue'
  BY SessionStaysTrue
<1>6. BalanceWasOwned' /\ owns' = owns
  BY BalanceStaysOwned
<1>2. StatesFit' /\ SignedAsReviewed' /\ SubmittedIsTheLastTry'
  BY DEF DialogInv, StatesFit, SignedAsReviewed, SubmittedIsTheLastTry, Ids
<1>7. ReviewedAmount'
  BY <1>6 DEF DialogInv, ReviewedAmount, Covers, HasSpent, Ids
<1>3. SigningIsTheLastTry' /\ UncoveredOnlyWhenStale'
  BY DEF DialogInv, SigningIsTheLastTry, UncoveredOnlyWhenStale, Spent, Ids
<1>4. OverlayFromDeposits'
  <2>1. OverlayFromDeposits
    BY DEF DialogInv
  <2>. QED  BY <2>1, OverlayIsTotal, OverlayIsTotalNext DEF OverlayBounded
<1>5. TypeOK'
  BY <1>1 DEF DialogInv, TypeOK, WalletIsTrue, Ids
<1>. QED  BY <1>1, <1>2, <1>3, <1>4, <1>5, <1>6, <1>7 DEF DialogInv, WalletIsTrue

-----------------------------------------------------------------------------
(* Steps of the tries.                                                     *)

\* The session, but for what the accounts own.
sessionVars == <<flag, mounted, connector, ready, status, account, balance, active, calls, leaving>>

LEMMA OwnsFacts ==
    ASSUME DialogInv
    PROVE  owns \in [Owners -> Nat]
BY DEF DialogInv, TypeOK, WalletTypeOK

\* While the session rests, what is known of it stays, the tries being its connector's.
LEMMA SessionRests ==
    ASSUME DialogInv, UNCHANGED sessionVars, owns' \in [Owners -> Nat], mounted,
           \A k \in Ids' : tries'[k].by = connector
    PROVE  WalletIsTrue'
<1>1. WalletTypeOK'
  BY DEF DialogInv, TypeOK, WalletTypeOK, sessionVars
<1>2. QuietBeforeMount' /\ AnswersFit' /\ ConnectedThroughChosen' /\ OneConnector'
  BY DEF DialogInv, QuietBeforeMount, OneConnector, AnswersFit, ConnectedThroughChosen,
         sessionVars, Mock
<1>. QED  BY <1>1, <1>2 DEF WalletIsTrue

\* A signature is asked for.
LEMMA SignIsTrue ==
    ASSUME DialogInv, Sign, Configured
    PROVE  DialogInv'
<1>1. /\ step = "review" /\ status = "connected" /\ Len(tries) < Tries
      /\ tries' = Append(tries, Prepared) /\ step' = "signing"
      /\ UNCHANGED <<walletVars, mode, amount, amountError, waits, shown, added, reviewed>>
  BY DEF Sign
<1>2. mounted /\ \A k \in Ids : tries[k].by = connector
  BY <1>1, OpenIsMounted DEF DialogInv, OneConnector
<1>3. /\ tries \in Seq(Try) /\ Len(tries) \in Nat /\ Ids = 1 .. Len(tries)
      /\ \A k \in Ids : tries[k] \in Try
  BY TriesFacts
<1>4. TypeOK /\ ConnectedThroughChosen /\ ReviewedAmount
  BY DEF DialogInv
<1>5. Prepared \in Try
  BY <1>1, <1>4 DEF Prepared, Try, TypeOK, WalletTypeOK, ConnectedThroughChosen, Owners
<1>6. /\ tries' \in Seq(Try) /\ Len(tries') = Len(tries) + 1
      /\ Ids' = Ids \union {Len(tries')} /\ Len(tries') \notin Ids
      /\ tries'[Len(tries')] = Prepared
      /\ \A j \in Ids : tries'[j] = tries[j]
  BY <1>1, <1>3, <1>5, TryAdded
<1>7. /\ Prepared.mode = mode /\ Prepared.amount = amount /\ Prepared.by = connector
      /\ Prepared.state = "popup" /\ ~Prepared.answered /\ ~Prepared.timedOut
      /\ Prepared.account = account /\ ~Prepared.landed
      /\ Prepared.covered = (mode = "withdraw" \/ amount <= owns[account])
      /\ Prepared.asReviewed = (reviewed = account)
  BY DEF Prepared
<1>. HIDE DEF Prepared
<1>8. WalletIsTrue'
  BY <1>1, <1>2, <1>6, <1>7, SessionRests, OwnsFacts DEF sessionVars, walletVars
<1>9. TypeOK'
  <2>1. Len(tries') <= Tries
    BY <1>1, <1>3, <1>6, ModalAssumption
  <2>2. shown' \in Ids' \union {0}
    BY <1>1, <1>4, <1>6 DEF TypeOK
  <2>. QED  BY <1>1, <1>4, <1>6, <1>8, <2>1, <2>2 DEF TypeOK, WalletIsTrue, Steps
<1>10. StatesFit'
  BY <1>6, <1>7 DEF DialogInv, StatesFit
<1>16. \A a : HasSpent(a) => \E j \in Ids : j < Len(tries') /\ tries[j].landed /\ tries[j].account = a
  BY <1>3, <1>6 DEF HasSpent
<1>11. ReviewedAmount' /\ SubmittedIsTheLastTry' /\ BalanceWasOwned'
  <2>1. SubmittedIsTheLastTry'
    BY <1>1 DEF SubmittedIsTheLastTry
  <2>2. \A a : HasSpent(a) => \E j \in Ids' : tries'[j].landed /\ tries'[j].account = a
    BY <1>6, <1>16
  <2>3. ReviewedAmount'
    BY <1>1, <1>4, <2>2 DEF ReviewedAmount, Covers, HasSpent, walletVars
  <2>4. BalanceWasOwned'
    BY <1>1, <2>2 DEF DialogInv, BalanceWasOwned, Covers, HasSpent, walletVars
  <2>. QED  BY <2>1, <2>3, <2>4
<1>12. SignedAsReviewed'
  BY <1>1, <1>6, <1>7 DEF SignedAsReviewed
<1>13. SigningIsTheLastTry'
  <2>1. \A k \in Ids : tries[k].answered \/ tries[k].timedOut
    BY <1>1 DEF DialogInv, SigningIsTheLastTry
  <2>2. \A k \in Ids' : (~tries'[k].answered /\ ~tries'[k].timedOut) <=> k = Len(tries')
    BY <1>6, <1>7, <2>1
  <2>. QED  BY <1>1, <1>6, <2>2 DEF SigningIsTheLastTry
<1>14. UncoveredOnlyWhenStale'
  <2>1. UncoveredOnlyWhenStale
    BY DEF DialogInv
  <2>2. ASSUME NEW k \in Ids, tries'[k].mode = "deposit"
        PROVE  /\ tries'[k].amount # 0
               /\ ~tries'[k].covered => ~tries'[k].asReviewed
                      \/ \E j \in Ids' : j < k /\ tries'[j].landed /\ tries'[j].account = tries'[k].account
    BY <1>6, <2>1, <2>2 DEF UncoveredOnlyWhenStale, Spent
  <2>3. ASSUME mode = "deposit"
        PROVE  /\ amount # 0
               /\ ~Prepared.covered => ~Prepared.asReviewed
                      \/ \E j \in Ids' : j < Len(tries') /\ tries'[j].landed /\ tries'[j].account = account
    <3>1. amount # 0 /\ Covers(reviewed, amount)
      BY <1>1, <1>4, <2>3 DEF ReviewedAmount
    <3>2. ASSUME HasSpent(account)
          PROVE  \E j \in Ids' : j < Len(tries') /\ tries'[j].landed /\ tries'[j].account = account
      BY <1>6, <1>16, <3>2
    <3>. QED  BY <1>7, <2>3, <3>1, <3>2 DEF Covers
  <2>. QED  BY <1>6, <1>7, <2>2, <2>3 DEF UncoveredOnlyWhenStale, Spent
<1>15. OverlayFromDeposits'
  <2>1. Submitted(tries') = Submitted(tries)
    BY <1>3, <1>6, <1>7 DEF Submitted, Ids
  <2>2. Submitted(tries) \subseteq Ids
    BY DEF Submitted, Ids
  <2>3. Total(tries') = Total(tries)
    BY <1>3, <1>6, <2>1, <2>2, TotalIsKept
  <2>. QED  BY <1>1, <2>3, OverlayIsTotal, OverlayIsTotalNext DEF OverlayBounded, DialogInv
<1>. QED  BY <1>8, <1>9, <1>10, <1>11, <1>12, <1>13, <1>14, <1>15 DEF DialogInv, WalletIsTrue

\* A try goes on, for the same amount and with the same connector and account; only a
\* deposit that is executed changes what its account owns.
GoesOn(k, t) ==
    /\ tries' = [tries EXCEPT ![k] = t]
    /\ t.mode = tries[k].mode /\ t.amount = tries[k].amount /\ t.by = tries[k].by
    /\ t.account = tries[k].account /\ (tries[k].landed => t.landed)
    /\ t.covered = tries[k].covered /\ t.asReviewed = tries[k].asReviewed
    /\ owns' \in [Owners -> Nat]
    /\ \A a \in Owners : owns'[a] = owns[a] \/ (t.account = a /\ t.landed)
    /\ UNCHANGED <<sessionVars, mode, amount, amountError, waits, reviewed>>

LEMMA TryGoesOn ==
    ASSUME DialogInv, NEW k \in Ids, NEW t \in Try, GoesOn(k, t)
    PROVE  /\ WalletIsTrue' /\ BalanceWasOwned' /\ UncoveredOnlyWhenStale'
           /\ step' = step \/ step = "signing" => ReviewedAmount'
           /\ tries' \in Seq(Try) /\ Len(tries') = Len(tries) /\ Ids' = Ids
           /\ tries'[k] = t
           /\ \A j \in Ids : j # k => tries'[j] = tries[j]
           /\ \A j \in Ids : /\ tries'[j].mode = tries[j].mode
                             /\ tries'[j].amount = tries[j].amount
                             /\ tries'[j].by = tries[j].by
<1>1. tries \in Seq(Try)
  BY TriesFacts
<1>2. /\ tries' \in Seq(Try) /\ Len(tries') = Len(tries) /\ Ids' = Ids
      /\ tries'[k] = t
      /\ \A j \in Ids : j # k => tries'[j] = tries[j]
  BY <1>1, TryReplaced DEF GoesOn
<1>3. \A j \in Ids : /\ tries'[j].mode = tries[j].mode
                     /\ tries'[j].amount = tries[j].amount
                     /\ tries'[j].by = tries[j].by
  BY <1>2 DEF GoesOn
<1>7. \A j \in Ids : /\ tries'[j].account = tries[j].account
                     /\ tries[j].landed => tries'[j].landed
                     /\ tries'[j].covered = tries[j].covered
                     /\ tries'[j].asReviewed = tries[j].asReviewed
  BY <1>2 DEF GoesOn
<1>4. UncoveredOnlyWhenStale'
  BY <1>2, <1>3, <1>7 DEF DialogInv, UncoveredOnlyWhenStale, Spent
<1>5. /\ mounted /\ UNCHANGED sessionVars /\ owns' \in [Owners -> Nat]
      /\ \A j \in Ids : tries[j].by = connector
  BY OpenIsMounted DEF GoesOn, DialogInv, OneConnector
<1>6. WalletIsTrue'
  BY <1>2, <1>3, <1>5, SessionRests
<1>8. ASSUME NEW a \in Owners, NEW n, Covers(a, n)
      PROVE  n <= owns'[a] \/ \E j \in Ids' : tries'[j].landed /\ tries'[j].account = a
  <2>1. owns'[a] = owns[a] \/ (tries'[k].landed /\ tries'[k].account = a)
    BY <1>2 DEF GoesOn
  <2>2. HasSpent(a) => \E j \in Ids' : tries'[j].landed /\ tries'[j].account = a
    BY <1>2, <1>7 DEF HasSpent
  <2>. QED  BY <1>2, <1>8, <2>1, <2>2 DEF Covers
<1>9. BalanceWasOwned'
  <2>1. UNCHANGED <<status, account, balance>>
    BY <1>5 DEF sessionVars
  <2>2. status = "connected" => account \in Owners /\ Covers(account, balance)
    BY DEF DialogInv, BalanceWasOwned
  <2>. QED  BY <1>8, <2>1, <2>2 DEF BalanceWasOwned, Covers, HasSpent
<1>10. step' = step \/ step = "signing" => ReviewedAmount'
  <2>1. UNCHANGED <<mode, amount, reviewed>>
    BY DEF GoesOn
  <2>2. ReviewedAmount
    BY DEF DialogInv
  <2>. QED  BY <1>8, <2>1, <2>2 DEF ReviewedAmount, Covers, HasSpent
<1>. QED  BY <1>2, <1>3, <1>4, <1>6, <1>9, <1>10

\* The amount of a try is an amount.
LEMMA AmountNat ==
    ASSUME DialogInv, NEW k \in Ids
    PROVE  tries[k].amount \in Nat
BY TriesFacts DEF Try

\* The user confirms or cancels in the popup.
LEMMA DecisionIsTrue ==
    ASSUME DialogInv, NEW k \in Ids, Confirm(k) \/ Refuse(k)
    PROVE  DialogInv'
<1>. DEFINE decided == IF Confirm(k)
                       THEN IF tries[k].by = "click" THEN "sent" ELSE "made_up"
                       ELSE "refused"
            t == [tries[k] EXCEPT !.state = decided]
<1>1. /\ tries[k].state = "popup" /\ (decided = "refused" => tries[k].by = "click")
      /\ tries' = [tries EXCEPT ![k] = t]
      /\ UNCHANGED <<walletVars, mode, step, amount, amountError, waits, shown, added, reviewed>>
      /\ decided \in {"sent", "made_up", "refused"}
      /\ decided = "sent" => tries[k].by = "click"
      /\ decided = "made_up" => tries[k].by # "click"
  BY DEF Confirm, Refuse
<1>2. tries[k] \in Try
  BY TriesFacts
<1>. HIDE DEF decided
<1>3. /\ t \in Try /\ t.state = decided
      /\ t.mode = tries[k].mode /\ t.amount = tries[k].amount /\ t.by = tries[k].by
      /\ t.account = tries[k].account /\ t.landed = tries[k].landed
      /\ t.covered = tries[k].covered /\ t.asReviewed = tries[k].asReviewed
      /\ t.answered = tries[k].answered /\ t.timedOut = tries[k].timedOut
  BY <1>1, <1>2 DEF Try
<1>. HIDE DEF t
<1>4. GoesOn(k, t)
  BY <1>1, <1>3, TriesFacts, OwnsFacts DEF GoesOn, sessionVars, walletVars
<1>5. /\ WalletIsTrue' /\ BalanceWasOwned' /\ UncoveredOnlyWhenStale'
      /\ step' = step \/ step = "signing" => ReviewedAmount'
      /\ tries' \in Seq(Try) /\ Len(tries') = Len(tries) /\ Ids' = Ids
      /\ tries'[k] = t
      /\ \A j \in Ids : j # k => tries'[j] = tries[j]
      /\ \A j \in Ids : /\ tries'[j].mode = tries[j].mode
                        /\ tries'[j].amount = tries[j].amount
                        /\ tries'[j].by = tries[j].by
  BY <1>3, <1>4, TryGoesOn
<1>6. TypeOK'
  BY <1>1, <1>5 DEF DialogInv, TypeOK, WalletIsTrue
<1>7. StatesFit'
  <2>1. tries[k].by \in {"mock", "click"}
    BY <1>2 DEF Try
  <2>. QED  BY <1>1, <1>3, <1>5, <2>1 DEF DialogInv, StatesFit
<1>8. ReviewedAmount' /\ SignedAsReviewed'
  BY <1>1, <1>5 DEF DialogInv, SignedAsReviewed
<1>9. SigningIsTheLastTry'
  <2>1. \A j \in Ids : /\ tries'[j].answered = tries[j].answered
                       /\ tries'[j].timedOut = tries[j].timedOut
    BY <1>3, <1>5
  <2>. QED  BY <1>1, <1>5, <2>1 DEF DialogInv, SigningIsTheLastTry
<1>10. SubmittedIsTheLastTry'
  <2>1. ASSUME step = "submitted"
        PROVE  /\ shown \in Ids /\ tries[shown].state \in {"sent", "made_up"}
               /\ tries[shown].amount = amount /\ tries[shown].mode = mode /\ shown = Len(tries)
    BY <2>1 DEF DialogInv, SubmittedIsTheLastTry, SignedAsReviewed
  <2>2. step = "submitted" => shown # k
    BY <1>1, <2>1
  <2>. QED  BY <1>1, <1>5, <2>1, <2>2 DEF SubmittedIsTheLastTry
<1>11. OverlayFromDeposits'
  <2>1. ~tries[k].answered
    BY <1>1 DEF DialogInv, StatesFit
  <2>2. Submitted(tries') = Submitted(tries)
    BY <1>3, <1>5, <2>1 DEF Submitted, Ids
  <2>3. Submitted(tries) \subseteq Ids /\ tries \in Seq(Try)
    BY TriesFacts DEF Submitted, Ids
  <2>4. Total(tries') = Total(tries)
    BY <1>5, <2>2, <2>3, TotalIsKept
  <2>. QED  BY <1>1, <2>4, OverlayIsTotal, OverlayIsTotalNext DEF OverlayBounded, DialogInv
<1>. QED  BY <1>5, <1>6, <1>7, <1>8, <1>9, <1>10, <1>11 DEF DialogInv, WalletIsTrue

\* A deposit is executed.
LEMMA LandingIsTrue ==
    ASSUME DialogInv, NEW k \in Ids, Lands(k)
    PROVE  DialogInv'
<1>. DEFINE t == [tries[k] EXCEPT !.landed = TRUE]
<1>1. /\ tries' = [tries EXCEPT ![k] = t]
      /\ tries[k].amount <= owns[tries[k].account]
      /\ owns' = [owns EXCEPT ![tries[k].account] = owns[tries[k].account] - tries[k].amount]
      /\ UNCHANGED <<sessionVars, mode, step, amount, amountError, waits, shown, added, reviewed>>
  BY DEF Lands, sessionVars
<1>2. tries[k] \in Try /\ owns \in [Owners -> Nat]
  BY TriesFacts, OwnsFacts
<1>3. /\ t \in Try /\ t.state = tries[k].state /\ t.landed
      /\ t.mode = tries[k].mode /\ t.amount = tries[k].amount /\ t.by = tries[k].by
      /\ t.account = tries[k].account
      /\ t.covered = tries[k].covered /\ t.asReviewed = tries[k].asReviewed
      /\ t.answered = tries[k].answered /\ t.timedOut = tries[k].timedOut
  BY <1>2 DEF Try
<1>. HIDE DEF t
<1>12. /\ owns' \in [Owners -> Nat]
       /\ \A a \in Owners : owns'[a] = owns[a] \/ t.account = a
  <2>1. tries[k].account \in Owners /\ tries[k].amount \in Nat
    BY <1>2 DEF Try
  <2>2. owns[tries[k].account] - tries[k].amount \in Nat
    BY <1>1, <1>2, <2>1
  <2>. QED  BY <1>1, <1>2, <1>3, <2>1, <2>2
<1>4. GoesOn(k, t)
  BY <1>1, <1>3, <1>12 DEF GoesOn
<1>5. /\ WalletIsTrue' /\ BalanceWasOwned' /\ UncoveredOnlyWhenStale'
      /\ step' = step \/ step = "signing" => ReviewedAmount'
      /\ tries' \in Seq(Try) /\ Len(tries') = Len(tries) /\ Ids' = Ids
      /\ tries'[k] = t
      /\ \A j \in Ids : j # k => tries'[j] = tries[j]
      /\ \A j \in Ids : /\ tries'[j].mode = tries[j].mode
                        /\ tries'[j].amount = tries[j].amount
                        /\ tries'[j].by = tries[j].by
  BY <1>3, <1>4, TryGoesOn
<1>6. \A j \in Ids : /\ tries'[j].state = tries[j].state
                     /\ tries'[j].answered = tries[j].answered
                     /\ tries'[j].timedOut = tries[j].timedOut
  BY <1>3, <1>5
<1>7. TypeOK'
  BY <1>1, <1>5 DEF DialogInv, TypeOK, WalletIsTrue
<1>8. StatesFit'
  BY <1>5, <1>6 DEF DialogInv, StatesFit
<1>9. SignedAsReviewed' /\ SigningIsTheLastTry'
  BY <1>1, <1>5, <1>6 DEF DialogInv, SignedAsReviewed, SigningIsTheLastTry
<1>10. SubmittedIsTheLastTry'
  <2>1. ASSUME step = "submitted"
        PROVE  /\ shown \in Ids /\ tries[shown].state \in {"sent", "made_up"}
               /\ tries[shown].amount = amount /\ tries[shown].mode = mode /\ shown = Len(tries)
    BY <2>1 DEF DialogInv, SubmittedIsTheLastTry, SignedAsReviewed
  <2>. QED  BY <1>1, <1>5, <1>6, <2>1 DEF SubmittedIsTheLastTry
<1>11. OverlayFromDeposits'
  <2>1. Submitted(tries') = Submitted(tries)
    BY <1>5, <1>6 DEF Submitted, Ids
  <2>2. Submitted(tries) \subseteq Ids /\ tries \in Seq(Try)
    BY TriesFacts DEF Submitted, Ids
  <2>3. Total(tries') = Total(tries)
    BY <1>5, <2>1, <2>2, TotalIsKept
  <2>. QED  BY <1>1, <2>3, OverlayIsTotal, OverlayIsTotalNext DEF OverlayBounded, DialogInv
<1>. QED  BY <1>1, <1>5, <1>7, <1>8, <1>9, <1>10, <1>11 DEF DialogInv, WalletIsTrue

\* The timer fires.
LEMMA TimeoutIsTrue ==
    ASSUME DialogInv, NEW k \in Ids, SigningTimeout(k)
    PROVE  DialogInv'
<1>. DEFINE t == [tries[k] EXCEPT !.timedOut = TRUE]
<1>1. /\ ~tries[k].answered /\ ~tries[k].timedOut
      /\ tries' = [tries EXCEPT ![k] = t] /\ step' = "error"
      /\ UNCHANGED <<walletVars, mode, amount, amountError, waits, shown, added, reviewed>>
  BY DEF SigningTimeout
<1>2. tries[k] \in Try
  BY TriesFacts
<1>3. /\ t \in Try /\ t.state = tries[k].state /\ t.timedOut
      /\ t.mode = tries[k].mode /\ t.amount = tries[k].amount /\ t.by = tries[k].by
      /\ t.account = tries[k].account /\ t.landed = tries[k].landed
      /\ t.covered = tries[k].covered /\ t.asReviewed = tries[k].asReviewed
      /\ t.answered = tries[k].answered
  BY <1>2 DEF Try
<1>. HIDE DEF t
<1>4. GoesOn(k, t)
  BY <1>1, <1>3, TriesFacts, OwnsFacts DEF GoesOn, sessionVars, walletVars
<1>5. /\ WalletIsTrue' /\ BalanceWasOwned' /\ UncoveredOnlyWhenStale'
      /\ step' = step \/ step = "signing" => ReviewedAmount'
      /\ tries' \in Seq(Try) /\ Len(tries') = Len(tries) /\ Ids' = Ids
      /\ tries'[k] = t
      /\ \A j \in Ids : j # k => tries'[j] = tries[j]
      /\ \A j \in Ids : /\ tries'[j].mode = tries[j].mode
                        /\ tries'[j].amount = tries[j].amount
                        /\ tries'[j].by = tries[j].by
  BY <1>3, <1>4, TryGoesOn
<1>6. step = "signing" /\ k = Len(tries)
  BY <1>1, AwaitedIsLast
<1>7. TypeOK'
  BY <1>1, <1>5 DEF DialogInv, TypeOK, WalletIsTrue, Steps
<1>8. StatesFit'
  BY <1>3, <1>5 DEF DialogInv, StatesFit
<1>9. ReviewedAmount' /\ SignedAsReviewed' /\ SubmittedIsTheLastTry'
  BY <1>1, <1>5, <1>6 DEF SignedAsReviewed, SubmittedIsTheLastTry
<1>10. SigningIsTheLastTry'
  <2>1. \A j \in Ids : j # k => tries[j].answered \/ tries[j].timedOut
    BY <1>6 DEF DialogInv, SigningIsTheLastTry
  <2>. QED  BY <1>1, <1>3, <1>5, <2>1 DEF SigningIsTheLastTry
<1>11. OverlayFromDeposits'
  <2>1. Submitted(tries') = Submitted(tries)
    BY <1>1, <1>3, <1>5 DEF Submitted, Ids
  <2>2. Submitted(tries) \subseteq Ids /\ tries \in Seq(Try)
    BY TriesFacts DEF Submitted, Ids
  <2>3. Total(tries') = Total(tries)
    BY <1>5, <2>1, <2>2, TotalIsKept
  <2>. QED  BY <1>1, <2>3, OverlayIsTotal, OverlayIsTotalNext DEF OverlayBounded, DialogInv
<1>. QED  BY <1>5, <1>7, <1>8, <1>9, <1>10, <1>11 DEF DialogInv, WalletIsTrue

\* A submitted transaction moves the overlay by no more than it adds to the deposits.
LEMMA OverlayFacts ==
    ASSUME DialogInv, NEW k \in Ids, tries[k].state \notin {"popup", "refused"},
           NEW us \in Seq(Try), ~tries[k].answered,
           Submitted(us) = Submitted(tries) \union
               (IF tries[k].mode = "deposit" /\ tries[k].state = "made_up" THEN {k} ELSE {}),
           \A j \in Ids : us[j].amount = tries[j].amount
    PROVE  Overlay(k) \in 0 .. Total(us)
<1>1. /\ tries \in Seq(Try) /\ Submitted(tries) \subseteq Ids /\ k \notin Submitted(tries)
      /\ tries[k].amount \in Nat
  BY TriesFacts, AmountNat DEF Submitted, Ids
<1>2. Total(tries) \in Nat
  BY <1>1, TotalIsKept
<1>3. added \in 0 .. Total(tries)
  BY OverlayIsTotal DEF DialogInv, OverlayBounded
<1>4. Mock => tries[k].state = "made_up"
  BY DEF DialogInv, OneConnector, StatesFit
<1>5. CASE tries[k].mode = "deposit" /\ tries[k].state = "made_up"
  <2>1. Submitted(us) = Submitted(tries) \union {k}
    BY <1>5
  <2>2. Total(us) = Total(tries) + us[k].amount
    BY <1>1, <2>1, TotalGrows DEF SameAmounts
  <2>3. Overlay(k) \in {added, added + tries[k].amount}
    BY <1>5 DEF Overlay
  <2>4. us[k].amount = tries[k].amount
    OBVIOUS
  <2>. QED  BY <1>1, <1>2, <1>3, <2>2, <2>3, <2>4
<1>6. CASE ~(tries[k].mode = "deposit" /\ tries[k].state = "made_up")
  <2>1. Submitted(us) = Submitted(tries)
    BY <1>6
  <2>2. Total(us) = Total(tries)
    BY <1>1, <2>1, TotalIsKept
  <2>3. Mock => tries[k].mode # "deposit"
    BY <1>4, <1>6
  <2>4. \/ Overlay(k) = added
        \/ Overlay(k) = IF added > tries[k].amount THEN added - tries[k].amount ELSE 0
    BY <2>3 DEF Overlay
  <2>. QED  BY <1>1, <1>2, <1>3, <2>2, <2>4
<1>. QED  BY <1>5, <1>6

\* The connector's promise is resolved or rejected.
LEMMA AnswerIsTrue ==
    ASSUME DialogInv, NEW k \in Ids, Answer(k)
    PROVE  DialogInv'
<1>. DEFINE t == [tries[k] EXCEPT !.answered = TRUE]
            late == tries[k].timedOut
            refused == tries[k].state = "refused"
<1>1. /\ tries[k].state # "popup" /\ ~tries[k].answered
      /\ tries' = [tries EXCEPT ![k] = t]
      /\ UNCHANGED <<walletVars, mode, amount, amountError, waits, reviewed>>
      /\ late => UNCHANGED <<step, shown, added>>
      /\ ~late /\ refused => step' = "error" /\ UNCHANGED <<shown, added>>
      /\ ~late /\ ~refused => step' = "submitted" /\ shown' = k /\ added' = Overlay(k)
  BY DEF Answer
<1>2. tries[k] \in Try
  BY TriesFacts
<1>3. /\ t \in Try /\ t.state = tries[k].state /\ t.timedOut = tries[k].timedOut
      /\ t.mode = tries[k].mode /\ t.amount = tries[k].amount /\ t.by = tries[k].by
      /\ t.account = tries[k].account /\ t.landed = tries[k].landed
      /\ t.covered = tries[k].covered /\ t.asReviewed = tries[k].asReviewed
      /\ t.answered
  BY <1>2 DEF Try
<1>. HIDE DEF t
<1>4. GoesOn(k, t)
  BY <1>1, <1>3, TriesFacts, OwnsFacts DEF GoesOn, sessionVars, walletVars
<1>5. /\ WalletIsTrue' /\ BalanceWasOwned' /\ UncoveredOnlyWhenStale'
      /\ step' = step \/ step = "signing" => ReviewedAmount'
      /\ tries' \in Seq(Try) /\ Len(tries') = Len(tries) /\ Ids' = Ids
      /\ tries'[k] = t
      /\ \A j \in Ids : j # k => tries'[j] = tries[j]
      /\ \A j \in Ids : /\ tries'[j].mode = tries[j].mode
                        /\ tries'[j].amount = tries[j].amount
                        /\ tries'[j].by = tries[j].by
  BY <1>3, <1>4, TryGoesOn
<1>6. ~late => step = "signing" /\ k = Len(tries)
  BY <1>1, AwaitedIsLast
<1>7. OverlayFromDeposits' /\ added' \in Nat
  <2>1. Submitted(tries) \subseteq Ids /\ tries \in Seq(Try) /\ k \notin Submitted(tries)
    BY <1>1, TriesFacts DEF Submitted, Ids
  <2>2. CASE ~late /\ ~refused
    <3>1. Submitted(tries') = Submitted(tries) \union
              (IF tries[k].mode = "deposit" /\ tries[k].state = "made_up" THEN {k} ELSE {})
      BY <1>1, <1>3, <1>5, <2>1, <2>2 DEF Submitted, Ids
    <3>2. Overlay(k) \in 0 .. Total(tries')
      BY <1>1, <1>5, <2>2, <3>1, OverlayFacts
    <3>3. Overlay(k) \in Nat
      BY <3>2
    <3>. QED  BY <1>1, <2>2, <3>2, <3>3, OverlayIsTotalNext DEF OverlayBounded
  <2>3. CASE late \/ refused
    <3>1. Submitted(tries') = Submitted(tries)
      BY <1>1, <1>3, <1>5, <2>1, <2>3 DEF Submitted, Ids
    <3>2. Total(tries') = Total(tries)
      BY <1>5, <2>1, <3>1, TotalIsKept
    <3>3. added' = added /\ added \in Nat
      BY <1>1, <2>3 DEF DialogInv, TypeOK
    <3>. QED  BY <3>2, <3>3, OverlayIsTotal, OverlayIsTotalNext DEF OverlayBounded, DialogInv
  <2>. QED  BY <2>2, <2>3
<1>8. TypeOK'
  BY <1>1, <1>5, <1>7 DEF DialogInv, TypeOK, WalletIsTrue, Steps
<1>9. StatesFit'
  BY <1>1, <1>3, <1>5 DEF DialogInv, StatesFit
<1>10. ReviewedAmount'
  BY <1>1, <1>5, <1>6
<1>11. SignedAsReviewed'
  <2>1. step' \in {"signing", "submitted"} => step \in {"signing", "submitted"}
    BY <1>1, <1>6
  <2>. QED  BY <1>1, <1>5, <2>1 DEF DialogInv, SignedAsReviewed
<1>12. SubmittedIsTheLastTry'
  <2>1. CASE ~late /\ ~refused
    <3>1. tries[k].amount = amount /\ tries[k].mode = mode /\ k = Len(tries)
      BY <1>6, <2>1 DEF DialogInv, SignedAsReviewed
    <3>2. tries[k].state \in {"sent", "made_up"}
      BY <1>1, <1>2, <2>1 DEF Try
    <3>. QED  BY <1>1, <1>3, <1>5, <2>1, <3>1, <3>2 DEF SubmittedIsTheLastTry
  <2>2. CASE ~late /\ refused
    BY <1>1, <2>2 DEF SubmittedIsTheLastTry
  <2>3. CASE late
    <3>1. ASSUME step = "submitted"
          PROVE  /\ shown \in Ids /\ tries[shown].state \in {"sent", "made_up"}
                 /\ tries[shown].amount = amount /\ tries[shown].mode = mode
                 /\ shown = Len(tries)
      BY <3>1 DEF DialogInv, SubmittedIsTheLastTry, SignedAsReviewed
    <3>. QED  BY <1>1, <1>3, <1>5, <2>3, <3>1 DEF SubmittedIsTheLastTry
  <2>. QED  BY <2>1, <2>2, <2>3
<1>13. SigningIsTheLastTry'
  <2>1. CASE late
    <3>1. \A j \in Ids : (~tries'[j].answered /\ ~tries'[j].timedOut)
                             <=> (~tries[j].answered /\ ~tries[j].timedOut)
      BY <1>3, <1>5, <2>1
    <3>. QED  BY <1>1, <1>5, <2>1, <3>1 DEF DialogInv, SigningIsTheLastTry
  <2>2. CASE ~late
    <3>1. \A j \in Ids : j # k => tries[j].answered \/ tries[j].timedOut
      BY <1>6, <2>2 DEF DialogInv, SigningIsTheLastTry
    <3>2. step' # "signing"
      BY <1>1, <2>2
    <3>. QED  BY <1>3, <1>5, <3>1, <3>2 DEF SigningIsTheLastTry
  <2>. QED  BY <2>1, <2>2
<1>. QED  BY <1>5, <1>7, <1>8, <1>9, <1>10, <1>11, <1>12, <1>13 DEF DialogInv, WalletIsTrue

-----------------------------------------------------------------------------
(* The theorems.                                                           *)

LEMMA DialogBegins == Init => DialogInv
<1>. SUFFICES ASSUME Init PROVE DialogInv
  OBVIOUS
<1>1. /\ tries = <<>> /\ added = 0 /\ step = "closed" /\ status = "disconnected"
      /\ ~mounted /\ connector = "mock"
  BY DEF Init, WalletInit, ModalInit
<1>2. tries \in Seq(Try) /\ Len(tries) = 0 /\ Ids = {}
  BY <1>1, EmptySeq DEF Ids
<1>3. TypeOK
  <2>1. owns \in [Owners -> Nat] /\ Tries \in Nat /\ Flags \subseteq {"true", "false", "unset"}
    BY WalletAssumption, ModalAssumption DEF Init, WalletInit, Owners
  <2>2. Unused \in Call
    BY DEF Unused, Call
  <2>3. calls \in [Calls -> Call]
    BY <2>2 DEF Init, WalletInit
  <2>4. WalletTypeOK
    <3>1. /\ flag \in Flags /\ mounted \in BOOLEAN /\ ready \in BOOLEAN /\ leaving \in BOOLEAN
          /\ connector \in {"mock", "click"}
          /\ status \in {"disconnected", "connecting", "connected", "error"}
          /\ account = NoAccount /\ active = NoAccount
      BY DEF Init, WalletInit
    <3>2. balance \in Nat
      BY DEF Init, WalletInit
    <3>3. {account, active} \subseteq Accounts \union {MockAccount, NoAccount}
      BY <3>1
    <3>. QED  BY <2>1, <2>3, <3>1, <3>2, <3>3 DEF WalletTypeOK, Call
  <2>. QED  BY <1>2, <2>1, <2>4 DEF Init, ModalInit, TypeOK, Steps
<1>4. QuietBeforeMount /\ OneConnector /\ AnswersFit /\ ConnectedThroughChosen
  BY <1>1, <1>2 DEF Init, WalletInit, QuietBeforeMount, OneConnector, AnswersFit,
                    ConnectedThroughChosen, Unused
<1>5. /\ StatesFit /\ ReviewedAmount /\ SignedAsReviewed /\ SigningIsTheLastTry
      /\ SubmittedIsTheLastTry /\ UncoveredOnlyWhenStale /\ BalanceWasOwned
  BY <1>1, <1>2 DEF StatesFit, ReviewedAmount, SignedAsReviewed, SigningIsTheLastTry,
                    SubmittedIsTheLastTry, UncoveredOnlyWhenStale, BalanceWasOwned
<1>6. OverlayFromDeposits
  <2>1. Total(tries) \in Nat
    BY <1>2, TotalIsKept
  <2>. QED  BY <1>1, <2>1, OverlayIsTotal DEF OverlayBounded
<1>. QED  BY <1>3, <1>4, <1>5, <1>6 DEF DialogInv

LEMMA DialogSteps == DialogInv /\ [Next]_vars => DialogInv'
<1>. SUFFICES ASSUME DialogInv, [Next]_vars PROVE DialogInv'
  OBVIOUS
<1>1. waits \in Calls \union {0}
  BY DEF DialogInv, TypeOK
<1>2. CASE UNCHANGED vars
  <2>1. WalletIsTrue'
    <3>1. \A k \in Ids : tries[k].by = connector
      BY DEF DialogInv, OneConnector
    <3>2. WalletTypeOK'
      BY <1>2 DEF DialogInv, TypeOK, WalletTypeOK, vars, walletVars
    <3>3. QuietBeforeMount' /\ AnswersFit' /\ ConnectedThroughChosen' /\ OneConnector'
      BY <1>2 DEF DialogInv, QuietBeforeMount, OneConnector, AnswersFit, ConnectedThroughChosen,
                  vars, walletVars, modalVars, Mock, Ids
    <3>. QED  BY <3>2, <3>3 DEF WalletIsTrue
  <2>2. /\ StatesFit' /\ SignedAsReviewed' /\ SigningIsTheLastTry'
        /\ SubmittedIsTheLastTry' /\ UncoveredOnlyWhenStale'
    BY <1>2 DEF DialogInv, StatesFit, SignedAsReviewed, SigningIsTheLastTry,
                SubmittedIsTheLastTry, UncoveredOnlyWhenStale, Spent, vars, modalVars, Ids
  <2>6. ReviewedAmount' /\ BalanceWasOwned'
    BY <1>2 DEF DialogInv, ReviewedAmount, BalanceWasOwned, Covers, HasSpent, vars, walletVars,
                modalVars, Ids
  <2>3. tries' = tries /\ added' = added
    BY <1>2 DEF vars, modalVars
  <2>4. OverlayFromDeposits'
    BY <2>3, OverlayIsTotal, OverlayIsTotalNext DEF OverlayBounded, DialogInv
  <2>5. TypeOK'
    BY <1>2, <2>1 DEF DialogInv, TypeOK, WalletIsTrue, vars, modalVars, Ids
  <2>. QED  BY <2>1, <2>2, <2>4, <2>5, <2>6 DEF DialogInv, WalletIsTrue
<1>3. ASSUME Next PROVE DialogInv'
  <2>1. flag' = flag
    BY <1>3 DEF Next
  <2>2. ASSUME NEW c \in Calls, SignConnects(c) PROVE DialogInv'
    BY <2>1, <2>2, SessionStepIsTrue DEF SignConnects
  <2>3. ASSUME ConnectButton \/ (WalletStep /\ UNCHANGED modalVars) PROVE DialogInv'
    <3>1. UNCHANGED modalVars /\ (WalletStep \/ \E c \in Calls : Connect(c))
      BY <2>3 DEF ConnectButton
    <3>2. waits' \in Calls \union {0}
      BY <1>1, <3>1 DEF modalVars
    <3>. QED  BY <2>1, <3>1, <3>2, SessionStepIsTrue DEF modalVars
  <2>4. ASSUME Sign PROVE DialogInv'
    BY <2>4, SignIsTrue, QuietStepsAreTrue
  <2>5. ASSUME NEW k \in Ids,
               Confirm(k) \/ Answer(k) \/ Refuse(k) \/ SigningTimeout(k) \/ Lands(k)
        PROVE  DialogInv'
    BY <2>5, DecisionIsTrue, AnswerIsTrue, TimeoutIsTrue, LandingIsTrue
  <2>. QED  BY <1>3, <2>2, <2>3, <2>4, <2>5, QuietStepsAreTrue DEF Next, ModalStep
<1>. QED  BY <1>2, <1>3

\* The inductive invariant holds in every state of the dialog and its session.
THEOREM DialogInvariant == Spec => []DialogInv
<1>. QED  BY DialogBegins, DialogSteps, PTL DEF Spec

\* What the dialog shows is what was signed (DepositWithdrawModal.tsx, handleSign and its
\* signing timer): one signature is awaited at a time and it is the last one, the hash
\* shown is its own, it is for the reviewed amount, a deposit its account cannot cover is
\* asked for only after a change of account or an executed deposit since the review, and the
\* overlay of the mock wallet never exceeds the deposits that were submitted.
THEOREM DialogTellsTheTruth == Spec => []DialogIsTrue
<1>1. DialogInv => DialogIsTrue
  BY DEF DialogInv, DialogIsTrue
<1>. QED  BY <1>1, DialogInvariant, PTL

-----------------------------------------------------------------------------
(* The vault's figures on the cockpit.                                     *)

\* What the pages, the reads and the cache hold.
PageRecords == [shown : C!Versions \union {C!Nothing, C!Zeros}, warned : BOOLEAN,
                error : BOOLEAN, age : 0..(StaleAfter + 1), next : 0..PollEvery,
                inFlight : BOOLEAN, waited : 0..FetchTimeout, mounted : BOOLEAN,
                runs : 0..DemoRuns]

ReadRecords == [busy : BOOLEAN, for : Viewers \union {C!NoViewer},
                seen : C!Versions \union {C!Nothing}, age : 0..ReadTime]

CacheRecords == [version : C!Versions \union {C!Nothing}, ttl : 0..CacheTtl]

VaultTypes == chain \in C!Versions /\ gone \in [C!Versions -> 0..C!Cap] /\ cache \in CacheRecords

\* How long ago what each part holds may have been the vault's state.
CurrentIsFresh == \A v \in C!Versions : v >= chain => gone[v] = 0

\* A cached entry, a read and a page each know how old they are.
CacheIsFresh ==
    (cache.ttl > 0 /\ cache.version \in C!Versions) =>
        gone[cache.version] <= ReadTime + (CacheTtl - cache.ttl)

ReadIsFresh(read) == read.seen \in C!Versions => gone[read.seen] <= read.age

PageIsFresh(p) ==
    (p.shown \in C!Versions /\ p.age <= StaleAfter) =>
        gone[p.shown] <= ReadTime + CacheTtl + p.age

\* The inductive invariant: nothing anyone holds is older than it is counted to be.
CockpitInv ==
    /\ VaultTypes
    /\ reads \in [Reads -> ReadRecords] /\ page \in [Viewers -> PageRecords]
    /\ CurrentIsFresh /\ CacheIsFresh
    /\ \A r \in Reads : ReadIsFresh(reads[r])
    /\ \A v \in Viewers : PageIsFresh(page[v])
    /\ C!AnswersAreAwaited

\* The constants as numbers.
LEMMA CockpitNumbers ==
    /\ PollEvery \in Nat /\ CacheTtl \in Nat /\ StaleAfter \in Nat /\ FetchTimeout \in Nat /\ ReadTime \in Nat
    /\ PollEvery > 0 /\ MaxVersion \in Nat /\ DemoRuns \in Nat
    /\ C!Versions = 0..MaxVersion /\ C!Cap = ReadTime + CacheTtl + StaleAfter + 2
    /\ C!Nothing = -1 /\ C!Zeros = -2
BY PanelsAssumption DEF C!CockpitAssumption, C!Versions, C!Cap, C!Nothing, C!Zeros

LEMMA GrowsByOne ==
    ASSUME NEW a \in Nat, NEW b \in Nat, NEW n \in Int, a <= b + 1, b <= n
    PROVE  a <= n + 1
OBVIOUS

LEMMA CockpitTimes ==
    PollEvery \in Nat /\ CacheTtl \in Nat /\ StaleAfter \in Nat /\ FetchTimeout \in Nat /\ ReadTime \in Nat
BY CockpitNumbers

LEMMA CountsUpTo ==
    ASSUME NEW n \in Nat, NEW i \in 0..n
    PROVE  /\ i \in Nat /\ i <= n /\ 0 \in 0..n
           /\ i < n => i + 1 \in 0..n
           /\ i > 0 => i - 1 \in 0..n
OBVIOUS

LEMMA CockpitRanges ==
    /\ 0 \in 0..(StaleAfter + 1) /\ 0 \in 0..PollEvery /\ 0 \in 0..FetchTimeout /\ 0 \in 0..ReadTime
    /\ PollEvery \in 0..PollEvery /\ CacheTtl \in 0..CacheTtl
BY CockpitNumbers

LEMMA DeliveredFacts ==
    ASSUME NEW p \in PageRecords, NEW value \in C!Versions \union {C!Nothing, C!Zeros}, NEW limited \in BOOLEAN
    PROVE  /\ C!Delivered(p, value, limited) \in PageRecords
           /\ C!Delivered(p, value, limited).shown = value
           /\ C!Delivered(p, value, limited).age = 0
           /\ C!Delivered(p, value, limited).warned = limited
BY CockpitRanges DEF C!Delivered, PageRecords

LEMMA SmallerOfTwo ==
    ASSUME NEW a \in Int, NEW b \in Int
    PROVE  /\ C!Min({a, b}) \in {a, b} /\ C!Min({a, b}) <= a /\ C!Min({a, b}) <= b
           /\ C!Max({a, b}) \in {a, b} /\ C!Max({a, b}) >= a /\ C!Max({a, b}) >= b
<1>1. \E x \in {a, b} : \A y \in {a, b} : x <= y
  OBVIOUS
<1>2. \E x \in {a, b} : \A y \in {a, b} : x >= y
  OBVIOUS
<1>. QED  BY <1>1, <1>2 DEF C!Min, C!Max

LEMMA CockpitInit == C!Init => CockpitInv
<1>. SUFFICES ASSUME C!Init PROVE CockpitInv
  OBVIOUS
<1>1. VaultTypes /\ CurrentIsFresh /\ CacheIsFresh
  BY CockpitNumbers DEF C!Init, VaultTypes, CacheRecords, CurrentIsFresh, CacheIsFresh
<1>2. C!Idle \in ReadRecords /\ ReadIsFresh(C!Idle)
  BY CockpitNumbers DEF C!Idle, ReadRecords, ReadIsFresh
<1>3. C!NewPage \in PageRecords /\ PageIsFresh(C!NewPage)
  BY CockpitNumbers DEF C!NewPage, PageRecords, PageIsFresh
<1>4. reads \in [Reads -> ReadRecords] /\ page \in [Viewers -> PageRecords]
  BY <1>2, <1>3 DEF C!Init
<1>5. C!AnswersAreAwaited
  BY DEF C!Init, C!Idle, C!AnswersAreAwaited
<1>. QED  BY <1>1, <1>2, <1>3, <1>4, <1>5 DEF CockpitInv, C!Init

\* What is shown, read and cached stays as recent as it was while no time passes.
LEMMA ChainStays ==
    ASSUME CockpitInv, UNCHANGED <<chain, gone, cache>>
    PROVE  VaultTypes' /\ CurrentIsFresh' /\ CacheIsFresh'
BY DEF CockpitInv, VaultTypes, CurrentIsFresh, CacheIsFresh

\* A step of one page.
PageStep(v, p) == page' = [page EXCEPT ![v] = p]

\* A page that goes on waiting, if it waits, and shows nothing too old.
LEMMA PageKeeps ==
    ASSUME CockpitInv, NEW v \in Viewers, NEW p \in PageRecords, PageStep(v, p), PageIsFresh(p),
           page[v].inFlight => p.inFlight, UNCHANGED <<chain, gone, cache, reads>>
    PROVE  CockpitInv'
<1>1. VaultTypes' /\ CurrentIsFresh' /\ CacheIsFresh'
  BY ChainStays
<1>2. page' \in [Viewers -> PageRecords] /\ reads' \in [Reads -> ReadRecords]
  BY DEF CockpitInv, PageStep
<1>3. \A r \in Reads : ReadIsFresh(reads[r])'
  BY DEF CockpitInv, ReadIsFresh
<1>4. \A w \in Viewers : PageIsFresh(page[w])'
  BY DEF CockpitInv, PageIsFresh, PageStep
<1>5. C!AnswersAreAwaited'
  <2>1. \A w \in Viewers : page[w].inFlight => page'[w].inFlight
    BY DEF CockpitInv, PageStep
  <2>. QED  BY <2>1 DEF CockpitInv, C!AnswersAreAwaited, ReadRecords
<1>. QED  BY <1>1, <1>2, <1>3, <1>4, <1>5 DEF CockpitInv

\* usePoller's fetch: joined, answered from the cache, or a read of the node begun.
LEMMA FetchKeeps ==
    ASSUME CockpitInv, NEW v \in Viewers, NEW p \in PageRecords, C!Fetch(v, p),
           p.shown = page[v].shown, p.age = page[v].age, p.inFlight = page[v].inFlight,
           UNCHANGED <<chain, gone, cache>>
    PROVE  CockpitInv'
<1>1. PageIsFresh(p)
  BY DEF CockpitInv, PageIsFresh
<1>2. CASE p.inFlight
  <2>1. PageStep(v, p) /\ reads' = reads
    BY <1>2 DEF C!Fetch, PageStep
  <2>. QED  BY <1>1, <2>1, PageKeeps
<1>3. CASE ~p.inFlight /\ C!Cached
  <2>. DEFINE q == C!Delivered(p, cache.version, FALSE)
  <2>1. PageStep(v, q) /\ reads' = reads
    BY <1>3 DEF C!Fetch, PageStep
  <2>2. cache \in CacheRecords /\ cache.ttl > 0 /\ CacheIsFresh /\ gone \in [C!Versions -> 0..C!Cap]
    BY <1>3 DEF CockpitInv, VaultTypes, C!Cached
  <2>3. q \in PageRecords /\ q.shown = cache.version /\ q.age = 0
    BY <2>2, DeliveredFacts DEF CacheRecords
  <2>4. ~page[v].inFlight
    BY <1>3
  <2>. HIDE DEF q
  <2>5. PageIsFresh(q)
    BY <2>2, <2>3, CockpitNumbers DEF PageIsFresh, CacheIsFresh, CacheRecords
  <2>. QED  BY <2>1, <2>3, <2>4, <2>5, PageKeeps
<1>4. CASE ~p.inFlight /\ ~C!Cached
  <2>. DEFINE begun == [C!Idle EXCEPT !.busy = TRUE, !.for = v]
              q == [p EXCEPT !.inFlight = TRUE]
  <2>1. PICK r \in Reads : /\ reads' = [reads EXCEPT ![r] = begun]
                           /\ page' = [page EXCEPT ![v] = q]
    BY <1>4 DEF C!Fetch
  <2>2. begun \in ReadRecords /\ begun.seen = C!Nothing /\ begun.for = v
    BY CockpitRanges DEF C!Idle, ReadRecords
  <2>3. q \in PageRecords /\ q.shown = p.shown /\ q.age = p.age /\ q.inFlight
    BY DEF PageRecords
  <2>4. ~page[v].inFlight
    BY <1>4
  <2>. HIDE DEF begun, q
  <2>5. VaultTypes' /\ CurrentIsFresh' /\ CacheIsFresh'
    BY ChainStays
  <2>6. page' \in [Viewers -> PageRecords] /\ reads' \in [Reads -> ReadRecords]
    BY <2>1, <2>2, <2>3 DEF CockpitInv
  <2>7. \A s \in Reads : ReadIsFresh(reads[s])'
    BY <2>1, <2>2, CockpitNumbers DEF CockpitInv, ReadIsFresh
  <2>8. \A w \in Viewers : PageIsFresh(page[w])'
    BY <1>1, <2>1, <2>3 DEF CockpitInv, PageIsFresh
  <2>9. C!AnswersAreAwaited'
    <3>1. \A s \in Reads : reads[s].for # C!NoViewer => reads[s].for # v
      BY <2>4 DEF CockpitInv, C!AnswersAreAwaited
    <3>2. \A w \in Viewers : page[w].inFlight => page'[w].inFlight
      BY <2>1, <2>3 DEF CockpitInv
    <3>3. \A s \in Reads : reads'[s].for = IF s = r THEN v ELSE reads[s].for
      BY <2>1, <2>2 DEF CockpitInv
    <3>4. \A s \in Reads : reads[s].for \in Viewers \union {C!NoViewer}
      BY DEF CockpitInv, ReadRecords
    <3>5. page'[v].inFlight
      BY <2>1, <2>3 DEF CockpitInv
    <3>6. \A s \in Reads : reads'[s].for # C!NoViewer => page'[reads'[s].for].inFlight
      BY <3>2, <3>3, <3>4, <3>5 DEF CockpitInv, C!AnswersAreAwaited
    <3>7. \A s, t \in Reads : (reads'[s].for = reads'[t].for /\ s # t) => reads'[s].for = C!NoViewer
      BY <3>1, <3>3 DEF CockpitInv, C!AnswersAreAwaited
    <3>. QED  BY <3>6, <3>7 DEF C!AnswersAreAwaited
  <2>. QED  BY <2>5, <2>6, <2>7, <2>8, <2>9 DEF CockpitInv
<1>. QED  BY <1>2, <1>3, <1>4

LEMMA PageFetches ==
    ASSUME CockpitInv, NEW v \in Viewers, C!Mount(v) \/ C!Poll(v) \/ C!Refetch(v)
    PROVE  CockpitInv'
<1>1. page[v] \in PageRecords
  BY DEF CockpitInv
<1>2. CASE C!Mount(v)
  <2>. DEFINE p == [page[v] EXCEPT !.mounted = TRUE]
  <2>1. /\ p \in PageRecords
        /\ p.shown = page[v].shown /\ p.age = page[v].age /\ p.inFlight = page[v].inFlight
    BY <1>1 DEF PageRecords
  <2>2. C!Fetch(v, p) /\ UNCHANGED <<chain, gone, cache>>
    BY <1>2 DEF C!Mount
  <2>. HIDE DEF p
  <2>. QED  BY <2>1, <2>2, FetchKeeps
<1>3. CASE C!Poll(v)
  <2>. DEFINE p == [page[v] EXCEPT !.next = PollEvery]
  <2>1. /\ p \in PageRecords
        /\ p.shown = page[v].shown /\ p.age = page[v].age /\ p.inFlight = page[v].inFlight
    BY <1>1, CockpitRanges DEF PageRecords
  <2>2. C!Fetch(v, p) /\ UNCHANGED <<chain, gone, cache>>
    BY <1>3 DEF C!Poll
  <2>. HIDE DEF p
  <2>. QED  BY <2>1, <2>2, FetchKeeps
<1>4. CASE C!Refetch(v)
  <2>1. PICK more \in {0, 1} : /\ page[v].runs + more <= DemoRuns
                              /\ C!Fetch(v, [page[v] EXCEPT !.runs = page[v].runs + more])
    BY <1>4 DEF C!Refetch
  <2>. DEFINE p == [page[v] EXCEPT !.runs = page[v].runs + more]
  <2>5. page[v].runs \in 0..DemoRuns /\ DemoRuns \in Nat
    BY <1>1, CockpitNumbers DEF PageRecords
  <2>2. page[v].runs + more \in 0..DemoRuns
    BY <2>1, <2>5
  <2>3. /\ p \in PageRecords
        /\ p.shown = page[v].shown /\ p.age = page[v].age /\ p.inFlight = page[v].inFlight
    BY <1>1, <2>2 DEF PageRecords
  <2>4. C!Fetch(v, p) /\ UNCHANGED <<chain, gone, cache>>
    BY <1>4, <2>1 DEF C!Refetch
  <2>. HIDE DEF p
  <2>. QED  BY <2>3, <2>4, FetchKeeps
<1>. QED  BY <1>2, <1>3, <1>4

\* After FETCH_TIMEOUT_MS the page goes on without its read.
LEMMA RequestFailsKeeps == ASSUME CockpitInv, NEW v \in Viewers, C!RequestFails(v) PROVE CockpitInv'
<1>. DEFINE p == C!Failed(page[v])
<1>1. p \in PageRecords /\ p.shown = page[v].shown /\ p.age = page[v].age
  BY CockpitRanges DEF CockpitInv, C!Failed, PageRecords
<1>2. page' = [page EXCEPT ![v] = p]
  BY DEF C!RequestFails
<1>. HIDE DEF p
<1>3. VaultTypes' /\ CurrentIsFresh' /\ CacheIsFresh'
  BY ChainStays DEF C!RequestFails
<1>4. \A w \in Viewers : PageIsFresh(page[w])'
  BY <1>1, <1>2 DEF CockpitInv, PageIsFresh, C!RequestFails
<1>5. ASSUME NEW r \in Reads
      PROVE  /\ reads'[r] \in ReadRecords
             /\ reads'[r].seen = reads[r].seen /\ reads'[r].age = reads[r].age
             /\ reads'[r].for = IF reads[r].for = v THEN C!NoViewer ELSE reads[r].for
  BY DEF CockpitInv, C!RequestFails, ReadRecords
<1>6. page' \in [Viewers -> PageRecords] /\ reads' \in [Reads -> ReadRecords]
  <2>1. reads' = [r \in Reads |-> reads'[r]]
    BY DEF C!RequestFails
  <2>. QED  BY <1>1, <1>2, <1>5, <2>1 DEF CockpitInv
<1>7. \A r \in Reads : ReadIsFresh(reads[r])'
  BY <1>5 DEF CockpitInv, ReadIsFresh, C!RequestFails
<1>8. C!AnswersAreAwaited'
  <2>1. \A w \in Viewers \ {v} : page'[w] = page[w]
    BY <1>2 DEF CockpitInv
  <2>2. \A r \in Reads : reads[r].for \in Viewers \union {C!NoViewer}
    BY DEF CockpitInv, ReadRecords
  <2>. QED  BY <1>5, <2>1, <2>2 DEF CockpitInv, C!AnswersAreAwaited
<1>. QED  BY <1>3, <1>4, <1>6, <1>7, <1>8 DEF CockpitInv

LEMMA NodeAnswersKeeps == ASSUME CockpitInv, NEW r \in Reads, C!NodeAnswers(r) PROVE CockpitInv'
<1>. DEFINE read == [reads[r] EXCEPT !.seen = chain]
<1>1. reads[r] \in ReadRecords /\ chain \in C!Versions /\ gone[chain] = 0
  BY CockpitNumbers DEF CockpitInv, VaultTypes, CurrentIsFresh
<1>2. read \in ReadRecords /\ read.seen = chain /\ read.age = reads[r].age /\ read.for = reads[r].for
  BY <1>1 DEF ReadRecords
<1>3. reads' = [reads EXCEPT ![r] = read] /\ UNCHANGED <<chain, gone, cache, page>>
  BY DEF C!NodeAnswers
<1>4. read.age \in Nat
  BY <1>2, CockpitNumbers DEF ReadRecords
<1>. HIDE DEF read
<1>5. VaultTypes' /\ CurrentIsFresh' /\ CacheIsFresh'
  BY <1>3, ChainStays
<1>6. page' \in [Viewers -> PageRecords] /\ reads' \in [Reads -> ReadRecords]
  BY <1>2, <1>3 DEF CockpitInv
<1>7. \A s \in Reads : ReadIsFresh(reads[s])'
  BY <1>1, <1>2, <1>3, <1>4 DEF CockpitInv, ReadIsFresh
<1>8. \A v \in Viewers : PageIsFresh(page[v])'
  BY <1>3 DEF CockpitInv, PageIsFresh
<1>9. C!AnswersAreAwaited'
  <2>1. \A s \in Reads : reads'[s].for = reads[s].for
    BY <1>2, <1>3 DEF CockpitInv
  <2>. QED  BY <1>3, <2>1 DEF CockpitInv, C!AnswersAreAwaited
<1>. QED  BY <1>5, <1>6, <1>7, <1>8, <1>9 DEF CockpitInv

\* A read is over: whoever waits for it gets a page that is recent enough.
LEMMA AnswerKeeps ==
    ASSUME CockpitInv, NEW r \in Reads, NEW value \in C!Versions \union {C!Nothing, C!Zeros},
           NEW limited \in BOOLEAN, C!Answer(r, value, limited),
           value \in C!Versions => gone[value] <= ReadTime,
           reads' = [reads EXCEPT ![r] = C!Idle], UNCHANGED <<chain, gone>>,
           VaultTypes', CacheIsFresh'
    PROVE  CockpitInv'
<1>1. C!Idle \in ReadRecords /\ C!Idle.for = C!NoViewer /\ C!Idle.seen = C!Nothing
  BY CockpitNumbers DEF C!Idle, ReadRecords
<1>2. ASSUME NEW v \in Viewers
      PROVE  page'[v] \in PageRecords /\ PageIsFresh(page[v])'
  <2>1. CASE v = reads[r].for
    <3>. DEFINE q == C!Delivered(page[v], value, limited)
    <3>1. q \in PageRecords /\ q.shown = value /\ q.age = 0
      BY DeliveredFacts DEF CockpitInv
    <3>2. page'[v] = q
      BY <2>1 DEF C!Answer
    <3>3. gone \in [C!Versions -> 0..C!Cap]
      BY DEF CockpitInv, VaultTypes
    <3>. HIDE DEF q
    <3>. QED  BY <3>1, <3>2, <3>3, CockpitNumbers DEF PageIsFresh
  <2>2. CASE v # reads[r].for
    BY <2>2 DEF CockpitInv, C!Answer, PageIsFresh
  <2>. QED  BY <2>1, <2>2
<1>3. page' \in [Viewers -> PageRecords] /\ reads' \in [Reads -> ReadRecords]
  <2>1. page' = [v \in Viewers |-> page'[v]]
    BY DEF C!Answer
  <2>. QED  BY <1>1, <1>2, <2>1 DEF CockpitInv
<1>4. \A s \in Reads : ReadIsFresh(reads[s])'
  BY <1>1, CockpitNumbers DEF CockpitInv, ReadIsFresh
<1>5. CurrentIsFresh'
  BY DEF CockpitInv, CurrentIsFresh
<1>6. C!AnswersAreAwaited'
  <2>1. \A s \in Reads : reads'[s].for = IF s = r THEN C!NoViewer ELSE reads[s].for
    BY <1>1 DEF CockpitInv
  <2>2. \A v \in Viewers : v # reads[r].for => page'[v] = page[v]
    BY DEF C!Answer
  <2>3. \A s \in Reads : reads[s].for \in Viewers \union {C!NoViewer}
    BY DEF CockpitInv, ReadRecords
  <2>. QED  BY <2>1, <2>2, <2>3 DEF CockpitInv, C!AnswersAreAwaited
<1>. QED  BY <1>2, <1>3, <1>4, <1>5, <1>6 DEF CockpitInv

LEMMA ReadOverKeeps ==
    ASSUME CockpitInv, NEW r \in Reads, C!ReadEnds(r) \/ C!ReadFails(r)
    PROVE  CockpitInv'
<1>1. /\ reads[r] \in ReadRecords /\ ReadIsFresh(reads[r])
      /\ chain \in C!Versions /\ gone \in [C!Versions -> 0..C!Cap] /\ cache \in CacheRecords
  BY DEF CockpitInv, VaultTypes
<1>2. reads[r].age \in 0..ReadTime
  BY <1>1 DEF ReadRecords
<1>3. CASE C!ReadEnds(r)
  <2>1. reads[r].seen \in C!Versions
    BY <1>1, <1>3 DEF C!ReadEnds, ReadRecords
  <2>2. gone[reads[r].seen] <= ReadTime /\ gone[reads[r].seen] \in Nat
    <3>1. gone[reads[r].seen] \in Nat /\ gone[reads[r].seen] <= reads[r].age
      BY <1>1, <2>1, CockpitNumbers DEF ReadIsFresh
    <3>. QED  BY <1>2, <3>1, CockpitTimes
  <2>. DEFINE entry == [version |-> reads[r].seen, ttl |-> CacheTtl]
  <2>3. entry \in CacheRecords /\ entry.version = reads[r].seen /\ entry.ttl = CacheTtl
    BY <2>1, CockpitNumbers DEF CacheRecords
  <2>4. cache' = entry /\ UNCHANGED <<chain, gone>>
    BY <1>3 DEF C!ReadEnds
  <2>. HIDE DEF entry
  <2>5. VaultTypes' /\ CacheIsFresh'
    <3>1. VaultTypes'
      BY <1>1, <2>3, <2>4 DEF VaultTypes
    <3>2. ReadTime + (CacheTtl - CacheTtl) = ReadTime
      BY CockpitTimes
    <3>. QED  BY <2>2, <2>3, <2>4, <3>1, <3>2 DEF CacheIsFresh
  <2>6. C!Answer(r, reads[r].seen, FALSE) /\ reads' = [reads EXCEPT ![r] = C!Idle]
    BY <1>3 DEF C!ReadEnds
  <2>. QED  BY <2>1, <2>2, <2>4, <2>5, <2>6, AnswerKeeps
<1>4. CASE C!ReadFails(r)
  <2>1. PICK limited \in BOOLEAN : C!Answer(r, C!Zeros, limited)
    BY <1>4 DEF C!ReadFails
  <2>2. UNCHANGED <<chain, gone, cache>> /\ reads' = [reads EXCEPT ![r] = C!Idle]
    BY <1>4 DEF C!ReadFails
  <2>3. C!Zeros \notin C!Versions
    BY CockpitNumbers
  <2>. QED  BY <2>1, <2>2, <2>3, ChainStays, AnswerKeeps
<1>. QED  BY <1>3, <1>4

LEMMA ChainChangesKeeps == ASSUME CockpitInv, C!ChainChanges PROVE CockpitInv'
<1>1. chain \in 0..MaxVersion /\ chain < MaxVersion /\ chain' = chain + 1 /\ UNCHANGED <<gone, cache, reads, page>>
  BY CockpitNumbers DEF CockpitInv, VaultTypes, C!ChainChanges
<1>2. VaultTypes' /\ CurrentIsFresh' /\ CacheIsFresh'
  BY <1>1, CockpitNumbers DEF CockpitInv, VaultTypes, CurrentIsFresh, CacheIsFresh
<1>3. (\A r \in Reads : ReadIsFresh(reads[r])') /\ (\A v \in Viewers : PageIsFresh(page[v])')
  BY <1>1 DEF CockpitInv, ReadIsFresh, PageIsFresh
<1>4. C!AnswersAreAwaited'
  BY <1>1 DEF CockpitInv, C!AnswersAreAwaited
<1>. QED  BY <1>1, <1>2, <1>3, <1>4 DEF CockpitInv

\* Time passes: everything grows older by no more than it is counted to.
LEMMA CockpitTickKeeps == ASSUME CockpitInv, C!Tick PROVE CockpitInv'
<1>1. /\ chain \in 0..MaxVersion /\ gone \in [C!Versions -> 0..C!Cap] /\ cache \in CacheRecords
      /\ reads \in [Reads -> ReadRecords] /\ page \in [Viewers -> PageRecords]
  BY CockpitNumbers DEF CockpitInv, VaultTypes
<1>2. ASSUME NEW v \in C!Versions
      PROVE  /\ gone'[v] \in 0..C!Cap /\ gone'[v] <= gone[v] + 1
             /\ v >= chain => gone'[v] = 0
             /\ gone[v] \in Nat /\ gone'[v] \in Nat
  <2>1. gone[v] \in Nat /\ gone[v] + 1 \in Int /\ C!Cap \in Nat
    BY <1>1, CockpitNumbers
  <2>2. gone'[v] = IF v < chain THEN C!Min({gone[v] + 1, C!Cap}) ELSE 0
    BY DEF C!Tick
  <2>3. /\ C!Min({gone[v] + 1, C!Cap}) \in {gone[v] + 1, C!Cap}
        /\ C!Min({gone[v] + 1, C!Cap}) <= gone[v] + 1 /\ C!Min({gone[v] + 1, C!Cap}) <= C!Cap
    <3>. DEFINE more == gone[v] + 1
    <3>1. more \in Int /\ C!Cap \in Int
      BY <2>1
    <3>. HIDE DEF more
    <3>2. /\ C!Min({more, C!Cap}) \in {more, C!Cap}
          /\ C!Min({more, C!Cap}) <= more /\ C!Min({more, C!Cap}) <= C!Cap
      BY <3>1, SmallerOfTwo
    <3>. QED  BY <3>2 DEF more
  <2>. QED  BY <1>1, <2>1, <2>2, <2>3, CockpitNumbers
<1>3. gone' \in [C!Versions -> 0..C!Cap]
  <2>1. gone' = [v \in C!Versions |-> gone'[v]]
    BY DEF C!Tick
  <2>. QED  BY <1>2, <2>1
<1>4. /\ cache'.version = cache.version /\ cache' \in CacheRecords
      /\ cache.ttl \in 0..CacheTtl /\ cache.version \in C!Versions \union {C!Nothing}
      /\ cache'.ttl > 0 => cache'.ttl = cache.ttl - 1
  <2>1. cache.ttl \in 0..CacheTtl /\ cache.ttl - 1 \in Int
    BY <1>1, CockpitNumbers DEF CacheRecords
  <2>. DEFINE left == C!Max({cache.ttl - 1, 0})
  <2>2. left \in 0..CacheTtl /\ (left > 0 => left = cache.ttl - 1)
    <3>. DEFINE less == cache.ttl - 1
    <3>2. less \in Int /\ 0 \in Int
      BY <2>1
    <3>. HIDE DEF less
    <3>3. C!Max({less, 0}) \in {less, 0} /\ C!Max({less, 0}) >= less /\ C!Max({less, 0}) >= 0
      BY <3>2, SmallerOfTwo
    <3>1. left \in {cache.ttl - 1, 0} /\ left >= cache.ttl - 1 /\ left >= 0
      BY <3>3 DEF less
    <3>. QED  BY <2>1, <3>1, CockpitNumbers
  <2>3. cache' = [cache EXCEPT !.ttl = left]
    BY DEF C!Tick
  <2>. HIDE DEF left
  <2>. QED  BY <1>1, <2>1, <2>2, <2>3 DEF CacheRecords
<1>5. VaultTypes' /\ CurrentIsFresh' /\ CacheIsFresh'
  <2>1. chain' = chain
    BY DEF C!Tick
  <2>2. VaultTypes' /\ CurrentIsFresh'
    BY <1>1, <1>2, <1>3, <1>4, <2>1, CockpitNumbers DEF VaultTypes, CurrentIsFresh
  <2>3. CacheIsFresh'
    <3>. SUFFICES ASSUME cache'.ttl > 0, cache.version \in C!Versions
                  PROVE  gone'[cache.version] <= ReadTime + (CacheTtl - cache'.ttl)
      BY <1>4 DEF CacheIsFresh
    <3>1. cache'.ttl = cache.ttl - 1 /\ cache.ttl > 0
      BY <1>4, CockpitNumbers DEF CacheRecords
    <3>2. gone[cache.version] <= ReadTime + (CacheTtl - cache.ttl)
      BY <3>1 DEF CockpitInv, CacheIsFresh
    <3>3. gone'[cache.version] <= gone[cache.version] + 1 /\ gone'[cache.version] \in Nat /\ gone[cache.version] \in Nat
      BY <1>2
    <3>4. cache.ttl \in Nat
      BY <1>4, CockpitNumbers
    <3>5. ReadTime + (CacheTtl - cache.ttl) \in Int
      BY <3>4, CockpitNumbers
    <3>6. gone'[cache.version] <= ReadTime + (CacheTtl - cache.ttl) + 1
      BY <3>2, <3>3, <3>5, GrowsByOne
    <3>7. ReadTime + (CacheTtl - cache.ttl) + 1 = ReadTime + (CacheTtl - (cache.ttl - 1))
      BY <3>4, CockpitNumbers
    <3>. QED  BY <3>1, <3>6, <3>7
  <2>. QED  BY <2>2, <2>3
<1>6. ASSUME NEW r \in Reads
      PROVE  reads'[r] \in ReadRecords /\ ReadIsFresh(reads[r])' /\ reads'[r].for \in {reads[r].for, C!NoViewer}
  <2>1. /\ reads[r] \in ReadRecords /\ reads[r].age \in 0..ReadTime /\ reads[r].age < ReadTime
        /\ ReadIsFresh(reads[r])
    BY <1>1 DEF C!Tick, ReadRecords, CockpitInv
  <2>2. CASE reads[r].busy
    <3>. DEFINE read == [reads[r] EXCEPT !.age = reads[r].age + 1]
    <3>1. /\ read \in ReadRecords /\ read.seen = reads[r].seen /\ read.age = reads[r].age + 1
          /\ read.for = reads[r].for
      <4>1. reads[r].age + 1 \in 0..ReadTime
        BY <2>1, CockpitNumbers
      <4>. QED  BY <2>1, <4>1 DEF ReadRecords
    <3>2. reads'[r] = read
      BY <2>2 DEF C!Tick
    <3>. HIDE DEF read
    <3>3. ASSUME reads[r].seen \in C!Versions PROVE gone'[reads[r].seen] <= reads[r].age + 1
      <4>1. gone'[reads[r].seen] <= gone[reads[r].seen] + 1 /\ gone'[reads[r].seen] \in Nat /\ gone[reads[r].seen] \in Nat
        BY <1>2, <3>3
      <4>2. gone[reads[r].seen] <= reads[r].age
        BY <2>1, <3>3 DEF ReadIsFresh
      <4>3. reads[r].age \in Int
        BY <2>1
      <4>. QED  BY <4>1, <4>2, <4>3, GrowsByOne
    <3>. QED  BY <3>1, <3>2, <3>3 DEF ReadIsFresh
  <2>3. CASE ~reads[r].busy
    <3>1. C!Idle \in ReadRecords /\ C!Idle.seen \notin C!Versions /\ C!Idle.for = C!NoViewer
      BY CockpitNumbers DEF C!Idle, ReadRecords
    <3>2. reads'[r] = C!Idle
      BY <2>3 DEF C!Tick
    <3>. QED  BY <3>1, <3>2 DEF ReadIsFresh
  <2>. QED  BY <2>2, <2>3
<1>7. ASSUME NEW v \in Viewers
      PROVE  page'[v] \in PageRecords /\ PageIsFresh(page[v])' /\ page'[v].inFlight = page[v].inFlight
  <2>1. /\ page[v] \in PageRecords /\ PageIsFresh(page[v])
        /\ page[v].next > 0 /\ page[v].waited < FetchTimeout
    BY <1>1 DEF C!Tick, CockpitInv
  <2>2. /\ page[v].age \in 0..(StaleAfter + 1) /\ page[v].next \in 0..PollEvery
        /\ page[v].waited \in 0..FetchTimeout
    BY <2>1 DEF PageRecords
  <2>. DEFINE age == C!Min({page[v].age + 1, StaleAfter + 1})
              next == page[v].next - 1
              waited == IF page[v].inFlight THEN page[v].waited + 1 ELSE 0
              p == [page[v] EXCEPT !.age = age, !.next = next, !.waited = waited]
  <2>3. /\ age \in 0..(StaleAfter + 1) /\ (age <= StaleAfter => age = page[v].age + 1)
        /\ next \in 0..PollEvery /\ waited \in 0..FetchTimeout
    <3>1. page[v].age + 1 \in Int /\ StaleAfter + 1 \in Int
      BY <2>2, CockpitTimes
    <3>2. /\ age \in {page[v].age + 1, StaleAfter + 1}
          /\ age <= page[v].age + 1 /\ age <= StaleAfter + 1
      BY <3>1, SmallerOfTwo
    <3>3. age \in 0..(StaleAfter + 1) /\ (age <= StaleAfter => age = page[v].age + 1)
      <4>. HIDE DEF age
      <4>. QED  BY <2>2, <3>2, CockpitTimes
    <3>4. next \in 0..PollEvery
      BY <2>1, <2>2, CockpitTimes, CountsUpTo
    <3>5. waited \in 0..FetchTimeout
      <4>1. page[v].waited + 1 \in 0..FetchTimeout /\ 0 \in 0..FetchTimeout
        BY <2>1, <2>2, CockpitTimes, CountsUpTo
      <4>. QED  BY <4>1
    <3>. QED  BY <3>3, <3>4, <3>5
  <2>4. page'[v] = p
    BY DEF C!Tick
  <2>. HIDE DEF age, next, waited
  <2>5. /\ p \in PageRecords /\ p.shown = page[v].shown /\ p.age = age
        /\ p.inFlight = page[v].inFlight
    BY <2>1, <2>3 DEF PageRecords
  <2>. HIDE DEF p
  <2>6. ASSUME page[v].shown \in C!Versions, age <= StaleAfter
        PROVE  gone'[page[v].shown] <= ReadTime + CacheTtl + age
    <3>1. /\ gone'[page[v].shown] <= gone[page[v].shown] + 1
          /\ gone'[page[v].shown] \in Nat /\ gone[page[v].shown] \in Nat
      BY <1>2, <2>6
    <3>2. age = page[v].age + 1 /\ page[v].age \in Nat /\ page[v].age <= StaleAfter
      <4>1. age = page[v].age + 1
        BY <2>3, <2>6
      <4>2. page[v].age \in Nat
        BY <2>2
      <4>. QED  BY <2>6, <4>1, <4>2, CockpitNumbers
    <3>3. gone[page[v].shown] <= ReadTime + CacheTtl + page[v].age
      BY <2>1, <2>6, <3>2 DEF PageIsFresh
    <3>4. ReadTime + CacheTtl + page[v].age \in Int
      BY <3>2, CockpitNumbers
    <3>5. gone'[page[v].shown] <= ReadTime + CacheTtl + page[v].age + 1
      BY <3>1, <3>3, <3>4, GrowsByOne
    <3>6. ReadTime + CacheTtl + page[v].age + 1 = ReadTime + CacheTtl + age
      BY <3>2, CockpitNumbers
    <3>. QED  BY <3>5, <3>6
  <2>. QED  BY <2>4, <2>5, <2>6 DEF PageIsFresh
<1>8. reads' \in [Reads -> ReadRecords] /\ page' \in [Viewers -> PageRecords]
  <2>1. reads' = [r \in Reads |-> reads'[r]] /\ page' = [v \in Viewers |-> page'[v]]
    BY DEF C!Tick
  <2>. QED  BY <1>6, <1>7, <2>1
<1>9. C!AnswersAreAwaited'
  <2>1. \A r \in Reads : reads[r].for \in Viewers \union {C!NoViewer}
    BY <1>1 DEF ReadRecords
  <2>. QED  BY <1>6, <1>7, <2>1 DEF CockpitInv, C!AnswersAreAwaited
<1>. QED  BY <1>5, <1>6, <1>7, <1>8, <1>9 DEF CockpitInv

LEMMA CockpitStutters == ASSUME CockpitInv, UNCHANGED cockpitVars PROVE CockpitInv'
<1>1. UNCHANGED <<chain, gone, cache, reads, page>>
  BY DEF cockpitVars
<1>2. VaultTypes' /\ CurrentIsFresh' /\ CacheIsFresh'
  BY <1>1, ChainStays
<1>3. (\A r \in Reads : ReadIsFresh(reads[r])') /\ (\A v \in Viewers : PageIsFresh(page[v])')
  BY <1>1 DEF CockpitInv, ReadIsFresh, PageIsFresh
<1>4. C!AnswersAreAwaited'
  BY <1>1 DEF CockpitInv, C!AnswersAreAwaited
<1>. QED  BY <1>1, <1>2, <1>3, <1>4 DEF CockpitInv

\* What the cockpit shows, what is cached and what is being read is as recent as it is
\* counted to be, for every number of pages and reads and every setting of the times.
THEOREM CockpitInvariant == PanelsSpec => []CockpitInv
<1>1. PanelsInit => CockpitInv
  BY CockpitInit DEF PanelsInit
<1>2. CockpitInv /\ [PanelsNext]_<<part, panelVars>> => CockpitInv'
  <2>. SUFFICES ASSUME CockpitInv, [PanelsNext]_<<part, panelVars>> PROVE CockpitInv'
    OBVIOUS
  <2>1. C!Next \/ UNCHANGED cockpitVars
    BY DEF PanelsNext, CockpitRuns, ButtonRuns, OracleRuns, FeedRuns, panelVars
  <2>. QED  BY <2>1, PageFetches, RequestFailsKeeps, NodeAnswersKeeps, ReadOverKeeps, ChainChangesKeeps,
               CockpitTickKeeps, CockpitStutters DEF C!Next
<1>. QED  BY <1>1, <1>2, PTL DEF PanelsSpec

\* The fallback's zeros come from a failure of their own age, unless it was a 429.
ZerosAreFresh(p) ==
    (p.shown = C!Zeros /\ ~p.warned /\ p.age <= StaleAfter) => failed <= p.age

ZerosInv ==
    /\ failed \in 0..(StaleAfter + 1)
    /\ \A v \in Viewers : ZerosAreFresh(page[v])

\* A page that shows what it showed, or anything but the fallback, while no time passes.
LEMMA ZerosKeep ==
    ASSUME ZerosInv, failed' = failed,
           \A v \in Viewers :
               \/ page'[v].shown # C!Zeros
               \/ /\ page'[v].shown = page[v].shown /\ page'[v].age = page[v].age
                  /\ page'[v].warned = page[v].warned
    PROVE  ZerosInv'
BY DEF ZerosInv, ZerosAreFresh

LEMMA FetchKeepsZeros ==
    ASSUME CockpitInv, ZerosInv, NEW v \in Viewers, NEW p \in PageRecords, C!Fetch(v, p),
           p.shown = page[v].shown, p.age = page[v].age, p.warned = page[v].warned, failed' = failed
    PROVE  ZerosInv'
<1>1. page \in [Viewers -> PageRecords] /\ cache \in CacheRecords
  BY DEF CockpitInv, VaultTypes
<1>2. PICK q : /\ page' = [page EXCEPT ![v] = q]
               /\ \/ q.shown # C!Zeros
                  \/ q.shown = page[v].shown /\ q.age = page[v].age /\ q.warned = page[v].warned
  <2>1. CASE p.inFlight
    BY <2>1 DEF C!Fetch
  <2>2. CASE ~p.inFlight /\ C!Cached
    <3>1. page' = [page EXCEPT ![v] = C!Delivered(p, cache.version, FALSE)]
      BY <2>2 DEF C!Fetch
    <3>2. C!Delivered(p, cache.version, FALSE).shown = cache.version
      BY <1>1, DeliveredFacts DEF CacheRecords
    <3>3. cache.version # C!Zeros
      BY <1>1, CockpitNumbers DEF CacheRecords
    <3>. QED  BY <3>1, <3>2, <3>3
  <2>3. CASE ~p.inFlight /\ ~C!Cached
    <3>1. page' = [page EXCEPT ![v] = [p EXCEPT !.inFlight = TRUE]]
      BY <2>3 DEF C!Fetch
    <3>2. /\ [p EXCEPT !.inFlight = TRUE].shown = p.shown /\ [p EXCEPT !.inFlight = TRUE].age = p.age
          /\ [p EXCEPT !.inFlight = TRUE].warned = p.warned
      BY DEF PageRecords
    <3>. QED  BY <3>1, <3>2
  <2>. QED  BY <2>1, <2>2, <2>3
<1>3. \A w \in Viewers : page'[w] = IF w = v THEN q ELSE page[w]
  BY <1>1, <1>2
<1>. QED  BY <1>2, <1>3, ZerosKeep

LEMMA PageFetchesKeepZeros ==
    ASSUME CockpitInv, ZerosInv, NEW v \in Viewers, C!Mount(v) \/ C!Poll(v) \/ C!Refetch(v)
    PROVE  ZerosInv'
<1>1. page[v] \in PageRecords
  BY DEF CockpitInv
<1>2. PICK p \in PageRecords :
          /\ C!Fetch(v, p)
          /\ p.shown = page[v].shown /\ p.age = page[v].age /\ p.warned = page[v].warned
  <2>1. CASE C!Mount(v)
    <3>. DEFINE p == [page[v] EXCEPT !.mounted = TRUE]
    <3>1. p \in PageRecords /\ p.shown = page[v].shown /\ p.age = page[v].age /\ p.warned = page[v].warned
      BY <1>1 DEF PageRecords
    <3>2. C!Fetch(v, p)
      BY <2>1 DEF C!Mount
    <3>. HIDE DEF p
    <3>. QED  BY <3>1, <3>2
  <2>2. CASE C!Poll(v)
    <3>. DEFINE p == [page[v] EXCEPT !.next = PollEvery]
    <3>1. p \in PageRecords /\ p.shown = page[v].shown /\ p.age = page[v].age /\ p.warned = page[v].warned
      BY <1>1, CockpitRanges DEF PageRecords
    <3>2. C!Fetch(v, p)
      BY <2>2 DEF C!Poll
    <3>. HIDE DEF p
    <3>. QED  BY <3>1, <3>2
  <2>3. CASE C!Refetch(v)
    <3>1. PICK more \in {0, 1} : /\ page[v].runs + more <= DemoRuns
                                /\ C!Fetch(v, [page[v] EXCEPT !.runs = page[v].runs + more])
      BY <2>3 DEF C!Refetch
    <3>. DEFINE p == [page[v] EXCEPT !.runs = page[v].runs + more]
    <3>5. page[v].runs \in 0..DemoRuns /\ DemoRuns \in Nat
      BY <1>1, CockpitNumbers DEF PageRecords
    <3>2. page[v].runs + more \in 0..DemoRuns
      BY <3>1, <3>5
    <3>3. p \in PageRecords /\ p.shown = page[v].shown /\ p.age = page[v].age /\ p.warned = page[v].warned
      BY <1>1, <3>2 DEF PageRecords
    <3>4. C!Fetch(v, p)
      BY <3>1
    <3>. HIDE DEF p
    <3>. QED  BY <3>3, <3>4
  <2>. QED  BY <2>1, <2>2, <2>3
<1>3. failed' = failed
  BY DEF C!Mount, C!Poll, C!Refetch
<1>. QED  BY <1>2, <1>3, FetchKeepsZeros

\* A read is over: the fallback of a failure that was no 429 is as old as that failure.
LEMMA ReadOverKeepsZeros ==
    ASSUME CockpitInv, ZerosInv, NEW r \in Reads, C!ReadEnds(r) \/ C!ReadFails(r)
    PROVE  ZerosInv'
<1>1. page \in [Viewers -> PageRecords] /\ reads[r] \in ReadRecords
  BY DEF CockpitInv
<1>2. CASE C!ReadEnds(r)
  <2>5. reads[r].seen \in C!Versions \union {C!Nothing}
    BY <1>1 DEF ReadRecords
  <2>6. C!Zeros \notin C!Versions \union {C!Nothing}
    BY CockpitNumbers
  <2>1. reads[r].seen \in C!Versions \union {C!Nothing} /\ reads[r].seen # C!Zeros
    BY <2>5, <2>6
  <2>7. C!Answer(r, reads[r].seen, FALSE)
    BY <1>2 DEF C!ReadEnds
  <2>2. \A v \in Viewers :
            page'[v] = IF v = reads[r].for THEN C!Delivered(page[v], reads[r].seen, FALSE) ELSE page[v]
    BY <2>7 DEF C!Answer
  <2>3. ASSUME NEW v \in Viewers PROVE C!Delivered(page[v], reads[r].seen, FALSE).shown = reads[r].seen
    <3>1. page[v] \in PageRecords /\ reads[r].seen \in C!Versions \union {C!Nothing, C!Zeros}
      BY <1>1, <2>1
    <3>. QED  BY <3>1, DeliveredFacts
  <2>4. failed' = failed
    BY <1>2 DEF C!ReadEnds
  <2>. QED  BY <2>1, <2>2, <2>3, <2>4, ZerosKeep
<1>3. CASE C!ReadFails(r)
  <2>1. PICK limited \in BOOLEAN :
            C!Answer(r, C!Zeros, limited) /\ failed' = IF limited THEN failed ELSE 0
    BY <1>3 DEF C!ReadFails
  <2>2. failed \in 0..(StaleAfter + 1) /\ failed' \in 0..(StaleAfter + 1) /\ failed' <= failed
    BY <2>1, CockpitNumbers DEF ZerosInv
  <2>3. ASSUME NEW v \in Viewers PROVE ZerosAreFresh(page[v])'
    <3>1. page[v] \in PageRecords /\ ZerosAreFresh(page[v])
      BY <1>1 DEF ZerosInv
    <3>2. CASE v = reads[r].for
      <4>. DEFINE q == C!Delivered(page[v], C!Zeros, limited)
      <4>1. q.shown = C!Zeros /\ q.age = 0 /\ q.warned = limited
        BY <3>1, DeliveredFacts
      <4>2. page'[v] = q
        BY <2>1, <3>2 DEF C!Answer
      <4>. HIDE DEF q
      <4>. QED  BY <2>1, <4>1, <4>2 DEF ZerosAreFresh
    <3>3. CASE v # reads[r].for
      <4>1. page'[v] = page[v]
        BY <2>1, <3>3 DEF C!Answer
      <4>2. page[v].age \in 0..(StaleAfter + 1)
        BY <3>1 DEF PageRecords
      <4>. QED  BY <2>1, <2>2, <3>1, <4>1, <4>2, CockpitNumbers DEF ZerosAreFresh
    <3>. QED  BY <3>2, <3>3
  <2>. QED  BY <2>2, <2>3 DEF ZerosInv
<1>. QED  BY <1>2, <1>3

\* Time passes for the failure and for the page.
LEMMA TickKeepsZeros == ASSUME CockpitInv, ZerosInv, C!Tick PROVE ZerosInv'
<1>1. page \in [Viewers -> PageRecords] /\ failed \in 0..(StaleAfter + 1)
  BY DEF CockpitInv, ZerosInv
<1>6. failed + 1 \in Int /\ StaleAfter + 1 \in Int
  BY <1>1, CockpitTimes
<1>7. failed' = C!Min({failed + 1, StaleAfter + 1})
  BY DEF C!Tick
<1>2. failed + 1 \in Int /\ StaleAfter + 1 \in Int /\ failed' = C!Min({failed + 1, StaleAfter + 1})
  BY <1>6, <1>7
<1>3. /\ failed' \in {failed + 1, StaleAfter + 1}
      /\ failed' <= failed + 1 /\ failed' <= StaleAfter + 1
  <2>. DEFINE a == failed + 1
              b == StaleAfter + 1
  <2>1. a \in Int /\ b \in Int /\ failed' = C!Min({a, b})
    BY <1>2
  <2>. HIDE DEF a, b
  <2>2. failed' \in {a, b} /\ failed' <= a /\ failed' <= b
    BY <2>1, SmallerOfTwo
  <2>. QED  BY <2>2 DEF a, b
<1>4. failed' \in 0..(StaleAfter + 1)
  BY <1>1, <1>3, CockpitTimes
<1>5. ASSUME NEW v \in Viewers PROVE ZerosAreFresh(page[v])'
  <2>. DEFINE age == C!Min({page[v].age + 1, StaleAfter + 1})
  <2>1. page[v] \in PageRecords /\ page[v].age \in 0..(StaleAfter + 1) /\ ZerosAreFresh(page[v])
    BY <1>1 DEF PageRecords, ZerosInv
  <2>2. age \in {page[v].age + 1, StaleAfter + 1}
    <3>. DEFINE a == page[v].age + 1
                b == StaleAfter + 1
    <3>1. a \in Int /\ b \in Int
      BY <2>1, CockpitTimes
    <3>. HIDE DEF a, b
    <3>2. C!Min({a, b}) \in {a, b}
      BY <3>1, SmallerOfTwo
    <3>. QED  BY <3>2 DEF a, b
  <2>3. /\ page'[v].shown = page[v].shown /\ page'[v].warned = page[v].warned
        /\ page'[v].age = age
    <3>1. page'[v] = [page[v] EXCEPT !.age = age, !.next = page[v].next - 1,
                                     !.waited = IF page[v].inFlight THEN page[v].waited + 1 ELSE 0]
      BY DEF C!Tick
    <3>. HIDE DEF age
    <3>. QED  BY <2>1, <3>1 DEF PageRecords
  <2>. HIDE DEF age
  <2>4. age <= StaleAfter => age = page[v].age + 1 /\ page[v].age <= StaleAfter
    BY <2>1, <2>2, CockpitTimes
  <2>. QED  BY <1>1, <1>3, <2>1, <2>3, <2>4, CockpitTimes DEF ZerosAreFresh
<1>. QED  BY <1>4, <1>5 DEF ZerosInv

LEMMA OtherStepsKeepZeros ==
    ASSUME CockpitInv, ZerosInv,
           \/ \E v \in Viewers : C!RequestFails(v)
           \/ \E r \in Reads : C!NodeAnswers(r)
           \/ C!ChainChanges \/ UNCHANGED cockpitVars
    PROVE  ZerosInv'
<1>1. CASE \E v \in Viewers : C!RequestFails(v)
  <2>1. PICK v \in Viewers : page' = [page EXCEPT ![v] = C!Failed(page[v])] /\ failed' = failed
    BY <1>1 DEF C!RequestFails
  <2>2. page \in [Viewers -> PageRecords]
    BY DEF CockpitInv
  <2>3. /\ C!Failed(page[v]).shown = page[v].shown /\ C!Failed(page[v]).age = page[v].age
        /\ C!Failed(page[v]).warned = page[v].warned
    BY <2>2 DEF C!Failed, PageRecords
  <2>4. \A w \in Viewers : page'[w] = IF w = v THEN C!Failed(page[v]) ELSE page[w]
    BY <2>1, <2>2
  <2>. QED  BY <2>1, <2>3, <2>4, ZerosKeep
<1>2. CASE UNCHANGED <<page, failed>>
  BY <1>2 DEF ZerosInv, ZerosAreFresh
<1>. QED  BY <1>1, <1>2 DEF C!NodeAnswers, C!ChainChanges, cockpitVars

LEMMA ZerosInvariant == PanelsSpec => []ZerosInv
<1>1. PanelsInit => ZerosInv
  <2>. SUFFICES ASSUME PanelsInit PROVE ZerosInv
    OBVIOUS
  <2>1. page = [v \in Viewers |-> C!NewPage] /\ failed = StaleAfter + 1
    BY DEF PanelsInit, C!Init
  <2>2. C!NewPage.shown # C!Zeros
    BY CockpitNumbers DEF C!NewPage
  <2>. QED  BY <2>1, <2>2, CockpitNumbers DEF ZerosInv, ZerosAreFresh
<1>2. CockpitInv /\ ZerosInv /\ [PanelsNext]_<<part, panelVars>> => ZerosInv'
  <2>. SUFFICES ASSUME CockpitInv, ZerosInv, [PanelsNext]_<<part, panelVars>> PROVE ZerosInv'
    OBVIOUS
  <2>1. C!Next \/ UNCHANGED cockpitVars
    BY DEF PanelsNext, CockpitRuns, ButtonRuns, OracleRuns, FeedRuns, panelVars
  <2>. QED  BY <2>1, PageFetchesKeepZeros, ReadOverKeepsZeros, TickKeepsZeros, OtherStepsKeepZeros
            DEF C!Next
<1>. QED  BY <1>1, <1>2, CockpitInvariant, PTL DEF PanelsSpec

\* Under a LIVE chip stands a state no older than a read, the cache and the chip's limit add
\* up to, or the zeros of the fallback, and then a read failed for another reason than a 429
\* within that limit; and no page waits for two reads (usePoller.ts, rpc-route-cache.ts,
\* api/vault/route.ts).
THEOREM CockpitTellsTheTruth == PanelsSpec => []CockpitIsTrue
<1>1. ASSUME CockpitInv, ZerosInv PROVE C!TypeOK
  BY <1>1 DEF CockpitInv, ZerosInv, VaultTypes, C!TypeOK, PageRecords, ReadRecords, CacheRecords
<1>4. ASSUME CockpitInv, ZerosInv, NEW v \in Viewers, C!Chip(page[v]) = "live", page[v].shown = C!Zeros
      PROVE  failed <= StaleAfter
  <2>1. page[v].age \in 0..(StaleAfter + 1) /\ ZerosAreFresh(page[v]) /\ failed \in 0..(StaleAfter + 1)
    BY <1>4 DEF CockpitInv, ZerosInv, PageRecords
  <2>2. ~page[v].warned /\ ~(page[v].age > StaleAfter)
    BY <1>4 DEF C!Chip
  <2>3. page[v].age <= StaleAfter
    BY <2>1, <2>2, CockpitTimes
  <2>. QED  BY <1>4, <2>1, <2>2, <2>3, CockpitTimes DEF ZerosAreFresh
<1>5. ASSUME CockpitInv, NEW v \in Viewers, C!Chip(page[v]) = "live"
      PROVE  page[v].shown \in C!Versions \union {C!Zeros}
  <2>1. page[v].shown \in C!Versions \union {C!Nothing, C!Zeros}
    BY <1>5 DEF CockpitInv, PageRecords
  <2>2. page[v].shown # C!Nothing
    BY <1>5 DEF C!Chip
  <2>. QED  BY <2>1, <2>2
<1>2. ASSUME CockpitInv, ZerosInv PROVE C!LiveIsRecent
  <2>. SUFFICES ASSUME NEW v \in Viewers, C!Chip(page[v]) = "live", page[v].shown \in C!Versions
                PROVE  gone[page[v].shown] <= ReadTime + CacheTtl + StaleAfter
    BY <1>2, <1>4, <1>5 DEF C!LiveIsRecent
  <2>1. page[v].age \in 0..(StaleAfter + 1) /\ PageIsFresh(page[v]) /\ gone[page[v].shown] \in Nat
    BY <1>2, CockpitNumbers DEF CockpitInv, VaultTypes, PageRecords
  <2>5. ~(page[v].age > StaleAfter)
    BY DEF C!Chip
  <2>2. page[v].age <= StaleAfter
    BY <2>1, <2>5, CockpitTimes
  <2>. DEFINE figures == page[v].shown
  <2>3. gone[figures] <= ReadTime + CacheTtl + page[v].age /\ gone[figures] \in Nat /\ page[v].age \in Nat
    BY <2>1, <2>2 DEF PageIsFresh
  <2>. HIDE DEF figures
  <2>4. gone[figures] <= ReadTime + CacheTtl + StaleAfter
    BY <2>2, <2>3, CockpitTimes
  <2>. QED  BY <2>4 DEF figures
<1>3. CockpitInv /\ ZerosInv => CockpitIsTrue
  BY <1>1, <1>2 DEF CockpitInv, CockpitIsTrue
<1>. QED  BY <1>3, CockpitInvariant, ZerosInvariant, PTL

-----------------------------------------------------------------------------
(* The button that starts a run.                                           *)

\* What a click, the agent and the page are.
Clicks == [pc : {"unsent", "route", "back", "done"}, queued : BOOLEAN,
           result : {"none", "202", "429", "503", "demo", "lost"}, started : BOOLEAN]

AgentTypes == [up : BOOLEAN, running : BOOLEAN, cooldown : BOOLEAN, recent : BOOLEAN]

PageTypes ==
    /\ state \in {"idle", "loading", "success", "error"}
    /\ heard \in T!Status /\ asked \in SUBSET T!Status
    /\ feed \subseteq Posts

\* The clicks whose answer the button has had, one timer each.
Done == {k \in Posts : post[k].pc = "done"}

\* A timer of resetTimer stands for an answered click.
TimersFit == resets \in Nat /\ resets <= Cardinality(Done)

\* A request that waits in the agent has started nothing and been refused nothing,
\* and what was refused or has no answer yet has started nothing.
ClickFits(click) ==
    /\ click.queued => ~click.started /\ click.result \in {"none", "demo", "lost"}
    /\ click.result \in {"none", "429", "503"} => ~click.started
    /\ click.pc = "unsent" => ~click.queued /\ ~click.started /\ click.result = "none"

ClicksFit == \A k \in Posts : ClickFits(post[k])

\* The inductive invariant.
ButtonInv ==
    /\ PageTypes /\ TimersFit /\ ClicksFit
    /\ post \in [Posts -> Clicks] /\ agent \in AgentTypes

\* Cardinality is the same inside the instance.
LEMMA ButtonBridge ==
    /\ T!Cardinality(Posts) = Cardinality(Posts)
    /\ IsFiniteSet(Posts)
<1>1. T!IsFiniteSet(Posts) <=> IsFiniteSet(Posts)
  BY DEF T!IsFiniteSet, IsFiniteSet
<1>2. T!Cardinality(Posts) = Cardinality(Posts)
  BY DEF T!Cardinality, Cardinality
<1>. QED  BY <1>1, <1>2, PanelsAssumption DEF T!TriggerAssumption

LEMMA DoneFacts ==
    /\ IsFiniteSet(Done) /\ Cardinality(Done) \in Nat
    /\ Cardinality(Done) <= Cardinality(Posts) /\ Cardinality(Posts) \in Nat
<1>1. Done \subseteq Posts
  BY DEF Done
<1>2. IsFiniteSet(Done) /\ Cardinality(Done) <= Cardinality(Posts)
  BY <1>1, ButtonBridge, FS_Subset
<1>. QED  BY <1>2, ButtonBridge, FS_CardinalityType

LEMMA ButtonTypes == ButtonInv => T!TypeOK
<1>. SUFFICES ASSUME ButtonInv PROVE T!TypeOK
  OBVIOUS
<1>1. resets \in 0..T!Cardinality(Posts)
  BY DoneFacts, ButtonBridge DEF ButtonInv, TimersFit
<1>. QED  BY <1>1 DEF ButtonInv, PageTypes, Clicks, AgentTypes, T!TypeOK

LEMMA ButtonInit == T!Init => ButtonInv
<1>. SUFFICES ASSUME T!Init PROVE ButtonInv
  OBVIOUS
<1>1. PageTypes
  BY DEF T!Init, PageTypes, T!Status, T!None
<1>2. TimersFit
  BY DoneFacts DEF T!Init, TimersFit
<1>3. agent \in AgentTypes
  BY DEF T!Init, AgentTypes
<1>4. T!Unsent \in Clicks /\ ClickFits(T!Unsent)
  BY DEF T!Unsent, Clicks, ClickFits
<1>5. post \in [Posts -> Clicks] /\ ClicksFit
  BY <1>4 DEF T!Init, ClicksFit
<1>. QED  BY <1>1, <1>2, <1>3, <1>5 DEF ButtonInv

\* A step of one click.
ClickStep(k, click) == post' = [post EXCEPT ![k] = click]

\* At most one timer more, and that with the answer of the click.
TimersStep(k, click) ==
    \/ resets' <= resets
    \/ resets' = resets + 1 /\ post[k].pc # "done" /\ click.pc = "done"

\* A step of one click that leaves it fit keeps the invariant.
LEMMA ClickKeeps ==
    ASSUME ButtonInv, NEW k \in Posts, NEW click \in Clicks, ClickFits(click),
           ClickStep(k, click), TimersStep(k, click),
           PageTypes', agent' \in AgentTypes, resets' \in Nat,
           post[k].pc = "done" => click.pc = "done"
    PROVE  ButtonInv'
<1>1. post' \in [Posts -> Clicks] /\ ClicksFit'
  BY DEF ButtonInv, ClicksFit, ClickStep
<1>2. Done' = IF click.pc = "done" THEN Done \union {k} ELSE Done
  BY DEF Done, ButtonInv, ClickStep
<1>3. TimersFit'
  <2>1. CASE click.pc # "done" \/ k \in Done
    <3>1. Done' = Done /\ resets' <= resets
      BY <1>2, <2>1 DEF Done, TimersStep
    <3>. QED  BY <3>1, DoneFacts DEF ButtonInv, TimersFit
  <2>2. CASE click.pc = "done" /\ k \notin Done
    <3>1. Cardinality(Done') = Cardinality(Done) + 1
      BY <1>2, <2>2, DoneFacts, FS_AddElement
    <3>. QED  BY <3>1, DoneFacts DEF ButtonInv, TimersFit, TimersStep
  <2>. QED  BY <2>1, <2>2
<1>. QED  BY <1>1, <1>3 DEF ButtonInv

\* A step of the page or the agent that no click has a part in.
LEMMA ElseKeeps ==
    ASSUME ButtonInv, post' = post, PageTypes', agent' \in AgentTypes, resets' \in Nat, resets' <= resets
    PROVE  ButtonInv'
<1>1. Done' = Done /\ ClicksFit'
  BY DEF Done, ButtonInv, ClicksFit
<1>2. TimersFit'
  BY <1>1, DoneFacts DEF ButtonInv, TimersFit
<1>. QED  BY <1>1, <1>2 DEF ButtonInv

LEMMA ButtonFacts ==
    ASSUME ButtonInv, NEW k \in Posts
    PROVE  post[k] \in Clicks /\ ClickFits(post[k]) /\ PageTypes /\ agent \in AgentTypes /\ resets \in Nat
BY DEF ButtonInv, ClicksFit, TimersFit

LEMMA PageStepKeeps ==
    ASSUME ButtonInv, T!Reset \/ T!AskStatus \/ T!HearStatus
    PROVE  ButtonInv'
<1>1. PageTypes /\ agent \in AgentTypes /\ resets \in Nat
  BY DEF ButtonInv, TimersFit
<1>2. CASE T!Reset
  <2>1. PageTypes'
    BY <1>1, <1>2 DEF PageTypes, T!Reset
  <2>. QED  BY <1>1, <1>2, <2>1, ElseKeeps DEF T!Reset
<1>3. CASE T!AskStatus
  <2>. DEFINE heardOf == [reachable |-> TRUE, busy |-> agent.running, cooldown |-> agent.cooldown]
  <2>2. heardOf \in T!Status /\ T!Unreachable \in T!Status
    BY <1>1 DEF T!Status, T!Unreachable, AgentTypes
  <2>3. asked' = {T!Unreachable} \/ asked' = {heardOf}
    BY <1>3 DEF T!AskStatus
  <2>. HIDE DEF heardOf
  <2>4. UNCHANGED <<state, heard, feed>>
    BY <1>3 DEF T!AskStatus
  <2>1. PageTypes'
    BY <1>1, <2>2, <2>3, <2>4 DEF PageTypes
  <2>. QED  BY <1>1, <1>3, <2>1, ElseKeeps DEF T!AskStatus
<1>4. CASE T!HearStatus
  <2>1. PageTypes'
    BY <1>1, <1>4 DEF PageTypes, T!HearStatus
  <2>. QED  BY <1>1, <1>4, <2>1, ElseKeeps DEF T!HearStatus
<1>. QED  BY <1>2, <1>3, <1>4

LEMMA AgentStepKeeps ==
    ASSUME ButtonInv, T!IntervalOver \/ T!AgentTicks \/ T!RunEnds \/ T!CooldownEnds \/ T!Start
    PROVE  ButtonInv'
<1>1. PageTypes /\ agent \in AgentTypes /\ resets \in Nat
  BY DEF ButtonInv, TimersFit
<1>2. agent' \in AgentTypes
  BY <1>1 DEF AgentTypes, T!IntervalOver, T!AgentTicks, T!RunEnds, T!CooldownEnds, T!Start
<1>3. UNCHANGED <<state, resets, heard, asked, post, feed>>
  BY DEF T!IntervalOver, T!AgentTicks, T!RunEnds, T!CooldownEnds, T!Start
<1>4. PageTypes'
  BY <1>1, <1>3 DEF PageTypes
<1>. QED  BY <1>1, <1>2, <1>3, <1>4, ElseKeeps

\* The agent's end takes the requests that wait in it away.
LEMMA CrashKeeps == ASSUME ButtonInv, T!Crash PROVE ButtonInv'
<1>1. PageTypes' /\ agent' \in AgentTypes
  BY DEF ButtonInv, PageTypes, AgentTypes, T!Crash
<1>2. ASSUME NEW click \in Clicks, ClickFits(click)
      PROVE  /\ [click EXCEPT !.queued = FALSE] \in Clicks
             /\ ClickFits([click EXCEPT !.queued = FALSE])
             /\ [click EXCEPT !.queued = FALSE].pc = click.pc
  BY <1>2 DEF Clicks, ClickFits, T!Unsent
<1>3. \A k \in Posts : post'[k] = [post[k] EXCEPT !.queued = FALSE]
  BY DEF T!Crash
<1>4. ClicksFit' /\ post' \in [Posts -> Clicks] /\ \A k \in Posts : post'[k].pc = post[k].pc
  BY <1>2, <1>3 DEF ButtonInv, ClicksFit, T!Crash
<1>5. Done' = Done
  BY <1>4 DEF Done
<1>6. TimersFit'
  BY <1>5 DEF ButtonInv, TimersFit, T!Crash
<1>. QED  BY <1>1, <1>4, <1>6 DEF ButtonInv

LEMMA ClickSent == ASSUME ButtonInv, NEW k \in Posts, T!Click(k) PROVE ButtonInv'
<1>. DEFINE click == IF Demo THEN [post[k] EXCEPT !.pc = "back", !.result = "demo"]
                     ELSE [post[k] EXCEPT !.pc = "route", !.queued = agent.up]
<1>1. ~post[k].queued /\ ~post[k].started /\ post[k].result = "none"
  BY ButtonFacts DEF T!Click, ClickFits
<1>2. click \in Clicks /\ ClickFits(click) /\ click.pc # "done"
  BY <1>1, ButtonFacts DEF Clicks, ClickFits, T!Unsent, AgentTypes
<1>3. PageTypes' /\ ClickStep(k, click)
  BY ButtonFacts DEF PageTypes, ClickStep, T!Click
<1>4. post[k].pc # "done" /\ UNCHANGED <<resets, agent>>
  BY DEF T!Click
<1>. HIDE DEF click
<1>5. TimersStep(k, click)
  BY <1>4, ButtonFacts DEF TimersStep
<1>. QED  BY <1>2, <1>3, <1>4, <1>5, ButtonFacts, ClickKeeps

LEMMA ButtonGetsKeeps == ASSUME ButtonInv, NEW k \in Posts, T!ButtonGets(k) PROVE ButtonInv'
<1>. DEFINE click == [post[k] EXCEPT !.pc = "done"]
<1>1. click \in Clicks /\ ClickFits(click) /\ click.pc = "done"
  BY ButtonFacts DEF Clicks, ClickFits
<1>2. heard' \in T!Status
  BY ButtonFacts DEF T!ButtonGets, T!Status, PageTypes
<1>3. PageTypes' /\ ClickStep(k, click)
  BY <1>2, ButtonFacts DEF PageTypes, ClickStep, T!ButtonGets
<1>4. resets' = resets + 1 /\ post[k].pc # "done" /\ agent' = agent
  BY DEF T!ButtonGets
<1>. HIDE DEF click
<1>5. TimersStep(k, click) /\ resets' \in Nat
  BY <1>1, <1>4, ButtonFacts DEF TimersStep
<1>. QED  BY <1>1, <1>3, <1>4, <1>5, ButtonFacts, ClickKeeps

LEMMA FetchFailsKeeps == ASSUME ButtonInv, NEW k \in Posts, T!FetchFails(k) PROVE ButtonInv'
<1>1. PICK still \in {post[k].queued, FALSE} :
          post' = [post EXCEPT ![k] = [post[k] EXCEPT !.pc = "done", !.result = "lost", !.queued = still]]
  BY DEF T!FetchFails
<1>. DEFINE click == [post[k] EXCEPT !.pc = "done", !.result = "lost", !.queued = still]
<1>7. post[k] \in Clicks /\ ClickFits(post[k])
  BY ButtonFacts
<1>2. click \in Clicks /\ ClickFits(click) /\ click.pc = "done"
  BY <1>7 DEF Clicks, ClickFits
<1>3. ClickStep(k, click)
  BY <1>1 DEF ClickStep
<1>4. /\ resets' = resets + 1 /\ state' = "error" /\ post[k].pc # "done"
      /\ UNCHANGED <<heard, asked, agent, feed>>
  BY DEF T!FetchFails
<1>. HIDE DEF click
<1>5. PageTypes'
  BY <1>4, ButtonFacts DEF PageTypes
<1>6. TimersStep(k, click) /\ resets' \in Nat
  BY <1>2, <1>4, ButtonFacts DEF TimersStep
<1>. QED  BY <1>2, <1>3, <1>4, <1>5, <1>6, ButtonFacts, ClickKeeps

\* trigger-server.ts: the agent refuses a click or starts a run for it, and the route may
\* have given it up meanwhile.
LEMMA AgentGetsKeeps == ASSUME ButtonInv, NEW k \in Posts, T!AgentGets(k) PROVE ButtonInv'
<1>1. /\ post[k] \in Clicks /\ ClickFits(post[k]) /\ PageTypes /\ agent \in AgentTypes /\ resets \in Nat
      /\ ~post[k].started /\ post[k].result \in {"none", "demo", "lost"} /\ post[k].pc # "unsent"
  BY ButtonFacts DEF T!AgentGets, ClickFits
<1>2. PageTypes' /\ resets' = resets
  BY <1>1 DEF PageTypes, T!AgentGets
<1>3. ASSUME NEW result \in {"202", "429", "503"}
      PROVE  T!Answer(k, result) \in {result, "demo", "lost"}
  BY <1>1 DEF T!Answer
<1>4. ASSUME NEW result \in {"429", "503"}, T!AgentRefuses(k, result) PROVE ButtonInv'
  <2>1. PICK answer \in {result, "demo", "lost"} : answer = T!Answer(k, result)
    BY <1>3
  <2>. DEFINE click == [post[k] EXCEPT !.queued = FALSE, !.result = answer]
  <2>2. click \in Clicks /\ ClickFits(click) /\ click.pc = post[k].pc
    BY <1>1 DEF Clicks, ClickFits
  <2>3. ClickStep(k, click) /\ agent' = agent
    BY <1>4, <2>1 DEF T!AgentRefuses, ClickStep
  <2>. HIDE DEF click
  <2>4. TimersStep(k, click)
    BY <1>1, <1>2 DEF TimersStep
  <2>. QED  BY <1>1, <1>2, <2>2, <2>3, <2>4, ClickKeeps
<1>5. CASE T!AgentAccepts(k)
  <2>1. PICK answer \in {"202", "demo", "lost"} : answer = T!Answer(k, "202")
    BY <1>3
  <2>2. PICK started \in BOOLEAN : started = (~agent.running)
    OBVIOUS
  <2>. DEFINE click == [post[k] EXCEPT !.queued = FALSE, !.started = started, !.result = answer]
  <2>3. click \in Clicks /\ ClickFits(click) /\ click.pc = post[k].pc
    BY <1>1 DEF Clicks, ClickFits
  <2>4. ClickStep(k, click)
    BY <1>5, <2>1, <2>2 DEF T!AgentAccepts, ClickStep
  <2>5. agent' \in AgentTypes
    BY <1>1, <1>5 DEF T!AgentAccepts, AgentTypes
  <2>. HIDE DEF click
  <2>6. TimersStep(k, click)
    BY <1>1, <1>2 DEF TimersStep
  <2>. QED  BY <1>1, <1>2, <2>3, <2>4, <2>5, <2>6, ClickKeeps
<1>. QED  BY <1>4, <1>5 DEF T!AgentGets

LEMMA RouteKeeps ==
    ASSUME ButtonInv, NEW k \in Posts, T!RouteForwards(k) \/ T!RouteGivesUp(k)
    PROVE  ButtonInv'
<1>1. PICK click : /\ click \in Clicks /\ ClickFits(click) /\ click.pc = "back"
                   /\ ClickStep(k, click)
  <2>. DEFINE forwarded == [post[k] EXCEPT !.pc = "back"]
  <2>. DEFINE given == [post[k] EXCEPT !.pc = "back", !.result = "demo"]
  <2>1. forwarded \in Clicks /\ ClickFits(forwarded) /\ forwarded.pc = "back"
    BY ButtonFacts DEF Clicks, ClickFits
  <2>2. given \in Clicks /\ ClickFits(given) /\ given.pc = "back"
    BY ButtonFacts DEF Clicks, ClickFits
  <2>3. ClickStep(k, forwarded) \/ ClickStep(k, given)
    BY DEF T!RouteForwards, T!RouteGivesUp, ClickStep
  <2>. HIDE DEF forwarded, given
  <2>. QED  BY <2>1, <2>2, <2>3
<1>2. UNCHANGED <<state, resets, heard, asked, agent, feed>> /\ post[k].pc # "done"
  BY DEF T!RouteForwards, T!RouteGivesUp
<1>3. PageTypes'
  BY <1>2, ButtonFacts DEF PageTypes
<1>4. TimersStep(k, click)
  BY <1>2, ButtonFacts DEF TimersStep
<1>. QED  BY <1>1, <1>2, <1>3, <1>4, ButtonFacts, ClickKeeps

LEMMA ButtonStutters == ASSUME ButtonInv, UNCHANGED buttonVars PROVE ButtonInv'
<1>1. UNCHANGED <<state, resets, heard, asked, post, agent, feed>>
  BY DEF buttonVars
<1>2. PageTypes' /\ agent' \in AgentTypes /\ resets' \in Nat /\ resets' <= resets
  BY <1>1 DEF PageTypes, ButtonInv, TimersFit
<1>. QED  BY <1>1, <1>2, ElseKeeps

\* A click that waits in the agent, was refused or has no answer yet has started nothing,
\* for every number of clicks.
THEOREM ButtonInvariant == PanelsSpec => []ButtonInv
<1>1. PanelsInit => ButtonInv
  BY ButtonInit DEF PanelsInit
<1>2. ButtonInv /\ [PanelsNext]_<<part, panelVars>> => ButtonInv'
  <2>. SUFFICES ASSUME ButtonInv, [PanelsNext]_<<part, panelVars>> PROVE ButtonInv'
    OBVIOUS
  <2>1. T!Next \/ UNCHANGED buttonVars
    BY DEF PanelsNext, CockpitRuns, ButtonRuns, OracleRuns, FeedRuns, panelVars
  <2>. QED  BY <2>1, PageStepKeeps, AgentStepKeeps, CrashKeeps, ClickSent, ButtonGetsKeeps, FetchFailsKeeps,
               AgentGetsKeeps, RouteKeeps, ButtonStutters DEF T!Next
<1>. QED  BY <1>1, <1>2, PTL DEF PanelsSpec

\* A click the agent refused has started no run and will start none, and a run a click
\* started was answered for, replaced by a demo decision or its request lost
\* (TriggerAgentRunButton.tsx, api/trigger/route.ts, trigger-server.ts).
THEOREM ButtonTellsTheTruth == PanelsSpec => []ButtonIsTrue
<1>1. ButtonInv => ButtonIsTrue
  BY ButtonTypes DEF ButtonInv, ClicksFit, ClickFits, Clicks, ButtonIsTrue, T!RefusedStartsNothing
<1>. QED  BY <1>1, ButtonInvariant, PTL

-----------------------------------------------------------------------------
(* The oracle's panel.                                                     *)

\* A line of payments.jsonl.
LineRecords == [form : {"receipt", "seed", "broken"}, receipt : Payments \union {E!Unpaid}]

\* Payments whose line was written, and those whose data the oracle has given out.
Recorded == {p \in Payments : stage[p] \in {"written", "served", "done"}}
Served == {p \in Payments : stage[p] \in {"served", "done"}}

PanelTypes ==
    /\ up \in BOOLEAN /\ ends \in 0..MaxEnds
    /\ latest \in Payments \union {E!Unpaid}
    /\ stage \in [Payments -> {"idle", "writing", "written", "served", "lost", "done"}]
    /\ receipts \subseteq Payments
    /\ demo \in {E!NotRun} \union 0..Seeds
    /\ poll \in [at : {"none", "oracle", "log", "answer"}, receipt : Payments \union {E!Unpaid},
                 source : {"none", "live", "payments-log", "demo"}]
    /\ panel \in [receipt : Payments \union {E!Unpaid}, source : {"none", "live", "payments-log", "demo"},
                  error : BOOLEAN]

LogTypes == lines \in Seq(LineRecords) /\ torn \in BOOLEAN /\ (torn => lines # <<>>)

\* An answer names its source: live data were served, a cached payment is one.
AnswerFits(receipt, source) ==
    /\ (source = "live" /\ receipt # E!Unpaid) => receipt \in Served
    /\ source = "payments-log" => receipt # E!Unpaid

SourcesFit ==
    /\ latest # E!Unpaid => latest \in Served
    /\ AnswerFits(poll.receipt, poll.source)
    /\ AnswerFits(panel.receipt, panel.source)

ReceiptLinesFit == \A i \in 1..Len(lines) : lines[i].form = "receipt" => lines[i].receipt \in Payments

\* Where no append is torn, whatever is recorded or shown has had its line.
ReceiptsAreLogged ==
    /\ ~torn
    /\ Recorded \subseteq receipts
    /\ \A i \in 1..Len(lines) : lines[i].form = "receipt" => lines[i].receipt \in receipts
    /\ poll.receipt # E!Unpaid => poll.receipt \in receipts
    /\ panel.receipt # E!Unpaid => panel.receipt \in receipts

\* The inductive invariant.
OraclePanelInv ==
    /\ PanelTypes /\ LogTypes /\ SourcesFit /\ ReceiptLinesFit
    /\ part # "tear" => ReceiptsAreLogged

LEMMA UnpaidIsNone == E!Unpaid \notin Payments /\ E!Unpaid = 0 /\ E!NotRun = -1
BY PanelsAssumption DEF E!OracleViewAssumption, E!Unpaid, E!NotRun

\* The module's two instances differ in what an end of the oracle may do to the log.
LEMMA TearMayDoWhatOracleDoes == O!Next => E!Next
BY DEF O!Next, E!Next, O!Verify, E!Verify, O!Record, E!Record, O!Serve, E!Serve, O!AgentLogs, E!AgentLogs,
       O!OracleEnds, E!OracleEnds, O!OracleStarts, E!OracleStarts, O!ClearLogs, E!ClearLogs,
       O!SeedLine, E!SeedLine, O!PollBegins, E!PollBegins, O!OracleAnswers, E!OracleAnswers,
       O!OracleFails, E!OracleFails, O!ReadLog, E!ReadLog, O!Delivered, E!Delivered,
       O!RequestFails, E!RequestFails, O!Write, E!Write, O!Answer, E!Answer, O!Line, E!Line,
       O!oracleVars, E!oracleVars, O!logVars, E!logVars, O!Unpaid, E!Unpaid, O!NotRun, E!NotRun,
       O!NoPoll, E!NoPoll, O!Last, E!Last, O!Front, E!Front

LEMMA OnlyTearTears == O!OracleEnds => UNCHANGED torn
BY DEF O!OracleEnds, O!logVars

\* appendJsonl: every line is an old one, the new one, or one that cannot be read.
LEMMA LinesAfterWrite ==
    ASSUME LogTypes, NEW line \in LineRecords, E!Write(line)
    PROVE  /\ lines' \in Seq(LineRecords) /\ lines' # <<>> /\ torn' = FALSE
           /\ \A i \in 1..Len(lines') :
                  \/ i \in 1..Len(lines) /\ lines'[i] = lines[i]
                  \/ lines'[i] = line /\ ~torn
                  \/ lines'[i].form = "broken"
<1>1. lines \in Seq(LineRecords) /\ Len(lines) \in Nat
  BY DEF LogTypes
<1>2. CASE ~torn
  <2>1. lines' = Append(lines, line) /\ torn' = FALSE
    BY <1>2 DEF E!Write
  <2>. QED  BY <1>1, <1>2, <2>1
<1>3. CASE torn
  <2>. DEFINE broken == E!Line("broken", E!Unpaid)
              front == SubSeq(lines, 1, Len(lines) - 1)
  <2>1. broken \in LineRecords /\ broken.form = "broken"
    BY DEF E!Line, LineRecords
  <2>2. lines' = Append(front, broken) /\ torn' = FALSE
    BY <1>3 DEF E!Write, E!Front
  <2>3. /\ front \in Seq(LineRecords) /\ Len(front) = Len(lines) - 1
        /\ \A i \in 1..Len(front) : front[i] = lines[i]
    <3>1. Len(lines) > 0
      BY <1>1, <1>3 DEF LogTypes
    <3>. DEFINE n == Len(lines) - 1
    <3>2. n \in Nat /\ n \in 0..Len(lines) /\ n = Len(lines) - 1 /\ front = SubSeq(lines, 1, n)
      BY <1>1, <3>1
    <3>3. \A i \in 1..n : lines[i] \in LineRecords /\ i \in 1..Len(lines)
      BY <1>1, <3>2
    <3>. HIDE DEF n, front
    <3>4. front = [i \in 1..n |-> lines[i]]
      BY <1>1, <3>2
    <3>5. front \in Seq(LineRecords) /\ Len(front) = n
      BY <3>2, <3>3, <3>4
    <3>. QED  BY <3>2, <3>4, <3>5
  <2>. HIDE DEF broken, front
  <2>4. /\ lines' \in Seq(LineRecords) /\ Len(lines') = Len(lines)
        /\ \A i \in 1..Len(lines) : lines'[i] = IF i < Len(lines) THEN lines[i] ELSE broken
    BY <1>1, <2>1, <2>2, <2>3
  <2>5. lines' # <<>>
    BY <1>1, <1>3, <2>4 DEF LogTypes
  <2>6. \A i \in 1..Len(lines') : (i \in 1..Len(lines) /\ lines'[i] = lines[i]) \/ lines'[i].form = "broken"
    BY <1>1, <2>1, <2>4
  <2>. QED  BY <2>2, <2>4, <2>5, <2>6
<1>. QED  BY <1>2, <1>3

LEMMA WriteKeeps ==
    ASSUME OraclePanelInv, NEW line \in LineRecords, E!Write(line),
           line.form = "receipt" => line.receipt \in Payments
    PROVE  /\ LogTypes' /\ ReceiptLinesFit'
           /\ receipts \subseteq receipts' /\ receipts' \subseteq Payments
           /\ (part # "tear" /\ line.form = "receipt") => line.receipt \in receipts'
           /\ part # "tear" => ~torn' /\ \A i \in 1..Len(lines') : lines'[i].form = "receipt" => lines'[i].receipt \in receipts'
<1>1. LogTypes /\ ReceiptLinesFit /\ receipts \subseteq Payments /\ (part # "tear" => ReceiptsAreLogged)
  BY DEF OraclePanelInv, PanelTypes
<1>2. receipts' = IF ~torn /\ line.form = "receipt" THEN receipts \union {line.receipt} ELSE receipts
  BY DEF E!Write
<1>3. LogTypes' /\ ReceiptLinesFit'
  BY <1>1, LinesAfterWrite DEF LogTypes, ReceiptLinesFit
<1>4. receipts \subseteq receipts' /\ receipts' \subseteq Payments
  BY <1>1, <1>2
<1>5. ASSUME part # "tear"
      PROVE  /\ ~torn' /\ (line.form = "receipt" => line.receipt \in receipts')
             /\ \A i \in 1..Len(lines') : lines'[i].form = "receipt" => lines'[i].receipt \in receipts'
  BY <1>1, <1>2, <1>5, LinesAfterWrite DEF ReceiptsAreLogged
<1>. QED  BY <1>3, <1>4, <1>5

\* A step that moves one payment on, and writes at most.
LEMMA PaymentKeeps ==
    ASSUME OraclePanelInv, NEW p \in Payments, E!Verify(p) \/ E!Record(p) \/ E!Serve(p) \/ E!AgentLogs(p),
           part' = part
    PROVE  OraclePanelInv'
<1>1. PanelTypes /\ LogTypes /\ SourcesFit /\ ReceiptLinesFit /\ (part # "tear" => ReceiptsAreLogged)
  BY DEF OraclePanelInv
<1>. DEFINE receipt == E!Line("receipt", p)
<1>2. receipt \in LineRecords /\ receipt.form = "receipt" /\ receipt.receipt = p
  BY DEF E!Line, LineRecords
<1>3. CASE E!Verify(p)
  <2>1. UNCHANGED <<up, ends, latest, lines, torn, receipts, demo, poll, panel>>
    BY <1>3 DEF E!Verify, E!logVars
  <2>2. stage' = [stage EXCEPT ![p] = "writing"] /\ stage[p] = "idle"
    BY <1>3 DEF E!Verify
  <2>3. PanelTypes' /\ Recorded' = Recorded /\ Served' = Served
    BY <1>1, <2>1, <2>2 DEF PanelTypes, Recorded, Served
  <2>4. LogTypes' /\ ReceiptLinesFit' /\ SourcesFit' /\ (part # "tear" => ReceiptsAreLogged')
    BY <1>1, <2>1, <2>3 DEF LogTypes, ReceiptLinesFit, SourcesFit, AnswerFits, ReceiptsAreLogged
  <2>. QED  BY <2>3, <2>4 DEF OraclePanelInv
<1>4. CASE E!Record(p)
  <2>1. UNCHANGED <<up, ends, latest, demo, poll, panel>> /\ E!Write(receipt)
    BY <1>4 DEF E!Record
  <2>2. stage' = [stage EXCEPT ![p] = "written"] /\ stage[p] = "writing"
    BY <1>4 DEF E!Record
  <2>. HIDE DEF receipt
  <2>3. /\ LogTypes' /\ ReceiptLinesFit' /\ receipts \subseteq receipts' /\ receipts' \subseteq Payments
        /\ part # "tear" => /\ ~torn' /\ p \in receipts'
                            /\ \A i \in 1..Len(lines') : lines'[i].form = "receipt" => lines'[i].receipt \in receipts'
    BY <1>2, <2>1, WriteKeeps
  <2>4. PanelTypes' /\ Recorded' = Recorded \union {p} /\ Served' = Served
    BY <1>1, <2>1, <2>2, <2>3 DEF PanelTypes, Recorded, Served
  <2>5. SourcesFit' /\ (part # "tear" => ReceiptsAreLogged')
    BY <1>1, <2>1, <2>3, <2>4 DEF SourcesFit, AnswerFits, ReceiptsAreLogged
  <2>. QED  BY <2>3, <2>4, <2>5 DEF OraclePanelInv
<1>5. CASE E!Serve(p)
  <2>1. UNCHANGED <<up, ends, lines, torn, receipts, demo, poll, panel>> /\ latest' = p
    BY <1>5 DEF E!Serve, E!logVars
  <2>2. stage' = [stage EXCEPT ![p] = "served"] /\ stage[p] = "written"
    BY <1>5 DEF E!Serve
  <2>3. PanelTypes' /\ Recorded' = Recorded /\ Served' = Served \union {p}
    BY <1>1, <2>1, <2>2 DEF PanelTypes, Recorded, Served
  <2>4. LogTypes' /\ ReceiptLinesFit' /\ SourcesFit' /\ (part # "tear" => ReceiptsAreLogged')
    BY <1>1, <2>1, <2>3 DEF LogTypes, ReceiptLinesFit, SourcesFit, AnswerFits, ReceiptsAreLogged
  <2>. QED  BY <2>3, <2>4 DEF OraclePanelInv
<1>6. CASE E!AgentLogs(p)
  <2>1. UNCHANGED <<up, ends, latest, demo, poll, panel>> /\ E!Write(receipt)
    BY <1>6 DEF E!AgentLogs
  <2>2. stage' = [stage EXCEPT ![p] = "done"] /\ stage[p] = "served"
    BY <1>6 DEF E!AgentLogs
  <2>. HIDE DEF receipt
  <2>3. /\ LogTypes' /\ ReceiptLinesFit' /\ receipts \subseteq receipts' /\ receipts' \subseteq Payments
        /\ part # "tear" => /\ ~torn' /\ p \in receipts'
                            /\ \A i \in 1..Len(lines') : lines'[i].form = "receipt" => lines'[i].receipt \in receipts'
    BY <1>2, <2>1, WriteKeeps
  <2>4. PanelTypes' /\ Recorded' = Recorded /\ Served' = Served
    BY <1>1, <2>1, <2>2, <2>3 DEF PanelTypes, Recorded, Served
  <2>5. SourcesFit' /\ (part # "tear" => ReceiptsAreLogged')
    BY <1>1, <2>1, <2>3, <2>4 DEF SourcesFit, AnswerFits, ReceiptsAreLogged
  <2>. QED  BY <2>3, <2>4, <2>5 DEF OraclePanelInv
<1>. QED  BY <1>3, <1>4, <1>5, <1>6

\* A payment that the oracle had not answered is lost with it.
LEMMA OracleEndsKeeps ==
    ASSUME OraclePanelInv, E!OracleEnds, part' = part, part # "tear" => UNCHANGED <<lines, torn>>
    PROVE  OraclePanelInv'
<1>1. PanelTypes /\ LogTypes /\ SourcesFit /\ ReceiptLinesFit /\ (part # "tear" => ReceiptsAreLogged)
  BY DEF OraclePanelInv
<1>2. UNCHANGED <<receipts, demo, poll, panel>> /\ latest' = E!Unpaid /\ up' = FALSE /\ ends' = ends + 1 /\ ends < MaxEnds
  BY DEF E!OracleEnds, E!logVars
<1>3. PanelTypes' /\ Recorded' \subseteq Recorded /\ Served' = Served
  <2>1. stage' = [q \in Payments |-> IF stage[q] \in {"writing", "written"} THEN "lost" ELSE stage[q]]
    BY DEF E!OracleEnds
  <2>2. /\ stage' \in [Payments -> {"idle", "writing", "written", "served", "lost", "done"}]
        /\ Recorded' \subseteq Recorded /\ Served' = Served
    BY <1>1, <2>1 DEF PanelTypes, Recorded, Served
  <2>3. ends' \in 0..MaxEnds
    BY <1>1, <1>2, PanelsAssumption DEF PanelTypes, E!OracleViewAssumption
  <2>. QED  BY <1>1, <1>2, <2>2, <2>3 DEF PanelTypes
<1>4. LogTypes' /\ ReceiptLinesFit'
  <2>1. CASE UNCHANGED <<lines, torn>>
    BY <1>1, <2>1 DEF LogTypes, ReceiptLinesFit
  <2>2. CASE lines' = Append(lines, E!Line("broken", E!Unpaid)) /\ torn' = TRUE
    <3>. DEFINE broken == E!Line("broken", E!Unpaid)
    <3>1. broken \in LineRecords /\ broken.form = "broken"
      BY DEF E!Line, LineRecords
    <3>2. lines' = Append(lines, broken)
      BY <2>2
    <3>. HIDE DEF broken
    <3>3. lines \in Seq(LineRecords) /\ Len(lines) \in Nat
      BY <1>1 DEF LogTypes
    <3>4. lines' \in Seq(LineRecords) /\ Len(lines') = Len(lines) + 1
          /\ \A i \in 1..Len(lines') : lines'[i] = IF i <= Len(lines) THEN lines[i] ELSE broken
      BY <3>1, <3>2, <3>3
    <3>5. ReceiptLinesFit'
      BY <1>1, <3>1, <3>3, <3>4 DEF ReceiptLinesFit
    <3>6. lines' # <<>>
      BY <3>3, <3>4
    <3>. QED  BY <2>2, <3>4, <3>5, <3>6 DEF LogTypes
  <2>. QED  BY <2>1, <2>2 DEF E!OracleEnds, E!logVars
<1>5. SourcesFit'
  BY <1>1, <1>2, <1>3 DEF SourcesFit, AnswerFits
<1>6. part # "tear" => ReceiptsAreLogged'
  BY <1>1, <1>2, <1>3 DEF ReceiptsAreLogged
<1>. QED  BY <1>3, <1>4, <1>5, <1>6 DEF OraclePanelInv

LEMMA ScriptKeeps ==
    ASSUME OraclePanelInv, E!ClearLogs \/ E!SeedLine, part' = part
    PROVE  OraclePanelInv'
<1>1. PanelTypes /\ LogTypes /\ SourcesFit /\ ReceiptLinesFit /\ (part # "tear" => ReceiptsAreLogged)
  BY DEF OraclePanelInv
<1>2. UNCHANGED <<up, ends, latest, stage, poll, panel>>
  BY DEF E!ClearLogs, E!SeedLine, E!oracleVars
<1>3. demo' \in {E!NotRun} \union 0..Seeds
  <2>1. Seeds \in Nat
    BY PanelsAssumption DEF E!OracleViewAssumption
  <2>. QED  BY <1>1, <2>1, UnpaidIsNone DEF PanelTypes, E!ClearLogs, E!SeedLine
<1>4. /\ LogTypes' /\ ReceiptLinesFit' /\ receipts \subseteq receipts' /\ receipts' \subseteq Payments
      /\ part # "tear" => /\ ~torn'
                          /\ \A i \in 1..Len(lines') : lines'[i].form = "receipt" => lines'[i].receipt \in receipts'
  <2>1. CASE E!ClearLogs
    <3>1. lines' = <<>> /\ torn' = FALSE /\ receipts' = receipts
      BY <2>1 DEF E!ClearLogs
    <3>2. lines' \in Seq(LineRecords) /\ 1..Len(lines') = {}
      BY <3>1
    <3>. QED  BY <1>1, <3>1, <3>2 DEF LogTypes, ReceiptLinesFit, PanelTypes
  <2>2. CASE E!SeedLine
    <3>. DEFINE seed == E!Line("seed", E!Unpaid)
    <3>1. seed \in LineRecords /\ seed.form = "seed" /\ E!Write(seed)
      BY <2>2 DEF E!Line, LineRecords, E!SeedLine
    <3>. HIDE DEF seed
    <3>. QED  BY <3>1, WriteKeeps
  <2>. QED  BY <2>1, <2>2
<1>5. PanelTypes' /\ Recorded' = Recorded /\ Served' = Served
  BY <1>1, <1>2, <1>3, <1>4 DEF PanelTypes, Recorded, Served
<1>6. SourcesFit' /\ (part # "tear" => ReceiptsAreLogged')
  BY <1>1, <1>2, <1>4, <1>5 DEF SourcesFit, AnswerFits, ReceiptsAreLogged
<1>. QED  BY <1>4, <1>5, <1>6 DEF OraclePanelInv

\* A step of the route or the page: the oracle and its log stay.
LEMMA RouteStep ==
    ASSUME OraclePanelInv, part' = part, up' \in BOOLEAN,
           UNCHANGED <<ends, latest, stage, lines, torn, receipts, demo>>,
           poll' \in [at : {"none", "oracle", "log", "answer"}, receipt : Payments \union {E!Unpaid},
                      source : {"none", "live", "payments-log", "demo"}],
           panel' \in [receipt : Payments \union {E!Unpaid}, source : {"none", "live", "payments-log", "demo"},
                       error : BOOLEAN],
           AnswerFits(poll'.receipt, poll'.source), AnswerFits(panel'.receipt, panel'.source),
           part # "tear" => /\ poll'.receipt # E!Unpaid => poll'.receipt \in receipts
                            /\ panel'.receipt # E!Unpaid => panel'.receipt \in receipts
    PROVE  OraclePanelInv'
<1>1. PanelTypes /\ LogTypes /\ SourcesFit /\ ReceiptLinesFit /\ (part # "tear" => ReceiptsAreLogged)
  BY DEF OraclePanelInv
<1>2. PanelTypes' /\ Recorded' = Recorded /\ Served' = Served
  BY <1>1 DEF PanelTypes, Recorded, Served
<1>3. LogTypes' /\ ReceiptLinesFit'
  BY <1>1 DEF LogTypes, ReceiptLinesFit
<1>4. SourcesFit'
  BY <1>1, <1>2 DEF SourcesFit, AnswerFits
<1>5. part # "tear" => ReceiptsAreLogged'
  BY <1>1, <1>2 DEF ReceiptsAreLogged
<1>. QED  BY <1>2, <1>3, <1>4, <1>5 DEF OraclePanelInv

\* Steps of the route and the page, and the start of the oracle.
LEMMA PollKeeps ==
    ASSUME OraclePanelInv, part' = part,
           \/ E!PollBegins \/ E!OracleStarts \/ E!OracleAnswers \/ E!OracleFails
           \/ E!Delivered \/ E!RequestFails
    PROVE  OraclePanelInv'
<1>1. PanelTypes /\ SourcesFit /\ (part # "tear" => ReceiptsAreLogged)
  BY DEF OraclePanelInv
<1>2. UNCHANGED <<ends, latest, stage, lines, torn, receipts, demo>>
  BY DEF E!PollBegins, E!OracleStarts, E!OracleAnswers, E!OracleFails, E!Delivered, E!RequestFails,
         E!logVars, E!oracleVars
<1>3. up' \in BOOLEAN
  BY <1>1 DEF PanelTypes, E!PollBegins, E!OracleStarts, E!OracleAnswers, E!OracleFails, E!Delivered,
              E!RequestFails, E!oracleVars
<1>4. poll' \in [at : {"none", "oracle", "log", "answer"}, receipt : Payments \union {E!Unpaid},
                 source : {"none", "live", "payments-log", "demo"}]
  BY <1>1 DEF PanelTypes, E!PollBegins, E!OracleStarts, E!OracleAnswers, E!OracleFails, E!Delivered,
              E!RequestFails, E!NoPoll, E!Answer
<1>5. panel' \in [receipt : Payments \union {E!Unpaid}, source : {"none", "live", "payments-log", "demo"},
                  error : BOOLEAN]
  <2>1. PICK yes \in BOOLEAN, no \in BOOLEAN : yes = TRUE /\ no = FALSE
    OBVIOUS
  <2>2. \/ panel' = panel
        \/ panel' = [receipt |-> poll.receipt, source |-> poll.source, error |-> no]
        \/ panel' = [panel EXCEPT !.error = yes]
    BY <2>1 DEF E!PollBegins, E!OracleStarts, E!OracleAnswers, E!OracleFails, E!Delivered, E!RequestFails
  <2>3. [panel EXCEPT !.error = yes] \in
            [receipt : Payments \union {E!Unpaid}, source : {"none", "live", "payments-log", "demo"},
             error : BOOLEAN]
    BY <1>1 DEF PanelTypes
  <2>4. [receipt |-> poll.receipt, source |-> poll.source, error |-> no] \in
            [receipt : Payments \union {E!Unpaid}, source : {"none", "live", "payments-log", "demo"},
             error : BOOLEAN]
    BY <1>1 DEF PanelTypes
  <2>. QED  BY <1>1, <2>2, <2>3, <2>4 DEF PanelTypes
<1>6. AnswerFits(poll'.receipt, poll'.source) /\ AnswerFits(panel'.receipt, panel'.source)
  BY <1>1 DEF SourcesFit, AnswerFits, PanelTypes, E!PollBegins, E!OracleStarts, E!OracleAnswers, E!OracleFails, E!Delivered,
              E!RequestFails, E!oracleVars, E!NoPoll, E!Answer
<1>7. part # "tear" => /\ poll'.receipt # E!Unpaid => poll'.receipt \in receipts
                       /\ panel'.receipt # E!Unpaid => panel'.receipt \in receipts
  <2>1. latest # E!Unpaid => latest \in Recorded
    BY <1>1 DEF SourcesFit, Served, Recorded
  <2>. QED
    BY <1>1, <2>1 DEF ReceiptsAreLogged, PanelTypes, E!PollBegins, E!OracleStarts, E!OracleAnswers, E!OracleFails,
              E!Delivered, E!RequestFails, E!oracleVars, E!NoPoll, E!Answer
<1>. QED  BY <1>2, <1>3, <1>4, <1>5, <1>6, <1>7, RouteStep

\* The route answers with the last line, if that is a receipt.
LEMMA ReadLogKeeps ==
    ASSUME OraclePanelInv, part' = part, E!ReadLog
    PROVE  OraclePanelInv'
<1>1. PanelTypes /\ LogTypes /\ SourcesFit /\ ReceiptLinesFit /\ (part # "tear" => ReceiptsAreLogged)
  BY DEF OraclePanelInv
<1>2. UNCHANGED <<up, ends, latest, stage, lines, torn, receipts, demo, panel>>
  BY DEF E!ReadLog, E!logVars, E!oracleVars
<1>3. \/ /\ lines # <<>> /\ E!Last(lines).form = "receipt"
         /\ E!Answer(E!Last(lines).receipt, "payments-log")
      \/ E!Answer(E!Unpaid, "demo")
  BY DEF E!ReadLog
<1>4. CASE lines # <<>> /\ E!Last(lines).form = "receipt" /\ E!Answer(E!Last(lines).receipt, "payments-log")
  <2>1. PICK i \in 1..Len(lines) : E!Last(lines) = lines[i]
    <3>1. lines \in Seq(LineRecords) /\ lines # <<>> /\ Len(lines) \in 1..Len(lines)
      BY <1>1, <1>4 DEF LogTypes
    <3>. QED  BY <3>1 DEF E!Last
  <2>2. lines[i].receipt \in Payments /\ lines[i].receipt # E!Unpaid
    BY <1>1, <1>4, <2>1, UnpaidIsNone DEF ReceiptLinesFit
  <2>3. poll' = [at |-> "answer", receipt |-> lines[i].receipt, source |-> "payments-log"]
    BY <1>4, <2>1 DEF E!Answer
  <2>4. part # "tear" => lines[i].receipt \in receipts
    BY <1>1, <1>4, <2>1 DEF ReceiptsAreLogged
  <2>5. AnswerFits(poll'.receipt, poll'.source)
    BY <2>2, <2>3 DEF AnswerFits
  <2>6. AnswerFits(panel'.receipt, panel'.source)
    BY <1>1, <1>2 DEF SourcesFit
  <2>. QED  BY <1>1, <1>2, <2>2, <2>3, <2>4, <2>5, <2>6, RouteStep DEF PanelTypes, ReceiptsAreLogged
<1>5. CASE E!Answer(E!Unpaid, "demo")
  <2>1. poll' = [at |-> "answer", receipt |-> E!Unpaid, source |-> "demo"]
    BY <1>5 DEF E!Answer
  <2>2. AnswerFits(poll'.receipt, poll'.source)
    BY <2>1 DEF AnswerFits
  <2>3. AnswerFits(panel'.receipt, panel'.source)
    BY <1>1, <1>2 DEF SourcesFit
  <2>. QED  BY <1>1, <1>2, <2>1, <2>2, <2>3, RouteStep DEF PanelTypes, ReceiptsAreLogged
<1>. QED  BY <1>3, <1>4, <1>5

LEMMA OraclePanelStarts ==
    ASSUME PanelsInit
    PROVE  OraclePanelInv
<1>1. O!Init
  BY DEF PanelsInit
<1>2. lines = <<>> /\ lines \in Seq(LineRecords) /\ 1..Len(lines) = {}
  BY <1>1 DEF O!Init
<1>3. LogTypes /\ ReceiptLinesFit
  BY <1>1, <1>2 DEF O!Init, LogTypes, ReceiptLinesFit
<1>4. PanelTypes
  <2>1. MaxEnds \in Nat
    BY PanelsAssumption DEF E!OracleViewAssumption
  <2>. QED  BY <1>1, <2>1 DEF O!Init, PanelTypes, O!Unpaid, E!Unpaid, O!NotRun, E!NotRun, O!NoPoll
<1>5. SourcesFit
  BY <1>1 DEF O!Init, SourcesFit, AnswerFits, O!NoPoll, O!Unpaid, E!Unpaid
<1>6. ReceiptsAreLogged
  BY <1>1, <1>2 DEF O!Init, ReceiptsAreLogged, Recorded, O!NoPoll, O!Unpaid, E!Unpaid
<1>. QED  BY <1>3, <1>4, <1>5, <1>6 DEF OraclePanelInv

LEMMA OraclePanelStep ==
    ASSUME OraclePanelInv, E!Next, part' = part, part # "tear" => O!Next
    PROVE  OraclePanelInv'
<1>1. CASE \E p \in Payments : E!Verify(p) \/ E!Record(p) \/ E!Serve(p) \/ E!AgentLogs(p)
  BY <1>1, PaymentKeeps
<1>2. CASE E!OracleEnds
  <2>1. CASE part = "tear"
    BY <1>2, <2>1, OracleEndsKeeps
  <2>2. CASE part # "tear"
    <3>1. up /\ ~up'
      BY <1>2 DEF E!OracleEnds
    <3>2. O!Next
      BY <2>2
    <3>3. O!OracleEnds
      BY <3>1, <3>2 DEF O!Next, O!Verify, O!Record, O!Serve, O!AgentLogs, O!OracleStarts, O!ClearLogs,
         O!SeedLine, O!PollBegins, O!OracleAnswers, O!OracleFails, O!ReadLog, O!Delivered, O!RequestFails, O!oracleVars
    <3>4. UNCHANGED <<lines, torn>>
      BY <3>3 DEF O!OracleEnds, O!logVars
    <3>. QED  BY <1>2, <3>4, OracleEndsKeeps
  <2>. QED  BY <2>1, <2>2
<1>3. CASE E!ClearLogs \/ E!SeedLine
  BY <1>3, ScriptKeeps
<1>4. CASE E!ReadLog
  BY <1>4, ReadLogKeeps
<1>5. CASE \/ E!PollBegins \/ E!OracleStarts \/ E!OracleAnswers \/ E!OracleFails
           \/ E!Delivered \/ E!RequestFails
  BY <1>5, PollKeeps
<1>. QED  BY <1>1, <1>2, <1>3, <1>4, <1>5 DEF E!Next

\* What the oracle and the page hold has been served, and has had its line unless an
\* append was torn, for every set of payments and number of restarts.
THEOREM OraclePanelInvariant == PanelsSpec => []OraclePanelInv
<1>1. PanelsInit => OraclePanelInv
  BY OraclePanelStarts
<1>2. OraclePanelInv /\ [PanelsNext]_<<part, panelVars>> => OraclePanelInv'
  <2>. SUFFICES ASSUME OraclePanelInv, [PanelsNext]_<<part, panelVars>> PROVE OraclePanelInv'
    OBVIOUS
  <2>1. part' = part
    BY DEF PanelsNext
  <2>2. CASE OracleRuns
    <3>1. E!Next
      BY <2>2, TearMayDoWhatOracleDoes DEF OracleRuns
    <3>2. part # "tear" => O!Next
      BY <2>2 DEF OracleRuns
    <3>. QED  BY <2>1, <3>1, <3>2, OraclePanelStep
  <2>3. CASE ~OracleRuns
    <3>1. UNCHANGED oracleVars
      BY <2>3 DEF PanelsNext, panelVars, CockpitRuns, ButtonRuns, FeedRuns
    <3>2. UNCHANGED <<up, ends, latest, stage, lines, torn, receipts, demo, poll, panel>>
      BY <3>1 DEF oracleVars
    <3>. QED  BY <2>1, <3>2 DEF OraclePanelInv, PanelTypes, LogTypes, SourcesFit, ReceiptLinesFit, ReceiptsAreLogged,
                AnswerFits, Recorded, Served
  <2>. QED  BY <2>2, <2>3
<1>. QED  BY <1>1, <1>2, PTL DEF PanelsSpec

LEMMA OraclePanelInvSuffices == OraclePanelInv => OraclePanelIsTrue
<1>. SUFFICES ASSUME OraclePanelInv PROVE OraclePanelIsTrue
  OBVIOUS
<1>1. PanelTypes /\ LogTypes /\ SourcesFit /\ (part # "tear" => ReceiptsAreLogged)
  BY DEF OraclePanelInv
<1>2. O!TypeOK /\ E!TypeOK
  BY <1>1 DEF PanelTypes, LogTypes, LineRecords, O!TypeOK, E!TypeOK, O!Unpaid, E!Unpaid, O!NotRun, E!NotRun
<1>3. O!NoticeTellsTheSource /\ E!NoticeTellsTheSource
  BY <1>1 DEF SourcesFit, AnswerFits, Served, O!NoticeTellsTheSource, E!NoticeTellsTheSource, O!Unpaid, E!Unpaid
<1>4. part # "tear" => O!ShownReceiptIsLogged
  BY <1>1 DEF ReceiptsAreLogged, O!ShownReceiptIsLogged, O!Unpaid, E!Unpaid
<1>. QED  BY <1>2, <1>3, <1>4 DEF OraclePanelIsTrue

\* The receipt on the screen has its line in payments.jsonl as long as no append was torn,
\* and the panel's notice tells where its data come from, torn appends or not
\* (api/oracle/route.ts, app.ts).
THEOREM OraclePanelTellsTheTruth == PanelsSpec => []OraclePanelIsTrue
BY OraclePanelInvariant, OraclePanelInvSuffices, PTL

-----------------------------------------------------------------------------
(* The panel of the agent's decisions.                                     *)

\* A line of the decision log, and a row of the page.
DecisionLines == [id : F!Decisions, form : F!Forms]
FeedRows == [id : Int, stamp : Int]

\* What the page has, and what is on its way to it.
Feeds == {polled} \union {a[1] : a \in answers \ {<<>>}}

FeedTypes ==
    /\ file \in Seq(DecisionLines)
    /\ open \in BOOLEAN /\ error \in BOOLEAN
    /\ writes \in [F!Decisions -> F!Stages] /\ clock \in 0..MaxDecisions
    /\ seeding \in [left : 0..Seeds \union {F!NotRun}, last : 0..MaxDecisions]
    /\ \A a, b \in answers : a = b
    /\ \A a \in answers : a = <<>> \/ a = <<a[1]>>
    /\ local \in Seq(F!Decisions)
    /\ records.limit \in Limits \union {0}

\* What has its line, whole, is no longer being appended; as long as the newline is
\* missing the last line is broken.
LogFits ==
    /\ \A l \in DOMAIN file : file[l].id <= clock /\ (F!Logged(l) => writes[file[l].id] = "none")
    /\ \A d \in F!Decisions : (writes[d] # "none" => d <= clock) /\ (writes[d] = "alone" => open)
    /\ open => file # <<>> /\ file[Len(file)].form = "broken"

\* Rows are a stretch of the log, or the log has been cleared since; none of them is being
\* appended.
RowsFit(rows) ==
    /\ rows \in Seq(FeedRows)
    /\ \A k \in DOMAIN rows :
        rows[k].id <= clock /\ (rows[k].id \in F!Decisions => writes[rows[k].id] = "none")
    /\ F!Gone(rows) \/ \E at \in [DOMAIN rows -> DOMAIN file] : F!Stretch(rows, at)
    /\ part = "demo" \/ Len(rows) <= Shown

\* One of the lines that are looked at is a decision's, or one under way.
WindowHas == \E i \in DOMAIN file : i > Len(file) - Shown /\ file[i].form # "other"

\* A page that has decisions is not given an empty answer unless none of them is in the
\* log any more; in demo mode the demo's stand in.
NeverEmptied ==
    /\ \A a \in answers \ {<<>>} : a[1] # F!Nothing
    /\ part = "demo" => \A rows \in Feeds : rows # <<>>
    /\ \A rows \in Feeds : F!Gone(rows) \/ part = "demo" \/ WindowHas
    /\ (<<>> \in Feeds /\ part # "demo") => F!Gone(polled)

FeedInv == FeedTypes /\ LogFits /\ (\A rows \in Feeds : RowsFit(rows)) /\ NeverEmptied

LEMMA FeedConstants ==
    /\ Shown \in Nat \ {0} /\ Limits \subseteq 1..100
    /\ MaxDecisions \in Nat /\ MaxOld \in 0..MaxDecisions /\ Seeds \in Nat
BY PanelsAssumption DEF F!FeedAssumption

\* The entries that a filter keeps are those at the kept positions, counted off.
LEMMA OnlyIs ==
    ASSUME NEW s, NEW kept
    PROVE  /\ F!Only(s, kept) = [k \in 1..Cardinality(kept) |-> s[Nth(kept, k)]]
           /\ D!Only(s, kept) = F!Only(s, kept)
BY Zenon DEF F!Only, D!Only, Nth, UpTo, F!Cardinality, D!Cardinality, Cardinality

\* slice(-n): the last entries, as many as there are.
LEMMA LastOfIs ==
    ASSUME NEW S, NEW s \in Seq(S), NEW n \in Nat \ {0}
    PROVE  LET m == IF Len(s) > n THEN Len(s) - n ELSE 0 IN
           /\ m \in 0..Len(s) /\ Len(s) - m <= n
           /\ F!LastOf(s, n) = [i \in 1..(Len(s) - m) |-> s[m + i]]
           /\ F!LastOf(s, n) \in Seq(S)
<1>. DEFINE m == IF Len(s) > n THEN Len(s) - n ELSE 0
            t == F!LastOf(s, n)
<1>1. Len(s) \in Nat /\ DOMAIN s = 1..Len(s) /\ \A i \in 1..Len(s) : s[i] \in S
  BY LenProperties, ElementOfSeq
<1>2. m \in 0..Len(s) /\ Len(s) - m <= n
  BY <1>1
<1>3. t = SubSeq(s, m + 1, Len(s))
  <2>1. CASE Len(s) > n
    BY <2>1 DEF F!LastOf
  <2>2. CASE ~(Len(s) > n)
    BY <2>2 DEF F!LastOf
  <2>. QED  BY <2>1, <2>2
<1>. HIDE DEF m, t
<1>4. /\ t \in Seq(S)
      /\ Len(t) = IF m + 1 <= Len(s) THEN Len(s) - (m + 1) + 1 ELSE 0
      /\ \A i \in 1..(Len(s) - (m + 1) + 1) : t[i] = s[m + 1 + i - 1]
  <2>1. \A i \in (m + 1)..Len(s) : s[i] \in S
    BY <1>1, <1>2
  <2>2. m + 1 \in Int /\ Len(s) \in Int
    BY <1>1, <1>2
  <2>. QED  BY <1>3, <2>1, <2>2, SubSeqProperties
<1>5. Len(t) = Len(s) - m
  <2>. DEFINE len == Len(s)
              got == Len(t)
  <2>1. len \in Nat /\ m \in 0..len /\ got = IF m + 1 <= len THEN len - (m + 1) + 1 ELSE 0
    BY <1>1, <1>2, <1>4, Zenon
  <2>. HIDE DEF len, got
  <2>2. got = len - m
    BY <2>1
  <2>. QED  BY <2>2 DEF len, got
<1>6. \A i \in 1..(Len(s) - m) : t[i] = s[m + i]
  <2>1. ASSUME NEW i \in 1..(Len(s) - m)
        PROVE  i \in 1..(Len(s) - (m + 1) + 1) /\ m + 1 + i - 1 = m + i
    <3>. DEFINE len == Len(s)
    <3>1. len \in Nat /\ m \in 0..len /\ i \in 1..(len - m)
      BY <1>1, <1>2
    <3>. HIDE DEF len
    <3>2. i \in 1..(len - (m + 1) + 1) /\ m + 1 + i - 1 = m + i
      BY <3>1
    <3>. QED  BY <3>2 DEF len
  <2>. QED  BY <1>4, <2>1
<1>7. t = [i \in 1..(Len(s) - m) |-> s[m + i]]
  <2>1. t = [i \in 1..Len(t) |-> t[i]]
    BY <1>4
  <2>. QED  BY <1>5, <1>6, <2>1
<1>. QED  BY <1>2, <1>4, <1>7 DEF m, t

\* What a row of a page and a line of the log are.
LEMMA RowFacts ==
    ASSUME NEW rows \in Seq(FeedRows)
    PROVE  /\ Len(rows) \in Nat /\ DOMAIN rows = 1..Len(rows)
           /\ \A i \in DOMAIN rows : rows[i] \in FeedRows /\ rows[i].id \in Int
<1>1. Len(rows) \in Nat /\ DOMAIN rows = 1..Len(rows)
  BY LenProperties
<1>2. \A i \in DOMAIN rows : rows[i] \in FeedRows
  BY <1>1, ElementOfSeq
<1>. QED  BY <1>1, <1>2 DEF FeedRows

LEMMA LineFacts ==
    ASSUME FeedTypes
    PROVE  /\ file \in Seq(DecisionLines) /\ Len(file) \in Nat /\ DOMAIN file = 1..Len(file)
           /\ \A i \in 1..Len(file) : file[i] \in DecisionLines /\ file[i].id \in Nat \ {0}
           /\ clock \in Nat
<1>1. file \in Seq(DecisionLines) /\ clock \in Nat
  BY FeedConstants DEF FeedTypes
<1>2. \A i \in 1..Len(file) : file[i] \in DecisionLines
  BY <1>1, ElementOfSeq
<1>3. F!Decisions \subseteq Nat \ {0}
  BY FeedConstants DEF F!Decisions
<1>. QED  BY <1>1, <1>2, <1>3, LenProperties DEF DecisionLines

LEMMA FeedStarts ==
    ASSUME F!Init
    PROVE  FeedInv
<1>1. PICK n \in 0..MaxOld : \E forms \in [1..n -> F!Forms \ {"broken"}] :
          file = [i \in 1..Len(forms) |-> [id |-> i, form |-> forms[i]]]
  BY DEF F!Init, F!OldFiles
<1>2. PICK forms \in [1..n -> F!Forms \ {"broken"}] :
          file = [i \in 1..Len(forms) |-> [id |-> i, form |-> forms[i]]]
  BY <1>1
<1>3. n \in Nat /\ n <= MaxDecisions /\ Len(forms) = n
  BY FeedConstants
<1>4. /\ file = [i \in 1..n |-> [id |-> i, form |-> forms[i]]]
      /\ \A i \in 1..n : forms[i] \in F!Forms /\ i \in F!Decisions
  BY <1>2, <1>3, FeedConstants DEF F!Decisions
<1>5. file \in Seq(DecisionLines)
  BY <1>3, <1>4 DEF DecisionLines
<1>6. Len(file) = n /\ DOMAIN file = 1..n /\ \A i \in 1..n : file[i].id = i /\ i \in F!Decisions
  BY <1>3, <1>4
<1>12. writes = [d \in F!Decisions |-> "none"] /\ ~open /\ clock = n /\ open \in BOOLEAN
  BY <1>6 DEF F!Init
<1>7. FeedTypes
  <2>1. clock \in 0..MaxDecisions
    BY <1>3, <1>12, FeedConstants
  <2>2. local \in Seq(F!Decisions) /\ records.limit = 0 /\ answers = {} /\ error \in BOOLEAN
    BY EmptySeq DEF F!Init
  <2>3. writes \in [F!Decisions -> F!Stages]
    BY <1>12 DEF F!Stages
  <2>4. seeding \in [left : 0..Seeds \union {F!NotRun}, last : 0..MaxDecisions]
    BY FeedConstants DEF F!Init
  <2>. QED  BY <1>5, <1>12, <2>1, <2>2, <2>3, <2>4 DEF FeedTypes
<1>8. LogFits
  <2>1. \A l \in DOMAIN file : file[l].id <= clock /\ writes[file[l].id] = "none"
    BY <1>3, <1>6, <1>12
  <2>2. \A d \in F!Decisions : writes[d] = "none"
    BY <1>12
  <2>. QED  BY <1>12, <2>1, <2>2 DEF LogFits
<1>9. polled = F!Nothing /\ Feeds = {polled} /\ answers = {}
  BY DEF F!Init, Feeds
<1>10. /\ F!Nothing \in Seq(FeedRows) /\ Len(F!Nothing) = 1 /\ DOMAIN F!Nothing = {1} /\ F!Nothing[1].id = 0
       /\ F!Nothing # <<>>
  <2>1. F!Row(0, -1) \in FeedRows /\ F!Row(0, -1).id = 0
    BY DEF F!Row, FeedRows
  <2>. HIDE DEF F!Row
  <2>. QED  BY <2>1 DEF F!Nothing
<1>11. F!Gone(F!Nothing)
  BY <1>7, <1>10, LineFacts DEF F!Gone
<1>13. RowsFit(F!Nothing)
  <2>1. F!Nothing[1].id <= clock /\ F!Nothing[1].id \notin F!Decisions /\ Len(F!Nothing) <= Shown
    BY <1>3, <1>10, <1>12, FeedConstants DEF F!Decisions
  <2>. QED  BY <1>10, <1>11, <2>1 DEF RowsFit
<1>14. NeverEmptied
  BY <1>9, <1>10, <1>11 DEF NeverEmptied
<1>. QED  BY <1>7, <1>8, <1>9, <1>13, <1>14 DEF FeedInv

\* Whole lines stay where they are, and the only new ones are of appends under way.
LogGrows(m) ==
    /\ \A l \in DOMAIN file : F!Logged(l) => l < m /\ l \in DOMAIN file' /\ file'[l] = file[l]
    /\ \A l \in DOMAIN file' : file'[l].form \in {"strict", "legacy"} =>
        \/ l < m /\ l \in DOMAIN file /\ file'[l] = file[l]
        \/ l >= m /\ writes[file'[l].id] # "none"

\* What begins to be appended has just been taken.
WritesBegin == \A d \in F!Decisions : writes'[d] # "none" => writes[d] # "none" \/ d > clock

\* Rows stay a stretch of the log as it grows, or gone from it.
LEMMA RowsStay ==
    ASSUME FeedInv, FeedTypes', NEW rows \in Feeds, NEW m \in Nat, LogGrows(m), WritesBegin,
           clock' \in Nat, clock <= clock', part' = part
    PROVE  RowsFit(rows)' /\ (F!Gone(rows) => F!Gone(rows)')
<1>1. /\ FeedTypes /\ RowsFit(rows) /\ clock \in Nat
      /\ DOMAIN file = 1..Len(file) /\ DOMAIN file' = 1..Len(file') /\ Len(file) \in Nat /\ Len(file') \in Nat
      /\ \A l \in 1..Len(file') : file'[l].id \in F!Decisions
  <2>1. FeedTypes /\ RowsFit(rows)
    BY DEF FeedInv
  <2>2. file' \in Seq(DecisionLines)
    BY DEF FeedTypes
  <2>3. DOMAIN file' = 1..Len(file') /\ Len(file') \in Nat
    BY <2>2, LenProperties
  <2>4. \A l \in 1..Len(file') : file'[l] \in DecisionLines
    BY <2>2, ElementOfSeq
  <2>. QED  BY <2>1, <2>3, <2>4, LineFacts DEF DecisionLines
<1>2. rows \in Seq(FeedRows) /\ DOMAIN rows = 1..Len(rows) /\ Len(rows) \in Nat
      /\ \A k \in DOMAIN rows : rows[k].id \in Int
  BY <1>1, RowFacts DEF RowsFit
<1>3. ASSUME NEW k \in DOMAIN rows
      PROVE  rows[k].id <= clock' /\ (rows[k].id \in F!Decisions => writes'[rows[k].id] = "none")
  <2>1. rows[k].id <= clock /\ rows[k].id \in Int /\ (rows[k].id \in F!Decisions => writes[rows[k].id] = "none")
    BY <1>1, <1>2 DEF RowsFit
  <2>2. rows[k].id <= clock' /\ ~(rows[k].id > clock)
    BY <1>1, <2>1
  <2>. QED  BY <2>1, <2>2 DEF WritesBegin
<1>4. ASSUME F!Gone(rows) PROVE F!Gone(rows)'
  <2>. SUFFICES ASSUME NEW k \in DOMAIN rows, NEW l \in DOMAIN file',
                       file'[l].form \in {"strict", "legacy"}
                PROVE  file'[l].id # rows[k].id
    BY DEF F!Gone, F!Logged
  <2>1. CASE l < m /\ l \in DOMAIN file /\ file'[l] = file[l]
    BY <1>4, <2>1 DEF F!Gone, F!Logged
  <2>2. CASE writes[file'[l].id] # "none"
    <3>1. file'[l].id \in F!Decisions
      BY <1>1
    <3>2. rows[k].id \in F!Decisions => writes[rows[k].id] = "none"
      BY <1>1 DEF RowsFit
    <3>. QED  BY <2>2, <3>1, <3>2
  <2>. QED  BY <2>1, <2>2 DEF LogGrows
<1>5. ASSUME NEW at \in [DOMAIN rows -> DOMAIN file], F!Stretch(rows, at)
      PROVE  at \in [DOMAIN rows -> DOMAIN file'] /\ F!Stretch(rows, at)'
  <2>1. ASSUME NEW k \in DOMAIN rows
        PROVE  /\ at[k] \in 1..Len(file) /\ at[k] < m /\ at[k] \in DOMAIN file'
               /\ file'[at[k]] = file[at[k]] /\ file'[at[k]].form \in {"strict", "legacy"}
               /\ file'[at[k]].id = rows[k].id
    <3>1. at[k] \in DOMAIN file /\ F!Logged(at[k]) /\ file[at[k]].id = rows[k].id
      BY <1>5 DEF F!Stretch
    <3>2. at[k] < m /\ at[k] \in DOMAIN file' /\ file'[at[k]] = file[at[k]]
      BY <3>1 DEF LogGrows
    <3>. QED  BY <1>1, <3>1, <3>2 DEF F!Logged
  <2>2. ASSUME NEW k \in DOMAIN rows, NEW n \in DOMAIN rows, k < n
        PROVE  /\ at[n] < at[k]
               /\ \A l \in at[n]..at[k] : file'[l].form \in {"strict", "legacy"} => \E i \in k..n : at[i] = l
    <3>1. at[n] < at[k]
      BY <1>5, <2>2 DEF F!Stretch
    <3>2. ASSUME NEW l \in at[n]..at[k], file'[l].form \in {"strict", "legacy"}
          PROVE  \E i \in k..n : at[i] = l
      <4>1. l \in 1..Len(file) /\ l < m /\ l \in 1..Len(file')
        <5>. DEFINE a == at[k]
                    b == at[n]
        <5>1. a \in 1..Len(file) /\ a < m /\ a \in 1..Len(file') /\ b \in 1..Len(file) /\ l \in b..a
          BY <1>1, <2>1
        <5>. HIDE DEF a, b
        <5>. QED  BY <1>1, <5>1
      <4>2. ~(l >= m)
        BY <1>1, <4>1
      <4>3. l \in DOMAIN file /\ file'[l] = file[l]
        BY <1>1, <3>2, <4>1, <4>2 DEF LogGrows
      <4>4. F!Logged(l)
        BY <3>2, <4>3 DEF F!Logged
      <4>. QED  BY <1>5, <2>2, <4>4 DEF F!Stretch
    <3>. QED  BY <3>1, <3>2
  <2>. QED  BY <2>1, <2>2 DEF F!Stretch, F!Logged
<1>6. F!Gone(rows)' \/ \E at \in [DOMAIN rows -> DOMAIN file'] : F!Stretch(rows, at)'
  BY <1>1, <1>4, <1>5 DEF RowsFit
<1>7. part' = "demo" \/ Len(rows) <= Shown
  BY <1>1 DEF RowsFit
<1>. QED  BY <1>2, <1>3, <1>4, <1>6, <1>7 DEF RowsFit

\* A step of the log as a whole.
LEMMA LogStepKeeps ==
    ASSUME FeedInv, part' = part, UNCHANGED <<answers, polled, error, local, records>>,
           NEW m \in Nat, LogGrows(m), WritesBegin, clock' \in Nat, clock <= clock',
           FeedTypes', LogFits', WindowHas => WindowHas'
    PROVE  FeedInv'
<1>1. Feeds' = Feeds
  BY DEF Feeds
<1>2. \A rows \in Feeds : RowsFit(rows)' /\ (F!Gone(rows) => F!Gone(rows)')
  BY RowsStay
<1>3. polled \in Feeds /\ polled' = polled
  BY DEF Feeds
<1>4. NeverEmptied'
  <2>1. NeverEmptied
    BY DEF FeedInv
  <2>2. \A a \in answers' \ {<<>>} : a[1] # F!Nothing
    BY <2>1 DEF NeverEmptied
  <2>3. part' = "demo" => \A rows \in Feeds' : rows # <<>>
    BY <1>1, <2>1 DEF NeverEmptied
  <2>4. \A rows \in Feeds' : F!Gone(rows)' \/ part' = "demo" \/ WindowHas'
    BY <1>1, <1>2, <2>1 DEF NeverEmptied
  <2>5. F!Gone(polled) => F!Gone(polled)'
    <3>1. \A rows \in Feeds : F!Gone(rows) => \A k \in DOMAIN rows, l \in DOMAIN file' :
              file'[l].form \in {"strict", "legacy"} => file'[l].id # rows[k].id
      BY <1>2 DEF F!Gone, F!Logged
    <3>. QED  BY <1>3, <3>1 DEF F!Gone, F!Logged
  <2>6. (<<>> \in Feeds' /\ part' # "demo") => F!Gone(polled)'
    BY <1>1, <2>1, <2>5 DEF NeverEmptied
  <2>. QED  BY <2>2, <2>3, <2>4, <2>6 DEF NeverEmptied, F!Nothing, F!Row
<1>. QED  BY <1>1, <1>2, <1>4 DEF FeedInv

\* The log stays the same.
LEMMA SameLog ==
    ASSUME FeedTypes, file' = file
    PROVE  LogGrows(Len(file) + 1) /\ (WindowHas => WindowHas')
<1>1. LogGrows(Len(file) + 1)
  BY LineFacts DEF LogGrows, F!Logged
<1>. QED  BY <1>1 DEF WindowHas

\* A broken line more.
LEMMA LineMore ==
    ASSUME FeedTypes, NEW e \in DecisionLines, e.form = "broken", file' = Append(file, e)
    PROVE  /\ file' \in Seq(DecisionLines) /\ Len(file') = Len(file) + 1
           /\ DOMAIN file' = 1..(Len(file) + 1) /\ file' # <<>>
           /\ \A i \in 1..Len(file) : file'[i] = file[i]
           /\ file'[Len(file) + 1] = e
           /\ \A i \in 1..(Len(file) + 1) : i = Len(file) + 1 \/ i \in 1..Len(file)
           /\ LogGrows(Len(file) + 1) /\ (WindowHas => WindowHas')
<1>. DEFINE n == Len(file)
<1>1. file \in Seq(DecisionLines) /\ n \in Nat /\ DOMAIN file = 1..n
  BY LineFacts
<1>2. /\ file' \in Seq(DecisionLines) /\ Len(file') = n + 1 /\ DOMAIN file' = 1..(n + 1)
      /\ \A i \in 1..n : file'[i] = file[i]
      /\ file'[n + 1] = e
  BY <1>1, AppendProperties, LenProperties
<1>3. \A i \in 1..(n + 1) : i = n + 1 \/ i \in 1..n
  BY <1>1
<1>. HIDE DEF n
<1>4. file' # <<>>
  BY <1>1, <1>2, EmptySeq
<1>5. LogGrows(n + 1)
  <2>1. ASSUME NEW l \in DOMAIN file PROVE l < n + 1 /\ l \in DOMAIN file' /\ file'[l] = file[l]
    BY <1>1, <1>2
  <2>2. ASSUME NEW l \in DOMAIN file', file'[l].form \in {"strict", "legacy"}
        PROVE  l < n + 1 /\ l \in DOMAIN file /\ file'[l] = file[l]
    <3>1. l # n + 1
      BY <1>2, <2>2
    <3>2. l \in 1..n
      BY <1>2, <1>3, <3>1
    <3>. QED  BY <1>1, <1>2, <3>2
  <2>. QED  BY <2>1, <2>2 DEF LogGrows
<1>6. WindowHas'
  <2>1. n + 1 \in DOMAIN file' /\ n + 1 > Len(file') - Shown /\ file'[n + 1].form # "other"
    BY <1>1, <1>2, FeedConstants
  <2>. QED  BY <2>1 DEF WindowHas
<1>. QED  BY <1>2, <1>3, <1>4, <1>5, <1>6 DEF n

\* The last line, broken so far, is whole.
LEMMA LineDone ==
    ASSUME FeedTypes, file # <<>>, file[Len(file)].form = "broken",
           NEW e \in DecisionLines, e.form \in {"strict", "legacy"}, writes[e.id] # "none",
           file' = [file EXCEPT ![Len(file)] = e]
    PROVE  /\ file' \in Seq(DecisionLines) /\ Len(file') = Len(file)
           /\ DOMAIN file' = 1..Len(file) /\ Len(file) \in 1..Len(file)
           /\ \A i \in 1..Len(file) : i # Len(file) => file'[i] = file[i]
           /\ file'[Len(file)] = e
           /\ LogGrows(Len(file)) /\ (WindowHas => WindowHas')
<1>. DEFINE n == Len(file)
<1>1. file \in Seq(DecisionLines) /\ n \in Nat /\ DOMAIN file = 1..n /\ \A i \in 1..n : file[i] \in DecisionLines
  BY LineFacts
<1>2. n \in 1..n
  BY <1>1, EmptySeq
<1>3. file' = [i \in 1..n |-> IF i = n THEN e ELSE file[i]]
  BY <1>1
<1>. HIDE DEF n
<1>4. \A i \in 1..n : file'[i] = IF i = n THEN e ELSE file[i]
  BY <1>3
<1>5. file' \in [1..n -> DecisionLines]
  BY <1>1, <1>3
<1>6. file' \in Seq(DecisionLines) /\ Len(file') = n /\ DOMAIN file' = 1..n
  BY <1>1, <1>5
<1>7. LogGrows(n)
  <2>1. ASSUME NEW l \in DOMAIN file, F!Logged(l) PROVE l < n /\ l \in DOMAIN file' /\ file'[l] = file[l]
    <3>1. l # n
      BY <2>1 DEF F!Logged, n
    <3>. QED  BY <1>1, <1>4, <1>6, <3>1
  <2>2. ASSUME NEW l \in DOMAIN file', file'[l].form \in {"strict", "legacy"}
        PROVE  (l < n /\ l \in DOMAIN file /\ file'[l] = file[l]) \/ (l >= n /\ writes[file'[l].id] # "none")
    <3>1. CASE l = n
      BY <1>1, <1>2, <1>4, <3>1
    <3>2. CASE l # n
      BY <1>1, <1>4, <1>6, <3>2
    <3>. QED  BY <3>1, <3>2
  <2>. QED  BY <2>1, <2>2 DEF LogGrows
<1>8. ASSUME WindowHas PROVE WindowHas'
  <2>1. n \in DOMAIN file' /\ n > Len(file') - Shown /\ file'[n].form # "other"
    BY <1>1, <1>2, <1>4, <1>6, FeedConstants
  <2>. QED  BY <2>1 DEF WindowHas
<1>. QED  BY <1>2, <1>4, <1>6, <1>7, <1>8 DEF n

\* A decision is taken, by the agent or the script.
LEMMA AppendStartsKeeps ==
    ASSUME FeedInv, F!AppendStarts \/ F!SeedStarts, part' = part
    PROVE  FeedInv'
<1>1. FeedTypes /\ LogFits /\ clock \in Nat /\ clock \in 0..MaxDecisions
  BY LineFacts DEF FeedInv, FeedTypes
<1>2. /\ UNCHANGED <<file, open, answers, polled, error, local, records>> /\ clock < MaxDecisions
      /\ clock' = clock + 1 /\ writes' = [writes EXCEPT ![clock + 1] = "waits"]
  BY DEF F!AppendStarts, F!SeedStarts, F!pageVars
<1>3. /\ clock' \in 0..MaxDecisions /\ clock + 1 \in F!Decisions /\ clock <= clock' /\ clock' \in Nat
      /\ writes \in [F!Decisions -> F!Stages]
  BY <1>1, <1>2, FeedConstants DEF FeedTypes, F!Decisions
<1>4. \A d \in F!Decisions : d \in Nat /\ writes'[d] = IF d = clock + 1 THEN "waits" ELSE writes[d]
  BY <1>2, <1>3 DEF F!Decisions
<1>5. FeedTypes'
  <2>1. writes' \in [F!Decisions -> F!Stages]
    BY <1>2, <1>3 DEF F!Stages
  <2>2. seeding' \in [left : 0..Seeds \union {F!NotRun}, last : 0..MaxDecisions]
    <3>1. seeding \in [left : 0..Seeds \union {F!NotRun}, last : 0..MaxDecisions]
      BY <1>1 DEF FeedTypes
    <3>2. CASE F!AppendStarts
      BY <3>1, <3>2 DEF F!AppendStarts
    <3>3. CASE F!SeedStarts
      <4>1. seeding' = [left |-> seeding.left - 1, last |-> clock + 1] /\ seeding.left > 0
        BY <3>3 DEF F!SeedStarts
      <4>2. seeding.left - 1 \in 0..Seeds
        BY <3>1, <4>1, FeedConstants DEF F!NotRun
      <4>. QED  BY <1>2, <1>3, <4>1, <4>2
    <3>. QED  BY <3>2, <3>3
  <2>. QED  BY <1>1, <1>2, <1>3, <2>1, <2>2 DEF FeedTypes
<1>6. LogFits'
  <2>1. ASSUME NEW l \in DOMAIN file
        PROVE  file[l].id <= clock' /\ (file[l].form \in {"strict", "legacy"} => writes'[file[l].id] = "none")
    <3>1. file[l].id <= clock /\ file[l].id \in Nat /\ (F!Logged(l) => writes[file[l].id] = "none")
      BY <1>1, LineFacts DEF LogFits
    <3>2. file[l].id # clock + 1 /\ file[l].id <= clock' /\ file[l].id \in F!Decisions
      BY <1>1, <1>2, <3>1, LineFacts DEF DecisionLines
    <3>. QED  BY <1>4, <3>1, <3>2 DEF F!Logged
  <2>2. ASSUME NEW d \in F!Decisions
        PROVE  (writes'[d] # "none" => d <= clock') /\ (writes'[d] = "alone" => open)
    <3>1. (writes[d] # "none" => d <= clock) /\ (writes[d] = "alone" => open)
      BY <1>1 DEF LogFits
    <3>. QED  BY <1>1, <1>2, <1>4, <3>1
  <2>. QED  BY <1>1, <1>2, <2>1, <2>2 DEF LogFits, F!Logged
<1>7. WritesBegin
  BY <1>1, <1>4 DEF WritesBegin
<1>8. Len(file) + 1 \in Nat
  BY <1>1, LineFacts
<1>. QED  BY <1>1, <1>2, <1>3, <1>5, <1>6, <1>7, <1>8, SameLog, LogStepKeeps

\* A stage of one append, and the one that had a line for itself no longer has.
LEMMA MixedIs ==
    ASSUME FeedTypes, NEW d \in F!Decisions, NEW next \in F!Stages, writes' = F!Mixed(d, next)
    PROVE  /\ writes' \in [F!Decisions -> F!Stages] /\ writes'[d] = next
           /\ \A e \in F!Decisions : e # d =>
                /\ writes'[e] # "alone"
                /\ writes'[e] # "none" <=> writes[e] # "none"
<1>1. writes \in [F!Decisions -> F!Stages]
  BY DEF FeedTypes
<1>. QED  BY <1>1 DEF F!Mixed, F!Stages

\* A part of a line, on a line of its own or on one that lacks its newline.
LEMMA PartWrittenKeeps ==
    ASSUME FeedInv, NEW d \in F!Decisions, F!PartWritten(d), part' = part
    PROVE  FeedInv'
<1>1. FeedTypes /\ LogFits /\ clock \in Nat
  BY LineFacts DEF FeedInv
<1>2. /\ UNCHANGED <<seeding, clock, answers, polled, error, local, records>> /\ open' = TRUE /\ writes[d] = "waits"
      /\ clock' \in Nat /\ clock <= clock' /\ clock' = clock
  BY <1>1 DEF F!PartWritten, F!pageVars
<1>3. PICK next \in {"alone", "mixed"} : writes' = F!Mixed(d, next)
  BY DEF F!PartWritten
<1>4. /\ writes' \in [F!Decisions -> F!Stages] /\ writes'[d] # "none"
      /\ \A e \in F!Decisions : writes'[e] # "none" <=> writes[e] # "none"
  BY <1>1, <1>2, <1>3, MixedIs DEF F!Stages
<1>5. WritesBegin
  BY <1>4 DEF WritesBegin
<1>6. \A e \in F!Decisions : writes'[e] # "none" => e <= clock
  BY <1>1, <1>4 DEF LogFits
<1>7. CASE open
  <2>1. file' = file
    BY <1>7 DEF F!PartWritten
  <2>2. FeedTypes'
    BY <1>1, <1>2, <1>4, <2>1 DEF FeedTypes
  <2>3. LogFits'
    <3>1. \A l \in DOMAIN file : file[l].id <= clock
                 /\ (file[l].form \in {"strict", "legacy"} => writes'[file[l].id] = "none")
      BY <1>1, <1>4, LineFacts DEF LogFits, F!Logged, DecisionLines
    <3>. QED  BY <1>1, <1>2, <1>6, <1>7, <2>1, <3>1 DEF LogFits, F!Logged
  <2>4. Len(file) + 1 \in Nat
    BY <1>1, LineFacts
  <2>. QED  BY <1>1, <1>2, <1>5, <2>1, <2>2, <2>3, <2>4, SameLog, LogStepKeeps
<1>8. CASE ~open
  <2>. DEFINE e == [id |-> d, form |-> "broken"]
  <2>1. file' = Append(file, e) /\ e \in DecisionLines /\ e.form = "broken" /\ e.id = d
    BY <1>8 DEF F!PartWritten, DecisionLines, F!Forms
  <2>. HIDE DEF e
  <2>2. /\ file' \in Seq(DecisionLines) /\ Len(file') = Len(file) + 1
        /\ DOMAIN file' = 1..(Len(file) + 1) /\ file' # <<>>
        /\ \A i \in 1..Len(file) : file'[i] = file[i]
        /\ file'[Len(file) + 1] = e
        /\ \A i \in 1..(Len(file) + 1) : i = Len(file) + 1 \/ i \in 1..Len(file)
        /\ LogGrows(Len(file) + 1) /\ (WindowHas => WindowHas')
    BY <1>1, <2>1, LineMore
  <2>3. FeedTypes'
    BY <1>1, <1>2, <1>4, <2>2 DEF FeedTypes
  <2>4. LogFits'
    <3>1. ASSUME NEW l \in DOMAIN file'
          PROVE  file'[l].id <= clock
                 /\ (file'[l].form \in {"strict", "legacy"} => writes'[file'[l].id] = "none")
      <4>1. CASE l = Len(file) + 1
        BY <1>1, <1>2, <2>1, <2>2, <4>1 DEF LogFits
      <4>2. CASE l \in 1..Len(file)
        BY <1>1, <1>4, <2>2, <4>2, LineFacts DEF LogFits, F!Logged, DecisionLines
      <4>. QED  BY <2>2, <4>1, <4>2
    <3>2. file'[Len(file')].form = "broken"
      BY <2>1, <2>2
    <3>. QED  BY <1>2, <1>6, <2>2, <3>1, <3>2 DEF LogFits, F!Logged
  <2>5. Len(file) + 1 \in Nat
    BY <1>1, LineFacts
  <2>. QED  BY <1>2, <1>5, <2>2, <2>3, <2>4, <2>5, LogStepKeeps
<1>. QED  BY <1>7, <1>8

\* The newline of an append: a line of its own is whole, any other is broken.
LEMMA AppendEndsKeeps ==
    ASSUME FeedInv, NEW d \in F!Decisions, F!AppendEnds(d), part' = part
    PROVE  FeedInv'
<1>1. FeedTypes /\ LogFits /\ clock \in Nat
  BY LineFacts DEF FeedInv
<1>2. /\ UNCHANGED <<seeding, clock, answers, polled, error, local, records>> /\ open' = FALSE
      /\ writes[d] \in {"alone", "mixed"} /\ clock' \in Nat /\ clock <= clock' /\ clock' = clock
  BY <1>1 DEF F!AppendEnds, F!pageVars
<1>3. writes' = F!Mixed(d, "none") /\ "none" \in F!Stages
  BY DEF F!AppendEnds, F!Stages
<1>4. /\ writes' \in [F!Decisions -> F!Stages] /\ writes'[d] = "none"
      /\ \A e \in F!Decisions : writes'[e] # "none" => writes[e] # "none" /\ writes'[e] # "alone"
  BY <1>1, <1>3, MixedIs
<1>5. WritesBegin
  BY <1>4 DEF WritesBegin
<1>6. \A e \in F!Decisions : (writes'[e] # "none" => e <= clock) /\ writes'[e] # "alone"
  BY <1>1, <1>4 DEF LogFits
<1>7. \A l \in 1..Len(file) : /\ file[l].id <= clock /\ l \in DOMAIN file
                              /\ file[l].form \in {"strict", "legacy"} => writes'[file[l].id] = "none"
  BY <1>1, <1>4, LineFacts DEF LogFits, F!Logged, DecisionLines
<1>8. d <= clock
  BY <1>1, <1>2 DEF LogFits
<1>9. Len(file) \in Nat /\ Len(file) + 1 \in Nat /\ DOMAIN file = 1..Len(file)
  BY <1>1, LineFacts
<1>10. CASE writes[d] = "alone"
  <2>1. open /\ file # <<>> /\ file[Len(file)].form = "broken"
    BY <1>1, <1>10 DEF LogFits
  <2>2. PICK form \in {"strict", "legacy"} : file' = [file EXCEPT ![Len(file)] = [id |-> d, form |-> form]]
    BY <1>10 DEF F!AppendEnds
  <2>. DEFINE e == [id |-> d, form |-> form]
  <2>3. file' = [file EXCEPT ![Len(file)] = e] /\ e \in DecisionLines /\ e.form \in {"strict", "legacy"} /\ e.id = d
    BY <2>2 DEF DecisionLines, F!Forms
  <2>. HIDE DEF e
  <2>4. /\ file' \in Seq(DecisionLines) /\ Len(file') = Len(file)
        /\ DOMAIN file' = 1..Len(file) /\ Len(file) \in 1..Len(file)
        /\ \A i \in 1..Len(file) : i # Len(file) => file'[i] = file[i]
        /\ file'[Len(file)] = e
        /\ LogGrows(Len(file)) /\ (WindowHas => WindowHas')
    BY <1>1, <1>2, <2>1, <2>3, LineDone
  <2>5. FeedTypes'
    BY <1>1, <1>2, <1>4, <2>4 DEF FeedTypes
  <2>6. LogFits'
    <3>1. ASSUME NEW l \in DOMAIN file'
          PROVE  file'[l].id <= clock
                 /\ (file'[l].form \in {"strict", "legacy"} => writes'[file'[l].id] = "none")
      <4>1. CASE l = Len(file)
        BY <1>4, <1>8, <2>3, <2>4, <4>1
      <4>2. CASE l # Len(file)
        BY <1>7, <2>4, <4>2
      <4>. QED  BY <4>1, <4>2
    <3>. QED  BY <1>2, <1>6, <3>1 DEF LogFits, F!Logged
  <2>. QED  BY <1>2, <1>5, <1>9, <2>4, <2>5, <2>6, LogStepKeeps
<1>11. CASE writes[d] = "mixed" /\ open
  <2>1. file' = file
    BY <1>11 DEF F!AppendEnds
  <2>2. FeedTypes'
    BY <1>1, <1>2, <1>4, <2>1 DEF FeedTypes
  <2>3. LogFits'
    BY <1>2, <1>6, <1>7, <1>9, <2>1 DEF LogFits, F!Logged
  <2>. QED  BY <1>1, <1>2, <1>5, <1>9, <2>1, <2>2, <2>3, SameLog, LogStepKeeps
<1>12. CASE writes[d] = "mixed" /\ ~open
  <2>. DEFINE e == [id |-> d, form |-> "broken"]
  <2>1. file' = Append(file, e) /\ e \in DecisionLines /\ e.form = "broken" /\ e.id = d
    BY <1>12 DEF F!AppendEnds, DecisionLines, F!Forms
  <2>. HIDE DEF e
  <2>2. /\ file' \in Seq(DecisionLines) /\ Len(file') = Len(file) + 1
        /\ DOMAIN file' = 1..(Len(file) + 1) /\ file' # <<>>
        /\ \A i \in 1..Len(file) : file'[i] = file[i]
        /\ file'[Len(file) + 1] = e
        /\ \A i \in 1..(Len(file) + 1) : i = Len(file) + 1 \/ i \in 1..Len(file)
        /\ LogGrows(Len(file) + 1) /\ (WindowHas => WindowHas')
    BY <1>1, <2>1, LineMore
  <2>3. FeedTypes'
    BY <1>1, <1>2, <1>4, <2>2 DEF FeedTypes
  <2>4. LogFits'
    <3>1. ASSUME NEW l \in DOMAIN file'
          PROVE  file'[l].id <= clock
                 /\ (file'[l].form \in {"strict", "legacy"} => writes'[file'[l].id] = "none")
      <4>1. CASE l = Len(file) + 1
        BY <1>8, <2>1, <2>2, <4>1
      <4>2. CASE l \in 1..Len(file)
        BY <1>7, <2>2, <4>2
      <4>. QED  BY <2>2, <4>1, <4>2
    <3>. QED  BY <1>2, <1>6, <3>1 DEF LogFits, F!Logged
  <2>. QED  BY <1>2, <1>5, <1>9, <2>2, <2>3, <2>4, LogStepKeeps
<1>. QED  BY <1>2, <1>10, <1>11, <1>12

\* An append ends with its process, or its disk: the log stays as it is.
LEMMA AppendFailsKeeps ==
    ASSUME FeedInv, NEW d \in F!Decisions, F!AppendFails(d), part' = part
    PROVE  FeedInv'
<1>1. FeedTypes /\ LogFits /\ clock \in Nat
  BY LineFacts DEF FeedInv
<1>2. /\ UNCHANGED <<file, open, clock, answers, polled, error, local, records>>
      /\ writes' = [writes EXCEPT ![d] = "none"] /\ clock' \in Nat /\ clock <= clock' /\ clock' = clock
  BY <1>1 DEF F!AppendFails, F!pageVars
<1>3. \A e \in F!Decisions : writes'[e] = IF e = d THEN "none" ELSE writes[e]
  BY <1>1, <1>2 DEF FeedTypes
<1>4. WritesBegin
  BY <1>3 DEF WritesBegin
<1>5. FeedTypes'
  <2>1. writes' \in [F!Decisions -> F!Stages]
    BY <1>1, <1>2 DEF FeedTypes, F!Stages
  <2>2. seeding' \in [left : 0..Seeds \union {F!NotRun}, last : 0..MaxDecisions]
    BY <1>1, FeedConstants DEF FeedTypes, F!AppendFails
  <2>. QED  BY <1>1, <1>2, <2>1, <2>2 DEF FeedTypes
<1>6. LogFits'
  <2>1. \A l \in DOMAIN file : file[l].id <= clock
            /\ (file[l].form \in {"strict", "legacy"} => writes'[file[l].id] = "none")
    BY <1>1, <1>3, LineFacts DEF LogFits, F!Logged, DecisionLines
  <2>2. \A e \in F!Decisions : (writes'[e] # "none" => e <= clock) /\ (writes'[e] = "alone" => open)
    BY <1>1, <1>3 DEF LogFits
  <2>. QED  BY <1>1, <1>2, <2>1, <2>2 DEF LogFits, F!Logged
<1>7. Len(file) + 1 \in Nat
  BY <1>1, LineFacts
<1>. QED  BY <1>1, <1>2, <1>4, <1>5, <1>6, <1>7, SameLog, LogStepKeeps

\* demo.mjs clears the log: whatever a page has is gone from it.
LEMMA LogClearsKeeps ==
    ASSUME FeedInv, F!LogClears, part' = part
    PROVE  FeedInv'
<1>1. FeedTypes /\ LogFits /\ (\A rows \in Feeds : RowsFit(rows)) /\ NeverEmptied
  BY DEF FeedInv
<1>2. /\ UNCHANGED <<clock, answers, polled, error, local, records>>
      /\ file' = <<>> /\ open' = FALSE
      /\ seeding' = [seeding EXCEPT !.left = Seeds]
      /\ writes' = [d \in F!Decisions |-> IF writes[d] = "alone" THEN "mixed" ELSE writes[d]]
  BY DEF F!LogClears, F!pageVars
<1>3. Feeds' = Feeds /\ polled' = polled
  BY <1>2 DEF Feeds
<1>4. \A d \in F!Decisions : writes'[d] # "alone" /\ (writes'[d] # "none" <=> writes[d] # "none")
  BY <1>2
<1>5. DOMAIN file' = {}
  BY <1>2
<1>6. FeedTypes'
  <2>1. file' \in Seq(DecisionLines)
    BY <1>2, EmptySeq
  <2>2. writes' \in [F!Decisions -> F!Stages]
    BY <1>1, <1>2 DEF FeedTypes, F!Stages
  <2>3. seeding' \in [left : 0..Seeds \union {F!NotRun}, last : 0..MaxDecisions]
    BY <1>1, <1>2, FeedConstants DEF FeedTypes
  <2>. QED  BY <1>1, <1>2, <2>1, <2>2, <2>3 DEF FeedTypes
<1>7. LogFits'
  BY <1>1, <1>2, <1>4, <1>5 DEF LogFits
<1>8. ASSUME NEW rows PROVE F!Gone(rows)'
  BY <1>5 DEF F!Gone
<1>9. ASSUME NEW rows \in Feeds PROVE RowsFit(rows)'
  <2>1. RowsFit(rows)
    BY <1>1
  <2>. QED  BY <1>2, <1>4, <1>8, <2>1 DEF RowsFit
<1>10. NeverEmptied'
  <2>1. F!Gone(polled)'
    BY <1>5 DEF F!Gone
  <2>. QED  BY <1>1, <1>2, <1>3, <1>8, <2>1 DEF NeverEmptied, F!Nothing, F!Row
<1>. QED  BY <1>3, <1>6, <1>7, <1>9, <1>10 DEF FeedInv

\* Steps that leave the log as it is and give the page nothing new.
LEMMA FeedWaits ==
    ASSUME FeedInv, part' = part, UNCHANGED <<file, open, writes, seeding>>,
           clock' \in 0..MaxDecisions, clock <= clock',
           (answers' = {} /\ polled' \in Feeds) \/ UNCHANGED <<answers, polled>>, error' \in BOOLEAN,
           local' \in Seq(F!Decisions), records'.limit \in Limits \union {0}
    PROVE  FeedInv'
<1>1. FeedTypes /\ LogFits /\ (\A rows \in Feeds : RowsFit(rows)) /\ NeverEmptied /\ clock \in Nat
  BY LineFacts DEF FeedInv
<1>2. answers' \subseteq answers
  OBVIOUS
<1>3. /\ Feeds' \subseteq Feeds
      /\ (answers' = {} => Feeds' = {polled'})
      /\ Feeds' = {polled'} \/ (Feeds' = Feeds /\ polled' = polled)
  BY <1>2 DEF Feeds
<1>4. FeedTypes'
  BY <1>1, <1>2, FeedConstants DEF FeedTypes
<1>5. clock' \in Nat
  BY FeedConstants
<1>6. LogFits'
  <2>1. \A l \in DOMAIN file : file[l].id <= clock'
    BY <1>1, <1>5, LineFacts DEF LogFits
  <2>2. \A d \in F!Decisions : writes[d] # "none" => d <= clock'
    BY <1>1, <1>5 DEF LogFits, F!Decisions
  <2>. QED  BY <1>1, <2>1, <2>2 DEF LogFits, F!Logged
<1>7. ASSUME NEW rows \in Feeds PROVE RowsFit(rows)' /\ (F!Gone(rows) => F!Gone(rows)')
  <2>1. LogGrows(Len(file) + 1) /\ Len(file) + 1 \in Nat
    BY <1>1, SameLog, LineFacts
  <2>2. WritesBegin
    BY DEF WritesBegin
  <2>. QED  BY <1>4, <1>5, <2>1, <2>2, RowsStay
<1>8. \A rows \in Feeds : F!Gone(rows) => \A k \in DOMAIN rows, l \in DOMAIN file' :
          file'[l].form \in {"strict", "legacy"} => file'[l].id # rows[k].id
  BY <1>7 DEF F!Gone, F!Logged
<1>9. NeverEmptied'
  <2>1. \A a \in answers' \ {<<>>} : a[1] # F!Nothing
    BY <1>1, <1>2 DEF NeverEmptied
  <2>2. part' = "demo" => \A rows \in Feeds' : rows # <<>>
    BY <1>1, <1>3 DEF NeverEmptied
  <2>3. WindowHas => WindowHas'
    BY DEF WindowHas
  <2>4. \A rows \in Feeds' : F!Gone(rows)' \/ part' = "demo" \/ WindowHas'
    BY <1>1, <1>3, <1>7, <2>3 DEF NeverEmptied
  <2>5. ASSUME <<>> \in Feeds', part' # "demo" PROVE F!Gone(polled)'
    <3>1. CASE polled' = <<>>
      <4>1. DOMAIN polled' = {}
        BY <3>1
      <4>. QED  BY <4>1 DEF F!Gone
    <3>2. CASE polled' # <<>>
      <4>1. Feeds' = Feeds /\ polled' = polled
        BY <1>3, <2>5, <3>2
      <4>2. F!Gone(polled) /\ polled \in Feeds
        BY <1>1, <2>5, <4>1 DEF NeverEmptied, Feeds
      <4>. QED  BY <1>8, <4>1, <4>2 DEF F!Gone, F!Logged
    <3>. QED  BY <3>1, <3>2
  <2>. QED  BY <2>1, <2>2, <2>4, <2>5 DEF NeverEmptied, F!Nothing, F!Row
<1>. QED  BY <1>3, <1>4, <1>6, <1>7, <1>9 DEF FeedInv

LEMMA FeedStutters ==
    ASSUME FeedInv, UNCHANGED part, UNCHANGED feedVars
    PROVE  FeedInv'
<1>1. FeedTypes /\ clock \in 0..MaxDecisions /\ clock \in Int
  BY FeedConstants DEF FeedInv, FeedTypes
<1>. QED  BY <1>1, FeedWaits DEF feedVars, FeedTypes

LEMMA FeedStepsKeep ==
    ASSUME FeedInv, part' = part,
           \/ F!PollEnds \/ F!PollFails \/ F!DemoDecision
           \/ \E limit \in Limits : F!AskLog(limit)
    PROVE  FeedInv'
<1>1. FeedTypes /\ clock \in 0..MaxDecisions /\ clock \in Int
  BY FeedConstants DEF FeedInv, FeedTypes
<1>3. CASE F!PollEnds
  <2>1. polled' \in Feeds /\ answers' = {}
    BY <1>3 DEF F!PollEnds, Feeds
  <2>. QED  BY <1>1, <1>3, <2>1, FeedWaits DEF F!PollEnds, F!logVars, FeedTypes
<1>4. CASE F!PollFails
  <2>1. polled' \in Feeds /\ answers' = {}
    BY <1>4 DEF F!PollFails, Feeds
  <2>. QED  BY <1>1, <1>4, <2>1, FeedWaits DEF F!PollFails, F!logVars, FeedTypes
<1>5. CASE F!DemoDecision
  <2>1. clock' \in 0..MaxDecisions /\ clock <= clock' /\ clock + 1 \in F!Decisions
    BY <1>1, <1>5, FeedConstants DEF F!DemoDecision, F!Decisions
  <2>2. <<clock + 1>> \in Seq(F!Decisions) /\ local \in Seq(F!Decisions)
    BY <1>1, <2>1 DEF FeedTypes
  <2>3. local' \in Seq(F!Decisions)
    BY <1>5, <2>2, ConcatProperties DEF F!DemoDecision
  <2>. QED  BY <1>1, <1>5, <2>1, <2>3, FeedWaits DEF F!DemoDecision, F!logVars, FeedTypes
<1>6. ASSUME NEW limit \in Limits, F!AskLog(limit) PROVE FeedInv'
  <2>1. records'.limit \in Limits \union {0}
    BY <1>6 DEF F!AskLog
  <2>. QED  BY <1>1, <1>6, <2>1, FeedWaits DEF F!AskLog, F!logVars, F!pageVars, FeedTypes
<1>. QED  BY <1>3, <1>4, <1>5, <1>6

\* What the route makes of the lines it looks at, turned around: the decisions among
\* them, the latest first.
LEMMA EntriesAre ==
    ASSUME FeedTypes
    PROVE  \E m \in 0..Len(file), n \in 0..Shown : \E at \in [1..n -> (m + 1)..Len(file)] :
              /\ Len(file) - m <= Shown /\ (m # 0 => Len(file) - m = Shown)
              /\ \A k, l \in 1..n : k < l => at[l] < at[k]
              /\ \A i \in (m + 1)..Len(file) : file[i].form # "other" <=> \E k \in 1..n : at[k] = i
              /\ F!Window = [i \in 1..(Len(file) - m) |-> file[m + i]]
              /\ F!Reverse(F!Parsed(F!Window)) =
                    [k \in 1..n |-> F!Row(file[at[k]].id,
                        IF file[at[k]].form = "legacy" THEN clock ELSE file[at[k]].id)]
<1>. DEFINE len == Len(file)
            m == IF len > Shown THEN len - Shown ELSE 0
            w == F!Window
            S == {i \in DOMAIN w : w[i].form # "other"}
            n == Cardinality(S)
            at == [k \in 1..n |-> m + Nth(S, n + 1 - k)]
<1>1. /\ file \in Seq(DecisionLines) /\ len \in Nat
      /\ Shown \in Nat \ {0}
  BY LineFacts, FeedConstants
<1>2. /\ m \in 0..len /\ len - m <= Shown /\ w = [i \in 1..(len - m) |-> file[m + i]]
  <2>1. /\ m \in 0..len /\ len - m <= Shown
        /\ F!LastOf(file, Shown) = [i \in 1..(len - m) |-> file[m + i]]
    BY <1>1, LastOfIs, Zenon
  <2>2. w = F!LastOf(file, Shown)
    BY DEF F!Window
  <2>. HIDE DEF len, m, w
  <2>. QED  BY <2>1, <2>2
<1>3. m # 0 => len - m = Shown
  BY <1>1
<1>. HIDE DEF len, m, w
<1>4. S \in SUBSET (1..(len - m))
  BY <1>2
<1>5. len - m \in Nat /\ m \in Nat
  BY <1>1, <1>2
<1>6. IsFiniteSet(S) /\ S \subseteq Int /\ n \in Nat /\ n <= len - m
  <2>1. IsFiniteSet(1..(len - m)) /\ Cardinality(1..(len - m)) = len - m
    BY <1>5, FS_Interval
  <2>2. IsFiniteSet(S) /\ Cardinality(S) <= len - m
    BY <1>4, <2>1, FS_Subset
  <2>. QED  BY <1>4, <2>2, FS_CardinalityType
<1>7. n \in 0..Shown
  BY <1>1, <1>2, <1>5, <1>6
<1>8. S = {i \in 1..(len - m) : file[m + i].form # "other"}
  BY <1>2
<1>. HIDE DEF S
<1>9. /\ \A k \in 1..n : Nth(S, k) \in S
      /\ \A i \in S : \E k \in 1..n : Nth(S, k) = i
      /\ \A k, l \in 1..n : k < l => Nth(S, k) < Nth(S, l)
  BY <1>6, NthCountsOff
<1>. HIDE DEF n
<1>10. ASSUME NEW k \in 1..n
       PROVE  n + 1 - k \in 1..n /\ at[k] = m + Nth(S, n + 1 - k) /\ Nth(S, n + 1 - k) \in S
  <2>1. n + 1 - k \in 1..n
    BY <1>6
  <2>. QED  BY <1>9, <2>1
<1>11. at \in [1..n -> (m + 1)..len]
  <2>1. ASSUME NEW k \in 1..n PROVE m + Nth(S, n + 1 - k) \in (m + 1)..len
    <3>1. Nth(S, n + 1 - k) \in 1..(len - m)
      BY <1>4, <1>10
    <3>. QED  BY <1>1, <1>5, <3>1
  <2>. QED  BY <2>1
<1>12. ASSUME NEW k \in 1..n, NEW l \in 1..n, k < l PROVE at[l] < at[k]
  <2>1. n + 1 - l < n + 1 - k
    BY <1>6, <1>12
  <2>2. Nth(S, n + 1 - l) < Nth(S, n + 1 - k) /\ Nth(S, n + 1 - l) \in Int /\ Nth(S, n + 1 - k) \in Int
    BY <1>6, <1>9, <1>10, <2>1
  <2>. QED  BY <1>5, <1>10, <2>2
<1>13. ASSUME NEW i \in (m + 1)..len PROVE file[i].form # "other" <=> \E k \in 1..n : at[k] = i
  <2>1. i - m \in 1..(len - m) /\ m + (i - m) = i
    BY <1>1, <1>5
  <2>2. file[i].form # "other" <=> i - m \in S
    BY <1>8, <2>1
  <2>3. ASSUME i - m \in S PROVE \E k \in 1..n : at[k] = i
    <3>1. PICK k \in 1..n : Nth(S, k) = i - m
      BY <1>9, <2>3
    <3>2. n + 1 - k \in 1..n /\ n + 1 - (n + 1 - k) = k
      BY <1>6
    <3>3. at[n + 1 - k] = i
      BY <1>10, <2>1, <3>1, <3>2
    <3>. QED  BY <3>2, <3>3
  <2>4. ASSUME NEW k \in 1..n, at[k] = i PROVE i - m \in S
    <3>1. i = m + Nth(S, n + 1 - k) /\ Nth(S, n + 1 - k) \in S /\ Nth(S, n + 1 - k) \in Int
      BY <1>6, <1>10, <2>4
    <3>2. i - m = Nth(S, n + 1 - k)
      BY <1>5, <3>1
    <3>. QED  BY <3>1, <3>2
  <2>. QED  BY <2>2, <2>3, <2>4
<1>14. F!Reverse(F!Parsed(w)) =
          [k \in 1..n |-> F!Row(file[at[k]].id,
              IF file[at[k]].form = "legacy" THEN clock ELSE file[at[k]].id)]
  <2>. DEFINE kept == [k \in 1..n |-> w[Nth(S, k)]]
              rows == [k \in 1..n |-> F!Row(kept[k].id, IF kept[k].form = "legacy" THEN clock ELSE kept[k].id)]
  <2>1. F!Only(w, S) = kept
    BY OnlyIs DEF n
  <2>2. F!Parsed(w) = rows
    <3>1. DOMAIN kept = 1..n
      OBVIOUS
    <3>. HIDE DEF kept
    <3>. QED  BY <2>1, <3>1, Zenon DEF F!Parsed, S
  <2>3. Len(rows) = n
    BY <1>6
  <2>4. F!Reverse(rows) = [k \in 1..n |-> rows[n - k + 1]]
    <3>. HIDE DEF rows
    <3>. QED  BY <2>3, Zenon DEF F!Reverse
  <2>5. ASSUME NEW k \in 1..n
        PROVE  rows[n - k + 1] = F!Row(file[at[k]].id,
                  IF file[at[k]].form = "legacy" THEN clock ELSE file[at[k]].id)
    <3>1. n - k + 1 \in 1..n /\ n - k + 1 = n + 1 - k
      BY <1>6
    <3>2. kept[n - k + 1] = w[Nth(S, n + 1 - k)]
      BY <3>1
    <3>3. w[Nth(S, n + 1 - k)] = file[at[k]]
      BY <1>2, <1>4, <1>10
    <3>. HIDE DEF kept, at
    <3>. QED  BY <3>1, <3>2, <3>3
  <2>. HIDE DEF rows, kept, at
  <2>. QED  BY <2>2, <2>4, <2>5
<1>15. m \in 0..len /\ n \in 0..Shown
  BY <1>2, <1>7
<1>. HIDE DEF at
<1>16. F!Window = w
  BY DEF w
<1>. QED  BY <1>2, <1>3, <1>11, <1>12, <1>13, <1>14, <1>15, <1>16 DEF len

\* Entries of the log, the latest first, are a stretch of it, unless the route fails.
LEMMA EntriesFollow ==
    ASSUME FeedTypes, LogFits, ~F!RouteFails
    PROVE  LET rows == F!Reverse(F!Parsed(F!Window)) IN
           /\ RowsFit(rows) /\ rows # F!Nothing
           /\ rows # <<>> <=> WindowHas
<1>1. PICK m \in 0..Len(file), n \in 0..Shown : \E at \in [1..n -> (m + 1)..Len(file)] :
              /\ Len(file) - m <= Shown /\ (m # 0 => Len(file) - m = Shown)
              /\ \A k, l \in 1..n : k < l => at[l] < at[k]
              /\ \A i \in (m + 1)..Len(file) : file[i].form # "other" <=> \E k \in 1..n : at[k] = i
              /\ F!Window = [i \in 1..(Len(file) - m) |-> file[m + i]]
              /\ F!Reverse(F!Parsed(F!Window)) =
                    [k \in 1..n |-> F!Row(file[at[k]].id,
                        IF file[at[k]].form = "legacy" THEN clock ELSE file[at[k]].id)]
  BY EntriesAre
<1>2. PICK at \in [1..n -> (m + 1)..Len(file)] :
              /\ Len(file) - m <= Shown /\ (m # 0 => Len(file) - m = Shown)
              /\ \A k, l \in 1..n : k < l => at[l] < at[k]
              /\ \A i \in (m + 1)..Len(file) : file[i].form # "other" <=> \E k \in 1..n : at[k] = i
              /\ F!Window = [i \in 1..(Len(file) - m) |-> file[m + i]]
              /\ F!Reverse(F!Parsed(F!Window)) =
                    [k \in 1..n |-> F!Row(file[at[k]].id,
                        IF file[at[k]].form = "legacy" THEN clock ELSE file[at[k]].id)]
  BY <1>1
<1>. DEFINE rows == F!Reverse(F!Parsed(F!Window))
            len == Len(file)
<1>3. /\ DOMAIN file = 1..len /\ len \in Nat /\ clock \in Nat
      /\ \A i \in 1..len : file[i] \in DecisionLines /\ file[i].id \in Nat \ {0}
      /\ Shown \in Nat \ {0} /\ n \in Nat /\ m \in 0..len /\ n <= Shown
  <2>1. /\ DOMAIN file = 1..len /\ len \in Nat /\ clock \in Nat
        /\ \A i \in 1..len : file[i] \in DecisionLines /\ file[i].id \in Nat \ {0}
    BY LineFacts
  <2>2. Shown \in Nat \ {0} /\ n \in Nat /\ m \in 0..len /\ n <= Shown
    BY <2>1, FeedConstants
  <2>. QED  BY <2>1, <2>2
<1>4. ASSUME NEW i \in 1..n
      PROVE  at[i] \in (m + 1)..len /\ at[i] \in 1..len
  BY <1>3
<1>5. /\ \A k \in 1..n : rows[k] \in FeedRows /\ rows[k].id = file[at[k]].id
      /\ DOMAIN rows = 1..n /\ rows \in [1..n -> FeedRows]
  <2>1. rows = [k \in 1..n |-> F!Row(file[at[k]].id,
                   IF file[at[k]].form = "legacy" THEN clock ELSE file[at[k]].id)]
    BY <1>2
  <2>2. ASSUME NEW k \in 1..n
        PROVE  LET r == F!Row(file[at[k]].id,
                           IF file[at[k]].form = "legacy" THEN clock ELSE file[at[k]].id)
               IN  r \in FeedRows /\ r.id = file[at[k]].id
    <3>1. file[at[k]].id \in Int /\ clock \in Int
      BY <1>3, <1>4
    <3>. QED  BY <3>1 DEF F!Row, FeedRows
  <2>. HIDE DEF rows, F!Row
  <2>. QED  BY <2>1, <2>2
<1>. HIDE DEF rows, len
<1>6. rows \in Seq(FeedRows) /\ Len(rows) = n
  BY <1>3, <1>5
<1>7. ASSUME NEW k \in 1..n PROVE F!Logged(at[k])
  <2>. DEFINE a == at[k]
  <2>1. a \in (m + 1)..len /\ a \in 1..len /\ file[a].form # "other"
    BY <1>2, <1>4 DEF len
  <2>2. file[a].form \in F!Forms
    BY <1>3, <2>1 DEF DecisionLines
  <2>. HIDE DEF a
  <2>3. a - m \in 1..(len - m) /\ m + (a - m) = a
    BY <1>3, <2>1
  <2>4. F!Window = [i \in 1..(len - m) |-> file[m + i]]
    BY <1>2 DEF len
  <2>5. a - m \in DOMAIN F!Window /\ F!Window[a - m] = file[a]
    BY <2>3, <2>4
  <2>6. file[a].form # "broken"
    BY <2>5 DEF F!RouteFails
  <2>7. F!Logged(a)
    BY <2>1, <2>2, <2>6 DEF F!Logged, F!Forms
  <2>. QED  BY <2>7 DEF a
<1>8. RowsFit(rows)
  <2>1. ASSUME NEW k \in DOMAIN rows
        PROVE  rows[k].id <= clock /\ writes[rows[k].id] = "none"
    <3>1. k \in 1..n /\ at[k] \in DOMAIN file /\ F!Logged(at[k]) /\ rows[k].id = file[at[k]].id
      BY <1>3, <1>4, <1>5, <1>7
    <3>. QED  BY <3>1 DEF LogFits
  <2>2. at \in [DOMAIN rows -> DOMAIN file]
    BY <1>3, <1>4, <1>5
  <2>3. F!Stretch(rows, at)
    <3>1. \A k \in DOMAIN rows : F!Logged(at[k]) /\ file[at[k]].id = rows[k].id
      BY <1>5, <1>7
    <3>2. ASSUME NEW k \in DOMAIN rows, NEW j \in DOMAIN rows, k < j
          PROVE  at[j] < at[k] /\ \A l \in at[j]..at[k] : F!Logged(l) => \E i \in k..j : at[i] = l
      <4>1. k \in 1..n /\ j \in 1..n /\ at[j] < at[k]
        BY <1>2, <1>5, <3>2
      <4>2. ASSUME NEW l \in at[j]..at[k], F!Logged(l) PROVE \E i \in k..j : at[i] = l
        <5>1. l \in (m + 1)..len /\ file[l].form # "other"
          <6>. DEFINE a == at[k]
                      b == at[j]
          <6>1. a \in (m + 1)..len /\ b \in (m + 1)..len /\ l \in b..a
            BY <1>4, <4>1
          <6>. HIDE DEF a, b
          <6>2. l \in (m + 1)..len
            BY <1>3, <6>1
          <6>. QED  BY <4>2, <6>2 DEF F!Logged
        <5>2. PICK i \in 1..n : at[i] = l
          BY <1>2, <5>1 DEF len
        <5>3. ~(i < k) /\ ~(j < i)
          <6>1. at[i] \in 1..len /\ at[j] \in 1..len /\ at[k] \in 1..len
            BY <1>4, <4>1
          <6>2. ~(at[k] < at[i]) /\ ~(at[i] < at[j])
            BY <1>3, <5>2, <6>1
          <6>. QED  BY <1>2, <4>1, <6>2
        <5>4. i \in k..j
          BY <1>3, <4>1, <5>3
        <5>. QED  BY <5>2, <5>4
      <4>. QED  BY <4>1, <4>2
    <3>. QED  BY <3>1, <3>2 DEF F!Stretch
  <2>4. Len(rows) <= Shown
    BY <1>3, <1>6
  <2>. QED  BY <1>6, <2>1, <2>2, <2>3, <2>4 DEF RowsFit
<1>9. rows # F!Nothing
  <2>1. F!Nothing = <<F!Row(0, -1)>> /\ F!Row(0, -1).id = 0
    BY DEF F!Nothing, F!Row
  <2>. HIDE DEF F!Row
  <2>2. DOMAIN F!Nothing = {1} /\ F!Nothing[1].id = 0
    BY <2>1
  <2>3. \A i \in DOMAIN rows : rows[i].id # 0
    BY <1>3, <1>4, <1>5
  <2>. QED  BY <2>2, <2>3
<1>10. ASSUME rows # <<>> PROVE WindowHas
  <2>1. 1 \in 1..n
    BY <1>3, <1>6, <1>10, EmptySeq
  <2>2. file[at[1]].form # "other" /\ at[1] \in DOMAIN file /\ at[1] \in (m + 1)..len
    BY <1>2, <1>3, <1>4, <2>1, Zenon DEF len
  <2>3. at[1] > len - Shown
    <3>1. len - m <= Shown
      BY <1>2 DEF len
    <3>. DEFINE a == at[1]
    <3>2. a \in (m + 1)..len
      BY <2>2
    <3>. HIDE DEF a
    <3>3. a > len - Shown
      BY <1>3, <3>1, <3>2
    <3>. QED  BY <3>3 DEF a
  <2>. QED  BY <2>2, <2>3 DEF len, WindowHas
<1>11. ASSUME NEW i \in DOMAIN file, i > Len(file) - Shown, file[i].form # "other"
       PROVE  rows # <<>>
  <2>1. i \in (m + 1)..len
    <3>1. i \in 1..len /\ i > len - Shown
      BY <1>3, <1>11 DEF len
    <3>2. m # 0 => len - m = Shown
      BY <1>2 DEF len
    <3>. QED  BY <1>3, <3>1, <3>2
  <2>2. PICK k \in 1..n : at[k] = i
    BY <1>2, <1>11, <2>1 DEF len
  <2>3. Len(rows) # 0
    BY <1>3, <1>6, <2>2
  <2>. QED  BY <2>3
<1>. QED  BY <1>8, <1>9, <1>10, <1>11 DEF rows, WindowHas

\* The demo's decisions are older than any line of the log.
LEMMA DemoFeedFits ==
    ASSUME FeedTypes, part = "demo"
    PROVE  RowsFit(F!DemoFeed) /\ F!DemoFeed # <<>> /\ F!DemoFeed # F!Nothing
<1>1. /\ F!DemoFeed = <<F!Row(0, 0), F!Row(-1, -1)>> /\ F!Nothing = <<F!Row(0, -1)>>
      /\ F!Row(0, 0) \in FeedRows /\ F!Row(-1, -1) \in FeedRows
      /\ F!Row(0, 0).id = 0 /\ F!Row(-1, -1).id = -1
  BY DEF F!DemoFeed, F!Nothing, F!Row, FeedRows
<1>. HIDE DEF F!Row
<1>2. /\ F!DemoFeed \in Seq(FeedRows) /\ Len(F!DemoFeed) = 2 /\ DOMAIN F!DemoFeed = {1, 2}
      /\ F!DemoFeed[1].id = 0 /\ F!DemoFeed[2].id = -1 /\ Len(F!Nothing) = 1
  BY <1>1
<1>. HIDE DEF F!DemoFeed, F!Nothing
<1>3. F!DemoFeed # <<>> /\ F!DemoFeed # F!Nothing
  <2>1. Len(F!DemoFeed) # Len(F!Nothing) /\ Len(F!DemoFeed) # 0
    BY <1>2
  <2>. QED  BY <2>1
<1>4. \A i \in DOMAIN F!DemoFeed :
        /\ F!DemoFeed[i].id <= clock /\ F!DemoFeed[i].id \notin F!Decisions
        /\ \A l \in DOMAIN file : file[l].id # F!DemoFeed[i].id
  BY <1>2, LineFacts DEF F!Decisions
<1>. QED  BY <1>2, <1>3, <1>4 DEF RowsFit, F!Gone

\* A poll puts on its way what the log says, nothing if the route fails, and in demo mode
\* the demo's decisions if the log has none.
LEMMA PollKeepsFeed ==
    ASSUME FeedInv, part' = part,
           (part # "demo" /\ F!Poll) \/ (part = "demo" /\ D!Poll)
    PROVE  FeedInv'
<1>1. FeedTypes /\ LogFits /\ (\A rows \in Feeds : RowsFit(rows)) /\ NeverEmptied
  BY DEF FeedInv
<1>. DEFINE rows == F!Reverse(F!Parsed(F!Window))
            given == IF part = "demo" /\ rows = <<>> THEN F!DemoFeed ELSE rows
<1>2. D!Feed = IF rows = <<>> THEN F!DemoFeed ELSE rows
  <2>1. D!Window = F!Window
    BY Zenon DEF D!Window, F!Window, D!LastOf, F!LastOf
  <2>2. D!Parsed(F!Window) = F!Parsed(F!Window)
    <3>. DEFINE w == F!Window
                S == {i \in DOMAIN w : w[i].form # "other"}
                kept == F!Only(w, S)
    <3>1. D!Only(w, S) = kept /\ F!Only(w, S) = kept
      BY OnlyIs
    <3>. HIDE DEF kept, w
    <3>2. F!Parsed(w) = [i \in DOMAIN kept |-> F!Row(kept[i].id, IF kept[i].form = "legacy" THEN clock ELSE kept[i].id)]
      BY <3>1, Zenon DEF F!Parsed
    <3>3. D!Parsed(w) = [i \in DOMAIN kept |-> F!Row(kept[i].id, IF kept[i].form = "legacy" THEN clock ELSE kept[i].id)]
      BY <3>1, Zenon DEF D!Parsed, D!Row, F!Row
    <3>. QED  BY <3>2, <3>3 DEF w
  <2>3. D!Reverse(F!Parsed(F!Window)) = rows
    BY Zenon DEF D!Reverse, F!Reverse
  <2>4. D!DemoFeed = F!DemoFeed
    BY Zenon DEF D!DemoFeed, F!DemoFeed, D!Row, F!Row
  <2>. QED  BY <2>1, <2>2, <2>3, <2>4, Zenon DEF D!Feed
<1>3. F!Feed = rows
  BY DEF F!Feed
<1>4. D!RouteFails <=> F!RouteFails
  <2>1. D!Window = F!Window
    BY Zenon DEF D!Window, F!Window, D!LastOf, F!LastOf
  <2>. QED  BY <2>1, Zenon DEF D!RouteFails, F!RouteFails
<1>. HIDE DEF rows
<1>5. /\ UNCHANGED <<file, open, writes, seeding, clock, polled, error, local, records, part>>
      /\ answers' = {IF F!RouteFails THEN <<>> ELSE <<given>>}
  <2>1. CASE part # "demo" /\ F!Poll
    BY <1>3, <2>1 DEF F!Poll, F!logVars
  <2>2. CASE part = "demo" /\ D!Poll
    BY <1>2, <1>4, <2>2 DEF D!Poll, D!logVars
  <2>. QED  BY <2>1, <2>2
<1>6. LogFits'
  BY <1>1, <1>5 DEF LogFits, F!Logged, F!Decisions
<1>7. /\ \A a, b \in answers' : a = b
      /\ \A a \in answers' : a = <<>> \/ a = <<a[1]>>
  BY <1>5
<1>8. FeedTypes'
  BY <1>1, <1>5, <1>7 DEF FeedTypes
<1>9. ASSUME NEW r
      PROVE  (RowsFit(r) => RowsFit(r)') /\ (F!Gone(r) => F!Gone(r)')
  BY <1>5 DEF RowsFit, F!Gone, F!Stretch, F!Logged, F!Decisions
<1>10. /\ F!Gone(polled) => F!Gone(polled)'
       /\ WindowHas => WindowHas'
       /\ F!Nothing' = F!Nothing
       /\ polled = <<>> => F!Gone(polled)
  BY <1>5 DEF F!Gone, F!Logged, WindowHas, F!Nothing, F!Row
<1>11. CASE F!RouteFails
  <2>1. Feeds' = {polled} /\ answers' \ {<<>>} = {} /\ polled \in Feeds
    BY <1>5, <1>11 DEF Feeds
  <2>2. \A r \in Feeds' : RowsFit(r)'
    BY <1>1, <1>9, <2>1
  <2>3. NeverEmptied'
    BY <1>1, <1>5, <1>9, <1>10, <2>1 DEF NeverEmptied
  <2>. QED  BY <1>6, <1>8, <2>2, <2>3 DEF FeedInv
<1>12. CASE ~F!RouteFails
  <2>1. RowsFit(rows) /\ rows # F!Nothing /\ (rows # <<>> <=> WindowHas)
    BY <1>1, <1>12, EntriesFollow DEF rows
  <2>2. RowsFit(given) /\ given # F!Nothing /\ (part = "demo" => given # <<>>)
    BY <1>1, <2>1, DemoFeedFits
  <2>3. part # "demo" => given = rows
    BY DEF given
  <2>. HIDE DEF given
  <2>4. answers' = {<<given>>} /\ answers' \ {<<>>} = {<<given>>} /\ <<given>>[1] = given
    BY <1>5, <1>12
  <2>5. Feeds' = {polled, given} /\ polled \in Feeds
    BY <1>5, <2>4 DEF Feeds
  <2>6. \A r \in Feeds' : RowsFit(r)'
    BY <1>1, <1>9, <2>2, <2>5
  <2>7. F!Gone(polled) \/ part = "demo" \/ WindowHas
    BY <1>1, <2>5 DEF NeverEmptied
  <2>8. F!Gone(given) \/ part = "demo" \/ WindowHas
    <3>1. given = <<>> => F!Gone(given)
      BY DEF F!Gone
    <3>. QED  BY <2>1, <2>3, <3>1
  <2>9. (given = <<>> \/ polled = <<>>) /\ part # "demo" => F!Gone(polled)
    BY <1>10, <2>1, <2>3, <2>7
  <2>10. part = "demo" => polled # <<>>
    BY <1>1, <2>5 DEF NeverEmptied
  <2>11. NeverEmptied'
    <3>1. \A a \in answers' \ {<<>>} : a[1] # F!Nothing'
      BY <1>10, <2>2, <2>4
    <3>2. part' = "demo" => \A r \in Feeds' : r # <<>>
      BY <1>5, <2>2, <2>5, <2>10
    <3>3. \A r \in Feeds' : F!Gone(r)' \/ part' = "demo" \/ WindowHas'
      BY <1>5, <1>9, <1>10, <2>5, <2>7, <2>8
    <3>4. (<<>> \in Feeds' /\ part' # "demo") => F!Gone(polled)'
      BY <1>5, <1>10, <2>5, <2>9
    <3>. QED  BY <3>1, <3>2, <3>3, <3>4 DEF NeverEmptied
  <2>. QED  BY <1>6, <1>8, <2>6, <2>11 DEF FeedInv
<1>. QED  BY <1>11, <1>12

\* An MCP client is answered the same whether or not the dashboard is in demo mode.
LEMMA SameAskLog ==
    ASSUME NEW limit, D!AskLog(limit)
    PROVE  F!AskLog(limit)
<1>1. D!ReadJsonl(limit) = F!ReadJsonl(limit)
  <2>. DEFINE w == F!LastOf(file, limit)
              S == {i \in DOMAIN w : w[i].form # "broken"}
              found == F!Only(w, S)
  <2>1. D!Only(w, S) = found /\ F!Only(w, S) = found
    BY OnlyIs
  <2>2. D!LastOf(file, limit) = w
    BY Zenon DEF D!LastOf, F!LastOf
  <2>. HIDE DEF found
  <2>3. F!Readable(w) = found /\ D!Readable(w) = found
    BY <2>1, Zenon DEF F!Readable, D!Readable
  <2>. HIDE DEF w
  <2>4. F!ReadJsonl(limit) = [i \in DOMAIN found |-> found[i].id]
    BY <2>3, Zenon DEF F!ReadJsonl, w
  <2>5. D!ReadJsonl(limit) = [i \in DOMAIN found |-> found[i].id]
    BY <2>2, <2>3, Zenon DEF D!ReadJsonl
  <2>. QED  BY <2>4, <2>5
<1>. QED  BY <1>1 DEF D!AskLog, F!AskLog, D!logVars, F!logVars, D!pageVars, F!pageVars

\* The agent's and the script's steps on the log are the same, demo mode or not.
LogWritten ==
    \/ F!AppendStarts \/ F!LogClears \/ F!SeedStarts
    \/ \E d \in F!Decisions : F!PartWritten(d) \/ F!AppendEnds(d) \/ F!AppendFails(d)

LEMMA SameLogSteps ==
    ASSUME \/ D!AppendStarts \/ D!LogClears \/ D!SeedStarts
           \/ \E d \in D!Decisions : D!PartWritten(d) \/ D!AppendEnds(d) \/ D!AppendFails(d)
    PROVE  LogWritten
<1>1. D!Decisions = F!Decisions /\ D!NotRun = F!NotRun /\ D!pageVars = F!pageVars
  BY Zenon DEF D!Decisions, F!Decisions, D!NotRun, F!NotRun, D!pageVars, F!pageVars
<1>2. \A d, next : D!Mixed(d, next) = F!Mixed(d, next)
  BY <1>1, Zenon DEF D!Mixed, F!Mixed
<1>3. D!AppendStarts => F!AppendStarts
  BY Zenon DEF D!AppendStarts, F!AppendStarts, D!pageVars, F!pageVars
<1>4. D!LogClears => F!LogClears
  BY <1>1, Zenon DEF D!LogClears, F!LogClears, D!pageVars, F!pageVars
<1>5. D!SeedStarts => F!SeedStarts
  BY Zenon DEF D!SeedStarts, F!SeedStarts, D!pageVars, F!pageVars
<1>6. ASSUME NEW d, D!PartWritten(d) PROVE F!PartWritten(d)
  BY <1>2, <1>6, Zenon DEF D!PartWritten, F!PartWritten, D!pageVars, F!pageVars
<1>7. ASSUME NEW d, D!AppendEnds(d) PROVE F!AppendEnds(d)
  BY <1>2, <1>7, Zenon DEF D!AppendEnds, F!AppendEnds, D!pageVars, F!pageVars
<1>8. ASSUME NEW d, D!AppendFails(d) PROVE F!AppendFails(d)
  BY <1>8, Zenon DEF D!AppendFails, F!AppendFails, D!pageVars, F!pageVars
<1>. QED  BY <1>1, <1>3, <1>4, <1>5, <1>6, <1>7, <1>8 DEF LogWritten

LEMMA LogWrittenKeeps ==
    ASSUME FeedInv, part' = part, LogWritten
    PROVE  FeedInv'
BY AppendStartsKeeps, LogClearsKeeps, PartWrittenKeeps, AppendEndsKeeps, AppendFailsKeeps DEF LogWritten

LEMMA FeedNextKeeps ==
    ASSUME FeedInv, part' = part, (part # "demo" /\ F!Next) \/ (part = "demo" /\ D!Next)
    PROVE  FeedInv'
<1>1. CASE part # "demo" /\ F!Next
  <2>1. LogWritten \/ F!Poll \/ F!PollEnds \/ F!PollFails \/ F!DemoDecision
        \/ \E limit \in Limits : F!AskLog(limit)
    BY <1>1 DEF F!Next, LogWritten
  <2>. QED  BY <1>1, <2>1, LogWrittenKeeps, PollKeepsFeed, FeedStepsKeep
<1>2. CASE part = "demo" /\ D!Next
  <2>1. \A limit : D!AskLog(limit) => F!AskLog(limit)
    BY SameAskLog
  <2>2. (D!PollFails => F!PollFails) /\ (D!DemoDecision => F!DemoDecision)
    BY Zenon DEF D!PollFails, F!PollFails, D!DemoDecision, F!DemoDecision,
           D!pageVars, F!pageVars, D!logVars, F!logVars
  <2>3. D!PollEnds => F!PollEnds
    BY Zenon DEF D!PollEnds, F!PollEnds, D!logVars, F!logVars
  <2>4. \/ D!Poll \/ F!PollEnds \/ F!PollFails \/ F!DemoDecision
        \/ \E limit \in Limits : F!AskLog(limit)
        \/ D!AppendStarts \/ D!LogClears \/ D!SeedStarts
        \/ \E d \in D!Decisions : D!PartWritten(d) \/ D!AppendEnds(d) \/ D!AppendFails(d)
    BY <1>2, <2>1, <2>2, <2>3 DEF D!Next
  <2>. QED  BY <1>2, <2>4, SameLogSteps, LogWrittenKeeps, PollKeepsFeed, FeedStepsKeep
<1>. QED  BY <1>1, <1>2

\* What has its line is no longer being appended, and what the page has or is being given
\* is a stretch of the log, or gone from it, for any number of decisions, lines shown, old
\* lines and lines of the demo, however appends overtake one another and tear.
THEOREM FeedInvariant == PanelsSpec => []FeedInv
<1>1. PanelsInit => FeedInv
  BY FeedStarts DEF PanelsInit
<1>2. FeedInv /\ [PanelsNext]_<<part, panelVars>> => FeedInv'
  <2>. SUFFICES ASSUME FeedInv, [PanelsNext]_<<part, panelVars>> PROVE FeedInv'
    OBVIOUS
  <2>1. part' = part
    BY DEF PanelsNext
  <2>2. \/ (part # "demo" /\ F!Next) \/ (part = "demo" /\ D!Next)
        \/ UNCHANGED feedVars
    BY DEF PanelsNext, CockpitRuns, ButtonRuns, OracleRuns, FeedRuns, panelVars
  <2>. QED  BY <2>1, <2>2, FeedNextKeeps, FeedStutters
<1>. QED  BY <1>1, <1>2, PTL DEF PanelsSpec

\* The panel has something to list as soon as the page has a decision of its own or has
\* been given one.
LEMMA MergedIs ==
    ASSUME FeedTypes, polled \in Seq(FeedRows)
    PROVE  /\ F!Merged = <<>> <=> local = <<>> /\ polled \in {F!Nothing, <<>>}
           /\ D!Merged = F!Merged
<1>. DEFINE own == [i \in DOMAIN local |-> F!Row(local[i], local[i])]
            S == {i \in DOMAIN own : own[i] \notin F!ToSet(polled)}
            given == IF polled = F!Nothing THEN <<>> ELSE polled
            fresh == F!Only(own, S)
<1>1. F!Merged = fresh \o given
  BY Zenon DEF F!Merged
<1>2. D!Merged = F!Merged
  <2>1. D!Only(own, S) = fresh
    BY OnlyIs
  <2>2. D!ToSet(polled) = F!ToSet(polled)
    BY Zenon DEF D!ToSet, F!ToSet
  <2>3. own = [i \in DOMAIN local |-> D!Row(local[i], local[i])]
    BY Zenon DEF D!Row, F!Row
  <2>4. D!Nothing = F!Nothing
    BY Zenon DEF D!Nothing, F!Nothing, D!Row, F!Row
  <2>. HIDE DEF fresh, own
  <2>5. S = {i \in DOMAIN own : own[i] \notin D!ToSet(polled)}
    BY <2>2
  <2>6. D!Merged = D!Only(own, {i \in DOMAIN own : own[i] \notin D!ToSet(polled)})
                      \o (IF polled = D!Nothing THEN <<>> ELSE polled)
    BY <2>3, Zenon DEF D!Merged
  <2>. HIDE DEF S
  <2>. QED  BY <1>1, <2>1, <2>4, <2>5, <2>6
<1>3. /\ local \in Seq(F!Decisions) /\ Len(local) \in Nat /\ DOMAIN local = 1..Len(local)
      /\ \A i \in 1..Len(local) : local[i] \in Nat \ {0}
  <2>1. local \in Seq(F!Decisions)
    BY DEF FeedTypes
  <2>2. F!Decisions \subseteq Nat \ {0}
    BY FeedConstants DEF F!Decisions
  <2>. QED  BY <2>1, <2>2, LenProperties, ElementOfSeq
<1>4. /\ DOMAIN own = 1..Len(local)
      /\ \A i \in 1..Len(local) : own[i] \in FeedRows /\ own[i].id \in Nat \ {0}
  BY <1>3 DEF F!Row, FeedRows
<1>. HIDE DEF own
<1>5. IsFiniteSet(S) /\ S \subseteq Int /\ S \subseteq 1..Len(local) /\ Cardinality(S) \in Nat
  <2>1. S \in SUBSET (1..Len(local))
    BY <1>4
  <2>. HIDE DEF S
  <2>2. IsFiniteSet(1..Len(local))
    BY <1>3, FS_Interval
  <2>3. IsFiniteSet(S)
    BY <2>1, <2>2, FS_Subset
  <2>4. Cardinality(S) \in Nat
    BY <2>3, FS_CardinalityType
  <2>. QED  BY <2>1, <2>3, <2>4
<1>6. /\ fresh = [k \in 1..Cardinality(S) |-> own[Nth(S, k)]]
      /\ \A k \in 1..Cardinality(S) : Nth(S, k) \in S
  <2>1. \A k \in 1..Cardinality(S) : Nth(S, k) \in S
    BY <1>5, NthCountsOff
  <2>. QED  BY <2>1, OnlyIs
<1>7. fresh \in Seq(FeedRows) /\ Len(fresh) = Cardinality(S)
  <2>1. \A k \in 1..Cardinality(S) : own[Nth(S, k)] \in FeedRows
    BY <1>4, <1>5, <1>6
  <2>. HIDE DEF fresh, S
  <2>. QED  BY <1>5, <1>6, <2>1
<1>8. given \in Seq(FeedRows) /\ (given = <<>> <=> polled \in {F!Nothing, <<>>})
  BY EmptySeq
<1>9. F!Merged = <<>> <=> fresh = <<>> /\ given = <<>>
  <2>. HIDE DEF fresh, given
  <2>1. Len(fresh \o given) = Len(fresh) + Len(given) /\ Len(fresh) \in Nat /\ Len(given) \in Nat
    BY <1>7, <1>8, ConcatProperties, LenProperties
  <2>2. fresh \o given \in Seq(FeedRows)
    BY <1>7, <1>8, ConcatProperties
  <2>3. fresh \o given = <<>> <=> Len(fresh \o given) = 0
    BY <2>2, EmptySeq
  <2>4. fresh = <<>> <=> Len(fresh) = 0
    BY <1>7, EmptySeq
  <2>5. given = <<>> <=> Len(given) = 0
    BY <1>8, EmptySeq
  <2>. QED  BY <1>1, <2>1, <2>3, <2>4, <2>5
<1>10. ASSUME local = <<>> PROVE fresh = <<>>
  <2>1. S = {}
    BY <1>5, <1>10
  <2>2. Cardinality(S) = 0
    BY <2>1, FS_EmptySet
  <2>. HIDE DEF fresh, S
  <2>. QED  BY <1>7, <2>2, EmptySeq
<1>11. ASSUME local # <<>>, polled \in {F!Nothing, <<>>} PROVE fresh # <<>>
  <2>1. \A r \in F!ToSet(polled) : r.id = 0
    BY <1>11 DEF F!ToSet, F!Nothing, F!Row
  <2>2. 1 \in 1..Len(local)
    BY <1>3, <1>11, EmptySeq
  <2>3. 1 \in S
    BY <1>4, <2>1, <2>2
  <2>4. Cardinality(S) # 0
    BY <1>5, <2>3, FS_EmptySet
  <2>. HIDE DEF fresh, S
  <2>. QED  BY <1>7, <2>4
<1>. QED  BY <1>2, <1>8, <1>9, <1>10, <1>11

\* What a reader of the page may rely on, from the invariant.
LEMMA FeedInvSuffices ==
    FeedInv => /\ part = "feed" => F!TypeOK /\ F!FeedFollowsLog
               /\ part = "demo" => D!TypeOK /\ D!NeverBlank
<1>. SUFFICES ASSUME FeedInv
              PROVE  /\ part = "feed" => F!TypeOK /\ F!FeedFollowsLog
                     /\ part = "demo" => D!TypeOK /\ D!NeverBlank
  OBVIOUS
<1>1. FeedTypes /\ RowsFit(polled) /\ (part = "demo" => polled # <<>>)
  BY DEF FeedInv, Feeds, NeverEmptied
<1>2. /\ polled \in Seq(FeedRows) /\ DOMAIN polled = 1..Len(polled)
      /\ \A i \in DOMAIN polled : polled[i].id \in Int
  BY <1>1, RowFacts DEF RowsFit
<1>3. F!Cardinality(answers) <= 1 /\ D!Cardinality(answers) <= 1
  <2>1. F!Cardinality(answers) = Cardinality(answers) /\ D!Cardinality(answers) = Cardinality(answers)
    BY Zenon DEF F!Cardinality, D!Cardinality, Cardinality
  <2>2. CASE answers = {}
    BY <2>1, <2>2, FS_EmptySet
  <2>3. CASE answers # {}
    <3>0. \A a, b \in answers : a = b
      BY <1>1 DEF FeedTypes
    <3>1. PICK a : a \in answers
      BY <2>3, Zenon
    <3>2. answers = {a}
      BY <3>0, <3>1, Zenon
    <3>3. Cardinality(answers) = 1
      BY <3>2, FS_Singleton
    <3>. QED  BY <2>1, <3>3
  <2>. QED  BY <2>2, <2>3
<1>4. F!TypeOK /\ D!TypeOK
  <2>1. D!Decisions = F!Decisions /\ D!Forms = F!Forms /\ D!Stages = F!Stages /\ D!NotRun = F!NotRun
    BY DEF D!Decisions, F!Decisions, D!Forms, F!Forms, D!Stages, F!Stages, D!NotRun, F!NotRun
  <2>. QED  BY <1>1, <1>2, <1>3, <2>1 DEF F!TypeOK, D!TypeOK, FeedTypes, DecisionLines, FeedRows
<1>5. part = "feed" => F!FeedFollowsLog
  <2>. SUFFICES ASSUME part = "feed" PROVE F!FeedFollowsLog
    OBVIOUS
  <2>. QED  BY <1>1 DEF RowsFit, F!FeedFollowsLog
<1>6. part = "demo" => D!NeverBlank
  <2>1. D!Nothing = F!Nothing
    BY Zenon DEF D!Nothing, F!Nothing, D!Row, F!Row
  <2>. QED  BY <1>1, <1>2, <2>1, MergedIs DEF D!NeverBlank
<1>. QED  BY <1>4, <1>5, <1>6

\* The page of decisions is a stretch of the log, backwards and without a gap, or the log
\* was cleared since; in demo mode a page with an answer is never blank, and the oracle's
\* panel is true (api/decisions/route.ts, CockpitGrid.tsx, api/oracle/route.ts).
THEOREM LogPanelsTellTheTruth == PanelsSpec => []LogPanelsAreTrue
<1>1. FeedInv /\ OraclePanelIsTrue => LogPanelsAreTrue
  BY FeedInvSuffices DEF LogPanelsAreTrue
<1>. QED  BY <1>1, FeedInvariant, OraclePanelTellsTheTruth, PTL

\* The panel shows a list exactly if the page has a decision of its own or has been given
\* one, and that there are none if it has been given none.
Listed ==
    /\ F!Panel = "list" <=> local # <<>> \/ polled \notin {F!Nothing, <<>>}
    /\ local = <<>> /\ polled = <<>> => F!Panel = "No decisions yet"

LEMMA PanelIsListed == FeedInv => Listed
<1>. SUFFICES ASSUME FeedInv PROVE Listed
  OBVIOUS
<1>1. FeedTypes /\ polled \in Seq(FeedRows)
  BY DEF FeedInv, Feeds, RowsFit
<1>2. F!Merged = <<>> <=> local = <<>> /\ polled \in {F!Nothing, <<>>}
  BY <1>1, MergedIs
<1>3. F!Nothing # <<>>
  BY DEF F!Nothing
<1>. QED  BY <1>2, <1>3 DEF Listed, F!Panel

\* What a page has been given it keeps, or is given something newer; its own decisions stay.
LEMMA PageGains ==
    ASSUME [PanelsNext]_<<part, panelVars>>
    PROVE  polled' \in Feeds /\ (local' = local \/ local' = <<clock + 1>> \o local)
<1>1. polled \in Feeds
  BY DEF Feeds
<1>2. CASE part = "feed" /\ F!Next
  <2>1. CASE F!PollEnds
    BY <2>1 DEF F!PollEnds, F!logVars, Feeds
  <2>2. CASE ~F!PollEnds
    BY <1>1, <1>2, <2>2 DEF F!Next, F!AppendStarts, F!AppendEnds, F!PartWritten, F!AppendFails, F!LogClears, F!SeedStarts, F!AskLog, F!Poll,
       F!PollFails, F!DemoDecision, F!logVars, F!pageVars
  <2>. QED  BY <2>1, <2>2
<1>3. CASE part = "demo" /\ D!Next
  <2>1. CASE D!PollEnds
    BY <2>1 DEF D!PollEnds, D!logVars, Feeds
  <2>2. CASE ~D!PollEnds
    BY <1>1, <1>3, <2>2 DEF D!Next, D!AppendStarts, D!AppendEnds, D!PartWritten, D!AppendFails, D!LogClears, D!SeedStarts, D!AskLog, D!Poll,
       D!PollFails, D!DemoDecision, D!logVars, D!pageVars
  <2>. QED  BY <2>1, <2>2
<1>4. CASE UNCHANGED feedVars
  BY <1>1, <1>4 DEF feedVars
<1>. QED  BY <1>2, <1>3, <1>4 DEF PanelsNext, CockpitRuns, ButtonRuns, OracleRuns, FeedRuns, panelVars

\* A panel that lists decisions never goes back to an error, and to "No decisions yet" only
\* when none of them is in the log any more: a conjunct of NoStepGoesBack
\* (DecisionFeedPanel.tsx, usePoller.ts, demo.mjs).
THEOREM ListGoesWithItsLog == PanelsSpec => F!ListStays
<1>1. FeedInv /\ Listed /\ Listed' /\ [PanelsNext]_<<part, panelVars>>
        => [(F!Panel = "list" /\ F!Panel' # "list") => F!Panel' = "No decisions yet" /\ F!Gone(polled)]_<<polled, local, error>>
  <2>. SUFFICES ASSUME FeedInv, Listed, Listed', [PanelsNext]_<<part, panelVars>>,
                       F!Panel = "list", F!Panel' # "list"
                PROVE  F!Panel' = "No decisions yet" /\ F!Gone(polled)
    OBVIOUS
  <2>1. local # <<>> \/ polled \notin {F!Nothing, <<>>}
    BY DEF Listed
  <2>2. polled' \in Feeds /\ (local' = local \/ local' = <<clock + 1>> \o local)
    BY PageGains
  <2>3. local # <<>> => local' # <<>>
    <3>1. local \in Seq(Nat) /\ <<clock + 1>> \in Seq(Nat)
      <4>1. local \in Seq(F!Decisions) /\ F!Decisions \subseteq Nat
        BY FeedConstants DEF FeedInv, FeedTypes, F!Decisions
      <4>2. clock + 1 \in Nat
        BY FeedConstants DEF FeedInv, FeedTypes
      <4>3. Len(local) \in Nat /\ local \in [1..Len(local) -> F!Decisions]
        BY <4>1, LenProperties
      <4>4. local \in [1..Len(local) -> Nat]
        BY <4>1, <4>3
      <4>5. local \in Seq(Nat)
        BY <4>3, <4>4
      <4>. QED  BY <4>2, <4>5
    <3>2. Len(<<clock + 1>> \o local) = 1 + Len(local) /\ Len(local) \in Nat
      BY <3>1, ConcatProperties
    <3>3. <<clock + 1>> \o local # <<>>
      BY <3>2
    <3>. QED  BY <2>2, <3>3
  <2>4. F!Nothing' = F!Nothing
    BY DEF F!Nothing, F!Row
  <2>5. local = <<>> /\ local' = <<>> /\ polled \notin {F!Nothing, <<>>} /\ polled' \in {F!Nothing, <<>>}
    BY <2>1, <2>3, <2>4 DEF Listed
  <2>6. polled' = <<>>
    BY <2>2, <2>5 DEF FeedInv, NeverEmptied, Feeds
  <2>7. F!Gone(polled)
    BY <2>2, <2>6 DEF FeedInv, NeverEmptied
  <2>. QED  BY <2>5, <2>6, <2>7 DEF Listed
<1>. QED  BY <1>1, FeedInvariant, PanelIsListed, PTL DEF PanelsSpec, F!ListStays

\* Of the readable lines, those of the last few are the last of all.
LEMMA LatestRecords ==
    ASSUME FeedTypes, NEW limit \in Limits
    PROVE  LET got == F!ReadJsonl(limit) whole == F!Readable(file) IN
           Len(got) <= limit /\ F!IsSuffix(got, [i \in DOMAIN whole |-> whole[i].id])
<1>. DEFINE len == Len(file)
            m == IF len > limit THEN len - limit ELSE 0
            w == F!LastOf(file, limit)
            S == {i \in DOMAIN file : file[i].form # "broken"}
            U == {i \in DOMAIN w : w[i].form # "broken"}
            q == Cardinality(UpTo(S, m))
            t == Cardinality(U)
            ids == [k \in 1..(q + t) |-> file[Nth(S, k)].id]
            got == [k \in 1..t |-> w[Nth(U, k)].id]
<1>1. /\ file \in Seq(DecisionLines) /\ len \in Nat /\ DOMAIN file = 1..len
      /\ \A i \in 1..len : file[i].id \in Int
  BY LineFacts
<1>2. limit \in Nat \ {0}
  BY FeedConstants
<1>3. m \in 0..len /\ len - m <= limit /\ w = [i \in 1..(len - m) |-> file[m + i]]
  <2>1. /\ len = Len(file) /\ m = IF Len(file) > limit THEN Len(file) - limit ELSE 0
        /\ w = F!LastOf(file, limit)
    OBVIOUS
  <2>. HIDE DEF len, m, w
  <2>0. file \in Seq(DecisionLines)
    BY <1>1
  <2>2. LET k == IF Len(file) > limit THEN Len(file) - limit ELSE 0 IN
        /\ k \in 0..Len(file) /\ Len(file) - k <= limit
        /\ F!LastOf(file, limit) = [i \in 1..(Len(file) - k) |-> file[k + i]]
        /\ F!LastOf(file, limit) \in Seq(DecisionLines)
    BY <1>2, <2>0, LastOfIs, Zenon
  <2>. QED  BY <2>1, <2>2
<1>. HIDE DEF len, m, w
<1>4. S \in SUBSET (1..len) /\ U = {i \in 1..(len - m) : i + m \in S}
  <2>1. \A i \in 1..(len - m) : m + i \in 1..len /\ m + i = i + m /\ w[i] = file[m + i]
    BY <1>1, <1>3
  <2>2. DOMAIN w = 1..(len - m)
    BY <1>3
  <2>. QED  BY <1>1, <2>1, <2>2
<1>. HIDE DEF S, U
<1>5. /\ q \in Nat /\ t \in Nat /\ Cardinality(S) = q + t
      /\ \A k \in 1..t : Nth(S, q + k) = Nth(U, k) + m
  <2>1. len \in Nat /\ m \in 0..len /\ S \in SUBSET (1..len)
    BY <1>1, <1>3, <1>4
  <2>2. U = {i \in 1..(len - m) : i + m \in S}
    BY <1>4
  <2>. HIDE DEF q, t
  <2>3. q = Cardinality(UpTo(S, m)) /\ t = Cardinality(U)
    BY DEF q, t
  <2>. QED  BY <2>1, <2>2, <2>3, NthBehind
<1>6. /\ IsFiniteSet(S) /\ S \subseteq Int /\ IsFiniteSet(U) /\ U \subseteq Int /\ t <= len - m
  <2>1. len - m \in Nat /\ U \in SUBSET (1..(len - m))
    BY <1>1, <1>3, <1>4
  <2>2. IsFiniteSet(1..(len - m)) /\ Cardinality(1..(len - m)) = len - m /\ IsFiniteSet(1..len)
    BY <1>1, <2>1, FS_Interval
  <2>3. IsFiniteSet(U) /\ Cardinality(U) <= len - m
    BY <2>1, <2>2, FS_Subset
  <2>4. IsFiniteSet(S)
    BY <1>4, <2>2, FS_Subset
  <2>5. S \subseteq Int /\ U \subseteq Int
    BY <1>4
  <2>. QED  BY <2>3, <2>4, <2>5
<1>7. /\ \A k \in 1..(q + t) : Nth(S, k) \in S
      /\ \A k \in 1..t : Nth(U, k) \in U
  BY <1>5, <1>6, NthCountsOff
<1>8. /\ F!Readable(file) = [k \in 1..(q + t) |-> file[Nth(S, k)]]
      /\ F!Readable(w) = [k \in 1..t |-> w[Nth(U, k)]]
  <2>1. /\ F!Only(file, S) = [k \in 1..Cardinality(S) |-> file[Nth(S, k)]]
        /\ F!Only(w, U) = [k \in 1..Cardinality(U) |-> w[Nth(U, k)]]
    BY OnlyIs
  <2>2. F!Readable(file) = F!Only(file, S) /\ F!Readable(w) = F!Only(w, U)
    BY Zenon DEF F!Readable, S, U
  <2>. QED  BY <1>5, <2>1, <2>2
<1>9. [i \in DOMAIN F!Readable(file) |-> F!Readable(file)[i].id] = ids
  <2>. HIDE DEF q, t
  <2>. QED  BY <1>8
<1>10. F!ReadJsonl(limit) = got
  <2>. DEFINE found == F!Readable(w)
  <2>1. F!ReadJsonl(limit) = [i \in DOMAIN found |-> found[i].id]
    BY Zenon DEF F!ReadJsonl, w
  <2>. HIDE DEF found
  <2>2. found = [k \in 1..t |-> w[Nth(U, k)]]
    BY <1>8 DEF found
  <2>. HIDE DEF t
  <2>. QED  BY <2>1, <2>2
<1>. HIDE DEF q, t
<1>11. \A k \in 1..t : q + k \in 1..(q + t) /\ got[k] = ids[q + k] /\ got[k] \in Int
  <2>. SUFFICES ASSUME NEW k \in 1..t
                PROVE  q + k \in 1..(q + t) /\ got[k] = ids[q + k] /\ got[k] \in Int
    OBVIOUS
  <2>. DEFINE a == Nth(U, k)
  <2>1. a \in 1..(len - m) /\ Nth(S, q + k) = a + m /\ q + k \in 1..(q + t)
    BY <1>4, <1>5, <1>7
  <2>2. got[k] = w[a].id /\ ids[q + k] = file[Nth(S, q + k)].id
    BY <2>1
  <2>. HIDE DEF a
  <2>3. w[a] = file[m + a] /\ m + a = a + m /\ m + a \in 1..len
    BY <1>1, <1>3, <2>1
  <2>. QED  BY <1>1, <2>1, <2>2, <2>3
<1>12. \A k \in 1..(q + t) : ids[k] \in Int
  BY <1>1, <1>4, <1>7
<1>13. /\ got \in Seq(Int) /\ Len(got) = t /\ ids \in Seq(Int) /\ Len(ids) = q + t
  <2>1. got \in [1..t -> Int] /\ ids \in [1..(q + t) -> Int]
    BY <1>11, <1>12
  <2>2. t \in Nat /\ q + t \in Nat
    BY <1>5
  <2>. HIDE DEF got, ids
  <2>. QED  BY <2>1, <2>2
<1>. HIDE DEF got, ids
<1>14. F!IsSuffix(got, ids)
  <2>. DEFINE a == F!Reverse(got)
              b == F!Reverse(ids)
  <2>1. a = [i \in 1..t |-> got[(t - i) + 1]] /\ b = [i \in 1..(q + t) |-> ids[((q + t) - i) + 1]]
    <3>1. a = [i \in 1..Len(got) |-> got[(Len(got) - i) + 1]]
      BY Zenon DEF F!Reverse
    <3>2. b = [i \in 1..Len(ids) |-> ids[(Len(ids) - i) + 1]]
      BY Zenon DEF F!Reverse
    <3>. HIDE DEF a, b
    <3>3. Len(got) = t /\ Len(ids) = q + t
      BY <1>13
    <3>4. a = [i \in 1..t |-> got[(t - i) + 1]]
      BY <3>1, <3>3, Zenon
    <3>5. b = [i \in 1..(q + t) |-> ids[((q + t) - i) + 1]]
      BY <3>2, <3>3, Zenon
    <3>. QED  BY <3>4, <3>5
  <2>2. ASSUME NEW i \in 1..t PROVE a[i] = b[i] /\ a[i] \in Int
    <3>1. (t - i) + 1 \in 1..t /\ q + ((t - i) + 1) = ((q + t) - i) + 1 /\ i \in 1..(q + t)
      BY <1>5
    <3>2. got[(t - i) + 1] = ids[q + ((t - i) + 1)] /\ got[(t - i) + 1] \in Int
      BY <1>11, <3>1
    <3>3. a[i] = got[(t - i) + 1] /\ b[i] = ids[((q + t) - i) + 1]
      BY <2>1, <3>1
    <3>. HIDE DEF a, b
    <3>. QED  BY <3>1, <3>2, <3>3
  <2>3. Len(a) = t /\ Len(b) = q + t
    BY <1>5, <2>1
  <2>. HIDE DEF a, b
  <2>4. /\ SubSeq(a, 1, t) \in Seq(Int) /\ Len(SubSeq(a, 1, t)) = t
        /\ \A i \in 1..t : SubSeq(a, 1, t)[i] = a[i]
    <3>1. \A i \in 1..t : a[i] \in Int
      BY <2>2
    <3>2. /\ SubSeq(a, 1, t) \in Seq(Int)
          /\ Len(SubSeq(a, 1, t)) = IF 1 <= t THEN t - 1 + 1 ELSE 0
          /\ \A i \in 1..(t - 1 + 1) : SubSeq(a, 1, t)[i] = a[1 + i - 1]
      BY <1>5, <3>1, SubSeqProperties
    <3>. QED  BY <1>5, <3>2
  <2>5. /\ SubSeq(b, 1, t) \in Seq(Int) /\ Len(SubSeq(b, 1, t)) = t
        /\ \A i \in 1..t : SubSeq(b, 1, t)[i] = b[i]
    <3>1. \A i \in 1..t : b[i] \in Int
      BY <2>2
    <3>2. /\ SubSeq(b, 1, t) \in Seq(Int)
          /\ Len(SubSeq(b, 1, t)) = IF 1 <= t THEN t - 1 + 1 ELSE 0
          /\ \A i \in 1..(t - 1 + 1) : SubSeq(b, 1, t)[i] = b[1 + i - 1]
      BY <1>5, <3>1, SubSeqProperties
    <3>. QED  BY <1>5, <3>2
  <2>6. SubSeq(a, 1, t) = SubSeq(b, 1, t)
    <3>1. /\ SubSeq(a, 1, t) = [i \in 1..t |-> SubSeq(a, 1, t)[i]]
          /\ SubSeq(b, 1, t) = [i \in 1..t |-> SubSeq(b, 1, t)[i]]
      BY <2>4, <2>5
    <3>2. \A i \in 1..t : SubSeq(a, 1, t)[i] = SubSeq(b, 1, t)[i]
      BY <2>2, <2>4, <2>5
    <3>. QED  BY <3>1, <3>2, Zenon
  <2>7. Len(a) <= Len(b)
    BY <1>5, <2>3
  <2>. QED  BY <2>3, <2>6, <2>7 DEF F!IsSuffix, F!IsPrefix, a, b
<1>15. Len(got) <= limit
  BY <1>1, <1>2, <1>3, <1>5, <1>6, <1>13
<1>. QED  BY <1>9, <1>10, <1>14, <1>15

\* An MCP client gets the log's last readable records in the log's order: a conjunct of
\* NoStepGoesBack (jsonl.ts, mcp-server/src/tools.ts).
THEOREM ClientsGetTheLatest == PanelsSpec => F!RecordsAreTheLatest
<1>. DEFINE Latest == LET got == records'.got whole == F!Readable(file) IN
                      /\ Len(got) <= records'.limit
                      /\ got # <<>> => F!IsSuffix(got, [i \in DOMAIN whole |-> whole[i].id])
<1>1. FeedInv /\ [PanelsNext]_<<part, panelVars>> => [Latest]_records
  <2>. SUFFICES ASSUME FeedInv, [PanelsNext]_<<part, panelVars>>, records' # records PROVE Latest
    OBVIOUS
  <2>1. \E limit \in Limits : records' = [limit |-> limit, got |-> F!ReadJsonl(limit)]
    <3>1. CASE part = "feed" /\ F!Next
      <4>1. PICK limit \in Limits : F!AskLog(limit)
        BY <3>1 DEF F!Next, F!AppendStarts, F!AppendEnds, F!PartWritten, F!AppendFails, F!LogClears, F!SeedStarts, F!Poll, F!PollEnds,
           F!PollFails, F!DemoDecision, F!pageVars
      <4>. QED  BY <4>1 DEF F!AskLog
    <3>2. CASE part = "demo" /\ D!Next
      <4>1. PICK limit \in Limits : D!AskLog(limit)
        BY <3>2 DEF D!Next, D!AppendStarts, D!AppendEnds, D!PartWritten, D!AppendFails, D!LogClears, D!SeedStarts, D!Poll, D!PollEnds,
           D!PollFails, D!DemoDecision, D!pageVars
      <4>2. F!AskLog(limit)
        BY <4>1, SameAskLog
      <4>. QED  BY <4>2 DEF F!AskLog
    <3>3. ~UNCHANGED feedVars
      BY DEF feedVars
    <3>. QED  BY <3>1, <3>2, <3>3 DEF PanelsNext, CockpitRuns, ButtonRuns, OracleRuns, FeedRuns, panelVars
  <2>2. PICK limit \in Limits : records' = [limit |-> limit, got |-> F!ReadJsonl(limit)]
    BY <2>1
  <2>3. FeedTypes
    BY DEF FeedInv
  <2>. QED  BY <2>2, <2>3, LatestRecords
<1>. QED  BY <1>1, FeedInvariant, PTL DEF PanelsSpec, F!RecordsAreTheLatest
=============================================================================
