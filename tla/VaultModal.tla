----------------------------- MODULE VaultModal -----------------------------
(***************************************************************************)
(* The deposit / withdraw dialog (components/cockpit/                      *)
(* DepositWithdrawModal.tsx) on top of the wallet session: an amount is    *)
(* entered, reviewed and signed in the wallet's popup, with a 90 s timer   *)
(* racing the wallet's answer.  A popup outlives the timer and the dialog: *)
(* what the user does in it later still reaches the chain.  Amounts are in *)
(* base units; Grain of them are the 0.01 that MAX rounds to.              *)
(***************************************************************************)
EXTENDS Wallet, Sequences, FiniteSetsExt

CONSTANTS
    Tries,          \* bound: signatures asked for, 1..Tries
    Amounts,        \* what the user may type
    Grain,
    VaultShares,    \* total_shares of the vault, as last read
    Configured      \* NEXT_PUBLIC_VAULT_CONTRACT_HASH is set

ASSUME ModalAssumption ==
    /\ Tries \in Nat /\ Grain \in Nat \ {0} /\ Amounts \subseteq Nat
    /\ VaultShares \in Nat /\ Configured \in BOOLEAN

VARIABLES
    mode,           \* "deposit" or "withdraw"
    step,           \* "closed", or the dialog's step
    amount,         \* amountNum
    amountError,    \* "none", "invalid" or "exceeds"
    waits,          \* the call of connect() the review's button waits for, 0 if none
    tries,          \* the signatures asked for, in order
    shown,          \* the signature whose hash is shown (txHash), 0 if none
    added,          \* the mock overlay: balance and shares added, always equal
    reviewed        \* history: the account for whose balance the amount was let through

modalVars == <<mode, step, amount, amountError, waits, tries, shown, added, reviewed>>
vars == <<walletVars, modalVars>>

Steps == {"closed", "amount", "review", "signing", "submitted", "error"}
\* "covered" and "asReviewed" are history: did the account own the amount, and was
\* it the one reviewed, when the signature was asked for?
Try == [mode : {"deposit", "withdraw"}, amount : Nat, by : {"mock", "click"},
        account : Owners, covered : BOOLEAN, asReviewed : BOOLEAN,
        state : {"popup", "refused", "sent", "made_up"}, answered : BOOLEAN, timedOut : BOOLEAN,
        landed : BOOLEAN]
Ids == 1..Len(tries)

TypeOK ==
    /\ WalletTypeOK
    /\ mode \in {"deposit", "withdraw"} /\ step \in Steps
    /\ amount \in Nat /\ amountError \in {"none", "invalid", "exceeds"}
    /\ waits \in Calls \union {0}
    /\ tries \in Seq(Try) /\ Len(tries) <= Tries
    /\ shown \in Ids \union {0} /\ added \in Nat
    /\ reviewed \in Owners \union {NoAccount}

ModalInit ==
    /\ mode = "deposit" /\ step = "closed" /\ amount = 0 /\ amountError = "none"
    /\ waits = 0 /\ tries = <<>> /\ shown = 0 /\ added = 0
    /\ reviewed = NoAccount

Init == WalletInit /\ ModalInit

-----------------------------------------------------------------------------
\* What the dialog offers: the wallet's balance, or the shares of the whole
\* vault as the cockpit shows them, the overlay included.
Offered == IF mode = "deposit" THEN balance ELSE VaultShares + IF Mock THEN added ELSE 0

\* maxCspr.toFixed(2)
Rounded(n) == ((2 * n + Grain) \div (2 * Grain)) * Grain

Open(m) ==
    /\ mounted /\ step = "closed"
    /\ mode' = m /\ step' = "amount"
    /\ amount' = 0 /\ amountError' = "none" /\ waits' = 0 /\ shown' = 0
    /\ UNCHANGED <<walletVars, tries, added, reviewed>>

\* Typing, or the MAX button.
Enter ==
    /\ step = "amount" /\ status = "connected"
    /\ amount' \in Amounts \union {Rounded(Offered)}
    /\ amountError' = "none"
    /\ UNCHANGED <<walletVars, mode, step, waits, tries, shown, added, reviewed>>

\* handleContinue and validateAmount
Continue ==
    /\ step = "amount" /\ status = "connected"
    /\ amountError' = CASE amount = 0 -> "invalid"
                        [] amount > Offered -> "exceeds"
                        [] OTHER -> "none"
    /\ step' = IF amountError' = "none" THEN "review" ELSE step
    /\ reviewed' = IF amountError' = "none" THEN account ELSE NoAccount
    /\ UNCHANGED <<walletVars, mode, amount, waits, tries, shown, added>>

Back ==
    /\ step = "review"
    /\ step' = "amount" /\ waits' = 0 /\ reviewed' = NoAccount
    /\ UNCHANGED <<walletVars, mode, amount, amountError, tries, shown, added>>

TryAgain ==
    /\ step = "error"
    /\ step' = "review"
    /\ UNCHANGED <<walletVars, mode, amount, amountError, waits, tries, shown, added, reviewed>>

\* Escape, a click outside, the cross, "Close" and "Done": never while signing.
Close ==
    /\ step \in {"amount", "review", "error", "submitted"}
    /\ step' = "closed" /\ waits' = 0 /\ reviewed' = NoAccount
    /\ UNCHANGED <<walletVars, mode, amount, amountError, tries, shown, added>>

-----------------------------------------------------------------------------
Waiting == waits # 0 /\ calls[waits].pc \in {"wallet", "balance"}

\* handleSign without a connected wallet: it connects and returns.
SignConnects(c) ==
    /\ step = "review" /\ ~Waiting
    /\ Connect(c)
    /\ waits' = c
    /\ UNCHANGED <<mode, step, amount, amountError, tries, shown, added, reviewed>>

\* buildVaultTransaction, for the amount and the account of this moment.
Prepared == [mode |-> mode, amount |-> amount, by |-> connector, account |-> account,
             covered |-> mode = "withdraw" \/ amount <= owns[account],
             asReviewed |-> reviewed = account,
             state |-> "popup", answered |-> FALSE, timedOut |-> FALSE, landed |-> FALSE]

\* handleSign: the transaction is built and handed to the connector;
\* without a contract hash nothing is built.  The amount is that of the
\* review, whoever is connected now, and it is not checked again.
Sign ==
    /\ step = "review" /\ ~Waiting /\ status = "connected"
    /\ IF Configured
       THEN /\ Len(tries) < Tries
            /\ tries' = Append(tries, Prepared)
            /\ step' = "signing"
       ELSE step' = "error" /\ UNCHANGED tries
    /\ UNCHANGED <<walletVars, mode, amount, amountError, waits, shown, added, reviewed>>

\* The user confirms in the popup: the wallet signs and broadcasts; the mock
\* makes a hash up.
Confirm(k) ==
    /\ tries[k].state = "popup"
    /\ tries' = [tries EXCEPT ![k].state = IF tries[k].by = "click" THEN "sent" ELSE "made_up"]
    /\ UNCHANGED <<walletVars, mode, step, amount, amountError, waits, shown, added, reviewed>>

\* The chain executes a deposit: what was paid in is no longer the account's.
\* One that is not covered is refused there and moves nothing.  Withdrawals,
\* gas and the account's other transactions are left out.
Lands(k) ==
    /\ tries[k].state = "sent" /\ ~tries[k].landed /\ tries[k].mode = "deposit"
    /\ tries[k].amount <= owns[tries[k].account]
    /\ owns' = [owns EXCEPT ![tries[k].account] = @ - tries[k].amount]
    /\ tries' = [tries EXCEPT ![k].landed = TRUE]
    /\ UNCHANGED <<flag, mounted, connector, ready, status, account, balance, active, calls, leaving,
                   mode, step, amount, amountError, waits, shown, added, reviewed>>

\* addMockDeposit, addMockWithdraw
Overlay(k) ==
    CASE ~Mock -> added
      [] Mock /\ tries[k].mode = "deposit" -> added + tries[k].amount
      [] OTHER -> IF added > tries[k].amount THEN added - tries[k].amount ELSE 0

\* An answer that is awaited without the race.
Answer_Late(k) ==
    /\ tries[k].state # "popup" /\ ~tries[k].answered
    /\ tries' = [tries EXCEPT ![k].answered = TRUE]
    /\ IF tries[k].state = "refused"
       THEN step' = "error" /\ UNCHANGED <<shown, added, reviewed>>
       ELSE step' = "submitted" /\ shown' = k /\ added' = Overlay(k)
    /\ UNCHANGED <<walletVars, mode, amount, amountError, waits, reviewed>>

\* The connector's promise is resolved or rejected; after the timer nobody
\* looks at it.
Answer(k) ==
    /\ tries[k].state # "popup" /\ ~tries[k].answered
    /\ tries' = [tries EXCEPT ![k].answered = TRUE]
    /\ IF tries[k].timedOut
       THEN UNCHANGED <<step, shown, added, reviewed>>
       ELSE IF tries[k].state = "refused"
       THEN step' = "error" /\ UNCHANGED <<shown, added, reviewed>>
       ELSE step' = "submitted" /\ shown' = k /\ added' = Overlay(k)
    /\ UNCHANGED <<walletVars, mode, amount, amountError, waits, reviewed>>

\* The user cancels in the popup, or the wallet reports an error.
Refuse(k) ==
    /\ tries[k].state = "popup" /\ tries[k].by = "click"
    /\ tries' = [tries EXCEPT ![k].state = "refused"]
    /\ UNCHANGED <<walletVars, mode, step, amount, amountError, waits, shown, added, reviewed>>

SigningTimeout_None(k) == FALSE /\ tries' = [tries EXCEPT ![k].timedOut = TRUE]

\* SIGNING_TIMEOUT_MS
SigningTimeout(k) ==
    /\ ~tries[k].answered /\ ~tries[k].timedOut
    /\ tries' = [tries EXCEPT ![k].timedOut = TRUE]
    /\ step' = "error"
    /\ UNCHANGED <<walletVars, mode, amount, amountError, waits, shown, added, reviewed>>

ModalStep ==
    \/ \E m \in {"deposit", "withdraw"} : Open(m)
    \/ Enter \/ Continue \/ Back \/ TryAgain \/ Close \/ Sign
    \/ \E c \in Calls : SignConnects(c)
    \/ \E k \in Ids : Confirm(k) \/ Answer(k) \/ Refuse(k) \/ SigningTimeout(k) \/ Lands(k)

\* The header's button, or "Connect Wallet" in the dialog's first step.
ConnectButton ==
    /\ step \in {"closed", "amount"}
    /\ step = "closed" => status # "connecting"
    /\ \E c \in Calls : Connect(c)
    /\ UNCHANGED modalVars

Next ==
    /\ ModalStep \/ ConnectButton \/ (WalletStep /\ UNCHANGED modalVars)
    /\ UNCHANGED flag

Spec == Init /\ [][Next]_vars

\* Only the page's timers are certain: they are the fairness.
FairSpec ==
    /\ Spec
    /\ WalletFairness
    /\ \A k \in 1..Tries : WF_vars(k \in Ids /\ SigningTimeout(k) /\ UNCHANGED flag)

-----------------------------------------------------------------------------
(* While the dialog says "awaiting signature" exactly the last signature   *)
(* asked for is undecided and its timer has not fired; in every other step *)
(* nothing is awaited.  So a dialog is never closed over a transaction the *)
(* page still waits for, and no two popups are awaited at once.            *)
SigningIsTheLastTry ==
    {k \in Ids : ~tries[k].answered /\ ~tries[k].timedOut}
        = IF step = "signing" THEN {Len(tries)} ELSE {}

(* The hash under "Transaction Submitted" is that of the last signature    *)
(* asked for and not the late answer of one given up earlier; its          *)
(* transaction is for the amount that was reviewed.                        *)
SubmittedIsTheLastTry ==
    step = "submitted" =>
        /\ shown = Len(tries)
        /\ tries[shown].state \in {"sent", "made_up"}
        /\ tries[shown].amount = amount /\ tries[shown].mode = mode

\* A deposit the account signed earlier has been executed.
Spent(a, before) == \E j \in Ids : j < before /\ tries[j].landed /\ tries[j].account = a

(* The balance is read at connect() and the amount is checked once, before *)
(* the review (DepositWithdrawModal.tsx:69-81): a deposit the account      *)
(* cannot cover is asked for only if the account was changed after that    *)
(* check, or if an earlier deposit of it has been executed in the          *)
(* meantime.  In these two cases the page does hand such a deposit to the  *)
(* wallet; in no other, whatever the calls, the timers and the answers do. *)
UncoveredOnlyWhenStale ==
    \A k \in Ids : tries[k].mode = "deposit" =>
        /\ tries[k].amount # 0
        /\ ~tries[k].covered => ~tries[k].asReviewed \/ Spent(tries[k].account, k)

(* The mock overlay holds what submitted deposits brought in and nothing   *)
(* else: failed and abandoned ones do not count, and withdrawals never     *)
(* take it below zero.                                                     *)
OverlayFromDeposits ==
    LET submitted == {k \in Ids : /\ tries[k].mode = "deposit" /\ tries[k].state = "made_up"
                                  /\ tries[k].answered /\ ~tries[k].timedOut}
    IN added \in 0..MapThenSumSet(LAMBDA k : tries[k].amount, submitted)

(* What the dialog shows is what was signed: everything of the right kind, *)
(* the session is the chosen connector's (Wallet), the signature awaited   *)
(* and the hash shown are the last try's, a deposit beyond the balance is  *)
(* asked for in two cases only, and the mock's overlay holds submitted     *)
(* deposits only.                                                          *)
DialogIsTrue ==
    /\ TypeOK /\ ConnectedThroughChosen
    /\ SigningIsTheLastTry /\ SubmittedIsTheLastTry
    /\ UncoveredOnlyWhenStale /\ OverlayFromDeposits

(* "Awaiting signature" ends although the wallet may never answer: the     *)
(* dialog cannot be closed in this step (DESIGN.md:1015).                  *)
SigningEnds == step = "signing" ~> step # "signing"

(* Nothing holds the user: connecting ends (Wallet), and signing ends.     *)
NothingHangs == ConnectingEnds /\ SigningEnds

(* DepositWithdrawModal.tsx:681 says "Transaction Failed" and offers to    *)
(* try again: the transaction it speaks of is not on the chain.            *)
FailedIsNotSent == step = "error" => \A k \in Ids : (k = Len(tries) => tries[k].state # "sent")
=============================================================================
