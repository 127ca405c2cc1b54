------------------------------- MODULE Wallet -------------------------------
(***************************************************************************)
(* The dashboard's wallet session: the provider that keeps the state every *)
(* component sees (components/wallet/WalletProvider.tsx), the two          *)
(* connectors behind it (csprClickConnector.ts, mockConnector.ts) and the  *)
(* choice between them (selectConnector.ts).  connect() is asynchronous    *)
(* and can be called again before an earlier call has ended; each call is  *)
(* a member of Calls.                                                      *)
(***************************************************************************)
EXTENDS Integers, FiniteSets

CONSTANTS
    Flags,          \* values of NEXT_PUBLIC_USE_MOCK_WALLET: "true", "false" or "unset"
    Development,    \* NODE_ENV = "development"
    Calls,          \* bound: calls of connect() in the life of the page
    Accounts,       \* the accounts Casper Wallet may answer with
    MockAccount,    \* MOCK_ACCOUNT_HASH
    NoAccount,
    Purse           \* what each account owns when the page opens, in base units

ASSUME WalletAssumption ==
    /\ Flags \subseteq {"true", "false", "unset"} /\ Development \in BOOLEAN
    /\ MockAccount \notin Accounts /\ NoAccount \notin Accounts \union {MockAccount}
    /\ Purse \in [Accounts \union {MockAccount} -> Nat]

VARIABLES
    flag,           \* the value the page was built with
    mounted,        \* the provider's effect has run
    connector,      \* "mock" or "click"
    ready,          \* the hosted CSPR.click runtime is in the page
    status,         \* WalletState.status
    account,        \* WalletState.accountHash, while connected
    balance,        \* WalletState.balanceMotes, while connected
    active,         \* activePublicKeyHex of csprClickConnector
    calls,          \* the calls of connect()
    leaving,        \* a call of disconnect() is under way
    owns            \* what each account owns on the chain; the mock's is a constant of its own

walletVars == <<flag, mounted, connector, ready, status, account, balance, active, calls,
                leaving, owns>>

Owners == Accounts \union {MockAccount}

Mock == flag = "true" \/ (flag = "unset" /\ Development)

\* selectWalletConnector
Selected == IF ~Mock /\ ready THEN "click" ELSE "mock"

Unused == [pc |-> "unused", by |-> "mock", account |-> NoAccount]

WalletTypeOK ==
    /\ flag \in Flags /\ mounted \in BOOLEAN /\ ready \in BOOLEAN /\ leaving \in BOOLEAN
    /\ connector \in {"mock", "click"}
    /\ status \in {"disconnected", "connecting", "connected", "error"}
    /\ {account, active} \subseteq Accounts \union {MockAccount, NoAccount}
    /\ balance \in Nat /\ owns \in [Owners -> Nat]
    /\ calls \in [Calls -> [pc : {"unused", "wallet", "late", "balance", "done"},
                            by : {"mock", "click"},
                            account : Accounts \union {MockAccount, NoAccount}]]

WalletInit ==
    /\ flag \in Flags
    /\ mounted = FALSE /\ connector = "mock" /\ ready \in BOOLEAN
    /\ status = "disconnected" /\ account = NoAccount /\ balance = 0
    /\ active = NoAccount /\ leaving = FALSE
    /\ owns = Purse
    /\ calls = [c \in Calls |-> Unused]

-----------------------------------------------------------------------------
Mount ==
    /\ ~mounted
    /\ mounted' = TRUE
    /\ connector' = Selected
    /\ UNCHANGED <<ready, status, account, balance, active, calls, leaving, owns>>

\* The runtime's script may finish loading after the provider has chosen.
RuntimeLoads ==
    /\ ~ready
    /\ ready' = TRUE
    /\ UNCHANGED <<mounted, connector, status, account, balance, active, calls, leaving, owns>>

\* connect(), from the header's button or from the deposit dialog.  Only the
\* header's button is disabled while a call is under way.
Connect(c) ==
    /\ mounted /\ status # "connected"
    /\ calls[c].pc = "unused"
    /\ status' = "connecting"
    /\ account' = NoAccount /\ balance' = 0
    /\ calls' = [calls EXCEPT ![c] = [pc |-> "wallet", by |-> connector, account |-> NoAccount]]
    /\ UNCHANGED <<mounted, connector, ready, active, leaving, owns>>

\* The user approves.  The answer of a call that has timed out still becomes
\* the connector's active key.
Approve(c) ==
    /\ calls[c].pc \in {"wallet", "late"}
    /\ \E a \in IF calls[c].by = "mock" THEN {MockAccount} ELSE Accounts :
        /\ calls' = [calls EXCEPT ![c] = [pc |-> IF calls[c].pc = "late" THEN "done" ELSE "balance",
                                          by |-> calls[c].by, account |-> a]]
        /\ active' = IF calls[c].by = "click" THEN a ELSE active
    /\ UNCHANGED <<mounted, connector, ready, status, account, balance, leaving, owns>>

Fail(c, next) ==
    /\ status' = "error"
    /\ account' = NoAccount /\ balance' = 0
    /\ calls' = [calls EXCEPT ![c].pc = next]
    /\ UNCHANGED <<mounted, connector, ready, active, leaving, owns>>

Decline(c) ==
    /\ calls[c].by = "click"
    /\ \/ calls[c].pc = "wallet" /\ Fail(c, "done")
       \/ /\ calls[c].pc = "late"
          /\ calls' = [calls EXCEPT ![c].pc = "done"]
          /\ UNCHANGED <<mounted, connector, ready, status, account, balance, active, leaving, owns>>

\* CONNECT_TIMEOUT_MS
ConnectTimeout(c) ==
    calls[c].by = "click" /\ calls[c].pc = "wallet" /\ Fail(c, "late")

\* getBalance answers 0 for an account whose balance it cannot read.  The
\* balance is read here, at connect(), and nowhere else.
BalanceRead(c) ==
    /\ calls[c].pc = "balance"
    /\ status' = "connected"
    /\ account' = calls[c].account
    /\ balance' \in {owns[calls[c].account]} \union IF calls[c].by = "click" THEN {0} ELSE {}
    /\ calls' = [calls EXCEPT ![c].pc = "done"]
    /\ UNCHANGED <<mounted, connector, ready, active, leaving, owns>>

Leave ==
    /\ status = "connected" /\ ~leaving
    /\ leaving' = TRUE
    /\ UNCHANGED <<mounted, connector, ready, status, account, balance, active, calls, owns>>

\* disconnect() returns; a connect() under way goes on.
Left ==
    /\ leaving
    /\ leaving' = FALSE
    /\ status' = "disconnected"
    /\ account' = NoAccount /\ balance' = 0
    /\ active' = IF connector = "click" THEN NoAccount ELSE active
    /\ UNCHANGED <<mounted, connector, ready, calls, owns>>

\* The runtime refuses to disconnect: the state stays as it is.
LeaveFails ==
    /\ leaving /\ connector = "click"
    /\ leaving' = FALSE
    /\ UNCHANGED <<mounted, connector, ready, status, account, balance, active, calls, owns>>

WalletStep ==
    \/ Mount \/ RuntimeLoads \/ Leave \/ Left \/ LeaveFails
    \/ \E c \in Calls : Approve(c) \/ Decline(c) \/ ConnectTimeout(c) \/ BalanceRead(c)

\* The page's own timers fire, and a balance is read or given up on (8 s).
\* Nobody promises that the wallet's user answers.
WalletFairness ==
    \A c \in Calls :
        /\ WF_walletVars(ConnectTimeout(c) /\ UNCHANGED flag)
        /\ WF_walletVars(calls[c].by = "mock" /\ Approve(c) /\ UNCHANGED flag)
        /\ WF_walletVars(BalanceRead(c) /\ UNCHANGED flag)

-----------------------------------------------------------------------------
(* Every account the page shows as connected was answered by the connector *)
(* the page has chosen: with the wallet extension nobody is shown the mock *)
(* account, and the mock never speaks for a real one.                      *)
ConnectedThroughChosen ==
    status = "connected" =>
        IF connector = "mock" THEN account = MockAccount ELSE account \in Accounts

(* connect() comes to an end even if the wallet's popup is never answered. *)
ConnectingEnds == status = "connecting" ~> status # "connecting"
=============================================================================
