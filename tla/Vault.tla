------------------------------- MODULE Vault -------------------------------
(***************************************************************************)
(* The vault contract (contracts/aegis-contracts/src/vault.rs): CSPR goes  *)
(* in, AEGIS shares come out, and back.  The CEP-18 share token is inlined *)
(* as `balances` and `supply`; the contract's main purse is `purse`.       *)
(*                                                                         *)
(* A contract call is one transaction: it either runs to its end or        *)
(* reverts, and a revert undoes everything, the attached value included.   *)
(* So each entry point is one action, guarded by the conjunction of the    *)
(* checks that would revert it, and a reverted call is a stuttering step.  *)
(***************************************************************************)
EXTENDS Integers, FiniteSets, Sequences, Functions

CONSTANTS
    Accounts,           \* accounts somebody holds the key of
    Owner,              \* the account passed to init
    Burn,               \* the all-zero account hash, which nobody can sign for
    MinimumLiquidity,   \* MINIMUM_LIQUIDITY
    TotalBps,           \* TOTAL_BPS
    MaxU256,            \* largest U256
    MaxU32,             \* largest u32
    MaxMotes,           \* all the CSPR in existence, in motes
    Weights,            \* the u32 weights callers of reallocate may use
    MaxAssets,          \* bound: longest allocation vector explored
    MaxBlockTime        \* bound: last block time explored

Holders == Accounts \cup {Burn}

ASSUME AccountsAssumption ==
    /\ IsFiniteSet(Accounts)
    /\ Owner \in Accounts
    /\ Burn \notin Accounts

ASSUME NumbersAssumption ==
    /\ MinimumLiquidity \in Nat \ {0}
    /\ TotalBps \in Nat \ {0}
    /\ MaxU256 \in Nat
    /\ MaxMotes \in Nat
    /\ MaxU32 \in Nat
    /\ TotalBps < MaxU32
    /\ Weights \subseteq 0 .. MaxU32
    /\ MaxAssets \in Nat
    /\ MaxBlockTime \in Nat

VARIABLES
    purse,              \* env().self_balance(), in motes
    supply,             \* shares.total_supply()
    balances,           \* shares.balance_of(_)
    paused,
    agent,
    allocation,         \* the weights, in the order reallocate got them
    lastReallocationTs,
    blockTime           \* the block time the next transaction will see

funds  == <<purse, supply, balances>>
policy == <<allocation, lastReallocationTs>>
vars   == <<purse, supply, balances, paused, agent, allocation,
            lastReallocationTs, blockTime>>

AllocationVectors == UNION {[1 .. n -> Weights] : n \in 0 .. MaxAssets}

\* One token per share outstanding: the CEP-18 balances, counted.
ShareUnits(b) == UNION {{x} \X (1 .. b[x]) : x \in Holders}

-----------------------------------------------------------------------------
(* Share arithmetic.                                                       *)

IsFirstDeposit == supply = 0 \/ purse = 0

\* Slips of the share arithmetic: the checks must notice each of them.
SharesFor_MinimumNotTaken(amount) ==
    IF IsFirstDeposit THEN amount ELSE (amount * supply) \div purse
SharesFor_LockedOnTop(amount) ==
    IF IsFirstDeposit THEN amount - MinimumLiquidity
                      ELSE (amount * (supply + MinimumLiquidity)) \div purse
SharesLocked_EveryTime == MinimumLiquidity
MotesOut_OfUserShares(shares) == (shares * purse) \div (supply - MinimumLiquidity)
MotesOut_AfterBurn(shares) == (shares * purse) \div (supply - shares)

\* Shares the depositor of `amount` receives, the locked ones not counted.
SharesFor(amount) ==
    IF IsFirstDeposit THEN amount - MinimumLiquidity
                      ELSE (amount * supply) \div purse

SharesLocked == IF IsFirstDeposit THEN MinimumLiquidity ELSE 0

\* Motes paid for burning `shares`.
MotesOut(shares) == (shares * purse) \div supply

\* The checked conversions and products that end in VaultError::MathError.
DepositMathError(amount) ==
    \/ amount > MaxU256
    \/ ~IsFirstDeposit /\ (purse > MaxU256 \/ amount * supply > MaxU256)

WithdrawMathError(shares) == purse > MaxU256 \/ shares * purse > MaxU256

\* raw_mint adds with a checked U256 addition, to the supply and to a balance.
MintFits(shares) == supply + shares <= MaxU256

\* Every check of deposit, in the code's order.
DepositAccepted(amount) ==
    /\ ~paused
    /\ amount # 0
    /\ ~DepositMathError(amount)
    /\ SharesFor(amount) > 0
    /\ MintFits(SharesFor(amount) + SharesLocked)

\* Slip: the caller's own balance is not looked at.
WithdrawAccepted_AnyShares(caller, shares) ==
    ~paused /\ shares # 0 /\ supply # 0 /\ ~WithdrawMathError(shares)
            /\ MotesOut(shares) <= purse

\* Every check of withdraw, in the code's order.
WithdrawAccepted(caller, shares) ==
    /\ ~paused
    /\ shares # 0
    /\ shares <= balances[caller]
    /\ supply # 0
    /\ ~WithdrawMathError(shares)
    /\ MotesOut(shares) <= purse

\* Slip: wrapping_add in place of saturating_add.
SaturatingSum_Wrapping(weights) == SumFunction(weights) % (MaxU32 + 1)

\* fold with saturating_add
SaturatingSum(weights) ==
    FoldFunction(LAMBDA w, acc : IF acc + w > MaxU32 THEN MaxU32 ELSE acc + w,
                 0, weights)

-----------------------------------------------------------------------------
Init ==
    /\ purse = 0
    /\ supply = 0
    /\ balances = [x \in Holders |-> 0]
    /\ paused = FALSE
    /\ agent = Owner
    /\ allocation = << >>
    /\ lastReallocationTs = 0
    /\ blockTime \in 1 .. MaxBlockTime

\* Slip: the locked shares enter the supply and no balance.
Deposit_LockedNotMinted(caller, amount) ==
    /\ DepositAccepted(amount)
    /\ purse' = purse + amount
    /\ supply' = supply + SharesFor(amount) + SharesLocked
    /\ balances' = [balances EXCEPT ![caller] = @ + SharesFor(amount)]
    /\ UNCHANGED <<paused, agent, policy, blockTime>>

Deposit(caller, amount) ==
    /\ DepositAccepted(amount)
    /\ purse' = purse + amount
    /\ supply' = supply + SharesFor(amount) + SharesLocked
    /\ balances' = [balances EXCEPT ![Burn] = @ + SharesLocked,
                                    ![caller] = @ + SharesFor(amount)]
    /\ UNCHANGED <<paused, agent, policy, blockTime>>

\* raw_burn, then one transfer out of the purse.
Withdraw(caller, shares) ==
    /\ WithdrawAccepted(caller, shares)
    /\ purse' = purse - MotesOut(shares)
    /\ supply' = supply - shares
    /\ balances' = [balances EXCEPT ![caller] = @ - shares]
    /\ UNCHANGED <<paused, agent, policy, blockTime>>

Reallocate(caller, weights) ==
    /\ ~paused
    /\ caller = agent
    /\ SaturatingSum(weights) = TotalBps
    /\ allocation' = weights
    /\ lastReallocationTs' = blockTime
    /\ UNCHANGED <<funds, paused, agent, blockTime>>

Pause(caller) ==
    /\ caller = Owner
    /\ paused' = TRUE
    /\ UNCHANGED <<funds, agent, policy, blockTime>>

Unpause(caller) ==
    /\ caller = Owner
    /\ paused' = FALSE
    /\ UNCHANGED <<funds, agent, policy, blockTime>>

SetAgent(caller, newAgent) ==
    /\ caller = Owner
    /\ agent' = newAgent
    /\ UNCHANGED <<funds, paused, policy, blockTime>>

\* The chain moves on; nothing in the contract does.
NextBlock ==
    /\ blockTime < MaxBlockTime
    /\ blockTime' = blockTime + 1
    /\ UNCHANGED <<funds, paused, agent, policy>>

Next ==
    \/ \E c \in Accounts :
         \/ \E amount \in 0 .. (MaxMotes - purse) : Deposit(c, amount)
         \/ \E shares \in 0 .. supply : Withdraw(c, shares)
         \/ \E weights \in AllocationVectors : Reallocate(c, weights)
         \/ Pause(c)
         \/ Unpause(c)
         \/ \E a \in Holders : SetAgent(c, a)
    \/ NextBlock

Spec == Init /\ [][Next]_vars

-----------------------------------------------------------------------------
(* Properties.                                                             *)

\* Amounts are natural numbers no subtraction has taken below zero, the purse
\* holds no more than there is, and the agent is some address.
TypeOK ==
    /\ purse \in 0 .. MaxMotes
    /\ supply \in Nat
    /\ balances \in [Holders -> Nat]
    /\ paused \in BOOLEAN
    /\ agent \in Holders
    /\ allocation \in AllocationVectors
    /\ lastReallocationTs \in Nat
    /\ blockTime \in Nat

\* The token supply is the sum of what the holders have: deposit mints to two
\* addresses on its first run, to one later, and withdraw burns from one.
SupplyIsSharesOutstanding == supply = Cardinality(ShareUnits(balances))

\* The locked shares are minted by exactly one deposit in the vault's life and
\* stay: the first-deposit branch, taken when either total is zero, never runs
\* again, whatever withdrawals empty (SEC-02).
LockedOnce == balances[Burn] = IF supply = 0 THEN 0 ELSE MinimumLiquidity

\* Every share is backed by exactly one mote, and no mote lies in a vault without
\* shares: the two ratios of the code, shares per mote on the way in and motes per
\* share on the way out, never drift apart, however calls are mixed.  Custody and
\* accounting cannot diverge (SEC-01), and the purse of a vault with shares is
\* never zero again, so the first-deposit branch stays closed (SEC-02).
EveryShareBacked == purse = supply

\* Any two amounts there can be have a product that fits a U256.
WidthsSuffice == MaxMotes * MaxMotes <= MaxU256

\* Nobody is locked in: while the vault is not paused every holder can withdraw
\* any part of what they hold, and gets a mote a share.  So neither MathError nor
\* InsufficientBalance, which VaultError calls unreachable, ends a withdrawal of
\* shares the caller has (SEC-01).
ExitOpen ==
    WidthsSuffice /\ ~paused =>
               \A x \in Accounts : \A s \in 1 .. balances[x] :
                   WithdrawAccepted(x, s) /\ MotesOut(s) = s

\* A deposit into a vault that is not paused is refused only for being, the first
\* time, no more than the locked minimum: never as too small for a share
\* (ZeroDeposit), never with MathError.
DepositOpen ==
    WidthsSuffice /\ ~paused =>
               \A amount \in 1 .. (MaxMotes - purse) :
                   \/ DepositAccepted(amount)
                   \/ supply = 0 /\ amount <= MinimumLiquidity

\* An allocation in force weighs exactly TotalBps, counted without the width of
\* a u32: no vector gets in because its sum wrapped or stopped at the limit.
AllocationSumsToTotal ==
    allocation = << >> \/ SumFunction(allocation) = TotalBps

\* Motes `x` would get for all it holds.
ValueOf(x) == IF supply = 0 THEN 0 ELSE MotesOut(balances[x])

\* No call of somebody else takes value from a holder: whose balance a step
\* leaves alone can redeem it for no less afterwards.
NobodyDiluted ==
    [][\A x \in Holders : balances'[x] = balances[x] => ValueOf(x)' >= ValueOf(x)]_vars

\* A deposit cannot be turned round at a profit: the shares it minted are worth,
\* right after it, no more than it paid.
NoRoundTripProfit ==
    [][\A x \in Accounts :
          balances'[x] > balances[x] =>
              ((balances'[x] - balances[x]) * purse') \div supply' <= purse' - purse]_vars

\* The vault is a share fund: every accepted call is a step of ShareFund or
\* leaves the money alone.
Fund == INSTANCE ShareFund WITH Members <- Accounts, Reserve <- Burn,
            assets <- purse, total <- supply, stakes <- balances
ImplementsShareFund == Fund!Spec
=============================================================================
