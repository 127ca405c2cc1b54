---------------------------- MODULE VaultProofs ----------------------------
(***************************************************************************)
(* Theorems about Vault, for every set of accounts and every value of the  *)
(* numeric constants.                                                      *)
(***************************************************************************)
EXTENDS Vault, FoldFacts

-----------------------------------------------------------------------------
(* Counting shares.                                                        *)

UnitsOf(b, x) == {x} \X (1 .. b[x])

LEMMA UnitsOfCount ==
    ASSUME NEW b \in [Holders -> Nat], NEW x \in Holders
    PROVE  IsFiniteSet(UnitsOf(b, x)) /\ Cardinality(UnitsOf(b, x)) = b[x]
<1>1. IsFiniteSet({x}) /\ Cardinality({x}) = 1
  BY FS_Singleton
<1>2. IsFiniteSet(1 .. b[x]) /\ Cardinality(1 .. b[x]) = b[x]
  <2>1. b[x] \in Nat
    OBVIOUS
  <2>. QED  BY <2>1, FS_Interval
<1>3. /\ IsFiniteSet({x} \X (1 .. b[x]))
      /\ Cardinality({x} \X (1 .. b[x])) = Cardinality({x}) * Cardinality(1 .. b[x])
  BY <1>1, <1>2, FS_Product
<1>. QED  BY <1>1, <1>2, <1>3 DEF UnitsOf

LEMMA HoldersFinite == IsFiniteSet(Holders)
BY AccountsAssumption, FS_AddElement DEF Holders

LEMMA ShareUnitsFinite ==
    ASSUME NEW b \in [Holders -> Nat]
    PROVE  IsFiniteSet(ShareUnits(b)) /\ Cardinality(ShareUnits(b)) \in Nat
<1>. DEFINE U == [x \in Holders |-> UnitsOf(b, x)]
            R == {UnitsOf(b, x) : x \in Holders}
<1>1. U \in Surjection(Holders, R)
  BY DEF Surjection
<1>2. IsFiniteSet(R)
  BY <1>1, HoldersFinite, FS_Surjection
<1>3. \A T \in R : IsFiniteSet(T)
  BY UnitsOfCount
<1>4. IsFiniteSet(UNION R)
  BY <1>2, <1>3, FS_UNION
<1>5. ShareUnits(b) = UNION R
  BY DEF ShareUnits, UnitsOf
<1>. QED  BY <1>4, <1>5, FS_CardinalityType

\* Two holders together have no more than there is.
LEMMA TwoHoldersFit ==
    ASSUME NEW b \in [Holders -> Nat], NEW x \in Holders, NEW y \in Holders, x # y
    PROVE  b[x] + b[y] <= Cardinality(ShareUnits(b))
<1>. DEFINE X == UnitsOf(b, x)
            Y == UnitsOf(b, y)
<1>1. /\ IsFiniteSet(X) /\ Cardinality(X) = b[x]
      /\ IsFiniteSet(Y) /\ Cardinality(Y) = b[y]
  BY UnitsOfCount
<1>2. X \cap Y = {}
  BY DEF UnitsOf
<1>3. Cardinality(X \cup Y) = b[x] + b[y]
  <2>1. Cardinality(X \cup Y) = Cardinality(X) + Cardinality(Y) - Cardinality(X \cap Y)
    BY <1>1, FS_Union
  <2>2. Cardinality(X \cap Y) = 0
    BY <1>2, FS_EmptySet
  <2>. QED  BY <1>1, <2>1, <2>2
<1>4. X \cup Y \in SUBSET ShareUnits(b)
  BY DEF ShareUnits, UnitsOf
<1>5. Cardinality(X \cup Y) <= Cardinality(ShareUnits(b))
  BY <1>4, ShareUnitsFinite, FS_Subset
<1>. QED  BY <1>3, <1>5

\* Changing one holding changes the count by the difference.
LEMMA OneHoldingChanges ==
    ASSUME NEW b \in [Holders -> Nat], NEW x \in Holders, NEW n \in Nat
    PROVE  Cardinality(ShareUnits([b EXCEPT ![x] = n]))
               = Cardinality(ShareUnits(b)) - b[x] + n
<1>. DEFINE c    == [b EXCEPT ![x] = n]
            Rest == ShareUnits(b) \ UnitsOf(b, x)
<1>0. c \in [Holders -> Nat] /\ c[x] = n
  OBVIOUS
<1>1. IsFiniteSet(ShareUnits(b)) /\ Cardinality(ShareUnits(b)) \in Nat
  BY ShareUnitsFinite
<1>2. /\ IsFiniteSet(UnitsOf(b, x)) /\ Cardinality(UnitsOf(b, x)) = b[x]
      /\ IsFiniteSet(UnitsOf(c, x)) /\ Cardinality(UnitsOf(c, x)) = n
  BY <1>0, UnitsOfCount
<1>3. IsFiniteSet(Rest) /\ Cardinality(Rest) = Cardinality(ShareUnits(b)) - b[x]
  <2>1. ShareUnits(b) \cap UnitsOf(b, x) = UnitsOf(b, x)
    BY DEF ShareUnits, UnitsOf
  <2>2. /\ IsFiniteSet(Rest)
        /\ Cardinality(Rest) = Cardinality(ShareUnits(b))
                                - Cardinality(ShareUnits(b) \cap UnitsOf(b, x))
    BY <1>1, FS_Difference
  <2>. QED  BY <2>1, <2>2, <1>2
<1>4. Rest \cap UnitsOf(c, x) = {}
  <2>1. \A u \in Rest : u[1] # x
    BY DEF ShareUnits, UnitsOf
  <2>. QED  BY <2>1 DEF UnitsOf
<1>5. ShareUnits(c) = Rest \cup UnitsOf(c, x)
  <2>1. \A y \in Holders : y # x => UnitsOf(c, y) = UnitsOf(b, y)
    BY DEF UnitsOf
  <2>2. ShareUnits(c) = UNION {UnitsOf(c, y) : y \in Holders}
    BY DEF ShareUnits, UnitsOf
  <2>3. ShareUnits(b) = UNION {UnitsOf(b, y) : y \in Holders}
    BY DEF ShareUnits, UnitsOf
  <2>4. \A y \in Holders : y # x => UnitsOf(b, y) \cap UnitsOf(b, x) = {}
    BY DEF UnitsOf
  <2>. HIDE DEF c
  <2>. QED  BY <2>1, <2>2, <2>3, <2>4
<1>6. Cardinality(Rest \cup UnitsOf(c, x))
          = Cardinality(Rest) + Cardinality(UnitsOf(c, x)) - Cardinality(Rest \cap UnitsOf(c, x))
  BY <1>2, <1>3, FS_Union
<1>7. Cardinality(Rest \cap UnitsOf(c, x)) = 0
  BY <1>4, FS_EmptySet
<1>8. b[x] \in Nat
  OBVIOUS
<1>9. Cardinality(ShareUnits(c)) = Cardinality(ShareUnits(b)) - b[x] + n
  <2>. HIDE DEF c, Rest
  <2>1. Cardinality(ShareUnits(c)) = Cardinality(Rest \cup UnitsOf(c, x))
    BY <1>5
  <2>2. Cardinality(ShareUnits(c)) = (Cardinality(ShareUnits(b)) - b[x]) + n - 0
    BY <2>1, <1>6, <1>7, <1>3, <1>2
  <2>. QED  BY <2>2, <1>1, <1>8
<1>. QED  BY <1>9

-----------------------------------------------------------------------------
(* Products and quotients of amounts.                                      *)

LEMMA DivBounds ==
    ASSUME NEW a \in Nat, NEW b \in Nat, b > 0
    PROVE  /\ a \div b \in Nat
           /\ (a \div b) * b <= a
           /\ a < ((a \div b) + 1) * b
BY SMT

LEMMA TimesNat ==
    ASSUME NEW x \in Nat, NEW y \in Nat
    PROVE  x * y \in Nat /\ 0 * x = 0 /\ x * 0 = 0
BY SMT

LEMMA Difference ==
    ASSUME NEW x \in Nat, NEW y \in Nat, x - y > 0
    PROVE  /\ x - y \in Nat /\ x = y + (x - y)
           /\ \A z \in Nat : ~(z - (x - y) > z)
BY SMT

LEMMA TimesMonotone ==
    ASSUME NEW x \in Nat, NEW y \in Nat, NEW k \in Nat, x <= y
    PROVE  x * k <= y * k /\ k * x <= k * y
BY SMT

LEMMA TimesCancel ==
    ASSUME NEW x \in Int, NEW y \in Int, NEW k \in Nat, k > 0, x * k <= y * k
    PROVE  x <= y
BY SMT

\* At one mote a share, an amount is worth its own number.
LEMMA ExactQuotient ==
    ASSUME NEW a \in Nat, NEW T \in Nat, T > 0
    PROVE  (a * T) \div T = a
<1>. DEFINE q == (a * T) \div T
<1>1. a * T \in Nat
  BY TimesNat
<1>2. q \in Nat /\ q * T <= a * T /\ a * T < (q + 1) * T
  BY <1>1, DivBounds
<1>. HIDE DEF q
<1>3. q <= a
  BY <1>2, TimesCancel
<1>4. CASE q + 1 <= a
  <2>1. (q + 1) * T <= a * T
    BY <1>2, <1>4, TimesMonotone
  <2>2. (q + 1) * T \in Nat
    BY <1>2, TimesNat
  <2>. QED  BY <2>1, <2>2, <1>1, <1>2
<1>. QED  BY <1>2, <1>3, <1>4 DEF q

\* A deposit into a fund whose shares are backed mints no more shares than motes.
LEMMA SharesAtMostMotes ==
    ASSUME NEW B \in Nat, NEW T \in Nat, B > 0, T <= B, NEW a \in Nat
    PROVE  (a * T) \div B <= a
<1>. DEFINE s == (a * T) \div B
<1>1. a * T \in Nat
  BY SMT
<1>2. s \in Nat /\ s * B <= a * T
  BY <1>1, DivBounds
<1>3. a * T <= a * B
  BY TimesMonotone
<1>4. s * B <= a * B
  <2>. HIDE DEF s
  <2>. QED  BY <1>1, <1>2, <1>3
<1>. HIDE DEF s
<1>5. s <= a
  BY <1>2, <1>4, TimesCancel
<1>. QED  BY <1>5 DEF s

\* A holding of `h` shares is worth no less once the price per share has not
\* fallen, rounding down before and after.
LEMMA ValueFollowsPrice ==
    ASSUME NEW h \in Nat, NEW B \in Nat, NEW T \in Nat, T > 0,
           NEW C \in Nat, NEW U \in Nat, U > 0, B * U <= C * T
    PROVE  (h * B) \div T <= (h * C) \div U
<1>. DEFINE p == (h * B) \div T
            q == (h * C) \div U
<1>1. h * B \in Nat /\ h * C \in Nat
  BY SMT
<1>2. p \in Nat /\ p * T <= h * B
  BY <1>1, DivBounds
<1>3. q \in Nat /\ h * C < (q + 1) * U
  BY <1>1, DivBounds
<1>. HIDE DEF p, q
<1>4. (p * U) * T <= (h * C) * T
  <2>1. (p * T) * U <= (h * B) * U
    <3>1. p * T \in Nat
      BY <1>2
    <3>. QED  BY <3>1, <1>1, <1>2, TimesMonotone
  <2>2. h * (B * U) <= h * (C * T)
    <3>1. B * U \in Nat /\ C * T \in Nat
      OBVIOUS
    <3>. QED  BY <3>1, TimesMonotone
  <2>3. (p * T) * U = (p * U) * T /\ (h * B) * U = h * (B * U) /\ h * (C * T) = (h * C) * T
    BY <1>2
  <2>. QED  BY <2>1, <2>2, <2>3, <1>1, <1>2
<1>5. p * U <= h * C
  <2>1. p * U \in Int /\ h * C \in Int
    BY <1>1, <1>2
  <2>. QED  BY <2>1, <1>4, TimesCancel
<1>6. p * U < (q + 1) * U
  BY <1>1, <1>2, <1>3, <1>5
<1>7. CASE q + 1 <= p
  BY <1>2, <1>3, <1>6, <1>7, TimesMonotone
<1>. QED  BY <1>2, <1>3, <1>7 DEF p, q

-----------------------------------------------------------------------------
(* The inductive invariant.  A withdrawal keeps LockedOnce because the     *)
(* count of shares keeps the locked ones out of everybody's reach; a       *)
(* deposit keeps it because EveryShareBacked allows the first-deposit      *)
(* branch in a vault without shares only; and the count needs the types.   *)

IInv ==
    /\ TypeOK
    /\ SupplyIsSharesOutstanding
    /\ LockedOnce
    /\ EveryShareBacked

LEMMA InitInvariant == Init => IInv
<1>. SUFFICES ASSUME Init PROVE IInv
  OBVIOUS
<1>1. Owner \in Holders /\ Burn \in Holders
  BY AccountsAssumption DEF Holders
<1>2. << >> \in AllocationVectors
  <2>1. << >> \in [1 .. 0 -> Weights]
    OBVIOUS
  <2>2. 0 \in 0 .. MaxAssets
    BY NumbersAssumption
  <2>. QED  BY <2>1, <2>2 DEF AllocationVectors
<1>3. TypeOK
  <2>1. purse \in 0 .. MaxMotes /\ supply \in Nat /\ lastReallocationTs \in Nat
    BY NumbersAssumption DEF Init
  <2>2. balances \in [Holders -> Nat] /\ agent \in Holders /\ paused \in BOOLEAN
    BY <1>1 DEF Init
  <2>3. allocation \in AllocationVectors
    BY <1>2 DEF Init
  <2>4. blockTime \in Nat
    BY NumbersAssumption DEF Init
  <2>. QED  BY <2>1, <2>2, <2>3, <2>4 DEF TypeOK
<1>4. ShareUnits(balances) = {}
  <2>1. \A x \in Holders : {x} \X (1 .. balances[x]) = {}
    <3>1. \A x \in Holders : 1 .. balances[x] = {}
      BY DEF Init
    <3>. QED  BY <3>1
  <2>. QED  BY <2>1 DEF ShareUnits
<1>5. SupplyIsSharesOutstanding
  BY <1>4, FS_EmptySet DEF Init, SupplyIsSharesOutstanding
<1>6. LockedOnce /\ EveryShareBacked
  BY <1>1 DEF Init, LockedOnce, EveryShareBacked
<1>. QED  BY <1>3, <1>5, <1>6 DEF IInv

\* In a vault with shares, the caller's and the locked ones are both there.
LEMMA CallerLeavesTheLocked ==
    ASSUME IInv, supply # 0, NEW c \in Accounts
    PROVE  /\ c \in Holders /\ c # Burn /\ Burn \in Holders
           /\ balances[c] \in Nat
           /\ balances[c] + MinimumLiquidity <= supply
<1>1. c \in Holders /\ c # Burn /\ Burn \in Holders
  BY AccountsAssumption DEF Holders
<1>2. balances \in [Holders -> Nat]
  BY DEF IInv, TypeOK
<1>3. balances[c] + balances[Burn] <= supply
  BY <1>1, <1>2, TwoHoldersFit DEF IInv, SupplyIsSharesOutstanding
<1>4. balances[Burn] = MinimumLiquidity
  BY DEF IInv, LockedOnce
<1>. QED  BY <1>1, <1>2, <1>3, <1>4

LEMMA DepositKeepsInvariant ==
    ASSUME IInv, NEW c \in Accounts, NEW amount \in 0 .. (MaxMotes - purse),
           Deposit(c, amount)
    PROVE  IInv'
<1>. DEFINE s == SharesFor(amount)
            k == SharesLocked
            b1 == [balances EXCEPT ![Burn] = @ + k]
<1>1. /\ purse \in 0 .. MaxMotes /\ supply \in Nat /\ balances \in [Holders -> Nat]
      /\ MinimumLiquidity \in Nat \ {0} /\ MaxMotes \in Nat /\ amount \in Nat
      /\ amount + purse <= MaxMotes
  BY NumbersAssumption DEF IInv, TypeOK
<1>2. c \in Holders /\ c # Burn /\ Burn \in Holders
  BY AccountsAssumption DEF Holders
<1>3. /\ purse = supply
      /\ supply = Cardinality(ShareUnits(balances))
      /\ balances[Burn] = IF supply = 0 THEN 0 ELSE MinimumLiquidity
  BY DEF IInv, LockedOnce, EveryShareBacked, SupplyIsSharesOutstanding
<1>4. IsFirstDeposit <=> supply = 0
  BY <1>1, <1>3 DEF IsFirstDeposit
<1>5. /\ k \in Nat
      /\ s \in Nat /\ s > 0 /\ s + k = amount
      /\ supply = 0 => k = MinimumLiquidity
      /\ supply # 0 => k = 0
  <2>1. s > 0
    BY DEF Deposit, DepositAccepted
  <2>2. CASE supply = 0
    BY <2>1, <2>2, <1>1, <1>4 DEF SharesFor, SharesLocked
  <2>3. CASE supply # 0
    <3>1. s = (amount * supply) \div purse /\ k = 0
      BY <2>3, <1>4 DEF SharesFor, SharesLocked
    <3>2. purse \in Nat /\ purse > 0
      BY <2>3, <1>1, <1>3
    <3>4. s = amount
      BY <3>1, <3>2, <1>1, <1>3, ExactQuotient
    <3>. QED  BY <3>1, <3>4, <2>1, <2>3, <1>1
  <2>. QED  BY <2>2, <2>3
<1>. HIDE DEF s, k
<1>6. /\ purse' = purse + amount
      /\ supply' = supply + s + k
      /\ balances' = [balances EXCEPT ![Burn] = @ + k, ![c] = @ + s]
  BY DEF Deposit, s, k
<1>7. TypeOK'
  <2>1. purse' \in 0 .. MaxMotes /\ supply' \in Nat
    BY <1>1, <1>5, <1>6
  <2>2. balances' \in [Holders -> Nat]
    BY <1>1, <1>2, <1>5, <1>6
  <2>. QED  BY <2>1, <2>2 DEF IInv, TypeOK, Deposit, policy
<1>8. SupplyIsSharesOutstanding'
  <2>1. /\ balances[Burn] \in Nat /\ balances[c] \in Nat
        /\ balances[Burn] + k \in Nat /\ balances[c] + s \in Nat
    BY <1>1, <1>2, <1>5
  <2>2. /\ b1 \in [Holders -> Nat] /\ b1[c] = balances[c]
        /\ balances' = [b1 EXCEPT ![c] = balances[c] + s]
    BY <2>1, <1>1, <1>2, <1>6
  <2>3. Cardinality(ShareUnits(b1)) = supply - balances[Burn] + (balances[Burn] + k)
    BY <2>1, <1>1, <1>2, <1>3, OneHoldingChanges
  <2>. HIDE DEF b1
  <2>4. Cardinality(ShareUnits(balances'))
            = Cardinality(ShareUnits(b1)) - balances[c] + (balances[c] + s)
    <3>1. c \in Holders /\ b1 \in [Holders -> Nat] /\ balances[c] + s \in Nat
      BY <2>1, <2>2, <1>2
    <3>2. Cardinality(ShareUnits([b1 EXCEPT ![c] = balances[c] + s]))
              = Cardinality(ShareUnits(b1)) - b1[c] + (balances[c] + s)
      BY <3>1, OneHoldingChanges
    <3>. QED  BY <2>2, <3>2
  <2>5. Cardinality(ShareUnits(balances')) = supply + s + k
    BY <2>1, <2>3, <2>4, <1>1, <1>5
  <2>. QED  BY <2>5, <1>6 DEF SupplyIsSharesOutstanding
<1>9. LockedOnce'
  <2>1. balances'[Burn] = balances[Burn] + k
    BY <1>1, <1>2, <1>6
  <2>2. supply' # 0
    BY <1>1, <1>5, <1>6
  <2>. QED  BY <2>1, <2>2, <1>1, <1>3, <1>5 DEF LockedOnce
<1>10. EveryShareBacked'
  BY <1>1, <1>3, <1>5, <1>6 DEF EveryShareBacked
<1>. QED  BY <1>7, <1>8, <1>9, <1>10 DEF IInv

LEMMA WithdrawKeepsInvariant ==
    ASSUME IInv, NEW c \in Accounts, NEW shares \in 0 .. supply, Withdraw(c, shares)
    PROVE  IInv'
<1>. DEFINE m == MotesOut(shares)
<1>1. /\ purse \in 0 .. MaxMotes /\ supply \in Nat /\ balances \in [Holders -> Nat]
      /\ MinimumLiquidity \in Nat \ {0} /\ MaxMotes \in Nat /\ shares \in Nat
  BY NumbersAssumption DEF IInv, TypeOK
<1>2. supply # 0 /\ shares <= balances[c] /\ shares # 0
  BY DEF Withdraw, WithdrawAccepted
<1>3. /\ c \in Holders /\ c # Burn /\ Burn \in Holders /\ balances[c] \in Nat
      /\ balances[c] + MinimumLiquidity <= supply
  BY <1>2, CallerLeavesTheLocked
<1>4. /\ purse = supply
      /\ supply = Cardinality(ShareUnits(balances))
      /\ balances[Burn] = MinimumLiquidity
  BY <1>2 DEF IInv, LockedOnce, EveryShareBacked, SupplyIsSharesOutstanding
<1>5. m = shares
  <2>1. m = (shares * supply) \div supply
    BY <1>4 DEF MotesOut
  <2>. QED  BY <2>1, <1>1, <1>2, ExactQuotient
<1>. HIDE DEF m
<1>6. /\ purse' = purse - m
      /\ supply' = supply - shares
      /\ balances' = [balances EXCEPT ![c] = balances[c] - shares]
  BY DEF Withdraw, m
<1>7. supply' \in Nat /\ supply' # 0 /\ balances[c] - shares \in Nat
  BY <1>1, <1>2, <1>3, <1>6
<1>8. TypeOK'
  <2>1. purse' \in 0 .. MaxMotes
    BY <1>1, <1>3, <1>2, <1>4, <1>5, <1>6
  <2>2. balances' \in [Holders -> Nat]
    BY <1>1, <1>3, <1>6, <1>7
  <2>. QED  BY <2>1, <2>2, <1>7 DEF IInv, TypeOK, Withdraw, policy
<1>9. SupplyIsSharesOutstanding'
  <2>1. Cardinality(ShareUnits(balances')) = supply - balances[c] + (balances[c] - shares)
    BY <1>1, <1>3, <1>4, <1>6, <1>7, OneHoldingChanges
  <2>. QED  BY <2>1, <1>1, <1>3, <1>6 DEF SupplyIsSharesOutstanding
<1>10. LockedOnce'
  BY <1>1, <1>3, <1>4, <1>6, <1>7 DEF LockedOnce
<1>11. EveryShareBacked'
  BY <1>1, <1>4, <1>5, <1>6, <1>7 DEF EveryShareBacked
<1>. QED  BY <1>8, <1>9, <1>10, <1>11 DEF IInv

\* The other actions move no money and keep the rest in type.
LEMMA OthersKeepInvariant ==
    ASSUME IInv, UNCHANGED funds, TypeOK'
    PROVE  IInv'
BY DEF IInv, funds, SupplyIsSharesOutstanding, LockedOnce, EveryShareBacked

LEMMA StepKeepsInvariant == IInv /\ [Next]_vars => IInv'
<1>. SUFFICES ASSUME IInv, [Next]_vars PROVE IInv'
  OBVIOUS
<1>1. ASSUME NEW c \in Accounts, NEW amount \in 0 .. (MaxMotes - purse), Deposit(c, amount)
      PROVE  IInv'
  BY <1>1, DepositKeepsInvariant
<1>2. ASSUME NEW c \in Accounts, NEW shares \in 0 .. supply, Withdraw(c, shares)
      PROVE  IInv'
  BY <1>2, WithdrawKeepsInvariant
<1>3. ASSUME NEW c \in Accounts, NEW weights \in AllocationVectors, Reallocate(c, weights)
      PROVE  IInv'
  <2>1. TypeOK' /\ UNCHANGED funds
    BY <1>3 DEF IInv, TypeOK, Reallocate, funds
  <2>. QED  BY <2>1, OthersKeepInvariant
<1>4. ASSUME NEW c \in Accounts, Pause(c) \/ Unpause(c)
      PROVE  IInv'
  <2>1. TypeOK' /\ UNCHANGED funds
    BY <1>4 DEF IInv, TypeOK, Pause, Unpause, funds, policy
  <2>. QED  BY <2>1, OthersKeepInvariant
<1>5. ASSUME NEW c \in Accounts, NEW a \in Holders, SetAgent(c, a)
      PROVE  IInv'
  <2>1. TypeOK' /\ UNCHANGED funds
    BY <1>5 DEF IInv, TypeOK, SetAgent, funds, policy
  <2>. QED  BY <2>1, OthersKeepInvariant
<1>6. ASSUME NextBlock PROVE IInv'
  <2>1. TypeOK' /\ UNCHANGED funds
    BY <1>6 DEF IInv, TypeOK, NextBlock, funds, policy
  <2>. QED  BY <2>1, OthersKeepInvariant
<1>7. ASSUME UNCHANGED vars PROVE IInv'
  <2>1. TypeOK' /\ UNCHANGED funds
    BY <1>7 DEF IInv, TypeOK, vars, funds, policy
  <2>. QED  BY <2>1, OthersKeepInvariant
<1>. QED  BY <1>1, <1>2, <1>3, <1>4, <1>5, <1>6, <1>7 DEF Next

\* The invariant holds in every state the vault can reach.
THEOREM Invariant == Spec => []IInv
BY InitInvariant, StepKeepsInvariant, PTL DEF Spec

\* Amounts never leave their types: no subtraction of the contract underflows.
THEOREM TypeCorrect == Spec => []TypeOK
<1>1. IInv => TypeOK
  BY DEF IInv
<1>. QED  BY <1>1, Invariant, PTL

\* The token supply is always the sum of the holdings.
THEOREM SupplyCorrect == Spec => []SupplyIsSharesOutstanding
<1>1. IInv => SupplyIsSharesOutstanding
  BY DEF IInv
<1>. QED  BY <1>1, Invariant, PTL

\* The minimum liquidity is locked once and for all (SEC-02).
THEOREM LiquidityLocked == Spec => []LockedOnce
<1>1. IInv => LockedOnce
  BY DEF IInv
<1>. QED  BY <1>1, Invariant, PTL

\* Every share is backed by exactly one mote, at every moment.
THEOREM SharesBacked == Spec => []EveryShareBacked
<1>1. IInv => EveryShareBacked
  BY DEF IInv
<1>. QED  BY <1>1, Invariant, PTL

\* Who holds shares can leave, whole or in part, whenever the vault is not
\* paused: the two errors VaultError calls unreachable are unreachable.
THEOREM HoldersCanLeave == Spec => []ExitOpen
<1>1. IInv => ExitOpen
  <2>. SUFFICES ASSUME IInv, WidthsSuffice, ~paused,
                       NEW x \in Accounts, NEW s \in 1 .. balances[x]
                PROVE  WithdrawAccepted(x, s) /\ MotesOut(s) = s
    BY DEF ExitOpen
  <2>1. /\ purse \in 0 .. MaxMotes /\ supply \in Nat /\ balances \in [Holders -> Nat]
        /\ MinimumLiquidity \in Nat \ {0} /\ MaxMotes \in Nat /\ MaxU256 \in Nat
        /\ purse = supply
    BY NumbersAssumption DEF IInv, TypeOK, EveryShareBacked
  <2>2. supply # 0
    <3>1. x \in Holders
      BY DEF Holders
    <3>2. x # Burn /\ Burn \in Holders
      BY AccountsAssumption DEF Holders
    <3>3. balances[x] + balances[Burn] <= supply
      BY <2>1, <3>1, <3>2, TwoHoldersFit DEF IInv, SupplyIsSharesOutstanding
    <3>4. balances[x] \in Nat /\ balances[Burn] \in Nat
      BY <2>1, <3>1, <3>2
    <3>. QED  BY <3>3, <3>4
  <2>3. balances[x] \in Nat /\ balances[x] <= supply
    BY <2>1, <2>2, CallerLeavesTheLocked
  <2>4. s \in Nat /\ s \in 0 .. supply /\ s # 0 /\ s <= balances[x]
    BY <2>1, <2>3
  <2>5. MotesOut(s) = s /\ s <= purse
    BY <2>1, <2>2, <2>4, ExactQuotient DEF MotesOut
  <2>6. ~WithdrawMathError(s)
    <3>1. purse \in Nat /\ purse <= MaxMotes /\ s <= MaxMotes
      BY <2>1, <2>4
    <3>2. s * purse <= MaxMotes * purse /\ MaxMotes * purse <= MaxMotes * MaxMotes
      BY <3>1, <2>1, <2>4, TimesMonotone
    <3>3. s * purse <= MaxU256
      BY <3>1, <3>2, <2>1, <2>4 DEF WidthsSuffice
    <3>4. purse <= MaxU256
      <4>1. CASE purse = 0
        BY <4>1, <2>1
      <4>2. CASE purse # 0
        <5>1. 1 * purse <= s * purse
          BY <3>1, <2>4, TimesMonotone
        <5>. QED  BY <5>1, <3>1, <3>3, <2>1, <2>4
      <4>. QED  BY <4>1, <4>2
    <3>. QED  BY <3>1, <3>3, <3>4, <2>1, <2>4 DEF WithdrawMathError
  <2>. QED  BY <2>1, <2>2, <2>3, <2>4, <2>5, <2>6 DEF WithdrawAccepted
<1>. QED  BY <1>1, Invariant, PTL

-----------------------------------------------------------------------------
(* The vault implements ShareFund.                                         *)

LEMMA DepositRefines ==
    ASSUME IInv, NEW c \in Accounts, NEW amount \in 0 .. (MaxMotes - purse),
           Deposit(c, amount)
    PROVE  Fund!Found(c) \/ Fund!Join(c)
<1>1. /\ purse \in Nat /\ supply \in Nat /\ balances \in [Holders -> Nat]
      /\ MinimumLiquidity \in Nat \ {0} /\ amount \in Nat /\ amount # 0
      /\ purse >= supply
      /\ supply = 0 => purse = 0
      /\ balances[Burn] = IF supply = 0 THEN 0 ELSE MinimumLiquidity
  BY NumbersAssumption
     DEF IInv, TypeOK, LockedOnce, EveryShareBacked, Deposit, DepositAccepted
<1>2. c \in Holders /\ c # Burn /\ Burn \in Holders
  BY AccountsAssumption DEF Holders
<1>3. IsFirstDeposit <=> supply = 0
  BY <1>1 DEF IsFirstDeposit
<1>4. SharesFor(amount) > 0
  BY DEF Deposit, DepositAccepted
<1>5. CASE supply = 0
  <2>1. /\ SharesFor(amount) = amount - MinimumLiquidity
        /\ SharesLocked = MinimumLiquidity
    BY <1>3, <1>5 DEF SharesFor, SharesLocked
  <2>2. balances[c] = 0
    <3>1. balances[c] + balances[Burn] <= supply
      BY <1>1, <1>2, TwoHoldersFit DEF IInv, SupplyIsSharesOutstanding
    <3>. QED  BY <3>1, <1>1, <1>2, <1>5
  <2>3. /\ purse' = amount
        /\ supply' = amount
        /\ balances' = [balances EXCEPT ![Burn] = MinimumLiquidity,
                                        ![c] = amount - MinimumLiquidity]
    BY <2>1, <2>2, <1>1, <1>2, <1>5 DEF Deposit
  <2>4. balances'[Burn] = MinimumLiquidity /\ balances'[c] = amount - MinimumLiquidity
    BY <2>3, <1>1, <1>2
  <2>5. balances' = [balances EXCEPT ![Burn] = balances'[Burn], ![c] = balances'[c]]
    BY <2>3, <2>4
  <2>6. balances'[Burn] > 0 /\ balances'[c] > 0 /\ balances'[Burn] + balances'[c] = supply'
    BY <2>1, <2>3, <2>4, <1>1, <1>4
  <2>7. purse = 0 /\ purse' > 0 /\ supply' = purse'
    BY <2>3, <1>1, <1>5
  <2>8. Fund!Found(c)
    BY <2>5, <2>6, <2>7, <1>5 DEF Fund!Found
  <2>. QED  BY <2>8
<1>6. CASE supply # 0
  <2>. DEFINE s == (amount * supply) \div purse
  <2>1. SharesFor(amount) = s /\ SharesLocked = 0
    BY <1>3, <1>6 DEF SharesFor, SharesLocked
  <2>2. amount * supply \in Nat /\ purse > 0
    BY <1>1, <1>6
  <2>3. s \in Nat /\ s * purse <= amount * supply /\ amount * supply < (s + 1) * purse
    BY <2>2, <1>1, DivBounds
  <2>. HIDE DEF s
  <2>4. /\ purse' = purse + amount
        /\ supply' = supply + s
        /\ balances' = [balances EXCEPT ![c] = @ + s]
    <3>1. balances[Burn] + 0 = balances[Burn] /\ balances[c] \in Nat
      BY <1>1, <1>2
    <3>2. [balances EXCEPT ![Burn] = balances[Burn]] = balances
      BY <1>1, <1>2
    <3>3. balances' = [[balances EXCEPT ![Burn] = balances[Burn] + 0] EXCEPT ![c] = balances[c] + s]
      BY <2>1, <1>1, <1>2 DEF Deposit
    <3>4. balances' = [balances EXCEPT ![c] = @ + s]
      BY <3>1, <3>2, <3>3
    <3>5. purse' = purse + amount /\ supply' = supply + s
      BY <2>1, <2>3, <1>1 DEF Deposit
    <3>. QED  BY <3>4, <3>5
  <2>5. purse' - purse = amount /\ supply' - supply = s
    BY <2>3, <2>4, <1>1
  <2>6. Fund!Join(c)
    BY <2>1, <2>3, <2>4, <2>5, <1>1, <1>4, <1>6 DEF Fund!Join
  <2>. QED  BY <2>6
<1>. QED  BY <1>5, <1>6

LEMMA WithdrawRefines ==
    ASSUME IInv, NEW c \in Accounts, NEW shares \in 0 .. supply, Withdraw(c, shares)
    PROVE  Fund!Leave(c)
<1>. DEFINE m == (shares * purse) \div supply
<1>1. /\ purse \in Nat /\ supply \in Nat /\ shares \in 0 .. supply
      /\ shares \in Nat /\ shares # 0 /\ supply > 0 /\ supply <= purse
      /\ shares <= balances[c]
  BY DEF IInv, TypeOK, EveryShareBacked, Withdraw, WithdrawAccepted
<1>2. shares * purse \in Nat
  BY <1>1
<1>3. m \in Nat /\ m * supply <= shares * purse /\ shares * purse < (m + 1) * supply
  BY <1>1, <1>2, DivBounds
<1>4. shares <= m /\ m <= purse
  <2>1. purse = supply
    BY DEF IInv, EveryShareBacked
  <2>2. m = shares
    BY <2>1, <1>1, ExactQuotient
  <2>. QED  BY <2>1, <2>2, <1>1
<1>5. /\ purse' = purse - m
      /\ supply' = supply - shares
      /\ balances' = [balances EXCEPT ![c] = @ - shares]
  BY DEF Withdraw, MotesOut
<1>. HIDE DEF m
<1>6. supply - supply' = shares /\ purse - purse' = m
  BY <1>1, <1>3, <1>5
<1>. QED  BY <1>1, <1>3, <1>4, <1>5, <1>6 DEF Fund!Leave

LEMMA StepsAreFundSteps == IInv /\ [Next]_vars => [Fund!Next]_(Fund!fund)
<1>. SUFFICES ASSUME IInv, [Next]_vars PROVE [Fund!Next]_(Fund!fund)
    OBVIOUS
<1>1. ASSUME NEW c \in Accounts, NEW amount \in 0 .. (MaxMotes - purse),
               Deposit(c, amount)
        PROVE  Fund!Next
    BY <1>1, DepositRefines DEF Fund!Next
<1>2. ASSUME NEW c \in Accounts, NEW shares \in 0 .. supply, Withdraw(c, shares)
        PROVE  Fund!Next
    BY <1>2, WithdrawRefines DEF Fund!Next
<1>3. CASE \E c \in Accounts :
                \/ \E weights \in AllocationVectors : Reallocate(c, weights)
                \/ Pause(c)
                \/ Unpause(c)
                \/ \E a \in Holders : SetAgent(c, a)
    BY <1>3 DEF Reallocate, Pause, Unpause, SetAgent, funds, Fund!fund
<1>4. CASE NextBlock \/ UNCHANGED vars
    BY <1>4 DEF NextBlock, vars, funds, Fund!fund
<1>. QED  BY <1>1, <1>2, <1>3, <1>4 DEF Next

\* Whatever the vault does, its money moves as a share fund's or not at all.
THEOREM VaultIsShareFund == Spec => ImplementsShareFund
<1>1. Init => Fund!Init
  BY DEF Init, Fund!Init, Holders
<1>. QED  BY <1>1, StepsAreFundSteps, Invariant, PTL DEF Spec, ImplementsShareFund, Fund!Spec

-----------------------------------------------------------------------------
(* What a step does to the value of a holding.                             *)

\* The price of a share, purse / supply, never falls.
LEMMA PriceNeverFalls ==
    ASSUME IInv, IInv', [Fund!Next]_(Fund!fund)
    PROVE  purse * supply' <= purse' * supply
<1>1. /\ purse \in Nat /\ supply \in Nat /\ purse' \in Nat /\ supply' \in Nat
      /\ balances \in [Holders -> Nat]
  BY NumbersAssumption DEF IInv, TypeOK
<1>2. ASSUME NEW m \in Accounts, Fund!Found(m)
      PROVE  purse * supply' <= purse' * supply
  <2>1. purse = 0 /\ supply = 0
    BY <1>2 DEF Fund!Found
  <2>2. 0 * supply' = 0 /\ purse' * 0 = 0
    BY <1>1, TimesNat
  <2>. QED  BY <2>1, <2>2
<1>3. ASSUME NEW m \in Accounts, Fund!Join(m)
      PROVE  purse * supply' <= purse' * supply
  <2>1. (supply' - supply) * purse <= (purse' - purse) * supply
    BY <1>3 DEF Fund!Join
  <2>. DEFINE a == purse * supply'
              b == purse' * supply
              p == purse * supply
  <2>2. /\ (supply' - supply) * purse = a - p
        /\ (purse' - purse) * supply = b - p
    BY <1>1
  <2>3. a \in Nat /\ b \in Nat /\ p \in Nat
    BY <1>1, TimesNat
  <2>4. a - p <= b - p
    BY <2>1, <2>2
  <2>5. a <= b
    <3>. HIDE DEF a, b, p
    <3>. QED  BY <2>3, <2>4
  <2>. QED  BY <2>5
<1>4. ASSUME NEW m \in Accounts, Fund!Leave(m)
      PROVE  purse * supply' <= purse' * supply
  <2>1. (purse - purse') * supply <= (supply - supply') * purse
    BY <1>4 DEF Fund!Leave
  <2>. DEFINE a == purse * supply'
              b == purse' * supply
              p == purse * supply
  <2>2. /\ (supply - supply') * purse = p - a
        /\ (purse - purse') * supply = p - b
    BY <1>1
  <2>3. a \in Nat /\ b \in Nat /\ p \in Nat
    BY <1>1, TimesNat
  <2>4. p - b <= p - a
    BY <2>1, <2>2
  <2>5. a <= b
    <3>. HIDE DEF a, b, p
    <3>. QED  BY <2>3, <2>4
  <2>. QED  BY <2>5
<1>5. CASE UNCHANGED Fund!fund
  BY <1>5, <1>1 DEF Fund!fund
<1>. QED  BY <1>2, <1>3, <1>4, <1>5 DEF Fund!Next

\* The supply does not come back to zero.
LEMMA SharesStay ==
    ASSUME IInv, IInv', [Fund!Next]_(Fund!fund), supply # 0
    PROVE  supply' # 0
<1>1. /\ supply \in Nat /\ supply' \in Nat /\ balances \in [Holders -> Nat]
      /\ balances[Burn] = MinimumLiquidity /\ MinimumLiquidity > 0
      /\ supply' = 0 => balances'[Burn] = 0
  BY NumbersAssumption DEF IInv, TypeOK, LockedOnce
<1>2. ASSUME NEW m \in Accounts, Fund!Join(m) \/ Fund!Leave(m)
      PROVE  balances'[Burn] = balances[Burn]
  <2>1. m \in Holders /\ m # Burn /\ Burn \in Holders
    BY AccountsAssumption DEF Holders
  <2>. QED  BY <1>1, <1>2, <2>1 DEF Fund!Join, Fund!Leave
<1>3. ASSUME NEW m \in Accounts, Fund!Found(m) PROVE FALSE
  BY <1>3 DEF Fund!Found
<1>4. CASE UNCHANGED Fund!fund
  BY <1>4 DEF Fund!fund
<1>. QED  BY <1>1, <1>2, <1>3, <1>4 DEF Fund!Next

\* No call of somebody else takes value from a holder.
THEOREM HoldersNotDiluted == Spec => NobodyDiluted
<1>1. IInv /\ IInv' /\ [Next]_vars =>
          \A x \in Holders : balances'[x] = balances[x] => ValueOf(x)' >= ValueOf(x)
  <2>. SUFFICES ASSUME IInv, IInv', [Next]_vars,
                       NEW x \in Holders, balances'[x] = balances[x]
                PROVE  ValueOf(x)' >= ValueOf(x)
    OBVIOUS
  <2>1. /\ purse \in Nat /\ supply \in Nat /\ balances \in [Holders -> Nat]
        /\ purse' \in Nat /\ supply' \in Nat /\ balances' \in [Holders -> Nat]
        /\ (supply > 0 => purse > 0) /\ supply' <= purse'
    BY NumbersAssumption DEF IInv, TypeOK, EveryShareBacked
  <2>2. purse * supply' <= purse' * supply
    BY StepsAreFundSteps, PriceNeverFalls
  <2>3. balances[x] \in Nat
    BY <2>1
  <2>4. supply' > 0 => (balances'[x] * purse') \div supply' \in Nat
    <3>1. balances'[x] * purse' \in Nat
      BY <2>1
    <3>. QED  BY <3>1, <2>1, DivBounds
  <2>5. CASE supply = 0
    BY <2>5, <2>4, <2>1 DEF ValueOf, MotesOut
  <2>6. CASE supply # 0 /\ supply' # 0
    <3>1. (balances[x] * purse) \div supply <= (balances[x] * purse') \div supply'
      <4>1. supply > 0 /\ supply' > 0
        BY <2>1, <2>6
      <4>. QED  BY <4>1, <2>1, <2>2, <2>3, ValueFollowsPrice
    <3>2. /\ (balances[x] * purse) \div supply \in Nat
          /\ (balances[x] * purse') \div supply' \in Nat
      <4>1. balances[x] * purse \in Nat /\ balances[x] * purse' \in Nat
        BY <2>1, <2>3
      <4>. QED  BY <4>1, <2>1, <2>6, DivBounds
    <3>3. /\ ValueOf(x) = (balances[x] * purse) \div supply
          /\ ValueOf(x)' = (balances[x] * purse') \div supply'
      BY <2>6 DEF ValueOf, MotesOut
    <3>. QED  BY <3>1, <3>2, <3>3
  <2>7. CASE supply # 0 /\ supply' = 0
    BY <2>7, StepsAreFundSteps, SharesStay
  <2>. QED  BY <2>5, <2>6, <2>7
<1>. QED  BY <1>1, Invariant, PTL DEF Spec, NobodyDiluted

\* What a payment bought is worth no more than the payment.
LEMMA BoughtAtMostPaid ==
    ASSUME NEW B \in Nat, NEW T \in Nat, NEW paid \in Nat, NEW got \in Nat,
           T + got > 0, got * B <= paid * T
    PROVE  (got * (B + paid)) \div (T + got) <= paid
<1>. DEFINE q == (got * (B + paid)) \div (T + got)
<1>1. B + paid \in Nat /\ T + got \in Nat
  OBVIOUS
<1>2. got * (B + paid) \in Nat
  BY <1>1, TimesNat
<1>3. q \in Nat /\ q * (T + got) <= got * (B + paid)
  BY <1>1, <1>2, DivBounds
<1>. HIDE DEF q
<1>4. got * (B + paid) <= paid * (T + got)
  <2>1. /\ got * (B + paid) = got * B + got * paid
        /\ paid * (T + got) = paid * T + got * paid
    OBVIOUS
  <2>2. got * B \in Nat /\ paid * T \in Nat /\ got * paid \in Nat
    BY TimesNat
  <2>. QED  BY <2>1, <2>2
<1>5. q * (T + got) <= paid * (T + got)
  <2>1. q * (T + got) \in Nat /\ paid * (T + got) \in Nat
    BY <1>1, <1>3, TimesNat
  <2>. QED  BY <2>1, <1>2, <1>3, <1>4
<1>6. q <= paid
  BY <1>1, <1>3, <1>5, TimesCancel
<1>. QED  BY <1>6 DEF q

\* No deposit can be turned round at a profit.
THEOREM RoundTripsDoNotPay == Spec => NoRoundTripProfit
<1>1. IInv /\ IInv' /\ [Next]_vars =>
          \A x \in Accounts :
              balances'[x] > balances[x] =>
                  ((balances'[x] - balances[x]) * purse') \div supply' <= purse' - purse
  <2>. SUFFICES ASSUME IInv, IInv', [Next]_vars,
                       NEW x \in Accounts, balances'[x] > balances[x]
                PROVE  ((balances'[x] - balances[x]) * purse') \div supply' <= purse' - purse
    OBVIOUS
  <2>1. /\ purse \in Nat /\ supply \in Nat /\ balances \in [Holders -> Nat]
        /\ purse' \in Nat /\ supply' \in Nat /\ balances' \in [Holders -> Nat]
    BY NumbersAssumption DEF IInv, TypeOK
  <2>2. /\ x \in Holders /\ Burn \in Holders /\ x # Burn
        /\ balances[x] \in Nat /\ balances'[x] \in Nat
    BY <2>1, AccountsAssumption DEF Holders
  <2>3. [Fund!Next]_(Fund!fund)
    BY StepsAreFundSteps
  <2>4. ASSUME NEW m \in Accounts, Fund!Found(m)
        PROVE  ((balances'[x] - balances[x]) * purse') \div supply' <= purse' - purse
    <3>1. purse = 0 /\ supply' = purse' /\ purse' > 0
      BY <2>4 DEF Fund!Found
    <3>. DEFINE g == balances'[x] - balances[x]
    <3>2. g \in Nat /\ g <= purse'
      <4>1. balances'[x] + balances'[Burn] <= supply'
        <5>1. supply' = Cardinality(ShareUnits(balances'))
          BY DEF IInv, SupplyIsSharesOutstanding
        <5>. QED  BY <5>1, <2>1, <2>2, TwoHoldersFit
      <4>2. balances'[Burn] \in Nat
        BY <2>1, <2>2
      <4>. QED  BY <4>1, <4>2, <2>1, <2>2, <3>1
    <3>. HIDE DEF g
    <3>3. (g * purse') \div purse' <= purse'
      <4>1. purse' <= purse'
        BY <2>1
      <4>2. (g * purse') \div purse' <= g
        BY <4>1, <2>1, <3>1, <3>2, SharesAtMostMotes
      <4>. DEFINE q == (g * purse') \div purse'
      <4>3. q \in Nat
        BY <2>1, <3>1, <3>2, TimesNat, DivBounds
      <4>4. q <= g
        BY <4>2
      <4>. HIDE DEF q
      <4>5. q <= purse'
        BY <4>3, <4>4, <2>1, <3>2
      <4>. QED  BY <4>5 DEF q
    <3>. QED  BY <3>1, <3>3, <2>1 DEF g
  <2>5. ASSUME NEW m \in Accounts, Fund!Join(m)
        PROVE  ((balances'[x] - balances[x]) * purse') \div supply' <= purse' - purse
    <3>. DEFINE paid == purse' - purse
                got  == supply' - supply
    <3>1. /\ supply > 0 /\ paid > 0 /\ got > 0 /\ got * purse <= paid * supply
          /\ balances' = [balances EXCEPT ![m] = @ + got]
      BY <2>5 DEF Fund!Join
    <3>2. paid \in Nat /\ got \in Nat /\ purse' = purse + paid /\ supply' = supply + got
      <4>1. purse' - purse > 0 /\ supply' - supply > 0
        BY <3>1
      <4>. QED  BY <4>1, <2>1, Difference
    <3>. HIDE DEF paid, got
    <3>3. balances'[x] - balances[x] = got
      <4>1. m = x
        BY <3>1, <2>1, <2>2
      <4>2. balances'[x] = balances[x] + got
        BY <4>1, <3>1, <2>1, <2>2
      <4>. QED  BY <4>2, <2>2, <3>2
    <3>4. (got * (purse + paid)) \div (supply + got) <= paid
      <4>1. supply + got > 0
        BY <3>1, <3>2, <2>1
      <4>. QED  BY <4>1, <3>1, <3>2, <2>1, BoughtAtMostPaid
    <3>. QED  BY <3>2, <3>3, <3>4 DEF paid
  <2>6. ASSUME NEW m \in Accounts, Fund!Leave(m)
        PROVE  FALSE
    <3>1. /\ supply - supply' > 0
          /\ balances' = [balances EXCEPT ![m] = @ - (supply - supply')]
      BY <2>6 DEF Fund!Leave
    <3>2. CASE m = x
      <4>1. balances'[x] = balances[x] - (supply - supply')
        BY <3>1, <3>2, <2>1, <2>2
      <4>2. supply - supply' > 0
        BY <3>1
      <4>3. ~(balances[x] - (supply - supply') > balances[x])
        BY <4>2, <2>1, <2>2, Difference
      <4>4. balances'[x] > balances[x]
        OBVIOUS
      <4>. QED  BY <4>1, <4>3, <4>4
    <3>3. CASE m # x
      BY <3>1, <3>3, <2>1, <2>2
    <3>. QED  BY <3>2, <3>3
  <2>7. CASE UNCHANGED Fund!fund
    BY <2>7, <2>2 DEF Fund!fund
  <2>. QED  BY <2>3, <2>4, <2>5, <2>6, <2>7 DEF Fund!Next
<1>. QED  BY <1>1, Invariant, PTL DEF Spec, NoRoundTripProfit

\* A deposit is refused only for being too small.
THEOREM DepositsAreTaken == Spec => []DepositOpen
<1>1. IInv => DepositOpen
  <2>. SUFFICES ASSUME IInv, WidthsSuffice, ~paused,
                       NEW amount \in 1 .. (MaxMotes - purse),
                       ~(supply = 0 /\ amount <= MinimumLiquidity)
                PROVE  DepositAccepted(amount)
    BY DEF DepositOpen
  <2>1. /\ purse \in Nat /\ supply \in Nat /\ supply <= purse /\ purse <= MaxMotes
        /\ supply = purse
        /\ MaxMotes \in Nat /\ MaxU256 \in Nat /\ MinimumLiquidity \in Nat \ {0}
        /\ amount \in Nat /\ amount > 0 /\ amount + purse <= MaxMotes
    BY NumbersAssumption DEF IInv, TypeOK, EveryShareBacked
  <2>2. IsFirstDeposit <=> supply = 0
    BY <2>1 DEF IsFirstDeposit
  <2>3. \A x, y \in 0 .. MaxMotes : x * y <= MaxU256
    <3>. SUFFICES ASSUME NEW x \in 0 .. MaxMotes, NEW y \in 0 .. MaxMotes
                  PROVE  x * y <= MaxU256
      OBVIOUS
    <3>1. x \in Nat /\ y \in Nat /\ x <= MaxMotes /\ y <= MaxMotes
      BY <2>1
    <3>2. x * y <= MaxMotes * y /\ MaxMotes * y <= MaxMotes * MaxMotes
      BY <3>1, <2>1, TimesMonotone
    <3>3. x * y \in Nat /\ MaxMotes * y \in Nat /\ MaxMotes * MaxMotes \in Nat
      BY <3>1, <2>1, TimesNat
    <3>. QED  BY <3>2, <3>3, <2>1 DEF WidthsSuffice
  <2>4. MaxMotes <= MaxU256
    <3>1. 1 \in 0 .. MaxMotes /\ MaxMotes \in 0 .. MaxMotes
      BY <2>1
    <3>2. 1 * MaxMotes <= MaxU256
      BY <3>1, <2>3
    <3>. QED  BY <3>2, <2>1
  <2>5. ~DepositMathError(amount)
    <3>1. amount \in 0 .. MaxMotes /\ supply \in 0 .. MaxMotes
      BY <2>1
    <3>2. amount * supply <= MaxU256
      BY <3>1, <2>3
    <3>3. amount * supply \in Nat
      BY <2>1, TimesNat
    <3>. QED  BY <3>2, <3>3, <2>1, <2>4 DEF DepositMathError
  <2>6. /\ SharesFor(amount) \in Nat /\ SharesFor(amount) > 0 /\ SharesLocked \in Nat
        /\ SharesFor(amount) + SharesLocked <= amount
    <3>1. CASE supply = 0
      BY <3>1, <2>1, <2>2 DEF SharesFor, SharesLocked
    <3>2. CASE supply # 0
      <4>. DEFINE s == (amount * supply) \div purse
      <4>1. s = amount
        BY <3>2, <2>1, ExactQuotient
      <4>. HIDE DEF s
      <4>4. SharesFor(amount) = s /\ SharesLocked = 0
        BY <3>2, <2>2 DEF SharesFor, SharesLocked, s
      <4>. QED  BY <4>1, <4>4, <2>1
    <3>. QED  BY <3>1, <3>2
  <2>7. MintFits(SharesFor(amount) + SharesLocked)
    BY <2>1, <2>4, <2>6 DEF MintFits
  <2>. QED  BY <2>1, <2>5, <2>6, <2>7 DEF DepositAccepted
<1>. QED  BY <1>1, Invariant, PTL

-----------------------------------------------------------------------------
(* The sum over the entries of an allocation.                              *)

\* The sum of the code, which stops at the largest u32, by its recursion.
LEMMA SaturatingSumIsAFold ==
    ASSUME NEW D, IsFiniteSet(D), NEW w \in [D -> 0 .. MaxU32]
    PROVE  \E g :
              /\ g \in [SUBSET D -> 0 .. MaxU32]
              /\ \A t \in SUBSET D :
                    g[t] = IF t = {} THEN 0
                           ELSE IF g[t \ {First(t)}] + w[First(t)] > MaxU32 THEN MaxU32
                           ELSE g[t \ {First(t)}] + w[First(t)]
              /\ SaturatingSum(w) = g[D]
<1>. DEFINE U32 == 0 .. MaxU32
            step == [p \in D \X U32 |-> IF p[2] + w[p[1]] > MaxU32 THEN MaxU32
                                                                    ELSE p[2] + w[p[1]]]
            pick == [t \in SUBSET D |-> First(t)]
            sum == CHOOSE g : g = [t \in SUBSET D |->
                        IF t = {} THEN 0
                        ELSE IF g[t \ {First(t)}] + w[First(t)] > MaxU32 THEN MaxU32
                        ELSE g[t \ {First(t)}] + w[First(t)]]
<1>1. MaxU32 \in Nat /\ 0 \in U32
  BY NumbersAssumption
<1>2. step \in [D \X U32 -> U32]
  <2>1. \A x \in D, n \in U32 :
            (IF n + w[x] > MaxU32 THEN MaxU32 ELSE n + w[x]) \in U32
    BY <1>1
  <2>. QED  BY <2>1
<1>3. \A x \in D, n \in U32 :
          step[<<x, n>>] = IF n + w[x] > MaxU32 THEN MaxU32 ELSE n + w[x]
  OBVIOUS
<1>4. /\ Picks(pick, D)
      /\ \A t \in SUBSET D : t # {} =>
            pick[t] = First(t) /\ First(t) \in D /\ t \ {First(t)} \in SUBSET D
  BY FirstFacts DEF Picks
<1>. HIDE DEF step, U32, pick
<1>5. PICK f : FoldsAll(f, D, U32, 0, step, pick)
  BY <1>1, <1>2, <1>4, FoldExists
<1>6. f = [t \in SUBSET D |->
              IF t = {} THEN 0
              ELSE IF f[t \ {First(t)}] + w[First(t)] > MaxU32 THEN MaxU32
              ELSE f[t \ {First(t)}] + w[First(t)]]
  BY <1>3, <1>4, <1>5 DEF FoldsAll
<1>7. sum = [t \in SUBSET D |->
              IF t = {} THEN 0
              ELSE IF sum[t \ {First(t)}] + w[First(t)] > MaxU32 THEN MaxU32
              ELSE sum[t \ {First(t)}] + w[First(t)]]
  BY <1>6
<1>8. SaturatingSum(w) = sum[D]
  BY DEF SaturatingSum, FoldFunction, FoldFunctionOnSet, MapThenFoldSet, First
<1>. HIDE DEF sum
<1>9. \A t \in SUBSET D :
          sum[t] = IF t = {} THEN 0
                   ELSE IF sum[t \ {First(t)}] + w[First(t)] > MaxU32 THEN MaxU32
                   ELSE sum[t \ {First(t)}] + w[First(t)]
  BY <1>7
<1>10. \A t \in SUBSET D : sum[t] \in 0 .. MaxU32
  <2>. DEFINE Good == {t \in SUBSET D : sum[t] \in 0 .. MaxU32}
  <2>1. ASSUME NEW t \in SUBSET D, \A x \in t : t \ {x} \in Good
        PROVE  t \in Good
    <3>1. CASE t = {}
      BY <1>1, <1>9, <3>1
    <3>2. CASE t # {}
      <4>1. First(t) \in t /\ First(t) \in D
        BY <3>2, FirstFacts
      <4>2. sum[t \ {First(t)}] \in 0 .. MaxU32 /\ w[First(t)] \in 0 .. MaxU32
        BY <2>1, <4>1
      <4>. QED  BY <1>1, <1>9, <3>2, <4>1, <4>2
    <3>. QED  BY <3>1, <3>2
  <2>. HIDE DEF Good
  <2>2. SUBSET D \subseteq Good
    BY <2>1, SubsetsAre
  <2>. QED  BY <2>2 DEF Good
<1>11. sum \in [SUBSET D -> 0 .. MaxU32]
  BY <1>7, <1>10
<1>. QED  BY <1>8, <1>9, <1>11

\* Saturating addition gives the true sum, or the limit where that is above it.
LEMMA SaturatedOrExact ==
    ASSUME NEW D, IsFiniteSet(D), NEW w \in [D -> 0 .. MaxU32]
    PROVE  /\ SumFunction(w) \in Nat
           /\ SaturatingSum(w) = IF SumFunction(w) > MaxU32 THEN MaxU32 ELSE SumFunction(w)
<1>1. MaxU32 \in Nat /\ w \in [D -> Nat]
  BY NumbersAssumption
<1>2. PICK exact : IsSum(exact, w, D) /\ SumFunction(w) = exact[D]
  BY <1>1, SumFunctionIsSum
<1>0. /\ exact \in [SUBSET D -> Nat]
      /\ \A t \in SUBSET D :
            exact[t] = IF t = {} THEN 0 ELSE w[First(t)] + exact[t \ {First(t)}]
  BY <1>2 DEF IsSum
<1>3. PICK stopped :
         /\ stopped \in [SUBSET D -> 0 .. MaxU32]
         /\ \A t \in SUBSET D :
               stopped[t] = IF t = {} THEN 0
                            ELSE IF stopped[t \ {First(t)}] + w[First(t)] > MaxU32 THEN MaxU32
                            ELSE stopped[t \ {First(t)}] + w[First(t)]
         /\ SaturatingSum(w) = stopped[D]
  BY SaturatingSumIsAFold
<1>. DEFINE Good == {t \in SUBSET D :
                        stopped[t] = IF exact[t] > MaxU32 THEN MaxU32 ELSE exact[t]}
<1>4. ASSUME NEW t \in SUBSET D, \A x \in t : t \ {x} \in Good
      PROVE  t \in Good
  <2>1. CASE t = {}
    <3>1. exact[t] = 0 /\ stopped[t] = 0
      BY <1>0, <1>3, <1>4, <2>1
    <3>. QED  BY <1>1, <1>4, <3>1
  <2>2. CASE t # {}
    <3>1. First(t) \in t /\ First(t) \in D /\ t \ {First(t)} \in SUBSET D
      BY <2>2, FirstFacts
    <3>. DEFINE rest == t \ {First(t)}
                weight == w[First(t)]
    <3>2. /\ exact[t] = weight + exact[rest]
          /\ stopped[t] = IF stopped[rest] + weight > MaxU32 THEN MaxU32
                          ELSE stopped[rest] + weight
      BY <1>0, <1>3, <2>2
    <3>3. stopped[rest] = IF exact[rest] > MaxU32 THEN MaxU32 ELSE exact[rest]
      BY <1>4, <3>1
    <3>4. exact[rest] \in Nat /\ weight \in Nat
      BY <1>1, <1>0, <3>1
    <3>. HIDE DEF rest, weight
    <3>5. stopped[t] = IF exact[t] > MaxU32 THEN MaxU32 ELSE exact[t]
      BY <1>1, <3>2, <3>3, <3>4
    <3>. QED  BY <3>5
  <2>. QED  BY <2>1, <2>2
<1>. HIDE DEF Good
<1>5. D \in Good
  BY <1>4, SubsetsAre
<1>6. stopped[D] = IF exact[D] > MaxU32 THEN MaxU32 ELSE exact[D]
  BY <1>5 DEF Good
<1>. QED  BY <1>0, <1>2, <1>3, <1>6

\* The allocation in force sums to TotalBps exactly: the contract's sum stops at the
\* largest u32, which TotalBps is below, so no other vector passes (vault.rs:323-329).
THEOREM AllocationIsWhole == Spec => []AllocationSumsToTotal
<1>1. Init => AllocationSumsToTotal
  BY DEF Init, AllocationSumsToTotal
<1>2. AllocationSumsToTotal /\ [Next]_vars => AllocationSumsToTotal'
  <2>. SUFFICES ASSUME AllocationSumsToTotal, [Next]_vars
                PROVE  AllocationSumsToTotal'
    OBVIOUS
  <2>1. ASSUME NEW c \in Accounts, NEW weights \in AllocationVectors, Reallocate(c, weights)
        PROVE  AllocationSumsToTotal'
    <3>1. PICK n \in 0 .. MaxAssets : weights \in [1 .. n -> Weights]
      BY DEF AllocationVectors
    <3>2. IsFiniteSet(1 .. n)
      <4>1. n \in Int
        BY <3>1, NumbersAssumption
      <4>. QED  BY <4>1, FS_Interval
    <3>3. weights \in [1 .. n -> 0 .. MaxU32]
      BY <3>1, NumbersAssumption
    <3>4. /\ SumFunction(weights) \in Nat
          /\ SaturatingSum(weights) = IF SumFunction(weights) > MaxU32 THEN MaxU32
                                      ELSE SumFunction(weights)
      BY <3>2, <3>3, SaturatedOrExact
    <3>5. SaturatingSum(weights) = TotalBps /\ allocation' = weights
      BY <2>1 DEF Reallocate
    <3>6. SumFunction(weights) = TotalBps
      BY <3>4, <3>5, NumbersAssumption
    <3>. QED  BY <3>5, <3>6 DEF AllocationSumsToTotal
  <2>2. CASE UNCHANGED allocation
    BY <2>2 DEF AllocationSumsToTotal
  <2>3. [Next]_vars => \/ UNCHANGED allocation
                       \/ \E c \in Accounts, weights \in AllocationVectors : Reallocate(c, weights)
    BY DEF Next, vars, Deposit, Withdraw, Pause, Unpause, SetAgent, NextBlock, policy
  <2>. QED  BY <2>1, <2>2, <2>3
<1>. QED  BY <1>1, <1>2, PTL DEF Spec

=============================================================================
