SPECIFICATION Spec
CONSTANTS
    Accounts = {owner, u, v}
    Owner = owner
    Burn = burn
    MinimumLiquidity = 2
    TotalBps = 2
    MaxU256 = 196
    MaxU32 = 3
    MaxMotes = 14
    Weights = {0, 1, 2, 3}
    MaxAssets = 2
    MaxBlockTime = 3
INVARIANTS
    TypeOK SupplyIsSharesOutstanding EveryShareBacked ExitOpen AllocationSumsToTotal
PROPERTIES
    NobodyDiluted NoRoundTripProfit ImplementsShareFund
SYMMETRY Symmetry
