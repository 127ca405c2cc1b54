SPECIFICATION Spec
CONSTANTS
    Agents = {a1, a2}
    Accounts = {owner, other}
    Owner = owner
    MaxU64 = 3
    Deltas <- SmallDeltas
    MaxBlockTime = 1
    MaxHistory = 5
SYMMETRY Symmetry
INVARIANTS CorrectAtMostDecisions ScoreBetweenBalanceAndGains
