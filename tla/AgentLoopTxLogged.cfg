SPECIFICATION Spec
CONSTANTS
    Allocations = {equal, other}
    EqualWeights = equal
    MaxTries = 4
    Epochs = 2
    MaxRuns = 2
INVARIANTS
    EveryTxHashLogged
