SPECIFICATION FairSpec
CONSTANTS
    Allocations = {equal, other}
    EqualWeights = equal
    Target = other
    MaxTries = 2
    MaxPolls = 1
    Slots = {1, 2}
CHECK_DEADLOCK FALSE
PROPERTIES VaultFollowsDecisions WatchesEndInTruth
