SPECIFICATION FairSpec
CONSTANTS
    Assets <- MCAssets
    Sheets <- MCSheets
    Epochs = 1
    Lookback = 2
    MaxTries = 2
    Agent = agent
    Seed = 2
    MaxU64 = 3
    MaxRuns = 2
    Restarts = 1
    OldLines = 1
CHECK_DEADLOCK FALSE
INVARIANTS OneVerdict EpochIsSound
PROPERTIES EpochsEnd
