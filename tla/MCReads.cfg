SPECIFICATION MCSpec
CONSTANTS
    MaxTries = 4
    MaxHeight = 2
    Null = null
    Base = 4
    HashBytes = 2
    Accounts <- MCAccounts
    Profiles <- MCProfiles
    Vectors <- MCVectors
    Times = {65535}
    NumAssets = 2
    Total = 4
    MaxWeight = 3
    DriftBps = 1
    Default <- MCDefault
CHECK_DEADLOCK FALSE
INVARIANTS
    ReadIsTrue
    DecodingIsTrue
    RulesAgree
PROPERTIES
    RetriesEnd
    ImplementsReadClient
