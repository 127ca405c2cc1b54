SPECIFICATION FairSpec
CONSTANTS
    Flags = {"unset", "true"}
    Development = FALSE
    Calls = {1, 2}
    Alice = alice
    Accounts = {alice, bob}
    MockAccount = mockuser
    NoAccount = none
    Purse <- MCPurse
    Tries = 2
    Amounts = {2}
    Grain = 2
    VaultShares = 2
    Configured = TRUE
CHECK_DEADLOCK FALSE
INVARIANTS DialogIsTrue
PROPERTIES NothingHangs
