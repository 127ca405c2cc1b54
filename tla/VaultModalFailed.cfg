SPECIFICATION Spec
CONSTANTS
    Flags = {"false"}
    Development = FALSE
    Calls = {1}
    Alice = alice
    Accounts = {alice}
    MockAccount = mockuser
    NoAccount = none
    Purse <- MCPurse
    Tries = 2
    Amounts = {1, 4}
    Grain = 2
    VaultShares = 4
    Configured = TRUE
CHECK_DEADLOCK FALSE
INVARIANTS FailedIsNotSent
