SPECIFICATION AroundSpec
CONSTANTS
    Parts = {"cockpit", "button", "feed", "demo", "oracle", "tear", "mcp", "deploy", "start"}
    Viewers = {alice}
    Reads = {r1, r2}
    PollEvery = 2
    CacheTtl = 2
    StaleAfter = 2
    MaxVersion = 1
    Paused = {1}
    FetchTimeout = 1
    ReadTime = 2
    DemoRuns = 0
    Posts = {k1, k2}
    Demo = FALSE
    Shown = 2
    Limits = {2}
    MaxDecisions = 3
    MaxOld = 1
    Payments = {1, 2}
    Seeds = 1
    MaxEnds = 1
    ToolCalls = {c1, c2}
    MaxChanges = 2
    MaxTime = 4
    StateTtl = 2
    StateReadTime = 1
    Balances = {0, 2, 8, 11, 22}
    MaxRuns = 2
    InstallPayment = 4
    CallPayment = 1
    Starters = {a1, a2}
    MaxAdded = 1
    Written = {"offline", "account"}
    ShellKeys = {"offline", "interval", "api"}
CHECK_DEADLOCK FALSE
INVARIANTS
    
    ButtonIsTrue
    
    McpIsTrue
    DeployIsSafe
    StartIsSafe
PROPERTIES
    NoStepGoesBack
