SPECIFICATION FairAroundSpec
CONSTANTS
    Parts = {"cockpit", "button", "feed", "tear", "mcp", "deploy"}
    Viewers = {alice}
    Reads = {r1}
    PollEvery = 3
    CacheTtl = 2
    StaleAfter = 1
    MaxVersion = 1
    Paused = {1}
    FetchTimeout = 1
    ReadTime = 2
    DemoRuns = 1
    Posts = {k1}
    Demo = FALSE
    Shown = 1
    Limits = {1}
    MaxDecisions = 2
    MaxOld = 0
    Payments = {1}
    Seeds = 1
    MaxEnds = 1
    ToolCalls = {c1}
    MaxChanges = 2
    MaxTime = 3
    StateTtl = 2
    StateReadTime = 1
    Balances = {11}
    MaxRuns = 1
    InstallPayment = 4
    CallPayment = 1
    Starters = {a1}
    MaxAdded = 1
    Written = {}
    ShellKeys = {"offline", "interval"}
CHECK_DEADLOCK FALSE
PROPERTIES EverythingComesBack
