CONSTANTS
    k1 = k1
    k2 = k2
    p1 = p1
    p2 = p2
    Keys = {k1, k2}
    Procs = {p1}
    NoProc = NoProc
    Requests <- TwoRequests
    MaxRetries = 2
    RetryDelay = 2
    MaxTime = 1
    MaxJobs = 3
    MaxKills = 1
SPECIFICATION FairSpec
INVARIANT TypeOK
INVARIANT UniqueActive
INVARIANT ForgottenRuns
PROPERTY TerminalForever
PROPERTY ImplementsLedger
PROPERTY EveryJobSettles
