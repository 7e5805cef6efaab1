CONSTANTS
    k1 = k1
    k2 = k2
    p1 = p1
    p2 = p2
    Keys = {k1, k2}
    Procs = {p1, p2}
    NoProc = NoProc
    Requests <- OneRequest
    MaxRetries = 2
    RetryDelay = 2
    MaxTime = 2
    MaxJobs = 2
    MaxKills = 1
SPECIFICATION Spec
SYMMETRY ProcSymmetry
INVARIANT NoRunningCommitted
INVARIANT AttemptsBounded
INVARIANT AttemptsAreRuns
INVARIANT OneHandlerAtATime
