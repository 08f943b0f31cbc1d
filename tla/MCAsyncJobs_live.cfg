SPECIFICATION FairSpec
CONSTANTS
    w1 = w1
    w2 = w2
    c1 = c1
    p1 = p1
    p2 = p2
    None = None
    NumJobs = 1
    Workers = {w1, w2}
    Cancellers = {}
    Procs = {p1}
    ProcOf <- MCTogether
    CProcOf <- MCNoCancel
    Lease = 1
    ResultTTL = 1
    JobTimeout = 1
    Backoff = 1
    MaxAttempts = 2
    MaxFaults = 1
    MaxStops = 1
    AttemptCap = 3
    TimelyHeartbeats = TRUE
PROPERTIES
    JobsAreDecided
    StopReturns
