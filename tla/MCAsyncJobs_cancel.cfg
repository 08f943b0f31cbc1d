SPECIFICATION Spec
CONSTANTS
    w1 = w1
    w2 = w2
    c1 = c1
    p1 = p1
    p2 = p2
    None = None
    NumJobs = 1
    Workers = {w1, w2}
    Cancellers = {c1}
    Procs = {p1, p2}
    ProcOf <- MCApart
    CProcOf <- MCCancel
    Lease = 1
    ResultTTL = 1
    JobTimeout = 1
    Backoff = 1
    MaxAttempts = 2
    MaxFaults = 0
    MaxStops = 0
    AttemptCap = 3
    TimelyHeartbeats = TRUE
PROPERTIES
    CancelAfterOutputSettles
