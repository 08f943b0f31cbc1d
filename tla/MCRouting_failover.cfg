SPECIFICATION FairSpec
CONSTANTS
    r1 = r1
    r2 = r2
    r3 = r3
    Requests = {r1, r2}
    Streams = {r1}
    NumRoutes = 2
    Threshold = 2
    CoolDown = 1
    MaxRetries = 1
    StreamMaxRetries = 2
    MaxSwitches = 1
INVARIANTS
    TypeOK
    ProbeInFlight
    OneVoice
    AttemptsWithinPlan
    NoEarlyFailure
PROPERTIES
    RequestsEnd
    ProbesResolve
CHECK_DEADLOCK FALSE
