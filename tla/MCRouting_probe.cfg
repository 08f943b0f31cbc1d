SPECIFICATION Spec
CONSTANTS
    r1 = r1
    r2 = r2
    r3 = r3
    Requests = {r1, r2, r3}
    Streams = {r1}
    NumRoutes = 2
    Threshold = 2
    CoolDown = 1
    MaxRetries = 1
    StreamMaxRetries = 1
    MaxSwitches = 0
PROPERTIES
    ProbeDecides
CHECK_DEADLOCK FALSE
