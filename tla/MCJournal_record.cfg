SPECIFICATION Spec
CONSTANTS
    t1 = t1
    t2 = t2
    w1 = w1
    w2 = w2
    w3 = w3
    r1 = r1
    r2 = r2
    Trees = {t1, t2}
    Windows = {w1, w2, w3}
    Home <- MCHome
    Sessions <- MCSessions
    Manual = {w1}
    Records = {r1, r2}
    Keyed = {r2}
    Legacy <- MCLegacy
    Fresh = {t2}
    Cap = 2
    MaxCommands = 3
    MaxMishaps = 1
    MaxMerges = 1
    MaxDrift = 1
INVARIANTS
    TypeOK
    RetriesConverge
    
    NumbersIncrease
    RowsHaveEntries
PROPERTIES
    JournalOnlyGrows
    AcknowledgedIsRecorded
CHECK_DEADLOCK FALSE
