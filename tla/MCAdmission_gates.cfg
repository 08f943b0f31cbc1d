SPECIFICATION Spec
CONSTANTS
    r1 = r1
    r2 = r2
    s1 = s1
    t1 = t1
    i1 = i1
    i2 = i2
    None = None
    Requests = {r1, r2}
    Subjects = {s1}
    Tenants = {t1}
    Identities = {i1}
    SubjectOf <- MCSubjectOf
    TenantOf <- MCTenantOf
    IdentityOf <- MCSharedIdentity
    Tries <- MCTries
    MaxConc = 2
    Limit <- MCLimit
    Estimate <- MCEstimate
    Actual = {1, 3}
    DaysPerMonth = 2
    Grace = 1
    MaxDay = 2
    MaxFaults = 1
INVARIANTS
    TypeOK
    
    CountersMatchOutcomes
    
    ReservedRowsExplained
    
CHECK_DEADLOCK FALSE
