SPECIFICATION MCSpec
CONSTANTS
    r0 = r0
    r1 = r1
    r2 = r2
    r3 = r3
    r4 = r4
    bad = bad
    Poison = {bad}
    o1 = o1
    o2 = o2
    NoOrg = NoOrg
    OrgOf <- MCOrgOf
    Requests = {r0, r1, r2, r3, r4, bad}
    Orgs = {o1, o2}
    BatchMaxSize = 2
    MaxFaults = 2
    MaxDeaths = 1
INVARIANTS
    TypeOK
    DuplicatesArePaidFor
    SyncedIsPrefix
    FinalFlushDrains
    SyncedWasIngested
    OwnOrgOnly
PROPERTIES
    ImplementsReliableDelivery
    EveryRowIsReported
