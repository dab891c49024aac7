SPECIFICATION FairSpec
CONSTANTS
    o1 = o1
    o2 = o2
    t1 = t1
    t2 = t2
    t3 = t3
    a1 = a1
    a2 = a2
    Orgs = {o1}
    Tokens = {t1, t2}
    TokenOrg <- MCTokenOrg
    NoToken = NoToken
    Admins = {a1, a2}
    MaxFaults = 1
    MaxDeaths = 1
INVARIANTS
    TypeOK
    WorkersMatchRegistrations
    NoWorkersAfterStopAll
PROPERTY
    AssignmentsAreClaimed
\* The process may stay down.
CHECK_DEADLOCK FALSE
