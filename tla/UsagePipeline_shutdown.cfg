SPECIFICATION FairSpec
CONSTANTS
    r1 = r1
    r2 = r2
    o1 = o1
    Requests = {r1, r2}
    Orgs = {o1}
    NoOrg = NoOrg
    OrgOf <- MCOrgOf
    BatchMaxSize = 1
    Keys = {}
    Values = {}
    MetaOf <- MCMetaOf
    Claude = {}
    SessionOf <- MCSessionOf
    Sessions = {}
    NoSession = NoSession
    None = None
    ChanCap = 1
    MaxFaults = 0
    MaxDeaths = 0
INVARIANT
    ShutdownDrainsReporterQueues
\* The steward may stay down.
CHECK_DEADLOCK FALSE
