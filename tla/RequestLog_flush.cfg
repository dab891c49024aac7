SPECIFICATION FairSpec
CONSTANTS
    r1 = r1
    r2 = r2
    r3 = r3
    feature = feature
    v1 = v1
    v2 = v2
    s1 = s1
    Requests = {r1, r2}
    Keys = {feature}
    Values = {v1, v2}
    Claude = {r2}
    Sessions = {s1}
    NoSession = NoSession
    None = None
    MetaOf <- MCMetaOf
    SessionOf <- MCSessionOf
    ChanCap = 2
    MaxFaults = 0
    MaxDeaths = 0
INVARIANT
    FlushPersistsDirty
\* The process may stay down.
CHECK_DEADLOCK FALSE
