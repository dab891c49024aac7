SPECIFICATION MCSpec
CONSTANTS
    j1 = j1
    j2 = j2
    k1 = k1
    k2 = k2
    e1 = e1
    e2 = e2
    c1 = c1
    p1 = p1
    replay1 = replay1
    eval1 = eval1
    set1 = set1
    item1 = item1
    Jobs = {j1, j2}
    KeyRows = {k1, k2}
    ExpRows = {e1, e2}
    CloudRows = {c1}
    ProvRows = {p1}
    ReplayRuns = {replay1}
    EvalRuns = {eval1}
    SetOf <- MCSetOf
    ItemsOf <- MCItemsOf
    Configured = {"sync_api_keys", "sync_experiments", "sync_cloud_storage", "sync_provider_keys"}
    Present = {set1, item1}
    PageSize = 1
    WorkTickLimit = 2
    MaxWrites = 2
    MaxOffers = 3
    MaxFaults = 1
    MaxDeaths = 1
INVARIANTS
    TypeOK
    RunComesWithItsSet
PROPERTIES
    ImplementsJobQueue
    JobsSettle
