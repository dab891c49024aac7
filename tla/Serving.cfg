SPECIFICATION MCSpec
CONSTANTS
    Actors = {a1, a2}
    TTL = 1
    MaxLookup = 1
    MaxUpload = 1
    Parts = {"keys", "proxyKeys", "experiments", "activeKeys", "pricing", "chain", "uploads", "handler", "usage"}
SYMMETRY MCSymmetry
INVARIANTS
    TypeOK
    CredentialsAreFresh
    RoutedAsPublished
    WrongOnlyByRaceOrFailure
    PricesFollowTheLists
    BodiesGoWhereTheyBelong
    TagsTellWhatWasSent
    UsageLostOnlyByCut
\* requests are answered and the price service is closed
CHECK_DEADLOCK FALSE
