SPECIFICATION MCSpec
CONSTANTS
    Actors = {a1, a2}
    TTL = 1
    MaxLookup = 1
    MaxUpload = 1
    Parts = {"handler", "experiments"}
INVARIANT ExperimentTagsAreApplied
\* a request is answered
CHECK_DEADLOCK FALSE
