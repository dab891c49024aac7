SPECIFICATION MCSpec
CONSTANTS
    o1 = o1
    o2 = o2
    run1 = run1
    res1 = res1
    run2 = run2
    res2 = res2
    score1 = score1
    score2 = score2
    Orgs = {o1, o2}
    ReplayRuns = {run1}
    ReplayResults = {res1}
    EvalRuns = {run2}
    EvalResults = {res2}
    Scores = {score1, score2}
    Parent <- MCParent
    BatchSize = 1
    ScoreBatchSize = 1
    MaxScoreVersion = 2
    MaxFaults = 2
    MaxDeaths = 1
INVARIANTS
    TypeOK
    LostOnlyByRace
PROPERTIES
    ResultsAreReported
    UnracedEndIsReported
    ScoresGoWithTheirResult
