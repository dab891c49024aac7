SPECIFICATION MCSpec
CONSTANTS
    o1 = o1
    o2 = o2
    run1 = run1
    res1 = res1
    run2 = run2
    res2 = res2
    score1 = score1
    score2 = score2
    Orgs = {o1}
    ReplayRuns = {run1}
    ReplayResults = {}
    EvalRuns = {}
    EvalResults = {}
    Scores = {}
    Parent <- MCParent
    BatchSize = 1
    ScoreBatchSize = 4
    MaxScoreVersion = 2
    MaxFaults = 0
    MaxDeaths = 0
PROPERTY
    EveryEndIsReported
