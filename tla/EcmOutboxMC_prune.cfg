SPECIFICATION FairSpec
CONSTANTS
    Rows = {1, 2}
    Fps = {f1, f2}
    Workers = {w1}
    MaxAttempts = 2
    BatchSize = 2
    Retention = TRUE
    MaxCrashes = 1
    MaxReplays = 1
    MaxOverruns = 0
    MaxRaces = 0
    Lineage <- SameLineage
    f1 = f1
    f2 = f2
    w1 = w1
PROPERTIES
    LatestWins
