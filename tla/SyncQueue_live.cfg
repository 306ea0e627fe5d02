SPECIFICATION FairSpec
CONSTANTS
    Assets = {a1}
    NoAsset = NoAsset
    JobIds = {j1, j2}
    NoJob = NoJob
    Workers = {w1}
    Requests = {r1}
    MaxAttempts = 2
    BatchSize = 1
    MaxParallel = 1
    MaxRev = 2
    MaxFaults = 2
PROPERTIES
    EveryJobSettles
CHECK_DEADLOCK FALSE
