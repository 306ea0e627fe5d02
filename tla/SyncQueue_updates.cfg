SPECIFICATION Spec
CONSTANTS
    Assets = {a1}
    NoAsset = NoAsset
    JobIds = {j1}
    NoJob = NoJob
    Workers = {w1}
    Requests = {r1}
    MaxAttempts = 2
    BatchSize = 2
    MaxParallel = 2
    MaxRev = 2
    MaxFaults = 0
SYMMETRY Symmetry
INVARIANTS
    UpdatesReachZabbix
CHECK_DEADLOCK FALSE
