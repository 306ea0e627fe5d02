SPECIFICATION Spec
CONSTANTS
    Assets = {a1}
    NoAsset = NoAsset
    JobIds = {j1, j2}
    NoJob = NoJob
    Workers = {w1, w2}
    Requests = {r1, r2}
    MaxAttempts = 2
    BatchSize = 2
    MaxParallel = 1
    MaxRev = 1
    MaxFaults = 1
SYMMETRY Symmetry
INVARIANTS
    OneInflightPerAsset
    ExclusiveProvisioning
    BindingTruthful
PROPERTIES
    ImplementsLifecycle
CHECK_DEADLOCK FALSE
