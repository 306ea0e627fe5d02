SPECIFICATION Spec
CONSTANTS
    Devices = {host, pod}
    NoDevice = none
    Full = {host}
    Scheduler = sched
    Threshold = 2
    MissedLimit = 3
    Known = {}
    Runners = {sched}
    Reviewers = {ann, bob}
    MaxAssets = 2
    MaxCandidates = 2
    MaxFaults = 0
INVARIANTS
    OneAssetPerDevice
CHECK_DEADLOCK FALSE
