SPECIFICATION FairSpec
CONSTANTS
    Devices = {host, pod}
    NoDevice = none
    Full = {host}
    Scheduler = sched
    Threshold = 2
    MissedLimit = 3
    Known = {host}
    Runners = {sched}
    Reviewers = {}
    MaxAssets = 1
    MaxCandidates = 2
    MaxFaults = 1
PROPERTIES
    KeepsRunning
CHECK_DEADLOCK FALSE
