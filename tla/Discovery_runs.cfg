SPECIFICATION AllFairSpec
CONSTANTS
    Absent = Absent
    LeftOut = LeftOut
    Foci = {"discovering", "defining", "coding"}
    Nodes = {"x", "y", "z"}
    RelationTypes = {"contains", "owned_by"}
    AskedDepths = {0, 1, 2, 3}
    MaxRelations = 3
    Devices = {host, pod}
    NoDevice = none
    Full = {host}
    Scheduler = sched
    Threshold = 2
    MissedLimit = 3
    Known = {host}
    Runners = {sched, byhand}
    Reviewers = {}
    MaxAssets = 1
    MaxCandidates = 2
    MaxFaults = 2
INVARIANTS
    RunIsExclusive
    ToldOnce
    FieldsAndCodesHold
PROPERTIES
    JobIsRunAgain
CHECK_DEADLOCK FALSE
