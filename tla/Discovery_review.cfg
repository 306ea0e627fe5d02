SPECIFICATION AllSpec
CONSTANTS
    Absent = Absent
    LeftOut = LeftOut
    Foci = {"discovering", "living", "relating"}
    Nodes = {"x", "y", "z"}
    RelationTypes = {"contains", "owned_by"}
    AskedDepths = {0, 1, 2, 3}
    MaxRelations = 3
    Devices = {host, pod}
    NoDevice = none
    Full = {host}
    Scheduler = sched
    Threshold = 2
    MissedLimit = 3
    Known = {}
    Runners = {sched}
    Reviewers = {ann}
    MaxAssets = 2
    MaxCandidates = 3
    MaxFaults = 1
INVARIANTS
    OneAssetPerDevice
    OperationalWasReady
    RelationsHold
PROPERTIES
    ReviewIsFinal
    OffboardIsJustified
CHECK_DEADLOCK FALSE
