SPECIFICATION AllSpec
CONSTANTS
    Assets = {a1, a2}
    NoAsset = NoAsset
    JobIds = {j1, j2}
    NoJob = NoJob
    Workers = {w1}
    Requests = {r1}
    MaxAttempts = 2
    BatchSize = 2
    MaxParallel = 2
    MaxRev = 2
    MaxFaults = 0
    Kinds <- KindOf
    TaskSeen <- FewSeen
    FollowTasks = {"f"}
    FollowOwners = {"ann"}
    FollowInstants = {0, 400}
    MaxFollowWrites = 3
    AgeingTasks = {"a", "t", "r"}
    AgeingInstants = {0, 60, 100, 130, 400}
    TaskPolicies <- SomePolicies
    BriefingTasks = {"g", "s", "f", "a"}
    ProfileSections = {"alert_policy", "backup_policy"}
    ProfileNames = {"small"}
    MaxCommits = 3
    Events = {"risk"}
    Sites = {"s"}
    Endpoints <- TwoEndpoints
    Names = {"n"}
    AttemptLimits = {1, 2}
    DefaultLimit = 2
    MaxChannels = 1
    MaxSubscriptions = 1
    MaxDeliveries = 2
    MaxLost = 1
    OwnerKeys = {"k"}
    Templates = {"t"}
    Modes = {}
    Severities = {}
    Priorities = {1}
    MaxRules = 1
    DayLength = 3
    WeekLength = 2
    WindowSets <- FewWindows
    Moments = {0, 1, 2, 3, 4, 5}
    Durations = {1, 2, 3, 4}
    ParamKeys = {"k"}
    ParamSizes = {0, 1}
SYMMETRY Symmetry
INVARIANTS
    OrphanOnlyByFault
    AlertFollowsBinding
    DeliveriesTruthful
    FollowUpsAreKept
    RevertRestores
    PlaybookInputsAgree
PROPERTIES
    OwnersAreTold
    UrgencyIsKept
CHECK_DEADLOCK FALSE
