SPECIFICATION AllSpec
CONSTANTS
    AlertKeys = {k1}
    NoAlert = NoAlert
    Policies = {"critical-infrastructure", "service-degradation"}
    NoPolicy = NoPolicy
    MatchSeverity <- MatchBySeverity
    Reporters = {r1, r2}
    Operators = {o1, o2}
    Modes = {}
    MaxReports = 2
    MaxEvents = 2
    MaxFaults = 1
SYMMETRY Symmetry
INVARIANTS
    EveryAlertHasTicket
    TimelineAccounts
    ApprovalSpentOnce
    FreezeIsKept
    NoUnseenOverlap
PROPERTIES
    ClosedUntilReported
CHECK_DEADLOCK FALSE
