SPECIFICATION Spec
CONSTANTS
    AlertKeys = {k1}
    NoAlert = NoAlert
    Policies = {"critical-infrastructure", "service-degradation"}
    NoPolicy = NoPolicy
    MatchSeverity <- MatchBySeverity
    Reporters = {r1}
    Operators = {o1}
    Modes = {"dry_run", "execute"}
    MaxReports = 2
    MaxEvents = 1
    MaxFaults = 0
SYMMETRY Symmetry
INVARIANTS
    RemediationOnTimeline
CHECK_DEADLOCK FALSE
