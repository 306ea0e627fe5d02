SPECIFICATION AllSpec
CONSTANTS
    AlertKeys = {k1}
    NoAlert = NoAlert
    Policies = {"critical-infrastructure", "service-degradation"}
    NoPolicy = NoPolicy
    MatchSeverity <- MatchBySeverity
    Reporters = {r1}
    Operators = {o1, o2}
    Modes = {"dry_run", "execute"}
    MaxReports = 3
    MaxEvents = 2
    MaxFaults = 0
    TicketUsers = {"ann", "bob"}
    TicketPriorities = {"high"}
    ActiveLimit = 2
    QueueLimit = 2
    MaxTickets = 1
    MaxActions = 2
    RiskUsers = {"ann"}
    RiskPriorities = {"high"}
    Sources = {"s"}
    MaxRiskTickets = 3
    CommandOwners = {"ann"}
    Etas = {"noon"}
    MaxUpdates = 4
    BackupKeys = {"p"}
    BackupSchedules <- Daily
    DrillSchedules <- Weekly
    Slas = {0}
    Outcomes = {TRUE}
    DayLength = 1
    WeekLength = 2
    MonthLength = 3
    QuarterLength = 5
    MaxTime = 1
    MaxBackups = 2
    MaxEvidence = 2
SYMMETRY Symmetry
INVARIANTS
    OneTicketPerWindow
    BreachesAreShownAndEscalated
    OneRiskTicket
    CommandIsCoherent
PROPERTIES
    BackupsAndEvidenceHold
CHECK_DEADLOCK FALSE
