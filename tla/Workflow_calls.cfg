SPECIFICATION AllFairSpec
CONSTANTS
    Template <- MixedTemplate
    Handlers = {h1, h2}
    MaxStarts = 4
    MaxFaults = 2
INVARIANTS
    StepsInOrder
    RunningHasHandler
    RunsAreAccounted
    RunbooksRepeat
    AnalyticsAgree
PROPERTIES
    EndIsFinal
    ExecutionRests
CHECK_DEADLOCK FALSE
