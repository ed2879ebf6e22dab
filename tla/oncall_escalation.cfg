SPECIFICATION FairSpec
CONSTANTS
    Logs = {l1}
    Runs = {r1}
    MaxRules = 2
    MaxOrder = 3
    MaxEdits = 1
    EscalateAfter <- OneMinuteFirst
    RepeatTimes = 2
    StuckAfter = 0
    MaxAge = 1
    MaxFailures = 1
INVARIANTS PagedOncePerRound EscalatesInOrder PositionsKept
PROPERTIES NoRuleLeftOut StartedIsResolved ExecutionEnds EndedStaysEnded
