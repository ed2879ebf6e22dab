SPECIFICATION Spec
CONSTANTS
    Logs = {l1}
    Runs = {r1}
    MaxRules = 2
    MaxOrder = 3
    MaxEdits = 0
    EscalateAfter <- OneMinuteFirst
    RepeatTimes = 2
    StuckAfter = 0
    MaxAge = 1
    MaxFailures = 0
INVARIANT RepeatedAsConfigured
