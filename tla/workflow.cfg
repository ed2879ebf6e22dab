SPECIFICATION BoundedSpec
CONSTANTS
    Requests = {r1, r2}
    Repeats = {s1}
    Workers = {w1, w2}
    NoRun = NoRun
    Limit = 0
    MaxEvents = 3
    MaxTries = 2
    MaxThrows = 2
    MaxCrashes = 2
    MaxStalls = 1
INVARIANTS RunsBounded PromptNotReaped
PROPERTIES ResultStands LogsEnd
CHECK_DEADLOCK FALSE
