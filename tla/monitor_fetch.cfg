SPECIFICATION FairSpec
CONSTANTS
    Monitors = {m1, m2}
    Requests = {r1, r2}
    NoOne = NoOne
    Limit = 1
    MaxToggles = 1
    MaxFailures = 2
    MaxStalls = 1
INVARIANTS NeverTooOften NoneForgotten
PROPERTIES ProbedAgain
