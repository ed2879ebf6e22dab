SPECIFICATION FairHistorySpec
CONSTANTS
    Events = {e1, e2}
    Monitors = {m1}
    NoEvent = NoEvent
    Starters = {starter}
    Enders = {ender}
    Users = {user}
    MaxMoves = 3
    MaxFailures = 1
    MonitorsOf <- AllMonitors
    EventsTogether = {e1}
    MovesTogether = 1
INVARIANTS PausedInTurn ResumedInTurn
PROPERTIES EndedStaysEnded EventsEnd
CHECK_DEADLOCK FALSE
