SPECIFICATION FairWalk
CONSTANTS
    t = t
    a = a
    z = z
    none = none
    Components = {t, a, z, none}
    NoComponent = none
    Ports = {"next", "other"}
    NoPort = NoPort
    Graphs <- AllGraphs
INVARIANTS ReachedIsExecuted CyclicHasTwoWays
PROPERTY WalkEnds
CHECK_DEADLOCK FALSE
