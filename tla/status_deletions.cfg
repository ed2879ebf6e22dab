SPECIFICATION HistorySpec
CONSTANTS
    Creators = {c1}
    Deleters = {d1}
    Statuses = {operational, offline}
    NoOne = NoOne
    MaxRows = 4
    FaultKinds = {"throw", "crash"}
    MaxFaults = 2
INVARIANTS EndsAfterItBegins TimelineWholeInTurn
SYMMETRY Symmetry
