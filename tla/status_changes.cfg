SPECIFICATION FairHistorySpec
CONSTANTS
    Creators = {c1, c2, c3}
    Deleters = {}
    Statuses = {operational, offline}
    NoOne = NoOne
    MaxRows = 4
    FaultKinds = {"throw", "crash"}
    MaxFaults = 1
INVARIANTS OpenRowsBounded
PROPERTIES ChangesAreAtomic LockIsReleased
