SPECIFICATION BoundedSpec
CONSTANTS
    Incidents = {manual, automatic}
    Requests = {r1, r2, r3}
    Manual = {manual}
    ChangeStatus = {automatic}
    MaxFaults = 1
INVARIANTS PausedInOrder ResumedInOrder OperationalInOrder ChangesEnd TimelineWholeInTurn
SYMMETRY Symmetry
CHECK_DEADLOCK FALSE
