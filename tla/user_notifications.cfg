SPECIFICATION FairHistorySpec
CONSTANTS
    Logs = {l1}
    first = first
    second = second
    Rules = {first, second}
    Runs = {run1}
    Request = request
    NotifyAfter <- MCNotifyAfter
    StuckAfter = 0
    MaxAge = 1
    MaxFailures = 2
INVARIANTS NotifiedOnce UneditedAllNotified RowTruthfulInTurn
PROPERTIES EndedStaysSilent PageEnds
