------------------------- MODULE MCUserNotification -------------------------
(* Instances of UserNotification for TLC. *)
EXTENDS UserNotification, FiniteSets

CONSTANTS first, second

\* What Writers counts is finite, and each writer has a name of its own.
ASSUME WritersAssumption == IsFiniteSet(Runs) /\ Workers \cap {"ack", "timeout"} = {}

\* The first rule is immediate, the second one waits a minute.
MCNotifyAfter == [n \in Rules |-> IF n = first THEN 0 ELSE 1]

VARIABLES edited,    \* history: the user has edited his rules
          overlapped \* history: two writers have been in progress for a page at once

\* What is in progress for a page: cron runs, the request, an acknowledgement
\* and the timeout job.
Writers(l) ==
    {r \in Runs : ~At(r, l, "idle")}
        \cup {Request : w \in {work[Request][l].stage} \ {"idle", "done", "dead"}}
        \cup {"ack" : a \in {ack[l]} \ {"idle"}}
        \cup {"timeout" : t \in {l} \cap (stuck \cup marked)}

HistoryInit == Init /\ edited = FALSE /\ overlapped = FALSE
HistoryNext ==
    /\ Next
    /\ edited' = (edited \/ rules' # rules)
    /\ overlapped' = (overlapped \/ \E l \in Logs : Cardinality(Writers(l)') > 1)

historyVars == <<vars, edited, overlapped>>

HistorySpec == HistoryInit /\ [][HistoryNext]_historyVars
FairHistorySpec == HistorySpec /\ Fairness

\* A page that the cron job has completed has notified the user by every rule
\* he has, when no step failed and he has not edited them meanwhile.
UneditedAllNotified == edited \/ AllNotified

\* What the dashboard shows for a page is what has become of it, while nothing
\* overlapped and failed: each of the writers of the row leaves it right.
RowTruthfulInTurn ==
    (overlapped \/ failures > 0) \/
        \A l \in Logs : (Quiet(l) /\ status[l] # "None") => RowTellsStatus(l)
=============================================================================
