---------------------- MODULE MCMonitorStatusTimeline ----------------------
(* Instances of MonitorStatusTimeline for TLC. *)
EXTENDS MonitorStatusTimeline, TLC

Symmetry == Permutations(Creators) \cup Permutations(Deleters) \cup Permutations(Statuses)

VARIABLE overlapped \* history: two requests have been in progress at once

Busy == {c \in Creators : stage[c] # "idle"} \cup {d \in Deleters : dstage[d] # "idle"}

HistoryInit == Init /\ overlapped = FALSE
HistoryNext == Next /\ overlapped' = (overlapped \/ Cardinality(Busy') > 1)

HistorySpec == HistoryInit /\ [][HistoryNext]_<<vars, overlapped>>

FairHistorySpec == HistorySpec /\ Fairness

\* Requests that never overlap keep the timeline whole, deletions included:
\* each row ends where the next one begins, the newest is open, and the monitor
\* has its status.
TimelineWholeInTurn == overlapped \/ TimelineWhole
=============================================================================
