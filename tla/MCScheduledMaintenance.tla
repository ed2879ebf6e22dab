----------------------- MODULE MCScheduledMaintenance -----------------------
(* Instances of ScheduledMaintenance for TLC. *)
EXTENDS ScheduledMaintenance, FiniteSets

\* Bounds once a step has failed, two have overlapped or the monitors have been
\* edited: the in-turn invariants say nothing any more.
CONSTANTS EventsTogether, MovesTogether

\* Finitely many jobs and requests are in progress together.
ASSUME FiniteAssumption == IsFiniteSet(Actors)

AllMonitors == [e \in Events |-> Monitors]

VARIABLES edited,    \* history: the monitors of an event, or its rows, have been edited
          overlapped \* history: two jobs or requests have been in progress at once

Disturbed == edited \/ overlapped \/ failures > 0

HistoryInit == Init /\ edited = FALSE /\ overlapped = FALSE
HistoryNext ==
    /\ Next
    /\ edited' = (edited \/ attached' # attached
                    \/ \E u \in Users : At(u, "reread")')
    /\ overlapped' = (overlapped \/ Cardinality({a \in Actors : ~At(a, "idle")'}) > 1)
    /\ Disturbed' => /\ {e \in Events : current[e] # "none"}' \subseteq EventsTogether
                     /\ moves' <= MovesTogether

historyVars == <<vars, edited, overlapped>>

HistorySpec == HistoryInit /\ [][HistoryNext]_historyVars
FairHistorySpec == HistorySpec /\ Fairness

\* While changes come one after the other, none fails, and nobody edits the
\* monitors of an event, the monitors of an ongoing event are not monitored.
PausedInTurn == Disturbed \/ PausedWhileOngoing

\* Under the same conditions a monitor whose events are all over is monitored
\* again, and operational.
ResumedInTurn == Disturbed \/ ResumedWhenOver
=============================================================================
