------------------------ MODULE MCIncidentLifecycle ------------------------
(* Instances of IncidentLifecycle for TLC. *)
EXTENDS IncidentLifecycle, TLC

Symmetry == Permutations(Requests)

VARIABLES
    overlapped, \* history: two requests have been in progress at once
    disordered  \* history: a request has begun that is not InOrder

historyVars == <<vars, overlapped, disordered>>

Busy == {r \in Requests : Running(r)}

HistoryInit == Init /\ overlapped = FALSE /\ disordered = FALSE

HistoryNext ==
    /\ \/ OrderedNext /\ UNCHANGED disordered
       \/ (\E r \in Requests : Begin(r) /\ ~InOrder(r)) /\ disordered' = TRUE
    /\ overlapped' = (overlapped \/ Cardinality(Busy') > 1)

HistorySpec == HistoryInit /\ [][HistoryNext]_historyVars

\* Bound: out of order, or beside a fault, two requests begin in all.
Together == disordered \/ faults > 0 => Cardinality({r \in Requests : stage[r] # "idle"}) <= 2

BoundedSpec == HistoryInit /\ [][HistoryNext /\ Together']_historyVars

\* The probes stay away from a monitor with an unresolved manual incident,
\* whichever of its other incidents are resolved or deleted concurrently, as
\* long as requests begin in order.
PausedInOrder == disordered \/ PausedWhileActive

\* "Please resolve the incident to start monitoring again": when the last
\* manual incident has been resolved or deleted, the monitor is monitored, as
\* long as requests begin in order.
ResumedInOrder == disordered \/ ResumedWhenResolved

\* When every incident has been resolved or deleted, however concurrently, the
\* monitor is operational again, as long as requests begin in order.
OperationalInOrder == disordered \/ OperationalWhenResolved

\* Requests that never overlap keep every timeline whole: the newest row is
\* open, no other one is, and it has the state of the incident.
TimelineWholeInTurn == overlapped \/ TimelineWhole
=============================================================================
