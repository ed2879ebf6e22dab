------------------------ MODULE MCMonitorEvaluation ------------------------
(* Instances of MonitorEvaluation for TLC. *)
EXTENDS MonitorEvaluation, TLC

CONSTANTS offline, slow, offlineIncident, offlineNote, slowIncident

MCTemplatesOf == (offline :> {offlineIncident, offlineNote}) @@ (slow :> {slowIncident})
MCStatusOf == (offline :> "down") @@ (slow :> "degraded")

Symmetry == Permutations(Results) \cup Permutations(Incidents)

VARIABLES overlapped, \* history: two results have been in flight at once
          outcome,    \* the criterion the latest results meet, "unknown" for none in common
          streak      \* how many of them in a row nothing has disturbed, two at most

history == <<overlapped, outcome, streak>>

ASSUME OutcomeAssumption == "unknown" \notin Criteria \cup {Unset}

InFlight == {r \in Results : stage[r] # "idle"}

HistoryInit == Init /\ overlapped = FALSE /\ outcome = "unknown" /\ streak = 0

Disturbed == outcome' = "unknown" /\ streak' = 0

\* A result counts when it is processed from its first step to its last with
\* nobody else moving.
Count(n) == streak' = IF InFlight' = {} /\ n < 2 THEN n + 1 ELSE n

ReceiveAlone(r, c) ==
    /\ InFlight = {} /\ Receive(r, c)
    /\ outcome' = c
    /\ Count(IF outcome = c THEN streak ELSE 0)

StepAlone(r) ==
    /\ InFlight = {r} /\ Step(r)
    /\ UNCHANGED outcome
    /\ IF outcome = met[r] THEN Count(streak) ELSE UNCHANGED streak

StepTogether(r) == InFlight # {r} /\ Step(r) /\ Disturbed

ReceiveTogether(r, c) == InFlight # {} /\ Receive(r, c) /\ Disturbed

Alone == \E r \in Results : StepAlone(r) \/ \E c \in Criteria \cup {Unset} : ReceiveAlone(r, c)

Together ==
    \/ \E r \in Results : StepTogether(r) \/ \E c \in Criteria \cup {Unset} : ReceiveTogether(r, c)
    \/ (People \/ \E r \in Results : Fails(r)) /\ Disturbed

HistoryNext == (Alone \/ Together) /\ overlapped' = (overlapped \/ Cardinality(InFlight') > 1)

HistorySpec == HistoryInit /\ [][HistoryNext]_<<vars, history>>

\* One probe, one result at a time, no people and no failures.
AloneSpec == HistoryInit /\ [][Alone /\ UNCHANGED overlapped]_<<vars, history>>

Settled(n, c) == InFlight = {} /\ streak >= n /\ outcome = c

StatusFor(c) == IF c = Unset THEN Default ELSE StatusOf[c]

\* "Change monitor status to" when a criterion is met, and to the default one
\* when none is: two undisturbed results with the same outcome are enough,
\* whatever races, failures and people did before.  One is not: resolving the
\* incidents of another criterion makes the monitor operational.
StatusSettles ==
    \A c \in Criteria \cup {Unset} :
        Settled(2, c) /\ StatusFor(c) # Unset => status = StatusFor(c)

\* After one undisturbed result that meets a criterion, its incidents are open
\* and those of other criteria that are resolved automatically are not.
IncidentsSettle ==
    \A c \in Criteria : Settled(1, c) =>
        /\ Missing(c) = {}
        /\ \A i \in open : ~ShouldClose(i, c)

\* Results that never overlap create no incident twice.
NoDuplicateInTurn == overlapped \/ \A t \in Templates : Cardinality(OpenOf(t)) <= 1

\* "Automatically resolve this incident when this criteria is no longer met":
\* two undisturbed results meet none.
AutoResolved == Settled(2, Unset) => \A i \in open : ~ShouldClose(i, Unset)
=============================================================================
