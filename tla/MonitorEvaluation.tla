------------------------- MODULE MonitorEvaluation -------------------------
(***************************************************************************)
(* What the results of probes do to one monitor: its status, and the       *)
(* incidents that its criteria create and resolve.                         *)
(*                                                                         *)
(* Each result is processed by a request of its own.  The request fetches  *)
(* the monitor, finds the first criterion that is met, and then changes    *)
(* the status, looks for open incidents, resolves those of criteria no     *)
(* longer met and creates the missing ones, one query after another.       *)
(* Several probes watch a monitor, nothing is locked, and people change    *)
(* the same incidents and the same status meanwhile.                       *)
(*                                                                         *)
(* A change of status is atomic (MonitorStatusTimeline), an incident       *)
(* created by hand pauses the monitor while it is active                   *)
(* (IncidentLifecycle).  Incidents are numbered again once they are        *)
(* resolved and no request knows them; people do not reopen them.          *)
(***************************************************************************)
EXTENDS Naturals, FiniteSets

CONSTANTS Results,     \* bound: results processed at the same time
          Incidents,   \* bound: incidents open at the same time
          Criteria,
          Templates,   \* of incidents
          TemplatesOf, \* the templates of each criterion
          StatusOf,    \* the status it sets, Unset for none
          AutoResolve, \* templates with autoResolveIncident
          Statuses,
          Operational, \* the status with isOperationalState
          Default,     \* defaultMonitorStatusId, Unset for none
          Unset

ASSUME EvaluationAssumption ==
    /\ IsFiniteSet(Results)
    /\ TemplatesOf \in [Criteria -> SUBSET Templates]
    /\ \A c, d \in Criteria : c # d => TemplatesOf[c] \cap TemplatesOf[d] = {}
    /\ StatusOf \in [Criteria -> Statuses \cup {Unset}]
    /\ AutoResolve \subseteq Templates
    /\ Operational \in Statuses
    /\ Default \in Statuses \cup {Unset}
    /\ Unset \notin Statuses \cup Criteria

VARIABLES
    status,   \* the monitor's currentMonitorStatusId
    manual,   \* an incident created by hand is active, the monitor paused
    open,     \* the open incidents that criteria created
    template, \* createdIncidentTemplateId of each incident
    stage,    \* of each request
    met,      \* the criterion its result meets, Unset for none
    toClose,  \* incidents it found open and resolves
    toCreate  \* templates it found no open incident for

monitorVars == <<status, manual>>
incidentVars == <<open, template>>
planVars == <<toClose, toCreate>>
vars == <<monitorVars, incidentVars, stage, met, planVars>>

Stage == {"idle", "status", "query", "close", "release", "create", "default"}

Wanted(c) == IF c = Unset THEN {} ELSE TemplatesOf[c]

TypeOK ==
    /\ status \in Statuses
    /\ manual \in BOOLEAN
    /\ open \subseteq Incidents
    /\ template \in [Incidents -> Templates \cup {Unset}]
    /\ \A i \in open : template[i] \in Templates
    /\ stage \in [Results -> Stage]
    /\ met \in [Results -> Criteria \cup {Unset}]
    /\ toClose \in [Results -> SUBSET Incidents]
    /\ toCreate \in [Results -> SUBSET Templates]
    /\ \A r \in Results : /\ toCreate[r] \subseteq Wanted(met[r])
                          /\ \A i \in toClose[r] : template[i] \notin Wanted(met[r])

Init ==
    /\ status = Operational
    /\ manual = FALSE
    /\ open = {}
    /\ template = [i \in Incidents |-> Unset]
    /\ stage = [r \in Results |-> "idle"]
    /\ met = [r \in Results |-> Unset]
    /\ toClose = [r \in Results |-> {}]
    /\ toCreate = [r \in Results |-> {}]

-----------------------------------------------------------------------------
(* The requests of the probes.                                             *)

GoTo(r, at) == stage' = [stage EXCEPT ![r] = at]

\* The monitor is fetched; its status is compared here and not again.
FirstStage(c) ==
    IF c = Unset
    THEN IF Default \notin {Unset, status} THEN "query" ELSE "idle"
    ELSE IF StatusOf[c] \notin {Unset, status} THEN "status" ELSE "query"

\* A monitor that is paused throws the result away.
Receive(r, c) ==
    /\ stage[r] = "idle" /\ ~manual
    /\ met' = [met EXCEPT ![r] = c]
    /\ GoTo(r, FirstStage(c))
    /\ UNCHANGED <<monitorVars, incidentVars, planVars>>

ChangeStatus(r) ==
    /\ stage[r] = "status"
    /\ status' = StatusOf[met[r]]
    /\ GoTo(r, "query")
    /\ UNCHANGED <<manual, incidentVars, met, planVars>>

\* Mutant: the incidents of the criterion that is met are closed as well.
ShouldCloseAll(i, c) == template[i] \in AutoResolve

ShouldClose(i, c) == template[i] \in AutoResolve \ Wanted(c)

\* Mutants: any open incident is enough, or none is looked for.
MissingWhenNone(c) == IF open = {} THEN Wanted(c) ELSE {}
MissingUnchecked(c) == Wanted(c)

\* The templates without an open incident.
Missing(c) == Wanted(c) \ {template[i] : i \in open}

FindOpen(r) ==
    /\ stage[r] = "query"
    /\ toClose' = [toClose EXCEPT ![r] = {i \in open : ShouldClose(i, met[r])}]
    /\ toCreate' = [toCreate EXCEPT ![r] = Missing(met[r])]
    /\ GoTo(r, "close")
    /\ UNCHANGED <<monitorVars, incidentVars, met>>

Close(r) ==
    /\ stage[r] = "close"
    /\ \E i \in toClose[r] :
          /\ open' = open \ {i}
          /\ toClose' = [toClose EXCEPT ![r] = @ \ {i}]
    /\ GoTo(r, "release")
    /\ UNCHANGED <<monitorVars, template, met, toCreate>>

\* markMonitorsActiveForMonitoring: the resolved incident's monitor becomes
\* operational, whatever criterion is met and whatever else is open.
Release(r) ==
    /\ stage[r] = "release"
    /\ status' = IF manual THEN status ELSE Operational
    /\ GoTo(r, "close")
    /\ UNCHANGED <<manual, incidentVars, met, planVars>>

AllClosed(r) ==
    /\ stage[r] = "close" /\ toClose[r] = {}
    /\ GoTo(r, IF met[r] = Unset THEN "default" ELSE "create")
    /\ UNCHANGED <<monitorVars, incidentVars, met, planVars>>

Fresh == Incidents \ (open \cup UNION {toClose[r] : r \in Results})

Create(r) ==
    /\ stage[r] = "create"
    /\ \E t \in toCreate[r], i \in Fresh :
          /\ open' = open \cup {i}
          /\ template' = [template EXCEPT ![i] = t]
          /\ toCreate' = [toCreate EXCEPT ![r] = @ \ {t}]
    /\ UNCHANGED <<monitorVars, stage, met, toClose>>

AllCreated(r) ==
    /\ stage[r] = "create" /\ toCreate[r] = {}
    /\ GoTo(r, "idle")
    /\ UNCHANGED <<monitorVars, incidentVars, met, planVars>>

SetDefault(r) ==
    /\ stage[r] = "default"
    /\ status' = Default
    /\ GoTo(r, "idle")
    /\ UNCHANGED <<manual, incidentVars, met, planVars>>

Step(r) ==
    \/ ChangeStatus(r) \/ FindOpen(r) \/ Close(r) \/ Release(r) \/ AllClosed(r)
    \/ Create(r) \/ AllCreated(r) \/ SetDefault(r)

\* A query throws or the process dies: what has been done stays.
Fails(r) ==
    /\ stage[r] # "idle"
    /\ GoTo(r, "idle")
    /\ toClose' = [toClose EXCEPT ![r] = {}]
    /\ toCreate' = [toCreate EXCEPT ![r] = {}]
    /\ UNCHANGED <<monitorVars, incidentVars, met>>

-----------------------------------------------------------------------------
(* People.                                                                 *)

ResolveByHand(i) ==
    /\ i \in open
    /\ open' = open \ {i}
    /\ status' = IF manual THEN status ELSE Operational
    /\ UNCHANGED <<manual, template, stage, met, planVars>>

SetStatusByHand(s) ==
    /\ status' = s
    /\ UNCHANGED <<manual, incidentVars, stage, met, planVars>>

OpenManualIncident ==
    /\ ~manual
    /\ manual' = TRUE
    /\ UNCHANGED <<status, incidentVars, stage, met, planVars>>

ResolveManualIncident ==
    /\ manual
    /\ manual' = FALSE
    /\ status' = Operational
    /\ UNCHANGED <<incidentVars, stage, met, planVars>>

People ==
    \/ \E i \in Incidents : ResolveByHand(i)
    \/ \E s \in Statuses : SetStatusByHand(s)
    \/ OpenManualIncident \/ ResolveManualIncident

-----------------------------------------------------------------------------
Next ==
    \/ \E r \in Results : Step(r) \/ Fails(r)
    \/ \E r \in Results, c \in Criteria \cup {Unset} : Receive(r, c)
    \/ People

Spec == Init /\ [][Next]_vars

-----------------------------------------------------------------------------
(* Properties.                                                             *)

OpenOf(t) == {i \in open : template[i] = t}

\* "If there are open incidents, do not create another incident": the probes'
\* race can break this, but never by more than there are results in flight.
DuplicatesBounded == \A t \in Templates : Cardinality(OpenOf(t)) <= Cardinality(Results)
=============================================================================
