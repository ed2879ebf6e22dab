------------------------- MODULE IncidentLifecycle -------------------------
(***************************************************************************)
(* The incidents of one monitor: their states, the timelines of these      *)
(* states, and the pause of active monitoring that lasts while an incident *)
(* created by hand is not resolved.                                        *)
(*                                                                         *)
(* Every change of state is a row of the incident's timeline.  Creating    *)
(* the row ends the last one, updates the incident with the caller's       *)
(* properties and, for the resolved state, lets the monitor be monitored   *)
(* again.  When the properties name a tenant the update asks for the       *)
(* change once more, as root.  Nothing is locked, and a step here is a     *)
(* query there.  A change of the monitor's status is atomic                *)
(* (MonitorStatusTimeline); the monitor stands for each one of an          *)
(* incident's monitors.                                                    *)
(***************************************************************************)
EXTENDS Naturals, Sequences, FiniteSets

CONSTANTS Incidents,
          Requests,     \* bound: API calls and jobs that touch the incidents
          Manual,       \* incidents that were not created automatically
          ChangeStatus, \* incidents with a changeMonitorStatusToId
          MaxFaults     \* bound: requests that throw or crash half-way

ASSUME LifecycleAssumption ==
    /\ Incidents # {}
    /\ Manual \subseteq Incidents
    /\ ChangeStatus \subseteq Incidents
    /\ IsFiniteSet(Requests)
    /\ MaxFaults \in Nat

IncidentStates == {"Created", "Acknowledged", "Resolved"}
Active == {"Created", "Acknowledged"} \* the states ordered before the resolved one

Row == [state : IncidentStates, open : BOOLEAN]

Stage == {"idle", "status", "look", "find", "insert", "end", "current",
          "count", "resume", "operational", "pause", "done"}
Op == {"create", "change", "delete"}

VARIABLES
    state,    \* currentIncidentStateId, "none" before and "deleted" after the incident exists
    timeline, \* the rows of the incident's timeline in the order of createdAt
    paused,   \* the monitor's disableActiveMonitoringBecauseOfManualIncident
    monitor,  \* the monitor's status, operational or not
    stage,    \* of each request
    on,       \* the incident it is about
    op,       \* what it does
    target,   \* the state it asks for
    tenant,   \* its properties name a tenant
    nested,   \* it is in the change its own update of the incident asked for
    last,     \* the row its onBeforeCreate found last, 0 for none
    faults

dataVars == <<state, timeline, paused, monitor>>
askVars == <<on, op, target>>
vars == <<dataVars, stage, askVars, tenant, nested, last, faults>>

Exists(i) == state[i] \in IncidentStates
ActiveManual == {i \in Manual : state[i] \in Active}

TypeOK ==
    /\ state \in [Incidents -> IncidentStates \cup {"none", "deleted"}]
    /\ timeline \in [Incidents -> Seq(Row)]
    /\ \A i \in Incidents : Exists(i) \/ timeline[i] = <<>>
    /\ paused \in BOOLEAN
    /\ monitor \in {"operational", "down"}
    /\ stage \in [Requests -> Stage]
    /\ on \in [Requests -> Incidents]
    /\ op \in [Requests -> Op]
    /\ target \in [Requests -> IncidentStates]
    /\ tenant \in [Requests -> BOOLEAN]
    /\ nested \in [Requests -> BOOLEAN]
    /\ last \in [Requests -> Nat]
    /\ faults \in 0..MaxFaults

\* Some incidents have been created, and nothing else has happened to them yet.
Init ==
    /\ \E earlier \in SUBSET Incidents :
          /\ state = [i \in Incidents |-> IF i \in earlier THEN "Created" ELSE "none"]
          /\ timeline = [i \in Incidents |->
                 IF i \in earlier THEN <<[state |-> "Created", open |-> TRUE]>> ELSE <<>>]
          /\ paused = (earlier \cap Manual # {})
          /\ monitor = IF earlier \cap ChangeStatus # {} THEN "down" ELSE "operational"
    /\ stage = [r \in Requests |-> "idle"]
    /\ on = [r \in Requests |-> CHOOSE i \in Incidents : TRUE]
    /\ op = [r \in Requests |-> "change"]
    /\ target = [r \in Requests |-> "Created"]
    /\ tenant = [r \in Requests |-> FALSE]
    /\ nested = [r \in Requests |-> FALSE]
    /\ last = [r \in Requests |-> 0]
    /\ faults = 0

-----------------------------------------------------------------------------
GoTo(r, at) == stage' = [stage EXCEPT ![r] = at]

Asks(r, i, what, to, named) ==
    /\ on' = [on EXCEPT ![r] = i]
    /\ op' = [op EXCEPT ![r] = what]
    /\ target' = [target EXCEPT ![r] = to]
    /\ tenant' = [tenant EXCEPT ![r] = named]
    /\ UNCHANGED <<nested, last, faults>>

Keeps == UNCHANGED <<askVars, faults>>

\* Where a request goes when the change of state it asked for is complete.
AfterChange(r) ==
    IF op[r] = "create" THEN IF on[r] \in Manual THEN "pause" ELSE "done"
    ELSE "done"

\* The nested change returns into the hook of the row that asked for it.
ChangeReturns(r) ==
    /\ nested' = [nested EXCEPT ![r] = FALSE]
    /\ GoTo(r, IF nested[r] /\ target[r] = "Resolved" THEN "count" ELSE AfterChange(r))

-----------------------------------------------------------------------------
(* The requests.                                                           *)

\* The incident is saved in the created state; its hook does the rest.
Create(r, i) ==
    /\ stage[r] = "idle" /\ state[i] = "none"
    /\ state' = [state EXCEPT ![i] = "Created"]
    /\ Asks(r, i, "create", "Created", FALSE)
    /\ GoTo(r, IF i \in ChangeStatus THEN "status" ELSE "look")
    /\ UNCHANGED <<timeline, paused, monitor>>

\* A row is created directly: by acknowledgeIncident and the probe's response
\* as root, by the dashboard and the API with a tenant.
AddState(r, i, s, named) ==
    /\ stage[r] = "idle" /\ Exists(i)
    /\ Asks(r, i, "change", s, named)
    /\ GoTo(r, "find")
    /\ UNCHANGED dataVars

\* A member of the project updates the incident's currentIncidentStateId; the
\* hook of the update adds the row.
SetState(r, i, s) ==
    /\ stage[r] = "idle" /\ Exists(i)
    /\ state' = [state EXCEPT ![i] = s]
    /\ Asks(r, i, "change", s, FALSE)
    /\ GoTo(r, "look")
    /\ UNCHANGED <<timeline, paused, monitor>>

\* The incident goes with its timeline, then its monitors are looked after.
Delete(r, i) ==
    /\ stage[r] = "idle" /\ Exists(i)
    /\ state' = [state EXCEPT ![i] = "deleted"]
    /\ timeline' = [timeline EXCEPT ![i] = <<>>]
    /\ Asks(r, i, "delete", "Resolved", FALSE)
    /\ GoTo(r, "count")
    /\ UNCHANGED <<paused, monitor>>

-----------------------------------------------------------------------------
(* The steps of a request, in the order of the code.                       *)

ChangeMonitorStatus(r) ==
    /\ stage[r] = "status"
    /\ monitor' = "down"
    /\ GoTo(r, "look")
    /\ UNCHANGED <<state, timeline, paused, tenant, nested, last>> /\ Keeps

LastIs(i, s) == timeline[i] # <<>> /\ timeline[i][Len(timeline[i])].state = s

\* changeIncidentState does nothing when the last row has the state already.
Look(r) ==
    /\ stage[r] = "look"
    /\ \/ LastIs(on[r], target[r]) /\ ChangeReturns(r)
       \/ ~LastIs(on[r], target[r]) /\ GoTo(r, "find") /\ UNCHANGED nested
    /\ UNCHANGED <<dataVars, tenant, last>> /\ Keeps

FindLast(r) ==
    /\ stage[r] = "find"
    /\ last' = [last EXCEPT ![r] = Len(timeline[on[r]])]
    /\ GoTo(r, "insert")
    /\ UNCHANGED <<dataVars, tenant, nested>> /\ Keeps

\* A row of a deleted incident violates its foreign key: the request throws.
Insert(r) ==
    /\ stage[r] = "insert"
    /\ \/ /\ Exists(on[r])
          /\ timeline' = [timeline EXCEPT ![on[r]] =
                              Append(@, [state |-> target[r], open |-> TRUE])]
          /\ GoTo(r, "end")
       \/ ~Exists(on[r]) /\ GoTo(r, "done") /\ UNCHANGED timeline
    /\ UNCHANGED <<state, paused, monitor, tenant, nested, last>> /\ Keeps

Ended(row) == [state |-> row.state, open |-> FALSE]

\* Mutant: the row just created is ended, not the one before.
EndNewest(r) ==
    /\ stage[r] = "end"
    /\ timeline' = IF timeline[on[r]] # <<>>
                   THEN [timeline EXCEPT ![on[r]][Len(timeline[on[r]])] = Ended(@)]
                   ELSE timeline
    /\ GoTo(r, "current")
    /\ UNCHANGED <<state, paused, monitor, tenant, nested, last>> /\ Keeps

EndLast(r) ==
    /\ stage[r] = "end"
    /\ timeline' = IF last[r] \in 1..Len(timeline[on[r]])
                   THEN [timeline EXCEPT ![on[r]][last[r]] = Ended(@)]
                   ELSE timeline
    /\ GoTo(r, "current")
    /\ UNCHANGED <<state, paused, monitor, tenant, nested, last>> /\ Keeps

\* Mutants: the nested change is asked for with the caller's properties again,
\* or the monitors of a resolved incident are forgotten.
SetCurrentAsCaller(r) ==
    /\ stage[r] = "current"
    /\ state' = IF Exists(on[r]) THEN [state EXCEPT ![on[r]] = target[r]] ELSE state
    /\ IF tenant[r] /\ Exists(on[r])
       THEN GoTo(r, "look") /\ nested' = [nested EXCEPT ![r] = TRUE]
       ELSE IF target[r] = "Resolved" THEN GoTo(r, "count") /\ UNCHANGED nested
       ELSE ChangeReturns(r)
    /\ UNCHANGED <<timeline, paused, monitor, tenant, last>> /\ Keeps

SetCurrentOnly(r) ==
    /\ stage[r] = "current"
    /\ state' = IF Exists(on[r]) THEN [state EXCEPT ![on[r]] = target[r]] ELSE state
    /\ GoTo(r, AfterChange(r))
    /\ UNCHANGED <<timeline, paused, monitor, tenant, nested, last>> /\ Keeps

\* The incident is updated; its own hook looks at the timeline again when a
\* tenant is named.  A resolved incident lets its monitors go.
SetCurrent(r) ==
    /\ stage[r] = "current"
    /\ state' = IF Exists(on[r]) THEN [state EXCEPT ![on[r]] = target[r]] ELSE state
    /\ \/ /\ tenant[r] /\ Exists(on[r])
          /\ tenant' = [tenant EXCEPT ![r] = FALSE]
          /\ nested' = [nested EXCEPT ![r] = TRUE]
          /\ GoTo(r, "look")
       \/ /\ ~(tenant[r] /\ Exists(on[r]))
          /\ target[r] = "Resolved"
          /\ GoTo(r, "count")
          /\ UNCHANGED <<tenant, nested>>
       \/ /\ ~(tenant[r] /\ Exists(on[r]))
          /\ target[r] # "Resolved"
          /\ ChangeReturns(r)
          /\ UNCHANGED tenant
    /\ UNCHANGED <<timeline, paused, monitor, last>> /\ Keeps

\* Mutants: acknowledged incidents are not counted, automatically created ones
\* are.
MoreUnacknowledged(r) == \E i \in Manual : state[i] = "Created"
MoreActiveOfAnyKind(r) == \E i \in Incidents : state[i] \in Active

\* doesMonitorHasMoreActiveManualIncidents
MoreActive(r) == ActiveManual # {}

\* markMonitorsActiveForMonitoring, unless the resolved incident is gone.
Count(r) ==
    /\ stage[r] = "count"
    /\ \/ MoreActive(r) /\ ChangeReturns(r)
       \/ ~MoreActive(r) /\ GoTo(r, "resume") /\ UNCHANGED nested
       \/ op[r] # "delete" /\ ~Exists(on[r]) /\ ChangeReturns(r)
    /\ UNCHANGED <<dataVars, tenant, last>> /\ Keeps

Resume(r) ==
    /\ stage[r] = "resume"
    /\ paused' = FALSE
    /\ GoTo(r, "operational")
    /\ UNCHANGED <<state, timeline, monitor, tenant, nested, last>> /\ Keeps

\* The monitor is operational again, whatever other incidents are open.
Operational(r) ==
    /\ stage[r] = "operational"
    /\ monitor' = "operational"
    /\ ChangeReturns(r)
    /\ UNCHANGED <<state, timeline, paused, tenant, last>> /\ Keeps

\* The last step of the creation of a manual incident.
Pause(r) ==
    /\ stage[r] = "pause"
    /\ paused' = TRUE
    /\ GoTo(r, "done")
    /\ UNCHANGED <<state, timeline, monitor, tenant, nested, last>> /\ Keeps

Step(r) ==
    \/ ChangeMonitorStatus(r) \/ Look(r) \/ FindLast(r) \/ Insert(r) \/ EndLast(r)
    \/ SetCurrent(r) \/ Count(r) \/ Resume(r) \/ Operational(r) \/ Pause(r)

Running(r) == stage[r] \notin {"idle", "done"}

\* A query throws or the process dies: nothing is rolled back.
Fails(r) ==
    /\ Running(r)
    /\ faults < MaxFaults
    /\ faults' = faults + 1
    /\ GoTo(r, "done")
    /\ UNCHANGED <<dataVars, askVars, tenant, nested, last>>

Begin(r) ==
    \E i \in Incidents :
        \/ Create(r, i)
        \/ \E s \in IncidentStates, named \in BOOLEAN : AddState(r, i, s, named)
        \/ \E s \in IncidentStates : SetState(r, i, s)
        \/ Delete(r, i)

Next == \E r \in Requests : Begin(r) \/ Step(r) \/ Fails(r)

Spec == Init /\ [][Next]_vars

-----------------------------------------------------------------------------
(* Callers that keep out of each other's way as the hooks seem to expect:  *)
(* an incident is not resolved or deleted while another change or its      *)
(* creation is in progress, and not reopened; no incident is created while *)
(* one is being resolved.                                                  *)

Resolving(r) == Running(r) /\ target[r] = "Resolved"

InOrder(r) ==
    LET i == on'[r] IN
    /\ op'[r] = "create" => \A q \in Requests : ~Resolving(q)
    /\ op'[r] # "create" /\ target'[r] # "Resolved" =>
           state[i] # "Resolved" /\ \A q \in Requests : on[q] = i => ~Resolving(q)
    /\ target'[r] = "Resolved" =>
           \A q \in Requests : Running(q) /\ on[q] = i => Resolving(q)

OrderedNext == \E r \in Requests : (Begin(r) /\ InOrder(r)) \/ Step(r) \/ Fails(r)

-----------------------------------------------------------------------------
(* Properties.                                                             *)

Quiet == \A r \in Requests : ~Running(r)

BeingCreated(i) == \E r \in Requests : Running(r) /\ op[r] = "create" /\ on[r] = i

\* The probes stay away from a monitor with an unresolved manual incident,
\* whichever of its other incidents are resolved or deleted concurrently.
PausedWhileActive ==
    faults = 0 => \A i \in ActiveManual : BeingCreated(i) \/ paused

\* "Please resolve the incident to start monitoring again": when the last
\* manual incident has been resolved or deleted, the monitor is monitored.
ResumedWhenResolved == faults = 0 /\ Quiet /\ ActiveManual = {} => ~paused

\* When every incident has been resolved or deleted, in whatever order and
\* however concurrently, the monitor is operational again.
OperationalWhenResolved ==
    faults = 0 /\ Quiet /\ (\A i \in Incidents : state[i] \notin Active)
        => monitor = "operational"

\* The hooks of incident and timeline call each other, and the calls end: a
\* change of state leaves at most two rows, a creation one.
ChangesEnd ==
    \A i \in Incidents :
        Len(timeline[i]) <= 1 + 2 * Cardinality({r \in Requests : on[r] = i /\ stage[r] # "idle" /\ op[r] = "change"})

\* One request at a time: the newest row is open, no other one is, and it has
\* the state of the incident.
TimelineWhole ==
    faults = 0 /\ Quiet => \A i \in Incidents : Exists(i) =>
        /\ LastIs(i, state[i])
        /\ \A n \in DOMAIN timeline[i] : timeline[i][n].open <=> n = Len(timeline[i])
=============================================================================
