------------------------ MODULE ScheduledMaintenance ------------------------
(***************************************************************************)
(* Scheduled maintenance events.  Two cron jobs, ChangeStateToOngoing and  *)
(* ChangeStateToEnded, move the events whose time has come; users move,    *)
(* edit and delete events at any time.  Every change of state creates a    *)
(* row of the event's state timeline, whose hooks pause the active         *)
(* monitoring of the event's monitors when it begins and resume it, and    *)
(* reset their status, when it ends, unless another event of the monitor   *)
(* is ongoing.  No step of this is in a transaction or under a mutex.      *)
(*                                                                         *)
(* The resolved and the ended state have the same hooks and are one state  *)
(* here.  Of the rows before the last one only their states are kept, not  *)
(* their order; when a row ends is left out.                               *)
(***************************************************************************)
EXTENDS Naturals

CONSTANTS Events, Monitors,
          NoEvent,
          MonitorsOf, \* the monitors an event is created with
          Starters, \* ticks of ChangeStateToOngoing that may be in progress together
          Enders,   \* ticks of ChangeStateToEnded
          Users,    \* requests of users
          MaxMoves, \* bound: requests of users
          MaxFailures

ASSUME ActorsAssumption ==
    /\ NoEvent \notin Events
    /\ MonitorsOf \in [Events -> SUBSET Monitors]
    /\ Starters \cap Enders = {}
    /\ Users \cap (Starters \cup Enders) = {}
    /\ MaxMoves \in Nat
    /\ MaxFailures \in Nat

Jobs   == Starters \cup Enders
Actors == Jobs \cup Users

State   == {"Scheduled", "Ongoing", "Ended"}
Phase   == {"before", "during", "after"}
Statuses == {"Operational", "Maintenance"}

Stage == {"idle", "next", "check", "record", "apply", "read", "pause", "resume",
          "lift", "reset", "rewrite", "attach", "reread", "restore"}

Act == [stage  : Stage,
        list   : SUBSET Events,                 \* events of the snapshot still to move
        seen   : [Events -> SUBSET Monitors],   \* and their monitors
        event  : Events \cup {NoEvent},
        to     : State,
        todo   : SUBSET Monitors,
        doing  : SUBSET Monitors, \* the monitor that is being resumed
        normal : BOOLEAN,         \* it has been found operational
        again  : BOOLEAN]         \* changeScheduledMaintenanceState writes the state again

Idle == [stage |-> "idle", list |-> {}, seen |-> [e \in Events |-> {}], event |-> NoEvent,
         to |-> "Scheduled", todo |-> {}, doing |-> {}, normal |-> FALSE, again |-> FALSE]

VARIABLES
    current,  \* currentScheduledMaintenanceState
    last,     \* state of the event's last timeline row
    older,    \* states of the rows before it
    attached, \* the event's monitors
    phase,    \* where startsAt and endsAt stand to the clock
    paused,   \* disableActiveMonitoringBecauseOfScheduledMaintenanceEvent
    status,   \* the monitor's currentMonitorStatus
    act,      \* what each job and request is at
    moves, failures

rowVars == <<last, older>>
vars == <<current, rowVars, attached, phase, paused, status, act, moves, failures>>

TypeOK ==
    /\ current \in [Events -> State \cup {"none", "deleted"}]
    /\ last \in [Events -> State \cup {"none"}]
    /\ older \in [Events -> SUBSET State]
    /\ attached \in [Events -> SUBSET Monitors]
    /\ phase \in [Events -> Phase]
    /\ paused \in [Monitors -> BOOLEAN]
    /\ status \in [Monitors -> Statuses]
    /\ act \in [Actors -> Act]
    /\ moves \in 0..MaxMoves
    /\ failures \in 0..MaxFailures

Init ==
    /\ current = [e \in Events |-> "none"]
    /\ last = [e \in Events |-> "none"]
    /\ older = [e \in Events |-> {}]
    /\ attached = MonitorsOf
    /\ phase = [e \in Events |-> "before"]
    /\ paused = [m \in Monitors |-> FALSE]
    /\ status = [m \in Monitors |-> "Operational"]
    /\ act = [a \in Actors |-> Idle]
    /\ moves = 0
    /\ failures = 0

-----------------------------------------------------------------------------
Exists(e) == current[e] \in State

At(a, stage) == act[a].stage = stage

Become(a, new) == act' = [act EXCEPT ![a] = new]

GoTo(a, stage) == Become(a, [act[a] EXCEPT !.stage = stage])

\* An update by id: it finds nothing once the event is deleted.
WriteCurrent(e, s) ==
    current' = IF Exists(e) THEN [current EXCEPT ![e] = s] ELSE current

\* After an event has been moved: the one job changes the status of the
\* monitors it has read with the event, the other takes its next event.
Moved(a) ==
    Become(a, CASE a \in Starters -> [act[a] EXCEPT !.stage = "attach",
                                                    !.todo = act[a].seen[act[a].event]]
                [] a \in Enders   -> [act[a] EXCEPT !.stage = "next", !.event = NoEvent]
                [] OTHER          -> Idle)

\* The hooks of the row are done.
RowDone(a) == IF act[a].again THEN GoTo(a, "rewrite") ELSE Moved(a)

-----------------------------------------------------------------------------
(* The cron jobs.                                                          *)

\* Mutant: events that have ended are started again.
StartsAnyNotOngoing(e) == Exists(e) /\ current[e] # "Ongoing" /\ phase[e] # "before"

Starts(e) == current[e] = "Scheduled" /\ phase[e] # "before"

\* Mutant: the query is that of the other job.
EndsScheduled(e) == current[e] = "Scheduled" /\ phase[e] = "after"

Ends(e) == current[e] = "Ongoing" /\ phase[e] = "after"

Snapshot(j) ==
    /\ At(j, "idle")
    /\ LET found == {e \in Events : IF j \in Starters THEN Starts(e) ELSE Ends(e)}
       IN  /\ found # {}
           /\ Become(j, [Idle EXCEPT !.stage = "next", !.list = found,
                            !.seen = [e \in Events |-> IF e \in found THEN attached[e] ELSE {}]])
    /\ UNCHANGED <<current, rowVars, attached, phase, paused, status, moves, failures>>

NextEvent(j) ==
    /\ At(j, "next")
    /\ \/ act[j].list = {} /\ Become(j, Idle)
       \/ \E e \in act[j].list :
             Become(j, [act[j] EXCEPT !.stage = "check", !.list = @ \ {e}, !.event = e,
                           !.to = IF j \in Starters THEN "Ongoing" ELSE "Ended",
                           !.again = TRUE])
    /\ UNCHANGED <<current, rowVars, attached, phase, paused, status, moves, failures>>

\* changeAttachedMonitorStates, after the event has been made ongoing.
Attach(j) ==
    /\ At(j, "attach")
    /\ \/ /\ act[j].todo = {}
          /\ Become(j, [act[j] EXCEPT !.stage = "next", !.event = NoEvent])
          /\ UNCHANGED status
       \/ \E m \in act[j].todo :
             /\ status' = [status EXCEPT ![m] = "Maintenance"]
             /\ Become(j, [act[j] EXCEPT !.todo = @ \ {m}])
    /\ UNCHANGED <<current, rowVars, attached, phase, paused, moves, failures>>

-----------------------------------------------------------------------------
(* changeScheduledMaintenanceState and the hooks of a timeline row.        *)

\* Nothing is done when the last row has the state already.
Check(a) ==
    /\ At(a, "check")
    /\ LET e == act[a].event
       IN  \/ last[e] = act[a].to /\ Moved(a)
           \/ last[e] # act[a].to /\ GoTo(a, "record")
    /\ UNCHANGED <<current, rowVars, attached, phase, paused, status, moves, failures>>

\* The row of a deleted event cannot be saved: the request, or the job, fails.
Record(a) ==
    /\ At(a, "record")
    /\ LET e == act[a].event
       IN  \/ /\ Exists(e)
              /\ last' = [last EXCEPT ![e] = act[a].to]
              /\ older' = [older EXCEPT ![e] = (@ \cup {last[e]}) \ {"none"}]
              /\ GoTo(a, "apply")
           \/ ~Exists(e) /\ Become(a, Idle) /\ UNCHANGED rowVars
    /\ UNCHANGED <<current, attached, phase, paused, status, moves, failures>>

Apply(a) ==
    /\ At(a, "apply")
    /\ WriteCurrent(act[a].event, act[a].to)
    /\ GoTo(a, "read")
    /\ UNCHANGED <<rowVars, attached, phase, paused, status, moves, failures>>

\* The state decides what is done to the monitors the event has by now.
ReadMonitors(a) ==
    /\ At(a, "read")
    /\ LET e     == act[a].event
           found == IF Exists(e) THEN attached[e] ELSE {}
       IN  \/ /\ act[a].to = "Scheduled" \/ found = {}
              /\ RowDone(a)
           \/ /\ act[a].to = "Ongoing" /\ found # {}
              /\ Become(a, [act[a] EXCEPT !.stage = "pause", !.todo = found])
           \/ /\ act[a].to = "Ended" /\ found # {}
              /\ Become(a, [act[a] EXCEPT !.stage = "resume", !.todo = found])
    /\ UNCHANGED <<current, rowVars, attached, phase, paused, status, moves, failures>>

Pause(a) ==
    /\ At(a, "pause")
    /\ \/ act[a].todo = {} /\ RowDone(a) /\ UNCHANGED paused
       \/ \E m \in act[a].todo :
             /\ paused' = [paused EXCEPT ![m] = TRUE]
             /\ Become(a, [act[a] EXCEPT !.todo = @ \ {m}])
    /\ UNCHANGED <<current, rowVars, attached, phase, status, moves, failures>>

\* Mutant: other events are not asked for.
NoMoreOngoing(m) == FALSE

HasMoreOngoing(m) == \E e \in Events : current[e] = "Ongoing" /\ m \in attached[e]

\* enableActiveMonitoringForMonitors: the status of a monitor is read, and
\* whether it has another ongoing event.
Resume(a) ==
    /\ At(a, "resume")
    /\ \/ act[a].todo = {} /\ RowDone(a)
       \/ \E m \in act[a].todo :
             \/ /\ HasMoreOngoing(m)
                /\ Become(a, [act[a] EXCEPT !.todo = @ \ {m}])
             \/ /\ ~HasMoreOngoing(m)
                /\ Become(a, [act[a] EXCEPT !.stage = "lift", !.todo = @ \ {m}, !.doing = {m},
                                            !.normal = (status[m] = "Operational")])
    /\ UNCHANGED <<current, rowVars, attached, phase, paused, status, moves, failures>>

Lift(a) ==
    /\ At(a, "lift")
    /\ paused' = [m \in Monitors |-> paused[m] /\ m \notin act[a].doing]
    /\ Become(a, [act[a] EXCEPT !.stage = IF act[a].normal THEN "resume" ELSE "reset"])
    /\ UNCHANGED <<current, rowVars, attached, phase, status, moves, failures>>

\* Mutant: the status is left as it is.
ResetNothing(a) ==
    /\ At(a, "reset")
    /\ GoTo(a, "resume")
    /\ UNCHANGED <<current, rowVars, attached, phase, paused, status, moves, failures>>

Reset(a) ==
    /\ At(a, "reset")
    /\ status' = [m \in Monitors |-> IF m \in act[a].doing THEN "Operational" ELSE status[m]]
    /\ GoTo(a, "resume")
    /\ UNCHANGED <<current, rowVars, attached, phase, paused, moves, failures>>

\* changeScheduledMaintenanceState writes the state the hook has written already.
Rewrite(a) ==
    /\ At(a, "rewrite")
    /\ WriteCurrent(act[a].event, act[a].to)
    /\ Moved(a)
    /\ UNCHANGED <<rowVars, attached, phase, paused, status, moves, failures>>

-----------------------------------------------------------------------------
(* Requests of users.                                                      *)

Request(u, e, stage, to, again) ==
    /\ At(u, "idle")
    /\ moves < MaxMoves /\ moves' = moves + 1
    /\ Become(u, [Idle EXCEPT !.stage = stage, !.event = e, !.to = to, !.again = again])

\* The event is created scheduled; its first row is created by the hook.
CreateEvent(u, e) ==
    /\ At(u, "idle")
    /\ current[e] = "none"
    /\ current' = [current EXCEPT ![e] = "Scheduled"]
    /\ Become(u, [Idle EXCEPT !.stage = "record", !.event = e])
    /\ UNCHANGED <<rowVars, attached, phase, paused, status, moves, failures>>

\* The dashboard creates the timeline row.
CreateRow(u, e, to) ==
    /\ Exists(e)
    /\ Request(u, e, "record", to, FALSE)
    /\ UNCHANGED <<current, rowVars, attached, phase, paused, status, failures>>

\* An update of the event's state is followed by changeScheduledMaintenanceState.
UpdateState(u, e, to) ==
    /\ Exists(e)
    /\ WriteCurrent(e, to)
    /\ Request(u, e, "check", to, TRUE)
    /\ UNCHANGED <<rowVars, attached, phase, paused, status, failures>>

\* The last row, or one before it, is deleted: not the only one.  Then the event
\* gets the state of the row that is last by now.
DeleteRow(u, e) ==
    /\ Exists(e)
    /\ Request(u, e, "reread", "Scheduled", FALSE)
    /\ \E s \in older[e], left \in SUBSET older[e] :
          /\ older[e] \subseteq left \cup {s} \* another row of that state may be left
          /\ older' = [older EXCEPT ![e] = left]
          /\ last' = [last EXCEPT ![e] = s] \/ UNCHANGED last
    /\ UNCHANGED <<current, attached, phase, paused, status, failures>>

RereadLast(u) ==
    /\ At(u, "reread")
    /\ LET e == act[u].event
       IN  Become(u, IF last[e] = "none" THEN Idle
                     ELSE [act[u] EXCEPT !.stage = "restore", !.to = last[e]])
    /\ UNCHANGED <<current, rowVars, attached, phase, paused, status, moves, failures>>

Restore(u) ==
    /\ At(u, "restore")
    /\ WriteCurrent(act[u].event, act[u].to)
    /\ Become(u, Idle)
    /\ UNCHANGED <<rowVars, attached, phase, paused, status, moves, failures>>

\* Its rows go with the event; then the monitors it had are resumed.
DeleteEvent(u, e) ==
    /\ Exists(e)
    /\ At(u, "idle")
    /\ moves < MaxMoves /\ moves' = moves + 1
    /\ Become(u, [Idle EXCEPT !.stage = "resume", !.event = e, !.todo = attached[e]])
    /\ current' = [current EXCEPT ![e] = "deleted"]
    /\ last' = [last EXCEPT ![e] = "none"]
    /\ older' = [older EXCEPT ![e] = {}]
    /\ UNCHANGED <<attached, phase, paused, status, failures>>

EditMonitors(e) ==
    /\ Exists(e)
    /\ moves < MaxMoves /\ moves' = moves + 1
    /\ \E monitors \in SUBSET Monitors : attached' = [attached EXCEPT ![e] = monitors]
    /\ UNCHANGED <<current, rowVars, phase, paused, status, act, failures>>

Reschedule(e) ==
    /\ Exists(e)
    /\ moves < MaxMoves /\ moves' = moves + 1
    /\ phase' = [phase EXCEPT ![e] = "before"]
    /\ UNCHANGED <<current, rowVars, attached, paused, status, act, failures>>

-----------------------------------------------------------------------------
Tick(e) ==
    /\ Exists(e)
    /\ \/ phase[e] = "before" /\ phase' = [phase EXCEPT ![e] = "during"]
       \/ phase[e] = "during" /\ phase' = [phase EXCEPT ![e] = "after"]
    /\ UNCHANGED <<current, rowVars, attached, paused, status, act, moves, failures>>

\* A process dies, or a query throws: nobody takes up what the job or the
\* request was at.
Abort(a) ==
    /\ ~At(a, "idle")
    /\ failures < MaxFailures /\ failures' = failures + 1
    /\ Become(a, Idle)
    /\ UNCHANGED <<current, rowVars, attached, phase, paused, status, moves>>

Step(a) ==
    \/ Check(a) \/ Record(a) \/ Apply(a) \/ ReadMonitors(a) \/ Pause(a)
    \/ Resume(a) \/ Lift(a) \/ Reset(a) \/ Rewrite(a)

JobStep(j) == NextEvent(j) \/ Attach(j)

UserStep(u) == RereadLast(u) \/ Restore(u)

UserRequest(u, e) ==
    \/ CreateEvent(u, e) \/ DeleteRow(u, e) \/ DeleteEvent(u, e)
    \/ \E to \in State : CreateRow(u, e, to) \/ UpdateState(u, e, to)

Next ==
    \/ \E a \in Actors : Step(a) \/ Abort(a)
    \/ \E j \in Jobs : Snapshot(j) \/ JobStep(j)
    \/ \E u \in Users : UserStep(u)
    \/ \E u \in Users, e \in Events : UserRequest(u, e)
    \/ \E e \in Events : EditMonitors(e) \/ Reschedule(e) \/ Tick(e)

Spec == Init /\ [][Next]_vars

\* Time passes, the cron jobs keep firing and what runs makes progress.
Fairness ==
    /\ \A e \in Events : WF_vars(Tick(e))
    /\ \A j \in Jobs : WF_vars(Snapshot(j)) /\ WF_vars(JobStep(j))
    /\ \A a \in Actors : WF_vars(Step(a))
    /\ \A u \in Users : WF_vars(UserStep(u))

FairSpec == Spec /\ Fairness

-----------------------------------------------------------------------------
(* Properties.                                                             *)

Quiet == \A a \in Actors : At(a, "idle")

\* The monitors of an ongoing event are not monitored.
PausedWhileOngoing ==
    Quiet => \A e \in Events : \A m \in attached[e] : current[e] = "Ongoing" => paused[m]

Over(m) == \A e \in Events :
               m \in attached[e] => current[e] \in {"none", "Ended", "deleted"}

\* A monitor whose events are all over is monitored again, and operational.
ResumedWhenOver ==
    Quiet => \A m \in Monitors : Over(m) => ~paused[m] /\ status[m] = "Operational"

Settled(e) == current[e] = "Ended" /\ \A a \in Actors : act[a].event # e /\ e \notin act[a].list

\* Once an event has ended and nothing works on it, only a request of a user
\* ever takes it up again: the jobs never reopen it.
EndedStaysEnded ==
    [][\A e \in Events : Settled(e) => Settled(e)' \/ \E u \in Users : act'[u].event = e]_vars

\* Every event comes to its end, though jobs and requests die and overlap,
\* unless they have left its last row different from its current state, which
\* no later run of the jobs repairs.
EventsEnd ==
    \A e \in Events :
        \/ <>[](current[e] \in {"none", "Ended", "deleted"})
        \/ <>[](last[e] # current[e])
=============================================================================
