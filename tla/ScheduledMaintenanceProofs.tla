--------------------- MODULE ScheduledMaintenanceProofs ---------------------
(* Theorems about ScheduledMaintenance, for every value of its constants.  *)
EXTENDS MCScheduledMaintenance, FiniteSetTheorems, TLAPS

LEMMA TwoCounted ==
    ASSUME NEW S, IsFiniteSet(S), NEW q \in S, NEW r \in S, q # r
    PROVE  Cardinality(S) > 1
<1>1. Cardinality(S) \in Nat
    BY FS_CardinalityType
<1>2. IsFiniteSet({q}) /\ Cardinality({q}) = 1
    BY FS_Singleton
<1>3. Cardinality({q} \cup {r}) = 2
    BY <1>2, FS_AddElement
<1>4. Cardinality({q} \cup {r}) <= Cardinality(S)
    BY FS_Subset
<1>5. QED
    BY <1>1, <1>3, <1>4

USE ActorsAssumption

-----------------------------------------------------------------------------
(* What the updates of act shared by the actions return.                   *)

\* An actor that is at work on an event has one.
Placed(r) == IF r.stage \in {"idle", "next"} THEN r.event = NoEvent ELSE r.event \in Events

IInv == TypeOK /\ \A a \in Actors : Placed(act[a])

\* Only what actor a is at changes, and it takes up no other event.
Keeps(a) ==
    /\ act' \in [Actors -> Act]
    /\ \A b \in Actors : b # a => act'[b] = act[b]
    /\ Placed(act'[a])
    /\ act'[a].event \in {act[a].event, NoEvent}
    /\ act'[a].list \subseteq act[a].list

LEMMA BecomeKeeps ==
    ASSUME TypeOK, NEW a \in Actors, NEW new \in Act, Become(a, new), Placed(new),
           new.event \in {act[a].event, NoEvent}, new.list \subseteq act[a].list
    PROVE  Keeps(a)
<1>1. act \in [Actors -> Act]
    BY DEF TypeOK
<1>2. act' \in [Actors -> Act] /\ act'[a] = new /\ \A b \in Actors : b # a => act'[b] = act[b]
    BY <1>1 DEF Become
<1>3. QED
    BY <1>2 DEF Keeps

LEMMA IdleAct == Idle \in Act /\ Placed(Idle) /\ Idle.event = NoEvent /\ Idle.list = {}
BY DEF Idle, Act, Stage, State, Placed

LEMMA IdleKeeps ==
    ASSUME TypeOK, NEW a \in Actors, Become(a, Idle)
    PROVE  Keeps(a)
BY IdleAct, BecomeKeeps

\* Stages at which an actor has an event.
Busy == Stage \ {"idle", "next"}

LEMMA GoToKeeps ==
    ASSUME IInv, NEW a \in Actors, NEW stage \in Busy, act[a].event \in Events, GoTo(a, stage)
    PROVE  Keeps(a)
<1> DEFINE new == [act[a] EXCEPT !.stage = stage]
<1>1. act[a] \in Act
    BY DEF IInv, TypeOK
<1>2. /\ new \in Act /\ new.stage = stage
      /\ new.event = act[a].event /\ new.list = act[a].list
    BY <1>1 DEF Act, Busy
<1>3. Become(a, new)
    BY DEF GoTo
<1> HIDE DEF new
<1>4. Placed(new)
    BY <1>2 DEF Placed, Busy
<1>5. QED
    BY <1>2, <1>3, <1>4, BecomeKeeps DEF IInv

LEMMA MovedKeeps ==
    ASSUME IInv, NEW a \in Actors, act[a].event \in Events, Moved(a)
    PROVE  Keeps(a)
<1>1. act[a] \in Act
    BY DEF IInv, TypeOK
<1>2. CASE a \in Starters
  <2> DEFINE new == [act[a] EXCEPT !.stage = "attach", !.todo = act[a].seen[act[a].event]]
  <2>1. /\ new \in Act /\ new.stage = "attach"
        /\ new.event = act[a].event /\ new.list = act[a].list
    BY <1>1 DEF Act, Stage
  <2>2. Become(a, new)
    BY <1>2 DEF Moved
  <2> HIDE DEF new
  <2>3. QED
    BY <2>1, <2>2, BecomeKeeps DEF IInv, Placed
<1>3. CASE a \in Enders
  <2> DEFINE new == [act[a] EXCEPT !.stage = "next", !.event = NoEvent]
  <2>1. /\ new \in Act /\ new.stage = "next"
        /\ new.event = NoEvent /\ new.list = act[a].list
    BY <1>1 DEF Act, Stage
  <2>2. Become(a, new)
    BY <1>3 DEF Moved
  <2> HIDE DEF new
  <2>3. QED
    BY <2>1, <2>2, BecomeKeeps DEF IInv, Placed
<1>4. CASE a \notin Starters /\ a \notin Enders
    BY <1>4, IdleKeeps DEF Moved, IInv
<1>5. QED
    BY <1>2, <1>3, <1>4

LEMMA RowDoneKeeps ==
    ASSUME IInv, NEW a \in Actors, act[a].event \in Events, RowDone(a)
    PROVE  Keeps(a)
BY GoToKeeps, MovedKeeps DEF RowDone, Busy, Stage

\* The list of monitors to be paused or resumed.
LEMMA TodoKeeps ==
    ASSUME IInv, NEW a \in Actors, act[a].event \in Events, NEW stage \in Busy,
           NEW todo \in SUBSET Monitors,
           Become(a, [act[a] EXCEPT !.stage = stage, !.todo = todo])
    PROVE  Keeps(a)
<1> DEFINE new == [act[a] EXCEPT !.stage = stage, !.todo = todo]
<1>1. act[a] \in Act
    BY DEF IInv, TypeOK
<1>2. /\ new \in Act /\ new.stage = stage
      /\ new.event = act[a].event /\ new.list = act[a].list
    BY <1>1 DEF Act, Busy
<1> HIDE DEF new
<1>3. Placed(new)
    BY <1>2 DEF Placed, Busy
<1>4. Become(a, new)
    BY DEF new
<1>5. QED
    BY <1>2, <1>3, <1>4, BecomeKeeps DEF IInv

LEMMA LessTodoKeeps ==
    ASSUME IInv, NEW a \in Actors, act[a].event \in Events, NEW m,
           act[a].stage \in Busy,
           Become(a, [act[a] EXCEPT !.todo = @ \ {m}])
    PROVE  Keeps(a)
<1> DEFINE new == [act[a] EXCEPT !.todo = @ \ {m}]
<1>1. act[a] \in Act
    BY DEF IInv, TypeOK
<1>2. /\ new \in Act /\ new.stage = act[a].stage
      /\ new.event = act[a].event /\ new.list = act[a].list
    BY <1>1 DEF Act
<1> HIDE DEF new
<1>3. Placed(new)
    BY <1>2 DEF Placed, Busy
<1>4. Become(a, new)
    BY DEF new
<1>5. QED
    BY <1>2, <1>3, <1>4, BecomeKeeps DEF IInv

-----------------------------------------------------------------------------
(* Steps of one actor.                                                     *)

LEMMA ResumeKeeps ==
    ASSUME IInv, NEW a \in Actors, Resume(a)
    PROVE  Keeps(a)
<1>1. act[a] \in Act /\ act[a].event \in Events /\ act[a].stage = "resume" /\ "resume" \in Busy
    BY DEF IInv, TypeOK, Resume, At, Placed, Busy, Stage
<1>2. CASE act[a].todo = {} /\ RowDone(a)
    BY <1>1, <1>2, RowDoneKeeps
<1>3. ASSUME NEW m \in act[a].todo, Become(a, [act[a] EXCEPT !.todo = @ \ {m}])
      PROVE  Keeps(a)
    BY <1>1, <1>3, LessTodoKeeps
<1>4. ASSUME NEW m \in act[a].todo,
             Become(a, [act[a] EXCEPT !.stage = "lift", !.todo = @ \ {m}, !.doing = {m},
                                      !.normal = (status[m] = "Operational")])
      PROVE  Keeps(a)
  <2> DEFINE new == [act[a] EXCEPT !.stage = "lift", !.todo = @ \ {m}, !.doing = {m},
                                   !.normal = (status[m] = "Operational")]
  <2>1. m \in Monitors
    BY <1>1 DEF Act
  <2>2. /\ new \in Act /\ new.stage = "lift"
        /\ new.event = act[a].event /\ new.list = act[a].list
    BY <1>1, <2>1 DEF Act, Stage
  <2> HIDE DEF new
  <2>3. Placed(new)
    BY <1>1, <2>2 DEF Placed
  <2>4. Become(a, new)
    BY <1>4 DEF new
  <2>5. QED
    BY <2>2, <2>3, <2>4, BecomeKeeps DEF IInv
<1>5. QED
    BY <1>2, <1>3, <1>4 DEF Resume

LEMMA PauseKeeps ==
    ASSUME IInv, NEW a \in Actors, Pause(a)
    PROVE  Keeps(a)
<1>1. act[a] \in Act /\ act[a].event \in Events /\ act[a].stage = "pause" /\ "pause" \in Busy
    BY DEF IInv, TypeOK, Pause, At, Placed, Busy, Stage
<1>2. CASE act[a].todo = {} /\ RowDone(a)
    BY <1>1, <1>2, RowDoneKeeps
<1>3. ASSUME NEW m \in act[a].todo, Become(a, [act[a] EXCEPT !.todo = @ \ {m}])
      PROVE  Keeps(a)
    BY <1>1, <1>3, LessTodoKeeps
<1>4. QED
    BY <1>2, <1>3 DEF Pause

LEMMA ReadKeeps ==
    ASSUME IInv, NEW a \in Actors, ReadMonitors(a)
    PROVE  Keeps(a)
<1> DEFINE found == IF Exists(act[a].event) THEN attached[act[a].event] ELSE {}
<1>1. act[a].event \in Events /\ "pause" \in Busy /\ "resume" \in Busy
    BY DEF IInv, ReadMonitors, At, Placed, Busy, Stage
<1>2. found \in SUBSET Monitors
    BY <1>1 DEF IInv, TypeOK
<1>3. \/ RowDone(a)
      \/ Become(a, [act[a] EXCEPT !.stage = "pause", !.todo = found])
      \/ Become(a, [act[a] EXCEPT !.stage = "resume", !.todo = found])
    BY DEF ReadMonitors
<1> HIDE DEF found
<1>4. QED
    BY <1>1, <1>2, <1>3, RowDoneKeeps, TodoKeeps

LEMMA LiftKeeps ==
    ASSUME IInv, NEW a \in Actors, Lift(a)
    PROVE  Keeps(a)
<1> DEFINE stage == IF act[a].normal THEN "resume" ELSE "reset"
<1>1. act[a].event \in Events /\ stage \in Busy
    BY DEF IInv, Lift, At, Placed, Busy, Stage
<1>2. GoTo(a, stage)
    BY DEF Lift, GoTo
<1> HIDE DEF stage
<1>3. QED
    BY <1>1, <1>2, GoToKeeps

\* Whatever an actor does with its event, it is the event it has.
LEMMA StepKeeps ==
    ASSUME IInv, NEW a \in Actors, Step(a)
    PROVE  Keeps(a) /\ act[a].event \in Events
<1>1. act[a].event \in Events
    BY DEF IInv, Placed, At, Step, Check, Record, Apply, ReadMonitors, Pause, Resume, Lift,
           Reset, Rewrite
<1>2. CASE Check(a)
    BY <1>1, <1>2, MovedKeeps, GoToKeeps DEF Check, Busy, Stage
<1>3. CASE Record(a)
    BY <1>1, <1>3, IdleKeeps, GoToKeeps DEF Record, Busy, Stage, IInv
<1>4. CASE Apply(a)
    BY <1>1, <1>4, GoToKeeps DEF Apply, Busy, Stage
<1>5. CASE Reset(a)
    BY <1>1, <1>5, GoToKeeps DEF Reset, Busy, Stage
<1>6. CASE Rewrite(a)
    BY <1>1, <1>6, MovedKeeps DEF Rewrite
<1>7. QED
    BY <1>1, <1>2, <1>3, <1>4, <1>5, <1>6, ReadKeeps, PauseKeeps, ResumeKeeps, LiftKeeps
    DEF Step

\* A job that takes an event takes it from its list.
LEMMA NextEventMoves ==
    ASSUME IInv, NEW j \in Jobs, NextEvent(j)
    PROVE  /\ act' \in [Actors -> Act]
           /\ \A b \in Actors : b # j => act'[b] = act[b]
           /\ Placed(act'[j])
           /\ act'[j].event \in {NoEvent} \cup act[j].list
           /\ act'[j].list \subseteq act[j].list
<1>1. act[j] \in Act /\ j \in Actors
    BY DEF IInv, TypeOK, Actors
<1>2. CASE Become(j, Idle)
    BY <1>1, <1>2, IdleKeeps DEF Keeps, IInv, NextEvent, At, Placed
<1>3. ASSUME NEW e \in act[j].list,
             Become(j, [act[j] EXCEPT !.stage = "check", !.list = @ \ {e}, !.event = e,
                           !.to = IF j \in Starters THEN "Ongoing" ELSE "Ended",
                           !.again = TRUE])
      PROVE  /\ act' \in [Actors -> Act]
             /\ \A b \in Actors : b # j => act'[b] = act[b]
             /\ Placed(act'[j])
             /\ act'[j].event \in {NoEvent} \cup act[j].list
             /\ act'[j].list \subseteq act[j].list
  <2> DEFINE to == IF j \in Starters THEN "Ongoing" ELSE "Ended"
             new == [act[j] EXCEPT !.stage = "check", !.list = @ \ {e}, !.event = e,
                                   !.to = to, !.again = TRUE]
  <2>1. to \in State
    BY DEF State
  <2>2. Become(j, new)
    BY <1>3
  <2> HIDE DEF to
  <2>3. /\ new \in Act /\ new.stage = "check" /\ new.event = e /\ e \in Events
        /\ new.list \subseteq act[j].list
    BY <1>1, <2>1 DEF Act, Stage
  <2> HIDE DEF new
  <2>4. act \in [Actors -> Act]
    BY DEF IInv, TypeOK
  <2>5. QED
    BY <1>1, <2>2, <2>3, <2>4 DEF Become, Placed
<1>4. QED
    BY <1>2, <1>3 DEF NextEvent

LEMMA AttachKeeps ==
    ASSUME IInv, NEW j \in Jobs, Attach(j)
    PROVE  Keeps(j)
<1>1. /\ act[j] \in Act /\ j \in Actors /\ act[j].event \in Events /\ act[j].stage \in Busy
    BY DEF IInv, TypeOK, Actors, Attach, At, Placed, Busy, Stage
<1>2. CASE Become(j, [act[j] EXCEPT !.stage = "next", !.event = NoEvent])
  <2> DEFINE new == [act[j] EXCEPT !.stage = "next", !.event = NoEvent]
  <2>1. /\ new \in Act /\ new.stage = "next" /\ new.event = NoEvent
        /\ new.list = act[j].list
    BY <1>1 DEF Act, Stage
  <2>2. Become(j, new)
    BY <1>2
  <2> HIDE DEF new
  <2>3. QED
    BY <1>1, <2>1, <2>2, BecomeKeeps DEF IInv, Placed
<1>3. ASSUME NEW m \in act[j].todo, Become(j, [act[j] EXCEPT !.todo = @ \ {m}])
      PROVE  Keeps(j)
    BY <1>1, <1>3, LessTodoKeeps
<1>4. QED
    BY <1>2, <1>3 DEF Attach

\* A snapshot holds events that are scheduled or ongoing.
LEMMA SnapshotMoves ==
    ASSUME IInv, NEW j \in Jobs, Snapshot(j)
    PROVE  /\ act' \in [Actors -> Act]
           /\ \A b \in Actors : b # j => act'[b] = act[b]
           /\ Placed(act'[j]) /\ act'[j].event = NoEvent
           /\ act'[j].list \subseteq {e \in Events : current[e] \in {"Scheduled", "Ongoing"}}
<1> DEFINE found == {e \in Events : IF j \in Starters THEN Starts(e) ELSE Ends(e)}
           seen == [e \in Events |-> IF e \in found THEN attached[e] ELSE {}]
           new == [Idle EXCEPT !.stage = "next", !.list = found, !.seen = seen]
<1>1. found \subseteq {e \in Events : current[e] \in {"Scheduled", "Ongoing"}}
    BY DEF Starts, Ends
<1>2. seen \in [Events -> SUBSET Monitors]
    BY DEF IInv, TypeOK
<1>3. Become(j, new)
    BY DEF Snapshot
<1> HIDE DEF found, seen
<1>4. new \in Act /\ new.stage = "next" /\ new.event = NoEvent /\ new.list = found
    BY <1>1, <1>2 DEF Act, Idle, Stage, State
<1> HIDE DEF new
<1>5. act \in [Actors -> Act] /\ j \in Actors
    BY DEF IInv, TypeOK, Actors
<1>6. QED
    BY <1>1, <1>3, <1>4, <1>5 DEF Become, Placed

\* A user's request is about the event he asks for.
Asks(u, e) ==
    /\ act' \in [Actors -> Act]
    /\ \A b \in Actors : b # u => act'[b] = act[b]
    /\ Placed(act'[u]) /\ act'[u].event = e /\ act'[u].list = {}

LEMMA AskMoves ==
    ASSUME IInv, NEW u \in Users, NEW e \in Events, NEW new \in Act, Become(u, new),
           new.stage \in Busy, new.event = e, new.list = {}
    PROVE  Asks(u, e)
<1>1. act \in [Actors -> Act] /\ u \in Actors
    BY DEF IInv, TypeOK, Actors
<1>2. Placed(new)
    BY DEF Placed, Busy
<1>3. QED
    BY <1>1, <1>2 DEF Become, Asks

LEMMA RequestAsks ==
    ASSUME IInv, NEW u \in Users, NEW e \in Events, NEW stage \in Busy, NEW to \in State,
           NEW again \in BOOLEAN, Request(u, e, stage, to, again)
    PROVE  Asks(u, e)
<1> DEFINE new == [Idle EXCEPT !.stage = stage, !.event = e, !.to = to, !.again = again]
<1>1. Become(u, new)
    BY DEF Request
<1>2. new \in Act /\ new.stage = stage /\ new.event = e /\ new.list = {}
    BY DEF Act, Idle, Busy
<1> HIDE DEF new
<1>3. QED
    BY <1>1, <1>2, AskMoves

LEMMA RequestMoves ==
    ASSUME IInv, NEW u \in Users, NEW e \in Events, UserRequest(u, e)
    PROVE  Asks(u, e)
<1>1. CASE CreateEvent(u, e)
  <2> DEFINE new == [Idle EXCEPT !.stage = "record", !.event = e]
  <2>1. Become(u, new)
    BY <1>1 DEF CreateEvent
  <2>2. new \in Act /\ new.stage = "record" /\ new.event = e /\ new.list = {}
    BY DEF Act, Idle, Stage, State
  <2> HIDE DEF new
  <2>3. QED
    BY <2>1, <2>2, AskMoves DEF Busy, Stage
<1>2. CASE DeleteEvent(u, e)
  <2> DEFINE new == [Idle EXCEPT !.stage = "resume", !.event = e, !.todo = attached[e]]
  <2>1. Become(u, new)
    BY <1>2 DEF DeleteEvent
  <2>2. attached[e] \in SUBSET Monitors
    BY DEF IInv, TypeOK
  <2>3. new \in Act /\ new.stage = "resume" /\ new.event = e /\ new.list = {}
    BY <2>2 DEF Act, Idle, Stage, State
  <2> HIDE DEF new
  <2>4. QED
    BY <2>1, <2>3, AskMoves DEF Busy, Stage
<1>3. CASE DeleteRow(u, e)
    BY <1>3, RequestAsks DEF DeleteRow, Busy, Stage, State
<1>4. ASSUME NEW to \in State, CreateRow(u, e, to) \/ UpdateState(u, e, to)
      PROVE  Asks(u, e)
    BY <1>4, RequestAsks DEF CreateRow, UpdateState, Busy, Stage
<1>5. QED
    BY <1>1, <1>2, <1>3, <1>4 DEF UserRequest

LEMMA UserStepKeeps ==
    ASSUME IInv, NEW u \in Users, UserStep(u)
    PROVE  Keeps(u) /\ act[u].event \in Events
<1>1. /\ act[u] \in Act /\ u \in Actors /\ act[u].event \in Events
      /\ last[act[u].event] \in State \cup {"none"}
    BY DEF IInv, TypeOK, Actors, UserStep, RereadLast, Restore, At, Placed
<1>2. CASE Become(u, Idle)
    BY <1>1, <1>2, IdleKeeps DEF IInv
<1>3. ASSUME NEW s \in State, Become(u, [act[u] EXCEPT !.stage = "restore", !.to = s])
      PROVE  Keeps(u)
  <2> DEFINE new == [act[u] EXCEPT !.stage = "restore", !.to = s]
  <2>1. /\ new \in Act /\ new.stage = "restore" /\ new.event = act[u].event
        /\ new.list = act[u].list
    BY <1>1 DEF Act, Stage
  <2>2. Become(u, new)
    BY <1>3
  <2> HIDE DEF new
  <2>3. QED
    BY <1>1, <2>1, <2>2, BecomeKeeps DEF IInv, Placed
<1>4. QED
    BY <1>1, <1>2, <1>3 DEF UserStep, RereadLast, Restore

-----------------------------------------------------------------------------
(* Type correctness, with the events of the actors at work.                *)

LEMMA KeepsPlaced ==
    ASSUME IInv, NEW a \in Actors, Keeps(a)
    PROVE  act' \in [Actors -> Act] /\ \A b \in Actors : Placed(act[b])'
BY DEF IInv, Keeps, Placed

LEMMA StepTypes ==
    ASSUME IInv, NEW a \in Actors, Step(a)
    PROVE  IInv'
<1>1. Keeps(a) /\ act[a].event \in Events /\ act[a] \in Act
    BY StepKeeps DEF IInv, TypeOK
<1>2. act' \in [Actors -> Act] /\ \A b \in Actors : Placed(act[b])'
    BY <1>1, KeepsPlaced
<1>3. /\ current' \in [Events -> State \cup {"none", "deleted"}]
      /\ last' \in [Events -> State \cup {"none"}] /\ older' \in [Events -> SUBSET State]
  <2>1. CASE Record(a)
    <3> DEFINE e == act[a].event
               to == act[a].to
    <3>1. e \in Events /\ to \in State
      BY <1>1 DEF Act
    <3>2. CASE /\ last' = [last EXCEPT ![e] = to]
               /\ older' = [older EXCEPT ![e] = (@ \cup {last[e]}) \ {"none"}]
      <4> HIDE DEF e, to
      <4>1. (older[e] \cup {last[e]}) \ {"none"} \subseteq State
        BY <3>1 DEF IInv, TypeOK
      <4>2. QED
        BY <2>1, <3>1, <3>2, <4>1 DEF IInv, TypeOK, Record
    <3>3. CASE UNCHANGED rowVars
      BY <2>1, <3>3 DEF IInv, TypeOK, Record, rowVars
    <3>4. QED
      BY <2>1, <3>2, <3>3 DEF Record
  <2>2. CASE Apply(a) \/ Rewrite(a)
    BY <1>1, <2>2 DEF IInv, TypeOK, Apply, Rewrite, WriteCurrent, rowVars, Act
  <2>3. CASE UNCHANGED <<current, rowVars>>
    BY <2>3 DEF IInv, TypeOK, rowVars
  <2>4. QED
    BY <2>1, <2>2, <2>3
    DEF Step, Check, ReadMonitors, Pause, Resume, Lift, Reset
<1>4. /\ paused' \in [Monitors -> BOOLEAN] /\ status' \in [Monitors -> Statuses]
    BY <1>1
    DEF IInv, TypeOK, Step, Check, Record, Apply, ReadMonitors, Pause, Resume, Lift, Reset,
        Rewrite, Act, Statuses
<1>5. UNCHANGED <<attached, phase, moves, failures>>
    BY DEF Step, Check, Record, Apply, ReadMonitors, Pause, Resume, Lift, Reset, Rewrite
<1>6. QED
    BY <1>2, <1>3, <1>4, <1>5 DEF IInv, TypeOK

LEMMA OtherTypes ==
    ASSUME IInv,
           \/ \E a \in Actors : Abort(a)
           \/ \E j \in Jobs : Snapshot(j) \/ JobStep(j)
           \/ \E u \in Users : UserStep(u)
           \/ \E u \in Users, e \in Events : UserRequest(u, e)
           \/ \E e \in Events : EditMonitors(e) \/ Reschedule(e) \/ Tick(e)
    PROVE  IInv'
<1> USE DEF IInv
<1>1. ASSUME NEW a \in Actors, Abort(a) PROVE IInv'
  <2>1. act' \in [Actors -> Act] /\ \A b \in Actors : Placed(act[b])'
    BY <1>1, IdleKeeps, KeepsPlaced DEF Abort
  <2>2. failures' \in 0..MaxFailures
    BY <1>1 DEF Abort, TypeOK
  <2>3. QED
    BY <1>1, <2>1, <2>2 DEF Abort, TypeOK, rowVars
<1>2. ASSUME NEW j \in Jobs, Snapshot(j) \/ JobStep(j) PROVE IInv'
  <2>1. CASE Snapshot(j)
    <3>1. act' \in [Actors -> Act] /\ \A b \in Actors : Placed(act[b])'
      BY <2>1, SnapshotMoves
    <3>2. QED
      BY <2>1, <3>1 DEF Snapshot, TypeOK, rowVars
  <2>2. CASE NextEvent(j)
    <3>1. act' \in [Actors -> Act] /\ \A b \in Actors : Placed(act[b])'
      BY <2>2, NextEventMoves
    <3>2. QED
      BY <2>2, <3>1 DEF NextEvent, TypeOK, rowVars
  <2>3. CASE Attach(j)
    <3>1. act' \in [Actors -> Act] /\ \A b \in Actors : Placed(act[b])'
      BY <2>3, AttachKeeps, KeepsPlaced DEF Actors
    <3>2. status' \in [Monitors -> Statuses]
      BY <2>3 DEF Attach, TypeOK, Statuses
    <3>3. QED
      BY <2>3, <3>1, <3>2 DEF Attach, TypeOK, rowVars
  <2>4. QED
    BY <1>2, <2>1, <2>2, <2>3 DEF JobStep
<1>3. ASSUME NEW u \in Users, UserStep(u) PROVE IInv'
  <2>1. act' \in [Actors -> Act] /\ \A b \in Actors : Placed(act[b])'
    BY <1>3, UserStepKeeps, KeepsPlaced DEF Actors
  <2>2. act[u] \in Act
    BY DEF TypeOK, Actors
  <2>3. current' \in [Events -> State \cup {"none", "deleted"}]
    BY <1>3, <2>2 DEF UserStep, RereadLast, Restore, WriteCurrent, TypeOK, Act
  <2>4. UNCHANGED <<rowVars, attached, phase, paused, status, moves, failures>>
    BY <1>3 DEF UserStep, RereadLast, Restore
  <2>5. QED
    BY <2>1, <2>3, <2>4 DEF TypeOK, rowVars
<1>4. ASSUME NEW u \in Users, NEW e \in Events, UserRequest(u, e) PROVE IInv'
  <2>1. act' \in [Actors -> Act] /\ \A b \in Actors : Placed(act[b])'
    BY <1>4, RequestMoves DEF Asks
  <2>2. current' \in [Events -> State \cup {"none", "deleted"}]
    <3>1. CASE CreateEvent(u, e) \/ DeleteRow(u, e) \/ DeleteEvent(u, e)
      BY <3>1 DEF CreateEvent, DeleteRow, DeleteEvent, TypeOK, State
    <3>2. ASSUME NEW to \in State, CreateRow(u, e, to) \/ UpdateState(u, e, to)
          PROVE  current' \in [Events -> State \cup {"none", "deleted"}]
      BY <3>2 DEF CreateRow, UpdateState, WriteCurrent, TypeOK
    <3>3. QED
      BY <1>4, <3>1, <3>2 DEF UserRequest
  <2>3. last' \in [Events -> State \cup {"none"}] /\ older' \in [Events -> SUBSET State]
    <3>1. CASE DeleteRow(u, e)
      <4>1. PICK s \in older[e], left \in SUBSET older[e] :
               /\ older' = [older EXCEPT ![e] = left]
               /\ last' = [last EXCEPT ![e] = s] \/ UNCHANGED last
        BY <3>1 DEF DeleteRow
      <4>2. s \in State /\ left \subseteq State
        BY <4>1 DEF TypeOK
      <4>3. QED
        BY <4>1, <4>2 DEF TypeOK
    <3>2. CASE DeleteEvent(u, e)
      BY <3>2 DEF DeleteEvent, TypeOK
    <3>3. CASE UNCHANGED rowVars
      BY <3>3 DEF TypeOK, rowVars
    <3>4. QED
      BY <1>4, <3>1, <3>2, <3>3 DEF UserRequest, CreateEvent, CreateRow, UpdateState
  <2>4. moves' \in 0..MaxMoves
    <3>1. UNCHANGED moves \/ (moves < MaxMoves /\ moves' = moves + 1)
      BY <1>4
      DEF UserRequest, CreateEvent, DeleteRow, DeleteEvent, CreateRow, UpdateState, Request
    <3>2. QED
      BY <3>1 DEF TypeOK
  <2>5. UNCHANGED <<attached, phase, paused, status, failures>>
    BY <1>4 DEF UserRequest, CreateEvent, DeleteRow, DeleteEvent, CreateRow, UpdateState
  <2>6. QED
    BY <2>1, <2>2, <2>3, <2>4, <2>5 DEF TypeOK
<1>5. ASSUME NEW e \in Events, EditMonitors(e) \/ Reschedule(e) \/ Tick(e) PROVE IInv'
  <2>1. UNCHANGED <<current, rowVars, paused, status, act, failures>>
    BY <1>5 DEF EditMonitors, Reschedule, Tick
  <2>2. attached' \in [Events -> SUBSET Monitors] /\ phase' \in [Events -> Phase]
    BY <1>5 DEF EditMonitors, Reschedule, Tick, TypeOK, Phase
  <2>3. moves' \in 0..MaxMoves
    BY <1>5 DEF EditMonitors, Reschedule, Tick, TypeOK
  <2>4. QED
    BY <2>1, <2>2, <2>3 DEF TypeOK, rowVars, Placed
<1>6. QED
    BY <1>1, <1>2, <1>3, <1>4, <1>5

LEMMA NextTyped == IInv /\ [Next]_vars => IInv'
<1>1. ASSUME IInv, UNCHANGED vars PROVE IInv'
    BY <1>1 DEF IInv, TypeOK, vars, rowVars, Placed
<1>2. QED
    BY <1>1, StepTypes, OtherTypes DEF Next

LEMMA Typed == Spec => []IInv
<1>1. Init => IInv
    BY IdleAct DEF Init, IInv, TypeOK, Phase, Statuses
<1>2. QED
    BY <1>1, NextTyped, PTL DEF Spec

\* Every variable keeps its type, whatever jobs and users do together.
THEOREM TypeCorrect == Spec => []TypeOK
BY Typed, PTL DEF IInv

-----------------------------------------------------------------------------
(* Nothing but a user's request takes up an event that is over.            *)

LEMMA NoEventIsNoEvent == \A e \in Events : e # NoEvent
OBVIOUS

\* An actor that keeps the event it has leaves the others alone.
LEMMA SettledKeeps ==
    ASSUME IInv, NEW a \in Actors, Keeps(a), NEW e \in Events, Settled(e), current'[e] = current[e]
    PROVE  Settled(e)'
<1>1. \A b \in Actors : act'[b].event # e /\ e \notin act'[b].list
    BY NoEventIsNoEvent DEF Keeps, Settled
<1>2. QED
    BY <1>1 DEF Settled

\* A step of an actor writes the state of its own event.
LEMMA StepWritesOwn ==
    ASSUME IInv, NEW a \in Actors, Step(a) \/ (a \in Users /\ UserStep(a)),
           NEW e \in Events, act[a].event # e
    PROVE  current'[e] = current[e]
BY DEF IInv, TypeOK, Step, Check, Record, Apply, ReadMonitors, Pause, Resume, Lift, Reset,
       Rewrite, UserStep, RereadLast, Restore, WriteCurrent

LEMMA SettledStep ==
    ASSUME IInv, [Next]_vars, NEW e \in Events, Settled(e)
    PROVE  Settled(e)' \/ \E u \in Users : act'[u].event = e
<1>1. ASSUME NEW a \in Actors, Step(a) PROVE Settled(e)'
  <2>1. current'[e] = current[e]
    BY <1>1, StepWritesOwn DEF Settled
  <2>2. QED
    BY <1>1, <2>1, StepKeeps, SettledKeeps
<1>2. ASSUME NEW a \in Actors, Abort(a) PROVE Settled(e)'
    BY <1>2, IdleKeeps, SettledKeeps DEF Abort, IInv
<1>3. ASSUME NEW j \in Jobs, Snapshot(j) PROVE Settled(e)'
  <2>1. e \notin act'[j].list /\ act'[j].event # e
    BY <1>3, SnapshotMoves, NoEventIsNoEvent DEF Settled
  <2>2. \A b \in Actors : b # j => act'[b] = act[b]
    BY <1>3, SnapshotMoves
  <2>3. QED
    BY <1>3, <2>1, <2>2 DEF Snapshot, Settled
<1>4. ASSUME NEW j \in Jobs, JobStep(j) PROVE Settled(e)'
  <2>1. CASE NextEvent(j)
    <3>1. e \notin act'[j].list /\ act'[j].event # e
      BY <2>1, NextEventMoves, NoEventIsNoEvent DEF Settled, Actors
    <3>2. \A b \in Actors : b # j => act'[b] = act[b]
      BY <2>1, NextEventMoves
    <3>3. QED
      BY <2>1, <3>1, <3>2 DEF NextEvent, Settled
  <2>2. CASE Attach(j)
    BY <2>2, AttachKeeps, SettledKeeps DEF Attach, Actors
  <2>3. QED
    BY <1>4, <2>1, <2>2 DEF JobStep
<1>5. ASSUME NEW u \in Users, UserStep(u) PROVE Settled(e)'
  <2>1. current'[e] = current[e]
    BY <1>5, StepWritesOwn DEF Settled, Actors
  <2>2. QED
    BY <1>5, <2>1, UserStepKeeps, SettledKeeps DEF Actors
<1>6. ASSUME NEW u \in Users, NEW f \in Events, UserRequest(u, f)
      PROVE  Settled(e)' \/ \E v \in Users : act'[v].event = e
  <2>1. Asks(u, f)
    BY <1>6, RequestMoves
  <2>2. CASE f = e
    BY <2>1, <2>2 DEF Asks
  <2>3. CASE f # e
    <3>1. current'[e] = current[e]
      BY <1>6, <2>3
      DEF UserRequest, CreateEvent, DeleteRow, DeleteEvent, CreateRow, UpdateState,
          WriteCurrent, IInv, TypeOK
    <3>2. QED
      BY <2>1, <2>3, <3>1 DEF Asks, Settled
  <2>4. QED
    BY <2>2, <2>3
<1>7. ASSUME NEW f \in Events, EditMonitors(f) \/ Reschedule(f) \/ Tick(f) PROVE Settled(e)'
    BY <1>7 DEF EditMonitors, Reschedule, Tick, Settled
<1>8. CASE UNCHANGED vars
    BY <1>8 DEF vars, Settled
<1>9. QED
    BY <1>1, <1>2, <1>3, <1>4, <1>5, <1>6, <1>7, <1>8 DEF Next

\* For any number of events, monitors, overlapping ticks of the two jobs and
\* requests: once an event is over and nothing works on it, only a request of
\* a user takes it up.
THEOREM JobsNeverReopen == Spec => EndedStaysEnded
<1>1. IInv /\ [Next]_vars =>
        [\A e \in Events :
            Settled(e) => Settled(e)' \/ \E u \in Users : act'[u].event = e]_vars
    BY SettledStep
<1>2. QED
    BY <1>1, Typed, PTL DEF Spec, EndedStaysEnded

-----------------------------------------------------------------------------
(* Jobs and requests in turn.  While one actor is at work on an event, the *)
(* rest is calm: the others' rows tell their states, their monitors are    *)
(* paused while they are ongoing and restored once they are over.  The     *)
(* monitors of the event itself are in order but for those still to do.    *)

RowTells(e) == Exists(e) => last[e] = current[e]

AllPaused(e) == current[e] = "Ongoing" => \A m \in attached[e] : paused[m]

RestoredOnceOver(m) == Over(m) => ~paused[m] /\ status[m] = "Operational"

Calm ==
    /\ \A e \in Events : RowTells(e) /\ AllPaused(e)
    /\ \A m \in Monitors : RestoredOnceOver(m)

CalmBut(e) ==
    /\ \A x \in Events : x # e => RowTells(x) /\ AllPaused(x)
    /\ \A m \in Monitors : m \notin attached[e] => RestoredOnceOver(m)

\* The event is over, and its monitors are restored but for those in set.
RestoredBut(e, set) ==
    /\ CalmBut(e) /\ RowTells(e)
    /\ current[e] \in {"Ended", "deleted"}
    /\ \A m \in attached[e] : m \notin set => RestoredOnceOver(m)

\* What a job has read of its events is still true, and it moves them to ongoing
\* if that is what it is for.
JobInv(a) ==
    /\ \A e \in act[a].list : Exists(e)
    /\ \A e \in Events : act[a].seen[e] \subseteq attached[e]
    /\ act[a].stage \in Busy =>
          /\ Exists(act[a].event)
          /\ a \in Starters => act[a].to = "Ongoing"

TurnInv(a) ==
    LET e  == act[a].event
        to == act[a].to
    IN  /\ act[a].stage \notin {"reread", "restore"}
        /\ a \in Jobs /\ ~At(a, "idle") => JobInv(a)
        /\ At(a, "next") => Calm
        /\ At(a, "check") => CalmBut(e) /\ Exists(e) /\ (last[e] = to => Calm)
        /\ At(a, "record") => CalmBut(e) /\ Exists(e)
        /\ At(a, "apply") => CalmBut(e) /\ Exists(e) /\ last[e] = to
        /\ At(a, "read") => CalmBut(e) /\ Exists(e) /\ RowTells(e) /\ current[e] = to
        /\ At(a, "pause") =>
              /\ CalmBut(e) /\ RowTells(e) /\ current[e] = "Ongoing" /\ to = "Ongoing"
              /\ act[a].todo \subseteq attached[e]
              /\ \A m \in attached[e] : m \notin act[a].todo => paused[m]
        /\ At(a, "resume") => RestoredBut(e, act[a].todo) /\ (Exists(e) => current[e] = to)
        /\ At(a, "lift") =>
              /\ RestoredBut(e, act[a].todo \cup act[a].doing) /\ (Exists(e) => current[e] = to)
              /\ \A m \in act[a].doing :
                    ~HasMoreOngoing(m) /\ (act[a].normal => status[m] = "Operational")
        /\ At(a, "reset") =>
              /\ RestoredBut(e, act[a].todo \cup act[a].doing) /\ (Exists(e) => current[e] = to)
              /\ \A m \in act[a].doing : ~paused[m]
        /\ At(a, "rewrite") => Calm /\ (Exists(e) => current[e] = to)
        /\ At(a, "attach") => Calm /\ current[e] = "Ongoing" /\ act[a].todo \subseteq attached[e]

OneAtWork == \A a, b \in Actors : ~At(a, "idle") /\ ~At(b, "idle") => a = b

InTurn ==
    /\ OneAtWork
    /\ \A a \in Actors : TurnInv(a)
    /\ Quiet => Calm

InTurnInv ==
    /\ IInv
    /\ edited \in BOOLEAN /\ overlapped \in BOOLEAN
    /\ Disturbed \/ InTurn

data == <<current, last, attached, paused, status>>

\* What is read of an actor other than where it is and what it has to do.
Same(a) == /\ act'[a].event = act[a].event /\ act'[a].to = act[a].to
           /\ act'[a].list = act[a].list /\ act'[a].seen = act[a].seen

LEMMA Becomes ==
    ASSUME IInv, NEW a \in Actors, NEW new, Become(a, new)
    PROVE  act'[a] = new /\ \A b \in Actors : b # a => act'[b] = act[b]
BY DEF IInv, TypeOK, Become

LEMMA GoToMoves ==
    ASSUME IInv, NEW a \in Actors, NEW stage, GoTo(a, stage)
    PROVE  /\ act'[a].stage = stage /\ Same(a)
           /\ act'[a].todo = act[a].todo /\ act'[a].doing = act[a].doing
<1> DEFINE new == [act[a] EXCEPT !.stage = stage]
<1>1. act[a] \in Act
    BY DEF IInv, TypeOK
<1>2. /\ new.stage = stage /\ new.event = act[a].event /\ new.to = act[a].to
      /\ new.list = act[a].list /\ new.seen = act[a].seen
      /\ new.todo = act[a].todo /\ new.doing = act[a].doing
    BY <1>1 DEF Act
<1>3. Become(a, new)
    BY DEF GoTo
<1> HIDE DEF new
<1>4. QED
    BY <1>2, <1>3, Becomes DEF Same

LEMMA TodoMoves ==
    ASSUME IInv, NEW a \in Actors, NEW stage, NEW todo,
           Become(a, [act[a] EXCEPT !.stage = stage, !.todo = todo])
    PROVE  /\ act'[a].stage = stage /\ Same(a)
           /\ act'[a].todo = todo
<1> DEFINE new == [act[a] EXCEPT !.stage = stage, !.todo = todo]
<1>1. act[a] \in Act
    BY DEF IInv, TypeOK
<1>2. /\ new.stage = stage /\ new.event = act[a].event /\ new.to = act[a].to
      /\ new.list = act[a].list /\ new.seen = act[a].seen
      /\ new.todo = todo
    BY <1>1 DEF Act
<1>3. Become(a, new)
    BY DEF new
<1> HIDE DEF new
<1>4. QED
    BY <1>2, <1>3, Becomes DEF Same

LEMMA LessTodoMoves ==
    ASSUME IInv, NEW a \in Actors, NEW m, Become(a, [act[a] EXCEPT !.todo = @ \ {m}])
    PROVE  /\ act'[a].stage = act[a].stage /\ Same(a)
           /\ act'[a].todo = act[a].todo \ {m}
<1> DEFINE new == [act[a] EXCEPT !.todo = @ \ {m}]
<1>1. act[a] \in Act
    BY DEF IInv, TypeOK
<1>2. /\ new.stage = act[a].stage /\ new.event = act[a].event /\ new.to = act[a].to
      /\ new.list = act[a].list /\ new.seen = act[a].seen
      /\ new.todo = act[a].todo \ {m}
    BY <1>1 DEF Act
<1>3. Become(a, new)
    BY DEF new
<1> HIDE DEF new
<1>4. QED
    BY <1>2, <1>3, Becomes DEF Same

\* The outcome of a step of an actor at work.
TurnKept(a) == TurnInv(a)' /\ (At(a, "idle")' => Calm')

LEMMA IdleTurn ==
    ASSUME NEW a \in Actors, At(a, "idle")'
    PROVE  TurnInv(a)'
BY DEF At, TurnInv

LEMMA ExistsKept ==
    ASSUME IInv, UNCHANGED attached, NEW x \in Events, NEW s \in State,
           UNCHANGED current \/ WriteCurrent(x, s)
    PROVE  \A e \in Events : Exists(e) <=> Exists(e)'
BY DEF IInv, TypeOK, WriteCurrent, Exists

\* What a job has read stays true while it works on the event it has.
LEMMA JobKept ==
    ASSUME IInv, NEW a \in Jobs, JobInv(a), act[a].stage \in Busy, Same(a), UNCHANGED attached,
           \A e \in Events : Exists(e) => Exists(e)'
    PROVE  JobInv(a)'
<1>1. act[a].event \in Events /\ act[a].list \subseteq Events
    BY DEF IInv, TypeOK, Placed, Busy, Act, Actors
<1>2. QED
    BY <1>1 DEF JobInv, Same

LEMMA MovedStarter ==
    ASSUME IInv, NEW a \in Actors, act[a].event \in Events, a \in Starters, Moved(a)
    PROVE  /\ act'[a].stage = "attach" /\ Same(a)
           /\ act'[a].todo = act[a].seen[act[a].event]
<1>1. Become(a, [act[a] EXCEPT !.stage = "attach", !.todo = act[a].seen[act[a].event]])
    BY DEF Moved
<1> DEFINE todo == act[a].seen[act[a].event]
<1> HIDE DEF todo
<1>2. Become(a, [act[a] EXCEPT !.stage = "attach", !.todo = todo])
    BY <1>1 DEF todo
<1>3. act'[a].stage = "attach" /\ Same(a) /\ act'[a].todo = todo
    BY <1>2, TodoMoves
<1>4. QED
    BY <1>3 DEF todo

LEMMA MovedEnder ==
    ASSUME IInv, NEW a \in Actors, a \in Enders, Moved(a)
    PROVE  act'[a].stage = "next" /\ act'[a].list = act[a].list /\ act'[a].seen = act[a].seen
<1> DEFINE new == [act[a] EXCEPT !.stage = "next", !.event = NoEvent]
<1>1. act[a] \in Act
    BY DEF IInv, TypeOK
<1>2. Become(a, new)
    BY DEF Moved
<1>3. new.stage = "next" /\ new.list = act[a].list /\ new.seen = act[a].seen
    BY <1>1 DEF Act
<1> HIDE DEF new
<1>4. QED
    BY <1>2, <1>3, Becomes

LEMMA MovedUser ==
    ASSUME NEW a, a \notin Starters, a \notin Enders, Moved(a)
    PROVE  Become(a, Idle)
BY DEF Moved

\* An event that is done with leaves its actor to the next, or idle.
LEMMA MovedTurn ==
    ASSUME IInv, NEW a \in Actors, act[a].stage \in Busy, a \in Jobs => JobInv(a), Moved(a),
           UNCHANGED attached, \A e \in Events : Exists(e) => Exists(e)', Calm',
           a \in Starters => current'[act[a].event] = "Ongoing"
    PROVE  TurnKept(a)
<1>1. act[a] \in Act /\ act[a].event \in Events
    BY DEF IInv, TypeOK, Placed, Busy
<1>2. CASE a \in Starters
  <2>2. /\ act'[a].stage = "attach" /\ Same(a)
        /\ act'[a].todo = act[a].seen[act[a].event]
    BY <1>1, <1>2, MovedStarter
  <2>3. JobInv(a) /\ a \in Jobs
    BY <1>2 DEF Jobs
  <2>4. JobInv(a)'
    BY <2>2, <2>3, JobKept
  <2>5. act'[a].todo \subseteq attached'[act'[a].event]
    <3>1. act[a].seen[act[a].event] \subseteq attached[act[a].event]
      BY <1>1, <2>3 DEF JobInv
    <3>2. QED
      BY <2>2, <3>1 DEF Same
  <2>6. current'[act'[a].event] = "Ongoing"
    BY <1>2, <2>2 DEF Same
  <2>7. QED
    BY <2>2, <2>4, <2>5, <2>6 DEF TurnKept, TurnInv, At
<1>3. CASE a \in Enders
  <2>3. act'[a].stage = "next" /\ act'[a].list = act[a].list /\ act'[a].seen = act[a].seen
    BY <1>3, MovedEnder
  <2>4. JobInv(a)
    BY <1>3 DEF Jobs
  <2>5. JobInv(a)'
    BY <1>1, <2>3, <2>4 DEF JobInv, Busy, Act
  <2>6. QED
    BY <2>3, <2>5 DEF TurnKept, TurnInv, At
<1>4. CASE a \notin Starters /\ a \notin Enders
  <2>1. act'[a] = Idle
    BY <1>4, Becomes, MovedUser
  <2>2. At(a, "idle")'
    BY <2>1 DEF At, Idle
  <2>3. QED
    BY <2>2, IdleTurn DEF TurnKept
<1>5. QED
    BY <1>2, <1>3, <1>4

LEMMA SameCalm ==
    ASSUME UNCHANGED data
    PROVE  /\ Calm => Calm'
           /\ \A e : CalmBut(e) => CalmBut(e)'
           /\ \A e : RowTells(e) => RowTells(e)'
           /\ \A e : Exists(e) <=> Exists(e)'
           /\ \A m : RestoredOnceOver(m) => RestoredOnceOver(m)'
           /\ \A m : HasMoreOngoing(m)' => HasMoreOngoing(m)
<1>1. /\ current' = current /\ last' = last /\ attached' = attached
      /\ paused' = paused /\ status' = status
    BY DEF data
<1>2. /\ \A e : RowTells(e) <=> RowTells(e)'
      /\ \A e : Exists(e) <=> Exists(e)'
      /\ \A e : AllPaused(e) <=> AllPaused(e)'
      /\ \A m : HasMoreOngoing(m)' <=> HasMoreOngoing(m)
    BY <1>1 DEF RowTells, Exists, AllPaused, HasMoreOngoing
<1>3. \A m : RestoredOnceOver(m) <=> RestoredOnceOver(m)'
    BY <1>1 DEF RestoredOnceOver, Over
<1>4. QED
    BY <1>1, <1>2, <1>3 DEF Calm, CalmBut

LEMMA SameRestored ==
    ASSUME UNCHANGED data, NEW e, NEW set, RestoredBut(e, set)
    PROVE  RestoredBut(e, set)'
BY SameCalm DEF RestoredBut, data

\* Once nothing is left to do to the event's monitors, all is calm.
LEMMA CalmWhole ==
    ASSUME NEW e \in Events, CalmBut(e), RowTells(e), AllPaused(e),
           \A m \in attached[e] : RestoredOnceOver(m)
    PROVE  Calm
BY DEF Calm, CalmBut

LEMMA RowDoneTurn ==
    ASSUME IInv, NEW a \in Actors, act[a].stage \in Busy, a \in Jobs => JobInv(a), RowDone(a),
           UNCHANGED data, Calm, Exists(act[a].event) => current[act[a].event] = act[a].to
    PROVE  TurnKept(a)
<1>1. Calm' /\ UNCHANGED attached /\ (\A e \in Events : Exists(e) => Exists(e)')
    BY SameCalm DEF data
<1>2. CASE GoTo(a, "rewrite")
  <2>1. act'[a].stage = "rewrite" /\ Same(a)
    BY <1>2, GoToMoves
  <2>2. a \in Jobs => JobInv(a)'
    BY <1>1, <2>1, JobKept
  <2>3. (Exists(act[a].event) => current[act[a].event] = act[a].to)'
    BY <2>1, SameCalm DEF Same, data, Exists
  <2>4. QED
    BY <1>1, <2>1, <2>2, <2>3 DEF TurnKept, TurnInv, At
<1>3. CASE Moved(a)
  <2>1. a \in Starters => current'[act[a].event] = "Ongoing"
    BY DEF JobInv, data, Jobs
  <2>2. QED
    BY <1>1, <1>3, <2>1, MovedTurn
<1>4. QED
    BY <1>2, <1>3 DEF RowDone

\* Where a row is created, applied and read.
LEMMA CheckTurn ==
    ASSUME IInv, NEW a \in Actors, TurnInv(a), Check(a)
    PROVE  TurnKept(a)
<1>0. PICK e \in Events : act[a].event = e
    BY DEF Check, At, IInv, Placed
<1>1. act[a].stage = "check" /\ act[a].stage \in Busy 
    BY DEF Check, At, Busy, Stage
<1>2. /\ CalmBut(e) /\ Exists(e) /\ (last[e] = act[a].to => Calm)
      /\ a \in Jobs => JobInv(a)
    BY <1>0, <1>1 DEF TurnInv, At
<1>3. UNCHANGED data
    BY DEF Check, data, rowVars
<1>4. UNCHANGED attached /\ (\A x \in Events : Exists(x) => Exists(x)')
    BY <1>3, SameCalm DEF data
<1>5. CASE last[e] = act[a].to /\ Moved(a)
  <2>1. Calm /\ Calm'
    BY <1>2, <1>3, <1>5, SameCalm
  <2>2. a \in Starters => current'[e] = "Ongoing"
    BY <1>0, <1>1, <1>2, <1>3, <1>5, <2>1 DEF Calm, RowTells, JobInv, Jobs, data
  <2>3. QED
    BY <1>1, <1>2, <1>4, <1>5, <2>1, <2>2, <1>0, MovedTurn
<1>6. CASE GoTo(a, "record")
  <2>1. act'[a].stage = "record" /\ Same(a)
    BY <1>6, GoToMoves
  <2>2. a \in Jobs => JobInv(a)'
    BY <1>1, <1>2, <1>4, <2>1, JobKept
  <2>3. CalmBut(e)' /\ Exists(e)'
    BY <1>2, <1>3, SameCalm
  <2>4. act'[a].event = e
    BY <1>0, <2>1 DEF Same
  <2>5. (CalmBut(act[a].event) /\ Exists(act[a].event))'
    BY <2>3, <2>4
  <2>6. QED
    BY <2>1, <2>2, <2>5 DEF TurnKept, TurnInv, At
<1>7. QED
    BY <1>0, <1>5, <1>6 DEF Check

LEMMA RecordTurn ==
    ASSUME IInv, NEW a \in Actors, TurnInv(a), Record(a)
    PROVE  TurnKept(a)
<1>0. PICK e \in Events, to \in State : act[a].event = e /\ act[a].to = to
    BY DEF Record, At, IInv, Placed, TypeOK, Act
<1>1. act[a].stage = "record" /\ act[a].stage \in Busy
    BY DEF Record, At, Busy, Stage
<1>2. CalmBut(e) /\ Exists(e) /\ (a \in Jobs => JobInv(a))
    BY <1>0, <1>1 DEF TurnInv, At
<1>3. /\ UNCHANGED <<current, attached, paused, status>>
      /\ last' = [last EXCEPT ![e] = to] /\ GoTo(a, "apply")
    BY <1>0, <1>2 DEF Record
<1>4. act'[a].stage = "apply" /\ Same(a)
    BY <1>3, GoToMoves
<1>5. \A x \in Events : Exists(x) <=> Exists(x)'
    BY <1>3 DEF Exists
<1>6. a \in Jobs => JobInv(a)'
    BY <1>1, <1>2, <1>3, <1>4, <1>5, JobKept
<1>7. CalmBut(e)'
  <2>1. ASSUME NEW x \in Events, x # e PROVE RowTells(x)' /\ AllPaused(x)'
    BY <1>2, <1>3, <2>1 DEF CalmBut, RowTells, AllPaused, Exists, IInv, TypeOK
  <2>2. ASSUME NEW m \in Monitors, m \notin attached[e] PROVE RestoredOnceOver(m)'
    BY <1>2, <1>3, <2>2 DEF CalmBut, RestoredOnceOver, Over
  <2>3. QED
    BY <1>3, <2>1, <2>2 DEF CalmBut
<1>8. act'[a].event = e /\ act'[a].to = to /\ last'[e] = to
    BY <1>0, <1>3, <1>4 DEF Same, IInv, TypeOK
<1>9. (CalmBut(act[a].event) /\ Exists(act[a].event) /\ last[act[a].event] = act[a].to)'
    BY <1>2, <1>5, <1>7, <1>8
<1>10. QED
    BY <1>4, <1>6, <1>9 DEF TurnKept, TurnInv, At

LEMMA ApplyTurn ==
    ASSUME IInv, NEW a \in Actors, TurnInv(a), Apply(a)
    PROVE  TurnKept(a)
<1>0. PICK e \in Events, to \in State : act[a].event = e /\ act[a].to = to
    BY DEF Apply, At, IInv, Placed, TypeOK, Act
<1>1. act[a].stage = "apply" /\ act[a].stage \in Busy
    BY DEF Apply, At, Busy, Stage
<1>2. CalmBut(e) /\ Exists(e) /\ last[e] = to /\ (a \in Jobs => JobInv(a))
    BY <1>0, <1>1 DEF TurnInv, At
<1>3. /\ UNCHANGED <<last, attached, paused, status>>
      /\ current' = [current EXCEPT ![e] = to] /\ GoTo(a, "read")
    BY <1>0, <1>2 DEF Apply, WriteCurrent, rowVars
<1>4. act'[a].stage = "read" /\ Same(a)
    BY <1>3, GoToMoves
<1>5. current'[e] = to /\ \A x \in Events : x # e => current'[x] = current[x]
    BY <1>3 DEF IInv, TypeOK
<1>6. \A x \in Events : Exists(x) => Exists(x)'
    BY <1>5 DEF Exists
<1>7. a \in Jobs => JobInv(a)'
    BY <1>1, <1>2, <1>3, <1>4, <1>6, JobKept
<1>8. CalmBut(e)'
  <2>1. ASSUME NEW x \in Events, x # e PROVE RowTells(x)' /\ AllPaused(x)'
    BY <1>2, <1>3, <1>5, <2>1 DEF CalmBut, RowTells, AllPaused, Exists
  <2>2. ASSUME NEW m \in Monitors, m \notin attached[e] PROVE RestoredOnceOver(m)'
    BY <1>2, <1>3, <1>5, <2>2 DEF CalmBut, RestoredOnceOver, Over
  <2>3. QED
    BY <1>3, <2>1, <2>2 DEF CalmBut
<1>9. act'[a].event = e /\ act'[a].to = to /\ RowTells(e)' /\ Exists(e)'
    BY <1>0, <1>2, <1>3, <1>4, <1>5, <1>6 DEF Same, RowTells
<1>10. (/\ CalmBut(act[a].event) /\ Exists(act[a].event) /\ RowTells(act[a].event)
        /\ current[act[a].event] = act[a].to)'
    BY <1>5, <1>8, <1>9
<1>11. QED
    BY <1>4, <1>7, <1>10 DEF TurnKept, TurnInv, At

LEMMA ReadTurn ==
    ASSUME IInv, NEW a \in Actors, TurnInv(a), ReadMonitors(a)
    PROVE  TurnKept(a)
<1>0. PICK e \in Events, to \in State : act[a].event = e /\ act[a].to = to
    BY DEF ReadMonitors, At, IInv, Placed, TypeOK, Act
<1>1. act[a].stage = "read" /\ act[a].stage \in Busy
    BY DEF ReadMonitors, At, Busy, Stage
<1>2. CalmBut(e) /\ Exists(e) /\ RowTells(e) /\ current[e] = to /\ (a \in Jobs => JobInv(a))
    BY <1>0, <1>1 DEF TurnInv, At
<1>3. UNCHANGED data
    BY DEF ReadMonitors, data, rowVars
<1>4. UNCHANGED attached /\ \A x \in Events : Exists(x) => Exists(x)'
    BY <1>3, SameCalm DEF data
<1>5. CalmBut(e)' /\ RowTells(e)' /\ current'[e] = to
    BY <1>2, <1>3, SameCalm DEF data
<1>6. ASSUME Same(a), NEW stage \in Busy, act'[a].stage = stage
      PROVE  /\ act'[a].event = e /\ act'[a].to = to
             /\ a \in Jobs => JobInv(a)'
    BY <1>0, <1>1, <1>2, <1>4, <1>6, JobKept DEF Same
<1>7. CASE to = "Scheduled" \/ attached[e] = {}
  <2>1. AllPaused(e) /\ \A m \in attached[e] : RestoredOnceOver(m)
    BY <1>2, <1>7 DEF AllPaused, RestoredOnceOver, Over
  <2>2. Calm
    BY <1>2, <2>1, CalmWhole
  <2>3. RowDone(a)
    BY <1>0, <1>2, <1>7 DEF ReadMonitors
  <2>4. QED
    BY <1>0, <1>1, <1>2, <1>3, <2>2, <2>3, RowDoneTurn
<1>8. CASE to = "Ongoing" /\ attached[e] # {}
  <2>1. act'[a].stage = "pause" /\ Same(a) /\ act'[a].todo = attached[e]
    BY <1>0, <1>2, <1>8, TodoMoves DEF ReadMonitors
  <2>2. act'[a].event = e /\ act'[a].to = to /\ (a \in Jobs => JobInv(a)')
    BY <1>6, <2>1 DEF Busy, Stage
  <2>3. (/\ CalmBut(act[a].event) /\ RowTells(act[a].event)
         /\ current[act[a].event] = "Ongoing" /\ act[a].to = "Ongoing"
         /\ act[a].todo \subseteq attached[act[a].event]
         /\ \A m \in attached[act[a].event] : m \notin act[a].todo => paused[m])'
    BY <1>4, <1>5, <1>8, <2>1, <2>2
  <2>4. QED
    BY <2>1, <2>2, <2>3 DEF TurnKept, TurnInv, At
<1>9. CASE to = "Ended" /\ attached[e] # {}
  <2>1. act'[a].stage = "resume" /\ Same(a) /\ act'[a].todo = attached[e]
    BY <1>0, <1>2, <1>9, TodoMoves DEF ReadMonitors
  <2>2. act'[a].event = e /\ act'[a].to = to /\ (a \in Jobs => JobInv(a)')
    BY <1>6, <2>1 DEF Busy, Stage
  <2>3. RestoredBut(e, attached[e])'
    BY <1>4, <1>5, <1>9 DEF RestoredBut
  <2>4. (RestoredBut(act[a].event, act[a].todo) /\ current[act[a].event] = act[a].to)'
    <3>1. act'[a].todo = attached'[e]
      BY <1>4, <2>1
    <3>2. QED
      BY <1>5, <2>2, <2>3, <3>1
  <2>5. QED
    BY <2>1, <2>2, <2>4 DEF TurnKept, TurnInv, At
<1>10. QED
    BY <1>7, <1>8, <1>9 DEF State

\* Where the monitors of the event are paused, or resumed.
LEMMA PauseTurn ==
    ASSUME IInv, NEW a \in Actors, TurnInv(a), Pause(a)
    PROVE  TurnKept(a)
<1>0. PICK e \in Events : act[a].event = e
    BY DEF Pause, At, IInv, Placed
<1>1. act[a].stage = "pause" /\ act[a].stage \in Busy
    BY DEF Pause, At, Busy, Stage
<1>2. /\ CalmBut(e) /\ RowTells(e) /\ current[e] = "Ongoing" /\ act[a].to = "Ongoing"
      /\ act[a].todo \subseteq attached[e]
      /\ \A m \in attached[e] : m \notin act[a].todo => paused[m]
      /\ a \in Jobs => JobInv(a)
    BY <1>0, <1>1 DEF TurnInv, At
<1>3. UNCHANGED <<current, last, attached, status>>
    BY DEF Pause, rowVars
<1>4. \A x \in Events : Exists(x) => Exists(x)'
    BY <1>3 DEF Exists
<1>5. CASE act[a].todo = {} /\ RowDone(a) /\ UNCHANGED paused
  <2>1. AllPaused(e) /\ \A m \in attached[e] : RestoredOnceOver(m)
    BY <1>2, <1>5 DEF AllPaused, RestoredOnceOver, Over
  <2>2. Calm /\ UNCHANGED data
    BY <1>2, <1>3, <1>5, <2>1, CalmWhole DEF data
  <2>3. QED
    BY <1>0, <1>1, <1>2, <1>5, <2>2, RowDoneTurn
<1>6. ASSUME NEW m \in act[a].todo, paused' = [paused EXCEPT ![m] = TRUE],
             Become(a, [act[a] EXCEPT !.todo = @ \ {m}])
      PROVE  TurnKept(a)
  <2>1. act'[a].stage = "pause" /\ Same(a) /\ act'[a].todo = act[a].todo \ {m}
    BY <1>1, <1>6, LessTodoMoves
  <2>2. a \in Jobs => JobInv(a)'
    BY <1>1, <1>2, <1>3, <1>4, <2>1, JobKept
  <2>3. m \in attached[e] /\ m \in Monitors
    BY <1>2 DEF IInv, TypeOK
  <2>4. \A n \in Monitors : /\ paused[n] => paused'[n]
                            /\ n # m => paused'[n] = paused[n]
                            /\ paused'[m]
    BY <1>6, <2>3 DEF IInv, TypeOK
  <2>5. CalmBut(e)'
    <3>1. ASSUME NEW x \in Events, x # e PROVE RowTells(x)' /\ AllPaused(x)'
      BY <1>2, <1>3, <2>4, <3>1 DEF CalmBut, RowTells, AllPaused, Exists, IInv, TypeOK
    <3>2. ASSUME NEW n \in Monitors, n \notin attached[e] PROVE RestoredOnceOver(n)'
      BY <1>2, <1>3, <2>3, <2>4, <3>2 DEF CalmBut, RestoredOnceOver, Over
    <3>3. QED
      BY <1>3, <3>1, <3>2 DEF CalmBut
  <2>6. RowTells(e)' /\ current'[e] = "Ongoing" /\ act'[a].event = e /\ act'[a].to = "Ongoing"
    BY <1>0, <1>2, <1>3, <2>1 DEF RowTells, Exists, Same
  <2>7. \A n \in attached'[e] : n \notin act'[a].todo => paused'[n]
    BY <1>2, <1>3, <2>1, <2>4 DEF IInv, TypeOK
  <2>8. (/\ CalmBut(act[a].event) /\ RowTells(act[a].event)
         /\ current[act[a].event] = "Ongoing" /\ act[a].to = "Ongoing"
         /\ act[a].todo \subseteq attached[act[a].event]
         /\ \A n \in attached[act[a].event] : n \notin act[a].todo => paused[n])'
    BY <1>2, <1>3, <2>1, <2>5, <2>6, <2>7
  <2>9. QED
    BY <2>1, <2>2, <2>8 DEF TurnKept, TurnInv, At
<1>7. QED
    BY <1>5, <1>6 DEF Pause

LEMMA ResumeTurn ==
    ASSUME IInv, NEW a \in Actors, TurnInv(a), Resume(a)
    PROVE  TurnKept(a)
<1>0. PICK e \in Events, to \in State : act[a].event = e /\ act[a].to = to
    BY DEF Resume, At, IInv, Placed, TypeOK, Act
<1>1. act[a].stage = "resume" /\ act[a].stage \in Busy
    BY DEF Resume, At, Busy, Stage
<1>2. /\ RestoredBut(e, act[a].todo) /\ (Exists(e) => current[e] = to)
      /\ a \in Jobs => JobInv(a)
    BY <1>0, <1>1 DEF TurnInv, At
<1>3. UNCHANGED data
    BY DEF Resume, data, rowVars
<1>4. /\ UNCHANGED attached /\ (\A x \in Events : Exists(x) => Exists(x)')
      /\ Exists(e)' => current'[e] = to
    BY <1>2, <1>3, SameCalm DEF data
<1>5. CASE act[a].todo = {} /\ RowDone(a)
  <2>1. AllPaused(e) /\ \A m \in attached[e] : RestoredOnceOver(m)
    BY <1>2, <1>5 DEF AllPaused, RestoredBut
  <2>2. Calm
    BY <1>2, <2>1, CalmWhole DEF RestoredBut
  <2>3. QED
    BY <1>0, <1>1, <1>2, <1>3, <1>5, <2>2, RowDoneTurn
<1>6. ASSUME Same(a) PROVE act'[a].event = e /\ act'[a].to = to /\ (a \in Jobs => JobInv(a)')
    BY <1>0, <1>1, <1>2, <1>4, <1>6, JobKept DEF Same
<1>7. ASSUME NEW m \in act[a].todo, HasMoreOngoing(m),
             Become(a, [act[a] EXCEPT !.todo = @ \ {m}])
      PROVE  TurnKept(a)
  <2>1. act'[a].stage = "resume" /\ Same(a) /\ act'[a].todo = act[a].todo \ {m}
    BY <1>1, <1>7, LessTodoMoves
  <2>2. RestoredOnceOver(m)
    BY <1>7 DEF RestoredOnceOver, Over, HasMoreOngoing
  <2>3. RestoredBut(e, act[a].todo \ {m})
    BY <1>2, <2>2 DEF RestoredBut
  <2>4. PICK left : left = act[a].todo \ {m}
    OBVIOUS
  <2>5. RestoredBut(e, left)'
    BY <1>3, <2>3, <2>4, SameRestored
  <2>6. act'[a].event = e /\ act'[a].to = to /\ act'[a].todo = left
    BY <1>6, <2>1, <2>4
  <2>7. (RestoredBut(act[a].event, act[a].todo)
         /\ (Exists(act[a].event) => current[act[a].event] = act[a].to))'
    BY <1>4, <2>5, <2>6
  <2>8. QED
    BY <1>6, <2>1, <2>7 DEF TurnKept, TurnInv, At
<1>8. ASSUME NEW m \in act[a].todo, ~HasMoreOngoing(m),
             Become(a, [act[a] EXCEPT !.stage = "lift", !.todo = @ \ {m}, !.doing = {m},
                                      !.normal = (status[m] = "Operational")])
      PROVE  TurnKept(a)
  <2> DEFINE operational == status[m] = "Operational"
             new == [act[a] EXCEPT !.stage = "lift", !.todo = @ \ {m}, !.doing = {m},
                                   !.normal = operational]
  <2>1. Become(a, new)
    BY <1>8
  <2>2. act[a] \in Act
    BY DEF IInv, TypeOK
  <2> HIDE DEF operational
  <2>3. /\ new.stage = "lift" /\ new.event = act[a].event /\ new.to = act[a].to
        /\ new.list = act[a].list /\ new.seen = act[a].seen
        /\ new.todo = act[a].todo \ {m} /\ new.doing = {m}
    BY <2>2 DEF Act
  <2>4. new.normal = operational
    BY <2>2 DEF Act
  <2> HIDE DEF new
  <2>5. act'[a] = new
    BY <2>1, Becomes
  <2>6. /\ act'[a].stage = "lift" /\ Same(a)
        /\ act'[a].todo = act[a].todo \ {m} /\ act'[a].doing = {m}
    BY <2>3, <2>5 DEF Same
  <2>7. act'[a].normal => status[m] = "Operational"
    BY <2>4, <2>5, Zenon DEF operational
  <2>8. PICK left, doing : left = act[a].todo \ {m} /\ doing = {m}
    OBVIOUS
  <2>9. RestoredBut(e, left \cup doing)
    BY <1>2, <2>8 DEF RestoredBut
  <2>10. RestoredBut(e, left \cup doing)'
    BY <1>3, <2>9, SameRestored
  <2>11. act'[a].event = e /\ act'[a].to = to /\ act'[a].todo = left /\ act'[a].doing = doing
    BY <1>6, <2>6, <2>8
  <2>12. (RestoredBut(act[a].event, act[a].todo \cup act[a].doing)
          /\ (Exists(act[a].event) => current[act[a].event] = act[a].to))'
    BY <1>4, <2>10, <2>11
  <2>13. ~HasMoreOngoing(m)' /\ status' = status
    BY <1>3, <1>8, SameCalm DEF data
  <2>14. act'[a].normal => status'[m] = "Operational"
    BY <2>7, <2>13
  <2>15. (\A n \in act[a].doing :
             ~HasMoreOngoing(n) /\ (act[a].normal => status[n] = "Operational"))'
    BY <2>6, <2>13, <2>14
  <2>16. QED
    BY <1>6, <2>6, <2>12, <2>15 DEF TurnKept, TurnInv, At
<1>9. QED
    BY <1>5, <1>7, <1>8 DEF Resume

LEMMA LiftTurn ==
    ASSUME IInv, NEW a \in Actors, TurnInv(a), Lift(a)
    PROVE  TurnKept(a)
<1>0. PICK e \in Events, to \in State : act[a].event = e /\ act[a].to = to
    BY DEF Lift, At, IInv, Placed, TypeOK, Act
<1>1. act[a].stage = "lift" /\ act[a].stage \in Busy
    BY DEF Lift, At, Busy, Stage
<1>t. PICK todo, doing : act[a].todo = todo /\ act[a].doing = doing
    OBVIOUS
<1>2. /\ RestoredBut(e, todo \cup doing) /\ (Exists(e) => current[e] = to)
      /\ a \in Jobs => JobInv(a)
      /\ \A m \in doing : ~HasMoreOngoing(m) /\ (act[a].normal => status[m] = "Operational")
    BY <1>0, <1>1, <1>t DEF TurnInv, At
<1>3. UNCHANGED <<current, last, attached, status>>
    BY DEF Lift, rowVars
<1>4. \A m \in Monitors : paused'[m] <=> paused[m] /\ m \notin doing
    BY <1>t DEF Lift
<1>5. \A x \in Events : Exists(x) <=> Exists(x)'
    BY <1>3 DEF Exists
<1>6. /\ \A x \in Events : x # e => RowTells(x)' /\ AllPaused(x)'
      /\ RowTells(e)'
  <2>1. ASSUME NEW x \in Events, RowTells(x) PROVE RowTells(x)'
    BY <1>3, <2>1 DEF RowTells, Exists
  <2>2. ASSUME NEW x \in Events, x # e PROVE AllPaused(x)'
    <3>1. AllPaused(x)
      BY <1>2, <2>2 DEF RestoredBut, CalmBut
    <3>2. SUFFICES ASSUME current[x] = "Ongoing", NEW m \in attached[x] PROVE paused'[m]
      BY <1>3 DEF AllPaused
    <3>3. m \notin doing /\ paused[m] /\ m \in Monitors
      BY <1>2, <3>1, <3>2 DEF AllPaused, HasMoreOngoing, IInv, TypeOK
    <3>4. QED
      BY <1>4, <3>3
  <2>3. QED
    BY <1>2, <2>1, <2>2 DEF RestoredBut, CalmBut
<1>7. \A m \in Monitors : RestoredOnceOver(m) => RestoredOnceOver(m)'
    BY <1>3, <1>4 DEF RestoredOnceOver, Over
<1>8. CalmBut(e)'
    BY <1>2, <1>3, <1>6, <1>7 DEF RestoredBut, CalmBut
<1>9. attached[e] \subseteq Monitors /\ current'[e] \in {"Ended", "deleted"}
    BY <1>2, <1>3 DEF IInv, TypeOK, RestoredBut
<1>10. RestoredBut(e, todo \cup doing)'
    BY <1>2, <1>3, <1>6, <1>7, <1>8, <1>9 DEF RestoredBut
<1>11. PICK stage : stage = IF act[a].normal THEN "resume" ELSE "reset"
    OBVIOUS
<1>12. act'[a].stage = stage /\ Same(a) /\ act'[a].todo = todo /\ act'[a].doing = doing
    BY <1>t, <1>11, GoToMoves DEF Lift, GoTo
<1>13. act'[a].event = e /\ act'[a].to = to /\ (a \in Jobs => JobInv(a)')
    BY <1>0, <1>1, <1>2, <1>3, <1>5, <1>12, JobKept DEF Same
<1>14. (Exists(act[a].event) => current[act[a].event] = act[a].to)'
    BY <1>2, <1>3, <1>5, <1>13
<1>15. CASE act[a].normal
  <2>1. \A m \in doing \cap Monitors : RestoredOnceOver(m)'
    BY <1>2, <1>3, <1>4, <1>15 DEF RestoredOnceOver
  <2>2. RestoredBut(e, todo)'
    BY <1>3, <1>9, <1>10, <2>1 DEF RestoredBut
  <2>3. (RestoredBut(act[a].event, act[a].todo))'
    BY <1>12, <1>13, <2>2
  <2>4. act'[a].stage = "resume"
    BY <1>11, <1>12, <1>15
  <2>5. QED
    BY <1>13, <1>14, <2>3, <2>4 DEF TurnKept, TurnInv, At
<1>16. CASE ~act[a].normal
  <2>1. doing \subseteq Monitors
    BY <1>t DEF IInv, TypeOK, Act
  <2>2. (\A m \in act[a].doing : ~paused[m])'
    BY <1>4, <1>12, <2>1
  <2>3. (RestoredBut(act[a].event, act[a].todo \cup act[a].doing))'
    BY <1>10, <1>12, <1>13
  <2>4. act'[a].stage = "reset"
    BY <1>11, <1>12, <1>16
  <2>5. QED
    BY <1>13, <1>14, <2>2, <2>3, <2>4 DEF TurnKept, TurnInv, At
<1>17. QED
    BY <1>15, <1>16

LEMMA ResetTurn ==
    ASSUME IInv, NEW a \in Actors, TurnInv(a), Reset(a)
    PROVE  TurnKept(a)
<1>0. PICK e \in Events, to \in State : act[a].event = e /\ act[a].to = to
    BY DEF Reset, At, IInv, Placed, TypeOK, Act
<1>1. act[a].stage = "reset" /\ act[a].stage \in Busy
    BY DEF Reset, At, Busy, Stage
<1>t. PICK todo, doing : act[a].todo = todo /\ act[a].doing = doing
    OBVIOUS
<1>2. /\ RestoredBut(e, todo \cup doing) /\ (Exists(e) => current[e] = to)
      /\ a \in Jobs => JobInv(a)
      /\ \A m \in doing : ~paused[m]
    BY <1>0, <1>1, <1>t DEF TurnInv, At
<1>3. UNCHANGED <<current, last, attached, paused>>
    BY DEF Reset, rowVars
<1>4. \A m \in Monitors : status'[m] = IF m \in doing THEN "Operational" ELSE status[m]
    BY <1>t DEF Reset
<1>5. \A x \in Events : Exists(x) <=> Exists(x)'
    BY <1>3 DEF Exists
<1>6. \A x \in Events : (RowTells(x) => RowTells(x)') /\ (AllPaused(x) => AllPaused(x)')
    BY <1>3 DEF RowTells, Exists, AllPaused
<1>7. \A m \in Monitors : m \in doing \/ RestoredOnceOver(m) => RestoredOnceOver(m)'
    BY <1>2, <1>3, <1>4 DEF RestoredOnceOver, Over
<1>8. CalmBut(e)' /\ RowTells(e)'
    BY <1>2, <1>3, <1>6, <1>7 DEF RestoredBut, CalmBut
<1>9. attached[e] \subseteq Monitors /\ current'[e] \in {"Ended", "deleted"}
    BY <1>2, <1>3 DEF IInv, TypeOK, RestoredBut
<1>10. RestoredBut(e, todo)'
    BY <1>2, <1>3, <1>7, <1>8, <1>9 DEF RestoredBut
<1>11. act'[a].stage = "resume" /\ Same(a) /\ act'[a].todo = todo
    BY <1>t, GoToMoves DEF Reset
<1>12. act'[a].event = e /\ act'[a].to = to /\ (a \in Jobs => JobInv(a)')
    BY <1>0, <1>1, <1>2, <1>3, <1>5, <1>11, JobKept DEF Same
<1>13. (RestoredBut(act[a].event, act[a].todo)
        /\ (Exists(act[a].event) => current[act[a].event] = act[a].to))'
    BY <1>2, <1>3, <1>5, <1>10, <1>11, <1>12
<1>14. QED
    BY <1>11, <1>12, <1>13 DEF TurnKept, TurnInv, At

LEMMA RewriteTurn ==
    ASSUME IInv, NEW a \in Actors, TurnInv(a), Rewrite(a)
    PROVE  TurnKept(a)
<1>0. PICK e \in Events, to \in State : act[a].event = e /\ act[a].to = to
    BY DEF Rewrite, At, IInv, Placed, TypeOK, Act
<1>1. act[a].stage = "rewrite" /\ act[a].stage \in Busy
    BY DEF Rewrite, At, Busy, Stage
<1>2. Calm /\ (Exists(e) => current[e] = to) /\ (a \in Jobs => JobInv(a))
    BY <1>0, <1>1 DEF TurnInv, At
<1>3. current' = current
  <2>1. current' = current \/ (current' = [current EXCEPT ![e] = to] /\ current[e] = to)
    BY <1>0, <1>2 DEF Rewrite, WriteCurrent
  <2>2. QED
    BY <2>1 DEF IInv, TypeOK
<1>4. UNCHANGED data
    BY <1>3 DEF Rewrite, data, rowVars
<1>5. Calm' /\ UNCHANGED attached /\ (\A x \in Events : Exists(x) => Exists(x)')
    BY <1>2, <1>4, SameCalm DEF data
<1>6. a \in Starters => current'[act[a].event] = "Ongoing"
    BY <1>0, <1>1, <1>2, <1>3 DEF JobInv, Jobs
<1>7. QED
    BY <1>0, <1>1, <1>2, <1>5, <1>6, MovedTurn DEF Rewrite

LEMMA StepTurn ==
    ASSUME IInv, NEW a \in Actors, TurnInv(a), Step(a)
    PROVE  TurnKept(a)
BY CheckTurn, RecordTurn, ApplyTurn, ReadTurn, PauseTurn, ResumeTurn, LiftTurn, ResetTurn,
   RewriteTurn DEF Step

\* Jobs.
LEMMA NextEventTurn ==
    ASSUME IInv, NEW j \in Jobs, TurnInv(j), NextEvent(j)
    PROVE  TurnKept(j)
<1>1. act[j] \in Act /\ j \in Actors /\ act[j].stage = "next" /\ UNCHANGED data
    BY DEF IInv, TypeOK, Actors, NextEvent, At, data, rowVars
<1>2. JobInv(j) /\ Calm /\ Calm'
    BY <1>1, SameCalm DEF TurnInv, At
<1>3. CASE Become(j, Idle)
  <2>1. At(j, "idle")'
    BY <1>1, <1>3, Becomes DEF At, Idle
  <2>2. QED
    BY <1>1, <1>2, <2>1, IdleTurn DEF TurnKept
<1>4. ASSUME NEW e \in act[j].list,
             Become(j, [act[j] EXCEPT !.stage = "check", !.list = @ \ {e}, !.event = e,
                           !.to = IF j \in Starters THEN "Ongoing" ELSE "Ended",
                           !.again = TRUE])
      PROVE  TurnKept(j)
  <2> DEFINE to == IF j \in Starters THEN "Ongoing" ELSE "Ended"
             new == [act[j] EXCEPT !.stage = "check", !.list = @ \ {e}, !.event = e,
                                   !.to = to, !.again = TRUE]
  <2>1. Become(j, new)
    BY <1>4
  <2>2. j \in Starters => to = "Ongoing"
    OBVIOUS
  <2> HIDE DEF to
  <2>3. /\ new.stage = "check" /\ new.event = e /\ new.to = to
        /\ new.list = act[j].list \ {e} /\ new.seen = act[j].seen
    BY <1>1 DEF Act
  <2> HIDE DEF new
  <2>4. /\ act'[j].stage = "check" /\ act'[j].event = e /\ act'[j].to = to
        /\ act'[j].list = act[j].list \ {e} /\ act'[j].seen = act[j].seen
    BY <1>1, <2>1, <2>3, Becomes
  <2>5. e \in Events /\ Exists(e) /\ (\A x \in Events : Exists(x) <=> Exists(x)') /\ UNCHANGED attached
    BY <1>1, <1>2, SameCalm DEF JobInv, Act, data
  <2>6. JobInv(j)'
    BY <1>1, <1>2, <2>2, <2>4, <2>5 DEF JobInv, Act
  <2>7. CalmBut(e)' /\ Exists(e)'
    BY <1>2, <2>5 DEF Calm, CalmBut
  <2>8. (CalmBut(act[j].event) /\ Exists(act[j].event))'
    BY <2>4, <2>7
  <2>9. QED
    BY <1>2, <2>4, <2>6, <2>8 DEF TurnKept, TurnInv, At
<1>5. QED
    BY <1>3, <1>4 DEF NextEvent

LEMMA AttachTurn ==
    ASSUME IInv, NEW j \in Jobs, TurnInv(j), Attach(j)
    PROVE  TurnKept(j)
<1>0. PICK e \in Events : act[j].event = e
    BY DEF Attach, At, IInv, Placed, Actors
<1>1. /\ act[j] \in Act /\ j \in Actors /\ act[j].stage = "attach" /\ act[j].stage \in Busy
      /\ UNCHANGED <<current, last, attached, paused>>
    BY DEF IInv, TypeOK, Actors, Attach, At, Busy, Stage, rowVars
<1>2. JobInv(j) /\ Calm /\ current[e] = "Ongoing" /\ act[j].todo \subseteq attached[e]
    BY <1>0, <1>1 DEF TurnInv, At
<1>3. \A x \in Events : Exists(x) => Exists(x)'
    BY <1>1 DEF Exists
<1>4. CASE UNCHANGED status /\ Become(j, [act[j] EXCEPT !.stage = "next", !.event = NoEvent])
  <2> DEFINE new == [act[j] EXCEPT !.stage = "next", !.event = NoEvent]
  <2>1. new.stage = "next" /\ new.list = act[j].list /\ new.seen = act[j].seen
    BY <1>1 DEF Act
  <2>2. Become(j, new)
    BY <1>4
  <2> HIDE DEF new
  <2>3. act'[j].stage = "next" /\ act'[j].list = act[j].list /\ act'[j].seen = act[j].seen
    BY <1>1, <2>1, <2>2, Becomes
  <2>4. JobInv(j)'
    BY <1>1, <1>2, <1>3, <2>3 DEF JobInv, Busy, Act
  <2>5. Calm'
    BY <1>1, <1>2, <1>4, SameCalm DEF data
  <2>6. QED
    BY <2>3, <2>4, <2>5 DEF TurnKept, TurnInv, At
<1>5. ASSUME NEW m \in act[j].todo, status' = [status EXCEPT ![m] = "Maintenance"],
             Become(j, [act[j] EXCEPT !.todo = @ \ {m}])
      PROVE  TurnKept(j)
  <2>1. act'[j].stage = "attach" /\ Same(j) /\ act'[j].todo = act[j].todo \ {m}
    BY <1>1, <1>5, LessTodoMoves
  <2>2. JobInv(j)'
    BY <1>1, <1>2, <1>3, <2>1, JobKept
  <2>3. m \in attached[e]
    BY <1>2
  <2>4. Calm'
    <3>1. \A x \in Events : RowTells(x)' /\ AllPaused(x)'
      BY <1>1, <1>2 DEF Calm, RowTells, AllPaused, Exists
    <3>2. ASSUME NEW n \in Monitors PROVE RestoredOnceOver(n)'
      <4>1. CASE n = m
        BY <1>1, <1>2, <2>3, <4>1 DEF RestoredOnceOver, Over
      <4>2. CASE n # m
        BY <1>1, <1>2, <1>5, <4>2 DEF RestoredOnceOver, Over, Calm, IInv, TypeOK
      <4>3. QED
        BY <4>1, <4>2
    <3>3. QED
      BY <3>1, <3>2 DEF Calm
  <2>5. act'[j].event = e
    BY <1>0, <2>1 DEF Same
  <2>6. current'[act'[j].event] = "Ongoing" /\ act'[j].todo \subseteq attached'[act'[j].event]
    BY <1>1, <1>2, <2>1, <2>5
  <2>7. QED
    BY <2>1, <2>2, <2>4, <2>6 DEF TurnKept, TurnInv, At
<1>6. QED
    BY <1>4, <1>5 DEF Attach

\* Requests.
LEMMA AskFields ==
    ASSUME IInv, NEW u \in Users, NEW e, NEW stage, NEW to, NEW again,
           Request(u, e, stage, to, again)
    PROVE  act'[u].stage = stage /\ act'[u].event = e /\ act'[u].to = to
<1> DEFINE new == [Idle EXCEPT !.stage = stage, !.event = e, !.to = to, !.again = again]
<1>1. Become(u, new) /\ u \in Actors
    BY DEF Request, Actors
<1>2. new.stage = stage /\ new.event = e /\ new.to = to
    BY DEF Idle
<1> HIDE DEF new
<1>3. QED
    BY <1>1, <1>2, Becomes

LEMMA UserIsNoJob == \A u \in Users : u \notin Jobs /\ u \in Actors
BY DEF Jobs, Actors

LEMMA CreateEventTurn ==
    ASSUME IInv, Calm, NEW u \in Users, NEW e \in Events, CreateEvent(u, e)
    PROVE  TurnInv(u)' /\ ~At(u, "idle")'
<1> DEFINE new == [Idle EXCEPT !.stage = "record", !.event = e]
<1>1. Become(u, new) /\ current[e] = "none" /\ current' = [current EXCEPT ![e] = "Scheduled"]
    BY DEF CreateEvent
<1>2. new.stage = "record" /\ new.event = e
    BY DEF Idle
<1> HIDE DEF new
<1>3. act'[u].stage = "record" /\ act'[u].event = e
    BY <1>1, <1>2, UserIsNoJob, Becomes
<1>4. UNCHANGED <<last, attached, paused, status>>
    BY DEF CreateEvent, rowVars
<1>5. current'[e] = "Scheduled" /\ \A x \in Events : x # e => current'[x] = current[x]
    BY <1>1 DEF IInv, TypeOK
<1>6. CalmBut(e)'
  <2>1. ASSUME NEW x \in Events, x # e PROVE RowTells(x)' /\ AllPaused(x)'
    BY <1>4, <1>5, <2>1 DEF Calm, RowTells, AllPaused, Exists
  <2>2. ASSUME NEW m \in Monitors, m \notin attached[e] PROVE RestoredOnceOver(m)'
    BY <1>4, <1>5, <2>2 DEF Calm, RestoredOnceOver, Over
  <2>3. QED
    BY <1>4, <2>1, <2>2 DEF CalmBut
<1>7. Exists(e)'
    BY <1>5 DEF Exists, State
<1>8. (CalmBut(act[u].event) /\ Exists(act[u].event))'
    BY <1>3, <1>6, <1>7
<1>9. QED
    BY <1>3, <1>8, UserIsNoJob DEF TurnInv, At

LEMMA CreateRowTurn ==
    ASSUME IInv, Calm, NEW u \in Users, NEW e \in Events, NEW to \in State, CreateRow(u, e, to)
    PROVE  TurnInv(u)' /\ ~At(u, "idle")'
<1>1. Exists(e) /\ UNCHANGED data
    BY DEF CreateRow, data, rowVars
<1>2. act'[u].stage = "record" /\ act'[u].event = e
    BY AskFields DEF CreateRow
<1>3. CalmBut(e)' /\ Exists(e)'
    BY <1>1, SameCalm DEF Calm, CalmBut
<1>4. (CalmBut(act[u].event) /\ Exists(act[u].event))'
    BY <1>2, <1>3
<1>5. QED
    BY <1>2, <1>4, UserIsNoJob DEF TurnInv, At

LEMMA UpdateStateTurn ==
    ASSUME IInv, Calm, NEW u \in Users, NEW e \in Events, NEW to \in State, UpdateState(u, e, to)
    PROVE  TurnInv(u)' /\ ~At(u, "idle")'
<1>1. Exists(e) /\ current' = [current EXCEPT ![e] = to]
    BY DEF UpdateState, WriteCurrent
<1>2. act'[u].stage = "check" /\ act'[u].event = e /\ act'[u].to = to
    BY AskFields DEF UpdateState
<1>3. UNCHANGED <<last, attached, paused, status>>
    BY DEF UpdateState, rowVars
<1>4. current'[e] = to /\ \A x \in Events : x # e => current'[x] = current[x]
    BY <1>1 DEF IInv, TypeOK
<1>5. CalmBut(e)'
  <2>1. ASSUME NEW x \in Events, x # e PROVE RowTells(x)' /\ AllPaused(x)'
    BY <1>3, <1>4, <2>1 DEF Calm, RowTells, AllPaused, Exists
  <2>2. ASSUME NEW m \in Monitors, m \notin attached[e] PROVE RestoredOnceOver(m)'
    BY <1>3, <1>4, <2>2 DEF Calm, RestoredOnceOver, Over
  <2>3. QED
    BY <1>3, <2>1, <2>2 DEF CalmBut
<1>6. Exists(e)'
    BY <1>4 DEF Exists
<1>7. last'[e] = to => Calm'
  <2>1. last'[e] = to => current[e] = to
    BY <1>1, <1>3 DEF Calm, RowTells
  <2>2. current[e] = to => current' = current
    BY <1>1 DEF IInv, TypeOK
  <2>3. QED
    BY <1>3, <2>1, <2>2, SameCalm DEF data
<1>8. (CalmBut(act[u].event) /\ Exists(act[u].event) /\ (last[act[u].event] = act[u].to => Calm))'
    BY <1>2, <1>5, <1>6, <1>7
<1>9. QED
    BY <1>2, <1>8, UserIsNoJob DEF TurnInv, At

LEMMA DeleteEventTurn ==
    ASSUME IInv, Calm, NEW u \in Users, NEW e \in Events, DeleteEvent(u, e)
    PROVE  TurnInv(u)' /\ ~At(u, "idle")'
<1> DEFINE new == [Idle EXCEPT !.stage = "resume", !.event = e, !.todo = attached[e]]
<1>1. Become(u, new)
    BY DEF DeleteEvent
<1>2. new.stage = "resume" /\ new.event = e /\ new.todo = attached[e]
    BY DEF Idle
<1> HIDE DEF new
<1>3. act'[u].stage = "resume" /\ act'[u].event = e /\ act'[u].todo = attached[e]
    BY <1>1, <1>2, UserIsNoJob, Becomes
<1>4. /\ UNCHANGED <<attached, paused, status>>
      /\ current' = [current EXCEPT ![e] = "deleted"] /\ last' = [last EXCEPT ![e] = "none"]
    BY DEF DeleteEvent
<1>5. /\ current'[e] = "deleted"
      /\ \A x \in Events : x # e => current'[x] = current[x] /\ last'[x] = last[x]
    BY <1>4 DEF IInv, TypeOK
<1>6. CalmBut(e)'
  <2>1. ASSUME NEW x \in Events, x # e PROVE RowTells(x)' /\ AllPaused(x)'
    BY <1>4, <1>5, <2>1 DEF Calm, RowTells, AllPaused, Exists
  <2>2. ASSUME NEW m \in Monitors, m \notin attached[e] PROVE RestoredOnceOver(m)'
    BY <1>4, <1>5, <2>2 DEF Calm, RestoredOnceOver, Over
  <2>3. QED
    BY <1>4, <2>1, <2>2 DEF CalmBut
<1>7. ~Exists(e)'
    BY <1>5 DEF Exists, State
<1>8. PICK todo : todo = attached[e]
    OBVIOUS
<1>9. RestoredBut(e, todo)'
    BY <1>4, <1>5, <1>6, <1>7, <1>8 DEF RestoredBut, RowTells
<1>10. (RestoredBut(act[u].event, act[u].todo)
        /\ (Exists(act[u].event) => current[act[u].event] = act[u].to))'
    BY <1>3, <1>7, <1>8, <1>9
<1>11. QED
    BY <1>3, <1>10, UserIsNoJob DEF TurnInv, At

LEMMA RequestTurn ==
    ASSUME IInv, Calm, NEW u \in Users, NEW e \in Events, UserRequest(u, e), ~At(u, "reread")'
    PROVE  TurnInv(u)' /\ ~At(u, "idle")'
<1>1. ~DeleteRow(u, e)
    BY AskFields DEF DeleteRow, At
<1>2. QED
    BY <1>1, CreateEventTurn, CreateRowTurn, UpdateStateTurn, DeleteEventTurn DEF UserRequest

LEMMA SnapshotTurn ==
    ASSUME IInv, Calm, NEW j \in Jobs, Snapshot(j)
    PROVE  TurnInv(j)' /\ ~At(j, "idle")'
<1> DEFINE found == {e \in Events : IF j \in Starters THEN Starts(e) ELSE Ends(e)}
           seen == [e \in Events |-> IF e \in found THEN attached[e] ELSE {}]
           new == [Idle EXCEPT !.stage = "next", !.list = found, !.seen = seen]
<1>1. \A e \in found : Exists(e)
    BY DEF Starts, Ends, Exists, State
<1>2. \A e \in Events : seen[e] \subseteq attached[e]
    OBVIOUS
<1>3. Become(j, new) /\ UNCHANGED data /\ j \in Actors
    BY DEF Snapshot, data, rowVars, Actors
<1> HIDE DEF found, seen
<1>4. new.stage = "next" /\ new.list = found /\ new.seen = seen
    BY DEF Idle
<1> HIDE DEF new
<1>5. act'[j].stage = "next" /\ act'[j].list = found /\ act'[j].seen = seen
    BY <1>3, <1>4, Becomes
<1>6. (\A e \in Events : Exists(e) <=> Exists(e)') /\ UNCHANGED attached /\ Calm'
    BY <1>3, SameCalm DEF data
<1>7. found \subseteq Events
    BY DEF found
<1>8. JobInv(j)'
    BY <1>1, <1>2, <1>5, <1>6, <1>7 DEF JobInv, Busy
<1>9. QED
    BY <1>5, <1>6, <1>8 DEF TurnInv, At

\* Whoever starts while one actor may be at work starts when all are idle.
LEMMA Alone ==
    ASSUME NEW a \in Actors, At(a, "idle"), ~At(a, "idle")', OneAtWork',
           \A b \in Actors : b # a => act'[b] = act[b]
    PROVE  Quiet /\ \A b \in Actors : b # a => At(b, "idle")'
BY DEF Quiet, OneAtWork, At

LEMMA StartInTurn ==
    ASSUME NEW a \in Actors, At(a, "idle"), ~At(a, "idle")', OneAtWork', TurnInv(a)',
           \A b \in Actors : b # a => act'[b] = act[b]
    PROVE  InTurn'
<1>1. \A b \in Actors : TurnInv(b)'
    BY Alone, IdleTurn
<1>2. ~Quiet'
    BY DEF Quiet
<1>3. QED
    BY <1>1, <1>2 DEF InTurn

LEMMA WorkInTurn ==
    ASSUME InTurn, NEW a \in Actors, ~At(a, "idle"), TurnKept(a),
           \A b \in Actors : b # a => act'[b] = act[b]
    PROVE  InTurn'
<1>1. \A b \in Actors : b # a => At(b, "idle") /\ At(b, "idle")'
    BY DEF InTurn, OneAtWork, At
<1>2. OneAtWork'
    BY <1>1 DEF OneAtWork
<1>3. \A b \in Actors : TurnInv(b)'
    BY <1>1, IdleTurn DEF TurnKept
<1>4. Quiet' => Calm'
    BY DEF TurnKept, Quiet
<1>5. QED
    BY <1>2, <1>3, <1>4 DEF InTurn

LEMMA SameInTurn ==
    ASSUME InTurn, UNCHANGED data, UNCHANGED act
    PROVE  InTurn'
<1>1. OneAtWork' /\ (Quiet' => Calm')
    BY SameCalm DEF InTurn, OneAtWork, Quiet, At
<1>2. ASSUME NEW a \in Actors PROVE TurnInv(a)'
  <2>1. TurnInv(a)
    BY DEF InTurn
  <2>2. JobInv(a) => JobInv(a)'
    BY DEF JobInv, data, Exists
  <2>3. /\ Calm => Calm'
        /\ CalmBut(act[a].event) => CalmBut(act[a].event)'
        /\ RowTells(act[a].event) => RowTells(act[a].event)'
        /\ Exists(act[a].event) <=> Exists(act[a].event)'
        /\ \A set : RestoredBut(act[a].event, set) => RestoredBut(act[a].event, set)'
    BY SameCalm, SameRestored
  <2>4. QED
    BY <2>1, <2>2, <2>3, SameCalm DEF TurnInv, At, data
<1>3. QED
    BY <1>1, <1>2 DEF InTurn

LEMMA CountedAtWork ==
    ASSUME ~(Cardinality({a \in Actors : ~At(a, "idle")'}) > 1)
    PROVE  OneAtWork'
<1> DEFINE S == {a \in Actors : ~At(a, "idle")'}
<1>1. IsFiniteSet(S)
  <2>1. S \in SUBSET Actors
    OBVIOUS
  <2>2. QED
    BY <2>1, FiniteAssumption, FS_Subset
<1>2. \A q, r \in S : q = r
  <2> HIDE DEF S
  <2>1. ~(Cardinality(S) > 1)
    BY DEF S
  <2>2. QED
    BY <1>1, <2>1, TwoCounted
<1>3. QED
    BY <1>2 DEF OneAtWork

LEMMA NextInTurn ==
    ASSUME IInv, InTurn, Next, UNCHANGED attached, UNCHANGED failures, OneAtWork',
           \A u \in Users : ~At(u, "reread")'
    PROVE  InTurn'
<1>1. ASSUME NEW a \in Actors, Step(a) PROVE InTurn'
  <2>1. ~At(a, "idle")
    BY <1>1
    DEF At, Step, Check, Record, Apply, ReadMonitors, Pause, Resume, Lift, Reset, Rewrite
  <2>2. TurnKept(a)
    BY <1>1, StepTurn DEF InTurn
  <2>3. QED
    BY <1>1, <2>1, <2>2, StepKeeps, WorkInTurn DEF Keeps
<1>2. ASSUME NEW a \in Actors, Abort(a) PROVE InTurn'
    BY <1>2 DEF Abort, IInv, TypeOK
<1>3. ASSUME NEW j \in Jobs, Snapshot(j) PROVE InTurn'
  <2>1. j \in Actors /\ At(j, "idle") /\ \A b \in Actors : b # j => act'[b] = act[b]
    BY <1>3, SnapshotMoves DEF Snapshot, Actors
  <2>2. ~At(j, "idle")'
    <3> DEFINE found == {e \in Events : IF j \in Starters THEN Starts(e) ELSE Ends(e)}
               seen == [e \in Events |-> IF e \in found THEN attached[e] ELSE {}]
               new == [Idle EXCEPT !.stage = "next", !.list = found, !.seen = seen]
    <3>1. Become(j, new)
      BY <1>3 DEF Snapshot
    <3> HIDE DEF found, seen
    <3>2. new.stage = "next"
      BY DEF Idle
    <3> HIDE DEF new
    <3>3. QED
      BY <2>1, <3>1, <3>2, Becomes DEF At
  <2>3. Calm
    BY <2>1, <2>2, Alone DEF InTurn
  <2>4. TurnInv(j)'
    BY <1>3, <2>3, SnapshotTurn
  <2>5. QED
    BY <2>1, <2>2, <2>4, StartInTurn
<1>4. ASSUME NEW j \in Jobs, JobStep(j) PROVE InTurn'
  <2>1. j \in Actors /\ ~At(j, "idle") /\ TurnInv(j)
    BY <1>4 DEF JobStep, NextEvent, Attach, At, Actors, InTurn
  <2>2. TurnKept(j) /\ \A b \in Actors : b # j => act'[b] = act[b]
    BY <1>4, <2>1, NextEventTurn, AttachTurn, NextEventMoves, AttachKeeps DEF JobStep, Keeps
  <2>3. QED
    BY <2>1, <2>2, WorkInTurn
<1>5. ASSUME NEW u \in Users, UserStep(u) PROVE InTurn'
    BY <1>5 DEF UserStep, RereadLast, Restore, At, InTurn, TurnInv, Actors
<1>6. ASSUME NEW u \in Users, NEW e \in Events, UserRequest(u, e) PROVE InTurn'
  <2>1. /\ u \in Actors /\ At(u, "idle")
        /\ \A b \in Actors : b # u => act'[b] = act[b]
    BY <1>6, RequestMoves
    DEF UserRequest, CreateEvent, DeleteRow, DeleteEvent, CreateRow, UpdateState, Request,
        Asks, Actors
  <2>2. ~At(u, "idle")'
    <3>1. Placed(act'[u]) /\ act'[u].event = e
      BY <1>6, RequestMoves DEF Asks
    <3>2. QED
      BY <3>1, NoEventIsNoEvent DEF Placed, At
  <2>3. Calm
    BY <2>1, <2>2, Alone DEF InTurn
  <2>4. TurnInv(u)'
    BY <1>6, <2>3, RequestTurn
  <2>5. QED
    BY <2>1, <2>2, <2>4, StartInTurn
<1>7. ASSUME NEW e \in Events, EditMonitors(e) \/ Reschedule(e) \/ Tick(e) PROVE InTurn'
  <2>1. UNCHANGED data /\ UNCHANGED act
    BY <1>7 DEF EditMonitors, Reschedule, Tick, data, rowVars
  <2>2. QED
    BY <2>1, SameInTurn
<1>8. QED
    BY <1>1, <1>2, <1>3, <1>4, <1>5, <1>6, <1>7 DEF Next

LEMMA InTurnStep == InTurnInv /\ [HistoryNext]_historyVars => InTurnInv'
<1> SUFFICES ASSUME InTurnInv, [HistoryNext]_historyVars PROVE InTurnInv'
    OBVIOUS
<1>1. IInv'
    BY NextTyped DEF InTurnInv, HistoryNext, historyVars
<1>2. CASE HistoryNext
  <2>1. /\ edited' = (edited \/ attached' # attached \/ \E u \in Users : At(u, "reread")')
        /\ overlapped' = (overlapped \/ Cardinality({a \in Actors : ~At(a, "idle")'}) > 1)
        /\ Next
    BY <1>2 DEF HistoryNext
  <2>2. edited' \in BOOLEAN /\ overlapped' \in BOOLEAN
    BY <2>1, Zenon
  <2>3. ASSUME ~Disturbed' PROVE InTurn'
    <3>1. ~edited' /\ ~overlapped' /\ ~(failures' > 0)
      BY <2>3 DEF Disturbed
    <3>2. ~edited /\ attached' = attached /\ \A u \in Users : ~At(u, "reread")'
      BY <2>1, <3>1, Zenon
    <3>3. ~overlapped /\ ~(Cardinality({a \in Actors : ~At(a, "idle")'}) > 1)
      BY <2>1, <3>1, Zenon
    <3>4. failures' = failures /\ ~(failures > 0)
      <4>1. failures' = failures \/ failures' = failures + 1
        BY <2>1
        DEF Next, Step, Check, Record, Apply, ReadMonitors, Pause, Resume, Lift, Reset,
            Rewrite, Abort, Snapshot, JobStep, NextEvent, Attach, UserStep, RereadLast,
            Restore, UserRequest, CreateEvent, DeleteRow, DeleteEvent, CreateRow,
            UpdateState, EditMonitors, Reschedule, Tick
      <4>2. failures \in Nat
        BY DEF InTurnInv, IInv, TypeOK
      <4>3. QED
        BY <3>1, <4>1, <4>2
    <3>5. InTurn
      BY <3>2, <3>3, <3>4 DEF InTurnInv, Disturbed
    <3>6. OneAtWork'
      BY <3>3, CountedAtWork
    <3>7. QED
      BY <2>1, <3>2, <3>4, <3>5, <3>6, NextInTurn DEF InTurnInv
  <2>4. QED
    BY <1>1, <2>2, <2>3 DEF InTurnInv
<1>3. CASE UNCHANGED historyVars
  <2>1. UNCHANGED <<edited, overlapped, failures>> /\ UNCHANGED data /\ UNCHANGED act
    BY <1>3 DEF historyVars, vars, rowVars, data
  <2>2. InTurn => InTurn'
    BY <2>1, SameInTurn
  <2>3. Disturbed => Disturbed'
    BY <2>1 DEF Disturbed
  <2>4. QED
    BY <1>1, <2>1, <2>2, <2>3 DEF InTurnInv
<1>4. QED
    BY <1>2, <1>3

LEMMA InTurnAlways == HistorySpec => []InTurnInv
<1>1. HistoryInit => InTurnInv
  <2> SUFFICES ASSUME HistoryInit PROVE InTurnInv
      OBVIOUS
  <2>1. Init /\ edited \in BOOLEAN /\ overlapped \in BOOLEAN
    BY DEF HistoryInit
  <2>2. IInv
    BY <2>1, IdleAct DEF Init, IInv, TypeOK, Phase, Statuses
  <2>3. \A a \in Actors : At(a, "idle")
    BY <2>1 DEF Init, At, Idle
  <2>4. OneAtWork /\ \A a \in Actors : TurnInv(a)
    BY <2>3 DEF OneAtWork, TurnInv, At
  <2>5. Calm
    BY <2>1 DEF Init, Calm, RowTells, AllPaused, Exists, State, RestoredOnceOver
  <2>6. QED
    BY <2>1, <2>2, <2>4, <2>5 DEF InTurnInv, InTurn
<1>2. QED
    BY <1>1, InTurnStep, PTL DEF HistorySpec

\* The monitors of an ongoing event are not monitored, for any number of
\* events that share them, while the jobs and the requests that begin, end,
\* reopen and delete events come one after the other and none fails.
THEOREM PausedWhileInTurn == HistorySpec => []PausedInTurn
<1>1. InTurnInv => PausedInTurn
    BY DEF InTurnInv, InTurn, PausedInTurn, PausedWhileOngoing, Calm, AllPaused
<1>2. QED
    BY <1>1, InTurnAlways, PTL

\* Under the same conditions a monitor whose events are all over is monitored
\* again and operational: whichever of the events ends last resumes it.
THEOREM ResumedOnceOver == HistorySpec => []ResumedInTurn
<1>1. InTurnInv => ResumedInTurn
    BY DEF InTurnInv, InTurn, ResumedInTurn, ResumedWhenOver, Calm, RestoredOnceOver
<1>2. QED
    BY <1>1, InTurnAlways, PTL
=============================================================================
