---------------------- MODULE IncidentLifecycleProofs ----------------------
(* Theorems about IncidentLifecycle, for any number of incidents, requests *)
(* and faults.                                                             *)
EXTENDS MCIncidentLifecycle, FiniteSetTheorems, SequenceTheorems, TLAPS

LEMMA OrderedIsNext == OrderedNext => Next
  BY DEF OrderedNext, Next

LEMMA HistoryIsNext == HistoryNext => Next
  BY OrderedIsNext DEF HistoryNext, Next

-----------------------------------------------------------------------------
(* Types.                                                                  *)

LEMMA InitType == Init => TypeOK
  <1> SUFFICES ASSUME Init PROVE TypeOK
    OBVIOUS
  <1>1. (CHOOSE i \in Incidents : TRUE) \in Incidents
    BY LifecycleAssumption, Zenon
  <1>2. PICK earlier \in SUBSET Incidents :
          /\ state = [i \in Incidents |-> IF i \in earlier THEN "Created" ELSE "none"]
          /\ timeline = [i \in Incidents |->
                 IF i \in earlier THEN <<[state |-> "Created", open |-> TRUE]>> ELSE <<>>]
          /\ paused = (earlier \cap Manual # {})
          /\ monitor = IF earlier \cap ChangeStatus # {} THEN "down" ELSE "operational"
    BY DEF Init
  <1>3. timeline \in [Incidents -> Seq(Row)]
    <2>1. <<[state |-> "Created", open |-> TRUE]>> \in Seq(Row)
      BY DEF Row, IncidentStates
    <2>2. <<>> \in Seq(Row)
      BY EmptySeq
    <2> QED
      BY <1>2, <2>1, <2>2
  <1>4. on \in [Requests -> Incidents]
    BY <1>1 DEF Init
  <1> QED
    BY <1>2, <1>3, <1>4, LifecycleAssumption
    DEF Init, TypeOK, Row, Exists, IncidentStates, Stage, Op

\* Rows are added at the end, and only their ends are ever changed.
LEMMA AddRow ==
  ASSUME TypeOK, NEW i \in Incidents, NEW s \in IncidentStates
  PROVE  Append(timeline[i], [state |-> s, open |-> TRUE]) \in Seq(Row)
  <1>1. timeline[i] \in Seq(Row)
    BY DEF TypeOK
  <1>2. [state |-> s, open |-> TRUE] \in Row
    BY DEF Row
  <1> QED
    BY <1>1, <1>2, AppendProperties

LEMMA EndRow ==
  ASSUME TypeOK, NEW i \in Incidents, NEW n \in 1..Len(timeline[i])
  PROVE  /\ [timeline[i] EXCEPT ![n] = Ended(@)] \in Seq(Row)
         /\ Len([timeline[i] EXCEPT ![n] = Ended(@)]) = Len(timeline[i])
         /\ \A m \in 1..Len(timeline[i]) :
               [timeline[i] EXCEPT ![n] = Ended(@)][m].state = timeline[i][m].state
  <1> DEFINE s == timeline[i]
             e == Ended(s[n])
  <1>1. s \in Seq(Row) /\ n \in 1..Len(s)
    BY DEF TypeOK
  <1>2. s[n] \in Row
    BY <1>1, ElementOfSeq
  <1>3. e \in Row /\ e.state = s[n].state
    BY <1>2 DEF Row, Ended
  <1>4. [s EXCEPT ![n] = e] \in Seq(Row) /\ Len([s EXCEPT ![n] = e]) = Len(s)
    BY <1>1, <1>3, ExceptSeq
  <1>5. \A m \in 1..Len(s) : [s EXCEPT ![n] = e][m].state = s[m].state
    <2> HIDE DEF e, s
    <2> QED
      BY <1>1, <1>3, ExceptSeq
  <1> QED
    BY <1>1, <1>4, <1>5

LEMMA NextType == TypeOK /\ [Next]_vars => TypeOK'
  <1> SUFFICES ASSUME TypeOK, [Next]_vars PROVE TypeOK'
    OBVIOUS
  <1> USE LifecycleAssumption DEF IncidentStates, Stage, Op
  <1>1. CASE UNCHANGED vars
    BY <1>1 DEF vars, dataVars, askVars, TypeOK, Exists
  <1>2. ASSUME NEW r \in Requests, NEW i \in Incidents, Create(r, i) PROVE TypeOK'
    <2>1. timeline[i] = <<>>
      BY <1>2 DEF Create, TypeOK, Exists
    <2> QED
      BY <1>2, <2>1 DEF Create, Asks, GoTo, TypeOK, Exists
  <1>3. ASSUME NEW r \in Requests, NEW i \in Incidents, NEW s \in IncidentStates, NEW named \in BOOLEAN,
               AddState(r, i, s, named)
        PROVE  TypeOK'
    BY <1>3 DEF AddState, Asks, GoTo, dataVars, TypeOK, Exists
  <1>4. ASSUME NEW r \in Requests, NEW i \in Incidents, NEW s \in IncidentStates, SetState(r, i, s)
        PROVE  TypeOK'
    BY <1>4 DEF SetState, Asks, GoTo, TypeOK, Exists
  <1>5. ASSUME NEW r \in Requests, NEW i \in Incidents, Delete(r, i) PROVE TypeOK'
    <2>1. timeline' \in [Incidents -> Seq(Row)]
      BY <1>5 DEF Delete, TypeOK
    <2>2. \A j \in Incidents : Exists(j)' \/ timeline'[j] = <<>>
      BY <1>5 DEF Delete, TypeOK, Exists
    <2> QED
      BY <1>5, <2>1, <2>2 DEF Delete, Asks, GoTo, TypeOK
  <1>6. ASSUME NEW r \in Requests, Insert(r) PROVE TypeOK'
    <2>1. timeline' \in [Incidents -> Seq(Row)]
      <3>1. on[r] \in Incidents /\ target[r] \in IncidentStates
        BY DEF TypeOK
      <3>2. Append(timeline[on[r]], [state |-> target[r], open |-> TRUE]) \in Seq(Row)
        BY <3>1, AddRow
      <3> QED
        BY <1>6, <3>1, <3>2 DEF Insert, TypeOK
    <2>2. \A j \in Incidents : Exists(j)' \/ timeline'[j] = <<>>
      BY <1>6 DEF Insert, TypeOK, Exists
    <2> QED
      BY <1>6, <2>1, <2>2 DEF Insert, Keeps, askVars, GoTo, TypeOK
  <1>7. ASSUME NEW r \in Requests, EndLast(r) PROVE TypeOK'
    <2>1. timeline' \in [Incidents -> Seq(Row)]
      BY <1>7, EndRow DEF EndLast, TypeOK
    <2>2. \A j \in Incidents : Exists(j)' \/ timeline'[j] = <<>>
      BY <1>7 DEF EndLast, TypeOK, Exists
    <2> QED
      BY <1>7, <2>1, <2>2 DEF EndLast, Keeps, askVars, GoTo, TypeOK
  <1>8. ASSUME NEW r \in Requests, SetCurrent(r) PROVE TypeOK'
    <2>1. AfterChange(r) \in Stage
      BY DEF AfterChange
    <2> QED
      BY <1>8, <2>1 DEF SetCurrent, ChangeReturns, Keeps, askVars, GoTo, TypeOK, Exists
  <1>9. ASSUME NEW r \in Requests, FindLast(r) PROVE TypeOK'
    <2>1. Len(timeline[on[r]]) \in Nat
      BY DEF TypeOK
    <2> QED
      BY <1>9, <2>1 DEF FindLast, Keeps, askVars, dataVars, GoTo, TypeOK, Exists
  <1>10. ASSUME NEW r \in Requests,
                ChangeMonitorStatus(r) \/ Look(r) \/ Count(r) \/ Resume(r) \/ Operational(r) \/ Pause(r) \/ Fails(r)
         PROVE  TypeOK'
    <2>1. AfterChange(r) \in Stage
      BY DEF AfterChange
    <2>2. UNCHANGED <<state, timeline, askVars, last, tenant>>
      BY <1>10 DEF ChangeMonitorStatus, Look, Count, Resume, Operational, Pause, Fails, Keeps, dataVars
    <2>3. stage' \in [Requests -> Stage] /\ nested' \in [Requests -> BOOLEAN]
      BY <1>10, <2>1 DEF ChangeMonitorStatus, Look, Count, Resume, Operational, Pause, Fails, ChangeReturns, GoTo, TypeOK
    <2>4. paused' \in BOOLEAN /\ monitor' \in {"operational", "down"}
      BY <1>10 DEF ChangeMonitorStatus, Look, Count, Resume, Operational, Pause, Fails, dataVars, TypeOK
    <2>5. faults' \in 0..MaxFaults
      BY <1>10 DEF ChangeMonitorStatus, Look, Count, Resume, Operational, Pause, Fails, Keeps, TypeOK
    <2> QED
      BY <2>2, <2>3, <2>4, <2>5 DEF askVars, TypeOK, Exists
  <1> QED
    BY <1>1, <1>2, <1>3, <1>4, <1>5, <1>6, <1>7, <1>8, <1>9, <1>10 DEF Next, Begin, Step

\* Whatever callers do, no row of a timeline outlives its incident, and every
\* request is in a stage of its operation.
THEOREM IncidentTypeCorrect == Spec => []TypeOK
  BY InitType, NextType, PTL DEF Spec

-----------------------------------------------------------------------------
(* The pause of monitoring, while callers keep InOrder and nothing fails.  *)

\* What a request's stage says about its operation.
Shaped ==
    \A r \in Requests :
        /\ op[r] = "create" => target[r] = "Created"
        /\ op[r] = "delete" => target[r] = "Resolved"
        /\ stage[r] \in {"count", "resume", "operational"} => target[r] = "Resolved"
        /\ stage[r] = "pause" => op[r] = "create" /\ on[r] \in Manual
        /\ stage[r] = "status" => op[r] = "create"

LEMMA InitShaped == Init => Shaped
  BY DEF Init, Shaped

LEMMA NextShaped == TypeOK /\ Shaped /\ [Next]_vars => Shaped'
  <1> SUFFICES ASSUME TypeOK, Shaped, [Next]_vars PROVE Shaped'
    OBVIOUS
  <1>1. CASE UNCHANGED vars
    BY <1>1 DEF vars, askVars, Shaped
  <1>2. ASSUME NEW r \in Requests, Begin(r) PROVE Shaped'
    <2>1. PICK i \in Incidents :
             \/ Create(r, i)
             \/ \E s \in IncidentStates, named \in BOOLEAN : AddState(r, i, s, named)
             \/ \E s \in IncidentStates : SetState(r, i, s)
             \/ Delete(r, i)
      BY <1>2 DEF Begin
    <2>2. \A q \in Requests : q # r =>
               stage'[q] = stage[q] /\ on'[q] = on[q] /\ op'[q] = op[q] /\ target'[q] = target[q]
      BY <2>1 DEF Create, AddState, SetState, Delete, Asks, GoTo, TypeOK
    <2>3. /\ op'[r] = "create" => target'[r] = "Created"
          /\ op'[r] = "delete" => target'[r] = "Resolved"
          /\ stage'[r] = "count" => op'[r] = "delete"
          /\ stage'[r] = "status" => op'[r] = "create"
          /\ stage'[r] \notin {"resume", "operational", "pause"}
      BY <2>1 DEF Create, AddState, SetState, Delete, Asks, GoTo, TypeOK
    <2> QED
      BY <2>2, <2>3 DEF Shaped
  <1>3. ASSUME NEW r \in Requests, Step(r) \/ Fails(r) PROVE Shaped'
    <2>1. UNCHANGED askVars
      BY <1>3 DEF Step, ChangeMonitorStatus, Look, FindLast, Insert, EndLast, SetCurrent, Count, Resume,
                  Operational, Pause, Fails, Keeps
    <2>2. \A q \in Requests : q # r => stage'[q] = stage[q]
      BY <1>3 DEF Step, ChangeMonitorStatus, Look, FindLast, Insert, EndLast, SetCurrent, Count, Resume,
                  Operational, Pause, Fails, ChangeReturns, GoTo, TypeOK
    <2>3. /\ stage'[r] \in {"count", "resume", "operational"} => target[r] = "Resolved"
          /\ stage'[r] = "pause" => op[r] = "create" /\ on[r] \in Manual
          /\ stage'[r] # "status"
      BY <1>3 DEF Step, ChangeMonitorStatus, Look, FindLast, Insert, EndLast, SetCurrent, Count, Resume,
                  Operational, Pause, Fails, ChangeReturns, AfterChange, GoTo, TypeOK, Shaped
    <2> QED
      BY <2>1, <2>2, <2>3 DEF askVars, Shaped
  <1> QED
    BY <1>1, <1>2, <1>3 DEF Next

\* A request that does not resolve works on an active incident, undisturbed.
Tidy ==
    \A r \in Requests : Running(r) =>
        /\ state[on[r]] # "none"
        /\ target[r] # "Resolved" =>
               /\ state[on[r]] \in Active
               /\ \A q \in Requests : on[q] = on[r] => ~Resolving(q)

\* Nobody has become active since a request found no active manual incident.
Idle == \A r \in Requests : stage[r] = "resume" => ActiveManual = {}

Paused == \A i \in ActiveManual : BeingCreated(i) \/ paused

\* The newest row of an active incident is resolved only while its request is
\* about to update the incident.
Backed ==
    \A i \in Incidents : state[i] \in Active /\ LastIs(i, "Resolved") =>
        \E r \in Requests : on[r] = i /\ target[r] = "Resolved" /\ stage[r] \in {"end", "current"}

\* The request will count the active incidents once more.
WillCount(r) ==
    /\ target[r] = "Resolved"
    /\ \/ stage[r] = "resume"
       \/ stage[r] = "count" /\ (op[r] = "delete" \/ Exists(on[r]))
       \/ stage[r] \in {"end", "current"} /\ Exists(on[r])
       \/ stage[r] \in {"find", "insert"} /\ state[on[r]] = "Resolved"
       \/ stage[r] = "look" /\ state[on[r]] = "Resolved" /\ (nested[r] \/ ~LastIs(on[r], "Resolved"))

Watched == paused /\ ActiveManual = {} => \E r \in Requests : WillCount(r)

NoneActive == \A i \in Incidents : state[i] \notin Active

Restored ==
    monitor = "down" /\ NoneActive => \E r \in Requests : WillCount(r) \/ stage[r] = "operational"

Ordered == Tidy /\ Idle /\ Paused /\ Backed /\ Watched /\ Restored

LEMMA InitOrdered == Init => Ordered
  <1> SUFFICES ASSUME Init PROVE Ordered
    OBVIOUS
  <1>1. Tidy /\ Idle
    BY DEF Init, Tidy, Idle, Running
  <1>2. PICK earlier \in SUBSET Incidents :
          /\ state = [i \in Incidents |-> IF i \in earlier THEN "Created" ELSE "none"]
          /\ timeline = [i \in Incidents |->
                 IF i \in earlier THEN <<[state |-> "Created", open |-> TRUE]>> ELSE <<>>]
          /\ paused = (earlier \cap Manual # {})
          /\ monitor = IF earlier \cap ChangeStatus # {} THEN "down" ELSE "operational"
    BY DEF Init
  <1>3. \A i \in Incidents : ~LastIs(i, "Resolved")
    BY <1>2 DEF LastIs
  <1>4. ActiveManual = earlier \cap Manual
    BY <1>2, LifecycleAssumption DEF ActiveManual, Active
  <1>5. monitor = "down" => ~NoneActive
    BY <1>2, LifecycleAssumption DEF NoneActive, Active
  <1> QED
    BY <1>1, <1>2, <1>3, <1>4, <1>5 DEF Ordered, Paused, Backed, Watched, Restored

\* What the steps of a request leave alone.
LEMMA StepFrame ==
  ASSUME TypeOK, NEW r \in Requests, Begin(r) \/ Step(r) \/ Fails(r)
  PROVE  /\ \A q \in Requests : q # r =>
               stage'[q] = stage[q] /\ on'[q] = on[q] /\ op'[q] = op[q] /\ target'[q] = target[q]
               /\ nested'[q] = nested[q]
         /\ Step(r) \/ Fails(r) => UNCHANGED askVars
  <1>1. CASE Begin(r)
    BY <1>1 DEF Begin, Create, AddState, SetState, Delete, Asks, GoTo, TypeOK, Step, Fails, Running,
                ChangeMonitorStatus, Look, FindLast, Insert, EndLast, SetCurrent, Count, Resume, Operational, Pause
  <1>2. CASE Step(r) \/ Fails(r)
    <2>1. UNCHANGED askVars
      BY <1>2 DEF Step, ChangeMonitorStatus, Look, FindLast, Insert, EndLast, SetCurrent, Count, Resume,
                  Operational, Pause, Fails, Keeps
    <2>2. \A q \in Requests : q # r => stage'[q] = stage[q] /\ nested'[q] = nested[q]
      BY <1>2 DEF Step, ChangeMonitorStatus, Look, FindLast, Insert, EndLast, SetCurrent, Count, Resume,
                  Operational, Pause, Fails, ChangeReturns, GoTo, TypeOK
    <2> QED
      BY <2>1, <2>2 DEF askVars
  <1> QED
    BY <1>1, <1>2

\* How the steps after the first change the data, when nothing fails.
LEMMA StepData ==
  ASSUME TypeOK, NEW r \in Requests, Step(r)
  PROVE  /\ SetCurrent(r) \/ UNCHANGED state
         /\ Insert(r) \/ EndLast(r) \/ UNCHANGED timeline
         /\ Resume(r) \/ Pause(r) \/ UNCHANGED paused
         /\ SetCurrent(r) =>
               /\ \A i \in Incidents : i # on[r] => state'[i] = state[i]
               /\ IF Exists(on[r]) THEN state'[on[r]] = target[r] ELSE state'[on[r]] = state[on[r]]
  <1>1. on[r] \in Incidents
    BY DEF TypeOK
  <1> QED
    BY <1>1 DEF Step, ChangeMonitorStatus, Look, FindLast, Insert, EndLast, SetCurrent, Count, Resume,
           Operational, Pause, dataVars, TypeOK

LEMMA NextTidy ==
  ASSUME TypeOK, Shaped, Tidy, NEW r \in Requests, (Begin(r) /\ InOrder(r)) \/ Step(r)
  PROVE  Tidy'
  <1> USE DEF Running, Resolving
  <1>f. \A q \in Requests : q # r =>
             stage'[q] = stage[q] /\ on'[q] = on[q] /\ target'[q] = target[q]
    BY StepFrame
  <1>1. CASE Step(r)
    <2>1. UNCHANGED <<on, target>>
      BY <1>1, StepFrame DEF askVars
    <2>2. Running(r)
      BY <1>1 DEF Step, ChangeMonitorStatus, Look, FindLast, Insert, EndLast, SetCurrent, Count, Resume,
                  Operational, Pause
    <2>3. \A i \in Incidents : state[i] # "none" => state'[i] # "none"
      <3>1. "none" \notin IncidentStates /\ target[r] \in IncidentStates
        BY DEF TypeOK, IncidentStates
      <3>2. CASE UNCHANGED state
        BY <3>2
      <3>3. CASE SetCurrent(r)
        BY <1>1, <3>1, <3>3, StepData
      <3> QED
        BY <1>1, <3>2, <3>3, StepData
    <2>4. ASSUME NEW q \in Requests, Running(q), target[q] # "Resolved" PROVE state'[on[q]] \in Active
      <3>1. state[on[q]] \in Active /\ (on[r] = on[q] => target[r] # "Resolved")
        BY <2>2, <2>4 DEF Tidy
      <3>2. target[r] # "Resolved" => target[r] \in Active
        BY DEF TypeOK, IncidentStates, Active
      <3> QED
        BY <1>1, <3>1, <3>2, StepData DEF TypeOK
    <2>5. \A q \in Requests : Running(q)' => Running(q)
      BY <1>f, <2>2
    <2> QED
      BY <1>f, <2>1, <2>3, <2>4, <2>5 DEF Tidy, TypeOK
  <1>2. CASE Begin(r) /\ InOrder(r)
    <2>1. stage[r] = "idle"
      BY <1>2 DEF Begin, Create, AddState, SetState, Delete
    <2>2. PICK i \in Incidents :
             \/ Create(r, i)
             \/ \E s \in IncidentStates, named \in BOOLEAN : AddState(r, i, s, named)
             \/ \E s \in IncidentStates : SetState(r, i, s)
             \/ Delete(r, i)
      BY <1>2 DEF Begin
    <2>3. on'[r] = i
      BY <2>2 DEF Create, AddState, SetState, Delete, Asks, TypeOK
    <2>4. \A j \in Incidents : j # i => state'[j] = state[j]
      BY <2>2 DEF Create, AddState, SetState, Delete, dataVars, TypeOK
    <2>5. state'[i] # "none"
      BY <2>2 DEF Create, AddState, SetState, Delete, dataVars, TypeOK, IncidentStates, Exists
    <2>6. CASE target'[r] = "Resolved"
      <3>1. \A q \in Requests : Running(q) /\ on[q] = i => target[q] = "Resolved"
        BY <1>2, <2>3, <2>6 DEF InOrder
      <3>2. ASSUME NEW q \in Requests, Running(q)', q # r
            PROVE  /\ state'[on'[q]] # "none"
                   /\ target'[q] # "Resolved" =>
                        /\ state'[on'[q]] \in Active
                        /\ \A p \in Requests : on'[p] = on'[q] => ~Resolving(p)'
        <4>1. Running(q) /\ on'[q] = on[q] /\ target'[q] = target[q] /\ on[q] \in Incidents
          BY <1>f, <3>2 DEF TypeOK
        <4>2. target[q] # "Resolved" => on[q] # i
          BY <3>1, <4>1
        <4> QED
          BY <1>f, <2>3, <2>4, <2>5, <3>2, <4>1, <4>2 DEF Tidy
      <3> QED
        BY <2>3, <2>5, <2>6, <3>2 DEF Tidy
    <2>7. CASE target'[r] # "Resolved"
      <3>1. \A q \in Requests : on[q] = i => ~Resolving(q)
        BY <1>2, <2>3, <2>7 DEF InOrder
      <3>2. state'[i] \in Active
        <4>1. CASE Create(r, i)
          BY <4>1 DEF Create, Active, TypeOK
        <4>2. CASE ~Create(r, i)
          <5>1. op'[r] # "create" /\ Exists(i)
            BY <2>2, <4>2, <2>7 DEF AddState, SetState, Delete, Asks, TypeOK
          <5>2. state[i] # "Resolved"
            BY <1>2, <2>3, <2>7, <5>1 DEF InOrder
          <5>3. state[i] \in Active
            BY <5>1, <5>2 DEF Exists, IncidentStates, Active
          <5>4. state'[i] = state[i] \/ state'[i] = target'[r]
            BY <2>2, <4>2, <2>7 DEF AddState, SetState, Delete, Asks, dataVars, TypeOK
          <5>5. target'[r] \in IncidentStates
            BY <2>2, <4>2 DEF AddState, SetState, Delete, Asks, TypeOK, IncidentStates
          <5> QED
            BY <2>7, <5>3, <5>4, <5>5 DEF IncidentStates, Active
        <4> QED
          BY <4>1, <4>2
      <3>3. \A q \in Requests : on'[q] = i => ~Resolving(q)'
        BY <1>f, <2>7, <3>1
      <3>4. ASSUME NEW q \in Requests, Running(q)', q # r
            PROVE  /\ state'[on'[q]] # "none"
                   /\ target'[q] # "Resolved" =>
                        /\ state'[on'[q]] \in Active
                        /\ \A p \in Requests : on'[p] = on'[q] => ~Resolving(p)'
        <4>1. Running(q) /\ on'[q] = on[q] /\ target'[q] = target[q] /\ on[q] \in Incidents
          BY <1>f, <3>4 DEF TypeOK
        <4>2. on[q] # i => state'[on[q]] = state[on[q]]
          BY <2>4, <4>1
        <4>3. \A p \in Requests : on'[p] = on[q] /\ target[q] # "Resolved" => ~Resolving(p)'
          BY <1>f, <2>3, <2>7, <4>1 DEF Tidy
        <4> QED
          BY <2>5, <3>2, <4>1, <4>2, <4>3 DEF Tidy
      <3> QED
        BY <2>3, <2>5, <3>2, <3>3, <3>4 DEF Tidy
    <2> QED
      BY <2>6, <2>7
  <1> QED
    BY <1>1, <1>2

\* What the first step of a request does.
LEMMA BeginData ==
  ASSUME TypeOK, NEW r \in Requests, Begin(r)
  PROVE  /\ stage[r] = "idle" /\ on'[r] \in Incidents /\ target'[r] \in IncidentStates
         /\ paused' = paused
         /\ \A j \in Incidents : j # on'[r] => state'[j] = state[j] /\ timeline'[j] = timeline[j]
         /\ \/ op'[r] = "create" /\ target'[r] = "Created" /\ stage'[r] \in {"status", "look"}
               /\ state[on'[r]] = "none" /\ state'[on'[r]] = "Created" /\ timeline'[on'[r]] = <<>>
            \/ /\ op'[r] = "change" /\ stage'[r] = "find" /\ state' = state /\ timeline' = timeline
               /\ Exists(on'[r])
            \/ /\ op'[r] = "change" /\ stage'[r] = "look" /\ Exists(on'[r])
               /\ state'[on'[r]] = target'[r] /\ timeline' = timeline
            \/ /\ op'[r] = "delete" /\ stage'[r] = "count" /\ target'[r] = "Resolved"
               /\ state'[on'[r]] = "deleted" /\ timeline'[on'[r]] = <<>>
  <1>1. PICK i \in Incidents :
             \/ Create(r, i)
             \/ \E s \in IncidentStates, named \in BOOLEAN : AddState(r, i, s, named)
             \/ \E s \in IncidentStates : SetState(r, i, s)
             \/ Delete(r, i)
    BY DEF Begin
  <1>2. on'[r] = i
    BY <1>1 DEF Create, AddState, SetState, Delete, Asks, TypeOK
  <1>3. CASE Create(r, i)
    <2>1. timeline[i] = <<>>
      BY <1>3 DEF Create, TypeOK, Exists, IncidentStates
    <2>2. op'[r] = "create" /\ target'[r] = "Created" /\ stage'[r] \in {"status", "look"} /\ stage[r] = "idle"
      BY <1>3 DEF Create, Asks, GoTo, TypeOK
    <2>3. state[i] = "none" /\ state' = [state EXCEPT ![i] = "Created"] /\ timeline' = timeline /\ paused' = paused
      BY <1>3 DEF Create
    <2> QED
      BY <1>2, <2>1, <2>2, <2>3 DEF TypeOK, IncidentStates
  <1>4. CASE \E s \in IncidentStates, named \in BOOLEAN : AddState(r, i, s, named)
    BY <1>2, <1>4 DEF AddState, Asks, GoTo, TypeOK, dataVars
  <1>5. CASE \E s \in IncidentStates : SetState(r, i, s)
    BY <1>2, <1>5 DEF SetState, Asks, GoTo, TypeOK
  <1>6. CASE Delete(r, i)
    BY <1>2, <1>6 DEF Delete, Asks, GoTo, TypeOK, IncidentStates
  <1> QED
    BY <1>1, <1>3, <1>4, <1>5, <1>6

\* Nothing but the creation of an incident makes it active.
LEMMA NoReopening ==
  ASSUME TypeOK, Shaped, Tidy, NEW r \in Requests, (Begin(r) /\ InOrder(r)) \/ Step(r), NEW i \in Incidents
  PROVE  /\ state'[i] \in Active =>
               state[i] \in Active \/ (Begin(r) /\ op'[r] = "create" /\ on'[r] = i)
         /\ state[i] \in Active /\ state'[i] \notin Active =>
               on'[r] = i /\ target'[r] = "Resolved" /\ (SetCurrent(r) \/ Begin(r))
  <1> USE DEF Active
  <1>1. CASE Step(r)
    <2>1. on'[r] = on[r] /\ target'[r] = target[r] /\ target[r] \in IncidentStates
      BY <1>1, StepFrame DEF askVars, TypeOK
    <2>2. CASE SetCurrent(r)
      <3>1. Running(r)
        BY <2>2 DEF SetCurrent, Running
      <3>2. target[r] # "Resolved" => state[on[r]] \in Active
        BY <3>1 DEF Tidy
      <3> QED
        BY <1>1, <2>1, <2>2, <3>2, StepData DEF IncidentStates
    <2>3. CASE UNCHANGED state
      BY <2>3
    <2> QED
      BY <1>1, <2>2, <2>3, StepData
  <1>2. CASE Begin(r) /\ InOrder(r)
    <2>1. op'[r] # "create" /\ target'[r] # "Resolved" => state[on'[r]] # "Resolved"
      BY <1>2 DEF InOrder
    <2> QED
      BY <1>2, <2>1, BeginData DEF Exists, IncidentStates
  <1> QED
    BY <1>1, <1>2

LEMMA NextIdle ==
  ASSUME TypeOK, Shaped, Tidy, Idle, NEW r \in Requests, (Begin(r) /\ InOrder(r)) \/ Step(r)
  PROVE  Idle'
  <1>1. ASSUME NEW q \in Requests, stage[q] = "resume" PROVE ActiveManual' = {}
    <2>1. ActiveManual = {} /\ Resolving(q)
      BY <1>1 DEF Idle, Resolving, Running, Shaped
    <2>2. ~(Begin(r) /\ InOrder(r) /\ op'[r] = "create")
      BY <2>1 DEF InOrder
    <2>3. ASSUME NEW i \in Manual PROVE state'[i] \notin Active
      <3>1. i \in Incidents /\ state[i] \notin Active
        BY <2>1, LifecycleAssumption DEF ActiveManual
      <3>2. ~(Begin(r) /\ op'[r] = "create")
        BY <2>2 DEF Begin, Step, Create, AddState, SetState, Delete, ChangeMonitorStatus, Look, FindLast, Insert,
                    EndLast, SetCurrent, Count, Resume, Operational, Pause
      <3> QED
        BY <3>1, <3>2, NoReopening
    <2> QED
      BY <2>3 DEF ActiveManual
  <1>2. stage'[r] = "resume" /\ stage[r] # "resume" => Count(r) /\ ActiveManual = {} /\ UNCHANGED state
    <2>1. CASE Begin(r)
      BY <2>1, BeginData
    <2>2. CASE Step(r)
      <3>1. AfterChange(r) # "resume"
        BY DEF AfterChange
      <3> QED
        BY <2>2, <3>1 DEF Step, ChangeMonitorStatus, Look, FindLast, Insert, EndLast, SetCurrent, Count, Resume,
                  Operational, Pause, ChangeReturns, GoTo, TypeOK, MoreActive, dataVars
    <2> QED
      BY <2>1, <2>2
  <1>3. \A q \in Requests : q # r => stage'[q] = stage[q]
    BY StepFrame
  <1>4. UNCHANGED state => ActiveManual' = ActiveManual
    BY DEF ActiveManual
  <1> QED
    BY <1>1, <1>2, <1>3, <1>4 DEF Idle

LEMMA NextPaused ==
  ASSUME TypeOK, Shaped, Tidy, Idle, Paused, NEW r \in Requests, (Begin(r) /\ InOrder(r)) \/ Step(r)
  PROVE  Paused'
  <1> SUFFICES ASSUME NEW i \in Manual, state'[i] \in Active PROVE BeingCreated(i)' \/ paused'
    BY DEF Paused, ActiveManual
  <1> USE DEF BeingCreated, Running
  <1>i. i \in Incidents
    BY LifecycleAssumption
  <1>f. \A q \in Requests : q # r => stage'[q] = stage[q] /\ on'[q] = on[q] /\ op'[q] = op[q]
    BY StepFrame
  <1>1. CASE Begin(r) /\ op'[r] = "create" /\ on'[r] = i
    BY <1>1, BeginData
  <1>2. CASE Begin(r) /\ state[i] \in Active
    <2>1. BeingCreated(i) \/ paused
      BY <1>2 DEF Paused, ActiveManual
    <2> QED
      BY <1>2, <1>f, <2>1, BeginData
  <1>3. CASE Step(r) /\ state[i] \in Active
    <2>1. BeingCreated(i) \/ paused
      BY <1>3 DEF Paused, ActiveManual
    <2>2. UNCHANGED <<on, op, target>>
      BY <1>3, StepFrame DEF askVars
    <2>3. paused => paused'
      <3>1. CASE Resume(r)
        BY <1>3, <3>1 DEF Idle, Resume, ActiveManual
      <3>2. CASE Pause(r)
        BY <3>2 DEF Pause
      <3> QED
        BY <1>3, <3>1, <3>2, StepData
    <2>4. ASSUME op[r] = "create", on[r] = i PROVE paused' \/ stage'[r] \notin {"idle", "done"}
      <3>1. AfterChange(r) = "pause"
        BY <2>4 DEF AfterChange
      <3>2. target[r] = "Created"
        BY <2>4 DEF Shaped
      <3>3. Exists(on[r])
        BY <1>3, <2>4 DEF Exists, Active, IncidentStates
      <3> QED
        BY <1>3, <3>1, <3>2, <3>3 DEF Step, ChangeMonitorStatus, Look, FindLast, Insert, EndLast, SetCurrent, Count,
               Resume, Operational, Pause, ChangeReturns, GoTo, TypeOK
    <2> QED
      BY <1>f, <2>1, <2>2, <2>3, <2>4
  <1>4. state[i] \in Active \/ (Begin(r) /\ op'[r] = "create" /\ on'[r] = i)
    BY <1>i, NoReopening
  <1> QED
    BY <1>1, <1>2, <1>3, <1>4

\* The newest row's state changes only when a row is added or the timeline goes.
LEMMA StepRows ==
  ASSUME TypeOK, NEW r \in Requests, Step(r), NEW i \in Incidents
  PROVE  /\ LastIs(i, "Resolved")' =>
               \/ LastIs(i, "Resolved")
               \/ /\ Insert(r) /\ on[r] = i /\ target[r] = "Resolved"
                  /\ stage'[r] = "end" /\ Exists(i) /\ state' = state
  <1>1. on[r] \in Incidents /\ target[r] \in IncidentStates /\ \A j \in Incidents : timeline[j] \in Seq(Row)
    BY DEF TypeOK
  <1>2. CASE UNCHANGED timeline
    BY <1>2 DEF LastIs
  <1>3. CASE Insert(r)
    <2>1. CASE ~Exists(on[r])
      BY <1>3, <2>1 DEF Insert, LastIs
    <2>2. CASE Exists(on[r])
      <3> DEFINE row == [state |-> target[r], open |-> TRUE]
      <3>1. timeline' = [timeline EXCEPT ![on[r]] = Append(timeline[on[r]], row)]
            /\ stage'[r] = "end" /\ state' = state
        BY <1>3, <2>2 DEF Insert, GoTo, TypeOK
      <3>2. on[r] # i => timeline'[i] = timeline[i]
        BY <1>1, <3>1
      <3>3. on[r] = i => timeline'[i] = Append(timeline[i], row)
        BY <1>1, <3>1 DEF TypeOK
      <3>4. row \in Row /\ row.state = target[r]
        BY <1>1 DEF Row
      <3>5. /\ Len(Append(timeline[i], row)) = Len(timeline[i]) + 1
            /\ Append(timeline[i], row)[Len(timeline[i]) + 1] = row
        <4> HIDE DEF row
        <4> QED
          BY <1>1, <3>4, AppendProperties
      <3>6. on[r] = i /\ LastIs(i, "Resolved")' => target[r] = "Resolved"
        BY <3>3, <3>4, <3>5 DEF LastIs
      <3>7. on[r] # i => (LastIs(i, "Resolved")' <=> LastIs(i, "Resolved"))
        BY <3>2 DEF LastIs
      <3> QED
        BY <1>3, <2>2, <3>1, <3>6, <3>7
    <2> QED
      BY <2>1, <2>2
  <1>4. CASE EndLast(r)
    <2>1. CASE on[r] = i /\ last[r] \in 1..Len(timeline[i])
      <3> DEFINE n == last[r]
      <3>1. timeline'[i] = [timeline[i] EXCEPT ![n] = Ended(@)]
        BY <1>1, <1>4, <2>1 DEF EndLast, TypeOK
      <3>2. /\ Len(timeline'[i]) = Len(timeline[i])
            /\ \A m \in 1..Len(timeline[i]) : timeline'[i][m].state = timeline[i][m].state
        BY <2>1, <3>1, EndRow
      <3>3. Len(timeline[i]) \in 1..Len(timeline[i])
        BY <1>1, <2>1
      <3>4. timeline[i] # <<>>
        BY <2>1
      <3> QED
        BY <3>2, <3>3, <3>4 DEF LastIs
    <2>2. CASE ~(on[r] = i /\ last[r] \in 1..Len(timeline[i]))
      <3>1. timeline'[i] = timeline[i]
        BY <1>1, <1>4, <2>2 DEF EndLast, TypeOK
      <3> QED
        BY <3>1 DEF LastIs
    <2> QED
      BY <2>1, <2>2
  <1> QED
    BY <1>2, <1>3, <1>4, StepData

LEMMA NextBacked ==
  ASSUME TypeOK, Shaped, Tidy, Backed, NEW r \in Requests, (Begin(r) /\ InOrder(r)) \/ Step(r)
  PROVE  Backed'
  <1> SUFFICES ASSUME NEW i \in Incidents, state'[i] \in Active, LastIs(i, "Resolved")'
               PROVE  \E q \in Requests :
                         on'[q] = i /\ target'[q] = "Resolved" /\ stage'[q] \in {"end", "current"}
    BY DEF Backed
  <1>f. \A q \in Requests : q # r => stage'[q] = stage[q] /\ on'[q] = on[q] /\ target'[q] = target[q]
    BY StepFrame
  <1>1. CASE Begin(r) /\ InOrder(r)
    <2>1. timeline'[i] = timeline[i] /\ timeline'[i] # <<>>
      BY <1>1, BeginData DEF LastIs
    <2>2. state[i] \in Active
      BY <1>1, <2>1, BeginData, NoReopening DEF LastIs
    <2>3. LastIs(i, "Resolved")
      BY <2>1 DEF LastIs
    <2>4. PICK q \in Requests : on[q] = i /\ target[q] = "Resolved" /\ stage[q] \in {"end", "current"}
      BY <2>2, <2>3 DEF Backed
    <2> QED
      BY <1>1, <1>f, <2>4, BeginData
  <1>2. CASE Step(r)
    <2>1. UNCHANGED <<on, target>>
      BY <1>2, StepFrame DEF askVars
    <2>2. CASE Insert(r) /\ on[r] = i /\ target[r] = "Resolved" /\ stage'[r] = "end"
      BY <2>1, <2>2
    <2>3. CASE LastIs(i, "Resolved")
      <3>1. state[i] \in Active
        BY <1>2, NoReopening DEF Begin, Step, Create, AddState, SetState, Delete, ChangeMonitorStatus, Look, FindLast,
               Insert, EndLast, SetCurrent, Count, Resume, Operational, Pause
      <3>2. PICK q \in Requests : on[q] = i /\ target[q] = "Resolved" /\ stage[q] \in {"end", "current"}
        BY <2>3, <3>1 DEF Backed
      <3>3. CASE q # r
        BY <1>f, <2>1, <3>2, <3>3
      <3>4. CASE q = r /\ EndLast(r)
        BY <2>1, <3>2, <3>4 DEF EndLast, GoTo, TypeOK
      <3>5. CASE q = r /\ SetCurrent(r)
        <4>1. Exists(i)
          BY <3>1 DEF Exists, Active, IncidentStates
        <4>2. state'[i] = "Resolved"
          BY <1>2, <3>2, <3>5, <4>1, StepData
        <4> QED
          BY <4>2 DEF Active
      <3>6. stage[r] \in {"end", "current"} => EndLast(r) \/ SetCurrent(r)
        BY <1>2 DEF Step, ChangeMonitorStatus, Look, FindLast, Insert, EndLast, SetCurrent, Count, Resume,
                    Operational, Pause
      <3> QED
        BY <3>2, <3>3, <3>4, <3>5, <3>6
    <2> QED
      BY <1>2, <2>2, <2>3, StepRows
  <1> QED
    BY <1>1, <1>2

\* A request that will count goes on to count whatever another one does.
LEMMA WitnessKept ==
  ASSUME TypeOK, Shaped, Tidy, NEW r \in Requests, (Begin(r) /\ InOrder(r)) \/ Step(r),
         NEW q \in Requests, q # r, WillCount(q)
  PROVE  \E p \in Requests : WillCount(p)'
  <1>f. stage'[q] = stage[q] /\ on'[q] = on[q] /\ op'[q] = op[q] /\ target'[q] = target[q] /\ nested'[q] = nested[q]
    BY StepFrame
  <1>q. Resolving(q) /\ on[q] \in Incidents
    BY DEF WillCount, Resolving, Running, TypeOK
  <1> PICK i \in Incidents : i = on[q]
    BY <1>q
  <1>r. Resolving(q) /\ i = on[q]
    BY <1>q
  <1>1. CASE Begin(r) /\ InOrder(r)
    <2>1. CASE op'[r] = "delete" /\ on'[r] = i
      BY <1>1, <2>1, BeginData DEF WillCount
    <2>2. CASE on'[r] # i
      <3>1. state'[i] = state[i] /\ timeline'[i] = timeline[i]
        BY <1>1, <1>r, <2>2, BeginData
      <3> QED
        BY <1>f, <3>1 DEF WillCount, Exists, LastIs
    <2>3. CASE op'[r] = "change" /\ on'[r] = i
      <3>1. target'[r] = "Resolved"
        BY <1>1, <1>r, <2>3 DEF InOrder
      <3>2. timeline'[i] = timeline[i] /\ (state'[i] = state[i] \/ state'[i] = "Resolved")
        BY <1>1, <2>3, <3>1, BeginData
      <3> QED
        BY <1>f, <3>2 DEF WillCount, Exists, IncidentStates, LastIs
    <2>4. CASE op'[r] = "create" /\ on'[r] = i
      BY <1>1, <1>r, <2>4 DEF InOrder
    <2> QED
      BY <1>1, <2>1, <2>2, <2>3, <2>4, BeginData
  <1>2. CASE Step(r)
    <2>1. CASE LastIs(i, "Resolved")' /\ ~LastIs(i, "Resolved")
      <3>1. /\ Insert(r) /\ on[r] = i /\ target[r] = "Resolved" /\ stage'[r] = "end" /\ Exists(i)
            /\ state' = state
        BY <1>2, <1>r, <2>1, StepRows
      <3>2. on'[r] = on[r] /\ target'[r] = target[r]
        BY <1>2, StepFrame DEF askVars
      <3> QED
        BY <3>1, <3>2 DEF WillCount, Exists
    <2>2. CASE LastIs(i, "Resolved")' => LastIs(i, "Resolved")
      <3>1. state'[i] = state[i] \/ (state'[i] = "Resolved" /\ Exists(i))
        <4>1. CASE SetCurrent(r) /\ on[r] = i
          <5>1. Running(r)
            BY <4>1 DEF SetCurrent, Running
          <5>2. target[r] = "Resolved"
            BY <1>r, <4>1, <5>1 DEF Tidy
          <5> QED
            BY <1>2, <4>1, <5>2, StepData
        <4>2. CASE ~(SetCurrent(r) /\ on[r] = i)
          BY <1>2, <1>r, <4>2, StepData
        <4> QED
          BY <4>1, <4>2
      <3> QED
        BY <1>f, <2>2, <3>1 DEF WillCount, Exists, IncidentStates
    <2> QED
      BY <2>1, <2>2
  <1> QED
    BY <1>1, <1>2

\* A request that is about to count still is after its own step, or it has
\* counted.
LEMMA WitnessSteps ==
  ASSUME TypeOK, Shaped, NEW r \in Requests, Step(r), WillCount(r), ActiveManual = {}
  PROVE  WillCount(r)' \/ (Resume(r) /\ ~paused' /\ stage'[r] = "operational")
  <1>1. /\ UNCHANGED <<on, op, target>> /\ on[r] \in Incidents /\ target[r] = "Resolved"
        /\ stage \in [Requests -> Stage] /\ nested \in [Requests -> BOOLEAN]
    BY StepFrame DEF askVars, WillCount, TypeOK
  <1>2. CASE Look(r)
    <2>1. UNCHANGED <<state, timeline>> /\ state[on[r]] = "Resolved"
      BY <1>2 DEF Look, dataVars, WillCount
    <2>2. stage'[r] = "find" \/ stage'[r] = "count"
      BY <1>1, <1>2 DEF Look, ChangeReturns, GoTo, WillCount
    <2> QED
      BY <1>1, <2>1, <2>2 DEF WillCount, Exists, IncidentStates
  <1>3. CASE FindLast(r)
    BY <1>1, <1>3 DEF FindLast, GoTo, dataVars, WillCount
  <1>4. CASE Insert(r)
    BY <1>1, <1>4 DEF Insert, GoTo, WillCount, Exists, IncidentStates
  <1>5. CASE EndLast(r)
    BY <1>1, <1>5 DEF EndLast, GoTo, WillCount, Exists
  <1>6. CASE SetCurrent(r)
    <2>1. Exists(on[r])
      BY <1>6 DEF SetCurrent, WillCount
    <2>2. state'[on[r]] = "Resolved"
      BY <1>1, <1>6, <2>1, StepData
    <2>3. stage'[r] = "count" \/ (stage'[r] = "look" /\ nested'[r])
      BY <1>1, <1>6 DEF SetCurrent, GoTo
    <2> QED
      BY <1>1, <2>2, <2>3 DEF WillCount, Exists, IncidentStates
  <1>7. CASE Count(r)
    BY <1>1, <1>7 DEF Count, GoTo, MoreActive, WillCount, dataVars
  <1>8. CASE Resume(r)
    BY <1>1, <1>8 DEF Resume, GoTo
  <1>9. ~ChangeMonitorStatus(r) /\ ~Operational(r) /\ ~Pause(r)
    BY DEF WillCount, ChangeMonitorStatus, Operational, Pause
  <1> QED
    BY <1>2, <1>3, <1>4, <1>5, <1>6, <1>7, <1>8, <1>9 DEF Step

\* Whoever ends the activity of an incident, somebody counts afterwards.
LEMMA Deactivated ==
  ASSUME TypeOK, Shaped, Tidy, Backed, NEW r \in Requests, (Begin(r) /\ InOrder(r)) \/ Step(r),
         NEW i \in Incidents, state[i] \in Active, state'[i] \notin Active
  PROVE  \E p \in Requests : WillCount(p)'
  <1>1. on'[r] = i /\ target'[r] = "Resolved" /\ (SetCurrent(r) \/ Begin(r))
    BY NoReopening
  <1>2. Exists(i)
    BY DEF Active, Exists, IncidentStates
  <1>3. CASE Begin(r) /\ op'[r] = "delete"
    BY <1>3, BeginData DEF WillCount
  <1>4. CASE Begin(r) /\ op'[r] # "delete"
    <2>1. stage'[r] = "look" /\ state'[i] = "Resolved" /\ timeline' = timeline
      BY <1>1, <1>4, BeginData DEF Active
    <2>2. CASE LastIs(i, "Resolved")
      <3>1. PICK q \in Requests : on[q] = i /\ target[q] = "Resolved" /\ stage[q] \in {"end", "current"}
        BY <2>2 DEF Backed
      <3>2. q # r
        BY <1>4, <3>1, BeginData
      <3>3. WillCount(q)
        BY <1>2, <3>1 DEF WillCount
      <3> QED
        BY <3>2, <3>3, WitnessKept
    <2>3. CASE ~LastIs(i, "Resolved")
      BY <1>1, <2>1, <2>3 DEF WillCount, LastIs
    <2> QED
      BY <2>2, <2>3
  <1>5. CASE Step(r) /\ SetCurrent(r)
    <2>1. on[r] = i /\ target[r] = "Resolved" /\ UNCHANGED <<on, op, target>>
      BY <1>1, <1>5, StepFrame DEF askVars
    <2>2. state'[i] = "Resolved"
      BY <1>2, <1>5, <2>1, StepData
    <2>3. stage'[r] = "count" \/ (stage'[r] = "look" /\ nested'[r])
      BY <1>5, <2>1 DEF SetCurrent, GoTo, TypeOK
    <2> QED
      BY <2>1, <2>2, <2>3 DEF WillCount, Exists, IncidentStates
  <1>6. SetCurrent(r) => Step(r)
    BY DEF Step
  <1> QED
    BY <1>1, <1>3, <1>4, <1>5, <1>6

LEMMA NextWatched ==
  ASSUME TypeOK, Shaped, Tidy, Backed, Watched, NEW r \in Requests, (Begin(r) /\ InOrder(r)) \/ Step(r)
  PROVE  Watched'
  <1> SUFFICES ASSUME paused', ActiveManual' = {} PROVE \E p \in Requests : WillCount(p)'
    BY DEF Watched
  <1>m. \A i \in Manual : i \in Incidents /\ state'[i] \notin Active
    BY LifecycleAssumption DEF ActiveManual
  <1>1. CASE ActiveManual # {}
    <2>1. PICK i \in Manual : state[i] \in Active
      BY <1>1 DEF ActiveManual
    <2> QED
      BY <1>m, <2>1, Deactivated
  <1>2. CASE ActiveManual = {} /\ paused
    <2>1. PICK q \in Requests : WillCount(q)
      BY <1>2 DEF Watched
    <2>2. CASE q # r
      BY <2>1, <2>2, WitnessKept
    <2>3. CASE q = r
      <3>1. Step(r)
        BY <2>1, <2>3, BeginData DEF WillCount
      <3> QED
        BY <1>2, <2>1, <2>3, <3>1, WitnessSteps
    <2> QED
      BY <2>2, <2>3
  <1>3. CASE ~paused
    <2>1. Step(r)
      BY <1>3, BeginData
    <2>2. Pause(r)
      BY <1>3, <2>1, StepData DEF Resume
    <2>3. on[r] \in Manual /\ op[r] = "create" /\ Running(r) /\ target[r] # "Resolved"
      BY <2>2 DEF Pause, Shaped, Running
    <2>4. state[on[r]] \in Active /\ state' = state
      BY <2>2, <2>3 DEF Pause, Tidy
    <2> QED
      BY <1>m, <2>3, <2>4
  <1> QED
    BY <1>1, <1>2, <1>3

LEMMA NextRestored ==
  ASSUME TypeOK, Shaped, Tidy, Backed, Restored, NEW r \in Requests, (Begin(r) /\ InOrder(r)) \/ Step(r)
  PROVE  Restored'
  <1> SUFFICES ASSUME monitor' = "down", NoneActive'
               PROVE  \E p \in Requests : WillCount(p)' \/ stage'[p] = "operational"
    BY DEF Restored
  <1>1. CASE ~NoneActive
    <2>1. PICK i \in Incidents : state[i] \in Active
      BY <1>1 DEF NoneActive
    <2>2. state'[i] \notin Active
      BY DEF NoneActive
    <2> QED
      BY <2>1, <2>2, Deactivated
  <1>2. CASE NoneActive /\ monitor # "down"
    <2>1. ChangeMonitorStatus(r)
      BY <1>2 DEF Begin, Create, AddState, SetState, Delete, dataVars, Step, ChangeMonitorStatus, Look, FindLast,
                  Insert, EndLast, SetCurrent, Count, Resume, Operational, Pause
    <2>2. Running(r) /\ target[r] # "Resolved" /\ on[r] \in Incidents
      BY <2>1 DEF ChangeMonitorStatus, Running, Shaped, TypeOK
    <2> QED
      BY <1>2, <2>2 DEF Tidy, NoneActive
  <1>3. CASE NoneActive /\ monitor = "down"
    <2>1. PICK q \in Requests : WillCount(q) \/ stage[q] = "operational"
      BY <1>3 DEF Restored
    <2>2. CASE q # r
      BY <2>1, <2>2, WitnessKept, StepFrame
    <2>3. CASE q = r /\ stage[q] = "operational"
      <3>1. Operational(r)
        BY <2>3, BeginData DEF Step, ChangeMonitorStatus, Look, FindLast, Insert, EndLast, SetCurrent, Count,
               Resume, Pause
      <3> QED
        BY <3>1 DEF Operational
    <2>4. CASE q = r /\ WillCount(q)
      <3>1. Step(r)
        BY <2>4, BeginData DEF WillCount
      <3>2. ActiveManual = {}
        BY <1>3, LifecycleAssumption DEF NoneActive, ActiveManual
      <3> QED
        BY <2>4, <3>1, <3>2, WitnessSteps
    <2> QED
      BY <2>1, <2>2, <2>3, <2>4
  <1> QED
    BY <1>1, <1>2, <1>3

OrderedInv == TypeOK /\ Shaped /\ (faults = 0 => Ordered)

LEMMA OrderedStep == OrderedInv /\ [OrderedNext]_vars => OrderedInv'
  <1> SUFFICES ASSUME OrderedInv, [OrderedNext]_vars PROVE OrderedInv'
    OBVIOUS
  <1>1. TypeOK' /\ Shaped'
    BY NextType, NextShaped, OrderedIsNext DEF OrderedInv
  <1>2. CASE UNCHANGED vars
    BY <1>1, <1>2 DEF vars, dataVars, askVars, OrderedInv, Ordered, Tidy, Idle, Paused, Backed, Watched, Restored,
                      NoneActive, WillCount, Running, Resolving, BeingCreated, ActiveManual, Exists, LastIs
  <1>3. ASSUME NEW r \in Requests, (Begin(r) /\ InOrder(r)) \/ Step(r), faults' = 0 PROVE Ordered'
    <2>1. faults = 0
      BY <1>3 DEF Begin, Create, AddState, SetState, Delete, Asks, Step, ChangeMonitorStatus, Look, FindLast, Insert,
                  EndLast, SetCurrent, Count, Resume, Operational, Pause, Keeps
    <2>2. Ordered
      BY <2>1 DEF OrderedInv
    <2> QED
      BY <1>3, <2>2, NextTidy, NextIdle, NextPaused, NextBacked, NextWatched, NextRestored DEF Ordered, OrderedInv
  <1>4. ASSUME NEW r \in Requests, Fails(r) PROVE faults' # 0
    BY <1>4, LifecycleAssumption DEF Fails, OrderedInv, TypeOK
  <1> QED
    BY <1>1, <1>2, <1>3, <1>4 DEF OrderedNext, OrderedInv

\* It holds as long as every request has begun in order.
OrderedUntilDisorder == disordered \in BOOLEAN /\ (disordered \/ OrderedInv)

LEMMA OrderedAlways == HistorySpec => []OrderedUntilDisorder
  <1>1. HistoryInit => OrderedUntilDisorder
    BY InitType, InitShaped, InitOrdered DEF HistoryInit, OrderedUntilDisorder, OrderedInv
  <1>2. OrderedUntilDisorder /\ [HistoryNext]_historyVars => OrderedUntilDisorder'
    <2> SUFFICES ASSUME OrderedUntilDisorder, [HistoryNext]_historyVars PROVE OrderedUntilDisorder'
      OBVIOUS
    <2>1. disordered' \in BOOLEAN
      BY DEF HistoryNext, historyVars, OrderedUntilDisorder
    <2>2. ASSUME ~disordered' PROVE ~disordered /\ [OrderedNext]_vars
      BY <2>2 DEF HistoryNext, historyVars
    <2> QED
      BY <2>1, <2>2, OrderedStep DEF OrderedUntilDisorder
  <1> QED
    BY <1>1, <1>2, PTL DEF HistorySpec

\* As long as requests begin InOrder, probes stay away from a monitor as long as one
\* of its manual incidents is unresolved, however the rest is resolved.
THEOREM MonitoringIsPaused == HistorySpec => []PausedInOrder
  <1>1. OrderedInv => PausedWhileActive
    BY DEF OrderedInv, Ordered, Paused, PausedWhileActive
  <1>2. OrderedUntilDisorder => PausedInOrder
    BY <1>1 DEF OrderedUntilDisorder, PausedInOrder
  <1> QED
    BY <1>2, OrderedAlways, PTL

\* As long as requests begin InOrder, resolving or deleting the last manual incident,
\* by however many concurrent requests, lets the probes return.
THEOREM MonitoringIsResumed == HistorySpec => []ResumedInOrder
  <1>1. OrderedInv => ResumedWhenResolved
    <2> SUFFICES ASSUME OrderedInv, faults = 0, Quiet, ActiveManual = {}, paused PROVE FALSE
      BY DEF ResumedWhenResolved
    <2>1. PICK r \in Requests : WillCount(r)
      BY DEF OrderedInv, Ordered, Watched
    <2> QED
      BY <2>1 DEF WillCount, Quiet, Running
  <1>2. OrderedUntilDisorder => ResumedInOrder
    BY <1>1 DEF OrderedUntilDisorder, ResumedInOrder
  <1> QED
    BY <1>2, OrderedAlways, PTL

\* As long as requests begin InOrder, the monitor is operational again when its last
\* incident has been resolved or deleted, by whichever concurrent requests.
THEOREM MonitorIsRestored == HistorySpec => []OperationalInOrder
  <1>1. OrderedInv => OperationalWhenResolved
    <2> SUFFICES ASSUME OrderedInv, faults = 0, Quiet, NoneActive, monitor # "operational" PROVE FALSE
      BY DEF OperationalWhenResolved, NoneActive
    <2>1. monitor = "down"
      BY DEF OrderedInv, TypeOK
    <2>2. PICK r \in Requests : WillCount(r) \/ stage[r] = "operational"
      BY <2>1 DEF OrderedInv, Ordered, Restored
    <2> QED
      BY <2>2 DEF WillCount, Quiet, Running
  <1>2. OrderedUntilDisorder => OperationalInOrder
    BY <1>1 DEF OrderedUntilDisorder, OperationalInOrder
  <1> QED
    BY <1>2, OrderedAlways, PTL

-----------------------------------------------------------------------------
(* How many rows the requests leave: a change of state adds at most two,   *)
(* the second one in the change its update of the incident asks for.       *)

\* The request has added a row, and has added two, or will add no more.
Added(r) ==
    \/ stage[r] \in {"look", "find", "insert"} /\ nested[r]
    \/ stage[r] \in {"end", "current", "count", "resume", "operational", "pause", "done"}
AddedTwo(r) ==
    \/ stage[r] \in {"end", "current"} /\ nested[r]
    \/ stage[r] \in {"count", "resume", "operational", "pause", "done"}

Once(i) == {r \in Requests : on[r] = i /\ op[r] = "change" /\ Added(r)}
Twice(i) == {r \in Requests : on[r] = i /\ op[r] = "change" /\ AddedTwo(r)}

\* The row of the created state is yet to come.
Owed(i) ==
    \/ state[i] = "none"
    \/ \E r \in Requests : op[r] = "create" /\ on[r] = i /\ stage[r] \in {"status", "look", "find", "insert"}

\* An incident is created once, and only a caller's change is asked for again.
Single ==
    /\ \A r \in Requests :
          /\ stage[r] = "idle" => ~nested[r] /\ op[r] = "change"
          /\ op[r] = "create" => state[on[r]] # "none" /\ ~tenant[r] /\ ~nested[r]
          /\ op[r] = "delete" => stage[r] \in {"count", "resume", "operational", "done"} /\ ~nested[r]
          /\ nested[r] => ~tenant[r]
    /\ \A p, q \in Requests : op[p] = "create" /\ op[q] = "create" /\ on[p] = on[q] => p = q

Counted ==
    \A i \in Incidents :
        Len(timeline[i]) <= (IF Owed(i) THEN 0 ELSE 1) + Cardinality(Once(i)) + Cardinality(Twice(i))

LEMMA InitSingle == Init => Single /\ Counted
  <1> SUFFICES ASSUME Init PROVE Single /\ Counted
    OBVIOUS
  <1>1. Single
    BY DEF Init, Single
  <1>2. PICK earlier \in SUBSET Incidents :
          /\ state = [i \in Incidents |-> IF i \in earlier THEN "Created" ELSE "none"]
          /\ timeline = [i \in Incidents |->
                 IF i \in earlier THEN <<[state |-> "Created", open |-> TRUE]>> ELSE <<>>]
    BY DEF Init
  <1>3. ASSUME NEW i \in Incidents
        PROVE  Len(timeline[i]) <= (IF Owed(i) THEN 0 ELSE 1) + Cardinality(Once(i)) + Cardinality(Twice(i))
    <2>1. Once(i) = {} /\ Twice(i) = {}
      BY DEF Init, Once, Twice, Added, AddedTwo
    <2>2. Owed(i) => i \notin earlier
      BY <1>2 DEF Init, Owed
    <2>3. Len(timeline[i]) = IF i \in earlier THEN 1 ELSE 0
      BY <1>2
    <2> QED
      BY <2>1, <2>2, <2>3, FS_EmptySet
  <1> QED
    BY <1>1, <1>3 DEF Counted

LEMMA NextSingle == TypeOK /\ Single /\ [Next]_vars => Single'
  <1> SUFFICES ASSUME TypeOK, Single, [Next]_vars PROVE Single'
    OBVIOUS
  <1>1. CASE UNCHANGED vars
    BY <1>1 DEF vars, dataVars, askVars, Single
  <1>2. ASSUME NEW r \in Requests, Begin(r) PROVE Single'
    <2>1. PICK i \in Incidents :
             \/ Create(r, i)
             \/ \E s \in IncidentStates, named \in BOOLEAN : AddState(r, i, s, named)
             \/ \E s \in IncidentStates : SetState(r, i, s)
             \/ Delete(r, i)
      BY <1>2 DEF Begin
    <2>2. /\ \A q \in Requests : q # r =>
               /\ stage'[q] = stage[q] /\ on'[q] = on[q] /\ op'[q] = op[q]
               /\ tenant'[q] = tenant[q] /\ nested'[q] = nested[q]
          /\ stage[r] = "idle" /\ nested'[r] = nested[r] /\ on'[r] = i
          /\ op'[r] = "create" => Create(r, i) /\ tenant'[r] = FALSE
          /\ op'[r] = "delete" => stage'[r] = "count"
          /\ stage'[r] # "idle"
      BY <2>1 DEF Create, AddState, SetState, Delete, Asks, GoTo, TypeOK
    <2>3. \A j \in Incidents : state[j] # "none" => state'[j] # "none"
      BY <2>1 DEF Create, AddState, SetState, Delete, dataVars, TypeOK, IncidentStates
    <2>4. Create(r, i) => state[i] = "none" /\ state'[i] # "none"
      BY DEF Create, TypeOK
    <2>5. \A q \in Requests : on[q] \in Incidents
      BY DEF TypeOK
    <2>6. ASSUME NEW q \in Requests, q # r, op'[r] = "create", op'[q] = "create" PROVE on'[r] # on'[q]
      BY <2>2, <2>4, <2>6 DEF Single
    <2>7. \A q \in Requests :
             /\ stage'[q] = "idle" => ~nested'[q] /\ op'[q] = "change"
             /\ op'[q] = "create" => state'[on'[q]] # "none" /\ ~tenant'[q] /\ ~nested'[q]
             /\ op'[q] = "delete" => stage'[q] \in {"count", "resume", "operational", "done"} /\ ~nested'[q]
             /\ nested'[q] => ~tenant'[q]
      <3>1. ASSUME NEW q \in Requests, q # r
            PROVE  /\ stage'[q] = "idle" => ~nested'[q] /\ op'[q] = "change"
                   /\ op'[q] = "create" => state'[on'[q]] # "none" /\ ~tenant'[q] /\ ~nested'[q]
                   /\ op'[q] = "delete" => stage'[q] \in {"count", "resume", "operational", "done"} /\ ~nested'[q]
                   /\ nested'[q] => ~tenant'[q]
        BY <2>2, <2>3, <2>5, <3>1 DEF Single
      <3>2. ~nested[r]
        BY <2>2 DEF Single
      <3> QED
        BY <2>2, <2>4, <3>1, <3>2
    <2>8. \A p, q \in Requests : op'[p] = "create" /\ op'[q] = "create" /\ on'[p] = on'[q] => p = q
      BY <2>2, <2>6 DEF Single
    <2> QED
      BY <2>7, <2>8 DEF Single
  <1>3. ASSUME NEW r \in Requests, Step(r) \/ Fails(r) PROVE Single'
    <2>1. UNCHANGED <<on, op>> /\ stage[r] # "idle"
      BY <1>3, StepFrame DEF askVars, Step, ChangeMonitorStatus, Look, FindLast, Insert, EndLast, SetCurrent, Count,
                  Resume, Operational, Pause, Fails, Running
    <2>2. \A q \in Requests : q # r =>
               stage'[q] = stage[q] /\ nested'[q] = nested[q] /\ tenant'[q] = tenant[q]
      BY <1>3 DEF Step, ChangeMonitorStatus, Look, FindLast, Insert, EndLast, SetCurrent, Count, Resume,
                  Operational, Pause, Fails, ChangeReturns, GoTo, TypeOK
    <2>3. \A j \in Incidents : state[j] # "none" => state'[j] # "none"
      BY <1>3 DEF Step, ChangeMonitorStatus, Look, FindLast, Insert, EndLast, SetCurrent, Count, Resume,
                  Operational, Pause, Fails, dataVars, TypeOK, IncidentStates
    <2>4. /\ nested'[r] => ~tenant'[r] /\ (nested[r] \/ tenant[r])
          /\ tenant'[r] => tenant[r]
          /\ stage'[r] # "idle"
      BY <1>3 DEF Step, ChangeMonitorStatus, Look, FindLast, Insert, EndLast, SetCurrent, Count, Resume,
                  Operational, Pause, Fails, Running, ChangeReturns, AfterChange, GoTo, TypeOK, Single
    <2>5. op[r] = "delete" => stage'[r] \in {"count", "resume", "operational", "done"} /\ ~nested'[r]
      <3> HAVE op[r] = "delete"
      <3>1. stage[r] \in {"count", "resume", "operational", "done"} /\ ~nested[r] /\ AfterChange(r) = "done"
        BY DEF Single, AfterChange
      <3> QED
        BY <1>3, <3>1 DEF Step, ChangeMonitorStatus, Look, FindLast, Insert, EndLast, SetCurrent, Count, Resume,
                  Operational, Pause, Fails, ChangeReturns, GoTo, TypeOK
    <2>6. \A q \in Requests : on[q] \in Incidents
      BY DEF TypeOK
    <2> QED
      BY <2>1, <2>2, <2>3, <2>4, <2>5, <2>6 DEF Single
  <1> QED
    BY <1>1, <1>2, <1>3 DEF Next

\* Rows once counted stay counted, and the first row of an incident is not
\* owed again.
LEMMA CountsGrow ==
  ASSUME TypeOK, Single, NEW r \in Requests, Begin(r) \/ Step(r) \/ Fails(r), NEW i \in Incidents
  PROVE  Once(i) \subseteq Once(i)' /\ Twice(i) \subseteq Twice(i)' /\ (Owed(i)' => Owed(i))
  <1>f. \A q \in Requests : q # r =>
             stage'[q] = stage[q] /\ on'[q] = on[q] /\ op'[q] = op[q] /\ nested'[q] = nested[q]
    BY StepFrame
  <1>1. CASE Begin(r)
    <2>1. /\ stage[r] = "idle" /\ on'[r] \in Incidents
          /\ \A j \in Incidents : j # on'[r] => state'[j] = state[j]
          /\ op'[r] = "create" => state[on'[r]] = "none"
          /\ state'[on'[r]] # "none"
      <3>1. "none" \notin IncidentStates
        BY DEF IncidentStates
      <3>2. op'[r] # "create" => state'[on'[r]] \in IncidentStates \cup {"deleted"}
        BY <1>1, BeginData, Zenon DEF Exists
      <3> QED
        BY <1>1, <3>1, <3>2, BeginData
    <2>2. r \notin Once(i) /\ r \notin Twice(i)
      BY <2>1 DEF Once, Twice, Added, AddedTwo
    <2>3. Once(i) \subseteq Once(i)' /\ Twice(i) \subseteq Twice(i)'
      BY <1>f, <2>2 DEF Once, Twice, Added, AddedTwo
    <2>4. ASSUME Owed(i)' PROVE Owed(i)
      <3>1. CASE state'[i] = "none"
        BY <2>1, <3>1 DEF Owed
      <3>2. CASE state'[i] # "none"
        <4>1. PICK q \in Requests : op'[q] = "create" /\ on'[q] = i
                                    /\ stage'[q] \in {"status", "look", "find", "insert"}
          BY <2>4, <3>2 DEF Owed
        <4> QED
          BY <1>f, <2>1, <4>1 DEF Owed
      <3> QED
        BY <3>1, <3>2
    <2> QED
      BY <2>3, <2>4
  <1>2. CASE Step(r) \/ Fails(r)
    <2>1. UNCHANGED <<on, op>>
      BY <1>2, StepFrame DEF askVars
    <2>2. (Added(r) => Added(r)') /\ (AddedTwo(r) => AddedTwo(r)')
      BY <1>2 DEF Step, ChangeMonitorStatus, Look, FindLast, Insert, EndLast, SetCurrent, Count, Resume,
                  Operational, Pause, Fails, Running, ChangeReturns, AfterChange, GoTo, TypeOK, Added, AddedTwo, Single
    <2>3. \A q \in Requests : (Added(q) => Added(q)') /\ (AddedTwo(q) => AddedTwo(q)')
      BY <1>f, <2>2 DEF Added, AddedTwo
    <2>4. state'[i] = "none" => state[i] = "none"
      BY <1>2 DEF Step, ChangeMonitorStatus, Look, FindLast, Insert, EndLast, SetCurrent, Count, Resume,
                  Operational, Pause, Fails, dataVars, TypeOK, IncidentStates
    <2>5. op[r] = "create" /\ stage'[r] \in {"status", "look", "find", "insert"} =>
               stage[r] \in {"status", "look", "find", "insert"}
      BY <1>2 DEF Step, ChangeMonitorStatus, Look, FindLast, Insert, EndLast, SetCurrent, Count, Resume,
                  Operational, Pause, Fails, Running, ChangeReturns, AfterChange, GoTo, TypeOK, Single
    <2> QED
      BY <1>f, <2>1, <2>3, <2>4, <2>5 DEF Once, Twice, Owed
  <1> QED
    BY <1>1, <1>2

\* Only the insertion of a row makes a timeline longer, by one row.
LEMMA StepLength ==
  ASSUME TypeOK, NEW r \in Requests, Begin(r) \/ Step(r) \/ Fails(r), NEW i \in Incidents
  PROVE  /\ Len(timeline[i]) \in Nat /\ Len(timeline'[i]) \in Nat
         /\ \/ Len(timeline'[i]) <= Len(timeline[i])
            \/ /\ Insert(r) /\ Exists(on[r]) /\ on[r] = i /\ stage'[r] = "end"
               /\ Len(timeline'[i]) = Len(timeline[i]) + 1
  <1>1. on[r] \in Incidents /\ target[r] \in IncidentStates /\ timeline[i] \in Seq(Row) /\ Len(timeline[i]) \in Nat
    BY DEF TypeOK
  <1>2. CASE Begin(r)
    <2>1. timeline'[i] = timeline[i] \/ timeline'[i] = <<>>
      BY <1>2, BeginData
    <2> QED
      BY <1>1, <2>1
  <1>3. CASE Fails(r) \/ (Step(r) /\ UNCHANGED timeline)
    BY <1>1, <1>3 DEF Fails, dataVars
  <1>4. CASE Insert(r)
    <2> DEFINE row == [state |-> target[r], open |-> TRUE]
    <2>1. CASE Exists(on[r]) /\ on[r] = i
      <3>1. timeline'[i] = Append(timeline[i], row) /\ stage'[r] = "end"
        BY <1>1, <1>4, <2>1 DEF Insert, GoTo, TypeOK
      <3>2. Len(timeline'[i]) = Len(timeline[i]) + 1
        BY <1>1, <3>1
      <3> QED
        BY <1>1, <1>4, <2>1, <3>1, <3>2
    <2>2. CASE ~(Exists(on[r]) /\ on[r] = i)
      <3>1. timeline'[i] = timeline[i]
        BY <1>1, <1>4, <2>2 DEF Insert, TypeOK
      <3> QED
        BY <1>1, <3>1
    <2> QED
      BY <2>1, <2>2
  <1>5. CASE EndLast(r)
    <2>1. CASE on[r] = i /\ last[r] \in 1..Len(timeline[i])
      <3>1. timeline'[i] = [timeline[i] EXCEPT ![last[r]] = Ended(@)]
        BY <1>1, <1>5, <2>1 DEF EndLast, TypeOK
      <3>2. Len(timeline'[i]) = Len(timeline[i])
        BY <2>1, <3>1, EndRow
      <3> QED
        BY <1>1, <3>2
    <2>2. CASE ~(on[r] = i /\ last[r] \in 1..Len(timeline[i]))
      <3>1. timeline'[i] = timeline[i]
        BY <1>1, <1>5, <2>2 DEF EndLast, TypeOK
      <3> QED
        BY <1>1, <3>1
    <2> QED
      BY <2>1, <2>2
  <1> QED
    BY <1>2, <1>3, <1>4, <1>5, StepData

LEMMA FiniteCounts ==
  ASSUME NEW i \in Incidents
  PROVE  /\ IsFiniteSet(Once(i)) /\ IsFiniteSet(Twice(i))
         /\ IsFiniteSet(Once(i)') /\ IsFiniteSet(Twice(i)')
         /\ Cardinality(Once(i)) \in Nat /\ Cardinality(Twice(i)) \in Nat
         /\ Cardinality(Once(i)') \in Nat /\ Cardinality(Twice(i)') \in Nat
  <1>1. Once(i) \subseteq Requests /\ Twice(i) \subseteq Requests
        /\ Once(i)' \subseteq Requests /\ Twice(i)' \subseteq Requests
    BY DEF Once, Twice
  <1>2. IsFiniteSet(Requests)
    BY LifecycleAssumption
  <1> QED
    BY <1>1, <1>2, FS_Subset, FS_CardinalityType

LEMMA NextCounted == TypeOK /\ Single /\ Counted /\ [Next]_vars => Counted'
  <1> SUFFICES ASSUME TypeOK, Single, Counted, [Next]_vars, NEW i \in Incidents
               PROVE  Len(timeline'[i]) <=
                         (IF Owed(i)' THEN 0 ELSE 1) + Cardinality(Once(i)') + Cardinality(Twice(i)')
    BY DEF Counted
  <1>c. Len(timeline[i]) <= (IF Owed(i) THEN 0 ELSE 1) + Cardinality(Once(i)) + Cardinality(Twice(i))
    BY DEF Counted
  <1>1. CASE UNCHANGED vars
    <2>1. /\ timeline'[i] = timeline[i] /\ (Owed(i)' <=> Owed(i))
          /\ Once(i)' = Once(i) /\ Twice(i)' = Twice(i)
      BY <1>1 DEF vars, dataVars, askVars, Owed, Once, Twice, Added, AddedTwo
    <2> QED
      BY <1>c, <2>1
  <1>2. ASSUME NEW r \in Requests, Begin(r) \/ Step(r) \/ Fails(r)
        PROVE  Len(timeline'[i]) <=
                  (IF Owed(i)' THEN 0 ELSE 1) + Cardinality(Once(i)') + Cardinality(Twice(i)')
    <2>1. Once(i) \subseteq Once(i)' /\ Twice(i) \subseteq Twice(i)' /\ (Owed(i)' => Owed(i))
      BY <1>2, CountsGrow
    <2>2. Cardinality(Once(i)) <= Cardinality(Once(i)') /\ Cardinality(Twice(i)) <= Cardinality(Twice(i)')
      BY <2>1, FiniteCounts, FS_Subset
    <2>3. CASE Len(timeline'[i]) <= Len(timeline[i])
      <3>1. Len(timeline[i]) \in Nat /\ Len(timeline'[i]) \in Nat
        BY <1>2, StepLength
      <3> QED
        BY <1>c, <2>1, <2>2, <2>3, <3>1, FiniteCounts
    <2>4. CASE Insert(r) /\ Exists(on[r]) /\ on[r] = i /\ stage'[r] = "end"
               /\ Len(timeline'[i]) = Len(timeline[i]) + 1
      <3>1. stage[r] = "insert" /\ UNCHANGED <<on, op, state, nested>> /\ state[i] # "none"
        BY <2>4 DEF Insert, Keeps, askVars, Exists, IncidentStates
      <3>f. \A q \in Requests : q # r => stage'[q] = stage[q]
        BY <2>4 DEF Insert, GoTo, TypeOK
      <3>n. Len(timeline[i]) \in Nat
        BY <1>2, StepLength
      <3>2. CASE op[r] = "create"
        <4>1. Owed(i)
          BY <2>4, <3>1, <3>2 DEF Owed
        <4>2. ~Owed(i)'
          <5>1. ASSUME NEW q \in Requests, op'[q] = "create", on'[q] = i PROVE q = r
            BY <2>4, <3>1, <3>2, <5>1 DEF Single
          <5> QED
            BY <2>4, <3>1, <5>1 DEF Owed
        <4> QED
          BY <1>c, <2>2, <2>4, <3>n, <4>1, <4>2, FiniteCounts
      <3>3. CASE op[r] = "change" /\ ~nested[r]
        <4>1. r \notin Once(i) /\ r \in Once(i)'
          BY <2>4, <3>1, <3>3 DEF Once, Added
        <4>2. Cardinality(Once(i)) + 1 <= Cardinality(Once(i)')
          <5>1. Once(i) \cup {r} \subseteq Once(i)'
            BY <2>1, <4>1
          <5>2. Cardinality(Once(i) \cup {r}) = Cardinality(Once(i)) + 1
            BY <4>1, FiniteCounts, FS_AddElement
          <5>3. Cardinality(Once(i) \cup {r}) <= Cardinality(Once(i)')
            BY <5>1, FiniteCounts, FS_Subset
          <5> QED
            BY <5>2, <5>3, FiniteCounts
        <4> QED
          BY <1>c, <2>1, <2>2, <2>4, <3>n, <4>2, FiniteCounts
      <3>4. CASE op[r] = "change" /\ nested[r]
        <4>1. r \notin Twice(i) /\ r \in Twice(i)'
          BY <2>4, <3>1, <3>4 DEF Twice, AddedTwo
        <4>2. Cardinality(Twice(i)) + 1 <= Cardinality(Twice(i)')
          <5>1. Twice(i) \cup {r} \subseteq Twice(i)'
            BY <2>1, <4>1
          <5>2. Cardinality(Twice(i) \cup {r}) = Cardinality(Twice(i)) + 1
            BY <4>1, FiniteCounts, FS_AddElement
          <5>3. Cardinality(Twice(i) \cup {r}) <= Cardinality(Twice(i)')
            BY <5>1, FiniteCounts, FS_Subset
          <5> QED
            BY <5>2, <5>3, FiniteCounts
        <4> QED
          BY <1>c, <2>1, <2>2, <2>4, <3>n, <4>2, FiniteCounts
      <3>5. op[r] \in {"create", "change"}
        BY <3>1 DEF Single, TypeOK, Op
      <3> QED
        BY <3>2, <3>3, <3>4, <3>5
    <2> QED
      BY <1>2, <2>3, <2>4, StepLength
  <1> QED
    BY <1>1, <1>2 DEF Next

\* Whatever callers do and wherever requests fail, the hooks of incidents and
\* timelines stop calling each other: a change of state leaves at most two
\* rows, the creation of an incident one.
THEOREM ChangesEndForAll == Spec => []ChangesEnd
  <1> DEFINE Inv == TypeOK /\ Single /\ Counted
  <1>1. Init => Inv
    BY InitType, InitSingle
  <1>2. Inv /\ [Next]_vars => Inv'
    BY NextType, NextSingle, NextCounted
  <1>3. Inv => ChangesEnd
    <2> SUFFICES ASSUME Inv, NEW i \in Incidents
                 PROVE  Len(timeline[i]) <= 1 + 2 * Cardinality({r \in Requests : on[r] = i /\ stage[r] # "idle" /\ op[r] = "change"})
      BY DEF ChangesEnd
    <2> DEFINE Changes == {r \in Requests : on[r] = i /\ stage[r] # "idle" /\ op[r] = "change"}
    <2>1. Once(i) \subseteq Changes /\ Twice(i) \subseteq Changes
      BY DEF Once, Twice, Added, AddedTwo
    <2>2. IsFiniteSet(Changes) /\ Cardinality(Changes) \in Nat
      BY LifecycleAssumption, FS_Subset, FS_CardinalityType
    <2>3. Cardinality(Once(i)) <= Cardinality(Changes) /\ Cardinality(Twice(i)) <= Cardinality(Changes)
      BY <2>1, <2>2, FS_Subset
    <2>4. Len(timeline[i]) <= (IF Owed(i) THEN 0 ELSE 1) + Cardinality(Once(i)) + Cardinality(Twice(i))
      BY DEF Counted
    <2>5. Len(timeline[i]) \in Nat
      BY DEF TypeOK
    <2> HIDE DEF Changes
    <2>6. Len(timeline[i]) <= 1 + 2 * Cardinality(Changes)
      BY <2>2, <2>3, <2>4, <2>5, FiniteCounts
    <2> QED
      BY <2>6 DEF Changes
  <1> HIDE DEF Inv
  <1> QED
    BY <1>1, <1>2, <1>3, PTL DEF Spec

-----------------------------------------------------------------------------
(* The timelines, as long as no two requests are in progress at once and   *)
(* none fails.                                                             *)

Alone == \A p, q \in Requests : Running(p) /\ Running(q) => p = q

NewestOpen(i) == \A n \in 1..Len(timeline[i]) : timeline[i][n].open <=> n = Len(timeline[i])
WholeAt(i) == LastIs(i, state[i]) /\ NewestOpen(i)

\* How far the one request in progress has brought its incident's timeline.
Halfway(r, i) ==
    /\ stage[r] \in {"status", "look"} => state[i] = target[r] /\ NewestOpen(i)
    /\ stage[r] = "look" /\ nested[r] => LastIs(i, target[r])
    /\ stage[r] \in {"find", "insert"} => NewestOpen(i)
    /\ stage[r] = "insert" => last[r] = Len(timeline[i])
    /\ stage[r] = "end" =>
          /\ last[r] + 1 = Len(timeline[i]) /\ LastIs(i, target[r])
          /\ \A n \in 1..Len(timeline[i]) : timeline[i][n].open <=> n >= last[r]
    /\ stage[r] = "current" => NewestOpen(i) /\ LastIs(i, target[r])
    /\ stage[r] \in {"count", "resume", "operational", "pause"} => WholeAt(i)

TimelinesInTurn ==
    /\ \A i \in Incidents :
          Exists(i) /\ (\A r \in Requests : Running(r) => on[r] # i) => WholeAt(i)
    /\ \A r \in Requests : Running(r) =>
          IF op[r] = "delete" THEN ~Exists(on[r]) ELSE Exists(on[r]) /\ Halfway(r, on[r])

InTurnInv ==
    /\ TypeOK /\ Shaped /\ Single /\ overlapped \in BOOLEAN
    /\ ~overlapped => Alone /\ (faults = 0 => TimelinesInTurn)

LEMMA NextAlone == HistoryNext /\ ~overlapped' => Alone'
  <1> SUFFICES ASSUME HistoryNext, ~overlapped', NEW p \in Requests, NEW q \in Requests, Running(p)', Running(q)', p # q
               PROVE  FALSE
    BY DEF Alone
  <1>1. Busy' \subseteq Requests /\ p \in Busy' /\ q \in Busy'
    BY DEF Busy
  <1>2. IsFiniteSet(Busy') /\ Cardinality(Busy') \in Nat
    BY <1>1, LifecycleAssumption, FS_Subset, FS_CardinalityType
  <1>3. IsFiniteSet({p}) /\ Cardinality({p}) = 1
    BY FS_Singleton
  <1>4. Cardinality({p} \cup {q}) = 2
    BY <1>3, FS_AddElement
  <1>5. Cardinality({p} \cup {q}) <= Cardinality(Busy')
    BY <1>1, <1>2, FS_Subset
  <1>6. Cardinality(Busy') > 1
    BY <1>2, <1>4, <1>5
  <1> QED
    BY <1>6, Zenon DEF HistoryNext

\* The request that takes a step is then the only one in progress.
LEMMA OthersRest ==
  ASSUME TypeOK, Alone, Alone', NEW r \in Requests, Begin(r) \/ Step(r), NEW q \in Requests, q # r
  PROVE  ~Running(q) /\ ~Running(q)'
  <1>1. stage'[q] = stage[q]
    BY StepFrame
  <1>2. Running(r) \/ Running(r)'
    BY BeginData DEF Running, Step, ChangeMonitorStatus, Look, FindLast, Insert, EndLast, SetCurrent, Count, Resume,
       Operational, Pause
  <1> QED
    BY <1>1, <1>2 DEF Alone, Running

LEMMA RowsElsewhere ==
  ASSUME TypeOK, NEW r \in Requests, Step(r), NEW j \in Incidents, j # on[r]
  PROVE  state'[j] = state[j] /\ timeline'[j] = timeline[j]
  <1>1. CASE Insert(r) \/ EndLast(r)
    BY <1>1, StepData DEF Insert, EndLast, SetCurrent, TypeOK
  <1>2. CASE UNCHANGED timeline
    BY <1>2, StepData
  <1> QED
    BY <1>1, <1>2, StepData

\* The two steps that change a row, on a timeline without concurrent ones.
LEMMA InsertHalfway ==
  ASSUME TypeOK, NEW r \in Requests, Insert(r), Exists(on[r]), Halfway(r, on[r])
  PROVE  Halfway(r, on[r])' /\ state' = state
  <1> PICK i \in Incidents : i = on[r]
    BY DEF TypeOK
  <1> DEFINE row == [state |-> target[r], open |-> TRUE]
             s == timeline[i]
  <1>1. s \in Seq(Row) /\ Len(s) \in Nat /\ row \in Row /\ row.state = target[r]
    <2>1. s \in Seq(Row) /\ Len(s) \in Nat /\ target[r] \in IncidentStates
      BY DEF TypeOK
    <2>2. row \in Row
      BY <2>1 DEF Row
    <2> QED
      BY <2>1, <2>2
  <1>o. row.open
    OBVIOUS
  <1>2. timeline'[i] = Append(s, row) /\ stage'[r] = "end" /\ UNCHANGED <<on, target, last, nested, state>>
    BY DEF Insert, GoTo, Keeps, askVars, TypeOK
  <1>3. NewestOpen(i) /\ last[r] = Len(s)
    BY DEF Halfway, Insert
  <1> HIDE DEF row
  <1>4. /\ Len(Append(s, row)) = Len(s) + 1 /\ Append(s, row)[Len(s) + 1] = row
        /\ \A n \in 1..Len(s) : Append(s, row)[n] = s[n]
    BY <1>1, AppendProperties
  <1>5. last[r] + 1 = Len(timeline'[i]) /\ LastIs(i, target[r])'
    <2>1. last[r] + 1 = Len(timeline'[i])
      BY <1>2, <1>3, <1>4
    <2>2. timeline'[i] # <<>>
      BY <1>1, <1>2, <1>4
    <2> QED
      BY <1>1, <1>2, <1>4, <2>1, <2>2 DEF LastIs
  <1>6. \A n \in 1..Len(timeline'[i]) : timeline'[i][n].open <=> n >= last[r]
    <2> SUFFICES ASSUME NEW n \in 1..Len(s) + 1 PROVE Append(s, row)[n].open <=> n >= Len(s)
      BY <1>1, <1>2, <1>3, <1>4
    <2>1. CASE n = Len(s) + 1
      BY <1>1, <1>o, <1>4, <2>1
    <2>2. CASE n \in 1..Len(s)
      BY <1>1, <1>3, <1>4, <2>2 DEF NewestOpen
    <2> QED
      BY <1>1, <2>1, <2>2
  <1> QED
    BY <1>2, <1>5, <1>6 DEF Halfway

LEMMA EndHalfway ==
  ASSUME TypeOK, NEW r \in Requests, EndLast(r), Halfway(r, on[r])
  PROVE  Halfway(r, on[r])' /\ state' = state
  <1> PICK i \in Incidents : i = on[r]
    BY DEF TypeOK
  <1> DEFINE s == timeline[i]
  <1>1. s \in Seq(Row) /\ Len(s) \in Nat /\ last[r] \in Nat
    BY DEF TypeOK
  <1>2. stage'[r] = "current" /\ UNCHANGED <<on, target, nested, state>>
    BY DEF EndLast, GoTo, Keeps, askVars, TypeOK
  <1>3. /\ last[r] + 1 = Len(s) /\ LastIs(i, target[r])
        /\ \A n \in 1..Len(s) : s[n].open <=> n >= last[r]
    BY DEF Halfway, EndLast
  <1>4. CASE last[r] = 0
    <2>1. timeline'[i] = s
      BY <1>4 DEF EndLast
    <2>2. NewestOpen(i)' /\ LastIs(i, target[r])'
      BY <1>1, <1>2, <1>3, <1>4, <2>1 DEF NewestOpen, LastIs
    <2> QED
      BY <1>2, <2>2 DEF Halfway
  <1>5. CASE last[r] # 0
    <2>1. last[r] \in 1..Len(s) /\ last[r] < Len(s)
      BY <1>1, <1>3, <1>5
    <2>2. timeline'[i] = [s EXCEPT ![last[r]] = Ended(@)]
      BY <2>1 DEF EndLast, TypeOK
    <2>3. /\ Len(timeline'[i]) = Len(s)
          /\ ~timeline'[i][last[r]].open
          /\ \A n \in 1..Len(s) : n # last[r] => timeline'[i][n] = s[n]
      BY <1>1, <2>1, <2>2, EndRow DEF Ended
    <2> HIDE DEF s
    <2>4. LastIs(i, target[r])'
      <3>1. timeline'[i] # <<>> /\ Len(s) \in 1..Len(s) /\ Len(s) # last[r]
        BY <1>1, <2>1, <2>3
      <3>2. s[Len(s)].state = target[r]
        BY <1>3 DEF LastIs, s
      <3> QED
        BY <1>2, <2>3, <3>1, <3>2 DEF LastIs
    <2>5. ASSUME NEW n \in 1..Len(s) PROVE timeline'[i][n].open <=> n = Len(s)
      <3>1. CASE n = last[r]
        BY <1>1, <2>1, <2>3, <3>1
      <3>2. CASE n # last[r]
        <4>1. timeline'[i][n] = s[n] /\ (s[n].open <=> n >= last[r])
          BY <1>3, <2>3, <3>2
        <4>2. n >= last[r] <=> n = Len(s)
          BY <1>1, <1>3, <2>1, <3>2
        <4> QED
          BY <4>1, <4>2
      <3> QED
        BY <3>1, <3>2
    <2>6. NewestOpen(i)'
      BY <2>3, <2>5 DEF NewestOpen
    <2> QED
      BY <1>2, <2>4, <2>6 DEF Halfway
  <1> QED
    BY <1>4, <1>5

LEMMA StepHalfway ==
  ASSUME TypeOK, Shaped, Single, NEW r \in Requests, Step(r), op[r] # "delete", Exists(on[r]), Halfway(r, on[r])
  PROVE  Exists(on[r])' /\ (IF Running(r)' THEN Halfway(r, on[r])' ELSE WholeAt(on[r])')
  <1> PICK i \in Incidents : i = on[r]
    BY DEF TypeOK
  <1>1. UNCHANGED <<on, op, target>> /\ target[r] \in IncidentStates /\ AfterChange(r) \in {"pause", "done"}
        /\ stage \in [Requests -> Stage] /\ nested \in [Requests -> BOOLEAN] /\ last \in [Requests -> Nat]
    BY StepFrame DEF askVars, TypeOK, AfterChange
  <1>2. CASE ChangeMonitorStatus(r)
    <2>1. ~nested[r] /\ stage'[r] = "look" /\ UNCHANGED <<state, timeline, nested>>
      BY <1>1, <1>2 DEF ChangeMonitorStatus, Shaped, Single, GoTo
    <2> QED
      BY <1>1, <1>2, <2>1 DEF ChangeMonitorStatus, Halfway, Running, NewestOpen, Exists
  <1>3. CASE Look(r)
    <2>1. UNCHANGED <<state, timeline>> /\ state[i] = target[r] /\ NewestOpen(i)
      BY <1>3 DEF Look, dataVars, Halfway
    <2>2. CASE LastIs(i, target[r]) /\ ChangeReturns(r)
      <3>1. stage'[r] \in {"count", "pause", "done"} /\ WholeAt(i)'
        BY <1>1, <2>1, <2>2 DEF ChangeReturns, GoTo, WholeAt, NewestOpen, LastIs
      <3> QED
        BY <1>1, <2>1, <3>1 DEF Halfway, Running, Exists
    <2>3. CASE ~LastIs(i, target[r]) /\ stage'[r] = "find"
      BY <1>1, <2>1, <2>3 DEF Halfway, Running, NewestOpen, Exists
    <2> QED
      BY <1>1, <1>3, <2>2, <2>3 DEF Look, GoTo
  <1>4. CASE FindLast(r)
    BY <1>1, <1>4 DEF FindLast, GoTo, dataVars, Halfway, Running, NewestOpen, Exists
  <1>5. CASE Insert(r)
    <2>1. stage'[r] = "end" /\ state' = state
      BY <1>1, <1>5 DEF Insert, GoTo
    <2> QED
      BY <1>1, <1>5, <2>1, InsertHalfway DEF Running, Exists
  <1>6. CASE EndLast(r)
    <2>1. stage'[r] = "current" /\ state' = state
      BY <1>1, <1>6 DEF EndLast, GoTo
    <2> QED
      BY <1>1, <1>6, <2>1, EndHalfway DEF Running, Exists
  <1>7. CASE SetCurrent(r)
    <2>1. state'[i] = target[r] /\ timeline' = timeline /\ NewestOpen(i) /\ LastIs(i, target[r])
      BY <1>7, StepData DEF SetCurrent, Halfway
    <2>2. WholeAt(i)' /\ Exists(i)'
      BY <1>1, <2>1 DEF WholeAt, NewestOpen, LastIs, Exists
    <2>3. stage'[r] \in {"look", "count", "pause", "done"}
      BY <1>1, <1>7 DEF SetCurrent, ChangeReturns, GoTo
    <2> QED
      BY <1>1, <2>1, <2>2, <2>3 DEF Halfway, Running, WholeAt
  <1>8. CASE Count(r) \/ Resume(r) \/ Operational(r) \/ Pause(r)
    <2>1. UNCHANGED <<state, timeline>> /\ WholeAt(i)
      BY <1>8 DEF Count, Resume, Operational, Pause, dataVars, Halfway
    <2>2. stage'[r] \in {"count", "resume", "operational", "pause", "done"}
      BY <1>1, <1>8 DEF Count, Resume, Operational, Pause, ChangeReturns, GoTo
    <2>3. WholeAt(i)' /\ Exists(i)'
      BY <2>1 DEF WholeAt, NewestOpen, LastIs, Exists
    <2> QED
      BY <1>1, <2>2, <2>3 DEF Halfway, Running
  <1> QED
    BY <1>2, <1>3, <1>4, <1>5, <1>6, <1>7, <1>8 DEF Step

LEMMA NextInTurn ==
  ASSUME TypeOK, Shaped, Single, Alone, Alone', TimelinesInTurn, NEW r \in Requests, Begin(r) \/ Step(r)
  PROVE  TimelinesInTurn'
  <1>f. \A q \in Requests : q # r => ~Running(q) /\ ~Running(q)'
    BY OthersRest
  <1>1. CASE Begin(r)
    <2> PICK i \in Incidents : i = on'[r]
      BY <1>1, BeginData
    <2>1. ~Running(r) /\ \A j \in Incidents : Exists(j) => WholeAt(j)
      BY <1>1, <1>f, BeginData DEF Running, TimelinesInTurn
    <2>2. ASSUME NEW j \in Incidents, j # i, Exists(j)' PROVE WholeAt(j)'
      <3>1. state'[j] = state[j] /\ timeline'[j] = timeline[j]
        BY <1>1, <2>2, BeginData
      <3> QED
        BY <2>1, <2>2, <3>1 DEF Exists, WholeAt, LastIs, NewestOpen
    <2>3. Running(r)' /\ ~nested'[r]
      <3>1. ~nested[r] /\ stage'[r] \in {"status", "look", "find", "count"}
        BY <1>1, BeginData DEF Single
      <3>2. nested' = nested
        BY <1>1 DEF Begin, Create, AddState, SetState, Delete, Asks
      <3> QED
        BY <3>1, <3>2 DEF Running
    <2>4. IF op'[r] = "delete" THEN ~Exists(i)' ELSE Exists(i)' /\ Halfway(r, i)'
      <3>1. CASE op'[r] = "create"
        BY <1>1, <2>3, <3>1, BeginData DEF Exists, IncidentStates, Halfway, NewestOpen
      <3>2. CASE op'[r] = "change" /\ stage'[r] = "find"
        <4>1. Exists(i)' /\ NewestOpen(i)'
          BY <1>1, <2>1, <3>2, BeginData DEF Exists, WholeAt, NewestOpen
        <4> QED
          BY <3>2, <4>1 DEF Halfway
      <3>3. CASE op'[r] = "change" /\ stage'[r] = "look"
        <4>1. Exists(i)' /\ NewestOpen(i)' /\ state'[i] = target'[r]
          BY <1>1, <2>1, <3>3, BeginData DEF Exists, WholeAt, NewestOpen
        <4> QED
          BY <2>3, <3>3, <4>1 DEF Halfway
      <3>4. CASE op'[r] = "delete"
        BY <1>1, <3>4, BeginData DEF Exists, IncidentStates
      <3> QED
        BY <1>1, <3>1, <3>2, <3>3, <3>4, BeginData
    <2> QED
      BY <1>f, <2>2, <2>3, <2>4 DEF TimelinesInTurn
  <1>2. CASE Step(r)
    <2> PICK i \in Incidents : i = on[r]
      BY DEF TypeOK
    <2>1. UNCHANGED <<on, op, target>> /\ Running(r)
      BY <1>2, StepFrame DEF askVars, Running, Step, ChangeMonitorStatus, Look, FindLast, Insert, EndLast,
         SetCurrent, Count, Resume, Operational, Pause
    <2>2. ASSUME NEW j \in Incidents, j # i, Exists(j)' PROVE WholeAt(j)'
      <3>1. state'[j] = state[j] /\ timeline'[j] = timeline[j]
        BY <1>2, <2>2, RowsElsewhere
      <3>2. WholeAt(j)
        BY <1>f, <2>2, <3>1 DEF TimelinesInTurn, Exists
      <3> QED
        BY <3>1, <3>2 DEF WholeAt, LastIs, NewestOpen
    <2>3. CASE op[r] = "delete"
      <3>1. ~Exists(i)
        BY <2>1, <2>3 DEF TimelinesInTurn
      <3>2. state'[i] = state[i]
        BY <1>2, <3>1, StepData
      <3>3. ~Exists(i)'
        BY <3>1, <3>2 DEF Exists
      <3> QED
        BY <1>f, <2>1, <2>2, <2>3, <3>3 DEF TimelinesInTurn
    <2>4. CASE op[r] # "delete"
      <3>1. Exists(i) /\ Halfway(r, i)
        BY <2>1, <2>4 DEF TimelinesInTurn
      <3>2. Exists(i)' /\ (IF Running(r)' THEN Halfway(r, i)' ELSE WholeAt(i)')
        BY <1>2, <2>1, <2>4, <3>1, StepHalfway
      <3> QED
        BY <1>f, <2>1, <2>2, <2>4, <3>2 DEF TimelinesInTurn
    <2> QED
      BY <2>3, <2>4
  <1> QED
    BY <1>1, <1>2

LEMMA InTurnStep == InTurnInv /\ [HistoryNext]_historyVars => InTurnInv'
  <1> SUFFICES ASSUME InTurnInv, [HistoryNext]_historyVars PROVE InTurnInv'
    OBVIOUS
  <1>1. TypeOK' /\ Shaped' /\ Single'
    <2>1. [Next]_vars
      BY HistoryIsNext DEF historyVars
    <2> QED
      BY <2>1, NextType, NextShaped, NextSingle DEF InTurnInv
  <1>2. CASE UNCHANGED historyVars
    BY <1>1, <1>2 DEF historyVars, vars, dataVars, askVars, InTurnInv, Alone, Running, TimelinesInTurn, Halfway, WholeAt,
                      NewestOpen, LastIs, Exists
  <1>3. CASE HistoryNext
    <2>1. overlapped' \in BOOLEAN /\ (~overlapped' => ~overlapped)
      BY <1>3 DEF HistoryNext, InTurnInv
    <2>2. ~overlapped' => Alone'
      BY <1>3, NextAlone
    <2>3. ASSUME ~overlapped', faults' = 0 PROVE TimelinesInTurn'
      <3>1. PICK r \in Requests : Begin(r) \/ Step(r) \/ Fails(r)
        BY <1>3, HistoryIsNext DEF Next
      <3>2. ~Fails(r)
        BY <2>3, LifecycleAssumption DEF Fails, InTurnInv, TypeOK
      <3>3. faults = 0
        BY <2>3, <3>1, <3>2 DEF Begin, Create, AddState, SetState, Delete, Asks, Step, ChangeMonitorStatus, Look,
           FindLast, Insert, EndLast, SetCurrent, Count, Resume, Operational, Pause, Keeps
      <3> QED
        BY <2>1, <2>2, <2>3, <3>1, <3>2, <3>3, NextInTurn DEF InTurnInv
    <2> QED
      BY <1>1, <2>1, <2>2, <2>3 DEF InTurnInv
  <1> QED
    BY <1>2, <1>3

\* As long as no two requests are in progress at once and none fails, every
\* timeline is whole again whenever nothing is in progress.
THEOREM TimelinesWholeInTurn == HistorySpec => []TimelineWholeInTurn
  <1>1. HistoryInit => InTurnInv
    <2> SUFFICES ASSUME HistoryInit PROVE InTurnInv
      OBVIOUS
    <2>1. TypeOK /\ Shaped /\ Single /\ ~overlapped
      BY InitType, InitShaped, InitSingle DEF HistoryInit
    <2>2. Alone /\ \A r \in Requests : ~Running(r)
      BY DEF HistoryInit, Init, Alone, Running
    <2>3. PICK earlier \in SUBSET Incidents :
            /\ state = [i \in Incidents |-> IF i \in earlier THEN "Created" ELSE "none"]
            /\ timeline = [i \in Incidents |->
                   IF i \in earlier THEN <<[state |-> "Created", open |-> TRUE]>> ELSE <<>>]
      BY DEF HistoryInit, Init
    <2>4. ASSUME NEW i \in Incidents, Exists(i) PROVE WholeAt(i)
      <3>1. i \in earlier
        BY <2>3, <2>4 DEF Exists, IncidentStates
      <3>2. timeline[i] = <<[state |-> "Created", open |-> TRUE]>> /\ state[i] = "Created"
        BY <2>3, <3>1
      <3> QED
        BY <3>2 DEF WholeAt, LastIs, NewestOpen
    <2> QED
      BY <2>1, <2>2, <2>4 DEF InTurnInv, TimelinesInTurn, HistoryInit
  <1>2. InTurnInv => TimelineWholeInTurn
    <2> SUFFICES ASSUME InTurnInv, ~overlapped, faults = 0, Quiet, NEW i \in Incidents, Exists(i)
                 PROVE  /\ LastIs(i, state[i])
                        /\ \A n \in DOMAIN timeline[i] : timeline[i][n].open <=> n = Len(timeline[i])
      BY DEF TimelineWholeInTurn, TimelineWhole
    <2>1. WholeAt(i)
      BY DEF InTurnInv, TimelinesInTurn, Quiet
    <2>2. DOMAIN timeline[i] = 1..Len(timeline[i])
      BY DEF InTurnInv, TypeOK
    <2> QED
      BY <2>1, <2>2 DEF WholeAt, NewestOpen
  <1> QED
    BY <1>1, <1>2, InTurnStep, PTL DEF HistorySpec
=============================================================================
