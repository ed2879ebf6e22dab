---------------------- MODULE MonitorEvaluationProofs ----------------------
(* Proofs about MonitorEvaluation, for any number of results in flight,    *)
(* any criteria and any templates.                                         *)
EXTENDS MCMonitorEvaluation, FiniteSetTheorems, TLAPS

-----------------------------------------------------------------------------
(* Type correctness.  It rests on where a request can be: a stage that     *)
(* writes a status has one to write, and a plan is empty outside the       *)
(* stages that carry it out.                                               *)

Routed ==
    \A r \in Results :
        /\ stage[r] = "status" => met[r] # Unset /\ StatusOf[met[r]] # Unset
        /\ stage[r] # "idle" /\ met[r] = Unset => Default # Unset
        /\ stage[r] = "default" => met[r] = Unset
        /\ stage[r] \notin {"close", "release"} => toClose[r] = {}
        /\ stage[r] \notin {"close", "release", "create"} => toCreate[r] = {}

TypeInv == TypeOK /\ Routed

LEMMA WantedType == \A c \in Criteria \cup {Unset} : Wanted(c) \subseteq Templates
  BY EvaluationAssumption DEF Wanted

LEMMA InitType == Init => TypeInv
  BY EvaluationAssumption DEF Init, TypeInv, TypeOK, Routed, Stage, Wanted

LEMMA ReceiveType ==
  ASSUME TypeInv, NEW r \in Results, NEW c \in Criteria \cup {Unset}, Receive(r, c)
  PROVE  TypeInv'
  <1>1. toClose[r] = {} /\ toCreate[r] = {} /\ UNCHANGED <<monitorVars, incidentVars, planVars>>
    BY DEF TypeInv, Routed, Receive
  <1>2. /\ met' = [met EXCEPT ![r] = c]
        /\ stage' = [stage EXCEPT ![r] = FirstStage(c)]
    BY DEF Receive, GoTo
  <1>3. /\ FirstStage(c) \in {"idle", "status", "query"}
        /\ FirstStage(c) = "status" => c # Unset /\ StatusOf[c] # Unset
        /\ FirstStage(c) # "idle" /\ c = Unset => Default # Unset
    BY DEF FirstStage
  <1>4. TypeOK'
    BY <1>1, <1>2, <1>3 DEF TypeInv, TypeOK, Stage, monitorVars, incidentVars, planVars, Wanted
  <1>5. Routed'
    BY <1>1, <1>2, <1>3 DEF TypeInv, TypeOK, Routed, planVars
  <1> QED
    BY <1>4, <1>5 DEF TypeInv

LEMMA StepType ==
  ASSUME TypeInv, NEW r \in Results, Step(r)
  PROVE  TypeInv'
  <1> USE DEF TypeInv, TypeOK, Routed, GoTo, Stage, monitorVars, incidentVars, planVars
  <1>1. CASE ChangeStatus(r)
    BY <1>1, EvaluationAssumption DEF ChangeStatus, Wanted
  <1>2. CASE FindOpen(r)
    <2> DEFINE Closing == {i \in open : ShouldClose(i, met[r])}
    <2>1. /\ \A i \in Closing : i \in Incidents /\ template[i] \notin Wanted(met[r])
          /\ Missing(met[r]) \subseteq Wanted(met[r])
          /\ Missing(met[r]) \subseteq Templates
      BY WantedType DEF ShouldClose, Missing
    <2>2. /\ toClose' = [toClose EXCEPT ![r] = Closing]
          /\ toCreate' = [toCreate EXCEPT ![r] = Missing(met[r])]
          /\ stage' = [stage EXCEPT ![r] = "close"]
          /\ stage[r] = "query"
          /\ UNCHANGED <<status, manual, open, template, met>>
      BY <1>2 DEF FindOpen
    <2>3. /\ \A q \in Results : q # r => toClose'[q] = toClose[q] /\ toCreate'[q] = toCreate[q] /\ stage'[q] = stage[q]
          /\ toClose'[r] = Closing /\ toCreate'[r] = Missing(met[r]) /\ stage'[r] = "close"
      BY <2>2
    <2>4. \A q \in Results : /\ toCreate'[q] \subseteq Wanted(met[q])
                             /\ \A i \in toClose'[q] : template[i] \notin Wanted(met[q])
      BY <2>1, <2>3
    <2>5. \A c : Wanted(c)' = Wanted(c)
      BY DEF Wanted
    <2>6. TypeOK'
      BY <2>1, <2>2, <2>4, <2>5
    <2>7. Routed'
      BY <2>2, <2>3
    <2> QED
      BY <2>6, <2>7
  <1>3. CASE Close(r)
    BY <1>3 DEF Close, Wanted
  <1>4. CASE Release(r)
    BY <1>4, EvaluationAssumption DEF Release, Wanted
  <1>5. CASE AllClosed(r)
    BY <1>5 DEF AllClosed, Wanted
  <1>6. CASE Create(r)
    BY <1>6 DEF Create, Fresh, Wanted
  <1>7. CASE AllCreated(r)
    BY <1>7 DEF AllCreated, Wanted
  <1>8. CASE SetDefault(r)
    BY <1>8, EvaluationAssumption DEF SetDefault, Wanted
  <1> QED
    BY <1>1, <1>2, <1>3, <1>4, <1>5, <1>6, <1>7, <1>8 DEF Step

LEMMA OthersType ==
  ASSUME TypeInv, People \/ (\E r \in Results : Fails(r)) \/ UNCHANGED vars
  PROVE  TypeInv'
  <1> USE DEF TypeInv, TypeOK, Routed, Stage, monitorVars, incidentVars, planVars
  <1>1. CASE People
    <2>1. ASSUME NEW i \in Incidents, ResolveByHand(i) PROVE TypeInv'
      BY <2>1, EvaluationAssumption DEF ResolveByHand, Wanted
    <2>2. ASSUME NEW s \in Statuses, SetStatusByHand(s) PROVE TypeInv'
      BY <2>2 DEF SetStatusByHand, Wanted
    <2>3. CASE OpenManualIncident
      BY <2>3 DEF OpenManualIncident, Wanted
    <2>4. CASE ResolveManualIncident
      BY <2>4, EvaluationAssumption DEF ResolveManualIncident, Wanted
    <2> QED
      BY <1>1, <2>1, <2>2, <2>3, <2>4 DEF People
  <1>2. ASSUME NEW r \in Results, Fails(r) PROVE TypeInv'
    BY <1>2 DEF Fails, GoTo, Wanted
  <1>3. CASE UNCHANGED vars
    BY <1>3 DEF vars, Wanted
  <1> QED
    BY <1>1, <1>2, <1>3

\* Whatever the results, the people and the failures do, every request works
\* on incidents and templates of the right criterion and writes a status.
THEOREM EvaluationTypeCorrect == Spec => []TypeOK
  <1>1. TypeInv /\ [Next]_vars => TypeInv'
    BY ReceiveType, StepType, OthersType DEF Next
  <1> QED
    BY <1>1, InitType, PTL DEF Spec, TypeInv

-----------------------------------------------------------------------------
(* Duplicates.  A result that has found no open incident of a template may *)
(* still create one.  Those it may create and those open are together no   *)
(* more than the results: a result joins the creators only when none is    *)
(* open, and leaves them when it creates one.                              *)

Creators(t) == {r \in Results : t \in toCreate[r]}

Bounded(t) ==
    /\ IsFiniteSet(OpenOf(t))
    /\ Cardinality(OpenOf(t)) + Cardinality(Creators(t)) <= Cardinality(Results)

DuplicatesInv == \A t \in Templates : Bounded(t)

LEMMA Counts ==
  ASSUME NEW t
  PROVE  /\ IsFiniteSet(Creators(t)) /\ IsFiniteSet(Results)
         /\ Cardinality(Creators(t)) \in Nat /\ Cardinality(Results) \in Nat
         /\ Cardinality(Creators(t)) <= Cardinality(Results)
  <1>1. IsFiniteSet(Results) /\ Creators(t) \in SUBSET Results
    BY EvaluationAssumption DEF Creators
  <1> QED
    BY <1>1, FS_Subset, FS_CardinalityType

LEMMA InitBounded == Init => DuplicatesInv
  <1> SUFFICES ASSUME Init, NEW t \in Templates PROVE Bounded(t)
    BY DEF DuplicatesInv
  <1>1. OpenOf(t) = {} /\ Creators(t) = {}
    BY DEF Init, OpenOf, Creators
  <1>2. Cardinality(Results) \in Nat
    BY Counts
  <1> QED
    BY <1>1, <1>2, FS_EmptySet DEF Bounded

\* Fewer open incidents and fewer creators keep the bound.
LEMMA BoundedShrinks ==
  ASSUME NEW t, Bounded(t), OpenOf(t)' \subseteq OpenOf(t), Creators(t)' \subseteq Creators(t)
  PROVE  Bounded(t)'
  <1>1. /\ IsFiniteSet(OpenOf(t)') /\ Cardinality(OpenOf(t)') <= Cardinality(OpenOf(t))
        /\ Cardinality(OpenOf(t)') \in Nat /\ Cardinality(OpenOf(t)) \in Nat
    BY FS_Subset, FS_CardinalityType DEF Bounded
  <1>2. /\ Cardinality(Creators(t)') <= Cardinality(Creators(t))
        /\ Cardinality(Creators(t)') \in Nat /\ Cardinality(Creators(t)) \in Nat
    BY Counts, FS_Subset, FS_CardinalityType
  <1>3. Cardinality(Results) \in Nat
    BY Counts
  <1> QED
    BY <1>1, <1>2, <1>3 DEF Bounded

LEMMA FindOpenBounded ==
  ASSUME TypeInv, NEW r \in Results, FindOpen(r), NEW t \in Templates, Bounded(t)
  PROVE  Bounded(t)'
  <1>1. OpenOf(t)' = OpenOf(t)
    BY DEF FindOpen, incidentVars, OpenOf
  <1>2. toCreate' = [toCreate EXCEPT ![r] = Missing(met[r])]
    BY DEF FindOpen
  <1>3. CASE OpenOf(t) = {}
    <2>1. /\ IsFiniteSet(Creators(t)') /\ Cardinality(Creators(t)') \in Nat
          /\ Cardinality(Creators(t)') <= Cardinality(Results) /\ Cardinality(Results) \in Nat
      <3>1. IsFiniteSet(Results) /\ Creators(t)' \in SUBSET Results
        BY EvaluationAssumption DEF Creators
      <3> QED
        BY <3>1, FS_Subset, FS_CardinalityType
    <2> QED
      BY <1>1, <1>3, <2>1, FS_EmptySet DEF Bounded
  <1>4. CASE OpenOf(t) # {}
    <2>1. t \notin Missing(met[r])
      BY <1>4 DEF OpenOf, Missing
    <2>2. Creators(t)' \subseteq Creators(t)
      BY <1>2, <2>1 DEF Creators, TypeInv, TypeOK
    <2> QED
      BY <1>1, <2>2, BoundedShrinks
  <1> QED
    BY <1>3, <1>4

LEMMA CreateBounded ==
  ASSUME TypeInv, NEW r \in Results, Create(r), NEW t \in Templates, Bounded(t)
  PROVE  Bounded(t)'
  <1> PICK s \in toCreate[r], i \in Fresh :
         /\ open' = open \cup {i}
         /\ template' = [template EXCEPT ![i] = s]
         /\ toCreate' = [toCreate EXCEPT ![r] = @ \ {s}]
    BY DEF Create
  <1>i. i \in Incidents /\ i \notin open
    BY DEF Fresh
  <1>t. /\ template'[i] = s /\ \A j \in open : template'[j] = template[j]
        /\ toCreate'[r] = toCreate[r] \ {s} /\ \A q \in Results : q # r => toCreate'[q] = toCreate[q]
    BY <1>i DEF TypeInv, TypeOK
  <1>1. CASE s # t
    <2>1. OpenOf(t)' \subseteq OpenOf(t)
      BY <1>1, <1>t DEF OpenOf
    <2>2. Creators(t)' \subseteq Creators(t)
      BY <1>t DEF Creators
    <2> QED
      BY <2>1, <2>2, BoundedShrinks
  <1>2. CASE s = t
    <2>1. OpenOf(t)' = OpenOf(t) \cup {i} /\ i \notin OpenOf(t)
      BY <1>2, <1>i, <1>t DEF OpenOf
    <2>2. Creators(t)' = Creators(t) \ {r} /\ r \in Creators(t)
      BY <1>2, <1>t DEF Creators
    <2>3. /\ IsFiniteSet(OpenOf(t)') /\ Cardinality(OpenOf(t)') = Cardinality(OpenOf(t)) + 1
          /\ Cardinality(OpenOf(t)) \in Nat
      BY <2>1, FS_AddElement, FS_CardinalityType DEF Bounded
    <2>4. /\ Cardinality(Creators(t)') = Cardinality(Creators(t)) - 1
          /\ Cardinality(Creators(t)) \in Nat /\ Cardinality(Results) \in Nat
      BY <2>2, Counts, FS_RemoveElement
    <2> QED
      BY <2>3, <2>4 DEF Bounded
  <1> QED
    BY <1>1, <1>2

LEMMA NextBounded == TypeInv /\ DuplicatesInv /\ [Next]_vars => DuplicatesInv'
  <1> SUFFICES ASSUME TypeInv, DuplicatesInv, [Next]_vars, NEW t \in Templates PROVE Bounded(t)'
    BY DEF DuplicatesInv
  <1>0. Bounded(t)
    BY DEF DuplicatesInv
  <1>1. ASSUME NEW r \in Results, FindOpen(r) PROVE Bounded(t)'
    BY <1>0, <1>1, FindOpenBounded
  <1>2. ASSUME NEW r \in Results, Create(r) PROVE Bounded(t)'
    BY <1>0, <1>2, CreateBounded
  <1>3. ASSUME open' \subseteq open, template' = template,
               \A q \in Results : toCreate'[q] \subseteq toCreate[q]
        PROVE  Bounded(t)'
    <2>1. OpenOf(t)' \subseteq OpenOf(t) /\ Creators(t)' \subseteq Creators(t)
      BY <1>3 DEF OpenOf, Creators
    <2> QED
      BY <1>0, <2>1, BoundedShrinks
  <1>4. ASSUME NEW r \in Results, NEW c \in Criteria \cup {Unset}, Receive(r, c) PROVE Bounded(t)'
    BY <1>3, <1>4 DEF Receive, incidentVars, planVars
  <1>5. ASSUME NEW r \in Results,
               \/ ChangeStatus(r) \/ Close(r) \/ Release(r) \/ AllClosed(r)
               \/ AllCreated(r) \/ SetDefault(r)
        PROVE  Bounded(t)'
    BY <1>3, <1>5 DEF ChangeStatus, Close, Release, AllClosed, AllCreated, SetDefault, incidentVars, planVars
  <1>6. ASSUME NEW r \in Results, Fails(r) PROVE Bounded(t)'
    BY <1>3, <1>6 DEF Fails, incidentVars, TypeInv, TypeOK
  <1>7. CASE People
    BY <1>3, <1>7 DEF People, ResolveByHand, SetStatusByHand, OpenManualIncident,
                      ResolveManualIncident, incidentVars, planVars
  <1>8. CASE UNCHANGED vars
    BY <1>3, <1>8 DEF vars, incidentVars, planVars
  <1> QED
    BY <1>1, <1>2, <1>4, <1>5, <1>6, <1>7, <1>8 DEF Next, Step

\* However results race, no template ever has more open incidents than there
\* are results in flight: looking for an open incident before creating one,
\* though not atomic, bounds the duplicates.
THEOREM DuplicatesAreBounded == Spec => []DuplicatesBounded
  <1>1. TypeInv /\ [Next]_vars => TypeInv'
    BY ReceiveType, StepType, OthersType DEF Next
  <1>2. DuplicatesInv => DuplicatesBounded
    <2> SUFFICES ASSUME DuplicatesInv, NEW t \in Templates
                 PROVE  Cardinality(OpenOf(t)) <= Cardinality(Results)
      BY DEF DuplicatesBounded
    <2>1. Bounded(t) /\ Cardinality(OpenOf(t)) \in Nat
      BY FS_CardinalityType DEF DuplicatesInv, Bounded
    <2> QED
      BY <2>1, Counts DEF Bounded
  <1> QED
    BY <1>1, <1>2, InitType, InitBounded, NextBounded, PTL DEF Spec

-----------------------------------------------------------------------------
(* Results in turn.  While no two results have been in flight at once, a   *)
(* template has at most one open incident, and a result that is about to   *)
(* create one for it knows of none.                                        *)

OneInFlight == \A q, r \in InFlight : q = r

OneOpen(t) ==
    /\ \A i, j \in OpenOf(t) : i = j
    /\ Creators(t) # {} => OpenOf(t) = {}

InTurnInv ==
    /\ overlapped \in BOOLEAN
    /\ ~overlapped => OneInFlight /\ \A t \in Templates : OneOpen(t)

LEMMA HistoryIsNext == [HistoryNext]_<<vars, history>> => [Next]_vars
  <1>1. ASSUME NEW r \in Results, NEW c \in Criteria \cup {Unset}, ReceiveAlone(r, c) \/ ReceiveTogether(r, c)
        PROVE  Next
    BY <1>1 DEF ReceiveAlone, ReceiveTogether, Next
  <1>2. ASSUME NEW r \in Results, StepAlone(r) \/ StepTogether(r) PROVE Next
    BY <1>2 DEF StepAlone, StepTogether, Next
  <1>3. HistoryNext => Next
    BY <1>1, <1>2 DEF HistoryNext, Alone, Together, Next
  <1> QED
    BY <1>3

LEMMA CountedInFlight == ~(Cardinality(InFlight') > 1) => OneInFlight'
  <1> SUFFICES ASSUME NEW q \in InFlight', NEW r \in InFlight', q # r
               PROVE  Cardinality(InFlight') > 1
    BY DEF OneInFlight
  <1>1. IsFiniteSet(InFlight') /\ Cardinality(InFlight') \in Nat
    <2>1. IsFiniteSet(Results) /\ InFlight' \in SUBSET Results
      BY EvaluationAssumption DEF InFlight
    <2> QED
      BY <2>1, FS_Subset, FS_CardinalityType
  <1>2. IsFiniteSet({q}) /\ Cardinality({q}) = 1
    BY FS_Singleton
  <1>3. Cardinality({q} \cup {r}) = 2
    BY <1>2, FS_AddElement
  <1>4. Cardinality({q} \cup {r}) <= Cardinality(InFlight')
    BY <1>1, FS_Subset
  <1> QED
    BY <1>1, <1>3, <1>4

LEMMA OneOpenShrinks ==
  ASSUME NEW t, OneOpen(t), OpenOf(t)' \subseteq OpenOf(t), Creators(t)' \subseteq Creators(t)
  PROVE  OneOpen(t)'
  BY DEF OneOpen

LEMMA NextOneOpen ==
  ASSUME TypeInv, OneInFlight, [Next]_vars, NEW t \in Templates, OneOpen(t)
  PROVE  OneOpen(t)'
  <1>0. \A q \in Creators(t), r \in Results : stage[r] # "idle" => q = r
    BY DEF OneInFlight, InFlight, Creators, TypeInv, Routed
  <1>1. ASSUME NEW r \in Results, FindOpen(r) PROVE OneOpen(t)'
    <2>1. OpenOf(t)' = OpenOf(t)
      BY <1>1 DEF FindOpen, incidentVars, OpenOf
    <2>2. toCreate' = [toCreate EXCEPT ![r] = Missing(met[r])]
      BY <1>1 DEF FindOpen
    <2>3. CASE OpenOf(t) = {}
      BY <2>1, <2>3 DEF OneOpen
    <2>4. CASE OpenOf(t) # {}
      <3>1. t \notin Missing(met[r])
        BY <2>4 DEF OpenOf, Missing
      <3>2. Creators(t)' \subseteq Creators(t)
        BY <2>2, <3>1 DEF Creators, TypeInv, TypeOK
      <3> QED
        BY <2>1, <3>2, OneOpenShrinks
    <2> QED
      BY <2>3, <2>4
  <1>2. ASSUME NEW r \in Results, Create(r) PROVE OneOpen(t)'
    <2> PICK s \in toCreate[r], i \in Fresh :
           /\ open' = open \cup {i}
           /\ template' = [template EXCEPT ![i] = s]
           /\ toCreate' = [toCreate EXCEPT ![r] = @ \ {s}]
      BY <1>2 DEF Create
    <2>i. i \in Incidents /\ i \notin open /\ stage[r] # "idle"
      BY <1>2 DEF Fresh, Create
    <2>t. /\ template'[i] = s /\ \A j \in open : template'[j] = template[j]
          /\ toCreate'[r] = toCreate[r] \ {s} /\ \A q \in Results : q # r => toCreate'[q] = toCreate[q]
      BY <2>i DEF TypeInv, TypeOK
    <2>1. CASE s # t
      <3>1. OpenOf(t)' \subseteq OpenOf(t)
        BY <2>1, <2>t DEF OpenOf
      <3>2. Creators(t)' \subseteq Creators(t)
        BY <2>t DEF Creators
      <3> QED
        BY <3>1, <3>2, OneOpenShrinks
    <2>2. CASE s = t
      <3>1. r \in Creators(t)
        BY <2>2 DEF Creators
      <3>2. OpenOf(t) = {}
        BY <3>1 DEF OneOpen
      <3>3. OpenOf(t)' \subseteq {i}
        BY <3>2, <2>t DEF OpenOf
      <3>4. Creators(t)' = {}
        BY <1>0, <2>2, <2>i, <2>t DEF Creators
      <3> QED
        BY <3>3, <3>4 DEF OneOpen
    <2> QED
      BY <2>1, <2>2
  <1>3. ASSUME open' \subseteq open, template' = template,
               \A q \in Results : toCreate'[q] \subseteq toCreate[q]
        PROVE  OneOpen(t)'
    <2>1. OpenOf(t)' \subseteq OpenOf(t) /\ Creators(t)' \subseteq Creators(t)
      BY <1>3 DEF OpenOf, Creators
    <2> QED
      BY <2>1, OneOpenShrinks
  <1>4. ASSUME NEW r \in Results, NEW c \in Criteria \cup {Unset}, Receive(r, c) PROVE OneOpen(t)'
    BY <1>3, <1>4 DEF Receive, incidentVars, planVars
  <1>5. ASSUME NEW r \in Results,
               \/ ChangeStatus(r) \/ Close(r) \/ Release(r) \/ AllClosed(r)
               \/ AllCreated(r) \/ SetDefault(r)
        PROVE  OneOpen(t)'
    BY <1>3, <1>5 DEF ChangeStatus, Close, Release, AllClosed, AllCreated, SetDefault, incidentVars, planVars
  <1>6. ASSUME NEW r \in Results, Fails(r) PROVE OneOpen(t)'
    BY <1>3, <1>6 DEF Fails, incidentVars, TypeInv, TypeOK
  <1>7. CASE People
    BY <1>3, <1>7 DEF People, ResolveByHand, SetStatusByHand, OpenManualIncident,
                      ResolveManualIncident, incidentVars, planVars
  <1>8. CASE UNCHANGED vars
    BY <1>3, <1>8 DEF vars, incidentVars, planVars
  <1> QED
    BY <1>1, <1>2, <1>4, <1>5, <1>6, <1>7, <1>8 DEF Next, Step

LEMMA NextInTurn == TypeInv /\ InTurnInv /\ [HistoryNext]_<<vars, history>> => InTurnInv'
  <1> SUFFICES ASSUME TypeInv, InTurnInv, [HistoryNext]_<<vars, history>> PROVE InTurnInv'
    OBVIOUS
  <1>1. CASE HistoryNext
    <2>1. overlapped' = (overlapped \/ Cardinality(InFlight') > 1)
      BY <1>1 DEF HistoryNext
    <2>2. overlapped' \in BOOLEAN /\ (~overlapped' => ~overlapped /\ OneInFlight')
      BY <2>1, CountedInFlight, Zenon
    <2>3. ASSUME ~overlapped, NEW t \in Templates PROVE OneOpen(t)'
      BY <2>3, HistoryIsNext, NextOneOpen DEF InTurnInv
    <2> QED
      BY <2>2, <2>3 DEF InTurnInv
  <1>2. CASE UNCHANGED <<vars, history>>
    BY <1>2 DEF InTurnInv, OneInFlight, InFlight, OneOpen, OpenOf, Creators,
                vars, history, incidentVars, planVars
  <1> QED
    BY <1>1, <1>2

\* Results that never overlap create no incident twice: looking for an open
\* incident before creating one is enough when nothing runs in between,
\* whatever people resolve and wherever a request fails.
THEOREM NoDuplicatesInTurn == HistorySpec => []NoDuplicateInTurn
  <1>1. HistoryInit => TypeInv /\ InTurnInv
    BY InitType DEF HistoryInit, Init, InTurnInv, OneInFlight, InFlight, OneOpen, OpenOf, Creators
  <1>2. TypeInv /\ [HistoryNext]_<<vars, history>> => TypeInv'
    BY HistoryIsNext, ReceiveType, StepType, OthersType DEF Next
  <1>3. InTurnInv => NoDuplicateInTurn
    <2> SUFFICES ASSUME InTurnInv, ~overlapped, NEW t \in Templates PROVE Cardinality(OpenOf(t)) <= 1
      BY DEF NoDuplicateInTurn
    <2>1. \A i, j \in OpenOf(t) : i = j
      BY DEF InTurnInv, OneOpen
    <2>2. CASE OpenOf(t) = {}
      BY <2>2, FS_EmptySet
    <2>3. ASSUME NEW i \in OpenOf(t) PROVE Cardinality(OpenOf(t)) <= 1
      <3>1. OpenOf(t) = {i}
        BY <2>1
      <3>2. Cardinality({i}) = 1
        BY FS_Singleton
      <3> QED
        BY <3>1, <3>2
    <2> QED
      BY <2>2, <2>3
  <1> QED
    BY <1>1, <1>2, <1>3, NextInTurn, PTL DEF HistorySpec

-----------------------------------------------------------------------------
(* Undisturbed results.  outcome is what the results in a row that nothing *)
(* disturbed have in common, and streak how many of them are complete: the *)
(* invariant says what the request in flight has done so far, and what the *)
(* first complete one leaves for those that follow.                        *)

Done(c) == Missing(c) = {} /\ \A i \in open : ~ShouldClose(i, c)

\* The plan covers what is left to resolve and to create.
IncidentsOnCourse(c) ==
    /\ streak >= 1 => Done(c)
    /\ \A r \in InFlight :
         /\ stage[r] \in {"close", "release"} => \A i \in open : ShouldClose(i, c) => i \in toClose[r]
         /\ stage[r] = "create" => \A i \in open : ~ShouldClose(i, c)
         /\ stage[r] \in {"close", "release", "create"} => Missing(c) \subseteq toCreate[r]

\* With nothing left to resolve, no later result makes the monitor operational.
StatusOnCourse(c) ==
    /\ streak >= 1 => \A r \in InFlight : /\ stage[r] # "release" /\ toClose[r] = {}
                                          /\ stage[r] # "status" => StatusOf[c] \in {Unset, status}
    /\ streak >= 2 /\ InFlight = {} => StatusOf[c] \in {Unset, status}

OnCourse ==
    /\ outcome \in Criteria \cup {Unset}
    /\ OneInFlight
    /\ \A r \in InFlight : met[r] = outcome
    /\ outcome # Unset => IncidentsOnCourse(outcome) /\ StatusOnCourse(outcome)
    /\ outcome = Unset /\ InFlight = {} /\ streak >= 1 => Default \in {Unset, status}

CourseInv ==
    /\ streak \in Nat
    /\ \A r \in Results : stage[r] = "create" => met[r] # Unset
    /\ outcome # "unknown" => OnCourse

LEMMA OnlyMetCreates ==
  ASSUME TypeInv, [Next]_vars, \A r \in Results : stage[r] = "create" => met[r] # Unset
  PROVE  \A r \in Results : stage'[r] = "create" => met'[r] # Unset
  <1> USE DEF TypeInv, TypeOK, GoTo
  <1>1. ASSUME NEW r \in Results, NEW c \in Criteria \cup {Unset}, Receive(r, c)
        PROVE  \A q \in Results : stage'[q] = "create" => met'[q] # Unset
    BY <1>1 DEF Receive, FirstStage
  <1>2. ASSUME NEW r \in Results, Step(r)
        PROVE  \A q \in Results : stage'[q] = "create" => met'[q] # Unset
    BY <1>2 DEF Step, ChangeStatus, FindOpen, Close, Release, AllClosed, Create, AllCreated, SetDefault
  <1>3. ASSUME NEW r \in Results, Fails(r)
        PROVE  \A q \in Results : stage'[q] = "create" => met'[q] # Unset
    BY <1>3 DEF Fails
  <1>4. CASE People \/ UNCHANGED vars
    BY <1>4 DEF People, ResolveByHand, SetStatusByHand, OpenManualIncident, ResolveManualIncident, vars
  <1> QED
    BY <1>1, <1>2, <1>3, <1>4 DEF Next

LEMMA CountType == ASSUME NEW n \in Nat, Count(n) PROVE streak' \in Nat
  BY DEF Count

LEMMA ReceiveCourse ==
  ASSUME TypeInv, CourseInv, NEW r \in Results, NEW c \in Criteria \cup {Unset}, ReceiveAlone(r, c)
  PROVE  streak' \in Nat /\ OnCourse'
  <1> DEFINE before == IF outcome = c THEN streak ELSE 0
  <1>b. before \in Nat /\ (before >= 1 => outcome = c /\ before = streak)
    BY DEF CourseInv
  <1>r. /\ InFlight = {} /\ Count(before) /\ outcome' = c
        /\ met' = [met EXCEPT ![r] = c] /\ stage' = [stage EXCEPT ![r] = FirstStage(c)]
        /\ UNCHANGED <<status, manual, open, template, toClose, toCreate>>
        /\ toClose[r] = {}
    BY DEF ReceiveAlone, Receive, GoTo, monitorVars, incidentVars, planVars, TypeInv, Routed
  <1>m. met'[r] = c /\ stage'[r] = FirstStage(c) /\ \A q \in Results : q # r => stage'[q] = "idle"
    BY <1>r DEF InFlight, TypeInv, TypeOK
  <1>o. before >= 1 => OnCourse
    <2>1. "unknown" # c
      BY OutcomeAssumption
    <2> QED
      BY <1>b, <2>1 DEF CourseInv
  <1>f. InFlight' \subseteq {r} /\ (FirstStage(c) # "idle" <=> InFlight' # {})
    BY <1>m DEF InFlight
  <1>s. /\ streak' = IF InFlight' = {} /\ before < 2 THEN before + 1 ELSE before
        /\ streak' \in Nat
    BY <1>b, <1>r, CountType DEF Count
  <1> HIDE DEF before
  <1>1. CASE c = Unset
    <2>1. InFlight' = {} => Default \in {Unset, status}
      BY <1>1, <1>f DEF FirstStage
    <2> QED
      BY <1>1, <1>f, <1>m, <1>r, <1>s, <2>1 DEF OnCourse, OneInFlight
  <1>2. CASE c # Unset
    <2>1. FirstStage(c) \in {"status", "query"} /\ (FirstStage(c) = "query" => StatusOf[c] \in {Unset, status})
      BY <1>2 DEF FirstStage
    <2>2. streak' = before /\ InFlight' # {}
      BY <1>f, <1>s, <2>1
    <2>3. streak' >= 1 => Done(c)
      BY <1>2, <1>b, <1>o, <2>2 DEF OnCourse, IncidentsOnCourse
    <2>4. Done(c)' <=> Done(c)
      BY <1>r DEF Done, Missing, ShouldClose, Wanted
    <2>5. IncidentsOnCourse(c)'
      BY <1>f, <1>m, <2>1, <2>3, <2>4 DEF IncidentsOnCourse
    <2>6. StatusOnCourse(c)'
      BY <1>f, <1>m, <1>r, <2>1, <2>2 DEF StatusOnCourse
    <2>7. PICK d : d = c
      OBVIOUS
    <2> QED
      BY <1>2, <1>f, <1>m, <1>r, <1>s, <2>5, <2>6 DEF OnCourse, OneInFlight
  <1> QED
    BY <1>1, <1>2, <1>s

\* What every step of the only request in flight keeps.
LEMMA AloneSteps ==
  ASSUME TypeInv, CourseInv, NEW r \in Results, StepAlone(r), outcome # "unknown"
  PROVE  /\ OnCourse /\ InFlight = {r} /\ stage[r] # "idle" /\ met[r] = outcome
         /\ met' = met /\ outcome' = outcome
         /\ \A q \in Results : q # r => stage'[q] = "idle"
         /\ InFlight' \subseteq {r} /\ (stage'[r] # "idle" <=> InFlight' # {})
         /\ streak' = IF InFlight' = {} /\ streak < 2 THEN streak + 1 ELSE streak
         /\ streak \in Nat /\ streak' \in Nat
  <1>1. InFlight = {r} /\ Step(r) /\ outcome' = outcome /\ OnCourse /\ streak \in Nat
    BY DEF StepAlone, CourseInv
  <1>2. met[r] = outcome /\ stage[r] # "idle"
    BY <1>1 DEF OnCourse, InFlight
  <1>3. Count(streak)
    BY <1>2 DEF StepAlone
  <1>4. met' = met /\ \E at : GoTo(r, at) \/ stage' = stage
    BY <1>1 DEF Step, ChangeStatus, FindOpen, Close, Release, AllClosed, Create, AllCreated, SetDefault
  <1>5. \A q \in Results : q # r => stage'[q] = "idle"
    BY <1>1, <1>4 DEF GoTo, InFlight, TypeInv, TypeOK
  <1>6. InFlight' \subseteq {r} /\ (stage'[r] # "idle" <=> InFlight' # {})
    BY <1>5 DEF InFlight
  <1> QED
    BY <1>1, <1>2, <1>3, <1>4, <1>5, <1>6, CountType DEF Count

\* No criterion is met: the last step sets the default status.
LEMMA UnmetCourse ==
  ASSUME TypeInv, CourseInv, NEW r \in Results, StepAlone(r), outcome = Unset
  PROVE  OnCourse'
  <1>0. outcome # "unknown"
    BY OutcomeAssumption
  <1>1. /\ InFlight = {r} /\ stage[r] # "idle" /\ met[r] = outcome
        /\ met' = met /\ outcome' = outcome /\ InFlight' \subseteq {r}
        /\ stage'[r] # "idle" <=> InFlight' # {}
    BY <1>0, AloneSteps
  <1>2. Step(r) /\ stage[r] # "create"
    BY <1>1 DEF StepAlone, CourseInv
  <1>3. stage'[r] = "idle" => status' = Default
    BY <1>1, <1>2 DEF Step, ChangeStatus, FindOpen, Close, Release, AllClosed, Create, AllCreated,
                      SetDefault, GoTo, TypeInv, TypeOK
  <1> QED
    BY <1>1, <1>3 DEF OnCourse, OneInFlight

\* A criterion is met: the steps of its request, one by one.
LEMMA MetCourse ==
  ASSUME TypeInv, CourseInv, NEW r \in Results, StepAlone(r), NEW c \in Criteria, outcome = c
  PROVE  IncidentsOnCourse(c)' /\ StatusOnCourse(c)'
  <1>u. c # Unset /\ c # "unknown"
    BY EvaluationAssumption, OutcomeAssumption
  <1>a. /\ OnCourse /\ InFlight = {r} /\ stage[r] # "idle" /\ met[r] = c
        /\ InFlight' \subseteq {r} /\ (stage'[r] # "idle" <=> InFlight' # {})
        /\ streak' = IF InFlight' = {} /\ streak < 2 THEN streak + 1 ELSE streak
        /\ streak \in Nat /\ streak' \in Nat
    BY <1>u, AloneSteps
  <1>c. IncidentsOnCourse(c) /\ StatusOnCourse(c)
    BY <1>u, <1>a DEF OnCourse
  <1>i. /\ streak >= 1 => Done(c)
        /\ stage[r] \in {"close", "release"} => \A i \in open : ShouldClose(i, c) => i \in toClose[r]
        /\ stage[r] = "create" => \A i \in open : ~ShouldClose(i, c)
        /\ stage[r] \in {"close", "release", "create"} => Missing(c) \subseteq toCreate[r]
    BY <1>a, <1>c DEF IncidentsOnCourse
  <1>s. streak >= 1 => /\ stage[r] # "release" /\ toClose[r] = {}
                       /\ stage[r] # "status" => StatusOf[c] \in {Unset, status}
    BY <1>a, <1>c DEF StatusOnCourse
  <1>t. /\ stage \in [Results -> Stage] /\ r \in Results
        /\ toClose \in [Results -> SUBSET Incidents] /\ toCreate \in [Results -> SUBSET Templates]
        /\ open \subseteq Incidents /\ template \in [Incidents -> Templates \cup {Unset}]
        /\ toCreate[r] \subseteq Wanted(c)
        /\ \A i \in toClose[r] : template[i] \notin Wanted(c)
    BY <1>a DEF TypeInv, TypeOK
  \* While it is in flight, nothing counts yet.
  <1>w. ASSUME stage'[r] # "idle",
               Done(c) => Done(c)',
               stage'[r] \in {"close", "release"} => \A i \in open' : ShouldClose(i, c)' => i \in toClose'[r],
               stage'[r] = "create" => \A i \in open' : ~ShouldClose(i, c)',
               stage'[r] \in {"close", "release", "create"} => Missing(c)' \subseteq toCreate'[r],
               streak >= 1 => /\ stage'[r] # "release" /\ toClose'[r] = {}
                              /\ stage'[r] # "status" => StatusOf[c] \in {Unset, status'}
        PROVE  IncidentsOnCourse(c)' /\ StatusOnCourse(c)'
    <2>1. InFlight' = {r} /\ streak' = streak
      BY <1>a, <1>w
    <2>2. IncidentsOnCourse(c)'
      BY <1>i, <1>w, <2>1 DEF IncidentsOnCourse
    <2>3. StatusOnCourse(c)'
      BY <1>w, <2>1 DEF StatusOnCourse
    <2> QED
      BY <2>2, <2>3
  <1>1. CASE ChangeStatus(r)
    <2>1. /\ stage'[r] = "query" /\ status' = StatusOf[c] /\ UNCHANGED <<open, template, toClose, toCreate>>
      BY <1>1, <1>a, <1>t DEF ChangeStatus, GoTo, incidentVars, planVars
    <2>2. Done(c) => Done(c)'
      BY <2>1 DEF Done, Missing, ShouldClose, Wanted
    <2>3. toClose'[r] = {}
      BY <1>1, <2>1 DEF ChangeStatus, TypeInv, Routed
    <2> QED
      BY <1>w, <2>1, <2>2, <2>3
  <1>2. CASE FindOpen(r)
    <2>1. /\ stage[r] = "query" /\ stage'[r] = "close" /\ UNCHANGED <<status, open, template>>
          /\ toClose'[r] = {i \in open : ShouldClose(i, c)} /\ toCreate'[r] = Missing(c)
      BY <1>2, <1>a, <1>t DEF FindOpen, GoTo, incidentVars, monitorVars
    <2>d. Done(c) => Done(c)'
      BY <2>1 DEF Done, Missing, ShouldClose, Wanted
    <2>2. /\ Missing(c)' = Missing(c)
          /\ \A i : ShouldClose(i, c)' <=> ShouldClose(i, c)
      BY <2>1 DEF Missing, ShouldClose, Wanted
    <2>3. streak >= 1 => toClose'[r] = {}
      BY <1>i, <2>1 DEF Done
    <2>4. streak >= 1 => StatusOf[c] \in {Unset, status'}
      BY <1>s, <2>1
    <2>5. \A i \in open' : ShouldClose(i, c)' => i \in toClose'[r]
      BY <2>1, <2>2
    <2>6. Missing(c)' \subseteq toCreate'[r]
      BY <2>1, <2>2
    <2> QED
      BY <1>w, <2>1, <2>d, <2>3, <2>4, <2>5, <2>6
  <1>3. CASE Close(r)
    <2> PICK i \in toClose[r] : open' = open \ {i} /\ toClose' = [toClose EXCEPT ![r] = @ \ {i}]
      BY <1>3 DEF Close
    <2>1. /\ stage[r] = "close" /\ stage'[r] = "release" /\ UNCHANGED <<status, template, toCreate>>
          /\ toClose'[r] = toClose[r] \ {i}
      BY <1>3, <1>t DEF Close, GoTo, monitorVars
    <2>2. Missing(c)' \subseteq Missing(c)
      BY <1>t, <2>1 DEF Missing, Wanted
    <2>3. \A j : ShouldClose(j, c)' <=> ShouldClose(j, c)
      BY <2>1 DEF ShouldClose, Wanted
    <2>4. Done(c) => Done(c)'
      BY <2>2, <2>3 DEF Done
    <2>5. ~(streak >= 1)
      BY <1>s
    <2>6. \A j \in open' : ShouldClose(j, c)' => j \in toClose'[r]
      BY <1>i, <2>1, <2>3
    <2>7. Missing(c)' \subseteq toCreate'[r]
      BY <1>i, <2>1, <2>2
    <2> QED
      BY <1>w, <2>1, <2>4, <2>5, <2>6, <2>7
  <1>4. CASE Release(r)
    <2>1. /\ stage[r] = "release" /\ stage'[r] = "close" /\ UNCHANGED <<open, template, toClose, toCreate>>
      BY <1>4, <1>t DEF Release, GoTo, incidentVars, planVars
    <2>d. Done(c) => Done(c)'
      BY <2>1 DEF Done, Missing, ShouldClose, Wanted
    <2>2. /\ Missing(c)' = Missing(c)
          /\ \A i : ShouldClose(i, c)' <=> ShouldClose(i, c)
      BY <2>1 DEF Missing, ShouldClose, Wanted
    <2>3. ~(streak >= 1)
      BY <1>s, <2>1
    <2>4. \A i \in open' : ShouldClose(i, c)' => i \in toClose'[r]
      BY <1>i, <2>1, <2>2
    <2>5. Missing(c)' \subseteq toCreate'[r]
      BY <1>i, <2>1, <2>2
    <2> QED
      BY <1>w, <2>1, <2>d, <2>3, <2>4, <2>5
  <1>5. CASE AllClosed(r)
    <2>1. /\ stage[r] = "close" /\ toClose[r] = {} /\ stage'[r] = "create"
          /\ UNCHANGED <<status, open, template, toClose, toCreate>>
      BY <1>5, <1>a, <1>t, <1>u DEF AllClosed, GoTo, monitorVars, incidentVars, planVars
    <2>d. Done(c) => Done(c)'
      BY <2>1 DEF Done, Missing, ShouldClose, Wanted
    <2>2. /\ Missing(c)' = Missing(c)
          /\ \A i : ShouldClose(i, c)' <=> ShouldClose(i, c)
      BY <2>1 DEF Missing, ShouldClose, Wanted
    <2>3. streak >= 1 => toClose'[r] = {} /\ StatusOf[c] \in {Unset, status'}
      BY <1>s, <2>1
    <2>4. \A i \in open' : ~ShouldClose(i, c)'
      BY <1>i, <2>1, <2>2
    <2>5. Missing(c)' \subseteq toCreate'[r]
      BY <1>i, <2>1, <2>2
    <2> QED
      BY <1>w, <2>1, <2>d, <2>3, <2>4, <2>5
  <1>6. CASE Create(r)
    <2> PICK t \in toCreate[r], i \in Fresh :
           /\ open' = open \cup {i}
           /\ template' = [template EXCEPT ![i] = t]
           /\ toCreate' = [toCreate EXCEPT ![r] = @ \ {t}]
      BY <1>6 DEF Create
    <2>1. /\ stage[r] = "create" /\ stage'[r] = "create" /\ UNCHANGED <<status, toClose>>
          /\ toCreate'[r] = toCreate[r] \ {t}
          /\ template'[i] = t /\ \A j \in open : template'[j] = template[j]
      BY <1>6, <1>t DEF Create, Fresh, monitorVars
    <2>2. Missing(c)' \subseteq Missing(c) \ {t}
      BY <2>1 DEF Missing, Wanted
    <2>3. /\ \A j \in open : ShouldClose(j, c)' <=> ShouldClose(j, c)
          /\ ~ShouldClose(i, c)'
      BY <1>t, <2>1 DEF ShouldClose, Wanted
    <2>4. Done(c) => Done(c)'
      BY <2>2, <2>3 DEF Done
    <2>5. \A j \in open' : ~ShouldClose(j, c)'
      BY <1>i, <2>1, <2>3
    <2>6. Missing(c)' \subseteq toCreate'[r]
      BY <1>i, <2>1, <2>2
    <2>7. streak >= 1 => toClose'[r] = {} /\ StatusOf[c] \in {Unset, status'}
      BY <1>s, <2>1
    <2> QED
      BY <1>w, <2>1, <2>4, <2>5, <2>6, <2>7
  <1>7. CASE AllCreated(r)
    <2>1. /\ stage[r] = "create" /\ toCreate[r] = {} /\ stage'[r] = "idle"
          /\ UNCHANGED <<status, open, template>>
      BY <1>7, <1>t DEF AllCreated, GoTo, monitorVars, incidentVars
    <2>2. Done(c)
      BY <1>i, <2>1 DEF Done
    <2>3. Done(c)'
      BY <2>1, <2>2 DEF Done, Missing, ShouldClose, Wanted
    <2>4. InFlight' = {} /\ (streak' >= 2 => streak >= 1)
      BY <1>a, <2>1
    <2>5. streak >= 1 => StatusOf[c] \in {Unset, status'}
      BY <1>s, <2>1
    <2>6. IncidentsOnCourse(c)'
      BY <2>3, <2>4 DEF IncidentsOnCourse
    <2>7. StatusOnCourse(c)'
      BY <2>4, <2>5 DEF StatusOnCourse
    <2> QED
      BY <2>6, <2>7
  <1>8. ~SetDefault(r)
    BY <1>a, <1>u DEF SetDefault, TypeInv, Routed
  <1> QED
    BY <1>1, <1>2, <1>3, <1>4, <1>5, <1>6, <1>7, <1>8 DEF StepAlone, Step

LEMMA NextCourse == TypeInv /\ CourseInv /\ [HistoryNext]_<<vars, history>> => CourseInv'
  <1> SUFFICES ASSUME TypeInv, CourseInv, [HistoryNext]_<<vars, history>> PROVE CourseInv'
    OBVIOUS
  <1>1. \A r \in Results : stage'[r] = "create" => met'[r] # Unset
    BY HistoryIsNext, OnlyMetCreates DEF CourseInv
  <1>2. ASSUME NEW r \in Results, NEW c \in Criteria \cup {Unset}, ReceiveAlone(r, c) PROVE CourseInv'
    BY <1>1, <1>2, ReceiveCourse DEF CourseInv
  <1>3. ASSUME NEW r \in Results, StepAlone(r) PROVE CourseInv'
    <2>0. outcome' = outcome /\ streak' \in Nat
      BY <1>3, CountType DEF StepAlone, CourseInv
    <2>1. CASE outcome = "unknown"
      BY <1>1, <2>0, <2>1 DEF CourseInv
    <2>2. CASE outcome = Unset
      BY <1>1, <1>3, <2>0, <2>2, UnmetCourse DEF CourseInv
    <2>3. CASE outcome # "unknown" /\ outcome # Unset
      <3>1. /\ OnCourse /\ InFlight = {r} /\ met[r] = outcome
            /\ met' = met /\ InFlight' \subseteq {r}
        BY <1>3, <2>3, AloneSteps
      <3>2. outcome \in Criteria
        BY <2>3, <3>1 DEF OnCourse
      <3>3. PICK c \in Criteria : outcome = c
        BY <3>2
      <3>4. IncidentsOnCourse(c)' /\ StatusOnCourse(c)'
        BY <1>3, <3>3, MetCourse
      <3>5. outcome' = c /\ c # Unset
        BY <2>0, <2>3, <3>3
      <3>6. OnCourse'
        BY <2>3, <3>1, <3>3, <3>4, <3>5 DEF OnCourse, OneInFlight
      <3> QED
        BY <1>1, <2>0, <3>6 DEF CourseInv
    <2> QED
      BY <2>1, <2>2, <2>3
  <1>4. CASE Disturbed
    BY <1>1, <1>4 DEF Disturbed, CourseInv
  <1>5. CASE UNCHANGED <<vars, history>>
    BY <1>5 DEF CourseInv, OnCourse, OneInFlight, InFlight, IncidentsOnCourse, StatusOnCourse, Done,
                Missing, ShouldClose, Wanted, vars, history, monitorVars, incidentVars, planVars
  <1> QED
    BY <1>2, <1>3, <1>4, <1>5 DEF HistoryNext, Alone, Together, StepTogether, ReceiveTogether

LEMMA HistoryCourse ==
  /\ HistoryInit => TypeInv /\ CourseInv
  /\ TypeInv /\ [HistoryNext]_<<vars, history>> => TypeInv'
  <1>1. HistoryInit => TypeInv /\ CourseInv
    BY InitType DEF HistoryInit, Init, CourseInv
  <1>2. TypeInv /\ [HistoryNext]_<<vars, history>> => TypeInv'
    BY HistoryIsNext, ReceiveType, StepType, OthersType DEF Next
  <1> QED
    BY <1>1, <1>2

\* After one result that nobody disturbs, exactly the right incidents are
\* open: each template of the criterion that is met has one, and what other
\* criteria opened and resolve automatically is resolved, whatever races,
\* failures and people left behind.
THEOREM IncidentsAlwaysSettle == HistorySpec => []IncidentsSettle
  <1>1. CourseInv => IncidentsSettle
    <2> SUFFICES ASSUME CourseInv, NEW c \in Criteria, Settled(1, c) PROVE Done(c)
      BY DEF IncidentsSettle, Done
    <2>1. c # Unset /\ c # "unknown"
      BY EvaluationAssumption, OutcomeAssumption
    <2> QED
      BY <2>1 DEF CourseInv, OnCourse, IncidentsOnCourse, Settled
  <1> QED
    BY <1>1, HistoryCourse, NextCourse, PTL DEF HistorySpec

\* Two undisturbed results with the same outcome leave the status that it
\* calls for: the first may have resolved incidents and so made the monitor
\* operational, the second has none left to resolve.
THEOREM StatusAlwaysSettles == HistorySpec => []StatusSettles
  <1>1. CourseInv => StatusSettles
    <2> SUFFICES ASSUME CourseInv, NEW c \in Criteria \cup {Unset}, Settled(2, c), StatusFor(c) # Unset
                 PROVE  status = StatusFor(c)
      BY DEF StatusSettles
    <2>1. c # "unknown"
      BY OutcomeAssumption
    <2>2. OnCourse /\ InFlight = {} /\ streak >= 2 /\ streak >= 1 /\ outcome = c
      BY <2>1 DEF CourseInv, Settled
    <2> QED
      BY <2>2 DEF OnCourse, StatusOnCourse, StatusFor
  <1> QED
    BY <1>1, HistoryCourse, NextCourse, PTL DEF HistorySpec

=============================================================================
