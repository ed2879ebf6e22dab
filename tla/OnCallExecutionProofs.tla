----------------------- MODULE OnCallExecutionProofs -----------------------
(***************************************************************************)
(* Proofs about EscalationRules and OnCallExecution: for any number of     *)
(* rules, edits, logs, rounds and failures,                                *)
(*  - the orders of the rules are 1, 2, ... between the edits, if none     *)
(*    moves a rule down or is cut short;                                   *)
(*  - the types, and that a log that has ended is never revived, however   *)
(*    many runs of the cron job overlap;                                   *)
(*  - that rules are recorded in order, paged once per round, waited for,  *)
(*    and none left out, while runs do not overlap.                        *)
(***************************************************************************)
EXTENDS MCOnCallExecution, FiniteSetTheorems, TLAPS

-----------------------------------------------------------------------------
(* The escalation rules: types, and the orders after every edit.           *)

\* What is still to be renumbered, and where the new rule is to go.
EditFits ==
    /\ edit.kind = "none" => pending = {}
    /\ edit.kind = "insert" => edit.rule = created + 1 /\ edit.order # 0
    /\ edit.kind \in Raising => \A y \in pending : orderOf[y] < MaxOrder
    /\ edit.kind \in Lowering => \A y \in pending : orderOf[y] # 0

RulesInv == RulesTypeOK /\ EditFits

\* What the types of the rules' variables come to.
LEMMA RulesFacts ==
    ASSUME RulesTypeOK
    PROVE  /\ created \in Nat /\ created <= MaxRules
           /\ live \subseteq 1..created /\ live \subseteq Rules /\ pending \subseteq live
           /\ IsFiniteSet(live) /\ Cardinality(live) \in Nat
           /\ orderOf \in [Rules -> Order] /\ \A x \in Rules : orderOf[x] \in Nat /\ orderOf[x] <= MaxOrder
           /\ edit \in Edit /\ edit.rule \in {0} \cup Rules /\ edit.order \in Order /\ edit.order \in Nat
           /\ edit.kind \in {"none"} \cup Raising \cup Lowering
           /\ edits \in 0..MaxEdits /\ mishaps \subseteq {"moved down", "cut short"}
<1>1. MaxRules \in Nat /\ MaxOrder \in Nat
    BY RulesAssumption
<1>2. created \in 0..MaxRules /\ live \in SUBSET (1..created) /\ pending \in SUBSET live
    BY DEF RulesTypeOK
<1>3. orderOf \in [Rules -> Order] /\ edit \in Edit /\ edits \in 0..MaxEdits
    BY DEF RulesTypeOK
<1>4. mishaps \subseteq {"moved down", "cut short"}
    BY DEF RulesTypeOK
<1>5. created \in Nat /\ created <= MaxRules
    BY <1>1, <1>2
<1>6. live \subseteq 1..created /\ live \subseteq Rules /\ pending \subseteq live
    BY <1>1, <1>2, <1>5 DEF Rules
<1>7. IsFiniteSet(live) /\ Cardinality(live) \in Nat
  <2>1. IsFiniteSet(1..created)
    BY <1>5, FS_Interval
  <2>2. IsFiniteSet(live)
    BY <1>6, <2>1, FS_Subset
  <2>3. QED
    BY <2>2, FS_CardinalityType
<1>8. \A x \in Rules : orderOf[x] \in Nat /\ orderOf[x] <= MaxOrder
    BY <1>1, <1>3 DEF Order
<1>9. /\ edit.rule \in {0} \cup Rules /\ edit.order \in Order
      /\ edit.kind \in {"none"} \cup Raising \cup Lowering
    BY <1>3 DEF Edit
<1>10. edit.order \in Nat
    BY <1>1, <1>9 DEF Order
<1>11. QED
    BY <1>3, <1>4, <1>5, <1>6, <1>7, <1>8, <1>9, <1>10

LEMMA RulesInvInit == RulesInit => RulesInv
<1> SUFFICES ASSUME RulesInit PROVE RulesInv
    OBVIOUS
<1>1. MaxRules \in Nat /\ MaxOrder \in Nat /\ MaxEdits \in Nat /\ MaxOrder >= MaxRules
    BY RulesAssumption
<1>2. edit = NoEdit /\ pending = {} /\ edits = 0 /\ mishaps = {} /\ created \in 0..MaxRules
    BY DEF RulesInit
<1>3. orderOf \in [Rules -> Order]
    BY <1>1, <1>2 DEF RulesInit, Rules, Order
<1>4. NoEdit \in Edit /\ NoEdit.kind = "none"
    BY <1>1 DEF NoEdit, Edit, Order
<1>5. live = 1..created
    BY DEF RulesInit
<1>6. QED
    BY <1>1, <1>2, <1>3, <1>4, <1>5 DEF RulesInv, RulesTypeOK, EditFits, Raising, Lowering

LEMMA RulesInvSame ==
    ASSUME RulesInv, UNCHANGED ruleVars PROVE RulesInv'
    BY DEF RulesInv, RulesTypeOK, EditFits, ruleVars

LEMMA RulesInvBegin ==
    ASSUME RulesInv,
           \/ \E at \in Order : Insert(at)
           \/ \E x \in Rules : Delete(x)
           \/ \E x \in Rules, to \in Order : Move(x, to)
    PROVE  RulesInv'
<1>1. MaxRules \in Nat /\ MaxOrder \in Nat /\ MaxEdits \in Nat
    BY RulesAssumption
<1>2. /\ created \in Nat /\ created <= MaxRules
      /\ live \subseteq 1..created /\ live \subseteq Rules /\ Cardinality(live) \in Nat
      /\ orderOf \in [Rules -> Order] /\ \A x \in Rules : orderOf[x] \in Nat /\ orderOf[x] <= MaxOrder
      /\ mishaps \subseteq {"moved down", "cut short"}
    BY RulesFacts DEF RulesInv
<1>e. edits \in 0..MaxEdits
    BY RulesFacts DEF RulesInv
<1>n. created \in Nat /\ created <= MaxRules /\ Cardinality(live) \in Nat /\ live \subseteq 1..created
    BY RulesFacts DEF RulesInv
<1>3. ASSUME NEW kind \in Raising \cup Lowering, NEW x \in Rules, NEW order \in Order, NEW others,
             Begin(kind, x, order, others), others \subseteq live'
      PROVE  /\ edit' \in Edit /\ edits' \in 0..MaxEdits /\ pending' \subseteq live' /\ pending' = others
             /\ edit'.kind = kind /\ edit'.rule = x /\ edit'.order = order /\ kind # "none"
  <2>1. edit' = [kind |-> kind, rule |-> x, order |-> order] /\ pending' = others
        /\ edits' = edits + 1 /\ edits < MaxEdits
    BY <1>3 DEF Begin
  <2>2. edits' \in 0..MaxEdits
    BY <1>1, <1>e, <2>1
  <2>3. edit' \in Edit /\ kind # "none"
    BY <1>3, <2>1 DEF Edit, Raising, Lowering
  <2>4. QED
    BY <1>3, <2>1, <2>2, <2>3
<1>4. ASSUME NEW at \in Order, Insert(at) PROVE RulesInv'
  <2>0. created < MaxRules /\ at \in 1..(Cardinality(live) + 1)
    BY <1>4 DEF Insert
  <2>a. created + 1 \in Rules /\ at # 0
    BY <1>1, <1>n, <2>0 DEF Rules
  <2>1. /\ Begin("insert", created + 1, at, Behind(at)) /\ created + 1 \in Rules /\ at # 0
        /\ UNCHANGED <<created, live, orderOf, mishaps>>
        /\ \A y \in Behind(at) : orderOf[y] < MaxOrder
        /\ Behind(at) \subseteq live
    BY <1>4, <2>a DEF Insert, Behind
  <2>2. /\ edit' \in Edit /\ edits' \in 0..MaxEdits /\ pending' \subseteq live' /\ pending' = Behind(at)
        /\ edit'.kind = "insert" /\ edit'.rule = created + 1 /\ edit'.order = at
    BY <1>3, <2>1 DEF Raising, Lowering
  <2>3. QED
    BY <1>1, <1>2, <1>e, <2>1, <2>2 DEF RulesInv, RulesTypeOK, EditFits, Raising, Lowering
<1>5. ASSUME NEW x \in Rules, Delete(x) PROVE RulesInv'
  <2> DEFINE others == IF orderOf[x] = 0 THEN {} ELSE Behind(orderOf[x]) \ {x}
  <2>1. /\ Begin("delete", x, 0, others) /\ 0 \in Order
        /\ live' = live \ {x} /\ orderOf' = [orderOf EXCEPT ![x] = 0]
        /\ UNCHANGED <<created, mishaps>>
    BY <1>1, <1>5 DEF Delete, Order
  <2>a. others \subseteq live' /\ \A y \in others : orderOf[y] # 0 /\ y # x
    <3>1. others \subseteq live \ {x} /\ \A y \in others : orderOf[x] # 0 /\ orderOf[y] >= orderOf[x]
      BY DEF Behind
    <3>2. ASSUME NEW y \in others PROVE orderOf[y] # 0
      <4>1. y \in Rules /\ orderOf[x] # 0 /\ orderOf[y] >= orderOf[x]
        BY <1>2, <3>1
      <4>2. orderOf[y] \in Nat /\ orderOf[x] \in Nat
        BY <1>2, <4>1
      <4>3. QED
        BY <4>1, <4>2
    <3>3. QED
      BY <2>1, <3>1, <3>2
  <2> HIDE DEF others
  <2>2. /\ edit' \in Edit /\ edits' \in 0..MaxEdits /\ pending' \subseteq live' /\ pending' = others
        /\ edit'.kind = "delete"
    BY <1>3, <2>1, <2>a DEF Raising, Lowering
  <2>3. orderOf' \in [Rules -> Order] /\ \A y \in others : orderOf'[y] # 0
    BY <1>2, <2>1, <2>a
  <2>4. QED
    BY <1>1, <1>2, <1>e, <2>1, <2>a, <2>2, <2>3 DEF RulesInv, RulesTypeOK, EditFits, Raising, Lowering
<1>6. ASSUME NEW x \in Rules, NEW to \in Order, MoveUp(x, to) PROVE RulesInv'
  <2> DEFINE others == {y \in live : to <= orderOf[y] /\ orderOf[y] < orderOf[x]}
  <2>1. /\ Begin("moveUp", x, to, others)
        /\ UNCHANGED <<created, live, orderOf, mishaps>>
    BY <1>6 DEF MoveUp
  <2>a. others \subseteq live' /\ \A y \in others : orderOf[y] < MaxOrder
    <3>1. others \subseteq live
      OBVIOUS
    <3>2. ASSUME NEW y \in others PROVE orderOf[y] < MaxOrder
      <4>1. y \in Rules /\ orderOf[y] < orderOf[x]
        BY <1>2
      <4>2. orderOf[y] \in Nat /\ orderOf[x] \in Nat /\ orderOf[x] <= MaxOrder
        BY <1>2, <4>1
      <4>3. QED
        BY <1>1, <4>1, <4>2
    <3>3. QED
      BY <2>1, <3>1, <3>2
  <2> HIDE DEF others
  <2>2. /\ edit' \in Edit /\ edits' \in 0..MaxEdits /\ pending' \subseteq live' /\ pending' = others
        /\ edit'.kind = "moveUp"
    BY <1>3, <2>1, <2>a DEF Raising, Lowering
  <2>3. QED
    BY <1>1, <1>2, <1>e, <2>1, <2>a, <2>2 DEF RulesInv, RulesTypeOK, EditFits, Raising, Lowering
<1>7. ASSUME NEW x \in Rules, NEW to \in Order, MoveDown(x, to) PROVE RulesInv'
  <2> DEFINE others == {y \in live : orderOf[y] <= to}
  <2>1. /\ Begin("moveDown", x, to, others)
        /\ UNCHANGED <<created, live, orderOf>> /\ mishaps' \subseteq {"moved down", "cut short"}
        /\ others \subseteq live'
        /\ \A y \in others : orderOf[y] # 0
    BY <1>2, <1>7 DEF MoveDown
  <2> HIDE DEF others
  <2>2. /\ edit' \in Edit /\ edits' \in 0..MaxEdits /\ pending' \subseteq live' /\ pending' = others
        /\ edit'.kind = "moveDown"
    BY <1>3, <2>1 DEF Raising, Lowering
  <2>3. QED
    BY <1>1, <1>2, <1>e, <2>1, <2>2 DEF RulesInv, RulesTypeOK, EditFits, Raising, Lowering
<1>8. QED
    BY <1>4, <1>5, <1>6, <1>7 DEF Move

LEMMA RulesInvEdit ==
    ASSUME RulesInv, EditStep PROVE RulesInv'
<1>1. MaxRules \in Nat /\ MaxOrder \in Nat /\ MaxEdits \in Nat /\ MaxOrder >= MaxRules
    BY RulesAssumption
<1>2. /\ created \in Nat /\ created <= MaxRules
      /\ live \subseteq 1..created /\ live \subseteq Rules /\ pending \subseteq live
      /\ orderOf \in [Rules -> Order] /\ \A x \in Rules : orderOf[x] \in Nat /\ orderOf[x] <= MaxOrder
      /\ edit \in Edit /\ edit.rule \in {0} \cup Rules /\ edit.order \in Order
      /\ edit.kind \in {"none"} \cup Raising \cup Lowering
      /\ mishaps \subseteq {"moved down", "cut short"}
    BY RulesFacts DEF RulesInv
<1>e. edits \in 0..MaxEdits
    BY RulesFacts DEF RulesInv
<1>n. created \in Nat /\ created <= MaxRules /\ Cardinality(live) \in Nat /\ live \subseteq 1..created
    BY RulesFacts DEF RulesInv
<1>3. NoEdit \in Edit /\ NoEdit.kind = "none"
    BY <1>1 DEF NoEdit, Edit, Order
<1>4. ASSUME NEW y \in Rules, Renumber(y) PROVE RulesInv'
  <2> DEFINE new == IF edit.kind \in Raising THEN orderOf[y] + 1 ELSE orderOf[y] - 1
  <2>1. /\ orderOf' = [orderOf EXCEPT ![y] = new]
        /\ pending' = pending \ {y} /\ y \in pending
        /\ UNCHANGED <<created, live, edit, edits, mishaps>>
    BY <1>4 DEF Renumber
  <2>2. new \in Order
    <3>1. edit.kind \in Raising \/ edit.kind \in Lowering
      BY <1>2, <2>1 DEF RulesInv, EditFits
    <3>2. orderOf[y] \in Nat /\ orderOf[y] <= MaxOrder
      BY <1>2
    <3>3. CASE edit.kind \in Raising
      BY <1>1, <2>1, <3>2, <3>3 DEF RulesInv, EditFits, Order
    <3>4. CASE edit.kind \notin Raising
      BY <1>1, <2>1, <3>1, <3>2, <3>4 DEF RulesInv, EditFits, Order
    <3>5. QED
      BY <3>3, <3>4
  <2> HIDE DEF new
  <2>3. orderOf' \in [Rules -> Order] /\ \A z \in pending' : orderOf'[z] = orderOf[z]
    BY <1>2, <2>1, <2>2
  <2>4. EditFits'
    BY <2>1, <2>3 DEF RulesInv, EditFits
  <2>5. QED
    BY <1>1, <1>2, <1>e, <2>1, <2>3, <2>4 DEF RulesInv, RulesTypeOK
<1>5. CASE Finish
  <2>1. edit' = NoEdit /\ pending' = {} /\ UNCHANGED <<edits, mishaps>>
    BY <1>5 DEF Finish
  <2>2. CASE edit.kind = "insert" /\ created' = edit.rule /\ live' = live \cup {edit.rule}
             /\ orderOf' = [orderOf EXCEPT ![edit.rule] = edit.order]
    <3>1. edit.rule = created + 1
      BY <2>2 DEF RulesInv, EditFits
    <3>2. edit.rule \in Rules /\ created' \in 0..MaxRules /\ live' \subseteq 1..created'
      <4>1. edit.rule \in Rules /\ created' = created + 1
        <5>1. created + 1 # 0
          BY <1>n
        <5>2. edit.rule \in {0} \cup Rules
          BY <1>2
        <5>3. QED
          BY <2>2, <3>1, <5>1, <5>2
      <4>2. created' \in 0..MaxRules
        BY <1>1, <1>n, <3>1, <4>1 DEF Rules
      <4>3. QED
        BY <1>n, <2>2, <3>1, <4>1, <4>2
    <3>3. orderOf' \in [Rules -> Order]
      BY <1>2, <1>3, <2>2, <3>2
    <3>4. QED
      BY <1>1, <1>2, <1>e, <1>3, <2>1, <3>2, <3>3 DEF RulesInv, RulesTypeOK, EditFits, Raising, Lowering
  <2>3. CASE UNCHANGED <<created, live>> /\ (orderOf' = [orderOf EXCEPT ![edit.rule] = edit.order] \/ orderOf' = orderOf)
    <3>1. orderOf' \in [Rules -> Order]
      BY <1>2, <1>3, <2>3
    <3>2. QED
      BY <1>1, <1>2, <1>e, <1>3, <2>1, <2>3, <3>1 DEF RulesInv, RulesTypeOK, EditFits, Raising, Lowering
  <2>4. QED
    BY <1>5, <2>2, <2>3 DEF Finish
<1>6. CASE CutShort
    BY <1>1, <1>2, <1>e, <1>3, <1>6 DEF CutShort, RulesInv, RulesTypeOK, EditFits, Raising, Lowering
<1>7. QED
    BY <1>4, <1>5, <1>6 DEF EditStep

LEMMA RulesInvStep == RulesInv /\ [RulesNext]_ruleVars => RulesInv'
    BY RulesInvSame, RulesInvBegin, RulesInvEdit DEF RulesNext
-----------------------------------------------------------------------------
(* The orders as they will be when the edit in progress has ended: they    *)
(* are in sequence from the moment it begins.                              *)

\* The rules there will be, and their orders.
Future == IF edit.kind = "insert" THEN live \cup {edit.rule} ELSE live

FutureOrder(y) ==
    IF edit.kind \in {"insert", "moveUp"} /\ y = edit.rule THEN edit.order
    ELSE IF y \in pending THEN (IF edit.kind \in Raising THEN orderOf[y] + 1 ELSE orderOf[y] - 1)
    ELSE orderOf[y]

FutureInSequence ==
    /\ \A x, y \in Future : FutureOrder(x) = FutureOrder(y) => x = y
    /\ \A x \in Future :
          /\ FutureOrder(x) \in Nat /\ FutureOrder(x) # 0
          /\ \A k \in Nat : k # 0 /\ k < FutureOrder(x) => \E y \in Future : FutureOrder(y) = k

\* What a move up asks for stays so until it is done.
MoveFits == edit.kind = "moveUp" => edit.rule \in live /\ edit.rule \notin pending

PositionsInv == RulesInv /\ MoveFits /\ (mishaps = {} => FutureInSequence /\ edit.kind # "moveDown")

\* A policy whose rules are in sequence has one in front of every position
\* that a creation may ask for.
LEMMA PositionBefore ==
    ASSUME RulesTypeOK, InSequence, NEW at \in Nat, at > 1, at <= Cardinality(live) + 1
    PROVE  \E y \in live : orderOf[y] = at - 1
<1> SUFFICES ASSUME \A y \in live : orderOf[y] # at - 1 PROVE FALSE
    OBVIOUS
<1>1. /\ live \subseteq Rules /\ IsFiniteSet(live) /\ Cardinality(live) \in Nat
      /\ \A y \in live : orderOf[y] \in Nat
    BY RulesFacts
<1>2. \A y \in live : orderOf[y] \in 1..(at - 2)
  <2> TAKE y \in live
  <2>1. orderOf[y] # 0 /\ orderOf[y] # at - 1 /\ orderOf[y] \in Nat
    BY <1>1 DEF InSequence
  <2>2. ~ (at - 1 < orderOf[y])
    BY <2>1 DEF InSequence
  <2>3. QED
    BY <2>1, <2>2
<1>3. IsFiniteSet(1..(at - 2)) /\ Cardinality(1..(at - 2)) = at - 2
    BY FS_Interval
<1> DEFINE f == [y \in live |-> orderOf[y]]
<1>4. f \in Injection(live, 1..(at - 2))
    BY <1>2 DEF Injection, IsInjective, InSequence, Distinct
<1>5. Cardinality(live) <= at - 2
    BY <1>1, <1>3, <1>4, FS_Injection DEF ExistsInjection
<1>6. QED
    BY <1>1, <1>5

\* Without an edit in progress the orders are those the rules have.
LEMMA Settled ==
    ASSUME RulesInv, edit = NoEdit
    PROVE  FutureInSequence <=> InSequence
<1>1. edit.kind = "none" /\ pending = {}
    BY DEF NoEdit, RulesInv, EditFits
<1>2. Future = live /\ \A y : FutureOrder(y) = orderOf[y]
    BY <1>1 DEF Future, FutureOrder
<1>3. \A x \in live : orderOf[x] \in Nat
    BY RulesFacts DEF RulesInv
<1>4. \A x \in live : \A k : k \in 1..(orderOf[x] - 1) <=> k \in Nat /\ k # 0 /\ k < orderOf[x]
    BY <1>3
<1>5. QED
    BY <1>2, <1>3, <1>4 DEF FutureInSequence, InSequence, Distinct

\* A creation makes room for its rule.
LEMMA InsertInSequence ==
    ASSUME RulesInv, InSequence, NEW at \in Order, Insert(at)
    PROVE  FutureInSequence'
<1>1. /\ live \subseteq 1..created /\ live \subseteq Rules /\ created \in Nat /\ Cardinality(live) \in Nat
      /\ RulesTypeOK
    BY RulesFacts DEF RulesInv
<1>2. \A y \in live : orderOf[y] \in Nat /\ orderOf[y] # 0
    BY RulesFacts DEF RulesInv, InSequence
<1>3. /\ at \in 1..(Cardinality(live) + 1)
      /\ edit' = [kind |-> "insert", rule |-> created + 1, order |-> at]
      /\ pending' = Behind(at) /\ live' = live /\ orderOf' = orderOf
    BY DEF Insert, Begin
<1>4. at \in Nat /\ at # 0 /\ at <= Cardinality(live) + 1
    BY <1>1, <1>3
<1>5. PICK new : new = created + 1 /\ new \notin live
    BY <1>1
<1> DEFINE o(y) == IF orderOf[y] >= at THEN orderOf[y] + 1 ELSE orderOf[y]
<1>6. /\ Future' = live \cup {new} /\ FutureOrder(new)' = at
      /\ \A y \in live : FutureOrder(y)' = o(y)
    BY <1>3, <1>5 DEF Future, FutureOrder, Behind, Raising
<1>7. \A x, y \in live : o(x) = o(y) => x = y
    BY <1>2, <1>4 DEF InSequence, Distinct
<1>8. \A y \in live : o(y) \in Nat /\ o(y) # 0 /\ o(y) # at
    BY <1>2, <1>4
<1>9. \A k \in Nat : k # 0 /\ k < at => \E y \in live : o(y) = k
  <2> TAKE k \in Nat
  <2> HAVE k # 0 /\ k < at
  <2>1. PICK z \in live : orderOf[z] = at - 1
    BY <1>1, <1>4, PositionBefore
  <2>2. CASE k = at - 1
    BY <1>2, <1>4, <2>1, <2>2
  <2>3. CASE k < at - 1
    <3>1. k \in 1..(orderOf[z] - 1)
      BY <1>4, <2>1, <2>3
    <3>2. PICK y \in live : orderOf[y] = k
      BY <3>1 DEF InSequence
    <3>3. QED
      BY <1>4, <3>2
  <2>4. QED
    BY <1>4, <2>2, <2>3
<1>10. ASSUME NEW x \in live, NEW k \in Nat, k # 0, k < o(x), k # at
       PROVE  \E y \in live : o(y) = k
  <2>1. CASE k < at
    BY <1>9, <1>10, <2>1
  <2>2. CASE k > at
    <3>1. k - 1 \in 1..(orderOf[x] - 1)
      BY <1>2, <1>4, <1>10, <2>2
    <3>2. PICK y \in live : orderOf[y] = k - 1
      BY <3>1 DEF InSequence
    <3>3. QED
      BY <1>4, <2>2, <3>2
  <2>3. QED
    BY <1>4, <1>10, <2>1, <2>2
<1> HIDE DEF o
<1>11. \A x, y \in Future' : FutureOrder(x)' = FutureOrder(y)' => x = y
    BY <1>6, <1>7, <1>8
<1>12. ASSUME NEW x \in Future'
       PROVE  /\ FutureOrder(x)' \in Nat /\ FutureOrder(x)' # 0
              /\ \A k \in Nat : k # 0 /\ k < FutureOrder(x)' => \E y \in Future' : FutureOrder(y)' = k
  <2>1. CASE x = new
    BY <1>4, <1>6, <1>9, <2>1
  <2>2. CASE x \in live
    BY <1>4, <1>6, <1>8, <1>10, <2>2
  <2>3. QED
    BY <1>6, <2>1, <2>2
<1>13. QED
    BY <1>11, <1>12 DEF FutureInSequence

\* A deletion closes the gap.
LEMMA DeleteInSequence ==
    ASSUME RulesInv, InSequence, NEW x \in Rules, Delete(x)
    PROVE  FutureInSequence'
<1>1. x \in live /\ live \subseteq Rules
    BY RulesFacts DEF RulesInv, Delete
<1>2. \A y \in live : orderOf[y] \in Nat /\ orderOf[y] # 0
    BY RulesFacts DEF RulesInv, InSequence
<1>3. orderOf \in [Rules -> Order]
    BY RulesFacts DEF RulesInv
<1>4. /\ edit' = [kind |-> "delete", rule |-> x, order |-> 0]
      /\ pending' = Behind(orderOf[x]) \ {x}
      /\ live' = live \ {x} /\ orderOf' = [orderOf EXCEPT ![x] = 0]
    BY <1>1, <1>2 DEF Delete, Begin
<1> DEFINE o(y) == IF orderOf[y] >= orderOf[x] THEN orderOf[y] - 1 ELSE orderOf[y]
<1>5. \A y \in live \ {x} : orderOf'[y] = orderOf[y] /\ (y \in pending' <=> orderOf[y] >= orderOf[x])
    BY <1>1, <1>3, <1>4 DEF Behind
<1>6. Future' = live \ {x} /\ \A y \in live \ {x} : FutureOrder(y)' = o(y)
    BY <1>4, <1>5 DEF Future, FutureOrder, Raising
<1>7. \A y \in live \ {x} : orderOf[y] # orderOf[x]
    BY <1>1 DEF InSequence, Distinct
<1>8. \A y, z \in live \ {x} : o(y) = o(z) => y = z
    BY <1>1, <1>2, <1>7 DEF InSequence, Distinct
<1>9. \A y \in live \ {x} : o(y) \in Nat /\ o(y) # 0
    BY <1>1, <1>2, <1>7
<1>10. ASSUME NEW y \in live \ {x}, NEW k \in Nat, k # 0, k < o(y)
       PROVE  \E z \in live \ {x} : o(z) = k
  <2>1. CASE k < orderOf[x]
    <3>1. k \in 1..(orderOf[y] - 1)
      BY <1>1, <1>2, <1>10
    <3>2. PICK z \in live : orderOf[z] = k
      BY <3>1 DEF InSequence
    <3>3. QED
      BY <1>1, <1>2, <2>1, <3>2
  <2>2. CASE k >= orderOf[x]
    <3>1. k + 1 \in 1..(orderOf[y] - 1)
      BY <1>1, <1>2, <1>10, <2>2
    <3>2. PICK z \in live : orderOf[z] = k + 1
      BY <3>1 DEF InSequence
    <3>3. QED
      BY <1>1, <1>2, <2>2, <3>2
  <2>3. QED
    BY <1>1, <1>2, <2>1, <2>2
<1> HIDE DEF o
<1>11. QED
    BY <1>6, <1>8, <1>9, <1>10 DEF FutureInSequence

\* A move up turns the rules between the two places.
LEMMA MoveUpInSequence ==
    ASSUME RulesInv, InSequence, NEW x \in Rules, NEW to \in Order, MoveUp(x, to)
    PROVE  FutureInSequence'
<1>1. x \in live /\ live \subseteq Rules /\ Cardinality(live) \in Nat
    BY RulesFacts DEF RulesInv, MoveUp
<1>2. \A y \in live : orderOf[y] \in Nat /\ orderOf[y] # 0
    BY RulesFacts DEF RulesInv, InSequence
<1>3. /\ edit' = [kind |-> "moveUp", rule |-> x, order |-> to]
      /\ pending' = {y \in live : to <= orderOf[y] /\ orderOf[y] < orderOf[x]}
      /\ live' = live /\ orderOf' = orderOf
      /\ to \in 1..Cardinality(live) /\ to < orderOf[x]
    BY DEF MoveUp, Begin
<1>4. to \in Nat /\ to # 0
    BY <1>1, <1>3
<1> DEFINE o(y) == IF y = x THEN to
                   ELSE IF to <= orderOf[y] /\ orderOf[y] < orderOf[x] THEN orderOf[y] + 1 ELSE orderOf[y]
<1>5. Future' = live /\ \A y \in live : FutureOrder(y)' = o(y)
    BY <1>1, <1>3 DEF Future, FutureOrder, Raising
<1>6. \A y \in live \ {x} : orderOf[y] # orderOf[x]
    BY <1>1 DEF InSequence, Distinct
<1>7. \A y, z \in live : o(y) = o(z) => y = z
    BY <1>1, <1>2, <1>3, <1>4, <1>6 DEF InSequence, Distinct
<1>8. \A y \in live : o(y) \in Nat /\ o(y) # 0
    BY <1>2, <1>4
<1>9. ASSUME NEW y \in live, NEW k \in Nat, k # 0, k < o(y)
      PROVE  \E z \in live : o(z) = k
  <2>1. CASE k < to
    <3>1. k \in 1..(orderOf[x] - 1)
      BY <1>1, <1>2, <1>3, <1>4, <1>9, <2>1
    <3>2. PICK z \in live : orderOf[z] = k
      BY <1>1, <3>1 DEF InSequence
    <3>3. z # x
      BY <1>1, <1>2, <1>3, <1>4, <2>1, <3>2
    <3>4. QED
      BY <1>4, <2>1, <3>2, <3>3
  <2>2. CASE k = to
    BY <1>1, <2>2
  <2>3. CASE to < k /\ k <= orderOf[x]
    <3>1. k - 1 \in 1..(orderOf[x] - 1)
      BY <1>1, <1>2, <1>4, <1>9, <2>3
    <3>2. PICK z \in live : orderOf[z] = k - 1
      BY <1>1, <3>1 DEF InSequence
    <3>3. z # x
      BY <1>1, <1>2, <2>3, <3>2
    <3>4. to <= orderOf[z] /\ orderOf[z] < orderOf[x]
      BY <1>1, <1>2, <1>4, <2>3, <3>2
    <3>5. QED
      BY <3>2, <3>3, <3>4
  <2>4. CASE k > orderOf[x]
    <3>1. k \in 1..(orderOf[y] - 1)
      BY <1>1, <1>2, <1>3, <1>4, <1>9, <2>4
    <3>2. PICK z \in live : orderOf[z] = k
      BY <3>1 DEF InSequence
    <3>3. z # x /\ ~ (orderOf[z] < orderOf[x])
      BY <1>1, <1>2, <2>4, <3>2
    <3>4. QED
      BY <3>2, <3>3
  <2>5. QED
    BY <1>1, <1>2, <1>4, <1>9, <2>1, <2>2, <2>3, <2>4
<1> HIDE DEF o
<1>10. QED
    BY <1>5, <1>7, <1>8, <1>9 DEF FutureInSequence
-----------------------------------------------------------------------------
LEMMA EditKeepsPositions ==
    ASSUME PositionsInv, EditStep PROVE PositionsInv'
<1>1. RulesInv'
    BY RulesInvEdit DEF PositionsInv
<1>2. /\ live \subseteq 1..created /\ live \subseteq Rules /\ created \in Nat /\ pending \subseteq live
      /\ orderOf \in [Rules -> Order] /\ edit.rule \in {0} \cup Rules /\ edit.order \in Nat
      /\ edit.order \in Order /\ \A x \in Rules : orderOf[x] \in Nat
    BY RulesFacts DEF PositionsInv, RulesInv
<1>3. ASSUME NEW y \in Rules, Renumber(y) PROVE PositionsInv'
  <2>1. /\ y \in pending /\ pending' = pending \ {y}
        /\ orderOf' = [orderOf EXCEPT ![y] = IF edit.kind \in Raising THEN @ + 1 ELSE @ - 1]
        /\ UNCHANGED <<created, live, edit, edits, mishaps>>
    BY <1>3 DEF Renumber
  <2>2. MoveFits'
    BY <2>1 DEF PositionsInv, MoveFits
  <2>3. ASSUME edit.kind # "moveDown" PROVE \A z \in Future : FutureOrder(z)' = FutureOrder(z)
    <3>1. edit.kind \in {"insert", "moveUp"} => edit.rule # y
      BY <1>2, <2>1 DEF PositionsInv, MoveFits, RulesInv, EditFits
    <3>2. \A z \in Rules : z # y => orderOf'[z] = orderOf[z]
      BY <1>2, <2>1
    <3>3. orderOf'[y] = IF edit.kind \in Raising THEN orderOf[y] + 1 ELSE orderOf[y] - 1
      BY <1>2, <2>1
    <3>4. \A z \in Future : z \in Rules \/ (edit.kind = "insert" /\ z = edit.rule)
      BY <1>2 DEF Future
    <3>5. QED
      BY <2>1, <3>1, <3>2, <3>3, <3>4 DEF FutureOrder
  <2>4. Future' = Future
    BY <2>1 DEF Future
  <2>5. mishaps' = {} => FutureInSequence'
    BY <2>1, <2>3, <2>4 DEF PositionsInv, FutureInSequence
  <2>6. QED
    BY <1>1, <2>1, <2>2, <2>5 DEF PositionsInv
<1>4. CASE Finish
  <2>1. edit' = NoEdit /\ pending = {} /\ pending' = pending /\ mishaps' = mishaps
    BY <1>4 DEF Finish
  <2>2. edit'.kind = "none" /\ MoveFits'
    BY <2>1 DEF NoEdit, MoveFits
  <2>3. Future' = live' /\ \A y \in live' : FutureOrder(y)' = orderOf'[y]
    BY <2>1, <2>2 DEF Future, FutureOrder
  <2>4. ASSUME edit.kind # "moveDown" PROVE live' = Future /\ \A y \in live' : orderOf'[y] = FutureOrder(y)
    <3>1. CASE edit.kind = "insert"
      <4>1. edit.rule = created + 1
        BY <3>1 DEF PositionsInv, RulesInv, EditFits
      <4>2. live' = live \cup {edit.rule} /\ orderOf' = [orderOf EXCEPT ![edit.rule] = edit.order]
        BY <1>4, <3>1 DEF Finish
      <4>3. edit.rule \in Rules /\ edit.rule \notin live
        BY <1>2, <4>1
      <4>4. QED
        BY <1>2, <2>1, <3>1, <4>2, <4>3 DEF Future, FutureOrder
    <3>2. CASE edit.kind = "moveUp"
      <4>1. live' = live /\ orderOf' = [orderOf EXCEPT ![edit.rule] = edit.order]
        BY <1>4, <3>2 DEF Finish
      <4>2. edit.rule \in Rules
        BY <1>2, <3>2 DEF PositionsInv, MoveFits
      <4>3. QED
        BY <1>2, <2>1, <3>2, <4>1, <4>2 DEF Future, FutureOrder
    <3>3. CASE edit.kind = "delete"
      BY <1>4, <2>1, <3>3 DEF Finish, Future, FutureOrder
    <3>4. QED
      BY <1>4, <2>4, <3>1, <3>2, <3>3 DEF Finish
  <2>5. mishaps' = {} => FutureInSequence'
    BY <2>1, <2>3, <2>4 DEF PositionsInv, FutureInSequence
  <2>6. QED
    BY <1>1, <2>2, <2>5 DEF PositionsInv
<1>5. CASE CutShort
    BY <1>1, <1>5 DEF CutShort, PositionsInv, MoveFits, NoEdit
<1>6. QED
    BY <1>3, <1>4, <1>5 DEF EditStep

LEMMA PositionsInvStep == PositionsInv /\ [RulesNext]_ruleVars => PositionsInv'
<1> SUFFICES ASSUME PositionsInv, [RulesNext]_ruleVars PROVE PositionsInv'
    OBVIOUS
<1>1. RulesInv /\ RulesInv'
    BY RulesInvStep DEF PositionsInv
<1>2. CASE UNCHANGED ruleVars
    BY <1>1, <1>2 DEF PositionsInv, MoveFits, FutureInSequence, Future, FutureOrder, ruleVars
<1>3. CASE EditStep
    BY <1>3, EditKeepsPositions
<1>4. CASE edit = NoEdit
  <2>1. mishaps = {} => InSequence
    BY <1>1, <1>4, Settled DEF PositionsInv
  <2>2. ASSUME NEW at \in Order, Insert(at) PROVE PositionsInv'
    <3>1. edit'.kind = "insert" /\ mishaps' = mishaps
      BY <2>2 DEF Insert, Begin
    <3>2. QED
      BY <1>1, <2>1, <2>2, <3>1, InsertInSequence DEF PositionsInv, MoveFits
  <2>3. ASSUME NEW x \in Rules, Delete(x) PROVE PositionsInv'
    <3>1. edit'.kind = "delete" /\ mishaps' = mishaps
      BY <2>3 DEF Delete, Begin
    <3>2. QED
      BY <1>1, <2>1, <2>3, <3>1, DeleteInSequence DEF PositionsInv, MoveFits
  <2>4. ASSUME NEW x \in Rules, NEW to \in Order, MoveUp(x, to) PROVE PositionsInv'
    <3>1. edit'.kind = "moveUp" /\ mishaps' = mishaps
      BY <2>4 DEF MoveUp, Begin
    <3>2. edit'.rule = x /\ x \in live' /\ x \notin pending'
      <4>1. orderOf[x] \in Nat
        BY <1>1, RulesFacts DEF RulesInv
      <4>2. QED
        BY <2>4, <4>1 DEF MoveUp, Begin
    <3>3. QED
      BY <1>1, <2>1, <2>4, <3>1, <3>2, MoveUpInSequence DEF PositionsInv, MoveFits
  <2>5. ASSUME NEW x \in Rules, NEW to \in Order, MoveDown(x, to) PROVE PositionsInv'
    BY <1>1, <2>5 DEF MoveDown, Begin, PositionsInv, MoveFits
  <2>6. CASE RulesNext
    BY <1>3, <2>2, <2>3, <2>4, <2>5, <2>6 DEF RulesNext, Move
  <2>7. QED
    BY <1>2, <2>6
<1>5. CASE edit # NoEdit
    BY <1>2, <1>3, <1>5 DEF RulesNext, Insert, Delete, Move, MoveUp, MoveDown, Begin
<1>6. QED
    BY <1>4, <1>5

LEMMA PositionsInvInit == RulesInit => PositionsInv
<1> SUFFICES ASSUME RulesInit PROVE PositionsInv
    OBVIOUS
<1>1. RulesInv /\ edit = NoEdit
    BY RulesInvInit DEF RulesInit
<1>2. live = 1..created /\ created \in Nat /\ created <= MaxRules
    BY RulesAssumption DEF RulesInit
<1>3. \A x \in live : orderOf[x] = x
    BY <1>2, RulesAssumption DEF RulesInit, Rules
<1>4. InSequence
    BY <1>2, <1>3 DEF InSequence, Distinct
<1>5. FutureInSequence
    BY <1>1, <1>4, Settled
<1>6. QED
    BY <1>1, <1>5 DEF PositionsInv, MoveFits, NoEdit

\* Creations at any position, deletions and moves up, in any sequence, leave the
\* orders 1, 2, ... whenever none is in progress, if no rule has been moved down
\* and no edit cut short, for any number of rules and edits.
THEOREM OrdersStayInSequence == RulesSpec => []PositionsKept
<1>1. PositionsInv => PositionsKept
    BY Settled DEF PositionsInv, PositionsKept
<1>2. QED
    BY <1>1, PositionsInvInit, PositionsInvStep, PTL DEF RulesSpec

-----------------------------------------------------------------------------
(* What the updates shared by the actions return.                          *)

\* Only the call of run r on log l moves, with the given components.
Moved(r, l, stage, round, order, rule) ==
    /\ task' \in [Runs -> [Logs -> Task]]
    /\ task'[r][l].stage = stage /\ task'[r][l].round = round
    /\ task'[r][l].order = order /\ task'[r][l].rule = rule
    /\ \A q \in Runs, m \in Logs : (q # r \/ m # l) => task'[q][m] = task[q][m]

LEMMA MoveTask ==
    ASSUME TypeOK, NEW r \in Runs, NEW l \in Logs, NEW stage \in TaskStage,
           NEW round \in {0} \cup Rounds, NEW order \in 0..(MaxOrder + 1), NEW rule \in {NoRule} \cup Rules,
           GoTo(r, l, stage, round, order, rule)
    PROVE  Moved(r, l, stage, round, order, rule)
<1> DEFINE moved == [stage |-> stage, order |-> order, rule |-> rule,
                     round |-> round, waited |-> 0, next |-> 0]
<1>1. task \in [Runs -> [Logs -> Task]] /\ 0 \in Minute
    BY ConstantsAssumption DEF TypeOK, Minute
<1>2. /\ moved \in Task
      /\ moved.stage = stage /\ moved.round = round /\ moved.order = order /\ moved.rule = rule
    BY <1>1 DEF Task
<1>3. task' = [task EXCEPT ![r][l] = moved]
    BY DEF GoTo
<1> HIDE DEF moved
<1>4. task' \in [Runs -> [Logs -> Task]] /\ task'[r][l] = moved
    BY <1>1, <1>2, <1>3
<1>5. \A q \in Runs, m \in Logs : (q # r \/ m # l) => task'[q][m] = task[q][m]
    BY <1>1, <1>3
<1>6. QED
    BY <1>2, <1>4, <1>5 DEF Moved

LEMMA NoTaskType ==
    NoTask \in Task /\ NoTask.stage = "idle"
<1>1. 0 \in Minute /\ 0 \in 0..(MaxOrder + 1)
    BY ConstantsAssumption, RulesAssumption DEF Minute
<1>2. QED
    BY <1>1 DEF NoTask, Task, TaskStage, NoRule

LEMMA EndTask ==
    ASSUME TypeOK, NEW r \in Runs, NEW l \in Logs, Finished(r, l)
    PROVE  /\ task' \in [Runs -> [Logs -> Task]]
           /\ task'[r][l] = NoTask
           /\ \A q \in Runs, m \in Logs : (q # r \/ m # l) => task'[q][m] = task[q][m]
    BY NoTaskType DEF TypeOK, Finished

LEMMA RuleRecorded ==
    ASSUME TypeOK, NEW l \in Logs, NEW rule \in live, NEW order, RecordRule(l, rule, order)
    PROVE  /\ lastOrder' \in [Logs -> Order]
           /\ nextIn' \in [Logs -> Minute]
           /\ waited' \in [Logs -> Minute]
           /\ begun' \in [Logs -> SUBSET Rules]
           /\ repeatCount' = repeatCount /\ age' = age
           /\ lastOrder'[l] = orderOf[rule] /\ waited'[l] = 0
           /\ begun'[l] = IF order = 1 THEN {rule} ELSE begun[l] \cup {rule}
           /\ \A m \in Logs \ {l} : /\ lastOrder'[m] = lastOrder[m]
                                   /\ nextIn'[m] = nextIn[m]
                                   /\ waited'[m] = waited[m]
                                   /\ begun'[m] = begun[m]
<1>1. RulesTypeOK
    BY DEF TypeOK
<1>2. rule \in Rules /\ orderOf[rule] \in Order
    BY <1>1, RulesFacts
<1>3. EscalateAfter[rule] \in Minute /\ 0 \in Minute
    BY <1>2, ConstantsAssumption DEF Minute
<1>4. /\ lastOrder \in [Logs -> Order]
      /\ nextIn \in [Logs -> Minute]
      /\ waited \in [Logs -> Minute]
      /\ begun \in [Logs -> SUBSET Rules]
    BY DEF TypeOK
<1>5. /\ lastOrder' = [lastOrder EXCEPT ![l] = orderOf[rule]]
      /\ nextIn' = [nextIn EXCEPT ![l] = EscalateAfter[rule]]
      /\ waited' = [waited EXCEPT ![l] = 0]
      /\ begun' = [begun EXCEPT ![l] = IF order = 1 THEN {rule} ELSE begun[l] \cup {rule}]
      /\ repeatCount' = repeatCount /\ age' = age
    BY DEF RecordRule
<1>6. (IF order = 1 THEN {rule} ELSE begun[l] \cup {rule}) \in SUBSET Rules
    BY <1>2, <1>4
<1>7. begun' \in [Logs -> SUBSET Rules]
    BY <1>4, <1>5, <1>6
<1>8. /\ begun'[l] = IF order = 1 THEN {rule} ELSE begun[l] \cup {rule}
      /\ \A m \in Logs \ {l} : begun'[m] = begun[m]
    BY <1>4, <1>5
<1>9. /\ lastOrder' \in [Logs -> Order] /\ nextIn' \in [Logs -> Minute] /\ waited' \in [Logs -> Minute]
      /\ lastOrder'[l] = orderOf[rule] /\ waited'[l] = 0
    BY <1>2, <1>3, <1>4, <1>5
<1>10. \A m \in Logs \ {l} : lastOrder'[m] = lastOrder[m] /\ nextIn'[m] = nextIn[m] /\ waited'[m] = waited[m]
    BY <1>4, <1>5
<1>11. QED
    BY <1>5, <1>7, <1>8, <1>9, <1>10

LEMMA PageOnce ==
    ASSUME TypeOK, NEW l \in Logs, NEW round, NEW rule, PageUsers(l, round, rule)
    PROVE  /\ pages' \in [Logs -> [Rounds \X Rules -> 0..2]]
           /\ \A m \in Logs, p \in Rounds \X Rules :
                 (m # l \/ p # <<round, rule>>) => pages'[m][p] = pages[m][p]
           /\ \A p \in Rounds \X Rules : p = <<round, rule>> =>
                 pages'[l][p] > 0 /\ (pages[l][p] = 0 => pages'[l][p] = 1)
<1> DEFINE P == Rounds \X Rules
<1>1. pages \in [Logs -> [P -> 0..2]]
    BY DEF TypeOK
<1>2. pages' = [pages EXCEPT ![l][<<round, rule>>] = IF @ < 2 THEN @ + 1 ELSE @]
    BY DEF PageUsers
<1> HIDE DEF P
<1>3. pages' \in [Logs -> [P -> 0..2]]
  <2> DEFINE more(n) == IF n < 2 THEN n + 1 ELSE n
             row == [p \in P |-> IF p = <<round, rule>> THEN more(pages[l][p]) ELSE pages[l][p]]
  <2>1. \A n \in 0..2 : more(n) \in 0..2
    OBVIOUS
  <2> HIDE DEF more
  <2>2. row \in [P -> 0..2]
    BY <1>1, <2>1
  <2>3. pages' = [pages EXCEPT ![l] = row]
    BY <1>1, <1>2 DEF more
  <2> HIDE DEF row
  <2>4. QED
    BY <1>1, <2>2, <2>3
<1>4. \A m \in Logs, p \in P : (m # l \/ p # <<round, rule>>) => pages'[m][p] = pages[m][p]
    BY <1>1, <1>2
<1>5. ASSUME NEW p \in P, p = <<round, rule>>
      PROVE  pages'[l][p] > 0 /\ (pages[l][p] = 0 => pages'[l][p] = 1)
  <2>1. pages[l][p] \in 0..2 /\ pages'[l][p] = IF pages[l][p] < 2 THEN pages[l][p] + 1 ELSE pages[l][p]
    BY <1>1, <1>2, <1>5
  <2>2. QED
    BY <2>1
<1>6. QED
    BY <1>3, <1>4, <1>5 DEF P

-----------------------------------------------------------------------------
(* Type correctness.                                                       *)

\* A call that is about to save the count of rounds has a repeat left.
RepeatFits ==
    \A r \in Runs, l \in Logs : task[r][l].stage = "repeat" => task[r][l].round < RepeatTimes

TypeInv == TypeOK /\ EditFits /\ RepeatFits

LEMMA TypeInvRules == TypeInv => RulesInv
    BY DEF TypeInv, TypeOK, RulesInv

LEMMA PolicySame ==
    ASSUME TypeInv, UNCHANGED policyVars
    PROVE  RulesTypeOK' /\ EditFits' /\ shifted' \subseteq Logs /\ raised' \subseteq Logs
<1>1. UNCHANGED ruleVars /\ UNCHANGED <<shifted, raised>>
    BY DEF policyVars
<1>2. RulesInv'
    BY <1>1, TypeInvRules, RulesInvSame
<1>3. QED
    BY <1>1, <1>2 DEF RulesInv, TypeInv, TypeOK

LEMMA TypeInvCreator ==
    ASSUME TypeInv, NEW l \in Logs, Create(l) \/ CreatorStep(l) \/ CreatorDies(l)
    PROVE  TypeInv'
<1>1. status' \in [Logs -> Status]
    BY DEF TypeInv, TypeOK, Create, CreatorStep, CreatorFind, CreatorStart, CreatorNotify, CreatorFinish,
           CreatorDies, CreatorEnds, Status, Terminal
<1>2. creator' \in [Logs -> CreatorStage]
    BY DEF TypeInv, TypeOK, Create, CreatorStep, CreatorFind, CreatorStart, CreatorNotify, CreatorFinish,
           CreatorDies, CreatorEnds, CreatorStage
<1>3. firstRule' \in [Logs -> {NoRule} \cup Rules]
  <2>1. \A x \in live : x \in Rules
    BY TypeInvRules, RulesFacts DEF RulesInv
  <2>2. QED
    BY <2>1
    DEF TypeInv, TypeOK, Create, CreatorStep, CreatorFind, CreatorStart, CreatorNotify, CreatorFinish,
        CreatorDies, CreatorEnds, Found
<1>4. RulesTypeOK' /\ EditFits' /\ shifted' \subseteq Logs /\ raised' \subseteq Logs
  <2>1. CASE UNCHANGED policyVars
    BY <2>1, PolicySame
  <2>2. CASE Create(l)
    <3>1. RulesInv'
      BY <2>2, TypeInvRules, RulesInvSame DEF Create
    <3>2. QED
      BY <2>2, <3>1 DEF Create, TypeInv, TypeOK, RulesInv
  <2>3. QED
    BY <2>1, <2>2 DEF CreatorStep, CreatorFind, CreatorStart, CreatorNotify, CreatorFinish, CreatorDies
<1>5. task' = task /\ stuck' = stuck /\ UNCHANGED ackVars
    BY DEF Create, CreatorStep, CreatorFind, CreatorStart, CreatorNotify, CreatorFinish, CreatorDies
<1>6. failures' \in 0..MaxFailures
    BY ConstantsAssumption
    DEF TypeInv, TypeOK, Create, CreatorStep, CreatorFind, CreatorStart, CreatorNotify, CreatorFinish,
        CreatorDies, Fail
<1>7. pages' \in [Logs -> [Rounds \X Rules -> 0..2]]
  <2>1. CASE UNCHANGED pages
    BY <2>1 DEF TypeInv, TypeOK
  <2>2. CASE PageUsers(l, 1, firstRule[l])
    BY <2>2, PageOnce DEF TypeInv
  <2>3. QED
    BY <2>1, <2>2 DEF Create, CreatorStep, CreatorFind, CreatorStart, CreatorNotify, CreatorFinish, CreatorDies
<1>8. /\ repeatCount' \in [Logs -> {0} \cup Rounds] /\ lastOrder' \in [Logs -> Order]
      /\ nextIn' \in [Logs -> Minute] /\ waited' \in [Logs -> Minute] /\ age' \in [Logs -> Minute]
      /\ begun' \in [Logs -> SUBSET Rules]
  <2>1. CASE UNCHANGED logVars
    BY <2>1 DEF logVars, TypeInv, TypeOK
  <2>2. CASE Create(l)
    <3>1. 1 \in Rounds
      BY ConstantsAssumption DEF Rounds
    <3>2. QED
      BY <2>2, <3>1 DEF Create, TypeInv, TypeOK
  <2>3. CASE firstRule[l] \in live /\ RecordRule(l, firstRule[l], 1)
    <3>1. PICK x \in live : x = firstRule[l]
      BY <2>3
    <3>2. RecordRule(l, x, 1)
      BY <2>3, <3>1
    <3>3. QED
      BY <3>1, <3>2, RuleRecorded DEF TypeInv, TypeOK
  <2>4. QED
    BY <2>1, <2>2, <2>3 DEF CreatorStep, CreatorFind, CreatorStart, CreatorNotify, CreatorFinish, CreatorDies
<1>9. TypeOK'
    BY <1>1, <1>2, <1>3, <1>4, <1>5, <1>6, <1>7, <1>8 DEF TypeInv, TypeOK, ackVars
<1>10. RepeatFits'
    BY <1>5 DEF TypeInv, RepeatFits
<1>11. QED
    BY <1>4, <1>9, <1>10 DEF TypeInv

\* The stage a call of the cron job leaves, and what it is about to do next.
LEMMA TaskMoves ==
    ASSUME TypeInv, NEW r \in Runs, NEW l \in Logs, TaskStep(r, l) \/ TaskThrows(r, l)
    PROVE  \/ Finished(r, l)
           \/ \E stage \in TaskStage, round \in {0} \cup Rounds, order \in 0..(MaxOrder + 1),
                 rule \in {NoRule} \cup Rules :
                 /\ Moved(r, l, stage, round, order, rule)
                 /\ stage = "repeat" => round < RepeatTimes
<1> DEFINE t == task[r][l]
<1>0. TypeOK
    BY DEF TypeInv
<1>a. t \in Task
    BY <1>0 DEF TypeOK
<1>1. TypeOK /\ t \in Task
    BY <1>0, <1>a
<1>2. /\ t.order \in 0..(MaxOrder + 1) /\ t.round \in {0} \cup Rounds /\ t.rule \in {NoRule} \cup Rules
    BY <1>1 DEF Task
<1>3. /\ {"repeat", "first", "start", "notify", "complete", "fail"} \subseteq TaskStage
      /\ {0, 1} \subseteq 0..(MaxOrder + 1) /\ 0 \in {0} \cup Rounds /\ NoRule \in {NoRule} \cup Rules
    BY RulesAssumption DEF TaskStage
<1>4. \A x \in live : x \in Rules /\ orderOf[x] \in 0..(MaxOrder + 1)
  <2>1. \A x \in live : x \in Rules
    BY TypeInvRules, RulesFacts DEF RulesInv
  <2>2. \A x \in Rules : orderOf[x] \in Nat /\ orderOf[x] <= MaxOrder
    BY TypeInvRules, RulesFacts DEF RulesInv
  <2>3. QED
    BY <2>1, <2>2, RulesAssumption
<1> HIDE DEF t
<1>5. CASE TaskNext(r, l)
  <2>1. PICK x \in Found(t.order + 1) : GoTo(r, l, "start", t.round, t.order + 1, x)
    BY <1>5 DEF TaskNext, t
  <2>2. x \in Rules /\ t.order + 1 \in 0..(MaxOrder + 1)
    BY <1>4, <2>1 DEF Found
  <2>3. Moved(r, l, "start", t.round, t.order + 1, x)
    BY <1>1, <1>2, <1>3, <2>1, <2>2, MoveTask
  <2>4. QED
    BY <1>2, <1>3, <2>2, <2>3
<1>6. CASE TaskLast(r, l)
  <2>1. \/ GoTo(r, l, "repeat", t.round, 0, NoRule) /\ t.round < RepeatTimes
        \/ GoTo(r, l, "complete", t.round, 0, NoRule)
    BY <1>6 DEF TaskLast, RepeatsLeft, t
  <2>2. \/ Moved(r, l, "repeat", t.round, 0, NoRule) /\ t.round < RepeatTimes
        \/ Moved(r, l, "complete", t.round, 0, NoRule)
    BY <1>1, <1>2, <1>3, <2>1, MoveTask
  <2>3. QED
    BY <1>2, <1>3, <2>2
<1>7. CASE TaskRepeat(r, l)
  <2>1. GoTo(r, l, "first", t.round + 1, 0, NoRule) /\ t.round < RepeatTimes
    BY <1>7 DEF TaskRepeat, TypeInv, RepeatFits, t
  <2>2. t.round + 1 \in Rounds
    BY <1>2, <2>1, ConstantsAssumption DEF Rounds
  <2>3. Moved(r, l, "first", t.round + 1, 0, NoRule)
    BY <1>1, <1>3, <2>1, <2>2, MoveTask
  <2>4. QED
    BY <1>3, <2>2, <2>3
<1>8. CASE TaskFirst(r, l)
  <2>1. \/ \E x \in Found(1) : GoTo(r, l, "start", t.round, 1, x)
        \/ GoTo(r, l, "complete", t.round, 0, NoRule)
    BY <1>8 DEF TaskFirst, t
  <2>2. \A x \in Found(1) : x \in Rules
    BY <1>4 DEF Found
  <2>3. \/ \E x \in Rules : Moved(r, l, "start", t.round, 1, x)
        \/ Moved(r, l, "complete", t.round, 0, NoRule)
    BY <1>1, <1>2, <1>3, <2>1, <2>2, MoveTask
  <2>4. QED
    BY <1>2, <1>3, <2>3
<1>9. CASE TaskStart(r, l)
  <2>1. GoTo(r, l, "notify", t.round, 0, t.rule) \/ GoTo(r, l, "fail", 0, 0, NoRule)
    BY <1>9 DEF TaskStart, t
  <2>2. QED
    BY <1>1, <1>2, <1>3, <2>1, MoveTask
<1>10. CASE TaskNotify(r, l) \/ TaskThrows(r, l)
  <2>1. Finished(r, l) \/ GoTo(r, l, "fail", 0, 0, NoRule)
    BY <1>10 DEF TaskNotify, TaskThrows
  <2>2. QED
    BY <1>1, <1>3, <2>1, MoveTask
<1>11. CASE TaskNotDue(r, l) \/ TaskComplete(r, l) \/ TaskFail(r, l)
    BY <1>11 DEF TaskNotDue, TaskComplete, TaskFail
<1>12. QED
    BY <1>5, <1>6, <1>7, <1>8, <1>9, <1>10, <1>11 DEF TaskStep

LEMMA TypeInvTask ==
    ASSUME TypeInv, NEW r \in Runs, NEW l \in Logs, TaskStep(r, l) \/ TaskThrows(r, l)
    PROVE  TypeInv'
<1> DEFINE t == task[r][l]
<1>0. TypeOK
    BY DEF TypeInv
<1>a. t \in Task
    BY <1>0 DEF TypeOK
<1>1. TypeOK /\ t \in Task
    BY <1>0, <1>a
<1>2. t.round \in {0} \cup Rounds
    BY <1>1 DEF Task
<1> HIDE DEF t
<1>3. task' \in [Runs -> [Logs -> Task]] /\ RepeatFits'
  <2>1. CASE Finished(r, l)
    BY <1>1, <2>1, EndTask, NoTaskType DEF TypeInv, RepeatFits
  <2>2. CASE ~ Finished(r, l)
    <3>1. PICK stage \in TaskStage, round \in {0} \cup Rounds, order \in 0..(MaxOrder + 1),
              rule \in {NoRule} \cup Rules :
              /\ Moved(r, l, stage, round, order, rule)
              /\ stage = "repeat" => round < RepeatTimes
      BY <2>2, TaskMoves
    <3>2. QED
      BY <3>1 DEF Moved, TypeInv, RepeatFits
  <2>3. QED
    BY <2>1, <2>2
<1>4. /\ UNCHANGED policyVars /\ UNCHANGED ackVars /\ creator' = creator /\ firstRule' = firstRule
      /\ stuck' = stuck
    BY DEF TaskStep, TaskNotDue, TaskNext, TaskLast, TaskRepeat, TaskFirst, TaskComplete, TaskStart,
       TaskNotify, TaskFail, TaskThrows, TaskFrame
<1>5. RulesTypeOK' /\ EditFits' /\ shifted' \subseteq Logs /\ raised' \subseteq Logs
    BY <1>4, PolicySame
<1>6. status' \in [Logs -> Status]
    BY <1>1 DEF TypeOK, TaskStep, TaskNotDue, TaskNext, TaskLast, TaskRepeat, TaskFirst, TaskComplete,
       TaskStart, TaskNotify, TaskFail, TaskThrows, Status, Terminal
<1>7. failures' \in 0..MaxFailures
    BY <1>1, ConstantsAssumption
    DEF TypeOK, TaskStep, TaskNotDue, TaskNext, TaskLast, TaskRepeat, TaskFirst, TaskComplete,
        TaskStart, TaskNotify, TaskFail, TaskThrows, TaskFrame, Fail
<1>8. pages' \in [Logs -> [Rounds \X Rules -> 0..2]]
  <2>1. pages' = pages \/ PageUsers(l, t.round, t.rule)
    BY DEF TaskStep, TaskNotDue, TaskNext, TaskLast, TaskRepeat, TaskFirst, TaskComplete, TaskStart,
       TaskNotify, TaskFail, TaskThrows, t
  <2>2. QED
    BY <1>1, <2>1, PageOnce DEF TypeOK
<1>9. /\ repeatCount' \in [Logs -> {0} \cup Rounds] /\ lastOrder' \in [Logs -> Order]
      /\ nextIn' \in [Logs -> Minute] /\ waited' \in [Logs -> Minute] /\ age' \in [Logs -> Minute]
      /\ begun' \in [Logs -> SUBSET Rules]
  <2>1. CASE UNCHANGED logVars
    BY <1>1, <2>1 DEF logVars, TypeOK
  <2>2. CASE TaskRepeat(r, l)
    <3>1. t.round < RepeatTimes
      BY <2>2 DEF TaskRepeat, TypeInv, RepeatFits, t
    <3>2. t.round + 1 \in Rounds
      BY <1>2, <3>1, ConstantsAssumption DEF Rounds
    <3>3. repeatCount' = [repeatCount EXCEPT ![l] = t.round + 1]
      BY <2>2 DEF TaskRepeat, t
    <3>4. repeatCount' \in [Logs -> {0} \cup Rounds]
      BY <1>1, <3>2, <3>3 DEF TypeOK
    <3>5. QED
      BY <1>1, <2>2, <3>4 DEF TypeOK, TaskRepeat
  <2>3. CASE t.rule \in live /\ RecordRule(l, t.rule, t.order)
    <3>1. PICK x \in live : x = t.rule
      BY <2>3
    <3>2. RecordRule(l, x, t.order)
      BY <2>3, <3>1
    <3>3. QED
      BY <1>1, <3>1, <3>2, RuleRecorded DEF TypeOK
  <2>4. QED
    BY <2>1, <2>2, <2>3
    DEF TaskStep, TaskNotDue, TaskNext, TaskLast, TaskFirst, TaskComplete, TaskStart,
        TaskNotify, TaskFail, TaskThrows, t
<1>10. TypeOK'
    BY <1>1, <1>3, <1>4, <1>5, <1>6, <1>7, <1>8, <1>9 DEF TypeOK, ackVars
<1>11. QED
    BY <1>3, <1>5, <1>10 DEF TypeInv
LEMMA TypeInvOther ==
    ASSUME TypeInv,
           \/ \E l \in Logs : MarkStuck(l) \/ AckLog(l) \/ AckIncident(l) \/ DashboardAck(l)
           \/ \E r \in Runs : Snapshot(r) \/ WorkerCrash(r)
           \/ FindStuck \/ StuckAborts \/ EditPolicy \/ Tick
    PROVE  TypeInv'
<1>1. TypeOK /\ RepeatFits
    BY DEF TypeInv
<1>2. ASSUME UNCHANGED policyVars, TypeOK', task' = task PROVE TypeInv'
  <2>1. EditFits'
    BY <1>2, PolicySame
  <2>2. RepeatFits'
    BY <1>1, <1>2 DEF RepeatFits
  <2>3. QED
    BY <1>2, <2>1, <2>2 DEF TypeInv
<1>3. ASSUME UNCHANGED policyVars PROVE RulesTypeOK' /\ EditFits' /\ shifted' \subseteq Logs /\ raised' \subseteq Logs
    BY <1>3, PolicySame
<1>4. ASSUME NEW l \in Logs, MarkStuck(l) \/ AckLog(l) \/ AckIncident(l) \/ DashboardAck(l)
      PROVE  TypeInv'
  <2>1. UNCHANGED policyVars /\ task' = task
    BY <1>4 DEF MarkStuck, AckLog, AckIncident, DashboardAck
  <2>2. RulesTypeOK' /\ shifted' \subseteq Logs /\ raised' \subseteq Logs
    BY <1>3, <2>1
  <2>3. /\ status' \in [Logs -> Status] /\ stuck' \subseteq Logs /\ acking' \subseteq Logs
        /\ incident' \in [Logs -> {"open", "acknowledged"}]
    BY <1>1, <1>4
    DEF TypeOK, MarkStuck, AckLog, AckIncident, DashboardAck, Status, Terminal, ackVars
  <2>4. acked' \in [Logs -> BOOLEAN]
    BY <1>1, <1>4 DEF TypeOK, MarkStuck, AckLog, AckIncident, DashboardAck, ackVars
  <2>5. UNCHANGED <<logVars, creator, firstRule, pages, failures>>
    BY <1>4 DEF MarkStuck, AckLog, AckIncident, DashboardAck
  <2>6. TypeOK'
    BY <1>1, <2>1, <2>2, <2>3, <2>4, <2>5 DEF TypeOK, logVars
  <2>7. QED
    BY <1>2, <2>1, <2>6
<1>5. ASSUME NEW r \in Runs, Snapshot(r) \/ WorkerCrash(r) PROVE TypeInv'
  <2>1. /\ UNCHANGED policyVars
        /\ UNCHANGED <<status, logVars, ackVars, creator, firstRule, stuck, pages>>
    BY <1>5 DEF Snapshot, WorkerCrash
  <2>2. PICK row : task' = [task EXCEPT ![r] = row] /\ row \in [Logs -> Task]
                   /\ \A l \in Logs : row[l].stage \in {"idle", "check"}
    <3> DEFINE copy(l) == [stage |-> "check", order |-> lastOrder[l], rule |-> NoRule,
                           round |-> repeatCount[l], waited |-> waited[l], next |-> nextIn[l]]
               copies == [l \in Logs |-> IF Pending(l) THEN copy(l) ELSE NoTask]
               empty == [l \in Logs |-> NoTask]
    <3>1. ASSUME NEW l \in Logs PROVE copy(l) \in Task /\ copy(l).stage = "check"
      <4>1. /\ lastOrder[l] \in Order /\ repeatCount[l] \in {0} \cup Rounds
            /\ waited[l] \in Minute /\ nextIn[l] \in Minute
        BY <1>1 DEF TypeOK
      <4>2. lastOrder[l] \in 0..(MaxOrder + 1)
        BY <4>1, RulesAssumption DEF Order
      <4>3. QED
        BY <4>1, <4>2 DEF Task, TaskStage
    <3> HIDE DEF copy
    <3>2. copies \in [Logs -> Task] /\ \A l \in Logs : copies[l].stage \in {"idle", "check"}
      BY <3>1, NoTaskType
    <3>3. empty \in [Logs -> Task] /\ \A l \in Logs : empty[l].stage \in {"idle", "check"}
      BY NoTaskType
    <3>4. task' = [task EXCEPT ![r] = copies] \/ task' = [task EXCEPT ![r] = empty]
      BY <1>5 DEF Snapshot, WorkerCrash, copy
    <3> HIDE DEF copies, empty
    <3>5. QED
      BY <3>2, <3>3, <3>4
  <2>3. task' \in [Runs -> [Logs -> Task]] /\ RepeatFits'
    BY <1>1, <2>2 DEF TypeOK, RepeatFits
  <2>4. failures' \in 0..MaxFailures
    BY <1>1, <1>5, ConstantsAssumption DEF TypeOK, Snapshot, WorkerCrash, Fail
  <2>5. RulesTypeOK' /\ EditFits' /\ shifted' \subseteq Logs /\ raised' \subseteq Logs
    BY <1>3, <2>1
  <2>6. TypeOK'
    BY <1>1, <2>1, <2>3, <2>4, <2>5 DEF TypeOK, logVars, ackVars
  <2>7. QED
    BY <2>3, <2>5, <2>6 DEF TypeInv
<1>6. CASE FindStuck \/ StuckAborts
  <2>1. failures' \in 0..MaxFailures /\ stuck' \in SUBSET Logs
    BY <1>1, <1>6, ConstantsAssumption DEF TypeOK, FindStuck, StuckLogs, StuckAborts, Fail
  <2>2. /\ UNCHANGED policyVars /\ task' = task
        /\ UNCHANGED <<status, logVars, ackVars, creator, firstRule, pages>>
    BY <1>6 DEF FindStuck, StuckAborts
  <2>3. RulesTypeOK' /\ shifted' \subseteq Logs /\ raised' \subseteq Logs
    BY <1>3, <2>2
  <2>4. TypeOK'
    BY <1>1, <2>1, <2>2, <2>3 DEF TypeOK, logVars, ackVars
  <2>5. QED
    BY <1>2, <2>2, <2>4
<1>7. CASE EditPolicy
  <2>1. RulesNext /\ shifted' \subseteq Logs /\ raised' \subseteq Logs
    BY <1>1, <1>7 DEF EditPolicy, RulesNext, TypeOK
  <2>2. RulesInv'
    BY <2>1, TypeInvRules, RulesInvStep
  <2>3. /\ task' = task
        /\ UNCHANGED <<status, logVars, ackVars, creator, firstRule, stuck, pages, failures>>
    BY <1>7 DEF EditPolicy
  <2>4. TypeOK'
    BY <1>1, <2>1, <2>2, <2>3 DEF TypeOK, RulesInv, logVars, ackVars
  <2>5. RepeatFits'
    BY <1>1, <2>3 DEF RepeatFits
  <2>6. QED
    BY <2>2, <2>4, <2>5 DEF TypeInv, RulesInv
<1>8. CASE Tick
  <2>1. 0 \in Minute /\ \A minutes \in Minute : Older(minutes) \in Minute
    BY ConstantsAssumption DEF Older, Minute
  <2>2. waited' \in [Logs -> Minute] /\ age' \in [Logs -> Minute]
    BY <1>1, <1>8, <2>1 DEF TypeOK, Tick
  <2> DEFINE older(t) == [t EXCEPT !.waited = Older(@)]
  <2>3. \A t \in Task : older(t) \in Task /\ older(t).stage = t.stage /\ older(t).round = t.round
    BY <2>1 DEF Task
  <2>4. task' = [r \in Runs |-> [l \in Logs |->
                    IF task[r][l].stage = "check" THEN older(task[r][l]) ELSE task[r][l]]]
    BY <1>8 DEF Tick
  <2> HIDE DEF older
  <2>a. task \in [Runs -> [Logs -> Task]]
    BY <1>1 DEF TypeOK
  <2>5. task' \in [Runs -> [Logs -> Task]]
    BY <2>a, <2>3, <2>4
  <2>6. RepeatFits'
    BY <1>1, <2>a, <2>3, <2>4 DEF RepeatFits
  <2>7. UNCHANGED policyVars
        /\ UNCHANGED <<status, repeatCount, lastOrder, nextIn, begun, ackVars, creator, firstRule,
                       stuck, pages, failures>>
    BY <1>8 DEF Tick
  <2>8. RulesTypeOK' /\ EditFits' /\ shifted' \subseteq Logs /\ raised' \subseteq Logs
    BY <1>3, <2>7
  <2>9. TypeOK'
    BY <1>1, <2>2, <2>5, <2>7, <2>8 DEF TypeOK, ackVars
  <2>10. QED
    BY <2>6, <2>8, <2>9 DEF TypeInv
<1>9. QED
    BY <1>4, <1>5, <1>6, <1>7, <1>8

LEMMA TypeInvStep == TypeInv /\ [Next]_vars => TypeInv'
<1> SUFFICES ASSUME TypeInv, [Next]_vars PROVE TypeInv'
    OBVIOUS
<1>1. CASE UNCHANGED vars
  <2>1. UNCHANGED policyVars
    BY <1>1 DEF vars
  <2>2. RulesTypeOK' /\ EditFits' /\ shifted' \subseteq Logs /\ raised' \subseteq Logs
    BY <2>1, PolicySame
  <2>3. TypeOK' /\ RepeatFits'
    BY <1>1, <2>2 DEF TypeInv, TypeOK, RepeatFits, vars, logVars, ackVars
  <2>4. QED
    BY <2>2, <2>3 DEF TypeInv
<1>2. CASE Next
    BY <1>2, TypeInvCreator, TypeInvTask, TypeInvOther DEF Next
<1>3. QED
    BY <1>1, <1>2

LEMMA TypeInvInit == Init => TypeInv
<1> SUFFICES ASSUME Init PROVE TypeInv
    OBVIOUS
<1>1. RulesTypeOK /\ EditFits
    BY RulesInvInit DEF Init, RulesInv
<1>2. task \in [Runs -> [Logs -> Task]] /\ RepeatFits
    BY NoTaskType DEF Init, RepeatFits
<1>3. 0 \in Minute /\ 0 \in Order /\ 0 \in 0..MaxFailures
    BY ConstantsAssumption, RulesAssumption DEF Minute, Order
<1>4. TypeOK
    BY <1>1, <1>2, <1>3 DEF TypeOK, Init, Status, CreatorStage
<1>5. QED
    BY <1>1, <1>2, <1>4 DEF TypeInv

\* Every variable keeps its type: in particular no round beyond the configured
\* number is ever counted, and no edit gives a rule an order out of bounds.
THEOREM TypeCorrect == Spec => []TypeOK
<1>1. TypeInv => TypeOK
    BY DEF TypeInv
<1>2. QED
    BY <1>1, TypeInvInit, TypeInvStep, PTL DEF Spec

-----------------------------------------------------------------------------
(* A log that has ended is never revived, however many cron runs overlap.  *)

LEMMA QuietStep ==
    ASSUME TypeInv, Next, NEW l \in Logs, Quiet(l)
    PROVE  Quiet(l)' /\ pages'[l] = pages[l] /\ repeatCount'[l] = repeatCount[l]
<1>1. TypeOK /\ \A r \in Runs : task[r][l].stage = "idle"
    BY DEF TypeInv, Quiet
<1> DEFINE Same == /\ pages'[l] = pages[l] /\ repeatCount'[l] = repeatCount[l]
                   /\ creator'[l] = creator[l] /\ status'[l] \in Terminal
<1>2. ASSUME Same, task' = task PROVE Quiet(l)' /\ Same
    BY <1>1, <1>2 DEF Quiet
<1>3. ASSUME NEW m \in Logs, Create(m) \/ CreatorStep(m) \/ CreatorDies(m) \/ MarkStuck(m)
      PROVE  Same /\ task' = task
  <2>1. CASE CreatorNotify(m)
    <3>1. m # l
      BY <2>1 DEF CreatorNotify, Quiet
    <3>2. pages'[l] = pages[l]
      BY <1>1, <2>1, <3>1 DEF TypeOK, CreatorNotify, PageUsers
    <3>3. QED
      BY <1>1, <2>1, <3>1, <3>2 DEF TypeOK, CreatorNotify, CreatorEnds, Quiet, logVars
  <2>2. CASE Create(m) \/ CreatorFind(m) \/ CreatorFinish(m) \/ CreatorDies(m) \/ MarkStuck(m)
    BY <1>1, <2>2 DEF TypeOK, Create, CreatorFind, CreatorFinish, CreatorDies, CreatorEnds, MarkStuck,
       Quiet, Terminal, logVars
  <2>3. CASE CreatorStart(m)
    BY <1>1, <2>3 DEF TypeOK, CreatorStart, CreatorEnds, RecordRule, Quiet, logVars
  <2>4. QED
    BY <1>3, <2>1, <2>2, <2>3 DEF CreatorStep
<1>4. ASSUME NEW m \in Logs, AckLog(m) \/ AckIncident(m) \/ DashboardAck(m)
      PROVE  Same /\ task' = task
    BY <1>1, <1>4 DEF TypeOK, AckLog, AckIncident, DashboardAck, Quiet, Terminal, logVars
<1>5. CASE FindStuck \/ StuckAborts \/ EditPolicy
    BY <1>2, <1>5 DEF FindStuck, StuckAborts, EditPolicy, Quiet, logVars
<1>6. ASSUME NEW r \in Runs, Snapshot(r) \/ WorkerCrash(r)
      PROVE  Quiet(l)' /\ Same
  <2>1. PICK row : /\ task' = [task EXCEPT ![r] = row]
                   /\ row[l] = NoTask
    BY <1>6 DEF Snapshot, WorkerCrash, Pending, Quiet, Terminal
  <2>2. \A q \in Runs : task'[q][l].stage = "idle"
    BY <1>1, <2>1 DEF TypeOK, NoTask
  <2>3. QED
    BY <1>6, <2>2 DEF Snapshot, WorkerCrash, Quiet, logVars
<1>7. ASSUME NEW r \in Runs, NEW m \in Logs, TaskStep(r, m) \/ TaskThrows(r, m)
      PROVE  Quiet(l)' /\ Same
  <2>1. m # l
    BY <1>1, <1>7
    DEF TaskStep, TaskNotDue, TaskNext, TaskLast, TaskRepeat, TaskFirst, TaskComplete, TaskStart,
        TaskNotify, TaskFail, TaskThrows, Due
  <2>2. \A q \in Runs : task'[q][l] = task[q][l]
    <3>1. PICK t : task' = [task EXCEPT ![r][m] = t]
      BY <1>7
      DEF TaskStep, TaskNotDue, TaskNext, TaskLast, TaskRepeat, TaskFirst, TaskComplete, TaskStart,
          TaskNotify, TaskFail, TaskThrows, GoTo, Finished
    <3>2. QED
      BY <1>1, <2>1, <3>1 DEF TypeOK
  <2>3. status'[l] = status[l] /\ repeatCount'[l] = repeatCount[l]
    BY <1>1, <1>7, <2>1
    DEF TypeOK, TaskStep, TaskNotDue, TaskNext, TaskLast, TaskRepeat, TaskFirst, TaskComplete,
        TaskStart, TaskNotify, TaskFail, TaskThrows, RecordRule, logVars
  <2>4. pages'[l] = pages[l] /\ creator' = creator
    BY <1>1, <1>7, <2>1
    DEF TypeOK, TaskStep, TaskNotDue, TaskNext, TaskLast, TaskRepeat, TaskFirst, TaskComplete,
        TaskStart, TaskNotify, TaskFail, TaskThrows, PageUsers, TaskFrame
  <2>5. QED
    BY <1>1, <2>2, <2>3, <2>4 DEF Quiet
<1>8. CASE Tick
  <2>1. \A q \in Runs : task'[q][l] = task[q][l]
    BY <1>1, <1>8 DEF Tick
  <2>2. QED
    BY <1>1, <1>8, <2>1 DEF Tick, Quiet
<1>9. QED
    BY <1>2, <1>3, <1>4, <1>5, <1>6, <1>7, <1>8 DEF Next

\* Once a log has ended and no request or cron call is in flight for it, no
\* step pages anybody for it, counts another round or takes it out of its
\* terminal status, and no edit of the policy does.
THEOREM EndedForGood == Spec => EndedStaysEnded
<1>1. TypeInv /\ [Next]_vars =>
        [\A l \in Logs : Quiet(l) =>
            Quiet(l)' /\ pages'[l] = pages[l] /\ repeatCount'[l] = repeatCount[l]]_vars
    BY QuietStep
<1>2. QED
    BY <1>1, TypeInvInit, TypeInvStep, PTL DEF Spec, EndedStaysEnded

-----------------------------------------------------------------------------
(* Escalation while runs of the cron job do not overlap.  The inductive    *)
(* invariant has a part for every log, one for the logs that saw no rule   *)
(* given a higher order, and one for those that saw rules added at the end *)
(* of the policy only.                                                     *)

OneRun == \A q, r \in Runs : q = r

\* No rule has been paged in the round the log is in.
Fresh(l) == \A x \in Rules : pages[l][<<repeatCount[l], x>>] = 0

Unpaged(l) == \A p \in Rounds \X Rules : pages[l][p] = 0

CreatorInv(l) ==
    /\ creator[l] # "done" => status[l] # "Executing"
    /\ creator[l] = "none" <=> status[l] = "None"
    /\ l \in stuck \/ l \in raised => creator[l] # "none"
    /\ creator[l] # "none" => repeatCount[l] # 0
    /\ creator[l] \in {"none", "find", "start"} => lastOrder[l] = 0 /\ begun[l] = {} /\ Unpaged(l)
    /\ creator[l] = "notify" => begun[l] = {firstRule[l]} /\ Unpaged(l)
    /\ creator[l] \in {"find", "start", "notify"} => repeatCount[l] = 1

\* What has been recorded exists, and the future rounds are untouched.
RoundInv(l) ==
    /\ begun[l] \subseteq 1..created
    /\ \A n \in Rounds, x \in Rules : n > repeatCount[l] => pages[l][<<n, x>>] = 0

\* A call in flight agrees with the log it works on.
TaskInv(r, l) ==
    LET t == task[r][l] IN
    /\ t.stage # "idle" => creator[l] = "done"
    /\ t.stage \in {"check", "repeat", "first", "start", "notify"} => t.round = repeatCount[l]
    /\ t.stage = "check" => t.order = lastOrder[l] /\ t.waited = waited[l] /\ t.next = nextIn[l]
    /\ t.stage \in {"repeat", "first", "start"} => waited[l] >= nextIn[l]
    /\ t.stage = "first" => Fresh(l)

\* Rules no edit of which gives one of them a higher order: a deletion closes
\* its gap from below, a creation goes behind all others.
Unraised ==
    /\ Distinct
    /\ edit.kind \in {"none", "insert", "delete"}
    /\ edit.kind = "insert" => pending = {} /\ \A z \in live : orderOf[z] < edit.order
    /\ edit.kind = "delete" =>
          \A y \in pending : /\ orderOf[y] >= 2
                             /\ \A z \in live \ pending : orderOf[z] < orderOf[y] - 1

\* What is still unpaged in the round lies behind the last order recorded.
OnceInv(l) ==
    /\ \A p \in Rounds \X Rules : pages[l][p] <= 1
    /\ \A x \in Rules : pages[l][<<repeatCount[l], x>>] > 0 => x \in begun[l]
    /\ \A x \in begun[l] \cap live : orderOf[x] <= lastOrder[l]
    /\ lastOrder[l] = 0 => begun[l] = {}
    /\ creator[l] = "start" /\ firstRule[l] \in live => orderOf[firstRule[l]] # 0

OnceTaskInv(r, l) ==
    LET t == task[r][l] IN
    /\ t.stage = "start" =>
         /\ t.rule \in live => orderOf[t.rule] # 0
         /\ t.order = 1 => Fresh(l)
         /\ t.order # 1 =>
              /\ t.rule \notin begun[l]
              /\ t.rule \in live => \A y \in begun[l] \cap live : orderOf[y] < orderOf[t.rule]
    /\ t.stage = "notify" => t.rule \in begun[l] /\ pages[l][<<t.round, t.rule>>] = 0

\* Rules in sequence that are only added to at the end.
Unshifted ==
    /\ InSequence
    /\ edit.kind \in {"none", "insert"}
    /\ edit.kind = "insert" =>
          /\ pending = {}
          /\ \A z \in live : orderOf[z] < edit.order
          /\ edit.order = 1 \/ \E z \in live : orderOf[z] = edit.order - 1

\* The rules recorded are those up to the last order recorded.
OrderInv(l) ==
    /\ begun[l] = {x \in live : orderOf[x] <= lastOrder[l]}
    /\ lastOrder[l] = 0 \/ \E x \in begun[l] : orderOf[x] = lastOrder[l]
    /\ creator[l] = "start" => firstRule[l] \in live /\ orderOf[firstRule[l]] = 1
    /\ creator[l] = "notify" => firstRule[l] \in live

OrderTaskInv(r, l) ==
    LET t == task[r][l] IN
    /\ t.stage = "start" =>
         /\ t.rule \in live /\ orderOf[t.rule] = t.order
         /\ t.order = 1 \/ t.order = lastOrder[l] + 1
    /\ t.stage = "notify" => t.rule \in live

\* Every rule recorded has paged in the round the log is in, ...
RoundPaged(l) == \A x \in begun[l] : pages[l][<<repeatCount[l], x>>] > 0

\* ... unless a call is on its way from one rule to the next.
PagedInv(l) ==
    /\ creator[l] = "finish" => RoundPaged(l)
    /\ status[l] = "Executing" /\ (\A r \in Runs : task[r][l].stage = "idle") => RoundPaged(l)

PagedTaskInv(r, l) ==
    LET t == task[r][l] IN
    /\ t.stage \in {"check", "repeat"} \/ (t.stage = "start" /\ t.order # 1) => RoundPaged(l)
    /\ t.stage = "notify" => \A y \in begun[l] \ {t.rule} : pages[l][<<repeatCount[l], y>>] > 0

BasicInv(l) == CreatorInv(l) /\ RoundInv(l) /\ \A r \in Runs : TaskInv(r, l)

UnraisedInv(l) ==
    creator[l] # "none" /\ l \notin raised =>
        Unraised /\ OnceInv(l) /\ \A r \in Runs : OnceTaskInv(r, l)

UnshiftedInv(l) ==
    creator[l] # "none" /\ l \notin shifted =>
        /\ Unshifted /\ l \notin raised
        /\ OrderInv(l) /\ \A r \in Runs : OrderTaskInv(r, l)
        /\ failures = 0 => PagedInv(l) /\ \A r \in Runs : PagedTaskInv(r, l)

LogInv(l) == BasicInv(l) /\ UnraisedInv(l) /\ UnshiftedInv(l)

EscalationInv == TypeInv /\ \A l \in Logs : LogInv(l)

\* A step that leaves the components of a log and the rules alone keeps the
\* invariant of it.
Untouched(l) ==
    /\ ruleVars' = ruleVars /\ (failures' = 0 => failures = 0)
    /\ status'[l] = status[l] /\ creator'[l] = creator[l] /\ firstRule'[l] = firstRule[l]
    /\ repeatCount'[l] = repeatCount[l] /\ lastOrder'[l] = lastOrder[l] /\ begun'[l] = begun[l]
    /\ nextIn'[l] = nextIn[l] /\ waited'[l] = waited[l]
    /\ pages'[l] = pages[l] /\ (l \in stuck' => l \in stuck)
    /\ (l \notin shifted' => l \notin shifted) /\ (l \notin raised' <=> l \notin raised)

LEMMA UntouchedLog ==
    ASSUME NEW l \in Logs, LogInv(l), Untouched(l), \A r \in Runs : task'[r][l] = task[r][l]
    PROVE  LogInv(l)'
<1>1. BasicInv(l)'
    BY DEF LogInv, BasicInv, CreatorInv, RoundInv, TaskInv, Fresh, Unpaged, Untouched, ruleVars
<1>2. UnraisedInv(l)'
  <2>1. Unraised => Unraised'
    BY DEF Unraised, Distinct, Untouched, ruleVars
  <2>2. OnceInv(l) => OnceInv(l)'
    BY DEF OnceInv, Untouched, ruleVars
  <2>3. \A r \in Runs : OnceTaskInv(r, l) => OnceTaskInv(r, l)'
    BY DEF OnceTaskInv, Fresh, Untouched, ruleVars
  <2>4. creator'[l] = creator[l] /\ (l \notin raised' => l \notin raised)
    BY DEF Untouched
  <2>5. QED
    BY <2>1, <2>2, <2>3, <2>4 DEF LogInv, UnraisedInv
<1>3. UnshiftedInv(l)'
  <2>1. Unshifted => Unshifted'
    BY DEF Unshifted, InSequence, Distinct, Untouched, ruleVars
  <2>2. OrderInv(l) => OrderInv(l)'
    BY DEF OrderInv, Untouched, ruleVars
  <2>3. \A r \in Runs : OrderTaskInv(r, l) => OrderTaskInv(r, l)'
    BY DEF OrderTaskInv, Untouched, ruleVars
  <2>4. PagedInv(l) => PagedInv(l)'
    BY DEF PagedInv, RoundPaged, Untouched
  <2>5. \A r \in Runs : PagedTaskInv(r, l) => PagedTaskInv(r, l)'
    BY DEF PagedTaskInv, RoundPaged, Untouched
  <2>6. /\ creator'[l] = creator[l] /\ (failures' = 0 => failures = 0)
        /\ (l \notin shifted' => l \notin shifted) /\ (l \notin raised => l \notin raised')
    BY DEF Untouched
  <2>7. QED
    BY <2>1, <2>2, <2>3, <2>4, <2>5, <2>6 DEF LogInv, UnshiftedInv
<1>4. QED
    BY <1>1, <1>2, <1>3 DEF LogInv

\* One more failure is not none.
LEMMA FailsOnce == TypeOK /\ Fail => failures' # 0
    BY ConstantsAssumption DEF TypeOK, Fail

LEMMA OtherLog ==
    ASSUME TypeOK, NEW l \in Logs, NEW m \in Logs, m # l,
           \/ Create(m) \/ CreatorStep(m) \/ CreatorDies(m)
           \/ MarkStuck(m) \/ AckLog(m) \/ AckIncident(m) \/ DashboardAck(m)
           \/ \E r \in Runs : TaskStep(r, m) \/ TaskThrows(r, m)
    PROVE  Untouched(l) /\ \A r \in Runs : task'[r][l] = task[r][l]
<1>1. CASE Create(m)
    BY <1>1 DEF TypeOK, Create, Untouched
<1>2. CASE \/ CreatorFind(m) \/ CreatorFinish(m)
           \/ MarkStuck(m) \/ AckLog(m) \/ AckIncident(m) \/ DashboardAck(m)
    BY <1>2 DEF TypeOK, CreatorFind, CreatorFinish, CreatorEnds, MarkStuck, AckLog,
       AckIncident, DashboardAck, Untouched, logVars, policyVars
<1>3. CASE CreatorDies(m)
    BY <1>3, FailsOnce DEF TypeOK, CreatorDies, CreatorEnds, Untouched, logVars, policyVars
<1>4. CASE CreatorStart(m)
    BY <1>4 DEF TypeOK, CreatorStart, CreatorEnds, RecordRule, Untouched, logVars, policyVars
<1>5. CASE CreatorNotify(m)
    BY <1>5 DEF TypeOK, CreatorNotify, CreatorEnds, PageUsers, Untouched, logVars, policyVars
<1>6. ASSUME NEW r \in Runs, TaskStep(r, m) \/ TaskThrows(r, m)
      PROVE  Untouched(l) /\ \A q \in Runs : task'[q][l] = task[q][l]
  <2>1. PICK t : task' = [task EXCEPT ![r][m] = t]
    BY <1>6
    DEF TaskStep, TaskNotDue, TaskNext, TaskLast, TaskRepeat, TaskFirst, TaskComplete, TaskStart,
        TaskNotify, TaskFail, TaskThrows, GoTo, Finished
  <2>2. \A q \in Runs : task'[q][l] = task[q][l]
    BY <2>1 DEF TypeOK
  <2>3. /\ repeatCount'[l] = repeatCount[l] /\ begun'[l] = begun[l]
        /\ lastOrder'[l] = lastOrder[l] /\ nextIn'[l] = nextIn[l] /\ waited'[l] = waited[l]
    <3>1. CASE UNCHANGED logVars
      BY <3>1 DEF logVars
    <3>2. CASE TaskRepeat(r, m)
      BY <3>2 DEF TypeOK, TaskRepeat
    <3>3. CASE RecordRule(m, task[r][m].rule, task[r][m].order)
      BY <3>3 DEF TypeOK, RecordRule
    <3>4. QED
      BY <1>6, <3>1, <3>2, <3>3
      DEF TaskStep, TaskNotDue, TaskNext, TaskLast, TaskFirst, TaskComplete, TaskStart,
          TaskNotify, TaskFail, TaskThrows
  <2>4. status'[l] = status[l]
    BY <1>6
    DEF TypeOK, TaskStep, TaskNotDue, TaskNext, TaskLast, TaskRepeat, TaskFirst, TaskComplete, TaskStart,
        TaskNotify, TaskFail, TaskThrows
  <2>5. pages'[l] = pages[l]
    BY <1>6
    DEF TypeOK, TaskStep, TaskNotDue, TaskNext, TaskLast, TaskRepeat, TaskFirst, TaskComplete, TaskStart,
        TaskNotify, TaskFail, TaskThrows, PageUsers
  <2>6. creator' = creator /\ firstRule' = firstRule /\ stuck' = stuck /\ UNCHANGED policyVars
    BY <1>6
    DEF TaskStep, TaskNotDue, TaskNext, TaskLast, TaskRepeat, TaskFirst, TaskComplete, TaskStart,
        TaskNotify, TaskFail, TaskThrows, TaskFrame
  <2>7. failures' = 0 => failures = 0
    BY <1>6, FailsOnce
    DEF TaskStep, TaskNotDue, TaskNext, TaskLast, TaskRepeat, TaskFirst, TaskComplete, TaskStart,
        TaskNotify, TaskFail, TaskThrows, TaskFrame
  <2>8. QED
    BY <2>2, <2>3, <2>4, <2>5, <2>6, <2>7 DEF Untouched, policyVars
<1>7. QED
    BY <1>1, <1>2, <1>3, <1>4, <1>5, <1>6 DEF CreatorStep

\* Where no call is in flight there is nothing to be shown of one.
LEMMA NoCalls ==
    ASSUME NEW l \in Logs, \A r \in Runs : task'[r][l].stage = "idle"
    PROVE  \A r \in Runs : TaskInv(r, l)' /\ OnceTaskInv(r, l)' /\ OrderTaskInv(r, l)' /\ PagedTaskInv(r, l)'
    BY DEF TaskInv, OnceTaskInv, OrderTaskInv, PagedTaskInv

LEMMA CreateKeepsLogInv ==
    ASSUME TypeInv, NEW l \in Logs, LogInv(l), Create(l)
    PROVE  LogInv(l)'
<1>1. TypeOK /\ CreatorInv(l) /\ RoundInv(l) /\ 1 \in Rounds
    BY ConstantsAssumption DEF TypeInv, LogInv, BasicInv, Rounds
<1>2. /\ creator[l] = "none" /\ creator'[l] = "find" /\ status'[l] = "Scheduled" /\ repeatCount'[l] = 1
      /\ UNCHANGED <<ruleVars, lastOrder, begun, task, stuck, pages>>
    BY <1>1 DEF TypeOK, Create
<1>3. lastOrder[l] = 0 /\ begun[l] = {} /\ Unpaged(l) /\ l \notin raised
    BY <1>1, <1>2 DEF CreatorInv
<1>4. \A r \in Runs : task'[r][l].stage = "idle"
    BY <1>2 DEF LogInv, BasicInv, TaskInv
<1>5. CreatorInv(l)'
    BY <1>2, <1>3 DEF CreatorInv, Unpaged
<1>6. RoundInv(l)'
    BY <1>2, <1>3 DEF RoundInv, Unpaged
<1>7. /\ l \notin raised' => edit = NoEdit /\ Distinct
      /\ l \notin shifted' => edit = NoEdit /\ InSequence
      /\ edit = NoEdit /\ Distinct => raised' = raised
    BY DEF Create
<1>8. OnceInv(l)'
  <2>1. \A p \in Rounds \X Rules : pages'[l][p] = 0
    BY <1>2, <1>3 DEF Unpaged
  <2>2. \A x \in Rules : <<repeatCount'[l], x>> \in Rounds \X Rules
    BY <1>1, <1>2
  <2>3. QED
    BY <1>2, <1>3, <2>1, <2>2 DEF OnceInv, ruleVars
<1>9. UnraisedInv(l)'
    BY <1>2, <1>4, <1>7, <1>8, NoCalls DEF UnraisedInv, Unraised, Distinct, NoEdit, ruleVars
<1>10. (OrderInv(l)' /\ PagedInv(l)') \/ l \in shifted'
  <2>1. ASSUME l \notin shifted' PROVE \A x \in live : ~ (orderOf[x] <= lastOrder[l])
    <3>1. \A x \in live : orderOf[x] # 0 /\ orderOf[x] \in Nat
      BY <1>7, <2>1, TypeInvRules, RulesFacts DEF InSequence, RulesInv
    <3>2. QED
      BY <1>3, <3>1
  <2>2. QED
    BY <1>2, <1>3, <2>1 DEF OrderInv, PagedInv, ruleVars
<1>11. UnshiftedInv(l)'
    BY <1>2, <1>3, <1>4, <1>7, <1>10, NoCalls
    DEF UnshiftedInv, Unshifted, InSequence, Distinct, NoEdit, ruleVars
<1>12. QED
    BY <1>4, <1>5, <1>6, <1>9, <1>11, NoCalls DEF LogInv, BasicInv

LEMMA CreatorKeepsLogInv ==
    ASSUME TypeInv, NEW l \in Logs, LogInv(l), CreatorStep(l) \/ CreatorDies(l)
    PROVE  LogInv(l)'
<1>1. TypeOK /\ CreatorInv(l) /\ RoundInv(l) /\ 1 \in Rounds
    BY ConstantsAssumption DEF TypeInv, LogInv, BasicInv, Rounds
<1>2. /\ creator[l] \in {"find", "start", "notify", "finish"}
      /\ UNCHANGED policyVars /\ task' = task /\ stuck' = stuck /\ repeatCount' = repeatCount
    BY DEF CreatorStep, CreatorFind, CreatorStart, CreatorNotify, CreatorFinish, CreatorDies, RecordRule, logVars
<1>3. UNCHANGED <<created, live, orderOf, edit, pending, shifted, raised>>
    BY <1>2 DEF policyVars, ruleVars
<1>4. \A r \in Runs : task'[r][l].stage = "idle"
    BY <1>2 DEF LogInv, BasicInv, TaskInv
<1>5. Unraised => Unraised'
    BY <1>3 DEF Unraised, Distinct
<1>6. Unshifted => Unshifted'
    BY <1>3 DEF Unshifted, InSequence, Distinct
<1>7. l \notin raised => OnceInv(l) /\ Unraised
    BY <1>2 DEF LogInv, UnraisedInv
<1>8. /\ l \notin shifted => OrderInv(l) /\ Unshifted /\ l \notin raised
      /\ l \notin shifted /\ failures = 0 => PagedInv(l)
    BY <1>2 DEF LogInv, UnshiftedInv
<1>9. ASSUME CreatorInv(l)', RoundInv(l)',
             l \notin raised => OnceInv(l)',
             l \notin shifted => OrderInv(l)',
             l \notin shifted /\ failures' = 0 => PagedInv(l)'
      PROVE  LogInv(l)'
    BY <1>3, <1>4, <1>5, <1>6, <1>7, <1>8, <1>9, NoCalls DEF LogInv, BasicInv, UnraisedInv, UnshiftedInv
<1>10. CASE CreatorFind(l)
  <2>1. /\ UNCHANGED <<lastOrder, begun, pages, failures>> /\ creator[l] = "find"
        /\ \/ firstRule'[l] \in Found(1) /\ status'[l] = "Started" /\ creator'[l] = "start"
           \/ status'[l] = "Error" /\ creator'[l] = "done"
    BY <1>1, <1>10 DEF CreatorFind, TypeOK, logVars
  <2>2. CreatorInv(l)'
    BY <1>1, <1>2, <1>3, <2>1 DEF CreatorInv, Unpaged
  <2>3. RoundInv(l)'
    BY <1>1, <1>2, <1>3, <2>1 DEF RoundInv
  <2>4. l \notin raised => OnceInv(l)'
    BY <1>2, <1>3, <1>7, <2>1 DEF OnceInv, Found
  <2>5. l \notin shifted => OrderInv(l)'
    BY <1>2, <1>3, <1>8, <2>1 DEF OrderInv, Found
  <2>6. PagedInv(l)'
    BY <2>1 DEF PagedInv
  <2>7. QED
    BY <1>9, <2>2, <2>3, <2>4, <2>5, <2>6
<1>11. CASE CreatorStart(l) /\ firstRule[l] \in live
  <2>0. PICK x \in live : x = firstRule[l]
    BY <1>11
  <2>1. /\ UNCHANGED <<status, pages, failures>> /\ creator[l] = "start" /\ creator'[l] = "notify"
        /\ firstRule' = firstRule /\ RecordRule(l, x, 1)
    BY <1>1, <1>11, <2>0 DEF CreatorStart, TypeOK
  <2>2. lastOrder'[l] = orderOf[x] /\ begun'[l] = {x}
    BY <1>1, <2>1, RuleRecorded
  <2>3. x \in Rules /\ x \in 1..created /\ orderOf[x] \in Nat
    BY TypeInvRules, RulesFacts DEF RulesInv
  <2>4. Unpaged(l) /\ repeatCount[l] = 1 /\ lastOrder[l] = 0 /\ begun[l] = {}
    BY <1>1, <2>1 DEF CreatorInv
  <2>5. CreatorInv(l)'
    BY <1>1, <1>2, <1>3, <2>0, <2>1, <2>2, <2>4 DEF CreatorInv, Unpaged
  <2>6. RoundInv(l)'
    BY <1>1, <1>2, <1>3, <2>1, <2>2, <2>3 DEF RoundInv
  <2>7. l \notin raised => OnceInv(l)'
    <3>1. \A p \in Rounds \X Rules : pages'[l][p] = 0
      BY <2>1, <2>4 DEF Unpaged
    <3>2. \A y \in Rules : <<repeatCount'[l], y>> \in Rounds \X Rules
      BY <1>1, <1>2, <2>4
    <3>3. l \notin raised => orderOf[x] # 0
      BY <1>7, <2>0, <2>1 DEF OnceInv
    <3>4. QED
      BY <1>3, <2>1, <2>2, <2>3, <3>1, <3>2, <3>3 DEF OnceInv
  <2>8. l \notin shifted => OrderInv(l)'
    <3>1. ASSUME l \notin shifted PROVE orderOf[x] = 1 /\ \A y \in live : (orderOf[y] <= 1 => y = x)
      <4>1. orderOf[x] = 1 /\ InSequence
        BY <1>8, <2>0, <2>1, <3>1 DEF OrderInv, Unshifted
      <4>2. \A y \in live : orderOf[y] \in Nat /\ orderOf[y] # 0
        BY <4>1, TypeInvRules, RulesFacts DEF InSequence, RulesInv
      <4>3. \A y \in live : orderOf[y] = 1 => y = x
        BY <4>1 DEF InSequence, Distinct
      <4>4. QED
        BY <4>1, <4>2, <4>3
    <3>2. QED
      BY <1>3, <2>0, <2>1, <2>2, <3>1 DEF OrderInv
  <2>9. PagedInv(l)'
    BY <1>1, <2>1, <2>5 DEF PagedInv, CreatorInv
  <2>10. QED
    BY <1>9, <2>5, <2>6, <2>7, <2>8, <2>9
<1>12. CASE \/ CreatorStart(l) /\ firstRule[l] \notin live
            \/ CreatorNotify(l) /\ pages' = pages
            \/ CreatorDies(l)
  <2>1. /\ UNCHANGED <<lastOrder, begun, pages, status>> /\ creator'[l] = "dead"
    <3>1. CASE CreatorStart(l) /\ firstRule[l] \notin live
      BY <1>1, <3>1 DEF CreatorStart, CreatorEnds, TypeOK, logVars
    <3>2. CASE CreatorNotify(l) /\ pages' = pages
      <4>1. ~ PageUsers(l, 1, firstRule[l])
        <5>1. begun[l] = {firstRule[l]} /\ Unpaged(l)
          BY <1>1, <3>2 DEF CreatorNotify, CreatorInv
        <5>2. firstRule[l] \in Rules
          BY <1>1, <5>1 DEF TypeOK
        <5>3. pages[l][<<1, firstRule[l]>>] = 0
          BY <1>1, <5>1, <5>2 DEF Unpaged
        <5>4. QED
          BY <1>1, <3>2, <5>2, <5>3, PageOnce
      <4>2. QED
        BY <1>1, <3>2, <4>1 DEF CreatorNotify, CreatorEnds, TypeOK, logVars
    <3>3. CASE CreatorDies(l)
      BY <1>1, <3>3 DEF CreatorDies, CreatorEnds, TypeOK, logVars
    <3>4. QED
      BY <1>12, <3>1, <3>2, <3>3
  <2>2. CreatorInv(l)'
    BY <1>1, <1>2, <1>3, <2>1 DEF CreatorInv
  <2>3. RoundInv(l)'
    BY <1>1, <1>2, <1>3, <2>1 DEF RoundInv
  <2>4. l \notin raised => OnceInv(l)'
    BY <1>2, <1>3, <1>7, <2>1 DEF OnceInv
  <2>5. l \notin shifted => OrderInv(l)'
    BY <1>2, <1>3, <1>8, <2>1 DEF OrderInv
  <2>6. PagedInv(l)'
    BY <2>1, <2>2 DEF PagedInv, CreatorInv
  <2>7. QED
    BY <1>9, <2>2, <2>3, <2>4, <2>5, <2>6
<1>13. CASE CreatorNotify(l) /\ pages' # pages
  <2>0. PICK x : x = firstRule[l]
    OBVIOUS
  <2>1. /\ UNCHANGED <<lastOrder, begun, status, failures>> /\ creator'[l] = "finish"
        /\ PageUsers(l, 1, x) /\ creator[l] = "notify"
    BY <1>1, <1>13, <2>0 DEF CreatorNotify, CreatorEnds, TypeOK, logVars
  <2>2. begun[l] = {x} /\ Unpaged(l) /\ repeatCount[l] = 1 /\ x \in Rules
    BY <1>1, <2>0, <2>1 DEF CreatorInv, TypeOK
  <2>3. \A p \in Rounds \X Rules : IF p = <<1, x>> THEN pages'[l][p] = 1 ELSE pages'[l][p] = 0
    BY <1>1, <2>1, <2>2, PageOnce DEF Unpaged
  <2>4. CreatorInv(l)'
    BY <1>1, <1>2, <1>3, <2>1 DEF CreatorInv
  <2>5. RoundInv(l)'
    <3>1. ASSUME NEW n \in Rounds, NEW y \in Rules, n > 1 PROVE pages'[l][<<n, y>>] = 0
      <4>1. <<n, y>> \in Rounds \X Rules /\ <<n, y>> # <<1, x>>
        BY <3>1
      <4>2. QED
        BY <2>3, <4>1
    <3>2. QED
      BY <1>1, <1>2, <1>3, <2>1, <2>2, <3>1 DEF RoundInv
  <2>6. l \notin raised => OnceInv(l)'
    <3>1. \A p \in Rounds \X Rules : pages'[l][p] <= 1
      BY <2>3
    <3>2. ASSUME NEW y \in Rules, y # x PROVE ~ (pages'[l][<<1, y>>] > 0)
      <4>1. <<1, y>> \in Rounds \X Rules /\ <<1, y>> # <<1, x>>
        BY <1>1, <3>2
      <4>2. QED
        BY <2>3, <4>1
    <3>3. QED
      BY <1>2, <1>3, <1>7, <2>1, <2>2, <3>1, <3>2 DEF OnceInv
  <2>7. l \notin shifted => OrderInv(l)'
    BY <1>2, <1>3, <1>8, <2>1 DEF OrderInv
  <2>8. PagedInv(l)'
    <3>1. pages'[l][<<1, x>>] = 1
      BY <1>1, <2>2, <2>3
    <3>2. RoundPaged(l)'
      BY <1>2, <2>1, <2>2, <3>1 DEF RoundPaged
    <3>3. QED
      BY <3>2 DEF PagedInv
  <2>9. QED
    BY <1>9, <2>4, <2>5, <2>6, <2>7, <2>8
<1>14. CASE CreatorFinish(l)
  <2>1. /\ UNCHANGED <<lastOrder, begun, pages, failures>> /\ creator[l] = "finish" /\ creator'[l] = "done"
        /\ status'[l] = "Executing"
    BY <1>1, <1>14 DEF CreatorFinish, CreatorEnds, TypeOK, logVars
  <2>2. CreatorInv(l)'
    BY <1>1, <1>2, <1>3, <2>1 DEF CreatorInv
  <2>3. RoundInv(l)'
    BY <1>1, <1>2, <1>3, <2>1 DEF RoundInv
  <2>4. l \notin raised => OnceInv(l)'
    BY <1>2, <1>3, <1>7, <2>1 DEF OnceInv
  <2>5. l \notin shifted => OrderInv(l)'
    BY <1>2, <1>3, <1>8, <2>1 DEF OrderInv
  <2>6. l \notin shifted /\ failures' = 0 => PagedInv(l)'
    BY <1>2, <1>8, <2>1 DEF PagedInv, RoundPaged
  <2>7. QED
    BY <1>9, <2>2, <2>3, <2>4, <2>5, <2>6
<1>15. QED
    BY <1>10, <1>11, <1>12, <1>13, <1>14 DEF CreatorStep

LEMMA WritersKeepLogInv ==
    ASSUME TypeInv, NEW l \in Logs, LogInv(l),
           \/ MarkStuck(l) \/ AckLog(l) \/ AckIncident(l) \/ DashboardAck(l)
           \/ FindStuck \/ StuckAborts
    PROVE  LogInv(l)'
<1>1. TypeOK /\ CreatorInv(l) /\ RoundInv(l)
    BY DEF TypeInv, LogInv, BasicInv
<1>2. /\ UNCHANGED policyVars /\ task' = task /\ creator' = creator /\ firstRule' = firstRule
      /\ UNCHANGED logVars /\ pages' = pages
    BY DEF MarkStuck, AckLog, AckIncident, DashboardAck, FindStuck, StuckAborts
<1>3. UNCHANGED <<created, live, orderOf, edit, pending, shifted, raised,
                  repeatCount, lastOrder, begun, nextIn, waited>>
    BY <1>2 DEF policyVars, ruleVars, logVars
<1>4. l \in stuck' => creator[l] # "none"
    BY <1>1 DEF MarkStuck, AckLog, AckIncident, DashboardAck, FindStuck, StuckLogs, StuckAborts, CreatorInv
<1>5. /\ status'[l] = status[l] \/ status'[l] \in Terminal
      /\ creator[l] = "none" <=> status'[l] = "None"
    BY <1>1
    DEF TypeOK, MarkStuck, AckLog, AckIncident, DashboardAck, FindStuck, StuckAborts, CreatorInv,
        Paged, Unpaged, Terminal
<1>6. failures' = 0 => failures = 0
    BY <1>1, FailsOnce DEF MarkStuck, AckLog, AckIncident, DashboardAck, FindStuck, StuckAborts
<1>7. CreatorInv(l)'
    BY <1>1, <1>2, <1>3, <1>4, <1>5 DEF CreatorInv, Unpaged, Terminal
<1>8. RoundInv(l)' /\ \A r \in Runs : TaskInv(r, l)'
    BY <1>2, <1>3 DEF LogInv, BasicInv, RoundInv, TaskInv, Fresh
<1>9. UnraisedInv(l)'
    BY <1>2, <1>3 DEF LogInv, UnraisedInv, Unraised, Distinct, OnceInv, OnceTaskInv, Fresh
<1>10. UnshiftedInv(l)'
  <2>1. (Unshifted => Unshifted') /\ (OrderInv(l) => OrderInv(l)')
    BY <1>2, <1>3 DEF Unshifted, InSequence, Distinct, OrderInv
  <2>2. PagedInv(l) => PagedInv(l)'
    BY <1>2, <1>3, <1>5 DEF PagedInv, RoundPaged, Terminal
  <2>3. \A r \in Runs : /\ (OrderTaskInv(r, l) => OrderTaskInv(r, l)')
                       /\ (PagedTaskInv(r, l) => PagedTaskInv(r, l)')
    BY <1>2, <1>3 DEF OrderTaskInv, PagedTaskInv, RoundPaged
  <2>4. /\ creator'[l] = creator[l]
        /\ (l \notin shifted' => l \notin shifted) /\ (l \notin raised => l \notin raised')
    BY <1>2, <1>3
  <2>5. QED
    BY <1>6, <2>1, <2>2, <2>3, <2>4 DEF LogInv, UnshiftedInv
<1>11. QED
    BY <1>7, <1>8, <1>9, <1>10 DEF LogInv, BasicInv

LEMMA RunKeepsLogInv ==
    ASSUME TypeInv, OneRun, NEW l \in Logs, LogInv(l),
           \E r \in Runs : Snapshot(r) \/ WorkerCrash(r)
    PROVE  LogInv(l)'
<1>1. TypeOK /\ CreatorInv(l) /\ RoundInv(l)
    BY DEF TypeInv, LogInv, BasicInv
<1>2. PICK r \in Runs : Snapshot(r) \/ WorkerCrash(r)
    OBVIOUS
<1>3. /\ UNCHANGED policyVars /\ creator' = creator /\ firstRule' = firstRule /\ status' = status
      /\ UNCHANGED logVars /\ pages' = pages /\ stuck' = stuck
    BY <1>2 DEF Snapshot, WorkerCrash
<1>4. UNCHANGED <<created, live, orderOf, edit, pending, shifted, raised,
                  repeatCount, lastOrder, begun, nextIn, waited>>
    BY <1>3 DEF policyVars, ruleVars, logVars
<1>5. CreatorInv(l)' /\ RoundInv(l)'
    BY <1>1, <1>3, <1>4 DEF CreatorInv, RoundInv, Unpaged
<1>6. (Unraised => Unraised') /\ (OnceInv(l) => OnceInv(l)')
    BY <1>3, <1>4 DEF Unraised, Distinct, OnceInv
<1>7. (Unshifted => Unshifted') /\ (OrderInv(l) => OrderInv(l)')
    BY <1>3, <1>4 DEF Unshifted, InSequence, Distinct, OrderInv
<1>8. CASE task'[r][l] = NoTask
  <2>1. \A q \in Runs : task'[q][l].stage = "idle"
    BY <1>8 DEF OneRun, NoTask
  <2>2. PagedInv(l) => PagedInv(l)' \/ failures' # 0
    <3>1. CASE WorkerCrash(r)
      BY <1>1, <3>1, FailsOnce DEF WorkerCrash
    <3>2. CASE Snapshot(r)
      <4>1. \A q \in Runs : task[q][l].stage = "idle"
        BY <3>2 DEF OneRun, Snapshot
      <4>2. QED
        BY <1>3, <1>4, <4>1 DEF PagedInv, RoundPaged
    <3>3. QED
      BY <1>2, <3>1, <3>2
  <2>3. failures' = 0 => failures = 0
    BY <1>1, <1>2, FailsOnce DEF Snapshot, WorkerCrash
  <2>4. UnraisedInv(l)'
    BY <1>3, <1>4, <1>6, <2>1, NoCalls DEF LogInv, UnraisedInv
  <2>5. UnshiftedInv(l)'
    BY <1>3, <1>4, <1>7, <2>1, <2>2, <2>3, NoCalls DEF LogInv, UnshiftedInv
  <2>6. QED
    BY <1>5, <2>1, <2>4, <2>5, NoCalls DEF LogInv, BasicInv
<1>9. CASE task'[r][l] # NoTask
  <2>1. /\ Snapshot(r) /\ status[l] = "Executing"
        /\ task'[r][l] = [stage |-> "check", order |-> lastOrder[l], rule |-> NoRule,
                          round |-> repeatCount[l], waited |-> waited[l], next |-> nextIn[l]]
    BY <1>1, <1>2, <1>9 DEF TypeOK, Snapshot, WorkerCrash, Pending
  <2>2. \A q \in Runs : task[q][l].stage = "idle"
    BY <2>1 DEF OneRun, Snapshot
  <2>3. failures' = failures
    BY <2>1 DEF Snapshot
  <2>4. \A q \in Runs : TaskInv(q, l)' /\ OnceTaskInv(q, l)' /\ OrderTaskInv(q, l)'
    BY <1>1, <1>3, <1>4, <2>1 DEF OneRun, TaskInv, OnceTaskInv, OrderTaskInv, CreatorInv
  <2>5. PagedInv(l) => RoundPaged(l)
    BY <2>1, <2>2 DEF PagedInv
  <2>6. RoundPaged(l) => RoundPaged(l)'
    BY <1>3, <1>4 DEF RoundPaged
  <2>7. RoundPaged(l)' => PagedInv(l)' /\ \A q \in Runs : PagedTaskInv(q, l)'
    BY <2>1 DEF OneRun, PagedInv, PagedTaskInv
  <2>8. UnraisedInv(l)'
    BY <1>3, <1>4, <1>6, <2>4 DEF LogInv, UnraisedInv
  <2>9. UnshiftedInv(l)'
    BY <1>3, <1>4, <1>7, <2>3, <2>4, <2>5, <2>6, <2>7 DEF LogInv, UnshiftedInv
  <2>10. QED
    BY <1>5, <2>4, <2>8, <2>9 DEF LogInv, BasicInv
<1>10. QED
    BY <1>8, <1>9

LEMMA TickKeepsLogInv ==
    ASSUME TypeInv, NEW l \in Logs, LogInv(l), Tick
    PROVE  LogInv(l)'
<1>1. TypeOK /\ CreatorInv(l) /\ RoundInv(l)
    BY DEF TypeInv, LogInv, BasicInv
<1>2. /\ UNCHANGED policyVars /\ creator' = creator /\ firstRule' = firstRule /\ status' = status
      /\ pages' = pages /\ stuck' = stuck /\ failures' = failures
      /\ UNCHANGED <<repeatCount, lastOrder, begun, nextIn>>
    BY DEF Tick
<1>3. UNCHANGED <<created, live, orderOf, edit, pending, shifted, raised>>
    BY <1>2 DEF policyVars, ruleVars
<1>4. ASSUME NEW r \in Runs
      PROVE  /\ task'[r][l].stage = task[r][l].stage /\ task'[r][l].order = task[r][l].order
             /\ task'[r][l].round = task[r][l].round /\ task'[r][l].next = task[r][l].next
             /\ task'[r][l].rule = task[r][l].rule
             /\ task[r][l].stage = "check" => task'[r][l].waited = Older(task[r][l].waited)
  <2>1. task[r][l] \in Task
    BY <1>1 DEF TypeOK
  <2>2. task'[r][l] = IF task[r][l].stage = "check"
                      THEN [task[r][l] EXCEPT !.waited = Older(@)] ELSE task[r][l]
    BY DEF Tick
  <2>3. QED
    BY <2>1, <2>2 DEF Task
<1>5. CreatorInv(l)' /\ RoundInv(l)'
    BY <1>1, <1>2, <1>3 DEF CreatorInv, RoundInv, Unpaged
<1>6. ASSUME NEW r \in Runs PROVE TaskInv(r, l)'
  <2>1. task[r][l].stage # "idle" =>
           waited'[l] = Older(waited[l]) /\ (waited[l] >= nextIn[l] => waited'[l] >= nextIn[l])
    <3>1. task[r][l].stage # "idle" => status[l] # "None"
      BY <1>1 DEF LogInv, BasicInv, TaskInv, CreatorInv
    <3>2. waited[l] \in Minute /\ nextIn[l] \in Minute
      BY <1>1 DEF TypeOK
    <3>3. QED
      BY <3>1, <3>2, ConstantsAssumption DEF Tick, Older, Minute
  <2>2. Fresh(l)' = Fresh(l)
    BY <1>2 DEF Fresh
  <2>3. TaskInv(r, l)
    BY DEF LogInv, BasicInv
  <2>4. QED
    BY <1>2, <1>4, <2>1, <2>2, <2>3 DEF TaskInv
<1>7. UnraisedInv(l)'
  <2>1. (Unraised => Unraised') /\ (OnceInv(l) => OnceInv(l)')
    BY <1>2, <1>3 DEF Unraised, Distinct, OnceInv
  <2>2. \A r \in Runs : OnceTaskInv(r, l) => OnceTaskInv(r, l)'
    BY <1>2, <1>3, <1>4 DEF OnceTaskInv, Fresh
  <2>3. QED
    BY <1>2, <1>3, <2>1, <2>2 DEF LogInv, UnraisedInv
<1>8. UnshiftedInv(l)'
  <2>1. (Unshifted => Unshifted') /\ (OrderInv(l) => OrderInv(l)')
    BY <1>2, <1>3 DEF Unshifted, InSequence, Distinct, OrderInv
  <2>2. PagedInv(l) => PagedInv(l)'
    BY <1>2, <1>3, <1>4 DEF PagedInv, RoundPaged
  <2>3. \A r \in Runs : /\ (OrderTaskInv(r, l) => OrderTaskInv(r, l)')
                       /\ (PagedTaskInv(r, l) => PagedTaskInv(r, l)')
    BY <1>2, <1>3, <1>4 DEF OrderTaskInv, PagedTaskInv, RoundPaged
  <2>4. /\ creator'[l] = creator[l] /\ (failures' = 0 => failures = 0)
        /\ (l \notin shifted' => l \notin shifted) /\ (l \notin raised => l \notin raised')
    BY <1>2, <1>3
  <2>5. QED
    BY <2>1, <2>2, <2>3, <2>4 DEF LogInv, UnshiftedInv
<1>9. QED
    BY <1>5, <1>6, <1>7, <1>8 DEF LogInv, BasicInv

-----------------------------------------------------------------------------
(* What an edit does to the order of the rules.                            *)

\* No rule is given a higher order, and of two rules the one behind stays
\* behind; a new rule is behind all others.
LowersInOrder ==
    /\ created <= created' /\ live' \cap (1..created) \subseteq live
    /\ \A x \in live' : (x \in live => orderOf[x] # 0) => orderOf'[x] # 0
    /\ \A x \in live \cap live' : orderOf'[x] <= orderOf[x]
    /\ \A x, y \in live' : (y \in live /\ (x \in live => orderOf[y] < orderOf[x])) => orderOf'[y] < orderOf'[x]

LEMMA LoweringBegins ==
    ASSUME RulesInv, Unraised,
           \/ \E at \in Order : Insert(at) /\ Behind(at) = {}
           \/ \E x \in Rules : Delete(x)
    PROVE  Unraised' /\ LowersInOrder
<1>1. /\ live \subseteq Rules /\ created \in Nat /\ live \subseteq 1..created /\ MaxOrder \in Nat
      /\ orderOf \in [Rules -> Order]
    BY RulesFacts, RulesAssumption DEF RulesInv
<1>2. \A y \in live : orderOf[y] \in Nat
    BY RulesFacts DEF RulesInv
<1>3. ASSUME NEW at \in Order, Insert(at), Behind(at) = {} PROVE Unraised' /\ LowersInOrder
  <2>1. /\ edit'.kind = "insert" /\ edit'.order = at /\ pending' = {}
        /\ UNCHANGED <<created, live, orderOf>>
    BY <1>3 DEF Insert, Begin
  <2>2. \A z \in live : orderOf[z] < at
    BY <1>1, <1>2, <1>3 DEF Behind, Order
  <2>3. Unraised'
    BY <2>1, <2>2 DEF Unraised, Distinct
  <2>4. LowersInOrder
    BY <1>1, <1>2, <2>1 DEF LowersInOrder
  <2>5. QED
    BY <2>3, <2>4
<1>4. ASSUME NEW x \in Rules, Delete(x) PROVE Unraised' /\ LowersInOrder
  <2>1. /\ edit'.kind = "delete" /\ live' = live \ {x} /\ created' = created /\ x \in live
        /\ pending' = IF orderOf[x] = 0 THEN {} ELSE Behind(orderOf[x]) \ {x}
    BY <1>4 DEF Delete, Begin
  <2>2. \A y \in live' : orderOf'[y] = orderOf[y]
    BY <1>1, <1>4, <2>1 DEF Delete
  <2>3. Distinct'
    BY <2>1, <2>2 DEF Unraised, Distinct
  <2>4. ASSUME NEW y \in pending' PROVE orderOf'[y] >= 2 /\ \A z \in live' \ pending' : orderOf'[z] < orderOf'[y] - 1
    <3>1. y \in live' /\ y # x /\ orderOf[y] >= orderOf[x] /\ orderOf[x] # 0
      BY <2>1 DEF Behind
    <3>2. orderOf[y] # orderOf[x]
      BY <2>1, <3>1 DEF Unraised, Distinct
    <3>3. \A z \in live' \ pending' : orderOf[z] < orderOf[x]
      BY <1>2, <2>1, <3>1 DEF Behind
    <3>4. orderOf[y] \in Nat /\ orderOf[x] \in Nat /\ \A z \in live' : orderOf[z] \in Nat
      BY <1>2, <2>1, <3>1
    <3>5. QED
      BY <2>2, <3>1, <3>2, <3>3, <3>4
  <2>5. Unraised'
    BY <2>1, <2>3, <2>4 DEF Unraised
  <2>6. LowersInOrder
    BY <1>1, <1>2, <2>1, <2>2 DEF LowersInOrder
  <2>7. QED
    BY <2>5, <2>6
<1>5. QED
    BY <1>3, <1>4

LEMMA LoweringGoesOn ==
    ASSUME RulesInv, Unraised, EditStep
    PROVE  Unraised' /\ LowersInOrder
<1>1. /\ live \subseteq Rules /\ created \in Nat /\ live \subseteq 1..created /\ pending \subseteq live
      /\ orderOf \in [Rules -> Order] /\ edit.rule \in {0} \cup Rules /\ edit.order \in Nat
    BY RulesFacts DEF RulesInv
<1>2. \A y \in live : orderOf[y] \in Nat
    BY RulesFacts DEF RulesInv
<1>3. ASSUME NEW y \in Rules, Renumber(y) PROVE Unraised' /\ LowersInOrder
  <2>1. y \in pending /\ pending' = pending \ {y} /\ UNCHANGED <<created, live, edit>> /\ edit.kind = "delete"
    BY <1>3 DEF Renumber, Unraised, RulesInv, EditFits
  <2>2. /\ orderOf'[y] = orderOf[y] - 1
        /\ \A z \in live : z # y => orderOf'[z] = orderOf[z]
        /\ \A z \in pending : orderOf[y] <= orderOf[z]
    BY <1>1, <1>3, <2>1 DEF Renumber, Raising
  <2>3. \A z \in live \ pending : orderOf[z] < orderOf[y] - 1
    BY <2>1 DEF Unraised
  <2>4. \A z \in pending : z # y => orderOf[y] < orderOf[z]
    <3>1. \A z \in pending : z # y => orderOf[y] # orderOf[z] /\ orderOf[z] \in Nat
      BY <1>1, <1>2, <2>1 DEF Unraised, Distinct
    <3>2. QED
      BY <1>1, <1>2, <2>1, <2>2, <3>1
  <2>5. orderOf[y] >= 2 /\ orderOf[y] \in Nat /\ y \in live
    BY <1>1, <1>2, <2>1 DEF Unraised
  <2>6. \A z \in live : z # y => (orderOf'[z] # orderOf'[y]) /\ (orderOf[z] < orderOf[y] <=> orderOf'[z] < orderOf'[y])
    BY <1>1, <1>2, <2>2, <2>3, <2>4, <2>5
  <2>7. Distinct'
    BY <2>1, <2>2, <2>6 DEF Unraised, Distinct
  <2>8. ASSUME NEW w \in pending'
        PROVE  orderOf'[w] >= 2 /\ \A z \in live \ pending' : orderOf'[z] < orderOf'[w] - 1
    <3>1. w \in pending /\ w # y /\ w \in live /\ orderOf'[w] = orderOf[w] /\ orderOf[w] \in Nat
      BY <1>1, <1>2, <2>1, <2>2
    <3>2. orderOf[w] >= 2 /\ \A z \in live \ pending : orderOf[z] < orderOf[w] - 1
      BY <2>1, <3>1 DEF Unraised
    <3>3. orderOf'[y] < orderOf'[w] - 1
      BY <2>2, <2>4, <2>5, <3>1
    <3>4. QED
      BY <1>2, <2>1, <2>2, <3>1, <3>2, <3>3
  <2>9. Unraised'
    BY <2>1, <2>7, <2>8 DEF Unraised
  <2>10. \A x, z \in live : orderOf[z] < orderOf[x] => orderOf'[z] < orderOf'[x]
    <3>1. TAKE x, z \in live
    <3>2. CASE x # y /\ z # y
      BY <2>2, <3>2
    <3>3. CASE x = y
      BY <1>2, <2>2, <2>5, <2>6, <3>3
    <3>4. CASE z = y
      BY <1>2, <2>2, <2>5, <3>4
    <3>5. QED
      BY <3>2, <3>3, <3>4
  <2>11. \A x \in live : orderOf'[x] <= orderOf[x] /\ (orderOf[x] # 0 => orderOf'[x] # 0)
    BY <1>2, <2>2, <2>5
  <2>12. LowersInOrder
    BY <1>1, <2>1, <2>10, <2>11 DEF LowersInOrder
  <2>13. QED
    BY <2>9, <2>12
<1>4. CASE Finish
  <2>1. edit'.kind = "none"
    BY <1>4 DEF Finish, NoEdit
  <2>2. CASE edit.kind = "insert"
    <3>1. /\ live' = live \cup {edit.rule} /\ orderOf' = [orderOf EXCEPT ![edit.rule] = edit.order]
          /\ created' = edit.rule /\ edit.rule = created + 1 /\ edit.order # 0
      BY <1>4, <2>2 DEF Finish, RulesInv, EditFits
    <3>2. edit.rule \in Rules /\ edit.rule \notin live /\ created <= created' /\ edit.rule \notin 1..created
      BY <1>1, <3>1
    <3>3. \A z \in live : orderOf'[z] = orderOf[z] /\ orderOf[z] < edit.order
      BY <1>1, <2>2, <3>1, <3>2 DEF Unraised
    <3>4. orderOf'[edit.rule] = edit.order
      BY <1>1, <3>1, <3>2
    <3>5. Distinct'
      BY <1>1, <1>2, <3>1, <3>3, <3>4 DEF Unraised, Distinct
    <3>6. Unraised'
      BY <2>1, <3>5 DEF Unraised
    <3>7. LowersInOrder
      BY <1>1, <1>2, <3>1, <3>2, <3>3, <3>4 DEF LowersInOrder
    <3>8. QED
      BY <3>6, <3>7
  <2>3. CASE edit.kind # "insert"
    <3>1. UNCHANGED <<created, live, orderOf>>
      BY <1>4, <2>3 DEF Finish, Unraised
    <3>2. QED
      BY <1>1, <1>2, <2>1, <3>1 DEF Unraised, Distinct, LowersInOrder
  <2>4. QED
    BY <2>2, <2>3
<1>5. CASE CutShort
  <2>1. edit'.kind = "none" /\ UNCHANGED <<created, live, orderOf>>
    BY <1>5 DEF CutShort, NoEdit
  <2>2. QED
    BY <1>1, <1>2, <2>1 DEF Unraised, Distinct, LowersInOrder
<1>6. QED
    BY <1>3, <1>4, <1>5 DEF EditStep

\* The others keep their orders, and a new rule is one behind the last.
Appended ==
    /\ live \subseteq live' /\ \A x \in live : orderOf'[x] = orderOf[x]
    /\ \A x \in live' \ live : orderOf'[x] # 0 /\ orderOf'[x] \in Nat /\ \A z \in live : orderOf[z] < orderOf'[x]

LEMMA AppendKeepsSequence ==
    ASSUME RulesInv, Unshifted,
           (\E at \in Order : Insert(at) /\ Appends(at)) \/ EditStep
    PROVE  Unshifted' /\ Appended
<1>1. /\ live \subseteq Rules /\ created \in Nat /\ live \subseteq 1..created /\ MaxOrder \in Nat
      /\ orderOf \in [Rules -> Order] /\ edit.rule \in {0} \cup Rules /\ edit.order \in Nat
    BY RulesFacts, RulesAssumption DEF RulesInv
<1>2. \A y \in live : orderOf[y] \in Nat
    BY RulesFacts DEF RulesInv
<1>3. ASSUME NEW at \in Order, Insert(at), Appends(at) PROVE Unshifted' /\ Appended
  <2>1. /\ edit'.kind = "insert" /\ edit'.order = at /\ pending' = {}
        /\ UNCHANGED <<live, orderOf>>
    BY <1>3 DEF Insert, Begin, Appends
  <2>2. /\ \A z \in live : orderOf[z] < at
        /\ at = 1 \/ \E z \in live : orderOf[z] = at - 1
    <3>1. at \in Nat
      BY <1>1 DEF Order
    <3>2. \A z \in live : orderOf[z] < at
      BY <1>2, <1>3, <3>1 DEF Appends, Behind
    <3>3. at = 1 \/ \E z \in live : orderOf[z] = at - 1
      BY <1>3 DEF Appends, Found
    <3>4. QED
      BY <3>2, <3>3
  <2>3. QED
    BY <2>1, <2>2 DEF Unshifted, InSequence, Distinct, Appended
<1>4. ASSUME NEW y \in Rules, Renumber(y) PROVE FALSE
    BY <1>4 DEF Renumber, Unshifted, RulesInv, EditFits
<1>5. CASE Finish
  <2>1. /\ live' = live \cup {edit.rule} /\ orderOf' = [orderOf EXCEPT ![edit.rule] = edit.order]
        /\ edit.rule = created + 1 /\ edit.order # 0 /\ edit'.kind = "none" /\ edit.kind = "insert"
    BY <1>5 DEF Finish, Unshifted, RulesInv, EditFits, NoEdit
  <2>2. edit.rule \in Rules /\ edit.rule \notin live
    BY <1>1, <2>1
  <2>3. \A z \in live : orderOf'[z] = orderOf[z] /\ orderOf[z] < edit.order
    BY <1>1, <2>1, <2>2 DEF Unshifted
  <2>4. orderOf'[edit.rule] = edit.order
    BY <1>1, <2>1, <2>2
  <2>5. Appended
    BY <1>1, <2>1, <2>2, <2>3, <2>4 DEF Appended
  <2>6. Distinct'
    BY <1>1, <1>2, <2>1, <2>3, <2>4 DEF Unshifted, InSequence, Distinct
  <2>7. ASSUME NEW k \in 1..(edit.order - 1) PROVE \E z \in live : orderOf[z] = k
    <3>1. PICK z \in live : orderOf[z] = edit.order - 1
      BY <1>1, <2>1, <2>7 DEF Unshifted
    <3>2. CASE k = edit.order - 1
      BY <3>1, <3>2
    <3>3. CASE k # edit.order - 1
      <4>1. k \in 1..(orderOf[z] - 1)
        BY <1>1, <2>7, <3>1, <3>3
      <4>2. QED
        BY <4>1 DEF Unshifted, InSequence
    <3>4. QED
      BY <3>2, <3>3
  <2>8. ASSUME NEW x \in live'
        PROVE  orderOf'[x] # 0 /\ \A k \in 1..(orderOf'[x] - 1) : \E z \in live' : orderOf'[z] = k
    <3>1. CASE x = edit.rule
      BY <2>1, <2>3, <2>4, <2>7, <3>1
    <3>2. CASE x \in live
      <4>1. orderOf'[x] = orderOf[x]
        BY <2>3, <3>2
      <4>2. orderOf[x] # 0 /\ \A k \in 1..(orderOf[x] - 1) : \E z \in live : orderOf[z] = k
        BY <3>2 DEF Unshifted, InSequence
      <4>3. QED
        BY <2>1, <2>3, <4>1, <4>2
    <3>3. QED
      BY <2>1, <3>1, <3>2
  <2>9. QED
    BY <2>1, <2>5, <2>6, <2>8 DEF Unshifted, InSequence
<1>6. CASE CutShort
    BY <1>6 DEF CutShort, NoEdit, Unshifted, InSequence, Distinct, Appended
<1>7. QED
    BY <1>3, <1>4, <1>5, <1>6 DEF EditStep

LEMMA EditKeepsLogInv ==
    ASSUME TypeInv, NEW l \in Logs, LogInv(l), EditPolicy
    PROVE  LogInv(l)'
<1>1. TypeOK /\ RulesInv /\ CreatorInv(l) /\ RoundInv(l)
    BY TypeInvRules DEF TypeInv, LogInv, BasicInv
<1>2. /\ UNCHANGED <<status, creator, firstRule, task, stuck, pages, failures>>
      /\ UNCHANGED <<repeatCount, lastOrder, nextIn, waited, begun>>
    BY DEF EditPolicy, logVars
<1>3. /\ created \in Nat /\ begun[l] \subseteq 1..created
      /\ \A x \in Rules : orderOf[x] \in Nat
      /\ live \subseteq Rules /\ live \subseteq 1..created
    BY <1>1, RulesFacts DEF RulesInv, RoundInv
<1>a. lastOrder[l] \in Nat
    BY <1>1, RulesAssumption DEF TypeOK, Order
<1>4. created' = created \/ created' = created + 1
  <2>1. created' = created \/ (edit.kind = "insert" /\ created' = edit.rule)
    BY DEF EditPolicy, Insert, Delete, Move, MoveUp, MoveDown, EditStep, Renumber, Finish, CutShort
  <2>2. edit.kind = "insert" => edit.rule = created + 1
    BY <1>1 DEF RulesInv, EditFits
  <2>3. QED
    BY <1>3, <2>1, <2>2
<1>5. l \in raised' => l \in raised \/ creator[l] # "none"
    BY DEF EditPolicy
<1>6. CreatorInv(l)'
    BY <1>1, <1>2, <1>5 DEF CreatorInv, Unpaged
<1>7. RoundInv(l)'
  <2>1. begun[l] \subseteq 1..created'
    BY <1>3, <1>4
  <2>2. QED
    BY <1>1, <1>2, <2>1 DEF RoundInv
<1>8. \A r \in Runs : TaskInv(r, l)'
    BY <1>2 DEF LogInv, BasicInv, TaskInv, Fresh
<1>9. UnraisedInv(l)'
  <2> SUFFICES ASSUME creator[l] # "none", l \notin raised'
               PROVE  Unraised' /\ OnceInv(l)' /\ \A r \in Runs : OnceTaskInv(r, l)'
    BY <1>2 DEF UnraisedInv
  <2>1. /\ l \notin raised
        /\ \/ \E at \in Order : Insert(at) /\ Behind(at) = {}
           \/ \E x \in Rules : Delete(x)
           \/ EditStep
    BY DEF EditPolicy
  <2>2. Unraised /\ OnceInv(l) /\ \A r \in Runs : OnceTaskInv(r, l)
    BY <2>1 DEF LogInv, UnraisedInv
  <2>3. Unraised' /\ LowersInOrder
    BY <1>1, <2>1, <2>2, LoweringBegins, LoweringGoesOn
  <2>4. \A x \in begun[l] \cap live' : x \in live
    BY <1>3, <2>3 DEF LowersInOrder
  <2>5. OnceInv(l)'
    <3>1. ASSUME NEW x \in begun[l] \cap live' PROVE orderOf'[x] <= lastOrder[l]
      <4>1. orderOf'[x] <= orderOf[x] /\ orderOf[x] <= lastOrder[l] /\ orderOf[x] \in Nat
        BY <1>3, <2>2, <2>3, <2>4 DEF LowersInOrder, OnceInv
      <4>2. orderOf'[x] \in Nat
        <5>1. RulesTypeOK'
          BY TypeInvStep DEF TypeInv, TypeOK, Next
        <5>2. orderOf' \in [Rules -> Order] /\ x \in Rules
          BY <1>3, <2>4, <5>1 DEF RulesTypeOK
        <5>3. QED
          BY <5>2, RulesAssumption DEF Order
      <4>3. QED
        BY <1>a, <4>1, <4>2
    <3>2. creator[l] = "start" /\ firstRule[l] \in live' => orderOf'[firstRule[l]] # 0
      BY <2>2, <2>3 DEF LowersInOrder, OnceInv
    <3>3. QED
      BY <1>2, <2>2, <3>1, <3>2 DEF OnceInv
  <2>6. ASSUME NEW r \in Runs PROVE OnceTaskInv(r, l)'
    <3> DEFINE t == task[r][l]
    <3>1. task'[r][l] = t /\ begun'[l] = begun[l] /\ Fresh(l)' = Fresh(l) /\ pages' = pages
      BY <1>2 DEF Fresh
    <3>2. OnceTaskInv(r, l)
      BY <2>2
    <3> HIDE DEF t
    <3>3. ASSUME t.stage = "start" PROVE t.rule \in live' => orderOf'[t.rule] # 0
      BY <2>3, <3>2, <3>3 DEF LowersInOrder, OnceTaskInv, t
    <3>4. ASSUME t.stage = "start", t.order # 1, t.rule \in live', NEW y \in begun[l] \cap live'
          PROVE  orderOf'[y] < orderOf'[t.rule]
      <4>1. y \in live /\ (t.rule \in live => orderOf[y] < orderOf[t.rule])
        BY <2>4, <3>2, <3>4 DEF OnceTaskInv, t
      <4>2. QED
        BY <2>3, <3>4, <4>1 DEF LowersInOrder
    <3>5. QED
      BY <3>1, <3>2, <3>3, <3>4 DEF OnceTaskInv, t
  <2>7. QED
    BY <2>3, <2>5, <2>6
<1>10. UnshiftedInv(l)'
  <2> SUFFICES ASSUME creator[l] # "none", l \notin shifted'
               PROVE  /\ Unshifted' /\ l \notin raised'
                      /\ OrderInv(l)' /\ \A r \in Runs : OrderTaskInv(r, l)'
                      /\ failures' = 0 => PagedInv(l)' /\ \A r \in Runs : PagedTaskInv(r, l)'
    BY <1>2 DEF UnshiftedInv
  <2>1. /\ l \notin shifted
        /\ \/ \E at \in Order : Insert(at) /\ Appends(at) /\ raised' = raised
           \/ EditStep /\ raised' = raised
    BY DEF EditPolicy, Appends
  <2>2. /\ Unshifted /\ l \notin raised
        /\ OrderInv(l) /\ \A r \in Runs : OrderTaskInv(r, l)
    BY <2>1 DEF LogInv, UnshiftedInv
  <2>3. failures = 0 => PagedInv(l) /\ \A r \in Runs : PagedTaskInv(r, l)
    BY <2>1 DEF LogInv, UnshiftedInv
  <2>4. Unshifted' /\ Appended
    BY <1>1, <2>1, <2>2, AppendKeepsSequence
  <2>5. OrderInv(l)'
    <3>1. ASSUME NEW x \in live' \ live PROVE ~ (orderOf'[x] <= lastOrder[l])
      <4>1. orderOf'[x] # 0 /\ orderOf'[x] \in Nat /\ \A z \in live : orderOf[z] < orderOf'[x]
        BY <2>4 DEF Appended
      <4>2. lastOrder[l] < orderOf'[x]
        <5>1. CASE lastOrder[l] = 0
          BY <4>1, <5>1
        <5>2. CASE \E y \in begun[l] : orderOf[y] = lastOrder[l]
          BY <2>2, <4>1, <5>2 DEF OrderInv
        <5>3. QED
          BY <2>2, <5>1, <5>2 DEF OrderInv
      <4>3. QED
        BY <1>a, <4>1, <4>2
    <3>2. \A x \in live : x \in live' /\ orderOf'[x] = orderOf[x]
      BY <2>4 DEF Appended
    <3>3. QED
      BY <1>2, <2>2, <3>1, <3>2 DEF OrderInv
  <2>6. \A r \in Runs : OrderTaskInv(r, l)'
    BY <1>2, <2>2, <2>4 DEF OrderTaskInv, Appended
  <2>7. failures' = 0 => PagedInv(l)' /\ \A r \in Runs : PagedTaskInv(r, l)'
    BY <1>2, <2>3 DEF PagedInv, PagedTaskInv, RoundPaged
  <2>8. QED
    BY <2>1, <2>2, <2>4, <2>5, <2>6, <2>7
<1>11. QED
    BY <1>6, <1>7, <1>8, <1>9, <1>10 DEF LogInv, BasicInv

-----------------------------------------------------------------------------
(* The calls of the cron job.                                              *)

\* The invariant of a log after a step of its only call.
TaskParts(r, l) ==
    /\ RoundInv(l) /\ TaskInv(r, l)
    /\ l \notin raised => OnceInv(l) /\ OnceTaskInv(r, l)
    /\ l \notin shifted => OrderInv(l) /\ OrderTaskInv(r, l)
    /\ l \notin shifted /\ failures = 0 => PagedInv(l) /\ PagedTaskInv(r, l)

\* What holds of a log on which a call is in flight.
LEMMA TaskFacts ==
    ASSUME TypeInv, NEW r \in Runs, NEW l \in Logs, LogInv(l), task[r][l].stage # "idle"
    PROVE  /\ TypeOK /\ creator[l] = "done" /\ TaskParts(r, l)
           /\ l \notin shifted => l \notin raised /\ InSequence
           /\ repeatCount[l] \in Rounds /\ repeatCount[l] \in Nat /\ lastOrder[l] \in Nat
           /\ live \subseteq Rules /\ live \subseteq 1..created /\ begun[l] \subseteq Rules
           /\ \A x \in Rules : orderOf[x] \in Nat
           /\ \A p \in Rounds \X Rules : pages[l][p] \in 0..2
           /\ task[r][l] \in Task
<1>1. TypeOK /\ RulesInv /\ creator[l] = "done" /\ CreatorInv(l)
    BY TypeInvRules DEF TypeInv, LogInv, BasicInv, TaskInv
<1>2. TaskParts(r, l)
    BY <1>1 DEF LogInv, BasicInv, UnraisedInv, UnshiftedInv, TaskParts
<1>3. l \notin shifted => l \notin raised /\ InSequence
    BY <1>1 DEF LogInv, UnshiftedInv, Unshifted
<1>4. repeatCount[l] \in Rounds /\ repeatCount[l] \in Nat
    BY <1>1, ConstantsAssumption DEF TypeOK, CreatorInv, Rounds
<1>5. lastOrder[l] \in Nat
    BY <1>1, RulesAssumption DEF TypeOK, Order
<1>6. live \subseteq Rules /\ live \subseteq 1..created /\ \A x \in Rules : orderOf[x] \in Nat
    BY <1>1, RulesFacts DEF RulesInv
<1>7. begun[l] \subseteq Rules
    BY <1>1 DEF TypeOK
<1>8. \A p \in Rounds \X Rules : pages[l][p] \in 0..2
    BY <1>1 DEF TypeOK
<1>9. task[r][l] \in Task
    BY <1>1 DEF TypeOK
<1>10. QED
    BY <1>1, <1>2, <1>3, <1>4, <1>5, <1>6, <1>7, <1>8, <1>9

LEMMA TaskPartsSuffice ==
    ASSUME TypeInv, OneRun, NEW r \in Runs, NEW l \in Logs, LogInv(l), task[r][l].stage # "idle",
           TaskStep(r, l) \/ TaskThrows(r, l), TaskParts(r, l)'
    PROVE  LogInv(l)'
<1>1. TypeOK /\ creator[l] = "done" /\ CreatorInv(l)
    BY TaskFacts DEF LogInv, BasicInv
<1>2. UNCHANGED policyVars /\ creator' = creator /\ stuck' = stuck
    BY DEF TaskStep, TaskNotDue, TaskNext, TaskLast, TaskRepeat, TaskFirst, TaskComplete, TaskStart, TaskNotify,
       TaskFail, TaskThrows, TaskFrame
<1>3. UNCHANGED <<created, live, orderOf, edit, pending, shifted, raised>>
    BY <1>2 DEF policyVars, ruleVars
<1>4. status'[l] # "None"
    BY <1>1
    DEF TypeOK, CreatorInv, TaskStep, TaskNotDue, TaskNext, TaskLast, TaskRepeat, TaskFirst, TaskComplete,
        TaskStart, TaskNotify, TaskFail, TaskThrows
<1>5. repeatCount'[l] # 0
  <2>1. CASE TaskRepeat(r, l)
    <3>1. task[r][l].round \in {0} \cup Rounds
      BY <1>1 DEF TypeOK, Task
    <3>2. task[r][l].round \in Nat
      BY <3>1, ConstantsAssumption DEF Rounds
    <3>3. repeatCount'[l] = task[r][l].round + 1
      BY <1>1, <2>1 DEF TaskRepeat, TypeOK
    <3>4. QED
      BY <3>2, <3>3
  <2>2. CASE repeatCount' = repeatCount
    BY <1>1, <2>2 DEF CreatorInv
  <2>3. QED
    BY <2>1, <2>2
    DEF TaskStep, TaskNotDue, TaskNext, TaskLast, TaskFirst, TaskComplete,
        TaskStart, TaskNotify, TaskFail, TaskThrows, RecordRule, logVars
<1>6. CreatorInv(l)'
    BY <1>1, <1>2, <1>3, <1>4, <1>5 DEF CreatorInv
<1>7. BasicInv(l)'
    BY <1>6 DEF BasicInv, OneRun, TaskParts
<1>8. Unraised => Unraised'
    BY <1>3 DEF Unraised, Distinct
<1>9. Unshifted => Unshifted'
    BY <1>3 DEF Unshifted, InSequence, Distinct
<1>10. UnraisedInv(l)'
  <2>1. l \notin raised => Unraised
    BY <1>1 DEF LogInv, UnraisedInv
  <2>2. QED
    BY <1>3, <1>8, <2>1 DEF UnraisedInv, OneRun, TaskParts
<1>11. UnshiftedInv(l)'
  <2>1. l \notin shifted => Unshifted /\ l \notin raised
    BY <1>1 DEF LogInv, UnshiftedInv
  <2>2. QED
    BY <1>3, <1>9, <2>1 DEF UnshiftedInv, OneRun, TaskParts
<1>12. QED
    BY <1>7, <1>10, <1>11 DEF LogInv

\* Nothing of the log and the rules changes but its status.
SameLog(l) ==
    /\ UNCHANGED <<created, live, orderOf, shifted, raised, creator, firstRule>>
    /\ repeatCount'[l] = repeatCount[l] /\ lastOrder'[l] = lastOrder[l] /\ begun'[l] = begun[l]
    /\ nextIn'[l] = nextIn[l] /\ waited'[l] = waited[l] /\ pages'[l] = pages[l]

LEMMA SameLogParts ==
    ASSUME NEW l \in Logs, SameLog(l)
    PROVE  /\ RoundInv(l) => RoundInv(l)'
           /\ OnceInv(l) => OnceInv(l)'
           /\ OrderInv(l) => OrderInv(l)'
           /\ RoundPaged(l) => RoundPaged(l)'
           /\ Fresh(l) => Fresh(l)'
    BY DEF SameLog, RoundInv, OnceInv, OrderInv, RoundPaged, Fresh

\* A call that ends, or is about to write Error.
LEMMA EndingKeepsLogInv ==
    ASSUME TypeInv, OneRun, NEW r \in Runs, NEW l \in Logs, LogInv(l),
           TaskStep(r, l) \/ TaskThrows(r, l), task[r][l].stage # "idle", SameLog(l),
           \/ Finished(r, l) /\ (status'[l] # "Executing" \/ failures' # 0 \/ TaskNotDue(r, l))
           \/ GoTo(r, l, "fail", 0, 0, NoRule)
    PROVE  LogInv(l)'
<1>1. TypeOK /\ creator[l] = "done" /\ TaskParts(r, l) /\ task[r][l] \in Task
    BY TaskFacts
<1>2. /\ Finished(r, l) => task'[r][l].stage = "idle"
      /\ GoTo(r, l, "fail", 0, 0, NoRule) => task'[r][l].stage = "fail"
  <2>1. ASSUME Finished(r, l) PROVE task'[r][l].stage = "idle"
    BY <1>1, <2>1, EndTask, NoTaskType
  <2>2. ASSUME GoTo(r, l, "fail", 0, 0, NoRule) PROVE task'[r][l].stage = "fail"
    <3>1. "fail" \in TaskStage /\ 0 \in {0} \cup Rounds /\ 0 \in 0..(MaxOrder + 1) /\ NoRule \in {NoRule} \cup Rules
      BY RulesAssumption DEF TaskStage
    <3>2. Moved(r, l, "fail", 0, 0, NoRule)
      BY <1>1, <2>2, <3>1, MoveTask
    <3>3. QED
      BY <3>2 DEF Moved
  <2>3. QED
    BY <2>1, <2>2
<1>3. TaskInv(r, l)' /\ OnceTaskInv(r, l)' /\ OrderTaskInv(r, l)' /\ PagedTaskInv(r, l)'
    BY <1>1, <1>2 DEF TaskInv, OnceTaskInv, OrderTaskInv, PagedTaskInv, SameLog
<1>4. ASSUME l \notin shifted, failures' = 0 PROVE PagedInv(l)'
  <2>1. CASE TaskNotDue(r, l)
    <3>1. failures = 0 /\ task[r][l].stage = "check"
      BY <1>4, <2>1 DEF TaskNotDue, TaskFrame
    <3>2. RoundPaged(l)
      BY <1>1, <1>4, <3>1 DEF TaskParts, PagedTaskInv
    <3>3. QED
      BY <3>2, SameLogParts DEF PagedInv
  <2>2. CASE status'[l] # "Executing" \/ task'[r][l].stage = "fail"
    BY <1>1, <2>2 DEF PagedInv, SameLog
  <2>3. QED
    BY <1>2, <1>4, <2>1, <2>2
<1>5. TaskParts(r, l)'
    BY <1>1, <1>3, <1>4, SameLogParts DEF TaskParts, SameLog
<1>6. QED
    BY <1>5, TaskPartsSuffice

LEMMA CheckKeepsLogInv ==
    ASSUME TypeInv, OneRun, NEW r \in Runs, NEW l \in Logs, LogInv(l), TaskNext(r, l) \/ TaskLast(r, l)
    PROVE  LogInv(l)'
<1> DEFINE t == task[r][l]
<1>1. /\ SameLog(l) /\ failures' = failures /\ t.stage = "check" /\ t.waited >= t.next
      /\ TaskStep(r, l)
    BY DEF TaskNext, TaskLast, Due, TaskFrame, policyVars, ruleVars, logVars, SameLog, TaskStep
<1>2. /\ TypeOK /\ creator[l] = "done" /\ TaskParts(r, l) /\ t \in Task
      /\ live \subseteq Rules /\ lastOrder[l] \in Nat /\ repeatCount[l] \in Rounds
      /\ l \notin shifted => l \notin raised
      /\ \A p \in Rounds \X Rules : pages[l][p] \in 0..2
    BY <1>1, TaskFacts
<1>3. /\ t.round = repeatCount[l] /\ t.order = lastOrder[l] /\ waited[l] >= nextIn[l]
    BY <1>1, <1>2 DEF TaskParts, TaskInv
<1>4. l \notin shifted /\ failures = 0 => RoundPaged(l)
    BY <1>1, <1>2 DEF TaskParts, PagedTaskInv
<1>5. t.round \in {0} \cup Rounds /\ t.order \in 0..(MaxOrder + 1)
    BY <1>2 DEF Task
<1> HIDE DEF t
<1>6. ASSUME TaskInv(r, l)', l \notin raised => OnceTaskInv(r, l)', l \notin shifted => OrderTaskInv(r, l)',
             task'[r][l].stage \in {"start", "repeat", "complete"}
      PROVE  LogInv(l)'
  <2>1. l \notin shifted /\ failures = 0 => PagedInv(l)' /\ PagedTaskInv(r, l)'
    BY <1>1, <1>2, <1>4, <1>6, SameLogParts DEF PagedInv, PagedTaskInv, SameLog
  <2>2. TaskParts(r, l)'
    BY <1>1, <1>2, <1>6, <2>1, SameLogParts DEF TaskParts, SameLog
  <2>3. QED
    BY <1>1, <2>2, TaskPartsSuffice DEF t
<1>7. CASE TaskNext(r, l)
  <2>1. PICK x \in live : orderOf[x] = t.order + 1 /\ GoTo(r, l, "start", t.round, t.order + 1, x)
    BY <1>7 DEF TaskNext, Found, t
  <2>2. t.order + 1 \in 0..(MaxOrder + 1) /\ x \in Rules /\ "start" \in TaskStage
    <3>1. orderOf[x] \in Order /\ x \in Rules
      BY <1>2, <2>1 DEF TypeOK, RulesTypeOK
    <3>2. t.order \in Nat
      BY <1>5, RulesAssumption
    <3>3. QED
      BY <2>1, <3>1, <3>2, RulesAssumption DEF Order, TaskStage
  <2>3. Moved(r, l, "start", t.round, t.order + 1, x)
    BY <1>2, <1>5, <2>1, <2>2, MoveTask
  <2>4. /\ task'[r][l].stage = "start" /\ task'[r][l].round = repeatCount[l]
        /\ task'[r][l].order = lastOrder[l] + 1 /\ task'[r][l].rule = x
        /\ orderOf[x] = lastOrder[l] + 1
    BY <1>3, <2>1, <2>3 DEF Moved
  <2>5. TaskInv(r, l)'
    BY <1>1, <1>2, <1>3, <2>4 DEF TaskInv, SameLog
  <2>6. ASSUME l \notin raised PROVE OnceTaskInv(r, l)'
    <3>1. OnceInv(l)
      BY <1>2, <2>6 DEF TaskParts
    <3>2. lastOrder[l] = 0 => Fresh(l)
      <4>1. ASSUME lastOrder[l] = 0, NEW y \in Rules PROVE pages[l][<<repeatCount[l], y>>] = 0
        <5>1. ~ (pages[l][<<repeatCount[l], y>>] > 0)
          BY <3>1, <4>1 DEF OnceInv
        <5>2. pages[l][<<repeatCount[l], y>>] \in 0..2
          BY <1>2
        <5>3. QED
          BY <5>1, <5>2
      <4>2. QED
        BY <4>1 DEF Fresh
    <3>3. \A y \in begun[l] \cap live : orderOf[y] < orderOf[x]
      <4>1. \A y \in begun[l] \cap live : orderOf[y] <= lastOrder[l] /\ orderOf[y] \in Nat
        BY <1>1, <1>2, <3>1, TaskFacts DEF OnceInv, t
      <4>2. QED
        BY <1>2, <2>4, <4>1
    <3>4. x \notin begun[l]
      <4>1. ~ (orderOf[x] < orderOf[x])
        BY <1>2, <2>4
      <4>2. QED
        BY <2>1, <3>3, <4>1
    <3>5. orderOf[x] # 0 /\ (lastOrder[l] + 1 = 1 => Fresh(l))
      BY <1>2, <2>4, <3>2
    <3>6. QED
      BY <1>1, <2>4, <3>3, <3>4, <3>5, SameLogParts DEF OnceTaskInv, SameLog
  <2>7. OrderTaskInv(r, l)'
    BY <1>1, <2>1, <2>4 DEF OrderTaskInv, SameLog
  <2>8. QED
    BY <1>6, <2>4, <2>5, <2>6, <2>7
<1>8. CASE TaskLast(r, l)
  <2>1. PICK stage \in {"repeat", "complete"} : GoTo(r, l, stage, t.round, 0, NoRule)
    BY <1>8 DEF TaskLast, t
  <2>2. stage \in TaskStage /\ 0 \in 0..(MaxOrder + 1) /\ NoRule \in {NoRule} \cup Rules
    BY RulesAssumption DEF TaskStage
  <2>3. Moved(r, l, stage, t.round, 0, NoRule)
    BY <1>2, <1>5, <2>1, <2>2, MoveTask
  <2>4. task'[r][l].stage \in {"repeat", "complete"} /\ task'[r][l].round = repeatCount[l]
    BY <1>3, <2>3 DEF Moved
  <2>5. TaskInv(r, l)' /\ OnceTaskInv(r, l)' /\ OrderTaskInv(r, l)'
    BY <1>1, <1>2, <1>3, <2>4 DEF TaskInv, OnceTaskInv, OrderTaskInv, SameLog
  <2>6. QED
    BY <1>6, <2>4, <2>5
<1>9. QED
    BY <1>7, <1>8

LEMMA RepeatKeepsLogInv ==
    ASSUME TypeInv, OneRun, NEW r \in Runs, NEW l \in Logs, LogInv(l), TaskRepeat(r, l)
    PROVE  LogInv(l)'
<1> DEFINE t == task[r][l]
<1>1. t.stage = "repeat" /\ TaskStep(r, l)
    BY DEF TaskRepeat, TaskStep
<1>2. /\ TypeOK /\ creator[l] = "done" /\ TaskParts(r, l)
      /\ repeatCount[l] \in Nat
    BY <1>1, TaskFacts
<1>3. /\ t.round = repeatCount[l] /\ waited[l] >= nextIn[l]
    BY <1>1, <1>2 DEF TaskParts, TaskInv
<1>4. t.round + 1 \in Rounds
    BY <1>1, <1>2, <1>3, ConstantsAssumption DEF Rounds, TypeInv, RepeatFits
<1> HIDE DEF t
<1>5. /\ GoTo(r, l, "first", t.round + 1, 0, NoRule) /\ repeatCount'[l] = t.round + 1
      /\ UNCHANGED <<created, live, orderOf, shifted, raised, creator, firstRule, failures>>
      /\ lastOrder' = lastOrder /\ begun' = begun /\ nextIn' = nextIn /\ waited' = waited /\ pages' = pages
    BY <1>2 DEF TaskRepeat, TaskFrame, TypeOK, policyVars, ruleVars, t
<1>6. Moved(r, l, "first", t.round + 1, 0, NoRule)
  <2>1. "first" \in TaskStage /\ t.round + 1 \in {0} \cup Rounds /\ 0 \in 0..(MaxOrder + 1) /\ NoRule \in {NoRule} \cup Rules
    BY <1>4, RulesAssumption DEF TaskStage
  <2>2. QED
    BY <1>2, <1>5, <2>1, MoveTask
<1>7. \A n \in Rounds, x \in Rules : n > repeatCount[l] => pages[l][<<n, x>>] = 0
    BY <1>2 DEF TaskParts, RoundInv
<1>8. RoundInv(l)'
  <2>1. \A n \in Rounds : n > repeatCount'[l] => n > repeatCount[l]
    BY <1>2, <1>3, <1>5, ConstantsAssumption DEF Rounds
  <2>2. QED
    BY <1>2, <1>5, <1>7, <2>1 DEF TaskParts, RoundInv
<1>9. Fresh(l)'
  <2>1. repeatCount'[l] \in Rounds /\ repeatCount'[l] > repeatCount[l]
    BY <1>2, <1>3, <1>4, <1>5
  <2>2. QED
    BY <1>5, <1>7, <2>1 DEF Fresh
<1>10. /\ TaskInv(r, l)' /\ OnceTaskInv(r, l)' /\ OrderTaskInv(r, l)' /\ PagedTaskInv(r, l)'
       /\ PagedInv(l)'
    BY <1>2, <1>3, <1>5, <1>6, <1>9
    DEF Moved, TaskInv, OnceTaskInv, OrderTaskInv, PagedTaskInv, PagedInv
<1>11. OnceInv(l) => OnceInv(l)'
  <2>1. \A x \in Rules : ~ (pages'[l][<<repeatCount'[l], x>>] > 0)
    BY <1>9 DEF Fresh
  <2>2. QED
    BY <1>5, <2>1 DEF OnceInv
<1>12. OrderInv(l) => OrderInv(l)'
    BY <1>5 DEF OrderInv
<1>13. TaskParts(r, l)'
    BY <1>2, <1>5, <1>8, <1>10, <1>11, <1>12 DEF TaskParts
<1>14. QED
    BY <1>1, <1>13, TaskPartsSuffice DEF t

LEMMA FirstKeepsLogInv ==
    ASSUME TypeInv, OneRun, NEW r \in Runs, NEW l \in Logs, LogInv(l), TaskFirst(r, l)
    PROVE  LogInv(l)'
<1> DEFINE t == task[r][l]
<1>1. SameLog(l) /\ failures' = failures /\ t.stage = "first" /\ TaskStep(r, l)
    BY DEF TaskFirst, TaskFrame, policyVars, ruleVars, logVars, SameLog, TaskStep
<1>2. TypeOK /\ creator[l] = "done" /\ TaskParts(r, l) /\ t \in Task /\ live \subseteq Rules
    BY <1>1, TaskFacts
<1>3. t.round = repeatCount[l] /\ waited[l] >= nextIn[l] /\ Fresh(l)
    BY <1>1, <1>2 DEF TaskParts, TaskInv
<1>4. t.round \in {0} \cup Rounds
    BY <1>2 DEF Task
<1> HIDE DEF t
<1>5. \/ \E x \in live : orderOf[x] = 1 /\ Moved(r, l, "start", t.round, 1, x)
      \/ Moved(r, l, "complete", t.round, 0, NoRule)
  <2>1. /\ {"start", "complete"} \subseteq TaskStage /\ {0, 1} \subseteq 0..(MaxOrder + 1)
        /\ NoRule \in {NoRule} \cup Rules
    BY RulesAssumption DEF TaskStage
  <2>2. \/ \E x \in live : orderOf[x] = 1 /\ GoTo(r, l, "start", t.round, 1, x)
        \/ GoTo(r, l, "complete", t.round, 0, NoRule)
    BY DEF TaskFirst, Found, t
  <2>3. QED
    BY <1>2, <1>4, <2>1, <2>2, MoveTask
<1>6. TaskInv(r, l)' /\ OnceTaskInv(r, l)' /\ OrderTaskInv(r, l)' /\ PagedTaskInv(r, l)' /\ PagedInv(l)'
  <2>1. ASSUME NEW x \in live, orderOf[x] = 1, Moved(r, l, "start", t.round, 1, x)
        PROVE  TaskInv(r, l)' /\ OnceTaskInv(r, l)' /\ OrderTaskInv(r, l)' /\ PagedTaskInv(r, l)' /\ PagedInv(l)'
    <3>1. task'[r][l].stage = "start" /\ task'[r][l].round = t.round /\ task'[r][l].order = 1 /\ task'[r][l].rule = x
      BY <2>1 DEF Moved
    <3>2. QED
      BY <1>1, <1>2, <1>3, <2>1, <3>1, SameLogParts
      DEF TaskInv, OnceTaskInv, OrderTaskInv, PagedTaskInv, PagedInv, SameLog
  <2>2. CASE Moved(r, l, "complete", t.round, 0, NoRule)
    <3>1. task'[r][l].stage = "complete"
      BY <2>2 DEF Moved
    <3>2. QED
      BY <1>1, <1>2, <3>1 DEF TaskInv, OnceTaskInv, OrderTaskInv, PagedTaskInv, PagedInv, SameLog
  <2>3. QED
    BY <1>5, <2>1, <2>2
<1>7. TaskParts(r, l)'
    BY <1>1, <1>2, <1>6, SameLogParts DEF TaskParts, SameLog
<1>8. QED
    BY <1>1, <1>7, TaskPartsSuffice DEF t

LEMMA StartKeepsLogInv ==
    ASSUME TypeInv, OneRun, NEW r \in Runs, NEW l \in Logs, LogInv(l), TaskStart(r, l),
           task[r][l].rule \in live
    PROVE  LogInv(l)'
<1> DEFINE t == task[r][l]
<1>1. /\ UNCHANGED <<created, live, orderOf, shifted, raised, creator, firstRule, pages, failures>>
      /\ t.stage = "start" /\ TaskStep(r, l) /\ t.rule \in live
    BY DEF TaskStart, TaskFrame, policyVars, ruleVars, TaskStep
<1>2. /\ TypeOK /\ creator[l] = "done" /\ TaskParts(r, l) /\ t \in Task
      /\ l \notin shifted => l \notin raised /\ InSequence
      /\ live \subseteq Rules /\ live \subseteq 1..created /\ begun[l] \subseteq Rules
    BY <1>1, TaskFacts
<1>3. /\ repeatCount[l] \in Rounds /\ lastOrder[l] \in Nat /\ \A x \in Rules : orderOf[x] \in Nat
      /\ \A p \in Rounds \X Rules : pages[l][p] \in 0..2
    BY <1>1, TaskFacts
<1>4. t.round = repeatCount[l] /\ t.round \in {0} \cup Rounds /\ t.order \in 0..(MaxOrder + 1)
    BY <1>1, <1>2 DEF TaskParts, TaskInv, Task
<1>5. PICK x \in live : x = t.rule
    BY <1>1
<1>6. RecordRule(l, x, t.order) /\ GoTo(r, l, "notify", t.round, 0, x)
    BY <1>1, <1>5 DEF TaskStart, t
<1> DEFINE now == IF t.order = 1 THEN {x} ELSE begun[l] \cup {x}
<1>7. repeatCount' = repeatCount /\ lastOrder'[l] = orderOf[x] /\ begun'[l] = now
  <2>1. /\ lastOrder \in [Logs -> Order] /\ begun \in [Logs -> SUBSET Rules]
    BY <1>2 DEF TypeOK
  <2>2. QED
    BY <1>6, <2>1 DEF RecordRule
<1>8. Moved(r, l, "notify", t.round, 0, x)
  <2>1. "notify" \in TaskStage /\ 0 \in 0..(MaxOrder + 1) /\ x \in {NoRule} \cup Rules
    BY <1>2, RulesAssumption DEF TaskStage
  <2>2. QED
    BY <1>2, <1>4, <1>6, <2>1, MoveTask
<1>9. task'[r][l].stage = "notify" /\ task'[r][l].round = repeatCount[l] /\ task'[r][l].rule = x
    BY <1>4, <1>8 DEF Moved
<1> DEFINE first == t.order = 1
<1>a. first = (t.order = 1) /\ now = IF first THEN {x} ELSE begun[l] \cup {x}
    OBVIOUS
<1>10. ASSUME l \notin raised
       PROVE  /\ orderOf[x] # 0 /\ (first => Fresh(l))
              /\ ~ first => x \notin begun[l] /\ \A y \in begun[l] \cap live : orderOf[y] < orderOf[x]
  <2>1. OnceTaskInv(r, l)
    BY <1>2, <1>10 DEF TaskParts
  <2>2. QED
    BY <1>1, <1>5, <2>1 DEF OnceTaskInv
<1>11. ASSUME l \notin shifted PROVE orderOf[x] = t.order /\ (first \/ t.order = lastOrder[l] + 1)
  <2>1. OrderTaskInv(r, l)
    BY <1>2, <1>11 DEF TaskParts
  <2>2. QED
    BY <1>1, <1>5, <2>1 DEF OrderTaskInv
<1>12. ASSUME l \notin shifted, failures = 0, ~ first PROVE RoundPaged(l)
  <2>1. PagedTaskInv(r, l)
    BY <1>2, <1>12 DEF TaskParts
  <2>2. QED
    BY <1>1, <1>12, <2>1 DEF PagedTaskInv
<1>13. first => orderOf[x] = 1 \/ l \in shifted
    BY <1>11
<1> HIDE DEF t, now, first
<1>14. RoundInv(l)' /\ TaskInv(r, l)' /\ PagedInv(l)'
  <2>1. begun'[l] \subseteq 1..created
    BY <1>2, <1>7, <1>a DEF TaskParts, RoundInv
  <2>2. RoundInv(l)'
    BY <1>1, <1>2, <1>7, <2>1 DEF TaskParts, RoundInv
  <2>3. QED
    BY <1>1, <1>2, <1>7, <1>9, <2>2 DEF TaskInv, PagedInv
<1>15. ASSUME l \notin raised PROVE OnceInv(l)' /\ OnceTaskInv(r, l)'
  <2>1. OnceInv(l)
    BY <1>2, <1>15 DEF TaskParts
  <2>2. ASSUME NEW y \in Rules, pages[l][<<repeatCount[l], y>>] > 0 PROVE y \in now /\ y # x
    <3>1. y \in begun[l] /\ ~ Fresh(l)
      BY <2>1, <2>2 DEF OnceInv, Fresh
    <3>2. QED
      BY <1>10, <1>15, <1>a, <3>1
  <2>3. ASSUME NEW y \in now \cap live PROVE orderOf[y] <= orderOf[x]
    <3>1. y = x \/ orderOf[y] < orderOf[x]
      BY <1>10, <1>15, <1>a, <2>3
    <3>2. orderOf[y] \in Nat /\ orderOf[x] \in Nat
      BY <1>2, <1>3
    <3>3. QED
      BY <3>1, <3>2
  <2>4. OnceInv(l)'
    BY <1>1, <1>2, <1>7, <1>10, <1>15, <2>1, <2>2, <2>3 DEF OnceInv
  <2>5. x \in now /\ pages[l][<<repeatCount[l], x>>] = 0
    <3>1. ~ (pages[l][<<repeatCount[l], x>>] > 0) /\ x \in Rules
      BY <1>2, <2>2
    <3>2. pages[l][<<repeatCount[l], x>>] \in 0..2
      BY <1>2, <1>3
    <3>3. QED
      BY <1>a, <3>1, <3>2
  <2>6. OnceTaskInv(r, l)'
    BY <1>1, <1>7, <1>9, <2>5 DEF OnceTaskInv
  <2>7. QED
    BY <2>4, <2>6
<1>16. ASSUME l \notin shifted PROVE OrderInv(l)' /\ OrderTaskInv(r, l)'
  <2>1. OrderInv(l) /\ InSequence /\ \A y \in live : orderOf[y] \in Nat /\ orderOf[y] # 0
    BY <1>2, <1>3, <1>16 DEF TaskParts, InSequence
  <2>2. \A y \in live : orderOf[y] = orderOf[x] => y = x
    BY <2>1 DEF InSequence, Distinct
  <2>3. now = {y \in live : orderOf[y] <= orderOf[x]}
    <3>1. CASE first
      <4>1. \A y \in live : orderOf[y] <= orderOf[x] <=> y = x
        BY <1>13, <1>16, <2>1, <2>2, <3>1
      <4>2. QED
        BY <1>a, <3>1, <4>1
    <3>2. CASE ~ first
      <4>1. orderOf[x] = lastOrder[l] + 1
        BY <1>11, <1>16, <3>2
      <4>2. \A y \in live : orderOf[y] <= orderOf[x] <=> orderOf[y] <= lastOrder[l] \/ y = x
        BY <1>3, <2>1, <2>2, <4>1
      <4>3. begun[l] = {y \in live : orderOf[y] <= lastOrder[l]}
        BY <2>1 DEF OrderInv
      <4>4. QED
        BY <1>a, <3>2, <4>2, <4>3
    <3>3. QED
      BY <3>1, <3>2
  <2>4. x \in now
    BY <1>a
  <2>5. OrderInv(l)'
    BY <1>1, <1>2, <1>7, <2>3, <2>4 DEF OrderInv
  <2>6. OrderTaskInv(r, l)'
    BY <1>1, <1>9 DEF OrderTaskInv
  <2>7. QED
    BY <2>5, <2>6
<1>17. ASSUME l \notin shifted, failures = 0 PROVE PagedTaskInv(r, l)'
  <2>1. \A y \in now \ {x} : pages[l][<<repeatCount[l], y>>] > 0
    BY <1>12, <1>17, <1>a DEF RoundPaged
  <2>2. QED
    BY <1>1, <1>7, <1>9, <2>1 DEF PagedTaskInv
<1>18. TaskParts(r, l)'
    BY <1>1, <1>14, <1>15, <1>16, <1>17 DEF TaskParts
<1>19. QED
    BY <1>1, <1>18, TaskPartsSuffice DEF t

LEMMA NotifyKeepsLogInv ==
    ASSUME TypeInv, OneRun, NEW r \in Runs, NEW l \in Logs, LogInv(l), TaskNotify(r, l),
           PageUsers(l, task[r][l].round, task[r][l].rule), Finished(r, l)
    PROVE  LogInv(l)'
<1> DEFINE t == task[r][l]
<1>1. /\ UNCHANGED <<created, live, orderOf, shifted, raised, creator, firstRule, failures>>
      /\ UNCHANGED <<repeatCount, lastOrder, begun>>
      /\ t.stage = "notify" /\ TaskStep(r, l)
    BY DEF TaskNotify, TaskFrame, policyVars, ruleVars, logVars, TaskStep
<1>2. /\ TypeOK /\ creator[l] = "done" /\ TaskParts(r, l)
      /\ l \notin shifted => l \notin raised
      /\ begun[l] \subseteq Rules /\ repeatCount[l] \in Rounds /\ repeatCount[l] \in Nat
    BY <1>1, TaskFacts
<1>3. PICK x, n : x = t.rule /\ n = repeatCount[l] /\ n = t.round
    BY <1>1, <1>2 DEF TaskParts, TaskInv
<1>4. /\ \A p \in Rounds \X Rules : p # <<n, x>> => pages'[l][p] = pages[l][p]
      /\ \A p \in Rounds \X Rules : p = <<n, x>> => pages'[l][p] > 0 /\ (pages[l][p] = 0 => pages'[l][p] = 1)
    BY <1>2, <1>3, PageOnce
<1>5. task'[r][l].stage = "idle"
    BY <1>2, EndTask, NoTaskType
<1>6. TaskInv(r, l)' /\ OnceTaskInv(r, l)' /\ OrderTaskInv(r, l)' /\ PagedTaskInv(r, l)'
    BY <1>5 DEF TaskInv, OnceTaskInv, OrderTaskInv, PagedTaskInv
<1>7. RoundInv(l)'
  <2>1. ASSUME NEW m \in Rounds, NEW y \in Rules, m > n PROVE pages'[l][<<m, y>>] = 0
    <3>1. <<m, y>> \in Rounds \X Rules /\ <<m, y>> # <<n, x>>
      BY <1>2, <1>3, <2>1
    <3>2. pages[l][<<m, y>>] = 0
      BY <1>2, <1>3, <2>1 DEF TaskParts, RoundInv
    <3>3. QED
      BY <1>4, <3>1, <3>2
  <2>2. QED
    BY <1>1, <1>2, <1>3, <2>1 DEF TaskParts, RoundInv
<1>8. ASSUME l \notin raised PROVE OnceInv(l)' /\ x \in begun[l]
  <2>1. OnceInv(l) /\ x \in begun[l] /\ pages[l][<<n, x>>] = 0
    BY <1>1, <1>2, <1>3, <1>8 DEF TaskParts, OnceTaskInv
  <2>2. ASSUME NEW p \in Rounds \X Rules PROVE pages'[l][p] <= 1
    <3>1. CASE p = <<n, x>>
      BY <1>4, <2>1, <3>1
    <3>2. CASE p # <<n, x>>
      BY <1>4, <2>1, <3>2 DEF OnceInv
    <3>3. QED
      BY <3>1, <3>2
  <2>3. ASSUME NEW y \in Rules, pages'[l][<<n, y>>] > 0 PROVE y \in begun[l]
    <3>1. CASE y = x
      BY <2>1, <3>1
    <3>2. CASE y # x
      <4>1. <<n, y>> \in Rounds \X Rules /\ <<n, y>> # <<n, x>>
        BY <1>2, <1>3, <3>2
      <4>2. QED
        BY <1>3, <1>4, <2>1, <2>3, <4>1 DEF OnceInv
    <3>3. QED
      BY <3>1, <3>2
  <2>4. QED
    BY <1>1, <1>2, <1>3, <2>1, <2>2, <2>3 DEF OnceInv
<1>9. l \notin shifted => OrderInv(l)'
    BY <1>1, <1>2 DEF TaskParts, OrderInv
<1>10. ASSUME l \notin shifted, failures = 0 PROVE PagedInv(l)'
  <2>1. x \in begun[l] /\ \A y \in begun[l] \ {x} : pages[l][<<n, y>>] > 0
    BY <1>1, <1>2, <1>3, <1>8, <1>10 DEF TaskParts, PagedTaskInv
  <2>2. ASSUME NEW y \in begun[l] PROVE pages'[l][<<n, y>>] > 0
    <3>1. <<n, y>> \in Rounds \X Rules
      BY <1>2, <1>3
    <3>2. QED
      BY <1>4, <2>1, <3>1
  <2>3. RoundPaged(l)'
    BY <1>1, <1>3, <2>2 DEF RoundPaged
  <2>4. QED
    BY <2>3 DEF PagedInv
<1>11. TaskParts(r, l)'
    BY <1>1, <1>6, <1>7, <1>8, <1>9, <1>10 DEF TaskParts
<1>12. QED
    BY <1>1, <1>11, TaskPartsSuffice

LEMMA TaskKeepsLogInv ==
    ASSUME TypeInv, OneRun, NEW r \in Runs, NEW l \in Logs, LogInv(l),
           TaskStep(r, l) \/ TaskThrows(r, l)
    PROVE  LogInv(l)'
<1>1. TypeOK /\ task[r][l].stage # "idle"
    BY DEF TypeInv, TaskStep, TaskNotDue, TaskNext, TaskLast, TaskRepeat, TaskFirst, TaskComplete, TaskStart,
       TaskNotify, TaskFail, TaskThrows, Due
<1>2. CASE TaskNotDue(r, l)
    BY <1>1, <1>2, EndingKeepsLogInv DEF TaskNotDue, TaskFrame, SameLog, policyVars, ruleVars, logVars
<1>3. CASE TaskComplete(r, l) \/ TaskFail(r, l)
  <2>1. status'[l] # "Executing" /\ Finished(r, l)
    BY <1>1, <1>3 DEF TypeOK, TaskComplete, TaskFail
  <2>2. SameLog(l)
    BY <1>3 DEF TaskComplete, TaskFail, TaskFrame, SameLog, policyVars, ruleVars, logVars
  <2>3. QED
    BY <1>1, <2>1, <2>2, EndingKeepsLogInv
<1>4. CASE TaskThrows(r, l)
  <2>1. failures' # 0 /\ (Finished(r, l) \/ GoTo(r, l, "fail", 0, 0, NoRule))
    BY <1>1, <1>4, FailsOnce DEF TaskThrows
  <2>2. SameLog(l)
    BY <1>4 DEF TaskThrows, SameLog, policyVars, ruleVars, logVars
  <2>3. QED
    BY <1>1, <2>1, <2>2, EndingKeepsLogInv
<1>5. CASE TaskStart(r, l) /\ task[r][l].rule \notin live
    BY <1>1, <1>5, EndingKeepsLogInv DEF TaskStart, TaskFrame, SameLog, policyVars, ruleVars, logVars
<1>6. CASE TaskNotify(r, l)
    BY <1>1, <1>6, EndingKeepsLogInv, NotifyKeepsLogInv
    DEF TaskNotify, TaskFrame, SameLog, policyVars, ruleVars, logVars
<1>7. QED
    BY <1>2, <1>3, <1>4, <1>5, <1>6, CheckKeepsLogInv, RepeatKeepsLogInv, FirstKeepsLogInv, StartKeepsLogInv
    DEF TaskStep

LEMMA EscalationInvStep == OneRun /\ EscalationInv /\ [Next]_vars => EscalationInv'
<1> SUFFICES ASSUME OneRun, EscalationInv, [Next]_vars PROVE EscalationInv'
    OBVIOUS
<1>1. TypeInv /\ TypeInv' /\ TypeOK
    BY TypeInvStep DEF EscalationInv, TypeInv
<1>2. ASSUME NEW l \in Logs PROVE LogInv(l)'
  <2>1. LogInv(l)
    BY DEF EscalationInv
  <2>2. CASE UNCHANGED vars
    BY <2>1, <2>2, UntouchedLog DEF vars, policyVars, logVars, Untouched
  <2>3. ASSUME NEW m \in Logs,
               \/ Create(m) \/ CreatorStep(m) \/ CreatorDies(m)
               \/ MarkStuck(m) \/ AckLog(m) \/ AckIncident(m) \/ DashboardAck(m)
               \/ \E r \in Runs : TaskStep(r, m) \/ TaskThrows(r, m)
        PROVE  LogInv(l)'
    <3>1. CASE m # l
      BY <1>1, <2>1, <2>3, <3>1, OtherLog, UntouchedLog
    <3>2. CASE m = l
      BY <1>1, <2>1, <2>3, <3>2, CreateKeepsLogInv, CreatorKeepsLogInv, WritersKeepLogInv, TaskKeepsLogInv
    <3>3. QED
      BY <3>1, <3>2
  <2>4. CASE \E r \in Runs : Snapshot(r) \/ WorkerCrash(r)
    BY <1>1, <2>1, <2>4, RunKeepsLogInv
  <2>5. CASE FindStuck \/ StuckAborts
    BY <1>1, <2>1, <2>5, WritersKeepLogInv
  <2>6. CASE EditPolicy
    BY <1>1, <2>1, <2>6, EditKeepsLogInv
  <2>7. CASE Tick
    BY <1>1, <2>1, <2>7, TickKeepsLogInv
  <2>8. CASE Next
    BY <2>3, <2>4, <2>5, <2>6, <2>7, <2>8 DEF Next
  <2>9. QED
    BY <2>2, <2>8
<1>3. QED
    BY <1>1, <1>2 DEF EscalationInv

LEMMA EscalationInvInit == Init => EscalationInv
<1> SUFFICES ASSUME Init PROVE EscalationInv
    OBVIOUS
<1>1. ASSUME NEW l \in Logs PROVE LogInv(l)
  <2>1. /\ creator[l] = "none" /\ status[l] = "None" /\ stuck = {} /\ raised = {} /\ lastOrder[l] = 0
        /\ begun[l] = {} /\ \A p \in Rounds \X Rules : pages[l][p] = 0
        /\ \A r \in Runs : task[r][l] = NoTask
    BY <1>1 DEF Init
  <2>2. CreatorInv(l) /\ RoundInv(l)
    BY <2>1 DEF CreatorInv, RoundInv, Unpaged
  <2>3. \A r \in Runs : TaskInv(r, l)
    BY <2>1 DEF TaskInv, NoTask
  <2>4. UnraisedInv(l) /\ UnshiftedInv(l)
    BY <2>1 DEF UnraisedInv, UnshiftedInv
  <2>5. QED
    BY <2>2, <2>3, <2>4 DEF LogInv, BasicInv
<1>2. QED
    BY <1>1, TypeInvInit DEF EscalationInv

\* While runs of ExecutePendingExecutions do not overlap, no round pages the
\* users of one rule twice, whatever crashes, throws or is acknowledged, and
\* however rules are deleted, or added behind the others, meanwhile.
THEOREM PagedAtMostOnce == ASSUME OneRun PROVE Spec => []PagedOncePerRound
<1>1. EscalationInv => PagedOncePerRound
  <2> SUFFICES ASSUME EscalationInv, NEW l \in Logs \ raised, NEW p \in Rounds \X Rules
               PROVE  pages[l][p] <= 1
    BY DEF PagedOncePerRound
  <2>1. CASE creator[l] = "none"
    BY <2>1 DEF EscalationInv, LogInv, BasicInv, CreatorInv, Unpaged
  <2>2. CASE creator[l] # "none"
    BY <2>2 DEF EscalationInv, LogInv, UnraisedInv, OnceInv
  <2>3. QED
    BY <2>1, <2>2
<1>2. EscalationInv /\ [Next]_vars => EscalationInv'
    BY EscalationInvStep
<1>3. QED
    BY <1>1, <1>2, EscalationInvInit, PTL DEF Spec

\* While runs do not overlap, a call starts the first rule of the policy, or
\* one before which exactly the rules in front of it have been recorded,
\* whatever fails and while rules are added at the end.
THEOREM EscalationOrdered == ASSUME OneRun PROVE Spec => []EscalatesInOrder
<1>1. EscalationInv => EscalatesInOrder
  <2> SUFFICES ASSUME EscalationInv, NEW r \in Runs, NEW l \in Logs \ shifted, task[r][l].stage = "start"
               PROVE  LET x == task[r][l].rule
                      IN  /\ x \in live /\ orderOf[x] = task[r][l].order
                          /\ orderOf[x] = 1 \/ begun[l] = {y \in live : orderOf[y] < orderOf[x]}
    BY DEF EscalatesInOrder
  <2>1. TypeInv /\ LogInv(l) /\ task[r][l].stage # "idle"
    BY DEF EscalationInv
  <2>2. OrderInv(l) /\ OrderTaskInv(r, l)
    BY <2>1, TaskFacts DEF TaskParts
  <2>3. lastOrder[l] \in Nat /\ \A y \in live : orderOf[y] \in Nat
    BY <2>1, TaskFacts
  <2>4. QED
    BY <2>2, <2>3 DEF OrderInv, OrderTaskInv
<1>2. EscalationInv /\ [Next]_vars => EscalationInv'
    BY EscalationInvStep
<1>3. QED
    BY <1>1, <1>2, EscalationInvInit, PTL DEF Spec

\* While runs do not overlap, the cron job starts a rule only after the
\* escalateAfterInMinutes of the rule before it have passed, however the
\* policy is edited.
THEOREM EscalationWaits == ASSUME OneRun PROVE Spec => WaitRespected
<1>1. EscalationInv /\ [Next]_vars =>
        [\A r \in Runs, l \in Logs :
            (task[r][l].stage = "start" /\ task'[r][l].stage = "notify")
                => waited[l] >= nextIn[l]]_vars
    BY DEF EscalationInv, LogInv, BasicInv, TaskInv
<1>2. EscalationInv /\ [Next]_vars => EscalationInv'
    BY EscalationInvStep
<1>3. QED
    BY <1>1, <1>2, EscalationInvInit, PTL DEF Spec, WaitRespected

\* Only a call that finds no next rule closes a round.
LEMMA RoundClosedByLast ==
    ASSUME TypeInv, Next, NEW r \in Runs, NEW l \in Logs,
           task[r][l].stage = "check", task'[r][l].stage \in {"repeat", "complete"}
    PROVE  TaskLast(r, l)
<1>1. task \in [Runs -> [Logs -> Task]]
    BY DEF TypeInv, TypeOK
<1>2. task' # task
    OBVIOUS
<1>3. ASSUME NEW q \in Runs, Snapshot(q) \/ WorkerCrash(q) PROVE FALSE
    BY <1>1, <1>3 DEF Snapshot, WorkerCrash, NoTask
<1>4. ~ Tick
  <2>1. task[r][l] \in Task
    BY <1>1
  <2>2. QED
    BY <1>1, <2>1 DEF Tick, Task
<1>5. ASSUME NEW q \in Runs, NEW m \in Logs, TaskStep(q, m) \/ TaskThrows(q, m) PROVE TaskLast(r, l)
  <2>1. PICK t : /\ task' = [task EXCEPT ![q][m] = t]
                 /\ task[q][m].stage = "check" /\ t.stage \in {"repeat", "complete"} => TaskLast(q, m)
    BY <1>5
    DEF TaskStep, TaskNotDue, TaskNext, TaskRepeat, TaskFirst, TaskComplete, TaskStart,
        TaskNotify, TaskFail, TaskThrows, GoTo, Finished, NoTask, TaskLast, Due
  <2>2. q = r /\ m = l /\ t = task'[r][l]
    BY <1>1, <2>1
  <2>3. QED
    BY <2>1, <2>2
<1>6. QED
    BY <1>2, <1>3, <1>4, <1>5
    DEF Next, Create, CreatorStep, CreatorFind, CreatorStart, CreatorNotify, CreatorFinish, CreatorDies,
        MarkStuck, AckLog, AckIncident, DashboardAck, FindStuck, StuckAborts, EditPolicy

\* While runs do not overlap, a round is closed only when every rule of the
\* policy has been recorded, those added at the end meanwhile included, and
\* has paged its users in that round if nothing has failed.
THEOREM RoundsComplete == ASSUME OneRun PROVE Spec => NoRuleLeftOut
<1>1. ASSUME EscalationInv, Next, NEW r \in Runs, NEW l \in Logs \ shifted,
             task[r][l].stage = "check", task'[r][l].stage \in {"repeat", "complete"}, NEW x \in live
      PROVE  x \in begun[l] /\ (failures = 0 => pages[l][<<repeatCount[l], x>>] = 1)
  <2>1. TypeInv /\ LogInv(l) /\ task[r][l].stage # "idle" /\ TaskLast(r, l)
    BY <1>1, RoundClosedByLast DEF EscalationInv
  <2>2. /\ TaskParts(r, l) /\ l \notin raised /\ InSequence /\ repeatCount[l] \in Rounds
        /\ lastOrder[l] \in Nat /\ x \in Rules /\ \A y \in live : orderOf[y] \in Nat
        /\ \A p \in Rounds \X Rules : pages[l][p] \in 0..2
    BY <1>1, <2>1, TaskFacts
  <2>3. \A y \in live : orderOf[y] # lastOrder[l] + 1
    BY <1>1, <2>1, <2>2 DEF TaskParts, TaskInv, TaskLast, Found
  <2>4. orderOf[x] <= lastOrder[l]
    <3>1. CASE orderOf[x] > lastOrder[l] + 1
      <4>1. lastOrder[l] + 1 \in 1..(orderOf[x] - 1)
        BY <2>2, <3>1
      <4>2. QED
        BY <2>2, <2>3, <4>1 DEF InSequence
    <3>2. CASE ~ (orderOf[x] > lastOrder[l] + 1)
      BY <2>2, <2>3, <3>2
    <3>3. QED
      BY <3>1, <3>2
  <2>5. x \in begun[l]
    BY <2>2, <2>4 DEF TaskParts, OrderInv
  <2>6. ASSUME failures = 0 PROVE pages[l][<<repeatCount[l], x>>] = 1
    <3>1. pages[l][<<repeatCount[l], x>>] > 0
      BY <1>1, <2>2, <2>5, <2>6 DEF TaskParts, PagedTaskInv, RoundPaged
    <3>2. pages[l][<<repeatCount[l], x>>] <= 1
      BY <2>2 DEF TaskParts, OnceInv
    <3>3. pages[l][<<repeatCount[l], x>>] \in 0..2
      BY <2>2
    <3>4. QED
      BY <3>1, <3>2, <3>3
  <2>7. QED
    BY <2>5, <2>6
<1>2. EscalationInv /\ [Next]_vars =>
        [\A r \in Runs : \A l \in Logs \ shifted :
            (task[r][l].stage = "check" /\ task'[r][l].stage \in {"repeat", "complete"})
                => \A x \in live :
                      /\ x \in begun[l]
                      /\ failures = 0 => pages[l][<<repeatCount[l], x>>] = 1]_vars
    BY <1>1
<1>3. EscalationInv /\ [Next]_vars => EscalationInv'
    BY EscalationInvStep
<1>4. QED
    BY <1>2, <1>3, EscalationInvInit, PTL DEF Spec, NoRuleLeftOut
=============================================================================
