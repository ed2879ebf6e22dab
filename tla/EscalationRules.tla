--------------------------- MODULE EscalationRules ---------------------------
(***************************************************************************)
(* The escalation rules of one on-call duty policy and the requests that   *)
(* edit them.  A rule carries an order, and the hooks of                   *)
(* OnCallDutyPolicyEscalationRuleService keep the orders: a creation makes *)
(* room before its row is inserted, a deletion closes the gap after its    *)
(* row is gone, a move does either before its own order is written.  Each  *)
(* of the other rules is renumbered by an update of its own, computed from *)
(* what one query found: between two of them orders repeat or are missing, *)
(* and a request that dies leaves them so.                                 *)
(*                                                                         *)
(* Four other ordered settings are kept by the same hooks.  One edit of a  *)
(* policy is in progress at a time.                                        *)
(***************************************************************************)
EXTENDS Naturals, FiniteSets

CONSTANTS MaxRules, \* bound: rules ever created
          MaxOrder, \* bound: highest order
          MaxEdits  \* bound: edits

Rules == 1..MaxRules \* ids, numbered as the rows are created
Order == 0..MaxOrder

ASSUME RulesAssumption ==
    /\ MaxRules \in Nat /\ MaxEdits \in Nat
    /\ MaxOrder \in Nat /\ MaxOrder >= MaxRules

Raising == {"insert", "moveUp"}   \* the other rules get higher orders
Lowering == {"delete", "moveDown"} \* the other rules get lower orders

\* The edit in progress: what it does with which rule, and at which order.
Edit == [kind : {"none"} \cup Raising \cup Lowering, rule : {0} \cup Rules, order : Order]

NoEdit == [kind |-> "none", rule |-> 0, order |-> 0]

VARIABLES
    created, \* the rules 1..created have been created
    live,    \* those that have not been deleted
    orderOf, \* OnCallDutyPolicyEscalationRule.order, 0 of a rule that is not live
    edit,    \* the edit in progress
    pending, \* rules it has still to renumber
    edits,   \* edits begun
    mishaps  \* history: whether a rule was moved down, or an edit cut short

ruleVars == <<created, live, orderOf, edit, pending, edits, mishaps>>

RulesTypeOK ==
    /\ created \in 0..MaxRules
    /\ live \in SUBSET (1..created)
    /\ orderOf \in [Rules -> Order]
    /\ edit \in Edit
    /\ pending \in SUBSET live
    /\ edits \in 0..MaxEdits
    /\ mishaps \in SUBSET {"moved down", "cut short"}

RulesInit ==
    /\ created \in 0..MaxRules
    /\ live = 1..created
    /\ orderOf = [x \in Rules |-> IF x <= created THEN x ELSE 0]
    /\ edit = NoEdit
    /\ pending = {}
    /\ edits = 0
    /\ mishaps = {}

-----------------------------------------------------------------------------

Begin(kind, x, order, others) ==
    /\ edit = NoEdit /\ edits < MaxEdits
    /\ edit' = [kind |-> kind, rule |-> x, order |-> order]
    /\ pending' = others
    /\ edits' = edits + 1

\* Mutant: the rule that has the order already stays where it is.
BehindOnly(order) == {y \in live : orderOf[y] > order}

\* What rearrangeOrder finds.
Behind(order) == {y \in live : orderOf[y] >= order}

\* A creation, at the position the request gives or, without one, at the end.
Insert(at) ==
    /\ created < MaxRules
    /\ at \in 1..(Cardinality(live) + 1) /\ at <= MaxOrder
    /\ \A y \in Behind(at) : orderOf[y] < MaxOrder
    /\ Begin("insert", created + 1, at, Behind(at))
    /\ UNCHANGED <<created, live, orderOf, mishaps>>

\* A deletion: the row is gone before any other rule is renumbered.  An order
\* of 0 counts as none.
Delete(x) ==
    /\ x \in live
    /\ Begin("delete", x, 0, IF orderOf[x] = 0 THEN {} ELSE Behind(orderOf[x]) \ {x})
    /\ live' = live \ {x}
    /\ orderOf' = [orderOf EXCEPT ![x] = 0]
    /\ UNCHANGED <<created, mishaps>>

\* A rule is dragged up: the rules from its new place to its old one make room.
MoveUp(x, to) ==
    /\ x \in live
    /\ to \in 1..Cardinality(live) /\ to < orderOf[x]
    /\ Begin("moveUp", x, to, {y \in live : to <= orderOf[y] /\ orderOf[y] < orderOf[x]})
    /\ UNCHANGED <<created, live, orderOf, mishaps>>

\* A rule is dragged down: every rule up to its new place is lowered, those
\* before its old place and the rule itself too.  Bound: none below 0.
MoveDown(x, to) ==
    /\ x \in live
    /\ to \in 1..Cardinality(live) /\ orderOf[x] < to
    /\ \A y \in live : orderOf[y] # 0
    /\ Begin("moveDown", x, to, {y \in live : orderOf[y] <= to})
    /\ mishaps' = mishaps \cup {"moved down"}
    /\ UNCHANGED <<created, live, orderOf>>

\* Mutant: a deletion makes room, too.
RenumberUp(y) ==
    /\ y \in pending /\ orderOf[y] < MaxOrder
    /\ orderOf' = [orderOf EXCEPT ![y] = @ + 1]
    /\ pending' = pending \ {y}
    /\ UNCHANGED <<created, live, edit, edits, mishaps>>

\* One rule is renumbered; rearrangeOrder goes by ascending order.
Renumber(y) ==
    /\ y \in pending
    /\ edit.kind \in {"insert", "delete"} => \A z \in pending : orderOf[y] <= orderOf[z]
    /\ orderOf' = [orderOf EXCEPT ![y] = IF edit.kind \in Raising THEN @ + 1 ELSE @ - 1]
    /\ pending' = pending \ {y}
    /\ UNCHANGED <<created, live, edit, edits, mishaps>>

\* The edit ends with the write it was for; a deletion's came first.
Finish ==
    /\ edit.kind # "none" /\ pending = {}
    /\ \/ /\ edit.kind = "insert"
          /\ created' = edit.rule
          /\ live' = live \cup {edit.rule}
          /\ orderOf' = [orderOf EXCEPT ![edit.rule] = edit.order]
       \/ /\ edit.kind \in {"moveUp", "moveDown"}
          /\ orderOf' = [orderOf EXCEPT ![edit.rule] = edit.order]
          /\ UNCHANGED <<created, live>>
       \/ /\ edit.kind = "delete"
          /\ UNCHANGED <<created, live, orderOf>>
    /\ edit' = NoEdit
    /\ UNCHANGED <<pending, edits, mishaps>>

\* The request dies, or one of its updates throws.
CutShort ==
    /\ edit.kind # "none"
    /\ edit' = NoEdit
    /\ pending' = {}
    /\ mishaps' = mishaps \cup {"cut short"}
    /\ UNCHANGED <<created, live, orderOf, edits>>

EditStep == (\E y \in Rules : Renumber(y)) \/ Finish \/ CutShort

Move(x, to) == MoveUp(x, to) \/ MoveDown(x, to)

RulesNext ==
    \/ \E at \in Order : Insert(at)
    \/ \E x \in Rules : Delete(x)
    \/ \E x \in Rules, to \in Order : Move(x, to)
    \/ EditStep

RulesSpec == RulesInit /\ [][RulesNext]_ruleVars

-----------------------------------------------------------------------------
(* Properties.                                                             *)

Distinct == \A x, y \in live : orderOf[x] = orderOf[y] => x = y

\* The orders are 1, 2, ... without repetition or gap.
InSequence ==
    /\ Distinct
    /\ \A x \in live :
          /\ orderOf[x] # 0
          /\ \A k \in 1..(orderOf[x] - 1) : \E y \in live : orderOf[y] = k

\* The escalation looks for the rule with order 1 and then for the next order,
\* so every edit must leave the orders 1, 2, ...: creations anywhere,
\* deletions and moves up do, in any sequence, as long as none is cut short.
PositionsKept == mishaps = {} /\ edit = NoEdit => InSequence
=============================================================================
