--------------------------- MODULE OnCallExecution ---------------------------
(***************************************************************************)
(* The execution of one on-call duty policy: an execution log is created   *)
(* for every incident that pages the policy, the first escalation rule     *)
(* runs inside the request that creates the log, and from then on the cron *)
(* job ExecutePendingExecutions (every minute) takes a snapshot of the     *)
(* Executing logs and escalates each of them.  TimeoutStuckExecutions      *)
(* errors the logs stuck in Started, and a user who was paged may          *)
(* acknowledge at any time.  None of the writers re-reads the status it    *)
(* overwrites.                                                             *)
(*                                                                         *)
(* Meanwhile the policy may be edited (EscalationRules).  The log knows    *)
(* the order its last rule had, the call in progress the id of the rule it *)
(* is about to start: rules that are renumbered move under both.           *)
(*                                                                         *)
(* Time is counted in minutes and only as ages that saturate at MaxAge.    *)
(***************************************************************************)
EXTENDS EscalationRules

CONSTANTS Logs,          \* execution logs of the policy, one per incident
          Runs,          \* ticks of ExecutePendingExecutions that may be in progress together
          EscalateAfter, \* escalateAfterInMinutes of each rule
          RepeatTimes,   \* repeatPolicyIfNoOneAcknowledgesNoOfTimes
          StuckAfter,    \* minutes a log may stay Started (five in the code)
          MaxAge,        \* bound: ages saturate here
          MaxFailures    \* bound: crashes and thrown errors

Minute == 0..MaxAge
Rounds == 1..(RepeatTimes + 1) \* the first execution of the policy and the repeats

ASSUME ConstantsAssumption ==
    /\ MaxAge \in Nat
    /\ EscalateAfter \in [Rules -> Minute]
    /\ RepeatTimes \in Nat
    /\ StuckAfter \in 0..(MaxAge - 1)
    /\ MaxFailures \in Nat

Terminal == {"Completed", "Error"}
Status   == {"None", "Scheduled", "Started", "Executing"} \cup Terminal

\* Where the request that creates a log stands in onCreateSuccess.
CreatorStage == {"none", "find", "start", "notify", "finish", "done", "dead"}

\* Where one executeOnCallPolicy call stands; "idle" is no call in progress.
TaskStage == {"idle", "check", "repeat", "first", "start", "notify", "complete", "fail"}

NoRule == 0

\* order is the last order of the snapshot, then the order the rule was found with.
Task == [stage : TaskStage, order : 0..(MaxOrder + 1), rule : {NoRule} \cup Rules,
         round : {0} \cup Rounds, waited : Minute, next : Minute]

NoTask == [stage |-> "idle", order |-> 0, rule |-> NoRule, round |-> 0, waited |-> 0, next |-> 0]

VARIABLES
    status,      \* OnCallDutyPolicyExecutionLog.status, "None" before the log exists
    repeatCount, \* onCallPolicyExecutionRepeatCount
    lastOrder,   \* lastExecutedEscalationRuleOrder, 0 while null
    nextIn,      \* executeNextEscalationRuleInMinutes, 0 while null
    waited,      \* minutes since lastEscalationRuleExecutedAt || createdAt
    age,         \* minutes since createdAt
    acked,       \* acknowledgedAt is set
    creator,     \* stage of the creating request
    firstRule,   \* the rule it found
    task,        \* task[r][l]: the call of cron run r on log l
    stuck,       \* logs the timeout job still has to mark
    acking,      \* logs acknowledged whose incident is still to be acknowledged
    incident,    \* "open" or "acknowledged": the incident that triggered the log
    pages,       \* history: how often each rule paged its users in each round
    begun,       \* history: rules recorded since the log last started from the first one
    shifted,     \* history: logs whose rules were not in sequence, or edited but at the end
    raised,      \* history: logs whose rules shared an order, or were given higher ones
    failures

logVars == <<repeatCount, lastOrder, nextIn, waited, age, begun>>
ackVars == <<acked, acking, incident>>
policyVars == <<ruleVars, shifted, raised>>
vars == <<policyVars, status, logVars, ackVars, creator, firstRule, task, stuck, pages, failures>>

TypeOK ==
    /\ RulesTypeOK
    /\ status \in [Logs -> Status]
    /\ repeatCount \in [Logs -> {0} \cup Rounds]
    /\ lastOrder \in [Logs -> Order]
    /\ nextIn \in [Logs -> Minute]
    /\ waited \in [Logs -> Minute]
    /\ age \in [Logs -> Minute]
    /\ acked \in [Logs -> BOOLEAN]
    /\ creator \in [Logs -> CreatorStage]
    /\ firstRule \in [Logs -> {NoRule} \cup Rules]
    /\ task \in [Runs -> [Logs -> Task]]
    /\ stuck \in SUBSET Logs
    /\ acking \in SUBSET Logs
    /\ incident \in [Logs -> {"open", "acknowledged"}]
    /\ pages \in [Logs -> [Rounds \X Rules -> 0..2]]
    /\ begun \in [Logs -> SUBSET Rules]
    /\ shifted \in SUBSET Logs
    /\ raised \in SUBSET Logs
    /\ failures \in 0..MaxFailures

Init ==
    /\ RulesInit
    /\ status = [l \in Logs |-> "None"]
    /\ repeatCount = [l \in Logs |-> 0]
    /\ lastOrder = [l \in Logs |-> 0]
    /\ nextIn = [l \in Logs |-> 0]
    /\ waited = [l \in Logs |-> 0]
    /\ age = [l \in Logs |-> 0]
    /\ acked = [l \in Logs |-> FALSE]
    /\ creator = [l \in Logs |-> "none"]
    /\ firstRule = [l \in Logs |-> NoRule]
    /\ task = [r \in Runs |-> [l \in Logs |-> NoTask]]
    /\ stuck = {}
    /\ acking = {}
    /\ incident = [l \in Logs |-> "open"]
    /\ pages = [l \in Logs |-> [p \in Rounds \X Rules |-> 0]]
    /\ begun = [l \in Logs |-> {}]
    /\ shifted = {}
    /\ raised = {}
    /\ failures = 0

-----------------------------------------------------------------------------
(* Steps shared by the request and the cron job.                           *)

\* Mutant: the query asks for this order or a later one.
FoundFrom(order) == {x \in live : orderOf[x] >= order}

\* findOneBy: any of the rules with this order.
Found(order) == {x \in live : orderOf[x] = order}

\* The write at the head of startRuleExecution: the rule, found with the given
\* order, becomes the last one executed before any of its users is notified.
\* The order recorded is the one it has now.
RecordRule(l, rule, order) ==
    /\ lastOrder' = [lastOrder EXCEPT ![l] = orderOf[rule]]
    /\ nextIn' = [nextIn EXCEPT ![l] = EscalateAfter[rule]]
    /\ waited' = [waited EXCEPT ![l] = 0]
    /\ begun' = [begun EXCEPT ![l] = IF order = 1 THEN {rule} ELSE @ \cup {rule}]
    /\ UNCHANGED <<repeatCount, age>>

\* The rest of startRuleExecution: every unique user of the rule is notified.
PageUsers(l, round, rule) ==
    pages' = [pages EXCEPT ![l][<<round, rule>>] = IF @ < 2 THEN @ + 1 ELSE @]

Fail == failures < MaxFailures /\ failures' = failures + 1

Older(minutes) == IF minutes < MaxAge THEN minutes + 1 ELSE minutes

-----------------------------------------------------------------------------
(* The request that creates the log.                                       *)

\* The incident is created and executePolicy inserts its log as Scheduled.
Create(l) ==
    /\ creator[l] = "none"
    /\ creator' = [creator EXCEPT ![l] = "find"]
    /\ status' = [status EXCEPT ![l] = "Scheduled"]
    /\ repeatCount' = [repeatCount EXCEPT ![l] = 1]
    /\ shifted' = IF edit = NoEdit /\ InSequence THEN shifted ELSE shifted \cup {l}
    /\ raised' = IF edit = NoEdit /\ Distinct THEN raised ELSE raised \cup {l}
    /\ UNCHANGED <<ruleVars, lastOrder, nextIn, waited, age, begun, ackVars, firstRule, task,
                   stuck, pages, failures>>

\* Look for the rule with order 1; without one the log goes straight to Error.
CreatorFind(l) ==
    /\ creator[l] = "find"
    /\ \/ \E x \in Found(1) :
             /\ firstRule' = [firstRule EXCEPT ![l] = x]
             /\ status' = [status EXCEPT ![l] = "Started"]
             /\ creator' = [creator EXCEPT ![l] = "start"]
       \/ /\ Found(1) = {}
          /\ status' = [status EXCEPT ![l] = "Error"]
          /\ creator' = [creator EXCEPT ![l] = "done"]
          /\ UNCHANGED firstRule
    /\ UNCHANGED <<policyVars, logVars, ackVars, task, stuck, pages, failures>>

\* The request is done with the rule it found.
CreatorEnds(l, stage) ==
    /\ creator' = [creator EXCEPT ![l] = stage]
    /\ firstRule' = [firstRule EXCEPT ![l] = NoRule]

\* startRuleExecution reads the rule again and throws when it is gone.
CreatorStart(l) ==
    /\ creator[l] = "start"
    /\ \/ /\ firstRule[l] \in live
          /\ RecordRule(l, firstRule[l], 1)
          /\ creator' = [creator EXCEPT ![l] = "notify"]
          /\ UNCHANGED firstRule
       \/ /\ firstRule[l] \notin live
          /\ CreatorEnds(l, "dead")
          /\ UNCHANGED logVars
    /\ UNCHANGED <<policyVars, status, ackVars, task, stuck, pages, failures>>

\* Its users are read and notified one by one; once the rule is gone they may
\* not be found, and what they are sent cannot refer to it.
CreatorNotify(l) ==
    /\ creator[l] = "notify"
    /\ \/ PageUsers(l, 1, firstRule[l]) /\ CreatorEnds(l, "finish")
       \/ firstRule[l] \notin live /\ CreatorEnds(l, "dead") /\ UNCHANGED pages
    /\ UNCHANGED <<policyVars, status, logVars, ackVars, task, stuck, failures>>

\* Executing is written whatever the status has become in the meantime.
CreatorFinish(l) ==
    /\ creator[l] = "finish"
    /\ status' = [status EXCEPT ![l] = "Executing"]
    /\ CreatorEnds(l, "done")
    /\ UNCHANGED <<policyVars, logVars, ackVars, task, stuck, pages, failures>>

\* An error thrown by a hook, or a crash of the process that serves the request.
CreatorDies(l) ==
    /\ creator[l] \in {"find", "start", "notify", "finish"}
    /\ Fail
    /\ CreatorEnds(l, "dead")
    /\ UNCHANGED <<policyVars, status, logVars, ackVars, task, stuck, pages>>

CreatorStep(l) ==
    CreatorFind(l) \/ CreatorStart(l) \/ CreatorNotify(l) \/ CreatorFinish(l)

-----------------------------------------------------------------------------
(* ExecutePendingExecutions: one run works on its snapshot only.           *)

\* Mutant: completed logs are fetched too.
PendingOrCompleted(l) == status[l] \in {"Executing", "Completed"}

Pending(l) == status[l] = "Executing"

Snapshot(r) ==
    /\ \A l \in Logs : task[r][l].stage = "idle"
    /\ \E l \in Logs : Pending(l)
    /\ task' = [task EXCEPT ![r] =
           [l \in Logs |->
               IF Pending(l)
               THEN [stage |-> "check", order |-> lastOrder[l], rule |-> NoRule,
                     round |-> repeatCount[l], waited |-> waited[l], next |-> nextIn[l]]
               ELSE NoTask]]
    /\ UNCHANGED <<policyVars, status, logVars, ackVars, creator, firstRule, stuck, pages, failures>>

\* A call keeps only what its next step needs.
GoTo(r, l, stage, round, order, rule) ==
    task' = [task EXCEPT ![r][l] = [stage |-> stage, order |-> order, rule |-> rule,
                                    round |-> round, waited |-> 0, next |-> 0]]

Finished(r, l) == task' = [task EXCEPT ![r][l] = NoTask]

TaskFrame == UNCHANGED <<policyVars, ackVars, creator, firstRule, stuck, failures>>

\* The next rule is not due yet.
TaskNotDue(r, l) ==
    /\ task[r][l].stage = "check"
    /\ task[r][l].waited < task[r][l].next
    /\ Finished(r, l)
    /\ UNCHANGED <<status, logVars, pages>> /\ TaskFrame

Due(r, l) == task[r][l].stage = "check" /\ task[r][l].waited >= task[r][l].next

\* There is a rule with the order after the last one of the snapshot.
TaskNext(r, l) ==
    /\ Due(r, l)
    /\ LET order == task[r][l].order + 1
       IN  \E x \in Found(order) : GoTo(r, l, "start", task[r][l].round, order, x)
    /\ UNCHANGED <<status, logVars, pages>> /\ TaskFrame

\* Executions of the policy are counted, and the count starts at 1.
RepeatsLeft(r, l) == task[r][l].round < RepeatTimes

\* Mutant: whether there is a next rule is not looked at.
TaskLastUnasked(r, l) ==
    /\ Due(r, l)
    /\ GoTo(r, l, IF RepeatsLeft(r, l) THEN "repeat" ELSE "complete", task[r][l].round, 0, NoRule)
    /\ UNCHANGED <<status, logVars, pages>> /\ TaskFrame

\* There is none: the policy is repeated or complete.
TaskLast(r, l) ==
    /\ Due(r, l)
    /\ Found(task[r][l].order + 1) = {}
    /\ GoTo(r, l, IF RepeatsLeft(r, l) THEN "repeat" ELSE "complete", task[r][l].round, 0, NoRule)
    /\ UNCHANGED <<status, logVars, pages>> /\ TaskFrame

\* Mutant: the count is not saved.
TaskRepeatUnsaved(r, l) ==
    /\ task[r][l].stage = "repeat"
    /\ GoTo(r, l, "first", task[r][l].round + 1, 0, NoRule)
    /\ UNCHANGED <<status, logVars, pages>> /\ TaskFrame

\* The count is saved before the first rule is looked for.
TaskRepeat(r, l) ==
    /\ task[r][l].stage = "repeat"
    /\ repeatCount' = [repeatCount EXCEPT ![l] = task[r][l].round + 1]
    /\ GoTo(r, l, "first", task[r][l].round + 1, 0, NoRule)
    /\ UNCHANGED <<status, lastOrder, nextIn, waited, age, begun, pages>> /\ TaskFrame

TaskFirst(r, l) ==
    /\ task[r][l].stage = "first"
    /\ \/ \E x \in Found(1) : GoTo(r, l, "start", task[r][l].round, 1, x)
       \/ Found(1) = {} /\ GoTo(r, l, "complete", task[r][l].round, 0, NoRule)
    /\ UNCHANGED <<status, logVars, pages>> /\ TaskFrame

\* No repeat is left, or the repeat finds no first rule.
TaskComplete(r, l) ==
    /\ task[r][l].stage = "complete"
    /\ status' = [status EXCEPT ![l] = "Completed"]
    /\ Finished(r, l)
    /\ UNCHANGED <<logVars, pages>> /\ TaskFrame

\* startRuleExecution on behalf of the cron job.
TaskStart(r, l) ==
    /\ task[r][l].stage = "start"
    /\ \/ /\ task[r][l].rule \in live
          /\ RecordRule(l, task[r][l].rule, task[r][l].order)
          /\ GoTo(r, l, "notify", task[r][l].round, 0, task[r][l].rule)
       \/ /\ task[r][l].rule \notin live
          /\ GoTo(r, l, "fail", 0, 0, NoRule)
          /\ UNCHANGED logVars
    /\ UNCHANGED <<status, pages>> /\ TaskFrame

TaskNotify(r, l) ==
    /\ task[r][l].stage = "notify"
    /\ \/ /\ PageUsers(l, task[r][l].round, task[r][l].rule)
          /\ Finished(r, l)
       \/ /\ task[r][l].rule \notin live
          /\ GoTo(r, l, "fail", 0, 0, NoRule)
          /\ UNCHANGED pages
    /\ UNCHANGED <<status, logVars>> /\ TaskFrame

\* The catch block: Error, again whatever the status is by now.
TaskFail(r, l) ==
    /\ task[r][l].stage = "fail"
    /\ status' = [status EXCEPT ![l] = "Error"]
    /\ Finished(r, l)
    /\ UNCHANGED <<logVars, pages>> /\ TaskFrame

\* A query of the call fails; a failure of the catch block's own write is
\* swallowed by Promise.allSettled.
TaskThrows(r, l) ==
    /\ task[r][l].stage # "idle"
    /\ Fail
    /\ \/ task[r][l].stage # "fail" /\ GoTo(r, l, "fail", 0, 0, NoRule)
       \/ task[r][l].stage = "fail" /\ Finished(r, l)
    /\ UNCHANGED <<policyVars, status, logVars, ackVars, creator, firstRule, stuck, pages>>

TaskStep(r, l) ==
    \/ TaskNotDue(r, l) \/ TaskNext(r, l) \/ TaskLast(r, l) \/ TaskRepeat(r, l) \/ TaskFirst(r, l)
    \/ TaskComplete(r, l) \/ TaskStart(r, l) \/ TaskNotify(r, l) \/ TaskFail(r, l)

\* The worker process dies with all the calls of the run in progress.
WorkerCrash(r) ==
    /\ \E l \in Logs : task[r][l].stage # "idle"
    /\ Fail
    /\ task' = [task EXCEPT ![r] = [l \in Logs |-> NoTask]]
    /\ UNCHANGED <<policyVars, status, logVars, ackVars, creator, firstRule, stuck, pages>>

-----------------------------------------------------------------------------
(* TimeoutStuckExecutions, acknowledgements, administration and time.      *)

\* Mutant: the query asks for the wrong status.
StuckScheduled == {l \in Logs : status[l] = "Scheduled" /\ age[l] > StuckAfter}

StuckLogs == {l \in Logs : status[l] = "Started" /\ age[l] > StuckAfter}

FindStuck ==
    /\ stuck = {} /\ StuckLogs # {}
    /\ stuck' = StuckLogs
    /\ UNCHANGED <<policyVars, status, logVars, ackVars, creator, firstRule, task, pages, failures>>

MarkStuck(l) ==
    /\ l \in stuck
    /\ status' = [status EXCEPT ![l] = "Error"]
    /\ stuck' = stuck \ {l}
    /\ UNCHANGED <<policyVars, logVars, ackVars, creator, firstRule, task, pages, failures>>

\* One failed update ends the loop; what is left is found again a minute later.
StuckAborts ==
    /\ stuck # {}
    /\ Fail
    /\ stuck' = {}
    /\ UNCHANGED <<policyVars, status, logVars, ackVars, creator, firstRule, task, pages>>

Paged(l) == \E p \in Rounds \X Rules : pages[l][p] > 0

\* A paged user follows the link or presses 1: the execution log is
\* completed first, the incident is acknowledged at the end of the cascade.
AckLog(l) ==
    /\ Paged(l) /\ l \notin acking
    /\ status' = [status EXCEPT ![l] = "Completed"]
    /\ acked' = [acked EXCEPT ![l] = TRUE]
    /\ acking' = acking \cup {l}
    /\ UNCHANGED <<policyVars, logVars, incident, creator, firstRule, task, stuck, pages, failures>>

AckIncident(l) ==
    /\ l \in acking
    /\ acking' = acking \ {l}
    /\ incident' = [incident EXCEPT ![l] = "acknowledged"]
    /\ UNCHANGED <<policyVars, status, logVars, acked, creator, firstRule, task, stuck, pages, failures>>

\* The incident is acknowledged on the dashboard: the log is not told.
DashboardAck(l) ==
    /\ creator[l] # "none" /\ incident[l] = "open"
    /\ incident' = [incident EXCEPT ![l] = "acknowledged"]
    /\ UNCHANGED <<policyVars, status, logVars, acked, acking, creator, firstRule, task, stuck, pages, failures>>

\* A creation that only appends: the others keep their orders and no gap opens.
Appends(at) == Behind(at) = {} /\ (at = 1 \/ Found(at - 1) # {})

\* The policy is edited while it executes; the histories tell which logs saw
\* it edited other than at the end, and which saw a rule given a higher order.
EditPolicy ==
    LET existing == {l \in Logs : creator[l] # "none"} IN
    /\ \/ /\ \E at \in Order :
                /\ Insert(at)
                /\ shifted' = IF Appends(at) THEN shifted ELSE shifted \cup existing
                /\ raised' = IF Behind(at) = {} THEN raised ELSE raised \cup existing
       \/ /\ \E x \in Rules : Delete(x)
          /\ shifted' = shifted \cup existing
          /\ UNCHANGED raised
       \/ /\ \E x \in Rules, to \in Order : Move(x, to)
          /\ shifted' = shifted \cup existing
          /\ raised' = raised \cup existing
       \/ EditStep /\ UNCHANGED <<shifted, raised>>
    /\ UNCHANGED <<status, logVars, ackVars, creator, firstRule, task, stuck, pages, failures>>

\* A minute passes for the logs and for the dates a snapshot has copied.
Tick ==
    /\ waited' = [l \in Logs |-> IF status[l] = "None" THEN 0 ELSE Older(waited[l])]
    /\ age' = [l \in Logs |-> IF status[l] = "None" THEN 0 ELSE Older(age[l])]
    /\ task' = [r \in Runs |-> [l \in Logs |->
                   IF task[r][l].stage = "check"
                   THEN [task[r][l] EXCEPT !.waited = Older(@)] ELSE task[r][l]]]
    /\ UNCHANGED <<policyVars, status, repeatCount, lastOrder, nextIn, begun, ackVars,
                   creator, firstRule, stuck, pages, failures>>

-----------------------------------------------------------------------------
Next ==
    \/ \E l \in Logs :
          \/ Create(l) \/ CreatorStep(l) \/ CreatorDies(l)
          \/ MarkStuck(l) \/ AckLog(l) \/ AckIncident(l) \/ DashboardAck(l)
    \/ \E r \in Runs : Snapshot(r) \/ WorkerCrash(r)
    \/ \E r \in Runs, l \in Logs : TaskStep(r, l) \/ TaskThrows(r, l)
    \/ FindStuck \/ StuckAborts \/ EditPolicy \/ Tick

Spec == Init /\ [][Next]_vars

\* Both cron jobs keep firing, their calls and the clock make progress; nobody
\* is bound to acknowledge, to create an incident, to finish an edit or to survive.
Fairness ==
    /\ WF_vars(Tick) /\ WF_vars(FindStuck)
    /\ \A l \in Logs : WF_vars(CreatorStep(l)) /\ WF_vars(MarkStuck(l))
    /\ \A r \in Runs : WF_vars(Snapshot(r))
    /\ \A r \in Runs, l \in Logs : WF_vars(TaskStep(r, l))

FairSpec == Spec /\ Fairness

-----------------------------------------------------------------------------
(* Properties.                                                             *)

\* No round pages the users of one rule twice, whatever crashes, throws or is
\* acknowledged, however many rules are deleted or added at the end meanwhile,
\* even by requests that die half way: a run records a rule before it pages,
\* and the next snapshot starts behind it.  Holds while runs of the cron job do
\* not overlap; a rule that is given a higher order may be met again.
PagedOncePerRound ==
    \A l \in Logs \ raised : \A p \in Rounds \X Rules : pages[l][p] <= 1

\* A run starts the first rule of the policy, or one before which exactly the
\* rules in front of it have been recorded since the first: none is skipped,
\* and none is started again, whatever crashes, throws or is acknowledged and
\* while rules are added at the end.  Holds while runs do not overlap; where
\* rules are renumbered the order recorded points elsewhere.
EscalatesInOrder ==
    \A r \in Runs : \A l \in Logs \ shifted :
        LET x == task[r][l].rule IN
        task[r][l].stage = "start" =>
            /\ x \in live /\ orderOf[x] = task[r][l].order
            /\ orderOf[x] = 1 \/ begun[l] = {y \in live : orderOf[y] < orderOf[x]}

\* A round is closed, for a repeat or for good, only when every rule of the
\* policy has been recorded since the first, and if nothing has failed every
\* one has paged its users in that very round, rules added at the end of the
\* policy while it executes included.  Holds while runs do not overlap.
NoRuleLeftOut ==
    [][\A r \in Runs : \A l \in Logs \ shifted :
          (task[r][l].stage = "check" /\ task'[r][l].stage \in {"repeat", "complete"})
              => \A x \in live :
                    /\ x \in begun[l]
                    /\ failures = 0 => pages[l][<<repeatCount[l], x>>] = 1]_vars

\* A rule is started by the cron job only after the escalateAfterInMinutes of
\* the rule before it have passed ("How long should we wait before we execute
\* the next escalation rule?").
WaitRespected ==
    [][\A r \in Runs, l \in Logs :
          (task[r][l].stage = "start" /\ task'[r][l].stage = "notify")
              => waited[l] >= nextIn[l]]_vars

\* Nothing is in flight for a log that has ended.
Quiet(l) ==
    /\ status[l] \in Terminal
    /\ creator[l] \in {"done", "dead"}
    /\ \A r \in Runs : task[r][l].stage = "idle"

\* Once a log has ended and nothing is in flight for it, it is never revived:
\* no later tick of either cron job, acknowledgement or edit of the policy
\* pages anybody for it or changes its counters.
EndedStaysEnded ==
    [][\A l \in Logs : Quiet(l) =>
          Quiet(l)' /\ pages'[l] = pages[l] /\ repeatCount'[l] = repeatCount[l]]_vars

\* Even when the creating request dies, a Started log is picked up: the
\* timeout job takes it out of Started.
StartedIsResolved == \A l \in Logs : status[l] = "Started" ~> status[l] # "Started"

\* Escalation ends: an Executing log is completed or errored at last, however
\* the policy is edited meanwhile, if only it is not edited for ever.
ExecutionEnds == \A l \in Logs : status[l] = "Executing" ~> status[l] \in Terminal

\* "The number of times to repeat the on-call policy if no one acknowledges the
\* incident" (Escalation.tsx:310): a log completed for want of rules has paged
\* every rule once and RepeatTimes times more.
RepeatedAsConfigured ==
    \A l \in Logs \ shifted :
        (status[l] = "Completed" /\ ~acked[l] /\ failures = 0 /\ edits = 0) =>
            \A x \in live :
                Cardinality({k \in Rounds : pages[l][<<k, x>>] > 0}) = RepeatTimes + 1
=============================================================================
