-------------------------- MODULE UserNotification --------------------------
(***************************************************************************)
(* How one user who is paged for an incident is notified.  Every page is a *)
(* UserOnCallLog: the request that pages creates it and executes the       *)
(* user's immediate notification rules; from then on every tick of the     *)
(* cron job ExecutePendingExecutions takes a snapshot of the Executing     *)
(* logs and executes the rules that have become due, and                   *)
(* TimeoutStuckExecutions errors the logs stuck in Started.  Each sent     *)
(* notification carries a link that acknowledges the incident.             *)
(*                                                                         *)
(* Every change of a log's status is followed, in a second write, by a     *)
(* copy to its row of the policy's execution timeline, which the dashboard *)
(* shows.  None of the writers re-reads what it overwrites, the JSON       *)
(* column of executed rules included.  Time is counted in minutes of age.  *)
(***************************************************************************)
EXTENDS Naturals

CONSTANTS Logs,        \* pages of the user, each a UserOnCallLog
          Rules,       \* notification rules the user may have
          Runs,        \* ticks of ExecutePendingExecutions that may be in progress together
          Request,     \* the request that creates a log
          NotifyAfter, \* notifyAfterMinutes of each rule
          StuckAfter,  \* minutes a log may stay Started (five in the code)
          MaxAge,      \* bound: ages saturate here
          MaxFailures  \* bound: crashes and thrown errors

Minute  == 0..MaxAge
Workers == Runs \cup {Request}

ASSUME ConstantsAssumption ==
    /\ Request \notin Runs
    /\ MaxAge \in Nat
    /\ NotifyAfter \in [Rules -> Minute]
    /\ StuckAfter \in 0..(MaxAge - 1)
    /\ MaxFailures \in Nat

Terminal == {"Completed", "Error"}
Status   == {"None", "Scheduled", "Started", "Executing"} \cup Terminal
Row      == {"Executing", "Started", "NotificationSent", "SuccessfullyAcknowledged", "Error"}

\* Where a request or a cron run stands with a log.
Stage == {"idle", "create", "count", "find", "check", "work", "record", "send",
          "finish", "complete", "fail", "copy", "noRules", "sent", "done", "dead"}

Work == [stage : Stage,
         seen  : SUBSET Rules, \* executedNotificationRules as it was read last
         todo  : SUBSET Rules, \* rules the loop has still to look at
         doing : SUBSET Rules, \* the rule that is being executed
         all   : BOOLEAN,      \* isAllExecuted
         row   : Row]          \* the status to be copied to the timeline row

NoWork == [stage |-> "idle", seen |-> {}, todo |-> {}, doing |-> {}, all |-> FALSE,
           row |-> "Executing"]

AckStage == {"idle", "log", "copy", "policy", "row", "incident"}

VARIABLES
    rules,    \* the notification rules the user has
    status,   \* UserOnCallLog.status, "None" before the log exists
    executed, \* executedNotificationRules
    acked,    \* acknowledgedAt is set
    age,      \* minutes since createdAt
    row,      \* status of the OnCallDutyPolicyExecutionLogTimeline row
    work,     \* work[w][l]: the request or the call of a cron run on log l
    stuck,    \* logs the timeout job still has to mark
    marked,   \* the log it has marked but whose row it has not
    ack,      \* where an acknowledgement that came with a log's link stands
    policy,   \* status of the policy's execution log
    incident, \* "open" or "acknowledged"
    sent,     \* history: how often each rule notified for each log
    failures

ackVars == <<ack, policy, incident>>
vars == <<rules, status, executed, acked, age, row, work, stuck, marked, ackVars, sent, failures>>

TypeOK ==
    /\ rules \in SUBSET Rules
    /\ status \in [Logs -> Status]
    /\ executed \in [Logs -> SUBSET Rules]
    /\ acked \in [Logs -> BOOLEAN]
    /\ age \in [Logs -> Minute]
    /\ row \in [Logs -> Row]
    /\ work \in [Workers -> [Logs -> Work]]
    /\ stuck \in SUBSET Logs
    /\ marked \in SUBSET Logs
    /\ ack \in [Logs -> AckStage]
    /\ policy \in {"Executing", "Completed"}
    /\ incident \in {"open", "acknowledged"}
    /\ sent \in [Logs -> [Rules -> 0..2]]
    /\ failures \in 0..MaxFailures

Init ==
    /\ rules \in SUBSET Rules
    /\ status = [l \in Logs |-> "None"]
    /\ executed = [l \in Logs |-> {}]
    /\ acked = [l \in Logs |-> FALSE]
    /\ age = [l \in Logs |-> 0]
    /\ row = [l \in Logs |-> "Executing"]
    /\ work = [w \in Workers |-> [l \in Logs |-> NoWork]]
    /\ stuck = {}
    /\ marked = {}
    /\ ack = [l \in Logs |-> "idle"]
    /\ policy = "Executing"
    /\ incident = "open"
    /\ sent = [l \in Logs |-> [n \in Rules |-> 0]]
    /\ failures = 0

-----------------------------------------------------------------------------
(* Steps the request and the cron runs share.                              *)

At(w, l, stage) == work[w][l].stage = stage

Become(w, l, new) == work' = [work EXCEPT ![w][l] = new]

GoTo(w, l, stage) == Become(w, l, [work[w][l] EXCEPT !.stage = stage])

Ends(w, l, stage) == Become(w, l, [NoWork EXCEPT !.stage = stage])

Fail == failures < MaxFailures /\ failures' = failures + 1

\* What onUpdateSuccess copies to the timeline row.
RowOf(s) == CASE s = "Completed" -> "NotificationSent"
              [] s = "Error"     -> "Error"
              [] s = "Executing" -> "Executing"
              [] OTHER           -> "Started"

\* An update of the log's status, whatever it is by now; the hook that
\* copies it is the next step.
WriteStatus(w, l, s) ==
    /\ status' = [status EXCEPT ![l] = s]
    /\ Become(w, l, [NoWork EXCEPT !.stage = "copy", !.row = RowOf(s)])
    /\ UNCHANGED <<rules, executed, acked, age, row, stuck, marked, ackVars, sent, failures>>

CopyStatus(w, l) ==
    /\ At(w, l, "copy")
    /\ row' = [row EXCEPT ![l] = work[w][l].row]
    /\ \/ w \in Runs /\ Ends(w, l, "idle")
       \/ w = Request /\ work[w][l].row = "Started" /\ Ends(w, l, "count")
       \/ w = Request /\ work[w][l].row = "Error" /\ Ends(w, l, "noRules")
       \/ w = Request /\ work[w][l].row = "Executing" /\ Ends(w, l, "sent")
    /\ UNCHANGED <<rules, status, executed, acked, age, stuck, marked, ackVars, sent, failures>>

WorkFrame == UNCHANGED <<rules, status, acked, age, row, stuck, marked, ackVars, failures>>

\* The loop takes a rule and executeNotificationRuleItem reads the log again:
\* a rule that has been executed is skipped.
TakeRule(w, l) ==
    /\ At(w, l, "work")
    /\ \E n \in work[w][l].todo :
          \/ /\ n \in executed[l]
             /\ Become(w, l, [work[w][l] EXCEPT !.todo = @ \ {n}])
          \/ /\ n \notin executed[l]
             /\ Become(w, l, [work[w][l] EXCEPT !.stage = "record", !.doing = {n},
                                                !.seen = executed[l]])
    /\ UNCHANGED <<executed, sent>> /\ WorkFrame

\* Mutant: the column is not written back.
RecordNothing(w, l) ==
    /\ At(w, l, "record")
    /\ GoTo(w, l, "send")
    /\ UNCHANGED <<executed, sent>> /\ WorkFrame

\* The column is written back with the rule added before anything is sent.
RecordExecuted(w, l) ==
    /\ At(w, l, "record")
    /\ executed' = [executed EXCEPT ![l] = work[w][l].seen \cup work[w][l].doing]
    /\ GoTo(w, l, "send")
    /\ UNCHANGED sent /\ WorkFrame

Notify(l, n) == sent' = [sent EXCEPT ![l][n] = IF @ < 2 THEN @ + 1 ELSE @]

\* The email, SMS or call goes out; when the rule is gone by now it throws.
SendNotification(w, l) ==
    /\ At(w, l, "send")
    /\ \E n \in work[w][l].doing :
          \/ /\ n \in rules
             /\ Notify(l, n)
             /\ Become(w, l, [work[w][l] EXCEPT !.stage = "work", !.doing = {},
                                                !.seen = {}, !.todo = @ \ {n}])
          \/ /\ n \notin rules
             /\ Ends(w, l, IF w = Request THEN "dead" ELSE "fail")
             /\ UNCHANGED sent
    /\ UNCHANGED executed /\ WorkFrame

\* The loop ends: the request makes the log Executing; a cron run completes it
\* when its snapshot had all rules executed, or leaves it for the next tick.
LoopEnds(w, l) ==
    /\ At(w, l, "work") /\ work[w][l].todo = {}
    /\ \/ w = Request /\ Ends(w, l, "finish")
       \/ w \in Runs /\ work[w][l].all /\ Ends(w, l, "complete")
       \/ w \in Runs /\ ~work[w][l].all /\ Ends(w, l, "idle")
    /\ UNCHANGED <<executed, sent>> /\ WorkFrame

-----------------------------------------------------------------------------
(* The request that creates the log.                                       *)

Create(l) ==
    /\ At(Request, l, "idle")
    /\ status' = [status EXCEPT ![l] = "Scheduled"]
    /\ Ends(Request, l, "create")
    /\ UNCHANGED <<rules, executed, acked, age, row, stuck, marked, ackVars, sent, failures>>

Start(l) == At(Request, l, "create") /\ WriteStatus(Request, l, "Started")

CountRules(l) ==
    /\ At(Request, l, "count") /\ rules # {}
    /\ Ends(Request, l, "find")
    /\ UNCHANGED <<executed, sent>> /\ WorkFrame

NoRules(l) == At(Request, l, "count") /\ rules = {} /\ WriteStatus(Request, l, "Error")

\* Without rules the row is marked a second time, for its message.
MarkRowAgain(l) ==
    /\ At(Request, l, "noRules")
    /\ row' = [row EXCEPT ![l] = "Error"]
    /\ Ends(Request, l, "done")
    /\ UNCHANGED <<rules, status, executed, acked, age, stuck, marked, ackVars, sent, failures>>

FindImmediate(l) ==
    /\ At(Request, l, "find")
    /\ Become(Request, l, [NoWork EXCEPT !.stage = "work",
                                         !.todo = {n \in rules : NotifyAfter[n] = 0}])
    /\ UNCHANGED <<executed, sent>> /\ WorkFrame

Finish(l) == At(Request, l, "finish") /\ WriteStatus(Request, l, "Executing")

MarkRowSent(l) ==
    /\ At(Request, l, "sent")
    /\ row' = [row EXCEPT ![l] = "NotificationSent"]
    /\ Ends(Request, l, "done")
    /\ UNCHANGED <<rules, status, executed, acked, age, stuck, marked, ackVars, sent, failures>>

\* An error thrown on the way, or a crash of the process: nobody marks the log.
RequestDies(l) ==
    /\ ~At(Request, l, "idle") /\ ~At(Request, l, "done") /\ ~At(Request, l, "dead")
    /\ Fail
    /\ Ends(Request, l, "dead")
    /\ UNCHANGED <<rules, status, executed, acked, age, row, stuck, marked, ackVars, sent>>

-----------------------------------------------------------------------------
(* ExecutePendingExecutions.                                               *)

\* Mutant: completed logs are fetched too.
PendingOrCompleted(l) == status[l] \in {"Executing", "Completed"}

Pending(l) == status[l] = "Executing"

Snapshot(r) ==
    /\ \A l \in Logs : At(r, l, "idle")
    /\ \E l \in Logs : Pending(l)
    /\ work' = [work EXCEPT ![r] =
           [l \in Logs |-> IF Pending(l)
                           THEN [NoWork EXCEPT !.stage = "check", !.seen = executed[l]]
                           ELSE NoWork]]
    /\ UNCHANGED <<executed, sent>> /\ WorkFrame

\* Mutant: a rule that is not due yet does not count.
AllDueExecuted(r, l) ==
    \A n \in rules : NotifyAfter[n] <= age[l] => n \in work[r][l].seen

\* Every rule is in the snapshot of the column, due or not.
AllExecuted(r, l) == rules \subseteq work[r][l].seen

\* The user's rules are fetched; those that are due and not yet executed,
\* according to the snapshot, are what the loop will execute.
FindDue(r, l) ==
    /\ At(r, l, "check")
    /\ Become(r, l, [NoWork EXCEPT !.stage = "work", !.all = AllExecuted(r, l),
                         !.todo = {n \in rules \ work[r][l].seen : NotifyAfter[n] <= age[l]}])
    /\ UNCHANGED <<executed, sent>> /\ WorkFrame

Complete(r, l) == At(r, l, "complete") /\ WriteStatus(r, l, "Completed")

\* The catch block.
MarkFailed(r, l) == At(r, l, "fail") /\ WriteStatus(r, l, "Error")

\* A query or a hook throws; what the catch block itself throws is swallowed.
CallThrows(r, l) ==
    /\ ~At(r, l, "idle")
    /\ Fail
    /\ LET inCatch == At(r, l, "fail") \/ (At(r, l, "copy") /\ work[r][l].row = "Error")
       IN  Ends(r, l, IF inCatch THEN "idle" ELSE "fail")
    /\ UNCHANGED <<rules, status, executed, acked, age, row, stuck, marked, ackVars, sent>>

WorkerCrash(r) ==
    /\ \E l \in Logs : ~At(r, l, "idle")
    /\ Fail
    /\ work' = [work EXCEPT ![r] = [l \in Logs |-> NoWork]]
    /\ UNCHANGED <<rules, status, executed, acked, age, row, stuck, marked, ackVars, sent>>

-----------------------------------------------------------------------------
(* TimeoutStuckExecutions.                                                 *)

\* Mutant: the query asks for the wrong status.
StuckScheduled == {l \in Logs : status[l] = "Scheduled" /\ age[l] > StuckAfter}

StuckLogs == {l \in Logs : status[l] = "Started" /\ age[l] > StuckAfter}

FindStuck ==
    /\ stuck \cup marked = {} /\ StuckLogs # {}
    /\ stuck' = StuckLogs
    /\ UNCHANGED <<rules, status, executed, acked, age, row, work, marked, ackVars, sent, failures>>

MarkStuck(l) ==
    /\ l \in stuck /\ marked = {}
    /\ status' = [status EXCEPT ![l] = "Error"]
    /\ stuck' = stuck \ {l}
    /\ marked' = {l}
    /\ UNCHANGED <<rules, executed, acked, age, row, work, ackVars, sent, failures>>

CopyStuck(l) ==
    /\ l \in marked
    /\ row' = [row EXCEPT ![l] = "Error"]
    /\ marked' = {}
    /\ UNCHANGED <<rules, status, executed, acked, age, work, stuck, ackVars, sent, failures>>

\* One failed update ends the loop.
StuckAborts ==
    /\ stuck \cup marked # {}
    /\ Fail
    /\ stuck' = {} /\ marked' = {}
    /\ UNCHANGED <<rules, status, executed, acked, age, row, work, ackVars, sent>>

-----------------------------------------------------------------------------
(* An acknowledgement: the hook of the notification's row of the user's     *)
(* log timeline.  The link may be followed at any time and any number of    *)
(* times, here one at a time for each log.                                  *)

AckFrame == UNCHANGED <<rules, executed, age, work, stuck, marked, sent, failures>>

AckTo(l, from, to) == ack[l] = from /\ ack' = [ack EXCEPT ![l] = to]

FollowLink(l) ==
    /\ \E n \in Rules : sent[l][n] > 0
    /\ AckTo(l, "idle", "log")
    /\ UNCHANGED <<status, acked, row, policy, incident>> /\ AckFrame

AckLog(l) ==
    /\ AckTo(l, "log", "copy")
    /\ status' = [status EXCEPT ![l] = "Completed"]
    /\ acked' = [acked EXCEPT ![l] = TRUE]
    /\ UNCHANGED <<row, policy, incident>> /\ AckFrame

AckCopy(l) ==
    /\ AckTo(l, "copy", "policy")
    /\ row' = [row EXCEPT ![l] = RowOf("Completed")]
    /\ UNCHANGED <<status, acked, policy, incident>> /\ AckFrame

AckPolicy(l) ==
    /\ AckTo(l, "policy", "row")
    /\ policy' = "Completed"
    /\ UNCHANGED <<status, acked, row, incident>> /\ AckFrame

\* Mutant: the row keeps what the hook of the log copied.
AckRowForgotten(l) ==
    /\ AckTo(l, "row", "incident")
    /\ UNCHANGED <<status, acked, row, policy, incident>> /\ AckFrame

AckRow(l) ==
    /\ AckTo(l, "row", "incident")
    /\ row' = [row EXCEPT ![l] = "SuccessfullyAcknowledged"]
    /\ UNCHANGED <<status, acked, policy, incident>> /\ AckFrame

AckIncident(l) ==
    /\ AckTo(l, "incident", "idle")
    /\ incident' = "acknowledged"
    /\ UNCHANGED <<status, acked, row, policy>> /\ AckFrame

AckStep(l) == AckLog(l) \/ AckCopy(l) \/ AckPolicy(l) \/ AckRow(l) \/ AckIncident(l)

AckThrows(l) ==
    /\ ack[l] # "idle"
    /\ Fail
    /\ ack' = [ack EXCEPT ![l] = "idle"]
    /\ UNCHANGED <<rules, status, executed, acked, age, row, work, stuck, marked,
                   policy, incident, sent>>

-----------------------------------------------------------------------------
\* The user edits his rules; each rule is added once at most.
AddRule(n) ==
    /\ n \notin rules /\ \A l \in Logs : n \notin executed[l]
    /\ rules' = rules \cup {n}
    /\ UNCHANGED <<status, executed, acked, age, row, work, stuck, marked, ackVars, sent, failures>>

RemoveRule(n) ==
    /\ n \in rules
    /\ rules' = rules \ {n}
    /\ UNCHANGED <<status, executed, acked, age, row, work, stuck, marked, ackVars, sent, failures>>

Tick ==
    /\ age' = [l \in Logs |->
                  IF status[l] # "None" /\ age[l] < MaxAge THEN age[l] + 1 ELSE age[l]]
    /\ UNCHANGED <<rules, status, executed, acked, row, work, stuck, marked, ackVars, sent, failures>>

-----------------------------------------------------------------------------
RequestStep(l) ==
    \/ Start(l) \/ CountRules(l) \/ NoRules(l) \/ MarkRowAgain(l) \/ FindImmediate(l)
    \/ Finish(l) \/ MarkRowSent(l)

CallStep(r, l) == FindDue(r, l) \/ Complete(r, l) \/ MarkFailed(r, l)

WorkStep(w, l) ==
    \/ TakeRule(w, l) \/ RecordExecuted(w, l) \/ SendNotification(w, l)
    \/ LoopEnds(w, l) \/ CopyStatus(w, l)

Next ==
    \/ \E l \in Logs :
          \/ Create(l) \/ RequestStep(l) \/ RequestDies(l)
          \/ MarkStuck(l) \/ CopyStuck(l)
          \/ FollowLink(l) \/ AckStep(l) \/ AckThrows(l)
    \/ \E w \in Workers, l \in Logs : WorkStep(w, l)
    \/ \E r \in Runs, l \in Logs : CallStep(r, l) \/ CallThrows(r, l)
    \/ \E r \in Runs : Snapshot(r) \/ WorkerCrash(r)
    \/ \E n \in Rules : AddRule(n) \/ RemoveRule(n)
    \/ FindStuck \/ StuckAborts \/ Tick

Spec == Init /\ [][Next]_vars

\* Both cron jobs keep firing and what runs makes progress; nobody is bound to
\* page, to follow a link or to survive.
Fairness ==
    /\ WF_vars(Tick) /\ WF_vars(FindStuck)
    /\ \A l \in Logs :
          /\ WF_vars(RequestStep(l)) /\ WF_vars(AckStep(l))
          /\ WF_vars(MarkStuck(l) \/ CopyStuck(l))
    /\ \A w \in Workers, l \in Logs : WF_vars(WorkStep(w, l))
    /\ \A r \in Runs : WF_vars(Snapshot(r))
    /\ \A r \in Runs, l \in Logs : WF_vars(CallStep(r, l))

FairSpec == Spec /\ Fairness

-----------------------------------------------------------------------------
(* Properties.                                                             *)

\* Neither a request, nor a cron run, nor the timeout job works on the log.
Unattended(l) ==
    /\ work[Request][l].stage \in {"done", "dead"}
    /\ \A r \in Runs : At(r, l, "idle")
    /\ l \notin stuck \cup marked

Quiet(l) == Unattended(l) /\ ack[l] = "idle"

\* No rule notifies the user twice for one page: it is recorded before it is
\* sent, and the record is read again before each rule.  Holds while runs of
\* the cron job do not overlap; two of them may both read the record first, or
\* one may write its copy of the column over the other's.
NotifiedOnce == \A l \in Logs, n \in Rules : sent[l][n] <= 1

\* A page that the cron job has completed has notified the user by every rule
\* he has, when no step failed: neither overlapping runs nor their lost updates
\* make a rule be passed over.
AllNotified ==
    \A l \in Logs :
        (Quiet(l) /\ status[l] = "Completed" /\ ~acked[l] /\ failures = 0) =>
            \A n \in rules : sent[l][n] > 0

\* What the dashboard shows for the page is what has become of it.
RowTellsStatus(l) ==
    row[l] = IF acked[l] THEN "SuccessfullyAcknowledged"
             ELSE IF status[l] = "Executing" THEN "NotificationSent"
             ELSE RowOf(status[l])

\* A page that has ended and that nothing works on is over: no tick, edited
\* rule or late acknowledgement ever takes it up or notifies the user again.
EndedStaysSilent ==
    [][\A l \in Logs : (Unattended(l) /\ status[l] \in Terminal) =>
          (Unattended(l) /\ status[l] \in Terminal)' /\ sent'[l] = sent[l]]_vars

\* Every page ends: one that has been started is completed or errored at last,
\* though the request, a run or the timeout job may die, and the rules change.
PageEnds == \A l \in Logs : status[l] \in {"Started", "Executing"} ~> status[l] \in Terminal
=============================================================================
