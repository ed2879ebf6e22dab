# OneUptime: TLA+ models of the incident path

OneUptime watches monitors with probes, opens incidents when criteria are met,
pages the people on call and shows the status on status pages. This directory
models the part of it that has to be right when something is down: from the
result of a probe, through the status of the monitor and the life of an
incident, to the escalation of an on-call policy and the notifications of a
user; what pauses a monitor and hands it to a probe; and the workflows that
events trigger. Everything is TypeScript on PostgreSQL and Redis; nothing runs
in a database transaction, so every model has one step per query and asks what
happens between two of them.

| module | models | abstracts from |
|---|---|---|
| `MonitorEvaluation` | the evaluation of probes' results: status, automatic resolution and creation of incidents | how a criterion's filters are evaluated |
| `MonitorStatusTimeline` | the timeline of a monitor's statuses, its mutex, nested hooks, deletions | dates, as the order of rows |
| `StatusHistory` | abstract: what a status timeline promises its readers | how many queries a change takes |
| `IncidentLifecycle` | states and timelines of a monitor's incidents, the pause of active monitoring | notes, owners, notification flags |
| `EscalationRules` | the ordered rules of an on-call policy and the requests that create, delete and move them | which users a rule pages |
| `OnCallExecution` | the execution log of an on-call policy: creation, escalation, repeats, timeout, acknowledgement | which user a rule resolves to |
| `UserNotification` | the log of one paged user: immediate and delayed rules, timeout, acknowledgement by link | e-mail, SMS and calls, as one notification |
| `ScheduledMaintenance` | events, the two cron jobs that move them, their timeline, the pause of monitors | dates, as before, during and after |
| `MonitorFetch` | which monitors a probe is given: the mutex, `nextPingAt`, the limit, lost responses | how a monitor is checked |
| `WorkflowGraph` | the traversal of a workflow's graph by one run | what a component computes |
| `WorkflowRun` | the logs and jobs of workflow runs: requests, schedules, workers, redelivery, timeout | the graph (`WorkflowGraph`) |

`OnCallExecution` extends `EscalationRules`: a log executes while the policy is
edited. The other modules are connected by rows of the database: `UserNotification` begins
where `OnCallExecution` pages a user and its acknowledgement is that module's
`AckLog`; `IncidentLifecycle` and `ScheduledMaintenance` write the flags that
`MonitorFetch` reads as `paused` and that `MonitorEvaluation` refuses results
by; the status changes of `MonitorEvaluation` and `ScheduledMaintenance` are one
step each because `MonitorStatusTimeline` implements `StatusHistory`.

`MC...` modules hold the history variables and constants TLC needs; `...Proofs`
modules hold the theorems. Run `tlc -config X.cfg MCmodule.tla` for a run and
`tlapm ModuleProofs.tla` for the proofs.

## Inventory

Paths are relative to `src/`. `PROJECT.json` lists every part, also those that
are not modelled.

### The path from a probe to a page

1. **Distribution of monitors** (`Ingestor/API/Monitor.ts`). A probe asks for a
   list; under a mutex keyed by the probe the rows of `MonitorProbe` that are
   due are read and their `nextPingAt` is advanced.
   *State*: `nextPingAt`, `lastPingAt`. *Hard*: a lost response, a second
   request of the same probe. *Correct*: each monitor once per interval.
2. **Evaluation** (`CommonServer/Utils/Probe/ProbeMonitorResponse.ts`). Each
   result is processed by its own request, which fetches the monitor, finds the
   first criterion that is met, and then changes the status, looks for open
   incidents, resolves and creates some. *State*: the monitor's status, open
   incidents with `createdCriteriaId` and `createdIncidentTemplateId`. *Hard*:
   several probes, no lock, decisions on what was read first. *Correct*: one
   incident per template, status and incidents follow the criterion.
3. **Status of a monitor** (`MonitorStatusTimelineService.ts`,
   `MonitorService.changeMonitorStatus`). A row per status; creating a row ends
   the previous one and copies the status to the monitor, whose own hook may ask
   for the change again. *State*: rows, `currentMonitorStatusId`, the Redis mutex
   of the monitor. *Hard*: the mutex spans two hooks and a query, is not
   reentrant, and is not released by an exception; deletions ignore it.
   *Correct*: rows follow each other without gap or overlap, the monitor has the
   status of the newest one, the mutex is always released.
4. **Incidents** (`IncidentService.ts`, `IncidentStateTimelineService.ts`).
   Creating an incident changes the monitors' status, adds the first row of
   its timeline, executes on-call policies and, for an incident created by a
   person, pauses active monitoring as its last step. Any further row updates
   the incident, and for the resolved state lets the monitors go unless another
   manual incident is active. *Hard*: hooks of incident and timeline call each
   other, nothing is locked, the pause is a flag that two requests write.
   *Correct*: paused exactly as long as a manual incident is active.
5. **On-call policies** (`OnCallDutyPolicyService.ts`,
   `OnCallDutyPolicyExecutionLogService.ts`,
   `OnCallDutyPolicyEscalationRuleService.ts`, two cron jobs). Executing a
   policy creates a log; the first rule runs in the same request, the others from
   a job that fires every minute. *State*: the log's status, last rule, wait and
   repeat count. *Hard*: the job works on a snapshot, may overlap with itself,
   crash between recording a rule and paging it, and races acknowledgements; a
   log remembers its place by an `order`, which every edit of the policy shifts
   in a loop of single updates. *Correct*: every rule once per round, in order,
   after its wait; the log ends; edits leave the orders 1, 2, ...
6. **Notification rules of a user** (`UserNotificationRuleService.ts`,
   `UserOnCallLog*.ts`, two cron jobs). The same pattern once more, per user.
   *State*: `executedNotificationRules`, a JSON column that is read and written
   back whole, the status of the user's log, and its copy in the policy's
   timeline. *Hard*: the acknowledging link goes out while the creating request
   is still at work; a snapshot decides what is left to do. *Correct*: each rule
   notifies once, none is passed over, the log ends, the copy tells the truth.

Calls go down this list. Back up go the acknowledgement of a page
(`UserOnCallLogTimelineService.onUpdateSuccess` completes the policy's log and
acknowledges the incident) and resolution (`markMonitorsActiveForMonitoring`
resumes the monitor and makes it operational, which the next evaluation reads).

### Beside it

- **Scheduled maintenance** (`ScheduledMaintenanceService.ts`,
  `ScheduledMaintenanceStateTimelineService.ts`, two cron jobs): events with the
  same kind of timeline, started and ended by the jobs, with a pause flag of
  their own. *Hard*: the jobs work on snapshots beside users who move, edit and
  delete events; two events share a monitor. *Correct*: paused exactly as long as
  an event is ongoing, every event ends, none is reopened by a job.
- **Ordered settings**: like escalation rules, incident states, severities,
  statuses and status page resources keep an `order` that their services shift
  in loops of single updates. *Correct*: the orders stay 1, 2, ...
- **On-call schedules** (`Common/Types/OnCallDutyPolicy/Layer.ts`): a pure
  function from layers, restrictions and a time to the user on call.
- **Workflows** (`App/FeatureSet/Workflow`): a run log, a BullMQ job that walks
  the graph of components, a job that times out runs. *Hard*: the count against
  the plan and the creation are two queries, BullMQ hands a job out again,
  the timeout job races with the workers. *Correct*: the plan is exceeded by
  concurrent requests only, a result stands, every log ends, every component the
  ports lead to runs once.
- **Jobs**: cron jobs through BullMQ (`App/FeatureSet/Workers/Utils/Cron.ts`,
  `CommonServer/Infrastructure/QueueWorker.ts`); owner and subscriber
  notifications read unnotified rows, mark one, send.
- **Database service** (`CommonServer/Services/DatabaseService.ts`): the order of
  `onBefore...`, query, `on...Success`; an exception anywhere leaves what was done.
- **Identity, permissions, teams, projects, billing, telemetry, status pages,
  notification providers, front ends, agent, deployment**: see `PROJECT.json`
  for the reason each is left out (I/O, sequential, declarations or views).

## MonitorEvaluation

| code | model |
|---|---|
| a request that processes a result | an element of `Results`, at `stage[r]` |
| the fetched monitor, compared with criterion and default status | `Receive`, `FirstStage` |
| `criteriaMetCreateIncidentsAndUpdateMonitorStatus` | `ChangeStatus`, `FindOpen`, `Create`, `AllCreated` |
| `checkOpenIncidentsAndCloseIfResolved`, `shouldCloseIncident`, `resolveOpenIncident` | `FindOpen`, `ShouldClose`, `Close`, `AllClosed` |
| `markMonitorsActiveForMonitoring` after a resolution | `Release` |
| the change to the default status | `SetDefault` |
| exception or crash | `Fails` |
| people: resolve, set a status, open and resolve a manual incident | `People` |

The monitor's configuration is constant: `TemplatesOf`, `StatusOf`,
`AutoResolve`, `Default`. An incident is a number; numbers of resolved incidents
are used again once no request knows them, so the model is finite without
bounding the length of a behaviour. Results and people never stop.

Run **`evaluation`** (2 results, 3 incidents, 2 criteria, 3 templates of which 2
resolve automatically; 241,029 states): `StatusSettles`, after two
undisturbed results with the same outcome the status is the one configured;
`IncidentsSettle`, after one undisturbed result that meets a criterion its
incidents are open and those of others resolved; `NoDuplicateInTurn`;
`DuplicatesBounded`. The first two start from whatever races, crashes and
people left. Two results race over two criteria; three incidents allow one more
duplicate than `DuplicatesBounded` admits, so its violation would be seen.
*Undisturbed* is a history variable: nobody else moved from the first step of
the result to its last.

Run **`evaluation_resolve`** (violation, `AutoResolved`): one probe, no people.
The results meet one criterion, then a second one, then none. The second result
sets its status and then resolves the first criterion's incident, which makes
the monitor operational; when none is met the status already is the default, so
the code never looks at the second's incident, and it stays open. The dashboard
says "Automatically resolve this incident when this criteria is no longer met."
The same step is why one undisturbed result is not enough in `StatusSettles`.

Simplifications: a change of status is one step (justified by `ChangesAreAtomic`
below), the check for manual incidents and the change to operational are one
step (`IncidentLifecycle` has them apart), people do not reopen incidents.

## MonitorStatusTimeline and StatusHistory

| code | model |
|---|---|
| `changeMonitorStatus`, comparing with the last row | `Begin`, `Check` |
| `onBeforeCreate`: `Semaphore.lock`, the last row | `Acquire`, `AcquireTimesOut`, `ReadLast` |
| `DatabaseService.create` | `Save` |
| `onCreateSuccess`: end of the last row, the monitor, release | `EndLast`, `SetMonitor`, `Release` |
| `MonitorService.onUpdateSuccess`, the change asked for again | `Recheck`, `NestedTimesOut` |
| `onBeforeDelete`, the query, `onDeleteSuccess` | `BeginDelete` ... `CopyStatus` |
| an exception in a hook; the process dies | `CreateThrows`, `CreateCrashes`, `DeleteFails` |

Rows are numbered by `createdAt`; `endsAt` is the row at whose beginning a row
ends. The mutex of redis-semaphore is renewed while its process lives: after an
exception it stays taken (`"leaked"`), after a crash its lease expires.

`StatusHistory` is the abstract specification: a list to which one status is
added at a time, the one before ending in the same instant, until a request is
interrupted. The refinement mapping (`History`) shows a row as ended as soon as
its successor is saved, and the monitor with the status a creation is about to
write, because a creation takes effect when it saves its row.

- **`status_changes`** (3 creations at a time, 4 rows, one exception or crash;
  121k states): `OpenRowsBounded` (at most one row left open per fault),
  `ChangesAreAtomic` (the refinement), `LockIsReleased` (liveness).
  `NeverWaitsForItself` (the nested change never asks for the mutex of its own
  request) is proved, see below.
- **`status_deletions`** (one creation and one deletion at a time, two faults;
  1.46M states): `EndsAfterItBegins` always, `TimelineWholeInTurn` as long as
  requests have not overlapped.

Four rows are enough to have a row with neighbours on both sides while another
is created. Deletion is not atomic and with more than one request beside it the
model shows two things no run claims the absence of. Two deletions count two
rows each and delete both, though line 177 refuses "Cannot delete the only
status timeline." And the status copied to the monitor may be older than a
change made meanwhile, which only the next change repairs.

## IncidentLifecycle

| code | model |
|---|---|
| `IncidentService.create` | `Create`, then `ChangeMonitorStatus`, the change of state, `Pause` |
| a row created by API, dashboard, acknowledgement or probe | `AddState` |
| `IncidentService.onUpdateSuccess` | `SetState` |
| `changeIncidentState` | `Look` |
| `IncidentStateTimelineService` hooks | `FindLast`, `Insert`, `EndLast`, `SetCurrent` |
| the update of the incident with the caller's properties and its hook | `SetCurrent` to `"look"`, `nested`, `ChangeReturns` |
| `markMonitorsActiveForMonitoring` | `Count`, `Resume`, `Operational` |
| deletion of an incident | `Delete`, then `Count` ... |
| exception or crash | `Fails` |

The single monitor stands for each of an incident's monitors: the loops over
monitors touch each one independently. States are the three the code
distinguishes; a project's further states behave like `"Acknowledged"`.
Adding owners and executing policies lie between the first row and the pause
and touch nothing of this model, except that they may throw: `Fails`.

Requests interleave freely; the history `disordered` says whether one has begun that
does not fit `InOrder`: an incident is not resolved or deleted while its creation or
another change of it is in progress, none is reopened, and none is created while
one is being resolved. This is the weakest order found under which the pause is
right; each of its clauses is there because TLC shows a counterexample without
it. Resolutions and deletions of different incidents, and of the same one, still
interleave freely in order.

- **`incidents`** (a manual and an automatic incident, three requests, of which
  only two begin once one is out of order or fails, one fault; 801k states):
  `PausedInOrder`, `ResumedInOrder`, `OperationalInOrder`; `ChangesEnd`, the mutual
  recursion of the hooks adds at most two rows for a change, in whatever order;
  `TimelineWholeInTurn`, as long as requests have not overlapped.

A request is one operation, so the number of `Requests` bounds the history, and
the run may stop (`CHECK_DEADLOCK FALSE`). Three requests let two resolve
different incidents while a third deletes or changes one.

Out of order `ResumedWhenResolved` fails: an incident resolved
while the request that creates it has not reached its last step leaves the
monitor paused with nothing left to resolve, though probes are told "Please
resolve the incident to start monitoring again."

Other behaviour the model contains and no document speaks about: reopening an
incident does not pause its monitor again; an acknowledgement racing the creation
can be overwritten by it; resolving a manual incident makes the monitor
operational while an automatic one is open.

## EscalationRules

| code | model |
|---|---|
| `onBeforeCreate`: the order asked for, or the number of rules plus one | `Insert` |
| `onBeforeDelete`, the query, `onDeleteSuccess` | `Delete`: the row is gone before the others are renumbered |
| `onBeforeUpdate` of a rule that is dragged to another place | `MoveUp`, `MoveDown` |
| the query of `rearrangeOrder` | `Behind` |
| its loop, and those of `onBeforeUpdate`: one update per rule | `Renumber` |
| the write the edit is for | `Finish` |
| the request dies, or an update throws | `CutShort` |

Any rule may be deleted or moved to any other place, a new one may be created at
any place from 1 to one past the last. `edit` is the request in progress,
`pending` the rules it has found and not yet renumbered. One edit of a policy is in progress at a time: two
at once renumber from the same query and lose each other's updates, against
which the code has nothing.

`rearrangeOrder` goes by ascending order, the moves in the order of a query
without one. `MoveDown` is the code's: it lowers every rule up to the new order,
those before the old one included (line 682). Dragging the second of three rules
to the end leaves the orders 0, 3 and 2; no rule has order 1 any more, and the next
incident's log ends with "No Escalation Rules in Policy."
(`OnCallDutyPolicyExecutionLogService.ts:88`), though the policy has three.

What the other edits promise is therefore stated for policies in which nobody has
moved a rule down and no edit was cut short (the history `mishaps` says which
happened): `PositionsKept`, between edits the orders are 1, 2, ... It is checked in
the run of `OnCallExecution`, which composes the two, and proved for any number of
rules and edits.

## OnCallExecution

| code | model |
|---|---|
| `executePolicy`, creation of the log | `Create` |
| `onCreateSuccess` of the log | `CreatorFind`, `CreatorStart`, `CreatorNotify`, `CreatorFinish` |
| `startRuleExecution`: record the rule, then page its users | `RecordRule`, `PageUsers` |
| the query of `ExecutePendingExecutions` | `Snapshot` |
| `executeOnCallPolicy` | `TaskNotDue`, `TaskNext`, `TaskLast`, `TaskRepeat`, `TaskFirst`, `TaskStart`, `TaskNotify`, `TaskComplete`, `TaskFail` |
| `TimeoutStuckExecutions` | `FindStuck`, `MarkStuck`, `StuckAborts` |
| acknowledgement of a page, of the incident on the dashboard | `AckLog`, `AckIncident`, `DashboardAck` |
| exceptions, crashes | `CreatorDies`, `TaskThrows`, `WorkerCrash` |
| the steps of `EscalationRules`, a minute passes | `EditPolicy`, `Tick` |

Time is minutes as saturating ages. `pages` is a history of who was paged,
`begun` of the rules recorded since the first. `Runs` are the ticks of the cron
job in progress together: one element means that runs do not overlap.

A rule is looked up by its order (`Found`: any of the rules that have it) and
then started by its id, so between the two it may be renumbered, which records
its new order (`RecordRule`), or deleted, which makes `startRuleExecution` throw.
Renumbering moves rules under a log that remembers an order: a rule created
before one that was executed, or a move, gives an executed rule the order after
the log's last one, and it is paged again in the same round; deleting an executed rule
makes the log pass over the next one. One edit,
finished between two runs of the job, is enough, and no document promises otherwise. The properties say what remains, with
two histories for what a log has seen since it was created:

- `raised`: rules that shared an order, or an edit that gives rules higher
  ones, that is a creation before another rule, or a move. `PagedOncePerRound` is
  about all other logs: deletions anywhere and creations at the end, finished,
  in progress or cut short, page nobody twice.
- `shifted`: rules not in sequence, or any edit but a creation that appends.
  `EscalatesInOrder` and `NoRuleLeftOut` are about all other logs.

The runs:

- **`oncall_escalation`** (one log, one run at a time, up to two rules, one edit
  of any kind, one failure, `RepeatTimes` 2; 224k states): `PagedOncePerRound`;
  `EscalatesInOrder`, a call starts the first rule or the one before which
  exactly the rules in front of it are recorded; `NoRuleLeftOut`, a round is
  closed, for a repeat or for good, only when every rule has been recorded in
  it and, if nothing failed, paged once; `PositionsKept`; `EndedStaysEnded` (a log
  that has ended and that nothing works on is never revived); and under fairness
  `StartedIsResolved` and `ExecutionEnds`.
- **`oncall_repeats`** (violation, `RepeatedAsConfigured`): the count of
  executions starts at 1 and is compared with `<`
  (`ExecutePendingExecutions.ts:106`), so N configured repeats give N - 1, though
  the form asks for "The number of times to repeat the on-call policy if no one
  acknowledges the incident." (`Escalation.tsx:310`). With `<=` the property holds
  in this run.

Logs are independent of each other but for the snapshot, which treats each
separately, hence one log. Two rules and two rounds are the least in which a rule
can be skipped, repeated or carried over between rounds; with one edit a rule is
created before or behind another one, or one of two is deleted or moved, at every
point of the log's life. More rules, edits, logs and failures are the theorems'.
Ages saturate at the largest wait. With two runs at a time `PagedOncePerRound`,
`EscalatesInOrder` and `WaitRespected` do not hold: the second run starts the
same rule again. The code has no guard against it (queue workers run ten jobs
concurrently), and no document excludes it; `EndedStaysEnded` still holds, and is
proved for any number of runs.

The job looks at the log only, so an incident acknowledged on the dashboard goes on
being escalated and repeated, while the policy "will repeat if no one acknowledges the
incident." (`Escalation.tsx:298`); an acknowledgement by link or call completes the
log. The toggle of that line is stored but the job reads only the number of repeats.
A request that dies before `Started` is written leaves a `Scheduled` log that no job
picks up.

## UserNotification

| code | model |
|---|---|
| `startUserNotificationRulesExecution`, creation of the user's log | `Create` |
| `onCreateSuccess` of the log | `Start`, `CountRules`, `NoRules`, `MarkRowAgain`, `FindImmediate`, `Finish`, `MarkRowSent` |
| `executeNotificationRuleItem`, for the request and the job alike | `TakeRule`, `RecordExecuted`, `SendNotification`, `LoopEnds` |
| `onUpdateSuccess`: the copy to the row of the policy's timeline | `WriteStatus`, `CopyStatus`, `CopyStuck`, `AckCopy` |
| the query and the call per log of `ExecutePendingExecutions` | `Snapshot`, `FindDue`, `Complete`, `MarkFailed`, `CallThrows` |
| `TimeoutStuckExecutions` | `FindStuck`, `MarkStuck`, `StuckAborts` |
| the link or the call's digit, and the hook it updates | `FollowLink`, `AckLog` ... `AckIncident`, `AckThrows` |
| crashes, a user's edits, a minute passes | `RequestDies`, `WorkerCrash`, `AddRule`, `RemoveRule`, `Tick` |

The column `executedNotificationRules` is read (`TakeRule`), then written back
whole with one rule more (`RecordExecuted`), then the notification goes out. The
decision what is left to do is made on the older copy of the snapshot. `sent` is
a history. A removed rule is not added again to a page it was executed for.

- **`user_notifications`** (one page, an immediate and a delayed rule, one tick of
  the job at a time, two failures; 489k states): `NotifiedOnce`;
  `UneditedAllNotified`, a page the job completes has notified by every rule;
  `RowTruthfulInTurn`, the dashboard's row tells what became of the page, as long
  as no two writers overlapped and none failed; `EndedStaysSilent`; `PageEnds`.

`StuckAfter` is 0 and ages end at 1, the wait of the second rule: the timeout job
is as eager as the code allows, so every race with it is there. Pages are
independent of each other but for the snapshot, which treats each separately.
With two ticks at a time `NotifiedOnce` fails (both read the column before either
writes it), while the other invariants and `EndedStaysSilent` hold (4.5M states
without failures, too many for a run). A link followed while the creating
request is still sending is undone by that request's `Executing`
(`UserOnCallLogService.ts:219`): the page goes on although it was acknowledged.
The model contains this, and only `EndedStaysSilent`'s condition that the request
is done keeps it from being a counterexample.

## ScheduledMaintenance

| code | model |
|---|---|
| the queries of the two cron jobs, their loop | `Snapshot`, `NextEvent`, `Moved` |
| `changeAttachedMonitorStates` | `Attach` |
| `changeScheduledMaintenanceState` | `Check`, `Record`, `Rewrite` |
| `onCreateSuccess` of a timeline row | `Apply`, `ReadMonitors`, `Pause`, `RowDone` |
| `enableActiveMonitoringForMonitors` | `Resume`, `Lift`, `Reset` |
| creation, update and deletion of an event | `CreateEvent`, `UpdateState`, `DeleteEvent` |
| a row created or deleted on the dashboard | `CreateRow`, `DeleteRow`, `RereadLast`, `Restore` |
| edits of the monitors or the dates, time, failures | `EditMonitors`, `Reschedule`, `Tick`, `Abort` |

The ended and the resolved state have the same hooks and are one. Of the rows
before the last only their states are kept, so a deletion may uncover any of
them. An event that a user moves back to scheduled is started by the job again.

- **`maintenance`** (two events of one monitor, a tick of each job at a time, one
  user; 632k states): `PausedInTurn`, `ResumedInTurn`, `EndedStaysEnded`,
  `EventsEnd`. A history bounds what follows a disturbance, that is a failure, an
  overlap or an edit of the monitors: undisturbed, both events and three moves;
  afterwards one event (`EventsTogether`) and one move (`MovesTogether`). The two
  invariants say nothing after a disturbance, and `EndedStaysEnded` is proved
  without any of these bounds.

Why *in turn*: with both jobs at work TLC finds the monitor of an ongoing event
resumed (counted before the event began, resumed after), and the maintenance
status left on a monitor whose event was ended before `Attach`. `EventsEnd`
excepts an event whose last row differs from its state: `Rewrite` after a user's
change, or a failure between `Record` and `Apply`, makes one, and `Check` returns
early on it for ever. A monitor removed from an ongoing event stays paused though
probes are told "Please end the scheduled maintenance event to start monitoring
again" (`ProbeMonitorResponse.ts:115`): nothing looks at an edit of the monitors.

## MonitorFetch

| code | model |
|---|---|
| the loop of a probe's worker | `Ask`, `Probed` |
| `POST /monitor/list`: mutex, query, updates, release | `Acquire`, `AcquireTimesOut`, `Find`, `Mark`, `Release` |
| the secrets and the response | `Respond` |
| the catch block; a crash or a lost response | `Throw`, `Crash` |
| the lease of redis-semaphore | `LeaseExpires`, `Stall` |
| `nextPingAt` passes; the flags of the query | `ComesDue`, `Toggle` |

Time is the set `due` and the order `before` in which its members became due.
`owed` counts, per monitor, the times it was due less the times it was handed
out. A lease is lost by a live holder when its event loop stalls (`Stall`).

- **`monitor_fetch`** (two monitors, responses of one, two workers, two failures,
  one stall, one toggle of a flag; 283k states): `NeverTooOften`, `NoneForgotten`
  and the liveness property `ProbedAgain`. A limit of one makes the order of the
  query matter: with the newest first, a monitor starves.

## WorkflowGraph and WorkflowRun

| code | model |
|---|---|
| `makeRunStack` | `RunStacks`, an element of `Graphs` |
| the loop of `runWorkflow` | `ExecuteHead`, `RefuseHead`, `TimesOut`, `Finish`; its `forEach` over the targets `Queue`, one target a step |
| `addWorkflowToQueue` | `Read`, `Count`, `Refuse`, `CreateLog`, `AddJob`, `Abandon` |
| a repeatable job of BullMQ | `Fire` |
| `runWorkflow` around the loop | `Load`, `OpenLog`, `Start`, `Execute`, `Throw`, `Write`, `WriteThrows` |
| the worker and the queue | `Take`, `Returns`, `Redeliver`, `Stall`, `Crash` |
| `TimeoutJobs` | `ReadStuck`, `MarkStuck`, `ReaperThrows`, `Grow` |

- **`workflow_graph`** (6,567 graphs: three components with up to two edges of
  each in any order, two ports, placeholders, no trigger; 137k states):
  `ReachedIsExecuted`, `CyclicHasTwoWays`, `WalkEnds`. The
  converse of `CyclicHasTwoWays` does not hold: "Cyclic Workflow Detected" is
  said of an acyclic graph in which A leads to C and B, and B to C. A component
  that chooses no port ends the run with success and drops the branches that are
  still waiting.
- **`workflow`** (two requests and one schedule, two workers, a plan of no logs,
  two tries, up to two throws and two crashes, one stall, together with the runs
  three (`MaxEvents`); 635k states): `RunsBounded`, `PromptNotReaped`,
  `ResultStands`, `LogsEnd`. `Limit` 0 with `>` admits the first log, so one
  request in turn and two concurrent ones are the boundary.

A log the timeout job has marked "not picked up" keeps its job in the queue: a
worker that takes it later runs the workflow and overwrites the mark, which is why
`ResultStands` excepts the logs in `reap` and `reaped`. `LogsEnd` excepts
`LeftRunning`: a log whose final update threw in the catch block, whose job the
queue gave up, or that an attempt of a schedule left to the next one. No job
looks at `Running` logs.

## Fairness

Liveness is stated under weak fairness only, for what the code itself drives:

- `OnCallExecution`, `UserNotification`: the clock, taking a snapshot, each call
  of a run, the timeout job, a creating request that lives and an acknowledgement
  that has begun. BullMQ repeats both jobs every minute and `Promise.allSettled`
  runs all calls. No fairness for users, administrators, creation or failures;
  failures are bounded by `MaxFailures`, since a job that fails for ever ends
  nothing.
- `MonitorStatusTimeline`: a request that has begun, since Node runs its
  continuation once the query answers. Waiting for the mutex ends by
  `AcquireTimesOut` (10 s). A leaked mutex is exempt by the property's own words.
- `ScheduledMaintenance`: time, both jobs, the steps of whoever is at work.
- `MonitorFetch`: the workers' endless loop, the steps of a request, time, the
  lease of a dead holder, and that one of the waiting requests gets a free mutex
  (not each of them: redis-semaphore retries without a queue).
- `WorkflowGraph`: a component comes back, if only with an error. `WorkflowRun`:
  requests, workers, the queue's stalled-job check, the timeout job and time.

## What is proved

Proved for every value of the constants, from the `ASSUME` of each module (finite
bounds are numbers, the configuration has the right types; where a property
counts requests or writers, that there are finitely many of them) and nothing
else unless named. Every invariant and action property of a passing run is
stated by a theorem.

The properties over history variables are about the specification that has
them (`HistorySpec`). The `...InTurn` ones speak of behaviours in which a count
has never seen two actors at work; each proof first turns that count into "any
two actors at work are the same" (`Alone`, `OneAtWork`, `OneInFlight`), which is
what makes the single actor's own stages the whole case analysis.

**EscalationRules**, in `OnCallExecutionProofs`: `OrdersStayInSequence`, for any
number of rules and edits. In the middle of an edit the orders repeat or have gaps, so
`PositionsKept` is not inductive. What is: the orders the rules *will* have once
`pending` is worked off and the edit has finished (`Future`) are in sequence
(`FutureOrder`). `Renumber` and `Finish` do not change this future, a new edit
starts one that is in sequence because the present is, and with no edit in
progress the future is the present.

**OnCallExecution**: `TypeCorrect` and `EndedForGood` for any number of logs,
edits and overlapping runs. `PagedAtMostOnce`, `EscalationOrdered`,
`EscalationWaits` and `RoundsComplete` under `OneRun` (runs do not overlap), each
of them with any edits at any time. None is inductive: a
call may page only if the round it works on is the log's and its rule is not yet
paged in it, which holds because a rule is recorded before it is paged, and a
snapshot starts behind the recorded rule. `EscalationInv` says so per log, in
three layers that claim more the less the policy was edited. `BasicInv`, for every log: where the
request stands (`CreatorInv`), what each stage of a call agrees with the log on,
and that rounds to come are empty.
`UnraisedInv`, while no order has risen: orders are distinct at every step of an edit, a rule
that is paged in the round has an order no higher than the log's last one, and the
rule in a call's hands a higher one until it is recorded; deletions only lower
what has been paged, and the renumbered rules behind stay apart from it because
they are lowered from the lowest up. `UnshiftedInv`, while rules are only appended:
the rules recorded are exactly those up to the last order, and all of them but the
one being paged have paged once if nothing failed. One lemma per action shows the log
it touches keeps them; edits are a lemma each, for all logs at once.

**MonitorStatusTimeline**: `TimelineTypeCorrect`; `RowsEndAfterTheyBegin` (every
row a request holds is older than the one it is to be ended by, as an
invariant over stages); under `NoDeletions` (`Deleters = {}`) `NoSelfDeadlock`
and `ChangesLookAtomic`. The last two rest on `LockInv`: whoever is in a critical
stage holds the mutex, its `last` row is the newest before its own, and from
`Save` on its own row is the newest, which is what the nested change finds.
`ChangesLookAtomic` is the refinement: every step is an `Add`, `Interrupted`
or a stutter of `StatusHistory`; `SeenUntilFault` says that until the first fault
all rows but the newest are shown as ended. `OpenRowsAreBounded`, also under
`NoDeletions`: a row that is open, not the newest and that nobody is still to end
 (`Lost`) costs a fault each (`NextLost`). With
deletions, `RowsWholeInTurn`: `InTurnInv` says for each stage of the one creation or
deletion in progress which rows are linked (`Linked`, of neighbours in the set of
rows present) and which one is about to be, so removing a row between its
neighbours and ending a row before a new one both leave the timeline whole.

**IncidentLifecycle**: `IncidentTypeCorrect` for `Spec`; `MonitoringIsPaused` and
`MonitoringIsResumed` for `HistorySpec`. Neither is inductive. `OrderedInv`, which
holds until a request begins out of order, adds
to `TypeOK` and the shape of requests, until the first fault: `Tidy` (requests
on an incident that is being resolved all resolve it), `Idle`, `Paused`,
`Backed` (a request past `Count` has no active manual incident to fear) and
`Watched`: when no manual incident is active and the monitor is paused, some
request is still going to resume it. The heart is that this witness survives: of
several resolving requests, the last one to update its incident is the one
whose count finds no other (`WitnessKept`, `WitnessSteps`). `MonitorIsRestored`
uses the same witness for the status, with `Restored`: a monitor that is down and
has no active incident has a request that will count, or is making it operational.
`ChangesEndForAll`, for `Spec` with any interleaving and any faults: the rows of an
incident are no more than one for its creation and, per change, one once it has
`Added` and a second once it has `AddedTwo` (`Counted`); a nested change adds no
third, because whoever set `nested` has already inserted (`Single`).
`TimelinesWholeInTurn` for `HistorySpec` rests on `Halfway`, what each stage of the one
running request has done to its incident's rows.

**MonitorEvaluation**: `EvaluationTypeCorrect`, with `Routed` (a stage that writes
a status has one to write; plans are empty outside the stages that carry them
out); `DuplicatesAreBounded`: the open incidents of a template and the results
that may still create one are together no more than the results. A result joins
the creators only when none is open and leaves them when it creates one.
`NoDuplicatesInTurn` for results that never overlap, whatever people do and wherever a
request fails: the one request in flight creates only what is not open
(`OneOpen`). `IncidentsAlwaysSettle` and `StatusAlwaysSettles` for a result, or two in
a row, that nothing disturbs: `CourseInv` says what the plan of the request
still has to resolve and to create (`IncidentsOnCourse`), that the first one
leaves nothing to resolve, and hence that no later one makes the monitor operational
after it has written its status (`StatusOnCourse`).

**UserNotification**: `TypeCorrect`; `EndedForGood` for any number of pages, rules
and overlapping ticks; `NotifiedAtMostOnce` under `OneRun`. The first two need that
a step is one worker's on one page (`WorkerStepFrame`, `OtherStepFrame`).
`NotifiedOnce` is not inductive: `OnceInv` adds per page that until the request has
made it Executing no tick works on it and afterwards the request sends no more
(`TurnInv`), so one worker at a time holds the copy of the column, and that a rule
which is neither recorded nor about to be recorded has not been sent (`RecordInv`).

`CompletedAfterAll` holds without `OneRun`, for any number of overlapping ticks, which
lose each other's updates of the column. A lost update takes a rule off the
record, so the column itself says too little; `Promised` says that a rule has been
sent or is about to be by the worker that recorded it, and `PromiseInv` that all
rules in the column, in any copy of it and, for a run that will complete the page,
all rules of the user are promised. When nothing is in progress, a promised rule
has been sent.

`RowsTellTheTruth` is about four kinds of writers (the request, the ticks,
acknowledgements, the timeout job), none of which reads what it overwrites.
`TruthInv` says what each of them knows before it writes, since it was alone since it
took the page up: a tick still finds `Executing` and the row
`NotificationSent`, the timeout job `Started` and not acknowledged
(`WriterInv`, `RequestInv`, `OthersInv`), and that a page at rest has the right row
(`Settles`), which is what the next writer starts from.

**ScheduledMaintenance**: `TypeCorrect` and `JobsNeverReopen`. `IInv` adds that
whoever is at work has an event (`Placed`); each action keeps its own event
(`Keeps`), and a snapshot holds scheduled and ongoing events only, so a settled
event enters no job. `PausedWhileInTurn` and `ResumedOnceOver`, for `HistorySpec`: every
property of a monitor ranges over all events that share it, so `Calm` says that all
events and monitors are in order, `CalmBut(e)` that all but the event at work
are, and `TurnInv` which of the event's monitors are still to be paused or
restored at each stage; a monitor is left alone exactly when another ongoing event
has it (`HasMoreOngoing`), and that event's own end restores it.

**MonitorFetch**: `TypeCorrect`, `NoCheckForgotten`, `NeverFetchedTooOften`, by
counting requests. The first count is inductive as it stands: a mark moves a
monitor from `due` to a request, a failure takes one request away and is counted.
The second needs `Allowed`: the requests that still may hand a monitor out
(`Claimants`: those that marked it, and those that lost the mutex before they
did), with the monitor itself while it is `Open`, are no more than it is owed and
the stalls. Only a stall makes a claimant without a due monitor.

**WorkflowRun**: `TypeCorrect`, `PromptIsSafe`, `ResultsStand`, `RunsAreBounded`.
`WInv` ties workers to jobs: `Working` (a worker's attempt is one there has been),
`Distinct` (no two at the same attempt), `Fresh`. `HInv` ties logs to both:
`EarlyLog`, `JobLog`, `NotOpened`, `ReapedLogs`, `PromptLogs` (a log taken up in
time is not among those the cron job has read), `Begun` and `Stood` (a result
written by the only attempt means that its worker has left). `RunsAreBounded`
counts (`CInv`): the requests whose log exists are mapped injectively to the logs
that a count sees, and those that have counted and not yet written their log are at
most `crowd`, so a count within the limit missed no more than `crowd`.

**WorkflowGraph**, in the same proof module, for any `Graphs`: `WalkTypeCorrect` (no
component waits twice),
`WalkExecutesReached`, `WalkCyclicMeets`. The targets of a port are queued one at a time, as the code
does, so no fold has to be reasoned about and no induction over a sequence is needed:
`WalkSets` relates what has been executed to all that waits, in the queue or
for it (`Queued`). Both are reached, each executed component's targets are in one of
them, which with an empty queue makes `executed` closed; whatever is in either has
a way to it (`OneWay`), and what is in both has two (`TwoWays`), since the
component that queues it again had not been executed when it was first queued.
`SetsAfter` is the one step that changes these sets.

`WalkTypeOK`, the other modules' `TypeOK`, `WaitRespected` and `NeverWaitsForItself` are in no run:
the theorems say them for every value of the constants.

Only model-checked: liveness (`StartedIsResolved`, `ExecutionEnds`,
`LockIsReleased`, `PageEnds`, `EventsEnd`, `ProbedAgain`, `WalkEnds`, `LogsEnd`),
which is out of the prover's reach.

## Bounds

`MaxRules`, `MaxOrder`, `MaxEdits`, `MaxAge`, `MaxFailures`, `MaxRows`, `MaxFaults`, `MaxMoves`,
`MaxToggles`, `MaxStalls`, `MaxThrows`, `MaxCrashes`, `MaxTries`, `MaxEvents`,
`EventsTogether`, `MovesTogether`, `Together` and the sets of logs, runs, requests, workers,
monitors, events, results and incidents bound the runs; each is commented where it
is declared and discussed with its run. Symmetry is used only in runs without
temporal properties, over sets of requests and identifiers that no constant tells
apart. A run may stop (`CHECK_DEADLOCK FALSE`) where requests, moves or the graph
run out: `incidents`, `maintenance`, `workflow`, `workflow_graph`.

## Not modelled

- Hard deletion of old rows, the deletion of single rows of an incident's
  timeline, edits of a monitor's criteria while results are processed, the lapse
  of a live holder's lease in `MonitorStatusTimeline` (`MonitorFetch` has it).
- Time zones and dates as such; the on-call schedules' layers are a pure function
  of them, whose cases are calendar arithmetic rather than interleavings.
- Two edits of one policy's rules at once, the users, teams and schedules a rule is
  created with, and the order of four other kinds of settings, which is kept by
  the same hooks and which no job walks along.
- The delivery status of a single e-mail, SMS or call, owners' and subscribers'
  notifications: one row marked and one message sent, best effort.
- What a component computes, removing a schedule's repeatable key, the 30 days of
  the plan's count.
- The generated CRUD API, permissions, identity, billing, telemetry, status pages,
  front ends and the agent: `PROJECT.json` gives the reason for each. They are most
  of the repository's lines and hold declarations, views, sequential checks and
  calls of other services.

## What is left

Worth adding, in this order: an abstract pause that `IncidentLifecycle` and
`ScheduledMaintenance` both implement, composed with `MonitorFetch`; the
composition of `OnCallExecution` and `UserNotification`; two edits of a policy at
once, to name what they do preserve; schedules by minutes against a reference
definition.
