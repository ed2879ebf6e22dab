---------------------------- MODULE WorkflowRun ----------------------------
(***************************************************************************)
(* The runs of a project's workflows.  A request (a person, an event or an *)
(* incoming call) counts the project's logs, creates a log and adds a job  *)
(* to the queue; a schedule adds jobs without a log.  A worker takes a     *)
(* job, marks its log Running, executes the workflow's graph (see          *)
(* WorkflowGraph) and writes the result.  A cron job marks the logs that   *)
(* have been Scheduled for five minutes.                                   *)
(*                                                                         *)
(* The queue is BullMQ: it hands the job of a worker that has died, or     *)
(* whose event loop has stalled, to another worker, and gives up after     *)
(* MaxTries.                                                               *)
(***************************************************************************)
EXTENDS Integers, FiniteSets

CONSTANTS Requests,   \* calls of addWorkflowToQueue
          Repeats,    \* times at which a workflow's schedule fires
          Workers,
          NoRun,
          Limit,      \* logs of the last 30 days that the plan allows
          MaxTries,
          MaxThrows, MaxCrashes, MaxStalls \* bounds on what goes wrong

Runs == Requests \cup Repeats

ASSUME RunAssumption ==
    /\ IsFiniteSet(Requests) /\ IsFiniteSet(Repeats)
    /\ Requests \cap Repeats = {} /\ NoRun \notin Runs
    /\ Limit \in Nat /\ MaxTries \in Nat \ {0}
    /\ {MaxThrows, MaxCrashes, MaxStalls} \subseteq Nat

\* A requested run has one log; the attempts of a scheduled one have one each.
Logs == (Requests \X {1}) \cup (Repeats \X (1..MaxTries))

Final  == {"Success", "Error", "Timeout"}
Status == {"none", "Scheduled", "Running", "WorkflowCountExceeded"} \cup Final

Outcome == Final \cup {"none"}

Stage == {"idle", "load", "log", "start", "walk", "write"}

Work == [stage : Stage, run : Runs \cup {NoRun}, attempt : 0..MaxTries, outcome : Outcome]

Idle == [stage |-> "idle", run |-> NoRun, attempt |-> 0, outcome |-> "none"]

VARIABLES
    req,     \* stage of each request, and whether a schedule has fired
    log,     \* status of each log
    old,     \* logs created more than five minutes ago
    job, tries,
    work,    \* what each worker is at
    reap,    \* the cron job's snapshot
    crowd,   \* history: most requests between their count and their log
    prompt,  \* history: logs that a worker took up within five minutes
    reaped,  \* history: logs that the cron job has marked
    throws, crashes, stalls

queueVars == <<job, tries>>
historyVars == <<crowd, prompt, reaped>>
faults == <<throws, crashes, stalls>>
vars == <<req, log, old, queueVars, work, reap, historyVars, faults>>

TypeOK ==
    /\ req \in [Runs -> {"idle", "count", "refuse", "log", "job", "done"}]
    /\ log \in [Logs -> Status]
    /\ old \in SUBSET Logs
    /\ job \in [Runs -> {"none", "queued", "active", "done", "failed"}]
    /\ tries \in [Runs -> 0..MaxTries]
    /\ work \in [Workers -> Work]
    /\ reap \in SUBSET Logs
    /\ crowd \in 0..Cardinality(Requests)
    /\ prompt \in SUBSET Logs /\ reaped \in SUBSET Logs
    /\ throws \in 0..MaxThrows /\ crashes \in 0..MaxCrashes /\ stalls \in 0..MaxStalls

Init ==
    /\ req = [r \in Runs |-> "idle"]
    /\ log = [l \in Logs |-> "none"]
    /\ old = {}
    /\ job = [r \in Runs |-> "none"]
    /\ tries = [r \in Runs |-> 0]
    /\ work = [w \in Workers |-> Idle]
    /\ reap = {}
    /\ crowd = 0 /\ prompt = {} /\ reaped = {}
    /\ throws = 0 /\ crashes = 0 /\ stalls = 0

-----------------------------------------------------------------------------
(* addWorkflowToQueue.                                                     *)

ReqAt(r, s) == req[r] = s

ReqGoTo(r, s) == req' = [req EXCEPT ![r] = s]

SetLog(l, s) == log' = [log EXCEPT ![l] = s]

LogCount == Cardinality({l \in Logs : log[l] # "none"})

\* The workflow is disabled or gone, the subscription is unpaid, or the logs are
\* counted.
Read(r) ==
    /\ ReqAt(r, "idle")
    /\ \E s \in {"done", "refuse", "count"} : ReqGoTo(r, s)
    /\ UNCHANGED <<log, old, queueVars, work, reap, historyVars, faults>>

\* Mutant: the count is that of the requests that have added their job.
WithinLimitOfJobs == Cardinality({r \in Requests : job[r] # "none"}) <= Limit

WithinLimit == LogCount <= Limit

Count(r) ==
    /\ ReqAt(r, "count")
    /\ ReqGoTo(r, IF WithinLimit THEN "log" ELSE "refuse")
    /\ LET together == Cardinality({q \in Requests : req'[q] = "log"})
       IN  crowd' = IF together > crowd THEN together ELSE crowd
    /\ UNCHANGED <<log, old, queueVars, work, reap, prompt, reaped, faults>>

Refuse(r) ==
    /\ ReqAt(r, "refuse")
    /\ SetLog(<<r, 1>>, "WorkflowCountExceeded")
    /\ ReqGoTo(r, "done")
    /\ UNCHANGED <<old, queueVars, work, reap, historyVars, faults>>

CreateLog(r) ==
    /\ ReqAt(r, "log")
    /\ SetLog(<<r, 1>>, "Scheduled")
    /\ ReqGoTo(r, "job")
    /\ UNCHANGED <<old, queueVars, work, reap, historyVars, faults>>

AddJob(r) ==
    /\ ReqAt(r, "job")
    /\ job' = [job EXCEPT ![r] = "queued"]
    /\ ReqGoTo(r, "done")
    /\ UNCHANGED <<log, old, tries, work, reap, historyVars, faults>>

\* A query or Redis throws, or the process dies.
Abandon(r) ==
    /\ req[r] \in {"count", "refuse", "log", "job"}
    /\ throws < MaxThrows /\ throws' = throws + 1
    /\ ReqGoTo(r, "done")
    /\ UNCHANGED <<log, old, queueVars, work, reap, historyVars, crashes, stalls>>

\* A workflow's schedule adds a job that has no log; nothing is counted.
Fire(r) ==
    /\ ReqAt(r, "idle")
    /\ job' = [job EXCEPT ![r] = "queued"]
    /\ ReqGoTo(r, "done")
    /\ UNCHANGED <<log, old, tries, work, reap, historyVars, faults>>

-----------------------------------------------------------------------------
(* runWorkflow.                                                            *)

At(w, s) == work[w].stage = s

LogOf(r, n) == IF r \in Repeats THEN <<r, n>> ELSE <<r, 1>>

CurrentLog(w) == LogOf(work[w].run, work[w].attempt)

HasLog(w) == log[CurrentLog(w)] # "none"

Become(w, new) == work' = [work EXCEPT ![w] = new]

GoTo(w, s) == Become(w, [work[w] EXCEPT !.stage = s])

Ends(w, outcome) == Become(w, [work[w] EXCEPT !.stage = "write", !.outcome = outcome])

Leave(w) == Become(w, Idle)

\* The queue takes no notice of a worker whose job it has handed to another.
Returns(w) ==
    /\ Leave(w)
    /\ job' = [job EXCEPT ![work[w].run] = IF tries[work[w].run] = work[w].attempt THEN "done" ELSE @]

Take(w) ==
    /\ At(w, "idle")
    /\ \E r \in Runs :
          /\ job[r] = "queued"
          /\ job' = [job EXCEPT ![r] = "active"]
          /\ tries' = [tries EXCEPT ![r] = @ + 1]
          /\ Become(w, [stage |-> "load", run |-> r, attempt |-> tries[r] + 1, outcome |-> "none"])
    /\ UNCHANGED <<req, log, old, reap, historyVars, faults>>

Load(w) ==
    /\ At(w, "load")
    /\ GoTo(w, IF HasLog(w) THEN "start" ELSE "log")
    /\ UNCHANGED <<req, log, old, queueVars, reap, historyVars, faults>>

OpenLog(w) ==
    /\ At(w, "log")
    /\ SetLog(CurrentLog(w), "Scheduled")
    /\ GoTo(w, "start")
    /\ UNCHANGED <<req, old, queueVars, reap, historyVars, faults>>

Start(w) ==
    /\ At(w, "start")
    /\ SetLog(CurrentLog(w), "Running")
    /\ prompt' = prompt \cup ({CurrentLog(w)} \ old)
    /\ GoTo(w, "walk")
    /\ UNCHANGED <<req, old, queueVars, reap, crowd, reaped, faults>>

\* Mutant: the timer writes the time-out itself, and the run goes on.
ExecuteTimed(w) ==
    /\ At(w, "walk")
    /\ Ends(w, "Success")
    /\ log' \in {log, [log EXCEPT ![CurrentLog(w)] = "Timeout"]}
    /\ UNCHANGED <<req, old, queueVars, reap, historyVars, faults>>

\* The graph is executed: a run that ends, ends with one of these.
Execute(w) ==
    /\ At(w, "walk")
    /\ \E outcome \in Final : Ends(w, outcome)
    /\ UNCHANGED <<req, log, old, queueVars, reap, historyVars, faults>>

\* A query throws; without a log there is nowhere to write the error.
Throw(w) ==
    /\ work[w].stage \in {"load", "log", "start", "walk"}
    /\ throws < MaxThrows /\ throws' = throws + 1
    /\ \/ HasLog(w) /\ Ends(w, "Error") /\ UNCHANGED job
       \/ ~HasLog(w) /\ Returns(w)
    /\ UNCHANGED <<req, log, old, tries, reap, historyVars, crashes, stalls>>

Write(w) ==
    /\ At(w, "write")
    /\ SetLog(CurrentLog(w), work[w].outcome)
    /\ Returns(w)
    /\ UNCHANGED <<req, old, tries, reap, historyVars, faults>>

\* The error of the update is caught once: what fails in the catch block leaves
\* the log as it is.
WriteThrows(w) ==
    /\ At(w, "write")
    /\ throws < MaxThrows /\ throws' = throws + 1
    /\ \/ work[w].outcome = "Success" /\ Ends(w, "Error") /\ UNCHANGED job
       \/ work[w].outcome # "Success" /\ Returns(w)
    /\ UNCHANGED <<req, log, old, tries, reap, historyVars, crashes, stalls>>

Crash(w) ==
    /\ ~At(w, "idle")
    /\ crashes < MaxCrashes /\ crashes' = crashes + 1
    /\ Leave(w)
    /\ UNCHANGED <<req, log, old, queueVars, reap, historyVars, throws, stalls>>

-----------------------------------------------------------------------------
(* The queue, and the cron job TimeoutJobs.                                *)

HeldBy(r, w) == work[w].run = r /\ work[w].attempt = tries[r]

\* Mutant: the job of a dead worker is lost.
HandBackNever(r) == job' = [job EXCEPT ![r] = "failed"]

HandBack(r) == job' = [job EXCEPT ![r] = IF tries[r] < MaxTries THEN "queued" ELSE "failed"]

\* The worker has died.
Redeliver(r) ==
    /\ job[r] = "active" /\ \A w \in Workers : ~HeldBy(r, w)
    /\ HandBack(r)
    /\ UNCHANGED <<req, log, old, tries, work, reap, historyVars, faults>>

\* The worker goes on, but has not renewed its hold on the job.
Stall(r) ==
    /\ job[r] = "active" /\ \E w \in Workers : HeldBy(r, w)
    /\ stalls < MaxStalls /\ stalls' = stalls + 1
    /\ HandBack(r)
    /\ UNCHANGED <<req, log, old, tries, work, reap, historyVars, throws, crashes>>

\* Mutant: the ages are compared the wrong way round.
StuckYoung == {l \in Logs \ old : log[l] = "Scheduled"}

Stuck == {l \in old : log[l] = "Scheduled"}

ReadStuck ==
    /\ reap = {} /\ Stuck # {}
    /\ reap' = Stuck
    /\ UNCHANGED <<req, log, old, queueVars, work, historyVars, faults>>

MarkStuck ==
    /\ \E l \in reap :
          /\ SetLog(l, "Error")
          /\ reap' = reap \ {l}
          /\ reaped' = reaped \cup {l}
    /\ UNCHANGED <<req, old, queueVars, work, crowd, prompt, faults>>

ReaperThrows ==
    /\ reap # {} /\ reap' = {}
    /\ throws < MaxThrows /\ throws' = throws + 1
    /\ UNCHANGED <<req, log, old, queueVars, work, historyVars, crashes, stalls>>

\* The age of a log is looked at only while it is Scheduled.
Grow(l) ==
    /\ log[l] = "Scheduled" /\ l \notin old
    /\ old' = old \cup {l}
    /\ UNCHANGED <<req, log, queueVars, work, reap, historyVars, faults>>

-----------------------------------------------------------------------------
Proceed(r) == Count(r) \/ Refuse(r) \/ CreateLog(r) \/ AddJob(r)

Step(w) ==
    Take(w) \/ Load(w) \/ OpenLog(w) \/ Start(w) \/ Execute(w) \/ Write(w)

Next ==
    \/ \E r \in Requests : Read(r) \/ Proceed(r) \/ Abandon(r)
    \/ \E r \in Repeats : Fire(r)
    \/ \E w \in Workers : Step(w) \/ Throw(w) \/ WriteThrows(w) \/ Crash(w)
    \/ \E r \in Runs : Redeliver(r) \/ Stall(r)
    \/ ReadStuck \/ MarkStuck \/ ReaperThrows
    \/ \E l \in Logs : Grow(l)

Spec == Init /\ [][Next]_vars

\* Requests and workers make progress, the queue notices dead workers, time
\* passes and the cron job keeps firing.
Fairness ==
    /\ \A r \in Requests : WF_vars(Proceed(r))
    /\ \A w \in Workers : WF_vars(Step(w))
    /\ \A r \in Runs : WF_vars(Redeliver(r))
    /\ WF_vars(ReadStuck) /\ WF_vars(MarkStuck)
    /\ \A l \in Logs : WF_vars(Grow(l))

FairSpec == Spec /\ Fairness

-----------------------------------------------------------------------------
(* Properties.                                                             *)

Admitted == {r \in Requests : log[<<r, 1>>] \notin {"none", "WorkflowCountExceeded"}}

\* The requests never run more often than the plan allows, but for those that
\* counted before each other's log was there (one when they come in turn).
RunsBounded == Cardinality(Admitted) <= Limit + crowd

\* A run that a worker takes up in time is never marked as not picked up, in
\* whatever order the cron job and the worker write.
PromptNotReaped == prompt \cap reaped = {}

\* The result of a run stands, unless the queue has handed the job to a second
\* worker, or the cron job has found the log waiting too long.
ResultStands ==
    [][\A l \in Logs :
          log[l] \in Final /\ log'[l] # log[l] =>
              tries[l[1]] > 1 \/ l \in reap \cup reaped]_vars

\* Left Running: the final update threw, the queue has given up, or the log is
\* that of an attempt of a schedule, which is begun again with another log.
LeftRunning(l) ==
    /\ log[l] = "Running"
    /\ throws > 0 \/ crashes + stalls >= MaxTries \/ (l[1] \in Repeats /\ tries[l[1]] > 1)

\* No log waits forever, and one that runs comes to its end although its worker
\* dies.
LogsEnd ==
    <>[](\A l \in Logs :
            log[l] \in {"none", "WorkflowCountExceeded"} \cup Final \/ LeftRunning(l))
=============================================================================
