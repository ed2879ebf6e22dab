------------------------- MODULE WorkflowRunProofs --------------------------
(* Theorems about WorkflowRun, and about the walk of a run through its     *)
(* graph (WorkflowGraph), for every value of their constants.              *)
EXTENDS WorkflowRun, WorkflowGraph, FiniteSetTheorems, TLAPS

USE RunAssumption

-----------------------------------------------------------------------------
(* The jobs and the workers.                                               *)

ReqStage == {"idle", "count", "refuse", "log", "job", "done"}
JobState == {"none", "queued", "active", "done", "failed"}

\* A worker at work has a run, at one of the attempts there have been.
Working ==
    \A w \in Workers :
        IF At(w, "idle")
        THEN work[w].run = NoRun
        ELSE /\ work[w].run \in Runs
             /\ work[w].attempt \in 1..tries[work[w].run]
             /\ job[work[w].run] # "none"
             /\ At(w, "write") => work[w].outcome \in Final

\* No two workers are at the same attempt.
Distinct ==
    \A v, w \in Workers :
        v # w /\ ~At(v, "idle") /\ work[v].run = work[w].run => work[v].attempt # work[w].attempt

\* A job begins with the last step of its request, and is queued only while the
\* queue has not given up.
Fresh ==
    \A r \in Runs :
        /\ req[r] # "done" => job[r] = "none"
        /\ job[r] = "none" => tries[r] = 0
        /\ job[r] = "queued" => tries[r] < MaxTries

WInv ==
    /\ req \in [Runs -> ReqStage] /\ job \in [Runs -> JobState]
    /\ tries \in [Runs -> 0..MaxTries] /\ work \in [Workers -> Work]
    /\ Working /\ Distinct /\ Fresh

LEMMA InitWInv == Init => WInv
BY DEF Init, WInv, Working, Distinct, Fresh, At, Idle, Work, Stage, Outcome, Final, ReqStage, JobState

\* A worker goes on with its run.
LEMMA GoesOn ==
    ASSUME WInv, NEW w \in Workers, NEW new \in Work, Become(w, new), UNCHANGED <<req, queueVars>>,
           ~At(w, "idle"), new.stage # "idle", new.run = work[w].run,
           new.attempt = work[w].attempt, new.stage = "write" => new.outcome \in Final
    PROVE  WInv'
<1>1. /\ work' \in [Workers -> Work] /\ work'[w] = new
      /\ \A v \in Workers : v # w => work'[v] = work[v]
    BY DEF Become, WInv
<1>2. Working' /\ Distinct' /\ Fresh'
    BY <1>1 DEF WInv, Working, Distinct, Fresh, At, queueVars
<1>3. QED
    BY <1>1, <1>2 DEF WInv, queueVars

LEMMA GoToWInv ==
    ASSUME WInv, NEW w \in Workers, NEW s \in Stage \ {"idle", "write"}, GoTo(w, s), ~At(w, "idle"),
           UNCHANGED <<req, queueVars>>
    PROVE  WInv'
<1> DEFINE new == [work[w] EXCEPT !.stage = s]
<1>1. work[w] \in Work
    BY DEF WInv
<1>2. new \in Work /\ new.stage = s /\ new.run = work[w].run /\ new.attempt = work[w].attempt
    BY <1>1 DEF Work
<1>3. Become(w, new)
    BY DEF GoTo
<1> HIDE DEF new
<1>4. QED
    BY <1>2, <1>3, GoesOn

LEMMA EndsWInv ==
    ASSUME WInv, NEW w \in Workers, NEW o \in Final, Ends(w, o), ~At(w, "idle"),
           UNCHANGED <<req, queueVars>>
    PROVE  WInv'
<1> DEFINE new == [work[w] EXCEPT !.stage = "write", !.outcome = o]
<1>1. work[w] \in Work
    BY DEF WInv
<1>2. /\ new \in Work /\ new.stage = "write" /\ new.run = work[w].run
      /\ new.attempt = work[w].attempt /\ new.outcome = o
    BY <1>1 DEF Work, Stage, Outcome
<1>3. Become(w, new)
    BY DEF Ends
<1> HIDE DEF new
<1>4. QED
    BY <1>2, <1>3, GoesOn

\* A worker leaves, whatever becomes of jobs there have been.
LEMMA LeaveWInv ==
    ASSUME WInv, NEW w \in Workers, Leave(w), UNCHANGED <<req, tries>>, job' \in [Runs -> JobState],
           \A r \in Runs : /\ job'[r] = "none" <=> job[r] = "none"
                           /\ job'[r] = "queued" => job[r] = "queued"
    PROVE  WInv'
<1>1. Idle \in Work /\ Idle.stage = "idle" /\ Idle.run = NoRun
    BY DEF Idle, Work, Stage, Outcome
<1>2. /\ work' \in [Workers -> Work] /\ work'[w] = Idle
      /\ \A v \in Workers : v # w => work'[v] = work[v]
    BY <1>1 DEF Leave, Become, WInv
<1>3. Working'
    BY <1>1, <1>2 DEF WInv, Working, At
<1>4. Distinct'
    BY <1>1, <1>2 DEF WInv, Working, Distinct, At
<1>5. Fresh'
    BY DEF WInv, Fresh
<1>6. QED
    BY <1>2, <1>3, <1>4, <1>5 DEF WInv

LEMMA ReturnsWInv ==
    ASSUME WInv, NEW w \in Workers, Returns(w), ~At(w, "idle"), UNCHANGED <<req, tries>>
    PROVE  WInv'
<1>1. work[w].run \in Runs /\ job[work[w].run] # "none"
    BY DEF WInv, Working
<1>2. /\ job' \in [Runs -> JobState]
      /\ \A r \in Runs : /\ job'[r] = "none" <=> job[r] = "none"
                         /\ job'[r] = "queued" => job[r] = "queued"
    BY <1>1 DEF Returns, WInv, JobState
<1>3. QED
    BY <1>2, LeaveWInv DEF Returns

\* What a worker that takes a job gets.
LEMMA TakeStep ==
    ASSUME WInv, NEW w \in Workers, Take(w)
    PROVE  \E r \in Runs :
              /\ job[r] = "queued" /\ tries[r] < MaxTries
              /\ job' \in [Runs -> JobState] /\ tries' \in [Runs -> 0..MaxTries]
              /\ work' \in [Workers -> Work]
              /\ job'[r] = "active" /\ tries'[r] = tries[r] + 1
              /\ \A q \in Runs : q # r => job'[q] = job[q] /\ tries'[q] = tries[q]
              /\ work'[w].stage = "load" /\ work'[w].run = r /\ work'[w].attempt = tries[r] + 1
              /\ \A v \in Workers : v # w => work'[v] = work[v]
<1>1. PICK r \in Runs :
          /\ job[r] = "queued"
          /\ job' = [job EXCEPT ![r] = "active"]
          /\ tries' = [tries EXCEPT ![r] = @ + 1]
          /\ Become(w, [stage |-> "load", run |-> r, attempt |-> tries[r] + 1, outcome |-> "none"])
    BY DEF Take
<1>2. tries[r] < MaxTries /\ tries[r] \in 0..MaxTries
    BY <1>1 DEF WInv, Fresh
<1> DEFINE new == [stage |-> "load", run |-> r, attempt |-> tries[r] + 1, outcome |-> "none"]
<1>3. /\ new \in Work /\ new.stage = "load" /\ new.run = r /\ new.attempt = tries[r] + 1
    BY <1>2 DEF Work, Stage, Outcome
<1>4. work' = [work EXCEPT ![w] = new]
    BY <1>1 DEF Become
<1> HIDE DEF new
<1>5. /\ work' \in [Workers -> Work] /\ work'[w] = new
      /\ \A v \in Workers : v # w => work'[v] = work[v]
    BY <1>3, <1>4 DEF WInv
<1>6. job' \in [Runs -> JobState] /\ tries' \in [Runs -> 0..MaxTries]
    BY <1>1, <1>2 DEF WInv, JobState
<1>7. /\ job'[r] = "active" /\ tries'[r] = tries[r] + 1
      /\ \A q \in Runs : q # r => job'[q] = job[q] /\ tries'[q] = tries[q]
    BY <1>1 DEF WInv
<1>8. QED
    BY <1>1, <1>2, <1>3, <1>5, <1>6, <1>7

LEMMA TakeWInv ==
    ASSUME WInv, NEW w \in Workers, Take(w)
    PROVE  WInv'
<1>1. PICK r \in Runs :
              /\ job[r] = "queued" /\ tries[r] < MaxTries
              /\ job' \in [Runs -> JobState] /\ tries' \in [Runs -> 0..MaxTries]
              /\ work' \in [Workers -> Work]
              /\ job'[r] = "active" /\ tries'[r] = tries[r] + 1
              /\ \A q \in Runs : q # r => job'[q] = job[q] /\ tries'[q] = tries[q]
              /\ work'[w].stage = "load" /\ work'[w].run = r /\ work'[w].attempt = tries[r] + 1
              /\ \A v \in Workers : v # w => work'[v] = work[v]
    BY TakeStep
<1>2. tries[r] \in Nat /\ req' = req /\ req[r] = "done" /\ At(w, "idle") /\ work[w].run = NoRun
    BY <1>1 DEF Take, WInv, Fresh, Working
<1>3. Working'
    <2> SUFFICES ASSUME NEW v \in Workers, ~At(v, "idle")'
                 PROVE  /\ work'[v].run \in Runs
                        /\ work'[v].attempt \in 1..tries'[work'[v].run]
                        /\ job'[work'[v].run] # "none"
                        /\ At(v, "write")' => work'[v].outcome \in Final
        <3>1. \A v \in Workers : At(v, "idle")' => work'[v].run = NoRun
            BY <1>1 DEF WInv, Working, At
        <3>2. QED
            BY <3>1 DEF Working
    <2>1. CASE v = w
        BY <1>1, <1>2, <2>1 DEF At
    <2>2. CASE v # w
        <3>1. work'[v] = work[v] /\ ~At(v, "idle")
            BY <1>1, <2>2 DEF At
        <3>2. /\ work[v].run \in Runs /\ work[v].attempt \in 1..tries[work[v].run]
              /\ job[work[v].run] # "none" /\ (At(v, "write") => work[v].outcome \in Final)
            BY <3>1 DEF WInv, Working
        <3>3. tries[work[v].run] \in Nat /\ tries'[work[v].run] \in {tries[work[v].run], tries[work[v].run] + 1}
            BY <1>1, <3>2 DEF WInv
        <3>4. work[v].attempt \in 1..tries'[work[v].run] /\ job'[work[v].run] # "none"
            BY <1>1, <3>2, <3>3
        <3>5. QED
            BY <3>1, <3>2, <3>4 DEF At
    <2>3. QED
        BY <2>1, <2>2
<1>4. Distinct'
    <2>1. \A v \in Workers : v # w /\ ~At(v, "idle") /\ work[v].run = r => work[v].attempt # tries[r] + 1
        BY <1>2 DEF WInv, Working
    <2>2. QED
        BY <1>1, <1>2, <2>1 DEF WInv, Working, Distinct, At
<1>5. Fresh'
    BY <1>1, <1>2 DEF WInv, Fresh
<1>6. QED
    BY <1>1, <1>2, <1>3, <1>4, <1>5 DEF WInv

\* A request goes to its next step; a job is added by the last one.
LEMMA RequestWInv ==
    ASSUME WInv, NEW r \in Runs, req[r] # "done", NEW s \in ReqStage, ReqGoTo(r, s),
           UNCHANGED <<tries, work>>,
           UNCHANGED job \/ (s = "done" /\ job' = [job EXCEPT ![r] = "queued"])
    PROVE  WInv'
<1>1. tries[r] = 0 /\ job[r] = "none"
    BY DEF WInv, Fresh
<1>2. req' = [req EXCEPT ![r] = s] /\ req' \in [Runs -> ReqStage]
    BY DEF ReqGoTo, WInv
<1>3. job' \in [Runs -> JobState] /\ \A q \in Runs : q # r => job'[q] = job[q]
    BY DEF WInv, JobState
<1>4. job'[r] \in {"none", "queued"} /\ (s # "done" => job'[r] = "none")
    BY <1>1 DEF WInv
<1>5. Fresh'
    BY <1>1, <1>2, <1>3, <1>4 DEF WInv, Fresh
<1>6. \A w \in Workers : ~At(w, "idle") => work[w].run # r
    BY <1>1 DEF WInv, Working
<1>7. Working'
    BY <1>3, <1>6 DEF WInv, Working, At
<1>8. Distinct'
    BY DEF WInv, Distinct, At
<1>9. QED
    BY <1>2, <1>3, <1>5, <1>7, <1>8 DEF WInv

\* The queue hands a job back or gives it up.
LEMMA HandBackWInv ==
    ASSUME WInv, NEW r \in Runs, job[r] = "active", HandBack(r), UNCHANGED <<req, tries, work>>
    PROVE  WInv'
<1>1. /\ job' \in [Runs -> JobState] /\ job'[r] \in {"queued", "failed"}
      /\ job'[r] = "queued" => tries[r] < MaxTries
      /\ \A q \in Runs : q # r => job'[q] = job[q]
    BY DEF HandBack, WInv, JobState
<1>2. Fresh'
    BY <1>1 DEF WInv, Fresh
<1>3. Working' /\ Distinct'
    BY <1>1 DEF WInv, Working, Distinct, At
<1>4. QED
    BY <1>1, <1>2, <1>3 DEF WInv

LEMMA NextWInv == WInv /\ [Next]_vars => WInv'
<1> SUFFICES ASSUME WInv, [Next]_vars PROVE WInv'
    OBVIOUS
<1>1. ASSUME NEW r \in Requests, Read(r) PROVE WInv'
    BY <1>1, RequestWInv DEF Read, ReqAt, Runs, ReqStage, queueVars
<1>2. ASSUME NEW r \in Requests, Count(r) PROVE WInv'
    BY <1>2, RequestWInv DEF Count, ReqAt, Runs, ReqStage, queueVars
<1>3. ASSUME NEW r \in Requests, Refuse(r) PROVE WInv'
    BY <1>3, RequestWInv DEF Refuse, ReqAt, Runs, ReqStage, queueVars
<1>4. ASSUME NEW r \in Requests, CreateLog(r) PROVE WInv'
    BY <1>4, RequestWInv DEF CreateLog, ReqAt, Runs, ReqStage, queueVars
<1>5. ASSUME NEW r \in Requests, AddJob(r) PROVE WInv'
    BY <1>5, RequestWInv DEF AddJob, ReqAt, Runs, ReqStage
<1>6. ASSUME NEW r \in Requests, Abandon(r) PROVE WInv'
    BY <1>6, RequestWInv DEF Abandon, Runs, ReqStage, queueVars
<1>7. ASSUME NEW r \in Repeats, Fire(r) PROVE WInv'
    BY <1>7, RequestWInv DEF Fire, ReqAt, Runs, ReqStage
<1>8. ASSUME NEW w \in Workers, Load(w) PROVE WInv'
    BY <1>8, GoToWInv DEF Load, At, Stage
<1>9. ASSUME NEW w \in Workers, OpenLog(w) PROVE WInv'
    BY <1>9, GoToWInv DEF OpenLog, At, Stage
<1>10. ASSUME NEW w \in Workers, Start(w) PROVE WInv'
    BY <1>10, GoToWInv DEF Start, At, Stage
<1>11. ASSUME NEW w \in Workers, Execute(w) PROVE WInv'
    BY <1>11, EndsWInv DEF Execute, At
<1>12. ASSUME NEW w \in Workers, Throw(w) PROVE WInv'
    BY <1>12, EndsWInv, ReturnsWInv DEF Throw, At, Final, queueVars
<1>13. ASSUME NEW w \in Workers, Write(w) PROVE WInv'
    BY <1>13, ReturnsWInv DEF Write, At
<1>14. ASSUME NEW w \in Workers, WriteThrows(w) PROVE WInv'
    BY <1>14, EndsWInv, ReturnsWInv DEF WriteThrows, At, Final, queueVars
<1>15. ASSUME NEW w \in Workers, Crash(w) PROVE WInv'
    <2>1. job' = job /\ job \in [Runs -> JobState]
        BY <1>15 DEF Crash, queueVars, WInv
    <2>2. QED
        BY <1>15, <2>1, LeaveWInv DEF Crash, queueVars
<1>16. ASSUME NEW r \in Runs, Redeliver(r) PROVE WInv'
    BY <1>16, HandBackWInv DEF Redeliver
<1>17. ASSUME NEW r \in Runs, Stall(r) PROVE WInv'
    BY <1>17, HandBackWInv DEF Stall
<1>18. ASSUME UNCHANGED <<req, queueVars, work>> PROVE WInv'
    BY <1>18 DEF WInv, Working, Distinct, Fresh, At, queueVars
<1>19. CASE ReadStuck \/ MarkStuck \/ ReaperThrows
    BY <1>18, <1>19 DEF ReadStuck, MarkStuck, ReaperThrows
<1>20. CASE \E l \in Logs : Grow(l)
    BY <1>18, <1>20 DEF Grow
<1>21. CASE UNCHANGED vars
    BY <1>18, <1>21 DEF vars
<1>22. QED
    BY <1>1, <1>2, <1>3, <1>4, <1>5, <1>6, <1>7, <1>8, <1>9, <1>10, <1>11, <1>12, <1>13, <1>14,
       <1>15, <1>16, <1>17, <1>19, <1>20, <1>21, TakeWInv DEF Next, Proceed, Step

-----------------------------------------------------------------------------
(* Types.                                                                  *)

LInv ==
    /\ log \in [Logs -> Status]
    /\ old \in SUBSET Logs /\ reap \in SUBSET Logs
    /\ prompt \in SUBSET Logs /\ reaped \in SUBSET Logs
    /\ crowd \in 0..Cardinality(Requests)
    /\ throws \in 0..MaxThrows /\ crashes \in 0..MaxCrashes /\ stalls \in 0..MaxStalls

IInv == WInv /\ LInv

LEMMA IInvTypes == IInv => TypeOK
BY DEF IInv, WInv, LInv, TypeOK, ReqStage, JobState

LEMMA CurrentLogType ==
    ASSUME WInv, NEW w \in Workers, ~At(w, "idle")
    PROVE  CurrentLog(w) \in Logs /\ CurrentLog(w)[1] = work[w].run
<1>1. work[w].run \in Runs /\ work[w].attempt \in 1..tries[work[w].run]
    BY DEF WInv, Working
<1>2. work[w].attempt \in 1..MaxTries
    BY <1>1 DEF WInv
<1>3. QED
    BY <1>1, <1>2 DEF CurrentLog, LogOf, Logs, Runs

LEMMA RequestLogs == \A r \in Requests : <<r, 1>> \in Logs
BY DEF Logs

LEMMA SetLogType ==
    ASSUME LInv, NEW l \in Logs, NEW s \in Status, SetLog(l, s)
    PROVE  log' \in [Logs -> Status] /\ log'[l] = s /\ \A k \in Logs : k # l => log'[k] = log[k]
BY DEF LInv, SetLog

\* A step that leaves the logs alone, but for one that may fail.
LEMMA FaultLInv ==
    ASSUME LInv, UNCHANGED <<log, old, reap, historyVars>>,
           throws' \in 0..MaxThrows, crashes' \in 0..MaxCrashes, stalls' \in 0..MaxStalls
    PROVE  LInv'
BY DEF LInv, historyVars

LEMMA SetLogLInv ==
    ASSUME LInv, NEW l \in Logs, NEW s \in Status, SetLog(l, s), UNCHANGED <<old, crowd, faults>>,
           reap' \in SUBSET Logs, prompt' \in SUBSET Logs, reaped' \in SUBSET Logs
    PROVE  LInv'
BY SetLogType DEF LInv, faults

LEMMA RequestSubsets ==
    ASSUME NEW S \in SUBSET Requests
    PROVE  IsFiniteSet(S) /\ Cardinality(S) \in 0..Cardinality(Requests)
BY FS_Subset, FS_CardinalityType

LEMMA CountLInv ==
    ASSUME LInv, NEW r \in Requests, Count(r)
    PROVE  LInv'
<1>1. Cardinality({q \in Requests : req'[q] = "log"}) \in 0..Cardinality(Requests)
    BY RequestSubsets
<1>2. crowd' \in 0..Cardinality(Requests)
    BY <1>1 DEF Count, LInv
<1>3. QED
    BY <1>2 DEF Count, LInv, faults

LEMMA NextLInv == WInv /\ LInv /\ [Next]_vars => LInv'
<1> SUFFICES ASSUME WInv, LInv, [Next]_vars PROVE LInv'
    OBVIOUS
<1>0. /\ throws \in 0..MaxThrows /\ crashes \in 0..MaxCrashes /\ stalls \in 0..MaxStalls
      /\ prompt \in SUBSET Logs /\ reaped \in SUBSET Logs /\ reap \in SUBSET Logs
    BY DEF LInv
<1>1. ASSUME NEW r \in Requests, Refuse(r) PROVE LInv'
    BY <1>0, <1>1, RequestLogs, SetLogLInv DEF Refuse, Status, historyVars
<1>2. ASSUME NEW r \in Requests, CreateLog(r) PROVE LInv'
    BY <1>0, <1>2, RequestLogs, SetLogLInv DEF CreateLog, Status, historyVars
<1>3. ASSUME NEW w \in Workers, OpenLog(w) PROVE LInv'
    BY <1>0, <1>3, CurrentLogType, SetLogLInv DEF OpenLog, At, Status, historyVars
<1>4. ASSUME NEW w \in Workers, Start(w) PROVE LInv'
    <2>1. CurrentLog(w) \in Logs
        BY <1>4, CurrentLogType DEF Start, At
    <2>2. QED
        BY <1>0, <1>4, <2>1, SetLogLInv DEF Start, Status
<1>5. ASSUME NEW w \in Workers, Write(w) PROVE LInv'
    <2>1. CurrentLog(w) \in Logs /\ work[w].outcome \in Status
        BY <1>5, CurrentLogType DEF Write, At, WInv, Working, Status
    <2>2. QED
        BY <1>0, <1>5, <2>1, SetLogLInv DEF Write, historyVars
<1>6. CASE MarkStuck
    <2>1. PICK l \in reap : SetLog(l, "Error") /\ reap' = reap \ {l} /\ reaped' = reaped \cup {l}
        BY <1>6 DEF MarkStuck
    <2>2. /\ l \in Logs /\ UNCHANGED <<old, crowd, faults, prompt>>
          /\ reap' \in SUBSET Logs /\ reaped' \in SUBSET Logs
        BY <1>0, <1>6, <2>1 DEF MarkStuck
    <2>3. "Error" \in Status
        BY DEF Status, Final
    <2>4. QED
        BY <1>0, <2>1, <2>2, <2>3, SetLogLInv
<1>7. CASE ReadStuck
    <2>1. Stuck \in SUBSET Logs
        BY DEF Stuck, LInv
    <2>2. QED
        BY <1>7, <2>1 DEF ReadStuck, LInv, historyVars, faults
<1>8. CASE ReaperThrows
    BY <1>8 DEF ReaperThrows, LInv, historyVars
<1>9. ASSUME NEW l \in Logs, Grow(l) PROVE LInv'
    BY <1>9 DEF Grow, LInv, historyVars, faults
<1>10. ASSUME NEW r \in Requests, Read(r) \/ AddJob(r) PROVE LInv'
    BY <1>0, <1>10, FaultLInv DEF Read, AddJob, faults
<1>11. ASSUME NEW r \in Requests, Abandon(r) PROVE LInv'
    BY <1>0, <1>11, FaultLInv DEF Abandon
<1>12. ASSUME NEW r \in Repeats, Fire(r) PROVE LInv'
    BY <1>0, <1>12, FaultLInv DEF Fire, faults
<1>13. ASSUME NEW w \in Workers, Take(w) \/ Load(w) \/ Execute(w) PROVE LInv'
    BY <1>0, <1>13, FaultLInv DEF Take, Load, Execute, faults
<1>14. ASSUME NEW w \in Workers, Throw(w) \/ WriteThrows(w) PROVE LInv'
    BY <1>0, <1>14, FaultLInv DEF Throw, WriteThrows
<1>15. ASSUME NEW w \in Workers, Crash(w) PROVE LInv'
    <2>1. /\ UNCHANGED <<log, old, reap, historyVars, throws, stalls>>
          /\ crashes < MaxCrashes /\ crashes' = crashes + 1 /\ MaxCrashes \in Nat
        BY <1>15 DEF Crash
    <2>2. QED
        BY <1>0, <2>1, FaultLInv
<1>16. ASSUME NEW r \in Runs, Redeliver(r) PROVE LInv'
    BY <1>0, <1>16, FaultLInv DEF Redeliver, faults
<1>17. ASSUME NEW r \in Runs, Stall(r) PROVE LInv'
    BY <1>0, <1>17, FaultLInv DEF Stall
<1>18. CASE UNCHANGED vars
    BY <1>0, <1>18, FaultLInv DEF vars, faults
<1>19. QED
    BY <1>1, <1>2, <1>3, <1>4, <1>5, <1>6, <1>7, <1>8, <1>9, <1>10, <1>11, <1>12, <1>13, <1>14,
       <1>15, <1>16, <1>17, <1>18, CountLInv DEF Next, Proceed, Step

LEMMA InitIInv == Init => IInv
<1> SUFFICES ASSUME Init PROVE IInv
    OBVIOUS
<1>1. Cardinality(Requests) \in Nat
    BY FS_CardinalityType
<1>2. LInv
    BY <1>1 DEF Init, LInv, Status
<1>3. QED
    BY <1>2, InitWInv DEF IInv

LEMMA NextIInv == IInv /\ [Next]_vars => IInv'
BY NextWInv, NextLInv DEF IInv

\* Every reachable state is well typed: what a worker is at has been queued, no
\* more often than the queue allows (CommonServer/Infrastructure/QueueWorker.ts:14).
THEOREM TypeCorrect == Spec => []TypeOK
BY IInvTypes, InitIInv, NextIInv, PTL DEF Spec

-----------------------------------------------------------------------------
(* The logs.                                                               *)

NoLog == {"none", "WorkflowCountExceeded"}

\* A request has no log before it creates one.
EarlyLog == \A r \in Requests : req[r] \in {"idle", "count", "refuse", "log"} => log[<<r, 1>>] = "none"

\* The job of a request has a log.
JobLog == \A r \in Requests : req[r] = "job" \/ job[r] # "none" => log[<<r, 1>>] \notin NoLog

\* A log is created for an attempt of a schedule, which no other worker is at.
NotOpened == \A w \in Workers : At(w, "log") => work[w].run \in Repeats /\ log[CurrentLog(w)] = "none"

\* What the cron job is about to mark, or has marked, is old.
ReapedLogs == \A l \in reap \cup reaped : l \in old /\ log[l] \notin NoLog

\* It never sees a log that was taken up in time.
PromptLogs ==
    /\ prompt \cap (reap \cup reaped) = {}
    /\ \A l \in prompt : log[l] \notin {"none", "Scheduled"}

\* Only a worker ends a log that the cron job has not marked.
Begun == \A l \in Logs : log[l] \in Final => tries[l[1]] >= 1 \/ l \in reaped

\* The only worker there has been for the job of such a log has left.
Stood ==
    \A l \in Logs :
        log[l] \in Final /\ tries[l[1]] <= 1 /\ l \notin reaped
            => \A w \in Workers : At(w, "idle") \/ work[w].run # l[1]

HInv == EarlyLog /\ JobLog /\ NotOpened /\ ReapedLogs /\ PromptLogs /\ Begun /\ Stood

LEMMA InitHInv == Init => HInv
BY DEF Init, HInv, EarlyLog, JobLog, NotOpened, ReapedLogs, PromptLogs, Begun, Stood, At, Idle, Logs, Runs, Final, NoLog

\* The run of a log.
LEMMA RunOfLog == \A l \in Logs : l[1] \in Runs
BY DEF Logs, Runs

\* A step of a request that writes no log.
LEMMA RequestHInv ==
    ASSUME IInv, HInv, NEW r \in Runs, req[r] # "done", NEW s \in ReqStage, ReqGoTo(r, s),
           s \in {"count", "refuse", "log"} => req[r] \in {"idle", "count"},
           s \notin {"idle", "job"},
           UNCHANGED <<log, old, tries, work, reap, prompt, reaped>>,
           UNCHANGED job \/ (s = "done" /\ (r \in Requests => req[r] = "job")
                                /\ job' = [job EXCEPT ![r] = "queued"])
    PROVE  HInv'
<1>1. /\ req'[r] = s /\ \A q \in Runs : q # r => req'[q] = req[q]
      /\ \A q \in Runs : q # r => job'[q] = job[q]
    BY DEF ReqGoTo, IInv, WInv
<1>2. EarlyLog'
    BY <1>1 DEF HInv, EarlyLog, Runs
<1>3. JobLog'
    BY <1>1 DEF HInv, JobLog, Runs
<1>4. NotOpened' /\ ReapedLogs' /\ PromptLogs' /\ Begun' /\ Stood'
    BY DEF HInv, NotOpened, ReapedLogs, PromptLogs, Begun, Stood, At, CurrentLog
<1>5. QED
    BY <1>2, <1>3, <1>4 DEF HInv

\* A step of a worker, or of the queue, that writes no log: the worker goes on
\* with its run, or leaves.
LEMMA WorkerHInv ==
    ASSUME IInv, HInv, NEW w \in Workers, NEW new \in Work, Become(w, new), ~At(w, "idle"),
           new = Idle \/ (new.stage # "idle" /\ new.run = work[w].run /\ new.attempt = work[w].attempt),
           new.stage = "log" => ~HasLog(w),
           UNCHANGED <<req, log, old, tries, reap, prompt, reaped>>,
           \A r \in Runs : job'[r] = "none" <=> job[r] = "none"
    PROVE  HInv'
<1>1. work'[w] = new /\ \A v \in Workers : v # w => work'[v] = work[v]
    BY DEF Become, IInv, WInv
<1>2. EarlyLog' /\ JobLog' /\ ReapedLogs' /\ PromptLogs' /\ Begun'
    BY DEF HInv, EarlyLog, JobLog, ReapedLogs, PromptLogs, Begun, Runs
<1>3. NotOpened'
    <2>1. ASSUME new.stage = "log" PROVE new.run \in Repeats /\ log[LogOf(new.run, new.attempt)] = "none"
        <3>1. new.run = work[w].run /\ new.attempt = work[w].attempt /\ log[CurrentLog(w)] = "none"
            BY <2>1 DEF HasLog, Idle
        <3>2. work[w].run \in Runs /\ job[work[w].run] # "none"
            BY DEF IInv, WInv, Working
        <3>3. work[w].run \notin Requests
            BY <3>1, <3>2 DEF HInv, JobLog, CurrentLog, LogOf, NoLog
        <3>4. QED
            BY <3>1, <3>2, <3>3 DEF CurrentLog, Runs
    <2>2. QED
        BY <1>1, <2>1 DEF HInv, NotOpened, At, CurrentLog
<1>4. Stood'
    BY <1>1 DEF HInv, Stood, At, Idle
<1>5. QED
    BY <1>2, <1>3, <1>4 DEF HInv

LEMMA GoToHInv ==
    ASSUME IInv, HInv, NEW w \in Workers, NEW s \in Stage \ {"idle"}, GoTo(w, s), ~At(w, "idle"),
           s = "log" => ~HasLog(w),
           UNCHANGED <<req, log, old, tries, job, reap, prompt, reaped>>
    PROVE  HInv'
<1> DEFINE new == [work[w] EXCEPT !.stage = s]
<1>1. work[w] \in Work
    BY DEF IInv, WInv
<1>2. new \in Work /\ new.stage = s /\ new.run = work[w].run /\ new.attempt = work[w].attempt
    BY <1>1 DEF Work
<1>3. Become(w, new)
    BY DEF GoTo
<1> HIDE DEF new
<1>4. QED
    BY <1>2, <1>3, WorkerHInv

LEMMA EndsHInv ==
    ASSUME IInv, HInv, NEW w \in Workers, NEW o \in Final, Ends(w, o), ~At(w, "idle"),
           UNCHANGED <<req, log, old, tries, job, reap, prompt, reaped>>
    PROVE  HInv'
<1> DEFINE new == [work[w] EXCEPT !.stage = "write", !.outcome = o]
<1>1. work[w] \in Work
    BY DEF IInv, WInv
<1>2. /\ new \in Work /\ new.stage = "write" /\ new.run = work[w].run
      /\ new.attempt = work[w].attempt
    BY <1>1 DEF Work, Stage, Outcome
<1>3. Become(w, new)
    BY DEF Ends
<1> HIDE DEF new
<1>4. QED
    BY <1>2, <1>3, WorkerHInv

LEMMA IdleWork == Idle \in Work /\ Idle.stage = "idle" /\ Idle.run = NoRun
BY DEF Idle, Work, Stage, Outcome

LEMMA ReturnsJobs ==
    ASSUME IInv, NEW w \in Workers, Returns(w), ~At(w, "idle")
    PROVE  \A r \in Runs : job'[r] = "none" <=> job[r] = "none"
<1>1. work[w].run \in Runs /\ job[work[w].run] # "none"
    BY DEF IInv, WInv, Working
<1>2. QED
    BY <1>1 DEF Returns, IInv, WInv, JobState

LEMMA LeavesHInv ==
    ASSUME IInv, HInv, NEW w \in Workers, Leave(w), ~At(w, "idle"),
           \A r \in Runs : job'[r] = "none" <=> job[r] = "none",
           UNCHANGED <<req, log, old, tries, reap, prompt, reaped>>
    PROVE  HInv'
BY IdleWork, WorkerHInv DEF Leave

LEMMA TakeHInv ==
    ASSUME IInv, HInv, NEW w \in Workers, Take(w)
    PROVE  HInv'
<1>1. PICK r \in Runs :
              /\ job[r] = "queued" /\ tries[r] < MaxTries
              /\ job' \in [Runs -> JobState] /\ tries' \in [Runs -> 0..MaxTries]
              /\ work' \in [Workers -> Work]
              /\ job'[r] = "active" /\ tries'[r] = tries[r] + 1
              /\ \A q \in Runs : q # r => job'[q] = job[q] /\ tries'[q] = tries[q]
              /\ work'[w].stage = "load" /\ work'[w].run = r /\ work'[w].attempt = tries[r] + 1
              /\ \A v \in Workers : v # w => work'[v] = work[v]
    BY TakeStep DEF IInv
<1>2. UNCHANGED <<req, log, old, reap, prompt, reaped>>
    BY DEF Take, historyVars
<1>3. \A q \in Runs : tries[q] \in Nat /\ tries'[q] \in Nat /\ tries'[q] >= tries[q]
    BY <1>1 DEF IInv, WInv
<1>4. EarlyLog' /\ JobLog' /\ ReapedLogs' /\ PromptLogs'
    BY <1>1, <1>2 DEF HInv, EarlyLog, JobLog, ReapedLogs, PromptLogs, Runs
<1>5. NotOpened'
    BY <1>1, <1>2 DEF HInv, NotOpened, At, CurrentLog
<1>6. Begun'
    BY <1>2, <1>3, RunOfLog DEF HInv, Begun
<1>7. Stood'
    <2> SUFFICES ASSUME NEW l \in Logs, log[l] \in Final, tries'[l[1]] <= 1, l \notin reaped, NEW v \in Workers,
                        ~At(v, "idle")', work'[v].run = l[1]
                 PROVE  FALSE
        BY <1>2 DEF Stood
    <2>1. tries[l[1]] <= 1 /\ tries[l[1]] >= 1
        BY <1>3, RunOfLog DEF HInv, Begun
    <2>2. l[1] # r
        BY <1>1, <1>3, <2>1
    <2>3. v # w /\ work'[v] = work[v]
        BY <1>1, <2>2
    <2>4. QED
        BY <2>1, <2>3 DEF HInv, Stood, At
<1>8. QED
    BY <1>4, <1>5, <1>6, <1>7 DEF HInv

\* A request writes its log.
LEMMA RequestLogHInv ==
    ASSUME IInv, HInv, NEW r \in Requests, NEW s \in ReqStage, NEW t \in Status, req[r] \in {"refuse", "log"},
           ReqGoTo(r, s), SetLog(<<r, 1>>, t),
           \/ s = "done" /\ t = "WorkflowCountExceeded"
           \/ s = "job" /\ t = "Scheduled",
           UNCHANGED <<old, job, tries, work, reap, prompt, reaped>>
    PROVE  HInv'
<1>1. <<r, 1>> \in Logs /\ r \in Runs /\ log[<<r, 1>>] = "none" /\ job[r] = "none"
    BY RequestLogs DEF HInv, EarlyLog, IInv, WInv, Fresh, Runs
<1>2. log'[<<r, 1>>] = t /\ \A k \in Logs : k # <<r, 1>> => log'[k] = log[k]
    BY <1>1, SetLogType DEF IInv
<1>3. req'[r] = s /\ \A q \in Runs : q # r => req'[q] = req[q]
    BY <1>1 DEF ReqGoTo, IInv, WInv
<1>4. EarlyLog'
    BY <1>2, <1>3, RequestLogs DEF HInv, EarlyLog, Runs
<1>5. JobLog'
    BY <1>1, <1>2, <1>3, RequestLogs DEF HInv, JobLog, Runs, NoLog
<1>6. NotOpened'
    <2> SUFFICES ASSUME NEW w \in Workers, At(w, "log")
                 PROVE  work[w].run \in Repeats /\ log'[CurrentLog(w)] = "none"
        BY DEF NotOpened, At, CurrentLog
    <2>1. work[w].run \in Repeats /\ log[CurrentLog(w)] = "none"
        BY DEF HInv, NotOpened
    <2>2. CurrentLog(w) \in Logs /\ CurrentLog(w)[1] = work[w].run
        BY CurrentLogType DEF At, IInv
    <2>3. CurrentLog(w) # <<r, 1>>
        BY <2>1, <2>2
    <2>4. QED
        BY <1>2, <2>1, <2>2, <2>3
<1>7. <<r, 1>> \notin reap \cup reaped /\ <<r, 1>> \notin prompt
    BY <1>1 DEF HInv, ReapedLogs, PromptLogs, NoLog
<1>8. ReapedLogs' /\ PromptLogs'
    BY <1>2, <1>7 DEF HInv, ReapedLogs, PromptLogs, IInv, LInv
<1>9. Begun' /\ Stood'
    BY <1>2 DEF HInv, Begun, Stood, Final, At
<1>10. QED
    BY <1>4, <1>5, <1>6, <1>8, <1>9 DEF HInv

\* What a worker finds of its log: no other worker has to do with it but one
\* that has had the same request.
LEMMA OwnLog ==
    ASSUME IInv, HInv, NEW w \in Workers, ~At(w, "idle")
    PROVE  /\ CurrentLog(w) \in Logs /\ CurrentLog(w)[1] = work[w].run
           /\ \A r \in Requests : CurrentLog(w) = <<r, 1>> => req[r] = "done" /\ log[<<r, 1>>] \notin NoLog
           /\ \A v \in Workers : v # w /\ At(v, "log") => CurrentLog(v) # CurrentLog(w)
<1>1. CurrentLog(w) \in Logs /\ CurrentLog(w)[1] = work[w].run
    BY CurrentLogType DEF IInv
<1>2. work[w].run \in Runs /\ job[work[w].run] # "none"
    BY DEF IInv, WInv, Working
<1>3. ASSUME NEW r \in Requests, CurrentLog(w) = <<r, 1>>
      PROVE  req[r] = "done" /\ log[<<r, 1>>] \notin NoLog
    <2>1. work[w].run = r
        BY <1>1, <1>3
    <2>2. QED
        BY <1>2, <2>1 DEF HInv, JobLog, IInv, WInv, Fresh
<1>4. ASSUME NEW v \in Workers, v # w, At(v, "log"), CurrentLog(v) = CurrentLog(w)
      PROVE  FALSE
    <2>1. ~At(v, "idle") /\ work[v].run \in Repeats
        BY <1>4 DEF HInv, NotOpened, At
    <2>2. CurrentLog(v)[1] = work[v].run
        BY <2>1, CurrentLogType DEF IInv
    <2>3. work[w].run = work[v].run
        BY <1>1, <1>4, <2>2
    <2>4. work[v].attempt = work[w].attempt
        BY <1>4, <2>1, <2>3 DEF CurrentLog, LogOf
    <2>5. QED
        BY <1>4, <2>1, <2>3, <2>4 DEF IInv, WInv, Distinct
<1>5. QED
    BY <1>1, <1>3, <1>4

\* A worker writes its log.
LEMMA WorkerLogHInv ==
    ASSUME IInv, HInv, NEW w \in Workers, ~At(w, "idle"), NEW s \in Status \ NoLog,
           SetLog(CurrentLog(w), s), NEW new \in Work, Become(w, new),
           \/ new = Idle
           \/ /\ new.stage \in {"start", "walk"} /\ s \notin Final
              /\ new.run = work[w].run /\ new.attempt = work[w].attempt,
           \A r \in Runs : job'[r] = "none" <=> job[r] = "none",
           s = "Scheduled" => log[CurrentLog(w)] = "none",
           prompt' \in SUBSET (prompt \cup ({CurrentLog(w)} \ old)),
           s = "Scheduled" => UNCHANGED prompt,
           UNCHANGED <<req, old, tries, reap, reaped>>
    PROVE  HInv'
<1> DEFINE l == CurrentLog(w)
<1>1. /\ l \in Logs /\ l[1] = work[w].run
      /\ \A r \in Requests : l = <<r, 1>> => req[r] = "done" /\ log[<<r, 1>>] \notin NoLog
      /\ \A v \in Workers : v # w /\ At(v, "log") => CurrentLog(v) # l
    BY OwnLog
<1> HIDE DEF l
<1>2. log'[l] = s /\ \A k \in Logs : k # l => log'[k] = log[k]
    BY <1>1, SetLogType DEF l, IInv
<1>3. work'[w] = new /\ \A v \in Workers : v # w => work'[v] = work[v]
    BY DEF Become, IInv, WInv
<1>4. s \notin NoLog
    OBVIOUS
<1>5. EarlyLog'
    BY <1>1, <1>2, RequestLogs DEF HInv, EarlyLog
<1>6. JobLog'
    BY <1>2, <1>4, RequestLogs DEF HInv, JobLog, Runs
<1>7. NotOpened'
    <2> SUFFICES ASSUME NEW v \in Workers, At(v, "log")'
                 PROVE  work'[v].run \in Repeats /\ log'[CurrentLog(v)'] = "none"
        BY DEF NotOpened
    <2>1. v # w
        BY <1>3, IdleWork DEF At
    <2>2. work'[v] = work[v] /\ At(v, "log") /\ ~At(v, "idle") /\ CurrentLog(v)' = CurrentLog(v)
        BY <1>3, <2>1 DEF At, CurrentLog
    <2>3. CurrentLog(v) \in Logs /\ CurrentLog(v) # l /\ work[v].run \in Repeats /\ log[CurrentLog(v)] = "none"
        BY <1>1, <2>1, <2>2, CurrentLogType DEF HInv, NotOpened, IInv
    <2>4. QED
        BY <1>2, <2>2, <2>3
<1>8. ReapedLogs'
    BY <1>2, <1>4 DEF HInv, ReapedLogs, IInv, LInv
<1>9. PromptLogs'
    <2>1. prompt' \cap (reap \cup reaped) = {}
        BY DEF HInv, PromptLogs, ReapedLogs, l
    <2>2. \A k \in prompt' : k # l => log'[k] \notin {"none", "Scheduled"}
        BY <1>2 DEF HInv, PromptLogs, IInv, LInv, l
    <2>3. l \in prompt' => s \notin {"none", "Scheduled"}
        BY <1>4 DEF HInv, PromptLogs, NoLog, l
    <2>4. QED
        BY <1>2, <2>1, <2>2, <2>3 DEF PromptLogs
<1>10. Begun'
    <2>1. tries[l[1]] >= 1
        BY <1>1 DEF IInv, WInv, Working
    <2>2. QED
        BY <1>2, <2>1 DEF HInv, Begun
<1>11. Stood'
    <2> SUFFICES ASSUME NEW k \in Logs, log'[k] \in Final, tries[k[1]] <= 1, k \notin reaped, NEW v \in Workers,
                        ~At(v, "idle")', work'[v].run = k[1]
                 PROVE  FALSE
        BY DEF Stood
    <2>1. CASE k # l
        <3>1. log[k] \in Final
            BY <1>2, <2>1
        <3>2. CASE v # w
            BY <1>3, <3>1, <3>2 DEF HInv, Stood, At
        <3>3. CASE v = w
            BY <1>3, <3>1, <3>3, IdleWork DEF HInv, Stood, At
        <3>4. QED
            BY <3>2, <3>3
    <2>2. CASE k = l
        <3>1. s \in Final /\ new = Idle
            BY <1>2, <2>2
        <3>2. v # w /\ work'[v] = work[v] /\ ~At(v, "idle")
            BY <1>3, <3>1, IdleWork DEF At
        <3>3. work[v].run \in Runs /\ work[v].run = work[w].run
            BY <1>1, <2>2, <3>2 DEF IInv, WInv, Working
        <3>4. work[v].attempt \in 1..1 /\ work[w].attempt \in 1..1
            BY <1>1, <2>2, <3>2, <3>3 DEF IInv, WInv, Working
        <3>5. QED
            BY <3>2, <3>3, <3>4 DEF IInv, WInv, Distinct
    <2>3. QED
        BY <2>1, <2>2
<1>12. QED
    BY <1>5, <1>6, <1>7, <1>8, <1>9, <1>10, <1>11 DEF HInv

\* The cron job, the queue and the clock.
LEMMA QueueHInv ==
    ASSUME IInv, HInv, NEW r \in Runs, job[r] = "active", HandBack(r),
           UNCHANGED <<req, log, old, tries, work, reap, prompt, reaped>>
    PROVE  HInv'
<1>1. \A q \in Runs : job'[q] = "none" <=> job[q] = "none"
    BY DEF HandBack, IInv, WInv, JobState
<1>2. QED
    BY <1>1 DEF HInv, EarlyLog, JobLog, NotOpened, ReapedLogs, PromptLogs, Begun, Stood, At, CurrentLog, Runs

LEMMA ReadStuckHInv == IInv /\ HInv /\ ReadStuck => HInv'
<1> SUFFICES ASSUME IInv, HInv, ReadStuck PROVE HInv'
    OBVIOUS
<1>1. /\ reap' = Stuck /\ UNCHANGED <<req, log, old, job, tries, work, prompt, reaped>>
    BY DEF ReadStuck, queueVars, historyVars
<1>2. \A l \in Stuck : l \in old /\ log[l] = "Scheduled"
    BY DEF Stuck
<1>3. ReapedLogs' /\ PromptLogs'
    BY <1>1, <1>2 DEF HInv, ReapedLogs, PromptLogs, NoLog
<1>4. QED
    BY <1>1, <1>3 DEF HInv, EarlyLog, JobLog, NotOpened, Begun, Stood, At, CurrentLog

LEMMA MarkStuckHInv == IInv /\ HInv /\ MarkStuck => HInv'
<1> SUFFICES ASSUME IInv, HInv, MarkStuck PROVE HInv'
    OBVIOUS
<1>1. PICK l \in reap : SetLog(l, "Error") /\ reap' = reap \ {l} /\ reaped' = reaped \cup {l}
    BY DEF MarkStuck
<1>2. UNCHANGED <<req, old, job, tries, work, prompt>>
    BY DEF MarkStuck, queueVars
<1>3. l \in Logs /\ log[l] \notin NoLog /\ l \in old
    BY <1>1 DEF HInv, ReapedLogs, IInv, LInv
<1>4. log'[l] = "Error" /\ \A k \in Logs : k # l => log'[k] = log[k]
    BY <1>1, <1>3, SetLogType DEF IInv, Status, Final
<1>5. EarlyLog' /\ JobLog'
    BY <1>2, <1>3, <1>4, RequestLogs DEF HInv, EarlyLog, JobLog, NoLog
<1>6. NotOpened'
    <2> SUFFICES ASSUME NEW w \in Workers, At(w, "log")
                 PROVE  work[w].run \in Repeats /\ log'[CurrentLog(w)] = "none"
        BY <1>2 DEF NotOpened, At, CurrentLog
    <2>1. work[w].run \in Repeats /\ log[CurrentLog(w)] = "none" /\ CurrentLog(w) \in Logs
        BY CurrentLogType DEF HInv, NotOpened, At, IInv
    <2>2. QED
        BY <1>3, <1>4, <2>1 DEF NoLog
<1>7. ReapedLogs' /\ PromptLogs'
    BY <1>1, <1>2, <1>3, <1>4 DEF HInv, ReapedLogs, PromptLogs, IInv, LInv, NoLog
<1>8. Begun' /\ Stood'
    BY <1>1, <1>2, <1>4 DEF HInv, Begun, Stood, At
<1>9. QED
    BY <1>5, <1>6, <1>7, <1>8 DEF HInv

LEMMA ReaperThrowsHInv == HInv /\ ReaperThrows => HInv'
BY DEF HInv, ReaperThrows, EarlyLog, JobLog, NotOpened, ReapedLogs, PromptLogs, Begun, Stood, At, CurrentLog,
       queueVars, historyVars

LEMMA GrowHInv == \A l \in Logs : HInv /\ Grow(l) => HInv'
BY DEF HInv, Grow, EarlyLog, JobLog, NotOpened, ReapedLogs, PromptLogs, Begun, Stood, At, CurrentLog,
       queueVars, historyVars

LEMMA StutterHInv == HInv /\ UNCHANGED vars => HInv'
BY DEF HInv, vars, EarlyLog, JobLog, NotOpened, ReapedLogs, PromptLogs, Begun, Stood, At, CurrentLog,
       queueVars, historyVars

LEMMA NextHInv == IInv /\ HInv /\ [Next]_vars => HInv'
<1> SUFFICES ASSUME IInv, HInv, [Next]_vars PROVE HInv'
    OBVIOUS
<1>0. Requests \subseteq Runs /\ Repeats \subseteq Runs /\ Requests \cap Repeats = {}
    BY DEF Runs
<1>1. ASSUME NEW r \in Requests, Read(r) PROVE HInv'
    BY <1>0, <1>1, RequestHInv DEF Read, ReqAt, ReqStage, queueVars, historyVars
<1>2. ASSUME NEW r \in Requests, Count(r) PROVE HInv'
    BY <1>0, <1>2, RequestHInv DEF Count, ReqAt, ReqStage, queueVars
<1>3. ASSUME NEW r \in Requests, Refuse(r) PROVE HInv'
    BY <1>3, RequestLogHInv DEF Refuse, ReqAt, ReqStage, Status, queueVars, historyVars
<1>4. ASSUME NEW r \in Requests, CreateLog(r) PROVE HInv'
    BY <1>4, RequestLogHInv DEF CreateLog, ReqAt, ReqStage, Status, queueVars, historyVars
<1>5. ASSUME NEW r \in Requests, AddJob(r) PROVE HInv'
    BY <1>0, <1>5, RequestHInv DEF AddJob, ReqAt, ReqStage, historyVars
<1>6. ASSUME NEW r \in Requests, Abandon(r) PROVE HInv'
    BY <1>0, <1>6, RequestHInv DEF Abandon, ReqStage, queueVars, historyVars
<1>7. ASSUME NEW r \in Repeats, Fire(r) PROVE HInv'
    BY <1>0, <1>7, RequestHInv DEF Fire, ReqAt, ReqStage, historyVars
<1>8. ASSUME NEW w \in Workers, Load(w) PROVE HInv'
    BY <1>8, GoToHInv DEF Load, At, Stage, queueVars, historyVars
<1>9. ASSUME NEW w \in Workers, OpenLog(w) PROVE HInv'
    <2> DEFINE new == [work[w] EXCEPT !.stage = "start"]
    <2>1. work[w] \in Work /\ ~At(w, "idle") /\ log[CurrentLog(w)] = "none" /\ Become(w, new)
        BY <1>9 DEF OpenLog, At, IInv, WInv, HInv, NotOpened, GoTo
    <2>2. new \in Work /\ new.stage = "start" /\ new.run = work[w].run /\ new.attempt = work[w].attempt
        BY <2>1 DEF Work, Stage
    <2> HIDE DEF new
    <2>3. SetLog(CurrentLog(w), "Scheduled") /\ UNCHANGED <<req, old, job, tries, reap, prompt, reaped>>
        BY <1>9 DEF OpenLog, queueVars, historyVars
    <2>4. "Scheduled" \in Status \ NoLog /\ "Scheduled" \notin Final
        BY DEF Status, NoLog, Final
    <2>5. QED
        BY <2>1, <2>2, <2>3, <2>4, WorkerLogHInv
<1>10. ASSUME NEW w \in Workers, Start(w) PROVE HInv'
    <2> DEFINE new == [work[w] EXCEPT !.stage = "walk"]
    <2>1. work[w] \in Work /\ ~At(w, "idle") /\ Become(w, new)
        BY <1>10 DEF Start, At, IInv, WInv, GoTo
    <2>2. new \in Work /\ new.stage = "walk" /\ new.run = work[w].run /\ new.attempt = work[w].attempt
        BY <2>1 DEF Work, Stage
    <2> HIDE DEF new
    <2>3. /\ SetLog(CurrentLog(w), "Running") /\ UNCHANGED <<req, old, job, tries, reap, reaped>>
          /\ prompt' = prompt \cup ({CurrentLog(w)} \ old)
        BY <1>10 DEF Start, queueVars
    <2>4. "Running" \in Status \ NoLog /\ "Running" \notin Final
        BY DEF Status, NoLog, Final
    <2>5. QED
        BY <2>1, <2>2, <2>3, <2>4, WorkerLogHInv
<1>11. ASSUME NEW w \in Workers, Execute(w) PROVE HInv'
    BY <1>11, EndsHInv DEF Execute, At, queueVars, historyVars
<1>12. ASSUME NEW w \in Workers, Throw(w) PROVE HInv'
    BY <1>12, EndsHInv, ReturnsJobs, LeavesHInv DEF Throw, Returns, At, Final, historyVars
<1>13. ASSUME NEW w \in Workers, Write(w) PROVE HInv'
    <2>1. ~At(w, "idle") /\ work[w].outcome \in Status \ NoLog
        BY <1>13 DEF Write, At, IInv, WInv, Working, Final, Status, NoLog
    <2>2. /\ SetLog(CurrentLog(w), work[w].outcome) /\ Become(w, Idle)
          /\ UNCHANGED <<req, old, tries, reap, prompt, reaped>>
        BY <1>13 DEF Write, Returns, Leave, historyVars
    <2>3. work[w].outcome # "Scheduled"
        BY <1>13 DEF Write, At, IInv, WInv, Working, Final
    <2>4. \A r \in Runs : job'[r] = "none" <=> job[r] = "none"
        BY <1>13, <2>1, ReturnsJobs DEF Write
    <2>5. QED
        BY <2>1, <2>2, <2>3, <2>4, IdleWork, WorkerLogHInv
<1>14. ASSUME NEW w \in Workers, WriteThrows(w) PROVE HInv'
    BY <1>14, EndsHInv, ReturnsJobs, LeavesHInv DEF WriteThrows, Returns, At, Final, historyVars
<1>15. ASSUME NEW w \in Workers, Crash(w) PROVE HInv'
    BY <1>15, LeavesHInv DEF Crash, queueVars, historyVars
<1>16. ASSUME NEW r \in Runs, Redeliver(r) PROVE HInv'
    BY <1>16, QueueHInv DEF Redeliver, historyVars
<1>17. ASSUME NEW r \in Runs, Stall(r) PROVE HInv'
    BY <1>17, QueueHInv DEF Stall, historyVars
<1>18. QED
    BY <1>1, <1>2, <1>3, <1>4, <1>5, <1>6, <1>7, <1>8, <1>9, <1>10, <1>11, <1>12, <1>13, <1>14,
       <1>15, <1>16, <1>17, TakeHInv, ReadStuckHInv, MarkStuckHInv, ReaperThrowsHInv, GrowHInv,
       StutterHInv DEF Next, Proceed, Step

\* The cron job marks only logs that no worker took up in the first five
\* minutes, however its snapshot is overtaken
\* (App/FeatureSet/Workers/Jobs/Workflow/TimeoutJobs.ts:14).
THEOREM PromptIsSafe == Spec => []PromptNotReaped
<1>1. HInv => PromptNotReaped
    BY DEF HInv, PromptLogs, PromptNotReaped
<1>2. QED
    BY <1>1, InitIInv, InitHInv, NextIInv, NextHInv, PTL DEF Spec

\* What a step may do to the result of a run.
LEMMA ResultStep ==
    ASSUME IInv, HInv, [Next]_vars, NEW l \in Logs, log[l] \in Final, log'[l] # log[l]
    PROVE  tries[l[1]] > 1 \/ l \in reap \cup reaped
<1>1. ASSUME NEW w \in Workers, ~At(w, "idle"), NEW s, SetLog(CurrentLog(w), s)
      PROVE  tries[l[1]] > 1 \/ l \in reap \cup reaped
    <2>1. l = CurrentLog(w)
        BY <1>1, CurrentLogType DEF SetLog, IInv, LInv
    <2>2. work[w].run = l[1]
        BY <1>1, <2>1, CurrentLogType DEF IInv
    <2>3. tries[l[1]] \in Nat
        BY RunOfLog DEF IInv, WInv
    <2>4. QED
        BY <1>1, <2>2, <2>3 DEF HInv, Stood
<1>2. ASSUME NEW r \in Requests, req[r] \in {"refuse", "log"}, NEW s, SetLog(<<r, 1>>, s)
      PROVE  FALSE
    <2>1. l = <<r, 1>>
        BY <1>2, RequestLogs DEF SetLog, IInv, LInv
    <2>2. QED
        BY <1>2, <2>1 DEF HInv, EarlyLog, Final
<1>3. ASSUME NEW r \in Requests, Refuse(r) \/ CreateLog(r) PROVE FALSE
    BY <1>2, <1>3 DEF Refuse, CreateLog, ReqAt
<1>4. ASSUME NEW w \in Workers, OpenLog(w) \/ Start(w) \/ Write(w)
      PROVE  tries[l[1]] > 1 \/ l \in reap \cup reaped
    BY <1>1, <1>4 DEF OpenLog, Start, Write, At
<1>5. CASE MarkStuck
    BY <1>5 DEF MarkStuck, SetLog, IInv, LInv
<1>6. UNCHANGED log => FALSE
    OBVIOUS
<1>7. QED
    BY <1>3, <1>4, <1>5, <1>6 DEF Next, Proceed, Step, Read, Count, AddJob, Abandon, Fire, Take, Load,
       Execute, Throw, WriteThrows, Crash, Redeliver, Stall, ReadStuck, ReaperThrows, Grow, vars

\* A result that was written is written over only when the queue has handed
\* the job to a second worker or the cron job has found the log waiting
\* (App/FeatureSet/Workflow/Services/RunWorkflow.ts:266).
THEOREM ResultsStand == Spec => ResultStands
<1>1. IInv /\ HInv /\ [Next]_vars =>
        [\A l \in Logs :
            log[l] \in Final /\ log'[l] # log[l] =>
                tries[l[1]] > 1 \/ l \in reap \cup reaped]_vars
    BY ResultStep
<1>2. QED
    BY <1>1, InitIInv, InitHInv, NextIInv, NextHInv, PTL DEF Spec, ResultStands

-----------------------------------------------------------------------------
(* The number of runs.                                                     *)

\* The requests that have been let through and have not created their log.
Counted == {r \in Requests : req[r] = "log"}

\* Those are as many as ever were there at once, or the sum is within the limit.
CInv ==
    /\ Cardinality(Counted) <= crowd
    /\ Cardinality(Admitted) + Cardinality(Counted) <= Limit + crowd

LEMMA Subsets ==
    /\ Admitted \in SUBSET Requests /\ Counted \in SUBSET Requests
    /\ IsFiniteSet(Admitted) /\ IsFiniteSet(Counted)
    /\ Cardinality(Admitted) \in Nat /\ Cardinality(Counted) \in Nat
<1>1. Admitted \in SUBSET Requests /\ Counted \in SUBSET Requests
    BY DEF Admitted, Counted
<1>2. QED
    BY <1>1, FS_Subset, FS_CardinalityType

LEMMA InitCInv == Init => CInv
<1> SUFFICES ASSUME Init PROVE CInv
    OBVIOUS
<1>1. Admitted = {} /\ Counted = {}
    BY RequestLogs DEF Init, Admitted, Counted, Runs
<1>2. QED
    BY <1>1, FS_EmptySet DEF CInv, Init

LEMMA FiniteLogs == IsFiniteSet(Logs)
<1>0. 1 \in Int /\ MaxTries \in Int /\ IsFiniteSet(Requests) /\ IsFiniteSet(Repeats)
    BY DEF RunAssumption
<1>1. IsFiniteSet({1}) /\ IsFiniteSet(1..MaxTries)
    BY <1>0, FS_Singleton, FS_Interval
<1>2. IsFiniteSet(Requests \X {1}) /\ IsFiniteSet(Repeats \X (1..MaxTries))
    BY <1>0, <1>1, FS_Product
<1>3. QED
    BY <1>2, FS_Union DEF Logs

\* The count sees every log of an admitted request.
LEMMA CountSees == Cardinality(Admitted) <= LogCount
<1> DEFINE S == {l \in Logs : log[l] # "none"}
           f == [r \in Admitted |-> <<r, 1>>]
<1>1. IsFiniteSet(S)
    BY FiniteLogs, FS_Subset
<1>2. f \in [Admitted -> S]
    BY RequestLogs DEF Admitted
<1>3. f \in Injection(Admitted, S)
    BY <1>2 DEF Injection, IsInjective
<1>4. QED
    BY <1>1, <1>3, FS_Injection DEF LogCount

\* No request is let through, and no log of one is created.
LEMMA SameCInv ==
    ASSUME IInv, CInv, UNCHANGED crowd, Counted' \subseteq Counted, Admitted' = Admitted
    PROVE  CInv'
<1>1. Cardinality(Counted') <= Cardinality(Counted) /\ Cardinality(Counted') \in Nat
    BY Subsets, FS_Subset, FS_CardinalityType
<1>2. crowd \in Nat /\ Cardinality(Admitted) \in Nat /\ Cardinality(Counted) \in Nat
    BY Subsets, FS_CardinalityType DEF IInv, LInv
<1>3. QED
    BY <1>1, <1>2 DEF CInv

LEMMA CountCInv ==
    ASSUME IInv, CInv, NEW r \in Requests, Count(r)
    PROVE  CInv'
<1>1. /\ req' = [req EXCEPT ![r] = IF WithinLimit THEN "log" ELSE "refuse"]
      /\ crowd' = IF Cardinality(Counted') > crowd THEN Cardinality(Counted') ELSE crowd
      /\ log' = log /\ req[r] = "count" /\ r \in Runs
    BY DEF Count, ReqGoTo, ReqAt, Counted, Runs
<1>2. Admitted' = Admitted
    BY <1>1 DEF Admitted
<1>3. \A q \in Requests : q # r => req'[q] = req[q]
    BY <1>1 DEF IInv, WInv, Runs
<1>4. crowd \in Nat /\ Cardinality(Admitted) \in Nat /\ Cardinality(Counted) \in Nat
    BY Subsets, FS_CardinalityType DEF IInv, LInv
<1>5. CASE WithinLimit
    <2>1. req'[r] = "log" /\ r \notin Counted
        BY <1>1, <1>5 DEF IInv, WInv, Counted
    <2>2. Counted' = Counted \cup {r}
        BY <1>3, <2>1 DEF Counted
    <2>3. Cardinality(Counted') = Cardinality(Counted) + 1
        BY <2>1, <2>2, Subsets, FS_AddElement
    <2>4. Cardinality(Admitted) <= LogCount /\ LogCount <= Limit /\ LogCount \in Nat
        BY <1>5, CountSees, FiniteLogs, FS_Subset, FS_CardinalityType DEF WithinLimit, LogCount
    <2>5. QED
        BY <1>1, <1>2, <1>4, <2>3, <2>4 DEF CInv
<1>6. CASE ~WithinLimit
    <2>1. req'[r] = "refuse"
        BY <1>1, <1>6 DEF IInv, WInv
    <2>2. Counted' = Counted
        BY <1>1, <1>3, <2>1 DEF Counted
    <2>3. crowd' = crowd
        BY <1>1, <1>4, <2>2 DEF CInv
    <2>4. QED
        BY <1>2, <2>2, <2>3 DEF CInv
<1>7. QED
    BY <1>5, <1>6

LEMMA CreateLogCInv ==
    ASSUME IInv, HInv, CInv, NEW r \in Requests, CreateLog(r)
    PROVE  CInv'
<1>1. /\ req' = [req EXCEPT ![r] = "job"] /\ SetLog(<<r, 1>>, "Scheduled") /\ crowd' = crowd
      /\ req[r] = "log" /\ r \in Runs
    BY DEF CreateLog, ReqGoTo, ReqAt, historyVars, Runs
<1>2. req'[r] = "job" /\ \A q \in Requests : q # r => req'[q] = req[q]
    BY <1>1 DEF IInv, WInv, Runs
<1>3. <<r, 1>> \in Logs /\ "Scheduled" \in Status
    BY RequestLogs DEF Status
<1>4. log'[<<r, 1>>] = "Scheduled" /\ \A k \in Logs : k # <<r, 1>> => log'[k] = log[k]
    BY <1>1, <1>3, SetLogType DEF IInv
<1>5. log[<<r, 1>>] = "none"
    BY <1>1 DEF HInv, EarlyLog
<1>6. r \notin Admitted /\ Admitted' = Admitted \cup {r}
    BY <1>4, <1>5, RequestLogs DEF Admitted
<1>7. r \in Counted /\ Counted' = Counted \ {r}
    BY <1>1, <1>2 DEF Counted
<1>8. Cardinality(Admitted') = Cardinality(Admitted) + 1 /\ Cardinality(Counted') = Cardinality(Counted) - 1
    BY <1>6, <1>7, Subsets, FS_AddElement, FS_RemoveElement
<1>9. crowd \in Nat /\ Cardinality(Admitted) \in Nat /\ Cardinality(Counted) \in Nat
    BY Subsets, FS_CardinalityType DEF IInv, LInv
<1>10. QED
    BY <1>1, <1>8, <1>9 DEF CInv

\* A log that is written again remains that of an admitted request.
LEMMA AdmittedSame ==
    ASSUME IInv, NEW l \in Logs, NEW s \in Status, SetLog(l, s),
           \A r \in Requests : l = <<r, 1>> => (log[l] \in NoLog <=> s \in NoLog)
    PROVE  Admitted' = Admitted
<1>1. log'[l] = s /\ \A k \in Logs : k # l => log'[k] = log[k]
    BY SetLogType DEF IInv
<1>2. ASSUME NEW r \in Requests
      PROVE  log'[<<r, 1>>] \in NoLog <=> log[<<r, 1>>] \in NoLog
    <2>1. <<r, 1>> \in Logs
        BY RequestLogs
    <2>2. CASE l = <<r, 1>>
        BY <1>1, <2>2
    <2>3. CASE l # <<r, 1>>
        BY <1>1, <2>1, <2>3
    <2>4. QED
        BY <2>2, <2>3
<1>3. QED
    BY <1>2 DEF Admitted, NoLog

LEMMA WorkerLogCInv ==
    ASSUME IInv, HInv, CInv, NEW w \in Workers, ~At(w, "idle"), NEW s \in Status \ NoLog,
           SetLog(CurrentLog(w), s), UNCHANGED <<req, crowd>>
    PROVE  CInv'
<1>1. /\ CurrentLog(w) \in Logs
      /\ \A r \in Requests : CurrentLog(w) = <<r, 1>> => log[<<r, 1>>] \notin NoLog
    BY OwnLog
<1>2. Admitted' = Admitted
    BY <1>1, AdmittedSame
<1>3. QED
    BY <1>2, SameCInv DEF Counted

LEMMA NextCInv == IInv /\ HInv /\ CInv /\ [Next]_vars => CInv'
<1> SUFFICES ASSUME IInv, HInv, CInv, [Next]_vars PROVE CInv'
    OBVIOUS
<1>0. Requests \subseteq Runs /\ Repeats \subseteq Runs /\ Requests \cap Repeats = {}
    BY DEF Runs
<1>1. ASSUME NEW r \in Runs, NEW s, s # "log", ReqGoTo(r, s), UNCHANGED <<log, crowd>> PROVE CInv'
    <2>1. Counted' \subseteq Counted
        BY <1>0, <1>1 DEF Counted, ReqGoTo, IInv, WInv
    <2>2. QED
        BY <1>1, <2>1, SameCInv DEF Admitted
<1>2. ASSUME UNCHANGED <<req, log, crowd>> PROVE CInv'
    BY <1>2, SameCInv DEF Admitted, Counted
<1>3. ASSUME NEW r \in Requests, Read(r) \/ AddJob(r) \/ Abandon(r) PROVE CInv'
    BY <1>0, <1>1, <1>3 DEF Read, AddJob, Abandon, historyVars
<1>4. ASSUME NEW r \in Repeats, Fire(r) PROVE CInv'
    BY <1>0, <1>1, <1>4 DEF Fire, historyVars
<1>5. ASSUME NEW r \in Requests, Refuse(r) PROVE CInv'
    <2>1. ReqGoTo(r, "done") /\ SetLog(<<r, 1>>, "WorkflowCountExceeded") /\ crowd' = crowd /\ req[r] = "refuse"
        BY <1>5 DEF Refuse, ReqAt, historyVars
    <2>2. Counted' \subseteq Counted
        BY <1>0, <2>1 DEF Counted, ReqGoTo, IInv, WInv
    <2>3. <<r, 1>> \in Logs /\ log[<<r, 1>>] = "none"
        BY <2>1, RequestLogs DEF HInv, EarlyLog
    <2>4. Admitted' = Admitted
        BY <2>1, <2>3, AdmittedSame DEF NoLog, Status
    <2>5. QED
        BY <2>1, <2>2, <2>4, SameCInv
<1>6. ASSUME NEW w \in Workers, OpenLog(w) \/ Start(w) PROVE CInv'
    <2>1. PICK s \in {"Scheduled", "Running"} : SetLog(CurrentLog(w), s)
        BY <1>6 DEF OpenLog, Start
    <2>2. ~At(w, "idle") /\ UNCHANGED <<req, crowd>> /\ s \in Status \ NoLog
        BY <1>6 DEF OpenLog, Start, At, historyVars, Status, NoLog
    <2>3. QED
        BY <2>1, <2>2, WorkerLogCInv
<1>7. ASSUME NEW w \in Workers, Write(w) PROVE CInv'
    <2>1. /\ ~At(w, "idle") /\ work[w].outcome \in Status \ NoLog
          /\ SetLog(CurrentLog(w), work[w].outcome) /\ UNCHANGED <<req, crowd>>
        BY <1>7 DEF Write, At, IInv, WInv, Working, Final, Status, NoLog, historyVars
    <2>2. QED
        BY <2>1, WorkerLogCInv
<1>8. CASE MarkStuck
    <2>1. PICK l \in reap : SetLog(l, "Error")
        BY <1>8 DEF MarkStuck
    <2>2. l \in Logs /\ log[l] \notin NoLog
        BY <2>1 DEF HInv, ReapedLogs, IInv, LInv
    <2>3. Admitted' = Admitted
        BY <2>1, <2>2, AdmittedSame DEF NoLog, Status, Final
    <2>4. UNCHANGED <<req, crowd>>
        BY <1>8 DEF MarkStuck
    <2>5. QED
        BY <2>3, <2>4, SameCInv DEF Counted
<1>9. ASSUME NEW w \in Workers, Take(w) \/ Load(w) \/ Execute(w) \/ Throw(w) \/ WriteThrows(w) \/ Crash(w)
      PROVE  CInv'
    BY <1>2, <1>9 DEF Take, Load, Execute, Throw, WriteThrows, Crash, historyVars
<1>10. ASSUME NEW r \in Runs, Redeliver(r) \/ Stall(r) PROVE CInv'
    BY <1>2, <1>10 DEF Redeliver, Stall, historyVars
<1>11. CASE ReadStuck \/ ReaperThrows \/ \E l \in Logs : Grow(l)
    BY <1>2, <1>11 DEF ReadStuck, ReaperThrows, Grow, historyVars
<1>12. CASE UNCHANGED vars
    BY <1>2, <1>12 DEF vars, historyVars
<1>13. QED
    BY <1>3, <1>4, <1>5, <1>6, <1>7, <1>8, <1>9, <1>10, <1>11, <1>12, CountCInv, CreateLogCInv
       DEF Next, Proceed, Step

\* The plan's limit is exceeded by no more than the requests that were let
\* through together (App/FeatureSet/Workflow/Services/QueueWorkflow.ts:116).
THEOREM RunsAreBounded == Spec => []RunsBounded
<1>1. IInv /\ CInv => RunsBounded
    <2> SUFFICES ASSUME IInv, CInv PROVE RunsBounded
        OBVIOUS
    <2>1. crowd \in Nat /\ Cardinality(Admitted) \in Nat /\ Cardinality(Counted) \in Nat
        BY Subsets, FS_CardinalityType DEF IInv, LInv
    <2>2. QED
        BY <2>1 DEF CInv, RunsBounded
<1>2. QED
    BY <1>1, InitIInv, InitHInv, InitCInv, NextIInv, NextHInv, NextCInv, PTL DEF Spec

-----------------------------------------------------------------------------
(* What a run executes: the walk through its workflow's graph.             *)

HIDE RunAssumption

\* What waits, in the queue or for it.
Queued == ToSet(fifo) \cup ToSet(todo)

\* An executed component leads there, or the trigger is there; two of these.
OneWay(c) == c = graph.start \/ Ways(c) # {}
TwoWays(c) == \/ c = graph.start /\ Ways(c) # {}
              \/ \E a, b \in Ways(c) : a # b

\* What has been executed and what waits are all that the ports have led to.
WalkSets ==
    /\ IsFiniteSet(executed)
    /\ \A c \in Components : taken[c] # NoPort => c \in executed
    /\ executed \cup Queued \subseteq Reached
    /\ graph.start \in executed \cup Queued
    /\ \A b \in executed : Targets(b) \subseteq executed \cup Queued
    /\ \A c \in executed \cup Queued : OneWay(c)
    /\ \A c \in executed \cap Queued : TwoWays(c)

WalkInv ==
    /\ WalkTypeOK /\ graph \in Graphs
    /\ WalkSets
    /\ outcome \in {"Success", "Cyclic"} => todo = <<>>
    /\ outcome = "Success" => fifo = <<>>
    /\ outcome = "Cyclic" => fifo # <<>> /\ Head(fifo) \in executed

LEMMA SetOfNone == ToSet(<<>>) = {}
  BY DEF ToSet

LEMMA SetOfTail ==
  ASSUME NEW S, NEW f \in Seq(S), f # <<>>
  PROVE  /\ Head(f) \in S /\ Tail(f) \in Seq(S)
         /\ ToSet(f) = ToSet(Tail(f)) \cup {Head(f)}
  <1>1. /\ Len(f) \in Nat \ {0} /\ Head(f) = f[1] /\ Tail(f) \in Seq(S) /\ Head(f) \in S
        /\ Len(Tail(f)) = Len(f) - 1 /\ \A i \in 1..Len(Tail(f)) : Tail(f)[i] = f[i + 1]
        /\ DOMAIN f = 1..Len(f) /\ DOMAIN Tail(f) = 1..Len(Tail(f))
    OBVIOUS
  <1>2. ASSUME NEW i \in DOMAIN f PROVE f[i] \in ToSet(Tail(f)) \cup {Head(f)}
    <2>1. i = 1 \/ (i - 1 \in DOMAIN Tail(f) /\ f[i] = Tail(f)[i - 1])
      BY <1>1
    <2> QED
      BY <1>1, <2>1 DEF ToSet
  <1>3. ASSUME NEW i \in DOMAIN Tail(f) PROVE Tail(f)[i] \in ToSet(f)
    <2>1. i + 1 \in DOMAIN f /\ Tail(f)[i] = f[i + 1]
      BY <1>1
    <2> QED
      BY <2>1 DEF ToSet
  <1>4. Head(f) \in ToSet(f)
    BY <1>1 DEF ToSet
  <1> QED
    BY <1>1, <1>2, <1>3, <1>4 DEF ToSet

LEMMA InjectiveTail ==
  ASSUME NEW S, NEW f \in Seq(S), f # <<>>, IsInjective(f)
  PROVE  IsInjective(Tail(f)) /\ Head(f) \notin ToSet(Tail(f))
  <1>1. /\ Len(f) \in Nat \ {0} /\ Head(f) = f[1]
        /\ Len(Tail(f)) = Len(f) - 1 /\ \A i \in 1..Len(Tail(f)) : Tail(f)[i] = f[i + 1]
        /\ DOMAIN f = 1..Len(f) /\ DOMAIN Tail(f) = 1..Len(Tail(f))
    OBVIOUS
  <1>2. \A i, j \in DOMAIN f : f[i] = f[j] => i = j
    BY DEF IsInjective
  <1>3. \A i \in DOMAIN Tail(f) : i \in Nat /\ i + 1 \in DOMAIN f /\ Tail(f)[i] = f[i + 1] /\ i + 1 # 1
    BY <1>1
  <1>4. 1 \in DOMAIN f
    BY <1>1
  <1>5. \A i, j \in DOMAIN Tail(f) : Tail(f)[i] = Tail(f)[j] => i = j
    <2> SUFFICES ASSUME NEW i \in DOMAIN Tail(f), NEW j \in DOMAIN Tail(f), Tail(f)[i] = Tail(f)[j]
                 PROVE  i = j
      OBVIOUS
    <2>1. i + 1 = j + 1
      BY <1>2, <1>3
    <2> QED
      BY <1>3, <2>1
  <1>6. \A i \in DOMAIN Tail(f) : Tail(f)[i] # Head(f)
    BY <1>1, <1>2, <1>3, <1>4
  <1> QED
    BY <1>5, <1>6 DEF IsInjective, ToSet

LEMMA PushSet ==
  ASSUME NEW S, NEW f \in Seq(S), NEW c \in S, IsInjective(f)
  PROVE  /\ Push(f, c) \in Seq(S) /\ IsInjective(Push(f, c))
         /\ ToSet(Push(f, c)) = ToSet(f) \cup {c}
  <1>1. CASE c \in ToSet(f)
    BY <1>1 DEF Push
  <1>2. CASE c \notin ToSet(f)
    <2> DEFINE g == Append(f, c)
    <2>1. /\ g \in Seq(S) /\ Len(f) \in Nat /\ DOMAIN f = 1..Len(f) /\ DOMAIN g = 1..(Len(f) + 1)
          /\ g[Len(f) + 1] = c /\ \A i \in 1..Len(f) : g[i] = f[i]
      OBVIOUS
    <2> HIDE DEF g
    <2>2. \A i \in DOMAIN f : f[i] # c
      BY <1>2 DEF ToSet
    <2>3. \A i, j \in DOMAIN f : f[i] = f[j] => i = j
      BY DEF IsInjective
    <2>4. \A i \in DOMAIN g : i \in DOMAIN f \/ i = Len(f) + 1
      BY <2>1
    <2>5. \A i, j \in DOMAIN g : g[i] = g[j] => i = j
      BY <2>1, <2>2, <2>3, <2>4
    <2>6. ToSet(g) = ToSet(f) \cup {c}
      <3>1. Len(f) + 1 \in DOMAIN g /\ \A i \in DOMAIN f : i \in DOMAIN g
        BY <2>1
      <3> QED
        BY <2>1, <2>4, <3>1 DEF ToSet
    <2>7. Push(f, c) = g
      BY <1>2 DEF Push, g
    <2> QED
      BY <2>1, <2>5, <2>6, <2>7 DEF IsInjective
  <1> QED
    BY <1>1, <1>2

LEMMA SeqInto ==
  ASSUME NEW S, NEW f \in Seq(S)
  PROVE  ToSet(f) \subseteq S
  <1>1. DOMAIN f = 1..Len(f) /\ \A i \in 1..Len(f) : f[i] \in S
    OBVIOUS
  <1> QED
    BY <1>1 DEF ToSet

LEMMA WaysCounted ==
  ASSUME NEW W, IsFiniteSet(W), NEW T \in BOOLEAN, (T /\ W # {}) \/ \E a, b \in W : a # b
  PROVE  Cardinality(W) + (IF T THEN 1 ELSE 0) >= 2
  <1>1. Cardinality(W) \in Nat
    BY FS_CardinalityType
  <1>2. CASE T /\ W # {}
    <2>1. W # {}
      BY <1>2
    <2>2. Cardinality(W) # 0
      BY <2>1, FS_EmptySet, Zenon
    <2> QED
      BY <1>1, <1>2, <2>2
  <1>3. ASSUME NEW a \in W, NEW b \in W, a # b PROVE Cardinality(W) >= 2
    <2>1. IsFiniteSet({a}) /\ Cardinality({a}) = 1
      BY FS_Singleton, Zenon
    <2>2. Cardinality({a} \cup {b}) = IF b \in {a} THEN Cardinality({a}) ELSE Cardinality({a}) + 1
      BY <2>1, FS_AddElement, Zenon
    <2>3. Cardinality({a} \cup {b}) = 2
      BY <1>3, <2>1, <2>2
    <2>4. {a} \cup {b} \subseteq W
      OBVIOUS
    <2>5. Cardinality({a} \cup {b}) <= Cardinality(W)
      BY <2>4, FS_Subset, Zenon
    <2> QED
      BY <1>1, <2>3, <2>5
  <1> QED
    BY <1>1, <1>2, <1>3

\* Taking a step off the queue and adding what its port leads to.
LEMMA SetsAfter ==
  ASSUME WalkTypeOK, WalkSets, graph' = graph, NEW c \in Queued, c \in Components, c \notin executed,
         executed' = executed \cup {c}, Queued' = (Queued \ {c}) \cup Targets(c)',
         \A b \in Components \ {c} : taken'[b] = taken[b],
         Queued' \subseteq Components
  PROVE  WalkSets'
  <1>0. Queued \subseteq Components /\ executed \subseteq Components /\ graph.start \in Components
    BY DEF WalkTypeOK, WalkSets, Reached
  <1>1. taken[c] = NoPort /\ Targets(c) = {}
    BY DEF WalkSets, Targets
  <1>2. \A b \in Components \ {c} : Targets(b)' = Targets(b)
    BY DEF Targets
  <1>3. IsFiniteSet(executed')
    BY FS_AddElement DEF WalkSets
  <1>4. \A b \in Components : taken'[b] # NoPort => b \in executed'
    BY DEF WalkSets
  <1>5. \A b \in Components : Targets(b) \subseteq Targets(b)'
    BY <1>1, <1>2
  <1>6. Reached \subseteq Reached'
    BY <1>5 DEF Reached
  <1>7. Targets(c)' \subseteq Reached'
    <2>1. c \in Reached'
      BY <1>6 DEF WalkSets
    <2>2. Targets(c)' \subseteq Components
      OBVIOUS
    <2> QED
      BY <2>1, <2>2 DEF Reached
  <1>8. (executed \cup Queued)' \subseteq Reached'
    <2>1. executed \cup Queued \subseteq Reached'
      BY <1>6 DEF WalkSets
    <2>2. executed' \subseteq Reached'
      BY <2>1
    <2> QED
      BY <1>7, <2>1, <2>2
  <1>9. (graph.start \in executed \cup Queued)'
    BY DEF WalkSets
  <1>10. \A b \in executed' : Targets(b)' \subseteq executed' \cup Queued'
    <2>1. ASSUME NEW b \in executed PROVE Targets(b)' \subseteq executed' \cup Queued'
      BY <1>0, <1>2 DEF WalkSets
    <2> QED
      BY <2>1
  <1>11. \A x \in Components : /\ Ways(x) \subseteq Ways(x)'
                               /\ c \notin Ways(x)
                               /\ x \in Targets(c)' => c \in Ways(x)'
    BY <1>0, <1>2 DEF Ways
  <1>12. ASSUME NEW x \in executed' \cup Queued' PROVE OneWay(x)'
    <2>1. x \in Components /\ (x \in executed \cup Queued \/ x \in Targets(c)')
      BY <1>0
    <2>2. CASE x \in executed \cup Queued
      <3>1. OneWay(x)
        BY <2>2 DEF WalkSets
      <3> QED
        BY <1>11, <2>1, <3>1 DEF OneWay
    <2>3. CASE x \in Targets(c)'
      BY <1>11, <2>1, <2>3 DEF OneWay
    <2> QED
      BY <2>1, <2>2, <2>3
  <1>13. ASSUME NEW x \in executed' \cap Queued' PROVE TwoWays(x)'
    <2>1. x \in Components
      BY <1>0
    <2>2. CASE x \in Targets(c)'
      <3>1. OneWay(x)
        BY DEF WalkSets
      <3>2. c \in Ways(x)' /\ Ways(x) \subseteq Ways(x)' /\ c \notin Ways(x)
        BY <1>11, <2>1, <2>2
      <3> QED
        BY <3>1, <3>2 DEF OneWay, TwoWays
    <2>3. CASE x \notin Targets(c)'
      <3>1. x \in executed \cap Queued
        BY <2>3
      <3>2. TwoWays(x)
        BY <3>1 DEF WalkSets
      <3> QED
        BY <1>11, <2>1, <3>2 DEF TwoWays
    <2> QED
      BY <2>2, <2>3
  <1> QED
    BY <1>3, <1>4, <1>8, <1>9, <1>10, <1>12, <1>13 DEF WalkSets

LEMMA WalkExecute ==
  ASSUME WalkInv, ExecuteHead
  PROVE  WalkInv'
  <1>c. PICK c : c = Head(fifo)
    OBVIOUS
  <1>1. /\ fifo \in Seq(Components) /\ IsInjective(fifo) /\ fifo # <<>> /\ todo = <<>>
        /\ c \in DOMAIN graph.out /\ c \notin executed /\ graph \in Graphs
        /\ executed' = executed \cup {c} /\ fifo' = Tail(fifo) /\ graph' = graph
        /\ taken \in [Components -> Ports \cup {NoPort}]
    BY <1>c DEF WalkInv, WalkTypeOK, ExecuteHead, Pending, Executable, Rest
  <1>2. /\ c \in Components /\ fifo' \in Seq(Components) /\ IsInjective(fifo)'
        /\ ToSet(fifo) = ToSet(fifo)' \cup {c} /\ c \notin ToSet(fifo)'
    BY <1>c, <1>1, SetOfTail, InjectiveTail
  <1>3. Queued = ToSet(fifo) /\ c \in Queued
    BY <1>1, <1>2, SetOfNone DEF Queued
  <1>4. NoPort \notin Ports /\ graph.out[c] \in [Ports -> Seq(Components)]
    BY <1>1, GraphAssumption DEF RunStacks
  <1>5. /\ todo' \in Seq(Components) /\ ToSet(todo)' = Targets(c)'
        /\ taken' \in [Components -> Ports \cup {NoPort}]
        /\ \A b \in Components \ {c} : taken'[b] = taken[b]
        /\ outcome' \in {"none", "Stopped", "Error"}
    <2>1. ASSUME NEW p \in Ports, todo' = graph.out[c][p], taken' = [taken EXCEPT ![c] = p],
                 outcome' = outcome
          PROVE  /\ todo' \in Seq(Components) /\ ToSet(todo)' = Targets(c)'
                 /\ taken' \in [Components -> Ports \cup {NoPort}]
                 /\ \A b \in Components \ {c} : taken'[b] = taken[b]
      <3>1. taken'[c] = p /\ p # NoPort /\ todo' \in Seq(Components)
        BY <1>1, <1>2, <1>4, <2>1
      <3>2. Targets(c)' = ToSet(todo)'
        BY <1>1, <2>1, <3>1 DEF Targets
      <3> QED
        BY <1>1, <2>1, <3>1, <3>2
    <2>2. CASE outcome' \in {"Stopped", "Error"} /\ UNCHANGED <<todo, taken>>
      <3>1. taken[c] = NoPort
        BY <1>1, <1>2 DEF WalkInv, WalkSets
      <3>2. Targets(c)' = {} /\ ToSet(todo)' = {}
        BY <1>1, <2>2, <3>1, SetOfNone DEF Targets
      <3>3. <<>> \in Seq(Components)
        OBVIOUS
      <3> QED
        BY <1>1, <2>2, <3>2, <3>3
    <2>3. outcome = "none"
      BY DEF ExecuteHead, Pending
    <2> QED
      BY <1>c, <2>1, <2>2, <2>3 DEF ExecuteHead
  <1>6. Queued' = (Queued \ {c}) \cup Targets(c)'
    BY <1>2, <1>3, <1>5 DEF Queued
  <1>7. WalkTypeOK'
    BY <1>1, <1>2, <1>5 DEF WalkInv, WalkTypeOK
  <1>8. Queued' \subseteq Components
    BY <1>2, <1>5, SeqInto DEF Queued
  <1>9. WalkSets'
    BY <1>1, <1>2, <1>3, <1>5, <1>6, <1>8, SetsAfter DEF WalkInv
  <1> QED
    BY <1>1, <1>5, <1>7, <1>9 DEF WalkInv

\* The steps after which the same components wait.
LEMMA SameSets ==
  ASSUME WalkSets, UNCHANGED <<graph, executed, taken>>, Queued' = Queued
  PROVE  WalkSets'
  <1>1. \A b : Targets(b)' = Targets(b)
    BY DEF Targets
  <1>2. Reached' = Reached
    BY <1>1 DEF Reached
  <1>3. \A x : Ways(x)' = Ways(x)
    BY <1>1 DEF Ways
  <1>4. \A x : (OneWay(x)' <=> OneWay(x)) /\ (TwoWays(x)' <=> TwoWays(x))
    BY <1>3 DEF OneWay, TwoWays
  <1> QED
    BY <1>1, <1>2, <1>4 DEF WalkSets

LEMMA WalkQueue ==
  ASSUME WalkInv, Queue
  PROVE  WalkInv'
  <1>1. /\ fifo \in Seq(Components) /\ IsInjective(fifo) /\ todo \in Seq(Components) /\ todo # <<>>
        /\ fifo' = Push(fifo, Head(todo)) /\ todo' = Tail(todo)
        /\ UNCHANGED <<graph, executed, taken, outcome>>
    BY DEF WalkInv, WalkTypeOK, Queue
  <1>2. /\ Head(todo) \in Components /\ todo' \in Seq(Components)
        /\ ToSet(todo) = ToSet(todo)' \cup {Head(todo)}
    BY <1>1, SetOfTail
  <1>3. /\ fifo' \in Seq(Components) /\ IsInjective(fifo)'
        /\ ToSet(fifo)' = ToSet(fifo) \cup {Head(todo)}
    BY <1>1, <1>2, PushSet
  <1>4. Queued' = Queued
    BY <1>2, <1>3 DEF Queued
  <1>5. WalkSets'
    BY <1>1, <1>4, SameSets DEF WalkInv
  <1>6. outcome' \notin {"Success", "Cyclic"}
    BY <1>1 DEF WalkInv
  <1> QED
    BY <1>1, <1>2, <1>3, <1>5, <1>6 DEF WalkInv, WalkTypeOK

LEMMA WalkInvNext ==
  ASSUME WalkInv, [WalkNext]_walkVars
  PROVE  WalkInv'
  <1>1. CASE UNCHANGED <<graph, fifo, executed, todo, taken>>
    <2>1. Queued' = Queued
      BY <1>1 DEF Queued
    <2>2. WalkSets'
      BY <1>1, <2>1, SameSets DEF WalkInv
    <2>3. outcome' = outcome \/ RefuseHead \/ TimesOut \/ Finish
      <3>1. Queue => outcome' = outcome
        BY DEF Queue
      <3>2. ~ExecuteHead
        BY <1>1 DEF ExecuteHead, Executable
      <3> QED
        BY <3>1, <3>2 DEF WalkNext, walkVars
    <2>4. /\ outcome' \in {"none", "Success", "Stopped", "Cyclic", "Missing", "Error", "Timeout"}
          /\ outcome' \in {"Success", "Cyclic"} => todo = <<>>
          /\ outcome' = "Success" => fifo = <<>>
          /\ outcome' = "Cyclic" => fifo # <<>> /\ Head(fifo) \in executed
      BY <2>3 DEF WalkInv, WalkTypeOK, RefuseHead, TimesOut, Finish, Pending
    <2> QED
      BY <1>1, <2>2, <2>4 DEF WalkInv, WalkTypeOK
  <1>2. CASE ExecuteHead \/ Queue
    BY <1>2, WalkExecute, WalkQueue
  <1> QED
    BY <1>1, <1>2 DEF WalkNext, RefuseHead, TimesOut, Finish, walkVars

LEMMA WalkInvInit == WalkInit => WalkInv
  <1> SUFFICES ASSUME WalkInit PROVE WalkInv
    OBVIOUS
  <1>1. /\ graph \in Graphs /\ graph.start \in Components /\ fifo = <<graph.start>> /\ executed = {}
        /\ todo = <<>> /\ taken = [c \in Components |-> NoPort] /\ outcome = "none"
    BY GraphAssumption DEF WalkInit, RunStacks
  <1>2. /\ fifo \in Seq(Components) /\ todo \in Seq(Components) /\ DOMAIN fifo = {1} /\ fifo[1] = graph.start
    BY <1>1
  <1>3. IsInjective(fifo) /\ ToSet(fifo) = {graph.start}
    BY <1>2 DEF IsInjective, ToSet
  <1>4. Queued = {graph.start}
    BY <1>1, <1>3, SetOfNone DEF Queued
  <1>5. WalkTypeOK
    BY <1>1, <1>2, <1>3 DEF WalkTypeOK
  <1>6. IsFiniteSet(executed)
    BY <1>1, FS_EmptySet
  <1>7. WalkSets
    BY <1>1, <1>4, <1>6 DEF WalkSets, Reached, OneWay
  <1> QED
    BY <1>1, <1>5, <1>7 DEF WalkInv

\* Nothing waits twice, for any graphs and any choice of ports.
THEOREM WalkTypeCorrect == WalkSpec => []WalkTypeOK
  <1>1. WalkInit => WalkInv
    BY WalkInvInit
  <1>2. WalkInv /\ [WalkNext]_walkVars => WalkInv'
    BY WalkInvNext
  <1>3. WalkInv => WalkTypeOK
    BY DEF WalkInv
  <1> QED
    BY <1>1, <1>2, <1>3, PTL DEF WalkSpec

\* A run executes what its ports have led to and nothing else, and all of it
\* when its queue runs empty, for any graphs, cyclic ones included.
THEOREM WalkExecutesReached == WalkSpec => []ReachedIsExecuted
  <1>1. WalkInit => WalkInv
    BY WalkInvInit
  <1>2. WalkInv /\ [WalkNext]_walkVars => WalkInv'
    BY WalkInvNext
  <1>3. WalkInv => ReachedIsExecuted
    <2> SUFFICES ASSUME WalkInv PROVE ReachedIsExecuted
      OBVIOUS
    <2>1. executed \subseteq Reached /\ executed \in SUBSET Components
      BY DEF WalkInv, WalkSets, WalkTypeOK
    <2>2. ASSUME outcome = "Success" PROVE Reached \subseteq executed
      <3>1. Queued = {}
        BY <2>2, SetOfNone DEF WalkInv, Queued
      <3>2. graph.start \in executed /\ \A b \in executed : Targets(b) \subseteq executed
        BY <3>1 DEF WalkInv, WalkSets
      <3> QED
        BY <2>1, <3>2 DEF Reached
    <2> QED
      BY <2>1, <2>2 DEF ReachedIsExecuted
  <1> QED
    BY <1>1, <1>2, <1>3, PTL DEF WalkSpec

\* Of a component that is called cyclic two executed ones lead to it, or one
\* that leads back to the trigger: never in a tree, however large the graph.
THEOREM WalkCyclicMeets == WalkSpec => []CyclicHasTwoWays
  <1>1. WalkInit => WalkInv
    BY WalkInvInit
  <1>2. WalkInv /\ [WalkNext]_walkVars => WalkInv'
    BY WalkInvNext
  <1>3. WalkInv => CyclicHasTwoWays
    <2> SUFFICES ASSUME WalkInv, outcome = "Cyclic"
                 PROVE  Cardinality(Ways(Head(fifo))) + (IF Head(fifo) = graph.start THEN 1 ELSE 0) >= 2
      BY DEF CyclicHasTwoWays
    <2>1. fifo \in Seq(Components) /\ fifo # <<>> /\ Head(fifo) \in executed
      BY DEF WalkInv, WalkTypeOK
    <2>2. Head(fifo) \in Queued
      BY <2>1, SetOfTail DEF Queued
    <2>3. TwoWays(Head(fifo))
      BY <2>1, <2>2 DEF WalkInv, WalkSets
    <2>4. IsFiniteSet(Ways(Head(fifo)))
      BY FS_Subset DEF WalkInv, WalkSets, Ways
    <2> QED
      BY <2>3, <2>4, WaysCounted DEF TwoWays
  <1> QED
    BY <1>1, <1>2, <1>3, PTL DEF WalkSpec
=============================================================================
