----------------------- MODULE UserNotificationProofs -----------------------
(* Theorems about UserNotification, for every value of its constants.      *)
EXTENDS MCUserNotification, FiniteSetTheorems, TLAPS

-----------------------------------------------------------------------------
(* What the updates of work shared by the actions return.                  *)

\* Only what worker w does with log l changes.
Moved(w, l, new) ==
    /\ work' \in [Workers -> [Logs -> Work]]
    /\ work'[w][l] = new
    /\ \A v \in Workers, m \in Logs : (v # w \/ m # l) => work'[v][m] = work[v][m]

LEMMA BecomeMoves ==
    ASSUME TypeOK, NEW w \in Workers, NEW l \in Logs, NEW new \in Work, Become(w, l, new)
    PROVE  Moved(w, l, new)
<1>1. work \in [Workers -> [Logs -> Work]]
    BY DEF TypeOK
<1>2. QED
    BY <1>1 DEF Become, Moved

\* The work of a step that keeps nothing of the step before it.
Fresh(stage, r) == [NoWork EXCEPT !.stage = stage, !.row = r]

LEMMA FreshWork ==
    ASSUME NEW stage \in Stage, NEW r \in Row
    PROVE  /\ Fresh(stage, r) \in Work
           /\ Fresh(stage, r).stage = stage /\ Fresh(stage, r).row = r
           /\ Fresh(stage, r).todo = {} /\ Fresh(stage, r).seen = {}
           /\ Fresh(stage, r).doing = {} /\ Fresh(stage, r).all = FALSE
BY DEF Fresh, NoWork, Work

LEMMA EndsMoves ==
    ASSUME TypeOK, NEW w \in Workers, NEW l \in Logs, NEW stage \in Stage, Ends(w, l, stage)
    PROVE  /\ Moved(w, l, work'[w][l])
           /\ work'[w][l].stage = stage /\ work'[w][l].row = "Executing"
           /\ work'[w][l].todo = {} /\ work'[w][l].seen = {}
           /\ work'[w][l].doing = {} /\ work'[w][l].all = FALSE
<1> DEFINE new == [NoWork EXCEPT !.stage = stage]
<1>1. /\ new \in Work
      /\ new.stage = stage /\ new.row = "Executing" /\ new.todo = {}
      /\ new.seen = {} /\ new.doing = {} /\ new.all = FALSE
    BY DEF NoWork, Work, Row
<1>2. Become(w, l, new)
    BY DEF Ends
<1> HIDE DEF new
<1>3. Moved(w, l, new)
    BY <1>1, <1>2, BecomeMoves
<1>4. QED
    BY <1>1, <1>3 DEF Moved

LEMMA RowOfStatus == \A s \in Status : RowOf(s) \in Row
BY DEF RowOf, Row, Status, Terminal

LEMMA WriteMoves ==
    ASSUME TypeOK, NEW w \in Workers, NEW l \in Logs, NEW s \in Status, WriteStatus(w, l, s)
    PROVE  Moved(w, l, Fresh("copy", RowOf(s))) /\ RowOf(s) \in Row
<1>1. "copy" \in Stage /\ RowOf(s) \in Row
    BY RowOfStatus DEF Stage
<1>2. QED
    BY <1>1, FreshWork, BecomeMoves DEF WriteStatus, Fresh

LEMMA GoToMoves ==
    ASSUME TypeOK, NEW w \in Workers, NEW l \in Logs, NEW stage \in Stage, GoTo(w, l, stage)
    PROVE  /\ Moved(w, l, work'[w][l])
           /\ work'[w][l].stage = stage /\ work'[w][l].row = work[w][l].row
           /\ work'[w][l].todo = work[w][l].todo /\ work'[w][l].seen = work[w][l].seen
           /\ work'[w][l].doing = work[w][l].doing /\ work'[w][l].all = work[w][l].all
<1> DEFINE new == [work[w][l] EXCEPT !.stage = stage]
<1>1. work[w][l] \in Work
    BY DEF TypeOK
<1>2. /\ new \in Work
      /\ new.stage = stage /\ new.row = work[w][l].row /\ new.todo = work[w][l].todo
      /\ new.seen = work[w][l].seen /\ new.doing = work[w][l].doing
      /\ new.all = work[w][l].all
    BY <1>1 DEF Work
<1>3. Become(w, l, new)
    BY DEF GoTo
<1> HIDE DEF new
<1>4. Moved(w, l, new)
    BY <1>2, <1>3, BecomeMoves
<1>5. QED
    BY <1>2, <1>4 DEF Moved

-----------------------------------------------------------------------------
(* Type correctness.                                                       *)

\* Taking a rule, with what the log says of it at that moment.
LEMMA TakeMoves ==
    ASSUME TypeOK, NEW w \in Workers, NEW l \in Logs, TakeRule(w, l)
    PROVE  /\ Moved(w, l, work'[w][l])
           /\ work'[w][l].all = work[w][l].all
           /\ \E n \in work[w][l].todo :
                 \/ /\ n \in executed[l] /\ work'[w][l].stage = "work"
                    /\ work'[w][l].todo = work[w][l].todo \ {n}
                    /\ work'[w][l].doing = work[w][l].doing
                    /\ work'[w][l].seen = work[w][l].seen
                 \/ /\ n \notin executed[l] /\ work'[w][l].stage = "record"
                    /\ work'[w][l].todo = work[w][l].todo
                    /\ work'[w][l].doing = {n} /\ work'[w][l].seen = executed[l]
<1>1. work[w][l] \in Work /\ executed[l] \in SUBSET Rules /\ work[w][l].stage = "work"
    BY DEF TypeOK, TakeRule, At
<1>2. PICK n \in work[w][l].todo :
         \/ /\ n \in executed[l]
            /\ Become(w, l, [work[w][l] EXCEPT !.todo = @ \ {n}])
         \/ /\ n \notin executed[l]
            /\ Become(w, l, [work[w][l] EXCEPT !.stage = "record", !.doing = {n},
                                               !.seen = executed[l]])
    BY DEF TakeRule
<1>3. n \in Rules
    BY <1>1, <1>2 DEF Work
<1>4. CASE n \in executed[l]
  <2> DEFINE new == [work[w][l] EXCEPT !.todo = @ \ {n}]
  <2>1. /\ new \in Work /\ new.row = work[w][l].row /\ new.all = work[w][l].all
        /\ new.stage = "work" /\ new.todo = work[w][l].todo \ {n}
        /\ new.doing = work[w][l].doing /\ new.seen = work[w][l].seen
    BY <1>1 DEF Work
  <2>2. Become(w, l, new)
    BY <1>2, <1>4
  <2> HIDE DEF new
  <2>3. Moved(w, l, new)
    BY <2>1, <2>2, BecomeMoves
  <2>4. QED
    BY <1>2, <1>4, <2>1, <2>3 DEF Moved
<1>5. CASE n \notin executed[l]
  <2> DEFINE new == [work[w][l] EXCEPT !.stage = "record", !.doing = {n}, !.seen = executed[l]]
  <2>1. /\ new \in Work /\ new.row = work[w][l].row /\ new.all = work[w][l].all
        /\ new.stage = "record" /\ new.todo = work[w][l].todo
        /\ new.doing = {n} /\ new.seen = executed[l]
    BY <1>1, <1>3 DEF Work, Stage
  <2>2. Become(w, l, new)
    BY <1>2, <1>5
  <2> HIDE DEF new
  <2>3. Moved(w, l, new)
    BY <2>1, <2>2, BecomeMoves
  <2>4. QED
    BY <1>2, <1>5, <2>1, <2>3 DEF Moved
<1>6. QED
    BY <1>4, <1>5

\* No other notification is sent than that of rule n for log l.
OthersKeep(l, n) == \A m \in Logs, o \in Rules : (m # l \/ o # n) => sent'[m][o] = sent[m][o]

\* Sending a rule that is still there.
LEMMA SendMoves ==
    ASSUME TypeOK, NEW w \in Workers, NEW l \in Logs, NEW n \in Rules,
           Notify(l, n),
           Become(w, l, [work[w][l] EXCEPT !.stage = "work", !.doing = {},
                                           !.seen = {}, !.todo = @ \ {n}])
    PROVE  /\ sent' \in [Logs -> [Rules -> 0..2]]
           /\ sent[l][n] = 0 => sent'[l][n] = 1
           /\ sent'[l][n] > 0
           /\ OthersKeep(l, n)
           /\ \A m \in Logs \ {l} : sent'[m] = sent[m]
           /\ Moved(w, l, work'[w][l])
           /\ work'[w][l].stage = "work" /\ work'[w][l].doing = {} /\ work'[w][l].seen = {}
           /\ work'[w][l].todo = work[w][l].todo \ {n}
           /\ work'[w][l].row = work[w][l].row /\ work'[w][l].all = work[w][l].all
<1>1. work[w][l] \in Work /\ sent \in [Logs -> [Rules -> 0..2]]
    BY DEF TypeOK
<1>2. /\ Moved(w, l, work'[w][l])
      /\ work'[w][l].stage = "work" /\ work'[w][l].doing = {} /\ work'[w][l].seen = {}
      /\ work'[w][l].todo = work[w][l].todo \ {n}
      /\ work'[w][l].row = work[w][l].row /\ work'[w][l].all = work[w][l].all
  <2> DEFINE new == [work[w][l] EXCEPT !.stage = "work", !.doing = {}, !.seen = {},
                                       !.todo = @ \ {n}]
  <2>1. /\ new \in Work /\ new.row = work[w][l].row /\ new.all = work[w][l].all
        /\ new.stage = "work" /\ new.doing = {} /\ new.seen = {}
        /\ new.todo = work[w][l].todo \ {n}
    BY <1>1 DEF Work, Stage
  <2>2. Become(w, l, new)
    OBVIOUS
  <2> HIDE DEF new
  <2>3. Moved(w, l, new)
    BY <2>1, <2>2, BecomeMoves
  <2>4. QED
    BY <2>1, <2>3 DEF Moved
<1>3. /\ sent' \in [Logs -> [Rules -> 0..2]]
      /\ sent[l][n] = 0 => sent'[l][n] = 1
      /\ sent'[l][n] > 0
      /\ OthersKeep(l, n)
      /\ \A m \in Logs \ {l} : sent'[m] = sent[m]
  <2> DEFINE more == IF sent[l][n] < 2 THEN sent[l][n] + 1 ELSE sent[l][n]
  <2>1. sent[l] \in [Rules -> 0..2] /\ sent[l][n] \in 0..2
    BY <1>1
  <2>2. more \in 0..2 /\ more > 0 /\ (sent[l][n] = 0 => more = 1)
    BY <2>1
  <2>3. sent' = [sent EXCEPT ![l][n] = more]
    BY <1>1 DEF Notify
  <2> HIDE DEF more
  <2>4. QED
    BY <1>1, <2>1, <2>2, <2>3 DEF OthersKeep
<1>4. QED
    BY <1>2, <1>3

LEMMA SendAt ==
    ASSUME TypeOK, NEW w \in Workers, NEW l \in Logs, SendNotification(w, l)
    PROVE  \E n \in work[w][l].doing :
              /\ n \in Rules
              /\ \/ /\ n \in rules /\ sent'[l][n] > 0 /\ (sent[l][n] = 0 => sent'[l][n] = 1)
                    /\ OthersKeep(l, n)
                    /\ work'[w][l].stage = "work" /\ work'[w][l].doing = {}
                    /\ work'[w][l].seen = {} /\ work'[w][l].todo = work[w][l].todo \ {n}
                    /\ work'[w][l].all = work[w][l].all
                 \/ /\ n \notin rules /\ sent' = sent
                    /\ work'[w][l].stage = IF w = Request THEN "dead" ELSE "fail"
                    /\ work'[w][l].doing = {} /\ work'[w][l].seen = {}
                    /\ work'[w][l].todo = {} /\ work'[w][l].all = FALSE
<1>1. PICK n \in work[w][l].doing :
         \/ /\ n \in rules
            /\ Notify(l, n)
            /\ Become(w, l, [work[w][l] EXCEPT !.stage = "work", !.doing = {},
                                               !.seen = {}, !.todo = @ \ {n}])
         \/ /\ n \notin rules
            /\ Ends(w, l, IF w = Request THEN "dead" ELSE "fail")
            /\ UNCHANGED sent
    BY DEF SendNotification
<1>2. n \in Rules
    BY <1>1 DEF TypeOK, Work
<1>3. CASE n \in rules
  <2>1. /\ Notify(l, n)
        /\ Become(w, l, [work[w][l] EXCEPT !.stage = "work", !.doing = {},
                                           !.seen = {}, !.todo = @ \ {n}])
    BY <1>1, <1>3
  <2>2. /\ sent'[l][n] > 0 /\ (sent[l][n] = 0 => sent'[l][n] = 1)
        /\ OthersKeep(l, n)
    <3>1. sent'[l][n] > 0
      BY <1>2, <2>1, SendMoves, Zenon
    <3>2. sent[l][n] = 0 => sent'[l][n] = 1
      BY <1>2, <2>1, SendMoves, Zenon
    <3>3. OthersKeep(l, n)
      BY <1>2, <2>1, SendMoves, Zenon
    <3>4. QED
      BY <3>1, <3>2, <3>3
  <2>3. /\ work'[w][l].stage = "work" /\ work'[w][l].doing = {} /\ work'[w][l].seen = {}
        /\ work'[w][l].todo = work[w][l].todo \ {n} /\ work'[w][l].all = work[w][l].all
    BY <1>2, <2>1, SendMoves
  <2>4. QED
    BY <1>1, <1>2, <1>3, <2>2, <2>3
<1>4. CASE n \notin rules
  <2> DEFINE stage == IF w = Request THEN "dead" ELSE "fail"
  <2>1. stage \in Stage
    BY DEF Stage
  <2>2. Ends(w, l, stage) /\ sent' = sent
    BY <1>1, <1>4
  <2> HIDE DEF stage
  <2>3. /\ work'[w][l].stage = stage /\ work'[w][l].doing = {} /\ work'[w][l].seen = {}
        /\ work'[w][l].todo = {} /\ work'[w][l].all = FALSE
    BY <2>1, <2>2, EndsMoves, Zenon
  <2>4. QED
    BY <1>1, <1>2, <1>4, <2>2, <2>3 DEF stage
<1>5. QED
    BY <1>3, <1>4

LEMMA FindAt ==
    ASSUME TypeOK, NEW w \in Workers, NEW l \in Logs,
           (w = Request /\ FindImmediate(l)) \/ (w \in Runs /\ FindDue(w, l))
    PROVE  /\ work'[w][l].stage = "work" /\ work'[w][l].doing = {} /\ work'[w][l].seen = {}
           /\ work'[w][l].todo \subseteq rules
           /\ work'[w][l].all => w \in Runs /\ AllExecuted(w, l)
<1>1. work \in [Workers -> [Logs -> Work]]
    BY DEF TypeOK
<1>2. CASE w = Request /\ FindImmediate(l)
  <2> DEFINE due == {n \in rules : NotifyAfter[n] = 0}
  <2>1. work' = [work EXCEPT ![w][l] = [NoWork EXCEPT !.stage = "work", !.todo = due]]
    BY <1>2 DEF FindImmediate, Become
  <2>2. due \subseteq rules
    OBVIOUS
  <2> HIDE DEF due
  <2>3. work'[w][l] = [NoWork EXCEPT !.stage = "work", !.todo = due]
    BY <1>1, <2>1
  <2>4. QED
    BY <2>2, <2>3 DEF NoWork
<1>3. CASE w \in Runs /\ FindDue(w, l)
  <2> DEFINE due == {n \in rules \ work[w][l].seen : NotifyAfter[n] <= age[l]}
             all == AllExecuted(w, l)
  <2>1. work' = [work EXCEPT ![w][l] = [NoWork EXCEPT !.stage = "work", !.all = all, !.todo = due]]
    BY <1>3 DEF FindDue, Become
  <2>2. due \subseteq rules /\ (all => AllExecuted(w, l))
    OBVIOUS
  <2> HIDE DEF due, all
  <2>3. work'[w][l] = [NoWork EXCEPT !.stage = "work", !.all = all, !.todo = due]
    BY <1>1, <2>1
  <2>4. QED
    BY <1>3, <2>2, <2>3 DEF NoWork
<1>4. QED
    BY <1>2, <1>3

\* What a loop of rules does: it sends nothing, or one rule it was executing.
LEMMA TypeWorkStep ==
    ASSUME TypeOK, NEW w \in Workers, NEW l \in Logs, WorkStep(w, l)
    PROVE  TypeOK'
<1>1. CASE TakeRule(w, l)
    BY <1>1, TakeMoves DEF TypeOK, TakeRule, WorkFrame, ackVars, Moved
<1>2. CASE RecordExecuted(w, l)
  <2>1. work' \in [Workers -> [Logs -> Work]]
    BY <1>2, GoToMoves DEF RecordExecuted, Moved, Stage
  <2>2. executed' \in [Logs -> SUBSET Rules]
    BY <1>2 DEF RecordExecuted, TypeOK, Work
  <2>3. QED
    BY <1>2, <2>1, <2>2 DEF TypeOK, RecordExecuted, WorkFrame, ackVars
<1>3. CASE SendNotification(w, l)
  <2>1. PICK n \in work[w][l].doing :
          \/ /\ Notify(l, n)
             /\ Become(w, l, [work[w][l] EXCEPT !.stage = "work", !.doing = {},
                                                !.seen = {}, !.todo = @ \ {n}])
          \/ /\ Ends(w, l, IF w = Request THEN "dead" ELSE "fail")
             /\ UNCHANGED sent
    BY <1>3 DEF SendNotification
  <2>2. n \in Rules
    BY <2>1 DEF TypeOK, Work
  <2>3. work' \in [Workers -> [Logs -> Work]] /\ sent' \in [Logs -> [Rules -> 0..2]]
    <3>1. CASE Ends(w, l, IF w = Request THEN "dead" ELSE "fail") /\ UNCHANGED sent
      <4>1. (IF w = Request THEN "dead" ELSE "fail") \in Stage
        BY DEF Stage
      <4>2. QED
        BY <3>1, <4>1, EndsMoves DEF TypeOK, Moved
    <3>2. QED
      BY <2>1, <2>2, <3>1, SendMoves DEF Moved
  <2>4. QED
    BY <1>3, <2>3 DEF TypeOK, SendNotification, WorkFrame, ackVars
<1>4. CASE LoopEnds(w, l)
    BY <1>4, EndsMoves DEF TypeOK, LoopEnds, WorkFrame, ackVars, Moved, Stage
<1>5. CASE CopyStatus(w, l)
  <2>1. work' \in [Workers -> [Logs -> Work]]
    BY <1>5, EndsMoves DEF CopyStatus, Moved, Stage
  <2>2. row' \in [Logs -> Row]
    BY <1>5 DEF CopyStatus, TypeOK, Work
  <2>3. QED
    BY <1>5, <2>1, <2>2 DEF TypeOK, CopyStatus, ackVars
<1>6. QED
    BY <1>1, <1>2, <1>3, <1>4, <1>5 DEF WorkStep

LEMMA TypeRequest ==
    ASSUME TypeOK, NEW l \in Logs, Create(l) \/ RequestStep(l) \/ RequestDies(l)
    PROVE  TypeOK'
<1>r. Request \in Workers
    BY DEF Workers
<1>1. ASSUME NEW s \in Status, WriteStatus(Request, l, s) PROVE TypeOK'
    BY <1>r, <1>1, WriteMoves DEF TypeOK, WriteStatus, Moved, ackVars
<1>2. CASE Create(l)
  <2>1. status' \in [Logs -> Status]
    BY <1>2 DEF TypeOK, Create, Status
  <2>2. QED
    BY <1>r, <1>2, <2>1, EndsMoves DEF TypeOK, Create, Moved, ackVars, Stage
<1>3. CASE Start(l) \/ NoRules(l) \/ Finish(l)
    BY <1>1, <1>3 DEF Start, NoRules, Finish, Status, Terminal
<1>4. CASE CountRules(l)
    BY <1>r, <1>4, EndsMoves DEF TypeOK, CountRules, WorkFrame, Moved, ackVars, Stage
<1>5. CASE MarkRowAgain(l) \/ MarkRowSent(l)
  <2>1. work' \in [Workers -> [Logs -> Work]]
    BY <1>r, <1>5, EndsMoves DEF MarkRowAgain, MarkRowSent, Moved, Stage
  <2>2. row' \in [Logs -> Row]
    BY <1>5 DEF MarkRowAgain, MarkRowSent, TypeOK, Row
  <2>3. QED
    BY <1>5, <2>1, <2>2 DEF TypeOK, MarkRowAgain, MarkRowSent, ackVars
<1>6. CASE FindImmediate(l)
  <2> DEFINE due == {n \in rules : NotifyAfter[n] = 0}
             new == [NoWork EXCEPT !.stage = "work", !.todo = due]
  <2>1. due \in SUBSET Rules
    BY DEF TypeOK
  <2> HIDE DEF due
  <2>2. new \in Work
    BY <2>1 DEF NoWork, Work, Row, Stage
  <2>3. Become(Request, l, new)
    BY <1>6 DEF FindImmediate, due
  <2>4. work' \in [Workers -> [Logs -> Work]]
    BY <1>r, <2>2, <2>3, BecomeMoves DEF Moved
  <2>5. QED
    BY <1>6, <2>4 DEF TypeOK, FindImmediate, WorkFrame, ackVars
<1>7. CASE RequestDies(l)
  <2>1. failures' \in 0..MaxFailures
    BY <1>7, ConstantsAssumption DEF TypeOK, RequestDies, Fail
  <2>2. QED
    BY <1>r, <1>7, <2>1, EndsMoves DEF TypeOK, RequestDies, Moved, ackVars, Stage
<1>8. QED
    BY <1>2, <1>3, <1>4, <1>5, <1>6, <1>7 DEF RequestStep

LEMMA TypeCall ==
    ASSUME TypeOK, NEW r \in Runs, NEW l \in Logs, CallStep(r, l) \/ CallThrows(r, l)
    PROVE  TypeOK'
<1>r. r \in Workers
    BY DEF Workers
<1>1. ASSUME NEW s \in Status, WriteStatus(r, l, s) PROVE TypeOK'
    BY <1>r, <1>1, WriteMoves DEF TypeOK, WriteStatus, Moved, ackVars
<1>2. CASE Complete(r, l) \/ MarkFailed(r, l)
    BY <1>1, <1>2 DEF Complete, MarkFailed, Status, Terminal
<1>3. CASE FindDue(r, l)
  <2> DEFINE due == {n \in rules \ work[r][l].seen : NotifyAfter[n] <= age[l]}
             new == [NoWork EXCEPT !.stage = "work", !.all = AllExecuted(r, l), !.todo = due]
  <2>1. due \in SUBSET Rules /\ AllExecuted(r, l) \in BOOLEAN
    BY DEF TypeOK, AllExecuted
  <2>2. Become(r, l, new)
    BY <1>3 DEF FindDue
  <2> HIDE DEF due
  <2>3. new \in Work
    BY <2>1 DEF NoWork, Work, Row, Stage
  <2>4. work' \in [Workers -> [Logs -> Work]]
    BY <1>r, <2>2, <2>3, BecomeMoves DEF Moved
  <2>5. QED
    BY <1>3, <2>4 DEF TypeOK, FindDue, WorkFrame, ackVars
<1>4. CASE CallThrows(r, l)
  <2>1. failures' \in 0..MaxFailures
    BY <1>4, ConstantsAssumption DEF TypeOK, CallThrows, Fail
  <2>2. work' \in [Workers -> [Logs -> Work]]
    BY <1>r, <1>4, EndsMoves DEF CallThrows, Moved, Stage
  <2>3. QED
    BY <1>4, <2>1, <2>2 DEF TypeOK, CallThrows, ackVars
<1>5. QED
    BY <1>2, <1>3, <1>4 DEF CallStep

\* A snapshot starts a call on each Executing log, a crash ends all of a run's.
LEMMA RunMoves ==
    ASSUME TypeOK, NEW r \in Runs, Snapshot(r) \/ WorkerCrash(r)
    PROVE  /\ work' \in [Workers -> [Logs -> Work]]
           /\ \A w \in Workers \ {r} : work'[w] = work[w]
           /\ \A l \in Logs : \/ work'[r][l] = NoWork
                              \/ /\ Snapshot(r) /\ Pending(l)
                                 /\ work'[r][l] = [NoWork EXCEPT !.stage = "check",
                                                                 !.seen = executed[l]]
<1>1. work \in [Workers -> [Logs -> Work]] /\ executed \in [Logs -> SUBSET Rules] /\ r \in Workers
    BY DEF TypeOK, Workers
<1>2. NoWork \in Work /\ \A l \in Logs : [NoWork EXCEPT !.stage = "check", !.seen = executed[l]] \in Work
    BY <1>1 DEF NoWork, Work, Row, Stage
<1>3. CASE WorkerCrash(r)
    BY <1>1, <1>2, <1>3 DEF WorkerCrash
<1>4. CASE Snapshot(r)
  <2> DEFINE calls == [l \in Logs |-> IF Pending(l)
                                      THEN [NoWork EXCEPT !.stage = "check", !.seen = executed[l]]
                                      ELSE NoWork]
  <2>1. calls \in [Logs -> Work]
    BY <1>2
  <2>2. work' = [work EXCEPT ![r] = calls]
    BY <1>4 DEF Snapshot
  <2>3. \A l \in Logs : \/ calls[l] = NoWork
                        \/ /\ Pending(l)
                           /\ calls[l] = [NoWork EXCEPT !.stage = "check", !.seen = executed[l]]
    OBVIOUS
  <2> HIDE DEF calls
  <2>4. QED
    BY <1>1, <1>4, <2>1, <2>2, <2>3
<1>5. QED
    BY <1>3, <1>4

LEMMA TypeRun ==
    ASSUME TypeOK, NEW r \in Runs, Snapshot(r) \/ WorkerCrash(r)
    PROVE  TypeOK'
<1>1. work' \in [Workers -> [Logs -> Work]]
    BY RunMoves
<1>2. CASE Snapshot(r)
    BY <1>1, <1>2 DEF TypeOK, Snapshot, WorkFrame, ackVars
<1>3. CASE WorkerCrash(r)
  <2>1. failures' \in 0..MaxFailures
    BY <1>3, ConstantsAssumption DEF TypeOK, WorkerCrash, Fail
  <2>2. QED
    BY <1>1, <1>3, <2>1 DEF TypeOK, WorkerCrash, ackVars
<1>4. QED
    BY <1>2, <1>3

LEMMA TypeAck ==
    ASSUME TypeOK, NEW l \in Logs, FollowLink(l) \/ AckStep(l) \/ AckThrows(l)
    PROVE  TypeOK'
<1>1. ack' \in [Logs -> AckStage]
    BY DEF TypeOK, FollowLink, AckStep, AckLog, AckCopy, AckPolicy, AckRow, AckIncident, AckThrows,
           AckTo, AckStage
<1>2. /\ status' \in [Logs -> Status] /\ row' \in [Logs -> Row]
      /\ acked' \in [Logs -> BOOLEAN]
      /\ policy' \in {"Executing", "Completed"} /\ incident' \in {"open", "acknowledged"}
    BY DEF TypeOK, FollowLink, AckStep, AckLog, AckCopy, AckPolicy, AckRow, AckIncident, AckThrows,
           Status, Terminal, Row, RowOf
<1>3. failures' \in 0..MaxFailures
    BY ConstantsAssumption
    DEF TypeOK, FollowLink, AckStep, AckLog, AckCopy, AckPolicy, AckRow, AckIncident, AckThrows,
        Fail, AckFrame
<1>4. UNCHANGED <<rules, executed, age, work, stuck, marked, sent>>
    BY DEF FollowLink, AckStep, AckLog, AckCopy, AckPolicy, AckRow, AckIncident, AckThrows, AckFrame
<1>5. QED
    BY <1>1, <1>2, <1>3, <1>4 DEF TypeOK

LEMMA TypeOther ==
    ASSUME TypeOK,
           \/ \E l \in Logs : MarkStuck(l) \/ CopyStuck(l)
           \/ \E n \in Rules : AddRule(n) \/ RemoveRule(n)
           \/ FindStuck \/ StuckAborts \/ Tick
    PROVE  TypeOK'
<1>1. CASE \E l \in Logs : MarkStuck(l) \/ CopyStuck(l)
    BY <1>1 DEF TypeOK, MarkStuck, CopyStuck, Status, Terminal, Row, ackVars
<1>2. CASE \E n \in Rules : AddRule(n) \/ RemoveRule(n)
    BY <1>2 DEF TypeOK, AddRule, RemoveRule, ackVars
<1>3. CASE FindStuck
    BY <1>3 DEF TypeOK, FindStuck, StuckLogs, ackVars
<1>4. CASE StuckAborts
    BY <1>4, ConstantsAssumption DEF TypeOK, StuckAborts, Fail, ackVars
<1>5. CASE Tick
  <2>1. age' \in [Logs -> Minute]
    BY <1>5, ConstantsAssumption DEF TypeOK, Tick, Minute
  <2>2. QED
    BY <1>5, <2>1 DEF TypeOK, Tick, ackVars
<1>6. QED
    BY <1>1, <1>2, <1>3, <1>4, <1>5

LEMMA TypeStep == TypeOK /\ [Next]_vars => TypeOK'
<1> SUFFICES ASSUME TypeOK, [Next]_vars PROVE TypeOK'
    OBVIOUS
<1>1. CASE UNCHANGED vars
    BY <1>1 DEF TypeOK, vars, ackVars
<1>2. CASE Next
    BY <1>2, TypeWorkStep, TypeRequest, TypeCall, TypeRun, TypeAck, TypeOther DEF Next
<1>3. QED
    BY <1>1, <1>2

LEMMA TypeInit == Init => TypeOK
<1> SUFFICES ASSUME Init PROVE TypeOK
    OBVIOUS
<1>1. NoWork \in Work
    BY DEF NoWork, Work, Row, Stage
<1>2. 0 \in Minute /\ 0 \in 0..MaxFailures
    BY ConstantsAssumption DEF Minute
<1>3. QED
    BY <1>1, <1>2 DEF Init, TypeOK, Status, Row, AckStage

\* The row of the execution timeline only ever gets a status it can have, and
\* no loop, record or job refers to a rule or log that does not exist.
THEOREM TypeCorrect == Spec => []TypeOK
<1>1. QED
    BY TypeInit, TypeStep, PTL DEF Spec

-----------------------------------------------------------------------------
(* What a step may change: only one worker acts, on one log.               *)

\* A worker's step on a log, with its kinds named.
WorkerStep(w, l) ==
    \/ WorkStep(w, l)
    \/ w = Request /\ (Create(l) \/ RequestStep(l) \/ RequestDies(l))
    \/ w \in Runs /\ (CallStep(w, l) \/ CallThrows(w, l))

\* It leaves every other log, and what other workers do with this one, alone.
LEMMA WorkerStepFrame ==
    ASSUME TypeOK, NEW w \in Workers, NEW l \in Logs, WorkerStep(w, l)
    PROVE  /\ work' \in [Workers -> [Logs -> Work]]
           /\ \A v \in Workers, m \in Logs : (v # w \/ m # l) => work'[v][m] = work[v][m]
           /\ \A m \in Logs \ {l} : /\ status'[m] = status[m] /\ executed'[m] = executed[m]
                                   /\ sent'[m] = sent[m]
           /\ UNCHANGED <<rules, acked, age, stuck, marked, ackVars>>
           /\ failures' = failures \/ failures' = failures + 1
<1>1. work \in [Workers -> [Logs -> Work]] /\ work' \in [Workers -> [Logs -> Work]]
    BY TypeWorkStep, TypeRequest, TypeCall DEF WorkerStep, TypeOK
<1>2. \E new : work' = [work EXCEPT ![w][l] = new]
    BY DEF WorkerStep, WorkStep, TakeRule, RecordExecuted, SendNotification, LoopEnds, CopyStatus,
           Create, RequestStep, Start, CountRules, NoRules, MarkRowAgain, FindImmediate, Finish,
           MarkRowSent, RequestDies, CallStep, FindDue, Complete, MarkFailed, CallThrows,
           WriteStatus, Ends, GoTo, Become
<1>3. \A v \in Workers, m \in Logs : (v # w \/ m # l) => work'[v][m] = work[v][m]
    BY <1>1, <1>2
<1>4. /\ status' = status \/ \E x : status' = [status EXCEPT ![l] = x]
      /\ executed' = executed \/ \E x : executed' = [executed EXCEPT ![l] = x]
      /\ UNCHANGED <<rules, acked, age, stuck, marked, ackVars>>
      /\ failures' = failures \/ failures' = failures + 1
    BY DEF WorkerStep, WorkStep, TakeRule, RecordExecuted, SendNotification, LoopEnds, CopyStatus,
           Create, RequestStep, Start, CountRules, NoRules, MarkRowAgain, FindImmediate, Finish,
           MarkRowSent, RequestDies, CallStep, FindDue, Complete, MarkFailed, CallThrows,
           WriteStatus, WorkFrame, Fail
<1>5. \A m \in Logs \ {l} : sent'[m] = sent[m]
  <2>1. CASE SendNotification(w, l)
    <3>1. \A n \in work[w][l].doing : n \in Rules
      BY DEF TypeOK, Work
    <3>2. QED
      BY <2>1, <3>1, SendMoves DEF SendNotification
  <2>2. CASE ~SendNotification(w, l)
    BY <2>2
    DEF WorkerStep, WorkStep, TakeRule, RecordExecuted, LoopEnds, CopyStatus,
        Create, RequestStep, Start, CountRules, NoRules, MarkRowAgain, FindImmediate, Finish,
        MarkRowSent, RequestDies, CallStep, FindDue, Complete, MarkFailed, CallThrows,
        WriteStatus, WorkFrame
  <2>3. QED
    BY <2>1, <2>2
<1>6. QED
    BY <1>1, <1>3, <1>4, <1>5 DEF TypeOK

\* The steps of the others.
OtherStep ==
    \/ \E l \in Logs : \/ MarkStuck(l) \/ CopyStuck(l)
                       \/ FollowLink(l) \/ AckStep(l) \/ AckThrows(l)
    \/ \E n \in Rules : AddRule(n) \/ RemoveRule(n)
    \/ FindStuck \/ StuckAborts \/ Tick

\* They leave the records and the notifications alone, and a log they write
\* is one the timeout job has found or one that is acknowledged.
LEMMA OtherStepFrame ==
    ASSUME TypeOK, OtherStep
    PROVE  /\ UNCHANGED <<work, executed, sent>>
           /\ rules' = rules \/ \E n \in Rules : AddRule(n) \/ RemoveRule(n)
           /\ failures' = failures \/ failures' = failures + 1
           /\ \A l \in Logs : \/ status'[l] = status[l] /\ acked'[l] = acked[l]
                              \/ status'[l] = "Error" /\ l \in stuck /\ acked'[l] = acked[l]
                              \/ status'[l] = "Completed" /\ acked'[l] = TRUE
           /\ \A l \in Logs : (l \in (stuck \cup marked)' /\ l \notin stuck \cup marked)
                                  => status[l] = "Started"
<1>1. UNCHANGED <<work, executed, sent>> /\ (failures' = failures \/ failures' = failures + 1)
    BY DEF OtherStep, MarkStuck, CopyStuck, FollowLink, AckStep, AckLog, AckCopy, AckPolicy, AckRow,
           AckIncident, AckThrows, AddRule, RemoveRule, FindStuck, StuckAborts, Tick, AckFrame, Fail
<1>2. rules' = rules \/ \E n \in Rules : AddRule(n) \/ RemoveRule(n)
    BY DEF OtherStep, MarkStuck, CopyStuck, FollowLink, AckStep, AckLog, AckCopy, AckPolicy, AckRow,
           AckIncident, AckThrows, FindStuck, StuckAborts, Tick, AckFrame
<1>3. \/ UNCHANGED <<status, acked>>
      \/ \E m \in Logs : m \in stuck /\ status' = [status EXCEPT ![m] = "Error"] /\ acked' = acked
      \/ \E m \in Logs : /\ status' = [status EXCEPT ![m] = "Completed"]
                         /\ acked' = [acked EXCEPT ![m] = TRUE]
    BY DEF OtherStep, MarkStuck, CopyStuck, FollowLink, AckStep, AckLog, AckCopy, AckPolicy, AckRow,
           AckIncident, AckThrows, AddRule, RemoveRule, FindStuck, StuckAborts, Tick, AckFrame
<1>4. \A l \in Logs : \/ status'[l] = status[l] /\ acked'[l] = acked[l]
                      \/ status'[l] = "Error" /\ l \in stuck /\ acked'[l] = acked[l]
                      \/ status'[l] = "Completed" /\ acked'[l] = TRUE
    BY <1>3 DEF TypeOK
<1>5. \/ (stuck \cup marked)' \subseteq stuck \cup marked
      \/ FindStuck
    BY DEF OtherStep, MarkStuck, CopyStuck, FollowLink, AckStep, AckLog, AckCopy, AckPolicy, AckRow,
           AckIncident, AckThrows, AddRule, RemoveRule, StuckAborts, Tick, AckFrame
<1>6. \A l \in Logs : (l \in (stuck \cup marked)' /\ l \notin stuck \cup marked)
                          => status[l] = "Started"
    BY <1>5 DEF FindStuck, StuckLogs
<1>7. QED
    BY <1>1, <1>2, <1>4, <1>6

LEMMA NextSteps ==
    ASSUME [Next]_vars
    PROVE  \/ UNCHANGED vars
           \/ \E w \in Workers, l \in Logs : WorkerStep(w, l)
           \/ \E r \in Runs : Snapshot(r) \/ WorkerCrash(r)
           \/ OtherStep
BY DEF Next, WorkerStep, OtherStep, Workers

\* A worker that acts on a log is at work on it.
LEMMA WorkerStepStage ==
    ASSUME NEW w \in Workers, NEW l \in Logs, WorkerStep(w, l)
    PROVE  /\ w \in Runs => ~At(w, l, "idle")
           /\ w = Request => work[w][l].stage \notin {"done", "dead"}
BY ConstantsAssumption
DEF WorkerStep, WorkStep, TakeRule, RecordExecuted, SendNotification, LoopEnds, CopyStatus,
    Create, RequestStep, Start, CountRules, NoRules, MarkRowAgain, FindImmediate, Finish,
    MarkRowSent, RequestDies, CallStep, FindDue, Complete, MarkFailed, CallThrows, At

-----------------------------------------------------------------------------
(* What has ended stays silent.                                            *)

Over(l) == Unattended(l) /\ status[l] \in Terminal

LEMMA OverStep ==
    ASSUME TypeOK, [Next]_vars, NEW l \in Logs, Over(l)
    PROVE  Over(l)' /\ sent'[l] = sent[l]
<1>1. CASE UNCHANGED vars
    BY <1>1 DEF vars, Over, Unattended, At
<1>2. ASSUME NEW w \in Workers, NEW m \in Logs, WorkerStep(w, m) PROVE Over(l)' /\ sent'[l] = sent[l]
  <2>1. m # l
    BY <1>2, WorkerStepStage DEF Over, Unattended, Workers
  <2>2. /\ \A v \in Workers : work'[v][l] = work[v][l]
        /\ status'[l] = status[l] /\ sent'[l] = sent[l] /\ stuck' = stuck /\ marked' = marked
    BY <1>2, <2>1, WorkerStepFrame
  <2>3. QED
    BY <2>2 DEF Over, Unattended, At, Workers
<1>3. ASSUME NEW r \in Runs, Snapshot(r) \/ WorkerCrash(r) PROVE Over(l)' /\ sent'[l] = sent[l]
  <2>1. UNCHANGED <<status, stuck, marked, sent>>
    BY <1>3 DEF Snapshot, WorkerCrash, WorkFrame
  <2>2. ~Pending(l)
    BY DEF Over, Pending, Terminal
  <2>3. \A w \in Workers : work'[w][l] = work[w][l] \/ (w = r /\ work'[w][l] = NoWork)
    BY <1>3, <2>2, RunMoves
  <2>4. QED
    BY <2>1, <2>3, ConstantsAssumption DEF Over, Unattended, At, Workers, NoWork
<1>4. CASE OtherStep
  <2>1. /\ work' = work /\ sent' = sent
        /\ status'[l] \in Terminal
        /\ l \notin (stuck \cup marked)'
    BY <1>4, OtherStepFrame DEF Over, Unattended, Terminal
  <2>2. QED
    BY <2>1 DEF Over, Unattended, At
<1>5. QED
    BY <1>1, <1>2, <1>3, <1>4, NextSteps

\* A page that has ended and that nothing works on never notifies the user
\* again, for any number of pages, rules and overlapping cron runs.
THEOREM EndedForGood == Spec => EndedStaysSilent
<1>1. TypeOK /\ [Next]_vars =>
        [\A l \in Logs : (Unattended(l) /\ status[l] \in Terminal) =>
            (Unattended(l) /\ status[l] \in Terminal)' /\ sent'[l] = sent[l]]_vars
    BY OverStep DEF Over
<1>2. QED
    BY <1>1, TypeCorrect, PTL DEF Spec, EndedStaysSilent

-----------------------------------------------------------------------------
(* Nobody is notified twice while runs do not overlap.                     *)

\* Runs of the cron job do not overlap.
OneRun == \A r, q \in Runs : r = q

\* The request has not yet made the log Executing.
Early(l) ==
    \/ work[Request][l].stage \in {"idle", "create", "count", "find", "work", "record", "send",
                                   "finish"}
    \/ At(Request, l, "copy") /\ work[Request][l].row = "Started"

\* Until then no run is at work on the log, and afterwards the request sends
\* nothing more: one worker at a time has read the record and is to write it.
TurnInv(l) ==
    /\ Early(l) => status[l] # "Executing" /\ \A r \in Runs : At(r, l, "idle")
    /\ work[Request][l].stage \notin {"check", "complete", "fail"}

RecordInv(w, l) ==
    /\ At(w, l, "record") => /\ work[w][l].seen = executed[l]
                             /\ work[w][l].doing \cap executed[l] = {}
    /\ At(w, l, "send") => \A n \in work[w][l].doing : n \in executed[l] /\ sent[l][n] = 0

OnceInv(l) ==
    /\ TurnInv(l)
    /\ \A w \in Workers : RecordInv(w, l)
    /\ \A n \in Rules : sent[l][n] <= 1 /\ (n \notin executed[l] => sent[l][n] = 0)

\* Whoever executes a rule for a log is the only one.
LEMMA ExecutesAlone ==
    ASSUME OneRun, NEW w \in Workers, NEW l \in Logs, OnceInv(l),
           At(w, l, "record") \/ At(w, l, "send"), NEW v \in Workers, v # w
    PROVE  ~At(v, l, "record") /\ ~At(v, l, "send")
<1>1. CASE w \in Runs
    BY <1>1 DEF OneRun, Workers, OnceInv, TurnInv, Early, At
<1>2. CASE w = Request
    BY <1>2 DEF Workers, OnceInv, TurnInv, Early, At
<1>3. QED
    BY <1>1, <1>2 DEF Workers

LEMMA TurnWorkStep ==
    ASSUME TypeOK, NEW w \in Workers, NEW l \in Logs, WorkStep(w, l), TurnInv(l)
    PROVE  TurnInv(l)'
<1>1. /\ \A v \in Workers : v # w => work'[v][l] = work[v][l]
      /\ status' = status
    BY WorkerStepFrame
    DEF WorkerStep, WorkStep, TakeRule, RecordExecuted, SendNotification, LoopEnds, CopyStatus,
        WorkFrame
<1>2. CASE w \in Runs
  <2>1. ~At(w, l, "idle") /\ Request # w /\ Request \in Workers
    BY <1>2, ConstantsAssumption, WorkerStepStage DEF WorkerStep, Workers
  <2>2. QED
    BY <1>1, <1>2, <2>1 DEF TurnInv, Early, At, Workers
<1>3. CASE w = Request
  <2>1. /\ work'[w][l].stage \notin {"check", "complete", "fail"}
        /\ Early(l)' => Early(l)
    <3>1. CASE TakeRule(w, l)
      BY <1>3, <3>1, TakeMoves DEF TakeRule, Early, At
    <3>2. CASE RecordExecuted(w, l)
      BY <1>3, <3>2, GoToMoves DEF Moved, RecordExecuted, Early, At, Stage
    <3>3. CASE SendNotification(w, l)
      <4>1. work'[w][l].stage \in {"work", "dead"}
        BY <1>3, <3>3, SendAt
      <4>2. QED
        BY <1>3, <3>3, <4>1 DEF SendNotification, Early, At
    <3>4. CASE LoopEnds(w, l)
      <4>1. Ends(w, l, "finish")
        BY <1>3, <3>4, ConstantsAssumption DEF LoopEnds
      <4>2. work'[w][l].stage = "finish"
        BY <4>1, EndsMoves DEF Stage
      <4>3. QED
        BY <1>3, <3>4, <4>2 DEF LoopEnds, Early, At
    <3>5. CASE CopyStatus(w, l)
      <4>1. \/ work[w][l].row = "Started" /\ Ends(w, l, "count")
            \/ Ends(w, l, "noRules") \/ Ends(w, l, "sent")
        BY <1>3, <3>5, ConstantsAssumption DEF CopyStatus
      <4>2. \/ work[w][l].row = "Started" /\ work'[w][l].stage = "count"
            \/ work'[w][l].stage \in {"noRules", "sent"}
        BY <4>1, EndsMoves DEF Stage
      <4>3. QED
        BY <1>3, <3>5, <4>2 DEF CopyStatus, Early, At
    <3>6. QED
      BY <3>1, <3>2, <3>3, <3>4, <3>5 DEF WorkStep
  <2>2. \A r \in Runs : r # w /\ r \in Workers
    BY <1>3, ConstantsAssumption DEF Workers
  <2>3. QED
    BY <1>1, <1>3, <2>1, <2>2 DEF TurnInv, At
<1>4. QED
    BY <1>2, <1>3 DEF Workers

LEMMA TurnRequest ==
    ASSUME TypeOK, NEW l \in Logs, Create(l) \/ RequestStep(l) \/ RequestDies(l), TurnInv(l)
    PROVE  TurnInv(l)'
<1> DEFINE stage == work[Request][l].stage
<1>r. Request \in Workers /\ \A r \in Runs : r # Request /\ r \in Workers
    BY ConstantsAssumption DEF Workers
<1>1. /\ \A v \in Workers : v # Request => work'[v][l] = work[v][l]
    BY <1>r, WorkerStepFrame DEF WorkerStep
<1>2. \A r \in Runs : At(r, l, "idle") => At(r, l, "idle")'
    BY <1>r, <1>1 DEF At
<1>3. CASE Create(l) \/ CountRules(l)
  <2>1. Ends(Request, l, "create") \/ Ends(Request, l, "find")
    BY <1>3 DEF Create, CountRules
  <2>a. work'[Request][l].stage \in {"create", "find"}
    BY <1>r, <2>1, EndsMoves DEF Stage
  <2>2. Early(l) /\ status'[l] # "Executing"
    BY <1>3 DEF TypeOK, Create, CountRules, WorkFrame, Early, At, TurnInv
  <2>3. QED
    BY <1>2, <2>a, <2>2 DEF TurnInv
<1>4. CASE Start(l)
  <2>1. Moved(Request, l, Fresh("copy", "Started"))
    BY <1>r, <1>4, WriteMoves DEF Start, Status, RowOf
  <2>2. Early(l) /\ status'[l] # "Executing" /\ Fresh("copy", "Started").stage = "copy"
    BY <1>4, FreshWork DEF TypeOK, Start, WriteStatus, Early, At, Stage, Row
  <2>3. QED
    BY <1>2, <2>1, <2>2 DEF TurnInv, Moved
<1>5. CASE NoRules(l) \/ Finish(l)
  <2>1. PICK r \in {"Error", "Executing"} : Moved(Request, l, Fresh("copy", r))
    BY <1>r, <1>5, WriteMoves DEF NoRules, Finish, Status, Terminal, RowOf
  <2>2. Fresh("copy", r).stage = "copy" /\ Fresh("copy", r).row # "Started"
    BY FreshWork DEF Stage, Row
  <2>3. QED
    BY <1>2, <2>1, <2>2 DEF TurnInv, Moved, Early, At
<1>6. CASE MarkRowAgain(l) \/ MarkRowSent(l) \/ RequestDies(l)
  <2>1. Ends(Request, l, "done") \/ Ends(Request, l, "dead")
    BY <1>6 DEF MarkRowAgain, MarkRowSent, RequestDies
  <2>2. work'[Request][l].stage \in {"done", "dead"}
    BY <1>r, <2>1, EndsMoves DEF Stage
  <2>3. QED
    BY <1>2, <2>2 DEF TurnInv, Early, At
<1>7. CASE FindImmediate(l)
  <2>1. work'[Request][l].stage = "work"
    BY <1>r, <1>7 DEF FindImmediate, Become, TypeOK, NoWork
  <2>2. Early(l) /\ status' = status
    BY <1>7 DEF FindImmediate, WorkFrame, Early, At
  <2>3. QED
    BY <1>2, <2>1, <2>2 DEF TurnInv, Early, At
<1>8. QED
    BY <1>3, <1>4, <1>5, <1>6, <1>7 DEF RequestStep

LEMMA TurnCall ==
    ASSUME TypeOK, NEW r \in Runs, NEW l \in Logs, CallStep(r, l) \/ CallThrows(r, l), TurnInv(l)
    PROVE  TurnInv(l)'
<1>1. WorkerStep(r, l) /\ r \in Workers /\ Request \in Workers /\ r # Request
    BY ConstantsAssumption DEF WorkerStep, Workers
<1>2. ~At(r, l, "idle") /\ work'[Request][l] = work[Request][l]
    BY <1>1, WorkerStepStage, WorkerStepFrame
<1>3. QED
    BY <1>2 DEF TurnInv, Early, At

LEMMA OnceWorker ==
    ASSUME TypeOK, OneRun, NEW w \in Workers, NEW l \in Logs, WorkerStep(w, l), OnceInv(l)
    PROVE  OnceInv(l)'
<1>1. TurnInv(l)'
    BY TurnWorkStep, TurnRequest, TurnCall DEF WorkerStep, OnceInv
<1>2. \A v \in Workers : v # w => work'[v][l] = work[v][l]
    BY WorkerStepFrame
<1>3. CASE RecordExecuted(w, l)
  <2>1. \A v \in Workers : v # w => ~At(v, l, "record") /\ ~At(v, l, "send")
    BY <1>3, ExecutesAlone DEF RecordExecuted
  <2>2. work'[w][l].stage = "send" /\ work'[w][l].doing = work[w][l].doing
    BY <1>3, GoToMoves DEF RecordExecuted, Stage
  <2>3. /\ executed'[l] = executed[l] \cup work[w][l].doing /\ sent' = sent
        /\ work[w][l].doing \cap executed[l] = {} /\ work[w][l].doing \subseteq Rules
    BY <1>3 DEF TypeOK, RecordExecuted, OnceInv, RecordInv, At, Work
  <2>4. RecordInv(w, l)'
    BY <2>2, <2>3 DEF RecordInv, At, OnceInv
  <2>5. \A v \in Workers : v # w => RecordInv(v, l)'
    BY <1>2, <2>1 DEF RecordInv, At
  <2>6. QED
    BY <1>1, <2>3, <2>4, <2>5 DEF OnceInv
<1>4. CASE SendNotification(w, l)
  <2>1. \A v \in Workers : v # w => ~At(v, l, "record") /\ ~At(v, l, "send")
    BY <1>4, ExecutesAlone DEF SendNotification
  <2>2. PICK n \in work[w][l].doing :
              /\ n \in Rules
              /\ \/ /\ n \in rules /\ sent'[l][n] > 0 /\ (sent[l][n] = 0 => sent'[l][n] = 1)
                    /\ OthersKeep(l, n)
                    /\ work'[w][l].stage = "work" /\ work'[w][l].doing = {}
                    /\ work'[w][l].seen = {} /\ work'[w][l].todo = work[w][l].todo \ {n}
                    /\ work'[w][l].all = work[w][l].all
                 \/ /\ n \notin rules /\ sent' = sent
                    /\ work'[w][l].stage = IF w = Request THEN "dead" ELSE "fail"
                    /\ work'[w][l].doing = {} /\ work'[w][l].seen = {}
                    /\ work'[w][l].todo = {} /\ work'[w][l].all = FALSE
    BY <1>4, SendAt
  <2>3. n \in executed[l] /\ sent[l][n] = 0
    BY <1>4, <2>2 DEF SendNotification, OnceInv, RecordInv
  <2>6. executed' = executed
    BY <1>4 DEF SendNotification
  <2>7. \A v \in Workers : RecordInv(v, l)'
    BY <1>2, <2>1, <2>2 DEF RecordInv, At
  <2>8. QED
    BY <1>1, <2>2, <2>3, <2>6, <2>7 DEF OnceInv, OthersKeep
<1>5. CASE ~RecordExecuted(w, l) /\ ~SendNotification(w, l)
  <2>1. UNCHANGED <<executed, sent>>
    BY <1>5
    DEF WorkerStep, WorkStep, TakeRule, LoopEnds, CopyStatus,
        Create, RequestStep, Start, CountRules, NoRules, MarkRowAgain, FindImmediate, Finish,
        MarkRowSent, RequestDies, CallStep, FindDue, Complete, MarkFailed, CallThrows,
        WriteStatus, WorkFrame
  <2>2. RecordInv(w, l)'
    <3>1. CASE TakeRule(w, l)
      <4>1. \/ work'[w][l].stage = "work"
            \/ \E n : /\ n \notin executed[l] /\ work'[w][l].stage = "record"
                      /\ work'[w][l].doing = {n} /\ work'[w][l].seen = executed[l]
        BY <3>1, TakeMoves
      <4>2. QED
        BY <2>1, <4>1 DEF RecordInv, At
    <3>2. CASE ~TakeRule(w, l)
      <4>1. \/ \E stage \in Stage \ {"record", "send"} : Ends(w, l, stage)
            \/ \E s : WriteStatus(w, l, s)
            \/ w = Request /\ FindImmediate(l)
            \/ w \in Runs /\ FindDue(w, l)
        BY <1>5, <3>2
        DEF WorkerStep, WorkStep, LoopEnds, CopyStatus, Create, RequestStep, Start, CountRules,
            NoRules, MarkRowAgain, Finish, MarkRowSent, RequestDies, CallStep, Complete, MarkFailed,
            CallThrows, Stage
      <4>2. CASE \E stage \in Stage \ {"record", "send"} : Ends(w, l, stage)
        BY <4>2, EndsMoves DEF RecordInv, At
      <4>3. CASE \E s : WriteStatus(w, l, s)
        BY <4>3 DEF WriteStatus, Become, NoWork, TypeOK, RecordInv, At
      <4>4. CASE (w = Request /\ FindImmediate(l)) \/ (w \in Runs /\ FindDue(w, l))
        BY <4>4, FindAt DEF RecordInv, At
      <4>5. QED
        BY <4>1, <4>2, <4>3, <4>4
    <3>3. QED
      BY <3>1, <3>2
  <2>3. \A v \in Workers : v # w => RecordInv(v, l)'
    BY <1>2, <2>1 DEF RecordInv, At, OnceInv
  <2>4. QED
    BY <1>1, <2>1, <2>2, <2>3 DEF OnceInv
<1>6. QED
    BY <1>3, <1>4, <1>5

LEMMA OnceStep ==
    ASSUME TypeOK, OneRun, [Next]_vars, NEW l \in Logs, OnceInv(l)
    PROVE  OnceInv(l)'
<1>r. Request \in Workers /\ \A r \in Runs : r # Request /\ r \in Workers
    BY ConstantsAssumption DEF Workers
<1>1. CASE UNCHANGED vars
    BY <1>1 DEF vars, OnceInv, TurnInv, Early, RecordInv, At
<1>2. ASSUME NEW w \in Workers, NEW m \in Logs, WorkerStep(w, m) PROVE OnceInv(l)'
  <2>1. CASE m = l
    BY <1>2, <2>1, OnceWorker
  <2>2. CASE m # l
    <3>1. /\ \A v \in Workers : work'[v][l] = work[v][l]
          /\ status'[l] = status[l] /\ executed'[l] = executed[l] /\ sent'[l] = sent[l]
      BY <1>2, <2>2, WorkerStepFrame
    <3>2. QED
      BY <1>r, <3>1 DEF OnceInv, TurnInv, Early, RecordInv, At
  <2>3. QED
    BY <2>1, <2>2
<1>3. ASSUME NEW r \in Runs, Snapshot(r) \/ WorkerCrash(r) PROVE OnceInv(l)'
  <2>1. UNCHANGED <<status, executed, sent>> /\ \A v \in Workers \ {r} : work'[v] = work[v]
    BY <1>3, RunMoves DEF Snapshot, WorkerCrash, WorkFrame
  <2>2. \/ work'[r][l].stage = "idle"
        \/ work'[r][l].stage = "check" /\ status[l] = "Executing"
    <3>1. \/ work'[r][l] = NoWork
          \/ /\ Pending(l)
             /\ work'[r][l] = [NoWork EXCEPT !.stage = "check", !.seen = executed[l]]
      BY <1>3, RunMoves
    <3>2. NoWork.stage = "idle" /\ [NoWork EXCEPT !.stage = "check", !.seen = executed[l]].stage = "check"
      BY DEF NoWork
    <3>3. QED
      BY <3>1, <3>2 DEF Pending
  <2>3. TurnInv(l)'
    BY <1>r, <1>3, <2>1, <2>2 DEF OnceInv, TurnInv, Early, At
  <2>4. \A v \in Workers : RecordInv(v, l)'
    BY <2>1, <2>2 DEF OnceInv, RecordInv, At
  <2>5. QED
    BY <2>1, <2>3, <2>4 DEF OnceInv
<1>4. CASE OtherStep
  <2>1. UNCHANGED <<work, executed, sent>> /\ (status'[l] = "Executing" => status[l] = "Executing")
    BY <1>4, OtherStepFrame
  <2>2. QED
    BY <2>1 DEF OnceInv, TurnInv, Early, RecordInv, At
<1>5. QED
    BY <1>1, <1>2, <1>3, <1>4, NextSteps

LEMMA OnceInit == Init => \A l \in Logs : OnceInv(l)
<1> SUFFICES ASSUME Init, NEW l \in Logs PROVE OnceInv(l)
    OBVIOUS
<1>1. /\ \A w \in Workers : work[w][l].stage = "idle"
      /\ status[l] = "None" /\ executed[l] = {} /\ \A n \in Rules : sent[l][n] = 0
    BY DEF Init, NoWork
<1>2. Request \in Workers /\ \A r \in Runs : r \in Workers
    BY DEF Workers
<1>3. QED
    BY <1>1, <1>2 DEF OnceInv, TurnInv, RecordInv, At

\* No rule notifies the user twice for one page while runs of the cron job do
\* not overlap, whatever fails, crashes, is edited or acknowledged meanwhile.
THEOREM NotifiedAtMostOnce == ASSUME OneRun PROVE Spec => []NotifiedOnce
<1> DEFINE Inv == \A l \in Logs : OnceInv(l)
<1>1. Init => Inv
    BY OnceInit
<1>2. TypeOK /\ Inv /\ [Next]_vars => Inv'
    BY OnceStep
<1>3. Inv => NotifiedOnce
    BY DEF OnceInv, NotifiedOnce
<1> HIDE DEF Inv
<1>4. QED
    BY <1>1, <1>2, <1>3, TypeCorrect, PTL DEF Spec

-----------------------------------------------------------------------------
(* A completed page has notified by every rule.  While nothing fails and   *)
(* nobody edits the rules, a rule on record has been sent or is about to   *)
(* be by the worker that recorded it; a lost update of the column takes    *)
(* rules off the record, never off the promise.                            *)

Promised(l, n) ==
    \/ sent[l][n] > 0
    \/ \E w \in Workers : At(w, l, "send") /\ n \in work[w][l].doing

AllPromised(l) == \A n \in rules : Promised(l, n)

\* A worker has rules of the user before it, and one in hand.
HandInv(w, l) ==
    /\ work[w][l].todo \subseteq rules /\ work[w][l].doing \subseteq rules
    /\ \A n, o \in work[w][l].doing : n = o

PromiseInv(l) ==
    /\ \A n \in executed[l] : Promised(l, n)
    /\ \A w \in Workers :
          /\ HandInv(w, l)
          /\ \A n \in work[w][l].seen : Promised(l, n)
          /\ work[w][l].all \/ At(w, l, "complete") => AllPromised(l)
    /\ status[l] = "Completed" /\ ~acked[l] => AllPromised(l)

PromisesInv ==
    /\ edited \in BOOLEAN
    /\ ~edited /\ failures = 0 => \A l \in Logs : PromiseInv(l)

\* The steps that leave nothing in hand: all but those of the loop.
LEMMA BlankStep ==
    ASSUME TypeOK, NEW w \in Workers, NEW l \in Logs, WorkerStep(w, l),
           ~TakeRule(w, l), ~RecordExecuted(w, l), ~SendNotification(w, l),
           ~(w = Request /\ FindImmediate(l)), ~(w \in Runs /\ FindDue(w, l)), ~Fail
    PROVE  /\ work'[w][l].todo = {} /\ work'[w][l].seen = {} /\ work'[w][l].doing = {}
           /\ work'[w][l].all = FALSE
           /\ At(w, l, "complete")' => work[w][l].all
           /\ UNCHANGED <<executed, sent>>
           /\ status'[l] = "Completed" => status[l] = "Completed" \/ At(w, l, "complete")
<1>1. /\ \/ \E stage \in Stage \ {"complete"} : Ends(w, l, stage)
         \/ Ends(w, l, "complete") /\ work[w][l].all
         \/ \E s \in Status : WriteStatus(w, l, s)
      /\ UNCHANGED <<executed, sent>>
    BY DEF WorkerStep, WorkStep, LoopEnds, CopyStatus, Create, RequestStep, Start, CountRules,
           NoRules, MarkRowAgain, Finish, MarkRowSent, RequestDies, CallStep, Complete, MarkFailed,
           CallThrows, Stage, WriteStatus, WorkFrame, Status, Terminal
<1>2. status'[l] = "Completed" => status[l] = "Completed" \/ At(w, l, "complete")
    BY DEF TypeOK, WorkerStep, WorkStep, LoopEnds, CopyStatus, Create, RequestStep, Start, CountRules,
           NoRules, MarkRowAgain, Finish, MarkRowSent, RequestDies, CallStep, Complete, MarkFailed,
           CallThrows, WriteStatus, WorkFrame
<1>3. CASE \E stage \in Stage \ {"complete"} : Ends(w, l, stage)
  <2>1. PICK stage \in Stage \ {"complete"} : Ends(w, l, stage)
    BY <1>3
  <2>2. /\ work'[w][l].todo = {} /\ work'[w][l].seen = {} /\ work'[w][l].doing = {}
        /\ work'[w][l].all = FALSE /\ work'[w][l].stage = stage
    BY <2>1, EndsMoves
  <2>3. ~At(w, l, "complete")'
    BY <2>2 DEF At
  <2>4. QED
    BY <1>1, <1>2, <2>2, <2>3, Zenon
<1>4. CASE Ends(w, l, "complete") /\ work[w][l].all
    BY <1>1, <1>2, <1>4, EndsMoves DEF At, Stage
<1>5. CASE \E s \in Status : WriteStatus(w, l, s)
  <2>1. PICK s \in Status : WriteStatus(w, l, s)
    BY <1>5
  <2>2. work'[w][l] = Fresh("copy", RowOf(s)) /\ RowOf(s) \in Row
    BY <2>1, WriteMoves DEF Moved
  <2>3. "copy" \in Stage
    BY DEF Stage
  <2>4. /\ work'[w][l].todo = {} /\ work'[w][l].seen = {} /\ work'[w][l].doing = {}
        /\ work'[w][l].all = FALSE /\ work'[w][l].stage = "copy"
    <3>1. PICK r \in Row : work'[w][l] = Fresh("copy", r)
      BY <2>2
    <3>2. /\ Fresh("copy", r).todo = {} /\ Fresh("copy", r).seen = {}
          /\ Fresh("copy", r).doing = {} /\ Fresh("copy", r).all = FALSE
          /\ Fresh("copy", r).stage = "copy"
      BY <2>3, FreshWork
    <3>3. QED
      BY <3>1, <3>2, Zenon
  <2>5. ~At(w, l, "complete")'
    BY <2>4 DEF At
  <2>6. QED
    BY <1>1, <1>2, <2>4, <2>5, Zenon
<1>6. QED
    BY <1>1, <1>3, <1>4, <1>5

LEMMA PromiseKept ==
    ASSUME TypeOK, NEW w \in Workers, NEW l \in Logs, WorkerStep(w, l), PromiseInv(l), ~Fail,
           NEW n \in Rules, Promised(l, n)
    PROVE  Promised(l, n)'
<1>1. \A v \in Workers : v # w => work'[v][l] = work[v][l]
    BY WorkerStepFrame
<1>2. CASE SendNotification(w, l)
  <2>1. PICK m \in work[w][l].doing :
              /\ m \in Rules
              /\ \/ /\ m \in rules /\ sent'[l][m] > 0 /\ (sent[l][m] = 0 => sent'[l][m] = 1)
                    /\ OthersKeep(l, m)
                    /\ work'[w][l].stage = "work" /\ work'[w][l].doing = {}
                    /\ work'[w][l].seen = {} /\ work'[w][l].todo = work[w][l].todo \ {m}
                    /\ work'[w][l].all = work[w][l].all
                 \/ /\ m \notin rules /\ sent' = sent
                    /\ work'[w][l].stage = IF w = Request THEN "dead" ELSE "fail"
                    /\ work'[w][l].doing = {} /\ work'[w][l].seen = {}
                    /\ work'[w][l].todo = {} /\ work'[w][l].all = FALSE
    BY <1>2, SendAt
  <2>2. HandInv(w, l)
    BY DEF PromiseInv
  <2>3. sent'[l][m] > 0 /\ OthersKeep(l, m) /\ \A o \in work[w][l].doing : o = m
    BY <2>1, <2>2 DEF HandInv
  <2>4. CASE n = m
    BY <2>3, <2>4 DEF Promised
  <2>5. CASE n # m
    <3>1. sent'[l][n] = sent[l][n]
      BY <2>3, <2>5 DEF OthersKeep
    <3>2. ASSUME NEW v \in Workers, At(v, l, "send"), n \in work[v][l].doing
          PROVE  At(v, l, "send")' /\ n \in work'[v][l].doing
      BY <1>1, <2>3, <2>5, <3>2 DEF At
    <3>3. QED
      BY <3>1, <3>2 DEF Promised
  <2>6. QED
    BY <2>4, <2>5
<1>3. CASE ~SendNotification(w, l)
  <2>1. sent' = sent /\ ~At(w, l, "send")
    BY <1>3
    DEF WorkerStep, WorkStep, TakeRule, RecordExecuted, LoopEnds, CopyStatus,
        Create, RequestStep, Start, CountRules, NoRules, MarkRowAgain, FindImmediate, Finish,
        MarkRowSent, RequestDies, CallStep, FindDue, Complete, MarkFailed, CallThrows,
        WriteStatus, WorkFrame, At
  <2>2. ASSUME NEW v \in Workers, At(v, l, "send"), n \in work[v][l].doing
        PROVE  At(v, l, "send")' /\ n \in work'[v][l].doing
    BY <1>1, <2>1, <2>2 DEF At
  <2>3. QED
    BY <2>1, <2>2 DEF Promised
<1>4. QED
    BY <1>2, <1>3

LEMMA PromiseWorker ==
    ASSUME TypeOK, NEW w \in Workers, NEW l \in Logs, WorkerStep(w, l), PromiseInv(l), ~Fail
    PROVE  PromiseInv(l)'
<1>1. /\ \A v \in Workers : v # w => work'[v][l] = work[v][l]
      /\ UNCHANGED <<rules, acked>>
    BY WorkerStepFrame
<1>2. /\ rules \subseteq Rules /\ executed[l] \subseteq Rules
      /\ \A v \in Workers : work[v][l].seen \subseteq Rules /\ work[v][l].doing \subseteq Rules
    BY DEF TypeOK, Work
<1>3. \A n \in Rules : Promised(l, n) => Promised(l, n)'
    BY PromiseKept
<1>4. AllPromised(l) => AllPromised(l)'
    BY <1>1, <1>2, <1>3 DEF AllPromised
<1> DEFINE Owes(v) == /\ HandInv(v, l)
                      /\ \A n \in work[v][l].seen : Promised(l, n)
                      /\ work[v][l].all \/ At(v, l, "complete") => AllPromised(l)
<1>5. HandInv(w, l) /\ Owes(w)
    BY DEF PromiseInv
<1>6. ASSUME NEW v \in Workers, v # w PROVE Owes(v)'
  <2>1. Owes(v) /\ work'[v][l] = work[v][l]
    BY <1>1, <1>6 DEF PromiseInv
  <2>2. HandInv(v, l)'
    BY <1>1, <2>1 DEF HandInv
  <2>3. \A n \in work'[v][l].seen : Promised(l, n)'
    BY <1>2, <1>3, <2>1
  <2>4. work'[v][l].all \/ At(v, l, "complete")' => AllPromised(l)'
    BY <1>4, <2>1 DEF At
  <2>5. QED
    BY <2>2, <2>3, <2>4
<1>7. ASSUME Owes(w)', \A n \in executed'[l] : Promised(l, n)',
             status'[l] = "Completed" => status[l] = "Completed" \/ At(w, l, "complete")
      PROVE  PromiseInv(l)'
  <2>1. \A v \in Workers : Owes(v)'
    BY <1>6, <1>7
  <2>2. status'[l] = "Completed" /\ ~acked'[l] => AllPromised(l)'
    BY <1>1, <1>4, <1>5, <1>7 DEF PromiseInv
  <2>3. QED
    BY <1>7, <2>1, <2>2 DEF PromiseInv
<1>8. \A n \in executed[l] : Promised(l, n)'
    BY <1>2, <1>3 DEF PromiseInv
<1>9. CASE TakeRule(w, l)
  <2>1. /\ work'[w][l].all = work[w][l].all
        /\ \E n \in work[w][l].todo :
              \/ /\ n \in executed[l] /\ work'[w][l].stage = "work"
                 /\ work'[w][l].todo = work[w][l].todo \ {n}
                 /\ work'[w][l].doing = work[w][l].doing
                 /\ work'[w][l].seen = work[w][l].seen
              \/ /\ n \notin executed[l] /\ work'[w][l].stage = "record"
                 /\ work'[w][l].todo = work[w][l].todo
                 /\ work'[w][l].doing = {n} /\ work'[w][l].seen = executed[l]
    BY <1>9, TakeMoves
  <2>2. UNCHANGED <<executed, status>>
    BY <1>9 DEF TakeRule, WorkFrame
  <2>3. HandInv(w, l)'
    BY <1>1, <1>5, <2>1 DEF HandInv
  <2>4. \A n \in work'[w][l].seen : Promised(l, n)'
    BY <1>2, <1>3, <1>5, <1>8, <2>1
  <2>5. work'[w][l].all \/ At(w, l, "complete")' => AllPromised(l)'
    BY <1>4, <1>5, <2>1 DEF At
  <2>6. QED
    BY <1>7, <1>8, <2>2, <2>3, <2>4, <2>5
<1>10. CASE RecordExecuted(w, l)
  <2>1. /\ work'[w][l].stage = "send" /\ work'[w][l].todo = work[w][l].todo
        /\ work'[w][l].doing = work[w][l].doing /\ work'[w][l].seen = work[w][l].seen
        /\ work'[w][l].all = work[w][l].all
    BY <1>10, GoToMoves DEF RecordExecuted, Stage
  <2>2. executed'[l] = work[w][l].seen \cup work[w][l].doing /\ status' = status
    BY <1>10 DEF RecordExecuted, WorkFrame, TypeOK
  <2>3. HandInv(w, l)'
    BY <1>1, <1>5, <2>1 DEF HandInv
  <2>4. \A n \in work'[w][l].seen : Promised(l, n)'
    BY <1>2, <1>3, <1>5, <2>1
  <2>5. \A n \in work[w][l].doing : Promised(l, n)'
    BY <2>1 DEF Promised, At
  <2>6. work'[w][l].all \/ At(w, l, "complete")' => AllPromised(l)'
    BY <1>4, <1>5, <2>1 DEF At
  <2>7. QED
    BY <1>7, <2>1, <2>2, <2>3, <2>4, <2>5, <2>6
<1>11. CASE SendNotification(w, l)
  <2>1. PICK m \in work[w][l].doing :
              /\ m \in Rules
              /\ \/ /\ m \in rules /\ sent'[l][m] > 0 /\ (sent[l][m] = 0 => sent'[l][m] = 1)
                    /\ OthersKeep(l, m)
                    /\ work'[w][l].stage = "work" /\ work'[w][l].doing = {}
                    /\ work'[w][l].seen = {} /\ work'[w][l].todo = work[w][l].todo \ {m}
                    /\ work'[w][l].all = work[w][l].all
                 \/ /\ m \notin rules /\ sent' = sent
                    /\ work'[w][l].stage = IF w = Request THEN "dead" ELSE "fail"
                    /\ work'[w][l].doing = {} /\ work'[w][l].seen = {}
                    /\ work'[w][l].todo = {} /\ work'[w][l].all = FALSE
    BY <1>11, SendAt
  <2>2. /\ work'[w][l].stage = "work" /\ work'[w][l].doing = {} /\ work'[w][l].seen = {}
        /\ work'[w][l].todo \subseteq work[w][l].todo /\ work'[w][l].all = work[w][l].all
    BY <1>5, <2>1 DEF HandInv
  <2>3. UNCHANGED <<executed, status>>
    BY <1>11 DEF SendNotification, WorkFrame
  <2>4. HandInv(w, l)'
    BY <1>1, <1>5, <2>2 DEF HandInv
  <2>5. \A n \in work'[w][l].seen : Promised(l, n)'
    BY <2>2
  <2>6. work'[w][l].all \/ At(w, l, "complete")' => AllPromised(l)'
    BY <1>4, <1>5, <2>2 DEF At
  <2>7. QED
    BY <1>7, <1>8, <2>3, <2>4, <2>5, <2>6
<1>12. CASE (w = Request /\ FindImmediate(l)) \/ (w \in Runs /\ FindDue(w, l))
  <2>1. /\ work'[w][l].stage = "work" /\ work'[w][l].doing = {} /\ work'[w][l].seen = {}
        /\ work'[w][l].todo \subseteq rules
        /\ work'[w][l].all => rules \subseteq work[w][l].seen
    BY <1>12, FindAt DEF AllExecuted
  <2>2. UNCHANGED <<executed, status>>
    BY <1>12 DEF FindImmediate, FindDue, WorkFrame
  <2>3. HandInv(w, l)'
    BY <1>1, <2>1 DEF HandInv
  <2>4. \A n \in work'[w][l].seen : Promised(l, n)'
    BY <2>1
  <2>5. work'[w][l].all => AllPromised(l)
    BY <1>5, <2>1 DEF AllPromised
  <2>6. work'[w][l].all \/ At(w, l, "complete")' => AllPromised(l)'
    BY <1>4, <2>1, <2>5 DEF At
  <2>7. QED
    BY <1>7, <1>8, <2>2, <2>3, <2>4, <2>6
<1>13. CASE /\ ~TakeRule(w, l) /\ ~RecordExecuted(w, l) /\ ~SendNotification(w, l)
            /\ ~(w = Request /\ FindImmediate(l)) /\ ~(w \in Runs /\ FindDue(w, l))
  <2>1. /\ work'[w][l].todo = {} /\ work'[w][l].seen = {} /\ work'[w][l].doing = {}
        /\ work'[w][l].all = FALSE
        /\ At(w, l, "complete")' => work[w][l].all
        /\ UNCHANGED <<executed, sent>>
        /\ status'[l] = "Completed" => status[l] = "Completed" \/ At(w, l, "complete")
    BY <1>13, BlankStep
  <2>2. HandInv(w, l)'
    BY <2>1 DEF HandInv
  <2>3. \A n \in work'[w][l].seen : Promised(l, n)'
    BY <2>1
  <2>4. work'[w][l].all \/ At(w, l, "complete")' => AllPromised(l)'
    BY <1>4, <1>5, <2>1
  <2>5. QED
    BY <1>7, <1>8, <2>1, <2>2, <2>3, <2>4
<1>14. QED
    BY <1>9, <1>10, <1>11, <1>12, <1>13

LEMMA PromiseStep ==
    ASSUME TypeOK, [Next]_vars, rules' = rules, failures = 0, failures' = 0,
           NEW l \in Logs, PromiseInv(l)
    PROVE  PromiseInv(l)'
<1>f. ~Fail
    BY DEF Fail
<1>r. \A r \in Runs : r \in Workers
    BY DEF Workers
<1>1. CASE UNCHANGED vars
    BY <1>1 DEF vars, PromiseInv, AllPromised, Promised, HandInv, At
<1>2. ASSUME NEW w \in Workers, NEW m \in Logs, WorkerStep(w, m) PROVE PromiseInv(l)'
  <2>1. CASE m = l
    BY <1>f, <1>2, <2>1, PromiseWorker
  <2>2. CASE m # l
    <3>1. /\ \A v \in Workers : work'[v][l] = work[v][l]
          /\ status'[l] = status[l] /\ executed'[l] = executed[l] /\ sent'[l] = sent[l] /\ acked' = acked
      BY <1>2, <2>2, WorkerStepFrame
    <3>2. QED
      BY <3>1 DEF PromiseInv, AllPromised, Promised, HandInv, At
  <2>3. QED
    BY <2>1, <2>2
<1>3. ASSUME NEW r \in Runs, Snapshot(r) PROVE PromiseInv(l)'
  <2>1. /\ UNCHANGED <<status, executed, sent, acked>>
        /\ \A v \in Workers \ {r} : work'[v] = work[v]
        /\ At(r, l, "idle")
    BY <1>3, RunMoves DEF Snapshot, WorkFrame
  <2>2. /\ work'[r][l].stage \in {"idle", "check"} /\ work'[r][l].todo = {}
        /\ work'[r][l].doing = {} /\ work'[r][l].seen \subseteq executed[l]
        /\ work'[r][l].all = FALSE
    <3>1. \/ work'[r][l] = NoWork
          \/ work'[r][l] = [NoWork EXCEPT !.stage = "check", !.seen = executed[l]]
      BY <1>3, RunMoves
    <3>2. /\ NoWork.stage = "idle" /\ NoWork.todo = {} /\ NoWork.doing = {}
          /\ NoWork.seen = {} /\ NoWork.all = FALSE
      BY DEF NoWork
    <3>3. ASSUME NEW old
          PROVE  /\ [NoWork EXCEPT !.stage = "check", !.seen = old].stage = "check"
                 /\ [NoWork EXCEPT !.stage = "check", !.seen = old].todo = {}
                 /\ [NoWork EXCEPT !.stage = "check", !.seen = old].doing = {}
                 /\ [NoWork EXCEPT !.stage = "check", !.seen = old].seen = old
                 /\ [NoWork EXCEPT !.stage = "check", !.seen = old].all = FALSE
      BY DEF NoWork
    <3>4. CASE work'[r][l] = NoWork
      <4>1. /\ work'[r][l].stage = "idle" /\ work'[r][l].todo = {} /\ work'[r][l].doing = {}
            /\ work'[r][l].seen = {} /\ work'[r][l].all = FALSE
        BY <3>2, <3>4, Zenon
      <4>2. QED
        BY <4>1
    <3>5. CASE work'[r][l] = [NoWork EXCEPT !.stage = "check", !.seen = executed[l]]
      <4>1. /\ work'[r][l].stage = "check" /\ work'[r][l].todo = {} /\ work'[r][l].doing = {}
            /\ work'[r][l].seen = executed[l] /\ work'[r][l].all = FALSE
        BY <3>3, <3>5, Zenon
      <4>2. QED
        BY <4>1
    <3>6. QED
      BY <3>1, <3>4, <3>5
  <2>3. \A n : Promised(l, n) => Promised(l, n)'
    <3>1. ASSUME NEW n, NEW v \in Workers, At(v, l, "send"), n \in work[v][l].doing
          PROVE  At(v, l, "send")' /\ n \in work'[v][l].doing
      BY <2>1, <3>1 DEF At
    <3>2. QED
      BY <2>1, <3>1 DEF Promised
  <2>4. AllPromised(l) => AllPromised(l)'
    BY <2>3 DEF AllPromised
  <2>5. HandInv(r, l)' /\ (\A n \in work'[r][l].seen : Promised(l, n)') /\ ~At(r, l, "complete")'
    BY <2>2, <2>3 DEF HandInv, PromiseInv, At
  <2>6. ASSUME NEW v \in Workers, v # r
        PROVE  /\ HandInv(v, l)' /\ \A n \in work'[v][l].seen : Promised(l, n)'
               /\ work'[v][l].all \/ At(v, l, "complete")' => AllPromised(l)'
    <3>1. /\ work'[v] = work[v] /\ HandInv(v, l) /\ \A n \in work[v][l].seen : Promised(l, n)
          /\ work[v][l].all \/ At(v, l, "complete") => AllPromised(l)
      BY <2>1, <2>6 DEF PromiseInv
    <3>2. HandInv(v, l)'
      BY <3>1 DEF HandInv
    <3>3. work'[v][l].all \/ At(v, l, "complete")' => AllPromised(l)'
      BY <2>4, <3>1 DEF At
    <3>4. QED
      BY <2>3, <3>1, <3>2, <3>3
  <2>7. \A v \in Workers :
               /\ HandInv(v, l)' /\ \A n \in work'[v][l].seen : Promised(l, n)'
               /\ work'[v][l].all \/ At(v, l, "complete")' => AllPromised(l)'
    BY <2>2, <2>5, <2>6
  <2>8. \A n \in executed'[l] : Promised(l, n)'
    BY <2>1, <2>3 DEF PromiseInv
  <2>9. status'[l] = "Completed" /\ ~acked'[l] => AllPromised(l)'
    BY <2>1, <2>4 DEF PromiseInv
  <2>10. QED
    BY <2>7, <2>8, <2>9 DEF PromiseInv
<1>4. CASE OtherStep
  <2>1. /\ UNCHANGED <<work, executed, sent>>
        /\ status'[l] = "Completed" /\ ~acked'[l] => status[l] = "Completed" /\ ~acked[l]
    BY <1>4, OtherStepFrame
  <2>2. \A n : Promised(l, n)' <=> Promised(l, n)
    BY <2>1 DEF Promised, At
  <2>3. AllPromised(l)' <=> AllPromised(l)
    BY <2>2 DEF AllPromised
  <2>4. \A w \in Workers : HandInv(w, l)' /\ (At(w, l, "complete")' <=> At(w, l, "complete"))
    BY <2>1 DEF PromiseInv, HandInv, At
  <2>5. QED
    BY <2>1, <2>2, <2>3, <2>4 DEF PromiseInv
<1>5. ASSUME NEW r \in Runs PROVE ~WorkerCrash(r)
    BY <1>f DEF WorkerCrash
<1>6. QED
    BY <1>1, <1>2, <1>3, <1>4, <1>5, NextSteps

LEMMA FailuresCount == TypeOK /\ [Next]_vars /\ failures' = 0 => failures = 0
<1> SUFFICES ASSUME TypeOK, [Next]_vars PROVE failures' = 0 => failures = 0
    OBVIOUS
<1>1. failures \in Nat
    BY ConstantsAssumption DEF TypeOK
<1>2. failures' = failures \/ failures' = failures + 1
  <2>1. ASSUME NEW r \in Runs, Snapshot(r) \/ WorkerCrash(r) PROVE failures' = failures \/ failures' = failures + 1
    BY <2>1 DEF Snapshot, WorkerCrash, WorkFrame, Fail
  <2>2. CASE UNCHANGED vars
    BY <2>2 DEF vars
  <2>3. QED
    BY <2>1, <2>2, NextSteps, WorkerStepFrame, OtherStepFrame
<1>3. QED
    BY <1>1, <1>2

LEMMA PromisesStep == TypeOK /\ PromisesInv /\ [HistoryNext]_historyVars => PromisesInv'
<1> SUFFICES ASSUME TypeOK, PromisesInv, [HistoryNext]_historyVars PROVE PromisesInv'
    OBVIOUS
<1>1. [Next]_vars
    BY DEF HistoryNext, historyVars
<1>2. edited' \in BOOLEAN /\ (~edited' => ~edited /\ rules' = rules)
  <2>1. CASE edited' = (edited \/ rules' # rules)
    BY <2>1 DEF PromisesInv
  <2>2. CASE UNCHANGED historyVars
    BY <2>2 DEF PromisesInv, vars, historyVars
  <2>3. QED
    BY <2>1, <2>2 DEF HistoryNext
<1>3. ASSUME ~edited', failures' = 0, NEW l \in Logs PROVE PromiseInv(l)'
  <2>1. failures = 0
    BY <1>1, <1>3, FailuresCount
  <2>2. PromiseInv(l) /\ rules' = rules
    BY <1>2, <1>3, <2>1 DEF PromisesInv
  <2>3. QED
    BY <1>1, <1>3, <2>1, <2>2, PromiseStep
<1>4. QED
    BY <1>2, <1>3 DEF PromisesInv

LEMMA HistoryType ==
    /\ HistoryInit => TypeOK
    /\ TypeOK /\ [HistoryNext]_historyVars => TypeOK'
BY TypeInit, TypeStep DEF HistoryInit, HistoryNext, historyVars

\* A page that the cron job has completed has notified the user by every rule
\* he has, when nothing has failed and he has not edited them: runs that
\* overlap may lose updates of the column of executed rules, but what a run
\* has seen in it has been sent or is being sent.
THEOREM CompletedAfterAll == HistorySpec => []UneditedAllNotified
<1>1. HistoryInit => PromisesInv
  <2> SUFFICES ASSUME HistoryInit PROVE PromisesInv
      OBVIOUS
  <2>1. edited \in BOOLEAN /\ Init
    BY DEF HistoryInit
  <2>2. ASSUME NEW l \in Logs PROVE PromiseInv(l)
    <3>1. /\ status[l] = "None" /\ executed[l] = {}
          /\ \A w \in Workers : work[w][l] = NoWork
      BY <2>1 DEF Init
    <3>2. \A w \in Workers : /\ work[w][l].todo = {} /\ work[w][l].doing = {} /\ work[w][l].seen = {}
                             /\ ~At(w, l, "complete") /\ work[w][l].all = FALSE
      BY <3>1 DEF NoWork, At
    <3>3. \A w \in Workers : HandInv(w, l)
      BY <3>2 DEF HandInv
    <3>4. QED
      BY <3>1, <3>2, <3>3 DEF PromiseInv
  <2>3. QED
    BY <2>1, <2>2 DEF PromisesInv
<1>2. PromisesInv => UneditedAllNotified
  <2> SUFFICES ASSUME PromisesInv, ~edited, failures = 0, NEW l \in Logs, Quiet(l),
                      status[l] = "Completed", ~acked[l], NEW n \in rules
               PROVE  sent[l][n] > 0
    BY DEF UneditedAllNotified, AllNotified
  <2>1. Promised(l, n)
    BY DEF PromisesInv, PromiseInv, AllPromised
  <2>2. \A w \in Workers : ~At(w, l, "send")
    BY DEF Quiet, Unattended, At, Workers
  <2>3. QED
    BY <2>1, <2>2 DEF Promised
<1>3. QED
    BY <1>1, <1>2, HistoryType, PromisesStep, PTL DEF HistorySpec

-----------------------------------------------------------------------------
(* The row tells the status while one writer at a time is at work on a     *)
(* page: what each of them finds, and what it still owes the row.          *)

Waits(l) == work[Request][l].stage \in {"idle", "done", "dead"}

Alone(l) ==
    /\ \A r, q \in Runs : ~At(r, l, "idle") /\ ~At(q, l, "idle") => r = q
    /\ \A r \in Runs : ~At(r, l, "idle") =>
          Waits(l) /\ ack[l] = "idle" /\ l \notin stuck \cup marked
    /\ ~Waits(l) => ack[l] = "idle" /\ l \notin stuck \cup marked
    /\ ack[l] # "idle" => l \notin stuck \cup marked

\* Before the log exists nobody can be at work on it.
Unpaged(l) ==
    /\ status[l] = "None" /\ ~acked[l] /\ ack[l] = "idle"
    /\ \A n \in Rules : sent[l][n] = 0
    /\ \A r \in Runs : At(r, l, "idle")
    /\ l \notin stuck \cup marked

\* Stages at which neither the status nor the row has been written since the
\* request, or the run, took up the log.
Between == {"count", "find", "check", "work", "record", "send", "finish", "complete", "fail"}

WriterInv(w, l) ==
    /\ work[w][l].stage \in Between =>
          /\ ~acked[l]
          /\ w = Request => status[l] = "Started" /\ row[l] = "Started"
          /\ w \in Runs => status[l] = "Executing" /\ row[l] = "NotificationSent"
    /\ At(w, l, "copy") =>
          /\ ~acked[l] /\ work[w][l].row = RowOf(status[l])
          /\ w = Request => status[l] \in {"Started", "Executing", "Error"}
          /\ w \in Runs => status[l] \in {"Completed", "Error"}

RequestInv(l) ==
    /\ At(Request, l, "idle") => Unpaged(l)
    /\ At(Request, l, "create") => ~acked[l]
    /\ At(Request, l, "noRules") => status[l] = "Error" /\ ~acked[l]
    /\ At(Request, l, "sent") => status[l] = "Executing" /\ ~acked[l]
    /\ work[Request][l].stage \notin {"check", "complete", "fail"}

OthersInv(l) ==
    /\ ack[l] \in {"copy", "policy", "row", "incident"} => acked[l] /\ status[l] = "Completed"
    /\ ack[l] = "incident" => row[l] = "SuccessfullyAcknowledged"
    /\ l \in stuck => status[l] = "Started" /\ ~acked[l]
    /\ l \in marked => status[l] = "Error" /\ ~acked[l]

Settles(l) == Quiet(l) => RowTellsStatus(l) /\ (acked[l] => status[l] = "Completed")

TruthInv(l) ==
    /\ Alone(l)
    /\ \A w \in Workers : WriterInv(w, l)
    /\ RequestInv(l)
    /\ OthersInv(l)
    /\ Settles(l)

RowsInv ==
    /\ overlapped \in BOOLEAN
    /\ \A k, l \in marked : k = l
    /\ (overlapped \/ failures > 0) \/ \A l \in Logs : TruthInv(l)

\* Steps of a worker, by what they write.
Looks(w, l) ==
    /\ UNCHANGED <<status, row>>
    /\ work[w][l].stage \in Between /\ work'[w][l].stage \in Between
    /\ w = Request => work'[w][l].stage \notin {"check", "complete", "fail"}

Leaves(w, l) ==
    /\ UNCHANGED <<status, row>>
    /\ work[w][l].stage \in Between
    /\ work'[w][l].stage = IF w = Request THEN "dead" ELSE "idle"

Writes(w, l) ==
    \E s \in Status :
        /\ status'[l] = s /\ row' = row
        /\ work'[w][l].stage = "copy" /\ work'[w][l].row = RowOf(s)
        /\ \/ w = Request /\ At(w, l, "create") /\ s = "Started"
           \/ w = Request /\ At(w, l, "count") /\ s = "Error"
           \/ w = Request /\ At(w, l, "finish") /\ s = "Executing"
           \/ w \in Runs /\ At(w, l, "complete") /\ s = "Completed"
           \/ w \in Runs /\ At(w, l, "fail") /\ s = "Error"

Copies(w, l) ==
    /\ At(w, l, "copy") /\ status' = status /\ row'[l] = work[w][l].row
    /\ \/ w \in Runs /\ work'[w][l].stage = "idle"
       \/ w = Request /\ work[w][l].row = "Started" /\ work'[w][l].stage = "count"
       \/ w = Request /\ work[w][l].row = "Error" /\ work'[w][l].stage = "noRules"
       \/ w = Request /\ work[w][l].row = "Executing" /\ work'[w][l].stage = "sent"

Marks(w, l) ==
    /\ w = Request /\ status' = status /\ work'[w][l].stage = "done"
    /\ \/ At(w, l, "noRules") /\ row'[l] = "Error"
       \/ At(w, l, "sent") /\ row'[l] = "NotificationSent"

Creates(w, l) ==
    /\ w = Request /\ At(w, l, "idle") /\ row' = row
    /\ work'[w][l].stage = "create"

LEMMA WriteIs ==
    ASSUME TypeOK, NEW w \in Workers, NEW l \in Logs, NEW s \in Status, WriteStatus(w, l, s)
    PROVE  /\ status'[l] = s /\ row' = row
           /\ work'[w][l].stage = "copy" /\ work'[w][l].row = RowOf(s)
<1>1. "copy" \in Stage
    BY DEF Stage
<1>2. PICK r \in Row : r = RowOf(s) /\ work'[w][l] = Fresh("copy", r)
    BY WriteMoves DEF Moved
<1>3. Fresh("copy", r).stage = "copy" /\ Fresh("copy", r).row = r
    BY <1>1, FreshWork
<1>4. status'[l] = s /\ row' = row
    BY DEF WriteStatus, TypeOK
<1>5. QED
    BY <1>2, <1>3, <1>4

LEMMA WorkStepWrites ==
    ASSUME TypeOK, NEW w \in Workers, NEW l \in Logs, WorkStep(w, l)
    PROVE  Looks(w, l) \/ Leaves(w, l) \/ Copies(w, l)
<1>w. w = Request \/ w \in Runs
    BY DEF Workers
<1>n. Request \notin Runs
    BY ConstantsAssumption
<1>1. CASE TakeRule(w, l)
  <2>1. work[w][l].stage = "work" /\ work'[w][l].stage \in {"work", "record"}
    BY <1>1, TakeMoves DEF TakeRule, At
  <2>2. QED
    BY <1>1, <2>1 DEF TakeRule, WorkFrame, Looks, Between
<1>2. CASE RecordExecuted(w, l)
  <2>1. work[w][l].stage = "record" /\ work'[w][l].stage = "send"
    BY <1>2, GoToMoves DEF RecordExecuted, At, Stage
  <2>2. QED
    BY <1>2, <2>1 DEF RecordExecuted, WorkFrame, Looks, Between
<1>3. CASE SendNotification(w, l)
  <2>1. /\ work[w][l].stage = "send"
        /\ \/ work'[w][l].stage = "work"
           \/ work'[w][l].stage = IF w = Request THEN "dead" ELSE "fail"
    BY <1>3, SendAt DEF SendNotification, At
  <2>2. UNCHANGED <<status, row>>
    BY <1>3 DEF SendNotification, WorkFrame
  <2>3. QED
    BY <2>1, <2>2 DEF Looks, Leaves, Between
<1>4. CASE LoopEnds(w, l)
  <2>1. UNCHANGED <<status, row>> /\ work[w][l].stage = "work"
    BY <1>4 DEF LoopEnds, WorkFrame, At
  <2>2. \/ w = Request /\ work'[w][l].stage = "finish"
        \/ w \in Runs /\ work'[w][l].stage \in {"complete", "idle"}
    BY <1>4, EndsMoves DEF LoopEnds, Stage
  <2>3. QED
    BY <1>n, <2>1, <2>2 DEF Looks, Leaves, Between
<1>5. CASE CopyStatus(w, l)
  <2>1. At(w, l, "copy") /\ status' = status /\ row'[l] = work[w][l].row
    BY <1>5 DEF CopyStatus, TypeOK
  <2>2. QED
    BY <1>5, <2>1, EndsMoves DEF CopyStatus, Copies, Stage
<1>6. QED
    BY <1>1, <1>2, <1>3, <1>4, <1>5 DEF WorkStep

LEMMA RequestWrites ==
    ASSUME TypeOK, NEW l \in Logs, Create(l) \/ RequestStep(l)
    PROVE  \/ Looks(Request, l) \/ Writes(Request, l) \/ Marks(Request, l) \/ Creates(Request, l)
<1>r. Request \in Workers
    BY DEF Workers
<1>1. CASE Create(l)
    BY <1>1, <1>r, EndsMoves DEF Create, Creates, Stage
<1>2. CASE Start(l) \/ NoRules(l) \/ Finish(l)
    BY <1>2, <1>r, WriteIs DEF Start, NoRules, Finish, Writes, Status, Terminal
<1>3. CASE CountRules(l)
  <2>1. work[Request][l].stage = "count" /\ work'[Request][l].stage = "find"
    BY <1>3, <1>r, EndsMoves DEF CountRules, At, Stage
  <2>2. QED
    BY <1>3, <2>1 DEF CountRules, WorkFrame, Looks, Between
<1>4. CASE FindImmediate(l)
  <2>1. work[Request][l].stage = "find" /\ work'[Request][l].stage = "work"
    BY <1>4, <1>r, FindAt DEF FindImmediate, At
  <2>2. QED
    BY <1>4, <2>1 DEF FindImmediate, WorkFrame, Looks, Between
<1>5. CASE MarkRowAgain(l) \/ MarkRowSent(l)
  <2>1. work'[Request][l].stage = "done"
    BY <1>5, <1>r, EndsMoves DEF MarkRowAgain, MarkRowSent, Stage
  <2>2. QED
    BY <1>5, <2>1 DEF MarkRowAgain, MarkRowSent, Marks, TypeOK
<1>6. QED
    BY <1>1, <1>2, <1>3, <1>4, <1>5 DEF RequestStep

LEMMA CallWrites ==
    ASSUME TypeOK, NEW r \in Runs, NEW l \in Logs, CallStep(r, l)
    PROVE  Looks(r, l) \/ Writes(r, l)
<1>r. r \in Workers /\ r # Request
    BY ConstantsAssumption DEF Workers
<1>1. CASE FindDue(r, l)
  <2>1. work[r][l].stage = "check" /\ work'[r][l].stage = "work"
    BY <1>1, <1>r, FindAt DEF FindDue, At
  <2>2. QED
    BY <1>1, <1>r, <2>1 DEF FindDue, WorkFrame, Looks, Between
<1>2. CASE Complete(r, l) \/ MarkFailed(r, l)
    BY <1>2, <1>r, WriteIs DEF Complete, MarkFailed, Writes, Status, Terminal
<1>3. QED
    BY <1>1, <1>2 DEF CallStep

LEMMA WorkerWrites ==
    ASSUME TypeOK, NEW w \in Workers, NEW l \in Logs, WorkerStep(w, l), ~Fail
    PROVE  \/ Looks(w, l) \/ Leaves(w, l) \/ Writes(w, l) \/ Copies(w, l) \/ Marks(w, l)
           \/ Creates(w, l)
BY WorkStepWrites, RequestWrites, CallWrites DEF WorkerStep, RequestDies, CallThrows

LEMMA WorkerRows ==
    ASSUME TypeOK, NEW w \in Workers, NEW l \in Logs, WorkerStep(w, l)
    PROVE  \A m \in Logs \ {l} : row'[m] = row[m]
BY DEF TypeOK, WorkerStep, WorkStep, TakeRule, RecordExecuted, SendNotification, LoopEnds, CopyStatus,
       Create, RequestStep, Start, CountRules, NoRules, MarkRowAgain, FindImmediate, Finish,
       MarkRowSent, RequestDies, CallStep, FindDue, Complete, MarkFailed, CallThrows,
       WriteStatus, WorkFrame

\* A set with two members is not counted as one.
LEMMA TwoCounted ==
    ASSUME NEW S, IsFiniteSet(S), NEW q \in S, NEW r \in S, q # r
    PROVE  Cardinality(S) > 1
<1>1. Cardinality(S) \in Nat
    BY FS_CardinalityType
<1>2. IsFiniteSet({q}) /\ Cardinality({q}) = 1
    BY FS_Singleton
<1>3. Cardinality({q} \cup {r}) = 2
    BY <1>2, FS_AddElement
<1>4. Cardinality({q} \cup {r}) <= Cardinality(S)
    BY FS_Subset
<1>5. QED
    BY <1>1, <1>3, <1>4

LEMMA FiniteWith ==
    ASSUME NEW S, NEW a, NEW b, NEW c, IsFiniteSet(S)
    PROVE  IsFiniteSet(((S \cup {a}) \cup {b}) \cup {c})
BY FS_AddElement

LEMMA CountedAlone ==
    ASSUME NEW l \in Logs, ~(Cardinality(Writers(l)') > 1)
    PROVE  Alone(l)'
<1> DEFINE S == Writers(l)'
           Names == ((Runs \cup {Request}) \cup {"ack"}) \cup {"timeout"}
<1>1. S \subseteq Names
    BY DEF Writers
<1>2. IsFiniteSet(Names)
    BY FiniteWith, WritersAssumption
<1>3. IsFiniteSet(S)
    BY <1>1, <1>2, FS_Subset
<1>4. /\ \A r \in Runs : ~At(r, l, "idle")' => r \in S
      /\ ~Waits(l)' => Request \in S
      /\ ack'[l] # "idle" => "ack" \in S
      /\ l \in stuck' \cup marked' => "timeout" \in S
    BY DEF Writers, Waits
<1>5. ~(Cardinality(S) > 1)
    OBVIOUS
<1> HIDE DEF S
<1>6. \A q, r \in S : q = r
    BY <1>3, <1>5, TwoCounted
<1>7. /\ \A r \in Runs : r # Request /\ r # "ack" /\ r # "timeout"
      /\ Request # "ack" /\ Request # "timeout" /\ "ack" # "timeout"
    BY ConstantsAssumption, WritersAssumption DEF Workers
<1>8. QED
    BY <1>4, <1>6, <1>7 DEF Alone

-----------------------------------------------------------------------------
(* A step that leaves the log alone.                                       *)

Same(l) ==
    /\ \A w \in Workers : \/ work'[w][l] = work[w][l]
                          \/ At(w, l, "idle") /\ At(w, l, "idle")'
    /\ status'[l] = status[l] /\ row'[l] = row[l] /\ acked'[l] = acked[l]
    /\ ack'[l] = ack[l] /\ sent'[l] = sent[l]
    /\ l \in stuck' <=> l \in stuck
    /\ l \in marked' <=> l \in marked

LEMMA SameTruth ==
    ASSUME NEW l \in Logs, TruthInv(l), Same(l)
    PROVE  TruthInv(l)'
<1>r. Request \in Workers /\ Runs \subseteq Workers
    BY DEF Workers
<1>1. \A w \in Workers : work'[w][l].stage = work[w][l].stage
    BY DEF Same, At
<1>2. Alone(l)'
    BY <1>1, <1>r DEF TruthInv, Alone, Same, Waits, At
<1>3. ASSUME NEW w \in Workers PROVE WriterInv(w, l)'
  <2>1. At(w, l, "copy") => work'[w][l].row = work[w][l].row
    BY DEF Same, At
  <2>2. WriterInv(w, l) /\ work'[w][l].stage = work[w][l].stage
    BY <1>1 DEF TruthInv
  <2>3. UNCHANGED <<status[l], row[l], acked[l]>>
    BY DEF Same
  <2>4. QED
    BY <2>1, <2>2, <2>3 DEF WriterInv, At
<1>4. RequestInv(l)'
    BY <1>1, <1>r DEF TruthInv, RequestInv, Unpaged, Same, At
<1>5. OthersInv(l)'
    BY DEF TruthInv, OthersInv, Same
<1>6. Settles(l)'
    BY <1>1, <1>r DEF TruthInv, Settles, Quiet, Unattended, RowTellsStatus, Same, At
<1>7. QED
    BY <1>2, <1>3, <1>4, <1>5, <1>6 DEF TruthInv

-----------------------------------------------------------------------------
(* The worker that acts is the only writer at work.                        *)

\* Everything else that could be at work on the log is not.
OnlyAct(w, l) ==
    /\ ack[l] = "idle" /\ l \notin stuck \cup marked
    /\ w = Request => \A r \in Runs : At(r, l, "idle")
    /\ w \in Runs => /\ work[Request][l].stage \in {"done", "dead"}
                     /\ \A r \in Runs \ {w} : At(r, l, "idle")

LEMMA WorkerIsOnly ==
    ASSUME NEW w \in Workers, NEW l \in Logs, WorkerStep(w, l), TruthInv(l)
    PROVE  OnlyAct(w, l)
<1>1. /\ w \in Runs => ~At(w, l, "idle")
      /\ w = Request => work[w][l].stage \notin {"done", "dead"}
    BY WorkerStepStage
<1>2. At(Request, l, "idle") => Unpaged(l)
    BY DEF TruthInv, RequestInv
<1>3. CASE At(Request, l, "idle")
  <2>1. \A r \in Runs : At(r, l, "idle")
    BY <1>2, <1>3 DEF Unpaged
  <2>2. QED
    BY <1>1, <1>2, <1>3, <2>1 DEF Unpaged, OnlyAct
<1>4. CASE ~At(Request, l, "idle") /\ w = Request
  <2>1. ~Waits(l)
    BY <1>1, <1>4 DEF Waits, At
  <2>2. QED
    BY <1>4, <2>1, ConstantsAssumption DEF TruthInv, Alone, OnlyAct
<1>5. CASE ~At(Request, l, "idle") /\ w \in Runs
  <2>1. Waits(l) /\ ack[l] = "idle" /\ l \notin stuck \cup marked
    BY <1>1, <1>5 DEF TruthInv, Alone
  <2>2. \A r \in Runs \ {w} : At(r, l, "idle")
    BY <1>1, <1>5 DEF TruthInv, Alone
  <2>3. QED
    BY <1>5, <2>1, <2>2, ConstantsAssumption DEF OnlyAct, Waits, At
<1>6. QED
    BY <1>3, <1>4, <1>5 DEF Workers

\* What the step leaves alone, for the log it is about.
LEMMA WorkerLeaves ==
    ASSUME TypeOK, NEW w \in Workers, NEW l \in Logs, WorkerStep(w, l), OnlyAct(w, l)
    PROVE  OnlyAct(w, l)' /\ acked' = acked
<1>1. UNCHANGED <<acked, ack, stuck, marked>>
    BY WorkerStepFrame DEF ackVars
<1>2. \A v \in Workers \ {w} : work'[v][l] = work[v][l]
    BY WorkerStepFrame
<1>3. Request \in Workers /\ Runs \subseteq Workers /\ Request \notin Runs
    BY ConstantsAssumption DEF Workers
<1>4. QED
    BY <1>1, <1>2, <1>3 DEF OnlyAct, At

LEMMA TruthRequest ==
    ASSUME TypeOK, NEW l \in Logs, WorkerStep(Request, l), ~Fail, TruthInv(l), Alone(l)'
    PROVE  TruthInv(l)'
<1> DEFINE old == work[Request][l]
           new == work'[Request][l]
<1>r. Request \in Workers /\ Request \notin Runs
    BY ConstantsAssumption DEF Workers
<1>0. OnlyAct(Request, l)' /\ acked' = acked
    BY <1>r, WorkerIsOnly, WorkerLeaves
<1>1. PICK a \in BOOLEAN : acked[l] = a
    BY DEF TypeOK
<1>2. acked'[l] = a
    BY <1>0, <1>1
<1>3. WriterInv(Request, l) /\ RequestInv(l)
    BY <1>r DEF TruthInv
<1>4. WriterInv(Request, l)' /\ RequestInv(l)' /\ (new.stage \in {"done", "dead"} => RowTellsStatus(l)' /\ ~a)
  <2>k. \/ Looks(Request, l) \/ Leaves(Request, l) \/ Writes(Request, l) \/ Copies(Request, l)
        \/ Marks(Request, l) \/ Creates(Request, l)
    BY <1>r, WorkerWrites
  <2>1. CASE Looks(Request, l)
    <3>1. WriterInv(Request, l)'
      BY <1>1, <1>2, <1>3, <1>r, <2>1 DEF Looks, WriterInv, At, Between
    <3>2. RequestInv(l)' /\ new.stage \notin {"done", "dead"}
      BY <2>1 DEF Looks, RequestInv, At, Between
    <3>3. QED
      BY <3>1, <3>2
  <2>2. CASE Leaves(Request, l)
    <3>1. status'[l] = "Started" /\ row'[l] = "Started" /\ ~a /\ new.stage = "dead"
      BY <1>1, <1>3, <2>2 DEF Leaves, WriterInv
    <3>2. WriterInv(Request, l)' /\ RequestInv(l)'
      BY <3>1 DEF WriterInv, RequestInv, Between, At
    <3>3. RowTellsStatus(l)'
      BY <1>2, <3>1 DEF RowTellsStatus, RowOf
    <3>4. QED
      BY <3>1, <3>2, <3>3
  <2>3. CASE Writes(Request, l)
    <3>1. ~a
      BY <1>1, <1>3, <2>3 DEF Writes, WriterInv, RequestInv, Between, At
    <3>2. /\ status'[l] \in {"Started", "Executing", "Error"}
          /\ new.stage = "copy" /\ new.row = RowOf(status'[l])
      BY <1>r, <2>3 DEF Writes
    <3>3. WriterInv(Request, l)' /\ RequestInv(l)'
      BY <1>2, <1>r, <3>1, <3>2 DEF WriterInv, RequestInv, RowOf, At, Between
    <3>4. QED
      BY <3>2, <3>3
  <2>4. CASE Copies(Request, l)
    <3>1. /\ ~a /\ status'[l] \in {"Started", "Executing", "Error"}
          /\ old.row = RowOf(status'[l]) /\ row'[l] = old.row
      BY <1>1, <1>3, <1>r, <2>4 DEF Copies, WriterInv
    <3>2. \/ status'[l] = "Started" /\ row'[l] = "Started" /\ new.stage = "count"
          \/ status'[l] = "Error" /\ row'[l] = "Error" /\ new.stage = "noRules"
          \/ status'[l] = "Executing" /\ row'[l] = "Executing" /\ new.stage = "sent"
      BY <1>r, <2>4, <3>1 DEF Copies, RowOf
    <3>3. WriterInv(Request, l)' /\ RequestInv(l)'
      BY <1>2, <1>r, <3>1, <3>2 DEF WriterInv, RequestInv, At, Between
    <3>4. QED
      BY <3>2, <3>3
  <2>5. CASE Marks(Request, l)
    <3>1. /\ ~a /\ new.stage = "done"
          /\ \/ status'[l] = "Error" /\ row'[l] = "Error"
             \/ status'[l] = "Executing" /\ row'[l] = "NotificationSent"
      BY <1>1, <1>3, <2>5 DEF Marks, RequestInv
    <3>2. WriterInv(Request, l)' /\ RequestInv(l)'
      BY <3>1 DEF WriterInv, RequestInv, Between, At
    <3>3. RowTellsStatus(l)'
      BY <1>2, <3>1 DEF RowTellsStatus, RowOf
    <3>4. QED
      BY <3>1, <3>2, <3>3
  <2>6. CASE Creates(Request, l)
    <3>1. ~a /\ new.stage = "create"
      BY <1>1, <1>3, <2>6 DEF Creates, RequestInv, Unpaged
    <3>2. WriterInv(Request, l)' /\ RequestInv(l)'
      BY <1>2, <3>1 DEF WriterInv, RequestInv, Between, At
    <3>3. QED
      BY <3>1, <3>2
  <2>7. QED
    BY <2>k, <2>1, <2>2, <2>3, <2>4, <2>5, <2>6
<1>5. \A w \in Workers : WriterInv(w, l)'
    BY <1>0, <1>4, <1>r DEF OnlyAct, Workers, WriterInv, At, Between
<1>6. OthersInv(l)'
    BY <1>0 DEF OnlyAct, OthersInv
<1>7. Settles(l)'
    BY <1>2, <1>4 DEF Settles, Quiet, Unattended
<1>8. QED
    BY <1>4, <1>5, <1>6, <1>7 DEF TruthInv

LEMMA TruthCall ==
    ASSUME TypeOK, NEW r \in Runs, NEW l \in Logs, WorkerStep(r, l), ~Fail, TruthInv(l), Alone(l)'
    PROVE  TruthInv(l)'
<1> DEFINE old == work[r][l]
           new == work'[r][l]
<1>r. r \in Workers /\ r # Request
    BY ConstantsAssumption DEF Workers
<1>0. OnlyAct(r, l)' /\ acked' = acked
    BY <1>r, WorkerIsOnly, WorkerLeaves
<1>1. PICK a \in BOOLEAN : acked[l] = a
    BY DEF TypeOK
<1>2. acked'[l] = a
    BY <1>0, <1>1
<1>3. WriterInv(r, l)
    BY <1>r DEF TruthInv
<1>4. WriterInv(r, l)' /\ (new.stage = "idle" => RowTellsStatus(l)' /\ ~a)
  <2>k. Looks(r, l) \/ Leaves(r, l) \/ Writes(r, l) \/ Copies(r, l)
    BY <1>r, WorkerWrites DEF Marks, Creates
  <2>1. CASE Looks(r, l)
    BY <1>1, <1>2, <1>3, <1>r, <2>1 DEF Looks, WriterInv, At, Between
  <2>2. CASE Leaves(r, l)
    <3>1. status'[l] = "Executing" /\ row'[l] = "NotificationSent" /\ ~a /\ new.stage = "idle"
      BY <1>1, <1>3, <1>r, <2>2 DEF Leaves, WriterInv
    <3>2. WriterInv(r, l)'
      BY <3>1 DEF WriterInv, Between, At
    <3>3. RowTellsStatus(l)'
      BY <1>2, <3>1 DEF RowTellsStatus
    <3>4. QED
      BY <3>1, <3>2, <3>3
  <2>3. CASE Writes(r, l)
    <3>1. ~a
      BY <1>1, <1>3, <1>r, <2>3 DEF Writes, WriterInv, Between, At
    <3>2. /\ status'[l] \in {"Completed", "Error"}
          /\ new.stage = "copy" /\ new.row = RowOf(status'[l])
      BY <1>r, <2>3 DEF Writes
    <3>3. WriterInv(r, l)'
      BY <1>2, <1>r, <3>1, <3>2 DEF WriterInv, RowOf, At, Between
    <3>4. QED
      BY <3>2, <3>3
  <2>4. CASE Copies(r, l)
    <3>1. /\ ~a /\ status'[l] \in {"Completed", "Error"}
          /\ row'[l] = RowOf(status'[l]) /\ new.stage = "idle"
      BY <1>1, <1>3, <1>r, <2>4 DEF Copies, WriterInv
    <3>2. WriterInv(r, l)'
      BY <3>1 DEF WriterInv, Between, At
    <3>3. RowTellsStatus(l)'
      BY <1>2, <3>1 DEF RowTellsStatus, RowOf
    <3>4. QED
      BY <3>1, <3>2, <3>3
  <2>5. QED
    BY <2>k, <2>1, <2>2, <2>3, <2>4
<1>5. work'[Request][l].stage \in {"done", "dead"} /\ \A q \in Runs \ {r} : At(q, l, "idle")'
    BY <1>0 DEF OnlyAct
<1>6. \A w \in Workers : WriterInv(w, l)'
    BY <1>4, <1>5 DEF Workers, WriterInv, At, Between
<1>7. RequestInv(l)' /\ OthersInv(l)'
    BY <1>0, <1>5 DEF OnlyAct, RequestInv, OthersInv, At
<1>8. Settles(l)'
    BY <1>2, <1>4 DEF Settles, Quiet, Unattended, At
<1>9. QED
    BY <1>4, <1>6, <1>7, <1>8 DEF TruthInv

-----------------------------------------------------------------------------
(* Nobody else is at work when an acknowledgement, the timeout job or a    *)
(* new run takes a step with the log.                                      *)

NoWorker(l) ==
    /\ work[Request][l].stage \in {"done", "dead"}
    /\ \A r \in Runs : At(r, l, "idle")

\* A step of one of the others that leaves the workers alone.
LEMMA TruthWrites ==
    ASSUME NEW l \in Logs, TruthInv(l), NoWorker(l), work' = work,
           Alone(l)', OthersInv(l)', Settles(l)'
    PROVE  TruthInv(l)'
<1>1. \A w \in Workers : work[w][l].stage \in {"done", "dead", "idle"}
    BY DEF NoWorker, Workers, At
<1>2. \A w \in Workers : WriterInv(w, l)'
    BY <1>1 DEF WriterInv, Between, At
<1>3. RequestInv(l)'
    BY DEF NoWorker, RequestInv, At
<1>4. QED
    BY <1>2, <1>3 DEF TruthInv

LEMMA AckIsOnly ==
    ASSUME NEW l \in Logs, TruthInv(l), ack[l] # "idle"
    PROVE  NoWorker(l) /\ l \notin stuck \cup marked
<1>1. ~At(Request, l, "idle")
    BY DEF TruthInv, RequestInv, Unpaged
<1>2. Waits(l) /\ (\A r \in Runs : At(r, l, "idle")) /\ l \notin stuck \cup marked
    BY DEF TruthInv, Alone
<1>3. QED
    BY <1>1, <1>2 DEF NoWorker, Waits, At

LEMMA TimeoutIsOnly ==
    ASSUME NEW l \in Logs, TruthInv(l), l \in stuck \cup marked
    PROVE  NoWorker(l) /\ ack[l] = "idle"
<1>1. ~At(Request, l, "idle")
    BY DEF TruthInv, RequestInv, Unpaged
<1>2. Waits(l) /\ (\A r \in Runs : At(r, l, "idle")) /\ ack[l] = "idle"
    BY DEF TruthInv, Alone
<1>3. QED
    BY <1>1, <1>2 DEF NoWorker, Waits, At

\* An acknowledgement of the log.
LEMMA TruthAck ==
    ASSUME TypeOK, NEW l \in Logs, FollowLink(l) \/ AckStep(l), TruthInv(l), Alone(l)'
    PROVE  TruthInv(l)'
<1>0. /\ work' = work /\ UNCHANGED <<stuck, marked, sent>>
      /\ ack'[l] \in AckStage
    BY DEF FollowLink, AckStep, AckLog, AckCopy, AckPolicy, AckRow, AckIncident, AckFrame, AckTo,
           TypeOK, AckStage
<1>1. CASE FollowLink(l)
  <2>1. /\ UNCHANGED <<status, row, acked>> /\ ack'[l] = "log"
        /\ \E n \in Rules : sent[l][n] > 0
    BY <1>1 DEF FollowLink, AckTo, TypeOK
  <2>2. ~At(Request, l, "idle")
    <3>1. \A n \in Rules : sent[l][n] = 0 => ~(sent[l][n] > 0)
      OBVIOUS
    <3>2. QED
      BY <2>1, <3>1 DEF TruthInv, RequestInv, Unpaged
  <2>3. \A w \in Workers : WriterInv(w, l)'
    BY <1>0, <2>1 DEF TruthInv, WriterInv, At
  <2>4. RequestInv(l)'
    BY <1>0, <2>1, <2>2 DEF TruthInv, RequestInv, At
  <2>5. OthersInv(l)'
    BY <1>0, <2>1 DEF TruthInv, OthersInv
  <2>6. Settles(l)'
    BY <2>1 DEF Settles, Quiet
  <2>7. QED
    BY <2>3, <2>4, <2>5, <2>6 DEF TruthInv
<1>2. CASE AckStep(l)
  <2>1. ack[l] # "idle"
    BY <1>2 DEF AckStep, AckLog, AckCopy, AckPolicy, AckRow, AckIncident, AckTo
  <2>2. NoWorker(l) /\ l \notin stuck' \cup marked'
    BY <1>0, <2>1, AckIsOnly
  <2>3. OthersInv(l) /\ (\A m \in Logs : acked[m] \in BOOLEAN)
    BY DEF TruthInv, TypeOK
  <2>4. OthersInv(l)' /\ Settles(l)'
    <3>1. CASE AckLog(l)
      <4>1. status'[l] = "Completed" /\ acked'[l] = TRUE /\ ack'[l] = "copy"
        BY <3>1 DEF AckLog, AckTo, TypeOK
      <4>2. QED
        BY <2>2, <4>1 DEF OthersInv, Settles, Quiet
    <3>2. CASE AckCopy(l) \/ AckPolicy(l)
      <4>1. /\ ack[l] \in {"copy", "policy"} /\ ack'[l] \in {"policy", "row"}
            /\ UNCHANGED <<status, acked>>
        BY <3>2 DEF AckCopy, AckPolicy, AckTo, TypeOK
      <4>2. QED
        BY <2>2, <2>3, <4>1 DEF OthersInv, Settles, Quiet
    <3>3. CASE AckRow(l)
      <4>1. /\ ack[l] = "row" /\ ack'[l] = "incident" /\ row'[l] = "SuccessfullyAcknowledged"
            /\ UNCHANGED <<status, acked>>
        BY <3>3 DEF AckRow, AckTo, TypeOK
      <4>2. QED
        BY <2>2, <2>3, <4>1 DEF OthersInv, Settles, Quiet
    <3>4. CASE AckIncident(l)
      <4>1. /\ ack[l] = "incident" /\ ack'[l] = "idle"
            /\ UNCHANGED <<status, acked, row>>
        BY <3>4 DEF AckIncident, AckTo, TypeOK
      <4>2. acked'[l] /\ status'[l] = "Completed" /\ row'[l] = "SuccessfullyAcknowledged"
        BY <2>3, <4>1 DEF OthersInv
      <4>3. QED
        BY <2>2, <4>1, <4>2 DEF OthersInv, Settles, RowTellsStatus
    <3>5. QED
      BY <1>2, <3>1, <3>2, <3>3, <3>4 DEF AckStep
  <2>5. QED
    BY <1>0, <2>2, <2>4, TruthWrites
<1>3. QED
    BY <1>1, <1>2

\* The timeout job marks a log, or the row of the log it has marked.
LEMMA TruthTimeout ==
    ASSUME TypeOK, NEW l \in Logs, MarkStuck(l) \/ CopyStuck(l), TruthInv(l), Alone(l)'
    PROVE  TruthInv(l)'
<1>0. work' = work /\ UNCHANGED <<ack, acked>>
    BY DEF MarkStuck, CopyStuck, ackVars
<1>1. NoWorker(l) /\ ack'[l] = "idle"
    BY <1>0, TimeoutIsOnly DEF MarkStuck, CopyStuck
<1>2. OthersInv(l)
    BY DEF TruthInv
<1>3. OthersInv(l)' /\ Settles(l)'
  <2>1. CASE MarkStuck(l)
    <3>1. /\ status'[l] = "Error" /\ l \in marked' /\ l \notin stuck'
          /\ ~acked'[l]
      BY <1>0, <1>2, <2>1 DEF MarkStuck, TypeOK, OthersInv
    <3>2. QED
      BY <1>1, <3>1 DEF OthersInv, Settles, Quiet, Unattended
  <2>2. CASE CopyStuck(l)
    <3>1. /\ status'[l] = "Error" /\ row'[l] = "Error" /\ ~acked'[l]
          /\ l \notin marked' /\ l \notin stuck'
      BY <1>0, <1>2, <2>2 DEF CopyStuck, TypeOK, OthersInv
    <3>2. QED
      BY <1>1, <3>1 DEF OthersInv, Settles, RowTellsStatus, RowOf
  <2>3. QED
    BY <2>1, <2>2
<1>4. QED
    BY <1>0, <1>1, <1>3, TruthWrites

\* The timeout job finds the log: nobody else is at work on it, so its row is
\* settled and it has not been acknowledged.
LEMMA TruthFound ==
    ASSUME TypeOK, NEW l \in Logs, FindStuck, l \in stuck', TruthInv(l), Alone(l)'
    PROVE  TruthInv(l)'
<1>0. /\ UNCHANGED <<work, status, row, acked, ack, marked>> /\ status[l] = "Started"
      /\ l \notin stuck \cup marked
    BY DEF FindStuck, StuckLogs, ackVars
<1>1. ~At(Request, l, "idle")
    BY <1>0 DEF TruthInv, RequestInv, Unpaged
<1>2. Waits(l)' /\ (\A r \in Runs : At(r, l, "idle")') /\ ack'[l] = "idle"
    BY DEF Alone
<1>3. NoWorker(l) /\ ack[l] = "idle"
    BY <1>0, <1>1, <1>2 DEF NoWorker, Waits, At
<1>4. Quiet(l)
    BY <1>0, <1>3 DEF Quiet, Unattended, NoWorker
<1>5. ~acked[l]
    BY <1>0, <1>4 DEF TruthInv, Settles
<1>6. OthersInv(l)' /\ Settles(l)'
    BY <1>0, <1>3, <1>5 DEF OthersInv, Settles, Quiet, Unattended
<1>7. QED
    BY <1>0, <1>3, <1>6, TruthWrites

\* A new run takes the log up.
LEMMA TruthSnapshot ==
    ASSUME TypeOK, NEW r \in Runs, NEW l \in Logs, Snapshot(r), Pending(l), TruthInv(l), Alone(l)'
    PROVE  TruthInv(l)'
<1>r. r \in Workers /\ Request \in Workers /\ r # Request
    BY ConstantsAssumption DEF Workers
<1>0. UNCHANGED <<status, row, acked, ack, stuck, marked>>
    BY DEF Snapshot, WorkFrame, ackVars
<1>1. /\ \A w \in Workers \ {r} : work'[w] = work[w]
      /\ work'[r][l].stage = "check"
  <2> DEFINE calls == [m \in Logs |-> IF Pending(m)
                                      THEN [NoWork EXCEPT !.stage = "check", !.seen = executed[m]]
                                      ELSE NoWork]
  <2>1. work' = [work EXCEPT ![r] = calls]
    BY DEF Snapshot
  <2>2. calls[l].stage = "check"
    BY DEF NoWork
  <2> HIDE DEF calls
  <2>3. work'[r] = calls
    BY <1>r, <2>1 DEF TypeOK
  <2>4. QED
    BY <2>2, <2>3, RunMoves
<1>2. /\ Waits(l)' /\ ack'[l] = "idle" /\ l \notin stuck' \cup marked'
      /\ \A q \in Runs \ {r} : At(q, l, "idle")'
    BY <1>1 DEF Alone, At
<1>3. Waits(l) /\ \A q \in Runs : At(q, l, "idle")
  <2>1. At(r, l, "idle")
    BY DEF Snapshot
  <2>2. \A q \in Runs \ {r} : At(q, l, "idle")
    BY <1>1, <1>2 DEF At, Workers
  <2>3. Waits(l)
    BY <1>1, <1>2, <1>r DEF Waits
  <2>4. QED
    BY <2>1, <2>2, <2>3
<1>4. ~At(Request, l, "idle")
    BY DEF TruthInv, RequestInv, Unpaged, Pending
<1>5. work[Request][l].stage \in {"done", "dead"}
    BY <1>3, <1>4 DEF Waits, At
<1>6. Quiet(l)
    BY <1>0, <1>2, <1>3, <1>5 DEF Quiet, Unattended
<1>7. status[l] = "Executing" /\ ~acked[l] /\ row[l] = "NotificationSent"
    BY <1>6 DEF TruthInv, Settles, Pending, RowTellsStatus
<1>8. WriterInv(r, l)'
    BY <1>0, <1>1, <1>7, <1>r DEF WriterInv, At
<1>9. \A w \in Workers \ {r} : work'[w][l].stage \in {"idle", "done", "dead"}
    BY <1>1, <1>2, <1>5, <1>r DEF Workers, At
<1>10. \A w \in Workers \ {r} : WriterInv(w, l)'
    BY <1>9 DEF WriterInv, Between, At
<1>11. RequestInv(l)' /\ OthersInv(l)'
    BY <1>1, <1>2, <1>5, <1>r DEF RequestInv, OthersInv, At
<1>12. Settles(l)'
    BY <1>1 DEF Settles, Quiet, Unattended, At
<1>13. QED
    BY <1>8, <1>10, <1>11, <1>12 DEF TruthInv

LEMMA TruthNext ==
    ASSUME TypeOK, [Next]_vars, ~Fail, NEW l \in Logs, TruthInv(l), Next => Alone(l)',
           \A k, m \in marked : k = m
    PROVE  TruthInv(l)'
<1>1. CASE UNCHANGED vars
  <2>1. Same(l)
    BY <1>1 DEF vars, ackVars, Same
  <2>2. QED
    BY <2>1, SameTruth
<1>2. CASE Next
  <2>0. Alone(l)'
    BY <1>2
  <2>1. ASSUME NEW w \in Workers, NEW m \in Logs, WorkerStep(w, m) PROVE TruthInv(l)'
    <3>1. CASE m = l
      BY <2>0, <2>1, <3>1, TruthRequest, TruthCall DEF Workers
    <3>2. CASE m # l
      <4>1. Same(l)
        BY <2>1, <3>2, WorkerStepFrame, WorkerRows DEF Same, ackVars
      <4>2. QED
        BY <4>1, SameTruth
    <3>3. QED
      BY <3>1, <3>2
  <2>2. ASSUME NEW r \in Runs, Snapshot(r) \/ WorkerCrash(r) PROVE TruthInv(l)'
    <3>1. Snapshot(r)
      BY <2>2 DEF WorkerCrash
    <3>2. CASE Pending(l)
      BY <2>0, <3>1, <3>2, TruthSnapshot
    <3>3. CASE ~Pending(l)
      <4>1. /\ \A w \in Workers \ {r} : work'[w] = work[w]
            /\ work'[r][l] = NoWork
        BY <3>1, <3>3, RunMoves
      <4>2. At(r, l, "idle") /\ At(r, l, "idle")'
        <5>1. At(r, l, "idle")
          BY <3>1 DEF Snapshot
        <5>2. QED
          BY <4>1, <5>1 DEF At, NoWork
      <4>3. UNCHANGED <<status, row, acked, ack, sent, stuck, marked>>
        BY <3>1 DEF Snapshot, WorkFrame, ackVars
      <4>4. Same(l)
        BY <4>1, <4>2, <4>3 DEF Same
      <4>5. QED
        BY <4>4, SameTruth
    <3>4. QED
      BY <3>2, <3>3
  <2>3. CASE OtherStep
    <3>0. work' = work /\ sent' = sent
      BY <2>3, OtherStepFrame
    <3>1. ASSUME NEW m \in Logs, MarkStuck(m) \/ CopyStuck(m) PROVE TruthInv(l)'
      <4>1. CASE m = l
        BY <2>0, <3>1, <4>1, TruthTimeout
      <4>2. CASE m # l
        <5>1. UNCHANGED <<acked, ack>> /\ status'[l] = status[l] /\ row'[l] = row[l]
          BY <3>1, <4>2 DEF MarkStuck, CopyStuck, TypeOK, ackVars
        <5>2. (l \in stuck' <=> l \in stuck) /\ (l \in marked' <=> l \in marked)
          BY <3>1, <4>2 DEF MarkStuck, CopyStuck
        <5>3. Same(l)
          BY <3>0, <5>1, <5>2 DEF Same
        <5>4. QED
          BY <5>3, SameTruth
      <4>3. QED
        BY <4>1, <4>2
    <3>2. ASSUME NEW m \in Logs, FollowLink(m) \/ AckStep(m) PROVE TruthInv(l)'
      <4>1. CASE m = l
        BY <2>0, <3>2, <4>1, TruthAck
      <4>2. CASE m # l
        <5>1. /\ UNCHANGED <<stuck, marked>> /\ status'[l] = status[l] /\ row'[l] = row[l]
              /\ acked'[l] = acked[l] /\ ack'[l] = ack[l]
          BY <3>2, <4>2
          DEF FollowLink, AckStep, AckLog, AckCopy, AckPolicy, AckRow, AckIncident, AckTo, AckFrame,
              TypeOK
        <5>2. Same(l)
          BY <3>0, <5>1 DEF Same
        <5>3. QED
          BY <5>2, SameTruth
      <4>3. QED
        BY <4>1, <4>2
    <3>3. CASE FindStuck
      <4>1. CASE l \in stuck'
        BY <2>0, <3>3, <4>1, TruthFound
      <4>2. CASE l \notin stuck'
        <5>1. UNCHANGED <<status, row, acked, ack, marked>> /\ l \notin stuck
          BY <3>3 DEF FindStuck, ackVars
        <5>2. Same(l)
          BY <3>0, <4>2, <5>1 DEF Same
        <5>3. QED
          BY <5>2, SameTruth
      <4>3. QED
        BY <4>1, <4>2
    <3>4. CASE Tick \/ \E n \in Rules : AddRule(n) \/ RemoveRule(n)
      <4>1. UNCHANGED <<status, row, acked, ack, stuck, marked>>
        BY <3>4 DEF Tick, AddRule, RemoveRule, ackVars
      <4>2. Same(l)
        BY <3>0, <4>1 DEF Same
      <4>3. QED
        BY <4>2, SameTruth
    <3>5. QED
      BY <2>3, <3>1, <3>2, <3>3, <3>4 DEF OtherStep, AckThrows, StuckAborts
  <2>4. QED
    BY <1>1, <2>1, <2>2, <2>3, NextSteps
<1>3. QED
    BY <1>1, <1>2

\* One log at most waits for its row.
LEMMA MarkedOne ==
    ASSUME [Next]_vars, \A k, m \in marked : k = m
    PROVE  (\A k, m \in marked : k = m)'
<1>1. marked' = marked \/ marked' = {} \/ \E m \in Logs : marked' = {m}
  <2>1. ASSUME NEW w \in Workers, NEW l \in Logs, WorkerStep(w, l) PROVE marked' = marked
    BY <2>1
    DEF WorkerStep, WorkStep, TakeRule, RecordExecuted, SendNotification, LoopEnds, CopyStatus,
        Create, RequestStep, Start, CountRules, NoRules, MarkRowAgain, FindImmediate, Finish,
        MarkRowSent, RequestDies, CallStep, FindDue, Complete, MarkFailed, CallThrows,
        WriteStatus, WorkFrame
  <2>2. ASSUME NEW r \in Runs, Snapshot(r) \/ WorkerCrash(r) PROVE marked' = marked
    BY <2>2 DEF Snapshot, WorkerCrash, WorkFrame
  <2>3. CASE OtherStep
    BY <2>3
    DEF OtherStep, MarkStuck, CopyStuck, FollowLink, AckStep, AckLog, AckCopy, AckPolicy, AckRow,
        AckIncident, AckThrows, AddRule, RemoveRule, FindStuck, StuckAborts, Tick, AckFrame
  <2>4. QED
    BY <2>1, <2>2, <2>3, NextSteps DEF vars
<1>2. QED
    BY <1>1

LEMMA RowsStep == TypeOK /\ RowsInv /\ [HistoryNext]_historyVars => RowsInv'
<1> SUFFICES ASSUME TypeOK, RowsInv, [HistoryNext]_historyVars PROVE RowsInv'
    OBVIOUS
<1>1. [Next]_vars
    BY DEF HistoryNext, historyVars
<1>2. \/ UNCHANGED vars /\ overlapped' = overlapped
      \/ overlapped' = (overlapped \/ \E l \in Logs : Cardinality(Writers(l)') > 1)
    BY DEF HistoryNext, historyVars
<1>3. (\A k, l \in marked : k = l)'
    BY <1>1, MarkedOne DEF RowsInv
<1>4. overlapped' \in BOOLEAN
    BY <1>2 DEF RowsInv
<1>5. ASSUME ~overlapped', failures' = 0, NEW l \in Logs PROVE TruthInv(l)'
  <2>1. failures = 0 /\ ~Fail
    BY <1>1, <1>5, FailuresCount DEF Fail
  <2>2. ~overlapped
    BY <1>2, <1>5 DEF RowsInv
  <2>3. TruthInv(l)
    BY <2>1, <2>2 DEF RowsInv
  <2>4. UNCHANGED vars \/ ~(Cardinality(Writers(l)') > 1)
    BY <1>2, <1>5 DEF RowsInv
  <2>5. CASE UNCHANGED vars
    <3>1. Same(l)
      BY <2>5 DEF vars, ackVars, Same
    <3>2. QED
      BY <2>3, <3>1, SameTruth
  <2>6. CASE ~(Cardinality(Writers(l)') > 1)
    <3>1. Alone(l)'
      BY <2>6, CountedAlone
    <3>2. QED
      BY <1>1, <2>1, <2>3, <3>1, TruthNext DEF RowsInv
  <2>7. QED
    BY <2>4, <2>5, <2>6
<1>6. failures' \in 0..MaxFailures
    BY <1>1, TypeStep DEF TypeOK
<1>7. failures' = 0 \/ failures' > 0
    BY <1>6, ConstantsAssumption
<1>8. QED
    BY <1>3, <1>4, <1>5, <1>7 DEF RowsInv

\* What the dashboard shows for a page is what has become of it, for any
\* number of pages, rules and cron runs, as long as one writer at a time has
\* been at work on each page and no step has failed: the request, the runs,
\* the timeout job and the acknowledgements each leave the row right.
THEOREM RowsTellTheTruth == HistorySpec => []RowTruthfulInTurn
<1>1. HistoryInit => RowsInv
  <2> SUFFICES ASSUME HistoryInit PROVE RowsInv
      OBVIOUS
  <2>1. overlapped = FALSE /\ Init
    BY DEF HistoryInit
  <2>2. ASSUME NEW l \in Logs PROVE TruthInv(l)
    <3>1. \A w \in Workers : work[w][l].stage = "idle"
      BY <2>1 DEF Init, NoWork
    <3>2. /\ status[l] = "None" /\ ~acked[l] /\ ack[l] = "idle" /\ \A n \in Rules : sent[l][n] = 0
          /\ stuck = {} /\ marked = {}
      BY <2>1 DEF Init
    <3>3. Request \in Workers /\ Runs \subseteq Workers
      BY DEF Workers
    <3>4. \A w \in Workers : WriterInv(w, l)
      BY <3>1 DEF WriterInv, Between, At
    <3>5. Alone(l) /\ RequestInv(l) /\ OthersInv(l)
      BY <3>1, <3>2, <3>3 DEF Alone, Waits, RequestInv, Unpaged, OthersInv, At
    <3>6. Settles(l)
      BY <3>1, <3>3 DEF Settles, Quiet, Unattended
    <3>7. QED
      BY <3>4, <3>5, <3>6 DEF TruthInv
  <2>3. marked = {}
    BY <2>1 DEF Init
  <2>4. QED
    BY <2>1, <2>2, <2>3 DEF RowsInv
<1>2. RowsInv => RowTruthfulInTurn
    BY DEF RowsInv, TruthInv, Settles, RowTruthfulInTurn
<1>3. QED
    BY <1>1, <1>2, HistoryType, RowsStep, PTL DEF HistorySpec
=============================================================================
