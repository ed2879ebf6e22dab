-------------------- MODULE MonitorStatusTimelineProofs --------------------
(***************************************************************************)
(* Proofs about the status timeline of a monitor, for any number of        *)
(* concurrent requests, rows, statuses and faults.                         *)
(***************************************************************************)
EXTENDS MCMonitorStatusTimeline, FiniteSetTheorems, TLAPS

-----------------------------------------------------------------------------
(* Type correctness and the order of the rows a request works on.          *)

\* What the requests have read is in the right order: the row to be ended is
\* older than the one that ends it.
Ordered ==
    /\ \A c \in Creators : last[c] <= made /\ (stage[c] = "end" => last[c] < mine[c])
    /\ \A d \in Deleters :
          /\ drow[d] <= made /\ (dstage[d] = "idle" => drow[d] = 0)
          /\ before[d] <= drow[d] /\ (dstage[d] \in {"after", "adjust"} => before[d] < drow[d])
          /\ dstage[d] = "adjust" => (after[d] = 0 \/ after[d] > drow[d])

RowsOrdered == \A i \in Row : endsAt[i] = 0 \/ endsAt[i] > i

LEMMA InitType == Init => TypeOK
  BY TimelineAssumption DEF Init, TypeOK, Row, CreatorStage, DeleterStage

LEMMA NextType == TypeOK /\ [Next]_vars => TypeOK'
  <1> SUFFICES ASSUME TypeOK, [Next]_vars PROVE TypeOK'
    OBVIOUS
  <1> USE TimelineAssumption DEF TypeOK, Row
  <1>1. CASE UNCHANGED vars
    BY <1>1 DEF vars, rowVars, createVars, deleteVars
  <1>2. ASSUME NEW c \in Creators, Check(c) PROVE TypeOK'
    <2>1. CASE Ends(c, "idle")
      BY <1>2, <2>1 DEF Check, Ends, rowVars, deleteVars, CreatorStage
    <2>2. CASE GoTo(c, "lock")
      BY <1>2, <2>2 DEF Check, GoTo, rowVars, deleteVars, CreatorStage
    <2> QED
      BY <1>2, <2>1, <2>2 DEF Check
  <1>3. ASSUME NEW c \in Creators, Begin(c) PROVE TypeOK'
    BY <1>3 DEF Begin, rowVars, deleteVars, CreatorStage
  <1>4. ASSUME NEW c \in Creators, Acquire(c) PROVE TypeOK'
    BY <1>4 DEF Acquire, GoTo, rowVars, deleteVars, CreatorStage, Critical
  <1>5. ASSUME NEW c \in Creators, AcquireTimesOut(c) PROVE TypeOK'
    BY <1>5 DEF AcquireTimesOut, Ends, rowVars, deleteVars, CreatorStage
  <1>6. ASSUME NEW c \in Creators, ReadLast(c) PROVE TypeOK'
    BY <1>6 DEF ReadLast, rowVars, deleteVars, CreatorStage, Critical
  <1>7. ASSUME NEW c \in Creators, Save(c) PROVE TypeOK'
    BY <1>7 DEF Save, deleteVars, CreatorStage, Critical
  <1>8. ASSUME NEW c \in Creators, EndLast(c) PROVE TypeOK'
    BY <1>8 DEF EndLast, GoTo, deleteVars, CreatorStage, Critical
  <1>9. ASSUME NEW c \in Creators, SetMonitor(c) PROVE TypeOK'
    BY <1>9 DEF SetMonitor, GoTo, rowVars, deleteVars, CreatorStage, Critical
  <1>10. ASSUME NEW c \in Creators, Recheck(c) PROVE TypeOK'
    BY <1>10 DEF Recheck, GoTo, rowVars, deleteVars, CreatorStage, Critical
  <1>11. ASSUME NEW c \in Creators, NestedTimesOut(c) PROVE TypeOK'
    BY <1>11 DEF NestedTimesOut, Ends, rowVars, deleteVars, CreatorStage, Critical
  <1>12. ASSUME NEW c \in Creators, Release(c) PROVE TypeOK'
    BY <1>12 DEF Release, Ends, rowVars, deleteVars, CreatorStage
  <1>13. ASSUME NEW c \in Creators, CreateThrows(c) PROVE TypeOK'
    BY <1>13 DEF CreateThrows, Fault, Ends, rowVars, deleteVars, CreatorStage, Critical
  <1>14. ASSUME NEW c \in Creators, CreateCrashes(c) PROVE TypeOK'
    BY <1>14 DEF CreateCrashes, Fault, Ends, rowVars, deleteVars, CreatorStage
  <1>15. ASSUME NEW d \in Deleters, BeginDelete(d) PROVE TypeOK'
    <2> PICK i \in present : drow' = [drow EXCEPT ![d] = i]
      BY <1>15 DEF BeginDelete
    <2> QED
      BY <1>15 DEF BeginDelete, DeleteFrame, createVars, DeleterStage
  <1>16. ASSUME NEW d \in Deleters, CountRows(d) PROVE TypeOK'
    <2>1. CASE DeleteEnds(d)
      BY <1>16, <2>1 DEF CountRows, DeleteEnds, DeleteFrame, createVars, DeleterStage
    <2>2. CASE dstage' = [dstage EXCEPT ![d] = "before"] /\ UNCHANGED <<drow, before, after>>
      BY <1>16, <2>2 DEF CountRows, DeleteFrame, createVars, DeleterStage
    <2> QED
      BY <1>16, <2>1, <2>2 DEF CountRows
  <1>17. ASSUME NEW d \in Deleters, FindBefore(d) PROVE TypeOK'
    <2>1. ASSUME NEW i \in Older(d), before' = [before EXCEPT ![d] = i],
                 dstage' = [dstage EXCEPT ![d] = "after"]
          PROVE  TypeOK'
      <3>1. i \in 1..made /\ i < drow[d]
        BY DEF Older
      <3> QED
        BY <1>17, <2>1, <3>1 DEF FindBefore, DeleteFrame, createVars, DeleterStage
    <2>2. CASE dstage' = [dstage EXCEPT ![d] = "delete"] /\ UNCHANGED before
      BY <1>17, <2>2 DEF FindBefore, DeleteFrame, createVars, DeleterStage
    <2> QED
      BY <1>17, <2>1, <2>2 DEF FindBefore
  <1>18. ASSUME NEW d \in Deleters, FindAfter(d) PROVE TypeOK'
    <2>1. ASSUME NEW i \in Newer(d) \cup {0}, after' = [after EXCEPT ![d] = i]
          PROVE  TypeOK'
      <3>1. i \in 0..made /\ (i = 0 \/ i > drow[d])
        BY <2>1 DEF Newer
      <3> QED
        BY <1>18, <2>1, <3>1 DEF FindAfter, DeleteFrame, createVars, DeleterStage
    <2> QED
      BY <1>18, <2>1 DEF FindAfter
  <1>19. ASSUME NEW d \in Deleters, Adjust(d) PROVE TypeOK'
    BY <1>19 DEF Adjust, DeleteFrame, createVars, DeleterStage
  <1>20. ASSUME NEW d \in Deleters, DeleteRow(d) PROVE TypeOK'
    BY <1>20 DEF DeleteRow, DeleteFrame, createVars, DeleterStage
  <1>21. ASSUME NEW d \in Deleters, Reread(d) PROVE TypeOK'
    <2>1. CASE DeleteEnds(d)
      BY <1>21, <2>1 DEF Reread, DeleteEnds, DeleteFrame, createVars, DeleterStage
    <2>2. CASE dstage' = [dstage EXCEPT ![d] = "monitor"] /\ UNCHANGED <<drow, before, after>>
      BY <1>21, <2>2 DEF Reread, DeleteFrame, createVars, DeleterStage
    <2> QED
      BY <1>21, <2>1, <2>2 DEF Reread
  <1>22. ASSUME NEW d \in Deleters, CopyStatus(d) PROVE TypeOK'
    BY <1>22 DEF CopyStatus, DeleteEnds, DeleteFrame, createVars, DeleterStage
  <1>23. ASSUME NEW d \in Deleters, DeleteFails(d) PROVE TypeOK'
    BY <1>23 DEF DeleteFails, Fault, DeleteEnds, DeleteFrame, createVars, DeleterStage
  <1> QED
    BY <1>1, <1>2, <1>3, <1>4, <1>5, <1>6, <1>7, <1>8, <1>9, <1>10, <1>11, <1>12, <1>13,
       <1>14, <1>15, <1>16, <1>17, <1>18, <1>19, <1>20, <1>21, <1>22, <1>23
    DEF Next, CreateStep, DeleteStep

LEMMA Typed == Spec => []TypeOK
  BY InitType, NextType, PTL DEF Spec

LEMMA InitOrder == Init => Ordered /\ RowsOrdered
  BY TimelineAssumption DEF Init, Ordered, RowsOrdered, Row

\* One deletion or creation moves forward in the order of the rows only.
LEMMA NextOrder == TypeOK /\ Ordered /\ [Next]_vars => Ordered'
  <1> SUFFICES ASSUME TypeOK, Ordered, [Next]_vars PROVE Ordered'
    OBVIOUS
  <1> USE TimelineAssumption DEF TypeOK, Ordered, Row
  <1>1. CASE UNCHANGED vars
    BY <1>1 DEF vars, rowVars, createVars, deleteVars
  <1>2. ASSUME NEW c \in Creators, Check(c) PROVE Ordered'
    <2>1. CASE Ends(c, "idle")
      BY <1>2, <2>1 DEF Check, Ends, rowVars, deleteVars, CreatorStage
    <2>2. CASE GoTo(c, "lock")
      BY <1>2, <2>2 DEF Check, GoTo, rowVars, deleteVars, CreatorStage
    <2> QED
      BY <1>2, <2>1, <2>2 DEF Check
  <1>3. ASSUME NEW c \in Creators, Begin(c) PROVE Ordered'
    BY <1>3 DEF Begin, rowVars, deleteVars, CreatorStage
  <1>4. ASSUME NEW c \in Creators, Acquire(c) PROVE Ordered'
    BY <1>4 DEF Acquire, GoTo, rowVars, deleteVars, CreatorStage, Critical
  <1>5. ASSUME NEW c \in Creators, AcquireTimesOut(c) PROVE Ordered'
    BY <1>5 DEF AcquireTimesOut, Ends, rowVars, deleteVars, CreatorStage
  <1>6. ASSUME NEW c \in Creators, ReadLast(c) PROVE Ordered'
    <2> PICK i \in 0..MaxRows : IsLast(i) /\ last' = [last EXCEPT ![c] = i]
      BY <1>6 DEF ReadLast
    <2>1. i <= made
      BY DEF IsLast
    <2> QED
      BY <1>6, <2>1 DEF ReadLast, rowVars, deleteVars
  <1>7. ASSUME NEW c \in Creators, Save(c) PROVE Ordered'
    BY <1>7 DEF Save, deleteVars, CreatorStage, Critical
  <1>8. ASSUME NEW c \in Creators, EndLast(c) PROVE Ordered'
    BY <1>8 DEF EndLast, GoTo, deleteVars, CreatorStage, Critical
  <1>9. ASSUME NEW c \in Creators, SetMonitor(c) PROVE Ordered'
    BY <1>9 DEF SetMonitor, GoTo, rowVars, deleteVars, CreatorStage, Critical
  <1>10. ASSUME NEW c \in Creators, Recheck(c) PROVE Ordered'
    BY <1>10 DEF Recheck, GoTo, rowVars, deleteVars, CreatorStage, Critical
  <1>11. ASSUME NEW c \in Creators, NestedTimesOut(c) PROVE Ordered'
    BY <1>11 DEF NestedTimesOut, Ends, rowVars, deleteVars, CreatorStage, Critical
  <1>12. ASSUME NEW c \in Creators, Release(c) PROVE Ordered'
    BY <1>12 DEF Release, Ends, rowVars, deleteVars, CreatorStage
  <1>13. ASSUME NEW c \in Creators, CreateThrows(c) PROVE Ordered'
    BY <1>13 DEF CreateThrows, Fault, Ends, rowVars, deleteVars, CreatorStage, Critical
  <1>14. ASSUME NEW c \in Creators, CreateCrashes(c) PROVE Ordered'
    BY <1>14 DEF CreateCrashes, Fault, Ends, rowVars, deleteVars, CreatorStage
  <1>15. ASSUME NEW d \in Deleters, BeginDelete(d) PROVE Ordered'
    <2> PICK i \in present : drow' = [drow EXCEPT ![d] = i]
      BY <1>15 DEF BeginDelete
    <2> QED
      BY <1>15 DEF BeginDelete, DeleteFrame, createVars, DeleterStage
  <1>16. ASSUME NEW d \in Deleters, CountRows(d) PROVE Ordered'
    <2>1. CASE DeleteEnds(d)
      BY <1>16, <2>1 DEF CountRows, DeleteEnds, DeleteFrame, createVars, DeleterStage
    <2>2. CASE dstage' = [dstage EXCEPT ![d] = "before"] /\ UNCHANGED <<drow, before, after>>
      BY <1>16, <2>2 DEF CountRows, DeleteFrame, createVars, DeleterStage
    <2> QED
      BY <1>16, <2>1, <2>2 DEF CountRows
  <1>17. ASSUME NEW d \in Deleters, FindBefore(d) PROVE Ordered'
    <2>1. ASSUME NEW i \in Older(d), before' = [before EXCEPT ![d] = i],
                 dstage' = [dstage EXCEPT ![d] = "after"]
          PROVE  Ordered'
      <3>1. i \in 1..made /\ i < drow[d]
        BY DEF Older
      <3> QED
        BY <1>17, <2>1, <3>1 DEF FindBefore, DeleteFrame, createVars, DeleterStage
    <2>2. CASE dstage' = [dstage EXCEPT ![d] = "delete"] /\ UNCHANGED before
      BY <1>17, <2>2 DEF FindBefore, DeleteFrame, createVars, DeleterStage
    <2> QED
      BY <1>17, <2>1, <2>2 DEF FindBefore
  <1>18. ASSUME NEW d \in Deleters, FindAfter(d) PROVE Ordered'
    <2>1. ASSUME NEW i \in Newer(d) \cup {0}, after' = [after EXCEPT ![d] = i]
          PROVE  Ordered'
      <3>1. i \in 0..made /\ (i = 0 \/ i > drow[d])
        BY <2>1 DEF Newer
      <3> QED
        BY <1>18, <2>1, <3>1 DEF FindAfter, DeleteFrame, createVars, DeleterStage
    <2> QED
      BY <1>18, <2>1 DEF FindAfter
  <1>19. ASSUME NEW d \in Deleters, Adjust(d) PROVE Ordered'
    BY <1>19 DEF Adjust, DeleteFrame, createVars, DeleterStage
  <1>20. ASSUME NEW d \in Deleters, DeleteRow(d) PROVE Ordered'
    BY <1>20 DEF DeleteRow, DeleteFrame, createVars, DeleterStage
  <1>21. ASSUME NEW d \in Deleters, Reread(d) PROVE Ordered'
    <2>1. CASE DeleteEnds(d)
      BY <1>21, <2>1 DEF Reread, DeleteEnds, DeleteFrame, createVars, DeleterStage
    <2>2. CASE dstage' = [dstage EXCEPT ![d] = "monitor"] /\ UNCHANGED <<drow, before, after>>
      BY <1>21, <2>2 DEF Reread, DeleteFrame, createVars, DeleterStage
    <2> QED
      BY <1>21, <2>1, <2>2 DEF Reread
  <1>22. ASSUME NEW d \in Deleters, CopyStatus(d) PROVE Ordered'
    BY <1>22 DEF CopyStatus, DeleteEnds, DeleteFrame, createVars, DeleterStage
  <1>23. ASSUME NEW d \in Deleters, DeleteFails(d) PROVE Ordered'
    BY <1>23 DEF DeleteFails, Fault, DeleteEnds, DeleteFrame, createVars, DeleterStage
  <1> QED
    BY <1>1, <1>2, <1>3, <1>4, <1>5, <1>6, <1>7, <1>8, <1>9, <1>10, <1>11, <1>12, <1>13,
       <1>14, <1>15, <1>16, <1>17, <1>18, <1>19, <1>20, <1>21, <1>22, <1>23
    DEF Next, CreateStep, DeleteStep

\* Only the end of the previous row and the repair after a deletion set endsAt.
LEMMA NextRows == TypeOK /\ Ordered /\ RowsOrdered /\ [Next]_vars => RowsOrdered'
  <1> SUFFICES ASSUME TypeOK, Ordered, RowsOrdered, [Next]_vars, NEW i \in Row
               PROVE  endsAt'[i] = 0 \/ endsAt'[i] > i
    BY DEF RowsOrdered
  <1>1. endsAt[i] = 0 \/ endsAt[i] > i
    BY DEF RowsOrdered
  <1>2. ASSUME NEW c \in Creators, EndLast(c) PROVE endsAt'[i] = 0 \/ endsAt'[i] > i
    BY <1>1, <1>2 DEF EndLast, Ordered, TypeOK, Row
  <1>3. ASSUME NEW d \in Deleters, Adjust(d) PROVE endsAt'[i] = 0 \/ endsAt'[i] > i
    BY <1>1, <1>3 DEF Adjust, Ordered, TypeOK, Row
  <1>4. CASE UNCHANGED endsAt
    BY <1>1, <1>4
  <1>5. ASSUME NEW c \in Creators, ~EndLast(c), Begin(c) \/ CreateStep(c) \/ CreateThrows(c) \/ CreateCrashes(c)
        PROVE  UNCHANGED endsAt
    BY <1>5 DEF Begin, CreateStep, Check, Acquire, AcquireTimesOut, ReadLast, Save, SetMonitor, Recheck,
                NestedTimesOut, Release, CreateThrows, CreateCrashes, rowVars
  <1>6. ASSUME NEW d \in Deleters, ~Adjust(d), BeginDelete(d) \/ DeleteStep(d) \/ DeleteFails(d)
        PROVE  UNCHANGED endsAt
    BY <1>6 DEF BeginDelete, DeleteStep, CountRows, FindBefore, FindAfter, DeleteRow, Reread, CopyStatus,
                DeleteFails
  <1> QED
    BY <1>2, <1>3, <1>4, <1>5, <1>6 DEF Next, vars, rowVars

LEMMA InOrder == Spec => [](Ordered /\ RowsOrdered)
  <1>1. TypeOK /\ (Ordered /\ RowsOrdered) /\ [Next]_vars => (Ordered /\ RowsOrdered)'
    BY NextOrder, NextRows
  <1> QED
    BY InitOrder, <1>1, Typed, PTL DEF Spec

\* Every variable keeps its type: no request holds a row that was never
\* created, for any number of requests and faults.
THEOREM TimelineTypeCorrect == Spec => []TypeOK
  BY Typed

\* No row ever ends where it begins or earlier: not when creations, deletions
\* and faults interleave in any way.
THEOREM RowsEndAfterTheyBegin == Spec => []EndsAfterItBegins
  <1>1. TypeOK /\ RowsOrdered => EndsAfterItBegins
    BY TimelineAssumption DEF TypeOK, RowsOrdered, EndsAfterItBegins, Row
  <1> QED
    BY <1>1, Typed, InOrder, PTL

-----------------------------------------------------------------------------
(* Without deletions: the mutex, the rows and the row of its holder.       *)

NoDeletions == Deleters = {}

Critic(c) == stage[c] \in Critical

Serialised == \A c \in Creators : Critic(c) => lock = c

\* The holder of the mutex has read the newest row, and from the moment it
\* has saved its own that one is the newest.
HoldsNewest ==
    /\ present = 1..made
    /\ \A c \in Creators :
          /\ stage[c] = "save" => last[c] = made
          /\ stage[c] \in {"end", "monitor", "recheck"} =>
                mine[c] = made /\ statusOf[made] = want[c]
          /\ stage[c] = "end" => made = last[c] + 1 /\ last[c] \in Row
          /\ stage[c] # "nested"

LockInv == TypeOK /\ Serialised /\ HoldsNewest

LEMMA InitLock == Init => LockInv
  BY InitType, TimelineAssumption DEF Init, LockInv, TypeOK, Serialised, Critic, Critical, HoldsNewest

LEMMA NextLock == ASSUME NoDeletions PROVE LockInv /\ [Next]_vars => LockInv'
  <1> SUFFICES ASSUME LockInv, [Next]_vars PROVE LockInv'
    OBVIOUS
  <1> USE TimelineAssumption DEF LockInv, Row
  <1>t. TypeOK'
    BY NextType
  <1>s. ASSUME NEW c \in Creators, Begin(c) \/ CreateStep(c) \/ CreateThrows(c) \/ CreateCrashes(c)
        PROVE  Serialised'
    <2> SUFFICES ASSUME NEW b \in Creators, Critic(b)' PROVE lock' = b
      BY DEF Serialised
    <2>1. CASE b = c
      BY <1>s, <2>1 DEF TypeOK, Serialised, Critic, Critical, Begin, CreateStep, Check, Acquire,
         AcquireTimesOut, ReadLast, Save, EndLast, SetMonitor, Recheck, NestedTimesOut, Release,
         CreateThrows, CreateCrashes, Ends, GoTo
    <2>2. CASE b # c
      <3>1. Critic(b) /\ lock = b
        BY <1>s, <2>2 DEF TypeOK, Serialised, Critic, Begin, CreateStep, Check, Acquire,
           AcquireTimesOut, ReadLast, Save, EndLast, SetMonitor, Recheck, NestedTimesOut, Release,
           CreateThrows, CreateCrashes, Ends, GoTo
      <3>2. ~Acquire(c) /\ ~Release(c)
        BY <2>2, <3>1 DEF Acquire, LockFree, Release, Serialised, Critic, Critical
      <3> QED
        BY <1>s, <2>2, <3>1, <3>2 DEF Begin, CreateStep, Check,
           AcquireTimesOut, ReadLast, Save, EndLast, SetMonitor, Recheck, NestedTimesOut,
           CreateThrows, CreateCrashes
    <2> QED
      BY <2>1, <2>2
  <1>1. CASE UNCHANGED vars
    BY <1>1, <1>t DEF vars, rowVars, createVars, Serialised, Critic, HoldsNewest
  <1>2. ASSUME NEW c \in Creators, Save(c) PROVE HoldsNewest'
    <2>1. \A b \in Creators : b # c => ~Critic(b)
      BY <1>2 DEF Save, Serialised, Critic, Critical
    <2>2. present' = 1..made' /\ statusOf'[made'] = want[c] /\ last[c] = made
      BY <1>2 DEF Save, HoldsNewest, TypeOK
    <2> QED
      BY <1>2, <2>1, <2>2 DEF Save, HoldsNewest, TypeOK, Critic, Critical
  <1>3. ASSUME NEW c \in Creators, Begin(c) PROVE HoldsNewest'
    BY <1>3 DEF Begin, rowVars, HoldsNewest, TypeOK
  <1>4. ASSUME NEW c \in Creators, Check(c) PROVE HoldsNewest'
    BY <1>4 DEF Check, Ends, GoTo, rowVars, HoldsNewest, TypeOK
  <1>5. ASSUME NEW c \in Creators, Acquire(c) PROVE HoldsNewest'
    BY <1>5 DEF Acquire, GoTo, rowVars, HoldsNewest, TypeOK
  <1>6. ASSUME NEW c \in Creators, ReadLast(c) PROVE HoldsNewest'
    <2> PICK i \in 0..MaxRows : IsLast(i) /\ last' = [last EXCEPT ![c] = i]
      BY <1>6 DEF ReadLast
    <2>1. i = made
      <3>1. made \in present /\ made \in Nat
        BY DEF HoldsNewest, TypeOK
      <3>2. i \in present /\ \A j \in present : j <= i
        BY <3>1 DEF IsLast
      <3>3. i \in 1..made
        BY <3>2 DEF HoldsNewest
      <3> QED
        BY <3>1, <3>2, <3>3
    <2> QED
      BY <1>6, <2>1 DEF ReadLast, rowVars, HoldsNewest, TypeOK
  <1>7. ASSUME NEW c \in Creators, EndLast(c) PROVE HoldsNewest'
    BY <1>7 DEF EndLast, GoTo, HoldsNewest, TypeOK
  <1>8. ASSUME NEW c \in Creators, SetMonitor(c) PROVE HoldsNewest'
    BY <1>8 DEF SetMonitor, GoTo, rowVars, HoldsNewest, TypeOK
  <1>9. ASSUME NEW c \in Creators, Recheck(c) PROVE HoldsNewest'
    <2>1. LastHas(want[c])
      BY <1>9 DEF Recheck, LastHas, IsLast, HoldsNewest, TypeOK
    <2> QED
      BY <1>9, <2>1 DEF Recheck, GoTo, rowVars, HoldsNewest, TypeOK
  <1>10. ASSUME NEW c \in Creators, NEW at \in {"idle", "leaked"}, Ends(c, at), UNCHANGED rowVars
         PROVE  HoldsNewest'
    BY <1>10 DEF Ends, rowVars, HoldsNewest, TypeOK
  <1>11. ASSUME NEW c \in Creators,
                AcquireTimesOut(c) \/ NestedTimesOut(c) \/ Release(c) \/ CreateThrows(c) \/ CreateCrashes(c)
         PROVE  HoldsNewest'
    BY <1>10, <1>11 DEF AcquireTimesOut, NestedTimesOut, Release, CreateThrows, CreateCrashes
  <1> QED
    BY <1>t, <1>s, <1>1, <1>2, <1>3, <1>4, <1>5, <1>6, <1>7, <1>8, <1>9, <1>11
    DEF Next, CreateStep, NoDeletions

LEMMA Locked == ASSUME NoDeletions PROVE Spec => []LockInv
  BY InitLock, NextLock, PTL DEF Spec

\* While nobody deletes rows, no status change waits for the mutex it holds
\* itself, whatever other changes, exceptions and crashes happen.
THEOREM NoSelfDeadlock == ASSUME NoDeletions PROVE Spec => []NeverWaitsForItself
  <1>1. LockInv => NeverWaitsForItself
    BY DEF LockInv, HoldsNewest, NeverWaitsForItself
  <1> QED
    BY <1>1, Locked, PTL

-----------------------------------------------------------------------------
(* Without deletions: the timeline implements StatusHistory.               *)

\* Every row but the newest has an end, once its pending end is counted, and
\* the monitor has the newest row's status, once its pending copy is.
SeenWhole ==
    /\ \A i \in present : (endsAt[i] # 0 \/ Pending(i)) <=> i < made
    /\ (\A c \in Creators : stage[c] \notin {"end", "monitor"}) => monitor = statusOf[made]
    /\ \A c \in Creators : stage[c] # "leaked"
    /\ \A i \in Row : i > made => endsAt[i] = 0

LEMMA Shown ==
  ASSUME LockInv, SeenWhole
  PROVE  ShownEnded = 1..(made - 1) /\ ShownCurrent = statusOf[made]
  <1>1. ShownEnded = 1..(made - 1)
    BY TimelineAssumption DEF ShownEnded, SeenWhole, LockInv, HoldsNewest, TypeOK, Row
  <1>2. \A s \in Statuses : Unseen(s) => s = statusOf[made]
    BY DEF Unseen, LockInv, HoldsNewest
  <1>3. CASE \E s \in Statuses : Unseen(s)
    <2>1. ShownCurrent \in Statuses /\ Unseen(ShownCurrent)
      BY <1>3, Zenon DEF ShownCurrent
    <2> QED
      BY <1>1, <1>2, <2>1
  <1>4. CASE ~\E s \in Statuses : Unseen(s)
    <2>1. \A c \in Creators : stage[c] \notin {"end", "monitor"}
      BY <1>4 DEF Unseen, LockInv, TypeOK
    <2>2. monitor = statusOf[made]
      BY <2>1 DEF SeenWhole
    <2>3. ShownCurrent = monitor
      BY <1>4, Zenon DEF ShownCurrent
    <2> QED
      BY <1>1, <2>2, <2>3
  <1> QED
    BY <1>1, <1>3, <1>4

LEMMA InitSeen == Init => SeenWhole
  BY TimelineAssumption DEF Init, SeenWhole, Pending, Row

LEMMA NextSeen ==
  ASSUME NoDeletions PROVE LockInv /\ SeenWhole /\ [Next]_vars /\ faults' = 0 => SeenWhole'
  <1> SUFFICES ASSUME LockInv, SeenWhole, [Next]_vars, faults' = 0 PROVE SeenWhole'
    OBVIOUS
  <1> USE TimelineAssumption DEF Row
  <1>i. LockInv'
    BY NextLock
  <1>f. ~Fault("throw") /\ ~Fault("crash")
    BY DEF Fault, LockInv, TypeOK
  <1>1. CASE UNCHANGED vars
    BY <1>1 DEF vars, rowVars, createVars, SeenWhole, Pending
  <1>2. ASSUME NEW c \in Creators, Save(c) PROVE SeenWhole'
    <2>1. \A b \in Creators : b # c => ~Critic(b)
      BY <1>2 DEF Save, LockInv, Serialised, Critic, Critical
    <2>2. \A i \in present' : Pending(i)' <=> i = made
      <3>1. stage'[c] = "end" /\ last'[c] = made
        BY <1>2 DEF Save, LockInv, HoldsNewest, TypeOK
      <3>2. \A b \in Creators : b # c => stage'[b] # "end"
        BY <1>2, <2>1 DEF Save, LockInv, TypeOK, Critic, Critical
      <3> QED
        BY <3>1, <3>2 DEF Pending
    <2>3. \A i \in present : ~Pending(i)
      BY <1>2, <2>1 DEF Pending, Save, Critic, Critical
    <2>4. \A i \in present : endsAt[i] # 0 <=> i < made
      BY <2>3 DEF SeenWhole
    <2>5. \A i \in present' : (endsAt'[i] # 0 \/ Pending(i)') <=> i < made'
      BY <1>2, <2>2, <2>4 DEF Save, LockInv, HoldsNewest, TypeOK, SeenWhole
    <2> QED
      BY <1>2, <2>5 DEF Save, LockInv, TypeOK, SeenWhole
  <1>3. ASSUME NEW c \in Creators, EndLast(c) PROVE SeenWhole'
    <2>1. \A b \in Creators : b # c => ~Critic(b)
      BY <1>3 DEF EndLast, LockInv, Serialised, Critic, Critical
    <2>2. \A i \in present : Pending(i) <=> i = last[c]
      BY <1>3, <2>1 DEF Pending, EndLast, Critic, Critical
    <2>3. \A i \in present' : ~Pending(i)'
      BY <1>3, <2>1 DEF Pending, EndLast, GoTo, LockInv, TypeOK, Critic, Critical
    <2>4. last[c] \in present /\ mine[c] # 0
      BY <1>3 DEF EndLast, LockInv, HoldsNewest, TypeOK
    <2> QED
      BY <1>3, <2>2, <2>3, <2>4 DEF EndLast, GoTo, LockInv, TypeOK, SeenWhole
  <1>4. ASSUME NEW c \in Creators, SetMonitor(c) PROVE SeenWhole'
    <2>1. monitor' = statusOf[made]
      BY <1>4 DEF SetMonitor, LockInv, HoldsNewest
    <2>2. \A i \in present : Pending(i)' <=> Pending(i)
      BY <1>4 DEF SetMonitor, GoTo, Pending, LockInv, TypeOK
    <2> QED
      BY <1>4, <2>1, <2>2 DEF SetMonitor, GoTo, rowVars, LockInv, TypeOK, SeenWhole
  <1>5. ASSUME NEW c \in Creators, stage[c] \notin {"end", "monitor"}, stage'[c] \notin {"end", "monitor", "leaked"},
               \A b \in Creators : b # c => stage'[b] = stage[b] /\ last'[b] = last[b],
               UNCHANGED <<rowVars, monitor>>
        PROVE  SeenWhole'
    <2>1. \A i \in present : Pending(i)' <=> Pending(i)
      BY <1>5 DEF Pending
    <2> QED
      BY <1>5, <2>1 DEF rowVars, SeenWhole
  <1>6. ASSUME NEW c \in Creators, Begin(c) \/ Check(c) \/ Acquire(c) \/ AcquireTimesOut(c) \/ ReadLast(c)
                                   \/ Recheck(c) \/ Release(c)
        PROVE  SeenWhole'
    <2>1. Recheck(c) => stage'[c] = "release" \/ stage'[c] = "nested"
      BY DEF Recheck, GoTo, LockInv, TypeOK
    <2>2. stage[c] \notin {"end", "monitor"} /\ stage'[c] \notin {"end", "monitor", "leaked"}
      BY <1>6, <2>1 DEF Begin, Check, Acquire, AcquireTimesOut, ReadLast, Recheck, Release, Ends, GoTo, LockInv, TypeOK
    <2>3. \A b \in Creators : b # c => stage'[b] = stage[b] /\ last'[b] = last[b]
      BY <1>6 DEF Begin, Check, Acquire, AcquireTimesOut, ReadLast, Recheck, Release, Ends, GoTo, LockInv, TypeOK
    <2>4. UNCHANGED <<rowVars, monitor>>
      BY <1>6 DEF Begin, Check, Acquire, AcquireTimesOut, ReadLast, Recheck, Release
    <2> QED
      BY <1>5, <2>2, <2>3, <2>4
  <1>7. ASSUME NEW c \in Creators PROVE ~NestedTimesOut(c) /\ ~CreateThrows(c) /\ ~CreateCrashes(c)
    BY <1>f DEF NestedTimesOut, CreateThrows, CreateCrashes, LockInv, HoldsNewest
  <1> QED
    BY <1>1, <1>2, <1>3, <1>4, <1>6, <1>7 DEF Next, CreateStep, NoDeletions

\* A step that saves a row is a change of the abstract history, and every
\* other step leaves the history as it is.
LEMMA SeenStep ==
  ASSUME NoDeletions, LockInv, SeenWhole, [Next]_vars, faults = 0, faults' = 0
  PROVE  [History!Change]_History!historyVars
  <1>1. LockInv' /\ SeenWhole'
    BY NextLock, NextSeen
  <1>2. ShownEnded = 1..(made - 1) /\ ShownCurrent = statusOf[made]
    BY Shown
  <1>3. ShownEnded' = 1..(made' - 1) /\ ShownCurrent' = statusOf'[made']
    <2>1. \A s \in Statuses : Unseen(s)' => s = statusOf'[made']
      BY <1>1 DEF Unseen, LockInv, HoldsNewest
    <2>2. ShownEnded' = 1..(made' - 1)
      <3>1. present' = 1..made' /\ made' \in Nat
        BY <1>1, TimelineAssumption DEF LockInv, HoldsNewest, TypeOK, Row
      <3>2. \A i \in present' : (endsAt'[i] # 0 \/ Pending(i)') <=> i < made'
        BY <1>1 DEF SeenWhole
      <3> QED
        BY <3>1, <3>2 DEF ShownEnded
    <2>3. CASE \E s \in Statuses : Unseen(s)'
      <3>1. ShownCurrent' \in Statuses /\ Unseen(ShownCurrent)'
        BY <2>3, Zenon DEF ShownCurrent
      <3> QED
        BY <2>1, <2>2, <3>1
    <2>4. CASE ~\E s \in Statuses : Unseen(s)'
      <3>1. \A c \in Creators : stage'[c] \notin {"end", "monitor"}
        BY <1>1, <2>4 DEF Unseen, LockInv, TypeOK
      <3>2. monitor' = statusOf'[made']
        BY <1>1, <3>1 DEF SeenWhole
      <3> QED
        BY <2>2, <2>4, <3>2 DEF ShownCurrent
    <2> QED
      BY <2>3, <2>4
  <1>4. ASSUME NEW c \in Creators, Save(c) PROVE History!Add(want[c])
    <2>1. made' = made + 1 /\ statusOf' = [statusOf EXCEPT ![made + 1] = want[c]] /\ made + 1 \in Row
      BY <1>4, TimelineAssumption DEF Save, LockInv, TypeOK, Row
    <2>2. 1..(made' - 1) = (1..(made - 1)) \cup {made}
      BY <2>1, TimelineAssumption DEF LockInv, TypeOK, Row
    <2>3. statusOf'[made'] = want[c]
      BY <2>1 DEF LockInv, TypeOK
    <2> QED
      BY <1>2, <1>3, <2>1, <2>2, <2>3 DEF History!Add
  <1>5. CASE UNCHANGED <<made, statusOf>>
    BY <1>2, <1>3, <1>5 DEF History!historyVars
  <1>6. ASSUME NEW c \in Creators, Begin(c) \/ CreateStep(c) \/ CreateThrows(c) \/ CreateCrashes(c), ~Save(c)
        PROVE  UNCHANGED <<made, statusOf>>
    BY <1>6 DEF Begin, CreateStep, Check, Acquire, AcquireTimesOut, ReadLast, EndLast, SetMonitor, Recheck,
                NestedTimesOut, Release, CreateThrows, CreateCrashes, rowVars
  <1> QED
    <2>1. CASE UNCHANGED vars
      BY <1>5, <2>1 DEF vars, rowVars
    <2>2. ASSUME NEW c \in Creators, Begin(c) \/ CreateStep(c) \/ CreateThrows(c) \/ CreateCrashes(c)
          PROVE  [History!Change]_History!historyVars
      <3>1. CASE Save(c)
        BY <1>4, <3>1 DEF History!Change, LockInv, TypeOK
      <3> QED
        BY <1>5, <1>6, <2>2, <3>1
    <2> QED
      BY <2>1, <2>2 DEF Next, NoDeletions

\* Faults are only ever counted up.
LEMMA FaultsGrow == ASSUME LockInv, [Next]_vars, faults' = 0 PROVE faults = 0
  <1>1. faults' = faults \/ faults' = faults + 1
    BY DEF Next, vars, Begin, CreateStep, Check, Acquire, AcquireTimesOut, ReadLast, Save, EndLast, SetMonitor,
           Recheck, NestedTimesOut, Release, CreateThrows, CreateCrashes, Fault, BeginDelete, DeleteStep,
           CountRows, FindBefore, FindAfter, Adjust, DeleteRow, Reread, CopyStatus, DeleteFails
  <1> QED
    BY <1>1, TimelineAssumption DEF LockInv, TypeOK

SeenUntilFault == faults = 0 => SeenWhole

\* While nothing is deleted, concurrent status changes look atomic to the
\* readers of the timeline and of the monitor until a request is interrupted.
THEOREM ChangesLookAtomic == ASSUME NoDeletions PROVE Spec => ChangesAreAtomic
  <1>1. Init => History!Start
    <2> SUFFICES ASSUME Init PROVE History!Start
      OBVIOUS
    <2>1. ShownEnded = 1..(made - 1) /\ ShownCurrent = statusOf[made]
      BY InitLock, InitSeen, Shown
    <2>2. 1..(made - 1) = {} /\ made = 1
      BY DEF Init
    <2> QED
      BY <2>1, <2>2 DEF Init, Row, History!Start
  <1>2. LockInv /\ SeenUntilFault /\ [Next]_vars => SeenUntilFault'
    BY NextSeen, FaultsGrow DEF SeenUntilFault
  <1>3. LockInv /\ LockInv' /\ SeenUntilFault /\ [Next]_vars => [History!Change]_History!historyVars
    <2> SUFFICES ASSUME LockInv, LockInv', SeenUntilFault, [Next]_vars
                 PROVE  [History!Change]_History!historyVars
      OBVIOUS
    <2>1. CASE faults' = 0
      BY <2>1, FaultsGrow, SeenStep DEF SeenUntilFault
    <2>2. CASE faults' # 0
      <3>1. faults' > 0
        BY <2>2, TimelineAssumption DEF LockInv, TypeOK
      <3> QED
        BY <3>1 DEF History!Change, History!Interrupted
    <2> QED
      BY <2>1, <2>2
  <1>4. Spec => []SeenUntilFault
    <2>1. Init => SeenUntilFault
      BY InitSeen DEF SeenUntilFault
    <2> QED
      BY <1>2, <2>1, Locked, PTL DEF Spec
  <1>5. Spec => [][History!Change]_History!historyVars
    BY <1>3, <1>4, Locked, PTL DEF Spec
  <1> QED
    BY <1>1, <1>5, PTL DEF Spec, ChangesAreAtomic, History!History

-----------------------------------------------------------------------------
(* Without deletions: the rows that nobody will end any more.              *)

Lost == {i \in Open : i # made /\ ~Pending(i)}

LostToFaults == Cardinality(Lost) <= faults

LEMMA RowsFinite ==
  ASSUME TypeOK, NEW S \in SUBSET present
  PROVE  IsFiniteSet(S) /\ Cardinality(S) \in Nat
  <1>1. S \subseteq 1..made /\ made \in Int /\ 1 \in Int
    BY TimelineAssumption DEF TypeOK, Row
  <1>2. IsFiniteSet(1..made)
    BY <1>1, FS_Interval
  <1> QED
    BY <1>1, <1>2, FS_Subset, FS_CardinalityType

\* A row is given up only by a request that fails before it has ended the row.
LEMMA NextLost ==
  ASSUME NoDeletions, LockInv, NEW c \in Creators,
         Begin(c) \/ CreateStep(c) \/ CreateThrows(c) \/ CreateCrashes(c)
  PROVE  \/ Lost' \subseteq Lost /\ faults' >= faults
         \/ Lost' \subseteq Lost \cup {last[c]} /\ last[c] \in present /\ faults' = faults + 1
  <1> USE TimelineAssumption DEF LockInv
  <1>1. faults \in Nat /\ made \in Nat \ {0}
    BY DEF TypeOK, Row
  <1>2. CASE Save(c)
    <2>1. /\ made' = made + 1 /\ present' = present \cup {made + 1} /\ UNCHANGED <<endsAt, faults, last>>
          /\ stage' = [stage EXCEPT ![c] = "end"] /\ stage[c] = "save" /\ last[c] = made
      BY <1>2 DEF Save, HoldsNewest
    <2>2. \A i : i = made => Pending(i)'
      BY <2>1 DEF Pending, TypeOK
    <2>3. \A i : Pending(i) => Pending(i)'
      BY <2>1 DEF Pending, TypeOK
    <2>4. ASSUME NEW i \in Lost' PROVE i \in Lost
      <3>1. i \in present' /\ endsAt[i] = 0 /\ i # made + 1 /\ ~Pending(i)'
        BY <2>1 DEF Lost, Open
      <3> QED
        BY <2>1, <2>2, <2>3, <3>1 DEF Lost, Open
    <2> QED
      BY <1>1, <2>1, <2>4
  <1>3. CASE EndLast(c)
    <2>1. /\ UNCHANGED <<made, present, faults, last>> /\ stage[c] = "end"
          /\ stage' = [stage EXCEPT ![c] = "monitor"]
          /\ last[c] \in present /\ mine[c] # 0
      BY <1>1, <1>3 DEF EndLast, GoTo, HoldsNewest, TypeOK, Row
    <2>2. endsAt' = [endsAt EXCEPT ![last[c]] = mine[c]] /\ last[c] \in Row
      BY <1>3, <2>1 DEF EndLast, TypeOK, Row
    <2>3. \A i : Pending(i) => Pending(i)' \/ i = last[c]
      BY <2>1 DEF Pending, TypeOK
    <2>4. ASSUME NEW i \in Lost' PROVE i \in Lost
      <3>1. i \in present /\ i \in Row /\ endsAt'[i] = 0 /\ i # made /\ ~Pending(i)'
        BY <2>1 DEF Lost, Open, TypeOK, Row
      <3>2. i # last[c] /\ endsAt[i] = 0
        BY <2>1, <2>2, <3>1 DEF TypeOK
      <3> QED
        BY <2>3, <3>1, <3>2 DEF Lost, Open
    <2> QED
      BY <1>1, <2>1, <2>4
  <1>4. CASE UNCHANGED rowVars /\ stage[c] # "end" /\ faults' >= faults
             /\ \A b \in Creators : b # c => stage'[b] = stage[b] /\ last'[b] = last[b]
    <2>1. \A i : Pending(i) => Pending(i)'
      BY <1>4 DEF Pending
    <2> QED
      BY <1>4, <2>1 DEF Lost, Open, rowVars
  <1>5. CASE stage[c] = "end" /\ (CreateThrows(c) \/ CreateCrashes(c))
    <2>1. /\ UNCHANGED rowVars /\ faults' = faults + 1
          /\ \A b \in Creators : b # c => stage'[b] = stage[b] /\ last'[b] = last[b]
      BY <1>5 DEF CreateThrows, CreateCrashes, Fault, Ends, TypeOK
    <2>2. \A i : Pending(i) => Pending(i)' \/ i = last[c]
      BY <2>1 DEF Pending
    <2>3. last[c] \in present
      BY <1>1, <1>5 DEF HoldsNewest, Row
    <2> QED
      BY <2>1, <2>2, <2>3 DEF Lost, Open, rowVars
  <1>6. CASE Begin(c) \/ Check(c) \/ Acquire(c) \/ AcquireTimesOut(c) \/ ReadLast(c) \/ SetMonitor(c) \/ Recheck(c)
             \/ NestedTimesOut(c) \/ Release(c)
    <2>1. UNCHANGED rowVars /\ stage[c] # "end" /\ faults' = faults
      BY <1>6 DEF Begin, Check, Acquire, AcquireTimesOut, ReadLast, SetMonitor, Recheck, NestedTimesOut, Release
    <2>2. \A b \in Creators : b # c => stage'[b] = stage[b] /\ last'[b] = last[b]
      BY <1>6 DEF Begin, Check, Acquire, AcquireTimesOut, ReadLast, SetMonitor, Recheck, NestedTimesOut, Release,
         Ends, GoTo, TypeOK
    <2> QED
      BY <1>1, <1>4, <2>1, <2>2
  <1>7. CASE stage[c] # "end" /\ (CreateThrows(c) \/ CreateCrashes(c))
    <2>1. UNCHANGED rowVars /\ faults' = faults + 1
      BY <1>7 DEF CreateThrows, CreateCrashes, Fault
    <2>2. \A b \in Creators : b # c => stage'[b] = stage[b] /\ last'[b] = last[b]
      BY <1>7 DEF CreateThrows, CreateCrashes, Ends, TypeOK
    <2> QED
      BY <1>1, <1>4, <1>7, <2>1, <2>2
  <1> QED
    BY <1>2, <1>3, <1>5, <1>6, <1>7 DEF CreateStep

LEMMA NextLostToFaults ==
  ASSUME NoDeletions PROVE LockInv /\ LostToFaults /\ [Next]_vars => LostToFaults'
  <1> SUFFICES ASSUME LockInv, LostToFaults, [Next]_vars PROVE LostToFaults'
    OBVIOUS
  <1>t. LockInv'
    BY NextLock
  <1>1. faults \in Nat /\ faults' \in Nat
    BY <1>t, TimelineAssumption DEF LockInv, TypeOK
  <1>2. IsFiniteSet(Lost) /\ Cardinality(Lost) \in Nat
    BY RowsFinite DEF LockInv, Lost, Open
  <1>3. IsFiniteSet(Lost') /\ Cardinality(Lost') \in Nat
    <2>1. made' \in Int /\ 1 \in Int /\ present' \subseteq 1..made'
      BY <1>t, TimelineAssumption DEF LockInv, TypeOK, Row
    <2>2. Lost' \subseteq present'
      BY DEF Lost, Open
    <2>3. IsFiniteSet(1..made')
      BY <2>1, FS_Interval
    <2> QED
      BY <2>1, <2>2, <2>3, FS_Subset, FS_CardinalityType
  <1>4. CASE UNCHANGED vars
    BY <1>4 DEF vars, rowVars, createVars, LostToFaults, Lost, Open, Pending
  <1>5. CASE Lost' \subseteq Lost /\ faults' >= faults
    <2>1. Cardinality(Lost') <= Cardinality(Lost)
      BY <1>2, <1>5, FS_Subset
    <2> QED
      BY <1>1, <1>2, <1>3, <1>5, <2>1 DEF LostToFaults
  <1>6. ASSUME NEW i, Lost' \subseteq Lost \cup {i}, faults' = faults + 1 PROVE LostToFaults'
    <2>1. IsFiniteSet(Lost \cup {i}) /\ Cardinality(Lost \cup {i}) <= Cardinality(Lost) + 1
          /\ Cardinality(Lost \cup {i}) \in Nat
      BY <1>2, FS_AddElement, FS_CardinalityType
    <2>2. Cardinality(Lost') <= Cardinality(Lost \cup {i})
      BY <1>6, <2>1, FS_Subset
    <2> QED
      BY <1>1, <1>2, <1>3, <1>6, <2>1, <2>2 DEF LostToFaults
  <1> QED
    BY <1>4, <1>5, <1>6, NextLost DEF Next, NoDeletions

LEMMA Counting ==
  ASSUME LockInv, LostToFaults PROVE OpenRowsBounded
  <1> DEFINE E == {c \in Creators : stage[c] = "end"}
             T == Lost \cup {made}
  <1>1. IsFiniteSet(Lost) /\ Cardinality(Lost) \in Nat /\ Cardinality(Lost) <= faults /\ faults \in Nat
    BY RowsFinite, TimelineAssumption DEF LockInv, TypeOK, Lost, Open, LostToFaults
  <1>2. IsFiniteSet(T) /\ Cardinality(T) \in Nat /\ Cardinality(T) <= Cardinality(Lost) + 1
    BY <1>1, FS_AddElement, FS_CardinalityType
  <1>3. IsFiniteSet(Open) /\ Cardinality(Open) \in Nat
    BY RowsFinite DEF LockInv, Open
  <1>4. CASE E = {}
    <2>1. Open \subseteq T
      BY <1>4 DEF Lost, Pending
    <2>2. Cardinality(Open) <= Cardinality(T)
      BY <1>2, <2>1, FS_Subset
    <2>3. Cardinality(E) = 0
      BY <1>4, FS_EmptySet
    <2> HIDE DEF E, T
    <2>4. Cardinality(Open) <= 1 + Cardinality(E) + faults
      BY <1>1, <1>2, <1>3, <2>2, <2>3
    <2> QED
      BY <2>4 DEF E, OpenRowsBounded
  <1>5. ASSUME NEW c \in E PROVE OpenRowsBounded
    <2>1. E = {c}
      BY DEF LockInv, Serialised, Critic, Critical
    <2>2. Open \subseteq T \cup {last[c]}
      BY <2>1 DEF Lost, Pending
    <2>3. IsFiniteSet(T \cup {last[c]}) /\ Cardinality(T \cup {last[c]}) \in Nat
          /\ Cardinality(T \cup {last[c]}) <= Cardinality(T) + 1
      <3> HIDE DEF T
      <3>1. /\ IsFiniteSet(T \cup {last[c]})
            /\ Cardinality(T \cup {last[c]}) = IF last[c] \in T THEN Cardinality(T) ELSE Cardinality(T) + 1
        BY <1>2, FS_AddElement
      <3> QED
        BY <1>2, <3>1
    <2>4. Cardinality(Open) <= Cardinality(T \cup {last[c]})
      BY <2>2, <2>3, FS_Subset
    <2>5. Cardinality(E) = 1
      BY <2>1, FS_Singleton
    <2> HIDE DEF E, T
    <2>6. Cardinality(Open) <= 1 + Cardinality(E) + faults
      BY <1>1, <1>2, <1>3, <2>3, <2>4, <2>5
    <2> QED
      BY <2>6 DEF E, OpenRowsBounded
  <1> QED
    BY <1>4, <1>5

\* While nothing is deleted, every row left open for good, beside the newest
\* one and the one being ended, is due to a request that failed.
THEOREM OpenRowsAreBounded == ASSUME NoDeletions PROVE Spec => []OpenRowsBounded
  <1>1. Init => LostToFaults
    <2> SUFFICES ASSUME Init PROVE LostToFaults
      OBVIOUS
    <2>1. Lost = {}
      BY DEF Init, Lost, Open
    <2> QED
      BY <2>1, FS_EmptySet DEF Init, LostToFaults
  <1>2. LockInv /\ LostToFaults /\ [Next]_vars => LostToFaults'
    BY NextLostToFaults
  <1>3. LockInv /\ LostToFaults => OpenRowsBounded
    BY Counting
  <1> QED
    BY <1>1, <1>2, <1>3, Locked, PTL DEF Spec

-----------------------------------------------------------------------------
(* The timeline, deletions included, as long as no two requests are in     *)
(* progress at once and none fails.                                        *)

Resting(c) == stage[c] = "idle"
DResting(d) == dstage[d] = "idle"

Alone ==
    /\ \A b, c \in Creators : Resting(b) \/ Resting(c) \/ b = c
    /\ \A d, e \in Deleters : DResting(d) \/ DResting(e) \/ d = e
    /\ \A c \in Creators, d \in Deleters : Resting(c) \/ DResting(d)

\* j is the next element of P after i; n is its greatest one, or 0.
Adjacent(P, i, j) == i < j /\ \A k \in P : k <= i \/ j <= k
Greatest(P, n) == \/ n \in P /\ \A k \in P : k <= n
                  \/ n = 0 /\ P = {}

\* The rows of P end where the next one begins, the newest one is open.
Linked(P, ends) ==
    /\ \A i, j \in P : Adjacent(P, i, j) => ends[i] = j
    /\ \A i \in P : Greatest(P, i) => ends[i] = 0

Whole == Linked(present, endsAt)
NewestIs(s) == \A i \in present : Greatest(present, i) => statusOf[i] = s

\* Rows to come have no end yet.
Unmade == \A i \in Row : i > made => endsAt[i] = 0

CreatesInTurn(c) ==
    /\ stage[c] \in {"check", "lock", "read", "save", "recheck", "release"} => Whole /\ NewestIs(monitor)
    /\ stage[c] = "save" => Greatest(present, last[c])
    /\ stage[c] = "end" =>
          /\ mine[c] = made /\ made \in present /\ statusOf[made] = want[c] /\ endsAt[made] = 0
          /\ Linked(present \ {made}, endsAt) /\ Greatest(present \ {made}, last[c])
    /\ stage[c] = "monitor" => Whole /\ NewestIs(want[c])

DeletesInTurn(d) ==
    /\ dstage[d] \in {"count", "before", "after", "adjust"} => Whole /\ NewestIs(monitor) /\ drow[d] \in present
    /\ dstage[d] \in {"after", "adjust"} => before[d] \in present /\ Adjacent(present, before[d], drow[d])
    /\ dstage[d] = "adjust" =>
          \/ after[d] \in present /\ Adjacent(present, drow[d], after[d])
          \/ after[d] = 0 /\ Greatest(present, drow[d])
    /\ dstage[d] = "delete" => Linked(present \ {drow[d]}, endsAt) /\ drow[d] \in present
    /\ dstage[d] \in {"reread", "monitor"} => Whole
    /\ dstage[d] = "monitor" => NewestIs(found[d])

RowsInTurn ==
    /\ Quiet => Whole /\ NewestIs(monitor)
    /\ \A c \in Creators : CreatesInTurn(c)
    /\ \A d \in Deleters : DeletesInTurn(d)

InTurnInv ==
    /\ TypeOK /\ Unmade /\ overlapped \in BOOLEAN
    /\ ~overlapped => Alone /\ (faults = 0 => RowsInTurn)

LEMMA InitUnmade == Init => Unmade
  BY DEF Init, Unmade

LEMMA NextUnmade == TypeOK /\ Unmade /\ [Next]_vars => Unmade'
  <1> SUFFICES ASSUME TypeOK, Unmade, [Next]_vars, NEW i \in Row, i > made' PROVE endsAt'[i] = 0
    BY DEF Unmade
  <1> USE TimelineAssumption DEF Row
  <1>1. made' >= made /\ made \in Nat
    BY DEF TypeOK, Next, vars, rowVars, Begin, CreateStep, Check, Acquire, AcquireTimesOut, ReadLast, Save, EndLast,
           SetMonitor, Recheck, NestedTimesOut, Release, CreateThrows, CreateCrashes, BeginDelete, DeleteStep,
           CountRows, FindBefore, FindAfter, Adjust, DeleteRow, Reread, CopyStatus, DeleteFails, DeleteFrame
  <1>2. endsAt[i] = 0 /\ i \notin present
    <2>1. made' \in Nat
      <3>1. TypeOK'
        BY NextType
      <3> QED
        BY <3>1 DEF TypeOK
    <2>2. i > made
      BY <1>1, <2>1
    <2> QED
      BY <1>1, <2>2 DEF Unmade, TypeOK
  <1>3. ASSUME NEW c \in Creators, EndLast(c) PROVE endsAt'[i] = 0
    BY <1>2, <1>3 DEF EndLast, TypeOK
  <1>4. ASSUME NEW d \in Deleters, Adjust(d) PROVE endsAt'[i] = 0
    BY <1>2, <1>4 DEF Adjust, TypeOK
  <1>5. ASSUME NEW c \in Creators, ~EndLast(c), Begin(c) \/ CreateStep(c) \/ CreateThrows(c) \/ CreateCrashes(c)
        PROVE  UNCHANGED endsAt
    BY <1>5 DEF Begin, CreateStep, Check, Acquire, AcquireTimesOut, ReadLast, Save, SetMonitor, Recheck,
                NestedTimesOut, Release, CreateThrows, CreateCrashes, rowVars
  <1>6. ASSUME NEW d \in Deleters, ~Adjust(d), BeginDelete(d) \/ DeleteStep(d) \/ DeleteFails(d)
        PROVE  UNCHANGED endsAt
    BY <1>6 DEF BeginDelete, DeleteStep, CountRows, FindBefore, FindAfter, DeleteRow, Reread, CopyStatus,
                DeleteFails
  <1> QED
    BY <1>2, <1>3, <1>4, <1>5, <1>6 DEF Next, vars, rowVars

\* Two requests in progress at once are noticed.
LEMMA NextAlone == HistoryNext /\ ~overlapped' => Alone'
  <1> SUFFICES ASSUME HistoryNext, ~overlapped' PROVE Alone'
    OBVIOUS
  <1>1. IsFiniteSet(Busy')
    <2>1. IsFiniteSet(Creators \cup Deleters)
      BY RequestsAssumption, FS_Union
    <2>2. Busy' \subseteq Creators \cup Deleters
      BY DEF Busy
    <2> QED
      BY <2>1, <2>2, FS_Subset
  <1>2. ASSUME NEW p \in Busy', NEW q \in Busy', p # q PROVE FALSE
    <2>1. IsFiniteSet({p}) /\ Cardinality({p}) = 1
      BY FS_Singleton
    <2>2. Cardinality({p} \cup {q}) = 2
      BY <1>2, <2>1, FS_AddElement
    <2>3. Cardinality({p} \cup {q}) <= Cardinality(Busy') /\ Cardinality(Busy') \in Nat
      BY <1>1, FS_Subset, FS_CardinalityType
    <2>4. Cardinality(Busy') > 1
      BY <2>2, <2>3
    <2> QED
      BY <2>4, Zenon DEF HistoryNext
  <1>3. ASSUME NEW c \in Creators, NEW d \in Deleters PROVE c # d
    BY RequestsAssumption
  <1> QED
    BY <1>2, <1>3 DEF Alone, Resting, DResting, Busy

-----------------------------------------------------------------------------
(* Chains of rows.                                                         *)

\* A chain is prolonged by ending its greatest element where the new begins.
LEMMA LinkedAppend ==
  ASSUME NEW P \in SUBSET Nat, NEW n \in Nat, \A k \in P : k < n, NEW g \in Nat, Greatest(P, g),
         NEW e, NEW f, Linked(P, e), g \in P => f[g] = n, f[n] = 0, \A i \in P : i # g => f[i] = e[i]
  PROVE  Linked(P \cup {n}, f)
  <1>1. ASSUME NEW i \in P \cup {n}, NEW j \in P \cup {n}, Adjacent(P \cup {n}, i, j) PROVE f[i] = j
    <2>1. i \in P /\ i < j
      BY <1>1 DEF Adjacent
    <2>2. CASE j = n
      <3>1. \A k \in P : k <= i
        BY <1>1, <2>1, <2>2 DEF Adjacent
      <3>2. g \in P /\ g <= i /\ i <= g
        BY <2>1, <3>1 DEF Greatest
      <3> QED
        BY <2>1, <2>2, <3>2
    <2>3. CASE j \in P
      <3>1. Adjacent(P, i, j)
        BY <1>1 DEF Adjacent
      <3>2. i # g
        BY <2>1, <2>3 DEF Greatest
      <3> QED
        BY <2>1, <2>3, <3>1, <3>2 DEF Linked
    <2> QED
      BY <2>2, <2>3
  <1>2. ASSUME NEW i \in P \cup {n}, Greatest(P \cup {n}, i) PROVE f[i] = 0
    BY <1>2 DEF Greatest
  <1> QED
    BY <1>1, <1>2 DEF Linked

\* A chain without one of its elements: the one before is ended anew.
LEMMA LinkedRemove ==
  ASSUME NEW P \in SUBSET Nat, NEW r \in P, NEW b \in P, Adjacent(P, b, r), NEW a \in Nat,
         (a \in P /\ Adjacent(P, r, a)) \/ (a = 0 /\ Greatest(P, r)),
         NEW e, NEW f, Linked(P, e), f[b] = a, \A i \in P : i # b => f[i] = e[i]
  PROVE  Linked(P \ {r}, f)
  <1>1. ASSUME NEW i \in P \ {r}, NEW j \in P \ {r}, Adjacent(P \ {r}, i, j) PROVE f[i] = j
    <2>1. CASE i < r /\ r < j
      <3>1. i = b
        BY <1>1, <2>1 DEF Adjacent
      <3>2. a = j
        BY <1>1, <2>1 DEF Adjacent, Greatest
      <3> QED
        BY <3>1, <3>2
    <2>2. CASE ~(i < r /\ r < j)
      <3>1. Adjacent(P, i, j)
        BY <1>1, <2>2 DEF Adjacent
      <3>2. i # b
        BY <2>2, <3>1 DEF Adjacent
      <3> QED
        BY <3>1, <3>2 DEF Linked
    <2> QED
      BY <2>1, <2>2
  <1>2. ASSUME NEW i \in P \ {r}, Greatest(P \ {r}, i) PROVE f[i] = 0
    <2>1. CASE i = b
      BY <1>2, <2>1 DEF Adjacent, Greatest
    <2>2. CASE i # b
      <3>1. Greatest(P, i)
        BY <1>2, <2>2 DEF Adjacent, Greatest
      <3> QED
        BY <2>2, <3>1 DEF Linked
    <2> QED
      BY <2>1, <2>2
  <1> QED
    BY <1>1, <1>2 DEF Linked

LEMMA LinkedRemoveOldest ==
  ASSUME NEW P \in SUBSET Nat, NEW r \in P, \A k \in P : k >= r, NEW e, Linked(P, e)
  PROVE  Linked(P \ {r}, e)
  <1>1. ASSUME NEW i \in P \ {r}, NEW j \in P \ {r}, Adjacent(P \ {r}, i, j) PROVE e[i] = j
    <2>1. Adjacent(P, i, j)
      BY <1>1 DEF Adjacent
    <2> QED
      BY <2>1 DEF Linked
  <1>2. ASSUME NEW i \in P \ {r}, Greatest(P \ {r}, i) PROVE e[i] = 0
    <2>1. Greatest(P, i)
      BY <1>2 DEF Greatest
    <2> QED
      BY <2>1 DEF Linked
  <1> QED
    BY <1>1, <1>2 DEF Linked

-----------------------------------------------------------------------------
(* The steps of the one request in progress.                               *)

LEMMA CreateInTurn ==
  ASSUME TypeOK, Unmade, NEW c \in Creators, Begin(c) \/ CreateStep(c),
         CreatesInTurn(c), Resting(c) => Whole /\ NewestIs(monitor)
  PROVE  CreatesInTurn(c)' /\ (Resting(c)' => Whole' /\ NewestIs(monitor)')
  <1> USE TimelineAssumption DEF TypeOK, Row
  <1>1. CASE Begin(c) \/ Check(c) \/ Acquire(c) \/ AcquireTimesOut(c) \/ Recheck(c) \/ Release(c)
    <2>1. Whole /\ NewestIs(monitor)
      BY <1>1 DEF Begin, Check, Acquire, AcquireTimesOut, Recheck, Release, CreatesInTurn, Resting
    <2>2. UNCHANGED <<rowVars, monitor>>
      BY <1>1 DEF Begin, Check, Acquire, AcquireTimesOut, Recheck, Release
    <2>3. stage'[c] \in {"idle", "check", "lock", "read", "nested", "release"}
      BY <1>1 DEF Begin, Check, Acquire, AcquireTimesOut, Recheck, Release, Ends, GoTo
    <2>4. Whole' /\ NewestIs(monitor)'
      BY <2>1, <2>2 DEF rowVars, Whole, NewestIs
    <2> QED
      BY <2>3, <2>4 DEF CreatesInTurn
  <1>2. CASE ReadLast(c)
    <2>1. Whole /\ NewestIs(monitor) /\ UNCHANGED <<rowVars, monitor>> /\ stage'[c] = "save"
      BY <1>2 DEF ReadLast, CreatesInTurn
    <2>2. Greatest(present, last'[c])
      BY <1>2 DEF ReadLast, IsLast, Greatest
    <2>3. Whole' /\ NewestIs(monitor)'
      BY <2>1 DEF rowVars, Whole, NewestIs
    <2>4. Greatest(present, last[c])'
      BY <2>1, <2>2 DEF rowVars
    <2> QED
      BY <2>1, <2>3, <2>4 DEF CreatesInTurn, Resting
  <1>3. CASE Save(c)
    <2>1. Whole /\ Greatest(present, last[c])
      BY <1>3 DEF Save, CreatesInTurn
    <2>2. /\ made' = made + 1 /\ present' = present \cup {made + 1} /\ mine'[c] = made' /\ stage'[c] = "end"
          /\ UNCHANGED <<endsAt, last, want>> /\ statusOf'[made'] = want[c] /\ endsAt'[made'] = 0
      BY <1>3 DEF Save, Unmade
    <2>3. present' \ {made'} = present
      BY <2>2
    <2>4. (Linked(present \ {made}, endsAt) /\ Greatest(present \ {made}, last[c]))'
      BY <2>1, <2>2, <2>3 DEF Whole
    <2> QED
      BY <2>2, <2>4 DEF CreatesInTurn, Resting
  <1>4. CASE EndLast(c)
    <2> DEFINE P == present \ {made}
    <2>1. /\ mine[c] = made /\ made \in present /\ statusOf[made] = want[c] /\ endsAt[made] = 0
          /\ Linked(P, endsAt) /\ Greatest(P, last[c])
      BY <1>4 DEF EndLast, CreatesInTurn
    <2>2. UNCHANGED <<present, made, statusOf, want>> /\ stage'[c] = "monitor"
      BY <1>4 DEF EndLast, GoTo
    <2>3. P \in SUBSET Nat /\ made \in Nat /\ last[c] \in Nat /\ \A k \in P : k < made
      OBVIOUS
    <2>4. /\ last[c] \in P => endsAt'[last[c]] = made
          /\ \A i \in P : i # last[c] => endsAt'[i] = endsAt[i]
          /\ endsAt'[made] = 0
      BY <1>4, <2>1 DEF EndLast, Greatest
    <2>5. P \cup {made} = present
      BY <2>1
    <2>6. Linked(P \cup {made}, endsAt')
      <3> HIDE DEF P, TypeOK
      <3>1. PICK ends : ends = endsAt'
        OBVIOUS
      <3>2. Linked(P \cup {made}, ends)
        BY <2>1, <2>3, <2>4, <3>1, LinkedAppend
      <3> QED
        BY <3>1, <3>2
    <2>7. Whole'
      BY <2>2, <2>5, <2>6 DEF Whole
    <2>8. NewestIs(want[c])'
      BY <2>1, <2>2 DEF NewestIs, Greatest
    <2> QED
      BY <2>2, <2>7, <2>8 DEF CreatesInTurn, Resting
  <1>5. CASE SetMonitor(c)
    <2>1. Whole /\ NewestIs(want[c]) /\ UNCHANGED rowVars /\ monitor' = want[c]
      BY <1>5 DEF SetMonitor, CreatesInTurn
    <2>2. stage'[c] \in {"recheck", "release"}
      BY <1>5 DEF SetMonitor, GoTo
    <2>3. Whole' /\ NewestIs(monitor)'
      BY <2>1 DEF rowVars, Whole, NewestIs
    <2> QED
      BY <2>2, <2>3 DEF CreatesInTurn
  <1>6. CASE NestedTimesOut(c)
    BY <1>6 DEF NestedTimesOut, Ends, CreatesInTurn, Resting
  <1> QED
    BY <1>1, <1>2, <1>3, <1>4, <1>5, <1>6 DEF CreateStep

LEMMA DeleteInTurn ==
  ASSUME TypeOK, NEW d \in Deleters, BeginDelete(d) \/ DeleteStep(d),
         DeletesInTurn(d), DResting(d) => Whole /\ NewestIs(monitor)
  PROVE  DeletesInTurn(d)' /\ (DResting(d)' => Whole' /\ NewestIs(monitor)')
  <1> USE TimelineAssumption DEF TypeOK, Row
  <1>1. CASE BeginDelete(d) \/ CountRows(d)
    <2>1. Whole /\ NewestIs(monitor) /\ UNCHANGED <<present, endsAt, statusOf, monitor>>
      BY <1>1 DEF BeginDelete, CountRows, DeletesInTurn, DResting, DeleteFrame
    <2>2. \/ dstage'[d] = "idle"
          \/ dstage'[d] \in {"count", "before"} /\ drow'[d] \in present
      BY <1>1 DEF BeginDelete, CountRows, DeletesInTurn, DeleteEnds
    <2>3. Whole' /\ NewestIs(monitor)'
      BY <2>1 DEF Whole, NewestIs
    <2> QED
      BY <2>1, <2>2, <2>3 DEF DeletesInTurn
  <1>2. CASE FindBefore(d)
    <2>1. /\ Whole /\ NewestIs(monitor) /\ drow[d] \in present
          /\ UNCHANGED <<present, endsAt, statusOf, monitor, drow>>
      BY <1>2 DEF FindBefore, DeletesInTurn, DeleteFrame
    <2>2. Whole' /\ NewestIs(monitor)'
      BY <2>1 DEF Whole, NewestIs
    <2>3. ASSUME NEW i \in Older(d), \A j \in Older(d) : j <= i, before' = [before EXCEPT ![d] = i],
                 dstage' = [dstage EXCEPT ![d] = "after"]
          PROVE  DeletesInTurn(d)' /\ ~DResting(d)'
      <3>1. i \in present /\ Adjacent(present, i, drow[d])
        BY <2>1, <2>3 DEF Older, Adjacent
      <3>2. (before[d] \in present /\ Adjacent(present, before[d], drow[d]))'
        BY <2>1, <2>3, <3>1
      <3> QED
        BY <2>1, <2>2, <2>3, <3>2 DEF DeletesInTurn, DResting
    <2>4. ASSUME Older(d) = {}, dstage' = [dstage EXCEPT ![d] = "delete"]
          PROVE  DeletesInTurn(d)' /\ ~DResting(d)'
      <3>1. \A k \in present : k >= drow[d]
        BY <2>1, <2>4 DEF Older
      <3>2. Linked(present \ {drow[d]}, endsAt)
        <4>1. present \in SUBSET Nat /\ drow[d] \in present
          BY <2>1
        <4> QED
          BY <2>1, <3>1, <4>1, LinkedRemoveOldest DEF Whole
      <3>3. (Linked(present \ {drow[d]}, endsAt) /\ drow[d] \in present)'
        BY <2>1, <3>2
      <3> QED
        BY <2>4, <3>3 DEF DeletesInTurn, DResting
    <2> QED
      BY <1>2, <2>3, <2>4 DEF FindBefore
  <1>3. CASE FindAfter(d)
    <2>1. /\ Whole /\ NewestIs(monitor) /\ drow[d] \in present /\ before[d] \in present
          /\ Adjacent(present, before[d], drow[d])
          /\ UNCHANGED <<present, endsAt, statusOf, monitor, drow, before>>
          /\ dstage'[d] = "adjust"
      BY <1>3 DEF FindAfter, DeletesInTurn, DeleteFrame
    <2>2. Whole' /\ NewestIs(monitor)'
      BY <2>1 DEF Whole, NewestIs
    <2>3. \/ after'[d] \in present /\ Adjacent(present, drow[d], after'[d])
          \/ after'[d] = 0 /\ Greatest(present, drow[d])
      <3>1. CASE Newer(d) = {}
        BY <1>3, <2>1, <3>1 DEF FindAfter, Newer, Greatest
      <3>2. CASE Newer(d) # {}
        <4>1. PICK i \in Newer(d) : (\A j \in Newer(d) : i <= j) /\ after' = [after EXCEPT ![d] = i]
          BY <1>3, <3>2 DEF FindAfter
        <4> QED
          BY <2>1, <4>1 DEF Newer, Adjacent
      <3> QED
        BY <3>1, <3>2
    <2>4. (before[d] \in present /\ Adjacent(present, before[d], drow[d]))'
      BY <2>1
    <2>5. (\/ after[d] \in present /\ Adjacent(present, drow[d], after[d])
           \/ after[d] = 0 /\ Greatest(present, drow[d]))'
      BY <2>1, <2>3
    <2> QED
      BY <2>1, <2>2, <2>4, <2>5 DEF DeletesInTurn, DResting
  <1>4. CASE Adjust(d)
    <2>1. /\ Whole /\ drow[d] \in present /\ before[d] \in present
          /\ Adjacent(present, before[d], drow[d])
          /\ \/ after[d] \in present /\ Adjacent(present, drow[d], after[d])
             \/ after[d] = 0 /\ Greatest(present, drow[d])
          /\ UNCHANGED <<present, drow>> /\ dstage'[d] = "delete"
      BY <1>4 DEF Adjust, DeletesInTurn, DeleteFrame
    <2>2. endsAt'[before[d]] = after[d] /\ \A i \in present : i # before[d] => endsAt'[i] = endsAt[i]
      BY <1>4, <2>1 DEF Adjust
    <2>3. present \in SUBSET Nat /\ after[d] \in Nat
      OBVIOUS
    <2>4. Linked(present, endsAt)
      BY <2>1 DEF Whole
    <2>5. Linked(present \ {drow[d]}, endsAt')
      <3> HIDE DEF TypeOK
      <3>1. PICK ends : ends = endsAt'
        OBVIOUS
      <3>2. PICK r, b, a : r = drow[d] /\ b = before[d] /\ a = after[d]
        OBVIOUS
      <3>3. /\ r \in present /\ b \in present /\ a \in Nat /\ Adjacent(present, b, r)
            /\ (a \in present /\ Adjacent(present, r, a)) \/ (a = 0 /\ Greatest(present, r))
            /\ ends[b] = a /\ \A i \in present : i # b => ends[i] = endsAt[i]
        BY <2>1, <2>2, <2>3, <3>1, <3>2
      <3>4. Linked(present \ {r}, ends)
        BY <2>3, <2>4, <3>3, LinkedRemove
      <3> QED
        BY <3>1, <3>2, <3>4
    <2>6. (Linked(present \ {drow[d]}, endsAt) /\ drow[d] \in present)'
      BY <2>1, <2>5
    <2> QED
      BY <2>1, <2>6 DEF DeletesInTurn, DResting
  <1>5. CASE DeleteRow(d)
    <2>1. Linked(present \ {drow[d]}, endsAt) /\ dstage'[d] = "reread"
          /\ present' = present \ {drow[d]} /\ endsAt' = endsAt
      BY <1>5 DEF DeleteRow, DeletesInTurn
    <2>2. Whole'
      BY <2>1 DEF Whole
    <2> QED
      BY <2>1, <2>2 DEF DeletesInTurn, DResting
  <1>6. CASE Reread(d)
    <2>1. Whole /\ UNCHANGED <<present, endsAt, statusOf>>
      BY <1>6 DEF Reread, DeletesInTurn, DeleteFrame
    <2>2. Whole'
      BY <2>1 DEF Whole
    <2>3. CASE present = {} /\ DeleteEnds(d)
      <3>1. dstage'[d] = "idle" /\ NewestIs(monitor)'
        BY <2>1, <2>3 DEF DeleteEnds, NewestIs
      <3> QED
        BY <2>2, <3>1 DEF DeletesInTurn
    <2>4. ASSUME NEW i \in present, IsLast(i), found' = [found EXCEPT ![d] = statusOf[i]],
                 dstage' = [dstage EXCEPT ![d] = "monitor"]
          PROVE  DeletesInTurn(d)' /\ ~DResting(d)'
      <3>1. \A j \in present : Greatest(present, j) => j = i
        BY <2>4 DEF IsLast, Greatest
      <3>2. NewestIs(found[d])'
        BY <2>1, <2>4, <3>1 DEF NewestIs
      <3> QED
        BY <2>2, <2>4, <3>2 DEF DeletesInTurn, DResting
    <2> QED
      BY <1>6, <2>3, <2>4 DEF Reread
  <1>7. CASE CopyStatus(d)
    <2>1. Whole /\ NewestIs(found[d]) /\ UNCHANGED <<present, endsAt, statusOf>> /\ monitor' = found[d]
          /\ dstage'[d] = "idle"
      BY <1>7 DEF CopyStatus, DeletesInTurn, DeleteFrame, DeleteEnds
    <2>2. Whole' /\ NewestIs(monitor)'
      BY <2>1 DEF Whole, NewestIs
    <2> QED
      BY <2>1, <2>2 DEF DeletesInTurn
  <1> QED
    BY <1>1, <1>2, <1>3, <1>4, <1>5, <1>6, <1>7 DEF DeleteStep

-----------------------------------------------------------------------------
LEMMA NextInTurn ==
  ASSUME TypeOK, Unmade, Alone, Alone', RowsInTurn, Next, faults' = 0
  PROVE  faults = 0 => RowsInTurn'
  <1> SUFFICES ASSUME faults = 0 PROVE RowsInTurn'
    OBVIOUS
  <1>f. ~Fault("throw") /\ ~Fault("crash")
    BY DEF Fault
  <1>1. ASSUME NEW c \in Creators, Begin(c) \/ CreateStep(c) PROVE RowsInTurn'
    <2>1. /\ \A b \in Creators : b # c => stage'[b] = stage[b]
          /\ dstage' = dstage
          /\ ~Resting(c) \/ ~Resting(c)'
      BY <1>1 DEF TypeOK, Resting, Begin, CreateStep, Check, Acquire, AcquireTimesOut, ReadLast, Save, EndLast,
         SetMonitor, Recheck, NestedTimesOut, Release, Ends, GoTo, deleteVars
    <2>2. /\ \A b \in Creators : b # c => Resting(b) /\ Resting(b)'
          /\ \A d \in Deleters : DResting(d) /\ DResting(d)'
      BY <2>1 DEF Alone, Resting, DResting
    <2>3. Resting(c) => Whole /\ NewestIs(monitor)
      BY <2>2 DEF RowsInTurn, Quiet, Resting, DResting
    <2>4. CreatesInTurn(c)' /\ (Resting(c)' => Whole' /\ NewestIs(monitor)')
      BY <1>1, <2>3, CreateInTurn DEF RowsInTurn
    <2>5. \A b \in Creators : b # c => CreatesInTurn(b)'
      BY <2>2 DEF Resting, CreatesInTurn
    <2>6. \A d \in Deleters : DeletesInTurn(d)'
      BY <2>2 DEF DResting, DeletesInTurn
    <2>7. Quiet' => Whole' /\ NewestIs(monitor)'
      BY <2>4 DEF Quiet, Resting
    <2> QED
      BY <2>4, <2>5, <2>6, <2>7 DEF RowsInTurn
  <1>2. ASSUME NEW d \in Deleters, BeginDelete(d) \/ DeleteStep(d) PROVE RowsInTurn'
    <2>1. /\ \A e \in Deleters : e # d => dstage'[e] = dstage[e]
          /\ stage' = stage
          /\ ~DResting(d) \/ ~DResting(d)'
      BY <1>2 DEF TypeOK, DResting, BeginDelete, DeleteStep, CountRows, FindBefore, FindAfter, Adjust, DeleteRow,
         Reread, CopyStatus, DeleteEnds, DeleteFrame, createVars
    <2>2. /\ \A e \in Deleters : e # d => DResting(e) /\ DResting(e)'
          /\ \A c \in Creators : Resting(c) /\ Resting(c)'
      BY <2>1 DEF Alone, Resting, DResting
    <2>3. DResting(d) => Whole /\ NewestIs(monitor)
      BY <2>2 DEF RowsInTurn, Quiet, Resting, DResting
    <2>4. DeletesInTurn(d)' /\ (DResting(d)' => Whole' /\ NewestIs(monitor)')
      BY <1>2, <2>3, DeleteInTurn DEF RowsInTurn
    <2>5. \A e \in Deleters : e # d => DeletesInTurn(e)'
      BY <2>2 DEF DResting, DeletesInTurn
    <2>6. \A c \in Creators : CreatesInTurn(c)'
      BY <2>2 DEF Resting, CreatesInTurn
    <2>7. Quiet' => Whole' /\ NewestIs(monitor)'
      BY <2>4 DEF Quiet, DResting
    <2> QED
      BY <2>4, <2>5, <2>6, <2>7 DEF RowsInTurn
  <1>3. ASSUME NEW c \in Creators PROVE ~CreateThrows(c) /\ ~CreateCrashes(c)
    BY <1>f DEF CreateThrows, CreateCrashes
  <1>4. ASSUME NEW d \in Deleters PROVE ~DeleteFails(d)
    BY <1>f DEF DeleteFails
  <1> QED
    BY <1>1, <1>2, <1>3, <1>4 DEF Next

LEMMA InTurnStep == InTurnInv /\ [HistoryNext]_<<vars, overlapped>> => InTurnInv'
  <1> SUFFICES ASSUME InTurnInv, [HistoryNext]_<<vars, overlapped>> PROVE InTurnInv'
    OBVIOUS
  <1>1. TypeOK' /\ Unmade' /\ [Next]_vars
    <2>1. [Next]_vars
      BY DEF HistoryNext
    <2> QED
      BY <2>1, NextType, NextUnmade DEF InTurnInv
  <1>2. CASE UNCHANGED <<vars, overlapped>>
    BY <1>1, <1>2 DEF vars, rowVars, createVars, deleteVars, InTurnInv, Alone, Resting, DResting, RowsInTurn, Quiet,
                      Whole, NewestIs, CreatesInTurn, DeletesInTurn
  <1>3. CASE HistoryNext
    <2>1. overlapped' \in BOOLEAN /\ (~overlapped' => ~overlapped)
      BY <1>3 DEF HistoryNext, InTurnInv
    <2>2. ~overlapped' => Alone'
      BY <1>3, NextAlone
    <2>3. faults' = 0 => faults = 0
      <3>1. faults' = faults \/ faults' = faults + 1
        BY <1>1 DEF Next, vars, Begin, CreateStep, Check, Acquire, AcquireTimesOut, ReadLast, Save, EndLast,
           SetMonitor, Recheck, NestedTimesOut, Release, CreateThrows, CreateCrashes, Fault, BeginDelete,
           DeleteStep, CountRows, FindBefore, FindAfter, Adjust, DeleteRow, Reread, CopyStatus, DeleteFails
      <3> QED
        BY <3>1, TimelineAssumption DEF InTurnInv, TypeOK
    <2>4. ASSUME ~overlapped', faults' = 0 PROVE RowsInTurn'
      BY <1>3, <2>1, <2>2, <2>3, <2>4, NextInTurn DEF InTurnInv, HistoryNext
    <2> QED
      BY <1>1, <2>1, <2>2, <2>4 DEF InTurnInv
  <1> QED
    BY <1>2, <1>3

\* As long as no two requests are in progress at once and none fails, each row
\* ends where the next one begins and the monitor has the newest row's status,
\* whenever nothing is in progress and whichever rows were deleted.
THEOREM RowsWholeInTurn == HistorySpec => []TimelineWholeInTurn
  <1>1. HistoryInit => InTurnInv
    <2> SUFFICES ASSUME HistoryInit PROVE InTurnInv
      OBVIOUS
    <2>1. TypeOK /\ Unmade /\ ~overlapped /\ overlapped \in BOOLEAN
      BY InitType, InitUnmade DEF HistoryInit
    <2>2. Alone /\ (\A c \in Creators : CreatesInTurn(c)) /\ (\A d \in Deleters : DeletesInTurn(d))
      BY DEF HistoryInit, Init, Alone, Resting, DResting, CreatesInTurn, DeletesInTurn
    <2>3. Whole /\ NewestIs(monitor)
      BY TimelineAssumption DEF HistoryInit, Init, Whole, Linked, NewestIs, Adjacent, Row
    <2> QED
      BY <2>1, <2>2, <2>3 DEF InTurnInv, RowsInTurn
  <1>2. InTurnInv => TimelineWholeInTurn
    BY DEF InTurnInv, RowsInTurn, Whole, Linked, NewestIs, Adjacent, Greatest, IsLast, TimelineWholeInTurn,
           TimelineWhole
  <1> QED
    BY <1>1, <1>2, InTurnStep, PTL DEF HistorySpec
=============================================================================
