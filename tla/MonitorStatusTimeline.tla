----------------------- MODULE MonitorStatusTimeline -----------------------
(***************************************************************************)
(* The status timeline of one monitor.  Every status change creates a row, *)
(* ends the row before it and copies the status to the monitor, each in a  *)
(* query of its own.  Creations are serialised by a Redis mutex keyed by   *)
(* the monitor; deletions of rows are not.                                 *)
(*                                                                         *)
(* Rows are numbered in the order of their createdAt.  startsAt is set     *)
(* while the lock is held, so it orders the rows in the same way.          *)
(***************************************************************************)
EXTENDS Naturals, FiniteSets

CONSTANTS Creators,   \* requests that may change the status concurrently
          Deleters,   \* requests that may delete a row concurrently
          Statuses,   \* the project's monitor statuses
          NoOne,      \* the mutex is free
          MaxRows,    \* bound: rows ever created
          FaultKinds, \* which faults may happen: "throw", "crash"
          MaxFaults   \* bound: their number

ASSUME TimelineAssumption ==
    /\ NoOne \notin Creators
    /\ MaxRows \in Nat \ {0}
    /\ FaultKinds \subseteq {"throw", "crash"}
    /\ MaxFaults \in Nat

ASSUME RequestsAssumption ==
    IsFiniteSet(Creators) /\ IsFiniteSet(Deleters) /\ Creators \cap Deleters = {}

Row == 1..MaxRows

\* Stages of a creation.  "leaked": the request failed without releasing the
\* mutex, which its process goes on renewing.
Critical == {"read", "save", "end", "monitor", "recheck", "nested", "release", "leaked"}
CreatorStage == {"idle", "check", "lock"} \cup Critical

DeleterStage == {"idle", "count", "before", "after", "adjust", "delete", "reread", "monitor"}

VARIABLES
    made,     \* rows created so far
    present,  \* rows not deleted
    statusOf, \* monitorStatusId of each row
    endsAt,   \* the row at whose beginning a row ends, 0 while null
    monitor,  \* the monitor's currentMonitorStatusId
    lock,     \* holder of the mutex
    stage, want, last, mine,            \* of each creation
    dstage, drow, before, after, found, \* of each deletion
    faults

rowVars == <<made, present, statusOf, endsAt>>
createVars == <<stage, want, last, mine>>
deleteVars == <<dstage, drow, before, after, found>>
vars == <<rowVars, monitor, lock, createVars, deleteVars, faults>>

TypeOK ==
    /\ made \in Row
    /\ present \in SUBSET (1..made)
    /\ statusOf \in [Row -> Statuses]
    /\ endsAt \in [Row -> 0..MaxRows]
    /\ monitor \in Statuses
    /\ lock \in Creators \cup {NoOne}
    /\ stage \in [Creators -> CreatorStage]
    /\ want \in [Creators -> Statuses]
    /\ last \in [Creators -> 0..MaxRows]
    /\ mine \in [Creators -> 0..MaxRows]
    /\ dstage \in [Deleters -> DeleterStage]
    /\ drow \in [Deleters -> 0..MaxRows]
    /\ before \in [Deleters -> 0..MaxRows]
    /\ after \in [Deleters -> 0..MaxRows]
    /\ found \in [Deleters -> Statuses]
    /\ faults \in 0..MaxFaults

\* The monitor has just been created with its first row.
Init ==
    /\ made = 1
    /\ present = {1}
    /\ \E s \in Statuses :
          /\ statusOf = [i \in Row |-> s]
          /\ monitor = s
          /\ want = [c \in Creators |-> s]
          /\ found = [d \in Deleters |-> s]
    /\ endsAt = [i \in Row |-> 0]
    /\ lock = NoOne
    /\ stage = [c \in Creators |-> "idle"]
    /\ last = [c \in Creators |-> 0]
    /\ mine = [c \in Creators |-> 0]
    /\ dstage = [d \in Deleters |-> "idle"]
    /\ drow = [d \in Deleters |-> 0]
    /\ before = [d \in Deleters |-> 0]
    /\ after = [d \in Deleters |-> 0]
    /\ faults = 0

-----------------------------------------------------------------------------
\* i is the newest row, or 0 when there is none.
IsLast(i) ==
    \/ i \in present /\ \A j \in present : j <= i
    \/ i = 0 /\ present = {}

LastHas(s) == \E i \in present : IsLast(i) /\ statusOf[i] = s

Fault(kind) == kind \in FaultKinds /\ faults < MaxFaults /\ faults' = faults + 1

\* At the end of its work a request forgets what it has read.
Ends(c, at) ==
    /\ stage' = [stage EXCEPT ![c] = at]
    /\ last' = [last EXCEPT ![c] = 0]
    /\ mine' = [mine EXCEPT ![c] = 0]
    /\ UNCHANGED want

GoTo(c, at) == stage' = [stage EXCEPT ![c] = at] /\ UNCHANGED <<want, last, mine>>

-----------------------------------------------------------------------------
(* Creation of a row.                                                      *)

\* changeMonitorStatus compares with the last row first; the dashboard and
\* the probe's response create the row directly.
Begin(c) ==
    /\ stage[c] = "idle"
    /\ \E s \in Statuses, at \in {"check", "lock"} :
          /\ want' = [want EXCEPT ![c] = s]
          /\ stage' = [stage EXCEPT ![c] = at]
    /\ UNCHANGED <<rowVars, monitor, lock, last, mine, deleteVars, faults>>

Check(c) ==
    /\ stage[c] = "check"
    /\ \/ LastHas(want[c]) /\ Ends(c, "idle")
       \/ ~LastHas(want[c]) /\ GoTo(c, "lock")
    /\ UNCHANGED <<rowVars, monitor, lock, deleteVars, faults>>

\* Mutant: the mutex is not taken.
LockUnguarded == made < MaxRows

LockFree == lock = NoOne /\ made < MaxRows

Acquire(c) ==
    /\ stage[c] = "lock"
    /\ LockFree
    /\ lock' = c
    /\ GoTo(c, "read")
    /\ UNCHANGED <<rowVars, monitor, deleteVars, faults>>

\* The mutex is not obtained within ten seconds: the request fails.
AcquireTimesOut(c) ==
    /\ stage[c] = "lock"
    /\ ~LockFree
    /\ Ends(c, "idle")
    /\ UNCHANGED <<rowVars, monitor, lock, deleteVars, faults>>

ReadLast(c) ==
    /\ stage[c] = "read"
    /\ \E i \in 0..MaxRows :
          IsLast(i) /\ last' = [last EXCEPT ![c] = i]
    /\ stage' = [stage EXCEPT ![c] = "save"]
    /\ UNCHANGED <<rowVars, monitor, lock, want, mine, deleteVars, faults>>

Save(c) ==
    /\ stage[c] = "save"
    /\ made < MaxRows
    /\ made' = made + 1
    /\ present' = present \cup {made + 1}
    /\ statusOf' = [statusOf EXCEPT ![made + 1] = want[c]]
    /\ mine' = [mine EXCEPT ![c] = made + 1]
    /\ stage' = [stage EXCEPT ![c] = "end"]
    /\ UNCHANGED <<endsAt, monitor, lock, want, last, deleteVars, faults>>

\* Mutant: the row before is not ended.
EndLastSkipped(c) ==
    /\ stage[c] = "end"
    /\ GoTo(c, "monitor")
    /\ UNCHANGED <<rowVars, monitor, lock, deleteVars, faults>>

\* The row read under the lock ends where the new one begins; nothing happens
\* when it has been deleted since.
EndLast(c) ==
    /\ stage[c] = "end"
    /\ endsAt' = IF last[c] \in present
                 THEN [endsAt EXCEPT ![last[c]] = mine[c]] ELSE endsAt
    /\ GoTo(c, "monitor")
    /\ UNCHANGED <<made, present, statusOf, monitor, lock, deleteVars, faults>>

\* The monitor is updated with the caller's properties: when they name a
\* tenant, the monitor's own hook runs changeMonitorStatus once more.
SetMonitor(c) ==
    /\ stage[c] = "monitor"
    /\ monitor' = want[c]
    /\ \E at \in {"recheck", "release"} : GoTo(c, at)
    /\ UNCHANGED <<rowVars, lock, deleteVars, faults>>

\* That nested change finds the new row, or creates another one and asks for
\* the mutex its own request holds.
Recheck(c) ==
    /\ stage[c] = "recheck"
    /\ \/ LastHas(want[c]) /\ GoTo(c, "release")
       \/ ~LastHas(want[c]) /\ GoTo(c, "nested")
    /\ UNCHANGED <<rowVars, monitor, lock, deleteVars, faults>>

NestedTimesOut(c) ==
    /\ stage[c] = "nested"
    /\ Ends(c, "leaked")
    /\ UNCHANGED <<rowVars, monitor, lock, deleteVars, faults>>

\* Mutant: the mutex is not released.
ReleaseForgotten(c) ==
    /\ stage[c] = "release"
    /\ Ends(c, "idle")
    /\ UNCHANGED <<rowVars, monitor, lock, deleteVars, faults>>

Release(c) ==
    /\ stage[c] = "release"
    /\ lock' = NoOne
    /\ Ends(c, "idle")
    /\ UNCHANGED <<rowVars, monitor, deleteVars, faults>>

CreateStep(c) ==
    \/ Check(c) \/ Acquire(c) \/ AcquireTimesOut(c) \/ ReadLast(c) \/ Save(c) \/ EndLast(c)
    \/ SetMonitor(c) \/ Recheck(c) \/ NestedTimesOut(c) \/ Release(c)

\* A query or a permission check throws: no hook releases the mutex.
CreateThrows(c) ==
    /\ stage[c] \in Critical \ {"leaked"}
    /\ Fault("throw")
    /\ Ends(c, "leaked")
    /\ UNCHANGED <<rowVars, monitor, lock, deleteVars>>

\* The process dies; a second later its mutex expires.
CreateCrashes(c) ==
    /\ stage[c] # "idle"
    /\ Fault("crash")
    /\ Ends(c, "idle")
    /\ lock' = IF lock = c THEN NoOne ELSE lock
    /\ UNCHANGED <<rowVars, monitor, deleteVars>>

-----------------------------------------------------------------------------
(* Deletion of a row.                                                      *)

DeleteFrame == UNCHANGED <<made, statusOf, lock, createVars>>

DeleteEnds(d) ==
    /\ dstage' = [dstage EXCEPT ![d] = "idle"]
    /\ drow' = [drow EXCEPT ![d] = 0]
    /\ before' = [before EXCEPT ![d] = 0]
    /\ after' = [after EXCEPT ![d] = 0]

BeginDelete(d) ==
    /\ dstage[d] = "idle"
    /\ \E i \in present : drow' = [drow EXCEPT ![d] = i]
    /\ dstage' = [dstage EXCEPT ![d] = "count"]
    /\ UNCHANGED <<present, endsAt, monitor, before, after, found, faults>> /\ DeleteFrame

\* "Cannot delete the only status timeline."
CountRows(d) ==
    /\ dstage[d] = "count"
    /\ \/ Cardinality(present) = 1 /\ DeleteEnds(d)
       \/ /\ Cardinality(present) # 1
          /\ dstage' = [dstage EXCEPT ![d] = "before"]
          /\ UNCHANGED <<drow, before, after>>
    /\ UNCHANGED <<present, endsAt, monitor, found, faults>> /\ DeleteFrame

Older(d) == {i \in present : i < drow[d]}
Newer(d) == {i \in present : i > drow[d]}

FindBefore(d) ==
    /\ dstage[d] = "before"
    /\ \/ \E i \in Older(d) :
             /\ \A j \in Older(d) : j <= i
             /\ before' = [before EXCEPT ![d] = i]
             /\ dstage' = [dstage EXCEPT ![d] = "after"]
       \/ /\ Older(d) = {}
          /\ dstage' = [dstage EXCEPT ![d] = "delete"]
          /\ UNCHANGED before
    /\ UNCHANGED <<present, endsAt, monitor, drow, after, found, faults>> /\ DeleteFrame

\* Mutants: the oldest row of all, and the newest one, instead of the next.
FindAfterOldest(d) ==
    /\ dstage[d] = "after"
    /\ \E i \in present :
          /\ \A j \in present : i <= j
          /\ after' = [after EXCEPT ![d] = i]
    /\ dstage' = [dstage EXCEPT ![d] = "adjust"]
    /\ UNCHANGED <<present, endsAt, monitor, drow, before, found, faults>> /\ DeleteFrame

FindAfterNewest(d) ==
    /\ dstage[d] = "after"
    /\ \/ \E i \in Newer(d) :
             /\ \A j \in Newer(d) : j <= i
             /\ after' = [after EXCEPT ![d] = i]
       \/ Newer(d) = {} /\ after' = [after EXCEPT ![d] = 0]
    /\ dstage' = [dstage EXCEPT ![d] = "adjust"]
    /\ UNCHANGED <<present, endsAt, monitor, drow, before, found, faults>> /\ DeleteFrame

FindAfter(d) ==
    /\ dstage[d] = "after"
    /\ \/ \E i \in Newer(d) :
             /\ \A j \in Newer(d) : i <= j
             /\ after' = [after EXCEPT ![d] = i]
       \/ Newer(d) = {} /\ after' = [after EXCEPT ![d] = 0]
    /\ dstage' = [dstage EXCEPT ![d] = "adjust"]
    /\ UNCHANGED <<present, endsAt, monitor, drow, before, found, faults>> /\ DeleteFrame

\* The row before ends where the row after begins, or not at all.
Adjust(d) ==
    /\ dstage[d] = "adjust"
    /\ endsAt' = IF before[d] \in present
                 THEN [endsAt EXCEPT ![before[d]] = after[d]] ELSE endsAt
    /\ dstage' = [dstage EXCEPT ![d] = "delete"]
    /\ UNCHANGED <<present, monitor, drow, before, after, found, faults>> /\ DeleteFrame

DeleteRow(d) ==
    /\ dstage[d] = "delete"
    /\ present' = present \ {drow[d]}
    /\ dstage' = [dstage EXCEPT ![d] = "reread"]
    /\ UNCHANGED <<endsAt, monitor, drow, before, after, found, faults>> /\ DeleteFrame

\* The monitor gets the status of the newest row that is left.
Reread(d) ==
    /\ dstage[d] = "reread"
    /\ \/ \E i \in present :
             /\ IsLast(i)
             /\ found' = [found EXCEPT ![d] = statusOf[i]]
             /\ dstage' = [dstage EXCEPT ![d] = "monitor"]
             /\ UNCHANGED <<drow, before, after>>
       \/ present = {} /\ DeleteEnds(d) /\ UNCHANGED found
    /\ UNCHANGED <<present, endsAt, monitor, faults>> /\ DeleteFrame

CopyStatus(d) ==
    /\ dstage[d] = "monitor"
    /\ monitor' = found[d]
    /\ DeleteEnds(d)
    /\ UNCHANGED <<present, endsAt, found, faults>> /\ DeleteFrame

DeleteStep(d) ==
    \/ CountRows(d) \/ FindBefore(d) \/ FindAfter(d) \/ Adjust(d)
    \/ DeleteRow(d) \/ Reread(d) \/ CopyStatus(d)

DeleteFails(d) ==
    /\ dstage[d] # "idle"
    /\ Fault("throw") \/ Fault("crash")
    /\ DeleteEnds(d)
    /\ UNCHANGED <<present, endsAt, monitor, found>> /\ DeleteFrame

-----------------------------------------------------------------------------
Next ==
    \/ \E c \in Creators : Begin(c) \/ CreateStep(c) \/ CreateThrows(c) \/ CreateCrashes(c)
    \/ \E d \in Deleters : BeginDelete(d) \/ DeleteStep(d) \/ DeleteFails(d)

Spec == Init /\ [][Next]_vars

\* Requests that have begun go on; their number is not bound to anything.
Fairness == \A c \in Creators : WF_vars(CreateStep(c))

FairSpec == Spec /\ Fairness

Quiet == (\A c \in Creators : stage[c] = "idle") /\ (\A d \in Deleters : dstage[d] = "idle")

-----------------------------------------------------------------------------
(* Properties.                                                             *)

Open == {i \in present : endsAt[i] = 0}

\* The mutex is not reentrant: a change must not start another one for the
\* same monitor from inside its own hooks.  It never does, as long as nobody
\* deletes a row meanwhile, because the nested change finds the row just saved.
NeverWaitsForItself == \A c \in Creators : stage[c] # "nested"

\* A fault between saving a row and ending the one before leaves a row open
\* for ever, and only such a fault does: besides the newest row and the one
\* about to be ended there are no more open rows than there were faults.
OpenRowsBounded ==
    Cardinality(Open) <= 1 + Cardinality({c \in Creators : stage[c] = "end"}) + faults

\* The mutex of a monitor is always released, even when the process that holds
\* it dies, so that the next status change gets through; only an exception in
\* a hook of its holder keeps it.
LockIsReleased == \A c \in Creators : lock = c ~> lock # c \/ stage[c] = "leaked"

\* Requests that do not overlap keep the timeline whole, deletions included:
\* each row ends where the next one begins, the newest is open, and the monitor
\* has its status.
TimelineWhole ==
    Quiet /\ faults = 0 =>
          /\ \A i, j \in present :
                (i < j /\ \A k \in present : k <= i \/ j <= k) => endsAt[i] = j
          /\ \A i \in present : IsLast(i) => endsAt[i] = 0 /\ statusOf[i] = monitor

\* No row ends where it begins or earlier, whatever creations, deletions and
\* faults do to the timeline concurrently.
EndsAfterItBegins == \A i \in present : endsAt[i] = 0 \/ endsAt[i] > i

-----------------------------------------------------------------------------
(* Concurrent changes, without deletions, look like one change after the   *)
(* other: a creation takes effect when it saves its row.                   *)

Pending(i) == \E c \in Creators : stage[c] = "end" /\ last[c] = i
Unseen(s) == \E c \in Creators : stage[c] \in {"end", "monitor"} /\ want[c] = s

ShownEnded == {i \in present : endsAt[i] # 0 \/ Pending(i)}
ShownCurrent ==
    IF \E s \in Statuses : Unseen(s) THEN CHOOSE s \in Statuses : Unseen(s) ELSE monitor

History == INSTANCE StatusHistory WITH
    length <- made, entry <- statusOf, ended <- ShownEnded, current <- ShownCurrent,
    broken <- faults > 0

\* Readers of the timeline, of its open rows and of the monitor's status see
\* one change at a time, whatever the requests do concurrently, until the
\* first exception or crash.
ChangesAreAtomic == History!History
=============================================================================
