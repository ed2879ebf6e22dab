---------------------------- MODULE MonitorFetch ----------------------------
(***************************************************************************)
(* How the monitors of one probe come to be checked.  Every worker of the  *)
(* probe asks the ingestor for the monitors that are due, again and again. *)
(* The request takes a mutex of the probe, reads the monitors whose        *)
(* nextPingAt has passed, the longest waiting first and no more than its   *)
(* limit, sets their nextPingAt to their next time, releases the mutex and *)
(* only then prepares the response.  What fails after that is not checked  *)
(* until the next time.                                                    *)
(*                                                                         *)
(* The mutex is a lease in Redis that its holder renews; it expires when   *)
(* the holder's process has died, or when its event loop stalls.           *)
(***************************************************************************)
EXTENDS Integers, FiniteSets

CONSTANTS Monitors,
          Requests,    \* list requests that may be in progress together
          NoOne,
          Limit,       \* monitors of one response
          MaxToggles,  \* bound: changes of the flags that pause monitors
          MaxFailures, \* bound: requests that die or throw
          MaxStalls    \* bound: leases that expire while they are held

ASSUME FetchAssumption ==
    /\ NoOne \notin Requests
    /\ IsFiniteSet(Monitors) /\ IsFiniteSet(Requests)
    /\ Limit \in Nat \ {0}
    /\ {MaxToggles, MaxFailures, MaxStalls} \subseteq Nat

Critical == {"find", "mark", "release"}
Stage    == {"idle", "lock", "fill", "probe"} \cup Critical

VARIABLES
    due,    \* the monitors whose nextPingAt has passed
    before, \* <<m, n>>: both are due, and m's nextPingAt is the earlier one
    paused, \* one of the flags that keep the monitor from being fetched
    lock,   \* holder of the mutex
    stage,
    batch,  \* what a request has found
    todo,   \* what it has still to mark
    owed,   \* history: how often a monitor has been due, less how often it was handed out
    toggles, failures, stalls

requestVars == <<stage, batch, todo>>
counters == <<toggles, failures, stalls>>
vars == <<due, before, paused, lock, requestVars, owed, counters>>

TypeOK ==
    /\ due \in SUBSET Monitors
    /\ before \in SUBSET (due \X due)
    /\ paused \in [Monitors -> BOOLEAN]
    /\ lock \in Requests \cup {NoOne}
    /\ stage \in [Requests -> Stage]
    /\ batch \in [Requests -> SUBSET Monitors]
    /\ todo \in [Requests -> SUBSET Monitors]
    /\ \A r \in Requests : todo[r] \subseteq batch[r] /\ Cardinality(batch[r]) <= Limit
    /\ owed \in [Monitors -> Int]
    /\ toggles \in 0..MaxToggles
    /\ failures \in 0..MaxFailures
    /\ stalls \in 0..MaxStalls

Init ==
    /\ due = {} /\ before = {}
    /\ paused \in [Monitors -> BOOLEAN]
    /\ lock = NoOne
    /\ stage = [r \in Requests |-> "idle"]
    /\ batch = [r \in Requests |-> {}]
    /\ todo = [r \in Requests |-> {}]
    /\ owed = [m \in Monitors |-> 0]
    /\ toggles = 0 /\ failures = 0 /\ stalls = 0

-----------------------------------------------------------------------------
At(r, s) == stage[r] = s

GoTo(r, s) == stage' = [stage EXCEPT ![r] = s]

Ends(r) ==
    /\ GoTo(r, "idle")
    /\ batch' = [batch EXCEPT ![r] = {}]
    /\ todo' = [todo EXCEPT ![r] = {}]

Holds(r) == lock = r /\ stage[r] \in Critical

\* A mutex that has been lost is not released.
Unlock(r) == lock' = IF lock = r THEN NoOne ELSE lock

Ask(r) ==
    /\ At(r, "idle")
    /\ GoTo(r, "lock")
    /\ UNCHANGED <<due, before, paused, lock, batch, todo, owed, counters>>

\* Mutant: the mutex is not waited for.
AcquireAnyway(r) ==
    /\ At(r, "lock")
    /\ lock' = r
    /\ GoTo(r, "find")
    /\ UNCHANGED <<due, before, paused, batch, todo, owed, counters>>

Acquire(r) ==
    /\ At(r, "lock") /\ lock = NoOne
    /\ lock' = r
    /\ GoTo(r, "find")
    /\ UNCHANGED <<due, before, paused, batch, todo, owed, counters>>

AcquireTimesOut(r) ==
    /\ At(r, "lock") /\ lock # NoOne
    /\ GoTo(r, "idle")
    /\ UNCHANGED <<due, before, paused, lock, batch, todo, owed, counters>>

\* Mutant: the one that waits longest is served last.
NewestFirst(found, rest) == \A m \in found, n \in rest : <<n, m>> \in before

LongestFirst(found, rest) == \A m \in found, n \in rest : <<m, n>> \in before

Fetchable == {m \in due : ~paused[m]}

\* What the query returns: as many as the limit allows.
Fetched(found) ==
    /\ Cardinality(found) <= Limit
    /\ found = Fetchable \/ Cardinality(found) = Limit
    /\ LongestFirst(found, Fetchable \ found)

Find(r) ==
    /\ At(r, "find")
    /\ \E found \in SUBSET Fetchable :
          /\ Fetched(found)
          /\ batch' = [batch EXCEPT ![r] = found]
          /\ todo' = [todo EXCEPT ![r] = found]
    /\ GoTo(r, "mark")
    /\ UNCHANGED <<due, before, paused, lock, owed, counters>>

\* Mutant: everything that is due is marked, not only what has been found.
PostponeAll(m) == due' = {} /\ before' = {}

Postpone(m) ==
    /\ due' = due \ {m}
    /\ before' = {p \in before : m \notin {p[1], p[2]}}

\* nextPingAt is set to the monitor's next time, one monitor after the other.
Mark(r) ==
    /\ At(r, "mark")
    /\ \/ /\ todo[r] = {}
          /\ GoTo(r, "release")
          /\ UNCHANGED <<due, before, todo>>
       \/ \E m \in todo[r] :
             /\ Postpone(m)
             /\ todo' = [todo EXCEPT ![r] = @ \ {m}]
             /\ UNCHANGED stage
    /\ UNCHANGED <<paused, lock, batch, owed, counters>>

Release(r) ==
    /\ At(r, "release")
    /\ Unlock(r)
    /\ GoTo(r, "fill")
    /\ UNCHANGED <<due, before, paused, batch, todo, owed, counters>>

\* The secrets are filled in and the response reaches the probe, which checks
\* its monitors.
Respond(r) ==
    /\ At(r, "fill")
    /\ owed' = [m \in Monitors |-> IF m \in batch[r] THEN owed[m] - 1 ELSE owed[m]]
    /\ GoTo(r, "probe")
    /\ UNCHANGED <<due, before, paused, lock, batch, todo, counters>>

Probed(r) ==
    /\ At(r, "probe")
    /\ Ends(r)
    /\ UNCHANGED <<due, before, paused, lock, owed, counters>>

\* A query throws, the secrets' one included; the catch block releases the mutex.
Throw(r) ==
    /\ stage[r] \in Critical \cup {"fill"}
    /\ failures < MaxFailures /\ failures' = failures + 1
    /\ Unlock(r)
    /\ Ends(r)
    /\ UNCHANGED <<due, before, paused, owed, toggles, stalls>>

\* The ingestor dies, or the response is lost.
Crash(r) ==
    /\ stage[r] \in Critical \cup {"fill"}
    /\ failures < MaxFailures /\ failures' = failures + 1
    /\ Ends(r)
    /\ UNCHANGED <<due, before, paused, lock, owed, toggles, stalls>>

\* The lease of a process that has died runs out.
LeaseExpires ==
    /\ lock # NoOne /\ ~Holds(lock)
    /\ lock' = NoOne
    /\ UNCHANGED <<due, before, paused, requestVars, owed, counters>>

\* The lease runs out while its holder goes on.
Stall ==
    /\ lock # NoOne /\ Holds(lock)
    /\ stalls < MaxStalls /\ stalls' = stalls + 1
    /\ lock' = NoOne
    /\ UNCHANGED <<due, before, paused, requestVars, owed, toggles, failures>>

\* The monitor's nextPingAt passes.
ComesDue(m) ==
    /\ m \notin due
    /\ due' = due \cup {m}
    /\ before' = before \cup (due \X {m})
    /\ owed' = [owed EXCEPT ![m] = @ + 1]
    /\ UNCHANGED <<paused, lock, requestVars, counters>>

Toggle(m) ==
    /\ toggles < MaxToggles /\ toggles' = toggles + 1
    /\ paused' = [paused EXCEPT ![m] = ~@]
    /\ UNCHANGED <<due, before, lock, requestVars, owed, failures, stalls>>

-----------------------------------------------------------------------------
Step(r) == Find(r) \/ Mark(r) \/ Release(r) \/ Respond(r) \/ Probed(r)

Next ==
    \/ \E r \in Requests :
          \/ Ask(r) \/ Acquire(r) \/ AcquireTimesOut(r) \/ Step(r) \/ Throw(r) \/ Crash(r)
    \/ LeaseExpires \/ Stall
    \/ \E m \in Monitors : ComesDue(m) \/ Toggle(m)

Spec == Init /\ [][Next]_vars

\* The workers loop, requests make progress, one of those that wait for a free
\* mutex gets it, leases run out and time passes.
Fairness ==
    /\ \A r \in Requests : WF_vars(Ask(r)) /\ WF_vars(Step(r))
    /\ WF_vars(\E r \in Requests : Acquire(r))
    /\ WF_vars(LeaseExpires)
    /\ \A m \in Monitors : WF_vars(ComesDue(m))

FairSpec == Spec /\ Fairness

-----------------------------------------------------------------------------
(* Properties.                                                             *)

\* A monitor is never handed out more often than it has been due, but for one
\* time with each lease that is lost by its holder.
NeverTooOften == \A m \in Monitors : owed[m] >= -stalls

\* Marked by a request that has not responded yet.
OnItsWay(m) == {r \in Requests : m \in batch[r] \ todo[r] /\ ~At(r, "probe")}

\* A check that was due is waiting, on its way to the probe, or was lost by a
\* request that failed after it had marked the monitor.
NoneForgotten ==
    \A m \in Monitors :
        owed[m] <= Cardinality(OnItsWay(m)) + Cardinality({m} \cap due) + failures

\* A monitor that is not paused for good is handed out again and again, however
\* many others are due and however the requests fail.
ProbedAgain ==
    \A m \in Monitors :
        []<>paused[m] \/ []<>(\E r \in Requests : At(r, "probe") /\ m \in batch[r])
=============================================================================
