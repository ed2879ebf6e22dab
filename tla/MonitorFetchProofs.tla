------------------------- MODULE MonitorFetchProofs -------------------------
(* Theorems about MonitorFetch, for every value of its constants.          *)
EXTENDS MonitorFetch, FiniteSetTheorems, TLAPS

USE FetchAssumption

-----------------------------------------------------------------------------
(* Types.                                                                  *)

\* Nothing is found before the query, and nothing is left to mark after the
\* last update.
Staged ==
    \A r \in Requests :
        /\ stage[r] \in {"idle", "lock", "find"} => batch[r] = {} /\ todo[r] = {}
        /\ stage[r] \in {"release", "fill", "probe"} => todo[r] = {}

IInv == TypeOK /\ Staged

LEMMA InitIInv == Init => IInv
<1> SUFFICES ASSUME Init PROVE IInv
    OBVIOUS
<1>1. Cardinality({}) = 0
    BY FS_EmptySet
<1>2. TypeOK
    BY <1>1 DEF Init, TypeOK, Stage, Critical
<1>3. Staged
    BY DEF Init, Staged
<1>4. QED
    BY <1>2, <1>3 DEF IInv

\* A step to another stage that finds and marks nothing, at a place where its
\* batch and what is to be marked suit that stage.
LEMMA GoToIInv ==
    ASSUME IInv, NEW r \in Requests, NEW s \in Stage, GoTo(r, s), UNCHANGED <<batch, todo>>,
           s \in {"idle", "lock", "find"} => batch[r] = {},
           s \in {"release", "fill", "probe"} => todo[r] = {},
           due' \in SUBSET Monitors, before' \in SUBSET (due' \X due'),
           paused' \in [Monitors -> BOOLEAN], lock' \in Requests \cup {NoOne},
           owed' \in [Monitors -> Int], UNCHANGED counters
    PROVE  IInv'
<1>1. todo[r] \subseteq batch[r]
    BY DEF IInv, TypeOK
<1>2. stage' = [stage EXCEPT ![r] = s] /\ stage \in [Requests -> Stage]
    BY DEF GoTo, IInv, TypeOK
<1>3. TypeOK'
    BY <1>2 DEF IInv, TypeOK, counters
<1>4. Staged'
    BY <1>1, <1>2 DEF IInv, Staged
<1>5. QED
    BY <1>3, <1>4 DEF IInv

\* A request that ends.
LEMMA EndsIInv ==
    ASSUME IInv, NEW r \in Requests, Ends(r), UNCHANGED <<due, before, paused, owed>>,
           lock' \in Requests \cup {NoOne},
           toggles' \in 0..MaxToggles, failures' \in 0..MaxFailures, stalls' \in 0..MaxStalls
    PROVE  IInv'
<1>1. Cardinality({}) <= Limit
    BY FS_EmptySet
<1>2. /\ stage' = [stage EXCEPT ![r] = "idle"] /\ stage \in [Requests -> Stage]
      /\ batch' = [batch EXCEPT ![r] = {}] /\ batch \in [Requests -> SUBSET Monitors]
      /\ todo' = [todo EXCEPT ![r] = {}] /\ todo \in [Requests -> SUBSET Monitors]
    BY DEF Ends, GoTo, IInv, TypeOK
<1>3. \A q \in Requests : todo'[q] \subseteq batch'[q] /\ Cardinality(batch'[q]) <= Limit
    BY <1>1, <1>2 DEF IInv, TypeOK
<1>4. TypeOK'
    BY <1>2, <1>3 DEF IInv, TypeOK, Stage
<1>5. Staged'
    BY <1>2 DEF IInv, Staged
<1>6. QED
    BY <1>4, <1>5 DEF IInv

LEMMA UnlockType ==
    ASSUME TypeOK, NEW r \in Requests, Unlock(r)
    PROVE  lock' \in Requests \cup {NoOne}
BY DEF TypeOK, Unlock

LEMMA FindIInv ==
    ASSUME IInv, NEW r \in Requests, Find(r)
    PROVE  IInv'
<1>1. PICK found \in SUBSET Fetchable :
          /\ Fetched(found)
          /\ batch' = [batch EXCEPT ![r] = found]
          /\ todo' = [todo EXCEPT ![r] = found]
    BY DEF Find
<1>2. found \in SUBSET Monitors /\ Cardinality(found) <= Limit
    BY <1>1 DEF Fetchable, Fetched, IInv, TypeOK
<1>3. /\ stage' = [stage EXCEPT ![r] = "mark"] /\ stage \in [Requests -> Stage]
      /\ batch \in [Requests -> SUBSET Monitors] /\ todo \in [Requests -> SUBSET Monitors]
    BY DEF Find, GoTo, IInv, TypeOK
<1>4. \A q \in Requests : todo'[q] \subseteq batch'[q] /\ Cardinality(batch'[q]) <= Limit
    BY <1>1, <1>2, <1>3 DEF IInv, TypeOK
<1>5. TypeOK'
    BY <1>1, <1>2, <1>3, <1>4 DEF IInv, TypeOK, Find, counters, Stage, Critical
<1>6. Staged'
    BY <1>1, <1>3 DEF IInv, Staged
<1>7. QED
    BY <1>5, <1>6 DEF IInv

LEMMA MarkIInv ==
    ASSUME IInv, NEW r \in Requests, Mark(r)
    PROVE  IInv'
<1>1. CASE todo[r] = {} /\ GoTo(r, "release") /\ UNCHANGED <<due, before, todo>>
    <2>1. UNCHANGED <<batch, todo, due, before, paused, lock, owed, counters>>
        BY <1>1 DEF Mark
    <2>2. QED
        BY <1>1, <2>1, GoToIInv DEF Stage, Critical, IInv, TypeOK
<1>2. CASE \E m \in todo[r] :
             Postpone(m) /\ todo' = [todo EXCEPT ![r] = @ \ {m}] /\ UNCHANGED stage
    <2>1. PICK m \in todo[r] :
             Postpone(m) /\ todo' = [todo EXCEPT ![r] = @ \ {m}] /\ UNCHANGED stage
        BY <1>2
    <2>2. /\ due' = due \ {m} /\ before' = {p \in before : m \notin {p[1], p[2]}}
          /\ UNCHANGED <<stage, batch, paused, lock, owed, counters>>
          /\ todo \in [Requests -> SUBSET Monitors]
        BY <2>1 DEF Mark, Postpone, IInv, TypeOK
    <2>3. before' \in SUBSET (due' \X due')
        BY <2>2 DEF IInv, TypeOK
    <2>4. /\ todo' \in [Requests -> SUBSET Monitors]
          /\ \A q \in Requests : todo'[q] \subseteq todo[q]
        BY <2>1, <2>2
    <2>5. TypeOK'
        BY <2>2, <2>3, <2>4 DEF IInv, TypeOK, counters
    <2>6. Staged'
        BY <2>2, <2>4 DEF IInv, Staged
    <2>7. QED
        BY <2>5, <2>6 DEF IInv
<1>3. QED
    BY <1>1, <1>2 DEF Mark

LEMMA NextIInv == IInv /\ [Next]_vars => IInv'
<1> SUFFICES ASSUME IInv, [Next]_vars PROVE IInv'
    OBVIOUS
<1>0. TypeOK /\ Staged
    BY DEF IInv
<1>1. ASSUME NEW r \in Requests, Ask(r) PROVE IInv'
    BY <1>0, <1>1, GoToIInv DEF Ask, At, Staged, TypeOK, Stage
<1>2. ASSUME NEW r \in Requests, Acquire(r) PROVE IInv'
    BY <1>0, <1>2, GoToIInv DEF Acquire, At, Staged, TypeOK, Stage, Critical
<1>3. ASSUME NEW r \in Requests, AcquireTimesOut(r) PROVE IInv'
    BY <1>0, <1>3, GoToIInv DEF AcquireTimesOut, At, Staged, TypeOK, Stage
<1>4. ASSUME NEW r \in Requests, Release(r) PROVE IInv'
    BY <1>0, <1>4, GoToIInv, UnlockType DEF Release, At, Staged, TypeOK, Stage
<1>5. ASSUME NEW r \in Requests, Respond(r) PROVE IInv'
    <2>1. owed' \in [Monitors -> Int]
        BY <1>0, <1>5 DEF Respond, TypeOK
    <2>2. QED
        BY <1>0, <1>5, <2>1, GoToIInv DEF Respond, At, Staged, TypeOK, Stage
<1>6. ASSUME NEW r \in Requests, Probed(r) PROVE IInv'
    BY <1>0, <1>6, EndsIInv DEF Probed, TypeOK, counters
<1>7. ASSUME NEW r \in Requests, Throw(r) PROVE IInv'
    BY <1>0, <1>7, EndsIInv, UnlockType DEF Throw, TypeOK
<1>8. ASSUME NEW r \in Requests, Crash(r) PROVE IInv'
    BY <1>0, <1>8, EndsIInv DEF Crash, TypeOK
<1>9. CASE LeaseExpires
    BY <1>0, <1>9 DEF LeaseExpires, TypeOK, Staged, IInv, requestVars, counters
<1>10. CASE Stall
    BY <1>0, <1>10 DEF Stall, TypeOK, Staged, IInv, requestVars
<1>11. ASSUME NEW m \in Monitors, ComesDue(m) PROVE IInv'
    <2>1. due' \in SUBSET Monitors /\ before' \in SUBSET (due' \X due')
        BY <1>0, <1>11 DEF ComesDue, TypeOK
    <2>2. owed' \in [Monitors -> Int]
        BY <1>0, <1>11 DEF ComesDue, TypeOK
    <2>3. QED
        BY <1>0, <1>11, <2>1, <2>2 DEF ComesDue, TypeOK, Staged, IInv, requestVars, counters
<1>12. ASSUME NEW m \in Monitors, Toggle(m) PROVE IInv'
    BY <1>0, <1>12 DEF Toggle, TypeOK, Staged, IInv, requestVars
<1>13. CASE UNCHANGED vars
    BY <1>0, <1>13 DEF vars, TypeOK, Staged, IInv, requestVars, counters
<1>14. QED
    BY <1>1, <1>2, <1>3, <1>4, <1>5, <1>6, <1>7, <1>8, <1>9, <1>10, <1>11, <1>12, <1>13,
       FindIInv, MarkIInv DEF Next, Step

\* Every reachable state is well typed: what a request has still to mark is part
\* of what it found, no more than its limit (Ingestor/API/Monitor.ts:236).
THEOREM TypeCorrect == Spec => []TypeOK
<1>1. IInv => TypeOK
    BY DEF IInv
<1>2. QED
    BY <1>1, InitIInv, NextIInv, PTL DEF Spec

-----------------------------------------------------------------------------
(* Sets of requests and their sizes.                                       *)

LEMMA RequestSets ==
    ASSUME NEW S \in SUBSET Requests
    PROVE  IsFiniteSet(S) /\ Cardinality(S) \in Nat
BY FS_Subset, FS_CardinalityType

LEMMA Smaller ==
    ASSUME NEW S \in SUBSET Requests, NEW T \in SUBSET S
    PROVE  Cardinality(T) <= Cardinality(S)
BY RequestSets, FS_Subset

LEMMA OneMore ==
    ASSUME NEW S \in SUBSET Requests, NEW r \in Requests
    PROVE  /\ Cardinality(S \cup {r}) <= Cardinality(S) + 1
           /\ r \notin S => Cardinality(S \cup {r}) = Cardinality(S) + 1
BY RequestSets, FS_AddElement

LEMMA OneLess ==
    ASSUME NEW S \in SUBSET Requests, NEW r \in Requests
    PROVE  /\ Cardinality(S \ {r}) >= Cardinality(S) - 1
           /\ r \in S => Cardinality(S \ {r}) = Cardinality(S) - 1
BY RequestSets, FS_RemoveElement

\* What an action of request r does to the rest of the requests.
OthersKeep(r) ==
    \A q \in Requests : q # r => stage'[q] = stage[q] /\ batch'[q] = batch[q] /\ todo'[q] = todo[q]

\* What each action of r leaves r with.
LEMMA RequestSteps ==
    ASSUME IInv, NEW r \in Requests
    PROVE  /\ Ask(r) => OthersKeep(r) /\ stage'[r] = "lock" /\ UNCHANGED <<batch, todo>>
           /\ Acquire(r) => OthersKeep(r) /\ stage'[r] = "find" /\ UNCHANGED <<batch, todo>>
           /\ AcquireTimesOut(r) => OthersKeep(r) /\ stage'[r] = "idle" /\ UNCHANGED <<batch, todo>>
           /\ Release(r) => OthersKeep(r) /\ stage'[r] = "fill" /\ UNCHANGED <<batch, todo>>
           /\ Respond(r) => OthersKeep(r) /\ stage'[r] = "probe" /\ UNCHANGED <<batch, todo>>
           /\ Ends(r) => OthersKeep(r) /\ stage'[r] = "idle" /\ batch'[r] = {} /\ todo'[r] = {}
<1>1. /\ stage \in [Requests -> Stage]
      /\ batch \in [Requests -> SUBSET Monitors] /\ todo \in [Requests -> SUBSET Monitors]
    BY DEF IInv, TypeOK
<1>2. QED
    BY <1>1 DEF Ask, Acquire, AcquireTimesOut, Release, Respond, Ends, GoTo, OthersKeep

LEMMA FindStep ==
    ASSUME IInv, NEW r \in Requests, Find(r)
    PROVE  /\ OthersKeep(r) /\ stage[r] = "find" /\ stage'[r] = "mark"
           /\ batch'[r] = todo'[r] /\ todo'[r] \subseteq due
           /\ UNCHANGED <<due, lock, owed, failures, stalls>>
<1>1. PICK found \in SUBSET Fetchable :
          /\ batch' = [batch EXCEPT ![r] = found]
          /\ todo' = [todo EXCEPT ![r] = found]
    BY DEF Find
<1>2. QED
    BY <1>1 DEF Find, Fetchable, GoTo, At, OthersKeep, IInv, TypeOK, counters

\* Only the stage changes, or monitor m is marked.
LEMMA MarkStep ==
    ASSUME IInv, NEW r \in Requests, Mark(r)
    PROVE  /\ OthersKeep(r) /\ stage[r] = "mark" /\ stage'[r] \in {"mark", "release"}
           /\ UNCHANGED <<batch, lock, owed, failures, stalls>>
           /\ \/ UNCHANGED <<due, todo>>
              \/ \E m \in todo[r] : due' = due \ {m} /\ todo'[r] = todo[r] \ {m}
<1>1. /\ stage \in [Requests -> Stage]
      /\ batch \in [Requests -> SUBSET Monitors] /\ todo \in [Requests -> SUBSET Monitors]
    BY DEF IInv, TypeOK
<1>2. CASE todo[r] = {} /\ GoTo(r, "release") /\ UNCHANGED <<due, before, todo>>
    BY <1>1, <1>2 DEF Mark, At, GoTo, OthersKeep, counters
<1>3. CASE \E m \in todo[r] :
             Postpone(m) /\ todo' = [todo EXCEPT ![r] = @ \ {m}] /\ UNCHANGED stage
    BY <1>1, <1>3 DEF Mark, At, OthersKeep, Postpone, counters
<1>4. QED
    BY <1>2, <1>3 DEF Mark

-----------------------------------------------------------------------------
(* NoneForgotten.                                                          *)

LEMMA OnItsWaySet == \A m \in Monitors : OnItsWay(m) \in SUBSET Requests
BY DEF OnItsWay

Waiting(m) == IF m \in due THEN 1 ELSE 0

LEMMA WaitingCount == \A m \in Monitors : Cardinality({m} \cap due) = Waiting(m)
<1>1. \A m \in Monitors : {m} \cap due = IF m \in due THEN {m} ELSE {}
    OBVIOUS
<1>2. QED
    BY <1>1, FS_EmptySet, FS_Singleton DEF Waiting

LEMMA WaitingCountNext == \A m \in Monitors : Cardinality({m} \cap due') = Waiting(m)'
<1>1. \A m \in Monitors : {m} \cap due' = IF m \in due' THEN {m} ELSE {}
    OBVIOUS
<1>2. QED
    BY <1>1, FS_EmptySet, FS_Singleton DEF Waiting

\* NoneForgotten of one monitor.
Remembered(m) == owed[m] <= Cardinality(OnItsWay(m)) + Waiting(m) + failures

LEMMA RememberedAll == NoneForgotten <=> \A m \in Monitors : Remembered(m)
BY WaitingCount DEF NoneForgotten, Remembered

LEMMA RememberedAllNext == NoneForgotten' <=> \A m \in Monitors : Remembered(m)'
BY WaitingCountNext DEF NoneForgotten, Remembered

\* A step after which at least as many requests have the monitor on its way.
LEMMA KeepsRemembered ==
    ASSUME IInv, NEW m \in Monitors, Remembered(m), OnItsWay(m) \subseteq OnItsWay(m)',
           UNCHANGED <<due, owed>>, failures' \in Nat, failures' >= failures
    PROVE  Remembered(m)'
<1>1. OnItsWay(m)' \in SUBSET Requests
    BY DEF OnItsWay
<1>2. Cardinality(OnItsWay(m)) <= Cardinality(OnItsWay(m)')
    BY <1>1, Smaller
<1>3. /\ Cardinality(OnItsWay(m)) \in Nat /\ Cardinality(OnItsWay(m)') \in Nat
      /\ Waiting(m)' = Waiting(m) /\ Waiting(m) \in Nat
    BY <1>1, OnItsWaySet, RequestSets DEF Waiting
<1>4. owed[m] \in Int /\ failures \in Nat
    BY DEF IInv, TypeOK
<1>5. QED
    BY <1>2, <1>3, <1>4 DEF Remembered

\* A failing request takes at most itself away, and counts as a failure.
LEMMA FailureRemembered ==
    ASSUME IInv, NEW m \in Monitors, Remembered(m), NEW r \in Requests, Ends(r),
           UNCHANGED <<due, owed>>, failures' = failures + 1
    PROVE  Remembered(m)'
<1>1. OnItsWay(m) \ {r} \subseteq OnItsWay(m)'
    BY RequestSteps DEF OnItsWay, OthersKeep, At
<1>2. OnItsWay(m)' \in SUBSET Requests
    BY DEF OnItsWay
<1>3. Cardinality(OnItsWay(m)) - 1 <= Cardinality(OnItsWay(m)')
    <2>1. Cardinality(OnItsWay(m) \ {r}) <= Cardinality(OnItsWay(m)')
        BY <1>1, <1>2, Smaller
    <2>2. Cardinality(OnItsWay(m) \ {r}) >= Cardinality(OnItsWay(m)) - 1
        BY OnItsWaySet, OneLess
    <2>3. OnItsWay(m) \ {r} \in SUBSET Requests
        BY OnItsWaySet
    <2>4. QED
        BY <1>2, <2>1, <2>2, <2>3, OnItsWaySet, RequestSets
<1>4. /\ Cardinality(OnItsWay(m)) \in Nat /\ Cardinality(OnItsWay(m)') \in Nat
      /\ Waiting(m)' = Waiting(m) /\ Waiting(m) \in Nat
    BY <1>2, OnItsWaySet, RequestSets DEF Waiting
<1>5. owed[m] \in Int /\ failures \in Nat
    BY DEF IInv, TypeOK
<1>6. QED
    BY <1>3, <1>4, <1>5 DEF Remembered

LEMMA MarkRemembered ==
    ASSUME IInv, NEW m \in Monitors, Remembered(m), NEW r \in Requests, Mark(r)
    PROVE  Remembered(m)'
<1>1. OthersKeep(r) /\ UNCHANGED <<batch, lock, owed, failures, stalls>>
    BY MarkStep
<1>2. stage[r] # "probe" /\ stage'[r] # "probe"
    BY MarkStep
<1>3. todo[r] \subseteq batch[r] /\ failures \in Nat
    BY DEF IInv, TypeOK
<1>4. CASE UNCHANGED due /\ todo'[r] \subseteq todo[r]
    <2>1. OnItsWay(m) \subseteq OnItsWay(m)'
        BY <1>1, <1>2, <1>4 DEF OnItsWay, OthersKeep, At
    <2>2. QED
        BY <1>1, <1>3, <1>4, <2>1, KeepsRemembered
<1>5. CASE \E n \in todo[r] : due' = due \ {n} /\ todo'[r] = todo[r] \ {n}
    <2>1. PICK n \in todo[r] : due' = due \ {n} /\ todo'[r] = todo[r] \ {n}
        BY <1>5
    <2>2. CASE n # m
        <3>1. OnItsWay(m) \subseteq OnItsWay(m)' /\ Waiting(m)' = Waiting(m)
            BY <1>1, <1>2, <2>1, <2>2 DEF OnItsWay, OthersKeep, At, Waiting
        <3>2. OnItsWay(m)' \in SUBSET Requests
            BY DEF OnItsWay
        <3>3. /\ Cardinality(OnItsWay(m)) <= Cardinality(OnItsWay(m)')
              /\ Cardinality(OnItsWay(m)) \in Nat /\ Cardinality(OnItsWay(m)') \in Nat
            BY <3>1, <3>2, Smaller, OnItsWaySet, RequestSets
        <3>4. Waiting(m) \in Nat /\ owed[m] \in Int /\ owed'[m] = owed[m] /\ failures' = failures
            BY <1>1 DEF Waiting, IInv, TypeOK
        <3>5. QED
            BY <1>3, <3>1, <3>3, <3>4 DEF Remembered
    <2>3. CASE n = m
        <3>1. r \notin OnItsWay(m) /\ OnItsWay(m)' = OnItsWay(m) \cup {r}
            BY <1>1, <1>2, <1>3, <2>1, <2>3 DEF OnItsWay, OthersKeep, At
        <3>2. /\ Cardinality(OnItsWay(m)') = Cardinality(OnItsWay(m)) + 1
              /\ Cardinality(OnItsWay(m)) \in Nat
            BY <3>1, OneMore, OnItsWaySet, RequestSets
        <3>3. Waiting(m)' = 0 /\ Waiting(m) \in {0, 1}
            BY <2>1, <2>3 DEF Waiting
        <3>4. owed[m] \in Int /\ owed'[m] = owed[m] /\ failures' = failures
            BY <1>1 DEF IInv, TypeOK
        <3>5. QED
            BY <1>3, <3>2, <3>3, <3>4 DEF Remembered
    <2>4. QED
        BY <2>2, <2>3
<1>6. QED
    BY <1>4, <1>5, MarkStep

LEMMA RespondRemembered ==
    ASSUME IInv, NEW m \in Monitors, Remembered(m), NEW r \in Requests, Respond(r)
    PROVE  Remembered(m)'
<1>1. /\ OthersKeep(r) /\ UNCHANGED <<due, batch, todo, failures>>
      /\ stage[r] = "fill" /\ stage'[r] = "probe"
    BY RequestSteps DEF Respond, At, counters
<1>2. todo[r] = {} /\ owed[m] \in Int /\ failures \in Nat
    BY <1>1 DEF IInv, Staged, TypeOK
<1>3. OnItsWay(m)' = OnItsWay(m) \ {r} /\ (r \in OnItsWay(m) <=> m \in batch[r])
    BY <1>1, <1>2 DEF OnItsWay, OthersKeep, At
<1>4. /\ r \in OnItsWay(m) => Cardinality(OnItsWay(m)') = Cardinality(OnItsWay(m)) - 1
      /\ r \notin OnItsWay(m) => Cardinality(OnItsWay(m)') = Cardinality(OnItsWay(m))
      /\ Cardinality(OnItsWay(m)) \in Nat
    <2>1. r \notin OnItsWay(m) => OnItsWay(m) \ {r} = OnItsWay(m)
        OBVIOUS
    <2>2. QED
        BY <1>3, <2>1, OneLess, OnItsWaySet, RequestSets
<1>5. owed'[m] = IF m \in batch[r] THEN owed[m] - 1 ELSE owed[m]
    BY DEF Respond
<1>6. Waiting(m)' = Waiting(m) /\ Waiting(m) \in Nat
    BY <1>1 DEF Waiting
<1>7. QED
    BY <1>1, <1>2, <1>3, <1>4, <1>5, <1>6 DEF Remembered

LEMMA ComesDueRemembered ==
    ASSUME IInv, NEW m \in Monitors, Remembered(m), NEW n \in Monitors, ComesDue(n)
    PROVE  Remembered(m)'
<1>1. OnItsWay(m)' = OnItsWay(m)
    BY DEF OnItsWay, ComesDue, requestVars, At
<1>2. Cardinality(OnItsWay(m)) \in Nat /\ owed[m] \in Int /\ failures \in Nat /\ failures' = failures
    BY OnItsWaySet, RequestSets DEF IInv, TypeOK, ComesDue, counters
<1>3. CASE n = m
    <2>1. Waiting(m) = 0 /\ Waiting(m)' = 1 /\ owed'[m] = owed[m] + 1
        BY <1>3 DEF ComesDue, Waiting, IInv, TypeOK
    <2>2. QED
        BY <1>1, <1>2, <2>1 DEF Remembered
<1>4. CASE n # m
    <2>1. Waiting(m)' = Waiting(m) /\ owed'[m] = owed[m]
        BY <1>4 DEF ComesDue, Waiting, IInv, TypeOK
    <2>2. QED
        BY <1>1, <1>2, <2>1 DEF Remembered
<1>5. QED
    BY <1>3, <1>4

LEMMA NextRemembered ==
    ASSUME IInv, [Next]_vars, NEW m \in Monitors, Remembered(m)
    PROVE  Remembered(m)'
<1>0. failures \in Nat /\ Staged
    BY DEF IInv, TypeOK
<1>1. ASSUME NEW r \in Requests, Ask(r) PROVE Remembered(m)'
    BY <1>0, <1>1, RequestSteps, KeepsRemembered DEF Ask, At, OnItsWay, OthersKeep, counters
<1>2. ASSUME NEW r \in Requests, Acquire(r) PROVE Remembered(m)'
    BY <1>0, <1>2, RequestSteps, KeepsRemembered DEF Acquire, At, OnItsWay, OthersKeep, counters
<1>3. ASSUME NEW r \in Requests, AcquireTimesOut(r) PROVE Remembered(m)'
    BY <1>0, <1>3, RequestSteps, KeepsRemembered DEF AcquireTimesOut, At, OnItsWay, OthersKeep, counters
<1>4. ASSUME NEW r \in Requests, Release(r) PROVE Remembered(m)'
    BY <1>0, <1>4, RequestSteps, KeepsRemembered DEF Release, At, OnItsWay, OthersKeep, counters
<1>5. ASSUME NEW r \in Requests, Probed(r) PROVE Remembered(m)'
    BY <1>0, <1>5, RequestSteps, KeepsRemembered DEF Probed, At, OnItsWay, OthersKeep, counters
<1>6. ASSUME NEW r \in Requests, Throw(r) PROVE Remembered(m)'
    BY <1>6, FailureRemembered DEF Throw
<1>7. ASSUME NEW r \in Requests, Crash(r) PROVE Remembered(m)'
    BY <1>7, FailureRemembered DEF Crash
<1>8. ASSUME NEW r \in Requests, Find(r) PROVE Remembered(m)'
    <2>1. OnItsWay(m) \subseteq OnItsWay(m)'
        BY <1>0, <1>8, FindStep DEF OnItsWay, OthersKeep, At, Staged
    <2>2. QED
        BY <1>0, <1>8, <2>1, FindStep, KeepsRemembered
<1>9. CASE LeaseExpires
    BY <1>0, <1>9, KeepsRemembered DEF LeaseExpires, OnItsWay, At, requestVars, counters
<1>10. CASE Stall
    BY <1>0, <1>10, KeepsRemembered DEF Stall, OnItsWay, At, requestVars
<1>11. ASSUME NEW n \in Monitors, Toggle(n) PROVE Remembered(m)'
    BY <1>0, <1>11, KeepsRemembered DEF Toggle, OnItsWay, At, requestVars
<1>12. CASE UNCHANGED vars
    BY <1>0, <1>12, KeepsRemembered DEF vars, OnItsWay, At, requestVars, counters
<1>13. QED
    BY <1>1, <1>2, <1>3, <1>4, <1>5, <1>6, <1>7, <1>8, <1>9, <1>10, <1>11, <1>12,
       MarkRemembered, RespondRemembered, ComesDueRemembered DEF Next, Step

LEMMA InitRemembered == Init => NoneForgotten
<1> SUFFICES ASSUME Init, NEW m \in Monitors PROVE Remembered(m)
    BY RememberedAll
<1>1. OnItsWay(m) = {} /\ owed[m] = 0 /\ failures = 0 /\ Waiting(m) = 0
    BY DEF Init, OnItsWay, Waiting
<1>2. QED
    BY <1>1, FS_EmptySet DEF Remembered

\* Advancing nextPingAt before the response loses a check only when the request
\* fails, whatever the number of workers, of monitors and of lost leases
\* (Ingestor/API/Monitor.ts:284).
THEOREM NoCheckForgotten == Spec => []NoneForgotten
<1>1. IInv /\ NoneForgotten /\ [Next]_vars => NoneForgotten'
    BY NextRemembered, RememberedAll, RememberedAllNext
<1>2. QED
    BY <1>1, InitIInv, NextIInv, InitRemembered, PTL DEF Spec

-----------------------------------------------------------------------------
(* NeverTooOften.                                                          *)

\* The requests that may still hand out monitor m without its being due: those
\* that have marked it, and those that have lost the mutex before they have.
Claimants(m) ==
    {r \in Requests :
        \/ m \in batch[r] \ todo[r] /\ ~At(r, "probe")
        \/ r # lock /\ (At(r, "find") \/ m \in todo[r])}

\* The monitor is due, or the holder of the mutex has found that it was.
Open(m) == IF m \in due \/ (lock \in Requests /\ m \in todo[lock]) THEN 1 ELSE 0

Allowed(m) == owed[m] + stalls >= Cardinality(Claimants(m)) + Open(m)

LEMMA ClaimantSets == \A m \in Monitors : Claimants(m) \in SUBSET Requests
BY DEF Claimants

LEMMA ClaimantSetsNext == \A m \in Monitors : Claimants(m)' \in SUBSET Requests
BY DEF Claimants

LEMMA AllowedEnough == IInv /\ (\A m \in Monitors : Allowed(m)) => NeverTooOften
<1> SUFFICES ASSUME IInv, NEW m \in Monitors, Allowed(m) PROVE owed[m] >= -stalls
    BY DEF NeverTooOften
<1>1. Cardinality(Claimants(m)) \in Nat /\ Open(m) \in Nat /\ owed[m] \in Int /\ stalls \in Nat
    BY ClaimantSets, RequestSets DEF Open, IInv, TypeOK
<1>2. QED
    BY <1>1 DEF Allowed

\* A step that gives monitor m no further claim.
LEMMA KeepsAllowed ==
    ASSUME IInv, NEW m \in Monitors, Allowed(m), Claimants(m)' \subseteq Claimants(m),
           Open(m)' <= Open(m), UNCHANGED <<owed, stalls>>
    PROVE  Allowed(m)'
<1>1. Cardinality(Claimants(m)') <= Cardinality(Claimants(m))
    BY ClaimantSets, Smaller
<1>2. Cardinality(Claimants(m)) \in Nat /\ Cardinality(Claimants(m)') \in Nat
    BY ClaimantSets, ClaimantSetsNext, RequestSets
<1>3. Open(m) \in Nat /\ Open(m)' \in Nat /\ owed[m] \in Int /\ stalls \in Nat
    BY DEF Open, IInv, TypeOK
<1>4. QED
    BY <1>1, <1>2, <1>3 DEF Allowed

\* A request that ends has no claim, and neither it nor the mutex opens one.
LEMMA EndsAllowed ==
    ASSUME IInv, NEW m \in Monitors, Allowed(m), NEW r \in Requests, Ends(r),
           UNCHANGED <<due, owed, stalls>>, lock' = lock \/ (lock = r /\ lock' = NoOne)
    PROVE  Allowed(m)'
<1>1. OthersKeep(r) /\ stage'[r] = "idle" /\ batch'[r] = {} /\ todo'[r] = {}
    BY RequestSteps
<1>2. Claimants(m)' \subseteq Claimants(m)
    BY <1>1 DEF Claimants, OthersKeep, At
<1>3. Open(m)' <= Open(m)
    BY <1>1 DEF Open, OthersKeep
<1>4. QED
    BY <1>2, <1>3, KeepsAllowed

LEMMA MarkAllowed ==
    ASSUME IInv, NEW m \in Monitors, Allowed(m), NEW r \in Requests, Mark(r)
    PROVE  Allowed(m)'
<1>1. /\ OthersKeep(r) /\ UNCHANGED <<batch, lock, owed, failures, stalls>>
      /\ stage[r] = "mark" /\ stage'[r] \in {"mark", "release"}
    BY MarkStep
<1>2. CASE UNCHANGED <<due, todo>>
    <2>1. Claimants(m)' \subseteq Claimants(m)
        BY <1>1, <1>2 DEF Claimants, OthersKeep, At
    <2>2. Open(m)' <= Open(m)
        BY <1>1, <1>2 DEF Open
    <2>3. QED
        BY <1>1, <2>1, <2>2, KeepsAllowed
<1>3. CASE \E n \in todo[r] : due' = due \ {n} /\ todo'[r] = todo[r] \ {n}
    <2>1. PICK n \in todo[r] : due' = due \ {n} /\ todo'[r] = todo[r] \ {n}
        BY <1>3
    <2>2. Open(m)' <= Open(m)
        BY <1>1, <2>1 DEF Open, OthersKeep
    <2>3. CASE n # m \/ r # lock
        <3>1. Claimants(m)' \subseteq Claimants(m)
            BY <1>1, <2>1, <2>3 DEF Claimants, OthersKeep, At
        <3>2. QED
            BY <1>1, <2>2, <3>1, KeepsAllowed
    <2>4. CASE n = m /\ r = lock
        <3>1. Open(m) = 1 /\ Open(m)' = 0
            BY <1>1, <2>1, <2>4 DEF Open
        <3>2. Claimants(m)' \subseteq Claimants(m) \cup {r}
            BY <1>1, <2>1, <2>4 DEF Claimants, OthersKeep, At
        <3>3. Cardinality(Claimants(m)') <= Cardinality(Claimants(m)) + 1
            <4>1. Claimants(m) \cup {r} \in SUBSET Requests
                BY ClaimantSets
            <4>2. Cardinality(Claimants(m)') <= Cardinality(Claimants(m) \cup {r})
                BY <3>2, <4>1, Smaller
            <4>3. Cardinality(Claimants(m) \cup {r}) <= Cardinality(Claimants(m)) + 1
                BY ClaimantSets, OneMore
            <4>4. QED
                BY <4>1, <4>2, <4>3, ClaimantSets, ClaimantSetsNext, RequestSets
        <3>4. Cardinality(Claimants(m)) \in Nat /\ Cardinality(Claimants(m)') \in Nat
            BY ClaimantSets, ClaimantSetsNext, RequestSets
        <3>5. owed[m] \in Int /\ stalls \in Nat /\ owed'[m] = owed[m] /\ stalls' = stalls
            BY <1>1 DEF IInv, TypeOK
        <3>6. QED
            BY <3>1, <3>3, <3>4, <3>5 DEF Allowed
    <2>5. QED
        BY <2>3, <2>4
<1>4. QED
    BY <1>2, <1>3, MarkStep

LEMMA RespondAllowed ==
    ASSUME IInv, NEW m \in Monitors, Allowed(m), NEW r \in Requests, Respond(r)
    PROVE  Allowed(m)'
<1>1. /\ OthersKeep(r) /\ UNCHANGED <<due, lock, batch, todo, stalls>>
      /\ stage[r] = "fill" /\ stage'[r] = "probe"
    BY RequestSteps DEF Respond, At, counters
<1>2. todo[r] = {} /\ owed[m] \in Int /\ stalls \in Nat
    BY <1>1 DEF IInv, Staged, TypeOK
<1>3. Claimants(m)' = Claimants(m) \ {r} /\ (r \in Claimants(m) <=> m \in batch[r])
    BY <1>1, <1>2 DEF Claimants, OthersKeep, At
<1>4. /\ r \in Claimants(m) => Cardinality(Claimants(m)') = Cardinality(Claimants(m)) - 1
      /\ r \notin Claimants(m) => Cardinality(Claimants(m)') = Cardinality(Claimants(m))
      /\ Cardinality(Claimants(m)) \in Nat
    <2>1. r \notin Claimants(m) => Claimants(m) \ {r} = Claimants(m)
        OBVIOUS
    <2>2. QED
        BY <1>3, <2>1, OneLess, ClaimantSets, RequestSets
<1>5. owed'[m] = IF m \in batch[r] THEN owed[m] - 1 ELSE owed[m]
    BY DEF Respond
<1>6. Open(m)' = Open(m) /\ Open(m) \in Nat
    BY <1>1 DEF Open
<1>7. QED
    BY <1>1, <1>2, <1>3, <1>4, <1>5, <1>6 DEF Allowed

LEMMA FindAllowed ==
    ASSUME IInv, NEW m \in Monitors, Allowed(m), NEW r \in Requests, Find(r)
    PROVE  Allowed(m)'
<1>1. /\ OthersKeep(r) /\ stage[r] = "find" /\ stage'[r] = "mark"
      /\ batch'[r] = todo'[r] /\ todo'[r] \subseteq due
      /\ UNCHANGED <<due, lock, owed, failures, stalls>>
    BY FindStep
<1>2. Claimants(m)' \subseteq Claimants(m)
    BY <1>1 DEF Claimants, OthersKeep, At
<1>3. Open(m)' <= Open(m)
    BY <1>1 DEF Open, OthersKeep
<1>4. QED
    BY <1>1, <1>2, <1>3, KeepsAllowed

LEMMA StallAllowed ==
    ASSUME IInv, NEW m \in Monitors, Allowed(m), Stall
    PROVE  Allowed(m)'
<1>1. /\ lock \in Requests /\ lock' = NoOne /\ stalls' = stalls + 1
      /\ UNCHANGED <<due, owed, stage, batch, todo>>
    BY DEF Stall, IInv, TypeOK, requestVars
<1>2. Claimants(m)' \subseteq Claimants(m) \cup {lock} /\ Open(m)' <= Open(m)
    BY <1>1 DEF Claimants, Open, At
<1>3. Cardinality(Claimants(m)') <= Cardinality(Claimants(m)) + 1
    <2>1. Claimants(m) \cup {lock} \in SUBSET Requests
        BY <1>1, ClaimantSets
    <2>2. Cardinality(Claimants(m)') <= Cardinality(Claimants(m) \cup {lock})
        BY <1>2, <2>1, Smaller
    <2>3. Cardinality(Claimants(m) \cup {lock}) <= Cardinality(Claimants(m)) + 1
        BY <1>1, ClaimantSets, OneMore
    <2>4. QED
        BY <2>1, <2>2, <2>3, ClaimantSets, ClaimantSetsNext, RequestSets
<1>4. Cardinality(Claimants(m)) \in Nat /\ Cardinality(Claimants(m)') \in Nat
    BY ClaimantSets, ClaimantSetsNext, RequestSets
<1>5. /\ owed[m] \in Int /\ stalls \in Nat /\ owed'[m] = owed[m]
      /\ Open(m) \in Nat /\ Open(m)' \in Nat
    BY <1>1 DEF Open, IInv, TypeOK
<1>6. QED
    BY <1>1, <1>2, <1>3, <1>4, <1>5 DEF Allowed

LEMMA ComesDueAllowed ==
    ASSUME IInv, NEW m \in Monitors, Allowed(m), NEW n \in Monitors, ComesDue(n)
    PROVE  Allowed(m)'
<1>1. Claimants(m)' = Claimants(m) /\ UNCHANGED <<lock, todo, stalls>>
    BY DEF Claimants, ComesDue, requestVars, counters, At
<1>2. Cardinality(Claimants(m)) \in Nat /\ owed[m] \in Int /\ stalls \in Nat
    BY ClaimantSets, RequestSets DEF IInv, TypeOK
<1>3. CASE n = m
    <2>1. owed'[m] = owed[m] + 1 /\ Open(m) \in {0, 1} /\ Open(m)' \in {0, 1}
        BY <1>3 DEF ComesDue, Open, IInv, TypeOK
    <2>2. Open(m)' <= Open(m) + 1
        BY <2>1
    <2>3. QED
        BY <1>1, <1>2, <2>1, <2>2 DEF Allowed
<1>4. CASE n # m
    <2>1. owed'[m] = owed[m] /\ Open(m)' = Open(m) /\ Open(m) \in Nat
        BY <1>1, <1>4 DEF ComesDue, Open, IInv, TypeOK
    <2>2. QED
        BY <1>1, <1>2, <2>1 DEF Allowed
<1>5. QED
    BY <1>3, <1>4

LEMMA NextAllowed ==
    ASSUME IInv, [Next]_vars, NEW m \in Monitors, Allowed(m)
    PROVE  Allowed(m)'
<1>0. Staged /\ lock \in Requests \cup {NoOne} /\ todo \in [Requests -> SUBSET Monitors]
    BY DEF IInv, TypeOK
<1>1. ASSUME NEW r \in Requests, Ask(r) PROVE Allowed(m)'
    <2>1. Claimants(m)' \subseteq Claimants(m) /\ Open(m)' <= Open(m)
        BY <1>0, <1>1, RequestSteps DEF Ask, Claimants, Open, At, OthersKeep
    <2>2. QED
        BY <1>1, <2>1, KeepsAllowed DEF Ask, counters
<1>2. ASSUME NEW r \in Requests, Acquire(r) PROVE Allowed(m)'
    <2>1. stage[r] = "lock" /\ lock = NoOne /\ lock' = r /\ batch[r] = {} /\ todo[r] = {}
        BY <1>0, <1>2 DEF Acquire, At, Staged
    <2>2. Claimants(m)' \subseteq Claimants(m) /\ Open(m)' <= Open(m)
        BY <1>0, <1>2, <2>1, RequestSteps DEF Acquire, Claimants, Open, At, OthersKeep
    <2>3. QED
        BY <1>2, <2>2, KeepsAllowed DEF Acquire, counters
<1>3. ASSUME NEW r \in Requests, AcquireTimesOut(r) PROVE Allowed(m)'
    <2>1. Claimants(m)' \subseteq Claimants(m) /\ Open(m)' <= Open(m)
        BY <1>0, <1>3, RequestSteps DEF AcquireTimesOut, Claimants, Open, At, OthersKeep
    <2>2. QED
        BY <1>3, <2>1, KeepsAllowed DEF AcquireTimesOut, counters
<1>4. ASSUME NEW r \in Requests, Release(r) PROVE Allowed(m)'
    <2>1. stage[r] = "release" /\ todo[r] = {} /\ (lock' = lock \/ (lock = r /\ lock' = NoOne))
        BY <1>0, <1>4 DEF Release, At, Staged, Unlock
    <2>2. Claimants(m)' \subseteq Claimants(m) /\ Open(m)' <= Open(m)
        BY <1>0, <1>4, <2>1, RequestSteps DEF Release, Claimants, Open, At, OthersKeep
    <2>3. QED
        BY <1>4, <2>2, KeepsAllowed DEF Release, counters
<1>5. ASSUME NEW r \in Requests, Probed(r) PROVE Allowed(m)'
    BY <1>5, EndsAllowed DEF Probed, counters
<1>6. ASSUME NEW r \in Requests, Throw(r) PROVE Allowed(m)'
    BY <1>6, EndsAllowed DEF Throw, Unlock
<1>7. ASSUME NEW r \in Requests, Crash(r) PROVE Allowed(m)'
    BY <1>7, EndsAllowed DEF Crash
<1>8. CASE LeaseExpires
    <2>1. lock \in Requests /\ todo[lock] \subseteq batch[lock] /\ stage[lock] \notin Critical
        BY <1>0, <1>8 DEF LeaseExpires, Holds, IInv, TypeOK
    <2>2. todo[lock] = {} /\ stage[lock] # "find"
        BY <1>0, <2>1 DEF Staged, Critical, IInv, TypeOK, Stage
    <2>3. Claimants(m)' \subseteq Claimants(m) /\ Open(m)' <= Open(m)
        BY <1>0, <1>8, <2>1, <2>2 DEF LeaseExpires, Claimants, Open, At, requestVars
    <2>4. QED
        BY <1>8, <2>3, KeepsAllowed DEF LeaseExpires, counters
<1>9. ASSUME NEW n \in Monitors, Toggle(n) PROVE Allowed(m)'
    BY <1>9, KeepsAllowed DEF Toggle, Claimants, Open, At, requestVars
<1>10. CASE UNCHANGED vars
    BY <1>10, KeepsAllowed DEF vars, Claimants, Open, At, requestVars, counters
<1>11. QED
    BY <1>1, <1>2, <1>3, <1>4, <1>5, <1>6, <1>7, <1>8, <1>9, <1>10, FindAllowed,
       MarkAllowed, RespondAllowed, StallAllowed, ComesDueAllowed DEF Next, Step

LEMMA InitAllowed == Init => \A m \in Monitors : Allowed(m)
<1> SUFFICES ASSUME Init, NEW m \in Monitors PROVE Allowed(m)
    OBVIOUS
<1>1. Claimants(m) = {} /\ owed[m] = 0 /\ stalls = 0 /\ Open(m) = 0
    BY DEF Init, Claimants, Open, At
<1>2. QED
    BY <1>1, FS_EmptySet DEF Allowed

AllAllowed == \A m \in Monitors : Allowed(m)

\* Every monitor has been handed out no more often than it has been due, but for
\* one time with each lease its holder lost (Ingestor/API/Monitor.ts:232).
THEOREM NeverFetchedTooOften == Spec => []NeverTooOften
<1>1. IInv /\ AllAllowed /\ [Next]_vars => AllAllowed'
    BY NextAllowed DEF AllAllowed
<1>2. Init => AllAllowed
    BY InitAllowed DEF AllAllowed
<1>3. IInv /\ AllAllowed => NeverTooOften
    BY AllowedEnough DEF AllAllowed
<1>4. QED
    BY <1>1, <1>2, <1>3, InitIInv, NextIInv, PTL DEF Spec

=============================================================================
