--------------------------- MODULE StatusHistory ---------------------------
(***************************************************************************)
(* What a status timeline promises its readers: the timeline is a history  *)
(* of statuses to which one status is added at a time.  Adding a status    *)
(* ends the one before it and makes the new one current, all at once, so   *)
(* that exactly the newest entry is ever without an end.  The promise ends *)
(* with the first request that is interrupted half-way.                    *)
(***************************************************************************)
EXTENDS Naturals

CONSTANTS Statuses, MaxRows

VARIABLES
    length,  \* number of entries
    entry,   \* entry[i]: status of the i-th entry
    ended,   \* entries that have an end
    current, \* the status shown for the monitor
    broken   \* a request has been interrupted

historyVars == <<length, entry, ended, current, broken>>

Start ==
    /\ length = 1
    /\ entry \in [1..MaxRows -> Statuses]
    /\ ended = {}
    /\ current = entry[1]
    /\ broken = FALSE

Add(s) ==
    /\ ~broken
    /\ length' = length + 1
    /\ entry' = [entry EXCEPT ![length + 1] = s]
    /\ ended' = ended \cup {length}
    /\ current' = s
    /\ broken' = FALSE

Interrupted == broken' = TRUE

Change == Interrupted \/ \E s \in Statuses : Add(s)

History == Start /\ [][Change]_historyVars
=============================================================================
