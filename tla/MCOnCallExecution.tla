------------------------- MODULE MCOnCallExecution -------------------------
(* Instances of OnCallExecution for TLC. *)
EXTENDS OnCallExecution

\* Rule 1 escalates after a minute, every other rule at once.
OneMinuteFirst == [x \in Rules |-> IF x = 1 THEN 1 ELSE 0]
=============================================================================
