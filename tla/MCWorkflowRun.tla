--------------------------- MODULE MCWorkflowRun ---------------------------
(* Instances of WorkflowRun for TLC. *)
EXTENDS WorkflowRun

\* Bound on the runs that begin and the faults that occur, taken together.
CONSTANT MaxEvents

BoundedNext ==
    /\ Next
    /\ Cardinality({r \in Runs : req'[r] # "idle"}) + throws' + crashes' + stalls' <= MaxEvents

BoundedSpec == Init /\ [][BoundedNext]_vars /\ Fairness
=============================================================================
