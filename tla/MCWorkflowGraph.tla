-------------------------- MODULE MCWorkflowGraph --------------------------
(* Instances of WorkflowGraph for TLC. *)
EXTENDS WorkflowGraph

CONSTANTS t, a, z, none

SeqsUpTo(n) == UNION {[1..k -> {t, a, z}] : k \in 0..n}

\* Every graph of three components with two edges of each in any order, of
\* which a port is one; with an edge on each of two ports; and those with a
\* placeholder or without a trigger.
OnePort(targets) == [p \in Ports |-> IF p = "next" THEN targets ELSE <<>>]

TwoEdges == {[start |-> t, out |-> [n \in {t, a, z} |-> OnePort(e[n])]] :
                e \in [{t, a, z} -> SeqsUpTo(2)]}
TwoPorts == {[start |-> t, out |-> e] : e \in [{t, a, z} -> [Ports -> SeqsUpTo(1)]]}
Broken   == {[start |-> s, out |-> [n \in {t, a} |-> OnePort(e[n])]] :
                s \in {t, none}, e \in [{t, a} -> SeqsUpTo(2)]}

AllGraphs == TwoEdges \cup TwoPorts \cup Broken
=============================================================================
