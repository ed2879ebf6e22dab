--------------------------- MODULE WorkflowGraph ---------------------------
(***************************************************************************)
(* How one run of a workflow executes its graph.  The components wait in a *)
(* queue that the trigger is put in first.  The head is executed and       *)
(* chooses one of its ports; the components connected to that port, in the *)
(* order of the edges, are queued unless they are waiting already, one in  *)
(* each step of the loop, which nothing else comes between.  The           *)
(* run stops when a component chooses no port, and fails when one has been *)
(* executed before, is missing or reports an error, or when the time is up *)
(* before it is the next one's turn.                                       *)
(*                                                                         *)
(* The names leave room for those of WorkflowRun, whose workers take this  *)
(* walk: one module can extend both.                                       *)
(***************************************************************************)
EXTENDS Integers, FiniteSets, Sequences, SequencesExt

CONSTANTS Components,  \* identifiers that a graph's nodes and edges may have
          NoComponent, \* of the trigger, in a graph without one
          Ports, NoPort,
          Graphs

\* A component without an entry in out is a placeholder.
RunStacks ==
    /\ NoPort \notin Ports
    /\ \A g \in Graphs :
          /\ g.start \in Components
          /\ DOMAIN g.out \subseteq Components \ {NoComponent}
          /\ \A c \in DOMAIN g.out : g.out[c] \in [Ports -> Seq(Components)]

ASSUME GraphAssumption == RunStacks

VARIABLES
    graph,    \* start, and the targets connected to each port of each node
    fifo,     \* fifoStackOfComponentsPendingExecution
    executed, \* componentsExecuted
    todo,     \* nodesToBeExecuted that are still to be queued
    taken,    \* history: the port each of them has chosen
    outcome

walkVars == <<graph, fifo, executed, todo, taken, outcome>>

WalkTypeOK ==
    /\ fifo \in Seq(Components) /\ IsInjective(fifo)
    /\ executed \in SUBSET Components
    /\ todo \in Seq(Components)
    /\ taken \in [Components -> Ports \cup {NoPort}]
    /\ outcome \in {"none", "Success", "Stopped", "Cyclic", "Missing", "Error", "Timeout"}

WalkInit ==
    /\ graph \in Graphs
    /\ fifo = <<graph.start>>
    /\ executed = {}
    /\ todo = <<>>
    /\ taken = [c \in Components |-> NoPort]
    /\ outcome = "none"

-----------------------------------------------------------------------------
Pending == outcome = "none" /\ todo = <<>> /\ fifo # <<>>

\* Mutant: only one component may wait.
PushOne(f, c) == IF f = <<>> THEN <<c>> ELSE f

Push(f, c) == IF c \in ToSet(f) THEN f ELSE Append(f, c)

\* Mutant: the head is read but not removed.
RestKept(f) == f

Rest(f) == Tail(f)

\* Mutant: what has been executed may be executed again.
ExecutableAgain == DOMAIN graph.out

Executable == DOMAIN graph.out \ executed

\* The component chooses a port, or none, or reports an error.
ExecuteHead ==
    /\ Pending
    /\ LET c == Head(fifo)
       IN  /\ c \in Executable
           /\ executed' = executed \cup {c}
           /\ \/ \E p \in Ports :
                    /\ todo' = graph.out[c][p]
                    /\ taken' = [taken EXCEPT ![c] = p]
                    /\ UNCHANGED outcome
              \/ outcome' \in {"Stopped", "Error"} /\ UNCHANGED <<todo, taken>>
    /\ fifo' = Rest(fifo)
    /\ UNCHANGED graph

\* The loop over the targets of the port's edges.
Queue ==
    /\ todo # <<>>
    /\ fifo' = Push(fifo, Head(todo))
    /\ todo' = Tail(todo)
    /\ UNCHANGED <<graph, executed, taken, outcome>>

RefuseHead ==
    /\ Pending
    /\ \/ Head(fifo) \in executed /\ outcome' = "Cyclic"
       \/ Head(fifo) \notin executed \cup DOMAIN graph.out /\ outcome' = "Missing"
    /\ UNCHANGED <<graph, fifo, executed, todo, taken>>

\* Looked at between two components only.
TimesOut ==
    /\ Pending
    /\ outcome' = "Timeout"
    /\ UNCHANGED <<graph, fifo, executed, todo, taken>>

Finish ==
    /\ outcome = "none" /\ todo = <<>> /\ fifo = <<>>
    /\ outcome' = "Success"
    /\ UNCHANGED <<graph, fifo, executed, todo, taken>>

WalkNext == ExecuteHead \/ Queue \/ RefuseHead \/ TimesOut \/ Finish

WalkSpec == WalkInit /\ [][WalkNext]_walkVars

\* A component comes back, if only with an error.
FairWalk == WalkSpec /\ WF_walkVars(ExecuteHead \/ Queue \/ RefuseHead \/ Finish)

-----------------------------------------------------------------------------
(* Properties.                                                             *)

Targets(c) == IF taken[c] = NoPort THEN {} ELSE ToSet(graph.out[c][taken[c]])

\* The least set that holds the trigger and what the ports taken lead to.
Reached ==
    {c \in Components :
        \A S \in SUBSET Components :
            graph.start \in S /\ (\A b \in S : Targets(b) \subseteq S) => c \in S}

\* A run executes nothing that its ports have not led to, and one that ends
\* with an empty queue has executed all of that.
ReachedIsExecuted ==
    /\ executed \subseteq Reached
    /\ outcome = "Success" => executed = Reached

Ways(c) == {b \in executed : c \in Targets(b)}

\* "Cyclic Workflow Detected" is said only of a component that two executed ones
\* lead to, or that leads back to the trigger: never in a tree.  It is said of
\* acyclic graphs too: of a component that was executed before the second of
\* its predecessors.
CyclicHasTwoWays ==
    outcome = "Cyclic" =>
        Cardinality(Ways(Head(fifo))) + (IF Head(fifo) = graph.start THEN 1 ELSE 0) >= 2

\* However the graph's edges run and its components choose, the run ends.
WalkEnds == <>(outcome # "none")
=============================================================================
