----------------------------- MODULE TaskGraph -----------------------------
(***************************************************************************)
(* The directed graph of tasks (src/src/taskgraph/taskgraph.cpp, class     *)
(* TaskGraph).  Every node keeps two lists, its dependencies and its       *)
(* dependents; a list may name a node that is not in the graph yet.  Each  *)
(* operation runs under mutex_, so it is one action.                       *)
(*                                                                         *)
(* The lists are sets here: the code inserts after std::find and never     *)
(* reads a position.                                                       *)
(***************************************************************************)
EXTENDS FiniteSets

CONSTANTS
    Id,     \* the node identifiers callers use
    State   \* the TaskNodeState values in play

ASSUME StateAssumption == "Pending" \in State

VARIABLE nodes  \* nodes_: a record for each node of the graph

vars == <<nodes>>

NodeRecord == [dependencies : SUBSET Id, dependents : SUBSET Id, state : State]

EmptyGraph == [id \in {} |-> id]

----------------------------------------------------------------------------
(* Operations on a graph value                                             *)

If(cond, S) == IF cond THEN S ELSE {}

\* addNode without its second loop over the existing nodes.
InsertForwardOnly(g, id, n) ==
    [x \in DOMAIN g \cup {id} |->
        IF x = id
        THEN [n EXCEPT !.dependencies = @ \cup If(id \in n.dependents, {id}),
                       !.dependents = @ \cup If(id \in n.dependencies, {id})]
        ELSE [g[x] EXCEPT !.dependents = @ \cup If(x \in n.dependencies, {id}),
                          !.dependencies = @ \cup If(x \in n.dependents, {id})]]

\* addNode of a new identifier: the prerequisites learn of their dependent, the
\* existing nodes that name id are taken over, the successors learn of their
\* dependency.  id itself is in nodes_ when the loops run.
Insert(g, id, n) ==
    [x \in DOMAIN g \cup {id} |->
        IF x = id
        THEN [dependencies |-> n.dependencies \cup If(id \in n.dependents, {id})
                                 \cup {e \in DOMAIN g : id \in g[e].dependents},
              dependents |-> n.dependents \cup If(id \in n.dependencies, {id})
                               \cup {e \in DOMAIN g : id \in g[e].dependencies},
              state |-> n.state]
        ELSE [dependencies |-> g[x].dependencies \cup If(x \in n.dependents, {id}),
              dependents |-> g[x].dependents \cup If(x \in n.dependencies, {id}),
              state |-> g[x].state]]

\* The edges every algorithm works on: those either list names, between nodes
\* of the graph.
Successors(g) ==
    [x \in DOMAIN g |->
        {y \in DOMAIN g : y \in g[x].dependents \/ x \in g[y].dependencies}]

\* The test of getReadyNodes on the wrong list.
DependentsCompleted(g, x) ==
    \A d \in g[x].dependents : d \in DOMAIN g /\ g[d].state = "Completed"

\* getReadyNodes, and areDependenciesCompleted for each of them: a dependency
\* that is not in the graph counts as not completed.
DependenciesCompleted(g, x) ==
    \A d \in g[x].dependencies : d \in DOMAIN g /\ g[d].state = "Completed"

ReadyNodes(g) ==
    {x \in DOMAIN g : g[x].state = "Pending" /\ DependenciesCompleted(g, x)}

----------------------------------------------------------------------------
(* The specification                                                       *)

Init == nodes = EmptyGraph

\* addNode; false and no change when the identifier is taken.
AddNode(id, n) ==
    /\ id \notin DOMAIN nodes
    /\ nodes' = Insert(nodes, id, n)

\* removeNode also erases the identifier from every list.
RemoveNode(id) ==
    /\ id \in DOMAIN nodes
    /\ nodes' = [x \in DOMAIN nodes \ {id} |->
                   [nodes[x] EXCEPT !.dependencies = @ \ {id},
                                    !.dependents = @ \ {id}]]

\* addDependency(from, to); false for a loop or an unknown node.
AddDependency(from, to) ==
    /\ from # to
    /\ {from, to} \subseteq DOMAIN nodes
    /\ nodes' = [nodes EXCEPT ![from].dependents = @ \cup {to},
                              ![to].dependencies = @ \cup {from}]

\* A caller (the executor's sync-back) writes a state through getNodeRef.
WriteState(id, s) ==
    /\ id \in DOMAIN nodes
    /\ nodes' = [nodes EXCEPT ![id].state = s]

Reset == nodes' = [x \in DOMAIN nodes |-> [nodes[x] EXCEPT !.state = "Pending"]]

Next ==
    \/ \E id \in Id, n \in NodeRecord : AddNode(id, n)
    \/ \E id \in Id : RemoveNode(id)
    \/ \E from, to \in Id : AddDependency(from, to)
    \/ \E id \in Id, s \in State : WriteState(id, s)
    \/ Reset

Spec == Init /\ [][Next]_vars

----------------------------------------------------------------------------
(* Properties                                                              *)

\* nodes_ is a finite map from identifiers to well-formed nodes.
TypeOK == DOMAIN nodes \subseteq Id /\ nodes \in [DOMAIN nodes -> NodeRecord]

\* "Maintain bidirectional dependency consistency": between two nodes of the
\* graph the two lists agree, in whatever order nodes that name each other are
\* added, removed and added again.
Bidirectional ==
    \A a, b \in DOMAIN nodes :
        b \in nodes[a].dependents <=> a \in nodes[b].dependencies
=============================================================================
