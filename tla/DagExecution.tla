---------------------------- MODULE DagExecution ----------------------------
(***************************************************************************)
(* What the executor of a task graph promises its caller, without threads, *)
(* queue or counters: a node is decided only after everything it depends   *)
(* on has completed, nodes are skipped only below a failure, execute()     *)
(* returns only when nothing more can run (or it was cancelled), and it    *)
(* reports success exactly when every node completed and nobody cancelled. *)
(***************************************************************************)
CONSTANTS Node, Graphs

VARIABLES
    adj,      \* the successors of each node
    running,  \* the caller is inside execute()
    outcome,  \* what became of each node
    stop,     \* cancellation was requested
    success   \* what the last execute() returned

vars == <<adj, running, outcome, stop, success>>

Preds(n) == {p \in Node : n \in adj[p]}

Undecided == [n \in Node |-> "undecided"]

\* A node nobody has decided although everything before it has completed.
Runnable(n) ==
    outcome[n] = "undecided" /\ \A p \in Preds(n) : outcome[p] = "completed"

Init ==
    /\ adj \in Graphs
    /\ running = FALSE
    /\ outcome = Undecided
    /\ stop = FALSE
    /\ success = FALSE

Begin ==
    /\ ~running
    /\ running' = TRUE
    /\ outcome' = Undecided
    /\ stop' = FALSE
    /\ UNCHANGED <<adj, success>>

\* A cyclic graph is refused, an empty one is a success.
Refuse ==
    /\ ~running
    /\ stop' = FALSE
    /\ success' = (Node = {})
    /\ UNCHANGED <<adj, running, outcome>>

Complete(n) ==
    /\ running
    /\ Runnable(n)
    /\ outcome' = [outcome EXCEPT ![n] = "completed"]
    /\ UNCHANGED <<adj, running, stop, success>>

Fail(n) ==
    /\ running
    /\ Runnable(n)
    /\ outcome' = [outcome EXCEPT ![n] = "failed"]
    /\ UNCHANGED <<adj, running, stop, success>>

Skip(n) ==
    /\ running
    /\ outcome[n] = "undecided"
    /\ \E p \in Preds(n) : outcome[p] \in {"failed", "skipped"}
    /\ outcome' = [outcome EXCEPT ![n] = "skipped"]
    /\ UNCHANGED <<adj, running, stop, success>>

Cancel ==
    /\ stop' = TRUE
    /\ UNCHANGED <<adj, running, outcome, success>>

Return ==
    /\ running
    /\ stop \/ \A n \in Node : ~Runnable(n)
    /\ running' = FALSE
    /\ success' = (~stop /\ \A n \in Node : outcome[n] = "completed")
    /\ UNCHANGED <<adj, outcome, stop>>

Reset ==
    /\ ~running
    /\ outcome' = Undecided
    /\ UNCHANGED <<adj, running, stop, success>>

Next ==
    \/ Begin \/ Refuse \/ Cancel \/ Return \/ Reset
    \/ \E n \in Node : Complete(n) \/ Fail(n) \/ Skip(n)

Spec == Init /\ [][Next]_vars
=============================================================================
