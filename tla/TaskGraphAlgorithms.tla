------------------------ MODULE TaskGraphAlgorithms ------------------------
(***************************************************************************)
(* The graph algorithms of src/src/taskgraph/taskgraph.cpp as operators:   *)
(* hasCycle, getTopologicalOrder, getExecutionLevels and the JSON pair,    *)
(* the reference definitions they are checked against, and what they       *)
(* promise of every graph the operations of TaskGraph build.               *)
(*                                                                         *)
(* order is the sequence in which an unordered_map yields the nodes, which *)
(* the standard leaves open.  adj maps each node to the list of its        *)
(* successors, whose order follows from that of the traversal and of the   *)
(* lists of the nodes: any is allowed.                                     *)
(***************************************************************************)
EXTENDS TaskGraph, Naturals, SequencesExt, Maps

\* The orders in which the nodes of a graph may be traversed.
Orders(g) == SetToSeqs(DOMAIN g)

\* adj, without repetitions, as std::find sees to.
AdjLists(succ) ==
    {adj \in [DOMAIN succ -> UNION {SetToSeqs(succ[u]) : u \in DOMAIN succ}] :
        \A u \in DOMAIN succ : ToSet(adj[u]) = succ[u]}

----------------------------------------------------------------------------
(* hasCycle: depth-first search with three colours                         *)

Searches(adj) == [cycle : BOOLEAN, colour : [DOMAIN adj -> {"white", "gray", "black"}]]

Coloured(acc, u, c) == [acc EXCEPT !.colour[u] = c]

LeaveGray(acc, u) == acc
LeaveBlack(acc, u) == Coloured(acc, u, "black")

\* One successor of the node being visited; deeper is the recursive call.
Look(deeper, acc, v) ==
    IF acc.cycle THEN acc
    ELSE CASE acc.colour[v] = "gray" -> [acc EXCEPT !.cycle = TRUE]
           [] acc.colour[v] = "white" -> deeper[<<acc, v>>]
           [] OTHER -> acc

LookAll(deeper, acc, list) == FoldLeft(LAMBDA a, v : Look(deeper, a, v), acc, list)

Visit(adj, deeper, acc, u) ==
    LET seen == LookAll(deeper, Coloured(acc, u, "gray"), adj[u])
    IN  IF seen.cycle THEN seen ELSE LeaveBlack(seen, u)

\* dfs, its recursion unfolded once for each node: no call is deeper, as each
\* of the calls under way has turned another node gray.
Dfs(adj, order) ==
    LET calls == Searches(adj) \X DOMAIN adj
    IN  FoldLeft(LAMBDA deeper, x : [call \in calls |-> Visit(adj, deeper, call[1], call[2])],
                 [call \in calls |-> call[1]], order)

AllWhite(adj) == [cycle |-> FALSE, colour |-> [u \in DOMAIN adj |-> "white"]]

SearchFrom(dfs, acc, u) == IF acc.cycle \/ acc.colour[u] # "white" THEN acc ELSE dfs[<<acc, u>>]

HasCycle(adj, order) ==
    LET dfs == Dfs(adj, order)
    IN  FoldLeft(LAMBDA a, u : SearchFrom(dfs, a, u), AllWhite(adj), order).cycle

----------------------------------------------------------------------------
(* getTopologicalOrder and getExecutionLevels: Kahn's algorithm            *)

InDegrees(adj) ==
    [v \in DOMAIN adj |-> Cardinality({u \in DOMAIN adj : v \in ToSet(adj[u])})]

Lowered(deg, vs) == [v \in DOMAIN deg |-> IF v \in vs THEN deg[v] - 1 ELSE deg[v]]

\* --in_degree[v] for each successor; the ones that reach zero are appended.
ReleasePostfix(adj, acc, u) ==
    [deg |-> Lowered(acc.deg, ToSet(adj[u])),
     out |-> acc.out \o Erased(adj[u], {v \in DOMAIN adj : acc.deg[v] # 0})]

Release(adj, acc, u) ==
    [deg |-> Lowered(acc.deg, ToSet(adj[u])),
     out |-> acc.out \o Erased(adj[u], {v \in DOMAIN adj : acc.deg[v] # 1})]

Initial(adj, order) == Erased(order, {v \in DOMAIN adj : InDegrees(adj)[v] # 0})

\* One turn of the loop over the queue.
Drain(adj, queue) ==
    IF queue.out = <<>> THEN queue
    ELSE LET u == Head(queue.out)
             freed == Release(adj, [deg |-> queue.deg, out |-> Tail(queue.out)], u)
         IN  [deg |-> freed.deg, out |-> freed.out, done |-> Append(queue.done, u)]

\* A turn for each node: the queue is empty then, as none enters it twice.
Drained(adj, order) ==
    FoldLeft(LAMBDA queue, x : Drain(adj, queue),
             [deg |-> InDegrees(adj), out |-> Initial(adj, order), done |-> <<>>], order)

TopologicalOrder(adj, order) ==
    LET done == Drained(adj, order).done
    IN  IF Len(done) = Cardinality(DOMAIN adj) THEN done ELSE <<>>

ReleaseAll(adj, acc, level) == FoldLeft(LAMBDA a, u : Release(adj, a, u), acc, level)

\* One turn of the loop over the levels.
NextLevel(adj, acc) ==
    IF acc.level = <<>> THEN acc
    ELSE LET freed == ReleaseAll(adj, [deg |-> acc.deg, out |-> <<>>], acc.level)
         IN  [deg |-> freed.deg, level |-> freed.out, levels |-> Append(acc.levels, acc.level)]

ExecutionLevels(adj, order) ==
    FoldLeft(LAMBDA acc, x : NextLevel(adj, acc),
             [deg |-> InDegrees(adj), level |-> Initial(adj, order), levels |-> <<>>], order).levels

----------------------------------------------------------------------------
(* fromJsonString: addNode of the nodes in the order of the array          *)

RestoreWithoutDependents(g, o) ==
    FoldLeft(LAMBDA acc, x : Insert(acc, x, [g[x] EXCEPT !.dependents = {}]), EmptyGraph, o)
Restore(g, o) == FoldLeft(LAMBDA acc, x : Insert(acc, x, g[x]), EmptyGraph, o)

----------------------------------------------------------------------------
(* Reference definitions                                                   *)

\* A cycle: a nonempty set in which every node has a successor.
Cyclic(succ) ==
    \E S \in SUBSET DOMAIN succ : S # {} /\ \A u \in S : succ[u] \cap S # {}

\* v lies in every set that holds the successors of u and of its own elements.
Reaches(succ, u, v) ==
    \A S \in SUBSET DOMAIN succ :
        (succ[u] \subseteq S /\ \A x \in S : succ[x] \subseteq S) => v \in S

\* v lies on a cycle, or a cycle reaches it.
BehindCycle(succ, v) ==
    \E u \in DOMAIN succ : Reaches(succ, u, u) /\ (u = v \/ Reaches(succ, u, v))

IsTopological(succ, list) ==
    /\ ToSet(list) = DOMAIN succ
    /\ \A i, j \in DOMAIN list : list[j] \in succ[list[i]] => i < j

----------------------------------------------------------------------------
(* Properties                                                              *)

\* hasCycle answers the question, in whatever order the map is traversed.
HasCycleIsCorrect ==
    LET succ == Successors(nodes)
    IN  \A order \in Orders(nodes), adj \in AdjLists(succ) :
          HasCycle(adj, order) <=> Cyclic(succ)

\* getTopologicalOrder returns every node once with all edges forward, and
\* nothing at all when there is a cycle.
TopologicalOrderIsCorrect ==
    LET succ == Successors(nodes)
    IN  \A order \in Orders(nodes), adj \in AdjLists(succ) :
          LET list == TopologicalOrder(adj, order)
          IN  IF Cyclic(succ) THEN list = <<>>
              ELSE IsTopological(succ, list) /\ Len(list) = Cardinality(DOMAIN nodes)

\* getExecutionLevels puts each node that no cycle reaches in exactly one
\* level, once, strictly after the levels of all its predecessors, and leaves
\* out precisely the nodes on or behind a cycle, which it does not report.
LevelsAreCorrect ==
    LET succ == Successors(nodes)
    IN  \A order \in Orders(nodes), adj \in AdjLists(succ) :
          LET levels == ExecutionLevels(adj, order)
              at(v) == {i \in DOMAIN levels : v \in ToSet(levels[i])}
          IN  /\ \A i \in DOMAIN levels : IsInjective(levels[i])
              /\ \A v \in DOMAIN nodes :
                    /\ at(v) = {} <=> BehindCycle(succ, v)
                    /\ Cardinality(at(v)) <= 1
                    /\ \A u \in DOMAIN nodes : v \in succ[u] =>
                         \A j \in at(v) : \E i \in at(u) : i < j

\* The successors among the nodes that are not completed.
Unfinished(g) ==
    LET rest == {x \in DOMAIN g : g[x].state # "Completed"}
    IN  [x \in rest |-> Successors(g)[x] \cap rest]

\* getReadyNodes and getExecutionLevels agree: when no list names a missing
\* node, the ready nodes are the pending ones in the first level of what is
\* still to be done (so an acyclic graph never gets stuck).
ReadyIsNextLevel ==
    LET rest == Unfinished(nodes)
    IN  (\A x \in DOMAIN nodes : nodes[x].dependencies \subseteq DOMAIN nodes) =>
          \A order \in Orders(rest), adj \in AdjLists(rest) :
            {x \in ToSet(Initial(adj, order)) : nodes[x].state = "Pending"} = ReadyNodes(nodes)

\* fromJsonString(toJsonString(g)) is g, although the nodes are added one by
\* one, in any order, and addNode edits the lists of its neighbours.
JsonRoundTrips == \A order \in Orders(nodes) : Restore(nodes, order) = nodes

\* On every graph the operations can build, and in whatever order the hash
\* map is traversed, each algorithm gives what its name promises, and the
\* graph survives its JSON form.
AlgorithmsAreCorrect ==
    /\ HasCycleIsCorrect
    /\ TopologicalOrderIsCorrect
    /\ LevelsAreCorrect
    /\ ReadyIsNextLevel
    /\ JsonRoundTrips
=============================================================================
