--------------------------- MODULE KnowledgeGraph ---------------------------
(***************************************************************************)
(* knowledge/KnowledgeGraph: a table of nodes and, for every edge, one     *)
(* copy in the list of its source and one in the list of its target.  An   *)
(* edge may name nodes that are not in the table.  One mutex, so every     *)
(* operation is one action; what nodes say (names, types, properties) is   *)
(* left out.                                                               *)
(***************************************************************************)
EXTENDS Naturals, Sequences, SequencesExt, Maps

CONSTANTS
    Node,           \* ids
    Relation,       \* RelationType
    MaxEdges,       \* bound: edges in the graph
    MaxDepth        \* depths of searches

ASSUME GraphAssumption == IsFiniteSet(Node) /\ MaxEdges \in Nat /\ MaxDepth \in Nat

VARIABLES
    nodes_,         \* ids in the table
    outgoing,       \* outgoing_edges_: id -> edges
    incoming        \* incoming_edges_: id -> edges

graphVars == <<nodes_, outgoing, incoming>>

Edge == [from : Node, to : Node, relation : Relation]

graphInit ==
    /\ nodes_ = {}
    /\ outgoing = [n \in Node |-> <<>>]
    /\ incoming = [n \in Node |-> <<>>]

Edges == UNION {ToSet(outgoing[n]) : n \in Node}
EdgeCount == FoldSet(LAMBDA n, acc : Len(outgoing[n]) + acc, 0, Node)

InsertNode(n) == nodes_' = nodes_ \cup {n} /\ UNCHANGED <<outgoing, incoming>>

EdgesFrom(n) == {e \in Edge : e.from = n}
EdgesTo(n) == {e \in Edge : e.to = n}

\* removeNode: its own two lists, and its edges in the lists of others.
ErasedNode(n) ==
    /\ nodes_' = nodes_ \ {n}
    /\ outgoing' = [m \in Node |-> IF m = n THEN <<>> ELSE Erased(outgoing[m], EdgesTo(n))]

\* Mutant: the copies of its edges at their targets stay.
EraseOneSide(n) ==
    /\ ErasedNode(n)
    /\ incoming' = [incoming EXCEPT ![n] = <<>>]

EraseNode(n) ==
    /\ ErasedNode(n)
    /\ incoming' = [m \in Node |-> IF m = n THEN <<>> ELSE Erased(incoming[m], EdgesFrom(n))]

AddEdge(e) ==
    /\ EdgeCount < MaxEdges
    /\ outgoing' = [outgoing EXCEPT ![e.from] = Append(@, e)]
    /\ incoming' = [incoming EXCEPT ![e.to] = Append(@, e)]
    /\ UNCHANGED nodes_

\* exportToJson: the nodes, and the outgoing lists in the order of the table.
Exported(order) == FlattenSeq([i \in DOMAIN order |-> outgoing[order[i]]])

\* importFromJson: everything is cleared, then nodes and edges are added one
\* by one; an entry that cannot be read ends it there, with what is done done.
Import(ids, edges) ==
    /\ nodes_' = ids
    /\ outgoing' = [n \in Node |-> Erased(edges, Edge \ EdgesFrom(n))]
    /\ incoming' = [n \in Node |-> Erased(edges, Edge \ EdgesTo(n))]

ImportGraph ==
    \E order \in SetToSeqs(Node) :
      LET edges == Exported(order)
      IN  \/ Import(nodes_, edges)
          \/ \E ids \in SUBSET nodes_ : Import(ids, <<>>)
          \/ \E k \in DOMAIN edges : Import(nodes_, SubSeq(edges, 1, k - 1))

ClearGraph == Import({}, <<>>)

graphNext ==
    \/ \E n \in Node : InsertNode(n) \/ EraseNode(n)
    \/ \E e \in Edge : AddEdge(e)
    \/ ImportGraph \/ ClearGraph

graphSpec == graphInit /\ [][graphNext]_graphVars

----------------------------------------------------------------------------
(* findRelatedEntities: a queue of <<id, depth>>; first the outgoing, then *)
(* the incoming edges of each id, optionally of one relation only.         *)

\* The other end of an edge in a list of n.
Beyond(n, e) == IF e.from = n THEN e.to ELSE e.from

Meet(search, n, depth) ==
    IF n \in search.visited THEN search
    ELSE [queue |-> Append(search.queue, <<n, depth>>),
          visited |-> search.visited \cup {n},
          results |-> IF n \in nodes_ THEN Append(search.results, n) ELSE search.results]

Follow(search, current, e, relations) ==
    IF e.relation \in relations THEN Meet(search, Beyond(current[1], e), current[2] + 1) ELSE search

FollowAll(search, current, edges, relations) ==
    FoldLeft(LAMBDA s, e : Follow(s, current, e, relations), search, edges)

Visit(search, depth, relations) ==
    LET current == Head(search.queue)
        rest == [search EXCEPT !.queue = Tail(@)]
    IN  IF current[2] >= depth THEN rest
        ELSE FollowAll(rest, current, outgoing[current[1]] \o incoming[current[1]], relations)

Begun(start) == [queue |-> <<<<start, 0>>>>, visited |-> {start}, results |-> <<>>]
Turn(search, depth, relations) == IF search.queue = <<>> THEN search ELSE Visit(search, depth, relations)

\* No id enters the queue twice, so that as many turns as ids empty it.
FindRelated(start, depth, relations) ==
    FoldLeft(LAMBDA s, i : Turn(s, depth, relations), Begun(start), [i \in 1..Cardinality(Node) |-> i])

----------------------------------------------------------------------------
\* Every edge is in the list of its source if and only if it is in that of
\* its target, and no list has an edge of another node, whatever was added,
\* removed or half imported.
EdgesMirror ==
    /\ \A n \in Node : ToSet(outgoing[n]) \subseteq EdgesFrom(n) /\ ToSet(incoming[n]) \subseteq EdgesTo(n)
    /\ \A e \in Edge : e \in ToSet(outgoing[e.from]) <=> e \in ToSet(incoming[e.to])

\* The ids at the other ends of the edges of n.
Beside(n, relations) ==
    {e.to : e \in {f \in Edges : f.from = n /\ f.relation \in relations}}
      \cup {e.from : e \in {f \in Edges : f.to = n /\ f.relation \in relations}}

\* The ids at the ends of the walks from start over so many edges at most,
\* each followed either way.
Within(start, depth, relations) ==
    LET beside == [n \in Node |-> Beside(n, relations)]
        walks(k) == {w \in [0..k -> Node] : w[0] = start /\ \A i \in 1..k : w[i] \in beside[w[i - 1]]}
    IN  UNION {{w[k] : w \in walks(k)} : k \in 0..depth}

\* A search answers with every node of the table at most so many edges away,
\* once each and without the start, although it walks ids that have no node
\* and copies of edges kept by two lists.
RelatedIsComplete ==
    \A start \in Node, depth \in 0..MaxDepth, relations \in SUBSET Relation \ {{}} :
      LET search == FindRelated(start, depth, relations)
      IN  /\ search.queue = <<>>
          /\ ToSet(search.results) = (nodes_ \cap Within(start, depth, relations)) \ {start}
          /\ Len(search.results) = Cardinality(ToSet(search.results))

\* The same of a graph with edges; in any other there is nothing to find.
RelatedAreFound == Edges # {} => RelatedIsComplete
=============================================================================
