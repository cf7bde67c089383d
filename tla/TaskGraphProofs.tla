--------------------------- MODULE TaskGraphProofs ---------------------------
(***************************************************************************)
(* Machine-checked proofs about the task graph: the specification of       *)
(* TaskGraph, and the algorithms of TaskGraphAlgorithms on every finite    *)
(* graph.  A fold stands for a loop: each proof names the values it passes *)
(* through, states what holds of them after n turns and counts up.         *)
(***************************************************************************)
EXTENDS TaskGraphAlgorithms, CollectionProofs, FunctionTheorems, FiniteSetTheorems, TLAPS

----------------------------------------------------------------------------
(* Cycles and what is behind them                                          *)

\* A successor is reached.
LEMMA ReachesFirst ==
    ASSUME NEW Node, NEW succ \in [Node -> SUBSET Node], NEW x \in Node, NEW y \in succ[x]
    PROVE  Reaches(succ, x, y)
BY DEF Reaches

\* What a successor reaches is reached.
LEMMA ReachesFurther ==
    ASSUME NEW Node, NEW succ \in [Node -> SUBSET Node],
           NEW x \in Node, NEW y \in succ[x], NEW z, Reaches(succ, y, z)
    PROVE  Reaches(succ, x, z)
<1> SUFFICES ASSUME NEW S \in SUBSET Node, succ[x] \subseteq S, \A w \in S : succ[w] \subseteq S
             PROVE  z \in S
  BY DEF Reaches
<1> QED
  BY DEF Reaches

\* Reaching is transitive.
LEMMA ReachesIsTransitive ==
    ASSUME NEW Node, NEW succ \in [Node -> SUBSET Node],
           NEW x \in Node, NEW y \in Node, NEW z, Reaches(succ, x, y), Reaches(succ, y, z)
    PROVE  Reaches(succ, x, z)
<1> SUFFICES ASSUME NEW S \in SUBSET Node, succ[x] \subseteq S, \A w \in S : succ[w] \subseteq S
             PROVE  z \in S
  BY DEF Reaches
<1>1. y \in S
  BY DEF Reaches
<1> QED
  BY <1>1 DEF Reaches

\* What is reached is reached through a successor.
LEMMA ReachesThrough ==
    ASSUME NEW Node, NEW succ \in [Node -> SUBSET Node], NEW x \in Node, NEW z, Reaches(succ, x, z)
    PROVE  \E y \in succ[x] : y = z \/ Reaches(succ, y, z)
<1> DEFINE S == {w \in Node : \E y \in succ[x] : y = w \/ Reaches(succ, y, w)}
<1>1. succ[x] \subseteq S
  OBVIOUS
<1>2. ASSUME NEW w \in S, NEW v \in succ[w]
      PROVE  v \in S
  <2>1. PICK y \in succ[x] : y = w \/ Reaches(succ, y, w)
    OBVIOUS
  <2>2. y \in Node /\ w \in Node /\ v \in Node
    OBVIOUS
  <2>3. Reaches(succ, w, v)
    BY <2>2, ReachesFirst
  <2>4. Reaches(succ, y, v)
    BY <2>1, <2>2, <2>3, ReachesIsTransitive
  <2> QED
    BY <2>2, <2>4
<1> HIDE DEF S
<1>3. S \in SUBSET Node
  BY DEF S
<1>4. z \in S
  BY <1>1, <1>2, <1>3 DEF Reaches
<1> QED
  BY <1>4 DEF S

\* A node that reaches itself is on a cycle.
LEMMA ReachesItself ==
    ASSUME NEW Node, NEW succ \in [Node -> SUBSET Node], NEW u \in Node, Reaches(succ, u, u)
    PROVE  Cyclic(succ)
<1> DEFINE S == {x \in Node : Reaches(succ, x, u) /\ (x = u \/ Reaches(succ, u, x))}
<1>1. u \in S
  OBVIOUS
<1>2. ASSUME NEW x \in S
      PROVE  succ[x] \cap S # {}
  <2>1. PICK y \in succ[x] : y = u \/ Reaches(succ, y, u)
    BY ReachesThrough
  <2>2. x \in Node /\ y \in Node
    OBVIOUS
  <2>3. Reaches(succ, y, u)
    BY <2>1
  <2>4. Reaches(succ, x, y)
    BY <2>2, ReachesFirst
  <2>5. Reaches(succ, u, y)
    BY <2>2, <2>4, ReachesIsTransitive
  <2> QED
    BY <2>2, <2>3, <2>5
<1> HIDE DEF S
<1>3. S \in SUBSET Node
  BY DEF S
<1> QED
  BY <1>1, <1>2, <1>3 DEF Cyclic

\* Every node of T has a predecessor in T.
Sourceless(succ, T) == \A v \in T : \E u \in T : v \in succ[u]

\* Such a set, when it is finite, holds a node on a cycle: take a smallest one
\* inside it; every node of that one reaches any given one.
LEMMA SourcelessHoldsCycle ==
    ASSUME NEW Node, IsFiniteSet(Node), NEW succ \in [Node -> SUBSET Node],
           NEW T \in SUBSET Node, T # {}, Sourceless(succ, T)
    PROVE  \E u \in T : Reaches(succ, u, u)
<1> DEFINE C == {P \in SUBSET T : P # {} /\ Sourceless(succ, P)}
<1>1. PICK P \in C : \A Q \in C : ~(Cardinality(Q) < Cardinality(P))
  <2>1. C # {} /\ \A P \in C : IsFiniteSet(P)
    BY FS_Subset
  <2> HIDE DEF C
  <2> QED
    BY <2>1, SmallestSet
<1>2. P \in SUBSET T /\ P # {} /\ Sourceless(succ, P) /\ IsFiniteSet(P)
  BY <1>1, FS_Subset
<1>3. PICK u \in P : TRUE
  BY <1>2
<1> DEFINE A == {x \in P : Reaches(succ, x, u)}
<1>4. A \in SUBSET P
  OBVIOUS
<1>5. A # {}
  <2>1. PICK x \in P : u \in succ[x]
    BY <1>2 DEF Sourceless
  <2>2. Reaches(succ, x, u)
    BY <1>2, <2>1, ReachesFirst
  <2> QED
    BY <2>2
<1>6. Sourceless(succ, A)
  <2> SUFFICES ASSUME NEW v \in A PROVE \E x \in A : v \in succ[x]
    BY DEF Sourceless
  <2>1. PICK x \in P : v \in succ[x]
    BY <1>2 DEF Sourceless
  <2>2. Reaches(succ, x, u)
    BY <1>2, <2>1, ReachesFurther
  <2> QED
    BY <2>1, <2>2
<1> HIDE DEF A
<1>7. A \in C
  BY <1>2, <1>4, <1>5, <1>6
<1>8. A = P
  <2>1. ~(Cardinality(A) < Cardinality(P))
    BY <1>1, <1>7
  <2> QED
    BY <1>2, <1>4, <2>1, FS_Subset, FS_CardinalityType
<1> QED
  BY <1>2, <1>3, <1>8 DEF A

\* D holds the nodes all of whose predecessors it holds, and they have smaller
\* ranks.
Ranked(Node, succ, D, rank) ==
    /\ D \in SUBSET Node /\ rank \in [D -> Nat]
    /\ \A v \in Node : v \in D <=> \A u \in Node : v \in succ[u] => u \in D
    /\ \A v \in D : \A u \in D : v \in succ[u] => rank[u] < rank[v]

\* The nodes that are left out are those on a cycle or behind one.
LEMMA RankedIsNotBehind ==
    ASSUME NEW Node, IsFiniteSet(Node), NEW succ \in [Node -> SUBSET Node],
           NEW D, NEW rank, Ranked(Node, succ, D, rank), NEW v \in Node
    PROVE  v \notin D <=> BehindCycle(succ, v)
<1>1. ASSUME v \notin D
      PROVE  BehindCycle(succ, v)
  <2> DEFINE T == {x \in Node \ D : x = v \/ Reaches(succ, x, v)}
  <2>1. T \in SUBSET Node /\ T # {}
    BY <1>1
  <2>2. Sourceless(succ, T)
    <3> SUFFICES ASSUME NEW x \in T PROVE \E u \in T : x \in succ[u]
      BY DEF Sourceless
    <3>1. PICK u \in Node : x \in succ[u] /\ u \notin D
      BY DEF Ranked
    <3>2. Reaches(succ, u, v)
      BY <3>1, ReachesFirst, ReachesFurther
    <3> QED
      BY <3>1, <3>2
  <2>3. PICK u \in T : Reaches(succ, u, u)
    <3> HIDE DEF T
    <3> QED
      BY <2>1, <2>2, SourcelessHoldsCycle
  <2> QED
    BY <2>3 DEF BehindCycle
<1>2. ASSUME v \in D, BehindCycle(succ, v)
      PROVE  FALSE
  <2>1. PICK u \in Node : Reaches(succ, u, u) /\ (u = v \/ Reaches(succ, u, v))
    BY <1>2 DEF BehindCycle
  <2>2. CASE u \in D
    <3> DEFINE S == {x \in Node : x \notin D \/ rank[u] < rank[x]}
    <3>1. S \in SUBSET Node /\ u \notin S
      BY <2>2 DEF Ranked
    <3>2. ASSUME NEW x \in Node, x = u \/ x \in S
          PROVE  succ[x] \subseteq S
      <4> SUFFICES ASSUME NEW y \in succ[x], y \in D PROVE rank[u] < rank[y]
        OBVIOUS
      <4>1. x \in D
        BY DEF Ranked
      <4>2. rank[x] < rank[y] /\ rank[u] \in Nat /\ rank[x] \in Nat /\ rank[y] \in Nat
        BY <2>2, <4>1 DEF Ranked
      <4>3. x = u \/ rank[u] < rank[x]
        BY <3>2, <4>1
      <4> QED
        BY <4>2, <4>3
    <3> HIDE DEF S
    <3> QED
      BY <2>1, <3>1, <3>2 DEF Reaches
  <2>3. CASE u \notin D
    <3> DEFINE S == Node \ D
    <3>1. ASSUME NEW x \in S PROVE succ[x] \subseteq S
      BY DEF Ranked
    <3>2. v \in S
      BY <2>1, <2>3, <3>1 DEF Reaches
    <3> QED
      BY <1>2, <3>2
  <2> QED
    BY <2>2, <2>3
<1> QED
  BY <1>1, <1>2

\* Nothing is left out exactly when there is no cycle.
LEMMA RankedIsAcyclic ==
    ASSUME NEW Node, IsFiniteSet(Node), NEW succ \in [Node -> SUBSET Node],
           NEW D, NEW rank, Ranked(Node, succ, D, rank)
    PROVE  D = Node <=> ~Cyclic(succ)
<1>1. ASSUME D # Node
      PROVE  Cyclic(succ)
  <2>1. PICK v \in Node : v \notin D
    BY <1>1 DEF Ranked
  <2>2. BehindCycle(succ, v)
    BY <2>1, RankedIsNotBehind
  <2>3. PICK u \in Node : Reaches(succ, u, u)
    BY <2>2 DEF BehindCycle
  <2> QED
    BY <2>3, ReachesItself
<1>2. ASSUME D = Node, Cyclic(succ)
      PROVE  FALSE
  <2>1. PICK S \in SUBSET Node : S # {} /\ \A u \in S : succ[u] \cap S # {}
    BY <1>2 DEF Cyclic
  <2> DEFINE Above(u) == {x \in S : rank[u] < rank[x]}
             C == {Above(u) : u \in S}
  <2>2. PICK u \in S : \A w \in S : ~(Cardinality(Above(w)) < Cardinality(Above(u)))
    <3>1. C # {} /\ \A U \in C : IsFiniteSet(U)
      <4>1. IsFiniteSet(S)
        BY FS_Subset
      <4>2. \A u \in S : IsFiniteSet(Above(u))
        BY <4>1, FS_Subset
      <4> QED
        BY <2>1, <4>2
    <3>2. PICK U \in C : \A V \in C : ~(Cardinality(V) < Cardinality(U))
      <4> HIDE DEF C
      <4> QED
        BY <3>1, SmallestSet
    <3> QED
      BY <3>2
  <2>3. PICK w \in S : w \in succ[u]
    BY <2>1
  <2>4. /\ rank[u] < rank[w] /\ rank[u] \in Nat /\ rank[w] \in Nat
        /\ \A x \in S : rank[x] \in Nat
    BY <1>2, <2>1, <2>3 DEF Ranked
  <2>5. w \in Above(u) /\ w \notin Above(w) /\ Above(w) \subseteq Above(u)
    BY <2>4
  <2>6. IsFiniteSet(Above(u))
    BY <2>1, FS_Subset
  <2> HIDE DEF Above
  <2>7. Cardinality(Above(w)) < Cardinality(Above(u))
    <3>1. Cardinality(Above(w)) \leq Cardinality(Above(u)) /\ IsFiniteSet(Above(w))
      BY <2>5, <2>6, FS_Subset
    <3>2. Above(w) # Above(u)
      BY <2>5
    <3> QED
      BY <2>5, <2>6, <3>1, <3>2, FS_Subset, FS_CardinalityType
  <2> QED
    BY <2>2, <2>7
<1> QED
  BY <1>1, <1>2

----------------------------------------------------------------------------
(* Orders and lists of successors                                          *)

\* order lists the nodes, and adj the successors of each, without repetitions.
Listing(Node, succ, adj, order) ==
    /\ order \in Seq(Node) /\ IsInjective(order) /\ ToSet(order) = Node
    /\ adj \in [Node -> Seq(Node)]
    /\ \A u \in Node : IsInjective(adj[u]) /\ ToSet(adj[u]) = succ[u]

\* SetToSeqs yields the elements of a finite set, each once.
LEMMA ListedOnce ==
    ASSUME NEW S, IsFiniteSet(S), NEW s \in SetToSeqs(S)
    PROVE  s \in Seq(S) /\ IsInjective(s) /\ ToSet(s) = S /\ Len(s) = Cardinality(S)
<1> DEFINE n == Cardinality(S)
<1>1. n \in Nat
  BY FS_CardinalityType
<1>2. s \in [1..n -> S] /\ \A i, j \in 1..n : i # j => s[i] # s[j]
  BY DEF SetToSeqs
<1> HIDE DEF n
<1>3. s \in Seq(S) /\ Len(s) = n /\ DOMAIN s = 1..n
  BY <1>1, <1>2
<1>4. IsInjective(s)
  BY <1>2, <1>3 DEF IsInjective
<1>5. ToSet(s) \in SUBSET S
  BY <1>2 DEF ToSet
<1>6. Len(s) = Cardinality(ToSet(s))
  BY <1>3, <1>4, LengthIsCardinality
<1>7. ToSet(s) = S
  BY <1>3, <1>5, <1>6, FS_Subset DEF n
<1> QED
  BY <1>3, <1>4, <1>7 DEF n

\* Every order and every choice of adjacency lists is such a listing.
LEMMA ListingsAre ==
    ASSUME NEW Node, IsFiniteSet(Node), NEW succ \in [Node -> SUBSET Node],
           NEW order \in SetToSeqs(Node), NEW adj \in AdjLists(succ)
    PROVE  Listing(Node, succ, adj, order) /\ Len(order) = Cardinality(Node)
<1>1. order \in Seq(Node) /\ IsInjective(order) /\ ToSet(order) = Node /\ Len(order) = Cardinality(Node)
  BY ListedOnce
<1>2. adj \in [Node -> UNION {SetToSeqs(succ[u]) : u \in Node}] /\ \A u \in Node : ToSet(adj[u]) = succ[u]
  BY DEF AdjLists
<1>3. ASSUME NEW u \in Node
      PROVE  adj[u] \in Seq(Node) /\ IsInjective(adj[u])
  <2>1. PICK w \in Node : adj[u] \in SetToSeqs(succ[w])
    BY <1>2
  <2>2. IsFiniteSet(succ[w])
    BY FS_Subset
  <2>3. adj[u] \in Seq(succ[w]) /\ IsInjective(adj[u])
    BY <2>1, <2>2, ListedOnce
  <2> QED
    BY <2>3
<1>4. adj \in [Node -> Seq(Node)]
  BY <1>2, <1>3
<1> QED
  BY <1>1, <1>2, <1>3, <1>4 DEF Listing

----------------------------------------------------------------------------
(* The graph after its JSON form                                           *)

\* The graphs: a well-formed node for each of some identifiers.
Graphs == UNION {[D -> NodeRecord] : D \in SUBSET Id}

\* addNode of a well-formed node yields a well-formed graph.
LEMMA InsertIsGraph ==
    ASSUME NEW g \in Graphs, NEW id \in Id, NEW n \in NodeRecord
    PROVE  Insert(g, id, n) \in Graphs /\ DOMAIN Insert(g, id, n) = DOMAIN g \cup {id}
<1>1. DOMAIN Insert(g, id, n) = DOMAIN g \cup {id}
  BY DEF Insert
<1>2. PICK D \in SUBSET Id : g \in [D -> NodeRecord]
  BY DEF Graphs
<1>3. ASSUME NEW x \in D \cup {id}
      PROVE  Insert(g, id, n)[x] \in NodeRecord
  <2>1. CASE x = id
    <3>1. Insert(g, id, n)[x] =
            [dependencies |-> n.dependencies \cup If(id \in n.dependents, {id})
                                 \cup {e \in D : id \in g[e].dependents},
             dependents |-> n.dependents \cup If(id \in n.dependencies, {id})
                               \cup {e \in D : id \in g[e].dependencies},
             state |-> n.state]
      BY <1>2, <2>1 DEF Insert
    <3> QED
      BY <3>1 DEF NodeRecord, If
  <2>2. CASE x # id
    <3>1. Insert(g, id, n)[x] =
            [dependencies |-> g[x].dependencies \cup If(x \in n.dependents, {id}),
             dependents |-> g[x].dependents \cup If(x \in n.dependencies, {id}),
             state |-> g[x].state]
      BY <1>2, <1>3, <2>2 DEF Insert
    <3>2. g[x] \in NodeRecord
      BY <1>2, <1>3, <2>2
    <3> QED
      BY <3>1, <3>2 DEF NodeRecord, If
  <2> QED
    BY <2>1, <2>2
<1>4. Insert(g, id, n) \in [D \cup {id} -> NodeRecord]
  <2>1. Insert(g, id, n) = [x \in D \cup {id} |-> Insert(g, id, n)[x]]
    BY <1>2 DEF Insert
  <2> QED
    BY <1>3, <2>1
<1> QED
  BY <1>1, <1>4 DEF Graphs

\* fromJsonString passes through the graphs after each node of the array.
LEMMA RestoreIs ==
    ASSUME NEW g \in Graphs, NEW order \in Seq(DOMAIN g)
    PROVE  \E r : /\ r \in [0..Len(order) -> Graphs] /\ r[0] = EmptyGraph
                  /\ \A n \in 1..Len(order) : r[n] = Insert(r[n - 1], order[n], g[order[n]])
                  /\ Restore(g, order) = r[Len(order)]
<1> DEFINE N == Len(order)
           Added(acc, x) == Insert(acc, x, g[x])
           Is(h) == h = [S \in SUBSET (1..N) |-> IF S = {} THEN EmptyGraph
                                                  ELSE Added(h[S \ {Max(S)}], order[Max(S)])]
           F == CHOOSE h : Is(h)
           step == [i \in 1..N |-> [acc \in Graphs |-> Added(acc, order[i])]]
<1>1. N \in Nat /\ DOMAIN order = 1..N /\ \A i \in 1..N : order[i] \in DOMAIN g
  OBVIOUS
<1>2. EmptyGraph \in Graphs
  <2>1. EmptyGraph \in [{} -> NodeRecord]
    BY DEF EmptyGraph
  <2> QED
    BY <2>1 DEF Graphs
<1>3. ASSUME NEW acc \in Graphs, NEW i \in 1..N
      PROVE  Added(acc, order[i]) \in Graphs
  <2>1. order[i] \in Id /\ g[order[i]] \in NodeRecord
    BY <1>1 DEF Graphs
  <2> QED
    BY <2>1, InsertIsGraph
<1>4. Restore(g, order) = F[1..N]
  <2>1. Restore(g, order) =
          (CHOOSE h : h = [S \in SUBSET DOMAIN order |-> IF S = {} THEN EmptyGraph
                              ELSE Added(h[S \ {Max(S)}], order[Max(S)])])[DOMAIN order]
    BY DEF Restore, FoldLeft, MapThenFoldSet
  <2> HIDE DEF Added, N
  <2> QED
    BY <1>1, <2>1
<1> HIDE DEF Added, N
<1>5. step \in [1..N -> [Graphs -> Graphs]]
  BY <1>3
<1>6. PICK h \in [SUBSET (1..N) -> Graphs] : FoldOf(h, EmptyGraph, N, step)
  <2> HIDE DEF step
  <2> QED
    BY <1>1, <1>2, <1>5, FoldsExist
<1>7. \A S \in SUBSET (1..N) : S # {} => Max(S) \in 1..N
  BY <1>1, MaxIsIn
<1>8. Is(h)
  <2>1. ASSUME NEW S \in SUBSET (1..N), S # {}
        PROVE  step[Max(S)][h[S \ {Max(S)}]] = Added(h[S \ {Max(S)}], order[Max(S)])
    <3>1. h[S \ {Max(S)}] \in Graphs
      BY <1>6
    <3> QED
      BY <1>7, <2>1, <3>1
  <2> HIDE DEF step
  <2> QED
    BY <1>6, <2>1 DEF FoldOf
<1>9. Is(F)
  <2> HIDE DEF Is
  <2> QED
    BY <1>8
<1> HIDE DEF F
<1>10. Folded(F, Graphs, EmptyGraph, N, step)
  BY <1>7, <1>9 DEF Folded
<1>11. PICK r : Along(r, Graphs, EmptyGraph, N, step) /\ F[1..N] = r[N]
  <2> HIDE DEF step
  <2> QED
    BY <1>1, <1>2, <1>5, <1>10, FoldedAlong
<1>12. ASSUME NEW n \in 1..N PROVE r[n] = Added(r[n - 1], order[n])
  <2>1. r[n - 1] \in Graphs
    BY <1>1, <1>11 DEF Along
  <2> QED
    BY <1>11, <2>1 DEF Along
<1> QED
  BY <1>4, <1>11, <1>12 DEF N, Added, Along

\* Bidirectional, of any graph.
Mutual(g) ==
    \A a, b \in DOMAIN g : b \in g[a].dependents <=> a \in g[b].dependencies

\* A node added to a part of a consistent graph is taken over as it is.
LEMMA InsertTakesOver ==
    ASSUME NEW g \in Graphs, Mutual(g), NEW K \in SUBSET DOMAIN g, NEW id \in DOMAIN g \ K
    PROVE  Insert([x \in K |-> g[x]], id, g[id]) = [x \in K \cup {id} |-> g[x]]
<1> DEFINE acc == [x \in K |-> g[x]]
<1>1. ASSUME NEW x \in DOMAIN g PROVE g[x] \in NodeRecord
  BY DEF Graphs
<1>2. /\ DOMAIN Insert(acc, id, g[id]) = K \cup {id}
      /\ Insert(acc, id, g[id]) = [x \in K \cup {id} |-> Insert(acc, id, g[id])[x]]
  BY DEF Insert
<1>3. ASSUME NEW x \in K \cup {id}
      PROVE  Insert(acc, id, g[id])[x] = g[x]
  <2>1. CASE x = id
    <3> DEFINE before == g[id].dependencies \cup If(id \in g[id].dependents, {id})
                           \cup {e \in K : id \in g[e].dependents}
               after == g[id].dependents \cup If(id \in g[id].dependencies, {id})
                          \cup {e \in K : id \in g[e].dependencies}
    <3>1. Insert(acc, id, g[id])[x] = [dependencies |-> before, dependents |-> after, state |-> g[id].state]
      BY <2>1 DEF Insert
    <3>2. before = g[id].dependencies /\ after = g[id].dependents
      BY DEF Mutual, If
    <3> HIDE DEF before, after
    <3>3. g[id] \in NodeRecord
      BY <1>1
    <3> QED
      BY <2>1, <3>1, <3>2, <3>3 DEF NodeRecord
  <2>2. CASE x # id
    <3> DEFINE before == g[x].dependencies \cup If(x \in g[id].dependents, {id})
               after == g[x].dependents \cup If(x \in g[id].dependencies, {id})
    <3>1. Insert(acc, id, g[id])[x] = [dependencies |-> before, dependents |-> after, state |-> g[x].state]
      BY <1>3, <2>2 DEF Insert
    <3>2. before = g[x].dependencies /\ after = g[x].dependents
      BY <1>3, <2>2 DEF Mutual, If
    <3> HIDE DEF before, after
    <3>3. g[x] \in NodeRecord
      BY <1>1, <1>3, <2>2
    <3> QED
      BY <3>1, <3>2, <3>3 DEF NodeRecord
  <2> QED
    BY <2>1, <2>2
<1> HIDE DEF acc
<1>4. Insert(acc, id, g[id]) = [x \in K \cup {id} |-> g[x]]
  BY <1>2, <1>3
<1> QED
  BY <1>4 DEF acc

\* A consistent graph comes back from its JSON form, whatever the order.
LEMMA RestoredIsSame ==
    ASSUME NEW g \in Graphs, Mutual(g),
           NEW order \in Seq(DOMAIN g), IsInjective(order), ToSet(order) = DOMAIN g
    PROVE  Restore(g, order) = g
<1> DEFINE N == Len(order)
           Part(n) == {order[i] : i \in 1..n}
<1>1. PICK r : /\ r \in [0..N -> Graphs] /\ r[0] = EmptyGraph
               /\ \A n \in 1..N : r[n] = Insert(r[n - 1], order[n], g[order[n]])
               /\ Restore(g, order) = r[N]
  BY RestoreIs
<1>2. N \in Nat /\ DOMAIN order = 1..N /\ \A i \in 1..N : order[i] \in DOMAIN g
  OBVIOUS
<1> DEFINE Taken(K) == [x \in K |-> g[x]]
           P == {n \in 0..N : r[n] = Taken(Part(n))}
<1>3. 0 \in P
  <2>1. Part(0) = {}
    OBVIOUS
  <2>2. r[0] = Taken({})
    BY <1>1 DEF EmptyGraph
  <2>3. Taken(Part(0)) = Taken({})
    <3> HIDE DEF Part, Taken
    <3> QED
      BY <2>1
  <2>4. 0 \in 0..N
    BY <1>2
  <2> HIDE DEF Part, Taken
  <2> QED
    BY <2>2, <2>3, <2>4
<1>4. ASSUME NEW n \in 1..N, n - 1 \in P PROVE n \in P
  <2>1. Part(n - 1) \in SUBSET DOMAIN g
    BY <1>2
  <2>2. order[n] \in DOMAIN g /\ order[n] \notin Part(n - 1)
    BY <1>2 DEF IsInjective
  <2>3. Part(n) = Part(n - 1) \cup {order[n]}
    <3>1. 1..n = (1..(n - 1)) \cup {n}
      BY <1>2
    <3> QED
      BY <3>1
  <2> HIDE DEF Part
  <2>4. r[n] = Insert(Taken(Part(n - 1)), order[n], g[order[n]])
    BY <1>1, <1>4
  <2>5. r[n] = Taken(Part(n - 1) \cup {order[n]})
    BY <2>1, <2>2, <2>4, InsertTakesOver
  <2> QED
    BY <1>2, <2>3, <2>5
<1>5. N \in P
  <2> HIDE DEF P, N
  <2>1. \A n \in 0..N : n \in P
    BY <1>2, <1>3, <1>4, CountUp
  <2> QED
    BY <1>2, <2>1
<1>6. Part(N) = DOMAIN g
  BY <1>2 DEF ToSet
<1>7. g = [x \in DOMAIN g |-> g[x]]
  BY DEF Graphs
<1> HIDE DEF Part
<1> QED
  BY <1>1, <1>5, <1>6, <1>7

----------------------------------------------------------------------------
(* What is ready                                                           *)

\* The queue begins with the nodes that have no predecessor.
LEMMA InitialAre ==
    ASSUME NEW Node, IsFiniteSet(Node), NEW succ \in [Node -> SUBSET Node],
           NEW adj, NEW order, Listing(Node, succ, adj, order)
    PROVE  /\ Initial(adj, order) \in Seq(Node) /\ IsInjective(Initial(adj, order))
           /\ \A v \in Node : v \in ToSet(Initial(adj, order)) <=> \A u \in Node : v \notin succ[u]
           /\ ToSet(Initial(adj, order)) \in SUBSET Node
<1> DEFINE late == {v \in DOMAIN adj : InDegrees(adj)[v] # 0}
<1>1. DOMAIN adj = Node /\ \A u \in Node : ToSet(adj[u]) = succ[u]
  BY DEF Listing
<1>2. ASSUME NEW v \in Node
      PROVE  v \in late <=> \E u \in Node : v \in succ[u]
  <2>1. InDegrees(adj)[v] = Cardinality({u \in Node : v \in succ[u]})
    <3>1. {u \in Node : v \in ToSet(adj[u])} = {u \in Node : v \in succ[u]}
      BY <1>1
    <3> QED
      BY <1>1, <3>1 DEF InDegrees
  <2>2. IsFiniteSet({u \in Node : v \in succ[u]})
    BY FS_Subset
  <2>3. Cardinality({u \in Node : v \in succ[u]}) = 0 <=> {u \in Node : v \in succ[u]} = {}
    BY <2>2, FS_EmptySet
  <2> QED
    BY <1>1, <2>1, <2>3
<1>3. Initial(adj, order) = Erased(order, late)
  BY DEF Initial
<1> HIDE DEF late
<1>4. /\ Erased(order, late) \in Seq(Node) /\ IsInjective(Erased(order, late))
      /\ ToSet(Erased(order, late)) = Node \ late
  BY ErasedLeaves DEF Listing
<1> QED
  BY <1>2, <1>3, <1>4

\* In a consistent graph the ready nodes are the pending ones among those with
\* no unfinished predecessor.
LEMMA ReadyIsNextLevelOf ==
    ASSUME nodes \in Graphs, Mutual(nodes), IsFiniteSet(DOMAIN nodes)
    PROVE  ReadyIsNextLevel
<1> DEFINE rest == Unfinished(nodes)
           Left == {x \in DOMAIN nodes : nodes[x].state # "Completed"}
<1>1. rest \in [Left -> SUBSET Left]
  BY DEF Unfinished
<1>2. ASSUME NEW x \in Left, NEW y \in Left
      PROVE  y \in rest[x] <=> x \in nodes[y].dependencies
  BY DEF Unfinished, Successors, Mutual
<1>3. IsFiniteSet(Left) /\ DOMAIN rest = Left
  BY FS_Subset DEF Unfinished
<1> SUFFICES ASSUME \A x \in DOMAIN nodes : nodes[x].dependencies \subseteq DOMAIN nodes,
                    NEW order \in Orders(rest), NEW adj \in AdjLists(rest)
             PROVE  {x \in ToSet(Initial(adj, order)) : nodes[x].state = "Pending"}
                      = ReadyNodes(nodes)
  BY DEF ReadyIsNextLevel
<1> HIDE DEF rest
<1>4. order \in SetToSeqs(Left)
  BY <1>3 DEF Orders
<1>5. Listing(Left, rest, adj, order)
  <2> HIDE DEF Left
  <2> QED
    BY <1>1, <1>3, <1>4, ListingsAre
<1>6. /\ ToSet(Initial(adj, order)) \in SUBSET Left
      /\ \A v \in Left : v \in ToSet(Initial(adj, order)) <=> \A u \in Left : v \notin rest[u]
  <2> HIDE DEF Left
  <2> QED
    BY <1>1, <1>3, <1>5, InitialAre
<1>7. ASSUME NEW x \in Left
      PROVE  DependenciesCompleted(nodes, x) <=> \A u \in Left : x \notin rest[u]
  BY <1>2 DEF DependenciesCompleted
<1>8. ASSUME NEW x \in DOMAIN nodes, nodes[x].state = "Pending" PROVE x \in Left
  BY <1>8
<1> QED
  BY <1>6, <1>7, <1>8 DEF ReadyNodes

----------------------------------------------------------------------------
(* Kahn's algorithm                                                        *)

\* Two lists without a common element, one after the other.
LEMMA JoinedLists ==
    ASSUME NEW Node, NEW s \in Seq(Node), NEW t \in Seq(Node)
    PROVE  /\ s \o t \in Seq(Node) /\ ToSet(s \o t) = ToSet(s) \cup ToSet(t)
           /\ IsInjective(s) /\ IsInjective(t) /\ ToSet(s) \cap ToSet(t) = {} => IsInjective(s \o t)
<1> DEFINE m == Len(s)
           n == Len(t)
           j == s \o t
<1>1. /\ m \in Nat /\ n \in Nat /\ DOMAIN s = 1..m /\ DOMAIN t = 1..n
      /\ j \in Seq(Node) /\ DOMAIN j = 1..(m + n)
      /\ \A i \in 1..m : j[i] = s[i]
      /\ \A i \in 1..n : j[m + i] = t[i]
  OBVIOUS
<1>2. ASSUME NEW i \in 1..(m + n)
      PROVE  (i \in 1..m /\ j[i] = s[i]) \/ (i - m \in 1..n /\ j[i] = t[i - m])
  <2>1. CASE i \leq m
    BY <1>1, <2>1
  <2>2. CASE ~(i \leq m)
    <3>1. i - m \in 1..n /\ m + (i - m) = i
      BY <1>1, <2>2
    <3> QED
      BY <1>1, <3>1
  <2> QED
    BY <2>1, <2>2
<1> HIDE DEF m, n, j
<1>3. ToSet(j) = ToSet(s) \cup ToSet(t)
  <2>1. ASSUME NEW i \in 1..m PROVE s[i] \in ToSet(j)
    <3>1. i \in 1..(m + n)
      BY <1>1
    <3> QED
      BY <1>1, <3>1 DEF ToSet
  <2>2. ASSUME NEW i \in 1..n PROVE t[i] \in ToSet(j)
    <3>1. m + i \in 1..(m + n)
      BY <1>1
    <3> QED
      BY <1>1, <3>1 DEF ToSet
  <2>3. ASSUME NEW i \in 1..(m + n) PROVE j[i] \in ToSet(s) \cup ToSet(t)
    BY <1>1, <1>2 DEF ToSet
  <2> QED
    BY <1>1, <2>1, <2>2, <2>3 DEF ToSet
<1>4. ASSUME IsInjective(s), IsInjective(t), ToSet(s) \cap ToSet(t) = {},
             NEW a \in 1..(m + n), NEW b \in 1..(m + n), j[a] = j[b]
      PROVE  a = b
  <2>1. CASE a \in 1..m /\ j[a] = s[a] /\ b \in 1..m /\ j[b] = s[b]
    BY <1>1, <1>4, <2>1 DEF IsInjective
  <2>2. CASE a - m \in 1..n /\ j[a] = t[a - m] /\ b - m \in 1..n /\ j[b] = t[b - m]
    <3>1. a - m = b - m
      BY <1>1, <1>4, <2>2 DEF IsInjective
    <3> QED
      BY <1>1, <3>1
  <2>3. CASE a \in 1..m /\ j[a] = s[a] /\ b - m \in 1..n /\ j[b] = t[b - m]
    BY <1>1, <1>4, <2>3 DEF ToSet
  <2>4. CASE a - m \in 1..n /\ j[a] = t[a - m] /\ b \in 1..m /\ j[b] = s[b]
    BY <1>1, <1>4, <2>4 DEF ToSet
  <2> QED
    BY <1>2, <2>1, <2>2, <2>3, <2>4
<1> QED
  BY <1>1, <1>3, <1>4 DEF IsInjective, j

\* The counts of the edges from the nodes not yet done.
Counts(Node, succ, deg, D) ==
    /\ deg \in [Node -> Nat]
    /\ \A v \in Node : deg[v] = Cardinality({u \in Node \ D : v \in succ[u]})

\* A count is zero when all predecessors are done.
LEMMA CountIsZero ==
    ASSUME NEW Node, IsFiniteSet(Node), NEW succ \in [Node -> SUBSET Node],
           NEW D, NEW deg, Counts(Node, succ, deg, D), NEW v \in Node
    PROVE  deg[v] = 0 <=> \A u \in Node : v \in succ[u] => u \in D
<1> DEFINE P == {u \in Node \ D : v \in succ[u]}
<1>1. IsFiniteSet(P) /\ deg[v] = Cardinality(P)
  BY FS_Subset DEF Counts
<1>2. deg[v] = 0 <=> P = {}
  <2> HIDE DEF P
  <2> QED
    BY <1>1, FS_EmptySet
<1> QED
  BY <1>2

\* The in-degrees count the predecessors of each node.
LEMMA FirstCounts ==
    ASSUME NEW Node, IsFiniteSet(Node), NEW succ \in [Node -> SUBSET Node],
           NEW adj, NEW order, Listing(Node, succ, adj, order)
    PROVE  Counts(Node, succ, InDegrees(adj), {})
<1>1. DOMAIN adj = Node /\ \A u \in Node : ToSet(adj[u]) = succ[u]
  BY DEF Listing
<1>2. ASSUME NEW v \in Node
      PROVE  /\ InDegrees(adj)[v] = Cardinality({u \in Node \ {} : v \in succ[u]})
             /\ InDegrees(adj)[v] \in Nat
  <2>1. {u \in Node : v \in ToSet(adj[u])} = {u \in Node \ {} : v \in succ[u]}
    BY <1>1
  <2>2. IsFiniteSet({u \in Node \ {} : v \in succ[u]})
    BY FS_Subset
  <2>3. InDegrees(adj)[v] = Cardinality({u \in Node : v \in ToSet(adj[u])})
    BY <1>1 DEF InDegrees
  <2> QED
    BY <2>1, <2>2, <2>3, FS_CardinalityType
<1>3. InDegrees(adj) \in [Node -> Nat]
  <2>1. InDegrees(adj) = [v \in Node |-> InDegrees(adj)[v]]
    BY <1>1 DEF InDegrees
  <2> QED
    BY <1>2, <2>1
<1> QED
  BY <1>2, <1>3 DEF Counts

Releases(Node) == [deg : [Node -> Int], out : Seq(Node)]

\* Releasing a node yields counts and a list again.
LEMMA ReleaseIsTyped ==
    ASSUME NEW Node, NEW succ, NEW adj, NEW order, Listing(Node, succ, adj, order),
           NEW acc \in Releases(Node), NEW u \in Node
    PROVE  Release(adj, acc, u) \in Releases(Node)
<1>1. Lowered(acc.deg, ToSet(adj[u])) \in [Node -> Int]
  BY DEF Lowered, Releases
<1>2. ASSUME NEW keys PROVE acc.out \o Erased(adj[u], keys) \in Seq(Node)
  <2>1. adj[u] \in Seq(Node) /\ acc.out \in Seq(Node)
    BY DEF Listing, Releases
  <2>2. Erased(adj[u], keys) \in Seq(Node)
    BY <2>1, ErasedLeaves
  <2> QED
    BY <2>1, <2>2
<1> QED
  BY <1>1, <1>2 DEF Release, Releases

\* The nodes whose count becomes zero.
Zeroed(Node, deg, next) == {v \in Node : deg[v] # 0 /\ next[v] = 0}

\* longer is list and then the elements of S, each once.
Appends(Node, list, longer, S) ==
    \E more \in Seq(Node) : IsInjective(more) /\ ToSet(more) = S /\ longer = list \o more

\* Once u is done, the counts are right again, and those that became zero are
\* appended.
LEMMA ReleaseIs ==
    ASSUME NEW Node, IsFiniteSet(Node), NEW succ \in [Node -> SUBSET Node],
           NEW adj, NEW order, Listing(Node, succ, adj, order),
           NEW acc \in Releases(Node), NEW D \in SUBSET Node, Counts(Node, succ, acc.deg, D),
           NEW u \in Node \ D
    PROVE  /\ Counts(Node, succ, Release(adj, acc, u).deg, D \cup {u})
           /\ Appends(Node, acc.out, Release(adj, acc, u).out,
                      Zeroed(Node, acc.deg, Release(adj, acc, u).deg))
<1> DEFINE freed == Release(adj, acc, u)
           others == {v \in DOMAIN adj : acc.deg[v] # 1}
           more == Erased(adj[u], others)
<1>1. DOMAIN adj = Node /\ adj[u] \in Seq(Node) /\ IsInjective(adj[u]) /\ ToSet(adj[u]) = succ[u]
  BY DEF Listing
<1>2. acc.deg \in [Node -> Nat]
  BY DEF Counts
<1>3. freed.deg = [v \in Node |-> IF v \in succ[u] THEN acc.deg[v] - 1 ELSE acc.deg[v]]
  BY <1>1, <1>2 DEF Release, Lowered
<1>4. freed.out = acc.out \o more
  BY DEF Release
<1>5. ASSUME NEW v \in Node
      PROVE  /\ freed.deg[v] \in Nat
             /\ freed.deg[v] = Cardinality({x \in Node \ (D \cup {u}) : v \in succ[x]})
  <2> DEFINE P == {x \in Node \ D : v \in succ[x]}
  <2>1. IsFiniteSet(P) /\ acc.deg[v] = Cardinality(P)
    BY FS_Subset DEF Counts
  <2>2. CASE v \in succ[u]
    <3>1. u \in P /\ {x \in Node \ (D \cup {u}) : v \in succ[x]} = P \ {u}
      BY <2>2
    <3> HIDE DEF P
    <3>2. Cardinality(P \ {u}) = Cardinality(P) - 1 /\ Cardinality(P \ {u}) \in Nat
      BY <2>1, <3>1, FS_RemoveElement, FS_CardinalityType
    <3> QED
      BY <1>3, <2>1, <2>2, <3>1, <3>2
  <2>3. CASE v \notin succ[u]
    <3>1. {x \in Node \ (D \cup {u}) : v \in succ[x]} = P
      BY <2>3
    <3> QED
      BY <1>2, <1>3, <2>1, <2>3, <3>1
  <2> QED
    BY <2>2, <2>3
<1>6. Counts(Node, succ, freed.deg, D \cup {u})
  BY <1>3, <1>5 DEF Counts
<1> HIDE DEF others
<1>7. more \in Seq(Node) /\ IsInjective(more) /\ ToSet(more) = succ[u] \ others
  BY <1>1, ErasedLeaves
<1>8. succ[u] \ others = Zeroed(Node, acc.deg, freed.deg)
  <2>1. ASSUME NEW v \in Node
        PROVE  v \in succ[u] \ others <=> acc.deg[v] # 0 /\ freed.deg[v] = 0
    <3>1. acc.deg[v] \in Nat
      BY <1>2
    <3>2. v \in others <=> acc.deg[v] # 1
      BY <1>1 DEF others
    <3>3. CASE v \in succ[u]
      <4>1. freed.deg[v] = acc.deg[v] - 1
        BY <1>3, <3>3
      <4> QED
        BY <3>1, <3>2, <3>3, <4>1
    <3>4. CASE v \notin succ[u]
      <4>1. freed.deg[v] = acc.deg[v]
        BY <1>3, <3>4
      <4> QED
        BY <3>4, <4>1
    <3> QED
      BY <3>3, <3>4
  <2> HIDE DEF freed, others
  <2> QED
    BY <2>1 DEF Zeroed
<1> HIDE DEF more, freed
<1>9. Appends(Node, acc.out, freed.out, Zeroed(Node, acc.deg, freed.deg))
  BY <1>4, <1>7, <1>8 DEF Appends
<1> QED
  BY <1>6, <1>9 DEF freed

Queues(Node) == [deg : [Node -> Int], out : Seq(Node), done : Seq(Node)]

FirstQueue(adj, order) == [deg |-> InDegrees(adj), out |-> Initial(adj, order), done |-> <<>>]

\* A turn of the loop yields a queue again.
LEMMA DrainIsTyped ==
    ASSUME NEW Node, NEW succ, NEW adj, NEW order, Listing(Node, succ, adj, order),
           NEW q \in Queues(Node)
    PROVE  Drain(adj, q) \in Queues(Node)
<1>1. CASE q.out = <<>>
  BY <1>1 DEF Drain
<1>2. CASE q.out # <<>>
  <2> DEFINE u == Head(q.out)
             acc == [deg |-> q.deg, out |-> Tail(q.out)]
             freed == Release(adj, acc, u)
  <2>1. q.deg \in [Node -> Int] /\ q.out \in Seq(Node) /\ q.done \in Seq(Node)
    BY DEF Queues
  <2>2. u \in Node /\ Tail(q.out) \in Seq(Node)
    BY <1>2, <2>1
  <2>3. acc \in Releases(Node)
    BY <2>1, <2>2 DEF Releases
  <2>4. Drain(adj, q) = [deg |-> freed.deg, out |-> freed.out, done |-> Append(q.done, u)]
    BY <1>2 DEF Drain
  <2> HIDE DEF u, acc
  <2>5. freed \in Releases(Node)
    BY <2>2, <2>3, ReleaseIsTyped
  <2>6. Append(q.done, u) \in Seq(Node)
    BY <2>1, <2>2
  <2> HIDE DEF freed
  <2> QED
    BY <2>4, <2>5, <2>6 DEF Releases, Queues
<1> QED
  BY <1>1, <1>2

\* The queues after each turn.
LEMMA DrainedIs ==
    ASSUME NEW Node, IsFiniteSet(Node), NEW succ \in [Node -> SUBSET Node],
           NEW adj, NEW order, Listing(Node, succ, adj, order)
    PROVE  \E r : /\ r \in [0..Len(order) -> Queues(Node)] /\ r[0] = FirstQueue(adj, order)
                  /\ \A n \in 1..Len(order) : r[n] = Drain(adj, r[n - 1])
                  /\ Drained(adj, order) = r[Len(order)]
<1> DEFINE N == Len(order)
           V == Queues(Node)
           s == FirstQueue(adj, order)
           To(q) == Drain(adj, q)
           Is(h) == h = [S \in SUBSET (1..N) |-> IF S = {} THEN s ELSE To(h[S \ {Max(S)}])]
           F == CHOOSE h : Is(h)
           step == [i \in 1..N |-> [q \in V |-> To(q)]]
<1>1. N \in Nat /\ DOMAIN order = 1..N
  BY DEF Listing
<1>2. s \in V
  <2>1. InDegrees(adj) \in [Node -> Nat]
    BY FirstCounts DEF Counts
  <2>2. Initial(adj, order) \in Seq(Node)
    BY InitialAre
  <2> QED
    BY <2>1, <2>2 DEF FirstQueue, Queues
<1>3. \A q \in V : To(q) \in V
  BY DrainIsTyped
<1>4. Drained(adj, order) = F[1..N]
  <2>1. Drained(adj, order) =
          (CHOOSE h : h = [S \in SUBSET DOMAIN order |-> IF S = {} THEN s
                              ELSE To(h[S \ {Max(S)}])])[DOMAIN order]
    BY DEF Drained, FirstQueue, FoldLeft, MapThenFoldSet
  <2> HIDE DEF To, N, s
  <2> QED
    BY <1>1, <2>1
<1> HIDE DEF To, N, s, V
<1>5. step \in [1..N -> [V -> V]]
  BY <1>3
<1>6. PICK h \in [SUBSET (1..N) -> V] : FoldOf(h, s, N, step)
  <2> HIDE DEF step
  <2> QED
    BY <1>1, <1>2, <1>5, FoldsExist
<1>7. \A S \in SUBSET (1..N) : S # {} => Max(S) \in 1..N
  BY <1>1, MaxIsIn
<1>8. Is(h)
  <2>1. ASSUME NEW S \in SUBSET (1..N), S # {}
        PROVE  step[Max(S)][h[S \ {Max(S)}]] = To(h[S \ {Max(S)}])
    <3>1. h[S \ {Max(S)}] \in V
      BY <1>6
    <3> QED
      BY <1>7, <2>1, <3>1
  <2> HIDE DEF step
  <2> QED
    BY <1>6, <2>1 DEF FoldOf
<1>9. Is(F)
  <2> HIDE DEF Is
  <2> QED
    BY <1>8
<1> HIDE DEF F
<1>10. Folded(F, V, s, N, step)
  BY <1>7, <1>9 DEF Folded
<1>11. PICK r : Along(r, V, s, N, step) /\ F[1..N] = r[N]
  <2> HIDE DEF step
  <2> QED
    BY <1>1, <1>2, <1>5, <1>10, FoldedAlong
<1>12. ASSUME NEW n \in 1..N PROVE r[n] = To(r[n - 1])
  <2>1. r[n - 1] \in V
    BY <1>1, <1>11 DEF Along
  <2> QED
    BY <1>11, <2>1 DEF Along
<1> QED
  BY <1>4, <1>11, <1>12 DEF N, To, s, V, Along

\* What holds after n turns.
QueueInv(Node, succ, q, n) ==
    LET D == ToSet(q.done)
    IN  /\ q \in Queues(Node) /\ Counts(Node, succ, q.deg, D)
        /\ IsInjective(q.done) /\ IsInjective(q.out)
        /\ ToSet(q.out) = {v \in Node \ D : q.deg[v] = 0}
        /\ \A j \in DOMAIN q.done : \A u \in Node :
              q.done[j] \in succ[u] => \E i \in DOMAIN q.done : i < j /\ q.done[i] = u
        /\ q.out = <<>> \/ Len(q.done) = n

\* A turn of the loop keeps the invariant of the queue.
LEMMA QueueStep ==
    ASSUME NEW Node, IsFiniteSet(Node), NEW succ \in [Node -> SUBSET Node],
           NEW adj, NEW order, Listing(Node, succ, adj, order),
           NEW n \in Nat, NEW q, QueueInv(Node, succ, q, n)
    PROVE  QueueInv(Node, succ, Drain(adj, q), n + 1)
<1>1. CASE q.out = <<>>
  <2>1. Drain(adj, q) = q
    BY <1>1 DEF Drain
  <2> QED
    BY <1>1, <2>1 DEF QueueInv
<1>2. CASE q.out # <<>>
  <2> DEFINE u == Head(q.out)
             rest == Tail(q.out)
             acc == [deg |-> q.deg, out |-> rest]
             freed == Release(adj, acc, u)
             D == ToSet(q.done)
             next == Append(q.done, u)
             m == Len(q.done)
  <2>1. q.deg \in [Node -> Int] /\ q.out \in Seq(Node) /\ q.done \in Seq(Node)
    BY DEF Queues, QueueInv
  <2>2. /\ u \in ToSet(q.out) /\ rest \in Seq(Node) /\ IsInjective(rest)
        /\ ToSet(rest) = ToSet(q.out) \ {u}
    <3>1. /\ q.out \in Seq(Node) /\ q.out # <<>> /\ IsInjective(q.out)
          /\ Len(q.out) \in Nat /\ DOMAIN q.out = 1..Len(q.out) /\ Len(q.out) > 0
      BY <1>2, <2>1 DEF QueueInv
    <3>2. /\ u = q.out[1] /\ rest \in Seq(Node) /\ Len(rest) = Len(q.out) - 1
          /\ DOMAIN rest = 1..(Len(q.out) - 1)
          /\ \A i \in 1..(Len(q.out) - 1) : rest[i] = q.out[i + 1]
      BY <3>1
    <3> HIDE DEF u, rest
    <3>3. IsInjective(rest)
      <4> SUFFICES ASSUME NEW a \in 1..(Len(q.out) - 1), NEW b \in 1..(Len(q.out) - 1), rest[a] = rest[b]
                   PROVE  a = b
        BY <3>2 DEF IsInjective
      <4>1. a + 1 \in DOMAIN q.out /\ b + 1 \in DOMAIN q.out /\ q.out[a + 1] = q.out[b + 1]
        BY <3>1, <3>2
      <4>2. a + 1 = b + 1
        BY <3>1, <4>1 DEF IsInjective
      <4> QED
        BY <3>1, <4>2
    <3>4. ASSUME NEW v \in ToSet(rest) PROVE v \in ToSet(q.out) /\ v # u
      <4>1. PICK i \in 1..(Len(q.out) - 1) : v = q.out[i + 1]
        BY <3>2 DEF ToSet
      <4>2. i + 1 \in DOMAIN q.out /\ 1 \in DOMAIN q.out /\ i + 1 # 1
        BY <3>1
      <4> QED
        BY <3>1, <3>2, <4>1, <4>2 DEF ToSet, IsInjective
    <3>5. ASSUME NEW v \in ToSet(q.out), v # u PROVE v \in ToSet(rest)
      <4>1. PICK i \in DOMAIN q.out : v = q.out[i]
        BY DEF ToSet
      <4>2. i # 1
        BY <3>2, <3>5, <4>1
      <4>3. i - 1 \in 1..(Len(q.out) - 1) /\ (i - 1) + 1 = i
        BY <3>1, <4>2
      <4> QED
        BY <3>2, <4>1, <4>3 DEF ToSet
    <3>6. u \in ToSet(q.out)
      BY <3>1, <3>2 DEF ToSet
    <3> QED
      BY <3>2, <3>3, <3>4, <3>5, <3>6
  <2>3. ToSet(q.out) = {v \in Node \ D : q.deg[v] = 0} /\ Counts(Node, succ, q.deg, D) /\ D \in SUBSET Node
    BY <2>1 DEF QueueInv, ToSet
  <2>4. Drain(adj, q) = [deg |-> freed.deg, out |-> freed.out, done |-> next]
    BY <1>2 DEF Drain
  <2>5. /\ acc \in Releases(Node) /\ acc.deg = q.deg /\ acc.out = rest
    BY <2>1, <2>2 DEF Releases
  <2>6. /\ next \in Seq(Node) /\ Len(next) = m + 1 /\ DOMAIN next = 1..(m + 1) /\ m \in Nat
        /\ DOMAIN q.done = 1..m
        /\ next[m + 1] = u /\ \A i \in 1..m : next[i] = q.done[i]
    BY <2>1, <2>2, <2>3
  <2> HIDE DEF u, acc, rest, D, next, m
  <2>7. u \in Node \ D /\ q.deg[u] = 0
    BY <2>2, <2>3
  <2>8. Counts(Node, succ, freed.deg, D \cup {u})
    BY <2>3, <2>5, <2>7, ReleaseIs
  <2>9. PICK more \in Seq(Node) :
          /\ IsInjective(more) /\ ToSet(more) = Zeroed(Node, q.deg, freed.deg)
          /\ freed.out = rest \o more
    <3>1. Counts(Node, succ, acc.deg, D)
      BY <2>3, <2>5
    <3>2. Appends(Node, acc.out, freed.out, Zeroed(Node, acc.deg, freed.deg))
      BY <2>3, <2>5, <2>7, <3>1, ReleaseIs
    <3> QED
      BY <2>5, <3>2 DEF Appends
  <2>10. Drain(adj, q) \in Queues(Node)
    BY DrainIsTyped DEF QueueInv
  <2> HIDE DEF freed
  <2>11. ToSet(next) = D \cup {u} /\ IsInjective(next)
    <3>1. ToSet(next) = D \cup {u}
      <4>1. ASSUME NEW i \in 1..(m + 1) PROVE next[i] \in D \cup {u}
        <5>1. i \in 1..m \/ i = m + 1
          BY <2>6
        <5> QED
          BY <2>6, <5>1 DEF D, ToSet
      <4>2. ASSUME NEW i \in 1..m PROVE q.done[i] \in ToSet(next)
        <5>1. i \in 1..(m + 1)
          BY <2>6
        <5> QED
          BY <2>6, <5>1 DEF ToSet
      <4>3. u \in ToSet(next)
        BY <2>6 DEF ToSet
      <4> QED
        BY <2>6, <4>1, <4>2, <4>3 DEF D, ToSet
    <3>2. ASSUME NEW a \in 1..(m + 1), NEW b \in 1..(m + 1), next[a] = next[b] PROVE a = b
      <4>1. \A i \in 1..m : next[i] # u
        BY <2>6, <2>7 DEF D, ToSet
      <4>2. (a \in 1..m \/ a = m + 1) /\ (b \in 1..m \/ b = m + 1)
        BY <2>6
      <4>3. IsInjective(q.done)
        BY DEF QueueInv
      <4> QED
        BY <2>6, <3>2, <4>1, <4>2, <4>3 DEF IsInjective
    <3> QED
      BY <2>6, <3>1, <3>2 DEF IsInjective
  <2>12. ASSUME NEW v \in Node, q.deg[v] = 0 PROVE freed.deg[v] = 0
    <3>1. \A x \in Node : v \in succ[x] => x \in D
      BY <2>3, <2>12, CountIsZero
    <3>2. freed.deg[v] = 0 <=> \A x \in Node : v \in succ[x] => x \in D \cup {u}
      BY <2>8, CountIsZero
    <3> QED
      BY <3>1, <3>2
  <2>13. /\ ToSet(freed.out) = {v \in Node \ (D \cup {u}) : freed.deg[v] = 0}
         /\ IsInjective(freed.out)
    <3>1. ToSet(freed.out) = ToSet(rest) \cup ToSet(more)
      BY <2>2, <2>9, JoinedLists
    <3>2. ToSet(rest) = {v \in Node \ (D \cup {u}) : q.deg[v] = 0}
      BY <2>2, <2>3
    <3>3. ASSUME NEW v \in D \cup {u} PROVE q.deg[v] = 0
      <4>1. CASE v = u
        BY <2>7, <4>1
      <4>2. CASE v \in D
        <5>1. PICK j \in DOMAIN q.done : q.done[j] = v
          BY <4>2 DEF D, ToSet
        <5>2. \A x \in Node : v \in succ[x] => x \in D
          BY <5>1 DEF QueueInv, D, ToSet
        <5>3. v \in Node
          BY <2>3, <4>2
        <5> QED
          BY <2>3, <5>2, <5>3, CountIsZero
      <4> QED
        BY <3>3, <4>1, <4>2
    <3>4. ToSet(rest) \cap ToSet(more) = {}
      BY <2>9, <3>2 DEF Zeroed
    <3>5. IsInjective(freed.out)
      BY <2>2, <2>9, <3>4, JoinedLists
    <3> QED
      BY <2>9, <2>12, <3>1, <3>2, <3>3, <3>5 DEF Zeroed
  <2>14. ASSUME NEW j \in 1..(m + 1), NEW x \in Node, next[j] \in succ[x]
         PROVE  \E i \in 1..(m + 1) : i < j /\ next[i] = x
    <3>1. CASE j \in 1..m
      <4>1. PICK i \in 1..m : i < j /\ q.done[i] = x
        BY <2>6, <2>14, <3>1 DEF QueueInv
      <4>2. i \in 1..(m + 1)
        BY <2>6
      <4> QED
        BY <2>6, <4>1, <4>2
    <3>2. CASE j = m + 1
      <4>1. x \in D
        BY <2>3, <2>6, <2>7, <2>14, <3>2, CountIsZero
      <4>2. PICK i \in 1..m : q.done[i] = x
        BY <2>6, <4>1 DEF D, ToSet
      <4>3. i \in 1..(m + 1) /\ i < j
        BY <2>6, <3>2
      <4> QED
        BY <2>6, <4>2, <4>3
    <3> QED
      BY <2>6, <3>1, <3>2
  <2>15. Len(next) = n + 1
    BY <1>2, <2>6 DEF QueueInv, m
  <2> DEFINE p == Drain(adj, q)
  <2>16. p.deg = freed.deg /\ p.out = freed.out /\ p.done = next
    BY <2>4
  <2> HIDE DEF p
  <2>17. p \in Queues(Node)
    BY <2>10 DEF p
  <2>18. /\ Counts(Node, succ, p.deg, ToSet(p.done))
         /\ IsInjective(p.done) /\ IsInjective(p.out)
         /\ ToSet(p.out) = {v \in Node \ ToSet(p.done) : p.deg[v] = 0}
    BY <2>8, <2>11, <2>13, <2>16
  <2>19. \A j \in DOMAIN p.done : \A x \in Node :
            p.done[j] \in succ[x] => \E i \in DOMAIN p.done : i < j /\ p.done[i] = x
    BY <2>6, <2>14, <2>16
  <2>20. QueueInv(Node, succ, p, n + 1)
    BY <2>15, <2>16, <2>17, <2>18, <2>19 DEF QueueInv
  <2> QED
    BY <2>20 DEF p
<1> QED
  BY <1>1, <1>2

\* It holds before the first turn.
LEMMA QueueBegins ==
    ASSUME NEW Node, IsFiniteSet(Node), NEW succ \in [Node -> SUBSET Node],
           NEW adj, NEW order, Listing(Node, succ, adj, order)
    PROVE  QueueInv(Node, succ, FirstQueue(adj, order), 0)
<1> DEFINE q == FirstQueue(adj, order)
<1>1. q.deg = InDegrees(adj) /\ q.out = Initial(adj, order) /\ q.done = <<>>
  BY DEF FirstQueue
<1>2. ToSet(q.done) = {} /\ IsInjective(q.done) /\ DOMAIN q.done = {} /\ Len(q.done) = 0
  BY <1>1 DEF ToSet, IsInjective
<1>3. Counts(Node, succ, q.deg, {})
  BY <1>1, FirstCounts
<1>4. /\ q.out \in Seq(Node) /\ IsInjective(q.out) /\ ToSet(q.out) \in SUBSET Node
      /\ \A v \in Node : v \in ToSet(q.out) <=> \A u \in Node : v \notin succ[u]
  BY <1>1, InitialAre
<1>5. q \in Queues(Node)
  <2>1. q.deg \in [Node -> Int]
    BY <1>3 DEF Counts
  <2> QED
    BY <1>1, <1>4, <2>1 DEF FirstQueue, Queues
<1> HIDE DEF q
<1>6. ToSet(q.out) = {v \in Node \ {} : q.deg[v] = 0}
  <2>1. \A v \in Node : q.deg[v] = 0 <=> \A u \in Node : v \in succ[u] => u \in {}
    BY <1>3, CountIsZero
  <2> QED
    BY <1>4, <2>1
<1>7. QueueInv(Node, succ, q, 0)
  BY <1>2, <1>3, <1>4, <1>5, <1>6 DEF QueueInv
<1> QED
  BY <1>7 DEF q

\* It holds after as many turns as there are nodes.
LEMMA DrainedInv ==
    ASSUME NEW Node, IsFiniteSet(Node), NEW succ \in [Node -> SUBSET Node],
           NEW adj, NEW order, Listing(Node, succ, adj, order)
    PROVE  QueueInv(Node, succ, Drained(adj, order), Len(order))
<1> DEFINE N == Len(order)
<1>1. PICK r : /\ r \in [0..N -> Queues(Node)] /\ r[0] = FirstQueue(adj, order)
               /\ \A n \in 1..N : r[n] = Drain(adj, r[n - 1])
               /\ Drained(adj, order) = r[N]
  BY DrainedIs
<1>2. N \in Nat
  BY DEF Listing
<1> DEFINE P == {n \in 0..N : QueueInv(Node, succ, r[n], n)}
<1>3. 0 \in P
  BY <1>1, <1>2, QueueBegins
<1>4. ASSUME NEW n \in 1..N, n - 1 \in P PROVE n \in P
  <2>1. QueueInv(Node, succ, r[n - 1], n - 1) /\ n - 1 \in Nat /\ (n - 1) + 1 = n /\ n \in 0..N
    BY <1>2, <1>4
  <2>2. QueueInv(Node, succ, Drain(adj, r[n - 1]), (n - 1) + 1)
    BY <2>1, QueueStep
  <2> QED
    BY <1>1, <2>1, <2>2
<1> HIDE DEF P, N
<1>5. \A n \in 0..N : n \in P
  BY <1>2, <1>3, <1>4, CountUp
<1>6. N \in P
  BY <1>2, <1>5
<1> QED
  BY <1>1, <1>6 DEF P, N

\* What the queue leaves is ranked by the order in which it was taken.
LEMMA DrainedIsRanked ==
    ASSUME NEW Node, IsFiniteSet(Node), NEW succ \in [Node -> SUBSET Node],
           NEW q, QueueInv(Node, succ, q, Cardinality(Node))
    PROVE  \E rank : /\ Ranked(Node, succ, ToSet(q.done), rank)
                     /\ \A i \in DOMAIN q.done : rank[q.done[i]] = i
<1> DEFINE D == ToSet(q.done)
           m == Len(q.done)
           rank == [v \in D |-> CHOOSE i \in 1..m : q.done[i] = v]
<1>1. /\ q.done \in Seq(Node) /\ q.out \in Seq(Node) /\ IsInjective(q.done)
      /\ Counts(Node, succ, q.deg, D) /\ ToSet(q.out) = {v \in Node \ D : q.deg[v] = 0}
      /\ q.out = <<>> \/ m = Cardinality(Node)
  BY DEF QueueInv, Queues
<1>2. m \in Nat /\ DOMAIN q.done = 1..m /\ D \in SUBSET Node
  BY <1>1 DEF ToSet
<1>3. {v \in Node \ D : q.deg[v] = 0} = {}
  <2>1. CASE q.out = <<>>
    BY <1>1, <2>1 DEF ToSet
  <2>2. CASE m = Cardinality(Node)
    <3>1. Cardinality(D) = Cardinality(Node)
      BY <1>1, <2>2, LengthIsCardinality
    <3> HIDE DEF D
    <3>2. D = Node
      BY <1>2, <3>1, FS_Subset
    <3> QED
      BY <3>2
  <2> QED
    BY <1>1, <2>1, <2>2
<1>4. ASSUME NEW v \in D
      PROVE  rank[v] \in 1..m /\ q.done[rank[v]] = v
  <2>1. \E i \in 1..m : q.done[i] = v
    BY <1>2 DEF ToSet
  <2> QED
    BY <2>1
<1>5. ASSUME NEW i \in 1..m PROVE q.done[i] \in D /\ rank[q.done[i]] = i
  <2>1. q.done[i] \in D
    BY <1>2 DEF ToSet
  <2>2. q.done[rank[q.done[i]]] = q.done[i] /\ rank[q.done[i]] \in 1..m
    BY <1>4, <2>1
  <2> HIDE DEF rank
  <2> QED
    BY <1>1, <1>2, <2>1, <2>2 DEF IsInjective
<1>6. rank \in [D -> Nat]
  BY <1>2, <1>4
<1> HIDE DEF rank
<1>7. ASSUME NEW v \in D, NEW u \in Node, v \in succ[u]
      PROVE  u \in D /\ rank[u] < rank[v]
  <2>1. PICK i \in 1..m : i < rank[v] /\ q.done[i] = u
    BY <1>2, <1>4, <1>7 DEF QueueInv
  <2> QED
    BY <1>5, <2>1
<1> HIDE DEF D
<1>8. ASSUME NEW v \in Node, \A u \in Node : v \in succ[u] => u \in D
      PROVE  v \in D
  <2>1. q.deg[v] = 0
    BY <1>1, <1>8, CountIsZero
  <2> QED
    BY <1>3, <2>1
<1>9. Ranked(Node, succ, D, rank)
  BY <1>2, <1>6, <1>7, <1>8 DEF Ranked
<1> QED
  BY <1>2, <1>5, <1>9 DEF D

\* getTopologicalOrder, of every finite graph and for every order of traversal:
\* nothing when there is a cycle, and every node once with all edges forward
\* when there is none.
THEOREM TopologicalOrderIs ==
    ASSUME NEW Node, IsFiniteSet(Node), NEW succ \in [Node -> SUBSET Node],
           NEW adj, NEW order, Listing(Node, succ, adj, order), Len(order) = Cardinality(Node)
    PROVE  /\ Cyclic(succ) => TopologicalOrder(adj, order) = <<>>
           /\ ~Cyclic(succ) => /\ IsTopological(succ, TopologicalOrder(adj, order))
                               /\ Len(TopologicalOrder(adj, order)) = Cardinality(Node)
<1> DEFINE q == Drained(adj, order)
           D == ToSet(q.done)
<1>1. QueueInv(Node, succ, q, Cardinality(Node))
  BY DrainedInv
<1>2. DOMAIN adj = Node
  BY DEF Listing
<1>3. TopologicalOrder(adj, order) = IF Len(q.done) = Cardinality(Node) THEN q.done ELSE <<>>
  BY <1>2 DEF TopologicalOrder
<1> HIDE DEF q
<1>4. PICK rank : Ranked(Node, succ, D, rank) /\ \A i \in DOMAIN q.done : rank[q.done[i]] = i
  BY <1>1, DrainedIsRanked
<1>5. q.done \in Seq(Node) /\ IsInjective(q.done)
  BY <1>1 DEF QueueInv, Queues
<1>6. Len(q.done) = Cardinality(D)
  BY <1>5, LengthIsCardinality
<1>7. D = Node <=> ~Cyclic(succ)
  BY <1>4, RankedIsAcyclic
<1>8. D \in SUBSET Node
  BY <1>4 DEF Ranked
<1>9. Len(q.done) = Cardinality(Node) <=> D = Node
  BY <1>6, <1>8, FS_Subset
<1>10. ASSUME D = Node PROVE IsTopological(succ, q.done)
  <2>1. ASSUME NEW i \in DOMAIN q.done, NEW j \in DOMAIN q.done, q.done[j] \in succ[q.done[i]]
        PROVE  i < j
    <3>1. q.done[i] \in D /\ q.done[j] \in D
      BY DEF ToSet
    <3>2. rank[q.done[i]] < rank[q.done[j]]
      BY <1>4, <2>1, <3>1 DEF Ranked
    <3> QED
      BY <1>4, <3>2
  <2> QED
    BY <1>10, <2>1 DEF IsTopological
<1> QED
  BY <1>3, <1>7, <1>9, <1>10

----------------------------------------------------------------------------
(* The levels                                                              *)

\* Releasing a level passes through the counts after each of its nodes.
LEMMA ReleaseAllIs ==
    ASSUME NEW Node, NEW succ, NEW adj, NEW order, Listing(Node, succ, adj, order),
           NEW s \in Releases(Node), NEW level \in Seq(Node)
    PROVE  \E r : /\ r \in [0..Len(level) -> Releases(Node)] /\ r[0] = s
                  /\ \A n \in 1..Len(level) : r[n] = Release(adj, r[n - 1], level[n])
                  /\ ReleaseAll(adj, s, level) = r[Len(level)]
<1> DEFINE N == Len(level)
           V == Releases(Node)
           To(a, u) == Release(adj, a, u)
           Is(h) == h = [S \in SUBSET (1..N) |-> IF S = {} THEN s
                                                  ELSE To(h[S \ {Max(S)}], level[Max(S)])]
           F == CHOOSE h : Is(h)
           step == [i \in 1..N |-> [a \in V |-> To(a, level[i])]]
<1>1. N \in Nat /\ DOMAIN level = 1..N /\ \A i \in 1..N : level[i] \in Node
  OBVIOUS
<1>2. s \in V
  OBVIOUS
<1>3. \A a \in V : \A i \in 1..N : To(a, level[i]) \in V
  BY <1>1, ReleaseIsTyped
<1>4. ReleaseAll(adj, s, level) = F[1..N]
  <2>1. ReleaseAll(adj, s, level) =
          (CHOOSE h : h = [S \in SUBSET DOMAIN level |-> IF S = {} THEN s
                              ELSE To(h[S \ {Max(S)}], level[Max(S)])])[DOMAIN level]
    BY DEF ReleaseAll, FoldLeft, MapThenFoldSet
  <2> HIDE DEF To, N
  <2> QED
    BY <1>1, <2>1
<1> HIDE DEF To, N, V
<1>5. step \in [1..N -> [V -> V]]
  BY <1>3
<1>6. PICK h \in [SUBSET (1..N) -> V] : FoldOf(h, s, N, step)
  <2> HIDE DEF step
  <2> QED
    BY <1>1, <1>2, <1>5, FoldsExist
<1>7. \A S \in SUBSET (1..N) : S # {} => Max(S) \in 1..N
  BY <1>1, MaxIsIn
<1>8. Is(h)
  <2>1. ASSUME NEW S \in SUBSET (1..N), S # {}
        PROVE  step[Max(S)][h[S \ {Max(S)}]] = To(h[S \ {Max(S)}], level[Max(S)])
    <3>1. h[S \ {Max(S)}] \in V
      BY <1>6
    <3> QED
      BY <1>7, <2>1, <3>1
  <2> HIDE DEF step
  <2> QED
    BY <1>6, <2>1 DEF FoldOf
<1>9. Is(F)
  <2> HIDE DEF Is
  <2> QED
    BY <1>8
<1> HIDE DEF F
<1>10. Folded(F, V, s, N, step)
  BY <1>7, <1>9 DEF Folded
<1>11. PICK r : Along(r, V, s, N, step) /\ F[1..N] = r[N]
  <2>1. N \in Nat
    BY <1>1
  <2> HIDE DEF step, Is
  <2> QED
    BY <2>1, <1>2, <1>5, <1>10, FoldedAlong
<1>12. ASSUME NEW n \in 1..N PROVE r[n] = To(r[n - 1], level[n])
  <2>1. r[n - 1] \in V
    BY <1>1, <1>11 DEF Along
  <2>2. r[n] = step[n][r[n - 1]]
    <3> HIDE DEF step
    <3> QED
      BY <1>11 DEF Along
  <2> QED
    BY <2>1, <2>2
<1> QED
  BY <1>4, <1>11, <1>12 DEF N, To, V, Along

\* D is done; W is what was done and the level being released.
Freeing(Node, succ, acc, D, W) ==
    /\ acc \in Releases(Node) /\ Counts(Node, succ, acc.deg, D)
    /\ IsInjective(acc.out)
    /\ ToSet(acc.out) = {v \in Node \ W : acc.deg[v] = 0}
    /\ \A v \in W : acc.deg[v] = 0

\* Releasing one more node of the level keeps it so.
LEMMA FreeingStep ==
    ASSUME NEW Node, IsFiniteSet(Node), NEW succ \in [Node -> SUBSET Node],
           NEW adj, NEW order, Listing(Node, succ, adj, order),
           NEW W \in SUBSET Node, NEW D \in SUBSET W, NEW u \in W \ D,
           NEW acc, Freeing(Node, succ, acc, D, W)
    PROVE  Freeing(Node, succ, Release(adj, acc, u), D \cup {u}, W)
<1> DEFINE freed == Release(adj, acc, u)
<1>1. acc \in Releases(Node) /\ Counts(Node, succ, acc.deg, D) /\ D \in SUBSET Node /\ u \in Node \ D
  BY DEF Freeing
<1>2. Counts(Node, succ, freed.deg, D \cup {u}) /\ Appends(Node, acc.out, freed.out, Zeroed(Node, acc.deg, freed.deg))
  BY <1>1, ReleaseIs
<1>3. freed \in Releases(Node)
  BY <1>1, ReleaseIsTyped
<1> HIDE DEF freed
<1>4. ASSUME NEW v \in Node, acc.deg[v] = 0 PROVE freed.deg[v] = 0
  <2>1. \A x \in Node : v \in succ[x] => x \in D
    BY <1>1, <1>4, CountIsZero
  <2>2. freed.deg[v] = 0 <=> \A x \in Node : v \in succ[x] => x \in D \cup {u}
    BY <1>2, CountIsZero
  <2> QED
    BY <2>1, <2>2
<1>5. PICK more \in Seq(Node) : /\ IsInjective(more) /\ ToSet(more) = Zeroed(Node, acc.deg, freed.deg)
                                /\ freed.out = acc.out \o more
  BY <1>2 DEF Appends
<1>6. acc.out \in Seq(Node) /\ IsInjective(acc.out) /\ ToSet(acc.out) \cap ToSet(more) = {}
  BY <1>1, <1>5 DEF Freeing, Zeroed, Releases
<1>7. ToSet(freed.out) = ToSet(acc.out) \cup ToSet(more) /\ IsInjective(freed.out)
  BY <1>5, <1>6, JoinedLists
<1>8. ToSet(freed.out) = {v \in Node \ W : freed.deg[v] = 0}
  BY <1>4, <1>5, <1>7 DEF Freeing, Zeroed
<1>9. \A v \in W : freed.deg[v] = 0
  BY <1>4 DEF Freeing
<1>10. Freeing(Node, succ, freed, D \cup {u}, W)
  BY <1>2, <1>3, <1>7, <1>8, <1>9 DEF Freeing
<1> QED
  BY <1>10 DEF freed

\* What is left when the whole level has been released.
LEMMA LevelIsFreed ==
    ASSUME NEW Node, IsFiniteSet(Node), NEW succ \in [Node -> SUBSET Node],
           NEW adj, NEW order, Listing(Node, succ, adj, order),
           NEW D \in SUBSET Node, NEW deg, Counts(Node, succ, deg, D), \A v \in D : deg[v] = 0,
           NEW level \in Seq(Node), IsInjective(level),
           ToSet(level) = {v \in Node \ D : deg[v] = 0}
    PROVE  Freeing(Node, succ, ReleaseAll(adj, [deg |-> deg, out |-> <<>>], level),
                   D \cup ToSet(level), D \cup ToSet(level))
<1> DEFINE N == Len(level)
           s == [deg |-> deg, out |-> <<>>]
           W == D \cup ToSet(level)
           Upto(n) == D \cup {level[i] : i \in 1..n}
<1>1. N \in Nat /\ DOMAIN level = 1..N /\ ToSet(level) = {level[i] : i \in 1..N} /\ Upto(N) = W
  BY DEF ToSet
<1>2. s \in Releases(Node) /\ s.deg = deg /\ s.out = <<>>
  BY DEF Counts, Releases
<1> HIDE DEF s
<1>3. PICK r : /\ r \in [0..N -> Releases(Node)] /\ r[0] = s
               /\ \A n \in 1..N : r[n] = Release(adj, r[n - 1], level[n])
               /\ ReleaseAll(adj, s, level) = r[N]
  BY <1>2, ReleaseAllIs
<1>4. W \in SUBSET Node /\ D \in SUBSET W /\ \A v \in W : deg[v] = 0
  OBVIOUS
<1>5. \A v \in Node : deg[v] = 0 => v \in W
  OBVIOUS
<1> HIDE DEF W, N
<1> DEFINE P == {n \in 0..N : Freeing(Node, succ, r[n], Upto(n), W)}
<1>6. 0 \in P
  <2>1. Upto(0) = D
    OBVIOUS
  <2>2. ToSet(s.out) = {} /\ IsInjective(s.out)
    BY <1>2 DEF ToSet, IsInjective
  <2>3. {v \in Node \ W : deg[v] = 0} = {}
    BY <1>5
  <2>4. Freeing(Node, succ, s, D, W)
    BY <1>2, <1>4, <2>2, <2>3 DEF Freeing
  <2> HIDE DEF Upto
  <2> QED
    BY <1>1, <1>3, <2>1, <2>4
<1>7. ASSUME NEW n \in 1..N, n - 1 \in P PROVE n \in P
  <2>1. Freeing(Node, succ, r[n - 1], Upto(n - 1), W) /\ n \in 0..N
    BY <1>1, <1>7
  <2>2. Upto(n) = Upto(n - 1) \cup {level[n]}
    <3>1. 1..n = (1..(n - 1)) \cup {n}
      BY <1>1
    <3> QED
      BY <3>1
  <2>3. level[n] \in W \ Upto(n - 1)
    <3>1. level[n] \in ToSet(level) /\ ToSet(level) \cap D = {}
      BY <1>1
    <3>2. level[n] \notin {level[i] : i \in 1..(n - 1)}
      BY <1>1 DEF IsInjective
    <3> QED
      BY <3>1, <3>2 DEF W
  <2>4. Upto(n - 1) \in SUBSET W
    BY <1>1 DEF W
  <2> HIDE DEF Upto
  <2>5. Freeing(Node, succ, Release(adj, r[n - 1], level[n]), Upto(n - 1) \cup {level[n]}, W)
    BY <1>4, <2>1, <2>3, <2>4, FreeingStep
  <2> QED
    BY <1>3, <2>1, <2>2, <2>5
<1> HIDE DEF P
<1>8. \A n \in 0..N : n \in P
  BY <1>1, <1>6, <1>7, CountUp
<1>9. N \in P
  BY <1>1, <1>8
<1>10. Freeing(Node, succ, r[N], W, W)
  BY <1>1, <1>9 DEF P
<1> QED
  BY <1>3, <1>10 DEF s, W

\* What the loop over the levels keeps.
Tables(Node) == [deg : [Node -> Int], level : Seq(Node), levels : Seq(Seq(Node))]

FirstTable(adj, order) == [deg |-> InDegrees(adj), level |-> Initial(adj, order), levels |-> <<>>]

\* Releasing a level yields counts and a list again.
LEMMA ReleaseAllIsTyped ==
    ASSUME NEW Node, NEW succ, NEW adj, NEW order, Listing(Node, succ, adj, order),
           NEW acc \in Releases(Node), NEW level \in Seq(Node)
    PROVE  ReleaseAll(adj, acc, level) \in Releases(Node)
<1>1. PICK r : /\ r \in [0..Len(level) -> Releases(Node)] /\ r[0] = acc
               /\ \A n \in 1..Len(level) : r[n] = Release(adj, r[n - 1], level[n])
               /\ ReleaseAll(adj, acc, level) = r[Len(level)]
  BY ReleaseAllIs
<1>2. Len(level) \in 0..Len(level)
  OBVIOUS
<1> QED
  BY <1>1, <1>2

\* A turn of the loop yields a table of levels again.
LEMMA NextLevelIsTyped ==
    ASSUME NEW Node, NEW succ, NEW adj, NEW order, Listing(Node, succ, adj, order),
           NEW t \in Tables(Node)
    PROVE  NextLevel(adj, t) \in Tables(Node)
<1>1. CASE t.level = <<>>
  BY <1>1 DEF NextLevel
<1>2. CASE t.level # <<>>
  <2> DEFINE acc == [deg |-> t.deg, out |-> <<>>]
             freed == ReleaseAll(adj, acc, t.level)
  <2>1. t.deg \in [Node -> Int] /\ t.level \in Seq(Node) /\ t.levels \in Seq(Seq(Node))
    BY DEF Tables
  <2>2. acc \in Releases(Node)
    BY <2>1 DEF Releases
  <2>3. NextLevel(adj, t) = [deg |-> freed.deg, level |-> freed.out, levels |-> Append(t.levels, t.level)]
    BY <1>2 DEF NextLevel
  <2> HIDE DEF acc
  <2>4. freed \in Releases(Node)
    <3>1. t.level \in Seq(Node)
      BY <2>1
    <3> QED
      BY <2>2, <3>1, ReleaseAllIsTyped
  <2>5. Append(t.levels, t.level) \in Seq(Seq(Node))
    BY <2>1
  <2> HIDE DEF freed
  <2> QED
    BY <2>3, <2>4, <2>5 DEF Releases, Tables
<1> QED
  BY <1>1, <1>2

\* getExecutionLevels passes through the tables after each turn.
LEMMA ExecutionLevelsAre ==
    ASSUME NEW Node, IsFiniteSet(Node), NEW succ \in [Node -> SUBSET Node],
           NEW adj, NEW order, Listing(Node, succ, adj, order)
    PROVE  \E r : /\ r \in [0..Len(order) -> Tables(Node)] /\ r[0] = FirstTable(adj, order)
                  /\ \A n \in 1..Len(order) : r[n] = NextLevel(adj, r[n - 1])
                  /\ ExecutionLevels(adj, order) = r[Len(order)].levels
<1> DEFINE N == Len(order)
           V == Tables(Node)
           s == FirstTable(adj, order)
           To(t) == NextLevel(adj, t)
           Is(h) == h = [S \in SUBSET (1..N) |-> IF S = {} THEN s ELSE To(h[S \ {Max(S)}])]
           F == CHOOSE h : Is(h)
           step == [i \in 1..N |-> [t \in V |-> To(t)]]
<1>1. N \in Nat /\ DOMAIN order = 1..N
  BY DEF Listing
<1>2. s \in V
  <2>1. InDegrees(adj) \in [Node -> Nat]
    BY FirstCounts DEF Counts
  <2>2. Initial(adj, order) \in Seq(Node)
    BY InitialAre
  <2> QED
    BY <2>1, <2>2 DEF FirstTable, Tables
<1>3. \A t \in V : To(t) \in V
  BY NextLevelIsTyped
<1>4. ExecutionLevels(adj, order) = F[1..N].levels
  <2>1. ExecutionLevels(adj, order) =
          (CHOOSE h : h = [S \in SUBSET DOMAIN order |-> IF S = {} THEN s
                              ELSE To(h[S \ {Max(S)}])])[DOMAIN order].levels
    BY DEF ExecutionLevels, FirstTable, FoldLeft, MapThenFoldSet
  <2> HIDE DEF To, N, s
  <2> QED
    BY <1>1, <2>1
<1> HIDE DEF To, N, s, V
<1>5. step \in [1..N -> [V -> V]]
  BY <1>3
<1>6. PICK h \in [SUBSET (1..N) -> V] : FoldOf(h, s, N, step)
  <2> HIDE DEF step
  <2> QED
    BY <1>1, <1>2, <1>5, FoldsExist
<1>7. \A S \in SUBSET (1..N) : S # {} => Max(S) \in 1..N
  BY <1>1, MaxIsIn
<1>8. Is(h)
  <2>1. ASSUME NEW S \in SUBSET (1..N), S # {}
        PROVE  step[Max(S)][h[S \ {Max(S)}]] = To(h[S \ {Max(S)}])
    <3>1. h[S \ {Max(S)}] \in V
      BY <1>6
    <3> QED
      BY <1>7, <2>1, <3>1
  <2> HIDE DEF step
  <2> QED
    BY <1>6, <2>1 DEF FoldOf
<1>9. Is(F)
  <2> HIDE DEF Is
  <2> QED
    BY <1>8
<1> HIDE DEF F
<1>10. Folded(F, V, s, N, step)
  BY <1>7, <1>9 DEF Folded
<1>11. PICK r : Along(r, V, s, N, step) /\ F[1..N] = r[N]
  <2> HIDE DEF step
  <2> QED
    BY <1>1, <1>2, <1>5, <1>10, FoldedAlong
<1>12. ASSUME NEW n \in 1..N PROVE r[n] = To(r[n - 1])
  <2>1. r[n - 1] \in V
    BY <1>1, <1>11 DEF Along
  <2> QED
    BY <1>11, <2>1 DEF Along
<1> QED
  BY <1>4, <1>11, <1>12 DEF N, To, s, V, Along

\* The nodes of all levels.
LevelsDone(levels) == UNION {ToSet(levels[i]) : i \in DOMAIN levels}

\* What holds after n turns.
TableInv(Node, succ, t, n) ==
    LET D == LevelsDone(t.levels)
    IN  /\ t \in Tables(Node) /\ D \in SUBSET Node /\ Counts(Node, succ, t.deg, D)
        /\ \A v \in D : t.deg[v] = 0
        /\ IsInjective(t.level) /\ ToSet(t.level) = {v \in Node \ D : t.deg[v] = 0}
        /\ \A i \in DOMAIN t.levels : IsInjective(t.levels[i])
        /\ \A i, j \in DOMAIN t.levels : \A v \in ToSet(t.levels[i]) : v \in ToSet(t.levels[j]) => i = j
        /\ \A j \in DOMAIN t.levels : \A v \in ToSet(t.levels[j]) : \A u \in Node :
              v \in succ[u] => \E i \in DOMAIN t.levels : i < j /\ u \in ToSet(t.levels[i])
        /\ t.level = <<>> \/ n \leq Cardinality(D)

\* It holds before the first turn.
LEMMA TableBegins ==
    ASSUME NEW Node, IsFiniteSet(Node), NEW succ \in [Node -> SUBSET Node],
           NEW adj, NEW order, Listing(Node, succ, adj, order)
    PROVE  TableInv(Node, succ, FirstTable(adj, order), 0)
<1> DEFINE t == FirstTable(adj, order)
<1>1. t.deg = InDegrees(adj) /\ t.level = Initial(adj, order) /\ t.levels = <<>>
  BY DEF FirstTable
<1>2. LevelsDone(t.levels) = {} /\ DOMAIN t.levels = {}
  BY <1>1 DEF LevelsDone
<1>3. Counts(Node, succ, t.deg, {})
  BY <1>1, FirstCounts
<1>4. /\ t.level \in Seq(Node) /\ IsInjective(t.level) /\ ToSet(t.level) \in SUBSET Node
      /\ \A v \in Node : v \in ToSet(t.level) <=> \A u \in Node : v \notin succ[u]
  BY <1>1, InitialAre
<1>5. t \in Tables(Node)
  <2>1. t.deg \in [Node -> Int]
    BY <1>3 DEF Counts
  <2> QED
    BY <1>1, <1>4, <2>1 DEF FirstTable, Tables
<1> HIDE DEF t
<1>6. ToSet(t.level) = {v \in Node \ {} : t.deg[v] = 0}
  <2>1. \A v \in Node : t.deg[v] = 0 <=> \A u \in Node : v \in succ[u] => u \in {}
    BY <1>3, CountIsZero
  <2> QED
    BY <1>4, <2>1
<1>7. Cardinality({}) = 0
  BY FS_EmptySet
<1>8. TableInv(Node, succ, t, 0)
  BY <1>2, <1>3, <1>4, <1>5, <1>6, <1>7 DEF TableInv
<1> QED
  BY <1>8 DEF t

\* A turn of the loop keeps it.
LEMMA TableStep ==
    ASSUME NEW Node, IsFiniteSet(Node), NEW succ \in [Node -> SUBSET Node],
           NEW adj, NEW order, Listing(Node, succ, adj, order),
           NEW n \in Nat, NEW t, TableInv(Node, succ, t, n)
    PROVE  TableInv(Node, succ, NextLevel(adj, t), n + 1)
<1>1. CASE t.level = <<>>
  <2>1. NextLevel(adj, t) = t
    BY <1>1 DEF NextLevel
  <2> QED
    BY <1>1, <2>1 DEF TableInv
<1>2. CASE t.level # <<>>
  <2> DEFINE D == LevelsDone(t.levels)
             L == ToSet(t.level)
             freed == ReleaseAll(adj, [deg |-> t.deg, out |-> <<>>], t.level)
             next == Append(t.levels, t.level)
             m == Len(t.levels)
             p == NextLevel(adj, t)
  <2>1. t.deg \in [Node -> Int] /\ t.level \in Seq(Node) /\ t.levels \in Seq(Seq(Node))
    BY DEF Tables, TableInv
  <2>2. /\ D \in SUBSET Node /\ Counts(Node, succ, t.deg, D) /\ \A v \in D : t.deg[v] = 0
        /\ IsInjective(t.level) /\ L = {v \in Node \ D : t.deg[v] = 0}
    BY DEF TableInv
  <2>3. p.deg = freed.deg /\ p.level = freed.out /\ p.levels = next
    BY <1>2 DEF NextLevel
  <2>4. p \in Tables(Node)
    BY NextLevelIsTyped DEF TableInv
  <2>5. /\ m \in Nat /\ DOMAIN t.levels = 1..m /\ DOMAIN next = 1..(m + 1)
        /\ next[m + 1] = t.level /\ \A i \in 1..m : next[i] = t.levels[i]
    BY <2>1
  <2> HIDE DEF D, L, next, m, p
  <2>6. Freeing(Node, succ, freed, D \cup L, D \cup L)
    BY <2>1, <2>2, LevelIsFreed DEF L
  <2> HIDE DEF freed
  <2>7. LevelsDone(next) = D \cup L
    <3>1. ASSUME NEW i \in 1..(m + 1) PROVE ToSet(next[i]) \subseteq D \cup L
      <4>1. i \in 1..m \/ i = m + 1
        BY <2>5
      <4> QED
        BY <2>5, <4>1 DEF D, L, LevelsDone
    <3>2. ASSUME NEW i \in 1..m PROVE ToSet(t.levels[i]) \subseteq LevelsDone(next)
      <4>1. i \in 1..(m + 1)
        BY <2>5
      <4> QED
        BY <2>5, <4>1 DEF LevelsDone
    <3>3. L \subseteq LevelsDone(next)
      BY <2>5 DEF L, LevelsDone
    <3>4. D \subseteq LevelsDone(next)
      BY <2>5, <3>2 DEF D, LevelsDone
    <3>5. LevelsDone(next) \subseteq D \cup L
      BY <2>5, <3>1 DEF LevelsDone
    <3> QED
      BY <3>3, <3>4, <3>5
  <2>8. ASSUME NEW i \in 1..(m + 1)
        PROVE  IsInjective(next[i])
    <3>1. i \in 1..m \/ i = m + 1
      BY <2>5
    <3> QED
      BY <2>2, <2>5, <3>1 DEF TableInv
  <2>9. ASSUME NEW i \in 1..m PROVE ToSet(t.levels[i]) \subseteq D /\ ToSet(t.levels[i]) \cap L = {}
    <3>1. ToSet(t.levels[i]) \subseteq D
      BY <2>5 DEF D, LevelsDone
    <3> QED
      BY <2>2, <3>1
  <2>10. ASSUME NEW i \in 1..(m + 1), NEW j \in 1..(m + 1), NEW v \in ToSet(next[i]), v \in ToSet(next[j])
         PROVE  i = j
    <3>1. (i \in 1..m \/ i = m + 1) /\ (j \in 1..m \/ j = m + 1)
      BY <2>5
    <3>2. CASE i \in 1..m /\ j \in 1..m
      BY <2>5, <2>10, <3>2 DEF TableInv
    <3>3. CASE i \in 1..m /\ j = m + 1
      BY <2>5, <2>9, <2>10, <3>3 DEF L
    <3>4. CASE i = m + 1 /\ j \in 1..m
      BY <2>5, <2>9, <2>10, <3>4 DEF L
    <3> QED
      BY <3>1, <3>2, <3>3, <3>4
  <2>11. ASSUME NEW j \in 1..(m + 1), NEW v \in ToSet(next[j]), NEW u \in Node, v \in succ[u]
         PROVE  \E i \in 1..(m + 1) : i < j /\ u \in ToSet(next[i])
    <3>1. CASE j \in 1..m
      <4>1. PICK i \in 1..m : i < j /\ u \in ToSet(t.levels[i])
        BY <2>5, <2>11, <3>1 DEF TableInv
      <4>2. i \in 1..(m + 1)
        BY <2>5
      <4> QED
        BY <2>5, <4>1, <4>2
    <3>2. CASE j = m + 1
      <4>1. v \in L
        BY <2>5, <2>11, <3>2 DEF L
      <4>2. u \in D
        BY <2>2, <2>11, <4>1, CountIsZero
      <4>3. PICK i \in 1..m : u \in ToSet(t.levels[i])
        BY <2>5, <4>2 DEF D, LevelsDone
      <4>4. i \in 1..(m + 1) /\ i < j
        BY <2>5, <3>2
      <4> QED
        BY <2>5, <4>3, <4>4
    <3> QED
      BY <2>5, <3>1, <3>2
  <2>12. n + 1 \leq Cardinality(D \cup L)
    <3>1. n \leq Cardinality(D)
      BY <1>2 DEF TableInv, D
    <3>2. PICK v : v \in L
      <4>1. 1 \in DOMAIN t.level
        BY <1>2, <2>1
      <4> QED
        BY <4>1 DEF L, ToSet
    <3>3. IsFiniteSet(D) /\ IsFiniteSet(D \cup L) /\ v \notin D
      <4>1. D \cup L \in SUBSET Node
        BY <2>2
      <4> QED
        BY <2>2, <3>2, <4>1, FS_Subset
    <3>4. Cardinality(D \cup {v}) = Cardinality(D) + 1 /\ IsFiniteSet(D \cup {v})
      BY <3>3, FS_AddElement
    <3>5. Cardinality(D \cup {v}) \leq Cardinality(D \cup L)
      <4>1. D \cup {v} \in SUBSET (D \cup L)
        BY <3>2
      <4> QED
        BY <3>3, <4>1, FS_Subset
    <3>6. Cardinality(D) \in Nat /\ Cardinality(D \cup L) \in Nat
      BY <3>3, FS_CardinalityType
    <3> QED
      BY <3>1, <3>4, <3>5, <3>6
  <2>13. /\ LevelsDone(p.levels) = D \cup L /\ D \cup L \in SUBSET Node
         /\ Counts(Node, succ, p.deg, D \cup L) /\ \A v \in D \cup L : p.deg[v] = 0
         /\ IsInjective(p.level) /\ ToSet(p.level) = {v \in Node \ (D \cup L) : p.deg[v] = 0}
    BY <2>2, <2>3, <2>6, <2>7 DEF Freeing
  <2>14. /\ \A i \in DOMAIN p.levels : IsInjective(p.levels[i])
         /\ \A i, j \in DOMAIN p.levels : \A v \in ToSet(p.levels[i]) : v \in ToSet(p.levels[j]) => i = j
    BY <2>3, <2>5, <2>8, <2>10
  <2>15. \A j \in DOMAIN p.levels : \A v \in ToSet(p.levels[j]) : \A u \in Node :
            v \in succ[u] => \E i \in DOMAIN p.levels : i < j /\ u \in ToSet(p.levels[i])
    BY <2>3, <2>5, <2>11
  <2>16. TableInv(Node, succ, p, n + 1)
    BY <2>4, <2>12, <2>13, <2>14, <2>15 DEF TableInv
  <2> QED
    BY <2>16 DEF p
<1> QED
  BY <1>1, <1>2

\* It holds of the table getExecutionLevels returns.
LEMMA TableEnds ==
    ASSUME NEW Node, IsFiniteSet(Node), NEW succ \in [Node -> SUBSET Node],
           NEW adj, NEW order, Listing(Node, succ, adj, order)
    PROVE  \E t : TableInv(Node, succ, t, Len(order)) /\ ExecutionLevels(adj, order) = t.levels
<1> DEFINE N == Len(order)
<1>1. PICK r : /\ r \in [0..N -> Tables(Node)] /\ r[0] = FirstTable(adj, order)
               /\ \A n \in 1..N : r[n] = NextLevel(adj, r[n - 1])
               /\ ExecutionLevels(adj, order) = r[N].levels
  BY ExecutionLevelsAre
<1>2. N \in Nat
  BY DEF Listing
<1> DEFINE P == {n \in 0..N : TableInv(Node, succ, r[n], n)}
<1>3. 0 \in P
  BY <1>1, <1>2, TableBegins
<1>4. ASSUME NEW n \in 1..N, n - 1 \in P PROVE n \in P
  <2>1. TableInv(Node, succ, r[n - 1], n - 1) /\ n - 1 \in Nat /\ (n - 1) + 1 = n /\ n \in 0..N
    BY <1>2, <1>4
  <2>2. TableInv(Node, succ, NextLevel(adj, r[n - 1]), (n - 1) + 1)
    BY <2>1, TableStep
  <2> QED
    BY <1>1, <2>1, <2>2
<1> HIDE DEF P, N
<1>5. \A n \in 0..N : n \in P
  BY <1>2, <1>3, <1>4, CountUp
<1>6. N \in P
  BY <1>2, <1>5
<1>7. TableInv(Node, succ, r[N], N)
  BY <1>6 DEF P
<1> QED
  BY <1>1, <1>7 DEF N

\* The levels rank the nodes they hold.
LEMMA LevelsAreRanked ==
    ASSUME NEW Node, IsFiniteSet(Node), NEW succ \in [Node -> SUBSET Node],
           NEW t, TableInv(Node, succ, t, Cardinality(Node))
    PROVE  \E rank : Ranked(Node, succ, LevelsDone(t.levels), rank)
<1> DEFINE D == LevelsDone(t.levels)
           ls == t.levels
           m == Len(t.levels)
           rank == [v \in D |-> CHOOSE i \in 1..m : v \in ToSet(ls[i])]
<1>1. /\ ls \in Seq(Seq(Node)) /\ t.level \in Seq(Node)
      /\ Counts(Node, succ, t.deg, D) /\ ToSet(t.level) = {v \in Node \ D : t.deg[v] = 0}
      /\ t.level = <<>> \/ Cardinality(Node) \leq Cardinality(D)
      /\ D \in SUBSET Node
  BY DEF TableInv, Tables
<1>2. m \in Nat /\ DOMAIN ls = 1..m
  BY <1>1
<1>3. {v \in Node \ D : t.deg[v] = 0} = {}
  <2>1. CASE t.level = <<>>
    BY <1>1, <2>1 DEF ToSet
  <2>2. CASE Cardinality(Node) \leq Cardinality(D)
    <3> HIDE DEF D
    <3>1. Cardinality(D) \leq Cardinality(Node) /\ Cardinality(D) \in Nat /\ Cardinality(Node) \in Nat
      BY <1>1, FS_Subset, FS_CardinalityType
    <3>2. D = Node
      BY <1>1, <2>2, <3>1, FS_Subset
    <3> QED
      BY <3>2
  <2> QED
    BY <1>1, <2>1, <2>2
<1>4. ASSUME NEW v \in D
      PROVE  rank[v] \in 1..m /\ v \in ToSet(ls[rank[v]])
  <2>1. \E i \in 1..m : v \in ToSet(ls[i])
    BY <1>2 DEF LevelsDone
  <2> QED
    BY <2>1
<1>5. rank \in [D -> Nat]
  BY <1>2, <1>4
<1> HIDE DEF rank
<1>6. ASSUME NEW v \in D, NEW u \in Node, v \in succ[u]
      PROVE  u \in D /\ rank[u] < rank[v]
  <2>1. PICK i \in 1..m : i < rank[v] /\ u \in ToSet(ls[i])
    BY <1>2, <1>4, <1>6 DEF TableInv
  <2>2. u \in D
    BY <1>2, <2>1 DEF LevelsDone
  <2>3. rank[u] = i
    <3>1. rank[u] \in 1..m /\ u \in ToSet(ls[rank[u]])
      BY <1>4, <2>2
    <3> QED
      BY <1>2, <2>1, <3>1 DEF TableInv
  <2> QED
    BY <2>1, <2>2, <2>3
<1> HIDE DEF D
<1>7. ASSUME NEW v \in Node, \A u \in Node : v \in succ[u] => u \in D
      PROVE  v \in D
  <2>1. t.deg[v] = 0
    BY <1>1, <1>7, CountIsZero
  <2> QED
    BY <1>3, <2>1
<1>8. Ranked(Node, succ, D, rank)
  BY <1>1, <1>5, <1>6, <1>7 DEF Ranked
<1> QED
  BY <1>8 DEF D

\* The levels v is in.
LevelsAt(levels, v) == {i \in DOMAIN levels : v \in ToSet(levels[i])}

\* What getExecutionLevels promises.
LevelsSound(Node, succ, levels) ==
    /\ \A i \in DOMAIN levels : IsInjective(levels[i])
    /\ \A v \in Node :
          /\ LevelsAt(levels, v) = {} <=> BehindCycle(succ, v)
          /\ Cardinality(LevelsAt(levels, v)) \leq 1
          /\ \A u \in Node : v \in succ[u] =>
               \A j \in LevelsAt(levels, v) : \E i \in LevelsAt(levels, u) : i < j

\* getExecutionLevels, of every finite graph and for every order of traversal:
\* each node that no cycle reaches is in one level, once, after the levels of
\* its predecessors, and the others are in none.
THEOREM ExecutionLevelsAreCorrect ==
    ASSUME NEW Node, IsFiniteSet(Node), NEW succ \in [Node -> SUBSET Node],
           NEW adj, NEW order, Listing(Node, succ, adj, order), Len(order) = Cardinality(Node)
    PROVE  LevelsSound(Node, succ, ExecutionLevels(adj, order))
<1>1. PICK t : TableInv(Node, succ, t, Cardinality(Node)) /\ ExecutionLevels(adj, order) = t.levels
  BY TableEnds
<1> DEFINE ls == t.levels
<1>2. PICK rank : Ranked(Node, succ, LevelsDone(ls), rank)
  BY <1>1, LevelsAreRanked
<1>3. \A i \in DOMAIN ls : IsInjective(ls[i])
  BY <1>1 DEF TableInv
<1>4. ASSUME NEW v \in Node
      PROVE  LevelsAt(ls, v) = {} <=> BehindCycle(succ, v)
  <2>1. LevelsAt(ls, v) = {} <=> v \notin LevelsDone(ls)
    BY DEF LevelsAt, LevelsDone
  <2>2. v \notin LevelsDone(ls) <=> BehindCycle(succ, v)
    BY <1>2, RankedIsNotBehind
  <2> QED
    BY <2>1, <2>2
<1>5. ASSUME NEW v \in Node
      PROVE  Cardinality(LevelsAt(ls, v)) \leq 1
  <2>1. \A i, j \in LevelsAt(ls, v) : i = j
    BY <1>1 DEF LevelsAt, TableInv
  <2>2. CASE LevelsAt(ls, v) = {}
    BY <2>2, FS_EmptySet
  <2>3. CASE LevelsAt(ls, v) # {}
    <3>1. PICK i \in LevelsAt(ls, v) : TRUE
      BY <2>3
    <3>2. LevelsAt(ls, v) = {i}
      BY <2>1, <3>1
    <3>3. Cardinality({i}) = 1
      BY FS_Singleton
    <3> QED
      BY <3>2, <3>3
  <2> QED
    BY <2>2, <2>3
<1>6. ASSUME NEW v \in Node, NEW u \in Node, v \in succ[u], NEW j \in LevelsAt(ls, v)
      PROVE  \E i \in LevelsAt(ls, u) : i < j
  BY <1>1, <1>6 DEF LevelsAt, TableInv
<1>7. LevelsSound(Node, succ, ls)
  <2> HIDE DEF ls
  <2> QED
    BY <1>3, <1>4, <1>5, <1>6 DEF LevelsSound
<1> QED
  BY <1>1, <1>7

----------------------------------------------------------------------------
(* The depth-first search                                                  *)

\* A call of dfs: the search so far and the node; deeper answers all of them.
Calls(adj) == Searches(adj) \X DOMAIN adj
Deepers(adj) == [Calls(adj) -> Searches(adj)]

\* Both searches have found a cycle, or neither has.
SameAnswer(r, acc) == r.cycle <=> acc.cycle

\* Painting a node changes its colour and nothing else.
LEMMA ColouredIsTyped ==
    ASSUME NEW adj, NEW acc \in Searches(adj), NEW u \in DOMAIN adj, NEW c \in {"white", "gray", "black"}
    PROVE  /\ Coloured(acc, u, c) \in Searches(adj)
           /\ SameAnswer(Coloured(acc, u, c), acc)
           /\ \A v \in DOMAIN adj : Coloured(acc, u, c).colour[v] = IF v = u THEN c ELSE acc.colour[v]
<1>1. acc.cycle \in BOOLEAN /\ acc.colour \in [DOMAIN adj -> {"white", "gray", "black"}]
  BY DEF Searches
<1>2. acc = [cycle |-> acc.cycle, colour |-> acc.colour]
  BY DEF Searches
<1>3. Coloured(acc, u, c) = [cycle |-> acc.cycle, colour |-> [acc.colour EXCEPT ![u] = c]]
  BY <1>2 DEF Coloured
<1>4. [acc.colour EXCEPT ![u] = c] \in [DOMAIN adj -> {"white", "gray", "black"}]
  BY <1>1
<1>5. SameAnswer(Coloured(acc, u, c), acc)
  BY <1>3 DEF SameAnswer
<1>6. \A v \in DOMAIN adj : Coloured(acc, u, c).colour[v] = IF v = u THEN c ELSE acc.colour[v]
  BY <1>1, <1>3
<1>7. Coloured(acc, u, c) \in Searches(adj)
  BY <1>1, <1>3, <1>4 DEF Searches
<1> QED
  BY <1>5, <1>6, <1>7

\* Looking at a successor yields a search again.
LEMMA LookIsTyped ==
    ASSUME NEW adj, NEW deeper \in Deepers(adj), NEW acc \in Searches(adj), NEW v \in DOMAIN adj
    PROVE  Look(deeper, acc, v) \in Searches(adj)
<1>1. acc.colour[v] \in {"white", "gray", "black"} /\ acc.cycle \in BOOLEAN
  BY DEF Searches
<1>2. CASE acc.cycle
  BY <1>2 DEF Look
<1>3. CASE ~acc.cycle /\ acc.colour[v] = "gray"
  <2>1. Look(deeper, acc, v) = [acc EXCEPT !.cycle = TRUE]
    BY <1>3 DEF Look
  <2> QED
    BY <2>1 DEF Searches
<1>4. CASE ~acc.cycle /\ acc.colour[v] = "white"
  <2>1. Look(deeper, acc, v) = deeper[<<acc, v>>]
    BY <1>4 DEF Look
  <2>2. <<acc, v>> \in Calls(adj)
    BY DEF Calls
  <2> QED
    BY <2>1, <2>2 DEF Deepers
<1>5. CASE ~acc.cycle /\ acc.colour[v] = "black"
  BY <1>5 DEF Look
<1> QED
  BY <1>1, <1>2, <1>3, <1>4, <1>5

\* Looking at a list passes through the searches after each of its nodes.
LEMMA LookAllIs ==
    ASSUME NEW adj, NEW deeper \in Deepers(adj), NEW s \in Searches(adj), NEW list \in Seq(DOMAIN adj)
    PROVE  \E r : /\ r \in [0..Len(list) -> Searches(adj)] /\ r[0] = s
                  /\ \A n \in 1..Len(list) : r[n] = Look(deeper, r[n - 1], list[n])
                  /\ LookAll(deeper, s, list) = r[Len(list)]
<1> DEFINE N == Len(list)
           V == Searches(adj)
           To(a, v) == Look(deeper, a, v)
           Is(h) == h = [S \in SUBSET (1..N) |-> IF S = {} THEN s
                                                  ELSE To(h[S \ {Max(S)}], list[Max(S)])]
           F == CHOOSE h : Is(h)
           step == [i \in 1..N |-> [a \in V |-> To(a, list[i])]]
<1>1. N \in Nat /\ DOMAIN list = 1..N /\ \A i \in 1..N : list[i] \in DOMAIN adj
  OBVIOUS
<1>2. s \in V
  OBVIOUS
<1>3. \A a \in V : \A i \in 1..N : To(a, list[i]) \in V
  BY <1>1, LookIsTyped
<1>4. LookAll(deeper, s, list) = F[1..N]
  <2>1. LookAll(deeper, s, list) =
          (CHOOSE h : h = [S \in SUBSET DOMAIN list |-> IF S = {} THEN s
                              ELSE To(h[S \ {Max(S)}], list[Max(S)])])[DOMAIN list]
    BY DEF LookAll, FoldLeft, MapThenFoldSet
  <2> HIDE DEF To, N
  <2> QED
    BY <1>1, <2>1
<1> HIDE DEF To, N, V
<1>5. step \in [1..N -> [V -> V]]
  BY <1>3
<1>6. PICK h \in [SUBSET (1..N) -> V] : FoldOf(h, s, N, step)
  <2> HIDE DEF step
  <2> QED
    BY <1>1, <1>2, <1>5, FoldsExist
<1>7. \A S \in SUBSET (1..N) : S # {} => Max(S) \in 1..N
  BY <1>1, MaxIsIn
<1>8. Is(h)
  <2>1. ASSUME NEW S \in SUBSET (1..N), S # {}
        PROVE  step[Max(S)][h[S \ {Max(S)}]] = To(h[S \ {Max(S)}], list[Max(S)])
    <3>1. h[S \ {Max(S)}] \in V
      BY <1>6
    <3> QED
      BY <1>7, <2>1, <3>1
  <2> HIDE DEF step
  <2> QED
    BY <1>6, <2>1 DEF FoldOf
<1>9. Is(F)
  <2> HIDE DEF Is
  <2> QED
    BY <1>8
<1> HIDE DEF F
<1>10. Folded(F, V, s, N, step)
  BY <1>7, <1>9 DEF Folded
<1>11. PICK r : Along(r, V, s, N, step) /\ F[1..N] = r[N]
  <2>1. N \in Nat
    BY <1>1
  <2> HIDE DEF step, Is
  <2> QED
    BY <2>1, <1>2, <1>5, <1>10, FoldedAlong
<1>12. ASSUME NEW n \in 1..N PROVE r[n] = To(r[n - 1], list[n])
  <2>1. r[n - 1] \in V
    BY <1>1, <1>11 DEF Along
  <2>2. r[n] = step[n][r[n - 1]]
    <3> HIDE DEF step
    <3> QED
      BY <1>11 DEF Along
  <2> QED
    BY <2>1, <2>2
<1> QED
  BY <1>4, <1>11, <1>12 DEF N, To, V, Along

\* Visiting a node yields a search again.
LEMMA VisitIsTyped ==
    ASSUME NEW Node, NEW succ, NEW adj, NEW order, Listing(Node, succ, adj, order),
           NEW deeper \in Deepers(adj), NEW acc \in Searches(adj), NEW u \in Node
    PROVE  Visit(adj, deeper, acc, u) \in Searches(adj)
<1> DEFINE s == Coloured(acc, u, "gray")
           seen == LookAll(deeper, s, adj[u])
<1>1. DOMAIN adj = Node /\ adj[u] \in Seq(DOMAIN adj)
  BY DEF Listing
<1>2. s \in Searches(adj)
  BY <1>1, ColouredIsTyped
<1>3. Visit(adj, deeper, acc, u) = IF seen.cycle THEN seen ELSE Coloured(seen, u, "black")
  BY DEF Visit, LeaveBlack
<1> HIDE DEF s
<1>4. PICK r : /\ r \in [0..Len(adj[u]) -> Searches(adj)] /\ r[0] = s
               /\ \A n \in 1..Len(adj[u]) : r[n] = Look(deeper, r[n - 1], adj[u][n])
               /\ LookAll(deeper, s, adj[u]) = r[Len(adj[u])]
  BY <1>1, <1>2, LookAllIs
<1>5. Len(adj[u]) \in 0..Len(adj[u])
  BY <1>1
<1>6. seen \in Searches(adj)
  BY <1>4, <1>5
<1> HIDE DEF seen
<1>7. Coloured(seen, u, "black") \in Searches(adj)
  BY <1>1, <1>6, ColouredIsTyped
<1> QED
  BY <1>3, <1>6, <1>7

\* dfs with its recursion unfolded once more.
Unfold(adj, deeper) == [call \in Calls(adj) |-> Visit(adj, deeper, call[1], call[2])]
NoCall(adj) == [call \in Calls(adj) |-> call[1]]

\* The unfoldings are functions on the calls.
LEMMA UnfoldIsTyped ==
    ASSUME NEW Node, NEW succ, NEW adj, NEW order, Listing(Node, succ, adj, order)
    PROVE  /\ NoCall(adj) \in Deepers(adj)
           /\ \A deeper \in Deepers(adj) : Unfold(adj, deeper) \in Deepers(adj)
<1>1. DOMAIN adj = Node
  BY DEF Listing
<1>2. ASSUME NEW call \in Calls(adj) PROVE call[1] \in Searches(adj) /\ call[2] \in Node
  BY <1>1 DEF Calls
<1>3. NoCall(adj) \in Deepers(adj)
  BY <1>2 DEF NoCall, Deepers
<1>4. ASSUME NEW deeper \in Deepers(adj) PROVE Unfold(adj, deeper) \in Deepers(adj)
  <2>1. ASSUME NEW call \in Calls(adj) PROVE Visit(adj, deeper, call[1], call[2]) \in Searches(adj)
    BY <1>2, VisitIsTyped
  <2> QED
    BY <2>1 DEF Unfold, Deepers
<1> QED
  BY <1>3, <1>4

\* Dfs passes through its unfoldings.
LEMMA DfsIs ==
    ASSUME NEW Node, NEW succ, NEW adj, NEW order, Listing(Node, succ, adj, order)
    PROVE  \E r : /\ r \in [0..Len(order) -> Deepers(adj)] /\ r[0] = NoCall(adj)
                  /\ \A n \in 1..Len(order) : r[n] = Unfold(adj, r[n - 1])
                  /\ Dfs(adj, order) = r[Len(order)]
<1> DEFINE N == Len(order)
           V == Deepers(adj)
           s == NoCall(adj)
           To(d) == Unfold(adj, d)
           Is(h) == h = [S \in SUBSET (1..N) |-> IF S = {} THEN s ELSE To(h[S \ {Max(S)}])]
           F == CHOOSE h : Is(h)
           step == [i \in 1..N |-> [d \in V |-> To(d)]]
<1>1. N \in Nat /\ DOMAIN order = 1..N
  BY DEF Listing
<1>2. s \in V
  BY UnfoldIsTyped
<1>3. \A d \in V : To(d) \in V
  BY UnfoldIsTyped
<1>4. Dfs(adj, order) = F[1..N]
  <2>1. Dfs(adj, order) =
          (CHOOSE h : h = [S \in SUBSET DOMAIN order |-> IF S = {} THEN s
                              ELSE To(h[S \ {Max(S)}])])[DOMAIN order]
    BY DEF Dfs, FoldLeft, MapThenFoldSet, NoCall, Unfold, Calls
  <2> HIDE DEF To, N, s
  <2> QED
    BY <1>1, <2>1
<1> HIDE DEF To, N, s, V
<1>5. step \in [1..N -> [V -> V]]
  BY <1>3
<1>6. PICK h \in [SUBSET (1..N) -> V] : FoldOf(h, s, N, step)
  <2> HIDE DEF step
  <2> QED
    BY <1>1, <1>2, <1>5, FoldsExist
<1>7. \A S \in SUBSET (1..N) : S # {} => Max(S) \in 1..N
  BY <1>1, MaxIsIn
<1>8. Is(h)
  <2>1. ASSUME NEW S \in SUBSET (1..N), S # {}
        PROVE  step[Max(S)][h[S \ {Max(S)}]] = To(h[S \ {Max(S)}])
    <3>1. h[S \ {Max(S)}] \in V
      BY <1>6
    <3> QED
      BY <1>7, <2>1, <3>1
  <2> HIDE DEF step
  <2> QED
    BY <1>6, <2>1 DEF FoldOf
<1>9. Is(F)
  <2> HIDE DEF Is
  <2> QED
    BY <1>8
<1> HIDE DEF F
<1>10. Folded(F, V, s, N, step)
  BY <1>7, <1>9 DEF Folded
<1>11. PICK r : Along(r, V, s, N, step) /\ F[1..N] = r[N]
  <2>1. N \in Nat
    BY <1>1
  <2> HIDE DEF step
  <2> QED
    BY <1>1, <1>2, <1>5, <1>10, FoldedAlong
<1>12. ASSUME NEW n \in 1..N PROVE r[n] = To(r[n - 1])
  <2>1. r[n - 1] \in V
    BY <1>1, <1>11 DEF Along
  <2> QED
    BY <1>11, <2>1 DEF Along
<1> QED
  BY <1>4, <1>11, <1>12 DEF N, To, s, V, Along

\* hasCycle passes through the searches after each node of the map.
LEMMA HasCycleIs ==
    ASSUME NEW Node, NEW succ, NEW adj, NEW order, Listing(Node, succ, adj, order)
    PROVE  \E r : /\ r \in [0..Len(order) -> Searches(adj)] /\ r[0] = AllWhite(adj)
                  /\ \A n \in 1..Len(order) : r[n] = SearchFrom(Dfs(adj, order), r[n - 1], order[n])
                  /\ HasCycle(adj, order) = r[Len(order)].cycle
<1> DEFINE N == Len(order)
           V == Searches(adj)
           s == AllWhite(adj)
           dfs == Dfs(adj, order)
           To(a, u) == SearchFrom(dfs, a, u)
           Is(h) == h = [S \in SUBSET (1..N) |-> IF S = {} THEN s
                                                  ELSE To(h[S \ {Max(S)}], order[Max(S)])]
           F == CHOOSE h : Is(h)
           step == [i \in 1..N |-> [a \in V |-> To(a, order[i])]]
<1>1. /\ N \in Nat /\ DOMAIN order = 1..N /\ \A i \in 1..N : order[i] \in Node
      /\ DOMAIN adj = Node
  BY DEF Listing
<1>2. s \in V
  BY DEF AllWhite, Searches
<1>3. \A a \in V : \A i \in 1..N : To(a, order[i]) \in V
  <2>1. dfs \in Deepers(adj)
    <3>1. PICK r : r \in [0..N -> Deepers(adj)] /\ Dfs(adj, order) = r[N]
      BY DfsIs
    <3>2. N \in 0..N
      BY <1>1
    <3> QED
      BY <3>1, <3>2
  <2> HIDE DEF dfs
  <2> SUFFICES ASSUME NEW a \in V, NEW i \in 1..N PROVE To(a, order[i]) \in V
    OBVIOUS
  <2>2. <<a, order[i]>> \in Calls(adj)
    BY <1>1 DEF Calls
  <2>3. dfs[<<a, order[i]>>] \in V
    BY <2>1, <2>2 DEF Deepers
  <2> QED
    BY <2>3 DEF SearchFrom
<1>4. HasCycle(adj, order) = F[1..N].cycle
  <2>1. HasCycle(adj, order) =
          (CHOOSE h : h = [S \in SUBSET DOMAIN order |-> IF S = {} THEN s
                              ELSE To(h[S \ {Max(S)}], order[Max(S)])])[DOMAIN order].cycle
    BY DEF HasCycle, FoldLeft, MapThenFoldSet
  <2> HIDE DEF To, N, s
  <2> QED
    BY <1>1, <2>1
<1> HIDE DEF To, N, V, s
<1>5. step \in [1..N -> [V -> V]]
  BY <1>3
<1>6. PICK h \in [SUBSET (1..N) -> V] : FoldOf(h, s, N, step)
  <2> HIDE DEF step
  <2> QED
    BY <1>1, <1>2, <1>5, FoldsExist
<1>7. \A S \in SUBSET (1..N) : S # {} => Max(S) \in 1..N
  BY <1>1, MaxIsIn
<1>8. Is(h)
  <2>1. ASSUME NEW S \in SUBSET (1..N), S # {}
        PROVE  step[Max(S)][h[S \ {Max(S)}]] = To(h[S \ {Max(S)}], order[Max(S)])
    <3>1. h[S \ {Max(S)}] \in V
      BY <1>6
    <3> QED
      BY <1>7, <2>1, <3>1
  <2> HIDE DEF step
  <2> QED
    BY <1>6, <2>1 DEF FoldOf
<1>9. Is(F)
  <2> HIDE DEF Is
  <2> QED
    BY <1>8
<1> HIDE DEF F
<1>10. Folded(F, V, s, N, step)
  BY <1>7, <1>9 DEF Folded
<1>11. PICK r : Along(r, V, s, N, step) /\ F[1..N] = r[N]
  <2>1. N \in Nat
    BY <1>1
  <2> HIDE DEF step
  <2> QED
    BY <1>1, <1>2, <1>5, <1>10, FoldedAlong
<1>12. ASSUME NEW n \in 1..N PROVE r[n] = To(r[n - 1], order[n])
  <2>1. r[n - 1] \in V
    BY <1>1, <1>11 DEF Along
  <2>2. r[n] = step[n][r[n - 1]]
    <3> HIDE DEF step
    <3> QED
      BY <1>11 DEF Along
  <2> QED
    BY <2>1, <2>2
<1> QED
  BY <1>4, <1>11, <1>12 DEF N, To, V, s, Along

\* The nodes of one colour.
Having(acc, c) == {v \in DOMAIN acc.colour : acc.colour[v] = c}

\* A closed set of nodes on none of which a cycle begins.
Clear(Node, succ, B) ==
    /\ B \in SUBSET Node /\ \A u \in B : succ[u] \subseteq B
    /\ \A S \in SUBSET B : S # {} => \E u \in S : succ[u] \cap S = {}

\* What a search that began at acc and found no cycle leaves: the same nodes
\* under way, and what it finished is clear.
Deepened(Node, succ, acc, r) ==
    /\ Having(r, "gray") = Having(acc, "gray")
    /\ Having(acc, "black") \subseteq Having(r, "black")
    /\ Having(r, "white") \subseteq Having(acc, "white")
    /\ Clear(Node, succ, Having(r, "black"))

\* A cycle that is reported is there.
Honest(Node, succ, acc, r, done) ==
    IF r.cycle THEN Cyclic(succ)
    ELSE Deepened(Node, succ, acc, r) /\ done \subseteq Having(r, "black")

\* What a call of dfs promises while at most n nodes are white.
Promises(Node, succ, adj, deeper, n) ==
    \A acc \in Searches(adj), u \in Node :
       (/\ ~acc.cycle /\ acc.colour[u] = "white" /\ Clear(Node, succ, Having(acc, "black"))
        /\ Cardinality(Having(acc, "white")) \leq n
        /\ \A g \in Having(acc, "gray") : Reaches(succ, g, u)) =>
         Honest(Node, succ, acc, deeper[<<acc, u>>], {u})

\* A node all of whose successors are clear can be added.
LEMMA ClearGrows ==
    ASSUME NEW Node, NEW succ \in [Node -> SUBSET Node], NEW B, Clear(Node, succ, B),
           NEW u \in Node \ B, succ[u] \subseteq B
    PROVE  Clear(Node, succ, B \cup {u})
<1>1. ASSUME NEW S \in SUBSET (B \cup {u}), S # {}
      PROVE  \E w \in S : succ[w] \cap S = {}
  <2>1. CASE S \ {u} = {}
    <3>1. S = {u}
      BY <1>1, <2>1
    <3> QED
      BY <3>1
  <2>2. CASE S \ {u} # {}
    <3>1. S \ {u} \in SUBSET B
      OBVIOUS
    <3>2. PICK w \in S \ {u} : succ[w] \cap (S \ {u}) = {}
      BY <2>2, <3>1 DEF Clear
    <3>3. succ[w] \subseteq B
      BY <3>1 DEF Clear
    <3> QED
      BY <3>2, <3>3
  <2> QED
    BY <2>1, <2>2
<1>2. B \cup {u} \in SUBSET Node
  BY DEF Clear
<1>3. \A w \in B \cup {u} : succ[w] \subseteq B \cup {u}
  BY DEF Clear
<1> QED
  BY <1>1, <1>2, <1>3 DEF Clear

\* The colours part the nodes.
LEMMA HavingAre ==
    ASSUME NEW adj, NEW acc \in Searches(adj)
    PROVE  /\ \A c : \A v : v \in Having(acc, c) <=> v \in DOMAIN adj /\ acc.colour[v] = c
           /\ \A v \in DOMAIN adj : acc.colour[v] \in {"white", "gray", "black"}
           /\ acc.cycle \in BOOLEAN
BY DEF Having, Searches

\* The loop over the successors keeps the promise, given that the calls do.
LEMMA LookIsHonest ==
    ASSUME NEW Node, IsFiniteSet(Node), NEW succ \in [Node -> SUBSET Node],
           NEW adj, DOMAIN adj = Node, NEW deeper \in Deepers(adj),
           NEW n \in Nat, Promises(Node, succ, adj, deeper, n),
           NEW s \in Searches(adj), Cardinality(Having(s, "white")) \leq n,
           NEW v \in Node, \A g \in Having(s, "gray") : Reaches(succ, g, v),
           NEW acc \in Searches(adj), NEW done, Honest(Node, succ, s, acc, done)
    PROVE  Honest(Node, succ, s, Look(deeper, acc, v), done \cup {v})
<1> DEFINE r == Look(deeper, acc, v)
<1>1. CASE acc.cycle
  <2>1. r = acc
    BY <1>1 DEF Look
  <2> QED
    BY <1>1, <2>1 DEF Honest
<1>2. CASE ~acc.cycle
  <2>1. Deepened(Node, succ, s, acc) /\ done \subseteq Having(acc, "black")
    BY <1>2 DEF Honest
  <2>2. acc.colour[v] \in {"white", "gray", "black"} /\ \A c : v \in Having(acc, c) <=> acc.colour[v] = c
    BY HavingAre
  <2>3. CASE acc.colour[v] = "gray"
    <3>1. r = [acc EXCEPT !.cycle = TRUE]
      BY <1>2, <2>3 DEF Look
    <3>2. r.cycle
      BY <3>1 DEF Searches
    <3>3. v \in Having(s, "gray")
      BY <2>1, <2>2, <2>3 DEF Deepened
    <3>4. Cyclic(succ)
      BY <3>3, ReachesItself
    <3> HIDE DEF r
    <3>5. Honest(Node, succ, s, r, done \cup {v})
      BY <3>2, <3>4 DEF Honest
    <3> QED
      BY <3>5 DEF r
  <2>4. CASE acc.colour[v] = "white"
    <3>1. r = deeper[<<acc, v>>]
      BY <1>2, <2>4 DEF Look
    <3>2. Cardinality(Having(acc, "white")) \leq n
      <4>1. IsFiniteSet(Having(s, "white"))
        <5>1. Having(s, "white") \in SUBSET Node
          BY HavingAre
        <5> QED
          BY <5>1, FS_Subset
      <4>2. Having(acc, "white") \subseteq Having(s, "white")
        BY <2>1 DEF Deepened
      <4>3. /\ IsFiniteSet(Having(acc, "white"))
            /\ Cardinality(Having(acc, "white")) \leq Cardinality(Having(s, "white"))
        BY <4>1, <4>2, FS_Subset
      <4>4. Cardinality(Having(acc, "white")) \in Nat /\ Cardinality(Having(s, "white")) \in Nat
        BY <4>1, <4>3, FS_CardinalityType
      <4> QED
        BY <4>3, <4>4
    <3>3. /\ Clear(Node, succ, Having(acc, "black"))
          /\ \A g \in Having(acc, "gray") : Reaches(succ, g, v)
      BY <2>1 DEF Deepened
    <3>4. Honest(Node, succ, acc, r, {v})
      BY <1>2, <2>4, <3>1, <3>2, <3>3 DEF Promises
    <3> HIDE DEF r
    <3>5. ASSUME r.cycle PROVE Honest(Node, succ, s, r, done \cup {v})
      BY <3>4, <3>5 DEF Honest
    <3>6. ASSUME ~r.cycle PROVE Honest(Node, succ, s, r, done \cup {v})
      <4>1. Deepened(Node, succ, acc, r) /\ v \in Having(r, "black")
        BY <3>4, <3>6 DEF Honest
      <4>2. Deepened(Node, succ, s, r)
        BY <2>1, <4>1 DEF Deepened
      <4>3. done \cup {v} \subseteq Having(r, "black")
        BY <2>1, <4>1 DEF Deepened
      <4> QED
        BY <3>6, <4>2, <4>3 DEF Honest
    <3>7. Honest(Node, succ, s, r, done \cup {v})
      BY <3>5, <3>6
    <3> QED
      BY <3>7 DEF r
  <2>5. CASE acc.colour[v] = "black"
    <3>1. r = acc
      BY <1>2, <2>5 DEF Look
    <3>2. done \cup {v} \subseteq Having(acc, "black")
      BY <2>1, <2>2, <2>5
    <3>3. Honest(Node, succ, s, acc, done \cup {v})
      BY <1>2, <2>1, <3>2 DEF Honest
    <3> QED
      BY <3>1, <3>3
  <2> QED
    BY <2>2, <2>3, <2>4, <2>5
<1> QED
  BY <1>1, <1>2

\* So does the whole loop.
LEMMA LookAllIsHonest ==
    ASSUME NEW Node, IsFiniteSet(Node), NEW succ \in [Node -> SUBSET Node],
           NEW adj, DOMAIN adj = Node, NEW deeper \in Deepers(adj),
           NEW n \in Nat, Promises(Node, succ, adj, deeper, n),
           NEW s \in Searches(adj), ~s.cycle, Cardinality(Having(s, "white")) \leq n,
           Clear(Node, succ, Having(s, "black")),
           NEW list \in Seq(Node),
           \A v \in ToSet(list) : \A g \in Having(s, "gray") : Reaches(succ, g, v)
    PROVE  /\ LookAll(deeper, s, list) \in Searches(adj)
           /\ Honest(Node, succ, s, LookAll(deeper, s, list), ToSet(list))
<1> DEFINE N == Len(list)
           Upto(k) == {list[i] : i \in 1..k}
<1>1. N \in Nat /\ Upto(N) = ToSet(list) /\ \A i \in 1..N : list[i] \in Node /\ list[i] \in ToSet(list)
  BY DEF ToSet
<1>2. PICK r : /\ r \in [0..N -> Searches(adj)] /\ r[0] = s
               /\ \A k \in 1..N : r[k] = Look(deeper, r[k - 1], list[k])
               /\ LookAll(deeper, s, list) = r[N]
  BY LookAllIs
<1> HIDE DEF N
<1> DEFINE P == {k \in 0..N : Honest(Node, succ, s, r[k], Upto(k))}
<1>3. 0 \in P
  <2>1. Upto(0) = {}
    OBVIOUS
  <2> HIDE DEF Upto
  <2>2. Honest(Node, succ, s, s, Upto(0))
    BY <2>1 DEF Honest, Deepened
  <2> QED
    BY <1>1, <1>2, <2>2
<1>4. ASSUME NEW k \in 1..N, k - 1 \in P PROVE k \in P
  <2>1. Honest(Node, succ, s, r[k - 1], Upto(k - 1)) /\ k \in 0..N /\ k - 1 \in 0..N
    BY <1>1, <1>4
  <2>2. Upto(k) = Upto(k - 1) \cup {list[k]}
    <3>1. 1..k = (1..(k - 1)) \cup {k}
      BY <1>1
    <3> QED
      BY <3>1
  <2>3. r[k - 1] \in Searches(adj) /\ list[k] \in Node
    BY <1>1, <1>2, <2>1
  <2>4. \A g \in Having(s, "gray") : Reaches(succ, g, list[k])
    BY <1>1
  <2> HIDE DEF Upto
  <2>5. Honest(Node, succ, s, Look(deeper, r[k - 1], list[k]), Upto(k - 1) \cup {list[k]})
    BY <2>1, <2>3, <2>4, LookIsHonest
  <2> QED
    BY <1>2, <2>1, <2>2, <2>5
<1> HIDE DEF P
<1>5. \A k \in 0..N : k \in P
  BY <1>1, <1>3, <1>4, CountUp
<1>6. N \in P /\ N \in 0..N
  BY <1>1, <1>5
<1>7. Honest(Node, succ, s, r[N], ToSet(list))
  BY <1>1, <1>6 DEF P
<1> QED
  BY <1>2, <1>6, <1>7

\* A call keeps its promise when one white node more is left than the calls it
\* makes can cope with.
LEMMA VisitIsHonest ==
    ASSUME NEW Node, IsFiniteSet(Node), NEW succ \in [Node -> SUBSET Node],
           NEW adj, NEW order, Listing(Node, succ, adj, order), NEW deeper \in Deepers(adj),
           NEW n \in Nat, Promises(Node, succ, adj, deeper, n),
           NEW acc \in Searches(adj), NEW u \in Node,
           ~acc.cycle, acc.colour[u] = "white", Clear(Node, succ, Having(acc, "black")),
           Cardinality(Having(acc, "white")) \leq n + 1,
           \A g \in Having(acc, "gray") : Reaches(succ, g, u)
    PROVE  Honest(Node, succ, acc, Visit(adj, deeper, acc, u), {u})
<1> DEFINE s == Coloured(acc, u, "gray")
           seen == LookAll(deeper, s, adj[u])
           r == Coloured(seen, u, "black")
<1>1. DOMAIN adj = Node /\ adj[u] \in Seq(Node) /\ ToSet(adj[u]) = succ[u]
  BY DEF Listing
<1>2. /\ s \in Searches(adj) /\ SameAnswer(s, acc)
      /\ \A v \in DOMAIN adj : s.colour[v] = IF v = u THEN "gray" ELSE acc.colour[v]
  <2>1. u \in DOMAIN adj /\ "gray" \in {"white", "gray", "black"}
    BY <1>1
  <2> QED
    BY <2>1, ColouredIsTyped
<1>3. Visit(adj, deeper, acc, u) = IF seen.cycle THEN seen ELSE r
  BY DEF Visit, LeaveBlack
<1> HIDE DEF s
<1>4. acc.colour \in [Node -> {"white", "gray", "black"}]
  BY <1>1 DEF Searches
<1>5. /\ Having(s, "white") = Having(acc, "white") \ {u}
      /\ Having(s, "gray") = Having(acc, "gray") \cup {u}
      /\ Having(s, "black") = Having(acc, "black")
      /\ u \in Having(acc, "white") /\ u \notin Having(acc, "gray") /\ u \notin Having(acc, "black")
  <2>1. \A c : \A v : v \in Having(s, c) <=> v \in Node /\ s.colour[v] = c
    BY <1>1, <1>2, HavingAre
  <2>2. \A c : \A v : v \in Having(acc, c) <=> v \in Node /\ acc.colour[v] = c
    BY <1>1, HavingAre
  <2>3. \A v \in Node : s.colour[v] = IF v = u THEN "gray" ELSE acc.colour[v]
    BY <1>1, <1>2
  <2>4. Having(s, "white") = Having(acc, "white") \ {u}
    BY <2>1, <2>2, <2>3
  <2>5. Having(s, "gray") = Having(acc, "gray") \cup {u}
    BY <2>1, <2>2, <2>3
  <2>7. u \in Having(acc, "white") /\ u \notin Having(acc, "gray") /\ u \notin Having(acc, "black")
    <3>1. acc.colour[u] = "white"
      OBVIOUS
    <3>2. /\ u \in Having(acc, "white") <=> acc.colour[u] = "white"
          /\ u \in Having(acc, "gray") <=> acc.colour[u] = "gray"
          /\ u \in Having(acc, "black") <=> acc.colour[u] = "black"
      BY <2>2
    <3> QED
      BY <3>1, <3>2
  <2>6. Having(s, "black") = Having(acc, "black")
    <3>1. ASSUME NEW v PROVE v \in Having(s, "black") <=> v \in Having(acc, "black")
      <4>1. CASE v = u
        BY <2>1, <2>3, <2>7, <4>1
      <4>2. CASE v # u
        BY <2>1, <2>2, <2>3, <4>2
      <4> QED
        BY <4>1, <4>2
    <3> QED
      BY <3>1
  <2> QED
    BY <2>4, <2>5, <2>6, <2>7
<1>6. Cardinality(Having(s, "white")) \leq n
  <2>1. IsFiniteSet(Having(acc, "white"))
    <3>1. Having(acc, "white") \in SUBSET Node
      BY <1>1, HavingAre
    <3> QED
      BY <3>1, FS_Subset
  <2>2. Cardinality(Having(acc, "white") \ {u}) = Cardinality(Having(acc, "white")) - 1
    BY <1>5, <2>1, FS_RemoveElement
  <2>3. Cardinality(Having(acc, "white")) \in Nat
    BY <2>1, FS_CardinalityType
  <2>4. Cardinality(Having(s, "white")) = Cardinality(Having(acc, "white")) - 1
    BY <1>5, <2>2
  <2> QED
    BY <2>3, <2>4
<1>7. \A v \in ToSet(adj[u]) : \A g \in Having(s, "gray") : Reaches(succ, g, v)
  <2> SUFFICES ASSUME NEW v \in succ[u], NEW g \in Having(s, "gray") PROVE Reaches(succ, g, v)
    BY <1>1
  <2>1. Reaches(succ, u, v)
    BY ReachesFirst
  <2>2. CASE g = u
    BY <2>1, <2>2
  <2>3. CASE g \in Having(acc, "gray")
    <3>1. g \in Node /\ v \in Node
      BY <1>1, <2>3, HavingAre
    <3>2. Reaches(succ, g, u)
      BY <2>3
    <3> QED
      BY <2>1, <3>1, <3>2, ReachesIsTransitive
  <2> QED
    BY <1>5, <2>2, <2>3
<1>8. seen \in Searches(adj) /\ Honest(Node, succ, s, seen, succ[u])
  <2>1. Clear(Node, succ, Having(s, "black")) /\ ~s.cycle
    BY <1>2, <1>5 DEF SameAnswer
  <2>2. /\ LookAll(deeper, s, adj[u]) \in Searches(adj)
        /\ Honest(Node, succ, s, LookAll(deeper, s, adj[u]), ToSet(adj[u]))
    BY <1>1, <1>2, <1>6, <1>7, <2>1, LookAllIsHonest
  <2> QED
    BY <1>1, <2>2
<1> HIDE DEF seen
<1>9. CASE seen.cycle
  <2>1. Cyclic(succ)
    BY <1>8, <1>9 DEF Honest
  <2>2. Honest(Node, succ, acc, seen, {u})
    BY <1>9, <2>1 DEF Honest
  <2> QED
    BY <1>3, <1>9, <2>2
<1>10. CASE ~seen.cycle
  <2>1. Deepened(Node, succ, s, seen) /\ succ[u] \subseteq Having(seen, "black")
    BY <1>8, <1>10 DEF Honest
  <2>2. /\ r \in Searches(adj) /\ SameAnswer(r, seen)
        /\ \A v \in DOMAIN adj : r.colour[v] = IF v = u THEN "black" ELSE seen.colour[v]
    <3>1. u \in DOMAIN adj /\ "black" \in {"white", "gray", "black"}
      BY <1>1
    <3> QED
      BY <1>8, <3>1, ColouredIsTyped
  <2>3. seen.colour \in [Node -> {"white", "gray", "black"}]
    BY <1>1, <1>8 DEF Searches
  <2> HIDE DEF r
  <2>4. u \in Having(seen, "gray")
    BY <1>5, <2>1 DEF Deepened
  <2>5. /\ Having(r, "white") = Having(seen, "white")
        /\ Having(r, "gray") = Having(seen, "gray") \ {u}
        /\ Having(r, "black") = Having(seen, "black") \cup {u}
        /\ u \notin Having(seen, "black")
    <3>1. \A c : \A v : v \in Having(r, c) <=> v \in Node /\ r.colour[v] = c
      BY <1>1, <2>2, HavingAre
    <3>2. \A c : \A v : v \in Having(seen, c) <=> v \in Node /\ seen.colour[v] = c
      BY <1>1, <1>8, HavingAre
    <3>3. \A v \in Node : r.colour[v] = IF v = u THEN "black" ELSE seen.colour[v]
      BY <1>1, <2>2
    <3>4. Having(r, "white") = Having(seen, "white")
      BY <2>4, <3>1, <3>2, <3>3
    <3>5. Having(r, "gray") = Having(seen, "gray") \ {u}
      BY <2>4, <3>1, <3>2, <3>3
    <3>6. Having(r, "black") = Having(seen, "black") \cup {u}
      BY <2>4, <3>1, <3>2, <3>3
    <3>7. u \notin Having(seen, "black")
      BY <2>4, <3>2
    <3> QED
      BY <3>4, <3>5, <3>6, <3>7
  <2>6. Clear(Node, succ, Having(r, "black"))
    <3>1. Clear(Node, succ, Having(seen, "black"))
      BY <2>1 DEF Deepened
    <3> QED
      BY <2>1, <2>5, <3>1, ClearGrows
  <2>7. Deepened(Node, succ, acc, r)
    <3>1. Having(r, "gray") = Having(acc, "gray")
      BY <1>5, <2>1, <2>5 DEF Deepened
    <3>2. Having(acc, "black") \subseteq Having(r, "black")
      BY <1>5, <2>1, <2>5 DEF Deepened
    <3>3. Having(r, "white") \subseteq Having(acc, "white")
      BY <1>5, <2>1, <2>5 DEF Deepened
    <3> QED
      BY <2>6, <3>1, <3>2, <3>3 DEF Deepened
  <2>8. Honest(Node, succ, acc, r, {u})
    BY <1>10, <2>2, <2>5, <2>7 DEF Honest, SameAnswer
  <2> QED
    BY <1>3, <1>10, <2>8
<1> QED
  BY <1>9, <1>10

\* With an unfolding for each node every call keeps its promise.
LEMMA DfsPromises ==
    ASSUME NEW Node, IsFiniteSet(Node), NEW succ \in [Node -> SUBSET Node],
           NEW adj, NEW order, Listing(Node, succ, adj, order)
    PROVE  /\ Dfs(adj, order) \in Deepers(adj)
           /\ Promises(Node, succ, adj, Dfs(adj, order), Len(order))
<1> DEFINE N == Len(order)
<1>1. N \in Nat /\ DOMAIN adj = Node
  BY DEF Listing
<1>2. PICK r : /\ r \in [0..N -> Deepers(adj)] /\ r[0] = NoCall(adj)
               /\ \A n \in 1..N : r[n] = Unfold(adj, r[n - 1])
               /\ Dfs(adj, order) = r[N]
  BY DfsIs
<1> HIDE DEF N
<1> DEFINE P == {n \in 0..N : Promises(Node, succ, adj, r[n], n)}
<1>3. 0 \in P
  <2>1. ASSUME NEW acc \in Searches(adj), NEW u \in Node, acc.colour[u] = "white",
               Cardinality(Having(acc, "white")) \leq 0
        PROVE  FALSE
    <3>1. Having(acc, "white") \in SUBSET Node /\ u \in Having(acc, "white")
      BY <1>1, <2>1, HavingAre
    <3>2. IsFiniteSet(Having(acc, "white"))
      BY <3>1, FS_Subset
    <3>3. Cardinality(Having(acc, "white")) \in Nat
      BY <3>2, FS_CardinalityType
    <3>4. Cardinality(Having(acc, "white")) = 0
      BY <2>1, <3>3
    <3> QED
      BY <3>1, <3>2, <3>4, FS_EmptySet
  <2>2. Promises(Node, succ, adj, r[0], 0)
    BY <2>1 DEF Promises
  <2> QED
    BY <1>1, <2>2
<1>4. ASSUME NEW n \in 1..N, n - 1 \in P PROVE n \in P
  <2>1. Promises(Node, succ, adj, r[n - 1], n - 1) /\ n \in 0..N /\ n - 1 \in 0..N
    BY <1>1, <1>4
  <2>2. n - 1 \in Nat /\ n = (n - 1) + 1
    BY <1>1
  <2>3. r[n - 1] \in Deepers(adj)
    BY <1>2, <2>1
  <2>4. ASSUME NEW acc \in Searches(adj), NEW u \in Node,
               ~acc.cycle, acc.colour[u] = "white", Clear(Node, succ, Having(acc, "black")),
               Cardinality(Having(acc, "white")) \leq n,
               \A g \in Having(acc, "gray") : Reaches(succ, g, u)
        PROVE  Honest(Node, succ, acc, r[n][<<acc, u>>], {u})
    <3>1. <<acc, u>> \in Calls(adj) /\ <<acc, u>>[1] = acc /\ <<acc, u>>[2] = u
      BY <1>1 DEF Calls
    <3>2. r[n][<<acc, u>>] = Visit(adj, r[n - 1], acc, u)
      BY <1>2, <3>1 DEF Unfold
    <3>3. Cardinality(Having(acc, "white")) \leq (n - 1) + 1
      BY <2>2, <2>4
    <3>4. Honest(Node, succ, acc, Visit(adj, r[n - 1], acc, u), {u})
      BY <2>1, <2>2, <2>3, <2>4, <3>3, VisitIsHonest
    <3> QED
      BY <3>2, <3>4
  <2>5. Promises(Node, succ, adj, r[n], n)
    BY <2>4 DEF Promises
  <2> QED
    BY <2>1, <2>5
<1> HIDE DEF P
<1>5. \A n \in 0..N : n \in P
  BY <1>1, <1>3, <1>4, CountUp
<1>6. N \in P /\ N \in 0..N
  BY <1>1, <1>5
<1> QED
  BY <1>2, <1>6 DEF N, P

\* hasCycle answers the question, of every finite graph and for every order of
\* traversal.
THEOREM HasCycleIsExact ==
    ASSUME NEW Node, IsFiniteSet(Node), NEW succ \in [Node -> SUBSET Node],
           NEW adj, NEW order, Listing(Node, succ, adj, order), Len(order) = Cardinality(Node)
    PROVE  HasCycle(adj, order) <=> Cyclic(succ)
<1> DEFINE N == Len(order)
           dfs == Dfs(adj, order)
           s == AllWhite(adj)
           Upto(k) == {order[i] : i \in 1..k}
<1>1. /\ N \in Nat /\ DOMAIN adj = Node /\ Upto(N) = Node /\ \A i \in 1..N : order[i] \in Node
  BY DEF Listing, ToSet
<1>2. PICK r : /\ r \in [0..N -> Searches(adj)] /\ r[0] = s
               /\ \A n \in 1..N : r[n] = SearchFrom(dfs, r[n - 1], order[n])
               /\ HasCycle(adj, order) = r[N].cycle
  BY HasCycleIs
<1>3. s \in Searches(adj) /\ ~s.cycle
  BY DEF AllWhite, Searches
<1>4. Having(s, "gray") = {} /\ Having(s, "black") = {}
  BY <1>1 DEF Having, AllWhite
<1>5. Clear(Node, succ, {})
  BY DEF Clear
<1>6. dfs \in Deepers(adj) /\ Promises(Node, succ, adj, dfs, N)
  BY DfsPromises
<1>7. \A acc \in Searches(adj) : Cardinality(Having(acc, "white")) \leq N
  <2> SUFFICES ASSUME NEW acc \in Searches(adj) PROVE Cardinality(Having(acc, "white")) \leq Cardinality(Node)
    OBVIOUS
  <2>1. Having(acc, "white") \in SUBSET Node
    BY <1>1, HavingAre
  <2> QED
    BY <2>1, FS_Subset
<1> HIDE DEF N, dfs, s
<1> DEFINE P == {n \in 0..N : Honest(Node, succ, s, r[n], Upto(n))}
<1>8. 0 \in P
  <2>1. Upto(0) = {}
    OBVIOUS
  <2> HIDE DEF Upto
  <2>2. Honest(Node, succ, s, s, Upto(0))
    BY <1>3, <1>4, <1>5, <2>1 DEF Honest, Deepened
  <2> QED
    BY <1>1, <1>2, <2>2
<1>9. ASSUME NEW n \in 1..N, n - 1 \in P PROVE n \in P
  <2> DEFINE acc == r[n - 1]
             u == order[n]
  <2>1. Honest(Node, succ, s, acc, Upto(n - 1)) /\ n \in 0..N /\ n - 1 \in 0..N
    BY <1>1, <1>9
  <2>2. Upto(n) = Upto(n - 1) \cup {u}
    <3>1. 1..n = (1..(n - 1)) \cup {n}
      BY <1>1
    <3> QED
      BY <3>1
  <2>3. acc \in Searches(adj) /\ u \in Node /\ r[n] = SearchFrom(dfs, acc, u)
    BY <1>1, <1>2, <2>1
  <2> HIDE DEF Upto, acc, u
  <2>4. CASE acc.cycle
    <3>1. r[n] = acc
      BY <2>3, <2>4 DEF SearchFrom
    <3>2. Honest(Node, succ, s, r[n], Upto(n))
      BY <2>1, <2>4, <3>1 DEF Honest
    <3> QED
      BY <2>1, <3>2
  <2>5. CASE ~acc.cycle
    <3>1. Deepened(Node, succ, s, acc) /\ Upto(n - 1) \subseteq Having(acc, "black")
      BY <2>1, <2>5 DEF Honest
    <3>2. Having(acc, "gray") = {} /\ Clear(Node, succ, Having(acc, "black"))
      BY <1>4, <3>1 DEF Deepened
    <3>3. CASE acc.colour[u] # "white"
      <4>1. r[n] = acc
        BY <2>3, <3>3 DEF SearchFrom
      <4>2. u \in Having(acc, "black")
        <5>1. u \notin Having(acc, "gray")
          BY <3>2
        <5> QED
          BY <1>1, <2>3, <3>3, <5>1, HavingAre
      <4>3. Honest(Node, succ, s, acc, Upto(n))
        BY <2>2, <2>5, <3>1, <4>2 DEF Honest
      <4> QED
        BY <2>1, <4>1, <4>3
    <3>4. CASE acc.colour[u] = "white"
      <4>1. r[n] = dfs[<<acc, u>>]
        BY <2>3, <2>5, <3>4 DEF SearchFrom
      <4>2. Cardinality(Having(acc, "white")) \leq N
        BY <1>7, <2>3
      <4>3. \A g \in Having(acc, "gray") : Reaches(succ, g, u)
        BY <3>2
      <4>4. Honest(Node, succ, acc, r[n], {u})
        BY <1>6, <2>3, <2>5, <3>2, <3>4, <4>1, <4>2, <4>3 DEF Promises
      <4>5. Honest(Node, succ, s, r[n], Upto(n))
        <5>1. CASE r[n].cycle
          BY <4>4, <5>1 DEF Honest
        <5>2. CASE ~r[n].cycle
          <6>1. Deepened(Node, succ, acc, r[n]) /\ u \in Having(r[n], "black")
            BY <4>4, <5>2 DEF Honest
          <6>2. Deepened(Node, succ, s, r[n])
            BY <3>1, <6>1 DEF Deepened
          <6>3. Upto(n) \subseteq Having(r[n], "black")
            BY <2>2, <3>1, <6>1 DEF Deepened
          <6> QED
            BY <5>2, <6>2, <6>3 DEF Honest
        <5> QED
          BY <5>1, <5>2
      <4> QED
        BY <2>1, <4>5
    <3> QED
      BY <3>3, <3>4
  <2> QED
    BY <2>4, <2>5
<1> HIDE DEF P
<1>10. \A n \in 0..N : n \in P
  BY <1>1, <1>8, <1>9, CountUp
<1>11. N \in P /\ N \in 0..N
  BY <1>1, <1>10
<1>12. Honest(Node, succ, s, r[N], Node)
  BY <1>1, <1>11 DEF P
<1>13. r[N] \in Searches(adj)
  BY <1>2, <1>11
<1>14. CASE r[N].cycle
  BY <1>2, <1>12, <1>14 DEF Honest
<1>15. CASE ~r[N].cycle
  <2>1. Node \subseteq Having(r[N], "black") /\ Clear(Node, succ, Having(r[N], "black"))
    BY <1>12, <1>15 DEF Honest, Deepened
  <2>2. Clear(Node, succ, Node)
    <3>1. Having(r[N], "black") = Node
      BY <2>1 DEF Clear
    <3> QED
      BY <2>1, <3>1
  <2>3. ~Cyclic(succ)
    BY <2>2 DEF Clear, Cyclic
  <2> QED
    BY <1>2, <1>15, <2>3
<1> QED
  BY <1>14, <1>15

----------------------------------------------------------------------------
(* The specification                                                       *)

\* The operations keep the graph well formed, its lists consistent, and finite.
GraphInv == TypeOK /\ Bidirectional /\ IsFiniteSet(DOMAIN nodes)

----------------------------------------------------------------------------
(* Type correctness of the graph                                           *)

\* TypeOK says that nodes is a graph.
LEMMA TypedIsGraph == TypeOK <=> nodes \in Graphs
<1>1. ASSUME TypeOK PROVE nodes \in Graphs
  BY <1>1 DEF TypeOK, Graphs
<1>2. ASSUME nodes \in Graphs PROVE TypeOK
  BY <1>2 DEF TypeOK, Graphs
<1> QED
  BY <1>1, <1>2

LEMMA GraphTypeStep ==
    ASSUME TypeOK, [Next]_vars
    PROVE  TypeOK'
<1>1. ASSUME NEW id \in Id, NEW n \in NodeRecord, AddNode(id, n)
      PROVE  TypeOK'
  <2>1. nodes' = Insert(nodes, id, n) /\ id \notin DOMAIN nodes
    BY <1>1 DEF AddNode
  <2>2. nodes \in Graphs
    BY TypedIsGraph
  <2>3. PICK D \in SUBSET Id : nodes' \in [D -> NodeRecord]
    <3>1. Insert(nodes, id, n) \in Graphs
      BY <2>2, InsertIsGraph
    <3> QED
      BY <2>1, <3>1 DEF Graphs
  <2> QED
    BY <2>3 DEF TypeOK
<1>2. ASSUME NEW id \in Id, RemoveNode(id)
      PROVE  TypeOK'
  BY <1>2 DEF RemoveNode, TypeOK, NodeRecord
<1>3. ASSUME NEW from \in Id, NEW to \in Id, AddDependency(from, to)
      PROVE  TypeOK'
  <2>1. nodes[from] \in NodeRecord /\ nodes[to] \in NodeRecord
    BY <1>3 DEF AddDependency, TypeOK
  <2> QED
    BY <1>3, <2>1 DEF AddDependency, TypeOK, NodeRecord
<1>4. ASSUME NEW id \in Id, NEW s \in State, WriteState(id, s)
      PROVE  TypeOK'
  BY <1>4 DEF WriteState, TypeOK, NodeRecord
<1>5. CASE Reset
  BY <1>5, StateAssumption DEF Reset, TypeOK, NodeRecord
<1>6. CASE UNCHANGED vars
  BY <1>6 DEF vars, TypeOK
<1> QED
  BY <1>1, <1>2, <1>3, <1>4, <1>5, <1>6 DEF Next

----------------------------------------------------------------------------
(* The two lists agree                                                     *)

\* The lists of a pair of nodes after addNode, by the cases of its loops.
LEMMA InsertIsBidirectional ==
    ASSUME TypeOK, Bidirectional,
           NEW id \in Id, id \notin DOMAIN nodes, NEW n \in NodeRecord,
           NEW a \in DOMAIN nodes \cup {id}, NEW b \in DOMAIN nodes \cup {id}
    PROVE  b \in Insert(nodes, id, n)[a].dependents
             <=> a \in Insert(nodes, id, n)[b].dependencies
<1> DEFINE g == Insert(nodes, id, n)
<1>1. /\ g[id].dependencies =
             n.dependencies \cup If(id \in n.dependents, {id})
               \cup {e \in DOMAIN nodes : id \in nodes[e].dependents}
      /\ g[id].dependents =
             n.dependents \cup If(id \in n.dependencies, {id})
               \cup {e \in DOMAIN nodes : id \in nodes[e].dependencies}
  BY DEF Insert
<1>2. ASSUME NEW x \in DOMAIN nodes
      PROVE  /\ g[x].dependencies = nodes[x].dependencies \cup If(x \in n.dependents, {id})
             /\ g[x].dependents = nodes[x].dependents \cup If(x \in n.dependencies, {id})
  BY DEF Insert
<1> HIDE DEF g
<1>3. ASSUME a = id /\ b = id
      PROVE  b \in g[a].dependents <=> a \in g[b].dependencies
  BY <1>1, <1>3 DEF If
<1>4. ASSUME a = id /\ b # id
      PROVE  b \in g[a].dependents <=> a \in g[b].dependencies
  BY <1>1, <1>2, <1>4 DEF If
<1>5. ASSUME a # id /\ b = id
      PROVE  b \in g[a].dependents <=> a \in g[b].dependencies
  BY <1>1, <1>2, <1>5 DEF If
<1>6. ASSUME a # id /\ b # id
      PROVE  b \in g[a].dependents <=> a \in g[b].dependencies
  BY <1>2, <1>6 DEF If, Bidirectional
<1>7. b \in g[a].dependents <=> a \in g[b].dependencies
  BY <1>3, <1>4, <1>5, <1>6
<1> QED
  BY <1>7 DEF g

LEMMA GraphListsStep ==
    ASSUME TypeOK, Bidirectional, [Next]_vars
    PROVE  Bidirectional'
<1>1. ASSUME NEW id \in Id, NEW n \in NodeRecord, AddNode(id, n)
      PROVE  Bidirectional'
  <2>1. nodes' = Insert(nodes, id, n) /\ id \notin DOMAIN nodes
    BY <1>1 DEF AddNode
  <2>2. DOMAIN nodes' = DOMAIN nodes \cup {id}
    BY <2>1 DEF Insert
  <2> QED
    BY <1>1, <2>1, <2>2, InsertIsBidirectional DEF Bidirectional
<1>2. ASSUME NEW id \in Id, RemoveNode(id)
      PROVE  Bidirectional'
  <2>1. ASSUME NEW x \in DOMAIN nodes \ {id}
        PROVE  /\ nodes'[x].dependents = nodes[x].dependents \ {id}
               /\ nodes'[x].dependencies = nodes[x].dependencies \ {id}
    <3>1. nodes[x] \in NodeRecord
      BY DEF TypeOK
    <3>2. nodes'[x] = [nodes[x] EXCEPT !.dependencies = @ \ {id},
                                       !.dependents = @ \ {id}]
      BY <1>2 DEF RemoveNode
    <3> QED
      BY <3>1, <3>2 DEF NodeRecord
  <2>2. DOMAIN nodes' = DOMAIN nodes \ {id}
    BY <1>2 DEF RemoveNode
  <2> QED
    BY <2>1, <2>2 DEF Bidirectional
<1>3. ASSUME NEW from \in Id, NEW to \in Id, AddDependency(from, to)
      PROVE  Bidirectional'
  <2>1. /\ from # to
        /\ nodes' = [nodes EXCEPT ![from].dependents = @ \cup {to},
                                  ![to].dependencies = @ \cup {from}]
        /\ DOMAIN nodes' = DOMAIN nodes
    BY <1>3 DEF AddDependency
  <2>2. ASSUME NEW x \in DOMAIN nodes
        PROVE  /\ nodes'[x].dependents =
                    IF x = from THEN nodes[x].dependents \cup {to} ELSE nodes[x].dependents
               /\ nodes'[x].dependencies =
                    IF x = to THEN nodes[x].dependencies \cup {from}
                    ELSE nodes[x].dependencies
    <3>1. nodes[x] \in NodeRecord
      BY DEF TypeOK
    <3>2. CASE x = from
      <4>1. nodes'[x] = [nodes[x] EXCEPT !.dependents = @ \cup {to}]
        BY <2>1, <3>2
      <4> QED
        BY <2>1, <3>1, <3>2, <4>1 DEF NodeRecord
    <3>3. CASE x = to
      <4>1. nodes'[x] = [nodes[x] EXCEPT !.dependencies = @ \cup {from}]
        BY <2>1, <3>3
      <4> QED
        BY <2>1, <3>1, <3>3, <4>1 DEF NodeRecord
    <3>4. CASE x # from /\ x # to
      BY <2>1, <3>4
    <3> QED
      BY <3>2, <3>3, <3>4
  <2> QED
    <3>1. ASSUME NEW a \in DOMAIN nodes, NEW b \in DOMAIN nodes
          PROVE  b \in nodes'[a].dependents <=> a \in nodes'[b].dependencies
      <4>1. b \in nodes[a].dependents <=> a \in nodes[b].dependencies
        BY DEF Bidirectional
      <4>2. b \in nodes'[a].dependents <=>
              b \in nodes[a].dependents \/ (a = from /\ b = to)
        BY <2>2
      <4>3. a \in nodes'[b].dependencies <=>
              a \in nodes[b].dependencies \/ (a = from /\ b = to)
        BY <2>2
      <4> QED
        BY <4>1, <4>2, <4>3
    <3> QED
      BY <2>1, <3>1 DEF Bidirectional
<1>4. ASSUME NEW id \in Id, NEW s \in State, WriteState(id, s)
      PROVE  Bidirectional'
  BY <1>4 DEF WriteState, Bidirectional, TypeOK, NodeRecord
<1>5. CASE Reset
  BY <1>5 DEF Reset, Bidirectional, TypeOK, NodeRecord
<1>6. CASE UNCHANGED vars
  BY <1>6 DEF vars, Bidirectional
<1> QED
  BY <1>1, <1>2, <1>3, <1>4, <1>5, <1>6 DEF Next

----------------------------------------------------------------------------
(* The graph is finite, and the algorithms are correct on it               *)

\* Every operation adds at most one node.
LEMMA GraphStaysFinite ==
    ASSUME IsFiniteSet(DOMAIN nodes), [Next]_vars
    PROVE  IsFiniteSet(DOMAIN nodes)'
<1>1. ASSUME NEW id \in Id, NEW n \in NodeRecord, AddNode(id, n)
      PROVE  IsFiniteSet(DOMAIN nodes)'
  <2>1. DOMAIN nodes' = DOMAIN nodes \cup {id}
    BY <1>1 DEF AddNode, Insert
  <2>2. IsFiniteSet(DOMAIN nodes \cup {id})
    BY FS_AddElement
  <2> QED
    BY <2>1, <2>2
<1>2. ASSUME NEW id \in Id, RemoveNode(id)
      PROVE  IsFiniteSet(DOMAIN nodes)'
  <2>1. DOMAIN nodes' = DOMAIN nodes \ {id}
    BY <1>2 DEF RemoveNode
  <2>2. IsFiniteSet(DOMAIN nodes \ {id})
    BY FS_RemoveElement
  <2> QED
    BY <2>1, <2>2
<1>3. ASSUME NEW from \in Id, NEW to \in Id, AddDependency(from, to)
      PROVE  DOMAIN nodes' = DOMAIN nodes
  BY <1>3 DEF AddDependency
<1>4. ASSUME NEW id \in Id, NEW s \in State, WriteState(id, s)
      PROVE  DOMAIN nodes' = DOMAIN nodes
  BY <1>4 DEF WriteState
<1>5. Reset => DOMAIN nodes' = DOMAIN nodes
  BY DEF Reset
<1>6. UNCHANGED vars => DOMAIN nodes' = DOMAIN nodes
  BY DEF vars
<1> QED
  BY <1>1, <1>2, <1>3, <1>4, <1>5, <1>6 DEF Next

\* What every graph of the specification gives the algorithms.
LEMMA GraphIsListed ==
    ASSUME GraphInv,
           NEW order \in Orders(nodes), NEW adj \in AdjLists(Successors(nodes))
    PROVE  /\ Successors(nodes) \in [DOMAIN nodes -> SUBSET DOMAIN nodes]
           /\ Listing(DOMAIN nodes, Successors(nodes), adj, order)
           /\ Len(order) = Cardinality(DOMAIN nodes)
<1>1. Successors(nodes) \in [DOMAIN nodes -> SUBSET DOMAIN nodes]
  BY DEF Successors
<1>2. IsFiniteSet(DOMAIN nodes)
  BY DEF GraphInv
<1>3. order \in SetToSeqs(DOMAIN nodes)
  BY DEF Orders
<1>4. Listing(DOMAIN nodes, Successors(nodes), adj, order) /\ Len(order) = Cardinality(DOMAIN nodes)
  BY <1>1, <1>2, <1>3, ListingsAre
<1> QED
  BY <1>1, <1>4

\* The algorithms are correct on every graph that satisfies the invariant.
LEMMA AlgorithmsFollow ==
    ASSUME GraphInv
    PROVE  AlgorithmsAreCorrect
<1> DEFINE Node == DOMAIN nodes
           succ == Successors(nodes)
<1>1. IsFiniteSet(Node) /\ nodes \in Graphs /\ Mutual(nodes)
  BY TypedIsGraph DEF GraphInv, Bidirectional, Mutual
<1>2. ASSUME NEW order \in Orders(nodes), NEW adj \in AdjLists(succ)
      PROVE  /\ succ \in [Node -> SUBSET Node] /\ Listing(Node, succ, adj, order)
             /\ Len(order) = Cardinality(Node)
  BY GraphIsListed
<1> HIDE DEF Node, succ
<1>3. HasCycleIsCorrect
  <2>1. ASSUME NEW order \in Orders(nodes), NEW adj \in AdjLists(succ)
        PROVE  HasCycle(adj, order) <=> Cyclic(succ)
    BY <1>1, <1>2, HasCycleIsExact
  <2> QED
    BY <2>1 DEF HasCycleIsCorrect, succ
<1>4. TopologicalOrderIsCorrect
  <2>1. ASSUME NEW order \in Orders(nodes), NEW adj \in AdjLists(succ)
        PROVE  /\ Cyclic(succ) => TopologicalOrder(adj, order) = <<>>
               /\ ~Cyclic(succ) => /\ IsTopological(succ, TopologicalOrder(adj, order))
                                   /\ Len(TopologicalOrder(adj, order)) = Cardinality(Node)
    BY <1>1, <1>2, TopologicalOrderIs
  <2> QED
    BY <2>1 DEF TopologicalOrderIsCorrect, succ, Node
<1>5. LevelsAreCorrect
  <2>1. ASSUME NEW order \in Orders(nodes), NEW adj \in AdjLists(succ)
        PROVE  LevelsSound(Node, succ, ExecutionLevels(adj, order))
    BY <1>1, <1>2, ExecutionLevelsAreCorrect
  <2> QED
    BY <2>1 DEF LevelsAreCorrect, LevelsSound, LevelsAt, succ, Node
<1>6. ReadyIsNextLevel
  BY <1>1, ReadyIsNextLevelOf DEF Node
<1>7. JsonRoundTrips
  <2>1. ASSUME NEW order \in Orders(nodes)
        PROVE  Restore(nodes, order) = nodes
    <3>1. order \in SetToSeqs(Node)
      BY DEF Orders, Node
    <3>2. order \in Seq(Node) /\ IsInjective(order) /\ ToSet(order) = Node
      BY <1>1, <3>1, ListedOnce
    <3> QED
      BY <1>1, <3>2, RestoredIsSame DEF Node
  <2> QED
    BY <2>1 DEF JsonRoundTrips
<1> QED
  BY <1>3, <1>4, <1>5, <1>6, <1>7 DEF AlgorithmsAreCorrect

----------------------------------------------------------------------------
(* Theorems                                                                *)

\* nodes_ always maps identifiers to well-formed nodes.
THEOREM GraphTypeCorrect == Spec => []TypeOK
<1>1. Init => TypeOK
  BY DEF Init, TypeOK, EmptyGraph
<1>2. TypeOK /\ [Next]_vars => TypeOK'
  BY GraphTypeStep
<1> QED
  BY <1>1, <1>2, PTL DEF Spec

\* The inductive invariant of the graph.
LEMMA GraphInvHolds == Spec => []GraphInv
<1>1. Init => GraphInv
  <2>1. ASSUME Init PROVE DOMAIN nodes = {}
    BY <2>1 DEF Init, EmptyGraph
  <2>2. IsFiniteSet({})
    BY FS_EmptySet
  <2>3. ASSUME Init PROVE TypeOK /\ Bidirectional
    BY <2>1, <2>3 DEF Init, TypeOK, Bidirectional, EmptyGraph
  <2> QED
    BY <2>1, <2>2, <2>3 DEF GraphInv
<1>2. GraphInv /\ [Next]_vars => GraphInv'
  BY GraphTypeStep, GraphListsStep, GraphStaysFinite DEF GraphInv
<1> QED
  BY <1>1, <1>2, PTL DEF Spec


\* addNode, removeNode and addDependency keep the two lists of any two nodes of
\* the graph consistent, in whatever order the nodes come and go.
THEOREM BidirectionalHolds == Spec => []Bidirectional
<1>1. GraphInv => Bidirectional
  BY DEF GraphInv
<1> QED
  BY <1>1, GraphInvHolds, PTL

\* hasCycle, getTopologicalOrder, getExecutionLevels, getReadyNodes and the JSON
\* pair give what their names promise on every graph the operations build, in
\* whatever order the hash map is traversed.
THEOREM AlgorithmsHold == Spec => []AlgorithmsAreCorrect
<1>1. GraphInv => AlgorithmsAreCorrect
  BY AlgorithmsFollow
<1> QED
  BY <1>1, GraphInvHolds, PTL
==============================================================================
