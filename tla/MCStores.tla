------------------------------ MODULE MCStores ------------------------------
(***************************************************************************)
(* The stores for TLC.  They share no state except where MemoryManager     *)
(* composes them, so interleaving them would add nothing: each behaviour   *)
(* runs the one named by focus and leaves the others in their initial      *)
(* states.                                                                 *)
(***************************************************************************)
EXTENDS MemoryManager, KnowledgeGraph, RepositoryIndex, ContextEngine

VARIABLE focus

storesVars == <<focus, managerVars, graphVars, indexVars, contextVars>>

Init ==
    /\ focus \in {"memory", "database", "vectors", "graph", "index", "context"}
    /\ memInit /\ graphInit /\ contextInit
    /\ focus \notin {"memory", "context"} => relock = "blocks"
    /\ indexInit /\ (focus # "index" => tree = [p \in Path |-> Missing])

MemoryStep == focus = "memory" /\ memNext /\ UNCHANGED <<graphVars, indexVars, contextVars>>
DatabaseStep == /\ focus = "database" /\ dbNext
                /\ UNCHANGED <<memVars, vectorVars, relock, graphVars, indexVars, contextVars>>
VectorStep == /\ focus = "vectors" /\ vectorNext
              /\ UNCHANGED <<memVars, dbVars, relock, graphVars, indexVars, contextVars>>
GraphStep == focus = "graph" /\ graphNext /\ UNCHANGED <<managerVars, indexVars, contextVars>>
IndexStep == focus = "index" /\ indexNext /\ UNCHANGED <<managerVars, graphVars, contextVars>>
ContextStep == focus = "context" /\ contextNext
               /\ UNCHANGED <<memVars, dbVars, vectorVars, graphVars, indexVars>>

Next ==
    /\ UNCHANGED focus
    /\ MemoryStep \/ DatabaseStep \/ VectorStep \/ GraphStep \/ IndexStep \/ ContextStep

Spec == Init /\ [][Next]_storesVars

\* The manager is not followed past a failure of the disk, after which its
\* properties claim nothing that the file decides.
Followed == focus = "memory" => faults = 0

MCSize == [v \in Value |-> IF v = "v1" THEN 1 ELSE 2]
MCEmbedding == [v \in Passage |-> IF v = "v1" THEN "x" ELSE "y"]
MCVector == {"x", "y", "xy"}
MCSimilarity == [p \in MCVector \X MCVector |->
                   IF p[1] = p[2] THEN 2 ELSE IF "xy" \in {p[1], p[2]} THEN 1 ELSE 0]
MCSymbolsOf == [s \in Source |-> IF s = "def" THEN {"a"} ELSE {}]
MCCountOf == [s \in Source |->
                CASE s = "def" -> [t \in Term |-> 1]
                  [] s = "use" -> [t \in Term |-> IF t = "a" THEN 2 ELSE 0]
                  [] OTHER -> [t \in Term |-> 0]]

Symmetry == Permutations(Key)
=============================================================================
