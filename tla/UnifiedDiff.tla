---------------------------- MODULE UnifiedDiff ----------------------------
(***************************************************************************)
(* The line diff of src/src/workspace/SnapshotManager.cpp: splitLines,     *)
(* computeDiffEdits (longest common subsequence by dynamic programming and *)
(* a backward walk) and buildHunks, as functions of the two texts.         *)
(*                                                                         *)
(* A text is the sequence of its lines as they are stored; Bare maps a     *)
(* stored line to the line without its carriage returns.                   *)
(***************************************************************************)
EXTENDS Integers, Sequences, FiniteSets, FiniteSetsExt, Functions, SequencesExt

CONSTANTS
    Bare,       \* [stored line -> line without '\r']
    Context     \* the context parameter of buildHunks (3 in the code)

ASSUME ContextAssumption == Context \in Nat \ {0}

\* '\r' is dropped wherever it stands, so two texts can split alike.
SplitLines(text) == [i \in DOMAIN text |-> Bare[text[i]]]

----------------------------------------------------------------------------
(* computeDiffEdits                                                        *)

Larger(a, b) == IF a >= b THEN a ELSE b

\* dp[i][j]: the length of a longest common subsequence of the first i old and
\* the first j new lines; one row from the row above it.
NextRow(old, new, above, i) ==
    LET row[j \in 0..Len(new)] ==
            IF j = 0 THEN 0
            ELSE IF old[i] = new[j] THEN above[j - 1] + 1
            ELSE Larger(above[j], row[j - 1])
    IN  row

LcsTable(old, new) ==
    LET dp[i \in 0..Len(old)] ==
            IF i = 0 THEN [j \in 0..Len(new) |-> 0] ELSE NextRow(old, new, dp[i - 1], i)
    IN  dp

\* One turn of the walk from the last cell to the first.  The script is
\* reversed at the end: what a turn adds stands first.
WalkBack(old, new, dp, at) ==
    LET i == at.i
        j == at.j
        Adds(di, dj, edit) == [i |-> i - di, j |-> j - dj, edits |-> <<edit>> \o at.edits]
    IN  IF i = 0 /\ j = 0 THEN at
        ELSE IF i > 0 /\ j > 0 /\ old[i] = new[j]
        THEN Adds(1, 1, [type |-> "Unchanged", text |-> old[i], old |-> i, new |-> j])
        ELSE IF j > 0 /\ (i = 0 \/ dp[i][j - 1] >= dp[i - 1][j])
        THEN Adds(0, 1, [type |-> "Added", text |-> new[j], old |-> 0, new |-> j])
        ELSE Adds(1, 0, [type |-> "Deleted", text |-> old[i], old |-> i, new |-> 0])

ComputeDiffEdits(old, new) ==
    LET turns == Len(old) + Len(new)
        dp == LcsTable(old, new)
        walk[k \in 0..turns] ==
            IF k = 0 THEN [i |-> Len(old), j |-> Len(new), edits |-> <<>>]
            ELSE WalkBack(old, new, dp, walk[k - 1])
    IN  walk[turns].edits

----------------------------------------------------------------------------
(* buildHunks                                                              *)

\* Mutant: clusters whose contexts overlap are not joined.
Adjacent(c, d) == d - c <= Context

\* A changed edit joins the cluster of the one before when they are at most
\* twice the context apart; a cluster is given by its first and last place.
Near(c, d) == d - c <= 2 * Context

Clustered(edits, clusters, k) ==
    LET n == Len(clusters)
    IN  IF edits[k].type = "Unchanged" THEN clusters
        ELSE IF n > 0 /\ Near(clusters[n][2], k)
        THEN [clusters EXCEPT ![n] = <<clusters[n][1], k>>]
        ELSE Append(clusters, <<k, k>>)

Clusters(edits) ==
    LET grouped[k \in 0..Len(edits)] ==
            IF k = 0 THEN <<>> ELSE Clustered(edits, grouped[k - 1], k)
    IN  grouped[Len(edits)]

\* h_start and h_end.
HunkStart(cluster) == Larger(1, cluster[1] - Context)
HunkEnd(edits, cluster) ==
    IF cluster[2] + Context < Len(edits) THEN cluster[2] + Context ELSE Len(edits)

\* The places of a hunk that have a line on the side where the mark has none.
Numbered(edits, first, last, mark) == {k \in first..last : edits[k].type # mark}

HunkLines(edits, first, last) ==
    [x \in 1..(last - first + 1) |-> <<edits[first + x - 1].type, edits[first + x - 1].text>>]

\* The numbers of the first lines on both sides, or 1.
Hunk(edits, cluster) ==
    LET first == HunkStart(cluster)
        last == HunkEnd(edits, cluster)
        inOld == Numbered(edits, first, last, "Added")
        inNew == Numbered(edits, first, last, "Deleted")
    IN  [oldStart |-> IF inOld = {} THEN 1 ELSE edits[Min(inOld)].old,
         oldLines |-> Cardinality(inOld),
         newStart |-> IF inNew = {} THEN 1 ELSE edits[Min(inNew)].new,
         newLines |-> Cardinality(inNew),
         lines |-> HunkLines(edits, first, last)]

BuildHunks(edits) ==
    LET clusters == Clusters(edits)
    IN  [c \in DOMAIN clusters |-> Hunk(edits, clusters[c])]

\* computeDiffBetweenContents: no file diff for texts that split alike.
ComputeDiffBetweenContents(old, new) ==
    IF SplitLines(old) = SplitLines(new) THEN <<>>
    ELSE BuildHunks(ComputeDiffEdits(SplitLines(old), SplitLines(new)))
=============================================================================
