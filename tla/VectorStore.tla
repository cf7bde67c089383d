----------------------------- MODULE VectorStore -----------------------------
(***************************************************************************)
(* vector/VectorStore: a table of documents, the list doc_ids_ that says   *)
(* which document owns which row, and the flat matrix_ of rows, kept dense *)
(* by moving the last row into the hole a removal leaves.  A reader-writer *)
(* lock makes every operation one action.  An embedding is a value, and    *)
(* the similarity of two embeddings a number: the floating-point kernels   *)
(* (scalar, AVX2) are the constants Embedding and Similarity.              *)
(***************************************************************************)
EXTENDS Naturals, Sequences, SequencesExt, FiniteSetsExt, Maps

CONSTANTS
    Document,       \* ids
    Passage,        \* texts
    Vector,         \* normalised embeddings
    Embedding,      \* computeDeterministicEmbedding: text -> vector
    Similarity,     \* dotProduct of two vectors
    TopK            \* results asked for

ASSUME VectorAssumption ==
    /\ Embedding \in [Passage -> Vector]
    /\ Similarity \in [Vector \X Vector -> Nat]
    /\ TopK \in Nat

VARIABLES
    documents,      \* documents_: id -> [text, vector given or computed, row]
    doc_ids,        \* row -> id
    matrix          \* row -> vector

vectorVars == <<documents, doc_ids, matrix>>

vectorInit == documents = <<>> /\ doc_ids = <<>> /\ matrix = <<>>

\* addDocument: a known id keeps its row; e is a custom embedding, padded
\* and normalised, or the embedding of the text.
AddDocument(id, text, e) ==
    LET row == IF id \in DOMAIN documents THEN documents[id].row ELSE Len(doc_ids) + 1
    IN  /\ doc_ids' = IF id \in DOMAIN documents THEN doc_ids ELSE Append(doc_ids, id)
        /\ matrix' = IF id \in DOMAIN documents THEN [matrix EXCEPT ![row] = e]
                     ELSE Append(matrix, e)
        /\ documents' = Put(documents, id, [text |-> text, vector |-> e, row |-> row])

\* Mutant: the document that moves keeps its old row number.
RemoveWithoutRow(id) ==
    IF id \notin DOMAIN documents THEN UNCHANGED vectorVars
    ELSE LET hole == documents[id].row
             last == Len(doc_ids)
         IN  /\ documents' = Drop(documents, {id})
             /\ doc_ids' = Front([doc_ids EXCEPT ![hole] = doc_ids[last]])
             /\ matrix' = Front([matrix EXCEPT ![hole] = matrix[last]])

\* removeDocument: the last row moves into the hole.
RemoveDocument(id) ==
    IF id \notin DOMAIN documents THEN UNCHANGED vectorVars
    ELSE LET hole == documents[id].row
             last == Len(doc_ids)
         IN  /\ documents' = [d \in DOMAIN documents \ {id} |->
                                IF d = doc_ids[last]
                                THEN [documents[d] EXCEPT !.row = hole]
                                ELSE documents[d]]
             /\ doc_ids' = Front([doc_ids EXCEPT ![hole] = doc_ids[last]])
             /\ matrix' = Front([matrix EXCEPT ![hole] = matrix[last]])

ClearVectors == documents' = <<>> /\ doc_ids' = <<>> /\ matrix' = <<>>

vectorNext ==
    \/ \E id \in Document : \/ RemoveDocument(id)
                            \/ \E t \in Passage, e \in Vector : AddDocument(id, t, e)
    \/ ClearVectors

vectorSpec == vectorInit /\ [][vectorNext]_vectorVars

----------------------------------------------------------------------------
(* searchByVector: a heap of at most TopK <<similarity, row>> pairs whose  *)
(* least element is replaced by a strictly better one, emptied from the    *)
(* back.  The heap is the set of its pairs; a tie may evict either.        *)

Least(heap) == {p \in heap : \A q \in heap : p[1] <= q[1]}

Offer(heap, pair, threshold) ==
    IF pair[1] < threshold THEN {heap}
    ELSE IF Cardinality(heap) < TopK THEN {heap \cup {pair}}
    ELSE IF \E p \in Least(heap) : pair[1] > p[1]
    THEN {(heap \ {p}) \cup {pair} : p \in Least(heap)}
    ELSE {heap}

Scanned(query, threshold) ==
    FoldLeft(LAMBDA heaps, row :
               UNION {Offer(h, <<Similarity[query, matrix[row]], row>>, threshold) : h \in heaps},
             {{}}, [r \in DOMAIN matrix |-> r])

\* The ids found, for each order of ties.
Found(query, threshold) ==
    IF TopK = 0 \/ DOMAIN documents = {} THEN {{}}
    ELSE {{doc_ids[p[2]] : p \in heap} : heap \in Scanned(query, threshold)}

----------------------------------------------------------------------------
\* The three structures describe the same documents: every row belongs to
\* one document, which knows it, and holds that document's embedding.
RowsAgree ==
    /\ Len(doc_ids) = Len(matrix)
    /\ DOMAIN documents = ToSet(doc_ids)
    /\ \A r \in DOMAIN doc_ids : /\ documents[doc_ids[r]].row = r
                                 /\ documents[doc_ids[r]].vector = matrix[r]

\* A search gives the best documents there are, whatever was removed or
\* replaced before: none left out is more similar than one reported.
SearchIsBest ==
    \A q \in Vector, threshold \in {0, 1} : \A found \in Found(q, threshold) :
      LET score(id) == Similarity[q, documents[id].vector]
          able == {id \in DOMAIN documents : score(id) >= threshold}
      IN  /\ found \subseteq able
          /\ Cardinality(found) = Min({TopK, Cardinality(able)})
          /\ \A in \in found, out \in able \ found : score(in) >= score(out)
=============================================================================
