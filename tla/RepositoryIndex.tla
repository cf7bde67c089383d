--------------------------- MODULE RepositoryIndex ---------------------------
(***************************************************************************)
(* repository/RepositoryIndex: the parsed files, the symbol table and the  *)
(* inverted index that indexFile updates file by file, and the scan of a   *)
(* directory, which reads files that others write, indexes each under the  *)
(* mutex, then computes the deleted ones under it and removes them one by  *)
(* one.  A text is what the parser and the tokenizer make of it: the       *)
(* symbols SymbolsOf[text] and the term frequencies CountOf[text].         *)
(***************************************************************************)
EXTENDS Naturals, FiniteSets, FiniteSetsExt, Maps

CONSTANTS
    Path,           \* files below the root
    Source,         \* what a file may contain
    Missing,        \* no such file
    Term,           \* tokens
    SymbolsOf,      \* names parseFile finds in a text
    CountOf         \* occurrences of each token in a text

ASSUME IndexAssumption ==
    /\ SymbolsOf \in [Source -> SUBSET Term]
    /\ CountOf \in [Source -> [Term -> Nat]]
    /\ Missing \notin Source

VARIABLES
    tree,           \* the files on disk
    files,          \* files_ and file_contents_: path -> text
    symbol_table,   \* name -> paths of the files that define it
    inverted_index, \* term -> (path -> frequency)
    doc_lengths,    \* file_doc_lengths_
    average,        \* avg_doc_length_ as <<sum, divisor>>
    scan            \* the running indexDirectory

indexVars == <<tree, files, symbol_table, inverted_index, doc_lengths, average, scan>>
tables == <<files, symbol_table, inverted_index, doc_lengths, average>>

NoScan == [at |-> "none", todo |-> {}, seen |-> {}]

indexInit ==
    /\ tree \in [Path -> {Missing} \cup Source]
    /\ files = <<>> /\ doc_lengths = <<>> /\ average = <<0, 0>>
    /\ symbol_table = [t \in Term |-> {}]
    /\ inverted_index = [t \in Term |-> <<>>]
    /\ scan = NoScan

Length(text) == MapThenSumSet(LAMBDA t : CountOf[text][t], Term)
Sum(lengths) == MapThenSumSet(LAMBDA p : lengths[p], DOMAIN lengths)

\* Mutant: the symbols the file no longer has stay in the table.
SymbolsKept(p, text) ==
    [t \in Term |-> symbol_table[t] \cup (IF t \in SymbolsOf[text] THEN {p} ELSE {})]

\* The symbols of the old text are removed, those of the new one added.
Registered(p, text) ==
    [t \in Term |-> (symbol_table[t] \ {p}) \cup (IF t \in SymbolsOf[text] THEN {p} ELSE {})]

\* updateInvertedIndex: the new frequencies are set, the terms that are gone
\* stay; the sum of all lengths is divided by the number of files known
\* before this one.
Inverted(p, text) ==
    [t \in Term |-> IF CountOf[text][t] > 0 THEN Put(inverted_index[t], p, CountOf[text][t])
                    ELSE inverted_index[t]]

IndexFile(p, text) ==
    IF p \in DOMAIN files /\ files[p] = text THEN UNCHANGED tables
    ELSE /\ symbol_table' = Registered(p, text)
         /\ inverted_index' = Inverted(p, text)
         /\ doc_lengths' = Put(doc_lengths, p, Length(text))
         /\ average' = <<Sum(doc_lengths'), Cardinality(DOMAIN files)>>
         /\ files' = Put(files, p, text)

\* removeFile leaves the inverted index and the average as they are.
RemoveFile(p) ==
    /\ symbol_table' = [t \in Term |-> symbol_table[t] \ {p}]
    /\ files' = Drop(files, {p})
    /\ doc_lengths' = Drop(doc_lengths, {p})
    /\ UNCHANGED <<inverted_index, average>>

\* Callers of the two operations, and others writing the files.
IndexDirectly(p) == \E text \in Source : IndexFile(p, text) /\ UNCHANGED <<tree, scan>>
RemoveDirectly(p) == p \in DOMAIN files /\ RemoveFile(p) /\ UNCHANGED <<tree, scan>>
EditTree(p) ==
    /\ \E text \in {Missing} \cup Source : text # tree[p] /\ tree' = [tree EXCEPT ![p] = text]
    /\ UNCHANGED <<tables, scan>>

ClearIndex ==
    /\ files' = <<>> /\ doc_lengths' = <<>> /\ average' = <<0, 0>>
    /\ symbol_table' = [t \in Term |-> {}]
    /\ inverted_index' = [t \in Term |-> <<>>]
    /\ UNCHANGED <<tree, scan>>

\* indexDirectory: the walk, in any order; a file that has vanished or
\* cannot be opened is neither indexed nor seen.
BeginScan ==
    /\ scan.at = "none"
    /\ scan' = [at |-> "walk", todo |-> Path, seen |-> {}]
    /\ UNCHANGED <<tree, tables>>

ScanFile(p) ==
    /\ scan.at = "walk" /\ p \in scan.todo
    /\ IF tree[p] = Missing
       THEN /\ UNCHANGED tables
            /\ scan' = [scan EXCEPT !.todo = @ \ {p}]
       ELSE /\ IndexFile(p, tree[p])
            /\ scan' = [scan EXCEPT !.todo = @ \ {p}, !.seen = @ \cup {p}]
    /\ UNCHANGED tree

\* The root is gone, or the walk throws: what is indexed stays.
AbortScan ==
    /\ scan.at = "walk"
    /\ scan' = NoScan
    /\ UNCHANGED <<tree, tables>>

\* The files to invalidate: known below the root and not seen by this walk.
EndWalk ==
    /\ scan.at = "walk" /\ scan.todo = {}
    /\ scan' = [at |-> "invalidate", todo |-> DOMAIN files \ scan.seen, seen |-> {}]
    /\ UNCHANGED <<tree, tables>>

Invalidate(p) ==
    /\ scan.at = "invalidate" /\ p \in scan.todo
    /\ IF p \in DOMAIN files THEN RemoveFile(p) ELSE UNCHANGED tables
    /\ scan' = [scan EXCEPT !.todo = @ \ {p}]
    /\ UNCHANGED tree

EndScan ==
    /\ scan.at = "invalidate" /\ scan.todo = {}
    /\ scan' = NoScan
    /\ UNCHANGED <<tree, tables>>

indexNext ==
    \/ \E p \in Path : \/ IndexDirectly(p) \/ RemoveDirectly(p) \/ EditTree(p)
                       \/ ScanFile(p) \/ Invalidate(p)
    \/ ClearIndex \/ BeginScan \/ AbortScan \/ EndWalk \/ EndScan

indexSpec == indexInit /\ [][indexNext]_indexVars

----------------------------------------------------------------------------
\* The index misses nothing: the symbol table is the one a fresh index of
\* the same texts would have, and every word of an indexed text leads to its
\* file with the current frequency, through any interleaving of scans,
\* edits, removals and calls.
IndexCovers ==
    /\ \A t \in Term : symbol_table[t] = {p \in DOMAIN files : t \in SymbolsOf[files[p]]}
    /\ \A p \in DOMAIN files, t \in Term : CountOf[files[p]][t] > 0 =>
          p \in DOMAIN inverted_index[t] /\ inverted_index[t][p] = CountOf[files[p]][t]
=============================================================================
