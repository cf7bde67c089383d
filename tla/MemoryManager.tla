--------------------------- MODULE MemoryManager ---------------------------
(***************************************************************************)
(* memory/memory: the entries with their sizes, the list of keys from the  *)
(* most to the least recently used, the byte count and its limit, over a   *)
(* database engine and a vector store of its own.  One non-recursive mutex *)
(* makes an operation one action, except storeSemantic, which stores under *)
(* the lock and indexes after it.  A key, its category and its tags count  *)
(* with the value, whose size is Size[value].                              *)
(***************************************************************************)
EXTENDS DatabaseEngine, VectorStore, PlainMutex

CONSTANTS
    Size,           \* bytes of an entry with the given value
    NoFile,         \* persist() has written nothing yet
    Limits,         \* the limit at the start, the largest, and those set later
    Semantic,       \* values that storeSemantic is called with
    MaxStores,      \* bound: calls of store
    Session         \* the category compact() looks at

ASSUME MemoryAssumption ==
    /\ Size \in [Value -> Nat \ {0}]
    /\ Limits \subseteq Nat
    /\ Session \in Category
    /\ Key \subseteq Document /\ Value \subseteq Passage /\ Semantic \subseteq Value

VARIABLES
    entries,        \* key -> [value, category, size, access_count]
    access_order,   \* keys, most recently used first
    usage,          \* current_memory_usage
    limit,          \* memory_limit_bytes
    running,
    has_path,       \* a persistence path is set
    file,           \* what persist() wrote: entries, or nothing
    indexing,       \* storeSemantic calls between store and addDocument
    hung,           \* a thread waits for the mutex it holds itself
    stores,         \* calls of store so far
    imported        \* history: keys whose entry an import has written

memVars == <<entries, access_order, usage, limit, running, has_path, file,
             indexing, hung, stores, imported>>
managerVars == <<memVars, dbVars, vectorVars, relock>>
cacheVars == <<entries, access_order, usage>>

\* What operator[] creates for a key that is not there.
Ghost == [value |-> "", category |-> "", size |-> 0, count |-> 0]

\* access_count, of which compact() asks whether it is below two.
Used(e) == [e EXCEPT !.count = IF @ < 2 THEN @ + 1 ELSE 2]

ToFront(order, k) == <<k>> \o Erased(order, {k})
Sizes(cache) == [k \in DOMAIN cache |-> cache[k].size]
SizeIn(cache, keys) == SumFunctionOnSet(Sizes(cache), keys)

memInit ==
    /\ dbInit /\ vectorInit /\ relockInit
    /\ entries = <<>> /\ access_order = <<>>
    /\ usage = 0 /\ limit = Max(Limits)
    /\ running = FALSE /\ has_path = FALSE /\ file = NoFile
    /\ indexing = {} /\ hung = FALSE
    /\ stores = 0 /\ imported = {}

\* evictIfNeeded: from the back of the access order until the count fits.
\* (usage is size_t in the code and an integer here: UsageCovers shows that
\* no subtraction goes below zero.)
Evicted(cache, order, used, max) ==
    LET tail(n) == {order[i] : i \in (Len(order) - n + 1)..Len(order)}
        left(n) == used - SizeIn(cache, tail(n))
        n == Min({i \in 0..Len(order) : left(i) <= max \/ i = Len(order)})
    IN  [entries |-> Drop(cache, tail(n)), usage |-> left(n),
         order |-> SubSeq(order, 1, Len(order) - n)]

Become(c) == entries' = c.entries /\ access_order' = c.order /\ usage' = c.usage

\* Mutant: an update adds the new size and keeps the old one subtracted twice.
StoredTwice(k, v, cat) ==
    LET old == IF k \in DOMAIN entries THEN entries[k] ELSE [Ghost EXCEPT !.count = 1]
    IN  Evicted(Put(entries, k, [value |-> v, category |-> cat, size |-> Size[v],
                                 count |-> old.count]),
                ToFront(access_order, k), usage - 2 * old.size + Size[v], limit)

\* store, without the database: insert or update, then evict, which may take
\* the entry itself.
Stored(k, v, cat) ==
    LET old == IF k \in DOMAIN entries THEN entries[k] ELSE [Ghost EXCEPT !.count = 1]
    IN  Evicted(Put(entries, k, [value |-> v, category |-> cat, size |-> Size[v],
                                 count |-> old.count]),
                ToFront(access_order, k), usage - old.size + Size[v], limit)

\* Mutant: the database is written for a new key only.
StoreNewOnly(k, v, cat) ==
    /\ ~hung /\ stores < MaxStores
    /\ stores' = stores + 1
    /\ LET c == Stored(k, v, cat)
       IN  Become([c EXCEPT !.entries = IF k \in DOMAIN @ THEN @ ELSE Put(@, k, Ghost)])
    /\ IF k \in DOMAIN entries THEN UNCHANGED dbVars ELSE SaveMemory(k, v, cat)
    /\ imported' = imported \ {k}
    /\ UNCHANGED <<limit, running, has_path, file, hung, vectorVars>>

\* store: the database record takes its id from entries[key], which creates
\* an empty entry when the key has just been evicted.
Store(k, v, cat) ==
    /\ ~hung /\ stores < MaxStores
    /\ stores' = stores + 1
    /\ LET c == Stored(k, v, cat)
       IN  Become([c EXCEPT !.entries = IF k \in DOMAIN @ THEN @ ELSE Put(@, k, Ghost)])
    /\ SaveMemory(k, v, cat)
    /\ imported' = imported \ {k}
    /\ UNCHANGED <<limit, running, has_path, file, hung, vectorVars>>

StorePlain(k, v, cat) == Store(k, v, cat) /\ UNCHANGED indexing

\* storeSemantic: the document is added after store() has let go the mutex.
StoreSemantic(k, v, cat) == Store(k, v, cat) /\ indexing' = indexing \cup {<<k, v>>}
Index == \E p \in indexing :
    /\ AddDocument(p[1], p[2], Embedding[p[2]])
    /\ indexing' = indexing \ {p}
    /\ UNCHANGED <<entries, access_order, usage, limit, running, has_path, file,
                   hung, stores, imported, dbVars>>

\* retrieve (with or without a category) of a key that is there, touch.
Touch(k) ==
    /\ ~hung /\ k \in DOMAIN entries
    /\ entries' = [entries EXCEPT ![k] = Used(@)]
    /\ access_order' = ToFront(access_order, k)
    /\ UNCHANGED <<usage, limit, running, has_path, file, indexing, hung, stores,
                   imported, dbVars, vectorVars>>

Forget(keys) ==
    /\ usage' = usage - SizeIn(entries, keys)
    /\ access_order' = Erased(access_order, keys)
    /\ entries' = Drop(entries, keys)

RemoveEntry(k) ==
    /\ ~hung /\ k \in DOMAIN entries
    /\ Forget({k})
    /\ RemoveDocument(k)
    /\ DeleteMemory(k)
    /\ UNCHANGED <<limit, running, has_path, file, indexing, hung, stores, imported>>

ClearCategory(cat) ==
    /\ ~hung
    /\ Forget({k \in DOMAIN entries : entries[k].category = cat})
    /\ ClearDbCategory(cat)
    /\ UNCHANGED <<limit, running, has_path, file, indexing, hung, stores, imported,
                   vectorVars>>

\* compact: session entries older than a day and used once at most.
Compact ==
    /\ ~hung
    /\ \E stale \in SUBSET {k \in DOMAIN entries :
                              entries[k].category = Session /\ entries[k].count < 2} :
         Forget(stale)
    /\ UNCHANGED <<limit, running, has_path, file, indexing, hung, stores, imported,
                   dbVars, vectorVars>>

SetMemoryLimit(max) ==
    /\ ~hung
    /\ limit' = max
    /\ Become(Evicted(entries, access_order, usage, max))
    /\ UNCHANGED <<running, has_path, file, indexing, hung, stores, imported, dbVars,
                   vectorVars>>

SetPersistencePath ==
    /\ ~hung /\ has_path' = TRUE
    /\ UNCHANGED <<cacheVars, limit, running, file, indexing, hung, stores, imported,
                   dbVars, vectorVars>>

\* persist, called from outside: exportToJson into the file.
Persist ==
    /\ ~hung /\ has_path
    /\ file' = entries
    /\ UNCHANGED <<cacheVars, limit, running, has_path, indexing, hung, stores, imported,
                   dbVars, vectorVars>>

\* load, importFromJson of what a persist() has written, in the order of the
\* array: each entry replaces the one of its key, whose size stays counted.
LoadFile ==
    IF has_path /\ file \notin {NoFile, Torn}
    THEN /\ \E keys \in SetToSeqs(DOMAIN file) :
              Become(Evicted(Update(entries, file),
                             keys \o Erased(access_order, DOMAIN file),
                             usage + SizeIn(file, DOMAIN file), limit))
         /\ imported' = imported \cup DOMAIN file
    ELSE UNCHANGED <<cacheVars, imported>>

Load ==
    /\ ~hung /\ has_path
    /\ LoadFile
    /\ UNCHANGED <<limit, running, has_path, file, indexing, hung, stores, dbVars,
                   vectorVars>>

\* initialize: load() calls importFromJson, which locks the mutex again.
InitializeMemory ==
    /\ ~hung /\ ~running
    /\ InitializeDb
    /\ IF has_path /\ file # NoFile /\ SecondLockBlocks
       THEN hung' = TRUE /\ UNCHANGED <<running, cacheVars, imported>>
       ELSE LoadFile /\ running' = TRUE /\ UNCHANGED hung
    /\ UNCHANGED <<limit, has_path, file, indexing, stores, vectorVars>>

\* shutdown: persist() empties the file, and exportToJson locks again.
ShutdownHangs ==
    /\ ~hung /\ running /\ has_path /\ SecondLockBlocks
    /\ hung' = TRUE /\ file' = Torn
    /\ UNCHANGED <<cacheVars, limit, running, has_path, indexing, stores, imported, dbVars,
                   vectorVars>>

ShutdownMemory ==
    /\ ~hung /\ running /\ (has_path => ~SecondLockBlocks)
    /\ file' = (IF has_path THEN entries ELSE file)
    /\ ShutdownDb
    /\ entries' = <<>> /\ access_order' = <<>> /\ usage' = 0
    /\ running' = FALSE /\ imported' = {}
    /\ UNCHANGED <<limit, has_path, indexing, hung, stores, vectorVars>>

\* The process is killed and starts again.
Restart ==
    /\ Crash
    /\ entries' = <<>> /\ access_order' = <<>> /\ usage' = 0
    /\ running' = FALSE /\ has_path' = FALSE /\ hung' = FALSE
    /\ indexing' = {} /\ imported' = {}
    /\ ClearVectors
    /\ UNCHANGED <<limit, file, stores>>

memStep ==
    \/ \E k \in Key : \/ Touch(k) \/ RemoveEntry(k)
                      \/ \E v \in Value, cat \in Category :
                           \/ StorePlain(k, v, cat)
                           \/ v \in Semantic /\ StoreSemantic(k, v, cat)
    \/ Index \/ Compact \/ SetPersistencePath \/ Persist \/ Load
    \/ \E cat \in Category : ClearCategory(cat)
    \/ \E max \in Limits : SetMemoryLimit(max)
    \/ InitializeMemory \/ ShutdownHangs \/ ShutdownMemory \/ Restart

memNext == memStep /\ UNCHANGED relock

memSpec == memInit /\ [][memNext]_managerVars

----------------------------------------------------------------------------
\* The byte count is never below the sizes of the entries it stands for (so
\* no subtraction wraps the size_t, after which everything would be evicted
\* for ever), every entry that takes room can be evicted, and nothing is
\* evicted twice.  The count may be too high: an import keeps the size of the
\* entry it replaces.
UsageCovers ==
    /\ usage >= SizeIn(entries, DOMAIN entries)
    /\ ToSet(access_order) \subseteq DOMAIN entries
    /\ Len(access_order) = Cardinality(ToSet(access_order))
    /\ \A k \in DOMAIN entries \ ToSet(access_order) : entries[k].size = 0

\* While the file system works, a cached entry says what the database says,
\* whatever was evicted, cleared, removed or restarted in between; the
\* exceptions are entries an import wrote and the empty ones of operator[].
CacheAgreesWithDb ==
    faults = 0 => \A k \in DOMAIN entries \ imported :
        entries[k].category = "" \/
        (k \in DOMAIN memories
         /\ memories[k] = [value |-> entries[k].value, category |-> entries[k].category])
=============================================================================
