----------------------------- MODULE StoreProofs -----------------------------
(***************************************************************************)
(* Machine-checked proofs about the stores: the repository index, the      *)
(* database engine, the cache of the memory manager above it, the context  *)
(* engine, the vector store, and the knowledge graph.                      *)
(***************************************************************************)
EXTENDS MemoryManager, KnowledgeGraph, RepositoryIndex, ContextEngine, CollectionProofs, FunctionTheorems, FiniteSetTheorems, TLAPS

----------------------------------------------------------------------------
(* The repository index                                                    *)

SymbolsAgree ==
    \A t \in Term : symbol_table[t] = {p \in DOMAIN files : t \in SymbolsOf[files[p]]}

WordsAreFound ==
    \A p \in DOMAIN files, t \in Term : CountOf[files[p]][t] > 0 =>
        p \in DOMAIN inverted_index[t] /\ inverted_index[t][p] = CountOf[files[p]][t]

IndexTypeOK ==
    /\ tree \in [Path -> {Missing} \cup Source]
    /\ \A p \in DOMAIN files : files[p] \in Source
    /\ DOMAIN symbol_table = Term
    /\ DOMAIN inverted_index = Term

IndexInv == IndexTypeOK /\ SymbolsAgree /\ WordsAreFound

\* indexFile replaces what the index says of one file and touches no other.
LEMMA IndexFileKeeps ==
    ASSUME IndexInv, NEW p \in Path, NEW text \in Source, IndexFile(p, text),
           UNCHANGED tree
    PROVE  IndexInv'
<1>1. CASE UNCHANGED tables
  BY <1>1 DEF IndexInv, IndexTypeOK, SymbolsAgree, WordsAreFound, tables
<1>2. CASE /\ symbol_table' = Registered(p, text)
           /\ inverted_index' = Inverted(p, text)
           /\ files' = Put(files, p, text)
  <2>1. /\ DOMAIN files' = DOMAIN files \cup {p}
        /\ files'[p] = text
        /\ \A q \in DOMAIN files : q # p => files'[q] = files[q]
    BY <1>2 DEF Put
  <2>2. IndexTypeOK'
    <3>1. DOMAIN symbol_table' = Term /\ DOMAIN inverted_index' = Term
      BY <1>2 DEF Registered, Inverted
    <3>2. \A q \in DOMAIN files' : files'[q] \in Source
      BY <2>1 DEF IndexInv, IndexTypeOK
    <3> QED
      BY <3>1, <3>2 DEF IndexInv, IndexTypeOK
  <2>3. SymbolsAgree'
    <3> SUFFICES ASSUME NEW t \in Term
                 PROVE  symbol_table'[t] = {q \in DOMAIN files' : t \in SymbolsOf[files'[q]]}
      BY DEF SymbolsAgree
    <3>1. symbol_table'[t] = (symbol_table[t] \ {p}) \cup
                             (IF t \in SymbolsOf[text] THEN {p} ELSE {})
      BY <1>2 DEF Registered
    <3>2. symbol_table[t] = {q \in DOMAIN files : t \in SymbolsOf[files[q]]}
      BY DEF IndexInv, SymbolsAgree
    <3> QED
      BY <2>1, <3>1, <3>2
  <2>4. WordsAreFound'
    <3> SUFFICES ASSUME NEW q \in DOMAIN files', NEW t \in Term, CountOf[files'[q]][t] > 0
                 PROVE  /\ q \in DOMAIN inverted_index'[t]
                        /\ inverted_index'[t][q] = CountOf[files'[q]][t]
      BY DEF WordsAreFound
    <3>1. inverted_index'[t] = IF CountOf[text][t] > 0
                               THEN Put(inverted_index[t], p, CountOf[text][t])
                               ELSE inverted_index[t]
      BY <1>2 DEF Inverted
    <3>2. CASE q = p
      <4>1. inverted_index'[t] = Put(inverted_index[t], p, CountOf[text][t])
        BY <2>1, <3>1, <3>2
      <4>2. files'[q] = text
        BY <2>1, <3>2
      <4> QED
        BY <3>2, <4>1, <4>2 DEF Put
    <3>3. CASE q # p
      <4>1. q \in DOMAIN inverted_index[t] /\ inverted_index[t][q] = CountOf[files[q]][t]
        BY <2>1, <3>3 DEF IndexInv, WordsAreFound
      <4>2. files'[q] = files[q]
        BY <2>1, <3>3
      <4>3. CASE inverted_index'[t] = Put(inverted_index[t], p, CountOf[text][t])
        BY <3>3, <4>1, <4>2, <4>3 DEF Put
      <4> QED
        BY <3>1, <4>1, <4>2, <4>3
    <3> QED
      BY <3>2, <3>3
  <2> QED
    BY <2>2, <2>3, <2>4 DEF IndexInv
<1> QED
  BY <1>1, <1>2 DEF IndexFile

\* removeFile leaves the frequencies of the file, which nothing asks for.
LEMMA RemoveFileKeeps ==
    ASSUME IndexInv, NEW p, RemoveFile(p), UNCHANGED tree
    PROVE  IndexInv'
<1>1. /\ symbol_table' = [t \in Term |-> symbol_table[t] \ {p}]
      /\ DOMAIN files' = DOMAIN files \ {p}
      /\ \A q \in DOMAIN files \ {p} : files'[q] = files[q]
      /\ UNCHANGED inverted_index
  BY DEF RemoveFile, Drop
<1>2. IndexTypeOK' /\ WordsAreFound'
  BY <1>1 DEF IndexInv, IndexTypeOK, WordsAreFound
<1>3. SymbolsAgree'
  BY <1>1 DEF IndexInv, SymbolsAgree
<1> QED
  BY <1>2, <1>3 DEF IndexInv

\* Through any interleaving of scans, edits, removals and calls the symbol
\* table is the one a fresh index of the same texts would have, and every word
\* of an indexed text leads to its file with its current frequency.
THEOREM IndexCoversHolds == indexSpec => []IndexCovers
<1>1. indexInit => IndexInv
  BY DEF indexInit, IndexInv, IndexTypeOK, SymbolsAgree, WordsAreFound
<1>2. IndexInv /\ [indexNext]_indexVars => IndexInv'
  <2> SUFFICES ASSUME IndexInv, [indexNext]_indexVars PROVE IndexInv'
    OBVIOUS
  <2>1. CASE UNCHANGED tables /\ tree' \in [Path -> {Missing} \cup Source]
    BY <2>1 DEF IndexInv, IndexTypeOK, SymbolsAgree, WordsAreFound, tables
  <2>2. CASE BeginScan \/ AbortScan \/ EndWalk \/ EndScan \/ UNCHANGED indexVars
    BY <2>1, <2>2 DEF BeginScan, AbortScan, EndWalk, EndScan, indexVars, tables, IndexInv,
                      IndexTypeOK
  <2>3. CASE ClearIndex
    BY <2>3 DEF ClearIndex, IndexInv, IndexTypeOK, SymbolsAgree, WordsAreFound
  <2>4. ASSUME NEW p \in Path, IndexDirectly(p)
        PROVE  IndexInv'
    BY <2>4, IndexFileKeeps DEF IndexDirectly
  <2>5. ASSUME NEW p \in Path, RemoveDirectly(p)
        PROVE  IndexInv'
    BY <2>5, RemoveFileKeeps DEF RemoveDirectly
  <2>6. ASSUME NEW p \in Path, EditTree(p)
        PROVE  IndexInv'
    <3>1. UNCHANGED tables /\ tree' \in [Path -> {Missing} \cup Source]
      BY <2>6 DEF EditTree, IndexInv, IndexTypeOK
    <3> QED
      BY <2>1, <3>1
  <2>7. ASSUME NEW p \in Path, ScanFile(p)
        PROVE  IndexInv'
    <3>1. CASE tree[p] = Missing
      BY <2>1, <2>7, <3>1 DEF ScanFile, IndexInv, IndexTypeOK
    <3>2. CASE tree[p] # Missing
      <4>1. tree[p] \in Source /\ IndexFile(p, tree[p]) /\ UNCHANGED tree
        BY <2>7, <3>2 DEF ScanFile, IndexInv, IndexTypeOK
      <4> QED
        BY <4>1, IndexFileKeeps
    <3> QED
      BY <3>1, <3>2
  <2>8. ASSUME NEW p \in Path, Invalidate(p)
        PROVE  IndexInv'
    <3>1. CASE RemoveFile(p)
      BY <2>8, <3>1, RemoveFileKeeps DEF Invalidate
    <3>2. CASE UNCHANGED tables
      BY <2>1, <2>8, <3>2 DEF Invalidate, IndexInv, IndexTypeOK
    <3> QED
      BY <2>8, <3>1, <3>2 DEF Invalidate
  <2> QED
    BY <2>2, <2>3, <2>4, <2>5, <2>6, <2>7, <2>8 DEF indexNext
<1>3. IndexInv => IndexCovers
  BY DEF IndexInv, SymbolsAgree, WordsAreFound, IndexCovers
<1> QED
  BY <1>1, <1>2, <1>3, PTL DEF indexSpec

----------------------------------------------------------------------------
(* The database engine                                                     *)

DbTypeOK ==
    /\ memories \in Records
    /\ conversations \subseteq Conversation
    /\ messages \in [Conversation -> Seq(Text)]
    /\ disk \in Contents \cup {Torn}
    /\ initialized \in BOOLEAN
    /\ faults \in Nat

\* A process that has neither loaded nor stored anything.
Fresh ==
    /\ memories = <<>>
    /\ conversations = {}
    /\ messages = [c \in Conversation |-> <<>>]

\* The file says what the maps say.
Agrees ==
    /\ disk.memories = memories
    /\ disk.conversations = conversations
    /\ \A c \in Conversation : ToSet(disk.messages[c]) = ToSet(messages[c])

\* As long as the file system works the file is whole, and it agrees with the
\* maps unless some message stops every save or nothing has been loaded yet.
DbInv ==
    /\ DbTypeOK
    /\ faults = 0 =>
         /\ disk # Torn
         /\ Serialisable(Current) => Agrees \/ (~initialized /\ Fresh)

LEMMA RecordsFacts ==
    ASSUME NEW m
    PROVE  m \in Records <=> /\ m = [x \in DOMAIN m |-> m[x]]
                             /\ DOMAIN m \subseteq Key
                             /\ \A x \in DOMAIN m : m[x] \in Record
<1>1. ASSUME m \in Records
      PROVE  /\ m = [x \in DOMAIN m |-> m[x]]
             /\ DOMAIN m \subseteq Key
             /\ \A x \in DOMAIN m : m[x] \in Record
  <2>1. PICK keys \in SUBSET Key : m \in [keys -> Record]
    BY <1>1 DEF Records
  <2> QED
    BY <2>1
<1>2. ASSUME m = [x \in DOMAIN m |-> m[x]], DOMAIN m \subseteq Key,
             \A x \in DOMAIN m : m[x] \in Record
      PROVE  m \in Records
  <2>1. m \in [DOMAIN m -> Record] /\ DOMAIN m \in SUBSET Key
    BY <1>2
  <2> QED
    BY <2>1 DEF Records
<1> QED
  BY <1>1, <1>2

LEMMA EmptyMap ==
    /\ <<>> \in Records
    /\ DOMAIN <<>> = {}
    /\ \A m \in Records : DOMAIN m = {} => m = <<>>
<1>1. DOMAIN <<>> = {} /\ <<>> = [x \in {} |-> x]
  OBVIOUS
<1>2. \A m \in Records : DOMAIN m = {} => m = <<>>
  BY <1>1, RecordsFacts
<1>3. <<>> \in Records
  BY <1>1, RecordsFacts
<1> QED
  BY <1>1, <1>2, <1>3

LEMMA PutRecord ==
    ASSUME NEW m \in Records, NEW k \in Key, NEW v \in Value, NEW cat \in Category
    PROVE  Put(m, k, [value |-> v, category |-> cat]) \in Records
<1> DEFINE r == [value |-> v, category |-> cat]
           n == Put(m, k, r)
<1>1. r \in Record
  BY DEF Record
<1>2. /\ n = [x \in DOMAIN m \cup {k} |-> IF x = k THEN r ELSE m[x]]
      /\ DOMAIN m \subseteq Key
      /\ \A x \in DOMAIN m : m[x] \in Record
  BY RecordsFacts DEF Put
<1> HIDE DEF n, r
<1>3. n \in [DOMAIN m \cup {k} -> Record]
  BY <1>1, <1>2
<1>4. DOMAIN m \cup {k} \in SUBSET Key
  BY <1>2
<1>5. n \in Records
  BY <1>3, <1>4 DEF Records
<1> QED
  BY <1>5 DEF n, r

LEMMA DropRecords ==
    ASSUME NEW m \in Records, NEW keys
    PROVE  Drop(m, keys) \in Records
<1>1. DOMAIN m \subseteq Key /\ \A x \in DOMAIN m : m[x] \in Record
  BY RecordsFacts
<1>2. Drop(m, keys) \in [DOMAIN m \ keys -> Record] /\ DOMAIN m \ keys \in SUBSET Key
  BY <1>1 DEF Drop
<1> QED
  BY <1>2 DEF Records

LEMMA UpdateRecords ==
    ASSUME NEW m \in Records, NEW n \in Records
    PROVE  /\ Update(m, n) \in Records
           /\ m = n => Update(m, n) = n
           /\ m = <<>> => Update(m, n) = n
<1>1. /\ DOMAIN m \subseteq Key /\ \A x \in DOMAIN m : m[x] \in Record
      /\ DOMAIN n \subseteq Key /\ \A x \in DOMAIN n : n[x] \in Record
      /\ n = [x \in DOMAIN n |-> n[x]]
  BY RecordsFacts
<1>2. /\ Update(m, n) \in [DOMAIN m \cup DOMAIN n -> Record]
      /\ DOMAIN m \cup DOMAIN n \in SUBSET Key
  BY <1>1 DEF Update
<1>3. m = n => Update(m, n) = n
  BY <1>1 DEF Update
<1>4. m = <<>> => Update(m, n) = n
  <2>1. m = <<>> => DOMAIN m \cup DOMAIN n = DOMAIN n
    BY EmptyMap
  <2> QED
    BY <1>1, <2>1 DEF Update
<1> QED
  BY <1>2, <1>3, <1>4 DEF Records

\* saveToDisk of what the maps become leaves the file in agreement with them.
LEMMA SaveKeeps ==
    ASSUME DbInv, Save(Content(memories', conversations', messages')),
           memories' \in Records, conversations' \subseteq Conversation,
           messages' \in [Conversation -> Seq(Text)], initialized' \in BOOLEAN
    PROVE  DbInv'
<1> DEFINE whole == Content(memories', conversations', messages')
<1>1. whole \in Contents
  BY DEF Content, Contents
<1>2. /\ whole.memories = memories'
      /\ whole.conversations = conversations'
      /\ whole.messages = messages'
  BY DEF Content
<1>3. whole = Current'
  BY DEF Current
<1>4. \/ disk' = (IF Serialisable(whole) THEN whole ELSE disk) /\ faults' = faults
      \/ faults' = faults + 1 /\ disk' \in {disk, Torn, whole}
  BY DEF Save
<1> HIDE DEF whole
<1>5. DbTypeOK'
  BY <1>1, <1>4 DEF DbInv, DbTypeOK
<1>6. ASSUME faults' = 0
      PROVE  disk' # Torn /\ (Serialisable(Current') => Agrees')
  <2>1. faults = 0 /\ disk' = (IF Serialisable(whole) THEN whole ELSE disk)
    BY <1>4, <1>6 DEF DbInv, DbTypeOK
  <2>2. disk' # Torn
    BY <1>1, <2>1, DatabaseAssumption DEF DbInv
  <2> QED
    BY <1>2, <1>3, <2>1, <2>2 DEF Agrees
<1> QED
  BY <1>5, <1>6 DEF DbInv, Serialisable, Current

LEMMA JoinSets ==
    ASSUME NEW s \in Seq(Text), NEW t \in Seq(Text)
    PROVE  ToSet(s \o t) = ToSet(s) \cup ToSet(t)
<1> DEFINE c == s \o t
<1>1. /\ Len(s) \in Nat /\ Len(t) \in Nat
      /\ DOMAIN s = 1..Len(s) /\ DOMAIN t = 1..Len(t)
      /\ DOMAIN c = 1..Len(s) + Len(t)
      /\ \A i \in 1..Len(s) : c[i] = s[i]
      /\ \A i \in 1..Len(t) : c[Len(s) + i] = t[i]
  OBVIOUS
<1> HIDE DEF c
<1>2. ASSUME NEW x \in ToSet(c)
      PROVE  x \in ToSet(s) \cup ToSet(t)
  <2>1. PICK i \in DOMAIN c : x = c[i]
    BY DEF ToSet
  <2>2. CASE i <= Len(s)
    BY <1>1, <2>1, <2>2 DEF ToSet
  <2>3. CASE i > Len(s)
    <3>1. i - Len(s) \in 1..Len(t) /\ Len(s) + (i - Len(s)) = i
      BY <1>1, <2>1, <2>3
    <3>2. x = t[i - Len(s)]
      BY <1>1, <2>1, <3>1
    <3> QED
      BY <1>1, <3>1, <3>2 DEF ToSet
  <2> QED
    BY <1>1, <2>1, <2>2, <2>3
<1>3. ASSUME NEW x \in ToSet(s)
      PROVE  x \in ToSet(c)
  <2>1. PICK i \in 1..Len(s) : x = s[i]
    BY <1>1 DEF ToSet
  <2>2. i \in DOMAIN c /\ c[i] = x
    BY <1>1, <2>1
  <2> QED
    BY <2>2 DEF ToSet
<1>4. ASSUME NEW x \in ToSet(t)
      PROVE  x \in ToSet(c)
  <2>1. PICK i \in 1..Len(t) : x = t[i]
    BY <1>1 DEF ToSet
  <2>2. Len(s) + i \in DOMAIN c /\ c[Len(s) + i] = x
    BY <1>1, <2>1
  <2> QED
    BY <2>2 DEF ToSet
<1> QED
  BY <1>2, <1>3, <1>4 DEF c

LEMMA DbStutter == DbInv /\ UNCHANGED dbVars => DbInv'
BY DEF DbInv, DbTypeOK, dbVars, Current, Serialisable, Agrees, Fresh

\* initialize() adds the file to the maps, which changes nothing where they
\* agree and takes everything from the file where the maps are empty.
LEMMA InitializeKeeps ==
    ASSUME DbInv, InitializeDb
    PROVE  DbInv'
<1>1. CASE UNCHANGED dbVars
  BY <1>1, DbStutter
<1>2. CASE disk = Torn /\ UNCHANGED <<memories, conversations, messages, disk, faults>>
           /\ initialized' = TRUE
  BY <1>2 DEF DbInv, DbTypeOK
<1>3. CASE /\ disk # Torn
           /\ memories' = Update(memories, disk.memories)
           /\ conversations' = conversations \cup disk.conversations
           /\ messages' = [c \in Conversation |-> messages[c] \o disk.messages[c]]
           /\ UNCHANGED <<disk, faults>>
           /\ initialized' = TRUE
  <2>1. /\ disk.memories \in Records
        /\ disk.conversations \subseteq Conversation
        /\ disk.messages \in [Conversation -> Seq(Text)]
        /\ memories \in Records
        /\ messages \in [Conversation -> Seq(Text)]
    BY <1>3 DEF DbInv, DbTypeOK, Contents
  <2>2. \A c \in Conversation : messages[c] \in Seq(Text) /\ disk.messages[c] \in Seq(Text)
    BY <2>1
  <2>3. \A c \in Conversation : messages[c] \o disk.messages[c] \in Seq(Text)
    BY <2>2
  <2>4. DbTypeOK'
    BY <1>3, <2>1, <2>3, UpdateRecords DEF DbInv, DbTypeOK
  <2>5. \A c \in Conversation :
          ToSet(messages'[c]) = ToSet(messages[c]) \cup ToSet(disk.messages[c])
    BY <1>3, <2>2, JoinSets
  <2>6. ASSUME faults' = 0, Serialisable(Current')
        PROVE  Agrees'
    <3>1. \A c \in Conversation : NotUtf8 \notin ToSet(messages[c])
      BY <2>5, <2>6 DEF Serialisable, Current, Content
    <3>2. Agrees \/ Fresh
      BY <1>3, <2>6, <3>1 DEF DbInv, Serialisable, Current, Content
    <3>3. CASE Agrees
      BY <1>3, <2>1, <2>5, <3>3, UpdateRecords DEF Agrees
    <3>4. CASE Fresh
      <4>1. \A c \in Conversation : ToSet(messages[c]) = {}
        BY <3>4 DEF Fresh, ToSet
      <4>2. memories' = disk.memories /\ conversations' = disk.conversations
        BY <1>3, <2>1, <3>4, UpdateRecords DEF Fresh
      <4> QED
        BY <1>3, <2>5, <4>1, <4>2 DEF Agrees
    <3> QED
      BY <3>2, <3>3, <3>4
  <2> QED
    BY <1>3, <2>4, <2>6 DEF DbInv, Serialisable, Current
<1> QED
  BY <1>1, <1>2, <1>3 DEF InitializeDb, LoadFromDisk

LEMMA ImportKeeps ==
    ASSUME DbInv, ImportDb
    PROVE  DbInv'
<1>1. /\ disk # Torn
      /\ memories' = disk.memories /\ conversations' = disk.conversations
      /\ messages' = disk.messages
      /\ UNCHANGED initialized
  BY DEF ImportDb
<1>2. disk \in Contents
  BY <1>1 DEF DbInv, DbTypeOK
<1>3. DbTypeOK' /\ (faults' = 0 => disk' = disk /\ faults = 0)
  BY <1>1, <1>2 DEF ImportDb, Save, DbInv, DbTypeOK, Contents
<1>4. faults' = 0 => Agrees'
  BY <1>1, <1>3 DEF Agrees
<1> QED
  BY <1>1, <1>3, <1>4 DEF DbInv, Serialisable, Current

LEMMA CrashKeeps ==
    ASSUME DbInv, Crash
    PROVE  DbInv'
<1>1. /\ memories' = <<>> /\ conversations' = {}
      /\ messages' = [c \in Conversation |-> <<>>]
      /\ initialized' = FALSE
      /\ UNCHANGED <<disk, faults>>
  BY DEF Crash
<1>2. <<>> \in Seq(Text)
  OBVIOUS
<1>3. DbTypeOK' /\ Fresh'
  BY <1>1, <1>2, EmptyMap DEF DbInv, DbTypeOK, Fresh
<1> QED
  BY <1>1, <1>3 DEF DbInv

LEMMA DbSteps ==
    ASSUME DbInv
    PROVE  /\ ShutdownDb => DbInv'
           /\ Flush => DbInv'
           /\ \A k \in Key : DeleteMemory(k) => DbInv'
           /\ \A k \in Key, v \in Value, cat \in Category : SaveMemory(k, v, cat) => DbInv'
           /\ \A cat \in Category : ClearDbCategory(cat) => DbInv'
           /\ \A c \in Conversation : \/ SaveConversation(c) \/ DeleteConversation(c)
                                      \/ DeleteMessages(c)
                                      \/ \E t \in Text : SaveMessage(c, t)
                => DbInv'
<1>1. DbTypeOK
  BY DEF DbInv
<1>2. UNCHANGED dbVars => DbInv'
  BY DbStutter
<1>3. ASSUME UNCHANGED <<memories, conversations, messages>>,
             Save(Current), initialized' \in BOOLEAN
      PROVE  DbInv'
  <2>1. Save(Content(memories', conversations', messages'))
    BY <1>3 DEF Current, Content
  <2> QED
    BY <1>1, <1>3, <2>1, SaveKeeps DEF DbTypeOK
<1>4. ShutdownDb => DbInv'
  BY <1>2, <1>3 DEF ShutdownDb
<1>5. Flush => DbInv'
  BY <1>1, <1>3 DEF Flush, DbTypeOK
<1>6. ASSUME NEW k \in Key, DeleteMemory(k)
      PROVE  DbInv'
  <2>1. CASE k \in DOMAIN memories
    <3>1. /\ memories' = Drop(memories, {k})
          /\ Save(Content(memories', conversations, messages))
          /\ UNCHANGED <<conversations, messages, initialized>>
      BY <1>6, <2>1 DEF DeleteMemory
    <3>2. memories' \in Records
      BY <1>1, <3>1, DropRecords DEF DbTypeOK
    <3>3. Save(Content(memories', conversations', messages'))
      BY <3>1
    <3> QED
      BY <1>1, <3>1, <3>2, <3>3, SaveKeeps DEF DbTypeOK
  <2> QED
    BY <1>2, <1>6, <2>1 DEF DeleteMemory
<1>7. ASSUME NEW k \in Key, NEW v \in Value, NEW cat \in Category, SaveMemory(k, v, cat)
      PROVE  DbInv'
  <2>1. /\ memories' = Put(memories, k, [value |-> v, category |-> cat])
        /\ UNCHANGED <<conversations, messages, initialized>>
        /\ Save(Content(memories', conversations', messages'))
    BY <1>7 DEF SaveMemory
  <2>2. memories' \in Records
    BY <1>1, <2>1, PutRecord DEF DbTypeOK
  <2> QED
    BY <1>1, <2>1, <2>2, SaveKeeps DEF DbTypeOK
<1>8. ASSUME NEW cat \in Category, ClearDbCategory(cat)
      PROVE  DbInv'
  <2>1. /\ memories' = Drop(memories, {k \in DOMAIN memories : memories[k].category = cat})
        /\ UNCHANGED <<conversations, messages, initialized>>
        /\ Save(Content(memories', conversations', messages'))
    BY <1>8 DEF ClearDbCategory
  <2>2. memories' \in Records
    BY <1>1, <2>1, DropRecords DEF DbTypeOK
  <2> QED
    BY <1>1, <2>1, <2>2, SaveKeeps DEF DbTypeOK
<1>9. ASSUME NEW c \in Conversation,
             \/ SaveConversation(c) \/ DeleteConversation(c) \/ DeleteMessages(c)
             \/ \E t \in Text : SaveMessage(c, t)
      PROVE  DbInv'
  <2>1. UNCHANGED <<memories, initialized>>
    BY <1>9 DEF SaveConversation, DeleteConversation, DeleteMessages, SaveMessage
  <2>2. Save(Content(memories', conversations', messages'))
    BY <1>9 DEF SaveConversation, DeleteConversation, DeleteMessages, SaveMessage
  <2>3. conversations' \subseteq Conversation
    BY <1>1, <1>9 DEF SaveConversation, DeleteConversation, DeleteMessages, SaveMessage,
                      DbTypeOK
  <2>4. messages' \in [Conversation -> Seq(Text)]
    <3>1. <<>> \in Seq(Text) /\ \A t \in Text : Append(messages[c], t) \in Seq(Text)
      BY <1>1 DEF DbTypeOK
    <3> QED
      BY <1>1, <1>9, <3>1
         DEF SaveConversation, DeleteConversation, DeleteMessages, SaveMessage, DbTypeOK
  <2> QED
    BY <1>1, <2>1, <2>2, <2>3, <2>4, SaveKeeps DEF DbTypeOK
<1> QED
  BY <1>4, <1>5, <1>6, <1>7, <1>8, <1>9

LEMMA InitDbInv == dbInit => DbInv
<1> SUFFICES ASSUME dbInit PROVE DbInv
  OBVIOUS
<1>1. <<>> \in Seq(Text)
  OBVIOUS
<1>2. Empty \in Contents
  BY <1>1, EmptyMap DEF Empty, Content, Contents
<1>3. DbTypeOK /\ Fresh /\ disk # Torn
  BY <1>1, <1>2, EmptyMap, DatabaseAssumption DEF dbInit, DbTypeOK, Fresh
<1> QED
  BY <1>3 DEF DbInv, dbInit

\* Whatever a call has acknowledged is on the disk when the call returns, as
\* long as the file system works and no message refuses to be serialised: for
\* any keys, values, categories, conversations and messages, and whenever the
\* process is shut down, started again or killed.
THEOREM FileHoldsAllHolds == dbSpec => []FileHoldsAll
<1>1. DbInv /\ [dbNext]_dbVars => DbInv'
  <2> SUFFICES ASSUME DbInv, [dbNext]_dbVars PROVE DbInv'
    OBVIOUS
  <2>1. CASE UNCHANGED dbVars
    BY <2>1, DbStutter
  <2>2. CASE dbNext
    BY <2>2, InitializeKeeps, ImportKeeps, CrashKeeps, DbSteps DEF dbNext
  <2> QED
    BY <2>1, <2>2
<1>2. DbInv => FileHoldsAll
  BY DEF DbInv, FileHoldsAll, Agrees
<1> QED
  BY <1>1, <1>2, InitDbInv, PTL DEF dbSpec

----------------------------------------------------------------------------
(* The cache of the memory manager                                         *)

Entry == [value : Value \cup {""}, category : Category \cup {""}, size : Nat, count : Nat]

NoMessages == [c \in Conversation |-> <<>>]

\* The database says of k what the cache says.
Backed(k) ==
    \/ entries[k].category = ""
    \/ /\ k \in DOMAIN memories
       /\ memories[k] = [value |-> entries[k].value, category |-> entries[k].category]

CacheInv ==
    /\ DbInv
    /\ messages = NoMessages
    /\ disk # Torn => disk.messages = NoMessages
    /\ \A k \in DOMAIN entries : entries[k] \in Entry
    /\ file \notin {NoFile, Torn} => \A k \in DOMAIN file : file[k] \in Entry
    /\ faults = 0 => \A k \in DOMAIN entries \ imported : Backed(k)

\* evictIfNeeded only takes entries away.
LEMMA EvictedIsPart ==
    ASSUME NEW cache, NEW order, NEW used, NEW max
    PROVE  \E keys : Evicted(cache, order, used, max).entries = Drop(cache, keys)
BY DEF Evicted

\* What keeps CacheInv: a step of the database that leaves the records of the
\* entries that stay, or no step of it.
LEMMA EntriesKept ==
    ASSUME CacheInv, DbInv', messages' = messages,
           disk' # Torn => disk'.messages = NoMessages,
           file' \notin {NoFile, Torn} => \A k \in DOMAIN file' : file'[k] \in Entry,
           faults' = 0 => faults = 0,
           \A k \in DOMAIN entries' : entries'[k] \in Entry,
           faults' = 0 => \A k \in DOMAIN entries' \ imported' : Backed(k)'
    PROVE  CacheInv'
BY DEF CacheInv, NoMessages

LEMMA SaveFacts ==
    ASSUME CacheInv, Save(Content(memories', conversations', messages')), messages' = messages
    PROVE  /\ disk' # Torn => disk'.messages = NoMessages
           /\ faults' = 0 => faults = 0
<1> DEFINE whole == Content(memories', conversations', messages')
<1>1. whole.messages = NoMessages
  BY DEF Content, CacheInv
<1>2. faults \in Nat
  BY DEF CacheInv, DbInv, DbTypeOK
<1>3. \/ disk' = (IF Serialisable(whole) THEN whole ELSE disk) /\ faults' = faults
      \/ faults' = faults + 1 /\ disk' \in {disk, Torn, whole}
  BY DEF Save
<1> HIDE DEF whole
<1> QED
  BY <1>1, <1>2, <1>3 DEF CacheInv

LEMMA StoreKeeps ==
    ASSUME CacheInv, NEW k \in Key, NEW v \in Value, NEW cat \in Category, Store(k, v, cat)
    PROVE  CacheInv'
<1> DEFINE old == IF k \in DOMAIN entries THEN entries[k] ELSE [Ghost EXCEPT !.count = 1]
           rec == [value |-> v, category |-> cat, size |-> Size[v], count |-> old.count]
<1>1. rec \in Entry /\ Ghost \in Entry
  <2>1. old.count \in Nat
    BY DEF CacheInv, Entry, Ghost
  <2> QED
    BY <2>1, MemoryAssumption DEF Entry, Ghost
<1>2. PICK keys :
        entries' = (IF k \in DOMAIN Drop(Put(entries, k, rec), keys)
                    THEN Drop(Put(entries, k, rec), keys)
                    ELSE Put(Drop(Put(entries, k, rec), keys), k, Ghost))
  <2>1. PICK keys : Stored(k, v, cat).entries = Drop(Put(entries, k, rec), keys)
    BY EvictedIsPart DEF Stored
  <2>2. LET c == Stored(k, v, cat)
        IN  entries' = [c EXCEPT !.entries = IF k \in DOMAIN @ THEN @
                                             ELSE Put(@, k, Ghost)].entries
    BY DEF Store, Become
  <2>3. "entries" \in DOMAIN Stored(k, v, cat)
    BY DEF Stored, Evicted
  <2> QED
    BY <2>1, <2>2, <2>3
<1>3. /\ SaveMemory(k, v, cat)
      /\ memories' = Put(memories, k, [value |-> v, category |-> cat])
      /\ Save(Content(memories', conversations', messages'))
      /\ messages' = messages
      /\ imported' = imported \ {k}
      /\ UNCHANGED file
  BY DEF Store, SaveMemory
<1>4. DbInv'
  BY <1>3, DbSteps DEF CacheInv
<1> HIDE DEF rec, old
<1>5. \A x \in DOMAIN entries' :
        \/ x # k /\ x \in DOMAIN entries /\ entries'[x] = entries[x]
        \/ x = k /\ entries'[x] \in {rec, Ghost}
  BY <1>2 DEF Put, Drop
<1>6. \A x \in DOMAIN entries' : entries'[x] \in Entry
  BY <1>1, <1>5 DEF CacheInv
<1>7. ASSUME faults' = 0, NEW x \in DOMAIN entries' \ imported'
      PROVE  Backed(x)'
  <2>1. CASE x = k
    <3>1. k \in DOMAIN memories' /\ memories'[k] = [value |-> v, category |-> cat]
      BY <1>3 DEF Put
    <3>2. entries'[k] = rec \/ entries'[k].category = ""
      <4>1. entries'[k] = rec \/ entries'[k] = Ghost
        BY <1>5, <1>7, <2>1
      <4>2. Ghost.category = ""
        BY DEF Ghost
      <4> QED
        BY <4>1, <4>2
    <3>3. rec.value = v /\ rec.category = cat
      BY DEF rec
    <3> QED
      BY <2>1, <3>1, <3>2, <3>3 DEF Backed
  <2>2. CASE x # k
    <3>1. x \in DOMAIN entries \ imported /\ entries'[x] = entries[x] /\ faults = 0
      BY <1>3, <1>5, <1>7, <2>2, SaveFacts
    <3>2. Backed(x)
      BY <3>1 DEF CacheInv
    <3> QED
      BY <1>3, <2>2, <3>1, <3>2 DEF Backed, Put
  <2> QED
    BY <2>1, <2>2
<1> QED
  BY <1>3, <1>4, <1>6, <1>7, SaveFacts, EntriesKept DEF CacheInv

\* The entries that stay after a step that only takes away, and their records.
LEMMA EntriesDropped ==
    ASSUME CacheInv, faults' = 0 => faults = 0, imported \subseteq imported',
           \A x \in DOMAIN entries' :
             /\ x \in DOMAIN entries /\ entries'[x] = entries[x]
             /\ x \in DOMAIN memories /\ Backed(x) /\ entries[x].category # "" =>
                  x \in DOMAIN memories' /\ memories'[x] = memories[x]
    PROVE  /\ \A x \in DOMAIN entries' : entries'[x] \in Entry
           /\ faults' = 0 => \A x \in DOMAIN entries' \ imported' : Backed(x)'
BY DEF CacheInv, Backed

LEMMA TouchKeeps ==
    ASSUME CacheInv, NEW k \in Key, Touch(k)
    PROVE  CacheInv'
<1>1. /\ k \in DOMAIN entries
      /\ entries' = [entries EXCEPT ![k] = Used(entries[k])]
      /\ UNCHANGED <<file, imported, dbVars>>
  BY DEF Touch
<1>2. \A e \in Entry : Used(e) \in Entry /\ Used(e).value = e.value
                       /\ Used(e).category = e.category
  <2> SUFFICES ASSUME NEW e \in Entry
               PROVE  /\ Used(e) \in Entry /\ Used(e).value = e.value
                      /\ Used(e).category = e.category
    OBVIOUS
  <2>1. e.count \in Nat
    BY DEF Entry
  <2>2. PICK n \in Nat : Used(e) = [e EXCEPT !.count = n]
    BY <2>1 DEF Used
  <2>3. [e EXCEPT !.count = n] \in Entry
    BY <2>2 DEF Entry
  <2>4. /\ [e EXCEPT !.count = n].value = e.value
        /\ [e EXCEPT !.count = n].category = e.category
    BY <2>2 DEF Entry
  <2> QED
    BY <2>2, <2>3, <2>4
<1>3. \A x \in DOMAIN entries' :
        /\ x \in DOMAIN entries /\ entries'[x] \in Entry
        /\ entries'[x].value = entries[x].value
        /\ entries'[x].category = entries[x].category
  BY <1>1, <1>2 DEF CacheInv
<1>4. UNCHANGED <<memories, messages, disk, faults>> /\ DbInv'
  BY <1>1, DbStutter DEF dbVars, CacheInv
<1> QED
  BY <1>1, <1>3, <1>4, EntriesKept DEF CacheInv, Backed

LEMMA ForgetKeeps ==
    ASSUME CacheInv, NEW keys, Forget(keys), UNCHANGED <<file, imported>>,
           DbInv', messages' = messages,
           disk' # Torn => disk'.messages = NoMessages, faults' = 0 => faults = 0,
           \A x \in DOMAIN entries \ keys :
             x \in DOMAIN memories /\ Backed(x) /\ entries[x].category # "" =>
               x \in DOMAIN memories' /\ memories'[x] = memories[x]
    PROVE  CacheInv'
<1>1. \A x \in DOMAIN entries' : x \in DOMAIN entries \ keys /\ entries'[x] = entries[x]
  BY DEF Forget, Drop
<1>2. /\ \A x \in DOMAIN entries' : entries'[x] \in Entry
      /\ faults' = 0 => \A x \in DOMAIN entries' \ imported' : Backed(x)'
  BY <1>1, EntriesDropped
<1> QED
  BY <1>2, EntriesKept DEF CacheInv

\* remove, clearCategory and compact: the database forgets what the cache
\* forgets, and compact() only the cache.
LEMMA ForgettingKeeps ==
    ASSUME CacheInv,
           \/ \E k \in Key : RemoveEntry(k)
           \/ \E cat \in Category : ClearCategory(cat)
           \/ Compact
    PROVE  CacheInv'
<1>1. ASSUME UNCHANGED dbVars
      PROVE  /\ DbInv' /\ messages' = messages
             /\ disk' # Torn => disk'.messages = NoMessages
             /\ faults' = 0 => faults = 0
             /\ memories' = memories
  BY <1>1, DbStutter DEF dbVars, CacheInv
<1>2. ASSUME NEW k \in Key, RemoveEntry(k)
      PROVE  CacheInv'
  <2>1. Forget({k}) /\ DeleteMemory(k) /\ UNCHANGED <<file, imported>>
    BY <1>2 DEF RemoveEntry
  <2>2. CASE UNCHANGED dbVars
    BY <1>1, <2>1, <2>2, ForgetKeeps
  <2>3. CASE k \in DOMAIN memories
    <3>1. /\ memories' = Drop(memories, {k})
          /\ Save(Content(memories', conversations', messages'))
          /\ messages' = messages
      BY <2>1, <2>3 DEF DeleteMemory
    <3>2. DbInv'
      BY <2>1, DbSteps DEF CacheInv
    <3>3. \A x \in DOMAIN entries \ {k} : x \in DOMAIN memories =>
            x \in DOMAIN memories' /\ memories'[x] = memories[x]
      BY <3>1 DEF Drop
    <3> QED
      BY <2>1, <3>1, <3>2, <3>3, SaveFacts, ForgetKeeps
  <2> QED
    BY <2>1, <2>2, <2>3 DEF DeleteMemory
<1>3. ASSUME NEW cat \in Category, ClearCategory(cat)
      PROVE  CacheInv'
  <2> DEFINE keys == {k \in DOMAIN entries : entries[k].category = cat}
  <2>1. /\ Forget(keys) /\ UNCHANGED <<file, imported>>
        /\ ClearDbCategory(cat)
        /\ memories' = Drop(memories, {k \in DOMAIN memories : memories[k].category = cat})
        /\ Save(Content(memories', conversations', messages'))
        /\ messages' = messages
    BY <1>3 DEF ClearCategory, ClearDbCategory
  <2>2. DbInv'
    BY <2>1, DbSteps DEF CacheInv
  <2>3. \A x \in DOMAIN entries \ keys :
          x \in DOMAIN memories /\ Backed(x) /\ entries[x].category # "" =>
            x \in DOMAIN memories' /\ memories'[x] = memories[x]
    <3> SUFFICES ASSUME NEW x \in DOMAIN entries \ keys, x \in DOMAIN memories, Backed(x),
                        entries[x].category # ""
                 PROVE  x \in DOMAIN memories' /\ memories'[x] = memories[x]
      OBVIOUS
    <3>1. memories[x].category = entries[x].category
      <4>1. memories[x] = [value |-> entries[x].value, category |-> entries[x].category]
        BY Zenon DEF Backed
      <4> QED
        BY ONLY <4>1
    <3>2. memories[x].category # cat
      BY <3>1
    <3> QED
      BY <2>1, <3>2 DEF Drop
  <2> QED
    BY <2>1, <2>2, <2>3, SaveFacts, ForgetKeeps
<1>4. CASE Compact
  <2>1. UNCHANGED <<file, imported, dbVars>> /\ \E stale : Forget(stale)
    BY <1>4 DEF Compact
  <2> QED
    BY <1>1, <2>1, ForgetKeeps
<1> QED
  BY <1>2, <1>3, <1>4

\* load() marks as imported what it takes from the file, and what it leaves
\* stays as it was.
LEMMA LoadFileFacts ==
    ASSUME CacheInv, LoadFile
    PROVE  /\ imported \subseteq imported'
           /\ \A x \in DOMAIN entries' : entries'[x] \in Entry
           /\ \A x \in DOMAIN entries' \ imported' :
                x \in DOMAIN entries \ imported /\ entries'[x] = entries[x]
<1>1. CASE UNCHANGED <<cacheVars, imported>>
  BY <1>1 DEF CacheInv, cacheVars
<1>2. CASE has_path /\ file \notin {NoFile, Torn}
  <2>1. /\ imported' = imported \cup DOMAIN file
        /\ \E order, used : entries' = Evicted(Update(entries, file), order, used, limit).entries
    BY <1>2 DEF LoadFile, Become
  <2>2. PICK keys : entries' = Drop(Update(entries, file), keys)
    BY <2>1, EvictedIsPart
  <2>3. \A x \in DOMAIN entries' :
          \/ x \in DOMAIN file /\ entries'[x] = file[x]
          \/ x \in DOMAIN entries \ DOMAIN file /\ entries'[x] = entries[x]
    BY <2>2 DEF Drop, Update
  <2> QED
    BY <1>2, <2>1, <2>3 DEF CacheInv
<1> QED
  BY <1>1, <1>2 DEF LoadFile

LEMMA LoadKeeps ==
    ASSUME CacheInv, LoadFile, UNCHANGED file, DbInv', messages' = messages,
           disk' # Torn => disk'.messages = NoMessages,
           faults' = 0 => faults = 0,
           faults' = 0 => \A x \in DOMAIN entries : x \in DOMAIN memories =>
                            x \in DOMAIN memories' /\ memories'[x] = memories[x]
    PROVE  CacheInv'
<1>1. ASSUME faults' = 0, NEW x \in DOMAIN entries' \ imported'
      PROVE  Backed(x)'
  <2>1. x \in DOMAIN entries \ imported /\ entries'[x] = entries[x]
    BY LoadFileFacts
  <2>2. Backed(x)
    BY <1>1, <2>1 DEF CacheInv
  <2> QED
    BY <1>1, <2>1, <2>2 DEF Backed
<1>2. \A x \in DOMAIN entries' : entries'[x] \in Entry
  BY LoadFileFacts
<1> QED
  BY <1>1, <1>2, EntriesKept DEF CacheInv

\* initialize() of the database adds nothing to maps that agree with the file,
\* and before it has run nothing is in the maps.
LEMMA InitializeDbFacts ==
    ASSUME CacheInv, InitializeDb
    PROVE  /\ UNCHANGED <<messages, disk, faults>>
           /\ faults = 0 => \A x \in DOMAIN memories :
                              x \in DOMAIN memories' /\ memories'[x] = memories[x]
<1>1. CASE UNCHANGED dbVars
  BY <1>1 DEF dbVars
<1>2. CASE disk = Torn /\ UNCHANGED <<memories, conversations, messages, disk, faults>>
  BY <1>2
<1>3. CASE /\ disk # Torn
           /\ memories' = Update(memories, disk.memories)
           /\ messages' = [c \in Conversation |-> messages[c] \o disk.messages[c]]
           /\ UNCHANGED <<disk, faults>>
  <2>1. \A c \in Conversation : messages[c] = <<>> /\ disk.messages[c] = <<>>
    BY <1>3 DEF CacheInv, NoMessages
  <2>2. <<>> \o <<>> = <<>>
    OBVIOUS
  <2>3. messages' = messages
    BY <1>3, <2>1, <2>2 DEF CacheInv, NoMessages
  <2>4. Serialisable(Current)
    BY <2>1 DEF Serialisable, Current, Content, ToSet
  <2>5. ASSUME faults = 0, NEW x \in DOMAIN memories
        PROVE  x \in DOMAIN memories' /\ memories'[x] = memories[x]
    <3>1. Agrees \/ Fresh
      BY <2>4, <2>5 DEF CacheInv, DbInv
    <3>2. ~Fresh
      BY <2>5, EmptyMap DEF Fresh
    <3>3. disk.memories = memories
      BY <3>1, <3>2 DEF Agrees
    <3> QED
      BY <1>3, <3>3 DEF Update
  <2> QED
    BY <1>3, <2>3, <2>5
<1> QED
  BY <1>1, <1>2, <1>3 DEF InitializeDb, LoadFromDisk

LEMMA InitializeMemoryKeeps ==
    ASSUME CacheInv, InitializeMemory
    PROVE  CacheInv'
<1>1. InitializeDb /\ UNCHANGED file
  BY DEF InitializeMemory
<1>2. /\ DbInv'
      /\ messages' = messages
      /\ disk' # Torn => disk'.messages = NoMessages
      /\ faults' = faults
  BY <1>1, InitializeKeeps, InitializeDbFacts DEF CacheInv
<1>3. faults = 0 => \A x \in DOMAIN memories :
                      x \in DOMAIN memories' /\ memories'[x] = memories[x]
  BY <1>1, InitializeDbFacts
<1>4. CASE UNCHANGED <<cacheVars, imported>>
  <2>1. faults' = 0 => \A x \in DOMAIN entries' \ imported' : Backed(x)'
    BY <1>2, <1>3, <1>4 DEF CacheInv, Backed, cacheVars
  <2> QED
    BY <1>1, <1>2, <1>4, <2>1, EntriesKept DEF CacheInv, cacheVars
<1>5. CASE LoadFile
  BY <1>1, <1>2, <1>3, <1>5, LoadKeeps
<1> QED
  BY <1>4, <1>5 DEF InitializeMemory

\* The cache is emptied when the manager stops or the process is killed.
LEMMA EmptiedKeeps ==
    ASSUME CacheInv, ShutdownMemory \/ Restart
    PROVE  CacheInv'
<1>1. entries' = <<>>
  BY DEF ShutdownMemory, Restart
<1>2. DOMAIN entries' = {}
  BY <1>1, EmptyMap
<1>3. CASE ShutdownMemory
  <2>1. ShutdownDb /\ file' \in {entries, file}
    BY <1>3 DEF ShutdownMemory
  <2>2. DbInv'
    BY <2>1, DbSteps DEF CacheInv
  <2>3. /\ messages' = messages
        /\ disk' # Torn => disk'.messages = NoMessages
        /\ faults' = 0 => faults = 0
    <3>1. CASE UNCHANGED dbVars
      BY <3>1 DEF CacheInv, dbVars
    <3>2. CASE Save(Current) /\ UNCHANGED <<memories, conversations, messages>>
      <4>1. Save(Content(memories', conversations', messages'))
        BY <3>2 DEF Current
      <4> QED
        BY <3>2, <4>1, SaveFacts
    <3> QED
      BY <2>1, <3>1, <3>2 DEF ShutdownDb
  <2>4. file' \notin {NoFile, Torn} => \A x \in DOMAIN file' : file'[x] \in Entry
    BY <2>1 DEF CacheInv
  <2> QED
    BY <1>2, <2>2, <2>3, <2>4, EntriesKept
<1>4. CASE Restart
  <2>1. Crash /\ UNCHANGED file
    BY <1>4 DEF Restart
  <2>2. DbInv'
    BY <2>1, CrashKeeps DEF CacheInv
  <2>3. messages' = messages /\ UNCHANGED <<disk, faults>>
    BY <2>1 DEF Crash, CacheInv, NoMessages
  <2> QED
    BY <1>2, <2>1, <2>2, <2>3, EntriesKept DEF CacheInv
<1> QED
  BY <1>3, <1>4

\* Steps that leave the database alone.
LEMMA CacheOnlyKeeps ==
    ASSUME CacheInv,
           \/ Index \/ SetPersistencePath \/ Persist \/ Load \/ ShutdownHangs
           \/ \E max \in Limits : SetMemoryLimit(max)
           \/ UNCHANGED managerVars
    PROVE  CacheInv'
<1>1. UNCHANGED dbVars
  BY DEF Index, SetPersistencePath, Persist, Load, ShutdownHangs, SetMemoryLimit, managerVars
<1>2. /\ DbInv'
      /\ UNCHANGED <<memories, messages, disk, faults>>
  BY <1>1, DbStutter DEF CacheInv, dbVars
<1>3. ASSUME UNCHANGED <<entries, imported>>, file' \in {file, entries, Torn}
      PROVE  CacheInv'
  <2>1. file' \notin {NoFile, Torn} => \A x \in DOMAIN file' : file'[x] \in Entry
    BY <1>3 DEF CacheInv
  <2> QED
    BY <1>2, <1>3, <2>1, EntriesKept DEF CacheInv, Backed
<1>4. CASE Index
  BY <1>3, <1>4 DEF Index
<1>5. CASE SetPersistencePath
  BY <1>3, <1>5 DEF SetPersistencePath, cacheVars
<1>6. CASE Persist
  BY <1>3, <1>6 DEF Persist, cacheVars
<1>7. CASE Load
  <2>1. LoadFile /\ UNCHANGED file
    BY <1>7 DEF Load
  <2> QED
    BY <1>2, <2>1, LoadKeeps DEF CacheInv
<1>8. CASE ShutdownHangs
  BY <1>3, <1>8 DEF ShutdownHangs, cacheVars
<1>9. ASSUME NEW max \in Limits, SetMemoryLimit(max)
      PROVE  CacheInv'
  <2>1. UNCHANGED <<imported, file>>
    BY <1>9 DEF SetMemoryLimit
  <2>2. \E keys : entries' = Drop(entries, keys)
    BY <1>9, EvictedIsPart DEF SetMemoryLimit, Become
  <2>3. \A x \in DOMAIN entries' : x \in DOMAIN entries /\ entries'[x] = entries[x]
    BY <2>2 DEF Drop
  <2>4. /\ \A x \in DOMAIN entries' : entries'[x] \in Entry
        /\ faults' = 0 => \A x \in DOMAIN entries' \ imported' : Backed(x)'
    BY <1>2, <2>1, <2>3, EntriesDropped
  <2> QED
    BY <1>2, <2>1, <2>4, EntriesKept DEF CacheInv
<1>10. CASE UNCHANGED managerVars
  BY <1>3, <1>10 DEF managerVars, memVars
<1> QED
  BY <1>4, <1>5, <1>6, <1>7, <1>8, <1>9, <1>10

\* While the file system works, a cached entry that no import wrote says what
\* the database says, for any values and sizes and any limit: whatever was
\* evicted, cleared, removed, compacted, shut down or killed in between.
THEOREM CacheAgreesWithDbHolds == memSpec => []CacheAgreesWithDb
<1>1. memInit => CacheInv
  <2> SUFFICES ASSUME memInit PROVE CacheInv
    OBVIOUS
  <2>1. DbInv /\ messages = NoMessages /\ disk.messages = NoMessages
    BY InitDbInv DEF memInit, dbInit, NoMessages, Empty, Content
  <2>2. DOMAIN entries = {} /\ file = NoFile
    BY EmptyMap DEF memInit
  <2> QED
    BY <2>1, <2>2 DEF CacheInv
<1>2. CacheInv /\ [memNext]_managerVars => CacheInv'
  <2> SUFFICES ASSUME CacheInv, [memNext]_managerVars PROVE CacheInv'
    OBVIOUS
  <2>1. ASSUME NEW k \in Key, NEW v \in Value, NEW cat \in Category,
               StorePlain(k, v, cat) \/ StoreSemantic(k, v, cat)
        PROVE  CacheInv'
    BY <2>1, StoreKeeps DEF StorePlain, StoreSemantic
  <2> QED
    BY <2>1, TouchKeeps, ForgettingKeeps, CacheOnlyKeeps, InitializeMemoryKeeps,
       EmptiedKeeps
       DEF memNext, memStep
<1>3. CacheInv => CacheAgreesWithDb
  BY DEF CacheInv, Backed, CacheAgreesWithDb
<1> QED
  BY <1>1, <1>2, <1>3, PTL DEF memSpec

----------------------------------------------------------------------------
(* The context engine                                                      *)

\* Every item is of a conversation whose id has been given, and the counts are
\* those of the items.
ContextInv ==
    /\ IsFiniteSet(DOMAIN items) /\ DOMAIN copies = DOMAIN items
    /\ DOMAIN items \subseteq issued
    /\ conversations_ \subseteq Conv \cap issued
    /\ \A i \in DOMAIN items : /\ items[i].conv \in Conv \cap issued
                               /\ items[i].tokens \in Nat
    /\ \A c \in Conv : TokensOf(c) = SumFunctionOnSet(TokensIn, OfConversation(c))
    /\ total \in [items : Nat, tokens : Nat]
    /\ total.items >= Cardinality(DOMAIN items)
    /\ total.tokens >= SumFunctionOnSet(TokensIn, DOMAIN items)

\* What the lemmas about sums ask of the items.
LEMMA ItemsAreSummed ==
    ASSUME ContextInv, NEW S \in SUBSET DOMAIN items
    PROVE  /\ IsFiniteSet(S) /\ Values(TokensIn, S)
           /\ SumFunctionOnSet(TokensIn, S) \in Nat
           /\ SumFunctionOnSet(TokensIn, S) \leq SumFunctionOnSet(TokensIn, DOMAIN items)
<1>1. IsFiniteSet(S) /\ Values(TokensIn, S) /\ Values(TokensIn, DOMAIN items)
  BY FS_Subset DEF ContextInv, Values, TokensIn
<1> QED
  BY <1>1, SumIsNatural, SumOfPart DEF ContextInv

\* addMessage and addContextItem.
LEMMA InsertKeeps ==
    ASSUME ContextInv, NEW c \in Conv \cap issued, NEW n \in Count, Insert(c, n)
    PROVE  ContextInv'
<1>1. PICK i \in Item \ issued :
        /\ items' = Put(items, i, [conv |-> c, tokens |-> n])
        /\ copies' = Put(copies, i, FALSE)
        /\ tokens' = Put(tokens, c, TokensOf(c) + n)
        /\ total' = [items |-> total.items + 1, tokens |-> total.tokens + n]
        /\ issued' = issued \cup {i}
        /\ UNCHANGED conversations_
  BY DEF Insert
<1>2. i \notin DOMAIN items /\ n \in Nat
  BY <1>1, ContextAssumption DEF ContextInv
<1>3. /\ DOMAIN items' = DOMAIN items \cup {i} /\ DOMAIN copies' = DOMAIN copies \cup {i}
      /\ items'[i] = [conv |-> c, tokens |-> n]
      /\ \A j \in DOMAIN items : items'[j] = items[j]
  BY <1>1, <1>2 DEF Put
<1>4. IsFiniteSet(DOMAIN items') /\ Cardinality(DOMAIN items') = Cardinality(DOMAIN items) + 1
  BY <1>2, <1>3, FS_AddElement DEF ContextInv
<1>5. /\ TokensIn'[i] = n
      /\ \A j \in DOMAIN items : TokensIn'[j] = TokensIn[j]
  BY <1>3 DEF TokensIn
<1>6. ASSUME NEW S \in SUBSET DOMAIN items
      PROVE  /\ SumFunctionOnSet(TokensIn', S) = SumFunctionOnSet(TokensIn, S)
             /\ SumFunctionOnSet(TokensIn', S \cup {i}) = SumFunctionOnSet(TokensIn, S) + n
  <2>1. IsFiniteSet(S) /\ Values(TokensIn, S) /\ i \notin S
    BY <1>2, <1>6, ItemsAreSummed
  <2>2. SumFunctionOnSet(TokensIn', S) = SumFunctionOnSet(TokensIn, S)
    BY <1>5, <2>1, SumOfSame
  <2>3. Values(TokensIn', S \cup {i})
    BY <1>2, <1>5, <2>1 DEF Values
  <2>4. SumFunctionOnSet(TokensIn', S \cup {i}) = SumFunctionOnSet(TokensIn', S) + TokensIn'[i]
    BY <2>1, <2>3, SumWithOneMore
  <2> QED
    BY <1>5, <2>2, <2>4
<1>7. /\ OfConversation(c)' = OfConversation(c) \cup {i}
      /\ \A d \in Conv \ {c} : OfConversation(d)' = OfConversation(d)
  BY <1>3 DEF OfConversation
<1>8. ASSUME NEW d \in Conv
      PROVE  TokensOf(d)' = SumFunctionOnSet(TokensIn', OfConversation(d)')
  <2>1. OfConversation(d) \in SUBSET DOMAIN items
    BY DEF OfConversation
  <2>2. TokensOf(d) = SumFunctionOnSet(TokensIn, OfConversation(d))
    BY DEF ContextInv
  <2>3. TokensOf(d)' = IF d = c THEN TokensOf(c) + n ELSE TokensOf(d)
    BY <1>1 DEF TokensOf, Put
  <2> QED
    BY <1>6, <1>7, <2>1, <2>2, <2>3
<1>9. SumFunctionOnSet(TokensIn', DOMAIN items') = SumFunctionOnSet(TokensIn, DOMAIN items) + n
  BY <1>3, <1>6
<1>10. /\ total' \in [items : Nat, tokens : Nat]
       /\ total'.items >= Cardinality(DOMAIN items')
       /\ total'.tokens >= SumFunctionOnSet(TokensIn', DOMAIN items')
  <2>1. Cardinality(DOMAIN items) \in Nat /\ SumFunctionOnSet(TokensIn, DOMAIN items) \in Nat
    BY ItemsAreSummed, FS_CardinalityType DEF ContextInv
  <2>2. /\ total.items \in Nat /\ total.tokens \in Nat
        /\ total.items >= Cardinality(DOMAIN items)
        /\ total.tokens >= SumFunctionOnSet(TokensIn, DOMAIN items)
    BY DEF ContextInv
  <2> QED
    BY <1>1, <1>2, <1>4, <1>9, <2>1, <2>2
<1>11. /\ DOMAIN copies' = DOMAIN items' /\ DOMAIN items' \subseteq issued'
       /\ conversations_' \subseteq Conv \cap issued'
  BY <1>1, <1>3 DEF ContextInv
<1>12. ASSUME NEW j \in DOMAIN items'
       PROVE  items'[j].conv \in Conv \cap issued' /\ items'[j].tokens \in Nat
  BY <1>1, <1>2, <1>3, <1>12 DEF ContextInv
<1> QED
  BY <1>4, <1>8, <1>10, <1>11, <1>12 DEF ContextInv

\* removeContextItem: what it subtracts has been counted.
LEMMA RemoveKeeps ==
    ASSUME ContextInv, NEW t, RemoveContextItem(t)
    PROVE  ContextInv'
<1>1. PICK i \in DOMAIN items, c \in Conv, n \in Nat :
        /\ c = items[i].conv /\ n = items[i].tokens
        /\ copies' = Drop(copies, {i})
        /\ items' = Drop(items, {i})
        /\ tokens' = Put(tokens, c, TokensOf(c) - n)
        /\ total' = [items |-> total.items - 1, tokens |-> total.tokens - n]
        /\ UNCHANGED <<conversations_, issued>>
  BY DEF RemoveContextItem, ContextInv
<1>2. TokensIn[i] = n
  BY <1>1 DEF TokensIn
<1>3. /\ DOMAIN items' = DOMAIN items \ {i} /\ DOMAIN copies' = DOMAIN copies \ {i}
      /\ \A j \in DOMAIN items' : items'[j] = items[j]
  BY <1>1 DEF Drop
<1>4. /\ IsFiniteSet(DOMAIN items') /\ Cardinality(DOMAIN items') = Cardinality(DOMAIN items) - 1
      /\ Cardinality(DOMAIN items) \in Nat
  BY <1>1, <1>3, FS_RemoveElement, FS_CardinalityType DEF ContextInv
<1>5. \A j \in DOMAIN items' : TokensIn'[j] = TokensIn[j]
  BY <1>3 DEF TokensIn
<1>6. ASSUME NEW S \in SUBSET DOMAIN items, i \in S
      PROVE  /\ SumFunctionOnSet(TokensIn', S \ {i}) = SumFunctionOnSet(TokensIn, S) - n
             /\ SumFunctionOnSet(TokensIn, S) = SumFunctionOnSet(TokensIn, S \ {i}) + n
  <2>1. IsFiniteSet(S) /\ IsFiniteSet(S \ {i}) /\ Values(TokensIn, S)
    BY <1>6, ItemsAreSummed
  <2>2. /\ SumFunctionOnSet(TokensIn, S \ {i}) = SumFunctionOnSet(TokensIn, S) - TokensIn[i]
        /\ SumFunctionOnSet(TokensIn, S) = SumFunctionOnSet(TokensIn, S \ {i}) + TokensIn[i]
    BY <1>6, <2>1, SumWithout
  <2>3. \A j \in S \ {i} : TokensIn'[j] = TokensIn[j]
    BY <1>3, <1>5
  <2>4. SumFunctionOnSet(TokensIn', S \ {i}) = SumFunctionOnSet(TokensIn, S \ {i})
    BY <2>1, <2>3, SumOfSame
  <2> QED
    BY <1>2, <2>2, <2>4
<1>7. /\ OfConversation(c)' = OfConversation(c) \ {i} /\ i \in OfConversation(c)
      /\ \A d \in Conv \ {c} : OfConversation(d)' = OfConversation(d) /\ i \notin OfConversation(d)
  BY <1>1, <1>3 DEF OfConversation
<1>8. ASSUME NEW d \in Conv
      PROVE  TokensOf(d)' = SumFunctionOnSet(TokensIn', OfConversation(d)')
  <2>1. OfConversation(d) \in SUBSET DOMAIN items
    BY DEF OfConversation
  <2>2. TokensOf(d) = SumFunctionOnSet(TokensIn, OfConversation(d))
    BY DEF ContextInv
  <2>3. TokensOf(d)' = IF d = c THEN TokensOf(c) - n ELSE TokensOf(d)
    BY <1>1 DEF TokensOf, Put
  <2>4. CASE d = c
    BY <1>6, <1>7, <2>1, <2>2, <2>3, <2>4
  <2>5. CASE d # c
    <3>1. OfConversation(d)' = OfConversation(d) /\ IsFiniteSet(OfConversation(d))
      BY <1>7, <2>1, <2>5, ItemsAreSummed
    <3>2. \A j \in OfConversation(d) : TokensIn'[j] = TokensIn[j]
      BY <1>3, <1>5, <1>7, <2>1, <2>5
    <3>3. SumFunctionOnSet(TokensIn', OfConversation(d)) = SumFunctionOnSet(TokensIn, OfConversation(d))
      BY <3>1, <3>2, SumOfSame
    <3> QED
      BY <2>2, <2>3, <2>5, <3>1, <3>3
  <2> QED
    BY <2>4, <2>5
<1>9. SumFunctionOnSet(TokensIn', DOMAIN items') = SumFunctionOnSet(TokensIn, DOMAIN items) - n
  BY <1>1, <1>3, <1>6
<1>10. /\ total' \in [items : Nat, tokens : Nat]
       /\ total'.items >= Cardinality(DOMAIN items')
       /\ total'.tokens >= SumFunctionOnSet(TokensIn', DOMAIN items')
  <2>1. /\ total.items \in Nat /\ total.tokens \in Nat
        /\ total.items >= Cardinality(DOMAIN items)
        /\ total.tokens >= SumFunctionOnSet(TokensIn, DOMAIN items)
    BY DEF ContextInv
  <2>2. Cardinality(DOMAIN items') \in Nat
    BY <1>4, FS_CardinalityType
  <2>3. SumFunctionOnSet(TokensIn, DOMAIN items) >= n /\ SumFunctionOnSet(TokensIn, DOMAIN items) \in Nat
    <3>1. /\ SumFunctionOnSet(TokensIn, DOMAIN items \ {i}) \in Nat
          /\ SumFunctionOnSet(TokensIn, DOMAIN items) \in Nat
      BY ItemsAreSummed
    <3>2. SumFunctionOnSet(TokensIn, DOMAIN items) = SumFunctionOnSet(TokensIn, DOMAIN items \ {i}) + n
      BY <1>1, <1>6
    <3> QED
      BY <1>1, <3>1, <3>2
  <2> QED
    BY <1>1, <1>2, <1>4, <1>9, <2>1, <2>2, <2>3
<1>11. /\ DOMAIN copies' = DOMAIN items' /\ DOMAIN items' \subseteq issued'
       /\ conversations_' \subseteq Conv \cap issued'
       /\ \A j \in DOMAIN items' : /\ items'[j].conv \in Conv \cap issued'
                                   /\ items'[j].tokens \in Nat
  BY <1>1, <1>3 DEF ContextInv
<1> QED
  BY <1>4, <1>8, <1>10, <1>11 DEF ContextInv

\* endConversation: the items of one conversation go, and no others.
LEMMA EndKeeps ==
    ASSUME ContextInv, NEW t, EndConversation(t)
    PROVE  ContextInv'
<1>1. PICK c \in conversations_ :
        /\ conversations_' = conversations_ \ {c}
        /\ items' = Drop(items, OfConversation(c))
        /\ copies' = Drop(copies, OfConversation(c))
        /\ tokens' = Drop(tokens, {c})
        /\ UNCHANGED <<total, issued>>
  BY DEF EndConversation
<1>2. /\ DOMAIN items' = DOMAIN items \ OfConversation(c)
      /\ DOMAIN copies' = DOMAIN copies \ OfConversation(c)
      /\ \A j \in DOMAIN items' : items'[j] = items[j] /\ TokensIn'[j] = TokensIn[j]
  BY <1>1 DEF Drop, TokensIn
<1>3. /\ IsFiniteSet(DOMAIN items') /\ DOMAIN items' \in SUBSET DOMAIN items
      /\ Cardinality(DOMAIN items') \in Nat /\ Cardinality(DOMAIN items) \in Nat
      /\ Cardinality(DOMAIN items') \leq Cardinality(DOMAIN items)
  BY <1>2, FS_Subset, FS_CardinalityType DEF ContextInv
<1>4. /\ OfConversation(c)' = {}
      /\ \A d \in Conv \ {c} : OfConversation(d)' = OfConversation(d)
  BY <1>2 DEF OfConversation
<1>5. ASSUME NEW S \in SUBSET DOMAIN items'
      PROVE  SumFunctionOnSet(TokensIn', S) = SumFunctionOnSet(TokensIn, S)
  BY <1>2, <1>3, ItemsAreSummed, SumOfSame
<1>6. ASSUME NEW d \in Conv
      PROVE  TokensOf(d)' = SumFunctionOnSet(TokensIn', OfConversation(d)')
  <2>1. TokensOf(d)' = IF d = c THEN 0 ELSE TokensOf(d)
    BY <1>1 DEF TokensOf, Drop
  <2>2. CASE d = c
    BY <1>4, <2>1, <2>2, SumOfNone
  <2>3. CASE d # c
    <3>1. OfConversation(d)' = OfConversation(d)
      BY <1>4, <2>3
    <3>2. OfConversation(d) \in SUBSET DOMAIN items'
      BY <3>1 DEF OfConversation
    <3>3. TokensOf(d) = SumFunctionOnSet(TokensIn, OfConversation(d))
      BY DEF ContextInv
    <3> QED
      BY <1>5, <2>1, <2>3, <3>1, <3>2, <3>3
  <2> QED
    BY <2>2, <2>3
<1>7. total.tokens >= SumFunctionOnSet(TokensIn', DOMAIN items') /\ total.items >= Cardinality(DOMAIN items')
  <2>1. /\ total.items \in Nat /\ total.tokens \in Nat
        /\ total.items >= Cardinality(DOMAIN items)
        /\ total.tokens >= SumFunctionOnSet(TokensIn, DOMAIN items)
    BY DEF ContextInv
  <2>2. /\ SumFunctionOnSet(TokensIn, DOMAIN items') \leq SumFunctionOnSet(TokensIn, DOMAIN items)
        /\ SumFunctionOnSet(TokensIn, DOMAIN items') \in Nat
        /\ SumFunctionOnSet(TokensIn, DOMAIN items) \in Nat
    BY <1>3, ItemsAreSummed
  <2>3. SumFunctionOnSet(TokensIn', DOMAIN items') = SumFunctionOnSet(TokensIn, DOMAIN items')
    BY <1>5
  <2> QED
    BY <1>3, <2>1, <2>2, <2>3
<1>8. /\ DOMAIN copies' = DOMAIN items' /\ DOMAIN items' \subseteq issued'
      /\ conversations_' \subseteq Conv \cap issued'
      /\ total' \in [items : Nat, tokens : Nat] /\ total' = total
  BY <1>1, <1>2 DEF ContextInv
<1>9. ASSUME NEW j \in DOMAIN items'
      PROVE  items'[j].conv \in Conv \cap issued' /\ items'[j].tokens \in Nat
  BY <1>1, <1>2, <1>3, <1>9 DEF ContextInv
<1> QED
  BY <1>3, <1>6, <1>7, <1>8, <1>9 DEF ContextInv

\* startConversation: no item is of a conversation whose id is new.
LEMMA StartKeeps ==
    ASSUME ContextInv, NEW t, StartConversation(t)
    PROVE  ContextInv'
<1>1. PICK c \in Conv \ issued :
        /\ conversations_' = conversations_ \cup {c}
        /\ tokens' = Put(tokens, c, 0)
        /\ issued' = issued \cup {c}
        /\ UNCHANGED <<items, copies, total>>
  BY DEF StartConversation
<1>2. ASSUME NEW d \in Conv
      PROVE  TokensOf(d)' = SumFunctionOnSet(TokensIn', OfConversation(d)')
  <2>1. TokensIn' = TokensIn /\ OfConversation(d)' = OfConversation(d)
    BY <1>1 DEF TokensIn, OfConversation
  <2>2. TokensOf(d)' = IF d = c THEN 0 ELSE TokensOf(d)
    BY <1>1 DEF TokensOf, Put
  <2>3. TokensOf(d) = SumFunctionOnSet(TokensIn, OfConversation(d))
    BY DEF ContextInv
  <2>4. d = c => OfConversation(d) = {}
    BY <1>1 DEF OfConversation, ContextInv
  <2> QED
    BY <2>1, <2>2, <2>3, <2>4, SumOfNone
<1>3. TokensIn' = TokensIn
  BY <1>1 DEF TokensIn
<1> QED
  BY <1>1, <1>2, <1>3 DEF ContextInv

\* The counts of items and tokens are those of the items, for any number of
\* threads, conversations, items and tokens, and in either build: nothing that
\* removeContextItem subtracts is more than what was counted.
THEOREM TokensMatchHolds == contextSpec => []TokensMatch
<1>1. contextInit /\ relockInit => ContextInv
  <2> SUFFICES ASSUME contextInit PROVE ContextInv
    OBVIOUS
  <2>1. DOMAIN items = {} /\ DOMAIN copies = {} /\ DOMAIN tokens = {}
    BY DEF contextInit
  <2>2. \A c \in Conv : OfConversation(c) = {} /\ TokensOf(c) = 0
    BY <2>1 DEF OfConversation, TokensOf
  <2>3. SumFunctionOnSet(TokensIn, {}) = 0 /\ IsFiniteSet({}) /\ Cardinality({}) = 0
    BY SumOfNone, FS_EmptySet
  <2>4. total.items = 0 /\ total.tokens = 0 /\ total \in [items : Nat, tokens : Nat]
        /\ conversations_ = {} /\ issued = {}
    BY DEF contextInit
  <2>5. /\ IsFiniteSet(DOMAIN items) /\ Cardinality(DOMAIN items) = 0
        /\ SumFunctionOnSet(TokensIn, DOMAIN items) = 0
        /\ \A c \in Conv : TokensOf(c) = SumFunctionOnSet(TokensIn, OfConversation(c))
    BY <2>1, <2>2, <2>3, Zenon
  <2>6. /\ total.items >= Cardinality(DOMAIN items)
        /\ total.tokens >= SumFunctionOnSet(TokensIn, DOMAIN items)
    BY <2>4, <2>5
  <2>7. \A i \in DOMAIN items : items[i].conv \in Conv \cap issued /\ items[i].tokens \in Nat
    BY <2>1
  <2>8. /\ DOMAIN copies = DOMAIN items /\ DOMAIN items \subseteq issued
        /\ conversations_ \subseteq Conv \cap issued
    BY <2>1, <2>4
  <2> QED
    BY <2>4, <2>5, <2>6, <2>7, <2>8, Zenon DEF ContextInv
<1>2. ContextInv /\ [contextNext]_<<contextVars, relock>> => ContextInv'
  <2> SUFFICES ASSUME ContextInv, [contextNext]_<<contextVars, relock>> PROVE ContextInv'
    OBVIOUS
  <2>1. ASSUME UNCHANGED content PROVE ContextInv'
    <3>1. TokensIn' = TokensIn /\ \A c : OfConversation(c)' = OfConversation(c) /\ TokensOf(c)' = TokensOf(c)
      BY <2>1 DEF content, TokensIn, OfConversation, TokensOf
    <3> QED
      BY <2>1, <3>1 DEF content, ContextInv
  <2>2. ASSUME NEW t \in Caller, Operation(t) \/ Relock(t) \/ Unlock(t) PROVE ContextInv'
    <3>1. CASE StartConversation(t) \/ EndConversation(t) \/ RemoveContextItem(t)
      BY <3>1, StartKeeps, EndKeeps, RemoveKeeps
    <3>2. CASE AddMessage(t) \/ AddContextItem(t)
      <4>1. conversations_ \subseteq Conv \cap issued
        BY DEF ContextInv
      <4> QED
        BY <3>2, <4>1, InsertKeeps DEF AddMessage, AddContextItem
    <3>3. CASE PinContextItem(t)
      <4>1. DOMAIN copies' = DOMAIN copies /\ UNCHANGED <<conversations_, items, tokens, total, issued>>
        BY <3>3 DEF PinContextItem
      <4>2. TokensIn' = TokensIn /\ \A c : OfConversation(c)' = OfConversation(c) /\ TokensOf(c)' = TokensOf(c)
        BY <4>1 DEF TokensIn, OfConversation, TokensOf
      <4> QED
        BY <4>1, <4>2 DEF ContextInv
    <3>4. CASE UpdateState(t) \/ ReadContext(t) \/ BuildPrompt(t) \/ Relock(t) \/ Unlock(t)
      BY <2>1, <3>4 DEF UpdateState, ReadContext, BuildPrompt, Relock, Unlock
    <3> QED
      BY <2>2, <3>1, <3>2, <3>3, <3>4 DEF Operation
  <2> QED
    BY <2>1, <2>2 DEF contextNext, contextStep, contextVars
<1>3. ContextInv => TokensMatch
  <2>1. DOMAIN TokensIn = DOMAIN items
    BY DEF TokensIn
  <2> QED
    BY <2>1 DEF ContextInv, TokensMatch, SumFunction
<1> QED
  BY <1>1, <1>2, <1>3, PTL DEF contextSpec

----------------------------------------------------------------------------
(* The byte count of the memory manager                                    *)

\* The list holds no key twice, and only keys of the cache; a key it does not
\* hold takes no room; the count covers what the cache holds.
Covers(cache, order, used) ==
    /\ IsFiniteSet(DOMAIN cache) /\ \A k \in DOMAIN cache : cache[k].size \in Nat
    /\ order \in Seq(DOMAIN cache) /\ IsInjective(order)
    /\ \A k \in DOMAIN cache \ ToSet(order) : cache[k].size = 0
    /\ used \in Nat /\ used >= SizeIn(cache, DOMAIN cache)

UsageInv ==
    /\ Covers(entries, access_order, usage)
    /\ file \notin {NoFile, Torn} =>
          IsFiniteSet(DOMAIN file) /\ \A k \in DOMAIN file : file[k].size \in Nat

LEMMA SizesAre ==
    ASSUME NEW cache, IsFiniteSet(DOMAIN cache), \A k \in DOMAIN cache : cache[k].size \in Nat
    PROVE  /\ Values(Sizes(cache), DOMAIN cache)
           /\ \A k \in DOMAIN cache : Sizes(cache)[k] = cache[k].size
           /\ \A keys \in SUBSET DOMAIN cache : IsFiniteSet(keys) /\ SizeIn(cache, keys) \in Nat
<1>1. Values(Sizes(cache), DOMAIN cache) /\ \A k \in DOMAIN cache : Sizes(cache)[k] = cache[k].size
  BY DEF Sizes, Values
<1>2. ASSUME NEW keys \in SUBSET DOMAIN cache PROVE IsFiniteSet(keys) /\ SizeIn(cache, keys) \in Nat
  <2>1. IsFiniteSet(keys) /\ Values(Sizes(cache), keys)
    BY <1>1, FS_Subset DEF Values
  <2> QED
    BY <2>1, SumIsNatural DEF SizeIn
<1> QED
  BY <1>1, <1>2

LEMMA SizeWithout ==
    ASSUME NEW cache, IsFiniteSet(DOMAIN cache), \A x \in DOMAIN cache : cache[x].size \in Nat,
           NEW k \in DOMAIN cache
    PROVE  SizeIn(cache, DOMAIN cache) = SizeIn(cache, DOMAIN cache \ {k}) + cache[k].size
<1> DEFINE D == DOMAIN cache
           f == Sizes(cache)
<1>1. Values(f, D) /\ f[k] = cache[k].size
  BY SizesAre
<1>2. IsFiniteSet(D) /\ k \in D
  OBVIOUS
<1> HIDE DEF D, f
<1>3. SumFunctionOnSet(f, D) = SumFunctionOnSet(f, D \ {k}) + f[k]
  BY <1>1, <1>2, SumWithout
<1> QED
  BY <1>1, <1>3 DEF D, f, SizeIn

\* Entries taken out take their sizes out.
LEMMA SizeOfRest ==
    ASSUME NEW cache, IsFiniteSet(DOMAIN cache), \A k \in DOMAIN cache : cache[k].size \in Nat,
           NEW keys \in SUBSET DOMAIN cache
    PROVE  SizeIn(cache, DOMAIN cache)
             = SizeIn(Drop(cache, keys), DOMAIN cache \ keys) + SizeIn(cache, keys)
<1>1. Values(Sizes(cache), DOMAIN cache)
  BY SizesAre
<1>2. SizeIn(cache, DOMAIN cache) = SizeIn(cache, DOMAIN cache \ keys) + SizeIn(cache, keys)
  BY <1>1, SumOfParts DEF SizeIn
<1>3. \A k \in DOMAIN cache \ keys : Sizes(cache)[k] = Sizes(Drop(cache, keys))[k]
  BY DEF Sizes, Drop
<1>4. SizeIn(cache, DOMAIN cache \ keys) = SizeIn(Drop(cache, keys), DOMAIN cache \ keys)
  <2>1. IsFiniteSet(DOMAIN cache \ keys)
    BY FS_Subset
  <2> QED
    BY <1>3, <2>1, SumOfSame DEF SizeIn
<1> QED
  BY <1>2, <1>4

\* What is forgotten leaves the entries, the list and the count together.
LEMMA ForgottenIsCovered ==
    ASSUME NEW cache, NEW order, NEW used, Covers(cache, order, used),
           NEW keys \in SUBSET DOMAIN cache, NEW rest,
           rest \in Seq(DOMAIN cache), IsInjective(rest), ToSet(rest) = ToSet(order) \ keys
    PROVE  Covers(Drop(cache, keys), rest, used - SizeIn(cache, keys))
<1> DEFINE left == Drop(cache, keys)
<1>1. DOMAIN left = DOMAIN cache \ keys /\ \A k \in DOMAIN left : left[k] = cache[k]
  BY DEF Drop
<1>2. IsFiniteSet(DOMAIN cache) /\ \A k \in DOMAIN cache : cache[k].size \in Nat
  BY DEF Covers
<1> HIDE DEF left
<1>3. IsFiniteSet(DOMAIN left) /\ \A k \in DOMAIN left : left[k].size \in Nat
  BY <1>1, <1>2, FS_Subset
<1>4. rest \in Seq(DOMAIN left)
  <2>1. \A i \in 1..Len(rest) : rest[i] \in DOMAIN left
    BY <1>1 DEF ToSet
  <2> QED
    BY <2>1
<1>5. \A k \in DOMAIN left \ ToSet(rest) : left[k].size = 0
  BY <1>1 DEF Covers
<1>6. SizeIn(cache, DOMAIN cache) = SizeIn(left, DOMAIN left) + SizeIn(cache, keys)
  BY <1>1, <1>2, SizeOfRest DEF left
<1>7. SizeIn(cache, keys) \in Nat /\ SizeIn(left, DOMAIN left) \in Nat
  BY <1>2, <1>3, SizesAre
<1>8. used \in Nat /\ used >= SizeIn(cache, DOMAIN cache)
  BY DEF Covers
<1>9. used - SizeIn(cache, keys) \in Nat /\ used - SizeIn(cache, keys) >= SizeIn(left, DOMAIN left)
  BY <1>6, <1>7, <1>8
<1>10. Covers(left, rest, used - SizeIn(cache, keys))
  BY <1>3, <1>4, <1>5, <1>9 DEF Covers
<1> QED
  BY <1>10 DEF left

\* An eviction forgets the keys at the end of the list.
LEMMA EvictedIsCovered ==
    ASSUME NEW cache, NEW order, NEW used, NEW max, Covers(cache, order, used)
    PROVE  LET e == Evicted(cache, order, used, max)
           IN  Covers(e.entries, e.order, e.usage)
<1> DEFINE tail(n) == {order[i] : i \in (Len(order) - n + 1)..Len(order)}
           left(n) == used - SizeIn(cache, tail(n))
           Enough == {i \in 0..Len(order) : left(i) <= max \/ i = Len(order)}
<1>1. order \in Seq(DOMAIN cache) /\ IsInjective(order) /\ Len(order) \in Nat
  BY DEF Covers
<1>2. PICK n \in 0..Len(order) : n = Min(Enough)
  <2>1. Enough \in SUBSET Nat /\ Len(order) \in Enough
    BY <1>1
  <2>2. Enough \in SUBSET (0..Len(order))
    OBVIOUS
  <2> HIDE DEF Enough
  <2>3. \E x \in Enough : \A y \in Enough : <<y, x>> \notin OpToRel(<, Nat)
    BY <2>1, NatLessThanWellFounded, WFMin
  <2>4. \E x \in Enough : \A y \in Enough : ~(y < x)
    BY <2>1, <2>3 DEF OpToRel
  <2>5. \E x \in Enough : \A y \in Enough : x =< y
    BY <2>1, <2>4
  <2>6. Min(Enough) \in Enough
    BY <2>5 DEF Min
  <2> QED
    BY <2>2, <2>6
<1>3. Evicted(cache, order, used, max)
        = [entries |-> Drop(cache, tail(n)), usage |-> left(n),
           order |-> SubSeq(order, 1, Len(order) - n)]
  BY <1>2 DEF Evicted
<1> HIDE DEF Enough
<1> DEFINE rest == SubSeq(order, 1, Len(order) - n)
<1>4. /\ rest \in Seq(DOMAIN cache) /\ Len(rest) = Len(order) - n
      /\ \A i \in 1..(Len(order) - n) : rest[i] = order[i]
  BY <1>1, <1>2
<1>5. tail(n) \in SUBSET DOMAIN cache
  BY <1>1, <1>2
<1>6. DOMAIN rest = 1..(Len(order) - n) /\ DOMAIN order = 1..Len(order)
  BY <1>1, <1>4
<1> HIDE DEF rest
<1>7. IsInjective(rest)
  BY <1>1, <1>2, <1>4, <1>6 DEF IsInjective
<1>8. ToSet(rest) = ToSet(order) \ tail(n)
  <2>1. ASSUME NEW x \in ToSet(rest) PROVE x \in ToSet(order) \ tail(n)
    <3>1. PICK i \in 1..(Len(order) - n) : x = order[i]
      BY <2>1, <1>4, <1>6 DEF ToSet
    <3>2. i \in 1..Len(order) /\ \A j \in (Len(order) - n + 1)..Len(order) : j \in 1..Len(order) /\ j # i
      BY <1>1, <1>2
    <3>3. \A j \in (Len(order) - n + 1)..Len(order) : order[j] # order[i]
      BY <3>2, <1>1, <1>6 DEF IsInjective
    <3> QED
      BY <3>1, <3>2, <3>3, <1>6 DEF ToSet
  <2>2. ASSUME NEW x \in ToSet(order) \ tail(n) PROVE x \in ToSet(rest)
    <3>1. PICK i \in 1..Len(order) : x = order[i]
      BY <2>2, <1>6 DEF ToSet
    <3>2. i \notin (Len(order) - n + 1)..Len(order)
      BY <2>2, <3>1
    <3>3. i \in 1..(Len(order) - n)
      BY <3>1, <3>2, <1>1, <1>2
    <3> QED
      BY <3>1, <3>3, <1>4, <1>6 DEF ToSet
  <2> QED
    BY <2>1, <2>2
<1> HIDE DEF tail
<1>9. Covers(Drop(cache, tail(n)), rest, left(n))
  BY <1>4, <1>5, <1>7, <1>8, ForgottenIsCovered
<1> QED
  BY <1>3, <1>9 DEF rest

\* A key of the cache comes to the front of the list, where it was or not.
LEMMA FrontIsCovered ==
    ASSUME NEW cache, NEW order, NEW used, NEW k \in DOMAIN cache,
           IsFiniteSet(DOMAIN cache), \A x \in DOMAIN cache : cache[x].size \in Nat,
           order \in Seq(DOMAIN cache), IsInjective(order),
           \A x \in DOMAIN cache \ ToSet(order) : x = k \/ cache[x].size = 0,
           used \in Nat, used >= SizeIn(cache, DOMAIN cache)
    PROVE  Covers(cache, ToFront(order, k), used)
<1> DEFINE rest == Erased(order, {k})
           front == <<k>> \o rest
<1>2. rest \in Seq(DOMAIN cache) /\ IsInjective(rest) /\ ToSet(rest) = ToSet(order) \ {k}
  BY ErasedLeaves
<1> HIDE DEF rest
<1>3. /\ front \in Seq(DOMAIN cache) /\ Len(rest) \in Nat
      /\ DOMAIN front = 1..(Len(rest) + 1) /\ DOMAIN rest = 1..Len(rest)
      /\ front[1] = k /\ \A i \in 2..(Len(rest) + 1) : front[i] = rest[i - 1]
  BY <1>2
<1> HIDE DEF front
<1>4. \A i \in 2..(Len(rest) + 1) : i - 1 \in DOMAIN rest /\ front[i] = rest[i - 1]
  BY <1>3
<1>5. \A i \in DOMAIN front : i = 1 \/ i \in 2..(Len(rest) + 1)
  BY <1>3
<1>6. \A i \in DOMAIN rest : rest[i] # k
  BY <1>2 DEF ToSet
<1>7. IsInjective(front)
  <2> SUFFICES ASSUME NEW i \in DOMAIN front, NEW j \in DOMAIN front, front[i] = front[j]
               PROVE  i = j
    BY DEF IsInjective
  <2>1. CASE i = 1 \/ j = 1
    BY <2>1, <1>3, <1>4, <1>5, <1>6
  <2>2. CASE i # 1 /\ j # 1
    <3>1. i - 1 = j - 1
      BY <2>2, <1>2, <1>4, <1>5 DEF IsInjective
    <3> QED
      BY <3>1, <1>3
  <2> QED
    BY <2>1, <2>2
<1>8. ToSet(order) \cup {k} \subseteq ToSet(front)
  <2>0. 1 \in DOMAIN front /\ front[1] = k
    BY <1>3
  <2> SUFFICES ASSUME NEW x \in ToSet(order), x # k PROVE x \in ToSet(front)
    BY <2>0 DEF ToSet
  <2>1. PICK i \in DOMAIN rest : rest[i] = x
    BY <1>2 DEF ToSet
  <2>2. i + 1 \in 2..(Len(rest) + 1) /\ (i + 1) - 1 = i /\ i + 1 \in DOMAIN front
    BY <1>3
  <2>3. front[i + 1] = x
    BY <1>3, <2>1, <2>2
  <2> QED
    BY <2>2, <2>3 DEF ToSet
<1>9. Covers(cache, front, used)
  BY <1>3, <1>7, <1>8 DEF Covers
<1> QED
  BY <1>9 DEF front, rest, ToFront

\* The count of a cache that differs from another in one entry.
LEMMA SizeWithOne ==
    ASSUME NEW cache, NEW e, NEW k,
           IsFiniteSet(DOMAIN cache), \A x \in DOMAIN cache : cache[x].size \in Nat, e.size \in Nat
    PROVE  LET old == IF k \in DOMAIN cache THEN cache[k].size ELSE 0
           IN  /\ IsFiniteSet(DOMAIN Put(cache, k, e))
               /\ \A x \in DOMAIN Put(cache, k, e) : Put(cache, k, e)[x].size \in Nat
               /\ old \in Nat
               /\ SizeIn(Put(cache, k, e), DOMAIN Put(cache, k, e)) + old
                    = SizeIn(cache, DOMAIN cache) + e.size
<1> DEFINE new == Put(cache, k, e)
           D == DOMAIN cache
           R == DOMAIN cache \ {k}
<1>1. DOMAIN new = D \cup {k} /\ new[k] = e /\ \A x \in R : new[x] = cache[x]
  BY DEF Put
<1> HIDE DEF new
<1>2. IsFiniteSet(DOMAIN new) /\ IsFiniteSet(R)
  BY <1>1, FS_AddElement, FS_Subset
<1>3. \A x \in DOMAIN new : new[x].size \in Nat
  BY <1>1
<1>4. Values(Sizes(cache), D) /\ Values(Sizes(new), DOMAIN new)
  BY <1>2, <1>3, SizesAre
<1>5. /\ \A x \in D : Sizes(cache)[x] = cache[x].size
      /\ \A x \in DOMAIN new : Sizes(new)[x] = new[x].size
  BY DEF Sizes
<1>6. SizeIn(new, R) = SizeIn(cache, R)
  <2>1. \A x \in R : Sizes(new)[x] = Sizes(cache)[x]
    BY <1>1, <1>5
  <2> QED
    BY <2>1, <1>2, SumOfSame DEF SizeIn
<1>7. SizeIn(new, DOMAIN new) = SizeIn(new, R) + e.size
  <2>1. k \notin R /\ DOMAIN new = R \cup {k} /\ Sizes(new)[k] = e.size
    BY <1>1, <1>5
  <2> HIDE DEF R
  <2> QED
    BY <2>1, <1>2, <1>4, SumWithOneMore DEF SizeIn
<1>8. SizeIn(cache, R) \in Nat
  BY SizesAre
<1>9. CASE k \in D
  <2>1. SizeIn(cache, D) = SizeIn(cache, R) + cache[k].size /\ cache[k].size \in Nat
    BY <1>9, SizeWithout
  <2>2. SizeIn(new, DOMAIN new) + cache[k].size = SizeIn(cache, D) + e.size
    BY <2>1, <1>6, <1>7, <1>8
  <2> QED
    BY <2>1, <2>2, <1>9, <1>2, <1>3 DEF new
<1>10. CASE k \notin D
  <2>1. SizeIn(cache, R) = SizeIn(cache, D)
    BY <1>10
  <2>2. SizeIn(new, DOMAIN new) + 0 = SizeIn(cache, D) + e.size
    BY <2>1, <1>6, <1>7, <1>8
  <2> QED
    BY <2>2, <1>10, <1>2, <1>3 DEF new
<1> QED
  BY <1>9, <1>10

\* An entry of a key is written, counted, and its key comes to the front.
LEMMA WrittenIsCovered ==
    ASSUME NEW cache, NEW order, NEW used, Covers(cache, order, used), NEW k, NEW e, e.size \in Nat
    PROVE  LET old == IF k \in DOMAIN cache THEN cache[k].size ELSE 0
           IN  Covers(Put(cache, k, e), ToFront(order, k), used - old + e.size)
<1> DEFINE new == Put(cache, k, e)
           old == IF k \in DOMAIN cache THEN cache[k].size ELSE 0
           more == used - old + e.size
<1>1. DOMAIN new = DOMAIN cache \cup {k} /\ \A x \in DOMAIN cache \ {k} : new[x] = cache[x]
  BY DEF Put
<1>2. /\ IsFiniteSet(DOMAIN cache) /\ \A x \in DOMAIN cache : cache[x].size \in Nat
      /\ order \in Seq(DOMAIN cache) /\ IsInjective(order)
      /\ \A x \in DOMAIN cache \ ToSet(order) : cache[x].size = 0
      /\ used \in Nat /\ used >= SizeIn(cache, DOMAIN cache)
  BY DEF Covers
<1>3. /\ IsFiniteSet(DOMAIN new) /\ \A x \in DOMAIN new : new[x].size \in Nat
      /\ old \in Nat
      /\ SizeIn(new, DOMAIN new) + old = SizeIn(cache, DOMAIN cache) + e.size
  BY <1>2, SizeWithOne
<1> HIDE DEF new
<1>4. SizeIn(new, DOMAIN new) \in Nat /\ SizeIn(cache, DOMAIN cache) \in Nat
  BY <1>2, <1>3, SizesAre
<1>5. old \leq SizeIn(cache, DOMAIN cache)
  <2>1. CASE k \in DOMAIN cache
    <3>1. SizeIn(cache, DOMAIN cache) = SizeIn(cache, DOMAIN cache \ {k}) + cache[k].size
      BY <2>1, <1>2, SizeWithout
    <3>2. SizeIn(cache, DOMAIN cache \ {k}) \in Nat
      BY <1>2, SizesAre
    <3> QED
      BY <2>1, <3>1, <3>2, <1>2
  <2>2. CASE k \notin DOMAIN cache
    BY <2>2, <1>4
  <2> QED
    BY <2>1, <2>2
<1> HIDE DEF old
<1>6. more \in Nat /\ more >= SizeIn(new, DOMAIN new)
  BY <1>2, <1>3, <1>4, <1>5
<1> HIDE DEF more
<1>7. order \in Seq(DOMAIN new) /\ k \in DOMAIN new
  BY <1>1, <1>2
<1>8. \A x \in DOMAIN new \ ToSet(order) : x = k \/ new[x].size = 0
  BY <1>1, <1>2
<1>9. Covers(new, ToFront(order, k), more)
  BY <1>2, <1>3, <1>6, <1>7, <1>8, FrontIsCovered
<1> QED
  BY <1>9 DEF new, more, old

\* A key of the cache is used.
LEMMA TouchedIsCovered ==
    ASSUME NEW cache, NEW order, NEW used, Covers(cache, order, used), NEW k \in DOMAIN cache,
           NEW e, e.size = cache[k].size
    PROVE  Covers([cache EXCEPT ![k] = e], ToFront(order, k), used)
<1>1. [cache EXCEPT ![k] = e] = Put(cache, k, e)
  BY DEF Put
<1>2. used \in Nat /\ cache[k].size \in Nat /\ e.size \in Nat
  BY DEF Covers
<1>3. used - cache[k].size + e.size = used
  BY <1>2
<1>4. Covers(Put(cache, k, e), ToFront(order, k), used - cache[k].size + e.size)
  BY <1>2, WrittenIsCovered
<1> QED
  BY <1>1, <1>3, <1>4

\* operator[] of a key that is not there creates an entry without a size.
LEMMA GhostIsCovered ==
    ASSUME NEW cache, NEW order, NEW used, Covers(cache, order, used), NEW k, k \notin DOMAIN cache
    PROVE  Covers(Put(cache, k, Ghost), order, used)
<1> DEFINE new == Put(cache, k, Ghost)
<1>1. /\ DOMAIN new = DOMAIN cache \cup {k} /\ new[k].size = 0 /\ Ghost.size = 0
      /\ \A x \in DOMAIN cache : new[x] = cache[x]
  BY DEF Put, Ghost
<1>2. /\ IsFiniteSet(DOMAIN cache) /\ \A x \in DOMAIN cache : cache[x].size \in Nat
      /\ order \in Seq(DOMAIN cache) /\ IsInjective(order)
      /\ \A x \in DOMAIN cache \ ToSet(order) : cache[x].size = 0
      /\ used \in Nat /\ used >= SizeIn(cache, DOMAIN cache)
  BY DEF Covers
<1>3. /\ IsFiniteSet(DOMAIN new) /\ \A x \in DOMAIN new : new[x].size \in Nat
      /\ SizeIn(new, DOMAIN new) + 0 = SizeIn(cache, DOMAIN cache) + 0
  BY <1>1, <1>2, SizeWithOne
<1> HIDE DEF new
<1>4. SizeIn(new, DOMAIN new) = SizeIn(cache, DOMAIN cache)
  BY <1>2, <1>3, SizesAre
<1>5. order \in Seq(DOMAIN new) /\ \A x \in DOMAIN new \ ToSet(order) : new[x].size = 0
  BY <1>1, <1>2
<1>6. Covers(new, order, used)
  BY <1>2, <1>3, <1>4, <1>5 DEF Covers
<1> QED
  BY <1>6 DEF new

\* The entries of a file replace those of their keys and come to the front.
LEMMA ImportIsCovered ==
    ASSUME NEW cache, NEW order, NEW used, Covers(cache, order, used),
           NEW new, IsFiniteSet(DOMAIN new), \A k \in DOMAIN new : new[k].size \in Nat,
           NEW keys \in SetToSeqs(DOMAIN new)
    PROVE  Covers(Update(cache, new), keys \o Erased(order, DOMAIN new),
                  used + SizeIn(new, DOMAIN new))
<1> DEFINE all == Update(cache, new)
           rest == Erased(order, DOMAIN new)
           list == keys \o rest
           n == Cardinality(DOMAIN new)
           D == DOMAIN cache \ DOMAIN new
<1>1. /\ IsFiniteSet(DOMAIN cache) /\ \A x \in DOMAIN cache : cache[x].size \in Nat
      /\ order \in Seq(DOMAIN cache) /\ IsInjective(order)
      /\ \A x \in DOMAIN cache \ ToSet(order) : cache[x].size = 0
      /\ used \in Nat /\ used >= SizeIn(cache, DOMAIN cache)
  BY DEF Covers
<1>2. /\ DOMAIN all = D \cup DOMAIN new
      /\ \A x \in D : all[x] = cache[x]
      /\ \A x \in DOMAIN new : all[x] = new[x]
  BY DEF Update
<1> HIDE DEF all
<1>3. IsFiniteSet(D) /\ IsFiniteSet(DOMAIN all) /\ DOMAIN all \ DOMAIN new = D
  <2>1. IsFiniteSet(D)
    BY <1>1, FS_Subset
  <2>2. IsFiniteSet(D \cup DOMAIN new)
    BY <2>1, FS_Union
  <2> QED
    BY <2>1, <2>2, <1>2
<1>4. \A x \in DOMAIN all : all[x].size \in Nat
  BY <1>1, <1>2
<1>5. /\ SizeIn(cache, D) \in Nat /\ SizeIn(cache, D) \leq SizeIn(cache, DOMAIN cache)
      /\ SizeIn(cache, DOMAIN cache) \in Nat
  <2>1. Values(Sizes(cache), DOMAIN cache)
    BY <1>1, SizesAre
  <2>2. SizeIn(cache, D) \leq SizeIn(cache, DOMAIN cache)
    BY <2>1, <1>1, SumOfPart DEF SizeIn
  <2> QED
    BY <2>2, <1>1, SizesAre
<1>6. SizeIn(new, DOMAIN new) \in Nat
  BY SizesAre
<1>7. SizeIn(all, D) = SizeIn(cache, D)
  <2>1. \A x \in D : Sizes(all)[x] = Sizes(cache)[x]
    BY <1>2 DEF Sizes
  <2> QED
    BY <2>1, <1>3, SumOfSame DEF SizeIn
<1>8. SizeIn(all, DOMAIN new) = SizeIn(new, DOMAIN new)
  <2>1. \A x \in DOMAIN new : Sizes(all)[x] = Sizes(new)[x]
    BY <1>2 DEF Sizes
  <2> QED
    BY <2>1, SumOfSame DEF SizeIn
<1>9. SizeIn(all, DOMAIN all) = SizeIn(all, D) + SizeIn(all, DOMAIN new)
  <2>1. Values(Sizes(all), DOMAIN all)
    BY <1>3, <1>4, SizesAre
  <2>2. DOMAIN new \in SUBSET DOMAIN all
    BY <1>2
  <2>3. SizeIn(all, DOMAIN all) = SizeIn(all, DOMAIN all \ DOMAIN new) + SizeIn(all, DOMAIN new)
    BY <2>1, <2>2, <1>3, SumOfParts DEF SizeIn
  <2> QED
    BY <2>3, <1>3
<1>10. /\ used + SizeIn(new, DOMAIN new) \in Nat
       /\ used + SizeIn(new, DOMAIN new) >= SizeIn(all, DOMAIN all)
  BY <1>1, <1>5, <1>6, <1>7, <1>8, <1>9
<1>11. /\ keys \in [1..n -> DOMAIN new] /\ n \in Nat
       /\ \A i, j \in 1..n : i # j => keys[i] # keys[j]
  BY FS_CardinalityType DEF SetToSeqs
<1>12. \A x \in DOMAIN new : \E i \in 1..n : keys[i] = x
  <2>1. /\ IsFiniteSet(1..n) /\ Cardinality(1..n) = n
    BY <1>11, FS_Interval
  <2>2. keys \in Injection(1..n, DOMAIN new)
    BY <1>11 DEF Injection, IsInjective
  <2>3. keys \in Surjection(1..n, DOMAIN new)
    BY <2>1, <2>2, FS_Injection DEF Surjection
  <2> QED
    BY <2>3 DEF Surjection
<1>13. rest \in Seq(DOMAIN cache) /\ IsInjective(rest) /\ ToSet(rest) = ToSet(order) \ DOMAIN new
  BY <1>1, ErasedLeaves
<1> HIDE DEF rest, n
<1>14. /\ DOMAIN rest = 1..Len(rest) /\ Len(rest) \in Nat
       /\ \A i \in 1..Len(rest) : rest[i] \in D
  <2>1. DOMAIN rest = 1..Len(rest) /\ Len(rest) \in Nat
    BY <1>13
  <2>2. \A i \in 1..Len(rest) : rest[i] \in DOMAIN cache /\ rest[i] \in ToSet(rest)
    BY <1>13, <2>1 DEF ToSet
  <2> QED
    BY <2>1, <2>2, <1>13
<1>15. /\ list \in Seq(DOMAIN all) /\ DOMAIN list = 1..(n + Len(rest))
       /\ \A i \in 1..n : list[i] = keys[i]
       /\ \A i \in (n + 1)..(n + Len(rest)) : list[i] = rest[i - n]
  <2>1. keys \in Seq(DOMAIN all) /\ Len(keys) = n
    BY <1>2, <1>11
  <2>2. rest \in Seq(DOMAIN all)
    BY <1>2, <1>14, <1>13
  <2> QED
    BY <2>1, <2>2, <1>14
<1> HIDE DEF list
<1>16. \A i \in DOMAIN list : \/ i \in 1..n /\ list[i] = keys[i] /\ list[i] \in DOMAIN new
                              \/ /\ i \notin 1..n /\ i - n \in 1..Len(rest)
                                 /\ list[i] = rest[i - n] /\ list[i] \in D
  BY <1>11, <1>14, <1>15
<1>17. IsInjective(list)
  <2> SUFFICES ASSUME NEW i \in DOMAIN list, NEW j \in DOMAIN list, list[i] = list[j]
               PROVE  i = j
    BY DEF IsInjective
  <2>1. CASE i \in 1..n
    <3>1. j \in 1..n /\ keys[i] = keys[j]
      BY <2>1, <1>16
    <3> QED
      BY <2>1, <3>1, <1>11
  <2>2. CASE i \notin 1..n
    <3>1. j \notin 1..n
      BY <2>2, <1>16
    <3>2. rest[i - n] = rest[j - n] /\ i - n \in 1..Len(rest) /\ j - n \in 1..Len(rest)
      BY <2>2, <3>1, <1>16
    <3>3. i - n = j - n
      BY <3>2, <1>13, <1>14 DEF IsInjective
    <3> QED
      BY <3>3, <1>11, <1>15
  <2> QED
    BY <2>1, <2>2
<1>18. DOMAIN new \cup ToSet(order) \subseteq ToSet(list)
  <2>1. ASSUME NEW x \in DOMAIN new PROVE x \in ToSet(list)
    <3>1. PICK i \in 1..n : keys[i] = x
      BY <1>12 DEF n
    <3>2. i \in DOMAIN list /\ list[i] = x
      BY <3>1, <1>11, <1>14, <1>15
    <3> QED
      BY <3>2 DEF ToSet
  <2>2. ASSUME NEW x \in ToSet(order) \ DOMAIN new PROVE x \in ToSet(list)
    <3>1. PICK i \in 1..Len(rest) : rest[i] = x
      BY <1>13, <1>14 DEF ToSet
    <3>2. i + n \in DOMAIN list /\ i + n \in (n + 1)..(n + Len(rest)) /\ (i + n) - n = i
      BY <1>11, <1>14, <1>15
    <3>3. list[i + n] = x
      BY <3>1, <3>2, <1>15
    <3> QED
      BY <3>2, <3>3 DEF ToSet
  <2> QED
    BY <2>1, <2>2
<1>19. \A x \in DOMAIN all \ ToSet(list) : all[x].size = 0
  BY <1>1, <1>2, <1>18
<1>20. Covers(all, list, used + SizeIn(new, DOMAIN new))
  BY <1>3, <1>4, <1>10, <1>15, <1>17, <1>19 DEF Covers
<1> QED
  BY <1>20 DEF all, list, rest

\* store: the entry is written and counted, evictions follow, and the entry of
\* operator[] may come after them.
LEMMA StoreIsCovered ==
    ASSUME UsageInv, NEW k, NEW v \in Value, NEW cat, Store(k, v, cat)
    PROVE  UsageInv'
<1> DEFINE old == IF k \in DOMAIN entries THEN entries[k] ELSE [Ghost EXCEPT !.count = 1]
           e == [value |-> v, category |-> cat, size |-> Size[v], count |-> old.count]
           c == Evicted(Put(entries, k, e), ToFront(access_order, k), usage - old.size + Size[v], limit)
<1>1. /\ Stored(k, v, cat) = c
      /\ file' = file
  BY DEF Stored, Store
<1>2. Size[v] \in Nat /\ e.size = Size[v]
  BY MemoryAssumption
<1>3. old.size = IF k \in DOMAIN entries THEN entries[k].size ELSE 0
  BY DEF Ghost
<1> HIDE DEF old
<1>4. Covers(Put(entries, k, e), ToFront(access_order, k), usage - old.size + e.size)
  <2> HIDE DEF e
  <2> QED
    BY <1>2, <1>3, WrittenIsCovered DEF UsageInv
<1>5. Covers(c.entries, c.order, c.usage)
  <2> HIDE DEF e
  <2> QED
    BY <1>2, <1>4, EvictedIsCovered
<1> HIDE DEF c
<1>6. PICK d : d = c
  OBVIOUS
<1>7. Become([d EXCEPT !.entries = IF k \in DOMAIN @ THEN @ ELSE Put(@, k, Ghost)])
  BY <1>1, <1>6 DEF Store
<1>8. d = [entries |-> d.entries, usage |-> d.usage, order |-> d.order]
  BY <1>6 DEF c, Evicted
<1>9. /\ entries' = (IF k \in DOMAIN d.entries THEN d.entries ELSE Put(d.entries, k, Ghost))
      /\ access_order' = d.order /\ usage' = d.usage
  BY <1>7, <1>8 DEF Become
<1>10. Covers(d.entries, d.order, d.usage)
  BY <1>5, <1>6
<1>11. Covers(entries', access_order', usage')
  BY <1>9, <1>10, GhostIsCovered
<1> QED
  BY <1>1, <1>11 DEF UsageInv

\* removal, clearing of a category and compaction.
LEMMA ForgetIsCovered ==
    ASSUME UsageInv, NEW keys \in SUBSET DOMAIN entries, Forget(keys), file' = file
    PROVE  UsageInv'
<1>1. access_order \in Seq(DOMAIN entries) /\ IsInjective(access_order)
  BY DEF UsageInv, Covers
<1>2. /\ Erased(access_order, keys) \in Seq(DOMAIN entries)
      /\ IsInjective(Erased(access_order, keys))
      /\ ToSet(Erased(access_order, keys)) = ToSet(access_order) \ keys
  BY <1>1, ErasedLeaves
<1>3. Covers(Drop(entries, keys), Erased(access_order, keys), usage - SizeIn(entries, keys))
  BY <1>2, ForgottenIsCovered DEF UsageInv
<1>4. /\ entries' = Drop(entries, keys) /\ access_order' = Erased(access_order, keys)
      /\ usage' = usage - SizeIn(entries, keys)
  BY DEF Forget
<1> QED
  BY <1>3, <1>4 DEF UsageInv

LEMMA TouchIsCovered ==
    ASSUME UsageInv, NEW k, Touch(k)
    PROVE  UsageInv'
<1>1. /\ k \in DOMAIN entries /\ entries' = [entries EXCEPT ![k] = Used(entries[k])]
      /\ access_order' = ToFront(access_order, k) /\ usage' = usage /\ file' = file
  BY DEF Touch
<1>2. Used(entries[k]).size = entries[k].size
  BY DEF Used
<1>3. Covers([entries EXCEPT ![k] = Used(entries[k])], ToFront(access_order, k), usage)
  BY <1>1, <1>2, TouchedIsCovered DEF UsageInv
<1> QED
  BY <1>1, <1>3 DEF UsageInv

LEMMA LimitIsCovered ==
    ASSUME UsageInv, NEW max, SetMemoryLimit(max)
    PROVE  UsageInv'
<1>1. PICK c : c = Evicted(entries, access_order, usage, max)
  OBVIOUS
<1>2. entries' = c.entries /\ access_order' = c.order /\ usage' = c.usage /\ file' = file
  BY <1>1 DEF SetMemoryLimit, Become
<1>3. Covers(c.entries, c.order, c.usage)
  BY <1>1, EvictedIsCovered DEF UsageInv
<1> QED
  BY <1>2, <1>3 DEF UsageInv

LEMMA LoadIsCovered ==
    ASSUME UsageInv, LoadFile, file' = file
    PROVE  UsageInv'
<1>1. CASE UNCHANGED <<cacheVars, imported>>
  BY <1>1 DEF cacheVars, UsageInv
<1>2. CASE has_path /\ file \notin {NoFile, Torn}
  <2>1. PICK keys \in SetToSeqs(DOMAIN file) :
          Become(Evicted(Update(entries, file), keys \o Erased(access_order, DOMAIN file),
                         usage + SizeIn(file, DOMAIN file), limit))
    BY <1>2 DEF LoadFile
  <2>2. Covers(Update(entries, file), keys \o Erased(access_order, DOMAIN file),
               usage + SizeIn(file, DOMAIN file))
    BY <1>2, ImportIsCovered DEF UsageInv
  <2>3. PICK c : c = Evicted(Update(entries, file), keys \o Erased(access_order, DOMAIN file),
                             usage + SizeIn(file, DOMAIN file), limit)
    OBVIOUS
  <2>4. Covers(c.entries, c.order, c.usage)
    BY <2>2, <2>3, EvictedIsCovered
  <2>5. entries' = c.entries /\ access_order' = c.order /\ usage' = c.usage
    BY <2>1, <2>3 DEF Become
  <2> QED
    BY <2>4, <2>5 DEF UsageInv
<1> QED
  BY <1>1, <1>2 DEF LoadFile

LEMMA NothingIsCovered == Covers(<<>>, <<>>, 0)
<1>1. DOMAIN <<>> = {} /\ ToSet(<<>>) = {} /\ IsInjective(<<>>)
  BY DEF ToSet, IsInjective
<1>2. IsFiniteSet({}) /\ SizeIn(<<>>, {}) = 0
  BY FS_EmptySet, SumOfNone DEF SizeIn
<1>3. <<>> \in Seq({})
  OBVIOUS
<1> QED
  BY <1>1, <1>2, <1>3 DEF Covers

LEMMA UsageStep == ASSUME UsageInv, [memNext]_managerVars PROVE UsageInv'
<1>1. CASE \E k \in Key : Touch(k)
  BY <1>1, TouchIsCovered
<1>2. CASE \E k \in Key : RemoveEntry(k)
  <2>1. PICK k : RemoveEntry(k)
    BY <1>2
  <2>2. {k} \in SUBSET DOMAIN entries /\ Forget({k}) /\ file' = file
    BY <2>1 DEF RemoveEntry
  <2> QED
    BY <2>2, ForgetIsCovered
<1>3. CASE \E k \in Key, v \in Value, cat \in Category :
              StorePlain(k, v, cat) \/ (v \in Semantic /\ StoreSemantic(k, v, cat))
  <2>1. PICK k \in Key, v \in Value, cat \in Category : Store(k, v, cat)
    BY <1>3 DEF StorePlain, StoreSemantic
  <2> QED
    BY <2>1, StoreIsCovered
<1>4. CASE Index \/ SetPersistencePath
  BY <1>4 DEF Index, SetPersistencePath, cacheVars, UsageInv
<1>5. CASE Compact
  <2>1. PICK stale \in SUBSET {k \in DOMAIN entries :
                                 entries[k].category = Session /\ entries[k].count < 2} :
          Forget(stale) /\ file' = file
    BY <1>5 DEF Compact
  <2>2. stale \in SUBSET DOMAIN entries
    OBVIOUS
  <2> QED
    BY <2>1, <2>2, ForgetIsCovered
<1>6. CASE Persist
  <2>1. file' = entries /\ UNCHANGED cacheVars
    BY <1>6 DEF Persist
  <2> QED
    BY <2>1 DEF cacheVars, UsageInv, Covers
<1>7. CASE Load
  <2>1. LoadFile /\ file' = file
    BY <1>7 DEF Load
  <2> QED
    BY <2>1, LoadIsCovered
<1>8. CASE \E cat \in Category : ClearCategory(cat)
  <2>1. PICK cat : ClearCategory(cat)
    BY <1>8
  <2>2. Forget({k \in DOMAIN entries : entries[k].category = cat}) /\ file' = file
    BY <2>1 DEF ClearCategory
  <2> QED
    BY <2>2, ForgetIsCovered
<1>9. CASE \E max \in Limits : SetMemoryLimit(max)
  BY <1>9, LimitIsCovered
<1>10. CASE InitializeMemory
  <2>1. file' = file /\ (UNCHANGED <<cacheVars, imported>> \/ LoadFile)
    BY <1>10 DEF InitializeMemory
  <2>2. CASE UNCHANGED <<cacheVars, imported>>
    BY <2>1, <2>2 DEF cacheVars, UsageInv
  <2> QED
    BY <2>1, <2>2, LoadIsCovered
<1>11. CASE ShutdownHangs
  BY <1>11 DEF ShutdownHangs, cacheVars, UsageInv
<1>12. CASE ShutdownMemory
  <2>1. /\ entries' = <<>> /\ access_order' = <<>> /\ usage' = 0
        /\ file' = entries \/ file' = file
    BY <1>12 DEF ShutdownMemory
  <2>2. IsFiniteSet(DOMAIN entries) /\ \A k \in DOMAIN entries : entries[k].size \in Nat
    BY DEF UsageInv, Covers
  <2> QED
    BY <2>1, <2>2, NothingIsCovered DEF UsageInv
<1>13. CASE Restart
  <2>1. entries' = <<>> /\ access_order' = <<>> /\ usage' = 0 /\ file' = file
    BY <1>13 DEF Restart
  <2> QED
    BY <2>1, NothingIsCovered DEF UsageInv
<1>14. CASE UNCHANGED managerVars
  BY <1>14 DEF managerVars, memVars, UsageInv
<1> QED
  BY <1>1, <1>2, <1>3, <1>4, <1>5, <1>6, <1>7, <1>8, <1>9, <1>10, <1>11, <1>12, <1>13, <1>14
  DEF memNext, memStep

\* The byte count of the memory manager covers its entries, and everything
\* that takes room can be evicted, once, for any keys, sizes and limits and
\* whatever is imported, evicted, forgotten or restarted.
THEOREM UsageCoversHolds == memSpec => []UsageCovers
<1>1. memInit => UsageInv
  BY NothingIsCovered DEF memInit, UsageInv
<1>2. UsageInv /\ [memNext]_managerVars => UsageInv'
  BY UsageStep
<1>3. UsageInv => UsageCovers
  <2> SUFFICES ASSUME UsageInv PROVE UsageCovers
    OBVIOUS
  <2>1. /\ access_order \in Seq(DOMAIN entries) /\ IsInjective(access_order)
        /\ \A k \in DOMAIN entries \ ToSet(access_order) : entries[k].size = 0
        /\ usage >= SizeIn(entries, DOMAIN entries)
    BY DEF UsageInv, Covers
  <2>2. DOMAIN access_order = 1..Len(access_order) /\ Len(access_order) \in Nat
    BY <2>1
  <2>3. ToSet(access_order) \subseteq DOMAIN entries
    BY <2>1, <2>2 DEF ToSet
  <2>4. Len(access_order) = Cardinality(ToSet(access_order))
    BY <2>1, LengthIsCardinality
  <2> QED
    BY <2>1, <2>3, <2>4 DEF UsageCovers
<1> QED
  BY <1>1, <1>2, <1>3, PTL DEF memSpec

----------------------------------------------------------------------------
(* The vector store                                                        *)

DocumentRecord == [text : Passage, vector : Vector, row : Nat]

\* The three structures agree, with types.
RowsInv ==
    /\ doc_ids \in Seq(Document) /\ matrix \in Seq(Vector)
    /\ \A d \in DOMAIN documents : documents[d] \in DocumentRecord
    /\ RowsAgree

LEMMA RowsFacts ==
    ASSUME RowsInv
    PROVE  /\ DOMAIN doc_ids = 1..Len(doc_ids) /\ DOMAIN matrix = 1..Len(doc_ids)
           /\ Len(doc_ids) \in Nat /\ Len(matrix) = Len(doc_ids)
           /\ \A r \in 1..Len(doc_ids) :
                 /\ doc_ids[r] \in DOMAIN documents /\ matrix[r] \in Vector
                 /\ documents[doc_ids[r]].row = r /\ documents[doc_ids[r]].vector = matrix[r]
           /\ \A d \in DOMAIN documents :
                 /\ documents[d].row \in 1..Len(doc_ids)
                 /\ doc_ids[documents[d].row] = d
           /\ \A r, s \in 1..Len(doc_ids) : doc_ids[r] = doc_ids[s] => r = s
<1>1. /\ DOMAIN doc_ids = 1..Len(doc_ids) /\ DOMAIN matrix = 1..Len(doc_ids)
      /\ Len(doc_ids) \in Nat /\ Len(matrix) = Len(doc_ids)
  BY DEF RowsInv, RowsAgree
<1>2. \A r \in 1..Len(doc_ids) :
         /\ doc_ids[r] \in DOMAIN documents /\ matrix[r] \in Vector
         /\ documents[doc_ids[r]].row = r /\ documents[doc_ids[r]].vector = matrix[r]
  BY <1>1 DEF RowsInv, RowsAgree, ToSet
<1>3. ASSUME NEW d \in DOMAIN documents
      PROVE  documents[d].row \in 1..Len(doc_ids) /\ doc_ids[documents[d].row] = d
  <2>1. PICK r \in 1..Len(doc_ids) : doc_ids[r] = d
    BY <1>1 DEF RowsInv, RowsAgree, ToSet
  <2> QED
    BY <2>1, <1>2
<1>4. \A r, s \in 1..Len(doc_ids) : doc_ids[r] = doc_ids[s] => r = s
  BY <1>2
<1> QED
  BY <1>1, <1>2, <1>3, <1>4

\* What shows that the structures agree after a step.
LEMMA RowsKept ==
    ASSUME NEW n \in Nat, doc_ids' \in Seq(Document), matrix' \in Seq(Vector),
           Len(doc_ids') = n, Len(matrix') = n,
           \A d \in DOMAIN documents' :
              /\ documents'[d] \in DocumentRecord
              /\ \E r \in 1..n : doc_ids'[r] = d,
           \A r \in 1..n : /\ doc_ids'[r] \in DOMAIN documents'
                           /\ documents'[doc_ids'[r]].row = r
                           /\ documents'[doc_ids'[r]].vector = matrix'[r]
    PROVE  RowsInv'
<1>1. DOMAIN doc_ids' = 1..n
  OBVIOUS
<1>2. DOMAIN documents' = ToSet(doc_ids')
  BY <1>1 DEF ToSet
<1> QED
  BY <1>1, <1>2 DEF RowsInv, RowsAgree

LEMMA AddKeepsRows ==
    ASSUME RowsInv, NEW id \in Document, NEW t \in Passage, NEW e \in Vector, AddDocument(id, t, e)
    PROVE  RowsInv'
<1> DEFINE n == Len(doc_ids)
<1>1. CASE id \in DOMAIN documents
  <2> DEFINE row == documents[id].row
  <2>1. /\ doc_ids' = doc_ids /\ matrix' = [matrix EXCEPT ![row] = e]
        /\ documents' = Put(documents, id, [text |-> t, vector |-> e, row |-> row])
    BY <1>1 DEF AddDocument
  <2>2. row \in 1..n /\ doc_ids[row] = id
    BY <1>1, RowsFacts
  <2>3. matrix' \in Seq(Vector) /\ Len(matrix') = n /\ \A r \in 1..n : matrix'[r] = IF r = row THEN e ELSE matrix[r]
    BY <2>1, <2>2, RowsFacts DEF RowsInv
  <2>4. /\ DOMAIN documents' = DOMAIN documents
        /\ documents'[id] = [text |-> t, vector |-> e, row |-> row]
        /\ \A d \in DOMAIN documents \ {id} : documents'[d] = documents[d]
    BY <1>1, <2>1 DEF Put
  <2>5. n \in Nat /\ Len(doc_ids') = n /\ doc_ids' \in Seq(Document)
    BY <2>1, RowsFacts DEF RowsInv
  <2>6. \A d \in DOMAIN documents' : documents'[d] \in DocumentRecord /\ \E r \in 1..n : doc_ids'[r] = d
    <3>1. row \in Nat
      BY <2>2, <2>5
    <3>2. documents'[id] \in DocumentRecord
      BY <2>4, <3>1 DEF DocumentRecord
    <3>3. \A d \in DOMAIN documents' : documents'[d] \in DocumentRecord
      BY <2>4, <3>2 DEF RowsInv
    <3> QED
      BY <3>3, <2>1, <2>4, RowsFacts
  <2>7. ASSUME NEW r \in 1..n
        PROVE  /\ doc_ids'[r] \in DOMAIN documents'
               /\ documents'[doc_ids'[r]].row = r
               /\ documents'[doc_ids'[r]].vector = matrix'[r]
    <3>1. CASE r = row
      BY <3>1, <1>1, <2>1, <2>2, <2>3, <2>4
    <3>2. CASE r # row
      <4>1. doc_ids[r] \in DOMAIN documents \ {id}
        BY <3>2, <2>2, RowsFacts
      <4> QED
        BY <4>1, <3>2, <2>1, <2>3, <2>4, RowsFacts
    <3> QED
      BY <3>1, <3>2
  <2> HIDE DEF n, row
  <2> QED
    BY <2>3, <2>5, <2>6, <2>7, RowsKept
<1>2. CASE id \notin DOMAIN documents
  <2>1. /\ doc_ids' = Append(doc_ids, id) /\ matrix' = Append(matrix, e)
        /\ documents' = Put(documents, id, [text |-> t, vector |-> e, row |-> n + 1])
    BY <1>2 DEF AddDocument
  <2>2. n \in Nat /\ n + 1 \in Nat
    BY RowsFacts
  <2>3. /\ doc_ids' \in Seq(Document) /\ Len(doc_ids') = n + 1
        /\ doc_ids'[n + 1] = id /\ \A r \in 1..n : doc_ids'[r] = doc_ids[r]
    BY <2>1, <2>2 DEF RowsInv
  <2>4. /\ matrix' \in Seq(Vector) /\ Len(matrix') = n + 1
        /\ matrix'[n + 1] = e /\ \A r \in 1..n : matrix'[r] = matrix[r]
    BY <2>1, <2>2, RowsFacts DEF RowsInv
  <2>5. /\ DOMAIN documents' = DOMAIN documents \cup {id}
        /\ documents'[id] = [text |-> t, vector |-> e, row |-> n + 1]
        /\ \A d \in DOMAIN documents : documents'[d] = documents[d]
    BY <1>2, <2>1 DEF Put
  <2>6. \A d \in DOMAIN documents' : documents'[d] \in DocumentRecord /\ \E r \in 1..(n + 1) : doc_ids'[r] = d
    <3>1. documents'[id] \in DocumentRecord
      BY <2>2, <2>5 DEF DocumentRecord
    <3>2. \A d \in DOMAIN documents' : documents'[d] \in DocumentRecord
      BY <2>5, <3>1 DEF RowsInv
    <3>3. n + 1 \in 1..(n + 1) /\ \A r \in 1..n : r \in 1..(n + 1)
      BY <2>2
    <3>4. \A d \in DOMAIN documents : \E r \in 1..n : doc_ids[r] = d
      BY RowsFacts
    <3> HIDE DEF n
    <3> QED
      BY <3>2, <3>3, <3>4, <2>3, <2>5
  <2>7. ASSUME NEW r \in 1..(n + 1)
        PROVE  /\ doc_ids'[r] \in DOMAIN documents'
               /\ documents'[doc_ids'[r]].row = r
               /\ documents'[doc_ids'[r]].vector = matrix'[r]
    <3>1. CASE r = n + 1
      BY <3>1, <2>3, <2>4, <2>5
    <3>2. CASE r # n + 1
      <4>1. r \in 1..n
        BY <3>2, <2>2
      <4>2. doc_ids[r] \in DOMAIN documents
        BY <4>1, RowsFacts
      <4> QED
        BY <4>1, <4>2, <2>3, <2>4, <2>5, RowsFacts
    <3> QED
      BY <3>1, <3>2
  <2> HIDE DEF n
  <2> QED
    BY <2>2, <2>3, <2>4, <2>6, <2>7, RowsKept
<1> QED
  BY <1>1, <1>2

\* The last row moves into the hole, and its document is told.
LEMMA RemoveKeepsRows ==
    ASSUME RowsInv, NEW id, RemoveDocument(id)
    PROVE  RowsInv'
<1>1. CASE id \notin DOMAIN documents
  <2>1. UNCHANGED vectorVars
    BY <1>1 DEF RemoveDocument
  <2> QED
    BY <2>1 DEF vectorVars, RowsInv, RowsAgree
<1>2. CASE id \in DOMAIN documents
  <2> DEFINE hole == documents[id].row
             last == Len(doc_ids)
             moved == doc_ids[last]
             ids == [doc_ids EXCEPT ![hole] = moved]
             rows == [matrix EXCEPT ![hole] = matrix[last]]
  <2>1. /\ documents' = [d \in DOMAIN documents \ {id} |->
                           IF d = moved THEN [documents[d] EXCEPT !.row = hole] ELSE documents[d]]
        /\ doc_ids' = Front(ids) /\ matrix' = Front(rows)
    BY <1>2 DEF RemoveDocument
  <2>2. /\ hole \in 1..last /\ doc_ids[hole] = id /\ last \in Nat /\ last \in 1..last
        /\ last - 1 \in Nat
    BY <1>2, RowsFacts
  <2>3. /\ ids \in Seq(Document) /\ Len(ids) = last
        /\ \A r \in 1..last : ids[r] = IF r = hole THEN moved ELSE doc_ids[r]
    BY <2>2, RowsFacts DEF RowsInv
  <2>4. /\ rows \in Seq(Vector) /\ Len(rows) = last
        /\ \A r \in 1..last : rows[r] = IF r = hole THEN matrix[last] ELSE matrix[r]
    BY <2>2, RowsFacts DEF RowsInv
  <2> HIDE DEF ids, rows
  <2>5. /\ doc_ids' \in Seq(Document) /\ Len(doc_ids') = last - 1
        /\ \A r \in 1..(last - 1) : doc_ids'[r] = ids[r] /\ r \in 1..last
    BY <2>1, <2>2, <2>3 DEF Front
  <2>6. /\ matrix' \in Seq(Vector) /\ Len(matrix') = last - 1
        /\ \A r \in 1..(last - 1) : matrix'[r] = rows[r]
    BY <2>1, <2>2, <2>4 DEF Front
  <2>7. ASSUME NEW r \in 1..(last - 1)
        PROVE  /\ doc_ids'[r] \in DOMAIN documents'
               /\ documents'[doc_ids'[r]].row = r
               /\ documents'[doc_ids'[r]].vector = matrix'[r]
    <3>1. r \in 1..last /\ r # last
      BY <2>2
    <3>2. CASE r = hole
      <4>1. doc_ids'[r] = moved /\ matrix'[r] = matrix[last]
        BY <3>1, <3>2, <2>3, <2>4, <2>5, <2>6
      <4>2. moved \in DOMAIN documents \ {id} /\ documents[moved].vector = matrix[last]
        BY <3>1, <3>2, <2>2, RowsFacts
      <4>3. documents'[moved] = [documents[moved] EXCEPT !.row = hole] /\ moved \in DOMAIN documents'
        BY <2>1, <4>2
      <4>4. documents[moved] \in DocumentRecord
        BY <4>2 DEF RowsInv
      <4>5. documents'[moved].row = hole /\ documents'[moved].vector = documents[moved].vector
        BY <4>3, <4>4 DEF DocumentRecord
      <4> QED
        BY <4>1, <4>2, <4>3, <4>5, <3>2
    <3>3. CASE r # hole
      <4>1. doc_ids'[r] = doc_ids[r] /\ matrix'[r] = matrix[r]
        BY <3>1, <3>3, <2>3, <2>4, <2>5, <2>6
      <4>2. doc_ids[r] \in DOMAIN documents \ {id} /\ doc_ids[r] # moved
        BY <3>1, <3>3, <2>2, RowsFacts
      <4>3. documents'[doc_ids[r]] = documents[doc_ids[r]] /\ doc_ids[r] \in DOMAIN documents'
        BY <2>1, <4>2
      <4>4. documents[doc_ids[r]].row = r /\ documents[doc_ids[r]].vector = matrix[r]
        BY <3>1, RowsFacts
      <4> QED
        BY <4>1, <4>3, <4>4
    <3> QED
      BY <3>2, <3>3
  <2>8. ASSUME NEW d \in DOMAIN documents'
        PROVE  documents'[d] \in DocumentRecord /\ \E r \in 1..(last - 1) : doc_ids'[r] = d
    <3>1. d \in DOMAIN documents /\ d # id /\ documents[d] \in DocumentRecord
      BY <2>1 DEF RowsInv
    <3>2. documents'[d] = IF d = moved THEN [documents[d] EXCEPT !.row = hole] ELSE documents[d]
      BY <2>1, <3>1
    <3>3. hole \in Nat
      BY <2>2
    <3> HIDE DEF hole, moved
    <3>4. documents'[d] \in DocumentRecord
      BY <3>1, <3>2, <3>3 DEF DocumentRecord
    <3> USE DEF hole, moved
    <3>5. CASE d = moved
      <4>1. hole # last
        BY <3>1, <3>5, <2>2
      <4>2. hole \in 1..(last - 1)
        BY <4>1, <2>2
      <4>3. doc_ids'[hole] = moved
        BY <4>2, <2>2, <2>3, <2>5
      <4> QED
        BY <3>4, <3>5, <4>2, <4>3
    <3>6. CASE d # moved
      <4>1. PICK r \in 1..last : doc_ids[r] = d
        BY <3>1, RowsFacts
      <4>2. r # last /\ r # hole
        BY <4>1, <3>1, <3>6, <2>2
      <4>3. r \in 1..(last - 1)
        BY <4>2, <2>2
      <4>4. doc_ids'[r] = d
        BY <4>1, <4>2, <4>3, <2>3, <2>5
      <4> QED
        BY <3>4, <4>3, <4>4
    <3> QED
      BY <3>5, <3>6
  <2> HIDE DEF last
  <2> QED
    BY <2>2, <2>5, <2>6, <2>7, <2>8, RowsKept
<1> QED
  BY <1>1, <1>2

LEMMA RowsStep == ASSUME RowsInv, [vectorNext]_vectorVars PROVE RowsInv'
<1>1. CASE \E id \in Document : RemoveDocument(id)
  BY <1>1, RemoveKeepsRows
<1>2. CASE \E id \in Document, t \in Passage, e \in Vector : AddDocument(id, t, e)
  BY <1>2, AddKeepsRows
<1>3. CASE ClearVectors
  <2>1. documents' = <<>> /\ doc_ids' = <<>> /\ matrix' = <<>>
    BY <1>3 DEF ClearVectors
  <2> QED
    BY <2>1 DEF RowsInv, RowsAgree, ToSet
<1>4. CASE UNCHANGED vectorVars
  BY <1>4 DEF vectorVars, RowsInv, RowsAgree
<1> QED
  BY <1>1, <1>2, <1>3, <1>4 DEF vectorNext

----------------------------------------------------------------------------
(* Searches                                                                *)

\* The heaps after one more row.
Extended(heaps, row, q, threshold) ==
    UNION {Offer(h, <<Similarity[q, matrix[row]], row>>, threshold) : h \in heaps}

Places == [r \in DOMAIN matrix |-> r]

\* g gives each set of rows the heaps after a scan of them.
Scans(g, q, threshold, S) ==
    g = [s \in SUBSET S |-> IF s = {} THEN {{}}
                            ELSE Extended(g[s \ {Max(s)}], Places[Max(s)], q, threshold)]

LEMMA ScannedDefinition ==
    ASSUME NEW q, NEW threshold
    PROVE  Scanned(q, threshold) = (CHOOSE g : Scans(g, q, threshold, DOMAIN matrix))[DOMAIN matrix]
<1>1. DOMAIN Places = DOMAIN matrix
  BY DEF Places
<1>2. Scanned(q, threshold) = (CHOOSE g : Scans(g, q, threshold, DOMAIN Places))[DOMAIN Places]
  BY DEF Scanned, FoldLeft, MapThenFoldSet, Scans, Extended, Places
<1> QED
  BY <1>1, <1>2

\* There is such a function, as there is one for sums.
LEMMA ScansExist ==
    ASSUME NEW q, NEW threshold, NEW N \in Nat
    PROVE  \E g : Scans(g, q, threshold, 1..N)
<1> DEFINE S == 1..N
           Later(s) == s \ {Max(s)}
           UpTo(n) == {s \in SUBSET S : Cardinality(s) \leq n}
           Next(g, s) == IF s = {} THEN {{}} ELSE Extended(g[Later(s)], Places[Max(s)], q, threshold)
           Step(g, n) == [s \in UpTo(n) |-> Next(g, s)]
           Bad == {n \in Nat : ~ \E g : g = Step(g, n)}
<1>0. IsFiniteSet(S)
  BY FS_Interval
<1>1. \A s \in SUBSET S : IsFiniteSet(s) /\ Cardinality(s) \in Nat
  BY <1>0, FS_Subset, FS_CardinalityType
<1>2. \A s \in SUBSET S : s # {} =>
        Later(s) \in SUBSET S /\ Cardinality(Later(s)) = Cardinality(s) - 1
  BY <1>1, MaxIsIn, FS_RemoveElement
<1> HIDE DEF S, Later
<1>3. Bad = {}
  <2> SUFFICES ASSUME Bad # {} PROVE FALSE
    OBVIOUS
  <2>1. PICK n \in Bad : \A m \in Bad : ~(m < n)
    <3>1. \E x \in Bad : \A y \in Bad : <<y, x>> \notin OpToRel(<, Nat)
      BY NatLessThanWellFounded, WFMin
    <3> QED
      BY <3>1 DEF OpToRel
  <2>2. \E g : \A s \in SUBSET S : s # {} /\ Cardinality(s) \leq n => g[Later(s)] = Next(g, Later(s))
    <3>1. CASE n = 0
      <4>1. \A s \in SUBSET S : s # {} => ~(Cardinality(s) \leq n)
        BY <1>1, <3>1, FS_EmptySet
      <4> QED
        BY <4>1
    <3>2. CASE n # 0
      <4>1. n - 1 \in Nat /\ n - 1 \notin Bad
        <5>1. n - 1 \in Nat /\ n - 1 < n
          BY <3>2
        <5> HIDE DEF Bad
        <5> QED
          BY <2>1, <5>1
      <4>2. PICK g : g = Step(g, n - 1)
        BY <4>1
      <4>3. ASSUME NEW s \in SUBSET S, s # {}, Cardinality(s) \leq n
            PROVE  g[Later(s)] = Next(g, Later(s))
        <5>1. Later(s) \in UpTo(n - 1)
          BY <1>1, <1>2, <4>1, <4>3
        <5> HIDE DEF Next
        <5> QED
          BY <4>2, <5>1
      <4> QED
        BY <4>3
    <3> QED
      BY <3>1, <3>2
  <2>3. PICK g : \A s \in SUBSET S : s # {} /\ Cardinality(s) \leq n => g[Later(s)] = Next(g, Later(s))
    BY <2>2
  <2> DEFINE h == Step(g, n)
  <2>4. ASSUME NEW s \in UpTo(n), s # {} PROVE h[Later(s)] = g[Later(s)]
    <3>1. Later(s) \in UpTo(n)
      BY <1>1, <1>2, <2>4
    <3> HIDE DEF Next
    <3>2. h[Later(s)] = Next(g, Later(s))
      BY <3>1
    <3> QED
      BY <2>3, <2>4, <3>2
  <2>5. h = Step(h, n)
    <3>1. ASSUME NEW s \in UpTo(n) PROVE Next(h, s) = Next(g, s)
      <4> HIDE DEF h, UpTo
      <4>1. CASE s = {}
        BY <4>1
      <4>2. CASE s # {}
        <5>1. h[Later(s)] = g[Later(s)]
          BY <2>4, <4>2
        <5> QED
          BY <4>2, <5>1
      <4> QED
        BY <4>1, <4>2
    <3> HIDE DEF Next
    <3> QED
      BY <3>1
  <2> QED
    BY <2>1, <2>5
<1>4. PICK g : g = Step(g, Cardinality(S))
  BY <1>0, <1>1, <1>3
<1>5. UpTo(Cardinality(S)) = SUBSET S
  BY <1>0, FS_Subset
<1>6. Scans(g, q, threshold, S)
  BY <1>4, <1>5 DEF Scans, Later
<1> QED
  BY <1>6 DEF S

\* The heaps of a whole scan are those of its last step, and so on down.
RowByRow(g, q, threshold, N) ==
    /\ g[1..0] = {{}}
    /\ \A n \in 1..N : g[1..n] = Extended(g[1..(n - 1)], n, q, threshold)

LEMMA ScanIs ==
    ASSUME NEW q, NEW threshold, NEW N \in Nat, DOMAIN matrix = 1..N
    PROVE  \E g : Scanned(q, threshold) = g[1..N] /\ RowByRow(g, q, threshold, N)
<1>1. PICK g : Scans(g, q, threshold, 1..N) /\ Scanned(q, threshold) = g[1..N]
  BY ScansExist, ScannedDefinition
<1>2. \A s \in SUBSET (1..N) : g[s] = IF s = {} THEN {{}}
                               ELSE Extended(g[s \ {Max(s)}], Places[Max(s)], q, threshold)
  BY <1>1 DEF Scans
<1>3. ASSUME NEW n \in 1..N PROVE g[1..n] = Extended(g[1..(n - 1)], n, q, threshold)
  <2>1. 1..n \in SUBSET (1..N) /\ 1..n # {} /\ Max(1..n) = n /\ (1..n) \ {n} = 1..(n - 1)
    BY BeginningsAre
  <2>2. Places[n] = n
    BY DEF Places
  <2> QED
    BY <1>2, <2>1, <2>2
<1>4. g[1..0] = {{}}
  <2>1. 1..0 = {}
    OBVIOUS
  <2> QED
    BY <1>2, <2>1
<1> QED
  BY <1>1, <1>3, <1>4 DEF RowByRow

\* A heap after n rows: it holds no more than TopK rows, each able, and a row
\* that is able is in it or no better than any of TopK rows that are.
HeapIsBest(heap, n, sim, threshold) ==
    /\ IsFiniteSet(heap) /\ Cardinality(heap) \leq TopK
    /\ \A p \in heap : p[2] \in 1..n /\ p = <<sim[p[2]], p[2]>> /\ p[1] >= threshold
    /\ \A r \in 1..n : sim[r] >= threshold =>
          \/ <<sim[r], r>> \in heap
          \/ Cardinality(heap) = TopK /\ \A p \in heap : p[1] >= sim[r]

LEMMA LeastExists ==
    ASSUME NEW heap, heap # {}, \A p \in heap : p[1] \in Nat
    PROVE  Least(heap) # {}
<1> DEFINE Firsts == {p[1] : p \in heap}
<1>1. Firsts \subseteq Nat /\ Firsts # {}
  OBVIOUS
<1>2. \E x \in Firsts : \A y \in Firsts : <<y, x>> \notin OpToRel(<, Nat)
  <2> HIDE DEF Firsts
  <2> QED
    BY <1>1, NatLessThanWellFounded, WFMin
<1>3. PICK x \in Firsts : \A y \in Firsts : ~(y < x)
  BY <1>1, <1>2 DEF OpToRel
<1>4. \A y \in Firsts : x \leq y
  <2> HIDE DEF Firsts
  <2> QED
    BY <1>1, <1>3
<1> QED
  BY <1>4 DEF Least

LEMMA OfferKeepsBest ==
    ASSUME NEW sim, NEW threshold \in Nat, NEW n \in Nat,
           \A r \in 1..(n + 1) : sim[r] \in Nat,
           NEW heap, HeapIsBest(heap, n, sim, threshold),
           NEW new \in Offer(heap, <<sim[n + 1], n + 1>>, threshold)
    PROVE  HeapIsBest(new, n + 1, sim, threshold)
<1> DEFINE pair == <<sim[n + 1], n + 1>>
<1>0. /\ TopK \in Nat
      /\ \A r \in 1..(n + 1) : sim[r] \in Nat
      /\ \A r \in 1..(n + 1) : r \in 1..n \/ r = n + 1
      /\ \A r \in 1..n : r \in 1..(n + 1)
      /\ n + 1 \in 1..(n + 1) /\ n + 1 \notin 1..n
      /\ pair[1] = sim[n + 1] /\ pair[2] = n + 1 /\ sim[n + 1] \in Nat
  BY VectorAssumption
<1>1. /\ IsFiniteSet(heap) /\ Cardinality(heap) \leq TopK /\ Cardinality(heap) \in Nat
      /\ \A p \in heap : p[2] \in 1..n /\ p = <<sim[p[2]], p[2]>> /\ p[1] >= threshold
      /\ \A r \in 1..n : sim[r] >= threshold =>
            \/ <<sim[r], r>> \in heap
            \/ Cardinality(heap) = TopK /\ \A p \in heap : p[1] >= sim[r]
  BY FS_CardinalityType DEF HeapIsBest
<1>2. \A p \in heap : p[1] \in Nat /\ p[1] = sim[p[2]]
  BY <1>0, <1>1
<1>3. pair \notin heap
  BY <1>0, <1>1
<1> DEFINE Goal(h) ==
             /\ IsFiniteSet(h) /\ Cardinality(h) \leq TopK
             /\ \A p \in h : p[2] \in 1..(n + 1) /\ p = <<sim[p[2]], p[2]>> /\ p[1] >= threshold
             /\ \A r \in 1..(n + 1) : sim[r] >= threshold =>
                   \/ <<sim[r], r>> \in h
                   \/ Cardinality(h) = TopK /\ \A p \in h : p[1] >= sim[r]
<1> SUFFICES Goal(new)
  BY DEF HeapIsBest
<1> HIDE DEF pair
<1>4. new \in Offer(heap, pair, threshold)
  BY DEF pair
<1>5. CASE pair[1] < threshold
  <2>1. new = heap
    BY <1>4, <1>5 DEF Offer
  <2>2. ~(sim[n + 1] >= threshold)
    BY <1>0, <1>5
  <2> QED
    BY <2>1, <2>2, <1>0, <1>1
<1>6. CASE ~(pair[1] < threshold) /\ Cardinality(heap) < TopK
  <2>1. new = heap \cup {pair}
    BY <1>4, <1>6 DEF Offer
  <2>2. IsFiniteSet(new) /\ Cardinality(new) = Cardinality(heap) + 1
    BY <2>1, <1>1, <1>3, FS_AddElement
  <2>3. Cardinality(new) \leq TopK
    BY <2>2, <1>0, <1>1, <1>6
  <2>4. pair = <<sim[n + 1], n + 1>> /\ sim[n + 1] >= threshold
    BY <1>0, <1>6 DEF pair
  <2>5. \A p \in new : p[2] \in 1..(n + 1) /\ p = <<sim[p[2]], p[2]>> /\ p[1] >= threshold
    BY <2>1, <2>4, <1>0, <1>1
  <2>6. \A r \in 1..(n + 1) : sim[r] >= threshold => <<sim[r], r>> \in new
    <3>1. Cardinality(heap) # TopK
      BY <1>0, <1>1, <1>6
    <3> QED
      BY <2>1, <2>4, <3>1, <1>0, <1>1
  <2> QED
    BY <2>2, <2>3, <2>5, <2>6
<1>7. CASE ~(pair[1] < threshold) /\ ~(Cardinality(heap) < TopK)
  <2>1. Cardinality(heap) = TopK
    BY <1>0, <1>1, <1>7
  <2>2. pair = <<sim[n + 1], n + 1>> /\ sim[n + 1] >= threshold
    BY <1>0, <1>7 DEF pair
  <2>3. CASE \E p \in Least(heap) : pair[1] > p[1]
    <3>1. PICK out \in Least(heap) : new = (heap \ {out}) \cup {pair}
      BY <1>4, <1>7, <2>3 DEF Offer
    <3>2. out \in heap /\ \A p \in heap : out[1] \leq p[1]
      BY DEF Least
    <3>3. pair[1] > out[1]
      <4>1. PICK p \in Least(heap) : pair[1] > p[1]
        BY <2>3
      <4>2. p \in heap /\ out[1] \leq p[1] /\ p[1] \in Nat /\ out[1] \in Nat /\ pair[1] \in Nat
        BY <3>2, <1>0, <1>2 DEF Least
      <4> QED
        BY <4>1, <4>2
    <3>4. IsFiniteSet(new) /\ Cardinality(new) = TopK
      <4>1. IsFiniteSet(heap \ {out}) /\ Cardinality(heap \ {out}) = Cardinality(heap) - 1
        BY <3>2, <1>1, FS_RemoveElement
      <4>2. pair \notin heap \ {out}
        BY <1>3
      <4>3. IsFiniteSet(new) /\ Cardinality(new) = Cardinality(heap \ {out}) + 1
        BY <3>1, <4>1, <4>2, FS_AddElement
      <4> QED
        BY <4>1, <4>3, <2>1, <1>0
    <3>5. \A p \in new : p[2] \in 1..(n + 1) /\ p = <<sim[p[2]], p[2]>> /\ p[1] >= threshold
      BY <3>1, <2>2, <1>0, <1>1
    <3>6. \A p \in new : p[1] >= out[1]
      <4>1. pair[1] \in Nat /\ out[1] \in Nat
        BY <3>2, <1>0, <1>2
      <4> QED
        BY <4>1, <3>1, <3>2, <3>3, <1>2
    <3>7. ASSUME NEW r \in 1..(n + 1), sim[r] >= threshold, <<sim[r], r>> \notin new
          PROVE  \A p \in new : p[1] >= sim[r]
      <4>1. r \in 1..n
        BY <3>1, <3>7, <2>2, <1>0
      <4>2. CASE <<sim[r], r>> \in heap
        <5>1. out = <<sim[r], r>>
          BY <3>1, <3>7, <4>2
        <5>2. out[1] = sim[r]
          BY <5>1
        <5> QED
          BY <5>2, <3>6
      <4>3. CASE <<sim[r], r>> \notin heap
        <5>1. \A p \in heap : p[1] >= sim[r]
          BY <4>1, <4>3, <3>7, <1>1
        <5>2. out[1] >= sim[r] /\ sim[r] \in Nat /\ out[1] \in Nat /\ pair[1] \in Nat
          BY <5>1, <3>2, <1>0, <1>2
        <5>3. pair[1] >= sim[r]
          BY <5>2, <3>3
        <5> QED
          BY <5>1, <5>3, <3>1
      <4> QED
        BY <4>2, <4>3
    <3>8. \A r \in 1..(n + 1) : sim[r] >= threshold =>
             <<sim[r], r>> \in new \/ (Cardinality(new) = TopK /\ \A p \in new : p[1] >= sim[r])
      BY <3>4, <3>7
    <3>9. Cardinality(new) \leq TopK
      BY <3>4, <1>0
    <3> QED
      BY <3>4, <3>5, <3>8, <3>9
  <2>4. CASE ~ \E p \in Least(heap) : pair[1] > p[1]
    <3>1. new = heap
      BY <1>4, <1>7, <2>4 DEF Offer
    <3>2. \A p \in heap : p[1] >= sim[n + 1]
      <4> SUFFICES ASSUME NEW p \in heap PROVE p[1] >= sim[n + 1]
        OBVIOUS
      <4>1. PICK least : least \in Least(heap)
        BY <1>2, LeastExists
      <4>2. least \in heap /\ least[1] \leq p[1] /\ ~(pair[1] > least[1])
        BY <4>1, <2>4 DEF Least
      <4>3. least[1] \in Nat /\ p[1] \in Nat /\ pair[1] = sim[n + 1] /\ sim[n + 1] \in Nat
        BY <4>2, <1>0, <1>2
      <4> QED
        BY <4>2, <4>3
    <3>3. \A r \in 1..(n + 1) : sim[r] >= threshold =>
             <<sim[r], r>> \in heap \/ (Cardinality(heap) = TopK /\ \A p \in heap : p[1] >= sim[r])
      BY <3>2, <2>1, <1>0, <1>1
    <3> QED
      BY <3>1, <3>3, <1>0, <1>1
  <2> QED
    BY <2>3, <2>4
<1> HIDE DEF Goal
<1> QED
  BY <1>5, <1>6, <1>7

Scores(q) == [r \in DOMAIN matrix |-> Similarity[q, matrix[r]]]

\* What is offered for a row is its score, with the row.
LEMMA ExtendedOffers ==
    ASSUME NEW heaps, NEW n \in DOMAIN matrix, NEW q, NEW threshold,
           NEW new \in Extended(heaps, n, q, threshold)
    PROVE  \E h \in heaps : new \in Offer(h, <<Scores(q)[n], n>>, threshold)
<1>1. Scores(q)[n] = Similarity[q, matrix[n]]
  BY DEF Scores
<1> QED
  BY <1>1 DEF Extended

LEMMA ScoresAre ==
    ASSUME RowsInv, NEW q \in Vector
    PROVE  \A r \in 1..Len(doc_ids) : Scores(q)[r] = Similarity[q, matrix[r]] /\ Scores(q)[r] \in Nat
<1> SUFFICES ASSUME NEW r \in 1..Len(doc_ids)
             PROVE  Scores(q)[r] = Similarity[q, matrix[r]] /\ Scores(q)[r] \in Nat
  OBVIOUS
<1>1. r \in DOMAIN matrix /\ matrix[r] \in Vector
  BY RowsFacts
<1>2. <<q, matrix[r]>> \in Vector \X Vector
  BY <1>1
<1>3. Similarity[q, matrix[r]] \in Nat
  BY <1>2, VectorAssumption
<1> QED
  BY <1>1, <1>3 DEF Scores

\* After every row the heap holds the best of the rows seen.
LEMMA ScannedIsBest ==
    ASSUME RowsInv, NEW q \in Vector, NEW threshold \in Nat, NEW heap \in Scanned(q, threshold)
    PROVE  HeapIsBest(heap, Len(doc_ids), Scores(q), threshold)
<1> DEFINE N == Len(doc_ids)
<1>1. N \in Nat /\ DOMAIN matrix = 1..N
  BY RowsFacts
<1>2. \A r \in 1..N : Scores(q)[r] \in Nat
  BY ScoresAre
<1> HIDE DEF N
<1>row. PICK g : Scanned(q, threshold) = g[1..N] /\ RowByRow(g, q, threshold, N)
  BY <1>1, ScanIs
<1>3. /\ Scanned(q, threshold) = g[1..N] /\ g[1..0] = {{}}
      /\ \A n \in 1..N : g[1..n] = Extended(g[1..(n - 1)], n, q, threshold)
  BY <1>row DEF RowByRow
<1> DEFINE Good(n) == \A h \in g[1..n] : HeapIsBest(h, n, Scores(q), threshold)
           Bad == {n \in 0..N : ~Good(n)}
<1>4. Bad = {}
  <2> SUFFICES ASSUME Bad # {} PROVE FALSE
    OBVIOUS
  <2>1. PICK n \in Bad : \A m \in Bad : ~(m < n)
    <3>1. Bad \subseteq Nat /\ Bad # {}
      BY <1>1
    <3> HIDE DEF Bad
    <3>2. \E x \in Bad : \A y \in Bad : <<y, x>> \notin OpToRel(<, Nat)
      BY <3>1, NatLessThanWellFounded, WFMin
    <3> QED
      BY <3>1, <3>2 DEF OpToRel
  <2>2. n \in 0..N /\ ~Good(n)
    OBVIOUS
  <2>3. CASE n = 0
    <3>1. HeapIsBest({}, 0, Scores(q), threshold)
      <4>1. IsFiniteSet({}) /\ Cardinality({}) = 0 /\ TopK \in Nat
        BY FS_EmptySet, VectorAssumption
      <4>2. 1..0 = {}
        OBVIOUS
      <4> QED
        BY <4>1, <4>2 DEF HeapIsBest
    <3> QED
      BY <3>1, <2>2, <2>3, <1>3
  <2>4. CASE n # 0
    <3>1. n - 1 \in 0..N /\ n - 1 < n /\ n \in 1..N /\ n - 1 \in Nat /\ (n - 1) + 1 = n
      BY <2>2, <2>4, <1>1
    <3>2. Good(n - 1)
      <4> HIDE DEF Good
      <4> QED
        BY <2>1, <3>1
    <3>3. ASSUME NEW h \in g[1..n] PROVE HeapIsBest(h, n, Scores(q), threshold)
      <4>1. h \in Extended(g[1..(n - 1)], n, q, threshold) /\ n \in DOMAIN matrix
        BY <3>1, <3>3, <1>1, <1>3
      <4>2. PICK f \in g[1..(n - 1)] : h \in Offer(f, <<Scores(q)[n], n>>, threshold)
        BY <4>1, ExtendedOffers
      <4>3. HeapIsBest(f, n - 1, Scores(q), threshold)
        BY <3>2, <4>2
      <4>4. PICK m \in Nat : m = n - 1 /\ n = m + 1 /\ m + 1 \in 1..N
        BY <3>1
      <4>5. PICK sim : sim = Scores(q)
        OBVIOUS
      <4>6. \A r \in 1..(m + 1) : sim[r] \in Nat
        <5>1. \A r \in 1..(m + 1) : r \in 1..N
          BY <4>4, <1>1
        <5> QED
          BY <5>1, <4>5, <1>2
      <4>7. HeapIsBest(f, m, sim, threshold) /\ h \in Offer(f, <<sim[m + 1], m + 1>>, threshold)
        BY <4>2, <4>3, <4>4, <4>5
      <4>8. HeapIsBest(h, m + 1, sim, threshold)
        BY <4>6, <4>7, OfferKeepsBest
      <4> QED
        BY <4>4, <4>5, <4>8
    <3> QED
      BY <2>2, <3>3
  <2> QED
    BY <2>3, <2>4
<1>5. N \in 0..N
  BY <1>1
<1>6. Good(N)
  <2> HIDE DEF Good
  <2> QED
    BY <1>4, <1>5
<1> QED
  BY <1>3, <1>6 DEF N

\* The ids of a best heap are the best documents.
LEMMA FoundIsBest ==
    ASSUME RowsInv, NEW q \in Vector, NEW threshold \in Nat,
           NEW heap, HeapIsBest(heap, Len(doc_ids), Scores(q), threshold)
    PROVE  LET score(id) == Similarity[q, documents[id].vector]
               able == {id \in DOMAIN documents : score(id) >= threshold}
               found == {doc_ids[p[2]] : p \in heap}
           IN  /\ found \subseteq able
               /\ Cardinality(found) = Min({TopK, Cardinality(able)})
               /\ \A in \in found, out \in able \ found : score(in) >= score(out)
<1> DEFINE N == Len(doc_ids)
           score(id) == Similarity[q, documents[id].vector]
           able == {id \in DOMAIN documents : score(id) >= threshold}
           found == {doc_ids[p[2]] : p \in heap}
<1>1. PICK sim : sim = Scores(q)
  OBVIOUS
<1>2. \A r \in 1..N : sim[r] \in Nat /\ doc_ids[r] \in DOMAIN documents /\ score(doc_ids[r]) = sim[r]
  <2> SUFFICES ASSUME NEW r \in 1..N
               PROVE  sim[r] \in Nat /\ doc_ids[r] \in DOMAIN documents /\ score(doc_ids[r]) = sim[r]
    OBVIOUS
  <2>1. sim[r] = Similarity[q, matrix[r]] /\ sim[r] \in Nat
    BY <1>1, ScoresAre
  <2>2. doc_ids[r] \in DOMAIN documents /\ documents[doc_ids[r]].vector = matrix[r]
    BY RowsFacts
  <2> QED
    BY <2>1, <2>2
<1>3. \A d \in DOMAIN documents : \E r \in 1..N : doc_ids[r] = d
  BY RowsFacts
<1>4. \A r, s \in 1..N : doc_ids[r] = doc_ids[s] => r = s
  BY RowsFacts
<1>5. IsFiniteSet(DOMAIN documents)
  <2>1. IsFiniteSet(1..N)
    BY RowsFacts, FS_Interval
  <2>2. doc_ids \in Surjection(1..N, DOMAIN documents)
    <3>1. doc_ids \in [1..N -> DOMAIN documents]
      <4>1. doc_ids \in [1..Len(doc_ids) -> Document]
        BY DEF RowsInv
      <4>2. \A r \in 1..N : doc_ids[r] \in DOMAIN documents
        BY <1>2
      <4> HIDE DEF score
      <4> QED
        BY <4>1, <4>2
    <3> QED
      BY <3>1, <1>3 DEF Surjection
  <2> QED
    BY <2>1, <2>2, FS_Surjection
<1> HIDE DEF score, N
<1>6. /\ IsFiniteSet(heap) /\ Cardinality(heap) \leq TopK
      /\ \A p \in heap : p[2] \in 1..N /\ p = <<sim[p[2]], p[2]>> /\ p[1] >= threshold
      /\ \A r \in 1..N : sim[r] >= threshold =>
            <<sim[r], r>> \in heap \/ (Cardinality(heap) = TopK /\ \A p \in heap : p[1] >= sim[r])
  BY <1>1 DEF HeapIsBest, N
<1>7. \A p \in heap : p[1] = sim[p[2]] /\ score(doc_ids[p[2]]) = p[1]
  BY <1>2, <1>6
<1>8. found \subseteq able
  <2> SUFFICES ASSUME NEW p \in heap PROVE doc_ids[p[2]] \in able
    OBVIOUS
  <2>1. doc_ids[p[2]] \in DOMAIN documents
    BY <1>2, <1>6
  <2> QED
    BY <2>1, <1>6, <1>7
<1>9. IsFiniteSet(found) /\ Cardinality(found) = Cardinality(heap)
  <2> DEFINE f == [p \in heap |-> doc_ids[p[2]]]
  <2>1. f \in [heap -> found]
    OBVIOUS
  <2>2. \A p, o \in heap : f[p] = f[o] => p = o
    <3> SUFFICES ASSUME NEW p \in heap, NEW o \in heap, f[p] = f[o] PROVE p = o
      OBVIOUS
    <3>1. p[2] = o[2]
      BY <1>4, <1>6
    <3>2. p = <<sim[p[2]], p[2]>> /\ o = <<sim[o[2]], o[2]>>
      BY <1>6
    <3> QED
      BY <3>1, <3>2
  <2>3. \A d \in found : \E p \in heap : f[p] = d
    OBVIOUS
  <2> HIDE DEF f, found
  <2>4. f \in Injection(heap, found)
    BY <2>1, <2>2 DEF Injection, IsInjective
  <2>5. f \in Surjection(heap, found)
    BY <2>1, <2>3 DEF Surjection
  <2>6. f \in Bijection(heap, found)
    BY <2>4, <2>5 DEF Bijection
  <2> QED
    BY <2>6, <1>6, FS_Bijection DEF ExistsBijection
<1>10. \A d \in able \ found : Cardinality(heap) = TopK /\ \A p \in heap : p[1] >= score(d)
  <2> SUFFICES ASSUME NEW d \in able \ found
               PROVE  Cardinality(heap) = TopK /\ \A p \in heap : p[1] >= score(d)
    OBVIOUS
  <2>1. PICK r \in 1..N : doc_ids[r] = d
    BY <1>3
  <2>2. sim[r] = score(d) /\ sim[r] >= threshold
    BY <2>1, <1>2
  <2>3. <<sim[r], r>> \notin heap
    <3> SUFFICES ASSUME <<sim[r], r>> \in heap PROVE FALSE
      OBVIOUS
    <3>1. PICK p \in heap : p[2] = r
      OBVIOUS
    <3>2. d \in found
      BY <2>1, <3>1
    <3> QED
      BY <3>2
  <2> QED
    BY <2>2, <2>3, <1>6
<1>11. Cardinality(found) = Min({TopK, Cardinality(able)})
  <2>1. IsFiniteSet(able)
    BY <1>5, FS_Subset
  <2>2. Cardinality(found) \leq Cardinality(able) /\ Cardinality(able) \in Nat /\ Cardinality(found) \in Nat
    <3> HIDE DEF found, able
    <3> QED
      BY <2>1, <1>8, <1>9, FS_Subset, FS_CardinalityType
  <2>3. Cardinality(found) = TopK \/ Cardinality(found) = Cardinality(able)
    <3>1. CASE able \ found = {}
      <4>1. found = able
        BY <3>1, <1>8
      <4> QED
        BY <4>1
    <3>2. CASE able \ found # {}
      BY <3>2, <1>9, <1>10
    <3> QED
      BY <3>1, <3>2
  <2>4. Cardinality(found) \leq TopK /\ TopK \in Nat
    BY <1>6, <1>9, VectorAssumption
  <2> DEFINE S == {TopK, Cardinality(able)}
  <2>5. Cardinality(found) \in S /\ \A y \in S : Cardinality(found) =< y /\ y \in Nat
    <3> HIDE DEF found, able
    <3> QED
      BY <2>2, <2>3, <2>4
  <2>6. \A x \in S : (\A y \in S : x =< y) => x = Cardinality(found)
    <3> HIDE DEF found, able, S
    <3> SUFFICES ASSUME NEW x \in S, \A y \in S : x =< y PROVE x = Cardinality(found)
      OBVIOUS
    <3>1. x =< Cardinality(found) /\ Cardinality(found) =< x /\ x \in Nat /\ Cardinality(found) \in Nat
      BY <2>5
    <3> QED
      BY <3>1
  <2> HIDE DEF found, able, S
  <2>7. Min(S) = Cardinality(found)
    BY <2>5, <2>6 DEF Min
  <2> QED
    BY <2>7 DEF S
<1>12. \A in \in found, out \in able \ found : score(in) >= score(out)
  <2> SUFFICES ASSUME NEW in \in found, NEW out \in able \ found PROVE score(in) >= score(out)
    OBVIOUS
  <2>1. PICK p \in heap : in = doc_ids[p[2]]
    OBVIOUS
  <2>2. p[1] >= score(out) /\ score(in) = p[1]
    BY <2>1, <1>7, <1>10
  <2> QED
    BY <2>2
<1> QED
  BY <1>8, <1>11, <1>12 DEF score

\* A search of the vector store gives the best documents there are, for any
\* documents, similarities and number of results, whatever was added, replaced
\* or removed before and however ties fall.
THEOREM SearchIsBestHolds == vectorSpec => []SearchIsBest
<1>1. vectorInit => RowsInv
  BY DEF vectorInit, RowsInv, RowsAgree, ToSet
<1>2. RowsInv /\ [vectorNext]_vectorVars => RowsInv'
  BY RowsStep
<1>3. RowsInv => SearchIsBest
  <2> SUFFICES ASSUME RowsInv, NEW q \in Vector, NEW threshold \in {0, 1},
                      NEW found \in Found(q, threshold)
               PROVE  LET score(id) == Similarity[q, documents[id].vector]
                          able == {id \in DOMAIN documents : score(id) >= threshold}
                      IN  /\ found \subseteq able
                          /\ Cardinality(found) = Min({TopK, Cardinality(able)})
                          /\ \A in \in found, out \in able \ found : score(in) >= score(out)
    BY DEF SearchIsBest
  <2>1. threshold \in Nat
    OBVIOUS
  <2>2. PICK heap : /\ HeapIsBest(heap, Len(doc_ids), Scores(q), threshold)
                    /\ found = {doc_ids[p[2]] : p \in heap}
    <3>1. CASE TopK = 0 \/ DOMAIN documents = {}
      <4>1. found = {}
        BY <3>1 DEF Found
      <4>2. HeapIsBest({}, Len(doc_ids), Scores(q), threshold)
        <5>1. IsFiniteSet({}) /\ Cardinality({}) = 0 /\ TopK \in Nat
          BY FS_EmptySet, VectorAssumption
        <5>2. CASE TopK = 0
          BY <5>1, <5>2 DEF HeapIsBest
        <5>3. CASE DOMAIN documents = {}
          <6>1. 1..Len(doc_ids) = {}
            BY <5>3, RowsFacts
          <6> QED
            BY <5>1, <6>1 DEF HeapIsBest
        <5> QED
          BY <3>1, <5>2, <5>3
      <4> QED
        BY <4>1, <4>2
    <3>2. CASE ~(TopK = 0 \/ DOMAIN documents = {})
      <4>1. PICK heap \in Scanned(q, threshold) : found = {doc_ids[p[2]] : p \in heap}
        BY <3>2 DEF Found
      <4>2. HeapIsBest(heap, Len(doc_ids), Scores(q), threshold)
        BY <2>1, ScannedIsBest
      <4> QED
        BY <4>1, <4>2
    <3> QED
      BY <3>1, <3>2
  <2> QED
    BY <2>1, <2>2, FoundIsBest
<1> QED
  BY <1>1, <1>2, <1>3, PTL DEF vectorSpec

----------------------------------------------------------------------------
(* The knowledge graph                                                     *)

\* The lists of edges agree, with types.
GraphInv ==
    /\ nodes_ \subseteq Node
    /\ outgoing \in [Node -> Seq(Edge)] /\ incoming \in [Node -> Seq(Edge)]
    /\ EdgesMirror

LEMMA ImportMirrors ==
    ASSUME NEW ids \in SUBSET Node, NEW edges \in Seq(Edge), Import(ids, edges)
    PROVE  GraphInv'
<1>1. \A n \in Node :
        /\ outgoing'[n] \in Seq(Edge) /\ ToSet(outgoing'[n]) = ToSet(edges) \ (Edge \ EdgesFrom(n))
        /\ incoming'[n] \in Seq(Edge) /\ ToSet(incoming'[n]) = ToSet(edges) \ (Edge \ EdgesTo(n))
  BY ErasedLeaves DEF Import
<1>2. ToSet(edges) \subseteq Edge
  BY DEF ToSet
<1>3. outgoing' \in [Node -> Seq(Edge)] /\ incoming' \in [Node -> Seq(Edge)] /\ nodes_' \subseteq Node
  BY <1>1 DEF Import
<1>4. EdgesMirror'
  BY <1>1, <1>2 DEF EdgesMirror, EdgesFrom, EdgesTo, Edge
<1> QED
  BY <1>3, <1>4 DEF GraphInv

LEMMA EraseMirrors ==
    ASSUME GraphInv, NEW n \in Node, EraseNode(n)
    PROVE  GraphInv'
<1>1. \A m \in Node :
        /\ outgoing'[m] \in Seq(Edge)
        /\ ToSet(outgoing'[m]) = IF m = n THEN {} ELSE ToSet(outgoing[m]) \ EdgesTo(n)
  <2>1. ToSet(<<>>) = {}
    BY DEF ToSet
  <2>2. \A m \in Node : outgoing'[m] = IF m = n THEN <<>> ELSE Erased(outgoing[m], EdgesTo(n))
    BY DEF EraseNode, ErasedNode
  <2>3. \A m \in Node : outgoing[m] \in Seq(Edge)
    BY DEF GraphInv
  <2>4. \A m \in Node :
          /\ Erased(outgoing[m], EdgesTo(n)) \in Seq(Edge)
          /\ ToSet(Erased(outgoing[m], EdgesTo(n))) = ToSet(outgoing[m]) \ EdgesTo(n)
    BY <2>3, ErasedLeaves
  <2> TAKE m \in Node
  <2>5. CASE m = n
    <3>1. outgoing'[m] = <<>>
      BY <2>2, <2>5
    <3> QED
      BY <2>1, <2>5, <3>1
  <2>6. CASE m # n
    <3>1. outgoing'[m] = Erased(outgoing[m], EdgesTo(n))
      BY <2>2, <2>6
    <3> QED
      BY <2>4, <2>6, <3>1
  <2> QED
    BY <2>5, <2>6
<1>2. \A m \in Node :
        /\ incoming'[m] \in Seq(Edge)
        /\ ToSet(incoming'[m]) = IF m = n THEN {} ELSE ToSet(incoming[m]) \ EdgesFrom(n)
  <2>1. ToSet(<<>>) = {}
    BY DEF ToSet
  <2>2. \A m \in Node : incoming'[m] = IF m = n THEN <<>> ELSE Erased(incoming[m], EdgesFrom(n))
    BY DEF EraseNode, ErasedNode
  <2>3. \A m \in Node : incoming[m] \in Seq(Edge)
    BY DEF GraphInv
  <2>4. \A m \in Node :
          /\ Erased(incoming[m], EdgesFrom(n)) \in Seq(Edge)
          /\ ToSet(Erased(incoming[m], EdgesFrom(n))) = ToSet(incoming[m]) \ EdgesFrom(n)
    BY <2>3, ErasedLeaves
  <2> TAKE m \in Node
  <2>5. CASE m = n
    <3>1. incoming'[m] = <<>>
      BY <2>2, <2>5
    <3> QED
      BY <2>1, <2>5, <3>1
  <2>6. CASE m # n
    <3>1. incoming'[m] = Erased(incoming[m], EdgesFrom(n))
      BY <2>2, <2>6
    <3> QED
      BY <2>4, <2>6, <3>1
  <2> QED
    BY <2>5, <2>6
<1>3. outgoing' \in [Node -> Seq(Edge)] /\ incoming' \in [Node -> Seq(Edge)] /\ nodes_' \subseteq Node
  <2>1. outgoing' = [m \in Node |-> outgoing'[m]] /\ incoming' = [m \in Node |-> incoming'[m]]
    BY DEF EraseNode, ErasedNode
  <2> QED
    BY <1>1, <1>2, <2>1 DEF EraseNode, ErasedNode, GraphInv
<1>4. EdgesMirror'
  <2>1. ASSUME NEW m \in Node
        PROVE  ToSet(outgoing'[m]) \subseteq EdgesFrom(m) /\ ToSet(incoming'[m]) \subseteq EdgesTo(m)
    BY <1>1, <1>2 DEF EdgesMirror, GraphInv
  <2>2. ASSUME NEW e \in Edge
        PROVE  e \in ToSet(outgoing'[e.from]) <=> e \in ToSet(incoming'[e.to])
    <3>1. e.from \in Node /\ e.to \in Node
      BY DEF Edge
    <3>2. e \in ToSet(outgoing[e.from]) <=> e \in ToSet(incoming[e.to])
      BY DEF GraphInv, EdgesMirror
    <3>3. e \in ToSet(outgoing'[e.from]) <=> e.from # n /\ e.to # n /\ e \in ToSet(outgoing[e.from])
      BY <1>1, <3>1 DEF EdgesTo
    <3>4. e \in ToSet(incoming'[e.to]) <=> e.from # n /\ e.to # n /\ e \in ToSet(incoming[e.to])
      BY <1>2, <3>1 DEF EdgesFrom
    <3> QED
      BY <3>2, <3>3, <3>4
  <2> QED
    BY <2>1, <2>2 DEF EdgesMirror, EdgesFrom, EdgesTo
<1> QED
  BY <1>3, <1>4 DEF GraphInv

LEMMA AddEdgeMirrors ==
    ASSUME GraphInv, NEW e \in Edge, AddEdge(e)
    PROVE  GraphInv'
<1>1. e.from \in Node /\ e.to \in Node
  BY DEF Edge
<1>2. \A list \in Seq(Edge) : Append(list, e) \in Seq(Edge) /\ ToSet(Append(list, e)) = ToSet(list) \cup {e}
  <2>1. ASSUME NEW list \in Seq(Edge) PROVE ToSet(Append(list, e)) = ToSet(list) \cup {e}
    <3>1. DOMAIN Append(list, e) = DOMAIN list \cup {Len(list) + 1}
      OBVIOUS
    <3>2. \A i \in DOMAIN list : Append(list, e)[i] = list[i]
      OBVIOUS
    <3>3. Append(list, e)[Len(list) + 1] = e
      OBVIOUS
    <3> QED
      BY <3>1, <3>2, <3>3 DEF ToSet
  <2> QED
    BY <2>1
<1>3. \A m \in Node :
        /\ outgoing'[m] \in Seq(Edge)
        /\ ToSet(outgoing'[m]) = IF m = e.from THEN ToSet(outgoing[m]) \cup {e} ELSE ToSet(outgoing[m])
  BY <1>1, <1>2 DEF AddEdge, GraphInv
<1>4. \A m \in Node :
        /\ incoming'[m] \in Seq(Edge)
        /\ ToSet(incoming'[m]) = IF m = e.to THEN ToSet(incoming[m]) \cup {e} ELSE ToSet(incoming[m])
  BY <1>1, <1>2 DEF AddEdge, GraphInv
<1>5. outgoing' \in [Node -> Seq(Edge)] /\ incoming' \in [Node -> Seq(Edge)] /\ nodes_' \subseteq Node
  <2>1. outgoing' = [m \in Node |-> outgoing'[m]] /\ incoming' = [m \in Node |-> incoming'[m]]
    BY DEF AddEdge, GraphInv
  <2> QED
    BY <1>3, <1>4, <2>1 DEF AddEdge, GraphInv
<1>6. EdgesMirror'
  <2>1. ASSUME NEW m \in Node
        PROVE  ToSet(outgoing'[m]) \subseteq EdgesFrom(m) /\ ToSet(incoming'[m]) \subseteq EdgesTo(m)
    <3>1. ToSet(outgoing[m]) \subseteq EdgesFrom(m) /\ ToSet(incoming[m]) \subseteq EdgesTo(m)
      BY DEF GraphInv, EdgesMirror
    <3>2. e \in EdgesFrom(e.from) /\ e \in EdgesTo(e.to)
      BY DEF EdgesFrom, EdgesTo
    <3>3. ToSet(outgoing'[m]) \subseteq EdgesFrom(m)
      BY <1>3, <3>1, <3>2
    <3>4. ToSet(incoming'[m]) \subseteq EdgesTo(m)
      BY <1>4, <3>1, <3>2
    <3> QED
      BY <3>3, <3>4
  <2>2. ASSUME NEW f \in Edge
        PROVE  f \in ToSet(outgoing'[f.from]) <=> f \in ToSet(incoming'[f.to])
    <3>1. f.from \in Node /\ f.to \in Node
      BY DEF Edge
    <3>2. f \in ToSet(outgoing[f.from]) <=> f \in ToSet(incoming[f.to])
      BY DEF GraphInv, EdgesMirror
    <3>3. f \in ToSet(outgoing'[f.from]) <=> f = e \/ f \in ToSet(outgoing[f.from])
      BY <1>3, <3>1
    <3>4. f \in ToSet(incoming'[f.to]) <=> f = e \/ f \in ToSet(incoming[f.to])
      BY <1>4, <3>1
    <3> QED
      BY <3>2, <3>3, <3>4
  <2> QED
    BY <2>1, <2>2 DEF EdgesMirror, EdgesFrom, EdgesTo
<1> QED
  BY <1>5, <1>6 DEF GraphInv

LEMMA GraphStep == ASSUME GraphInv, [graphNext]_graphVars PROVE GraphInv'
<1>1. ASSUME NEW n \in Node, InsertNode(n) PROVE GraphInv'
  BY <1>1 DEF InsertNode, GraphInv, EdgesMirror
<1>2. ASSUME NEW n \in Node, EraseNode(n) PROVE GraphInv'
  BY <1>2, EraseMirrors
<1>3. ASSUME NEW e \in Edge, AddEdge(e) PROVE GraphInv'
  BY <1>3, AddEdgeMirrors
<1>4. ASSUME ImportGraph PROVE GraphInv'
  <2>1. PICK order \in SetToSeqs(Node) :
          \/ Import(nodes_, Exported(order))
          \/ \E ids \in SUBSET nodes_ : Import(ids, <<>>)
          \/ \E k \in DOMAIN Exported(order) : Import(nodes_, SubSeq(Exported(order), 1, k - 1))
    BY <1>4 DEF ImportGraph
  <2>2. Exported(order) \in Seq(Edge)
    <3>1. Cardinality(Node) \in Nat
      BY GraphAssumption, FS_CardinalityType
    <3>2. order \in [1..Cardinality(Node) -> Node]
      BY DEF SetToSeqs
    <3>3. [i \in DOMAIN order |-> outgoing[order[i]]] \in Seq(Seq(Edge))
      <4>1. \A n \in Node : outgoing[n] \in Seq(Edge)
        BY DEF GraphInv
      <4>2. DOMAIN order = 1..Cardinality(Node) /\ \A i \in DOMAIN order : order[i] \in Node
        BY <3>2
      <4>3. [i \in DOMAIN order |-> outgoing[order[i]]] \in [1..Cardinality(Node) -> Seq(Edge)]
        BY <4>1, <4>2
      <4> QED
        BY <3>1, <4>3
    <3> QED
      BY <3>3, FlattenedIsSequence DEF Exported
  <2>3. <<>> \in Seq(Edge) /\ nodes_ \in SUBSET Node
    BY DEF GraphInv
  <2>4. \A k \in DOMAIN Exported(order) : SubSeq(Exported(order), 1, k - 1) \in Seq(Edge)
    <3>1. \A s \in Seq(Edge) : \A k \in DOMAIN s : SubSeq(s, 1, k - 1) \in Seq(Edge)
      OBVIOUS
    <3> QED
      BY <2>2, <3>1
  <2>5. CASE Import(nodes_, Exported(order))
    BY <2>2, <2>3, <2>5, ImportMirrors
  <2>6. CASE \E ids \in SUBSET nodes_ : Import(ids, <<>>)
    <3>1. PICK ids \in SUBSET nodes_ : Import(ids, <<>>)
      BY <2>6
    <3> QED
      BY <2>3, <3>1, ImportMirrors
  <2>7. CASE \E k \in DOMAIN Exported(order) : Import(nodes_, SubSeq(Exported(order), 1, k - 1))
    BY <2>3, <2>4, <2>7, ImportMirrors
  <2> QED
    BY <2>1, <2>5, <2>6, <2>7
<1>5. ASSUME ClearGraph PROVE GraphInv'
  <2>1. {} \in SUBSET Node /\ <<>> \in Seq(Edge)
    OBVIOUS
  <2> QED
    BY <1>5, <2>1, ImportMirrors DEF ClearGraph
<1>6. CASE UNCHANGED graphVars
  BY <1>6 DEF graphVars, GraphInv, EdgesMirror
<1> QED
  BY <1>1, <1>2, <1>3, <1>4, <1>5, <1>6 DEF graphNext

LEMMA GraphStart == ASSUME graphInit PROVE GraphInv
<1>1. ToSet(<<>>) = {}
  BY DEF ToSet
<1>2. outgoing \in [Node -> Seq(Edge)] /\ incoming \in [Node -> Seq(Edge)]
  BY DEF graphInit
<1>3. EdgesMirror
  BY <1>1 DEF graphInit, EdgesMirror, Edge
<1> QED
  BY <1>2, <1>3 DEF GraphInv, graphInit

----------------------------------------------------------------------------
(* Its search                                                              *)

Search == [queue : Seq(Node \X Nat), visited : SUBSET Node, results : Seq(Node)]

\* The edges that a visit of n follows.
EdgesOf(n) == outgoing[n] \o incoming[n]

LEMMA EdgesOfAre ==
    ASSUME GraphInv, NEW n \in Node, NEW relations
    PROVE  /\ EdgesOf(n) \in Seq(Edge)
           /\ \A e \in ToSet(EdgesOf(n)) : Beyond(n, e) \in Node
           /\ \A m : m \in Beside(n, relations) <=>
                 \E e \in ToSet(EdgesOf(n)) : e.relation \in relations /\ m = Beyond(n, e)
           /\ Beside(n, relations) \subseteq Node
<1>1. outgoing[n] \in Seq(Edge) /\ incoming[n] \in Seq(Edge)
  BY DEF GraphInv
<1>2. EdgesOf(n) \in Seq(Edge)
  BY <1>1 DEF EdgesOf
<1>3. ToSet(EdgesOf(n)) = ToSet(outgoing[n]) \cup ToSet(incoming[n])
  <2> DEFINE a == outgoing[n]
             b == incoming[n]
  <2>1. a \in Seq(Edge) /\ b \in Seq(Edge)
    BY <1>1
  <2> HIDE DEF a, b
  <2>2. \A i \in DOMAIN a : i \in DOMAIN (a \o b) /\ (a \o b)[i] = a[i]
    BY <2>1
  <2>3. \A i \in DOMAIN b : Len(a) + i \in DOMAIN (a \o b) /\ (a \o b)[Len(a) + i] = b[i]
    BY <2>1
  <2>4. \A i \in DOMAIN (a \o b) :
          \/ i \in DOMAIN a
          \/ i - Len(a) \in DOMAIN b /\ (a \o b)[i] = b[i - Len(a)]
    BY <2>1
  <2>5. ToSet(a \o b) = ToSet(a) \cup ToSet(b)
    <3> DEFINE c == a \o b
    <3>1. \A i \in DOMAIN c : c[i] \in ToSet(a) \cup ToSet(b)
      <4>1. \A i \in DOMAIN c : \/ i \in DOMAIN a /\ c[i] = a[i]
                                \/ i - Len(a) \in DOMAIN b /\ c[i] = b[i - Len(a)]
        BY <2>2, <2>4
      <4> HIDE DEF c
      <4> QED
        BY <4>1 DEF ToSet
    <3>2. \A i \in DOMAIN a : a[i] \in ToSet(c)
      <4>1. \A i \in DOMAIN a : i \in DOMAIN c /\ c[i] = a[i]
        BY <2>2
      <4> HIDE DEF c
      <4> QED
        BY <4>1 DEF ToSet
    <3>3. \A i \in DOMAIN b : b[i] \in ToSet(c)
      <4>1. \A i \in DOMAIN b : Len(a) + i \in DOMAIN c /\ c[Len(a) + i] = b[i]
        BY <2>3
      <4> HIDE DEF c
      <4> QED
        BY <4>1 DEF ToSet
    <3> HIDE DEF c
    <3>4. ToSet(c) = ToSet(a) \cup ToSet(b)
      BY <3>1, <3>2, <3>3 DEF ToSet
    <3> QED
      BY <3>4 DEF c
  <2> QED
    BY <2>5 DEF a, b, EdgesOf
<1>4. /\ ToSet(outgoing[n]) \subseteq EdgesFrom(n) /\ ToSet(incoming[n]) \subseteq EdgesTo(n)
      /\ \A e \in Edge : e \in ToSet(outgoing[e.from]) <=> e \in ToSet(incoming[e.to])
  BY DEF GraphInv, EdgesMirror
<1>5. \A e \in Edge : e.from \in Node /\ e.to \in Node
  BY DEF Edge
<1>6. \A e \in ToSet(EdgesOf(n)) : e \in Edge /\ Beyond(n, e) \in Node
  BY <1>3, <1>4, <1>5 DEF EdgesFrom, EdgesTo, Beyond
<1>7. \A e : e \in Edges <=> e \in Edge /\ e \in ToSet(outgoing[e.from])
  <2>1. ASSUME NEW e \in Edges PROVE e \in Edge /\ e \in ToSet(outgoing[e.from])
    <3>1. PICK m \in Node : e \in ToSet(outgoing[m])
      BY <2>1 DEF Edges
    <3>2. e \in EdgesFrom(m)
      BY <3>1 DEF GraphInv, EdgesMirror
    <3> QED
      BY <3>1, <3>2 DEF EdgesFrom
  <2>2. ASSUME NEW e \in Edge, e \in ToSet(outgoing[e.from]) PROVE e \in Edges
    BY <1>5, <2>2 DEF Edges
  <2> QED
    BY <2>1, <2>2
<1>8. \A e \in Edge : e.from = n => (e \in Edges <=> e \in ToSet(outgoing[n]))
  BY <1>7
<1>9. \A e \in Edge : e.to = n => (e \in Edges <=> e \in ToSet(incoming[n]))
  BY <1>4, <1>7
<1>10. Edges \subseteq Edge
  BY <1>7
<1>11. ASSUME NEW m \in Beside(n, relations)
       PROVE  \E e \in ToSet(EdgesOf(n)) : e.relation \in relations /\ m = Beyond(n, e)
  <2>1. PICK e \in Edges : /\ e.relation \in relations
                           /\ (e.from = n /\ m = e.to) \/ (e.to = n /\ m = e.from)
    BY <1>11 DEF Beside
  <2>2. m = Beyond(n, e)
    BY <2>1 DEF Beyond
  <2>3. e \in ToSet(EdgesOf(n))
    BY <1>3, <1>8, <1>9, <1>10, <2>1
  <2> QED
    BY <2>1, <2>2, <2>3
<1>12. ASSUME NEW e \in ToSet(EdgesOf(n)), e.relation \in relations
       PROVE  Beyond(n, e) \in Beside(n, relations)
  <2>1. e \in Edge /\ (e.from = n \/ e.to = n)
    BY <1>3, <1>4 DEF EdgesFrom, EdgesTo
  <2>2. CASE e.from = n
    <3>1. e \in Edges
      BY <1>3, <1>4, <1>8, <1>9, <2>1, <2>2 DEF EdgesTo
    <3> QED
      BY <1>12, <2>2, <3>1 DEF Beside, Beyond
  <2>3. CASE e.from # n
    <3>1. e \in Edges
      BY <1>3, <1>4, <1>9, <2>1, <2>3 DEF EdgesFrom
    <3> QED
      BY <1>12, <2>1, <2>3, <3>1 DEF Beside, Beyond
  <2> QED
    BY <2>2, <2>3
<1> QED
  BY <1>2, <1>6, <1>11, <1>12

\* A walk to x over k edges.
IsWalk(w, k, start, x, relations) ==
    /\ w \in [0..k -> Node] /\ w[0] = start /\ w[k] = x
    /\ \A i \in 1..k : w[i] \in Beside(w[i - 1], relations)

LEMMA WithinIs ==
    ASSUME NEW start \in Node, NEW depth \in Nat, NEW relations, NEW x
    PROVE  x \in Within(start, depth, relations) <=>
             \E k \in 0..depth : \E w : IsWalk(w, k, start, x, relations)
<1> DEFINE beside == [n \in Node |-> Beside(n, relations)]
           walks(k) == {w \in [0..k -> Node] : w[0] = start /\ \A i \in 1..k : w[i] \in beside[w[i - 1]]}
<1>1. ASSUME NEW k \in 0..depth, NEW w PROVE IsWalk(w, k, start, x, relations) <=> w \in walks(k) /\ x = w[k]
  <2>1. w \in [0..k -> Node] => \A i \in 1..k : beside[w[i - 1]] = Beside(w[i - 1], relations)
    <3> SUFFICES ASSUME w \in [0..k -> Node], NEW i \in 1..k PROVE beside[w[i - 1]] = Beside(w[i - 1], relations)
      OBVIOUS
    <3>1. i - 1 \in 0..k
      OBVIOUS
    <3>2. w[i - 1] \in Node
      BY <3>1
    <3> QED
      BY <3>2
  <2> QED
    BY <2>1 DEF IsWalk
<1>2. x \in Within(start, depth, relations) <=> \E k \in 0..depth : \E w \in walks(k) : x = w[k]
  BY DEF Within
<1> HIDE DEF walks
<1> QED
  BY <1>1, <1>2

LEMMA WithinGrows ==
    ASSUME GraphInv, NEW start \in Node, NEW depth \in Nat, NEW relations,
           NEW n \in Within(start, depth, relations), NEW x \in Beside(n, relations)
    PROVE  x \in Within(start, depth + 1, relations)
<1>0. PICK k \in 0..depth : \E w : IsWalk(w, k, start, n, relations)
  BY WithinIs
<1>1. PICK w : IsWalk(w, k, start, n, relations)
  BY <1>0
<1>2. n \in Node
  BY <1>1 DEF IsWalk
<1>3. x \in Node
  BY <1>2, EdgesOfAre
<1> DEFINE v == [i \in 0..(k + 1) |-> IF i \leq k THEN w[i] ELSE x]
<1>4. k + 1 \in 0..(depth + 1) /\ k \in Nat
  OBVIOUS
<1>5. v \in [0..(k + 1) -> Node] /\ v[0] = start /\ v[k + 1] = x
  BY <1>1, <1>3, <1>4 DEF IsWalk
<1>6. ASSUME NEW i \in 1..(k + 1) PROVE v[i] \in Beside(v[i - 1], relations)
  <2>1. CASE i = k + 1
    <3>1. v[i] = x /\ v[i - 1] = w[k]
      BY <1>4, <2>1
    <3> QED
      BY <1>1, <3>1 DEF IsWalk
  <2>2. CASE i # k + 1
    <3>1. i \in 1..k /\ v[i] = w[i] /\ v[i - 1] = w[i - 1]
      BY <1>4, <2>2
    <3> QED
      BY <1>1, <3>1 DEF IsWalk
  <2> QED
    BY <2>1, <2>2
<1>7. IsWalk(v, k + 1, start, x, relations)
  <2> HIDE DEF v
  <2> QED
    BY <1>5, <1>6 DEF IsWalk
<1> QED
  BY <1>4, <1>7, WithinIs

LEMMA WithinMore ==
    ASSUME NEW start \in Node, NEW depth \in Nat, NEW d \in 0..depth, NEW relations,
           NEW x \in Within(start, d, relations)
    PROVE  x \in Within(start, depth, relations)
<1>1. d \in Nat
  OBVIOUS
<1>2. PICK k \in 0..d : \E w : IsWalk(w, k, start, x, relations)
  BY <1>1, WithinIs
<1>3. k \in 0..depth
  OBVIOUS
<1> QED
  BY <1>2, <1>3, WithinIs

LEMMA MeetIsSearch ==
    ASSUME NEW s \in Search, NEW n \in Node, NEW d \in Nat
    PROVE  Meet(s, n, d) \in Search
  BY DEF Meet, Search

LEMMA FollowIsSearch ==
    ASSUME NEW s \in Search, NEW c \in Node \X Nat, NEW e, Beyond(c[1], e) \in Node, NEW relations
    PROVE  Follow(s, c, e, relations) \in Search
<1>1. c[2] + 1 \in Nat
  OBVIOUS
<1> QED
  BY <1>1, MeetIsSearch DEF Follow

\* The searches after each of the edges.
Follows(r, s, c, list, relations) ==
    /\ r \in [0..Len(list) -> Search] /\ r[0] = s
    /\ \A n \in 1..Len(list) : r[n] = Follow(r[n - 1], c, list[n], relations)

LEMMA FollowAllIs ==
    ASSUME NEW s \in Search, NEW c \in Node \X Nat, NEW relations,
           NEW list \in Seq(Edge), \A e \in ToSet(list) : Beyond(c[1], e) \in Node
    PROVE  \E r : Follows(r, s, c, list, relations) /\ FollowAll(s, c, list, relations) = r[Len(list)]
<1> DEFINE N == Len(list)
           To(t, i) == Follow(t, c, list[i], relations)
           Is(g) == g = [S \in SUBSET (1..N) |-> IF S = {} THEN s ELSE To(g[S \ {Max(S)}], Max(S))]
           F == CHOOSE g : Is(g)
           step == [i \in 1..N |-> [t \in Search |-> To(t, i)]]
<1>1. N \in Nat /\ DOMAIN list = 1..N
  OBVIOUS
<1>2. \A i \in 1..N, t \in Search : To(t, i) \in Search
  <2>1. \A i \in 1..N : Beyond(c[1], list[i]) \in Node
    BY <1>1 DEF ToSet
  <2> QED
    BY <2>1, FollowIsSearch
<1>3. FollowAll(s, c, list, relations) = F[1..N]
  <2>1. FollowAll(s, c, list, relations) =
          (CHOOSE g : g = [S \in SUBSET DOMAIN list |-> IF S = {} THEN s ELSE To(g[S \ {Max(S)}], Max(S))])[DOMAIN list]
    BY DEF FollowAll, FoldLeft, MapThenFoldSet
  <2> HIDE DEF To
  <2> QED
    BY <1>1, <2>1
<1> HIDE DEF N, To
<1>4. step \in [1..N -> [Search -> Search]]
  BY <1>2
<1>5. PICK h \in [SUBSET (1..N) -> Search] : FoldOf(h, s, N, step)
  <2> HIDE DEF step
  <2> QED
    BY <1>1, <1>4, FoldsExist
<1>6. Is(h)
  <2>1. ASSUME NEW S \in SUBSET (1..N), S # {}
        PROVE  step[Max(S)][h[S \ {Max(S)}]] = To(h[S \ {Max(S)}], Max(S))
    <3>1. Max(S) \in 1..N
      BY <1>1, <2>1, MaxIsIn
    <3>2. h[S \ {Max(S)}] \in Search
      BY <1>5
    <3> QED
      BY <3>1, <3>2
  <2> HIDE DEF step
  <2> QED
    BY <1>5, <2>1 DEF FoldOf
<1>7. Is(F)
  <2> HIDE DEF Is
  <2> QED
    BY <1>6
<1> HIDE DEF F
<1>8. F[1..0] = s
  <2>1. 1..0 = {}
    OBVIOUS
  <2> QED
    BY <1>7, <2>1
<1>9. ASSUME NEW n \in 1..N PROVE F[1..n] = To(F[1..(n - 1)], n)
  BY <1>1, <1>7, BeginningsAre
<1> DEFINE P == {n \in 0..N : F[1..n] \in Search}
<1>10. \A n \in 0..N : n \in P
  <2>1. 0 \in P
    BY <1>1, <1>8
  <2>2. ASSUME NEW n \in 1..N, n - 1 \in P PROVE n \in P
    BY <1>1, <1>2, <1>9, <2>2
  <2> HIDE DEF P
  <2> QED
    BY <1>1, <2>1, <2>2, CountUp
<1> DEFINE r == [n \in 0..N |-> F[1..n]]
<1>11. r \in [0..N -> Search] /\ r[0] = s /\ r[N] = F[1..N]
  BY <1>1, <1>8, <1>10
<1>12. ASSUME NEW n \in 1..N PROVE r[n] = To(r[n - 1], n)
  <2>1. n \in 0..N /\ n - 1 \in 0..N
    BY <1>1
  <2> QED
    BY <1>9, <2>1
<1> HIDE DEF r
<1>13. Follows(r, s, c, list, relations)
  BY <1>11, <1>12 DEF Follows, N, To
<1> QED
  BY <1>3, <1>11, <1>13 DEF N

LEMMA TurnIsSearch ==
    ASSUME GraphInv, NEW s \in Search, NEW depth, NEW relations
    PROVE  Turn(s, depth, relations) \in Search
<1>1. CASE s.queue = <<>>
  BY <1>1 DEF Turn
<1>2. CASE s.queue # <<>>
  <2> DEFINE c == Head(s.queue)
             rest == [s EXCEPT !.queue = Tail(@)]
  <2>1. c \in Node \X Nat /\ rest \in Search
    <3>1. s.queue \in Seq(Node \X Nat) /\ s.queue # <<>>
      BY <1>2 DEF Search
    <3>2. Head(s.queue) \in Node \X Nat /\ Tail(s.queue) \in Seq(Node \X Nat)
      <4> DEFINE q == s.queue
      <4> HIDE DEF q
      <4>1. q \in Seq(Node \X Nat) /\ q # <<>>
        BY <3>1 DEF q
      <4>2. Head(q) \in Node \X Nat /\ Tail(q) \in Seq(Node \X Nat)
        BY <4>1
      <4> QED
        BY <4>2 DEF q
    <3> QED
      BY <3>2 DEF Search
  <2>2. Turn(s, depth, relations) = IF c[2] >= depth THEN rest
                                    ELSE FollowAll(rest, c, EdgesOf(c[1]), relations)
    BY <1>2 DEF Turn, Visit, EdgesOf
  <2> HIDE DEF c, rest
  <2>3. c[1] \in Node
    BY <2>1
  <2>4. PICK r : /\ Follows(r, rest, c, EdgesOf(c[1]), relations)
                 /\ FollowAll(rest, c, EdgesOf(c[1]), relations) = r[Len(EdgesOf(c[1]))]
    BY <2>1, <2>3, FollowAllIs, EdgesOfAre
  <2>5. Len(EdgesOf(c[1])) \in 0..Len(EdgesOf(c[1]))
    BY <2>3, EdgesOfAre
  <2> QED
    BY <2>1, <2>2, <2>4, <2>5 DEF Follows
<1> QED
  BY <1>1, <1>2

\* The searches after each turn.
Turns(r, start, depth, relations, N) ==
    /\ r \in [0..N -> Search] /\ r[0] = Begun(start)
    /\ \A n \in 1..N : r[n] = Turn(r[n - 1], depth, relations)

LEMMA FindRelatedIs ==
    ASSUME GraphInv, NEW start \in Node, NEW depth, NEW relations
    PROVE  \E r : /\ Turns(r, start, depth, relations, Cardinality(Node))
                  /\ FindRelated(start, depth, relations) = r[Cardinality(Node)]
<1> DEFINE N == Cardinality(Node)
           s == Begun(start)
           list == [i \in 1..N |-> i]
           To(t) == Turn(t, depth, relations)
           Is(g) == g = [S \in SUBSET (1..N) |-> IF S = {} THEN s ELSE To(g[S \ {Max(S)}])]
           F == CHOOSE g : Is(g)
           step == [i \in 1..N |-> [t \in Search |-> To(t)]]
<1>1. N \in Nat /\ DOMAIN list = 1..N
  BY GraphAssumption, FS_CardinalityType
<1>2. \A t \in Search : To(t) \in Search
  BY TurnIsSearch
<1>s. s \in Search
  BY DEF Begun, Search
<1>3. FindRelated(start, depth, relations) = F[1..N]
  <2>1. FindRelated(start, depth, relations) =
          (CHOOSE g : g = [S \in SUBSET DOMAIN list |-> IF S = {} THEN s ELSE To(g[S \ {Max(S)}])])[DOMAIN list]
    BY DEF FindRelated, FoldLeft, MapThenFoldSet
  <2> HIDE DEF To, s, list, N
  <2> QED
    BY <1>1, <2>1
<1> HIDE DEF N, To, s
<1>4. step \in [1..N -> [Search -> Search]]
  BY <1>2
<1>5. PICK h \in [SUBSET (1..N) -> Search] : FoldOf(h, s, N, step)
  <2> HIDE DEF step
  <2> QED
    BY <1>1, <1>4, <1>s, FoldsExist
<1>6. Is(h)
  <2>1. ASSUME NEW S \in SUBSET (1..N), S # {}
        PROVE  step[Max(S)][h[S \ {Max(S)}]] = To(h[S \ {Max(S)}])
    <3>1. Max(S) \in 1..N
      BY <1>1, <2>1, MaxIsIn
    <3>2. h[S \ {Max(S)}] \in Search
      BY <1>5
    <3> QED
      BY <3>1, <3>2
  <2> HIDE DEF step
  <2> QED
    BY <1>5, <2>1 DEF FoldOf
<1>7. Is(F)
  <2> HIDE DEF Is
  <2> QED
    BY <1>6
<1> HIDE DEF F
<1>8. F[1..0] = s
  <2>1. 1..0 = {}
    OBVIOUS
  <2> QED
    BY <1>7, <2>1
<1>9. ASSUME NEW n \in 1..N PROVE F[1..n] = To(F[1..(n - 1)])
  <2>1. 1..n \in SUBSET (1..N) /\ 1..n # {} /\ (1..n) \ {Max(1..n)} = 1..(n - 1)
    BY <1>1, BeginningsAre
  <2> QED
    BY <1>7, <2>1
<1> DEFINE P == {n \in 0..N : F[1..n] \in Search}
<1>10. \A n \in 0..N : n \in P
  <2>1. 0 \in P
    BY <1>1, <1>8, <1>s
  <2>2. ASSUME NEW n \in 1..N, n - 1 \in P PROVE n \in P
    BY <1>1, <1>2, <1>9, <2>2
  <2> HIDE DEF P
  <2> QED
    BY <1>1, <2>1, <2>2, CountUp
<1> DEFINE r == [n \in 0..N |-> F[1..n]]
<1>11. r \in [0..N -> Search] /\ r[0] = s /\ r[N] = F[1..N]
  BY <1>1, <1>8, <1>10
<1>12. ASSUME NEW n \in 1..N PROVE r[n] = To(r[n - 1])
  <2>1. n \in 0..N /\ n - 1 \in 0..N
    BY <1>1
  <2> QED
    BY <1>9, <2>1
<1> HIDE DEF r
<1>13. Turns(r, start, depth, relations, N)
  BY <1>11, <1>12 DEF Turns, To, s
<1> QED
  BY <1>3, <1>11, <1>13 DEF N

Queued(q, m) == \E i \in DOMAIN q : q[i][1] = m

\* The queue holds each id once, with its distance, nearer ones first, and
\* no two distances differ by more than one.
QueueIsOrdered(q, visited, dist) ==
    /\ \A i \in DOMAIN q : q[i][1] \in visited /\ q[i][2] = dist[q[i][1]]
    /\ \A i, j \in DOMAIN q : i < j => q[i][1] # q[j][1] /\ q[i][2] \leq q[j][2]
    /\ \A i, j \in DOMAIN q : q[j][2] \leq q[i][2] + 1

\* What has been visited is within its distance of the start; what is in the
\* table is among the results, once.
Known(s, dist, start, depth, relations) ==
    /\ s \in Search /\ dist \in [Node -> Nat]
    /\ start \in s.visited /\ dist[start] = 0
    /\ \A m \in s.visited : dist[m] \leq depth /\ m \in Within(start, dist[m], relations)
    /\ QueueIsOrdered(s.queue, s.visited, dist)
    /\ ToSet(s.results) = (s.visited \cap nodes_) \ {start}
    /\ IsInjective(s.results)

\* The ids beside m are known, and no further than one more edge.
Explored(m, visited, dist, depth, relations) ==
    dist[m] < depth => \A x \in Beside(m, relations) : x \in visited /\ dist[x] \leq dist[m] + 1

\* After so many turns.
SearchInv(s, dist, turns, start, depth, relations) ==
    /\ Known(s, dist, start, depth, relations)
    /\ \A m \in s.visited : ~Queued(s.queue, m) =>
          /\ \A i \in DOMAIN s.queue : dist[m] \leq s.queue[i][2]
          /\ Explored(m, s.visited, dist, depth, relations)
    /\ s.queue = <<>> \/ turns + Len(s.queue) = Cardinality(s.visited)

\* During a visit of c, after k of its edges.
VisitInv(s, dist, c, k, turns, start, depth, relations) ==
    /\ Known(s, dist, start, depth, relations)
    /\ c \in Node \X Nat /\ c[1] \in s.visited /\ dist[c[1]] = c[2] /\ ~Queued(s.queue, c[1])
    /\ \A i \in DOMAIN s.queue : c[2] \leq s.queue[i][2] /\ s.queue[i][2] \leq c[2] + 1
    /\ \A m \in s.visited : m # c[1] /\ ~Queued(s.queue, m) =>
          dist[m] \leq c[2] /\ Explored(m, s.visited, dist, depth, relations)
    /\ \A i \in 1..k : EdgesOf(c[1])[i].relation \in relations =>
          Beyond(c[1], EdgesOf(c[1])[i]) \in s.visited
    /\ turns + Len(s.queue) = Cardinality(s.visited)

\* An id that was not known enters the queue behind the others.
LEMMA MeetKeepsVisit ==
    ASSUME GraphInv, NEW start \in Node, NEW depth \in Nat, NEW relations, NEW turns \in Nat,
           NEW s, NEW dist, NEW c, NEW k \in Nat,
           VisitInv(s, dist, c, k, turns, start, depth, relations), c[2] < depth,
           NEW x \in Beside(c[1], relations), x \notin s.visited
    PROVE  VisitInv(Meet(s, x, c[2] + 1), [dist EXCEPT ![x] = c[2] + 1], c, k, turns, start, depth, relations)
<1> DEFINE q == s.queue
           d == c[2] + 1
           p == <<x, d>>
           far == [dist EXCEPT ![x] = d]
           q1 == Append(q, p)
           seen == s.visited
           seen1 == seen \cup {x}
           res == s.results
           res1 == IF x \in nodes_ THEN Append(res, x) ELSE res
           t == [queue |-> q1, visited |-> seen1, results |-> res1]
<1>1. Known(s, dist, start, depth, relations) /\ QueueIsOrdered(q, seen, dist)
  BY DEF VisitInv, Known
<1>2. /\ q \in Seq(Node \X Nat) /\ seen \subseteq Node /\ res \in Seq(Node) /\ dist \in [Node -> Nat]
      /\ start \in seen /\ dist[start] = 0
  BY <1>1 DEF Known, Search
<1>3. c \in Node \X Nat /\ c[1] \in seen /\ dist[c[1]] = c[2] /\ ~Queued(q, c[1]) /\ c[1] \in Node /\ d \in Nat
  BY DEF VisitInv
<1>4. x \in Node /\ x \notin seen /\ x # c[1] /\ x # start
  BY <1>2, <1>3, EdgesOfAre
<1>5. far \in [Node -> Nat] /\ far[x] = d /\ \A m \in seen : far[m] = dist[m]
  BY <1>2, <1>3, <1>4
<1>6. Meet(s, x, d) = t
  BY DEF Meet
<1>7. p \in Node \X Nat /\ p[1] = x /\ p[2] = d
  BY <1>3, <1>4
<1> HIDE DEF q, d, p, far, seen
<1>8. /\ q1 \in Seq(Node \X Nat) /\ Len(q1) = Len(q) + 1 /\ Len(q) \in Nat
      /\ DOMAIN q = 1..Len(q) /\ DOMAIN q1 = 1..(Len(q) + 1)
      /\ \A i \in DOMAIN q : i \in DOMAIN q1 /\ q1[i] = q[i]
      /\ Len(q) + 1 \in DOMAIN q1 /\ q1[Len(q) + 1] = p
      /\ \A i \in DOMAIN q1 : i \in DOMAIN q \/ i = Len(q) + 1
  BY <1>2, <1>7
<1>9. \A i \in DOMAIN q : q[i][1] \in seen /\ q[i][1] \in Node /\ q[i][2] \in Nat
  BY <1>1, <1>2 DEF QueueIsOrdered
<1>10. \A i \in DOMAIN q : c[2] \leq q[i][2] /\ q[i][2] \leq d
  BY DEF VisitInv, q, d
<1> HIDE DEF q1, res1
<1>11. QueueIsOrdered(q1, seen1, far)
  <2>1. ASSUME NEW i \in DOMAIN q1 PROVE q1[i][1] \in seen1 /\ q1[i][2] = far[q1[i][1]]
    <3>1. CASE i \in DOMAIN q
      <4>1. q1[i] = q[i] /\ q[i][1] \in seen
        BY <1>8, <1>9, <3>1
      <4>2. q[i][2] = dist[q[i][1]]
        BY <1>1, <3>1 DEF QueueIsOrdered
      <4>3. far[q[i][1]] = dist[q[i][1]]
        BY <1>5, <4>1
      <4> QED
        BY <4>1, <4>2, <4>3
    <3>2. CASE i = Len(q) + 1
      BY <1>5, <1>7, <1>8, <3>2
    <3> QED
      BY <1>8, <2>1, <3>1, <3>2
  <2>2. ASSUME NEW i \in DOMAIN q1, NEW j \in DOMAIN q1, i < j
        PROVE  q1[i][1] # q1[j][1] /\ q1[i][2] \leq q1[j][2]
    <3>1. i \in DOMAIN q
      BY <1>8, <2>2
    <3>2. CASE j \in DOMAIN q
      BY <1>1, <1>8, <2>2, <3>1, <3>2 DEF QueueIsOrdered
    <3>3. CASE j = Len(q) + 1
      BY <1>4, <1>7, <1>8, <1>9, <1>10, <3>1, <3>3
    <3> QED
      BY <1>8, <3>2, <3>3
  <2>3. ASSUME NEW i \in DOMAIN q1, NEW j \in DOMAIN q1 PROVE q1[j][2] \leq q1[i][2] + 1
    <3>1. \A l \in DOMAIN q1 : q1[l][2] \in Nat /\ c[2] \leq q1[l][2] /\ q1[l][2] \leq d
      <4>1. c[2] \leq d /\ c[2] \in Nat
        BY <1>3 DEF d
      <4> TAKE l \in DOMAIN q1
      <4>2. CASE l \in DOMAIN q
        <5>1. q1[l] = q[l]
          BY <1>8, <4>2
        <5> QED
          BY <1>9, <1>10, <4>2, <5>1
      <4>3. CASE l = Len(q) + 1
        <5>1. q1[l] = p
          BY <1>8, <4>3
        <5> QED
          BY <1>3, <1>7, <4>1, <5>1
      <4> QED
        BY <1>8, <4>2, <4>3
    <3>2. c[2] \in Nat /\ d = c[2] + 1
      BY <1>3 DEF d
    <3> QED
      BY <3>1, <3>2
  <2> QED
    BY <2>1, <2>2, <2>3 DEF QueueIsOrdered
<1>12. ToSet(res1) = (seen1 \cap nodes_) \ {start} /\ IsInjective(res1) /\ res1 \in Seq(Node)
  <2>1. ToSet(res) = (seen \cap nodes_) \ {start} /\ IsInjective(res)
    BY <1>1 DEF Known, seen
  <2>2. CASE x \in nodes_
    <3>1. res1 = Append(res, x)
      BY <2>2 DEF res1
    <3> HIDE DEF res
    <3>2. /\ Append(res, x) \in Seq(Node) /\ DOMAIN Append(res, x) = DOMAIN res \cup {Len(res) + 1}
          /\ \A i \in DOMAIN res : Append(res, x)[i] = res[i]
          /\ Append(res, x)[Len(res) + 1] = x
      BY <1>2, <1>4 DEF res
    <3>3. ToSet(Append(res, x)) = ToSet(res) \cup {x}
      BY <3>2 DEF ToSet
    <3>4. \A i \in DOMAIN res : res[i] # x
      BY <1>4, <2>1 DEF ToSet
    <3>5. IsInjective(Append(res, x))
      BY <2>1, <3>2, <3>4 DEF IsInjective
    <3> QED
      BY <1>4, <2>1, <2>2, <3>1, <3>2, <3>3, <3>5
  <2>3. CASE x \notin nodes_
    BY <1>2, <2>1, <2>3 DEF res1
  <2> QED
    BY <2>2, <2>3
<1>13. Known(t, far, start, depth, relations)
  <2>1. t \in Search
    BY <1>2, <1>4, <1>8, <1>12 DEF Search
  <2>2. ASSUME NEW m \in seen1 PROVE far[m] \leq depth /\ m \in Within(start, far[m], relations)
    <3>1. CASE m \in seen
      BY <1>1, <1>5, <3>1 DEF Known, seen
    <3>2. CASE m = x
      <4>1. c[1] \in Within(start, c[2], relations)
        BY <1>1, <1>3 DEF Known, seen
      <4>2. x \in Within(start, d, relations)
        BY <1>3, <4>1, WithinGrows DEF d
      <4>3. d \leq depth
        BY <1>3 DEF d
      <4> QED
        BY <1>5, <3>2, <4>2, <4>3
    <3> QED
      BY <3>1, <3>2
  <2>3. far[start] = 0 /\ start \in seen1
    BY <1>2, <1>5
  <2> QED
    BY <1>5, <1>11, <1>12, <2>1, <2>2, <2>3 DEF Known
<1>14. \A m : Queued(q1, m) <=> Queued(q, m) \/ m = x
  <2>1. ASSUME NEW m, Queued(q1, m) PROVE Queued(q, m) \/ m = x
    BY <1>7, <1>8, <2>1 DEF Queued
  <2>2. ASSUME NEW m, Queued(q, m) PROVE Queued(q1, m)
    BY <1>8, <2>2 DEF Queued
  <2>3. Queued(q1, x)
    BY <1>7, <1>8 DEF Queued
  <2> QED
    BY <2>1, <2>2, <2>3
<1>15. ASSUME NEW m \in seen1, m # c[1], ~Queued(q1, m)
       PROVE  far[m] \leq c[2] /\ Explored(m, seen1, far, depth, relations)
  <2>1. m \in seen /\ ~Queued(q, m)
    BY <1>14, <1>15
  <2>2. dist[m] \leq c[2] /\ Explored(m, seen, dist, depth, relations)
    BY <1>15, <2>1 DEF VisitInv, seen, q
  <2>3. far[m] = dist[m]
    BY <1>5, <2>1
  <2>4. Explored(m, seen1, far, depth, relations)
    BY <1>5, <2>2, <2>3 DEF Explored
  <2> QED
    BY <2>2, <2>3, <2>4
<1>16. turns + Len(q1) = Cardinality(seen1)
  <2>1. IsFiniteSet(seen)
    BY <1>2, GraphAssumption, FS_Subset
  <2>2. Cardinality(seen1) = Cardinality(seen) + 1
    BY <1>4, <2>1, FS_AddElement
  <2>3. turns + Len(q) = Cardinality(seen)
    BY DEF VisitInv, q, seen
  <2> QED
    BY <1>8, <2>2, <2>3
<1>17. \A i \in DOMAIN q1 : c[2] \leq q1[i][2] /\ q1[i][2] \leq c[2] + 1
  <2>1. c[2] \leq d /\ d = c[2] + 1
    BY <1>3 DEF d
  <2> QED
    BY <1>7, <1>8, <1>10, <2>1
<1>18. \A i \in 1..k : EdgesOf(c[1])[i].relation \in relations =>
          Beyond(c[1], EdgesOf(c[1])[i]) \in seen1
  BY DEF VisitInv, seen
<1>19. c[1] \in seen1 /\ far[c[1]] = c[2] /\ ~Queued(q1, c[1])
  BY <1>3, <1>4, <1>5, <1>14
<1>20. t.queue = q1 /\ t.visited = seen1
  OBVIOUS
<1> HIDE DEF t, seen1
<1>21. VisitInv(t, far, c, k, turns, start, depth, relations)
  BY <1>3, <1>13, <1>15, <1>16, <1>17, <1>18, <1>19, <1>20 DEF VisitInv
<1> QED
  BY <1>6, <1>21 DEF d, far

LEMMA FollowKeepsVisit ==
    ASSUME GraphInv, NEW start \in Node, NEW depth \in Nat, NEW relations, NEW turns \in Nat,
           NEW s, NEW dist, NEW c, c[1] \in Node, NEW k \in 1..Len(EdgesOf(c[1])),
           VisitInv(s, dist, c, k - 1, turns, start, depth, relations), c[2] < depth
    PROVE  \E far : VisitInv(Follow(s, c, EdgesOf(c[1])[k], relations), far, c, k, turns, start, depth, relations)
<1> DEFINE e == EdgesOf(c[1])[k]
           x == Beyond(c[1], e)
<1>1. EdgesOf(c[1]) \in Seq(Edge) /\ Len(EdgesOf(c[1])) \in Nat /\ e \in ToSet(EdgesOf(c[1]))
  <2>1. EdgesOf(c[1]) \in Seq(Edge)
    BY EdgesOfAre
  <2>2. k \in DOMAIN EdgesOf(c[1])
    BY <2>1
  <2> QED
    BY <2>1, <2>2 DEF ToSet
<1>2. k - 1 \in Nat /\ \A i \in 1..k : i \in 1..(k - 1) \/ i = k
  BY <1>1
<1>3. ASSUME NEW t, NEW far, VisitInv(t, far, c, k - 1, turns, start, depth, relations),
             e.relation \in relations => x \in t.visited
      PROVE  VisitInv(t, far, c, k, turns, start, depth, relations)
  <2>1. \A i \in 1..k : EdgesOf(c[1])[i].relation \in relations =>
          Beyond(c[1], EdgesOf(c[1])[i]) \in t.visited
    BY <1>2, <1>3 DEF VisitInv
  <2> QED
    BY <1>3, <2>1 DEF VisitInv
<1>4. CASE e.relation \notin relations
  <2>1. Follow(s, c, e, relations) = s
    BY <1>4 DEF Follow
  <2> QED
    BY <1>3, <1>4, <2>1
<1>5. CASE e.relation \in relations /\ x \in s.visited
  <2>1. Follow(s, c, e, relations) = s
    BY <1>5 DEF Follow, Meet
  <2> QED
    BY <1>3, <1>5, <2>1
<1>6. CASE e.relation \in relations /\ x \notin s.visited
  <2>1. Follow(s, c, e, relations) = Meet(s, x, c[2] + 1) /\ x \in Meet(s, x, c[2] + 1).visited
    BY <1>6 DEF Follow, Meet
  <2>2. x \in Beside(c[1], relations)
    BY <1>1, <1>6, EdgesOfAre
  <2> DEFINE far == [dist EXCEPT ![x] = c[2] + 1]
  <2>3. VisitInv(Meet(s, x, c[2] + 1), far, c, k - 1, turns, start, depth, relations)
    <3> HIDE DEF x
    <3> QED
      BY <1>2, <1>6, <2>2, MeetKeepsVisit
  <2> HIDE DEF far
  <2> QED
    BY <1>3, <2>1, <2>3
<1> QED
  BY <1>4, <1>5, <1>6

LEMMA VisitEnds ==
    ASSUME GraphInv, NEW start \in Node, NEW depth \in Nat, NEW relations, NEW turns,
           NEW s, NEW dist, NEW c, NEW k, VisitInv(s, dist, c, k, turns, start, depth, relations),
           c[2] >= depth \/ k = Len(EdgesOf(c[1]))
    PROVE  SearchInv(s, dist, turns, start, depth, relations)
<1>1. /\ Known(s, dist, start, depth, relations)
      /\ dist \in [Node -> Nat] /\ s.visited \subseteq Node
      /\ c \in Node \X Nat /\ c[1] \in s.visited /\ dist[c[1]] = c[2]
  BY DEF VisitInv, Known, Search
<1>2. \A i \in DOMAIN s.queue : s.queue[i][2] \in Nat /\ s.queue[i][2] = dist[s.queue[i][1]]
  <2>1. \A i \in DOMAIN s.queue : s.queue[i][1] \in s.visited /\ s.queue[i][2] = dist[s.queue[i][1]]
    BY <1>1 DEF Known, QueueIsOrdered
  <2> QED
    BY <1>1, <2>1
<1>3. ASSUME NEW m \in s.visited PROVE dist[m] \leq c[2] + 1
  <2>1. CASE m = c[1]
    BY <1>1, <2>1
  <2>2. CASE m # c[1] /\ ~Queued(s.queue, m)
    <3>1. dist[m] \leq c[2] /\ dist[m] \in Nat /\ c[2] \in Nat
      BY <1>1, <2>2 DEF VisitInv
    <3> QED
      BY <3>1
  <2>3. CASE Queued(s.queue, m)
    <3>1. PICK i \in DOMAIN s.queue : s.queue[i][1] = m
      BY <2>3 DEF Queued
    <3> QED
      BY <1>2, <3>1 DEF VisitInv
  <2> QED
    BY <2>1, <2>2, <2>3
<1>4. Explored(c[1], s.visited, dist, depth, relations)
  <2>1. CASE c[2] >= depth
    BY <1>1, <2>1 DEF Explored
  <2>2. CASE k = Len(EdgesOf(c[1]))
    <3>1. ASSUME NEW x \in Beside(c[1], relations) PROVE x \in s.visited
      <4>1. PICK e \in ToSet(EdgesOf(c[1])) : e.relation \in relations /\ x = Beyond(c[1], e)
        BY <1>1, EdgesOfAre
      <4>2. EdgesOf(c[1]) \in Seq(Edge)
        BY <1>1, EdgesOfAre
      <4>3. PICK i \in DOMAIN EdgesOf(c[1]) : EdgesOf(c[1])[i] = e
        BY DEF ToSet
      <4>4. i \in 1..k
        BY <2>2, <4>2
      <4> QED
        BY <4>1, <4>3, <4>4 DEF VisitInv
    <3>2. \A x \in Beside(c[1], relations) : x \in s.visited /\ dist[x] \leq dist[c[1]] + 1
      BY <1>1, <1>3, <3>1
    <3> QED
      BY <3>2 DEF Explored
  <2> QED
    BY <2>1, <2>2
<1>5. ASSUME NEW m \in s.visited, ~Queued(s.queue, m)
      PROVE  /\ \A i \in DOMAIN s.queue : dist[m] \leq s.queue[i][2]
             /\ Explored(m, s.visited, dist, depth, relations)
  <2>1. dist[m] \leq c[2] /\ Explored(m, s.visited, dist, depth, relations)
    <3>1. CASE m = c[1]
      <4>1. c[2] \in Nat
        BY <1>1
      <4> QED
        BY <1>1, <1>4, <3>1, <4>1
    <3>2. CASE m # c[1]
      BY <1>5, <3>2 DEF VisitInv
    <3> QED
      BY <3>1, <3>2
  <2>2. \A i \in DOMAIN s.queue : c[2] \leq s.queue[i][2]
    BY DEF VisitInv
  <2>3. dist[m] \in Nat /\ c[2] \in Nat
    BY <1>1
  <2> QED
    BY <1>2, <2>1, <2>2, <2>3
<1>6. turns + Len(s.queue) = Cardinality(s.visited)
  BY DEF VisitInv
<1> QED
  BY <1>1, <1>5, <1>6 DEF SearchInv

\* The id that is taken from the queue is the nearest one there.
LEMMA VisitBegins ==
    ASSUME GraphInv, NEW start \in Node, NEW depth \in Nat, NEW relations, NEW turns \in Nat,
           NEW s, NEW dist, SearchInv(s, dist, turns, start, depth, relations), s.queue # <<>>
    PROVE  VisitInv([s EXCEPT !.queue = Tail(@)], dist, Head(s.queue), 0, turns + 1, start, depth, relations)
<1> DEFINE q == s.queue
           c == Head(q)
           q1 == Tail(q)
           t == [s EXCEPT !.queue = q1]
<1>1. Known(s, dist, start, depth, relations) /\ s \in Search /\ q \in Seq(Node \X Nat) /\ q # <<>>
  BY DEF SearchInv, Known, Search
<1>2. /\ t \in Search /\ t.queue = q1 /\ t.visited = s.visited /\ t.results = s.results
  <2>1. q1 \in Seq(Node \X Nat)
    <3> HIDE DEF q
    <3> QED
      BY <1>1
  <2> HIDE DEF q1
  <2> QED
    BY <1>1, <2>1 DEF Search
<1>3. QueueIsOrdered(q, s.visited, dist)
  BY <1>1 DEF Known
<1>4. turns + Len(q) = Cardinality(s.visited)
  BY DEF SearchInv
<1>5. \A m \in s.visited : ~Queued(q, m) =>
        (\A i \in DOMAIN q : dist[m] \leq q[i][2]) /\ Explored(m, s.visited, dist, depth, relations)
  BY DEF SearchInv
<1> HIDE DEF q
<1>6. /\ c = q[1] /\ c \in Node \X Nat /\ Len(q) \in Nat /\ Len(q) >= 1
      /\ Len(q1) = Len(q) - 1 /\ DOMAIN q1 = 1..(Len(q) - 1) /\ DOMAIN q = 1..Len(q)
      /\ \A i \in DOMAIN q1 : q1[i] = q[i + 1]
  BY <1>1
<1> HIDE DEF q1, c
<1>7. /\ \A i \in DOMAIN q1 : i \in Nat /\ i + 1 \in DOMAIN q /\ 1 < i + 1 /\ q1[i] = q[i + 1]
      /\ 1 \in DOMAIN q
      /\ \A i \in DOMAIN q : i # 1 => i - 1 \in DOMAIN q1 /\ q1[i - 1] = q[i]
  <2>1. \A i \in DOMAIN q : i # 1 => i - 1 \in DOMAIN q1 /\ (i - 1) + 1 = i
    BY <1>6
  <2>2. \A i \in DOMAIN q : i # 1 => q1[i - 1] = q[i]
    BY <1>6, <2>1
  <2>3. 1 \in DOMAIN q
    BY <1>6
  <2>4. \A i \in DOMAIN q1 : i \in Nat /\ i + 1 \in DOMAIN q /\ 1 < i + 1
    BY <1>6
  <2> QED
    BY <1>6, <2>1, <2>2, <2>3, <2>4
<1>8. QueueIsOrdered(q1, s.visited, dist)
  <2>1. \A i \in DOMAIN q1 : q1[i][1] \in s.visited /\ q1[i][2] = dist[q1[i][1]]
    BY <1>3, <1>7 DEF QueueIsOrdered
  <2>2. \A i, j \in DOMAIN q1 : i < j => q1[i][1] # q1[j][1] /\ q1[i][2] \leq q1[j][2]
    <3> TAKE i, j \in DOMAIN q1
    <3> HAVE i < j
    <3>1. i + 1 \in DOMAIN q /\ j + 1 \in DOMAIN q /\ i + 1 < j + 1
      BY <1>7
    <3>2. q[i + 1][1] # q[j + 1][1] /\ q[i + 1][2] \leq q[j + 1][2]
      BY <1>3, <3>1 DEF QueueIsOrdered
    <3> QED
      BY <1>7, <3>2
  <2>3. \A i, j \in DOMAIN q1 : q1[j][2] \leq q1[i][2] + 1
    BY <1>3, <1>7 DEF QueueIsOrdered
  <2> QED
    BY <2>1, <2>2, <2>3 DEF QueueIsOrdered
<1>9. Known(t, dist, start, depth, relations)
  <2> HIDE DEF t
  <2> QED
    BY <1>1, <1>2, <1>8 DEF Known
<1>10. c[1] \in s.visited /\ dist[c[1]] = c[2] /\ ~Queued(q1, c[1])
  <2>1. c[1] \in s.visited /\ dist[c[1]] = c[2]
    BY <1>3, <1>6, <1>7 DEF QueueIsOrdered
  <2>2. ASSUME NEW i \in DOMAIN q1 PROVE q1[i][1] # c[1]
    <3>1. 1 \in DOMAIN q /\ i + 1 \in DOMAIN q /\ 1 < i + 1
      BY <1>7
    <3>2. q[1][1] # q[i + 1][1]
      BY <1>3, <3>1 DEF QueueIsOrdered
    <3> QED
      BY <1>6, <1>7, <3>2
  <2> QED
    BY <2>1, <2>2 DEF Queued
<1>11. \A i \in DOMAIN q1 : c[2] \leq q1[i][2] /\ q1[i][2] \leq c[2] + 1
  BY <1>3, <1>6, <1>7 DEF QueueIsOrdered
<1>12. ASSUME NEW m \in s.visited, m # c[1], ~Queued(q1, m)
       PROVE  dist[m] \leq c[2] /\ Explored(m, s.visited, dist, depth, relations)
  <2>1. ~Queued(q, m)
    <3> SUFFICES ASSUME NEW i \in DOMAIN q, q[i][1] = m PROVE FALSE
      BY DEF Queued
    <3>1. i - 1 \in DOMAIN q1 /\ q1[i - 1] = q[i]
      BY <1>6, <1>7, <1>12
    <3> QED
      BY <1>12, <3>1 DEF Queued
  <2> QED
    BY <1>5, <1>6, <1>7, <2>1
<1>13. (turns + 1) + Len(q1) = Cardinality(s.visited)
  BY <1>4, <1>6
<1>14. \A i \in 1..0 : FALSE
  OBVIOUS
<1> HIDE DEF t
<1>15. VisitInv(t, dist, c, 0, turns + 1, start, depth, relations)
  BY <1>2, <1>6, <1>9, <1>10, <1>11, <1>12, <1>13, <1>14 DEF VisitInv
<1> QED
  BY <1>15 DEF t, q1, c, q

LEMMA TurnKeepsSearch ==
    ASSUME GraphInv, NEW start \in Node, NEW depth \in Nat, NEW relations, NEW turns \in Nat,
           NEW s, NEW dist, SearchInv(s, dist, turns, start, depth, relations)
    PROVE  \E far : SearchInv(Turn(s, depth, relations), far, turns + 1, start, depth, relations)
<1>1. CASE s.queue = <<>>
  <2>1. Turn(s, depth, relations) = s
    BY <1>1 DEF Turn
  <2>2. SearchInv(s, dist, turns + 1, start, depth, relations)
    BY <1>1 DEF SearchInv
  <2> QED
    BY <2>1, <2>2
<1>2. CASE s.queue # <<>>
  <2> DEFINE c == Head(s.queue)
             rest == [s EXCEPT !.queue = Tail(@)]
             list == EdgesOf(c[1])
             N == Len(list)
  <2>1. VisitInv(rest, dist, c, 0, turns + 1, start, depth, relations)
    BY <1>2, VisitBegins
  <2>2. Turn(s, depth, relations) = IF c[2] >= depth THEN rest ELSE FollowAll(rest, c, list, relations)
    BY <1>2 DEF Turn, Visit, EdgesOf
  <2> HIDE DEF c, rest
  <2>3. c \in Node \X Nat /\ c[1] \in Node /\ c[2] \in Nat /\ rest \in Search /\ turns + 1 \in Nat
    BY <2>1 DEF VisitInv, Known
  <2>4. CASE c[2] >= depth
    <3>1. SearchInv(rest, dist, turns + 1, start, depth, relations)
      BY <2>1, <2>4, VisitEnds
    <3> QED
      BY <2>2, <2>4, <3>1
  <2>5. CASE ~(c[2] >= depth)
    <3>1. list \in Seq(Edge) /\ \A e \in ToSet(list) : Beyond(c[1], e) \in Node
      BY <2>3, EdgesOfAre
    <3>2. PICK r : Follows(r, rest, c, list, relations) /\ FollowAll(rest, c, list, relations) = r[N]
      BY <2>3, <3>1, FollowAllIs
    <3>3. N \in Nat /\ c[2] < depth
      BY <2>3, <2>5, <3>1
    <3> DEFINE P == {n \in 0..N : \E far : VisitInv(r[n], far, c, n, turns + 1, start, depth, relations)}
    <3>4. 0 \in P
      BY <2>1, <3>2, <3>3 DEF Follows
    <3>5. ASSUME NEW n \in 1..N, n - 1 \in P PROVE n \in P
      <4>1. PICK far : VisitInv(r[n - 1], far, c, n - 1, turns + 1, start, depth, relations)
        BY <3>5
      <4>2. \E fur : VisitInv(Follow(r[n - 1], c, list[n], relations), fur, c, n, turns + 1, start, depth, relations)
        BY <2>3, <3>3, <4>1, FollowKeepsVisit
      <4>3. r[n] = Follow(r[n - 1], c, list[n], relations)
        BY <3>2 DEF Follows
      <4>4. n \in 0..N
        BY <3>3
      <4> QED
        BY <4>2, <4>3, <4>4
    <3>6. N \in P
      <4>1. \A n \in 0..N : n \in P
        <5> HIDE DEF P, N
        <5> QED
          BY <3>3, <3>4, <3>5, CountUp
      <4>2. N \in 0..N
        BY <3>3
      <4> QED
        BY <4>1, <4>2
    <3>7. PICK far : VisitInv(r[N], far, c, N, turns + 1, start, depth, relations)
      BY <3>6
    <3>8. SearchInv(r[N], far, turns + 1, start, depth, relations)
      BY <3>7, VisitEnds
    <3> QED
      BY <2>2, <2>5, <3>2, <3>8
  <2> QED
    BY <2>4, <2>5
<1> QED
  BY <1>1, <1>2

LEMMA SearchBegins ==
    ASSUME NEW start \in Node, NEW depth \in Nat, NEW relations
    PROVE  SearchInv(Begun(start), [n \in Node |-> 0], 0, start, depth, relations)
<1> DEFINE s == Begun(start)
           dist == [n \in Node |-> 0]
           q == <<<<start, 0>>>>
<1>1. s \in Search /\ s.queue = q /\ s.visited = {start} /\ s.results = <<>>
  BY DEF Begun, Search
<1>2. dist \in [Node -> Nat] /\ dist[start] = 0
  OBVIOUS
<1>3. DOMAIN q = {1} /\ q[1][1] = start /\ q[1][2] = 0 /\ Len(q) = 1
  OBVIOUS
<1>4. start \in Within(start, 0, relations)
  <2> DEFINE w == [i \in 0..0 |-> start]
  <2>1. IsWalk(w, 0, start, start, relations)
    BY DEF IsWalk
  <2>2. 0 \in 0..0 /\ 0 \in Nat
    OBVIOUS
  <2> HIDE DEF w
  <2> QED
    BY <2>1, <2>2, WithinIs
<1>5. ToSet(<<>>) = {} /\ IsInjective(<<>>)
  BY DEF ToSet, IsInjective
<1>6. Cardinality({start}) = 1
  BY FS_Singleton
<1> HIDE DEF s, dist, q
<1>7. QueueIsOrdered(q, {start}, dist)
  BY <1>2, <1>3 DEF QueueIsOrdered
<1>8. Known(s, dist, start, depth, relations)
  BY <1>1, <1>2, <1>4, <1>5, <1>7 DEF Known
<1>9. Queued(q, start)
  BY <1>3 DEF Queued
<1>10. SearchInv(s, dist, 0, start, depth, relations)
  BY <1>1, <1>3, <1>6, <1>8, <1>9 DEF SearchInv
<1> QED
  BY <1>10 DEF s, dist

\* The walk to any id within the depth leads through what has been visited.
LEMMA WithinIsVisited ==
    ASSUME GraphInv, NEW start \in Node, NEW depth \in Nat, NEW relations, NEW turns, NEW s, NEW dist,
           SearchInv(s, dist, turns, start, depth, relations), s.queue = <<>>,
           NEW x \in Within(start, depth, relations)
    PROVE  x \in s.visited
<1>1. PICK k \in 0..depth : \E w : IsWalk(w, k, start, x, relations)
  BY WithinIs
<1>2. PICK w : IsWalk(w, k, start, x, relations)
  BY <1>1
<1>3. /\ dist \in [Node -> Nat] /\ s.visited \subseteq Node /\ start \in s.visited /\ dist[start] = 0
  BY DEF SearchInv, Known, Search
<1>4. \A m \in s.visited : Explored(m, s.visited, dist, depth, relations)
  <2>1. \A m : ~Queued(s.queue, m)
    BY DEF Queued
  <2> QED
    BY <2>1 DEF SearchInv
<1> DEFINE P == {i \in 0..k : w[i] \in s.visited /\ dist[w[i]] \leq i}
<1>5. k \in Nat /\ k \leq depth
  OBVIOUS
<1>6. 0 \in P
  BY <1>2, <1>3, <1>5 DEF IsWalk
<1>7. ASSUME NEW i \in 1..k, i - 1 \in P PROVE i \in P
  <2>1. w[i - 1] \in s.visited /\ dist[w[i - 1]] \leq i - 1 /\ w[i] \in Beside(w[i - 1], relations)
    BY <1>2, <1>7 DEF IsWalk
  <2>2. dist[w[i - 1]] \in Nat /\ dist[w[i - 1]] < depth
    BY <1>3, <1>5, <2>1
  <2>3. w[i] \in s.visited /\ dist[w[i]] \leq dist[w[i - 1]] + 1
    BY <1>4, <2>1, <2>2 DEF Explored
  <2>4. dist[w[i]] \in Nat
    BY <1>3, <2>3
  <2>5. dist[w[i]] \leq i
    BY <2>1, <2>2, <2>3, <2>4
  <2> QED
    BY <1>5, <2>3, <2>5
<1>8. \A i \in 0..k : i \in P
  <2> HIDE DEF P
  <2> QED
    BY <1>5, <1>6, <1>7, CountUp
<1>9. k \in 0..k
  BY <1>5
<1> QED
  BY <1>2, <1>8, <1>9 DEF IsWalk

LEMMA FoundAreRelated ==
    ASSUME GraphInv, NEW start \in Node, NEW depth \in Nat, NEW relations
    PROVE  LET search == FindRelated(start, depth, relations)
           IN  /\ search.queue = <<>>
               /\ ToSet(search.results) = (nodes_ \cap Within(start, depth, relations)) \ {start}
               /\ Len(search.results) = Cardinality(ToSet(search.results))
<1> DEFINE N == Cardinality(Node)
<1>1. N \in Nat
  BY GraphAssumption, FS_CardinalityType
<1>2. PICK r : Turns(r, start, depth, relations, N) /\ FindRelated(start, depth, relations) = r[N]
  BY FindRelatedIs
<1> DEFINE P == {n \in 0..N : \E dist : SearchInv(r[n], dist, n, start, depth, relations)}
           s == r[N]
<1>3. N \in P
  <2> HIDE DEF N
  <2>1. 0 \in P
    BY <1>1, <1>2, SearchBegins DEF Turns
  <2>2. ASSUME NEW n \in 1..N, n - 1 \in P PROVE n \in P
    <3>1. PICK dist : SearchInv(r[n - 1], dist, n - 1, start, depth, relations)
      BY <2>2
    <3>2. n - 1 \in Nat /\ (n - 1) + 1 = n /\ n \in 0..N
      BY <1>1
    <3>3. r[n] = Turn(r[n - 1], depth, relations)
      BY <1>2 DEF Turns
    <3>4. \E far : SearchInv(Turn(r[n - 1], depth, relations), far, (n - 1) + 1, start, depth, relations)
      BY <3>1, <3>2, TurnKeepsSearch
    <3> QED
      BY <3>2, <3>3, <3>4
  <2>3. \A n \in 0..N : n \in P
    <3> HIDE DEF P
    <3> QED
      BY <1>1, <2>1, <2>2, CountUp
  <2>4. N \in 0..N
    BY <1>1
  <2> QED
    BY <2>3, <2>4
<1>4. PICK dist : SearchInv(s, dist, N, start, depth, relations)
  BY <1>3
<1> HIDE DEF s, P
<1>5. Known(s, dist, start, depth, relations) /\ s \in Search
  BY <1>4 DEF SearchInv, Known
<1>6. s.queue = <<>>
  <2> SUFFICES ASSUME s.queue # <<>> PROVE FALSE
    OBVIOUS
  <2>1. N + Len(s.queue) = Cardinality(s.visited)
    BY <1>4 DEF SearchInv
  <2>2. s.visited \subseteq Node /\ s.queue \in Seq(Node \X Nat)
    BY <1>5 DEF Search
  <2>3. Cardinality(s.visited) \leq N /\ Cardinality(s.visited) \in Nat
    BY <2>2, GraphAssumption, FS_Subset, FS_CardinalityType
  <2>4. Len(s.queue) \in Nat /\ Len(s.queue) # 0
    BY <2>2
  <2> HIDE DEF N
  <2> QED
    BY <1>1, <2>1, <2>3, <2>4
<1>7. s.visited = Within(start, depth, relations)
  <2>1. ASSUME NEW x \in Within(start, depth, relations) PROVE x \in s.visited
    BY <1>4, <1>6, WithinIsVisited
  <2>2. ASSUME NEW x \in s.visited PROVE x \in Within(start, depth, relations)
    <3>1. x \in Within(start, dist[x], relations) /\ dist[x] \leq depth /\ dist[x] \in Nat
      BY <1>5 DEF Known, Search
    <3>2. dist[x] \in 0..depth
      BY <3>1
    <3> QED
      BY <3>1, <3>2, WithinMore
  <2> QED
    BY <2>1, <2>2
<1>8. ToSet(s.results) = (nodes_ \cap Within(start, depth, relations)) \ {start}
  BY <1>5, <1>7 DEF Known
<1>9. Len(s.results) = Cardinality(ToSet(s.results))
  <2>1. s.results \in Seq(Node) /\ IsInjective(s.results)
    BY <1>5 DEF Known, Search
  <2> QED
    BY <2>1, LengthIsCardinality
<1> QED
  BY <1>2, <1>6, <1>8, <1>9 DEF s

\* A search finds every node of the table within the depth, once each, and no
\* other one, whatever was added, erased or half imported (findRelatedEntities);
\* RelatedAreFound leaves out graphs without edges.
THEOREM RelatedIsCompleteHolds == graphSpec => [](RelatedIsComplete /\ RelatedAreFound)
<1>1. graphInit => GraphInv
  BY GraphStart
<1>2. GraphInv /\ [graphNext]_graphVars => GraphInv'
  BY GraphStep
<1>3. GraphInv => RelatedIsComplete /\ RelatedAreFound
  <2> SUFFICES ASSUME GraphInv, NEW start \in Node, NEW depth \in 0..MaxDepth,
                      NEW relations \in SUBSET Relation \ {{}}
               PROVE  LET search == FindRelated(start, depth, relations)
                      IN  /\ search.queue = <<>>
                          /\ ToSet(search.results) = (nodes_ \cap Within(start, depth, relations)) \ {start}
                          /\ Len(search.results) = Cardinality(ToSet(search.results))
    BY DEF RelatedIsComplete, RelatedAreFound
  <2>1. depth \in Nat
    BY GraphAssumption
  <2> QED
    BY <2>1, FoundAreRelated
<1> QED
  BY <1>1, <1>2, <1>3, PTL DEF graphSpec
=============================================================================
