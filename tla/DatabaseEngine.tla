--------------------------- MODULE DatabaseEngine ---------------------------
(***************************************************************************)
(* database/DatabaseEngine: three maps under one mutex and one JSON file   *)
(* that every change writes as a whole, to a temporary name first.  Each   *)
(* operation holds the mutex from end to end, so it is one action; what    *)
(* can go wrong inside it is the writing of the file (saveToDisk), and     *)
(* what can happen between two operations is the end of the process.       *)
(***************************************************************************)
EXTENDS Sequences, SequencesExt, Naturals, Maps

CONSTANTS
    Key,            \* keys of memory records
    Value,          \* their values
    Category,       \* their categories
    Conversation,   \* ids of conversations
    Text,           \* contents of messages
    NotUtf8,        \* a content that nlohmann::json::dump refuses
    Torn,           \* a file that does not parse: the disk was full
    MaxMessages,    \* bound: messages per conversation in the model
    MaxFaults       \* bound: failures of the file system

Record == [value : Value, category : Category]
Records == UNION {[keys -> Record] : keys \in SUBSET Key}
Contents == [memories : Records, conversations : SUBSET Conversation,
             messages : [Conversation -> Seq(Text)]]

ASSUME DatabaseAssumption ==
    /\ NotUtf8 \in Text
    /\ Torn \notin Contents
    /\ MaxMessages \in Nat /\ MaxFaults \in Nat

VARIABLES
    memories,       \* memories_: key -> [value, category]
    conversations,  \* ids in conversations_
    messages,       \* messages_by_conv_: conversation -> contents
    disk,           \* the file: a Content, or Torn
    initialized,    \* initialized_
    faults          \* failures of the file system so far

dbVars == <<memories, conversations, messages, disk, initialized, faults>>

Content(m, c, t) == [memories |-> m, conversations |-> c, messages |-> t]
Empty == Content(<<>>, {}, [c \in Conversation |-> <<>>])
Current == Content(memories, conversations, messages)

\* dump() throws on a string that is not UTF-8, and saveToDisk then leaves
\* the old file where it is.
Serialisable(content) ==
    \A c \in Conversation : NotUtf8 \notin ToSet(content.messages[c])

\* saveToDisk.  The stream is not tested, so a full disk moves a torn file
\* over the good one; a file that cannot be opened or renamed leaves it.
Save(content) ==
    \/ disk' = (IF Serialisable(content) THEN content ELSE disk) /\ UNCHANGED faults
    \/ /\ faults < MaxFaults
       /\ faults' = faults + 1
       /\ disk' \in {disk} \cup (IF Serialisable(content) THEN {Torn} ELSE {})

----------------------------------------------------------------------------
dbInit ==
    /\ memories = <<>> /\ conversations = {}
    /\ messages = [c \in Conversation |-> <<>>]
    /\ disk = Empty
    /\ initialized = FALSE
    /\ faults = 0

\* loadFromDisk: records and conversations replace those of the same key,
\* messages are appended to whatever is there.
LoadFromDisk ==
    IF disk = Torn THEN UNCHANGED <<memories, conversations, messages>>
    ELSE /\ memories' = Update(memories, disk.memories)
         /\ conversations' = conversations \cup disk.conversations
         /\ messages' = [c \in Conversation |-> messages[c] \o disk.messages[c]]

InitializeDb ==
    IF initialized THEN UNCHANGED dbVars
    ELSE /\ disk # Torn => \A c \in Conversation :
                Len(messages[c]) + Len(disk.messages[c]) <= MaxMessages
         /\ LoadFromDisk
         /\ initialized' = TRUE
         /\ UNCHANGED <<disk, faults>>

ShutdownDb ==
    IF ~initialized THEN UNCHANGED dbVars
    ELSE /\ Save(Current)
         /\ initialized' = FALSE
         /\ UNCHANGED <<memories, conversations, messages>>

Flush == Save(Current) /\ UNCHANGED <<memories, conversations, messages, initialized>>

SaveConversation(c) ==
    /\ conversations' = conversations \cup {c}
    /\ Save(Content(memories, conversations', messages))
    /\ UNCHANGED <<memories, messages, initialized>>

DeleteConversation(c) ==
    /\ conversations' = conversations \ {c}
    /\ messages' = [messages EXCEPT ![c] = <<>>]
    /\ Save(Content(memories, conversations', messages'))
    /\ UNCHANGED <<memories, initialized>>

SaveMessage(c, text) ==
    /\ Len(messages[c]) < MaxMessages
    /\ messages' = [messages EXCEPT ![c] = Append(@, text)]
    /\ Save(Content(memories, conversations, messages'))
    /\ UNCHANGED <<memories, conversations, initialized>>

\* Mutant: deleting messages is not written through.
DeleteMessagesUnsaved(c) ==
    /\ messages' = [messages EXCEPT ![c] = <<>>]
    /\ UNCHANGED <<memories, conversations, initialized, disk, faults>>

DeleteMessages(c) ==
    /\ messages' = [messages EXCEPT ![c] = <<>>]
    /\ Save(Content(memories, conversations, messages'))
    /\ UNCHANGED <<memories, conversations, initialized>>

SaveMemory(k, v, cat) ==
    /\ memories' = Put(memories, k, [value |-> v, category |-> cat])
    /\ Save(Content(memories', conversations, messages))
    /\ UNCHANGED <<conversations, messages, initialized>>

DeleteMemory(k) ==
    IF k \notin DOMAIN memories THEN UNCHANGED dbVars
    ELSE /\ memories' = Drop(memories, {k})
         /\ Save(Content(memories', conversations, messages))
         /\ UNCHANGED <<conversations, messages, initialized>>

ClearDbCategory(cat) ==
    /\ memories' = Drop(memories, {k \in DOMAIN memories : memories[k].category = cat})
    /\ Save(Content(memories', conversations, messages))
    /\ UNCHANGED <<conversations, messages, initialized>>

\* importFromJson of a text exportToJson has produced: here, of the file.
ImportDb ==
    /\ disk # Torn
    /\ memories' = disk.memories
    /\ conversations' = disk.conversations
    /\ messages' = disk.messages
    /\ Save(disk)
    /\ UNCHANGED initialized

\* The process ends without shutdown() and starts again.
Crash ==
    /\ memories' = <<>> /\ conversations' = {}
    /\ messages' = [c \in Conversation |-> <<>>]
    /\ initialized' = FALSE
    /\ UNCHANGED <<disk, faults>>

dbNext ==
    \/ InitializeDb \/ ShutdownDb \/ Flush \/ ImportDb \/ Crash
    \/ \E c \in Conversation : \/ SaveConversation(c) \/ DeleteConversation(c)
                               \/ DeleteMessages(c)
                               \/ \E t \in Text : SaveMessage(c, t)
    \/ \E k \in Key : \/ DeleteMemory(k)
                      \/ \E v \in Value, cat \in Category : SaveMemory(k, v, cat)
    \/ \E cat \in Category : ClearDbCategory(cat)

dbSpec == dbInit /\ [][dbNext]_dbVars

----------------------------------------------------------------------------
\* As long as the file system works, whatever a call has acknowledged is on
\* the disk when the call returns, so a crash loses nothing - unless some
\* message cannot be serialised, which stops every save until that message
\* is deleted.  (Messages are compared as sets: initialize() after shutdown()
\* in one process appends the messages of the file to the same messages.)
FileHoldsAll ==
    (initialized /\ faults = 0 /\ Serialisable(Current)) =>
        /\ disk # Torn
        /\ disk.memories = memories
        /\ disk.conversations = conversations
        /\ \A c \in Conversation : ToSet(disk.messages[c]) = ToSet(messages[c])
=============================================================================
