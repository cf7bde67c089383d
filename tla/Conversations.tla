--------------------------- MODULE Conversations ---------------------------
(***************************************************************************)
(* core/ConversationManager: the conversations of the desktop program and  *)
(* conversations.json.  Every save writes what the process holds, not what *)
(* the file held.  The window holds pointers: to what the manager maps,    *)
(* and to the current conversation.                                        *)
(***************************************************************************)
EXTENDS Naturals, FiniteSets, Sequences, SequencesExt, Maps

CONSTANTS
    ConversationId,
    NoConversation,     \* a null pointer
    Tokens,             \* tokens a message may count
    Window,             \* the same, where the context of a request is looked at
    MaxSaid,            \* bound: messages said
    MaxObjects          \* bound: Conversation objects alive

VARIABLES
    conversations,      \* m_conversations: id -> object
    currentConversation,            \* m_currentConversation
    objects,            \* objects alive: number -> id, tokens of its messages, archived
    stored,             \* conversations.json: "none", "broken" or "whole", id -> content
    exported,           \* a file of exportConversation
    said,               \* messages said so far
    deleted             \* history: ids deleted, and not imported since

conversationVars == <<conversations, currentConversation, objects, stored, exported, said, deleted>>

NoFile == [is |-> "none", of |-> <<>>]

\* initializeStorage; nothing is loaded.
conversationInit ==
    /\ conversations = <<>> /\ currentConversation = NoConversation /\ objects = <<>>
    /\ stored = NoFile /\ exported = NoFile
    /\ said = 0 /\ deleted = {}

----------------------------------------------------------------------------
Held == {conversations[id] : id \in DOMAIN conversations}

\* toJson; fromJson gives the same back, in a new object.
Content(map, objs) == [id \in DOMAIN map |-> objs[map[id]]]

\* saveConversation, whichever it is called for.
SaveConversations(map, objs) == stored' = [is |-> "whole", of |-> Content(map, objs)]

\* A new object, where there is room for it.
Makes(o, object) == o \in (1..MaxObjects) \ DOMAIN objects /\ objects' = Put(objects, o, object)
NewObject == CHOOSE o \in 1..(MaxObjects + 1) : o \notin DOMAIN objects

CreateConversation(id) ==
    /\ \A o \in DOMAIN objects : objects[o].id # id
    /\ id \notin DOMAIN stored.of \cup deleted
    /\ Makes(NewObject, [id |-> id, tokens |-> <<>>, archived |-> FALSE])
    /\ conversations' = Put(conversations, id, NewObject)
    /\ currentConversation' = NewObject
    /\ SaveConversations(conversations', objects')
    /\ UNCHANGED <<exported, said, deleted>>

\* addMessage and the rest of Conversation: nothing is saved.  The window
\* reaches an object through the manager, or as the current one.
Changes(o, object) ==
    /\ o \in (Held \cup {currentConversation}) \cap DOMAIN objects
    /\ objects' = [objects EXCEPT ![o] = object]
    /\ UNCHANGED <<conversations, currentConversation, stored, exported, deleted>>

AddMessage(o, n) ==
    /\ said < MaxSaid /\ said' = said + 1
    /\ Changes(o, [objects[o] EXCEPT !.tokens = Append(@, n)])
RemoveMessage(o, i) == Changes(o, [objects[o] EXCEPT !.tokens = RemoveAt(@, i)]) /\ UNCHANGED said
ClearMessages(o) == Changes(o, [objects[o] EXCEPT !.tokens = <<>>]) /\ UNCHANGED said
RestoreConversation(o) == Changes(o, [objects[o] EXCEPT !.archived = FALSE]) /\ UNCHANGED said

SetCurrent(o) ==
    /\ currentConversation' = o
    /\ UNCHANGED <<conversations, objects, stored, exported, said, deleted>>

\* deleteConversation and deleteFromStorage, which leaves a file that cannot
\* be read as it is.
DeleteConversation(id) ==
    /\ id \in DOMAIN conversations
    /\ conversations' = Drop(conversations, {id})
    /\ objects' = Drop(objects, {conversations[id]})
    /\ currentConversation' = IF currentConversation = conversations[id] THEN NoConversation ELSE currentConversation
    /\ stored' = [stored EXCEPT !.of = Drop(@, {id})]
    /\ deleted' = deleted \cup {id}
    /\ UNCHANGED <<exported, said>>

\* archiveConversation for one; autoArchiveOldConversations for those that
\* are old and not archived, and no save when there are none.
ArchiveConversations(ids) ==
    /\ ids # {} /\ ids \subseteq DOMAIN conversations
    /\ objects' = [o \in DOMAIN objects |-> IF \E id \in ids : conversations[id] = o
                                            THEN [objects[o] EXCEPT !.archived = TRUE] ELSE objects[o]]
    /\ SaveConversations(conversations, objects')
    /\ UNCHANGED <<conversations, currentConversation, exported, said, deleted>>

\* The object that was there stays alive, and current if it was.
LoadConversation(id) ==
    /\ id \in DOMAIN stored.of
    /\ Makes(NewObject, stored.of[id])
    /\ conversations' = Put(conversations, id, NewObject)
    /\ UNCHANGED <<currentConversation, stored, exported, said, deleted>>

ExportConversation(o) ==
    /\ o \in Held
    /\ exported' = [is |-> "whole", of |-> objects[o]]
    /\ UNCHANGED <<conversations, currentConversation, objects, stored, said, deleted>>

ImportConversation ==
    /\ exported.is = "whole"
    /\ Makes(NewObject, exported.of)
    /\ conversations' = Put(conversations, exported.of.id, NewObject)
    /\ SaveConversations(conversations', objects')
    /\ deleted' = deleted \ {exported.of.id}
    /\ UNCHANGED <<currentConversation, exported, said>>

ClearAllConversations ==
    /\ objects' = Drop(objects, Held) /\ conversations' = <<>>
    /\ currentConversation' = NoConversation
    /\ stored' = NoFile
    /\ deleted' = deleted \cup DOMAIN conversations
    /\ UNCHANGED <<exported, said>>

\* The process ends, by itself or while it writes, and starts again.
Restart(file) ==
    /\ stored' = file
    /\ conversations' = <<>> /\ objects' = <<>> /\ currentConversation' = NoConversation
    /\ UNCHANGED <<exported, said, deleted>>

conversationNext ==
    \/ \E id \in ConversationId :
         CreateConversation(id) \/ DeleteConversation(id) \/ LoadConversation(id)
    \/ \E o \in DOMAIN objects :
         \/ ClearMessages(o) \/ RestoreConversation(o) \/ ExportConversation(o)
         \/ \E n \in Tokens : AddMessage(o, n)
         \/ \E i \in DOMAIN objects[o].tokens : RemoveMessage(o, i)
    \/ \E o \in Held \cup {NoConversation} : SetCurrent(o)
    \/ \E ids \in SUBSET DOMAIN conversations : ArchiveConversations(ids)
    \/ ImportConversation
    \/ ClearAllConversations
    \/ Restart(stored)
    \/ conversations # <<>> /\ Restart([is |-> "broken", of |-> <<>>])

conversationSpec == conversationInit /\ [][conversationNext]_conversationVars

----------------------------------------------------------------------------
(* getContextWindow: from the end, until one does not fit; the last one    *)
(* always does.                                                            *)
TakeMessage(acc, n, limit) ==
    IF acc.full \/ (acc.sum + n > limit /\ acc.window # <<>>) THEN [acc EXCEPT !.full = TRUE]
    ELSE [acc EXCEPT !.window = <<n>> \o @, !.sum = @ + n]

ContextWindow(tokens, limit) ==
    FoldLeft(LAMBDA acc, n : TakeMessage(acc, n, limit), [window |-> <<>>, sum |-> 0, full |-> FALSE], Reverse(tokens)).window

Tally(tokens) == FoldLeft(LAMBDA a, b : a + b, 0, tokens)

\* The longest end within the limit, or the last message.
LongestWindow(tokens, limit, window) ==
    LET ends == {SubSeq(tokens, i, Len(tokens)) : i \in DOMAIN tokens}
        fitting == {e \in ends : Tally(e) <= limit}
    IN  CASE tokens = <<>> -> window = <<>>
          [] tokens # <<>> /\ fitting = {} -> window = <<tokens[Len(tokens)]>>
          [] OTHER -> window \in fitting /\ \A e \in fitting : Len(e) <= Len(window)

\* The context of a request is the longest end of the conversation within
\* the limit, but never empty.
WindowIsLongest ==
    \A tokens \in SeqOf(Window, 3), limit \in 0..8 : LongestWindow(tokens, limit, ContextWindow(tokens, limit))

\* What the process holds is in the file, archived if it is here; what was
\* deleted is not, in this life or a later one; and the current conversation
\* is an object that lives.
HeldIsStored ==
    /\ \A id \in DOMAIN conversations :
         /\ id \in DOMAIN stored.of
         /\ conversations[id] \in DOMAIN objects
         /\ objects[conversations[id]].archived => stored.of[id].archived
    /\ deleted \cap DOMAIN stored.of = {}
    /\ currentConversation # NoConversation => currentConversation \in DOMAIN objects
=============================================================================
