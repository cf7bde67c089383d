---------------------------- MODULE ContextEngine ----------------------------
(***************************************************************************)
(* context/ContextEngine: conversations, their items in two maps, token    *)
(* counts, and subscribers that every change notifies.  The public         *)
(* operations lock the one std::mutex; notifyChange and buildContext,      *)
(* which some of them call with the mutex held, lock it again.  The lock   *)
(* is therefore part of the model: `owner`.  Relevance is left out: it     *)
(* decides only what a prompt says.                                        *)
(***************************************************************************)
EXTENDS Naturals, FiniteSets, FiniteSetsExt, Maps, PlainMutex

CONSTANTS
    Caller,         \* threads
    Conv,           \* ids generateId gives to conversations
    Item,           \* ids it gives to items
    Count,          \* tokens of an item
    NoCaller        \* nobody holds the mutex

ASSUME ContextAssumption == Count \subseteq Nat /\ NoCaller \notin Caller

VARIABLES
    owner,          \* the thread that holds mutex_
    at,             \* thread -> where it is
    conversations_, \* ids in conversations
    items,          \* context_items: id -> [conv, tokens]
    copies,         \* all_context_items: id -> is it pinned (that copy alone)
    tokens,         \* conversation_tokens
    total,          \* stats: [items, tokens]
    issued          \* ids generateId has given

content == <<conversations_, items, copies, tokens, total, issued>>
contextVars == <<owner, at, content>>

contextInit ==
    /\ owner = NoCaller
    /\ at = [t \in Caller |-> "idle"]
    /\ conversations_ = {} /\ items = <<>> /\ copies = <<>> /\ tokens = <<>>
    /\ total = [items |-> 0, tokens |-> 0]
    /\ issued = {}

TokensOf(c) == IF c \in DOMAIN tokens THEN tokens[c] ELSE 0
OfConversation(c) == {i \in DOMAIN items : items[i].conv = c}
TokensIn == [i \in DOMAIN items |-> items[i].tokens]

\* A thread calls an operation and waits for the mutex; it goes on at next.
Lock(t, next) ==
    /\ at[t] = "idle" /\ owner = NoCaller
    /\ owner' = t
    /\ at' = [at EXCEPT ![t] = next]

StartConversation(t) ==
    /\ Lock(t, "notify")
    /\ \E c \in Conv \ issued :
         /\ conversations_' = conversations_ \cup {c}
         /\ tokens' = Put(tokens, c, 0)
         /\ issued' = issued \cup {c}
    /\ UNCHANGED <<items, copies, total>>

\* Mutant: the count of the conversation that ends stays.
EndWithoutCount(t) ==
    /\ Lock(t, "notify")
    /\ \E c \in conversations_ :
         /\ conversations_' = conversations_ \ {c}
         /\ items' = Drop(items, OfConversation(c))
         /\ copies' = Drop(copies, OfConversation(c))
    /\ UNCHANGED <<tokens, total, issued>>

\* The totals keep counting the items that go.
EndConversation(t) ==
    /\ Lock(t, "notify")
    /\ \E c \in conversations_ :
         /\ conversations_' = conversations_ \ {c}
         /\ items' = Drop(items, OfConversation(c))
         /\ copies' = Drop(copies, OfConversation(c))
         /\ tokens' = Drop(tokens, {c})
    /\ UNCHANGED <<total, issued>>

UpdateState(t) == conversations_ # {} /\ Lock(t, "notify") /\ UNCHANGED content

Insert(c, n) == \E i \in Item \ issued :
    /\ items' = Put(items, i, [conv |-> c, tokens |-> n])
    /\ copies' = Put(copies, i, FALSE)
    /\ tokens' = Put(tokens, c, TokensOf(c) + n)
    /\ total' = [items |-> total.items + 1, tokens |-> total.tokens + n]
    /\ issued' = issued \cup {i}
    /\ UNCHANGED conversations_

\* addMessage wants a conversation that was started; addContextItem takes
\* any id, of a conversation that has ended too.
AddMessage(t) ==
    /\ Lock(t, "notify")
    /\ \E c \in conversations_, n \in Count : Insert(c, n)
AddContextItem(t) ==
    /\ Lock(t, "notify")
    /\ \E c \in Conv \cap issued, n \in Count : Insert(c, n)

\* removeContextItem looks the id up in one map and for its conversation in
\* the other, whose count it creates when it is not there.
RemoveContextItem(t) ==
    /\ Lock(t, "unlock")
    /\ \E i \in DOMAIN copies :
         /\ copies' = Drop(copies, {i})
         /\ IF i \notin DOMAIN items
            THEN UNCHANGED <<items, tokens>> /\ total' = [total EXCEPT !.items = @ - 1]
            ELSE LET c == items[i].conv
                     n == items[i].tokens
                 IN  /\ items' = Drop(items, {i})
                     /\ tokens' = Put(tokens, c, TokensOf(c) - n)
                     /\ total' = [items |-> total.items - 1, tokens |-> total.tokens - n]
    /\ UNCHANGED <<conversations_, issued>>

\* pinContextItem writes the copy that selectContextItems does not read.
PinContextItem(t) ==
    /\ Lock(t, "unlock")
    /\ \E i \in DOMAIN copies, b \in BOOLEAN : copies' = [copies EXCEPT ![i] = b]
    /\ UNCHANGED <<conversations_, items, tokens, total, issued>>

\* The getters, which change nothing; buildPrompt calls buildContext.
ReadContext(t) == Lock(t, "unlock") /\ UNCHANGED content
BuildPrompt(t) == Lock(t, "build") /\ UNCHANGED content

\* The second lock, of notifyChange or buildContext.
Relock(t) ==
    /\ at[t] \in {"notify", "build"}
    /\ owner = t => ~SecondLockBlocks
    /\ at' = [at EXCEPT ![t] = "unlock"]
    /\ UNCHANGED <<owner, content>>

Unlock(t) ==
    /\ at[t] = "unlock"
    /\ owner' = NoCaller
    /\ at' = [at EXCEPT ![t] = "idle"]
    /\ UNCHANGED content

Operation(t) ==
    \/ StartConversation(t) \/ EndConversation(t) \/ UpdateState(t)
    \/ AddMessage(t) \/ AddContextItem(t) \/ RemoveContextItem(t) \/ PinContextItem(t)
    \/ ReadContext(t) \/ BuildPrompt(t)

contextStep == \E t \in Caller : Operation(t) \/ Relock(t) \/ Unlock(t)
contextNext == contextStep /\ UNCHANGED relock

\* Fairness: a thread inside an operation runs until it leaves it.
contextSpec == contextInit /\ relockInit /\ [][contextNext]_<<contextVars, relock>>

----------------------------------------------------------------------------
\* The two maps and the three counts tell of the same items, whatever was
\* added to conversations that have ended or removed while they lived; and
\* no subtraction goes below zero (the counts are size_t).
TokensMatch ==
    /\ DOMAIN copies = DOMAIN items
    /\ \A c \in Conv : TokensOf(c) = SumFunctionOnSet(TokensIn, OfConversation(c))
    /\ total.items >= Cardinality(DOMAIN items)
    /\ total.tokens >= SumFunction(TokensIn)
=============================================================================
