-------------------------- MODULE AgentToolParser --------------------------
(***************************************************************************)
(* agents/AgentToolParser: which calls of tools an answer of a model asks  *)
(* for.  An answer is a sequence of tokens:                                *)
(*   "fence" "codefence"   three backquotes, before JSON or before code    *)
(*   "{" "}"   braces                                                      *)
(*   "tool"    a member that names a tool, with the comma after it         *)
(*   "<call>" "<call name>" "</call>"   the XML tags                       *)
(*   "<name>"  a tag that names a tool inside of them                      *)
(*   "Action:" a line that calls a tool                                    *)
(*   "text"    anything else, a member of an object among others           *)
(* A call is the stretch of tokens it is read from, <<first, last>>.       *)
(***************************************************************************)
EXTENDS Naturals, Sequences, SequencesExt, FiniteSetsExt

Depth(s) == Len(SelectSeq(s, LAMBDA t : t = "{")) - Len(SelectSeq(s, LAMBDA t : t = "}"))

\* A JSON object and nothing else.
IsObject(s) ==
    /\ s # <<>> /\ s[1] = "{" /\ Depth(s) = 0
    /\ \A n \in 1..(Len(s) - 1) : Depth(SubSeq(s, 1, n)) > 0
    /\ ToSet(s) \cap {"<call>", "<call name>", "</call>", "<name>", "Action:", "fence", "codefence"} = {}

\* parseJsonBlock: an object with a tool among its own members.
IsCall(s) == IsObject(s) /\ \E n \in DOMAIN s : s[n] = "tool" /\ Depth(SubSeq(s, 1, n)) = 1

----------------------------------------------------------------------------
(* Patterns.  A search takes, from left to right, the shortest stretch at  *)
(* each place where one begins, and goes on behind it.                     *)

\* Mutant: a pattern without "?" takes the longest.
Longest(ends) == Max(ends)

\* Of the ends that fit.
Shortest(ends) == Min(ends)

\* sregex_iterator, for a pattern that may reach from i to any of ends[i].
AllMatches(ends) ==
    LET next(acc, i) ==
          IF i < acc.from \/ ends[i] = {} THEN acc
          ELSE [from |-> Shortest(ends[i]) + 1, found |-> Append(acc.found, <<i, Shortest(ends[i])>>)]
    IN  FoldLeft(next, [from |-> 1, found |-> <<>>], [i \in DOMAIN ends |-> i]).found

Body(text, m) == SubSeq(text, m[1] + 1, m[2] - 1)

JsonCodeBlocks(text) ==
    LET ends == [i \in DOMAIN text |->
                   {j \in (i + 3)..Len(text) : /\ text[i] = "fence" /\ text[i + 1] = "{"
                                               /\ text[j - 1] = "}" /\ text[j] \in {"fence", "codefence"}}]
    IN  SelectSeq(AllMatches(ends), LAMBDA m : IsCall(Body(text, m)))

\* With a name in the tag, whatever is inside is taken for parameters.
XmlTagBlocks(text) ==
    LET ends == [i \in DOMAIN text |->
                   {j \in (i + 1)..Len(text) : text[i] \in {"<call>", "<call name>"} /\ text[j] = "</call>"}]
    IN  SelectSeq(AllMatches(ends), LAMBDA m :
                    \/ text[m[1]] = "<call name>"
                    \/ IsCall(Body(text, m))
                    \/ "<name>" \in ToSet(Body(text, m)))

ReActActions(text) == AllMatches([i \in DOMAIN text |-> IF text[i] = "Action:" THEN {i} ELSE {}])

\* The tool has to be the first member and not the last, and the object ends
\* at the first brace.
EmbeddedObjects(text) ==
    LET ends == [i \in DOMAIN text |->
                   {j \in (i + 2)..Len(text) : text[i] = "{" /\ text[i + 1] = "tool" /\ text[j] = "}"}]
    IN  SelectSeq(AllMatches(ends), LAMBDA m : IsCall(SubSeq(text, m[1], m[2])))

\* parseToolCalls: one kind only, the first that is there at all.
ToolCalls(text) ==
    CASE JsonCodeBlocks(text) # <<>> -> JsonCodeBlocks(text)
      [] JsonCodeBlocks(text) = <<>> /\ XmlTagBlocks(text) # <<>> -> XmlTagBlocks(text)
      [] JsonCodeBlocks(text) = <<>> /\ XmlTagBlocks(text) = <<>> /\ ReActActions(text) # <<>> -> ReActActions(text)
      [] OTHER -> IF EmbeddedObjects(text) # <<>> THEN EmbeddedObjects(text)
                  ELSE IF IsCall(text) THEN <<<<1, Len(text)>>>> ELSE <<>>

----------------------------------------------------------------------------
(* Answers, built of whole pieces                                          *)

VARIABLE answer     \* the pieces of a model's answer, by name

Piece ==
    [text |-> <<"text">>,
     fenced |-> <<"fence", "{", "tool", "text", "}", "fence">>,
     nested |-> <<"fence", "{", "tool", "{", "text", "}", "}", "fence">>,
     code |-> <<"codefence", "{", "text", "}", "fence">>,
     xml |-> <<"<call>", "{", "tool", "{", "text", "}", "}", "</call>">>,
     named |-> <<"<call name>", "<name>", "text", "</call>">>,
     action |-> <<"Action:">>,
     flat |-> <<"{", "tool", "text", "}">>,
     deep |-> <<"{", "tool", "{", "text", "}", "}">>]

answerInit == answer = <<>>
answerNext == Len(answer) < 4 /\ \E p \in DOMAIN Piece : answer' = Append(answer, p)

TokensOf(pieces) == FlattenSeq([i \in DOMAIN pieces |-> Piece[pieces[i]]])

\* The stretches of the pieces of some kinds.
Places(kinds) ==
    LET before(i) == Len(TokensOf(SubSeq(answer, 1, i - 1)))
        place(i) == <<before(i) + 1, before(i) + Len(Piece[answer[i]])>>
    IN  FlattenSeq([i \in DOMAIN answer |-> IF answer[i] \in kinds THEN <<place(i)>> ELSE <<>>])

\* An answer's calls are found, each whole and in order, those in the form
\* the prompt asks for (fenced, whatever is nested in them) before all
\* others, unless a fence that closes code stands right before a brace; and
\* a flat object in running text.
CallsAreFound ==
    (\A i \in 1..(Len(answer) - 1) : ~(answer[i] = "code" /\ answer[i + 1] \in {"flat", "deep"})) =>
      LET tokens == TokensOf(answer)
          fenced == Places({"fenced", "nested"})
          tagged == Places({"xml", "named"})
          actions == Places({"action"})
      IN  ToolCalls(tokens) = CASE fenced # <<>> -> fenced
                                [] fenced = <<>> /\ tagged # <<>> -> tagged
                                [] fenced = <<>> /\ tagged = <<>> /\ actions # <<>> -> actions
                                [] OTHER -> IF answer = <<"deep">> THEN Places({"deep"}) ELSE Places({"flat"})
=============================================================================
