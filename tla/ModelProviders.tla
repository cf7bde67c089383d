--------------------------- MODULE ModelProviders ---------------------------
(***************************************************************************)
(* providers/ModelProvider over network/HttpClient: one call of a provider *)
(* for an answer, for the same as a stream, or for its health.  The server *)
(* is outside the program: it may be out of reach, refuse, say anything,   *)
(* and stop (or be too slow) anywhere.  A reply comes as characters        *)
(* <<i, k>>: the two halves and the newline of its line i, the header as   *)
(* line 0.  Replies are not in chunked transfer coding, which the client   *)
(* does not read.                                                          *)
(***************************************************************************)
EXTENDS Naturals, Sequences, SequencesExt

CONSTANT MaxPieces      \* bound: lines of a streamed reply

VARIABLES
    call,           \* what is asked of whom, and how the server will behave
    received,       \* characters of the reply that recv() or libcurl gave so far
    headers_parsed,
    carry_over,     \* the line that is not complete
    accumulated,    \* the texts of the answer, each by its line
    handed,         \* the lines whose text went to on_token
    response        \* what the call returns; NoResponse while it runs

providerVars == <<call, received, headers_parsed, carry_over, accumulated, handed, response>>

Provider == {"lm_studio", "ollama", "openai", "anthropic", "openrouter"}
NoRequest == [op |-> "none"]
NoResponse == [running |-> TRUE]

----------------------------------------------------------------------------
(* HttpClient                                                              *)

\* What is known of one request: its status, whether there is an error text,
\* and what the body is.
Http(status, error, body) ==
    [success |-> status \in 200..299, status |-> status, error |-> error, body |-> body]

\* parseUrl: the scheme as it is written, so that "HTTPS" goes through a plain
\* socket, as a URL that is none does.
ParseUrl(url) == IF url = "https" THEN "https" ELSE "http"

\* request(): of a reply, nothing, a part of its header, a part of its body
\* or the whole may arrive before the server stops or the time is over, and
\* the client built on sockets cannot tell them apart.
Request(c) ==
    IF c.build = "cpr"
    THEN IF c.reach = "yes" /\ c.arrives \in {"body", "whole"}
         THEN Http(c.status, c.arrives # "whole", IF c.arrives = "whole" THEN c.body ELSE "torn")
         ELSE Http(0, TRUE, "")
    ELSE CASE ParseUrl(c.url) = "https" -> Http(200, FALSE, "mock")
           [] ParseUrl(c.url) = "http" /\ c.reach \in {"unresolved", "no socket"} -> Http(0, TRUE, "")
           [] ParseUrl(c.url) = "http" /\ c.reach = "refused" -> Http(503, TRUE, "")
           [] ParseUrl(c.url) = "http" /\ c.reach = "yes" ->
                CASE c.arrives = "nothing" -> [Http(200, FALSE, "") EXCEPT !.success = FALSE]
                  [] c.arrives = "header" -> Http(200, FALSE, "torn")
                  [] c.arrives = "body" -> Http(c.status, FALSE, "torn")
                  [] c.arrives = "whole" -> Http(c.status, FALSE, c.body)

\* processSseBuffer: the complete lines of what was carried over and the
\* chunk together, and what is carried over next.
ProcessSse(chunk, carry) ==
    LET split(acc, ch) == IF ch[2] = 3 THEN [lines |-> Append(acc.lines, acc.rest), rest |-> <<>>]
                          ELSE [acc EXCEPT !.rest = Append(@, ch)]
    IN  FoldLeft(split, [lines |-> <<>>, rest |-> <<>>], carry \o chunk)

\* Of the complete lines, "[DONE]", blank ones and comments are not data.
Data(lines) == SelectSeq(lines, LAMBDA l : l # <<>> /\ l[1][2] = 1
                                           /\ call.lines[l[1][1]] \notin {"done", "comment"})

Header == <<<<0, 1>>, <<0, 2>>>>
Reply(c) == (IF c.build = "cpr" THEN <<>> ELSE Header)
            \o FlattenSeq([i \in DOMAIN c.lines |-> <<<<i, 1>>, <<i, 2>>, <<i, 3>>>>])

----------------------------------------------------------------------------
(* What a provider makes of a body                                         *)

\* The text of a JSON string as the fast reader of stream_cb finds it, from
\* the symbol after the opening quote: "\\" hides the quote that follows it.
RawValue(chunk) ==
    LET next(acc, ch) == CASE acc.at = "end" -> acc
                           [] acc.at = "escape" -> [at |-> "text", raw |-> Append(acc.raw, ch)]
                           [] acc.at = "text" /\ ch = "\"" -> [acc EXCEPT !.at = "end"]
                           [] OTHER -> [at |-> IF ch = "\\" THEN "escape" ELSE "text",
                                        raw |-> Append(acc.raw, ch)]
    IN  FoldLeft(next, [at |-> "text", raw |-> <<>>], chunk)

\* unescapeJsonString; "u<" stands for \u and the four digits of "<".
Unescape(raw) ==
    LET next(acc, ch) == CASE acc.escape /\ ch = "n" -> [escape |-> FALSE, out |-> Append(acc.out, "\n")]
                           [] acc.escape /\ ch = "u<" -> [escape |-> FALSE, out |-> Append(acc.out, "<")]
                           [] ~acc.escape /\ ch = "\\" -> [acc EXCEPT !.escape = TRUE]
                           [] OTHER -> [escape |-> FALSE, out |-> Append(acc.out, ch)]
    IN  FoldLeft(next, [escape |-> FALSE, out |-> <<>>], raw).out

\* extractDeltaContent, extractAnthropicTextDelta: no text unless the closing
\* quote is there.
ExtractDelta(chunk) ==
    LET value == RawValue(chunk)
    IN  IF value.at # "end" THEN [found |-> FALSE, text |-> <<>>]
        ELSE [found |-> TRUE, text |-> IF "\\" \in ToSet(value.raw) THEN Unescape(value.raw) ELSE value.raw]

\* stream_cb: the reader above, or else the JSON of a whole line, finds a
\* text, which may be empty.
Texts(data) == SelectSeq(data, LAMBDA l : Len(l) = 2 /\ call.lines[l[1][1]] \in {"text", "empty"})

\* The bodies a server may answer with: the text in its place, an object
\* that has no such place, a choice without text, a text that is null, or
\* what is not JSON.  What a provider finds in one: a text, none, or an
\* exception.
Bodies == {"text", "object", "no text", "null", "torn"}
Answered(text) == [success |-> TRUE, content |-> text, error |-> FALSE]
Silent == [success |-> FALSE, content |-> <<>>, error |-> FALSE]
Threw == [success |-> FALSE, content |-> <<>>, error |-> TRUE]
Failed(http) == [success |-> FALSE, content |-> <<>>, error |-> http.error]

LMStudioChat(http, usage) ==
    LET read == CASE http.body \in {"text", "mock"} -> Answered(<<http.body>>)
                  [] http.body \in {"object", "no text"} -> Silent
                  [] OTHER -> Threw
    IN  CASE ~http.success -> Threw
          [] http.success /\ usage = "null" /\ http.body # "mock" -> [read EXCEPT !.success = FALSE, !.error = TRUE]
          [] OTHER -> read

OllamaChat(http) ==
    CASE ~http.success -> Failed(http)
      [] http.success /\ http.body = "text" -> Answered(<<"text">>)
      [] http.success /\ http.body \in {"object", "no text", "mock"} -> Silent
      [] OTHER -> Threw

OpenAIChat(http) ==
    CASE ~http.success -> Failed(http)
      [] http.success /\ http.body \in {"text", "mock"} -> Answered(<<http.body>>)
      [] http.success /\ http.body = "object" -> Silent
      [] OTHER -> Threw

\* Blocks of other types make an answer too, with no text.
AnthropicChat(http) ==
    CASE ~http.success -> Failed(http)
      [] http.success /\ http.body = "text" -> Answered(<<"text">>)
      [] http.success /\ http.body = "no text" -> Answered(<<>>)
      [] http.success /\ http.body \in {"object", "mock"} -> Silent
      [] OTHER -> Threw

OpenRouterChat(http) == OpenAIChat(http)

\* The servers that need a key; OpenRouter's stream does not look for it.
NeedsKey(c) == \/ c.provider \in {"openai", "anthropic"}
               \/ c.provider = "openrouter" /\ c.op # "stream"

Chat(c) ==
    LET http == Request(c)
    IN  IF NeedsKey(c) /\ ~c.key THEN Threw
        ELSE CASE c.provider = "lm_studio" -> LMStudioChat(http, c.usage)
               [] c.provider = "ollama" -> OllamaChat(http)
               [] c.provider = "openai" -> OpenAIChat(http)
               [] c.provider = "anthropic" -> AnthropicChat(http)
               [] c.provider = "openrouter" -> OpenRouterChat(http)

\* isHealthy(), and initialize(), which is the same: the local servers are
\* asked, the others need a key.
IsHealthy(c) == IF c.provider \in {"lm_studio", "ollama"} THEN Request(c).success /\ Request(c).status = 200
                ELSE c.key

\* getAvailableModels() of the two that ask: the list of a reply that is
\* one, and else none.
LMStudioModels(http) == IF http.success /\ http.body = "text" THEN <<"models">> ELSE <<>>
OllamaModels(http) == IF http.success /\ http.body = "text" THEN <<"models">> ELSE <<>>
AvailableModels(c) == CASE c.provider = "lm_studio" -> LMStudioModels(Request(c))
                        [] c.provider = "ollama" -> OllamaModels(Request(c))
                        [] OTHER -> <<>>

\* chatStream() of each at its end: whether there is a text counts for more
\* than the status, and only LM Studio tells why there is none.
StreamAnswer(http, texts) ==
    [success |-> texts # <<>> \/ http.success, content |-> texts, error |-> FALSE]
LMStudioStream(http, texts) ==
    IF ~http.success /\ texts = <<>> THEN Failed(http) ELSE Answered(texts)
OllamaStream(http, texts) == StreamAnswer(http, texts)
OpenAIStream(http, texts) == StreamAnswer(http, texts)
AnthropicStream(http, texts) == StreamAnswer(http, texts)
OpenRouterStream(http, texts) == StreamAnswer(http, texts)
StreamEnds(provider, http, texts) ==
    CASE provider = "lm_studio" -> LMStudioStream(http, texts)
      [] provider = "ollama" -> OllamaStream(http, texts)
      [] provider = "openai" -> OpenAIStream(http, texts)
      [] provider = "anthropic" -> AnthropicStream(http, texts)
      [] provider = "openrouter" -> OpenRouterStream(http, texts)

----------------------------------------------------------------------------
(* The calls                                                               *)

providerInit ==
    /\ call = NoRequest /\ response = NoResponse
    /\ received = 0 /\ headers_parsed = FALSE /\ carry_over = <<>>
    /\ accumulated = <<>> /\ handed = <<>>

KeepStream == UNCHANGED <<received, headers_parsed, carry_over, accumulated, handed>>

\* Whom, in which build, and what becomes of the connection.  Where none is
\* made the status does not matter; what libcurl does with the scheme is its own.
Asked(op) ==
    {c \in [op : {op}, provider : Provider, build : {"sockets", "cpr"}, key : BOOLEAN, url : {"http", "https", "HTTPS"},
            reach : {"yes", "unresolved", "no socket", "refused"}, status : {200, 500}] :
        /\ c.key => c.provider \notin {"lm_studio", "ollama"}
        /\ c.url # "http" => c.build = "sockets" /\ c.reach = "yes" /\ c.status = 200
        /\ c.reach # "yes" => c.status = 200}

\* How much of a reply that is not streamed arrives.
Arrival == {"nothing", "header", "body", "whole"}

AskChat ==
    /\ call = NoRequest
    /\ \E c \in Asked("chat"), body \in Bodies, usage \in {"given", "null"}, arrives \in Arrival :
         /\ call' = c @@ [body |-> body, usage |-> usage, arrives |-> arrives]
         /\ response' = Chat(call')
    /\ KeepStream

AskHealth ==
    /\ call = NoRequest
    /\ \E c \in Asked("health"), body \in {"text", "object"}, arrives \in Arrival :
         /\ call' = c @@ [body |-> body, arrives |-> arrives]
         /\ response' = [success |-> IsHealthy(call'), content |-> AvailableModels(call'), error |-> FALSE]
    /\ KeepStream

\* chatStream where nothing is received: without a key, with no connection,
\* or over https, where the sockets pass on the one body they make up, in
\* which Anthropic finds no text.
MadeUp(c) == c.build = "sockets" /\ ParseUrl(c.url) = "https"
StreamOf(c, lines) == call' = c @@ [lines |-> lines] /\ UNCHANGED <<received, headers_parsed, carry_over>>

RefuseStream ==
    /\ call = NoRequest
    /\ \E c \in Asked("stream") :
         /\ StreamOf(c, <<>>)
         /\ \/ NeedsKey(c) /\ ~c.key /\ response' = Threw
            \/ /\ ~(NeedsKey(c) /\ ~c.key) /\ c.reach # "yes"
               /\ response' = StreamEnds(c.provider, Http(0, TRUE, ""), <<>>)
    /\ UNCHANGED <<accumulated, handed>>

MakeUpStream ==
    /\ call = NoRequest
    /\ \E c \in Asked("stream") :
         /\ ~(NeedsKey(c) /\ ~c.key) /\ MadeUp(c)
         /\ StreamOf(c, <<>>)
         /\ accumulated' = (IF c.provider = "anthropic" THEN <<>> ELSE <<"mock">>)
         /\ handed' = accumulated'
         /\ response' = StreamEnds(c.provider, Http(200, FALSE, "mock"), accumulated')

ConnectStream ==
    /\ call = NoRequest
    /\ \E c \in Asked("stream"), lines \in SeqOf({"text", "empty", "bare", "done", "comment"}, MaxPieces) :
         /\ ~(NeedsKey(c) /\ ~c.key) /\ ~MadeUp(c) /\ c.reach = "yes"
         /\ StreamOf(c, lines)
    /\ UNCHANGED <<accumulated, handed, response>>

Streaming == call # NoRequest /\ call.op = "stream" /\ response = NoResponse

\* One recv() or one call of libcurl's WriteCallback, with any part of what
\* is still to come.
Receive ==
    /\ Streaming
    /\ \E n \in (received + 1)..Len(Reply(call)) :
         LET so_far == SubSeq(Reply(call), 1, n)
             head == IF call.build = "cpr" THEN 0 ELSE Len(Header)
             chunk == IF call.build = "cpr" \/ headers_parsed THEN SubSeq(so_far, received + 1, n)
                      ELSE SubSeq(so_far, head + 1, n)      \* initial_body
             sse == ProcessSse(chunk, carry_over)
             texts == Texts(Data(sse.lines))
         IN  /\ received' = n
             /\ headers_parsed' = (n >= head)
             /\ carry_over' = sse.rest
             /\ handed' = handed \o [i \in DOMAIN texts |-> texts[i][1][1]]
             /\ accumulated' = accumulated \o SelectSeq([i \in DOMAIN texts |-> texts[i][1][1]],
                                                        LAMBDA i : call.lines[i] = "text")
    /\ UNCHANGED <<call, response>>

\* The end of the reply, of the time, or of the server.  Built on sockets the
\* client does not look at the status.
EndStream ==
    /\ Streaming
    /\ \E whole \in BOOLEAN, status \in {0, call.status} :
         /\ whole => received = Len(Reply(call))
         /\ status = 0 => received = 0 /\ ~whole
         /\ LET http == IF call.build = "sockets" THEN Http(200, FALSE, "") ELSE Http(status, ~whole, "")
            IN  response' = StreamEnds(call.provider, http, accumulated)
    /\ UNCHANGED call /\ KeepStream

providerNext == AskChat \/ AskHealth \/ RefuseStream \/ MakeUpStream \/ ConnectStream \/ Receive \/ EndStream

----------------------------------------------------------------------------
(* What a caller may rely on                                               *)

\* However the network cuts a streamed reply into pieces, on_token is told
\* each text of a complete line once and in order, nothing of a line that is
\* not complete, and the answer is what was told.
StreamIsExact ==
    call # NoRequest /\ call.op = "stream" /\ ~MadeUp(call) =>
      LET head == IF call.build = "cpr" THEN 0 ELSE Len(Header)
          complete == SelectSeq([i \in DOMAIN call.lines |-> i], LAMBDA i : received >= head + 3 * i)
      IN  /\ handed = SelectSeq(complete, LAMBDA i : call.lines[i] \in {"text", "empty"})
          /\ accumulated = SelectSeq(handed, LAMBDA i : call.lines[i] = "text")
          /\ response # NoResponse => response.content = accumulated

\* An answer that is not streamed is the server's, of a reply that came
\* whole and with a status of success; the one exception is the body the
\* client on sockets makes up for https.
Served(c) == c.reach = "yes" /\ c.arrives = "whole" /\ c.status = 200 /\ (NeedsKey(c) => c.key)
ChatIsServed ==
    call # NoRequest /\ call.op = "chat" /\ ~MadeUp(call) =>
      /\ response.success => /\ Served(call)
                             /\ call.body = "text" \/ (call.provider = "anthropic" /\ call.body = "no text")
      /\ Served(call) /\ call.body = "text" /\ ~(call.provider = "lm_studio" /\ call.usage = "null") => response = Answered(<<"text">>)

\* A local provider that is called healthy, or that names models, has a
\* server behind it: the router's probe believes it.
HealthIsSeen ==
    call # NoRequest /\ call.op = "health" /\ ~MadeUp(call) /\ call.provider \in {"lm_studio", "ollama"} =>
      /\ response.success => call.reach = "yes" /\ call.arrives # "nothing" /\ (call.arrives = "whole" => call.status = 200)
      /\ response.content # <<>> <=> Served(call) /\ call.body = "text"

\* What the fast reader takes for a text is the text, whatever it holds, if
\* the line is whole: Escapes are the ways a server may write it.
Escapes(text) ==
    LET ways(ch) == CASE ch = "\n" -> {<<"\\", "n">>} [] ch \in {"\"", "\\"} -> {<<"\\", ch>>}
                      [] ch = "<" -> {<<"<">>, <<"\\", "u<">>} [] OTHER -> {<<ch>>}
    IN  {FlattenSeq(w) : w \in {f \in [DOMAIN text -> UNION {ways(text[i]) : i \in DOMAIN text}] :
                                  \A i \in DOMAIN text : f[i] \in ways(text[i])}}
DeltaIsExact ==
    \A text \in SeqOf({"n", "\n", "\"", "\\", "<"}, 3) : \A written \in Escapes(text) :
        /\ ExtractDelta(written \o <<"\"", "}", "\"">>) = [found |-> TRUE, text |-> text]
        /\ ~ExtractDelta(written).found
=============================================================================
