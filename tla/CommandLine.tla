---------------------------- MODULE CommandLine ----------------------------
(***************************************************************************)
(* cli/CommandRegistry with its eighteen commands, cli/CliSession, and the *)
(* loops that dispatch lines: cli/Repl, with one session, and              *)
(* cli/NonInteractiveRunner (-e, -f and --pipe), with a new session for    *)
(* every line.  A line is a command and its tokens, which are words "x",   *)
(* subcommands, or flags "-f".  What a command prints is left out, and so  *)
(* is the table of /config, which no other part of the program reads.      *)
(***************************************************************************)
EXTENDS Naturals, Sequences, SequencesExt

CONSTANTS
    Argument,       \* token lists after the subcommand
    MaxDispatched   \* bound: lines of one process, and of a log that grows

ASSUME ArgumentAssumption == \A rest \in Argument : rest \in Seq(ToSet(rest))

VARIABLES
    session,        \* CliSession: its state_ and command_history_
    sessionFile,    \* session.json: how much is there, and of which session
    mode,           \* how the process was started, or "none"
    ended,          \* it has run its last line
    exitCode,       \* last_exit_code
    dispatched,     \* lines dispatched so far
    failed,         \* history: those that failed, by number
    lastSaved,      \* history: the session of the last save that answered ok
    beforeLoad      \* history: <<session>> before the /session load that came last

cliVars == <<session, sessionFile, mode, ended, exitCode, dispatched, failed, lastSaved, beforeLoad>>

\* reset.
NewSession == [branch |-> "main", provider |-> "lm_studio", model |-> "local", tokens |-> 0, log |-> <<>>]

----------------------------------------------------------------------------
(* What a command answers, and leaves of the session and the file          *)

Ok(s) == [ok |-> TRUE, session |-> s, file |-> sessionFile, saved |-> lastSaved]
NotOk(s) == [Ok(s) EXCEPT !.ok = FALSE]
Judged(s, accepted) == {IF accepted THEN Ok(s) ELSE NotOk(s)}

\* A subcommand that is known, with at least the arguments it wants.
Fits(wants, args) == args # <<>> /\ args[1] \in DOMAIN wants /\ Len(args) > wants[args[1]]

Aliases ==
    [h |-> "help", r |-> "run", t |-> "task", m |-> "model", mem |-> "memory", ws |-> "workspace",
     st |-> "status", cp |-> "checkpoint", rb |-> "rollback", d |-> "diff", hist |-> "history",
     cfg |-> "config", tool |-> "tools", cls |-> "clear", multi |-> "multiline", s |-> "session",
     quit |-> "exit", q |-> "exit"]
CommandNames == {Aliases[a] : a \in DOMAIN Aliases} \cup {"test"}

\* getCommand: a name, or the alias of one.
Resolved(word) == IF word \in DOMAIN Aliases THEN Aliases[word] ELSE word

HelpCommand(s, args) == Judged(s, args = <<>> \/ Resolved(args[1]) \in CommandNames)

\* ok whatever becomes of the workflow, and 100 tokens whatever it used.
RunCommand(s, args) == Judged(IF args = <<>> THEN s ELSE [s EXCEPT !.tokens = @ + 100], args # <<>>)

TaskCommand(s, args) == Judged(s, Fits([graph |-> 1, list |-> 0, cancel |-> 0, retry |-> 1, run |-> 1], args))

ModelCommand(s, args) ==
    LET fits == args = <<>> \/ Fits([list |-> 0, switch |-> 1, role |-> 3, health |-> 0, metrics |-> 0], args)
        switched == [s EXCEPT !.provider = args[2], !.model = IF Len(args) > 2 THEN args[3] ELSE "default"]
    IN  Judged(IF fits /\ args # <<>> /\ args[1] = "switch" THEN switched ELSE s, fits)

MemoryCommand(s, args) == Judged(s, Fits([search |-> 1, store |-> 2, stats |-> 0, clear |-> 0, kg |-> 0], args))

\* create makes no branch, and switch switches none: both rename the session's.
WorkspaceCommand(s, args) ==
    LET fits == args = <<>> \/ Fits([list |-> 0, create |-> 1, switch |-> 1, clean |-> 0, diff |-> 0], args)
        renames == fits /\ args # <<>> /\ args[1] \in {"create", "switch"}
    IN  Judged(IF renames THEN [s EXCEPT !.branch = args[2]] ELSE s, fits)

TestCommand(s, args) == Judged(s, Fits([run |-> 0, gen |-> 1, diag |-> 1], args))
ConfigCommand(s, args) == Judged(s, args = <<>> \/ Fits([get |-> 1, set |-> 2, reload |-> 0, list |-> 0], args))
ToolsCommand(s, args) == Judged(s, args = <<>> \/ Fits([list |-> 0, info |-> 1, stats |-> 0], args))

\* /status, /checkpoint, /rollback, /diff, /history, /clear, /multiline, /exit.
AlwaysOk == {"status", "checkpoint", "rollback", "diff", "history", "clear", "multiline", "exit"}

----------------------------------------------------------------------------
(* /session                                                                *)

\* loadFromFile: a file that is not there or does not parse changes nothing.
LoadFromFile(s) == IF sessionFile.is = "whole" THEN sessionFile.of ELSE s

Torn == [is |-> "torn", of |-> NewSession]

\* saveToFile: no file; a file that is emptied before the session turns out
\* not to be UTF-8; a whole file; or half of one, which the code does not
\* notice, for it never looks at the stream again.
SaveToFile(s) ==
    {NotOk(s), [NotOk(s) EXCEPT !.file = Torn]}
        \cup {[Ok(s) EXCEPT !.file = f, !.saved = s] : f \in {[is |-> "whole", of |-> s], Torn}}

SessionCommand(s, args) ==
    IF ~Fits([save |-> 0, load |-> 1, new |-> 0, export |-> 0], args) THEN {NotOk(s)}
    ELSE CASE args[1] = "new" -> {Ok(NewSession)}
           [] args[1] = "load" -> Judged(LoadFromFile(s), sessionFile.is = "whole")
           [] args[1] = "save" -> SaveToFile(s)
           [] args[1] = "export" -> {[r EXCEPT !.file = sessionFile, !.saved = lastSaved] : r \in SaveToFile(s)}

----------------------------------------------------------------------------
(* dispatch                                                                *)

\* parseFlags: a flag takes the next token for its value, unless that is a
\* flag too; what is left is positional.
Parsed(acc, tok) ==
    IF tok = "-f" THEN [acc EXCEPT !.flag = TRUE]
    ELSE IF acc.flag THEN [acc EXCEPT !.flag = FALSE]
    ELSE [acc EXCEPT !.args = Append(@, tok)]

Positional(tokens) == FoldLeft(Parsed, [args |-> <<>>, flag |-> FALSE], tokens).args

Dispatch(s, word, tokens) ==
    LET name == Resolved(word)
        args == Positional(tokens)
    IN  CASE name \in AlwaysOk -> {Ok(s)}
          [] name = "help" -> HelpCommand(s, args)
          [] name = "run" -> RunCommand(s, args)
          [] name = "task" -> TaskCommand(s, args)
          [] name = "model" -> ModelCommand(s, args)
          [] name = "memory" -> MemoryCommand(s, args)
          [] name = "workspace" -> WorkspaceCommand(s, args)
          [] name = "test" -> TestCommand(s, args)
          [] name = "config" -> ConfigCommand(s, args)
          [] name = "tools" -> ToolsCommand(s, args)
          [] name = "session" -> SessionCommand(s, args)
          [] name = "prompt" -> RunCommand(s, <<"x">>)      \* a line without "/"
          [] OTHER -> {NotOk(s)}

----------------------------------------------------------------------------
(* Processes                                                               *)

cliInit ==
    /\ session = NewSession /\ sessionFile = [is |-> "none", of |-> NewSession] /\ lastSaved = NewSession
    /\ mode = "none" /\ ended = FALSE /\ exitCode = 0 /\ dispatched = 0
    /\ failed = {} /\ beforeLoad = <<>>

StartProcess(m) ==
    /\ mode = "none"
    /\ mode' = m /\ ended' = FALSE /\ exitCode' = 0 /\ dispatched' = 0 /\ failed' = {}
    /\ session' = NewSession /\ beforeLoad' = <<>>
    /\ UNCHANGED <<sessionFile, lastSaved>>

\* Repl::run: a command, whatever it answers, goes into the session's history.
ReplLine(word, tokens) ==
    /\ mode = "repl" /\ ~ended
    /\ dispatched < MaxDispatched /\ Len(session.log) < MaxDispatched
    /\ \E r \in Dispatch(session, word, tokens) :
         /\ session' = [r.session EXCEPT !.log = Append(@, r.ok)]
         /\ sessionFile' = r.file /\ lastSaved' = r.saved
    /\ beforeLoad' = (IF Resolved(word) = "session" /\ tokens # <<>> /\ tokens[1] = "load"
                      THEN <<session>> ELSE <<>>)
    /\ ended' = (Resolved(word) = "exit")
    /\ dispatched' = dispatched + 1
    /\ UNCHANGED <<mode, exitCode, failed>>

\* Mutant: the last line decides.
LastCode(ok) == exitCode' = (IF ok THEN 0 ELSE 1)

\* The last line that failed decides.
KeepCode(ok) == exitCode' = (IF ok THEN exitCode ELSE 1)

\* executeCommand, from -e, a script or a pipe.  /exit is a line like others.
RunnerLine(word, tokens) ==
    /\ mode \in {"eval", "script", "pipe"} /\ ~ended /\ dispatched < MaxDispatched
    /\ \E r \in Dispatch(NewSession, word, tokens) :
         /\ sessionFile' = r.file /\ lastSaved' = r.saved
         /\ KeepCode(r.ok)
         /\ failed' = (IF r.ok THEN failed ELSE failed \cup {dispatched + 1})
         /\ ended' = (mode = "eval" \/ (mode = "script" /\ ~r.ok))
    /\ dispatched' = dispatched + 1
    /\ UNCHANGED <<mode, session, beforeLoad>>

EndInput ==
    /\ mode \in {"repl", "script", "pipe"} /\ ~ended
    /\ ended' = TRUE
    /\ UNCHANGED <<session, sessionFile, mode, exitCode, dispatched, failed, lastSaved, beforeLoad>>

EndProcess ==
    /\ ended
    /\ mode' = "none" /\ ended' = FALSE
    /\ UNCHANGED <<session, sessionFile, exitCode, dispatched, failed, lastSaved, beforeLoad>>

Subcommand ==
    {"graph", "list", "cancel", "retry", "run", "switch", "role", "health", "search", "store", "create",
     "gen", "get", "set", "info", "save", "load", "new", "export", "x"}

cliNext ==
    \/ \E m \in {"repl", "eval", "script", "pipe"} : StartProcess(m)
    \/ \E word \in CommandNames \cup {"s", "x", "prompt"}, rest \in Argument :
         \E tokens \in {rest} \cup {<<sub>> \o rest : sub \in Subcommand} :
           ReplLine(word, tokens) \/ RunnerLine(word, tokens)
    \/ EndInput \/ EndProcess

cliSpec == cliInit /\ [][cliNext]_cliVars

----------------------------------------------------------------------------
\* A process that runs lines without a user answers 0 exactly when none of
\* them failed, and a script runs no line after one that did.
ExitCodeTells ==
    ended /\ mode # "repl" =>
        /\ exitCode = 0 <=> failed = {}
        /\ mode = "script" => failed \subseteq {dispatched}

\* /session load leaves the session as it was, or as it was when it was last
\* saved, whatever became of the file in between: never a mixture of the two.
LoadIsWhole ==
    beforeLoad # <<>> =>
        [session EXCEPT !.log = Front(@)] \in {beforeLoad[1], lastSaved}
=============================================================================
