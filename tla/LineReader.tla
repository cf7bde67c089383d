----------------------------- MODULE LineReader -----------------------------
(***************************************************************************)
(* cli/LineReader as cli/Repl uses it: the line editor of the Windows      *)
(* build, key by key, with its walk through the history, and the history   *)
(* file that one run leaves to the next.  A line is a sequence of          *)
(* characters; "/exit" counts as one.  Where standard input is no console  *)
(* (or the system is not Windows) a line comes whole: the editor with no   *)
(* key but characters and Enter.                                           *)
(***************************************************************************)
EXTENDS Naturals, Sequences, SequencesExt

CONSTANTS
    Char,           \* characters that are typed; "\\" at the end continues a line
    Blank,          \* those that trim() takes off
    Completion,     \* buffers that have exactly one completion -> that completion
    MaxChars,       \* bound: length of a line
    MaxHistory      \* max_history_size_

ASSUME ReaderAssumption == MaxHistory \in Nat \ {0} /\ MaxChars \in Nat
ASSUME CompletionAssumption ==
    \A line \in DOMAIN Completion : Completion[line] \in Seq(ToSet(Completion[line]))

VARIABLES
    history,        \* history_
    buffer,         \* the line being edited
    cursor,         \* characters before the cursor
    history_index,  \* place in the history; its length when none is shown
    temp_buffer,    \* the line as it was before the walk; <<>> where unused
    multiline       \* multiline_mode_

readerVars == <<history, buffer, cursor, history_index, temp_buffer, multiline>>

ExitLine == <<"/exit">>
MultilineLine == <<"/multiline">>
IsBlank(line) == ToSet(line) \subseteq Blank \cup {"\n"}
Tail1(s) == SubSeq(s, Len(s) - MaxHistory + 1, Len(s))
Capped(s) == IF Len(s) > MaxHistory THEN Tail1(s) ELSE s

----------------------------------------------------------------------------
(* The history and its file                                                *)

\* Mutant: no look at the last entry.
AddAlways(h, line) == IF IsBlank(line) THEN h ELSE Capped(Append(h, line))

\* addHistory: neither blank lines nor one that repeats the last.
AddHistory(h, line) ==
    IF IsBlank(line) \/ (h # <<>> /\ Last(h) = line) THEN h ELSE Capped(Append(h, line))

\* One more character of a file: a line feed begins a line.
Written(lines, c) ==
    IF c = "\n" THEN Append(lines, <<>>) ELSE [lines EXCEPT ![Len(lines)] = Append(@, c)]

\* The physical lines of an entry.
Lines(entry) == FoldLeft(Written, <<<<>>>>, entry)

SaveHistory(h) == FlattenSeq([i \in DOMAIN h |-> Lines(h[i])])

\* loadHistory caps the history once, at the end.
Loaded(h, line) ==
    IF IsBlank(line) \/ (h # <<>> /\ Last(h) = line) THEN h ELSE Append(h, line)
LoadHistory(file) == Capped(FoldLeft(Loaded, <<>>, file))

----------------------------------------------------------------------------
(* readLine                                                                *)

readerInit ==
    /\ history = <<>> /\ multiline = FALSE
    /\ buffer = <<>> /\ cursor = 0 /\ history_index = 0 /\ temp_buffer = <<>>

Shows(line) == buffer' = line /\ cursor' = Len(line)
KeepWalk == UNCHANGED <<history, history_index, temp_buffer, multiline>>

Up ==
    /\ ~multiline /\ history_index > 0
    /\ temp_buffer' = (IF history_index = Len(history) THEN buffer ELSE temp_buffer)
    /\ history_index' = history_index - 1
    /\ Shows(history[history_index])
    /\ UNCHANGED <<history, multiline>>

Down ==
    /\ ~multiline /\ history_index < Len(history)
    /\ history_index' = history_index + 1
    /\ IF history_index' = Len(history) THEN Shows(temp_buffer) /\ temp_buffer' = <<>>
       ELSE Shows(history[history_index' + 1]) /\ UNCHANGED temp_buffer
    /\ UNCHANGED <<history, multiline>>

\* Left, right, home (Ctrl+A), end (Ctrl+E).
Move ==
    /\ ~multiline
    /\ cursor' \in {0, Len(buffer)} \cup {c \in {cursor - 1, cursor + 1} : c \in 0..Len(buffer)}
    /\ UNCHANGED buffer /\ KeepWalk

Without(i) == RemoveAt(buffer, i)
Delete ==
    /\ ~multiline /\ cursor < Len(buffer)
    /\ buffer' = Without(cursor + 1) /\ UNCHANGED cursor /\ KeepWalk
Backspace ==
    /\ ~multiline /\ cursor > 0
    /\ buffer' = Without(cursor) /\ cursor' = cursor - 1 /\ KeepWalk

\* Ctrl+U, Ctrl+C.
ClearLine == ~multiline /\ Shows(<<>>) /\ KeepWalk

\* A single completion replaces the whole line.
Complete == ~multiline /\ buffer \in DOMAIN Completion /\ Shows(Completion[buffer]) /\ KeepWalk

\* Ctrl+R and Enter: the entry found takes the place of the line.
ReverseSearch == ~multiline /\ (\E i \in DOMAIN history : Shows(history[i])) /\ KeepWalk

Type(c) ==
    /\ ~multiline /\ Len(buffer) < MaxChars
    /\ buffer' = InsertAt(buffer, cursor + 1, c) /\ cursor' = cursor + 1
    /\ KeepWalk

----------------------------------------------------------------------------
(* The loop of Repl::run                                                   *)

\* Repl::run takes the line: into the history, unless it is blank, and
\* the next readLine begins.
Takes(h) ==
    /\ history' = h /\ history_index' = Len(h)
    /\ buffer' = <<>> /\ cursor' = 0 /\ temp_buffer' = <<>>

\* A backslash at the end asks for one more line, taken as it comes; the
\* input may end instead.
EnterLine ==
    /\ ~multiline
    /\ IF buffer # <<>> /\ Last(buffer) = "\\"
       THEN \E next \in {<<>>, <<"\n">>} \cup {<<"\n", c>> : c \in Char \ {"\\"}} :
              Takes(AddHistory(history, Front(buffer) \o next))
       ELSE buffer \notin {ExitLine, MultilineLine} /\ Takes(AddHistory(history, buffer))
    /\ UNCHANGED multiline

\* "/multiline" is a line like others, and not dispatched.
ToggleMultiline ==
    /\ Takes(AddHistory(history, MultilineLine))
    /\ multiline' = ~multiline

\* readMultiline: lines to a single ".", two of them here.
EnterBlock ==
    /\ multiline
    /\ \E c \in Char : Takes(AddHistory(history, <<c, "\n", c>>))
    /\ UNCHANGED multiline

\* "/exit", Ctrl+D in an empty line, which stands for it, or the end of the
\* input: the file is written, and the next process reads it.
Exit ==
    /\ multiline \/ buffer \in {<<>>, ExitLine}
    /\ \E h \in {history, AddHistory(history, ExitLine)} : Takes(LoadHistory(SaveHistory(h)))
    /\ multiline' = FALSE

readerNext ==
    \/ Up \/ Down \/ Move \/ Delete \/ Backspace \/ ClearLine \/ Complete \/ ReverseSearch
    \/ (\E c \in Char : Type(c))
    \/ EnterLine \/ ToggleMultiline \/ EnterBlock \/ Exit

readerSpec == readerInit /\ [][readerNext]_readerVars

----------------------------------------------------------------------------
\* What the file gives back to the next process is the history this one
\* ends with, when none of its entries has several lines; and the editor
\* never points outside the line or the history.
HistoryComesBack ==
    /\ (\A i \in DOMAIN history : "\n" \notin ToSet(history[i]))
          => LoadHistory(SaveHistory(history)) = history
    /\ cursor <= Len(buffer) /\ history_index <= Len(history)
=============================================================================
