---------------------------- MODULE ToolRegistry ----------------------------
(***************************************************************************)
(* tools/ToolRegistry, with the tools that createDefaultTools registers:   *)
(* the table of their operations and of the parameters each asks for, the  *)
(* gates of the two ways to execute one, and the statistics each keeps.    *)
(* The tools of this file answer a fixed text whatever the parameters      *)
(* hold; those of workspace/ and testing/ may fail for reasons of theirs.  *)
(* The registry's mutex is held for a look-up, not for the call that       *)
(* follows: a tool may be replaced or forgotten while it is executed, and  *)
(* keeps its statistics to itself.                                         *)
(***************************************************************************)
EXTENDS Naturals, FiniteSets, Functions, Maps

CONSTANTS
    Provided,       \* dependencies that setters may inject
    Caller,         \* threads
    NoCall,         \* the thread executes no tool
    Duration,       \* milliseconds a call may take
    MaxCalls,       \* bound: calls of tools
    MaxTools        \* bound: tools created

ASSUME ToolAssumption == Duration \subseteq Nat

VARIABLES
    injected,       \* fs_, terminal_, git_, ... that are set
    tools,          \* tools_: name -> number of the object
    stats,          \* stats_ of each object that is still referred to
    executing,      \* thread -> the object it executes, what it will answer
    callCount,      \* calls begun
    toolCount       \* objects created

toolVars == <<injected, tools, stats, executing, callCount, toolCount>>

toolInit ==
    /\ injected = {} /\ tools = <<>> /\ stats = <<>>
    /\ executing = [c \in Caller |-> NoCall]
    /\ callCount = 0 /\ toolCount = 0

----------------------------------------------------------------------------
(* What each operation asks for                                            *)

Filesystem == [read |-> {"path"}, write |-> {"path", "content"}, delete |-> {"path"},
               list |-> {}, mkdir |-> {"path"}, exists |-> {"path"}, size |-> {"path"},
               copy |-> {"source", "destination"}, move |-> {"source", "destination"},
               search |-> {}]
Terminal == [command |-> {}]
Git == [status |-> {}, diff |-> {}, commit |-> {"message"}, push |-> {}, pull |-> {},
        checkout |-> {}, branch |-> {"name"}, merge |-> {"branch"}, log |-> {}, stash |-> {}]
Search == [grep |-> {"pattern"}, regex |-> {"pattern"}, find |-> {}, symbol |-> {"symbol"}]
Lsp == [definition |-> {"file"}, references |-> {"symbol"}, hover |-> {}, completion |-> {},
        diagnostics |-> {}, rename |-> {"symbol", "new_name"}, format |-> {}]
Network == [get |-> {"url"}, post |-> {"url"}, download |-> {"url", "path"}]
CodeAnalysis == [parse |-> {"file"}, ast |-> {}, symbols |-> {}, callgraph |-> {},
                 dependencies |-> {}, complexity |-> {}]
Build == [compile |-> {}, clean |-> {}, install |-> {}]
Memory == [store |-> {"key", "value"}, retrieve |-> {"key"}, search |-> {}, delete |-> {"key"}]
ContextOps == [add |-> {}, get |-> {}, remove |-> {}, rank |-> {}]
Workspace == [create_worktree |-> {"task_id"}, remove_worktree |-> {"task_id"},
              list_worktrees |-> {}, create_snapshot |-> {}, rollback_snapshot |-> {"snapshot_id"},
              get_diff |-> {"snapshot_id"}, merge_branch |-> {"source_branch"},
              validate_path |-> {"path"}]
Testing == [generate_tests |-> {"path"}, run_tests |-> {"command"}, diagnose_code |-> {"path"},
            analyze_coverage |-> {"path"}, auto_repair |-> {}]

\* Per tool: its operations, and the permissions executeWithPermission wants.
DefaultTool ==
    [filesystem |-> [ops |-> Filesystem, needs |-> {"Read"}],
     search |-> [ops |-> Search, needs |-> {"Read"}],
     terminal |-> [ops |-> Terminal, needs |-> {"Execute", "Dangerous"}],
     build |-> [ops |-> Build, needs |-> {"Execute", "Write"}],
     git |-> [ops |-> Git, needs |-> {"Read", "Write"}],
     lsp |-> [ops |-> Lsp, needs |-> {"Read"}],
     code_analysis |-> [ops |-> CodeAnalysis, needs |-> {"Read"}],
     network |-> [ops |-> Network, needs |-> {"Network"}],
     memory |-> [ops |-> Memory, needs |-> {"Read", "Write"}],
     context |-> [ops |-> ContextOps, needs |-> {"Read", "Write"}],
     workspace |-> [ops |-> Workspace, needs |-> {"Read", "Write"}],
     testing |-> [ops |-> Testing, needs |-> {"Read", "Execute"}]]

\* The dependency each tool of createDefaultTools waits for.
Wants(name) ==
    CASE name \in {"filesystem", "search"} -> "fs"
      [] name \in {"terminal", "build"} -> "terminal"
      [] name \in {"workspace", "testing"} -> "nothing"
      [] OTHER -> name

\* These two declare the parameter `operation` as required, and count a call
\* without it.
Declares(name) == name \in {"workspace", "testing"}

\* What a call may end in.  "uncounted" is an answer before recordCall, or an
\* exception past it: the number of log entries need not be one.
Answers(name, op, given) ==
    LET ops == DefaultTool[name].ops
    IN  IF op = "missing" THEN {IF Declares(name) THEN "failed" ELSE "uncounted"}
        ELSE IF op \notin DOMAIN ops \/ ~(ops[op] \subseteq given) THEN {"failed"}
        ELSE IF Declares(name) THEN {"ok", "failed"}
        ELSE IF name = "git" /\ op = "log" THEN {"ok", "uncounted"}
        ELSE {"ok"}

----------------------------------------------------------------------------
(* The registry                                                            *)

NewStats == [total |-> 0, ok |-> 0, failed |-> 0, sum |-> 0, average |-> 0, min |-> 0, max |-> 0]

\* Objects that the registry or a call still refers to.
Referred(ts, ex) ==
    {ts[n] : n \in DOMAIN ts} \cup {ex[c].tool : c \in {d \in Caller : ex[d] # NoCall}}
Kept(ss, ts, ex) == [i \in DOMAIN ss \cap Referred(ts, ex) |-> ss[i]]

\* setFileSystem and its likes take effect with the next initialize.
Inject(d) ==
    /\ d \notin injected
    /\ injected' = injected \cup {d}
    /\ UNCHANGED <<tools, stats, executing, callCount, toolCount>>

\* New objects in the place of old ones of the same names; the rest stays.
Register(names) ==
    LET number == CHOOSE f \in [names -> toolCount + 1..toolCount + Cardinality(names)] :
                      \A m, n \in names : f[m] = f[n] => m = n
        table == [n \in DOMAIN tools \cup names |-> IF n \in names THEN number[n] ELSE tools[n]]
        all == [i \in DOMAIN stats \cup {number[n] : n \in names} |->
                  IF i \in DOMAIN stats THEN stats[i] ELSE NewStats]
    IN  /\ toolCount + Cardinality(names) <= MaxTools
        /\ tools' = table
        /\ stats' = Kept(all, table, executing)
        /\ toolCount' = toolCount + Cardinality(names)
        /\ UNCHANGED <<injected, executing, callCount>>

InitializeTools == Register({n \in DOMAIN DefaultTool : Wants(n) \in injected \cup {"nothing"}})
\* registerTool, of which the program has two callers.
RegisterTool(name) == Declares(name) /\ Register({name})

Forget(names) ==
    /\ tools' = Drop(tools, names)
    /\ stats' = Kept(stats, tools', executing)
    /\ UNCHANGED <<injected, executing, callCount, toolCount>>

UnregisterTool(name) == name \in DOMAIN tools /\ Forget({name})
ShutdownTools == tools # <<>> /\ Forget(DOMAIN tools)

----------------------------------------------------------------------------
(* A call: the look-up and the gates, then the execution                   *)

Enter(c, name, op, given) ==
    /\ executing[c] = NoCall /\ callCount < MaxCalls /\ name \in DOMAIN tools
    /\ \E answer \in Answers(name, op, given) :
         executing' = [executing EXCEPT ![c] = [tool |-> tools[name], answer |-> answer]]
    /\ callCount' = callCount + 1
    /\ UNCHANGED <<injected, tools, stats, toolCount>>

\* executeTool: an operation is asked for where it is declared; no permission.
ExecuteTool(c, name, op, given) ==
    /\ Declares(name) => op # "missing"
    /\ Enter(c, name, op, given)

\* executeWithPermission: the permissions, and nothing else.
ExecuteWithPermission(c, name, op, given, granted) ==
    /\ DefaultTool[name].needs \subseteq granted
    /\ Enter(c, name, op, given)

\* Mutant: one comparison or the other, so the first call leaves max at 0.
RecordCallEither(s, ok, d) ==
    LET total == s.total + 1
        shorter == s.min = 0 \/ d < s.min
    IN  [total |-> total, ok |-> s.ok + (IF ok THEN 1 ELSE 0),
         failed |-> s.failed + (IF ok THEN 0 ELSE 1),
         sum |-> s.sum + d, average |-> (s.sum + d) \div total,
         min |-> IF shorter THEN d ELSE s.min,
         max |-> IF ~shorter /\ d > s.max THEN d ELSE s.max]

\* recordCall: a minimum of 0 counts as none yet, so it is forgotten with the
\* next call and need not be the least of all.
RecordCall(s, ok, d) ==
    LET total == s.total + 1
    IN  [total |-> total, ok |-> s.ok + (IF ok THEN 1 ELSE 0),
         failed |-> s.failed + (IF ok THEN 0 ELSE 1),
         sum |-> s.sum + d, average |-> (s.sum + d) \div total,
         min |-> IF s.min = 0 \/ d < s.min THEN d ELSE s.min,
         max |-> IF d > s.max THEN d ELSE s.max]

EndCall(c, d) ==
    /\ executing[c] # NoCall
    /\ LET i == executing[c].tool
           a == executing[c].answer
           counted == IF a = "uncounted" THEN stats
                      ELSE [stats EXCEPT ![i] = RecordCall(@, a = "ok", d)]
       IN  /\ executing' = [executing EXCEPT ![c] = NoCall]
           /\ stats' = Kept(counted, tools, executing')
    /\ UNCHANGED <<injected, tools, callCount, toolCount>>

\* getStats: the sums over the registered tools.
Column(field) == [n \in DOMAIN tools |-> stats[tools[n]][field]]
Sum(field) == SumFunction(Column(field))

Permissions == {"Read", "Write", "Execute", "Network", "Dangerous"}

toolNext ==
    \/ \E d \in Provided : Inject(d)
    \/ \E n \in DOMAIN DefaultTool : RegisterTool(n) \/ UnregisterTool(n)
    \/ InitializeTools \/ ShutdownTools
    \/ \E c \in Caller, n \in DOMAIN tools :
         \E op \in DOMAIN DefaultTool[n].ops \cup {"missing", "unknown"} :
           \E given \in SUBSET (IF op \in DOMAIN DefaultTool[n].ops THEN DefaultTool[n].ops[op] ELSE {}) :
             \/ ExecuteTool(c, n, op, given)
             \/ \E granted \in {Permissions, {"Read", "Write"}} :
                  ExecuteWithPermission(c, n, op, given, granted)
    \/ \E c \in Caller, d \in Duration : EndCall(c, d)

toolSpec == toolInit /\ [][toolNext]_toolVars

----------------------------------------------------------------------------
\* What getStats tells of a tool is consistent however its calls overlap and
\* whatever is registered over it: every counted call succeeded or failed,
\* the longest call is no shorter than the average nor than the shortest, and
\* the registry's totals are of calls that were made.
StatsAddUp ==
    /\ \A i \in DOMAIN stats :
         LET s == stats[i]
         IN  s.total = s.ok + s.failed /\ s.average <= s.max /\ s.min <= s.max
    /\ Sum("total") = Sum("ok") + Sum("failed") /\ Sum("total") <= callCount
=============================================================================
