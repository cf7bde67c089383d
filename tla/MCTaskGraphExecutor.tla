------------------------ MODULE MCTaskGraphExecutor ------------------------
(***************************************************************************)
(* The two pools of threads that execute tasks, for TLC in one run: a      *)
(* behaviour is one of the executor of task graphs or one of the           *)
(* scheduler, as focus says, and leaves the other as it is initially.      *)
(* The executor meets every acyclic graph on the numbered nodes (up to     *)
(* renaming), one cyclic graph that execute() refuses, and one node that   *)
(* may be retried.                                                         *)
(***************************************************************************)
EXTENDS TaskGraphExecutor, Scheduler, TLC

CONSTANTS Size, RetriedNode, Retries

MCNode == 1..Size
MCAcyclic == {g \in [MCNode -> SUBSET MCNode] : \A n \in MCNode : \A s \in g[n] : n < s}
MCRing == [n \in MCNode |-> {IF n = Size THEN 1 ELSE n + 1}]
MCGraphs == MCAcyclic \cup {MCRing}
MCMaxRetries == [n \in MCNode |-> IF n = RetriedNode THEN Retries ELSE 0]

VARIABLE focus

poolsVars == <<focus, vars, schedulerVars>>

poolsInit ==
    /\ focus \in {"executor", "scheduler"}
    /\ Init /\ schedulerInit
    /\ focus = "scheduler" => adj = MCRing /\ ~rollback

ExecutorStep == focus = "executor" /\ Next /\ UNCHANGED <<focus, schedulerVars>>
SchedulerStep == focus = "scheduler" /\ schedulerNext /\ UNCHANGED <<focus, vars>>

poolsSpec == poolsInit /\ [][ExecutorStep \/ SchedulerStep]_poolsVars

\* The scheduler past the use of a freed task is not followed: nothing is
\* claimed of what comes after.
Followed == ~freed

ThreadSymmetry == Permutations(Worker)
=============================================================================
