---------------------------- MODULE ServiceProofs ----------------------------
(***************************************************************************)
(* Machine-checked proofs about the scheduler, the kernel with its event   *)
(* bus, the planner, the command line, the conversations of the desktop    *)
(* program, the three classes over git, the tool registry, the line diff,  *)
(* the patterns of protected paths and the kernels of the vector store.    *)
(* They share no state: each theorem is about the specification of one     *)
(* module, or about what MCServices states of its parts.                   *)
(***************************************************************************)
EXTENDS Scheduler, Kernel, Planner, CommandLine, Conversations, LineReader, GitWorktree, Sandboxes, BranchSandbox,
    ToolRegistry, MCServices, CollectionProofs, FunctionTheorems, FiniteSetTheorems, SequenceTheorems, TLAPS

----------------------------------------------------------------------------
(* The scheduler                                                           *)

JobRecord == [state : {"Pending", "Running", "Paused", "Completed", "Cancelled", "Failed"},
              priority : Priority, needs : SUBSET Job, retries : Nat]

\* As long as no task is erased under a worker, a worker that is not free is
\* alive and executes a task of the table, and whoever is in on_complete is
\* not free.
AttendedInv ==
    /\ work \in [PoolWorker -> Job \cup {NoTask}]
    /\ DOMAIN tasks \subseteq Job \cup {NoId}
    /\ \A id \in DOMAIN tasks : tasks[id] \in JobRecord
    /\ alive \subseteq PoolWorker
    /\ \A w \in PoolWorker : work[w] # NoTask => w \in alive
    /\ \A w \in calling : work[w] # NoTask
    /\ RunningIsAttended

\* A step after which no other task is Running than before, and whose workers
\* let go only of a task that is not Running any more.
LEMMA AttendedKept ==
    ASSUME AttendedInv, ~freed' => ~freed,
           work' \in [PoolWorker -> Job \cup {NoTask}],
           DOMAIN tasks' \subseteq Job \cup {NoId},
           \A id \in DOMAIN tasks' : tasks'[id] \in JobRecord,
           alive' \subseteq PoolWorker,
           \A w \in PoolWorker : work'[w] # NoTask => w \in alive',
           \A w \in calling' : work'[w] # NoTask,
           ~freed' => \A id \in DOMAIN tasks' \ {NoId} : StateOf(id)' = "Running" =>
              \/ /\ id \in DOMAIN tasks /\ StateOf(id) = "Running"
                 /\ \A w \in alive \ calling : work[w] = id =>
                       w \in alive' \ calling' /\ work'[w] = id
              \/ \E w \in alive' \ calling' : work'[w] = id
    PROVE  AttendedInv'
<1>1. ASSUME ~freed', NEW id \in DOMAIN tasks' \ {NoId}, StateOf(id)' = "Running"
      PROVE  \E w \in alive' \ calling' : work'[w] = id
  <2>1. CASE /\ id \in DOMAIN tasks /\ StateOf(id) = "Running"
             /\ \A w \in alive \ calling : work[w] = id =>
                   w \in alive' \ calling' /\ work'[w] = id
    <3>1. PICK w \in alive \ calling : work[w] = id
      BY <1>1, <2>1 DEF AttendedInv, RunningIsAttended
    <3> QED
      BY <2>1, <3>1
  <2> QED
    BY <1>1, <2>1
<1> QED
  BY <1>1 DEF AttendedInv, RunningIsAttended

\* A step of the callers: the workers go on, and no task becomes Running.
LEMMA CallersKeep ==
    ASSUME AttendedInv, UNCHANGED <<work, calling, alive>>, ~freed' => ~freed,
           DOMAIN tasks' \subseteq Job \cup {NoId},
           \A id \in DOMAIN tasks' : tasks'[id] \in JobRecord,
           \A id \in DOMAIN tasks' \ {NoId} : StateOf(id)' = "Running" =>
              id \in DOMAIN tasks /\ StateOf(id) = "Running"
    PROVE  AttendedInv'
BY AttendedKept DEF AttendedInv

LEMMA SetTaskFacts ==
    ASSUME AttendedInv, NEW id \in DOMAIN tasks, NEW s, SetTask(id, s),
           s \in {"Pending", "Running", "Paused", "Completed", "Cancelled", "Failed"}
    PROVE  /\ DOMAIN tasks' = DOMAIN tasks
           /\ \A x \in DOMAIN tasks : tasks'[x] \in JobRecord
           /\ \A x \in DOMAIN tasks : StateOf(x)' = "Running" =>
                StateOf(x) = "Running" \/ (s = "Running" /\ x = id)
<1>1. /\ tasks' = [tasks EXCEPT ![id].state = s]
      /\ \A x \in DOMAIN tasks : tasks[x] \in JobRecord
  BY DEF SetTask, AttendedInv
<1>2. \A x \in DOMAIN tasks \ {id} : tasks'[x] = tasks[x]
  BY <1>1
<1>3. tasks'[id] = [tasks[id] EXCEPT !.state = s] /\ DOMAIN tasks' = DOMAIN tasks
  BY <1>1
<1>4. tasks'[id] \in JobRecord /\ tasks'[id].state = s
  <2> DEFINE e == tasks[id]
  <2>1. e \in JobRecord
    BY <1>1
  <2> HIDE DEF e
  <2>2. [e EXCEPT !.state = s] \in JobRecord
    BY <2>1 DEF JobRecord
  <2>3. [e EXCEPT !.state = s].state = s
    BY <2>1 DEF JobRecord
  <2> QED
    BY <1>3, <2>2, <2>3 DEF e
<1> QED
  BY <1>1, <1>2, <1>3, <1>4 DEF StateOf

LEMMA SubmitKeeps ==
    ASSUME AttendedInv, NEW id \in Job, Submit(id)
    PROVE  AttendedInv'
<1>1. PICK task \in JobRecord, ghost \in JobRecord :
        /\ task.state = "Pending"
        /\ tasks' = Put(Put(tasks, id, task), NoId, ghost)
  <2>1. PICK p \in Priority, needs \in SUBSET (DOMAIN tasks \ {NoId}), r \in {0, DefaultRetries} :
          tasks' = Put(Put(tasks, id, [state |-> "Pending", priority |-> p, needs |-> needs,
                                       retries |-> r]),
                       NoId, IF NoId \in DOMAIN tasks THEN tasks[NoId] ELSE UnnamedTask)
    BY DEF Submit
  <2>2. [state |-> "Pending", priority |-> p, needs |-> needs, retries |-> r] \in JobRecord
    BY SchedulerAssumption DEF JobRecord, AttendedInv
  <2>3. UnnamedTask \in JobRecord
    BY SchedulerAssumption DEF JobRecord, UnnamedTask
  <2>4. NoId \in DOMAIN tasks => tasks[NoId] \in JobRecord
    BY DEF AttendedInv
  <2> QED
    BY <2>1, <2>2, <2>3, <2>4
<1>2. /\ DOMAIN tasks' = DOMAIN tasks \cup {id, NoId}
      /\ \A x \in DOMAIN tasks' \ {NoId} :
           tasks'[x] = task \/ (x \in DOMAIN tasks /\ tasks'[x] = tasks[x])
      /\ tasks'[NoId] = ghost
  BY <1>1 DEF Put
<1>3. \A x \in DOMAIN tasks' \ {NoId} : StateOf(x)' = "Running" =>
        x \in DOMAIN tasks /\ StateOf(x) = "Running"
  BY <1>1, <1>2 DEF StateOf
<1>4. UNCHANGED <<work, calling, alive, freed>>
  BY DEF Submit
<1>5. \A x \in DOMAIN tasks' : tasks'[x] \in JobRecord
  BY <1>1, <1>2 DEF AttendedInv
<1> QED
  BY <1>2, <1>3, <1>4, <1>5, CallersKeep DEF AttendedInv

LEMMA PopKeeps ==
    ASSUME AttendedInv, NEW w \in PoolWorker, PopTask(w)
    PROVE  AttendedInv'
<1>1. /\ w \in alive /\ work[w] = NoTask
      /\ UNCHANGED <<calling, alive, freed>>
  BY DEF PopTask
<1>2. CASE UNCHANGED <<tasks, work>>
  BY <1>1, <1>2, CallersKeep DEF AttendedInv, StateOf
<1>3. ASSUME NEW id, Runnable(id), SetTask(id, "Running"),
             work' = [work EXCEPT ![w] = IF id = NoId THEN NoTask ELSE id]
      PROVE  AttendedInv'
  <2>1. id \in DOMAIN tasks /\ id \in Job \cup {NoId}
    BY <1>3 DEF Runnable, AttendedInv
  <2>2. work' \in [PoolWorker -> Job \cup {NoTask}]
    BY <1>3, <2>1 DEF AttendedInv
  <2>3. \A v \in PoolWorker : v # w => work'[v] = work[v]
    BY <1>3 DEF AttendedInv
  <2>4. w \notin calling /\ work'[w] = (IF id = NoId THEN NoTask ELSE id)
    BY <1>1, <1>3 DEF AttendedInv
  <2>5. \A v \in PoolWorker : work'[v] # NoTask => v \in alive'
    BY <1>1, <2>3 DEF AttendedInv
  <2>6. \A v \in calling' : work'[v] # NoTask
    BY <1>1, <1>3, <2>4 DEF AttendedInv
  <2>7. ASSUME NEW x \in DOMAIN tasks' \ {NoId}, StateOf(x)' = "Running", x # id
        PROVE  /\ x \in DOMAIN tasks /\ StateOf(x) = "Running"
               /\ \A v \in alive \ calling : work[v] = x =>
                       v \in alive' \ calling' /\ work'[v] = x
    <3>1. x \in DOMAIN tasks /\ StateOf(x) = "Running"
      BY <1>3, <2>1, <2>7, SetTaskFacts
    <3>2. x # NoTask
      BY <2>7, <3>1, SchedulerAssumption DEF AttendedInv
    <3> QED
      BY <1>1, <2>3, <3>1, <3>2 DEF AttendedInv
  <2>8. id # NoId => w \in alive' \ calling' /\ work'[w] = id
    BY <1>1, <2>4
  <2>9. DOMAIN tasks' \subseteq Job \cup {NoId} /\ \A x \in DOMAIN tasks' : tasks'[x] \in JobRecord
    BY <1>3, <2>1, SetTaskFacts DEF AttendedInv
  <2> QED
    BY <1>1, <2>2, <2>5, <2>6, <2>7, <2>8, <2>9, AttendedKept DEF AttendedInv
<1>4. CASE \E e \in {e \in DOMAIN queue : Runnable(e[2])} :
             /\ SetTask(e[2], "Running")
             /\ work' = [work EXCEPT ![w] = IF e[2] = NoId THEN NoTask ELSE e[2]]
  BY <1>3, <1>4
<1> QED
  BY <1>2, <1>4 DEF PopTask

\* What a worker does with the task it executes ends the Running of that task.
LEMMA WorkEndsKeep ==
    ASSUME AttendedInv, NEW w \in PoolWorker,
           WorkReturns(w) \/ CallbackReturns(w) \/ WorkRetries(w) \/ WorkFails(w)
    PROVE  AttendedInv'
<1>1. work[w] \in DOMAIN tasks /\ UNCHANGED <<alive, freed>>
  BY DEF WorkReturns, CallbackReturns, WorkRetries, WorkFails, Executes
<1>2. \/ work' = work /\ calling' = calling \cup {w}
      \/ LetGo(w)
  BY DEF WorkReturns, CallbackReturns, WorkRetries, WorkFails
<1>3. work[w] # NoTask
  BY <1>1, SchedulerAssumption DEF AttendedInv
<1>4. /\ work' \in [PoolWorker -> Job \cup {NoTask}]
      /\ \A v \in PoolWorker : work'[v] # NoTask => v \in alive'
      /\ \A v \in calling' : work'[v] # NoTask
  <2>1. CASE work' = work /\ calling' = calling \cup {w}
    BY <1>1, <1>3, <2>1 DEF AttendedInv
  <2>2. CASE LetGo(w)
    BY <1>1, <2>2 DEF AttendedInv, LetGo
  <2> QED
    BY <1>2, <2>1, <2>2
<1>5. \A v \in alive \ calling : v # w => v \in alive' \ calling' /\ work'[v] = work[v]
  BY <1>1, <1>2 DEF LetGo, AttendedInv
<1>6. /\ DOMAIN tasks' = DOMAIN tasks
      /\ \A x \in DOMAIN tasks : tasks'[x] \in JobRecord
      /\ \A x \in DOMAIN tasks : StateOf(x)' = "Running" =>
           StateOf(x) = "Running" /\ (x # work[w] \/ w \in calling)
  <2>1. ASSUME NEW s \in {"Completed", "Failed"}, SetTask(work[w], s)
        PROVE  /\ DOMAIN tasks' = DOMAIN tasks
               /\ \A x \in DOMAIN tasks : tasks'[x] \in JobRecord
               /\ \A x \in DOMAIN tasks : StateOf(x)' = "Running" =>
                    StateOf(x) = "Running" /\ x # work[w]
    <3>1. tasks'[work[w]].state = s
      BY <1>1, <2>1 DEF SetTask, AttendedInv, JobRecord
    <3> QED
      BY <1>1, <2>1, <3>1, SetTaskFacts DEF StateOf
  <2>2. CASE CallbackReturns(w)
    BY <2>2 DEF CallbackReturns, StateOf, AttendedInv
  <2>3. CASE WorkRetries(w)
    <3> DEFINE id == work[w]
    <3>1. tasks' = [tasks EXCEPT ![id].retries = @ + 1, ![id].state = "Pending"]
      BY <2>3 DEF WorkRetries
    <3>2. /\ DOMAIN tasks' = DOMAIN tasks
          /\ \A x \in DOMAIN tasks \ {id} : tasks'[x] = tasks[x]
          /\ tasks'[id] = [[tasks[id] EXCEPT !.retries = tasks[id].retries + 1]
                             EXCEPT !.state = "Pending"]
      BY <1>1, <3>1
    <3>3. tasks'[id] \in JobRecord /\ tasks'[id].state = "Pending"
      <4> DEFINE e == tasks[id]
      <4>1. e \in JobRecord
        BY <1>1 DEF AttendedInv
      <4> HIDE DEF e
      <4>2. [e EXCEPT !.retries = e.retries + 1] \in JobRecord
        BY <4>1 DEF JobRecord
      <4>3. [[e EXCEPT !.retries = e.retries + 1] EXCEPT !.state = "Pending"] \in JobRecord
        BY <4>2 DEF JobRecord
      <4>4. [[e EXCEPT !.retries = e.retries + 1] EXCEPT !.state = "Pending"].state = "Pending"
        BY <4>2 DEF JobRecord
      <4> QED
        BY <3>2, <4>3, <4>4 DEF e
    <3> QED
      BY <3>2, <3>3 DEF StateOf, AttendedInv
  <2> QED
    BY <2>1, <2>2, <2>3 DEF WorkReturns, WorkFails
<1> QED
  BY <1>1, <1>4, <1>5, <1>6, AttendedKept DEF AttendedInv

\* Every task in the state Running is executed by a living worker that is not
\* past the work, for any number of tasks and workers, whatever callers pause,
\* resume, cancel and erase (as long as they erase nothing that is executed).
THEOREM RunningIsAttendedHolds == schedulerSpec => []RunningIsAttended
<1>1. schedulerInit => AttendedInv
  BY DEF schedulerInit, AttendedInv, RunningIsAttended
<1>2. AttendedInv /\ [schedulerNext]_schedulerVars => AttendedInv'
  <2> SUFFICES ASSUME AttendedInv, [schedulerNext]_schedulerVars PROVE AttendedInv'
    OBVIOUS
  <2>1. ASSUME NEW id \in DOMAIN tasks, NEW s \in {"Pending", "Paused", "Cancelled"},
               SetTask(id, s), UNCHANGED <<work, calling, alive, freed>>
        PROVE  AttendedInv'
    BY <2>1, SetTaskFacts, CallersKeep DEF AttendedInv
  <2>2. ASSUME NEW id, Cancel(id) \/ PauseTask(id) \/ ResumeTask(id)
        PROVE  AttendedInv'
    BY <2>1, <2>2 DEF Cancel, PauseTask, ResumeTask
  <2>3. CASE ClearCompleted
    BY <2>3, CallersKeep DEF ClearCompleted, Drop, AttendedInv, StateOf
  <2>4. CASE StopPool \/ Joined \/ UNCHANGED schedulerVars
    BY <2>4, CallersKeep DEF StopPool, Joined, schedulerVars, AttendedInv, StateOf
  <2>5. CASE StartPool
    BY <2>5, AttendedKept DEF StartPool, AttendedInv, StateOf
  <2>6. ASSUME NEW w \in PoolWorker, WorkerEnds(w)
        PROVE  AttendedInv'
    <3>1. /\ work[w] = NoTask /\ alive' = alive \ {w}
          /\ UNCHANGED <<tasks, work, calling, freed>>
      BY <2>6 DEF WorkerEnds
    <3>2. \A id \in DOMAIN tasks : id # NoTask
      BY SchedulerAssumption DEF AttendedInv
    <3> QED
      BY <3>1, <3>2, AttendedKept DEF AttendedInv, StateOf
  <2> QED
    BY <2>2, <2>3, <2>4, <2>5, <2>6, SubmitKeeps, PopKeeps, WorkEndsKeep DEF schedulerNext
<1>3. AttendedInv => RunningIsAttended
  BY DEF AttendedInv
<1> QED
  BY <1>1, <1>2, <1>3, PTL DEF schedulerSpec

----------------------------------------------------------------------------
(* The planner                                                             *)

\* What is kept of the answers has a score exactly when it can be executed,
\* and has one when any of the answers so far could be.
KeptIsBest ==
    /\ kept.score \in Nat
    /\ kept.score > 0 <=> Executable(kept.graph)
    /\ sawGood => kept.score > 0

PlanIsGood == plan.strategy = "tot" /\ answers = 3 /\ sawGood => Executable(plan.graph)

BranchInv ==
    /\ answers \in Nat /\ sawGood \in BOOLEAN
    /\ planning = "tot" => IF answers = 0 THEN ~sawGood ELSE KeptIsBest
    /\ planning \in {"no", "execute"} => PlanIsGood

\* evaluateBranchViability gives no points to a plan that cannot be executed,
\* and some to any other.
LEMMA ViabilityTells ==
    ASSUME NEW g, NEW roles
    PROVE  /\ EvaluateBranchViability(g, roles) \in Nat
           /\ EvaluateBranchViability(g, roles) > 0 <=> Executable(g)
BY DEF EvaluateBranchViability, Executable

LEMMA AnswerKeeps ==
    ASSUME BranchInv, NEW items, NEW broken, NEW roles, Answer(items, broken, roles)
    PROVE  BranchInv'
<1>1. PICK g, score :
        /\ score \in Nat
        /\ score > 0 <=> Executable(g)
        /\ sawGood' = (sawGood \/ Executable(g))
        /\ kept' = IF answers > 0 /\ Keeps(planning, kept, [graph |-> g, score |-> score])
                   THEN kept ELSE [graph |-> g, score |-> score]
  <2>1. PICK g, seen :
          LET fresh == [graph |-> g, score |-> EvaluateBranchViability(g, seen)]
          IN  /\ kept' = (IF answers > 0 /\ Keeps(planning, kept, fresh) THEN kept ELSE fresh)
              /\ sawGood' = (sawGood \/ Executable(g))
    BY DEF Answer
  <2>2. /\ EvaluateBranchViability(g, seen) \in Nat
        /\ EvaluateBranchViability(g, seen) > 0 <=> Executable(g)
    BY ViabilityTells
  <2> QED
    BY <2>1, <2>2
<1>2. /\ planning \in DOMAIN Calls /\ answers < Calls[planning] /\ answers \in Nat
      /\ answers' = answers + 1
      /\ UNCHANGED <<planning, plan>>
  BY DEF Answer, BranchInv
<1>3. ASSUME planning = "tot"
      PROVE  KeptIsBest'
  <2>1. \/ answers > 0 /\ score <= kept.score /\ kept' = kept
        \/ ~(answers > 0 /\ score <= kept.score) /\ kept'.score = score /\ kept'.graph = g
    BY <1>1, <1>3 DEF Keeps
  <2>2. (answers = 0 => ~sawGood) /\ (answers # 0 => KeptIsBest)
    BY <1>3 DEF BranchInv
  <2>5. Executable(kept.graph)' <=> Executable(kept'.graph)
    BY DEF Executable, PlanIsCyclic, Successors, EmptyGraph
  <2>3. CASE answers = 0
    <3>1. ~sawGood /\ kept'.score = score /\ kept'.graph = g
      BY <2>1, <2>2, <2>3
    <3>2. sawGood' => Executable(g)
      BY <1>1, <3>1
    <3> QED
      BY <1>1, <2>5, <3>1, <3>2 DEF KeptIsBest
  <2>4. CASE answers # 0
    <3>1. answers > 0 /\ KeptIsBest
      BY <1>2, <2>2, <2>4
    <3>2. CASE kept' = kept /\ score <= kept.score
      <4>1. kept'.score = kept.score /\ kept'.graph = kept.graph
        BY <3>2
      <4>2. kept.score \in Nat /\ (kept.score > 0 <=> Executable(kept.graph))
        BY <3>1 DEF KeptIsBest
      <4>3. sawGood' => kept.score > 0
        <5>1. /\ sawGood' => sawGood \/ score > 0
              /\ score \in Nat
          BY <1>1
        <5> QED
          BY <3>1, <3>2, <4>2, <5>1 DEF KeptIsBest
      <4> QED
        BY <2>5, <4>1, <4>2, <4>3 DEF KeptIsBest
    <3>3. CASE kept'.score = score /\ kept'.graph = g /\ ~(score <= kept.score)
      <4>1. sawGood' => score > 0
        BY <1>1, <3>1, <3>3 DEF KeptIsBest
      <4> QED
        BY <1>1, <2>5, <3>3, <4>1 DEF KeptIsBest
    <3> QED
      BY <2>1, <3>1, <3>2, <3>3
  <2> QED
    BY <2>3, <2>4
<1>4. planning \in {"cot", "tot", "reflection"}
  <2>1. DOMAIN Calls = {"cot", "tot", "reflection"}
    BY DEF Calls
  <2> QED
    BY <1>2, <2>1
<1>5. sawGood' \in BOOLEAN /\ answers' \in Nat /\ answers' # 0
  BY <1>1, <1>2
<1>6. planning' = "tot" => KeptIsBest'
  BY <1>2, <1>3
<1>7. planning' \notin {"no", "execute"}
  BY <1>2, <1>4
<1> QED
  BY <1>5, <1>6, <1>7 DEF BranchInv

\* The tree of thought gives back a plan that can be executed whenever one of
\* its answers held one, for any answers at all.
THEOREM GoodBranchIsTakenHolds == plannerSpec => []GoodBranchIsTaken
<1>1. plannerInit => BranchInv
  <2> SUFFICES ASSUME plannerInit PROVE BranchInv
    OBVIOUS
  <2>1. plan = [graph |-> EmptyGraph, strategy |-> "none"] /\ planning = "no"
        /\ answers = 0 /\ sawGood = FALSE
    BY DEF plannerInit
  <2> QED
    BY <2>1 DEF BranchInv, PlanIsGood
<1>2. BranchInv /\ [plannerNext]_plannerVars => BranchInv'
  <2> SUFFICES ASSUME BranchInv, [plannerNext]_plannerVars PROVE BranchInv'
    OBVIOUS
  <2>1. ASSUME NEW s \in DOMAIN Calls, CreatePlan(s)
        PROVE  BranchInv'
    BY <2>1 DEF CreatePlan, BranchInv, Calls
  <2>2. CASE ReturnPlan
    BY <2>2 DEF ReturnPlan, BranchInv, KeptIsBest, PlanIsGood, Calls
  <2>3. CASE ExecutePlan
    BY <2>3 DEF ExecutePlan, BranchInv, PlanIsGood
  <2>4. ASSUME NEW success \in BOOLEAN, EndExecution(success)
        PROVE  BranchInv'
    BY <2>4 DEF EndExecution, BranchInv, PlanIsGood
  <2>5. CASE UNCHANGED plannerVars
    BY <2>5 DEF plannerVars, BranchInv, KeptIsBest, PlanIsGood
  <2> QED
    BY <2>1, <2>2, <2>3, <2>4, <2>5, AnswerKeeps DEF plannerNext
<1>3. BranchInv => GoodBranchIsTaken
  BY DEF BranchInv, PlanIsGood, GoodBranchIsTaken, Calls
<1> QED
  BY <1>1, <1>2, <1>3, PTL DEF plannerSpec

----------------------------------------------------------------------------
(* The command line                                                        *)

\* The code is that of the failures so far, and a script is at its last line
\* when it has met one.
CodeInv ==
    /\ exitCode = 0 <=> failed = {}
    /\ mode = "script" /\ ~ended => failed = {}
    /\ mode = "script" /\ ended => failed \subseteq {dispatched}

\* A process that runs lines without a user answers 0 exactly when none of
\* them failed, and a script runs no line after one that did: for any lines.
THEOREM ExitCodeTellsHolds == cliSpec => []ExitCodeTells
<1>1. cliInit => CodeInv
  BY DEF cliInit, CodeInv
<1>2. CodeInv /\ [cliNext]_cliVars => CodeInv'
  <2> SUFFICES ASSUME CodeInv, [cliNext]_cliVars PROVE CodeInv'
    OBVIOUS
  <2>1. ASSUME NEW m, StartProcess(m)
        PROVE  CodeInv'
    BY <2>1 DEF StartProcess, CodeInv
  <2>2. ASSUME NEW word, NEW tokens, ReplLine(word, tokens)
        PROVE  CodeInv'
    BY <2>2 DEF ReplLine, CodeInv
  <2>3. ASSUME NEW word, NEW tokens, RunnerLine(word, tokens)
        PROVE  CodeInv'
    <3>1. PICK r :
            /\ exitCode' = (IF r.ok THEN exitCode ELSE 1)
            /\ failed' = (IF r.ok THEN failed ELSE failed \cup {dispatched + 1})
            /\ ended' = (mode = "eval" \/ (mode = "script" /\ ~r.ok))
      BY <2>3 DEF RunnerLine, KeepCode
    <3>2. ~ended /\ dispatched' = dispatched + 1 /\ UNCHANGED mode
      BY <2>3 DEF RunnerLine
    <3>3. exitCode' = 0 <=> failed' = {}
      BY <3>1 DEF CodeInv
    <3>4. mode = "script" /\ ~ended' => failed' = {}
      BY <3>1, <3>2 DEF CodeInv
    <3>5. mode = "script" /\ ended' => failed' \subseteq {dispatched'}
      BY <3>1, <3>2 DEF CodeInv
    <3> QED
      BY <3>2, <3>3, <3>4, <3>5 DEF CodeInv
  <2>4. CASE EndInput \/ EndProcess \/ UNCHANGED cliVars
    BY <2>4 DEF EndInput, EndProcess, cliVars, CodeInv
  <2> QED
    BY <2>1, <2>2, <2>3, <2>4 DEF cliNext
<1>3. CodeInv => ExitCodeTells
  BY DEF CodeInv, ExitCodeTells
<1> QED
  BY <1>1, <1>2, <1>3, PTL DEF cliSpec

----------------------------------------------------------------------------
(* The worktrees                                                           *)

Worktree == [branch : Name \cup {Root, "none"}, locked : BOOLEAN]

LockInv ==
    /\ \A p \in DOMAIN registered : registered[p] \in Worktree
    /\ LocksAgree

LEMMA SetLockFacts ==
    ASSUME NEW reg, NEW n \in DOMAIN reg, NEW flag \in BOOLEAN,
           \A p \in DOMAIN reg : reg[p] \in Worktree
    PROVE  /\ DOMAIN SetLock(reg, n, flag) = DOMAIN reg
           /\ \A p \in DOMAIN reg : SetLock(reg, n, flag)[p] \in Worktree
           /\ \A p \in DOMAIN reg : SetLock(reg, n, flag)[p].locked =
                                      IF p = n THEN flag ELSE reg[p].locked
<1>1. DOMAIN SetLock(reg, n, flag) = DOMAIN reg
  BY DEF SetLock
<1>2. ASSUME NEW p \in DOMAIN reg
      PROVE  /\ SetLock(reg, n, flag)[p] \in Worktree
             /\ SetLock(reg, n, flag)[p].locked = IF p = n THEN flag ELSE reg[p].locked
  <2>1. SetLock(reg, n, flag)[p] = IF p = n THEN [reg[p] EXCEPT !.locked = flag] ELSE reg[p]
    BY DEF SetLock
  <2>2. reg[p] \in Worktree
    OBVIOUS
  <2> DEFINE r == reg[p]
  <2>3. [r EXCEPT !.locked = flag] \in Worktree /\ [r EXCEPT !.locked = flag].locked = flag
    <3>1. r \in Worktree
      BY <2>2
    <3> HIDE DEF r
    <3> QED
      BY <3>1 DEF Worktree
  <2> QED
    BY <2>1, <2>2, <2>3
<1> QED
  BY <1>1, <1>2

\* git's list keeps or loses a worktree, and never changes what it says of one.
LEMMA PrunedFacts ==
    ASSUME NEW reg
    PROVE  /\ DOMAIN Pruned(reg) \subseteq DOMAIN reg
           /\ \A p \in DOMAIN Pruned(reg) : Pruned(reg)[p] = reg[p]
BY DEF Pruned

LEMMA CreateKeeps ==
    ASSUME LockInv, NEW id \in Name, NEW branch \in Name, NEW how, NEW lock \in BOOLEAN,
           CreateWorktree(id, branch, how, lock)
    PROVE  LockInv'
<1>1. CASE UNCHANGED <<registered, active>>
  BY <1>1 DEF LockInv, LocksAgree
<1>2. ASSUME NEW w \in Name \cup {"none"},
             registered' = Put(registered, id, [branch |-> w, locked |-> lock]),
             active' = Put(active, id, lock)
      PROVE  LockInv'
  <2>1. [branch |-> w, locked |-> lock] \in Worktree
    BY <1>2 DEF Worktree
  <2> DEFINE fresh == [branch |-> w, locked |-> lock]
  <2>2. fresh \in Worktree /\ fresh.locked = lock
    BY <2>1
  <2> HIDE DEF fresh
  <2>3. registered' = [p \in DOMAIN registered \cup {id} |-> IF p = id THEN fresh ELSE registered[p]]
    BY <1>2 DEF Put, fresh
  <2>4. active' = [k \in DOMAIN active \cup {id} |-> IF k = id THEN lock ELSE active[k]]
    BY <1>2 DEF Put
  <2>5. \A p \in DOMAIN registered' : registered'[p] \in Worktree
    BY <2>2, <2>3 DEF LockInv
  <2>6. \A k \in DOMAIN active' \cap DOMAIN registered' : active'[k] = registered'[k].locked
    BY <2>2, <2>3, <2>4 DEF LockInv, LocksAgree
  <2> QED
    BY <2>5, <2>6 DEF LockInv, LocksAgree
<1> QED
  <2>1. \/ UNCHANGED <<registered, active>>
        \/ \E w \in {"none", branch} :
             /\ registered' = Put(registered, id, [branch |-> w, locked |-> lock])
             /\ active' = Put(active, id, lock)
    BY DEF CreateWorktree
  <2> QED
    BY <1>1, <1>2, <2>1

LEMMA RemoveKeeps ==
    ASSUME LockInv, NEW name, NEW byId, NEW force, RemoveWorktree(name, byId, force)
    PROVE  LockInv'
<1> DEFINE locked == byId /\ name \in DOMAIN active /\ active[name]
           reg == IF locked /\ Lockable(name, FALSE)
                  THEN SetLock(registered, name, FALSE) ELSE registered
<1>1. /\ registered' = (IF CanRemove(reg, name, force) THEN Drop(reg, {name}) ELSE Pruned(reg))
      /\ active' = Drop(active, {name})
  BY DEF RemoveWorktree
<1>2. /\ DOMAIN reg = DOMAIN registered
      /\ \A p \in DOMAIN reg : reg[p] \in Worktree
      /\ \A p \in DOMAIN reg \ {name} : reg[p].locked = registered[p].locked
  <2>1. CASE Lockable(name, FALSE) /\ reg = SetLock(registered, name, FALSE)
    <3>1. name \in DOMAIN registered /\ \A p \in DOMAIN registered : registered[p] \in Worktree
      BY <2>1 DEF Lockable, LockInv
    <3> DEFINE set == SetLock(registered, name, FALSE)
    <3>2. /\ DOMAIN set = DOMAIN registered
          /\ \A p \in DOMAIN registered : set[p] \in Worktree
          /\ \A p \in DOMAIN registered : set[p].locked =
                                             IF p = name THEN FALSE ELSE registered[p].locked
      <4>1. ASSUME NEW off \in BOOLEAN, off = FALSE
            PROVE  /\ DOMAIN SetLock(registered, name, off) = DOMAIN registered
                   /\ \A p \in DOMAIN registered : SetLock(registered, name, off)[p] \in Worktree
                   /\ \A p \in DOMAIN registered : SetLock(registered, name, off)[p].locked =
                                                      IF p = name THEN off ELSE registered[p].locked
        BY <3>1, SetLockFacts
      <4> QED
        BY <4>1, Zenon
    <3>3. reg = set
      BY <2>1
    <3> HIDE DEF reg, set
    <3> QED
      BY <3>2, <3>3
  <2>2. CASE reg = registered
    BY <2>2 DEF LockInv
  <2>3. \/ Lockable(name, FALSE) /\ reg = SetLock(registered, name, FALSE)
        \/ reg = registered
    <3>1. CASE locked /\ Lockable(name, FALSE)
      BY <3>1
    <3>2. CASE ~(locked /\ Lockable(name, FALSE))
      BY <3>2
    <3> QED
      BY <3>1, <3>2
  <2> HIDE DEF reg
  <2> QED
    BY <2>1, <2>2, <2>3
<1> HIDE DEF reg
<1>3. /\ DOMAIN registered' \subseteq DOMAIN registered
      /\ \A p \in DOMAIN registered' : registered'[p] = reg[p]
  <2>1. CASE registered' = Drop(reg, {name})
    BY <1>2, <2>1 DEF Drop
  <2>2. CASE registered' = Pruned(reg)
    BY <1>2, <2>2, PrunedFacts
  <2> QED
    BY <1>1, <2>1, <2>2
<1>4. DOMAIN active' = DOMAIN active \ {name} /\ \A k \in DOMAIN active' : active'[k] = active[k]
  BY <1>1 DEF Drop
<1>5. \A p \in DOMAIN registered' : registered'[p] \in Worktree
  BY <1>2, <1>3
<1>6. \A k \in DOMAIN active' \cap DOMAIN registered' : active'[k] = registered'[k].locked
  <2> SUFFICES ASSUME NEW k \in DOMAIN active' \cap DOMAIN registered'
               PROVE  active'[k] = registered'[k].locked
    OBVIOUS
  <2>1. k \in DOMAIN active /\ k # name /\ active'[k] = active[k]
    BY <1>4
  <2>2. k \in DOMAIN registered /\ registered'[k] = reg[k]
    BY <1>3
  <2>3. reg[k].locked = registered[k].locked
    BY <1>2, <2>1, <2>2
  <2>4. active[k] = registered[k].locked
    BY <2>1, <2>2 DEF LockInv, LocksAgree
  <2> QED
    BY <2>1, <2>2, <2>3, <2>4
<1> QED
  BY <1>5, <1>6 DEF LockInv, LocksAgree

LEMMA LockingKeeps ==
    ASSUME LockInv, NEW name, NEW flag \in BOOLEAN, SetWorktreeLock(name, flag)
    PROVE  LockInv'
<1>1. /\ name \in DOMAIN registered
      /\ registered' = SetLock(registered, name, flag)
      /\ active' = (IF name \in DOMAIN active THEN [active EXCEPT ![name] = flag] ELSE active)
  BY DEF SetWorktreeLock, Lockable
<1>2. /\ DOMAIN registered' = DOMAIN registered
      /\ \A p \in DOMAIN registered : registered'[p] \in Worktree
      /\ \A p \in DOMAIN registered : registered'[p].locked =
                                        IF p = name THEN flag ELSE registered[p].locked
  BY <1>1, SetLockFacts DEF LockInv
<1>3. /\ DOMAIN active' = DOMAIN active
      /\ \A k \in DOMAIN active : active'[k] = IF k = name THEN flag ELSE active[k]
  BY <1>1
<1> QED
  BY <1>2, <1>3 DEF LockInv, LocksAgree

LEMMA PruningKeeps ==
    ASSUME LockInv, PruneWorktrees
    PROVE  LockInv'
<1>1. registered' = Pruned(registered) /\ active' = Refreshed(registered')
  BY DEF PruneWorktrees
<1>2. \A p \in DOMAIN registered' : registered'[p] \in Worktree
  BY <1>1, PrunedFacts DEF LockInv
<1>3. \A k \in DOMAIN active' \cap DOMAIN registered' : active'[k] = registered'[k].locked
  BY <1>1 DEF Refreshed
<1> QED
  BY <1>2, <1>3 DEF LockInv, LocksAgree

\* This process' word on a lock is git's for every worktree that both know of,
\* for any names, and in either build of a mutex that is locked twice.
THEOREM LocksAgreeHolds == worktreeSpec => []LocksAgree
<1>1. worktreeInit => LockInv
  BY DEF worktreeInit, LockInv, LocksAgree, Worktree
<1>2. LockInv /\ [worktreeNext]_worktreeVars => LockInv'
  <2> SUFFICES ASSUME LockInv, [worktreeNext]_worktreeVars PROVE LockInv'
    OBVIOUS
  <2>1. ASSUME NEW id \in Name, NEW branch \in Name, NEW how \in {"new", "attach", "detach"},
               NEW lock \in BOOLEAN, CreateWorktree(id, branch, how, lock)
        PROVE  LockInv'
    BY <2>1, CreateKeeps
  <2>2. ASSUME NEW n, NEW flag \in BOOLEAN, NEW byId \in BOOLEAN,
               RemoveWorktree(n, byId, flag) \/ SetWorktreeLock(n, flag)
        PROVE  LockInv'
    BY <2>2, RemoveKeeps, LockingKeeps
  <2>3. ASSUME NEW n, GetWorktree(n) \/ TouchTree(n) \/ DeleteByHand(n)
        PROVE  LockInv'
    BY <2>3 DEF GetWorktree, TouchTree, DeleteByHand, LockInv, LocksAgree
  <2>4. CASE PruneWorktrees
    BY <2>4, PruningKeeps
  <2>5. CASE RestartEngine
    BY <2>5 DEF RestartEngine, LockInv, LocksAgree
  <2>6. CASE UNCHANGED worktreeVars
    BY <2>6 DEF worktreeVars, LockInv, LocksAgree
  <2> QED
    BY <2>1, <2>2, <2>3, <2>4, <2>5, <2>6 DEF worktreeNext
<1>3. LockInv => LocksAgree
  BY DEF LockInv
<1> QED
  BY <1>1, <1>2, <1>3, PTL DEF worktreeSpec

----------------------------------------------------------------------------
(* The bus                                                                 *)

NoRepeat(s) == \A i, j \in DOMAIN s : s[i] = s[j] => i = j

Taken(t) == ToSet(batch[t])

\* Every event published is in one place.
EventsApart ==
    /\ \A e : e \in 1..published <=>
                \/ e \in delivered \/ e \in ToSet(pending)
                \/ \E t \in KernelThread : e \in Taken(t)
    /\ \A e \in delivered : e \notin ToSet(pending) /\ \A t \in KernelThread : e \notin Taken(t)
    /\ \A t \in KernelThread : \A e \in Taken(t) :
          e \notin ToSet(pending) /\ \A u \in KernelThread \ {t} : e \notin Taken(u)

\* What is pending was published after everything else.
PendingIsLast ==
    \A f \in ToSet(pending) :
        /\ \A e \in delivered : e < f
        /\ \A t \in KernelThread : \A e \in Taken(t) : e < f

BusTyped ==
    /\ published \in Nat
    /\ pending \in Seq(Nat) /\ NoRepeat(pending)
    /\ DOMAIN batch = KernelThread /\ DOMAIN kpc = KernelThread
    /\ \A t \in KernelThread : /\ batch[t] \in Seq(Nat) /\ NoRepeat(batch[t])
                               /\ kpc[t] # "walk" => batch[t] = <<>>

EventInv == BusTyped /\ EventsApart /\ PendingIsLast

LEMMA ToSetOf ==
    ASSUME NEW s \in Seq(Nat)
    PROVE  \A e : e \in ToSet(s) <=> \E i \in 1..Len(s) : s[i] = e
BY DEF ToSet

LEMMA EmptyFacts == ToSet(<<>>) = {} /\ NoRepeat(<<>>) /\ <<>> \in Seq(Nat)
BY DEF ToSet, NoRepeat

LEMMA AppendFacts ==
    ASSUME NEW s \in Seq(Nat), NEW e \in Nat, NoRepeat(s), e \notin ToSet(s)
    PROVE  /\ Append(s, e) \in Seq(Nat)
           /\ ToSet(Append(s, e)) = ToSet(s) \cup {e}
           /\ NoRepeat(Append(s, e))
<1>1. /\ Append(s, e) \in Seq(Nat)
      /\ Len(Append(s, e)) = Len(s) + 1 /\ Len(s) \in Nat
      /\ \A i \in 1..Len(s) : Append(s, e)[i] = s[i]
      /\ Append(s, e)[Len(s) + 1] = e
      /\ DOMAIN Append(s, e) = 1..Len(s) + 1 /\ DOMAIN s = 1..Len(s)
  OBVIOUS
<1> DEFINE a == Append(s, e)
<1>2. /\ a \in Seq(Nat) /\ Len(a) = Len(s) + 1 /\ Len(s) \in Nat
      /\ \A i \in 1..Len(s) : a[i] = s[i]
      /\ a[Len(s) + 1] = e /\ DOMAIN a = 1..Len(s) + 1
  BY <1>1
<1> HIDE DEF a
<1>3. ToSet(a) = ToSet(s) \cup {e}
  <2>1. \A x : x \in ToSet(a) <=> \E i \in 1..Len(s) + 1 : a[i] = x
    BY <1>2, ToSetOf
  <2>2. \A x : x \in ToSet(s) <=> \E i \in 1..Len(s) : s[i] = x
    BY ToSetOf
  <2>3. \A i \in 1..Len(s) + 1 : i = Len(s) + 1 \/ i \in 1..Len(s)
    BY <1>2
  <2>4. \A i \in 1..Len(s) : i \in 1..Len(s) + 1
    BY <1>2
  <2>5. Len(s) + 1 \in 1..Len(s) + 1
    BY <1>2
  <2> QED
    BY <1>2, <2>1, <2>2, <2>3, <2>4, <2>5
<1>4. NoRepeat(a)
  <2>1. \A i \in 1..Len(s) : s[i] # e
    BY ToSetOf
  <2>2. \A i, j \in 1..Len(s) : s[i] = s[j] => i = j
    BY <1>1 DEF NoRepeat
  <2>3. \A i, j \in 1..Len(s) + 1 : a[i] = a[j] => i = j
    BY <1>2, <2>1, <2>2
  <2> QED
    BY <1>2, <2>3 DEF NoRepeat
<1> QED
  BY <1>2, <1>3, <1>4 DEF a

LEMMA TailFacts ==
    ASSUME NEW s \in Seq(Nat), s # <<>>, NoRepeat(s)
    PROVE  /\ Tail(s) \in Seq(Nat)
           /\ Head(s) \in ToSet(s)
           /\ ToSet(Tail(s)) = ToSet(s) \ {Head(s)}
           /\ NoRepeat(Tail(s))
<1>1. /\ Tail(s) \in Seq(Nat)
      /\ Len(s) \in Nat /\ Len(s) > 0 /\ Len(Tail(s)) = Len(s) - 1
      /\ \A i \in 1..Len(s) - 1 : Tail(s)[i] = s[i + 1]
      /\ DOMAIN Tail(s) = 1..Len(s) - 1 /\ DOMAIN s = 1..Len(s)
      /\ Head(s) = s[1]
  OBVIOUS
<1> DEFINE r == Tail(s)
           h == Head(s)
<1>2. /\ r \in Seq(Nat) /\ Len(s) \in Nat /\ Len(s) > 0 /\ Len(r) = Len(s) - 1
      /\ \A i \in 1..Len(s) - 1 : r[i] = s[i + 1]
      /\ DOMAIN r = 1..Len(s) - 1 /\ DOMAIN s = 1..Len(s)
      /\ h = s[1]
  BY <1>1
<1> HIDE DEF r, h
<1>3. \A i, j \in 1..Len(s) : s[i] = s[j] => i = j
  BY <1>2 DEF NoRepeat
<1>4. \A x : x \in ToSet(r) <=> \E i \in 1..Len(s) - 1 : r[i] = x
  BY <1>2, ToSetOf
<1>5. \A x : x \in ToSet(s) <=> \E i \in 1..Len(s) : s[i] = x
  BY ToSetOf
<1>6. \A i \in 1..Len(s) - 1 : i + 1 \in 1..Len(s) /\ i + 1 # 1
  BY <1>2
<1>7. \A i \in 1..Len(s) : i = 1 \/ (i - 1 \in 1..Len(s) - 1 /\ r[i - 1] = s[i])
  BY <1>2
<1>8. ASSUME NEW x
      PROVE  x \in ToSet(r) <=> x \in ToSet(s) \ {h}
  <2>1. ASSUME x \in ToSet(r) PROVE x \in ToSet(s) \ {h}
    <3>1. PICK i \in 1..Len(s) - 1 : r[i] = x
      BY <1>4, <2>1
    <3>2. s[i + 1] = x /\ i + 1 \in 1..Len(s) /\ i + 1 # 1 /\ 1 \in 1..Len(s)
      BY <1>2, <1>6, <3>1
    <3> QED
      BY <1>2, <1>3, <1>5, <3>2
  <2>2. ASSUME x \in ToSet(s), x # h PROVE x \in ToSet(r)
    <3>1. PICK i \in 1..Len(s) : s[i] = x
      BY <1>5, <2>2
    <3>2. i # 1
      BY <1>2, <2>2, <3>1
    <3> QED
      BY <1>4, <1>7, <3>1, <3>2
  <2> QED
    BY <2>1, <2>2
<1>9. NoRepeat(r)
  <2> SUFFICES ASSUME NEW i \in 1..Len(s) - 1, NEW j \in 1..Len(s) - 1, r[i] = r[j]
               PROVE  i = j
    BY <1>2 DEF NoRepeat
  <2>1. s[i + 1] = s[j + 1] /\ i + 1 \in 1..Len(s) /\ j + 1 \in 1..Len(s)
    BY <1>2, <1>6
  <2>2. i + 1 = j + 1
    BY <1>3, <2>1
  <2> QED
    BY <2>2
<1>10. h \in ToSet(s)
  BY <1>2, <1>5
<1>11. ToSet(r) = ToSet(s) \ {h}
  BY <1>8
<1> QED
  BY <1>2, <1>9, <1>10, <1>11 DEF r, h

LEMMA PublishKeeps ==
    ASSUME EventInv, Publish, DOMAIN kpc' = KernelThread,
           \A t \in KernelThread : kpc'[t] = kpc[t] \/ batch[t] = <<>>
    PROVE  EventInv'
<1>1. /\ published \in Nat /\ published' = published + 1
      /\ pending' = Append(pending, published + 1)
      /\ batch' = batch /\ delivered' = delivered
  BY DEF Publish, EventInv, BusTyped
<1> DEFINE fresh == published + 1
<1>2. /\ fresh \in Nat /\ published' = fresh /\ fresh \notin 1..published
      /\ \A e \in 1..published : e < fresh
      /\ \A e : e \in 1..fresh <=> e \in 1..published \/ e = fresh
  BY <1>1
<1>3. pending' = Append(pending, fresh)
  BY <1>1
<1> HIDE DEF fresh
<1>4. fresh \notin ToSet(pending) /\ fresh \notin delivered /\ \A t \in KernelThread : fresh \notin Taken(t)
  BY <1>2 DEF EventInv, EventsApart
<1>5. pending' \in Seq(Nat) /\ NoRepeat(pending') /\ ToSet(pending') = ToSet(pending) \cup {fresh}
  BY <1>2, <1>3, <1>4, AppendFacts DEF EventInv, BusTyped
<1>6. BusTyped'
  BY <1>1, <1>5 DEF EventInv, BusTyped, NoRepeat
<1>7. \A t : Taken(t)' = Taken(t)
  BY <1>1 DEF Taken
<1>8. ToSet(pending)' = ToSet(pending) \cup {fresh}
  BY <1>5
<1>9. EventsApart'
  BY <1>1, <1>2, <1>4, <1>7, <1>8 DEF EventInv, EventsApart
<1>10. PendingIsLast'
  <2>1. \A e \in delivered : e < fresh
    BY <1>2 DEF EventInv, EventsApart
  <2>2. \A t \in KernelThread : \A e \in Taken(t) : e < fresh
    BY <1>2 DEF EventInv, EventsApart
  <2> QED
    BY <1>1, <1>7, <1>8, <2>1, <2>2 DEF EventInv, PendingIsLast
<1> QED
  BY <1>6, <1>9, <1>10 DEF EventInv

LEMMA TakeKeeps ==
    ASSUME EventInv, NEW t \in KernelThread, Take(t)
    PROVE  EventInv'
<1>1. /\ kpc[t] = "take" /\ kpc' = [kpc EXCEPT ![t] = "walk"]
      /\ batch' = [batch EXCEPT ![t] = pending] /\ pending' = <<>>
      /\ published' = published /\ delivered' = delivered
  BY DEF Take, To
<1>2. batch[t] = <<>>
  BY <1>1 DEF EventInv, BusTyped
<1>3. Taken(t) = {} /\ ToSet(pending)' = {}
  BY <1>1, <1>2, EmptyFacts DEF Taken
<1>4. \A u \in KernelThread : batch'[u] = IF u = t THEN pending ELSE batch[u]
  BY <1>1 DEF EventInv, BusTyped
<1>5. \A u \in KernelThread : Taken(u)' = IF u = t THEN ToSet(pending) ELSE Taken(u)
  BY <1>4 DEF Taken
<1>6. BusTyped'
  <2>1. /\ published' \in Nat /\ DOMAIN batch' = KernelThread /\ DOMAIN kpc' = KernelThread
    BY <1>1 DEF EventInv, BusTyped
  <2>2. pending' \in Seq(Nat) /\ NoRepeat(pending')
    BY <1>1, EmptyFacts
  <2>3. ASSUME NEW u \in KernelThread
        PROVE  /\ batch'[u] \in Seq(Nat) /\ NoRepeat(batch'[u])
               /\ kpc'[u] # "walk" => batch'[u] = <<>>
    BY <1>1, <1>4 DEF EventInv, BusTyped
  <2> QED
    BY <2>1, <2>2, <2>3 DEF BusTyped, NoRepeat
<1>7. EventsApart'
  BY <1>1, <1>3, <1>5 DEF EventInv, EventsApart
<1>8. PendingIsLast'
  BY <1>3 DEF PendingIsLast
<1> QED
  BY <1>6, <1>7, <1>8 DEF EventInv

LEMMA DeliverKeeps ==
    ASSUME EventInv, NEW t \in KernelThread, Deliver(t)
    PROVE  EventInv'
<1>1. /\ kpc[t] = "walk" /\ kpc' = kpc /\ batch[t] # <<>>
      /\ batch' = [batch EXCEPT ![t] = Tail(batch[t])] /\ pending' = pending
      /\ published' = published /\ delivered' = delivered \cup {Head(batch[t])}
  BY DEF Deliver
<1> DEFINE h == Head(batch[t])
           r == Tail(batch[t])
<1>2. /\ r \in Seq(Nat) /\ NoRepeat(r) /\ h \in Taken(t)
      /\ ToSet(r) = Taken(t) \ {h}
  BY <1>1, TailFacts DEF EventInv, BusTyped, Taken
<1>3. /\ delivered' = delivered \cup {h}
      /\ DOMAIN batch' = KernelThread
      /\ \A u \in KernelThread : batch'[u] = IF u = t THEN r ELSE batch[u]
  BY <1>1 DEF EventInv, BusTyped
<1> HIDE DEF h, r
<1>4. \A u \in KernelThread : Taken(u)' = IF u = t THEN Taken(t) \ {h} ELSE Taken(u)
  BY <1>2, <1>3 DEF Taken
<1>5. ToSet(pending)' = ToSet(pending)
  BY <1>1
<1>6. BusTyped'
  <2>1. /\ published' \in Nat /\ DOMAIN kpc' = KernelThread
        /\ pending' \in Seq(Nat) /\ NoRepeat(pending')
    BY <1>1 DEF EventInv, BusTyped
  <2>2. ASSUME NEW u \in KernelThread
        PROVE  /\ batch'[u] \in Seq(Nat) /\ NoRepeat(batch'[u])
               /\ kpc'[u] # "walk" => batch'[u] = <<>>
    BY <1>1, <1>2, <1>3 DEF EventInv, BusTyped
  <2> QED
    BY <1>3, <2>1, <2>2 DEF BusTyped, NoRepeat
<1>7. EventsApart'
  BY <1>1, <1>2, <1>3, <1>4, <1>5 DEF EventInv, EventsApart
<1>8. PendingIsLast'
  BY <1>2, <1>3, <1>4, <1>5 DEF EventInv, PendingIsLast
<1> QED
  BY <1>6, <1>7, <1>8 DEF EventInv

\* Whatever else a thread does leaves the bus alone.
LEMMA ControlKeeps ==
    ASSUME EventInv, UNCHANGED <<published, pending, batch, delivered>>,
           DOMAIN kpc' = KernelThread,
           \A t \in KernelThread : kpc'[t] = kpc[t] \/ batch[t] = <<>>
    PROVE  EventInv'
<1>1. BusTyped'
  BY DEF EventInv, BusTyped, NoRepeat
<1>2. EventsApart' /\ PendingIsLast'
  BY DEF EventInv, EventsApart, PendingIsLast, Taken
<1> QED
  BY <1>1, <1>2 DEF EventInv

\* However many threads pause, resume, run and stop the kernel and publish, for
\* any number of events: none is lost, none handed over twice, and none taken
\* later overtakes one taken before.
THEOREM EventsOnceHolds == kernelSpec => []EventsOnce
<1>1. kernelInit => EventInv
  <2> SUFFICES ASSUME kernelInit PROVE EventInv
    OBVIOUS
  <2>1. /\ published = 0 /\ pending = <<>> /\ delivered = {}
        /\ kpc = [t \in KernelThread |-> "idle"] /\ batch = [t \in KernelThread |-> <<>>]
    BY DEF kernelInit
  <2>2. ToSet(pending) = {} /\ \A t \in KernelThread : batch[t] = <<>> /\ Taken(t) = {}
    BY <2>1, EmptyFacts DEF Taken
  <2>3. BusTyped
    BY <2>1, <2>2, EmptyFacts DEF BusTyped
  <2>4. EventsApart /\ PendingIsLast
    BY <2>1, <2>2 DEF EventsApart, PendingIsLast
  <2> QED
    BY <2>3, <2>4 DEF EventInv
<1>2. EventInv /\ [kernelNext]_kernelVars => EventInv'
  <2> SUFFICES ASSUME EventInv, [kernelNext]_kernelVars PROVE EventInv'
    OBVIOUS
  <2>1. DOMAIN kpc = KernelThread /\ \A t \in KernelThread : kpc[t] # "walk" => batch[t] = <<>>
    BY DEF EventInv, BusTyped
  <2>2. CASE InitializeKernel
    <3>1. kpc' = kpc /\ (Publish \/ UNCHANGED busVars)
      BY <2>2 DEF InitializeKernel
    <3> QED
      BY <2>1, <3>1, PublishKeeps, ControlKeeps DEF busVars
  <2>3. CASE PublishEvent
    BY <2>1, <2>3, PublishKeeps DEF PublishEvent
  <2>4. CASE Subscribe
    BY <2>1, <2>4, ControlKeeps DEF Subscribe
  <2>5. ASSUME NEW t \in KernelThread, AnnounceState(t)
        PROVE  EventInv'
    <3>1. kpc[t] # "walk" /\ (Publish \/ UNCHANGED busVars)
      BY <2>5 DEF AnnounceState, PublishIfBus
    <3>2. DOMAIN kpc' = KernelThread /\ \A u \in KernelThread : kpc'[u] = kpc[u] \/ u = t
      BY <2>1, <2>5 DEF AnnounceState, To
    <3> QED
      BY <2>1, <3>1, <3>2, PublishKeeps, ControlKeeps DEF busVars
  <2>6. ASSUME NEW t \in KernelThread, Take(t) \/ Deliver(t)
        PROVE  EventInv'
    BY <2>6, TakeKeeps, DeliverKeeps
  <2>7. ASSUME NEW t \in KernelThread,
               \/ StoreState(t) \/ Run(t) \/ ClearStop(t) \/ Turn(t) \/ EndBatch(t)
               \/ PauseKernel(t) \/ ResumeKernel(t) \/ StopFlag(t) \/ StopSubsystems(t)
        PROVE  EventInv'
    <3>1. (kpc[t] # "walk" \/ batch[t] = <<>>) /\ UNCHANGED busVars /\ \E pc : To(t, pc)
      BY <2>7 DEF StoreState, Run, ClearStop, Turn, EndBatch, PauseKernel, ResumeKernel,
                  StopFlag, StopSubsystems, Begin
    <3>2. DOMAIN kpc' = KernelThread /\ \A u \in KernelThread : kpc'[u] = kpc[u] \/ u = t
      BY <2>1, <3>1 DEF To
    <3> QED
      BY <2>1, <3>1, <3>2, ControlKeeps DEF busVars
  <2>8. CASE UNCHANGED kernelVars
    BY <2>1, <2>8, ControlKeeps DEF kernelVars, busVars
  <2> QED
    BY <2>2, <2>3, <2>4, <2>5, <2>6, <2>7, <2>8 DEF kernelNext
<1>3. EventInv => EventsOnce
  <2> SUFFICES ASSUME EventInv PROVE EventsOnce
    OBVIOUS
  <2> DEFINE taken == [t \in KernelThread |-> ToSet(batch[t])]
             out == delivered \cup UNION {taken[t] : t \in KernelThread}
  <2>1. \A t \in KernelThread : taken[t] = Taken(t)
    BY DEF Taken
  <2>2. \A e : e \in out <=> e \in delivered \/ \E t \in KernelThread : e \in Taken(t)
    BY <2>1
  <2> HIDE DEF taken, out
  <2>3. out \cup ToSet(pending) = 1..published
    BY <2>2 DEF EventInv, EventsApart
  <2>4. out \cap ToSet(pending) = {}
    BY <2>2 DEF EventInv, EventsApart
  <2>5. \A t \in KernelThread :
          /\ taken[t] \cap delivered = {}
          /\ \A u \in KernelThread \ {t} : taken[t] \cap taken[u] = {}
    BY <2>1 DEF EventInv, EventsApart
  <2>6. \A e \in out, f \in ToSet(pending) : e < f
    BY <2>2 DEF EventInv, PendingIsLast
  <2> QED
    BY <2>3, <2>4, <2>5, <2>6 DEF EventsOnce, taken, out
<1> QED
  BY <1>1, <1>2, <1>3, PTL DEF kernelSpec

----------------------------------------------------------------------------
(* The sandboxes                                                           *)

\* A sandbox keeps the number it was made with, whatever is done in it.
HasLife(b) == "life" \in DOMAIN b

BoxInv ==
    /\ \A t \in DOMAIN box : HasLife(box[t])
    /\ DOMAIN records = 1..Len(records) /\ Len(records) \in Nat
    /\ \A i \in DOMAIN records : /\ records[i].task \in DOMAIN box
                                 /\ records[i].life = box[records[i].task].life

\* A step that leaves the records alone and the sandboxes where they are.
LEMMA BoxesKept ==
    ASSUME BoxInv, records' = records, DOMAIN box' = DOMAIN box,
           \A t \in DOMAIN box : HasLife(box'[t]) /\ box'[t].life = box[t].life
    PROVE  BoxInv'
BY DEF BoxInv

\* An edit of one sandbox.
LEMMA BoxEdited ==
    ASSUME BoxInv, records' = records, NEW t \in DOMAIN box, NEW b,
           HasLife(b), b.life = box[t].life, box' = [box EXCEPT ![t] = b]
    PROVE  BoxInv'
<1>1. /\ DOMAIN box' = DOMAIN box
      /\ \A u \in DOMAIN box : box'[u] = IF u = t THEN b ELSE box[u]
  OBVIOUS
<1>2. \A u \in DOMAIN box : HasLife(box'[u]) /\ box'[u].life = box[u].life
  BY <1>1 DEF BoxInv
<1> QED
  BY <1>1, <1>2, BoxesKept

LEMMA SavedHasLife ==
    ASSUME NEW b, HasLife(b), NEW ok
    PROVE  HasLife(Saved(b, ok)) /\ Saved(b, ok).life = b.life
BY DEF Saved, HasLife

LEMMA EditKeeps ==
    ASSUME BoxInv, NEW t, NEW e,
           \/ AgentEdits(t, e) \/ AgentStages(t) \/ Checkpoint(t) \/ RollbackClean(t)
           \/ RollbackTo(t) \/ ApplySandbox(t)
    PROVE  BoxInv'
<1>1. t \in DOMAIN box /\ HasLife(box[t]) /\ records' = records
  BY DEF AgentEdits, AgentStages, Checkpoint, RollbackClean, RollbackTo, ApplySandbox, BoxInv
<1> DEFINE b == box[t]
<1>2. CASE AgentEdits(t, e)
  <2>1. box' = [box EXCEPT ![t] = [b EXCEPT !.unstaged = b.unstaged \cup {e}]]
    BY <1>2 DEF AgentEdits
  <2>2. LET c == [b EXCEPT !.unstaged = b.unstaged \cup {e}] IN HasLife(c) /\ c.life = b.life
    BY <1>1 DEF HasLife
  <2> QED
    BY <1>1, <2>1, <2>2, BoxEdited
<1>3. CASE AgentStages(t)
  <2>1. box' = [box EXCEPT ![t] = [b EXCEPT !.staged = b.staged \cup b.unstaged, !.unstaged = {}]]
    BY <1>1, <1>3 DEF AgentStages
  <2>2. LET c == [b EXCEPT !.staged = b.staged \cup b.unstaged, !.unstaged = {}]
        IN  HasLife(c) /\ c.life = b.life
    BY <1>1 DEF HasLife
  <2> QED
    BY <1>1, <2>1, <2>2, BoxEdited
<1>4. CASE Checkpoint(t) \/ ApplySandbox(t)
  <2>1. PICK ok \in BOOLEAN : box' = [box EXCEPT ![t] = Saved(b, ok)]
    BY <1>4 DEF Checkpoint, ApplySandbox
  <2> QED
    BY <1>1, <2>1, SavedHasLife, BoxEdited
<1>5. CASE RollbackClean(t)
  <2>1. box' = [box EXCEPT ![t] = [b EXCEPT !.unstaged = {}]]
    BY <1>5 DEF RollbackClean
  <2>2. LET c == [b EXCEPT !.unstaged = {}] IN HasLife(c) /\ c.life = b.life
    BY <1>1 DEF HasLife
  <2> QED
    BY <1>1, <2>1, <2>2, BoxEdited
<1>6. CASE RollbackTo(t)
  <2>1. PICK r : box' = [box EXCEPT ![t] = [b EXCEPT !.commits = r.commits, !.staged = {},
                                                     !.unstaged = b.unstaged \ TrackedChange]]
    BY <1>1, <1>6 DEF RollbackTo
  <2>2. LET c == [b EXCEPT !.commits = r.commits, !.staged = {},
                           !.unstaged = b.unstaged \ TrackedChange]
        IN  HasLife(c) /\ c.life = b.life
    BY <1>1 DEF HasLife
  <2> QED
    BY <1>1, <2>1, <2>2, BoxEdited
<1> QED
  BY <1>2, <1>3, <1>4, <1>5, <1>6

\* A record made for the sandbox that stands.
LEMMA RecordAdded ==
    ASSUME BoxInv, NEW t, NEW b, HasLife(b), t \in DOMAIN box', box'[t] = b,
           DOMAIN box \subseteq DOMAIN box', \A u \in DOMAIN box : box'[u] = box[u],
           \A u \in DOMAIN box' : HasLife(box'[u]),
           records' = Append(records, RecordOf(t, b))
    PROVE  BoxInv'
<1> DEFINE r == RecordOf(t, b)
<1>1. r.task = t /\ r.life = b.life
  BY DEF RecordOf
<1> HIDE DEF r
<1>2. /\ DOMAIN records' = 1..Len(records) + 1 /\ Len(records') = Len(records) + 1
      /\ \A i \in 1..Len(records) : records'[i] = records[i]
      /\ records'[Len(records) + 1] = r
  BY DEF BoxInv, r
<1> QED
  BY <1>1, <1>2 DEF BoxInv

LEMMA CreateSandboxKeeps ==
    ASSUME BoxInv, NEW t, CreateSandbox(t)
    PROVE  BoxInv'
<1>1. CASE t \in DOMAIN box
  <2>1. box' = box /\ records' = Append(records, RecordOf(t, box[t]))
    BY <1>1 DEF CreateSandbox
  <2> QED
    BY <1>1, <2>1, RecordAdded DEF BoxInv
<1>2. CASE t \notin DOMAIN box
  <2>1. box' = Put(box, t, NewBox) /\ records' = Append(records, RecordOf(t, NewBox))
    BY <1>2 DEF CreateSandbox
  <2>2. HasLife(NewBox)
    BY DEF NewBox, HasLife
  <2>3. /\ DOMAIN box' = DOMAIN box \cup {t}
        /\ \A u \in DOMAIN box' : box'[u] = IF u = t THEN NewBox ELSE box[u]
    BY <2>1 DEF Put
  <2> QED
    BY <1>2, <2>1, <2>2, <2>3, RecordAdded DEF BoxInv
<1> QED
  BY <1>1, <1>2

LEMMA DestroyKeeps ==
    ASSUME BoxInv, NEW t, DestroySandbox(t)
    PROVE  BoxInv'
<1> DEFINE rest == {i \in DOMAIN records : records[i].task # t}
<1>1. PICK place \in [1..Cardinality(rest) -> rest] :
        records' = [i \in DOMAIN place |-> records[place[i]]]
  BY DEF DestroySandbox
<1>2. box' = Drop(box, {t})
  BY DEF DestroySandbox
<1>3. Cardinality(rest) \in Nat
  <2>1. IsFiniteSet(1..Len(records)) /\ rest \subseteq 1..Len(records)
    BY FS_Interval DEF BoxInv
  <2> QED
    BY <2>1, FS_Subset, FS_CardinalityType
<1> DEFINE n == Cardinality(rest)
<1>4. n \in Nat /\ place \in [1..n -> rest] /\ records' = [i \in 1..n |-> records[place[i]]]
  BY <1>1, <1>3
<1> HIDE DEF n
<1>5. DOMAIN records' = 1..n /\ Len(records') = n
  BY <1>4
<1>6. ASSUME NEW i \in 1..n
      PROVE  /\ records'[i].task \in DOMAIN box'
             /\ records'[i].life = box'[records'[i].task].life
  <2>1. place[i] \in DOMAIN records /\ records[place[i]].task # t /\ records'[i] = records[place[i]]
    BY <1>4
  <2>2. records'[i].task \in DOMAIN box /\ records'[i].task # t
        /\ records'[i].life = box[records'[i].task].life
    BY <2>1 DEF BoxInv
  <2> QED
    BY <1>2, <2>2 DEF Drop
<1>7. \A u \in DOMAIN box' : HasLife(box'[u])
  BY <1>2 DEF Drop, BoxInv
<1> QED
  BY <1>4, <1>5, <1>6, <1>7 DEF BoxInv

LEMMA ForgetKeeps ==
    ASSUME BoxInv, ExitManager \/ CrashManager
    PROVE  BoxInv'
<1>1. records' = <<>> /\ DOMAIN box' \subseteq DOMAIN box /\ \A u \in DOMAIN box' : box'[u] = box[u]
  BY DEF ExitManager, CrashManager, Drop
<1> QED
  BY <1>1 DEF BoxInv

\* A record is of the sandbox that stands at its path, for any tasks, edits
\* and commits and any number of lives: a rollback never brings back what
\* belongs to a sandbox given up.
THEOREM RecordsAreOwnHolds == sandboxSpec => []RecordsAreOwn
<1>1. sandboxInit => BoxInv
  BY DEF sandboxInit, BoxInv
<1>2. BoxInv /\ [sandboxNext]_sandboxVars => BoxInv'
  <2> SUFFICES ASSUME BoxInv, [sandboxNext]_sandboxVars PROVE BoxInv'
    OBVIOUS
  <2>1. ASSUME NEW t \in Task, CreateSandbox(t)
        PROVE  BoxInv'
    BY <2>1, CreateSandboxKeeps
  <2>2. ASSUME NEW t \in Task,
               \/ AgentStages(t) \/ Checkpoint(t) \/ RollbackClean(t) \/ RollbackTo(t)
               \/ ApplySandbox(t) \/ \E e \in Change : AgentEdits(t, e)
        PROVE  BoxInv'
    BY <2>2, EditKeeps
  <2>3. ASSUME NEW t \in Task, DestroySandbox(t)
        PROVE  BoxInv'
    BY <2>3, DestroyKeeps
  <2>4. CASE ExitManager \/ CrashManager
    BY <2>4, ForgetKeeps
  <2>5. CASE ConcludePick \/ UNCHANGED sandboxVars
    BY <2>5, BoxesKept DEF ConcludePick, sandboxVars, BoxInv
  <2> QED
    BY <2>1, <2>2, <2>3, <2>4, <2>5 DEF sandboxNext
<1>3. BoxInv => RecordsAreOwn
  BY DEF BoxInv, RecordsAreOwn, ToSet
<1> QED
  BY <1>1, <1>2, <1>3, PTL DEF sandboxSpec

----------------------------------------------------------------------------
(* The branches                                                            *)

\* The edits on some branch, and in some entry of the stash.
OnBranches == UNION {tips[b] : b \in DOMAIN tips}
InStash == UNION {stashes[i] : i \in 1..Len(stashes)}

\* What an abort throws away of the index and of a rebase's commits was made
\* or staged since the conflict.
WorkInv ==
    /\ current \in DOMAIN tips
    /\ DOMAIN stashes = 1..Len(stashes) /\ Len(stashes) \in Nat
    /\ \A e \in done : \/ e \in OnBranches \/ e \in staged \/ e \in unstaged \/ e \in ahead
                       \/ e \in InStash \/ e \in givenUp
    /\ merging \in {"merge", "rebase"} => staged \subseteq since /\ ahead \subseteq since
    /\ merging # "rebase" => ahead = {}

LEMMA BranchesGrow ==
    ASSUME DOMAIN tips \subseteq DOMAIN tips', \A b \in DOMAIN tips : tips[b] \subseteq tips'[b]
    PROVE  OnBranches \subseteq OnBranches'
<1> SUFFICES ASSUME NEW e \in OnBranches PROVE e \in OnBranches'
  OBVIOUS
<1>1. PICK b \in DOMAIN tips : e \in tips[b]
  BY DEF OnBranches
<1>2. b \in DOMAIN tips' /\ e \in tips'[b]
  BY <1>1
<1> QED
  BY <1>2 DEF OnBranches

\* A merge or a commit adds to the branch checked out.
LEMMA CommitGrows ==
    ASSUME WorkInv, NEW more, tips' = [tips EXCEPT ![current] = tips[current] \cup more]
    PROVE  /\ DOMAIN tips' = DOMAIN tips
           /\ OnBranches \subseteq OnBranches' /\ more \subseteq OnBranches'
<1>1. /\ DOMAIN tips' = DOMAIN tips /\ current \in DOMAIN tips
      /\ \A b \in DOMAIN tips : tips'[b] = IF b = current THEN tips[current] \cup more ELSE tips[b]
  BY DEF WorkInv
<1>2. OnBranches \subseteq OnBranches'
  BY <1>1, BranchesGrow
<1>3. more \subseteq OnBranches'
  <2> SUFFICES ASSUME NEW e \in more PROVE e \in OnBranches'
    OBVIOUS
  <2>1. current \in DOMAIN tips' /\ e \in tips'[current]
    BY <1>1
  <2> QED
    BY <2>1 DEF OnBranches
<1> QED
  BY <1>1, <1>2, <1>3

LEMMA SameBranches == ASSUME tips' = tips PROVE OnBranches' = OnBranches
BY DEF OnBranches

LEMMA SameStash == ASSUME stashes' = stashes PROVE InStash' = InStash
BY DEF InStash

LEMMA WriteKeeps ==
    ASSUME WorkInv, NEW e, WriteWork(e)
    PROVE  WorkInv'
<1>1. OnBranches' = OnBranches /\ InStash' = InStash
  BY SameBranches, SameStash DEF WriteWork
<1> QED
  BY <1>1 DEF WriteWork, WorkInv

LEMMA EphemeralKeeps ==
    ASSUME WorkInv, NEW b, NEW from, CreateEphemeralBranch(b, from)
    PROVE  WorkInv'
<1>1. /\ DOMAIN tips' = DOMAIN tips \cup {b} /\ b \notin DOMAIN tips
      /\ \A c \in DOMAIN tips : tips'[c] = tips[c]
  BY DEF CreateEphemeralBranch, Put
<1>2. OnBranches \subseteq OnBranches' /\ InStash' = InStash
  BY <1>1, BranchesGrow, SameStash DEF CreateEphemeralBranch
<1>3. current' \in DOMAIN tips'
  BY <1>1 DEF CreateEphemeralBranch, WorkInv
<1>4. UNCHANGED <<staged, unstaged, merging, ahead, since, stashes, done, givenUp>>
  BY DEF CreateEphemeralBranch
<1> QED
  BY <1>2, <1>3, <1>4 DEF WorkInv

\* A branch is deleted by force, or all of it is on the branch checked out.
LEMMA DeleteKeeps ==
    ASSUME WorkInv, NEW b, NEW force, DeleteBranch(b, force)
    PROVE  WorkInv'
<1>1. /\ b # current /\ b \in DOMAIN tips
      /\ DOMAIN tips' = DOMAIN tips \ {b}
      /\ \A c \in DOMAIN tips' : tips'[c] = tips[c]
      /\ UNCHANGED <<current, staged, unstaged, merging, ahead, since, stashes, done>>
  BY DEF DeleteBranch, Drop
<1>2. \/ givenUp' = givenUp \cup tips[b]
      \/ givenUp' = givenUp /\ tips[b] \subseteq tips[current]
  BY DEF DeleteBranch
<1>3. current' \in DOMAIN tips' /\ InStash' = InStash
  BY <1>1, SameStash DEF WorkInv
<1>4. ASSUME NEW e \in OnBranches
      PROVE  e \in OnBranches' \/ e \in givenUp'
  <2>1. PICK c \in DOMAIN tips : e \in tips[c]
    BY DEF OnBranches
  <2>2. CASE c # b
    <3>1. c \in DOMAIN tips' /\ e \in tips'[c]
      BY <1>1, <2>1, <2>2
    <3> QED
      BY <3>1 DEF OnBranches
  <2>3. CASE c = b /\ givenUp' = givenUp \cup tips[b]
    BY <2>1, <2>3
  <2>4. CASE c = b /\ tips[b] \subseteq tips[current]
    <3>1. current \in DOMAIN tips' /\ e \in tips'[current]
      BY <1>1, <1>3, <2>1, <2>4
    <3> QED
      BY <3>1 DEF OnBranches
  <2> QED
    BY <1>2, <2>2, <2>3, <2>4
<1>5. givenUp \subseteq givenUp'
  BY <1>2
<1>6. \A e \in done' : \/ e \in OnBranches' \/ e \in staged' \/ e \in unstaged' \/ e \in ahead'
                       \/ e \in InStash' \/ e \in givenUp'
  BY <1>1, <1>3, <1>4, <1>5 DEF WorkInv
<1> QED
  BY <1>1, <1>3, <1>6 DEF WorkInv

LEMMA CommitKeeps ==
    ASSUME WorkInv, NEW files, NEW ok \in BOOLEAN, StageAndCommit(files, ok)
    PROVE  WorkInv'
<1> DEFINE index == staged \cup (files \cap unstaged) \cup incoming
<1>1. /\ unstaged' = unstaged \ files
      /\ staged' = (IF ok THEN {} ELSE index)
      /\ tips' = (IF ok /\ merging # "rebase"
                  THEN [tips EXCEPT ![current] = tips[current] \cup index] ELSE tips)
      /\ since' = (IF merging = "no" \/ (ok /\ merging # "rebase") THEN {} ELSE since \cup index)
      /\ ahead' = (IF ok /\ merging = "rebase" THEN ahead \cup index ELSE ahead)
      /\ merging' = (IF ok /\ merging # "rebase" THEN "no" ELSE merging)
      /\ UNCHANGED <<current, stashes, done, givenUp>>
  BY DEF StageAndCommit
<1>2. staged \subseteq index /\ \A e \in unstaged : e \in unstaged' \/ e \in index
  BY <1>1
<1> HIDE DEF index
<1>3. InStash' = InStash
  BY <1>1, SameStash
<1>4. CASE ok /\ merging # "rebase"
  <2>1. /\ tips' = [tips EXCEPT ![current] = tips[current] \cup index]
        /\ staged' = {} /\ ahead' = ahead /\ merging' = "no"
    BY <1>1, <1>4
  <2>2. /\ DOMAIN tips' = DOMAIN tips
        /\ OnBranches \subseteq OnBranches' /\ index \subseteq OnBranches'
    BY <2>1, CommitGrows
  <2>3. \A e \in done' : \/ e \in OnBranches' \/ e \in staged' \/ e \in unstaged' \/ e \in ahead'
                         \/ e \in InStash' \/ e \in givenUp'
    BY <1>1, <1>2, <1>3, <2>1, <2>2 DEF WorkInv
  <2> QED
    BY <1>1, <1>4, <2>1, <2>2, <2>3 DEF WorkInv
<1>5. CASE ok /\ merging = "rebase"
  <2>1. /\ tips' = tips /\ staged' = {} /\ ahead' = ahead \cup index /\ merging' = "rebase"
        /\ since' = since \cup index
    BY <1>1, <1>5
  <2>2. OnBranches' = OnBranches
    BY <2>1, SameBranches
  <2>3. \A e \in done' : \/ e \in OnBranches' \/ e \in staged' \/ e \in unstaged' \/ e \in ahead'
                         \/ e \in InStash' \/ e \in givenUp'
    BY <1>1, <1>2, <1>3, <2>1, <2>2 DEF WorkInv
  <2> QED
    BY <1>1, <1>5, <2>1, <2>3 DEF WorkInv
<1>6. CASE ~ok
  <2>1. /\ tips' = tips /\ staged' = index /\ ahead' = ahead /\ merging' = merging
        /\ since' = IF merging = "no" THEN {} ELSE since \cup index
    BY <1>1, <1>6
  <2>2. OnBranches' = OnBranches
    BY <2>1, SameBranches
  <2>3. \A e \in done' : \/ e \in OnBranches' \/ e \in staged' \/ e \in unstaged' \/ e \in ahead'
                         \/ e \in InStash' \/ e \in givenUp'
    BY <1>1, <1>2, <1>3, <2>1, <2>2 DEF WorkInv
  <2> QED
    BY <1>1, <2>1, <2>3 DEF WorkInv
<1> QED
  BY <1>4, <1>5, <1>6

----------------------------------------------------------------------------
LEMMA StashFacts ==
    ASSUME WorkInv, NEW w, stashes' = <<w>> \o stashes
    PROVE  /\ DOMAIN stashes' = 1..Len(stashes') /\ Len(stashes') \in Nat
           /\ InStash \subseteq InStash' /\ w \subseteq InStash'
<1>1. /\ Len(stashes') = Len(stashes) + 1 /\ DOMAIN stashes' = 1..Len(stashes) + 1
      /\ Len(stashes) \in Nat
      /\ \A i \in 1..Len(stashes) + 1 : stashes'[i] = IF i = 1 THEN w ELSE stashes[i - 1]
  BY DEF WorkInv
<1>2. w \subseteq InStash'
  <2>1. 1 \in 1..Len(stashes') /\ stashes'[1] = w
    BY <1>1
  <2> QED
    BY <2>1 DEF InStash
<1>3. ASSUME NEW e \in InStash
      PROVE  e \in InStash'
  <2>1. PICK i \in 1..Len(stashes) : e \in stashes[i]
    BY DEF InStash
  <2>2. i + 1 \in 1..Len(stashes') /\ stashes'[i + 1] = stashes[i]
    BY <1>1
  <2> QED
    BY <2>1, <2>2 DEF InStash
<1> QED
  BY <1>1, <1>2, <1>3

LEMMA RemoveFacts ==
    ASSUME WorkInv, NEW i \in DOMAIN stashes, stashes' = RemoveAt(stashes, i)
    PROVE  /\ DOMAIN stashes' = 1..Len(stashes') /\ Len(stashes') \in Nat
           /\ \A e \in InStash : e \in InStash' \/ e \in stashes[i]
<1> DEFINE n == Len(stashes)
<1>1. n \in Nat /\ i \in 1..n /\ DOMAIN stashes = 1..n
  BY DEF WorkInv
<1>2. /\ Len(stashes') = n - 1 /\ DOMAIN stashes' = 1..n - 1
      /\ \A j \in 1..n - 1 : stashes'[j] = IF j < i THEN stashes[j] ELSE stashes[j + 1]
  <2> DEFINE a == SubSeq(stashes, 1, i - 1)
             b == SubSeq(stashes, i + 1, n)
  <2>1. stashes' = a \o b
    BY DEF RemoveAt
  <2>2. Len(a) = i - 1 /\ DOMAIN a = 1..i - 1 /\ \A j \in 1..i - 1 : a[j] = stashes[j]
    BY <1>1
  <2>3. Len(b) = n - i /\ DOMAIN b = 1..n - i /\ \A j \in 1..n - i : b[j] = stashes[j + i]
    BY <1>1
  <2> HIDE DEF a, b, n
  <2>4. /\ Len(a \o b) = n - 1 /\ DOMAIN (a \o b) = 1..n - 1
        /\ \A j \in 1..n - 1 : (a \o b)[j] = IF j <= i - 1 THEN a[j] ELSE b[j - (i - 1)]
    <3>1. /\ Len(a \o b) = Len(a) + Len(b) /\ DOMAIN (a \o b) = 1..Len(a) + Len(b)
          /\ \A j \in 1..Len(a) + Len(b) : (a \o b)[j] = IF j <= Len(a) THEN a[j] ELSE b[j - Len(a)]
      OBVIOUS
    <3>2. Len(a) + Len(b) = n - 1
      BY <1>1, <2>2, <2>3
    <3> QED
      BY <2>2, <3>1, <3>2
  <2>5. ASSUME NEW j \in 1..n - 1
        PROVE  stashes'[j] = IF j < i THEN stashes[j] ELSE stashes[j + 1]
    <3>1. CASE j < i
      BY <1>1, <2>1, <2>2, <2>4, <3>1
    <3>2. CASE ~(j < i)
      <4>1. j - (i - 1) \in 1..n - i /\ j - (i - 1) + i = j + 1 /\ ~(j <= i - 1)
        BY <1>1, <3>2
      <4> QED
        BY <2>1, <2>3, <2>4, <3>2, <4>1
    <3> QED
      BY <3>1, <3>2
  <2> QED
    BY <2>1, <2>4, <2>5
<1>3. ASSUME NEW e \in InStash, e \notin stashes[i]
      PROVE  e \in InStash'
  <2>1. PICK j \in 1..n : e \in stashes[j]
    BY DEF InStash
  <2>2. j # i
    BY <1>3, <2>1
  <2>3. CASE j < i
    <3>1. j \in 1..Len(stashes') /\ stashes'[j] = stashes[j]
      BY <1>1, <1>2, <2>3
    <3> QED
      BY <2>1, <3>1 DEF InStash
  <2>4. CASE j > i
    <3>1. j - 1 \in 1..Len(stashes') /\ stashes'[j - 1] = stashes[j]
      BY <1>1, <1>2, <2>4
    <3> QED
      BY <2>1, <3>1 DEF InStash
  <2> QED
    BY <1>1, <2>2, <2>3, <2>4
<1> QED
  BY <1>1, <1>2, <1>3

LEMMA StashKeeps ==
    ASSUME WorkInv, NEW fresh, CreateStash(fresh)
    PROVE  WorkInv'
<1>1. /\ merging = "no" /\ fresh \subseteq unstaged
      /\ stashes' = <<staged \cup (unstaged \ fresh)>> \o stashes
      /\ staged' = {} /\ unstaged' = fresh
      /\ UNCHANGED <<tips, current, merging, ahead, since, done, givenUp>>
  BY DEF CreateStash
<1> DEFINE w == staged \cup (unstaged \ fresh)
<1>2. /\ DOMAIN stashes' = 1..Len(stashes') /\ Len(stashes') \in Nat
      /\ InStash \subseteq InStash' /\ w \subseteq InStash'
  BY <1>1, StashFacts
<1>3. OnBranches' = OnBranches
  BY <1>1, SameBranches
<1>4. \A e \in done' : \/ e \in OnBranches' \/ e \in staged' \/ e \in unstaged' \/ e \in ahead'
                       \/ e \in InStash' \/ e \in givenUp'
  BY <1>1, <1>2, <1>3 DEF WorkInv
<1> QED
  BY <1>1, <1>2, <1>4 DEF WorkInv

LEMMA PopStashKeeps ==
    ASSUME WorkInv, NEW i, NEW clean, PopStash(i, clean)
    PROVE  WorkInv'
<1>1. /\ i \in DOMAIN stashes /\ merging = "no"
      /\ unstaged' = unstaged \cup stashes[i]
      /\ stashes' = RemoveAt(stashes, i) \/ stashes' = stashes
      /\ merging' \in {"no", "pop"}
      /\ UNCHANGED <<tips, current, staged, ahead, since, done, givenUp>>
  BY DEF PopStash
<1>2. /\ DOMAIN stashes' = 1..Len(stashes') /\ Len(stashes') \in Nat
      /\ \A e \in InStash : e \in InStash' \/ e \in stashes[i]
  <2>1. CASE stashes' = RemoveAt(stashes, i)
    BY <1>1, <2>1, RemoveFacts
  <2>2. CASE stashes' = stashes
    BY <2>2, SameStash DEF WorkInv
  <2> QED
    BY <1>1, <2>1, <2>2
<1>3. OnBranches' = OnBranches
  BY <1>1, SameBranches
<1>4. \A e \in done' : \/ e \in OnBranches' \/ e \in staged' \/ e \in unstaged' \/ e \in ahead'
                       \/ e \in InStash' \/ e \in givenUp'
  BY <1>1, <1>2, <1>3 DEF WorkInv
<1> QED
  BY <1>1, <1>2, <1>4 DEF WorkInv

LEMMA DropStashKeeps ==
    ASSUME WorkInv, NEW i, DropStash(i)
    PROVE  WorkInv'
<1>1. /\ i \in DOMAIN stashes /\ stashes' = RemoveAt(stashes, i)
      /\ givenUp' = givenUp \cup stashes[i]
      /\ UNCHANGED <<tips, current, staged, unstaged, merging, ahead, since, done>>
  BY DEF DropStash
<1>2. /\ DOMAIN stashes' = 1..Len(stashes') /\ Len(stashes') \in Nat
      /\ \A e \in InStash : e \in InStash' \/ e \in stashes[i]
  BY <1>1, RemoveFacts
<1>3. OnBranches' = OnBranches
  BY <1>1, SameBranches
<1>4. \A e \in done' : \/ e \in OnBranches' \/ e \in staged' \/ e \in unstaged' \/ e \in ahead'
                       \/ e \in InStash' \/ e \in givenUp'
  BY <1>1, <1>2, <1>3 DEF WorkInv
<1> QED
  BY <1>1, <1>2, <1>4 DEF WorkInv

LEMMA MergeKeeps ==
    ASSUME WorkInv, NEW b, NEW squash, NEW ok, MergeClean(b, squash, ok)
    PROVE  WorkInv'
<1>1. /\ merging = "no" /\ staged = {}
      /\ UNCHANGED <<current, unstaged, merging, ahead, since, stashes, done, givenUp>>
  BY DEF MergeClean
<1>2. \/ tips' = tips /\ staged' = tips[b] \ tips[current]
      \/ tips' = [tips EXCEPT ![current] = tips[current] \cup tips[b]] /\ staged' = staged
  BY DEF MergeClean
<1>3. DOMAIN tips' = DOMAIN tips /\ OnBranches \subseteq OnBranches'
  <2>1. CASE tips' = tips
    BY <2>1, SameBranches
  <2>2. CASE tips' = [tips EXCEPT ![current] = tips[current] \cup tips[b]]
    BY <2>2, CommitGrows
  <2> QED
    BY <1>2, <2>1, <2>2
<1>4. InStash' = InStash
  BY <1>1, SameStash
<1>5. \A e \in done' : \/ e \in OnBranches' \/ e \in staged' \/ e \in unstaged' \/ e \in ahead'
                       \/ e \in InStash' \/ e \in givenUp'
  BY <1>1, <1>3, <1>4 DEF WorkInv
<1> QED
  BY <1>1, <1>3, <1>5 DEF WorkInv

LEMMA ConflictKeeps ==
    ASSUME WorkInv, NEW b, NEW how, MergeConflicts(b, how)
    PROVE  WorkInv'
<1>1. /\ merging = "no" /\ staged = {} /\ since' = {} /\ merging' = how
      /\ UNCHANGED <<tips, current, staged, unstaged, ahead, stashes, done, givenUp>>
  BY DEF MergeConflicts
<1>2. OnBranches' = OnBranches /\ InStash' = InStash
  BY <1>1, SameBranches, SameStash
<1>3. ahead = {}
  BY <1>1 DEF WorkInv
<1> QED
  BY <1>1, <1>2, <1>3 DEF WorkInv

LEMMA AbortKeeps ==
    ASSUME WorkInv, AbortMerge
    PROVE  WorkInv'
<1>1. /\ merging \in {"merge", "rebase"} /\ merging' = "no" /\ ahead' = {}
      /\ staged' = {} /\ unstaged' = unstaged \ since
      /\ givenUp' = givenUp \cup since
      /\ UNCHANGED <<tips, current, stashes, done>>
  BY DEF AbortMerge
<1>2. OnBranches' = OnBranches /\ InStash' = InStash
  BY <1>1, SameBranches, SameStash
<1>3. staged \subseteq since /\ ahead \subseteq since
  BY <1>1 DEF WorkInv
<1>4. \A e \in done' : \/ e \in OnBranches' \/ e \in staged' \/ e \in unstaged' \/ e \in ahead'
                       \/ e \in InStash' \/ e \in givenUp'
  BY <1>1, <1>2, <1>3 DEF WorkInv
<1> QED
  BY <1>1, <1>4 DEF WorkInv

\* Through conflicts, aborts, stashes and commits that fail, for any branches
\* and edits: no edit vanishes that a caller has not asked to discard.
THEOREM NoWorkVanishesHolds == branchSpec => []NoWorkVanishes
<1>1. branchInit => WorkInv
  BY DEF branchInit, WorkInv
<1>2. WorkInv /\ [branchNext]_branchVars => WorkInv'
  <2> SUFFICES ASSUME WorkInv, [branchNext]_branchVars PROVE WorkInv'
    OBVIOUS
  <2>1. ASSUME NEW e \in Work, WriteWork(e)
        PROVE  WorkInv'
    BY <2>1, WriteKeeps
  <2>2. ASSUME NEW b \in Branch, NEW c \in Branch, NEW ok \in BOOLEAN, NEW squash \in BOOLEAN,
               \/ CreateEphemeralBranch(b, c) \/ DeleteBranch(b, ok) \/ MergeClean(b, squash, ok)
        PROVE  WorkInv'
    BY <2>2, EphemeralKeeps, DeleteKeeps, MergeKeeps
  <2>3. ASSUME NEW b \in Branch, CheckoutBranch(b)
        PROVE  WorkInv'
    <3>1. /\ current' \in DOMAIN tips'
          /\ UNCHANGED <<tips, staged, unstaged, merging, ahead, since, stashes, done, givenUp>>
      BY <2>3 DEF CheckoutBranch
    <3>2. OnBranches' = OnBranches /\ InStash' = InStash
      BY <3>1, SameBranches, SameStash
    <3> QED
      BY <3>1, <3>2 DEF WorkInv
  <2>4. ASSUME NEW b, NEW how, MergeConflicts(b, how)
        PROVE  WorkInv'
    BY <2>4, ConflictKeeps
  <2>5. ASSUME NEW files, NEW ok \in BOOLEAN, StageAndCommit(files, ok)
        PROVE  WorkInv'
    BY <2>5, CommitKeeps
  <2>6. ASSUME NEW fresh, CreateStash(fresh)
        PROVE  WorkInv'
    BY <2>6, StashKeeps
  <2>7. ASSUME NEW i, DropStash(i) \/ \E clean \in BOOLEAN : PopStash(i, clean)
        PROVE  WorkInv'
    BY <2>7, DropStashKeeps, PopStashKeeps
  <2>8. CASE AbortMerge
    BY <2>8, AbortKeeps
  <2>9. CASE UNCHANGED branchVars
    <3>1. UNCHANGED <<tips, current, staged, unstaged, merging, ahead, since, stashes, done, givenUp>>
      BY <2>9 DEF branchVars
    <3>2. OnBranches' = OnBranches /\ InStash' = InStash
      BY <3>1, SameBranches, SameStash
    <3> QED
      BY <3>1, <3>2 DEF WorkInv
  <2> QED
    BY <2>1, <2>2, <2>3, <2>4, <2>5, <2>6, <2>7, <2>8, <2>9 DEF branchNext
<1>3. WorkInv => NoWorkVanishes
  <2> SUFFICES ASSUME WorkInv PROVE NoWorkVanishes
    OBVIOUS
  <2>1. InStash = UNION ToSet(stashes)
    BY DEF InStash, ToSet, WorkInv
  <2> QED
    <3>1. \A e \in done : \/ e \in OnBranches \/ e \in staged \/ e \in unstaged \/ e \in ahead
                          \/ e \in InStash \/ e \in givenUp
      BY DEF WorkInv
    <3> QED
      BY <2>1, <3>1 DEF NoWorkVanishes, OnBranches
<1> QED
  BY <1>1, <1>2, <1>3, PTL DEF branchSpec

----------------------------------------------------------------------------
(* The conversations                                                       *)

Archives(object) == "archived" \in DOMAIN object

\* No object is held under two ids, and what is deleted is not held.
ConversationInv ==
    /\ HeldIsStored
    /\ \A a, b \in DOMAIN conversations : conversations[a] = conversations[b] => a = b
    /\ deleted \cap DOMAIN conversations = {}
    /\ "of" \in DOMAIN stored
    /\ \A o \in DOMAIN objects : Archives(objects[o])
    /\ \A id \in DOMAIN stored.of : Archives(stored.of[id])
    /\ exported.is = "whole" => Archives(exported.of)

\* A new object under an id, and everything saved.
LEMMA MadeAndSaved ==
    ASSUME ConversationInv, NEW o, NEW object, NEW id, Makes(o, object),
           conversations' = Put(conversations, id, o),
           SaveConversations(conversations', objects'), Archives(object)
    PROVE  /\ DOMAIN conversations' = DOMAIN conversations \cup {id}
           /\ DOMAIN stored'.of = DOMAIN conversations' /\ "of" \in DOMAIN stored'
           /\ DOMAIN objects' = DOMAIN objects \cup {o}
           /\ \A k \in DOMAIN conversations' :
                /\ conversations'[k] \in DOMAIN objects'
                /\ stored'.of[k] = objects'[conversations'[k]]
           /\ \A a, b \in DOMAIN conversations' : conversations'[a] = conversations'[b] => a = b
           /\ \A p \in DOMAIN objects' : Archives(objects'[p])
<1>1. /\ o \notin DOMAIN objects
      /\ DOMAIN objects' = DOMAIN objects \cup {o}
      /\ \A p \in DOMAIN objects' : objects'[p] = IF p = o THEN object ELSE objects[p]
  BY DEF Makes, Put
<1>2. /\ DOMAIN conversations' = DOMAIN conversations \cup {id}
      /\ \A k \in DOMAIN conversations' : conversations'[k] = IF k = id THEN o ELSE conversations[k]
  BY DEF Put
<1>3. stored' = [is |-> "whole", of |-> [k \in DOMAIN conversations' |-> objects'[conversations'[k]]]]
  BY DEF SaveConversations, Content
<1>4. "of" \in DOMAIN stored' /\ stored'.of = [k \in DOMAIN conversations' |-> objects'[conversations'[k]]]
  BY <1>3
<1>5. \A k \in DOMAIN conversations : conversations[k] \in DOMAIN objects
  BY DEF ConversationInv, HeldIsStored
<1>6. \A k \in DOMAIN conversations' : conversations'[k] \in DOMAIN objects'
  BY <1>1, <1>2, <1>5
<1>7. \A a, b \in DOMAIN conversations' : conversations'[a] = conversations'[b] => a = b
  BY <1>1, <1>2, <1>5 DEF ConversationInv
<1>8. \A p \in DOMAIN objects' : Archives(objects'[p])
  BY <1>1 DEF ConversationInv
<1> QED
  BY <1>1, <1>2, <1>4, <1>6, <1>7, <1>8

LEMMA CreateConversationKeeps ==
    ASSUME ConversationInv, NEW id, CreateConversation(id)
    PROVE  ConversationInv'
<1> DEFINE object == [id |-> id, tokens |-> <<>>, archived |-> FALSE]
<1>1. /\ Makes(NewObject, object) /\ conversations' = Put(conversations, id, NewObject)
      /\ SaveConversations(conversations', objects')
      /\ currentConversation' = NewObject
      /\ deleted' = deleted /\ id \notin deleted
      /\ exported' = exported
  BY DEF CreateConversation
<1>2. Archives(object)
  BY DEF Archives
<1> HIDE DEF object
<1>3. /\ DOMAIN conversations' = DOMAIN conversations \cup {id}
      /\ DOMAIN stored'.of = DOMAIN conversations' /\ "of" \in DOMAIN stored'
      /\ DOMAIN objects' = DOMAIN objects \cup {NewObject}
      /\ \A k \in DOMAIN conversations' :
           /\ conversations'[k] \in DOMAIN objects'
           /\ stored'.of[k] = objects'[conversations'[k]]
      /\ \A a, b \in DOMAIN conversations' : conversations'[a] = conversations'[b] => a = b
      /\ \A p \in DOMAIN objects' : Archives(objects'[p])
  BY <1>1, <1>2, MadeAndSaved
<1>4. deleted' \cap DOMAIN conversations' = {}
  BY <1>1, <1>3 DEF ConversationInv
<1>5. HeldIsStored'
  BY <1>1, <1>3, <1>4 DEF HeldIsStored
<1>6. \A k \in DOMAIN stored'.of : Archives(stored'.of[k])
  BY <1>3
<1> QED
  BY <1>1, <1>3, <1>4, <1>5, <1>6 DEF ConversationInv, Archives

LEMMA ImportKeeps ==
    ASSUME ConversationInv, ImportConversation
    PROVE  ConversationInv'
<1> DEFINE object == exported.of
           id == exported.of.id
<1>1. /\ Makes(NewObject, object) /\ conversations' = Put(conversations, id, NewObject)
      /\ SaveConversations(conversations', objects')
      /\ currentConversation' = currentConversation
      /\ deleted' = deleted \ {id} /\ Archives(object)
      /\ exported' = exported
  BY DEF ImportConversation, ConversationInv
<1> HIDE DEF object, id
<1>3. /\ DOMAIN conversations' = DOMAIN conversations \cup {id}
      /\ DOMAIN stored'.of = DOMAIN conversations' /\ "of" \in DOMAIN stored'
      /\ DOMAIN objects' = DOMAIN objects \cup {NewObject}
      /\ \A k \in DOMAIN conversations' :
           /\ conversations'[k] \in DOMAIN objects'
           /\ stored'.of[k] = objects'[conversations'[k]]
      /\ \A a, b \in DOMAIN conversations' : conversations'[a] = conversations'[b] => a = b
      /\ \A p \in DOMAIN objects' : Archives(objects'[p])
  BY <1>1, MadeAndSaved
<1>4. deleted' \cap DOMAIN conversations' = {}
  BY <1>1, <1>3 DEF ConversationInv
<1>5. currentConversation' # NoConversation => currentConversation' \in DOMAIN objects'
  BY <1>1, <1>3 DEF ConversationInv, HeldIsStored
<1>6. HeldIsStored'
  BY <1>3, <1>4, <1>5 DEF HeldIsStored
<1>7. \A k \in DOMAIN stored'.of : Archives(stored'.of[k])
  BY <1>3
<1> QED
  BY <1>1, <1>3, <1>4, <1>6, <1>7 DEF ConversationInv, Archives

\* What is changed in an object is saved with the next one that is.
LEMMA ChangesKeep ==
    ASSUME ConversationInv, NEW o, NEW object, Changes(o, object), Archives(object),
           object.archived => objects[o].archived
    PROVE  ConversationInv'
<1>1. /\ o \in DOMAIN objects /\ objects' = [objects EXCEPT ![o] = object]
      /\ UNCHANGED <<conversations, currentConversation, stored, exported, deleted>>
  BY DEF Changes
<1>2. /\ DOMAIN objects' = DOMAIN objects
      /\ \A p \in DOMAIN objects : objects'[p] = IF p = o THEN object ELSE objects[p]
  BY <1>1
<1>3. \A p \in DOMAIN objects : Archives(objects'[p]) /\ (objects'[p].archived => objects[p].archived)
  BY <1>2 DEF ConversationInv
<1>4. HeldIsStored'
  BY <1>1, <1>2, <1>3 DEF ConversationInv, HeldIsStored
<1> QED
  BY <1>1, <1>2, <1>3, <1>4 DEF ConversationInv, Archives

LEMMA EditConversationKeeps ==
    ASSUME ConversationInv, NEW o \in DOMAIN objects, NEW n, NEW i,
           \/ AddMessage(o, n) \/ RemoveMessage(o, i) \/ ClearMessages(o) \/ RestoreConversation(o)
    PROVE  ConversationInv'
<1> DEFINE c == objects[o]
<1>1. Archives(c)
  BY DEF ConversationInv
<1>2. \/ \E more : Changes(o, [c EXCEPT !.tokens = more])
      \/ Changes(o, [c EXCEPT !.archived = FALSE])
  BY DEF AddMessage, RemoveMessage, ClearMessages, RestoreConversation
<1> HIDE DEF c
<1>3. ASSUME NEW more
      PROVE  /\ Archives([c EXCEPT !.tokens = more])
             /\ [c EXCEPT !.tokens = more].archived = c.archived
  BY <1>1 DEF Archives
<1>4. Archives([c EXCEPT !.archived = FALSE]) /\ ~[c EXCEPT !.archived = FALSE].archived
  BY <1>1 DEF Archives
<1> QED
  BY <1>2, <1>3, <1>4, ChangesKeep DEF c

LEMMA DeleteConversationKeeps ==
    ASSUME ConversationInv, NEW id, DeleteConversation(id)
    PROVE  ConversationInv'
<1>1. /\ id \in DOMAIN conversations
      /\ DOMAIN conversations' = DOMAIN conversations \ {id}
      /\ \A k \in DOMAIN conversations' : conversations'[k] = conversations[k]
      /\ DOMAIN objects' = DOMAIN objects \ {conversations[id]}
      /\ \A o \in DOMAIN objects' : objects'[o] = objects[o]
      /\ currentConversation' = (IF currentConversation = conversations[id] THEN NoConversation
                                 ELSE currentConversation)
      /\ deleted' = deleted \cup {id} /\ exported' = exported
  BY DEF DeleteConversation, Drop
<1>2. /\ "of" \in DOMAIN stored'
      /\ DOMAIN stored'.of = DOMAIN stored.of \ {id}
      /\ \A k \in DOMAIN stored'.of : stored'.of[k] = stored.of[k]
  BY DEF DeleteConversation, Drop, ConversationInv
<1>3. \A k \in DOMAIN conversations' : /\ conversations[k] \in DOMAIN objects'
                                       /\ conversations'[k] \in DOMAIN objects'
  BY <1>1 DEF ConversationInv, HeldIsStored
<1>4. deleted' \cap DOMAIN conversations' = {}
  BY <1>1 DEF ConversationInv
<1>5. HeldIsStored'
  <2>1. \A k \in DOMAIN conversations' :
          /\ k \in DOMAIN stored'.of /\ conversations'[k] \in DOMAIN objects'
          /\ objects'[conversations'[k]].archived => stored'.of[k].archived
    BY <1>1, <1>2, <1>3 DEF ConversationInv, HeldIsStored
  <2>2. deleted' \cap DOMAIN stored'.of = {}
    BY <1>1, <1>2 DEF ConversationInv, HeldIsStored
  <2>3. currentConversation' # NoConversation => currentConversation' \in DOMAIN objects'
    BY <1>1 DEF ConversationInv, HeldIsStored
  <2> QED
    BY <2>1, <2>2, <2>3 DEF HeldIsStored
<1> QED
  BY <1>1, <1>2, <1>4, <1>5 DEF ConversationInv, Archives

LEMMA ArchiveKeeps ==
    ASSUME ConversationInv, NEW ids, ArchiveConversations(ids)
    PROVE  ConversationInv'
<1>1. /\ objects' = [o \in DOMAIN objects |-> IF \E id \in ids : conversations[id] = o
                                              THEN [objects[o] EXCEPT !.archived = TRUE] ELSE objects[o]]
      /\ stored' = [is |-> "whole", of |-> [k \in DOMAIN conversations |-> objects'[conversations[k]]]]
      /\ UNCHANGED <<conversations, currentConversation, exported, deleted>>
  BY DEF ArchiveConversations, SaveConversations, Content
<1>2. DOMAIN objects' = DOMAIN objects
  BY <1>1
<1>3. ASSUME NEW o \in DOMAIN objects'
      PROVE  Archives(objects'[o])
  <2>1. objects'[o] = objects[o] \/ objects'[o] = [objects[o] EXCEPT !.archived = TRUE]
    BY <1>1
  <2>2. Archives(objects[o])
    BY <1>2 DEF ConversationInv
  <2> QED
    BY <2>1, <2>2 DEF Archives
<1>4. /\ "of" \in DOMAIN stored' /\ DOMAIN stored'.of = DOMAIN conversations
      /\ \A k \in DOMAIN conversations : stored'.of[k] = objects'[conversations[k]]
  BY <1>1
<1>5. HeldIsStored'
  BY <1>1, <1>2, <1>4 DEF ConversationInv, HeldIsStored
<1>6. \A k \in DOMAIN stored'.of : Archives(stored'.of[k])
  BY <1>2, <1>3, <1>4 DEF ConversationInv, HeldIsStored
<1>7. \A a, b \in DOMAIN conversations' : conversations'[a] = conversations'[b] => a = b
  BY <1>1 DEF ConversationInv
<1> QED
  BY <1>1, <1>3, <1>4, <1>5, <1>6, <1>7 DEF ConversationInv, Archives

\* An object loaded has what the file says.
LEMMA LoadKeeps ==
    ASSUME ConversationInv, NEW id, LoadConversation(id)
    PROVE  ConversationInv'
<1>1. /\ id \in DOMAIN stored.of /\ NewObject \notin DOMAIN objects
      /\ DOMAIN objects' = DOMAIN objects \cup {NewObject}
      /\ \A p \in DOMAIN objects' : objects'[p] = IF p = NewObject THEN stored.of[id] ELSE objects[p]
      /\ DOMAIN conversations' = DOMAIN conversations \cup {id}
      /\ \A k \in DOMAIN conversations' :
           conversations'[k] = IF k = id THEN NewObject ELSE conversations[k]
      /\ UNCHANGED <<currentConversation, stored, exported, deleted>>
  BY DEF LoadConversation, Makes, Put
<1>2. \A k \in DOMAIN conversations : conversations[k] \in DOMAIN objects /\ conversations[k] # NewObject
  BY <1>1 DEF ConversationInv, HeldIsStored
<1>3. HeldIsStored'
  <2>1. \A k \in DOMAIN conversations' :
          /\ k \in DOMAIN stored.of /\ conversations'[k] \in DOMAIN objects'
          /\ objects'[conversations'[k]].archived => stored.of[k].archived
    BY <1>1, <1>2 DEF ConversationInv, HeldIsStored
  <2> QED
    BY <1>1, <2>1 DEF ConversationInv, HeldIsStored
<1>4. \A a, b \in DOMAIN conversations' : conversations'[a] = conversations'[b] => a = b
  BY <1>1, <1>2 DEF ConversationInv
<1>5. deleted' \cap DOMAIN conversations' = {}
  BY <1>1 DEF ConversationInv, HeldIsStored
<1>6. \A p \in DOMAIN objects' : Archives(objects'[p])
  BY <1>1 DEF ConversationInv
<1> QED
  BY <1>1, <1>3, <1>4, <1>5, <1>6 DEF ConversationInv, Archives

LEMMA ClearKeeps ==
    ASSUME ConversationInv, ClearAllConversations
    PROVE  ConversationInv'
<1>1. /\ conversations' = <<>> /\ currentConversation' = NoConversation
      /\ stored' = NoFile /\ exported' = exported
      /\ DOMAIN objects' \subseteq DOMAIN objects
      /\ \A o \in DOMAIN objects' : objects'[o] = objects[o]
  BY DEF ClearAllConversations, Drop
<1>2. DOMAIN conversations' = {} /\ "of" \in DOMAIN stored' /\ DOMAIN stored'.of = {}
  BY <1>1 DEF NoFile
<1> QED
  BY <1>1, <1>2 DEF ConversationInv, HeldIsStored, Archives

LEMMA RestartKeeps ==
    ASSUME ConversationInv, NEW file, Restart(file),
           file = stored \/ file = [is |-> "broken", of |-> <<>>]
    PROVE  ConversationInv'
<1>1. /\ conversations' = <<>> /\ currentConversation' = NoConversation /\ objects' = <<>>
      /\ stored' = file /\ UNCHANGED <<exported, deleted>>
  BY DEF Restart
<1>2. DOMAIN conversations' = {} /\ DOMAIN objects' = {}
  BY <1>1
<1>3. CASE file = stored
  BY <1>1, <1>2, <1>3 DEF ConversationInv, HeldIsStored, Archives
<1>4. CASE file = [is |-> "broken", of |-> <<>>]
  <2>1. "of" \in DOMAIN stored' /\ DOMAIN stored'.of = {}
    BY <1>1, <1>4
  <2> QED
    BY <1>1, <1>2, <2>1 DEF ConversationInv, HeldIsStored, Archives
<1> QED
  BY <1>3, <1>4

\* For any number of conversations, messages and restarts: what is held is in
\* the file, what was deleted does not come back, and the current
\* conversation is an object that lives.
THEOREM HeldIsStoredHolds == conversationSpec => []HeldIsStored
<1>1. conversationInit => ConversationInv
  <2> SUFFICES ASSUME conversationInit PROVE ConversationInv
    OBVIOUS
  <2>1. /\ conversations = <<>> /\ objects = <<>> /\ stored = NoFile /\ exported = NoFile
        /\ deleted = {} /\ currentConversation = NoConversation
    BY DEF conversationInit
  <2>2. /\ DOMAIN conversations = {} /\ DOMAIN objects = {}
        /\ "of" \in DOMAIN stored /\ DOMAIN stored.of = {} /\ exported.is # "whole"
    BY <2>1 DEF NoFile
  <2> QED
    BY <2>1, <2>2 DEF ConversationInv, HeldIsStored
<1>2. ConversationInv /\ [conversationNext]_conversationVars => ConversationInv'
  <2> SUFFICES ASSUME ConversationInv, [conversationNext]_conversationVars PROVE ConversationInv'
    OBVIOUS
  <2>1. ASSUME NEW id,
               CreateConversation(id) \/ DeleteConversation(id) \/ LoadConversation(id)
        PROVE  ConversationInv'
    BY <2>1, CreateConversationKeeps, DeleteConversationKeeps, LoadKeeps
  <2>2. ASSUME NEW o \in DOMAIN objects,
               \/ ClearMessages(o) \/ RestoreConversation(o)
               \/ \E n \in Tokens : AddMessage(o, n)
               \/ \E i \in DOMAIN objects[o].tokens : RemoveMessage(o, i)
        PROVE  ConversationInv'
    BY <2>2, EditConversationKeeps
  <2>3. ASSUME NEW o \in DOMAIN objects, ExportConversation(o)
        PROVE  ConversationInv'
    <3>1. /\ exported' = [is |-> "whole", of |-> objects[o]]
          /\ UNCHANGED <<conversations, currentConversation, objects, stored, deleted>>
      BY <2>3 DEF ExportConversation
    <3>2. exported'.of = objects[o] /\ Archives(objects[o])
      BY <3>1 DEF ConversationInv
    <3> QED
      BY <3>1, <3>2 DEF ConversationInv, HeldIsStored, Archives
  <2>4. ASSUME NEW o \in Held \cup {NoConversation}, SetCurrent(o)
        PROVE  ConversationInv'
    <3>1. o # NoConversation => o \in DOMAIN objects
      BY DEF Held, ConversationInv, HeldIsStored
    <3> QED
      BY <2>4, <3>1 DEF SetCurrent, ConversationInv, HeldIsStored, Archives
  <2>5. ASSUME NEW ids, ArchiveConversations(ids)
        PROVE  ConversationInv'
    BY <2>5, ArchiveKeeps
  <2>6. CASE ImportConversation \/ ClearAllConversations
    BY <2>6, ImportKeeps, ClearKeeps
  <2>7. CASE Restart(stored) \/ Restart([is |-> "broken", of |-> <<>>])
    BY <2>7, RestartKeeps
  <2>8. CASE UNCHANGED conversationVars
    BY <2>8 DEF conversationVars, ConversationInv, HeldIsStored, Archives
  <2> QED
    BY <2>1, <2>2, <2>3, <2>4, <2>5, <2>6, <2>7, <2>8 DEF conversationNext
<1>3. ConversationInv => HeldIsStored
  BY DEF ConversationInv
<1> QED
  BY <1>1, <1>2, <1>3, PTL DEF conversationSpec

----------------------------------------------------------------------------
(* The tool registry                                                       *)

CallStats == [total : Nat, ok : Nat, failed : Nat, sum : Nat, average : Nat, min : Nat, max : Nat]

\* The figures of one tool fit together, and none of its calls was longer than
\* the longest.
FiguresFit(s) ==
    /\ s \in CallStats
    /\ s.total = s.ok + s.failed
    /\ s.sum \leq s.total * s.max
    /\ s.average \leq s.max /\ s.min \leq s.max

Busy == {c \in Caller : executing[c] # NoCall}

\* No two names share an object, every object that is referred to has its
\* figures, and the calls counted and the calls under way have been begun.
ToolInv ==
    /\ IsFiniteSet(DOMAIN tools) /\ IsFiniteSet(Busy)
    /\ toolCount \in Nat /\ callCount \in Nat
    /\ DOMAIN stats \subseteq 1..toolCount
    /\ \A i \in DOMAIN stats : FiguresFit(stats[i])
    /\ \A n \in DOMAIN tools : tools[n] \in DOMAIN stats
    /\ \A m, n \in DOMAIN tools : tools[m] = tools[n] => m = n
    /\ DOMAIN executing = Caller
    /\ \A c \in Busy : executing[c].tool \in DOMAIN stats
    /\ SumFunctionOnSet(Column("total"), DOMAIN tools) + Cardinality(Busy) \leq callCount

----------------------------------------------------------------------------
(* recordCall                                                              *)

LEMMA ProductGrows ==
    ASSUME NEW n \in Nat, NEW a \in Nat, NEW b \in Nat, NEW d \in Nat, a \leq b, d \leq b
    PROVE  n * a \in Nat /\ (n + 1) * b \in Nat /\ n * a + d \leq (n + 1) * b
<1>1. PICK k \in Nat : b = a + k
  <2>1. b - a \in Nat /\ b = a + (b - a)
    OBVIOUS
  <2> QED
    BY <2>1
<1>2. n * a \in Nat /\ n * k \in Nat
  OBVIOUS
<1>3. (n + 1) * b = n * a + n * k + b
  BY <1>1
<1> QED
  BY <1>2, <1>3

\* The average is no more than the longest call.
LEMMA AverageIsBelow ==
    ASSUME NEW s \in Nat, NEW n \in Nat \ {0}, NEW m \in Nat, s \leq n * m
    PROVE  s \div n \in Nat /\ s \div n \leq m
<1>1. /\ s \div n \in Nat
      /\ n * (s \div n) \leq s
  OBVIOUS
<1>2. ASSUME s \div n > m PROVE FALSE
  <2>1. PICK k \in Nat : s \div n = m + 1 + k
    <3>1. s \div n - m - 1 \in Nat /\ s \div n = m + 1 + (s \div n - m - 1)
      BY <1>1, <1>2
    <3> QED
      BY <3>1
  <2>2. n * (m + 1 + k) = n * m + n + n * k /\ n * m \in Nat /\ n * k \in Nat
    OBVIOUS
  <2> QED
    BY <1>1, <2>1, <2>2
<1> QED
  BY <1>1, <1>2

LEMMA RecordFits ==
    ASSUME NEW s, FiguresFit(s), NEW ok \in BOOLEAN, NEW d \in Nat
    PROVE  FiguresFit(RecordCall(s, ok, d)) /\ RecordCall(s, ok, d).total = s.total + 1
<1> DEFINE r == RecordCall(s, ok, d)
           longest == IF d > s.max THEN d ELSE s.max
<1>1. /\ s.total \in Nat /\ s.ok \in Nat /\ s.failed \in Nat /\ s.sum \in Nat
      /\ s.average \in Nat /\ s.min \in Nat /\ s.max \in Nat
      /\ s.total = s.ok + s.failed /\ s.sum \leq s.total * s.max /\ s.min \leq s.max
  BY DEF FiguresFit, CallStats
<1>2. longest \in Nat /\ s.max \leq longest /\ d \leq longest
  BY <1>1
<1>3. s.sum + d \leq (s.total + 1) * longest
  <2> HIDE DEF longest
  <2>1. s.total * s.max \in Nat /\ (s.total + 1) * longest \in Nat
        /\ s.total * s.max + d \leq (s.total + 1) * longest
    BY <1>1, <1>2, ProductGrows
  <2> QED
    BY <1>1, <2>1
<1>4. (s.sum + d) \div (s.total + 1) \in Nat /\ (s.sum + d) \div (s.total + 1) \leq longest
  <2> HIDE DEF longest
  <2>1. s.sum + d \in Nat /\ s.total + 1 \in Nat \ {0}
    BY <1>1
  <2> QED
    BY <1>2, <1>3, <2>1, AverageIsBelow
<1>5. /\ r.total = s.total + 1 /\ r.ok = s.ok + (IF ok THEN 1 ELSE 0)
      /\ r.failed = s.failed + (IF ok THEN 0 ELSE 1)
      /\ r.sum = s.sum + d /\ r.average = (s.sum + d) \div (s.total + 1)
      /\ r.min = (IF s.min = 0 \/ d < s.min THEN d ELSE s.min)
      /\ r.max = longest
  BY DEF RecordCall
<1>6. r.min \in Nat /\ r.min \leq r.max
  <2> HIDE DEF r, longest
  <2>1. r.min = d \/ r.min = s.min
    BY <1>5
  <2> QED
    BY <1>1, <1>2, <1>5, <2>1
<1>7. r.total = r.ok + r.failed /\ r.ok \in Nat /\ r.failed \in Nat /\ r.total \in Nat /\ r.sum \in Nat
  <2> HIDE DEF r
  <2>1. CASE ok
    <3>1. r.ok = s.ok + 1 /\ r.failed = s.failed + 0
      BY <1>5, <2>1, Zenon
    <3> QED
      BY <1>1, <1>5, <3>1
  <2>2. CASE ~ok
    <3>1. r.ok = s.ok + 0 /\ r.failed = s.failed + 1
      BY <1>5, <2>2, Zenon
    <3> QED
      BY <1>1, <1>5, <3>1
  <2> QED
    BY <2>1, <2>2
<1>8. r \in CallStats
  <2> HIDE DEF longest
  <2>1. r = [total |-> r.total, ok |-> r.ok, failed |-> r.failed, sum |-> r.sum,
             average |-> r.average, min |-> r.min, max |-> r.max]
    BY DEF RecordCall
  <2>2. r.average \in Nat /\ r.max \in Nat
    BY <1>2, <1>4, <1>5
  <2> HIDE DEF r
  <2> QED
    BY <1>6, <1>7, <2>1, <2>2 DEF CallStats
<1>9. r.sum \leq r.total * r.max /\ r.average \leq r.max
  BY <1>3, <1>4, <1>5
<1> HIDE DEF r
<1> QED
  BY <1>5, <1>6, <1>7, <1>8, <1>9 DEF FiguresFit, r

----------------------------------------------------------------------------
(* The sums                                                                *)

LEMMA ColumnIsSummed ==
    ASSUME ToolInv
    PROVE  /\ Values(Column("total"), DOMAIN tools)
           /\ SumFunctionOnSet(Column("total"), DOMAIN tools) \in Nat
           /\ Cardinality(Busy) \in Nat
<1>1. ASSUME NEW n \in DOMAIN tools PROVE Column("total")[n] \in Nat
  <2>1. FiguresFit(stats[tools[n]]) /\ Column("total")[n] = stats[tools[n]].total
    BY DEF ToolInv, Column
  <2> QED
    BY <2>1 DEF FiguresFit, CallStats
<1>2. Values(Column("total"), DOMAIN tools)
  BY <1>1 DEF Values
<1>3. IsFiniteSet(DOMAIN tools) /\ IsFiniteSet(Busy)
  BY DEF ToolInv
<1> QED
  BY <1>2, <1>3, SumIsNatural, FS_CardinalityType

\* The names of the tools, of which createDefaultTools has twelve.
LEMMA NamesAreFinite == \A names \in SUBSET DOMAIN DefaultTool : IsFiniteSet(names)
<1>1. \A a, b, c : IsFiniteSet({a, b, c})
  <2> TAKE a, b, c
  <2>1. IsFiniteSet({a}) /\ IsFiniteSet({b}) /\ IsFiniteSet({c})
    BY FS_Singleton
  <2>2. IsFiniteSet({a} \cup {b})
    BY <2>1, FS_Union
  <2>3. IsFiniteSet(({a} \cup {b}) \cup {c})
    BY <2>1, <2>2, FS_Union
  <2>4. ({a} \cup {b}) \cup {c} = {a, b, c}
    OBVIOUS
  <2> QED
    BY <2>3, <2>4
<1> DEFINE A == {"filesystem", "search", "terminal"}
           B == {"build", "git", "lsp"}
           C == {"code_analysis", "network", "memory"}
           D == {"context", "workspace", "testing"}
<1>2. IsFiniteSet(A) /\ IsFiniteSet(B) /\ IsFiniteSet(C) /\ IsFiniteSet(D)
  BY <1>1
<1>3. DOMAIN DefaultTool = (A \cup B) \cup (C \cup D)
  BY DEF DefaultTool
<1>4. IsFiniteSet((A \cup B) \cup (C \cup D))
  <2> HIDE DEF A, B, C, D
  <2>1. IsFiniteSet(A \cup B) /\ IsFiniteSet(C \cup D)
    BY <1>2, FS_Union
  <2> QED
    BY <2>1, FS_Union
<1> QED
  BY <1>3, <1>4, FS_Subset

\* There are enough numbers for new objects.
LEMMA NumbersExist ==
    ASSUME NEW names, IsFiniteSet(names), NEW k \in Nat
    PROVE  \E f \in [names -> k + 1..k + Cardinality(names)] :
              \A m, n \in names : f[m] = f[n] => m = n
<1> DEFINE c == Cardinality(names)
<1>1. c \in Nat /\ ExistsBijection(names, 1..c)
  BY FS_CardinalityType, Fun_ExistsBijSymmetric
<1>2. PICK b \in [names -> 1..c] : \A m, n \in names : b[m] = b[n] => m = n
  BY <1>1 DEF ExistsBijection, Bijection, Injection, IsInjective
<1> HIDE DEF c
<1> DEFINE f == [n \in names |-> k + b[n]]
<1>3. f \in [names -> k + 1..k + c]
  BY <1>1, <1>2
<1>4. \A m, n \in names : f[m] = f[n] => m = n
  BY <1>1, <1>2
<1> QED
  BY <1>3, <1>4 DEF c

\* New summands that are zero, and old ones some of which go.
LEMMA SumOfNewAndOld ==
    ASSUME NEW f, NEW g, NEW S, NEW P, IsFiniteSet(S), IsFiniteSet(P), Values(f, S),
           \A x \in P : g[x] = 0, \A x \in S \ P : g[x] = f[x]
    PROVE  SumFunctionOnSet(g, S \cup P) \leq SumFunctionOnSet(f, S)
<1>1. IsFiniteSet(S \cup P) /\ IsFiniteSet(S \ P)
  BY FS_Union, FS_Subset
<1>2. Values(g, S \cup P) /\ Values(g, P) /\ P \in SUBSET (S \cup P) /\ (S \cup P) \ P = S \ P
  BY DEF Values
<1>3. SumFunctionOnSet(g, S \cup P) = SumFunctionOnSet(g, S \ P) + SumFunctionOnSet(g, P)
  BY <1>1, <1>2, SumOfParts
<1>4. SumFunctionOnSet(g, P) \in Nat /\ SumFunctionOnSet(g, P) = SumFunctionOnSet(g, P) + SumFunctionOnSet(g, P)
  BY <1>2, SumIsNatural, SumOfTwo
<1>5. SumFunctionOnSet(g, S \ P) = SumFunctionOnSet(f, S \ P)
  BY <1>1, SumOfSame
<1>6. SumFunctionOnSet(f, S \ P) \leq SumFunctionOnSet(f, S)
  BY SumOfPart
<1>7. SumFunctionOnSet(f, S \ P) \in Nat
  BY <1>1, SumIsNatural DEF Values
<1>8. SumFunctionOnSet(f, S) \in Nat
  BY SumIsNatural
<1> DEFINE whole == SumFunctionOnSet(g, S \cup P)
           stay == SumFunctionOnSet(g, S \ P)
           fresh == SumFunctionOnSet(g, P)
           stayed == SumFunctionOnSet(f, S \ P)
           before == SumFunctionOnSet(f, S)
<1>9. /\ whole = stay + fresh /\ fresh \in Nat /\ fresh = fresh + fresh
      /\ stay = stayed /\ stayed \leq before /\ stayed \in Nat /\ before \in Nat
  BY <1>3, <1>4, <1>5, <1>6, <1>7, <1>8
<1> HIDE DEF whole, stay, fresh, stayed, before
<1>10. whole \leq before
  BY <1>9
<1> QED
  BY <1>10 DEF whole, before

\* What is kept of the figures of the objects.
LEMMA KeptFacts ==
    ASSUME NEW ss, NEW ts, NEW ex
    PROVE  /\ DOMAIN Kept(ss, ts, ex) \subseteq DOMAIN ss
           /\ \A i \in DOMAIN Kept(ss, ts, ex) : Kept(ss, ts, ex)[i] = ss[i]
           /\ \A n \in DOMAIN ts : ts[n] \in DOMAIN ss => ts[n] \in DOMAIN Kept(ss, ts, ex)
           /\ \A c \in Caller : ex[c] # NoCall /\ ex[c].tool \in DOMAIN ss =>
                 ex[c].tool \in DOMAIN Kept(ss, ts, ex)
BY DEF Kept, Referred

\* A step that keeps ToolInv: new names for new objects, and no more calls
\* counted or under way than were begun.
LEMMA RegistryKept ==
    ASSUME ToolInv, NEW names \in SUBSET DOMAIN DefaultTool, Register(names)
    PROVE  ToolInv'
<1> DEFINE k == Cardinality(names)
<1>1. IsFiniteSet(names) /\ k \in Nat /\ toolCount \in Nat
  BY NamesAreFinite, FS_CardinalityType DEF ToolInv
<1>2. PICK number \in [names -> toolCount + 1..toolCount + k] :
        /\ \A m, n \in names : number[m] = number[n] => m = n
        /\ tools' = [n \in DOMAIN tools \cup names |-> IF n \in names THEN number[n] ELSE tools[n]]
        /\ stats' = Kept([i \in DOMAIN stats \cup {number[n] : n \in names} |->
                            IF i \in DOMAIN stats THEN stats[i] ELSE NewStats], tools', executing)
        /\ toolCount' = toolCount + k
        /\ UNCHANGED <<injected, executing, callCount>>
  <2> DEFINE number == CHOOSE f \in [names -> toolCount + 1..toolCount + k] :
                         \A m, n \in names : f[m] = f[n] => m = n
  <2>1. /\ number \in [names -> toolCount + 1..toolCount + k]
        /\ \A m, n \in names : number[m] = number[n] => m = n
    BY <1>1, NumbersExist
  <2>2. /\ tools' = [n \in DOMAIN tools \cup names |-> IF n \in names THEN number[n] ELSE tools[n]]
        /\ stats' = Kept([i \in DOMAIN stats \cup {number[n] : n \in names} |->
                            IF i \in DOMAIN stats THEN stats[i] ELSE NewStats], tools', executing)
        /\ toolCount' = toolCount + k
        /\ UNCHANGED <<injected, executing, callCount>>
    BY DEF Register
  <2> HIDE DEF number, k
  <2> QED
    BY <2>1, <2>2
<1> HIDE DEF k
<1> DEFINE all == [i \in DOMAIN stats \cup {number[n] : n \in names} |->
                     IF i \in DOMAIN stats THEN stats[i] ELSE NewStats]
<1>3. /\ DOMAIN all = DOMAIN stats \cup {number[n] : n \in names}
      /\ \A i \in DOMAIN stats : all[i] = stats[i]
      /\ \A n \in names : number[n] \in toolCount + 1..toolCount + k /\ all[number[n]] = NewStats
  <2>1. \A n \in names : number[n] \in toolCount + 1..toolCount + k /\ number[n] \notin DOMAIN stats
    BY <1>1, <1>2 DEF ToolInv
  <2> QED
    BY <2>1
<1>4. /\ DOMAIN tools' = DOMAIN tools \cup names
      /\ \A n \in names : tools'[n] = number[n]
      /\ \A n \in DOMAIN tools \ names : tools'[n] = tools[n]
  BY <1>2
<1>5. stats' = Kept(all, tools', executing)
  BY <1>2
<1> HIDE DEF all
<1>6. /\ DOMAIN stats' \subseteq DOMAIN all
      /\ \A i \in DOMAIN stats' : stats'[i] = all[i]
      /\ \A n \in DOMAIN tools' : tools'[n] \in DOMAIN all => tools'[n] \in DOMAIN stats'
      /\ \A c \in Caller : executing[c] # NoCall /\ executing[c].tool \in DOMAIN all =>
            executing[c].tool \in DOMAIN stats'
  BY <1>5, KeptFacts
<1>7. FiguresFit(NewStats) /\ NewStats.total = 0
  BY DEF NewStats, FiguresFit, CallStats
<1>8. /\ \A i \in DOMAIN all : i \in 1..toolCount' /\ FiguresFit(all[i])
      /\ toolCount' \in Nat
  <2>1. \A i \in DOMAIN stats : i \in 1..toolCount /\ FiguresFit(stats[i])
    BY DEF ToolInv
  <2> QED
    BY <1>1, <1>2, <1>3, <1>7, <2>1
<1>9. ASSUME NEW n \in DOMAIN tools'
      PROVE  tools'[n] \in DOMAIN all /\ tools'[n] \in DOMAIN stats'
  <2>1. tools'[n] \in DOMAIN all
    BY <1>3, <1>4 DEF ToolInv
  <2> QED
    BY <1>6, <2>1
<1>10. ASSUME NEW m \in DOMAIN tools', NEW n \in DOMAIN tools', tools'[m] = tools'[n]
       PROVE  m = n
  <2>1. \A x \in DOMAIN tools : tools[x] \in 1..toolCount
    BY DEF ToolInv
  <2>2. \A x \in DOMAIN tools \ names : tools'[x] \in 1..toolCount
    BY <1>4, <2>1
  <2>3. \A x \in names : tools'[x] \in toolCount + 1..toolCount + k
    BY <1>3, <1>4
  <2>4. CASE m \in names /\ n \in names
    BY <1>2, <1>4, <1>10, <2>4
  <2>5. CASE m \notin names /\ n \notin names
    BY <1>4, <1>10, <2>5 DEF ToolInv
  <2>6. CASE (m \in names /\ n \notin names) \/ (m \notin names /\ n \in names)
    BY <1>1, <1>4, <1>10, <2>2, <2>3, <2>6
  <2> QED
    BY <2>4, <2>5, <2>6
<1>11. Busy' = Busy /\ IsFiniteSet(Busy) /\ Cardinality(Busy) \in Nat
  BY <1>2, FS_CardinalityType DEF Busy, ToolInv
<1>12. IsFiniteSet(DOMAIN tools')
  <2>1. IsFiniteSet(DOMAIN tools)
    BY DEF ToolInv
  <2>2. IsFiniteSet(DOMAIN tools \cup names)
    BY <1>1, <2>1, FS_Union
  <2> QED
    BY <1>4, <2>2, Zenon
<1> DEFINE past == DOMAIN tools \ names
<1>13. /\ \A n \in names : Column("total")'[n] = 0
       /\ \A n \in past : Column("total")'[n] = Column("total")[n]
  <2>1. ASSUME NEW n \in names PROVE Column("total")'[n] = 0
    <3>1. n \in DOMAIN tools' /\ stats'[tools'[n]] = NewStats
      BY <1>3, <1>4, <1>6, <1>9
    <3> QED
      BY <3>1, <1>7 DEF Column
  <2>2. ASSUME NEW n \in past PROVE Column("total")'[n] = Column("total")[n]
    <3>1. n \in DOMAIN tools' /\ n \in DOMAIN tools /\ stats'[tools'[n]] = stats[tools[n]]
      BY <1>3, <1>4, <1>6, <1>9 DEF ToolInv
    <3> QED
      BY <3>1 DEF Column
  <2> QED
    BY <2>1, <2>2
<1>14. SumFunctionOnSet(Column("total")', DOMAIN tools')
         \leq SumFunctionOnSet(Column("total"), DOMAIN tools)
  BY <1>1, <1>4, <1>12, <1>13, ColumnIsSummed, SumOfNewAndOld DEF ToolInv
<1>15. SumFunctionOnSet(Column("total")', DOMAIN tools') \in Nat
  BY <1>12, <1>13, <1>4, SumIsNatural, ColumnIsSummed DEF Values
<1>16. SumFunctionOnSet(Column("total")', DOMAIN tools') + Cardinality(Busy') \leq callCount'
  BY <1>2, <1>11, <1>14, <1>15, ColumnIsSummed DEF ToolInv
<1>17. \A i \in DOMAIN stats' : i \in 1..toolCount' /\ FiguresFit(stats'[i])
  BY <1>6, <1>8
<1>18. \A c \in Busy' : executing'[c].tool \in DOMAIN stats'
  BY <1>2, <1>3, <1>6, <1>11 DEF Busy, ToolInv
<1>19. DOMAIN executing' = Caller /\ callCount' \in Nat /\ IsFiniteSet(Busy')
  BY <1>2, <1>11 DEF ToolInv
<1>20. ASSUME NEW m \in DOMAIN tools', NEW n \in DOMAIN tools', tools'[m] = tools'[n]
       PROVE  m = n
  BY <1>10, <1>20
<1> QED
  BY <1>8, <1>9, <1>12, <1>16, <1>17, <1>18, <1>19, <1>20 DEF ToolInv

\* A step that registers nothing: what is kept of the names keeps its object,
\* and what is counted now was under way before.
LEMMA CallsKept ==
    ASSUME ToolInv, NEW counted,
           tools' = tools \/ \E names : tools' = Drop(tools, names),
           stats' = Kept(counted, tools', executing'),
           DOMAIN counted = DOMAIN stats, \A i \in DOMAIN stats : FiguresFit(counted[i]),
           toolCount' = toolCount, callCount' \in Nat, DOMAIN executing' = Caller,
           IsFiniteSet(Busy'), \A c \in Busy' : executing'[c].tool \in DOMAIN stats,
           SumFunctionOnSet([n \in DOMAIN tools |-> counted[tools[n]].total], DOMAIN tools)
             + Cardinality(Busy') \leq callCount'
    PROVE  ToolInv'
<1>1. /\ DOMAIN tools' \in SUBSET DOMAIN tools
      /\ \A n \in DOMAIN tools' : tools'[n] = tools[n]
  BY DEF Drop
<1>2. /\ DOMAIN stats' \subseteq DOMAIN counted
      /\ \A i \in DOMAIN stats' : stats'[i] = counted[i]
      /\ \A n \in DOMAIN tools' : tools'[n] \in DOMAIN counted => tools'[n] \in DOMAIN stats'
      /\ \A c \in Caller : executing'[c] # NoCall /\ executing'[c].tool \in DOMAIN counted =>
            executing'[c].tool \in DOMAIN stats'
  BY KeptFacts
<1>3. \A i \in DOMAIN stats' : i \in 1..toolCount' /\ FiguresFit(stats'[i])
  BY <1>2 DEF ToolInv
<1>4. \A n \in DOMAIN tools' : tools'[n] \in DOMAIN stats'
  BY <1>1, <1>2 DEF ToolInv
<1>5. ASSUME NEW m \in DOMAIN tools', NEW n \in DOMAIN tools', tools'[m] = tools'[n]
      PROVE  m = n
  BY <1>1, <1>5 DEF ToolInv
<1>6. IsFiniteSet(DOMAIN tools) /\ IsFiniteSet(DOMAIN tools')
  BY <1>1, FS_Subset DEF ToolInv
<1>7. \A c \in Busy' : executing'[c].tool \in DOMAIN stats'
  BY <1>2 DEF Busy
<1> DEFINE f == [n \in DOMAIN tools |-> counted[tools[n]].total]
<1>8. Values(f, DOMAIN tools)
  <2>1. \A n \in DOMAIN tools : f[n] \in Nat
    BY DEF ToolInv, FiguresFit, CallStats
  <2> QED
    BY <2>1 DEF Values
<1>9. \A n \in DOMAIN tools' : Column("total")'[n] = f[n]
  BY <1>1, <1>2, <1>4 DEF Column
<1> HIDE DEF f
<1>10. /\ SumFunctionOnSet(Column("total")', DOMAIN tools') = SumFunctionOnSet(f, DOMAIN tools')
       /\ SumFunctionOnSet(f, DOMAIN tools') \leq SumFunctionOnSet(f, DOMAIN tools)
  BY <1>1, <1>6, <1>8, <1>9, SumOfSame, SumOfPart
<1>11. /\ SumFunctionOnSet(f, DOMAIN tools') \in Nat /\ SumFunctionOnSet(f, DOMAIN tools) \in Nat
       /\ Cardinality(Busy') \in Nat
  BY <1>1, <1>6, <1>8, SumIsNatural, FS_CardinalityType DEF Values
<1>12. SumFunctionOnSet(Column("total")', DOMAIN tools') + Cardinality(Busy') \leq callCount'
  <2>1. SumFunctionOnSet(f, DOMAIN tools) + Cardinality(Busy') \leq callCount'
    BY DEF f
  <2> QED
    BY <1>10, <1>11, <2>1
<1>13. toolCount' \in Nat
  BY DEF ToolInv
<1> QED
  BY <1>3, <1>4, <1>5, <1>6, <1>7, <1>12, <1>13 DEF ToolInv

\* One tool has counted one call more.
LEMMA SumOfOneCounted ==
    ASSUME NEW f, NEW g, NEW S, NEW y \in S, IsFiniteSet(S), Values(f, S),
           g[y] = f[y] + 1, \A x \in S \ {y} : g[x] = f[x]
    PROVE  SumFunctionOnSet(g, S) = SumFunctionOnSet(f, S) + 1
<1> DEFINE T == S \ {y}
<1>1. IsFiniteSet(T) /\ Values(g, S) /\ Values(f, T) /\ f[y] \in Nat
  BY FS_Subset DEF Values
<1>2. /\ SumFunctionOnSet(g, S) = SumFunctionOnSet(g, T) + g[y]
      /\ SumFunctionOnSet(f, S) = SumFunctionOnSet(f, T) + f[y]
  BY <1>1, SumWithout
<1>3. SumFunctionOnSet(g, T) = SumFunctionOnSet(f, T) /\ SumFunctionOnSet(f, T) \in Nat
  BY <1>1, SumOfSame, SumIsNatural
<1> HIDE DEF T
<1> QED
  BY <1>1, <1>2, <1>3

LEMMA EndCallKeeps ==
    ASSUME ToolInv, NEW c \in Caller, NEW d \in Nat, EndCall(c, d)
    PROVE  ToolInv'
<1> DEFINE i == executing[c].tool
           ok == executing[c].answer = "ok"
           counts == executing[c].answer # "uncounted"
           counted == IF counts THEN [stats EXCEPT ![i] = RecordCall(@, ok, d)] ELSE stats
           f == [n \in DOMAIN tools |-> counted[tools[n]].total]
           S == DOMAIN tools
<1>1. /\ executing[c] # NoCall
      /\ executing' = [executing EXCEPT ![c] = NoCall]
      /\ stats' = Kept(counted, tools', executing')
      /\ UNCHANGED <<injected, tools, callCount, toolCount>>
  BY DEF EndCall
<1>2. Busy' = Busy \ {c} /\ c \in Busy /\ i \in DOMAIN stats /\ DOMAIN executing' = Caller
      /\ \A e \in Busy' : executing'[e].tool \in DOMAIN stats
  BY <1>1 DEF Busy, ToolInv
<1>3. /\ IsFiniteSet(Busy') /\ Cardinality(Busy') = Cardinality(Busy) - 1
      /\ Cardinality(Busy) \in Nat
  BY <1>2, FS_RemoveElement, FS_CardinalityType DEF ToolInv
<1>4. /\ DOMAIN counted = DOMAIN stats
      /\ \A j \in DOMAIN stats \ {i} : counted[j] = stats[j]
      /\ counts => counted[i] = RecordCall(stats[i], ok, d)
      /\ ~counts => counted[i] = stats[i]
  BY <1>2
<1>5. FiguresFit(stats[i]) /\ ok \in BOOLEAN
  BY <1>2 DEF ToolInv
<1>6. FiguresFit(RecordCall(stats[i], ok, d)) /\ RecordCall(stats[i], ok, d).total = stats[i].total + 1
  <2> HIDE DEF i, ok
  <2> QED
    BY <1>5, RecordFits
<1> HIDE DEF counted, counts, ok
<1>7. \A j \in DOMAIN stats : FiguresFit(counted[j])
  BY <1>4, <1>5, <1>6 DEF ToolInv
<1>8. IsFiniteSet(S) /\ Values(Column("total"), S) /\ SumFunctionOnSet(Column("total"), S) \in Nat
      /\ SumFunctionOnSet(Column("total"), S) + Cardinality(Busy) \leq callCount /\ callCount \in Nat
  BY ColumnIsSummed DEF ToolInv
<1>9. SumFunctionOnSet(f, S) \leq SumFunctionOnSet(Column("total"), S) + 1
      /\ SumFunctionOnSet(f, S) \in Nat
  <2>1. CASE counts /\ \E n \in S : tools[n] = i
    <3>1. PICK n \in S : tools[n] = i
      BY <2>1
    <3>2. \A x \in S \ {n} : tools[x] # i /\ tools[x] \in DOMAIN stats
      BY <3>1 DEF ToolInv
    <3>3. f[n] = Column("total")[n] + 1 /\ \A x \in S \ {n} : f[x] = Column("total")[x]
      BY <1>4, <1>6, <2>1, <3>1, <3>2 DEF Column
    <3> HIDE DEF f, S
    <3>4. SumFunctionOnSet(f, S) = SumFunctionOnSet(Column("total"), S) + 1
      BY <1>8, <3>3, SumOfOneCounted
    <3> QED
      BY <1>8, <3>4
  <2>2. CASE ~counts \/ \A n \in S : tools[n] # i
    <3>1. \A x \in S : f[x] = Column("total")[x]
      BY <1>4, <2>2 DEF Column, ToolInv
    <3> HIDE DEF f, S
    <3>2. SumFunctionOnSet(f, S) = SumFunctionOnSet(Column("total"), S)
      BY <1>8, <3>1, SumOfSame
    <3> QED
      BY <1>8, <3>2
  <2> QED
    BY <2>1, <2>2
<1>10. SumFunctionOnSet(f, S) + Cardinality(Busy') \leq callCount'
  <2> HIDE DEF f, S
  <2> QED
    BY <1>1, <1>3, <1>8, <1>9
<1>11. callCount' \in Nat /\ toolCount' = toolCount /\ tools' = tools
  BY <1>1, <1>8
<1> HIDE DEF i
<1> QED
  BY <1>1, <1>2, <1>3, <1>4, <1>7, <1>10, <1>11, CallsKept

\* The figures as they are.
LEMMA ColumnIs ==
    Column("total") = [n \in DOMAIN tools |-> stats[tools[n]].total]
BY DEF Column

LEMMA ForgetToolKeeps ==
    ASSUME ToolInv, NEW names, Forget(names)
    PROVE  ToolInv'
<1>1. /\ tools' = Drop(tools, names)
      /\ stats' = Kept(stats, tools', executing')
      /\ toolCount' = toolCount /\ callCount' = callCount /\ executing' = executing
  BY DEF Forget
<1>2. Busy' = Busy
  BY <1>1 DEF Busy
<1>3. /\ callCount' \in Nat /\ DOMAIN executing' = Caller /\ IsFiniteSet(Busy')
      /\ \A c \in Busy' : executing'[c].tool \in DOMAIN stats
      /\ \A i \in DOMAIN stats : FiguresFit(stats[i])
  BY <1>1, <1>2 DEF ToolInv
<1>4. SumFunctionOnSet([n \in DOMAIN tools |-> stats[tools[n]].total], DOMAIN tools)
        + Cardinality(Busy') \leq callCount'
  BY <1>1, <1>2, ColumnIs DEF ToolInv
<1> QED
  BY <1>1, <1>3, <1>4, CallsKept

LEMMA EnterKeeps ==
    ASSUME ToolInv, NEW c \in Caller, NEW name, NEW op, NEW given, Enter(c, name, op, given)
    PROVE  ToolInv'
<1>1. PICK reply \in Answers(name, op, given) :
        executing' = [executing EXCEPT ![c] = [tool |-> tools[name], answer |-> reply]]
  BY DEF Enter
<1>2. /\ executing[c] = NoCall /\ name \in DOMAIN tools /\ callCount' = callCount + 1
      /\ UNCHANGED <<injected, tools, stats, toolCount>>
  BY DEF Enter
<1>3. /\ Busy' \in SUBSET (Busy \cup {c}) /\ DOMAIN executing' = Caller
      /\ \A e \in Busy' : executing'[e].tool \in DOMAIN stats
  BY <1>1, <1>2 DEF Busy, ToolInv
<1>4. /\ IsFiniteSet(Busy') /\ Cardinality(Busy') \leq Cardinality(Busy) + 1
      /\ Cardinality(Busy') \in Nat /\ Cardinality(Busy) \in Nat
  <2>1. IsFiniteSet(Busy)
    BY DEF ToolInv
  <2>2. IsFiniteSet(Busy \cup {c}) /\ Cardinality(Busy) \in Nat
        /\ Cardinality(Busy \cup {c}) \leq Cardinality(Busy) + 1
    <3>1. Cardinality(Busy) \in Nat
      BY <2>1, FS_CardinalityType
    <3>2. IsFiniteSet(Busy \cup {c})
          /\ Cardinality(Busy \cup {c}) = IF c \in Busy THEN Cardinality(Busy) ELSE Cardinality(Busy) + 1
      BY <2>1, FS_AddElement
    <3> QED
      BY <3>1, <3>2
  <2>3. IsFiniteSet(Busy') /\ Cardinality(Busy') \leq Cardinality(Busy \cup {c})
    BY <1>3, <2>2, FS_Subset
  <2>4. Cardinality(Busy') \in Nat /\ Cardinality(Busy \cup {c}) \in Nat
    BY <2>2, <2>3, FS_CardinalityType
  <2> QED
    BY <2>2, <2>3, <2>4
<1>5. Column("total")' = Column("total")
  BY <1>2 DEF Column
<1>6. SumFunctionOnSet(Column("total"), DOMAIN tools) + Cardinality(Busy') \leq callCount'
      /\ callCount' \in Nat
  BY <1>2, <1>4, ColumnIsSummed DEF ToolInv
<1> QED
  BY <1>2, <1>3, <1>4, <1>5, <1>6 DEF ToolInv

\* What getStats tells of a tool, and the totals of the registry, fit together
\* for any number of threads, calls, durations and replacements of tools.
THEOREM StatsAddUpHolds == toolSpec => []StatsAddUp
<1>1. toolInit => ToolInv
  <2> SUFFICES ASSUME toolInit PROVE ToolInv
    OBVIOUS
  <2>1. DOMAIN tools = {} /\ DOMAIN stats = {} /\ Busy = {} /\ DOMAIN executing = Caller
    BY DEF toolInit, Busy
  <2>2. toolCount = 0 /\ callCount = 0
    BY DEF toolInit
  <2>3. SumFunctionOnSet(Column("total"), {}) = 0 /\ IsFiniteSet({}) /\ Cardinality({}) = 0
    BY SumOfNone, FS_EmptySet
  <2>4. /\ SumFunctionOnSet(Column("total"), DOMAIN tools) = 0
        /\ IsFiniteSet(DOMAIN tools) /\ IsFiniteSet(Busy) /\ Cardinality(Busy) = 0
    BY <2>1, <2>3, Zenon
  <2> QED
    BY <2>1, <2>2, <2>4 DEF ToolInv
<1>2. ToolInv /\ [toolNext]_toolVars => ToolInv'
  <2> SUFFICES ASSUME ToolInv, [toolNext]_toolVars PROVE ToolInv'
    OBVIOUS
  <2>1. CASE UNCHANGED <<tools, stats, executing, callCount, toolCount>>
    <3>1. Busy' = Busy /\ Column("total")' = Column("total")
      BY <2>1 DEF Busy, Column
    <3> QED
      BY <2>1, <3>1 DEF ToolInv
  <2>2. CASE \E d \in Provided : Inject(d)
    BY <2>1, <2>2 DEF Inject
  <2>3. CASE \E n \in DOMAIN DefaultTool : RegisterTool(n) \/ UnregisterTool(n)
    BY <2>3, RegistryKept, ForgetToolKeeps DEF RegisterTool, UnregisterTool
  <2>4. CASE InitializeTools
    <3> DEFINE names == {n \in DOMAIN DefaultTool : Wants(n) \in injected \cup {"nothing"}}
    <3>1. names \in SUBSET DOMAIN DefaultTool /\ Register(names)
      BY <2>4 DEF InitializeTools
    <3> HIDE DEF names
    <3> QED
      BY <3>1, RegistryKept
  <2>5. CASE ShutdownTools
    BY <2>5, ForgetToolKeeps DEF ShutdownTools
  <2>6. ASSUME NEW c \in Caller, NEW n, NEW op, NEW given,
               ExecuteTool(c, n, op, given) \/ \E granted : ExecuteWithPermission(c, n, op, given, granted)
        PROVE  ToolInv'
    BY <2>6, EnterKeeps DEF ExecuteTool, ExecuteWithPermission
  <2>7. CASE \E c \in Caller, d \in Duration : EndCall(c, d)
    BY <2>7, EndCallKeeps, ToolAssumption
  <2> QED
    BY <2>1, <2>2, <2>3, <2>4, <2>5, <2>6, <2>7 DEF toolNext, toolVars
<1>3. ToolInv => StatsAddUp
  <2> SUFFICES ASSUME ToolInv PROVE StatsAddUp
    OBVIOUS
  <2>1. \A i \in DOMAIN stats : /\ stats[i].total = stats[i].ok + stats[i].failed
                                /\ stats[i].average \leq stats[i].max /\ stats[i].min \leq stats[i].max
    BY DEF ToolInv, FiguresFit
  <2>2. IsFiniteSet(DOMAIN tools)
    BY DEF ToolInv
  <2>3. ASSUME NEW n \in DOMAIN tools
        PROVE  /\ Column("ok")[n] \in Nat /\ Column("failed")[n] \in Nat
               /\ Column("total")[n] = Column("ok")[n] + Column("failed")[n]
    <3>1. FiguresFit(stats[tools[n]])
      BY DEF ToolInv
    <3> QED
      BY <3>1 DEF FiguresFit, CallStats, Column
  <2>4. Values(Column("ok"), DOMAIN tools) /\ Values(Column("failed"), DOMAIN tools)
    BY <2>3 DEF Values
  <2>5. SumFunctionOnSet(Column("total"), DOMAIN tools) =
          SumFunctionOnSet(Column("ok"), DOMAIN tools) + SumFunctionOnSet(Column("failed"), DOMAIN tools)
    BY <2>2, <2>3, <2>4, SumOfTwo
  <2>6. \A field : Sum(field) = SumFunctionOnSet(Column(field), DOMAIN tools)
    <3>1. \A field : DOMAIN Column(field) = DOMAIN tools
      BY DEF Column
    <3> QED
      BY <3>1 DEF Sum, SumFunction
  <2>7. SumFunctionOnSet(Column("total"), DOMAIN tools) \leq callCount
    <3>1. SumFunctionOnSet(Column("total"), DOMAIN tools) + Cardinality(Busy) \leq callCount /\ callCount \in Nat
      BY DEF ToolInv
    <3> QED
      BY <3>1, ColumnIsSummed
  <2> QED
    BY <2>1, <2>5, <2>6, <2>7 DEF StatsAddUp
<1> QED
  BY <1>1, <1>2, <1>3, PTL DEF toolSpec

----------------------------------------------------------------------------
(* A session, from the command line to its file and back                   *)

\* What parseFlags has of a line.
Parses(T) == [args : Seq(T), flag : BOOLEAN]

LEMMA ParsedIsTyped ==
    ASSUME NEW T, NEW a \in Parses(T), NEW tok \in T PROVE Parsed(a, tok) \in Parses(T)
<1>1. CASE tok = "-f"
  BY <1>1 DEF Parsed, Parses
<1>2. CASE tok # "-f" /\ a.flag
  BY <1>2 DEF Parsed, Parses
<1>3. CASE tok # "-f" /\ ~a.flag
  <2>1. a.args \in Seq(T)
    BY DEF Parses
  <2>2. Append(a.args, tok) \in Seq(T)
    BY <2>1
  <2>3. Parsed(a, tok) = [a EXCEPT !.args = Append(a.args, tok)]
    BY <1>3 DEF Parsed
  <2> QED
    BY <2>2, <2>3 DEF Parses
<1> QED
  BY <1>1, <1>2, <1>3

\* parseFlags, token by token.
LEMMA ParsedAlong ==
    ASSUME NEW T, NEW tokens \in Seq(T)
    PROVE  \E r : /\ r \in [0..Len(tokens) -> Parses(T)] /\ r[0] = [args |-> <<>>, flag |-> FALSE]
                  /\ \A n \in 1..Len(tokens) : r[n] = Parsed(r[n - 1], tokens[n])
                  /\ FoldLeft(Parsed, [args |-> <<>>, flag |-> FALSE], tokens) = r[Len(tokens)]
<1> DEFINE N == Len(tokens)
           V == Parses(T)
           s == [args |-> <<>>, flag |-> FALSE]
           Goes(a, v) == Parsed(a, v)
           Is(h) == h = [S \in SUBSET (1..N) |-> IF S = {} THEN s
                                                  ELSE Goes(h[S \ {Max(S)}], tokens[Max(S)])]
           F == CHOOSE h : Is(h)
           step == [i \in 1..N |-> [a \in V |-> Goes(a, tokens[i])]]
<1>1. N \in Nat /\ DOMAIN tokens = 1..N /\ \A i \in 1..N : tokens[i] \in T
  OBVIOUS
<1>2. s \in V
  BY DEF Parses
<1>3. \A a \in V : \A i \in 1..N : Goes(a, tokens[i]) \in V
  <2>1. ASSUME NEW a \in V, NEW i \in 1..N PROVE Goes(a, tokens[i]) \in V
    <3>1. tokens[i] \in T
      BY <1>1
    <3> QED
      BY <3>1, ParsedIsTyped
  <2> QED
    BY <2>1
<1>4. FoldLeft(Parsed, [args |-> <<>>, flag |-> FALSE], tokens) = F[1..N]
  <2>1. FoldLeft(Parsed, [args |-> <<>>, flag |-> FALSE], tokens) =
          (CHOOSE h : h = [S \in SUBSET DOMAIN tokens |-> IF S = {} THEN s
                              ELSE Goes(h[S \ {Max(S)}], tokens[Max(S)])])[DOMAIN tokens]
    BY DEF FoldLeft, MapThenFoldSet
  <2> HIDE DEF Goes, N
  <2> QED
    BY <1>1, <2>1
<1> HIDE DEF Goes, N, V, s
<1>5. step \in [1..N -> [V -> V]]
  BY <1>3
<1>6. PICK h \in [SUBSET (1..N) -> V] : FoldOf(h, s, N, step)
  <2> HIDE DEF step
  <2> QED
    BY <1>1, <1>2, <1>5, FoldsExist
<1>7. \A S \in SUBSET (1..N) : S # {} => Max(S) \in 1..N
  BY <1>1, MaxIsIn
<1>8. Is(h)
  <2>1. ASSUME NEW S \in SUBSET (1..N), S # {}
        PROVE  step[Max(S)][h[S \ {Max(S)}]] = Goes(h[S \ {Max(S)}], tokens[Max(S)])
    <3>1. h[S \ {Max(S)}] \in V
      BY <1>6
    <3> QED
      BY <1>7, <2>1, <3>1
  <2> HIDE DEF step
  <2> QED
    BY <1>6, <2>1 DEF FoldOf
<1>9. Is(F)
  <2> HIDE DEF Is
  <2> QED
    BY <1>8
<1> HIDE DEF F
<1>10. Folded(F, V, s, N, step)
  BY <1>7, <1>9 DEF Folded
<1>11. PICK r : Along(r, V, s, N, step) /\ F[1..N] = r[N]
  <2>1. N \in Nat
    BY <1>1
  <2> HIDE DEF step, Is
  <2> QED
    BY <2>1, <1>2, <1>5, <1>10, FoldedAlong
<1>12. ASSUME NEW n \in 1..N PROVE r[n] = Goes(r[n - 1], tokens[n])
  <2>1. r[n - 1] \in V
    BY <1>1, <1>11 DEF Along
  <2>2. r[n] = step[n][r[n - 1]]
    <3> HIDE DEF step
    <3> QED
      BY <1>11 DEF Along
  <2> QED
    BY <2>1, <2>2
<1> QED
  BY <1>4, <1>11, <1>12 DEF N, Goes, V, s, Along

\* A token that is no flag and stands first is the first argument.
LEMMA FirstArgument ==
    ASSUME NEW T, NEW tokens \in Seq(T)
    PROVE  /\ Positional(tokens) \in Seq(T)
           /\ tokens # <<>> /\ tokens[1] # "-f" =>
                Positional(tokens) # <<>> /\ Positional(tokens)[1] = tokens[1]
<1> DEFINE N == Len(tokens)
<1>1. PICK r : /\ r \in [0..N -> Parses(T)] /\ r[0] = [args |-> <<>>, flag |-> FALSE]
               /\ \A n \in 1..N : r[n] = Parsed(r[n - 1], tokens[n])
               /\ FoldLeft(Parsed, [args |-> <<>>, flag |-> FALSE], tokens) = r[N]
  BY ParsedAlong
<1>2. N \in Nat /\ \A n \in 1..N : tokens[n] \in T
  OBVIOUS
<1>3. Positional(tokens) = r[N].args
  BY <1>1 DEF Positional
<1>4. r[N] \in Parses(T)
  BY <1>1, <1>2
<1>5. Positional(tokens) \in Seq(T)
  BY <1>3, <1>4 DEF Parses
<1>6. ASSUME tokens # <<>>, tokens[1] # "-f"
      PROVE  Positional(tokens) # <<>> /\ Positional(tokens)[1] = tokens[1]
  <2> DEFINE P == {n \in 0..N : n = 0 \/ (r[n].args # <<>> /\ r[n].args[1] = tokens[1])}
  <2>1. 1 \in 1..N
    BY <1>2, <1>6
  <2>2. 0 \in P
    BY <1>2
  <2>3. ASSUME NEW n \in 1..N, n - 1 \in P PROVE n \in P
    <3>1. n - 1 \in 0..N /\ n \in 0..N /\ r[n] = Parsed(r[n - 1], tokens[n]) /\ r[n - 1] \in Parses(T)
      BY <1>1, <1>2
    <3>2. CASE n = 1
      <4>0. r[0].args = <<>> /\ ~r[0].flag
        BY <1>1
      <4>1. r[1] = Parsed(r[0], tokens[1]) /\ r[0].args = <<>> /\ ~r[0].flag
        <5>1. n - 1 = 0
          BY <3>2
        <5> QED
          BY <3>1, <3>2, <4>0, <5>1
      <4>2. Parsed(r[0], tokens[1]) = [r[0] EXCEPT !.args = Append(r[0].args, tokens[1])]
        BY <1>6, <4>1 DEF Parsed
      <4>3. r[0] \in Parses(T)
        <5>1. 0 \in 0..N
          BY <1>2
        <5> QED
          BY <1>1, <5>1
      <4>4. r[1].args = Append(r[0].args, tokens[1])
        BY <4>1, <4>2, <4>3 DEF Parses
      <4>5. r[1].args = <<tokens[1]>>
        BY <4>1, <4>4
      <4> QED
        BY <3>1, <3>2, <4>5
    <3>3. CASE n # 1
      <4> DEFINE args == r[n - 1].args
      <4>1. args # <<>> /\ args[1] = tokens[1]
        BY <2>3, <3>1, <3>3
      <4>2. args \in Seq(T)
        BY <3>1 DEF Parses
      <4>3. r[n].args = args \/ r[n].args = Append(args, tokens[n])
        BY <3>1 DEF Parsed, Parses
      <4> HIDE DEF args
      <4>4. Append(args, tokens[n]) # <<>> /\ Append(args, tokens[n])[1] = args[1]
        BY <1>2, <4>1, <4>2
      <4> QED
        BY <3>1, <4>1, <4>3, <4>4
    <3> QED
      BY <3>2, <3>3
  <2> HIDE DEF P
  <2>4. N \in P
    <3>1. \A n \in 0..N : n \in P
      BY <1>2, <2>2, <2>3, CountUp
    <3> QED
      BY <1>2, <3>1
  <2> QED
    BY <1>3, <2>1, <2>4 DEF P
<1> QED
  BY <1>5, <1>6

\* A session as the program has it.
IsSession(s) ==
    /\ s = [branch |-> s.branch, provider |-> s.provider, model |-> s.model, tokens |-> s.tokens, log |-> s.log]
    /\ s.log \in Seq(BOOLEAN)

\* The file, when it is whole, is of the last session saved.
StoredInv(file, saved) ==
    IsSession(file.of) /\ IsSession(saved) /\ (file.is = "whole" => file.of = saved)

\* What a command leaves.
Leaves(r) == IsSession(r.session) /\ StoredInv(r.file, r.saved) /\ r.ok \in BOOLEAN

LEMMA NewSessionIs == IsSession(NewSession)
BY DEF IsSession, NewSession

\* A change of one field of a session gives a session.
LEMMA ChangesOfSession ==
    ASSUME NEW s, IsSession(s), NEW x, NEW y
    PROVE  /\ IsSession([s EXCEPT !.tokens = x]) /\ IsSession([s EXCEPT !.branch = x])
           /\ IsSession([s EXCEPT !.provider = x, !.model = y])
<1>1. \E b, p, m, t, l : /\ s = [branch |-> b, provider |-> p, model |-> m, tokens |-> t, log |-> l]
                         /\ l \in Seq(BOOLEAN)
  BY DEF IsSession
<1>2. PICK b, p, m, t, l : /\ s = [branch |-> b, provider |-> p, model |-> m, tokens |-> t, log |-> l]
                           /\ l \in Seq(BOOLEAN)
  BY <1>1
<1>3. IsSession([s EXCEPT !.tokens = x])
  BY <1>2 DEF IsSession
<1>4. IsSession([s EXCEPT !.branch = x])
  BY <1>2 DEF IsSession
<1>5. IsSession([s EXCEPT !.provider = x, !.model = y])
  <2>1. [s EXCEPT !.provider = x, !.model = y] = [[s EXCEPT !.provider = x] EXCEPT !.model = y]
    BY <1>2
  <2>2. [s EXCEPT !.provider = x] = [branch |-> b, provider |-> x, model |-> m, tokens |-> t, log |-> l]
    BY <1>2
  <2> DEFINE next == [s EXCEPT !.provider = x]
  <2>3. [next EXCEPT !.model = y] = [branch |-> b, provider |-> x, model |-> y, tokens |-> t, log |-> l]
    <3> HIDE DEF next
    <3>1. next = [branch |-> b, provider |-> x, model |-> m, tokens |-> t, log |-> l]
      BY <2>2 DEF next
    <3> QED
      BY <3>1
  <2> QED
    BY <1>2, <2>1, <2>3 DEF IsSession
<1> QED
  BY <1>3, <1>4, <1>5

LEMMA JudgedLeaves ==
    ASSUME NEW s, IsSession(s), NEW accepted \in BOOLEAN, StoredInv(sessionFile, lastSaved)
    PROVE  \A r \in Judged(s, accepted) : Leaves(r) /\ r.session = s /\ r.saved = lastSaved
<1>1. Leaves(Ok(s)) /\ Ok(s).session = s /\ Ok(s).saved = lastSaved
  BY DEF Leaves, Ok
<1>2. Leaves(NotOk(s)) /\ NotOk(s).session = s /\ NotOk(s).saved = lastSaved
  BY DEF Leaves, Ok, NotOk
<1> QED
  BY <1>1, <1>2 DEF Judged

LEMMA SaveLeaves ==
    ASSUME NEW s, IsSession(s), StoredInv(sessionFile, lastSaved)
    PROVE  \A r \in SaveToFile(s) : Leaves(r)
<1>1. IsSession(NewSession)
  BY NewSessionIs
<1>2. Leaves(NotOk(s))
  BY DEF Leaves, Ok, NotOk
<1>3. StoredInv(Torn, lastSaved) /\ StoredInv(Torn, s) /\ StoredInv([is |-> "whole", of |-> s], s)
  BY <1>1 DEF StoredInv, Torn
<1>4. Leaves([NotOk(s) EXCEPT !.file = Torn])
  BY <1>3 DEF Leaves, Ok, NotOk
<1>5. ASSUME NEW f \in {[is |-> "whole", of |-> s], Torn}
      PROVE  Leaves([Ok(s) EXCEPT !.file = f, !.saved = s])
  BY <1>3 DEF Leaves, Ok
<1> QED
  BY <1>2, <1>4, <1>5 DEF SaveToFile

LEMMA SessionLeaves ==
    ASSUME NEW s, IsSession(s), NEW T, NEW args \in Seq(T), StoredInv(sessionFile, lastSaved)
    PROVE  /\ \A r \in SessionCommand(s, args) : Leaves(r)
           /\ args # <<>> /\ args[1] = "load" =>
                \A r \in SessionCommand(s, args) : r.session \in {s, lastSaved} /\ r.saved = lastSaved
<1>2. IsSession(LoadFromFile(s)) /\ LoadFromFile(s) \in {s, lastSaved}
  BY DEF LoadFromFile, StoredInv
<1>3. \A r \in Judged(LoadFromFile(s), sessionFile.is = "whole") :
         Leaves(r) /\ r.session \in {s, lastSaved} /\ r.saved = lastSaved
  BY <1>2, JudgedLeaves
<1>4. Leaves(NotOk(s)) /\ NotOk(s).session = s /\ NotOk(s).saved = lastSaved
  BY DEF Leaves, Ok, NotOk
<1>5. CASE ~Fits([save |-> 0, load |-> 1, new |-> 0, export |-> 0], args)
  BY <1>4, <1>5 DEF SessionCommand
<1>6. CASE Fits([save |-> 0, load |-> 1, new |-> 0, export |-> 0], args)
  <2>1. args[1] \in {"save", "load", "new", "export"}
    BY <1>6 DEF Fits
  <2>2. CASE args[1] = "load"
    <3>1. SessionCommand(s, args) = Judged(LoadFromFile(s), sessionFile.is = "whole")
      BY <1>6, <2>2 DEF SessionCommand
    <3> QED
      BY <1>3, <3>1
  <2>3. CASE args[1] = "new"
    <3>1. SessionCommand(s, args) = {Ok(NewSession)}
      BY <1>6, <2>3 DEF SessionCommand
    <3>2. Leaves(Ok(NewSession))
      BY NewSessionIs DEF Leaves, Ok
    <3> QED
      BY <2>3, <3>1, <3>2
  <2>4. CASE args[1] = "save"
    <3>1. SessionCommand(s, args) = SaveToFile(s)
      BY <1>6, <2>4 DEF SessionCommand
    <3> QED
      BY <2>4, <3>1, SaveLeaves
  <2>5. CASE args[1] = "export"
    <3>1. SessionCommand(s, args)
            = {[r EXCEPT !.file = sessionFile, !.saved = lastSaved] : r \in SaveToFile(s)}
      BY <1>6, <2>5 DEF SessionCommand
    <3>2. ASSUME NEW r \in SaveToFile(s)
          PROVE  Leaves([r EXCEPT !.file = sessionFile, !.saved = lastSaved])
      <4>1. DOMAIN r = {"ok", "session", "file", "saved"}
        BY DEF SaveToFile, Ok, NotOk
      <4>2. Leaves(r)
        BY SaveLeaves
      <4> QED
        BY <4>1, <4>2 DEF Leaves
    <3> QED
      BY <2>5, <3>1, <3>2
  <2> QED
    BY <2>1, <2>2, <2>3, <2>4, <2>5
<1> QED
  BY <1>5, <1>6

\* What dispatch leaves, whatever the command, and what it leaves of a load.
LEMMA DispatchLeaves ==
    ASSUME NEW s, IsSession(s), NEW word, NEW T, NEW tokens \in Seq(T), StoredInv(sessionFile, lastSaved)
    PROVE  /\ \A r \in Dispatch(s, word, tokens) : Leaves(r)
           /\ Resolved(word) = "session" /\ tokens # <<>> /\ tokens[1] = "load" =>
                \A r \in Dispatch(s, word, tokens) : r.session \in {s, lastSaved} /\ r.saved = lastSaved
<1> DEFINE name == Resolved(word)
           args == Positional(tokens)
<1>1. args \in Seq(T)
  BY FirstArgument
<1>2. tokens # <<>> /\ tokens[1] = "load" => args # <<>> /\ args[1] = "load"
  BY FirstArgument
<1>3. Leaves(Ok(s)) /\ Leaves(NotOk(s))
  BY DEF Leaves, Ok, NotOk
<1>4. \A r \in HelpCommand(s, args) : Leaves(r)
  <2>1. (args = <<>> \/ Resolved(args[1]) \in CommandNames) \in BOOLEAN
    OBVIOUS
  <2> QED
    BY <2>1, JudgedLeaves DEF HelpCommand
<1>5. ASSUME NEW more PROVE \A r \in RunCommand(s, more) : Leaves(r)
  <2> DEFINE used == IF more = <<>> THEN s ELSE [s EXCEPT !.tokens = @ + 100]
  <2>1. IsSession(used)
    BY ChangesOfSession
  <2>2. (more # <<>>) \in BOOLEAN
    OBVIOUS
  <2> HIDE DEF used
  <2>3. \A r \in Judged(used, more # <<>>) : Leaves(r)
    BY <2>1, <2>2, JudgedLeaves
  <2> QED
    BY <2>3 DEF RunCommand, used
<1>6. ASSUME NEW wants PROVE Fits(wants, args) \in BOOLEAN
  BY DEF Fits
<1>7. \A r \in TaskCommand(s, args) : Leaves(r)
  BY <1>6, JudgedLeaves DEF TaskCommand
<1>8. \A r \in ModelCommand(s, args) : Leaves(r)
  <2> DEFINE fits == args = <<>> \/ Fits([list |-> 0, switch |-> 1, role |-> 3, health |-> 0, metrics |-> 0], args)
             model == IF Len(args) > 2 THEN args[3] ELSE "default"
             switched == [s EXCEPT !.provider = args[2], !.model = model]
             next == IF fits /\ args # <<>> /\ args[1] = "switch" THEN switched ELSE s
  <2>1. fits \in BOOLEAN
    BY <1>6
  <2>2. IsSession(switched)
    <3> HIDE DEF model, args
    <3> QED
      BY ChangesOfSession
  <2>3. IsSession(next)
    <3> HIDE DEF switched
    <3> QED
      BY <2>2
  <2>4. ModelCommand(s, args) = Judged(next, fits)
    BY DEF ModelCommand
  <2> HIDE DEF next, fits
  <2> QED
    BY <2>1, <2>3, <2>4, JudgedLeaves
<1>9. \A r \in MemoryCommand(s, args) : Leaves(r)
  BY <1>6, JudgedLeaves DEF MemoryCommand
<1>10. \A r \in WorkspaceCommand(s, args) : Leaves(r)
  <2> DEFINE fits == args = <<>> \/ Fits([list |-> 0, create |-> 1, switch |-> 1, clean |-> 0, diff |-> 0], args)
             renames == fits /\ args # <<>> /\ args[1] \in {"create", "switch"}
             renamed == [s EXCEPT !.branch = args[2]]
             next == IF renames THEN renamed ELSE s
  <2>1. fits \in BOOLEAN
    BY <1>6
  <2>2. IsSession(renamed)
    BY ChangesOfSession
  <2>3. IsSession(next)
    <3> HIDE DEF renamed
    <3> QED
      BY <2>2
  <2>4. WorkspaceCommand(s, args) = Judged(next, fits)
    BY DEF WorkspaceCommand
  <2> HIDE DEF next, fits
  <2> QED
    BY <2>1, <2>3, <2>4, JudgedLeaves
<1>11. \A r \in TestCommand(s, args) : Leaves(r)
  BY <1>6, JudgedLeaves DEF TestCommand
<1>12. \A r \in ConfigCommand(s, args) \cup ToolsCommand(s, args) : Leaves(r)
  <2>1. ASSUME NEW wants PROVE (args = <<>> \/ Fits(wants, args)) \in BOOLEAN
    OBVIOUS
  <2> QED
    BY <2>1, JudgedLeaves DEF ConfigCommand, ToolsCommand
<1>13. \A r \in SessionCommand(s, args) : Leaves(r)
  BY <1>1, SessionLeaves
<1>14. name = "session" => Dispatch(s, word, tokens) = SessionCommand(s, args)
  BY DEF Dispatch, AlwaysOk
<1>15. Dispatch(s, word, tokens) \in
         {{Ok(s)}, {NotOk(s)}, HelpCommand(s, args), RunCommand(s, args), TaskCommand(s, args),
          ModelCommand(s, args), MemoryCommand(s, args), WorkspaceCommand(s, args), TestCommand(s, args),
          ConfigCommand(s, args), ToolsCommand(s, args), SessionCommand(s, args), RunCommand(s, <<"x">>)}
  BY DEF Dispatch
<1>16. name = "session" /\ tokens # <<>> /\ tokens[1] = "load" =>
         \A r \in Dispatch(s, word, tokens) : r.session \in {s, lastSaved} /\ r.saved = lastSaved
  BY <1>1, <1>2, <1>14, SessionLeaves
<1> HIDE DEF args
<1>17. \A r \in Dispatch(s, word, tokens) : Leaves(r)
  BY <1>3, <1>4, <1>5, <1>7, <1>8, <1>9, <1>10, <1>11, <1>12, <1>13, <1>15
<1> QED
  BY <1>16, <1>17

\* The session of a process that runs lines is not looked at; in a dialogue, a
\* load has left what LoadIsWhole says.
SessionInv ==
    /\ IsSession(session) /\ StoredInv(sessionFile, lastSaved) /\ LoadIsWhole
    /\ mode \in {"eval", "script", "pipe"} => beforeLoad = <<>>

LEMMA ReplKeepsSession ==
    ASSUME SessionInv, NEW word, NEW T, NEW tokens \in Seq(T), ReplLine(word, tokens)
    PROVE  SessionInv'
<1>1. PICK r \in Dispatch(session, word, tokens) :
        /\ session' = [r.session EXCEPT !.log = Append(@, r.ok)]
        /\ sessionFile' = r.file /\ lastSaved' = r.saved
  BY DEF ReplLine
<1>2. IsSession(session) /\ StoredInv(sessionFile, lastSaved)
  BY DEF SessionInv
<1>3. Leaves(r)
  BY <1>2, DispatchLeaves
<1>4. PICK b, p, m, t, l : /\ r.session = [branch |-> b, provider |-> p, model |-> m, tokens |-> t, log |-> l]
                           /\ l \in Seq(BOOLEAN)
  BY <1>3 DEF Leaves, IsSession
<1> DEFINE more == Append(l, r.ok)
<1>5. session' = [branch |-> b, provider |-> p, model |-> m, tokens |-> t, log |-> more]
  <2> DEFINE past == r.session
  <2>1. past = [branch |-> b, provider |-> p, model |-> m, tokens |-> t, log |-> l]
    BY <1>4
  <2>2. session' = [past EXCEPT !.log = Append(@, r.ok)]
    BY <1>1
  <2> HIDE DEF past
  <2>3. past.log = l
    BY <2>1
  <2>4. session' = [past EXCEPT !.log = more]
    BY <2>2, <2>3
  <2> HIDE DEF more
  <2> QED
    BY <2>1, <2>4
<1>6. more \in Seq(BOOLEAN) /\ Front(more) = l
  <2>1. r.ok \in BOOLEAN /\ l \in Seq(BOOLEAN)
    BY <1>3, <1>4 DEF Leaves
  <2>2. \A B : \A list \in Seq(B), x \in B : Append(list, x) \in Seq(B) /\ SubSeq(Append(list, x), 1, Len(Append(list, x)) - 1) = list
    OBVIOUS
  <2> QED
    BY <2>1, <2>2 DEF Front
<1> HIDE DEF more
<1>7. IsSession(session')
  BY <1>5, <1>6 DEF IsSession
<1>8. [session' EXCEPT !.log = Front(@)] = r.session
  <2>1. [session' EXCEPT !.log = Front(@)]
          = [branch |-> b, provider |-> p, model |-> m, tokens |-> t, log |-> Front(more)]
    BY <1>5
  <2> QED
    BY <1>4, <1>6, <2>1
<1>9. LoadIsWhole'
  <2>1. CASE Resolved(word) = "session" /\ tokens # <<>> /\ tokens[1] = "load"
    <3>1. r.session \in {session, lastSaved} /\ r.saved = lastSaved
      BY <1>2, <2>1, DispatchLeaves
    <3>2. beforeLoad' = <<session>>
      BY <2>1 DEF ReplLine
    <3>3. beforeLoad'[1] = session /\ lastSaved' = lastSaved
      BY <1>1, <3>1, <3>2
    <3> QED
      BY <1>8, <3>1, <3>3 DEF LoadIsWhole
  <2>2. CASE ~(Resolved(word) = "session" /\ tokens # <<>> /\ tokens[1] = "load")
    <3>1. beforeLoad' = <<>>
      BY <2>2 DEF ReplLine
    <3> QED
      BY <3>1 DEF LoadIsWhole
  <2> QED
    BY <2>1, <2>2
<1>10. StoredInv(sessionFile', lastSaved')
  BY <1>1, <1>3 DEF Leaves
<1>11. mode' = "repl"
  BY DEF ReplLine
<1> QED
  BY <1>7, <1>9, <1>10, <1>11 DEF SessionInv

LEMMA RunnerKeepsSession ==
    ASSUME SessionInv, NEW word, NEW T, NEW tokens \in Seq(T), RunnerLine(word, tokens)
    PROVE  SessionInv'
<1>1. PICK r \in Dispatch(NewSession, word, tokens) : sessionFile' = r.file /\ lastSaved' = r.saved
  BY DEF RunnerLine
<1>2. Leaves(r)
  BY NewSessionIs, DispatchLeaves DEF SessionInv
<1>3. StoredInv(sessionFile', lastSaved')
  BY <1>1, <1>2 DEF Leaves
<1>4. session' = session /\ beforeLoad' = <<>> /\ mode' = mode
  BY DEF RunnerLine, SessionInv
<1> QED
  BY <1>3, <1>4 DEF SessionInv, LoadIsWhole

IsSequence(s) == \E T : s \in Seq(T)

LEMMA TokensAreSequences ==
    ASSUME NEW rest \in Argument
    PROVE  \A tokens \in {rest} \cup {<<sub>> \o rest : sub \in Subcommand} : IsSequence(tokens)
<1>1. rest \in Seq(ToSet(rest))
  BY ArgumentAssumption
<1>2. ASSUME NEW sub \in Subcommand PROVE <<sub>> \o rest \in Seq(ToSet(rest) \cup {sub})
  <2>1. \A X, x : \A s \in Seq(X) : <<x>> \o s \in Seq(X \cup {x})
    OBVIOUS
  <2> QED
    BY <1>1, <2>1
<1>3. IsSequence(rest)
  BY <1>1 DEF IsSequence
<1>4. ASSUME NEW sub \in Subcommand PROVE IsSequence(<<sub>> \o rest)
  BY <1>2 DEF IsSequence
<1> QED
  BY <1>3, <1>4

\* One step of the command line.
LEMMA SessionKept == ASSUME SessionInv, [cliNext]_cliVars PROVE SessionInv'
<1>1. ASSUME NEW m, StartProcess(m) PROVE SessionInv'
  <2>1. session' = NewSession /\ beforeLoad' = <<>> /\ sessionFile' = sessionFile /\ lastSaved' = lastSaved
    BY <1>1 DEF StartProcess
  <2> QED
    BY <2>1, NewSessionIs DEF SessionInv, LoadIsWhole
<1>2. ASSUME NEW word, NEW rest \in Argument,
             NEW tokens \in {rest} \cup {<<sub>> \o rest : sub \in Subcommand},
             ReplLine(word, tokens) \/ RunnerLine(word, tokens)
      PROVE  SessionInv'
  <2>1. IsSequence(tokens)
    BY TokensAreSequences
  <2>2. PICK T : tokens \in Seq(T)
    BY <2>1 DEF IsSequence
  <2> QED
    BY <1>2, <2>2, ReplKeepsSession, RunnerKeepsSession
<1>3. ASSUME EndInput \/ EndProcess PROVE SessionInv'
  BY <1>3 DEF EndInput, EndProcess, SessionInv, LoadIsWhole
<1>4. ASSUME UNCHANGED cliVars PROVE SessionInv'
  BY <1>4 DEF cliVars, SessionInv, LoadIsWhole
<1> QED
  BY <1>1, <1>2, <1>3, <1>4 DEF cliNext

\* A session that is loaded is whole, whatever becomes of the file between the
\* save and the load: by a crash of the save, an export or another process.
THEOREM LoadIsWholeHolds == cliSpec => []LoadIsWhole
<1>1. cliInit => SessionInv
  BY NewSessionIs DEF cliInit, SessionInv, StoredInv, LoadIsWhole
<1>2. SessionInv /\ [cliNext]_cliVars => SessionInv'
  BY SessionKept
<1>3. SessionInv => LoadIsWhole
  BY DEF SessionInv
<1> QED
  BY <1>1, <1>2, <1>3, PTL DEF cliSpec

----------------------------------------------------------------------------
(* The history of the prompt, from one process to the next                 *)

\* What lines are made of.
Symbol == Char \cup {"\n", "\\", "/exit", "/multiline"}
              \cup UNION {ToSet(Completion[line]) : line \in DOMAIN Completion}
TextLine == Seq(Symbol)

\* The entries of a history: none blank, none like the one before.
Entries(h) ==
    /\ h \in Seq(TextLine) /\ \A i \in 1..Len(h) : ~IsBlank(h[i])
    /\ \A i \in 1..Len(h) : i # 1 => h[i] # h[i - 1]

LEMMA LoadedKeeps ==
    ASSUME NEW h, Entries(h), NEW line \in TextLine PROVE Entries(Loaded(h, line))
<1>1. CASE IsBlank(line) \/ (h # <<>> /\ Last(h) = line)
  BY <1>1 DEF Loaded
<1>2. CASE ~IsBlank(line) /\ ~(h # <<>> /\ Last(h) = line)
  <2> DEFINE more == Append(h, line)
             N == Len(h)
  <2>1. h \in Seq(TextLine) /\ N \in Nat
    BY DEF Entries
  <2>2. Loaded(h, line) = more
    BY <1>2 DEF Loaded
  <2>3. more \in Seq(TextLine) /\ Len(more) = N + 1 /\ more[N + 1] = line /\ \A i \in 1..N : more[i] = h[i]
    BY <2>1
  <2>4. N # 0 => h[N] # line
    BY <1>2, <2>1 DEF Last
  <2> HIDE DEF more, N
  <2>5. \A i \in 1..N : ~IsBlank(h[i]) /\ (i # 1 => h[i] # h[i - 1])
    BY DEF Entries, N
  <2>6. ASSUME NEW i \in 1..(N + 1) PROVE ~IsBlank(more[i]) /\ (i # 1 => more[i] # more[i - 1])
    <3>1. CASE i \in 1..N
      <4>1. i # 1 => i - 1 \in 1..N
        BY <2>1, <3>1
      <4> QED
        BY <2>3, <2>5, <3>1, <4>1
    <3>2. CASE i = N + 1
      <4>1. i # 1 => i - 1 = N /\ N \in 1..N
        BY <2>1, <3>2
      <4> QED
        BY <1>2, <2>1, <2>3, <2>4, <3>2, <4>1
    <3> QED
      BY <2>1, <3>1, <3>2
  <2> QED
    BY <2>2, <2>3, <2>6 DEF Entries
<1> QED
  BY <1>1, <1>2

LEMMA CappedKeeps ==
    ASSUME NEW h, Entries(h)
    PROVE  /\ Entries(Capped(h)) /\ Len(Capped(h)) \leq MaxHistory
           /\ Len(h) \leq MaxHistory => Capped(h) = h
<1>1. MaxHistory \in Nat /\ h \in Seq(TextLine) /\ Len(h) \in Nat
  BY ReaderAssumption DEF Entries
<1>2. CASE Len(h) \leq MaxHistory
  BY <1>1, <1>2 DEF Capped
<1>3. CASE Len(h) > MaxHistory
  <2> DEFINE d == Len(h) - MaxHistory
             t == SubSeq(h, d + 1, Len(h))
  <2>1. d \in Nat /\ d + 1 \in Nat /\ d + MaxHistory = Len(h)
    BY <1>1, <1>3
  <2>2. Capped(h) = t
    BY <1>1, <1>3 DEF Capped, Tail1
  <2>3. t \in Seq(TextLine) /\ Len(t) = MaxHistory /\ \A i \in 1..MaxHistory : t[i] = h[i + d]
    <3> HIDE DEF d
    <3> QED
      BY <1>1, <2>1
  <2> HIDE DEF t, d
  <2>4. ASSUME NEW i \in 1..MaxHistory PROVE ~IsBlank(t[i]) /\ (i # 1 => t[i] # t[i - 1])
    <3>2. i + d \in 1..Len(h) /\ t[i] = h[i + d]
      BY <1>1, <2>1, <2>3
    <3>3. i # 1 => i - 1 \in 1..MaxHistory /\ (i - 1) + d = (i + d) - 1 /\ i + d # 1
      BY <1>1, <2>1
    <3>4. i # 1 => t[i - 1] = h[(i + d) - 1]
      BY <2>3, <3>3
    <3> QED
      BY <3>2, <3>3, <3>4 DEF Entries
  <2> QED
    BY <1>1, <1>3, <2>2, <2>3, <2>4 DEF Entries
<1> QED
  BY <1>1, <1>2, <1>3

\* What the editor holds.
History(h) == Entries(h) /\ Len(h) \leq MaxHistory

LEMMA AddHistoryKeeps ==
    ASSUME NEW h, History(h), NEW line \in TextLine PROVE History(AddHistory(h, line))
<1>1. Entries(Loaded(h, line))
  BY LoadedKeeps DEF History
<1>2. AddHistory(h, line) = Capped(Loaded(h, line))
  BY CappedKeeps DEF AddHistory, Loaded, History
<1> QED
  BY <1>1, <1>2, CappedKeeps DEF History

LEMMA LoadedIsTyped ==
    ASSUME NEW h \in {k \in Seq(TextLine) : Entries(k)}, NEW line \in TextLine
    PROVE  Loaded(h, line) \in {k \in Seq(TextLine) : Entries(k)}
<1>1. Entries(Loaded(h, line))
  BY LoadedKeeps
<1> QED
  BY <1>1 DEF Entries

\* loadHistory, line by line.
LEMMA LoadedAlong ==
    ASSUME NEW file \in Seq(TextLine)
    PROVE  \E r : /\ r \in [0..Len(file) -> {h \in Seq(TextLine) : Entries(h)}] /\ r[0] = <<>>
                  /\ \A n \in 1..Len(file) : r[n] = Loaded(r[n - 1], file[n])
                  /\ FoldLeft(Loaded, <<>>, file) = r[Len(file)]
<1> DEFINE N == Len(file)
           V == {h \in Seq(TextLine) : Entries(h)}
           s == <<>>
           Goes(a, v) == Loaded(a, v)
           Is(h) == h = [S \in SUBSET (1..N) |-> IF S = {} THEN s
                                                  ELSE Goes(h[S \ {Max(S)}], file[Max(S)])]
           F == CHOOSE h : Is(h)
           step == [i \in 1..N |-> [a \in V |-> Goes(a, file[i])]]
<1>1. N \in Nat /\ DOMAIN file = 1..N /\ \A i \in 1..N : file[i] \in TextLine
  OBVIOUS
<1>2. s \in V
  BY DEF Entries
<1>3. \A a \in V : \A i \in 1..N : Goes(a, file[i]) \in V
  <2>1. ASSUME NEW a \in V, NEW i \in 1..N PROVE Goes(a, file[i]) \in V
    <3>1. file[i] \in TextLine
      BY <1>1
    <3> QED
      BY <3>1, LoadedIsTyped
  <2> QED
    BY <2>1
<1>4. FoldLeft(Loaded, <<>>, file) = F[1..N]
  <2>1. FoldLeft(Loaded, <<>>, file) =
          (CHOOSE h : h = [S \in SUBSET DOMAIN file |-> IF S = {} THEN s
                              ELSE Goes(h[S \ {Max(S)}], file[Max(S)])])[DOMAIN file]
    BY DEF FoldLeft, MapThenFoldSet
  <2> HIDE DEF Goes, N
  <2> QED
    BY <1>1, <2>1
<1> HIDE DEF Goes, N, V, s
<1>5. step \in [1..N -> [V -> V]]
  BY <1>3
<1>6. PICK h \in [SUBSET (1..N) -> V] : FoldOf(h, s, N, step)
  <2> HIDE DEF step
  <2> QED
    BY <1>1, <1>2, <1>5, FoldsExist
<1>7. \A S \in SUBSET (1..N) : S # {} => Max(S) \in 1..N
  BY <1>1, MaxIsIn
<1>8. Is(h)
  <2>1. ASSUME NEW S \in SUBSET (1..N), S # {}
        PROVE  step[Max(S)][h[S \ {Max(S)}]] = Goes(h[S \ {Max(S)}], file[Max(S)])
    <3>1. h[S \ {Max(S)}] \in V
      BY <1>6
    <3> QED
      BY <1>7, <2>1, <3>1
  <2> HIDE DEF step
  <2> QED
    BY <1>6, <2>1 DEF FoldOf
<1>9. Is(F)
  <2> HIDE DEF Is
  <2> QED
    BY <1>8
<1> HIDE DEF F
<1>10. Folded(F, V, s, N, step)
  BY <1>7, <1>9 DEF Folded
<1>11. PICK r : Along(r, V, s, N, step) /\ F[1..N] = r[N]
  <2>1. N \in Nat
    BY <1>1
  <2> HIDE DEF step, Is
  <2> QED
    BY <2>1, <1>2, <1>5, <1>10, FoldedAlong
<1>12. ASSUME NEW n \in 1..N PROVE r[n] = Goes(r[n - 1], file[n])
  <2>1. r[n - 1] \in V
    BY <1>1, <1>11 DEF Along
  <2>2. r[n] = step[n][r[n - 1]]
    <3> HIDE DEF step
    <3> QED
      BY <1>11 DEF Along
  <2> QED
    BY <2>1, <2>2
<1> QED
  BY <1>4, <1>11, <1>12 DEF N, Goes, V, s, Along

LEMMA LoadHistoryGives ==
    ASSUME NEW file \in Seq(TextLine)
    PROVE  /\ History(LoadHistory(file))
           /\ History(file) => LoadHistory(file) = file
<1> DEFINE N == Len(file)
<1>1. PICK r : /\ r \in [0..N -> {h \in Seq(TextLine) : Entries(h)}] /\ r[0] = <<>>
               /\ \A n \in 1..N : r[n] = Loaded(r[n - 1], file[n])
               /\ FoldLeft(Loaded, <<>>, file) = r[N]
  BY LoadedAlong
<1>2. N \in Nat /\ N \in 0..N
  OBVIOUS
<1>3. LoadHistory(file) = Capped(r[N])
  BY <1>1 DEF LoadHistory
<1>4. Entries(r[N])
  BY <1>1, <1>2
<1>5. ASSUME History(file) PROVE r[N] = file
  <2> DEFINE Begins(h, n) == Len(h) = n /\ \A i \in 1..n : h[i] = file[i]
             P == {n \in 0..N : Begins(r[n], n)}
  <2>1. 0 \in P
    BY <1>1, <1>2
  <2>2. ASSUME NEW n \in 1..N, n - 1 \in P PROVE n \in P
    <3> DEFINE h == r[n - 1]
    <3>1. n - 1 \in 0..N /\ n \in 0..N /\ h \in Seq(TextLine) /\ r[n] = Loaded(h, file[n])
      BY <1>1, <1>2
    <3>2. Begins(h, n - 1)
      BY <2>2
    <3>3. ~IsBlank(file[n]) /\ (n # 1 => file[n] # file[n - 1])
      BY <1>5 DEF History, Entries
    <3> HIDE DEF h
    <3>4. h # <<>> => Last(h) # file[n]
      BY <1>2, <3>1, <3>2, <3>3 DEF Last
    <3>5. r[n] = Append(h, file[n])
      BY <3>1, <3>3, <3>4 DEF Loaded
    <3>6. Begins(Append(h, file[n]), n)
      BY <1>2, <3>1, <3>2
    <3> QED
      BY <3>1, <3>5, <3>6
  <2> HIDE DEF P
  <2>3. N \in P
    <3>1. \A n \in 0..N : n \in P
      BY <1>2, <2>1, <2>2, CountUp
    <3> QED
      BY <1>2, <3>1
  <2>4. Begins(r[N], N)
    BY <2>3 DEF P
  <2>5. r[N] \in Seq(TextLine)
    BY <1>1, <1>2
  <2> QED
    BY <2>4, <2>5
<1>6. History(Capped(r[N]))
  BY <1>4, CappedKeeps DEF History
<1>7. History(file) => Capped(r[N]) = file
  BY <1>4, <1>5, CappedKeeps DEF History
<1> QED
  BY <1>3, <1>6, <1>7

LEMMA WrittenIsTyped ==
    ASSUME NEW lines \in Seq(TextLine) \ {<<>>}, NEW c \in Symbol
    PROVE  Written(lines, c) \in Seq(TextLine) \ {<<>>}
<1>1. <<>> \in TextLine /\ Len(lines) \in 1..Len(lines) /\ lines[Len(lines)] \in TextLine
  BY DEF TextLine
<1>2. CASE c = "\n"
  BY <1>1, <1>2 DEF Written
<1>3. CASE c # "\n"
  <2> DEFINE longer == Append(lines[Len(lines)], c)
  <2>1. longer \in TextLine
    BY <1>1 DEF TextLine
  <2>2. Written(lines, c) = [lines EXCEPT ![Len(lines)] = longer]
    BY <1>3 DEF Written
  <2> HIDE DEF longer
  <2>3. [lines EXCEPT ![Len(lines)] = longer] \in Seq(TextLine) /\ Len([lines EXCEPT ![Len(lines)] = longer]) = Len(lines)
    BY <1>1, <2>1
  <2> QED
    BY <1>1, <2>2, <2>3
<1> QED
  BY <1>2, <1>3

\* An entry in a file, character by character.
LEMMA WrittenAlong ==
    ASSUME NEW entry \in TextLine
    PROVE  \E r : /\ r \in [0..Len(entry) -> Seq(TextLine) \ {<<>>}] /\ r[0] = <<<<>>>>
                  /\ \A n \in 1..Len(entry) : r[n] = Written(r[n - 1], entry[n])
                  /\ FoldLeft(Written, <<<<>>>>, entry) = r[Len(entry)]
<1> DEFINE N == Len(entry)
           V == Seq(TextLine) \ {<<>>}
           s == <<<<>>>>
           Goes(a, v) == Written(a, v)
           Is(h) == h = [S \in SUBSET (1..N) |-> IF S = {} THEN s
                                                  ELSE Goes(h[S \ {Max(S)}], entry[Max(S)])]
           F == CHOOSE h : Is(h)
           step == [i \in 1..N |-> [a \in V |-> Goes(a, entry[i])]]
<1>1. N \in Nat /\ DOMAIN entry = 1..N /\ \A i \in 1..N : entry[i] \in Symbol
  BY DEF TextLine
<1>2. s \in V
  BY DEF TextLine
<1>3. \A a \in V : \A i \in 1..N : Goes(a, entry[i]) \in V
  <2>1. ASSUME NEW a \in V, NEW i \in 1..N PROVE Goes(a, entry[i]) \in V
    <3>1. entry[i] \in Symbol
      BY <1>1
    <3> QED
      BY <3>1, WrittenIsTyped
  <2> QED
    BY <2>1
<1>4. FoldLeft(Written, <<<<>>>>, entry) = F[1..N]
  <2>1. FoldLeft(Written, <<<<>>>>, entry) =
          (CHOOSE h : h = [S \in SUBSET DOMAIN entry |-> IF S = {} THEN s
                              ELSE Goes(h[S \ {Max(S)}], entry[Max(S)])])[DOMAIN entry]
    BY DEF FoldLeft, MapThenFoldSet
  <2> HIDE DEF Goes, N
  <2> QED
    BY <1>1, <2>1
<1> HIDE DEF Goes, N, V, s
<1>5. step \in [1..N -> [V -> V]]
  BY <1>3
<1>6. PICK h \in [SUBSET (1..N) -> V] : FoldOf(h, s, N, step)
  <2> HIDE DEF step
  <2> QED
    BY <1>1, <1>2, <1>5, FoldsExist
<1>7. \A S \in SUBSET (1..N) : S # {} => Max(S) \in 1..N
  BY <1>1, MaxIsIn
<1>8. Is(h)
  <2>1. ASSUME NEW S \in SUBSET (1..N), S # {}
        PROVE  step[Max(S)][h[S \ {Max(S)}]] = Goes(h[S \ {Max(S)}], entry[Max(S)])
    <3>1. h[S \ {Max(S)}] \in V
      BY <1>6
    <3> QED
      BY <1>7, <2>1, <3>1
  <2> HIDE DEF step
  <2> QED
    BY <1>6, <2>1 DEF FoldOf
<1>9. Is(F)
  <2> HIDE DEF Is
  <2> QED
    BY <1>8
<1> HIDE DEF F
<1>10. Folded(F, V, s, N, step)
  BY <1>7, <1>9 DEF Folded
<1>11. PICK r : Along(r, V, s, N, step) /\ F[1..N] = r[N]
  <2>1. N \in Nat
    BY <1>1
  <2> HIDE DEF step, Is
  <2> QED
    BY <2>1, <1>2, <1>5, <1>10, FoldedAlong
<1>12. ASSUME NEW n \in 1..N PROVE r[n] = Goes(r[n - 1], entry[n])
  <2>1. r[n - 1] \in V
    BY <1>1, <1>11 DEF Along
  <2>2. r[n] = step[n][r[n - 1]]
    <3> HIDE DEF step
    <3> QED
      BY <1>11 DEF Along
  <2> QED
    BY <2>1, <2>2
<1> QED
  BY <1>4, <1>11, <1>12 DEF N, Goes, V, s, Along

LEMMA LinesGive ==
    ASSUME NEW entry \in TextLine
    PROVE  /\ Lines(entry) \in Seq(TextLine)
           /\ "\n" \notin ToSet(entry) => Lines(entry) = <<entry>>
<1> DEFINE N == Len(entry)
<1>1. PICK r : /\ r \in [0..N -> Seq(TextLine) \ {<<>>}] /\ r[0] = <<<<>>>>
               /\ \A n \in 1..N : r[n] = Written(r[n - 1], entry[n])
               /\ FoldLeft(Written, <<<<>>>>, entry) = r[N]
  BY WrittenAlong
<1>2. N \in Nat /\ N \in 0..N /\ \A n \in 1..N : entry[n] \in Symbol
  BY DEF TextLine
<1>3. Lines(entry) = r[N] /\ r[N] \in Seq(TextLine)
  BY <1>1, <1>2 DEF Lines
<1>4. ASSUME "\n" \notin ToSet(entry) PROVE r[N] = <<entry>>
  <2> DEFINE Begins(s, n) == Len(s) = n /\ \A i \in 1..n : s[i] = entry[i]
             P == {n \in 0..N : Len(r[n]) = 1 /\ Begins(r[n][1], n)}
  <2>1. 0 \in P
    BY <1>1, <1>2
  <2>2. ASSUME NEW n \in 1..N, n - 1 \in P PROVE n \in P
    <3> DEFINE lines == r[n - 1]
               s == lines[1]
    <3>1. n - 1 \in 0..N /\ n \in 0..N /\ lines \in Seq(TextLine) /\ r[n] = Written(lines, entry[n])
      BY <1>1, <1>2
    <3>2. Len(lines) = 1 /\ Begins(s, n - 1)
      BY <2>2
    <3>3. entry[n] # "\n"
      BY <1>4 DEF ToSet, TextLine
    <3> HIDE DEF lines
    <3>4. s \in Seq(Symbol)
      <4>1. Len(lines) = 1
        BY <3>2
      <4>2. \A i \in 1..Len(lines) : lines[i] \in TextLine
        BY <3>1
      <4>3. lines[1] \in TextLine
        BY <4>1, <4>2
      <4> QED
        BY <4>3 DEF TextLine
    <3>5. Written(lines, entry[n]) = [lines EXCEPT ![1] = Append(s, entry[n])]
      BY <3>2, <3>3 DEF Written
    <3> DEFINE longer == Append(s, entry[n])
    <3>6. Begins(longer, n)
      <4> HIDE DEF s
      <4> QED
        BY <1>2, <3>1, <3>2, <3>4
    <3> HIDE DEF longer
    <3>7. Len(r[n]) = 1 /\ r[n][1] = longer
      BY <3>1, <3>2, <3>5 DEF longer
    <3> QED
      BY <3>1, <3>6, <3>7
  <2> HIDE DEF P
  <2>3. N \in P
    <3>1. \A n \in 0..N : n \in P
      BY <1>2, <2>1, <2>2, CountUp
    <3> QED
      BY <1>2, <3>1
  <2>4. Len(r[N]) = 1 /\ Begins(r[N][1], N)
    BY <2>3 DEF P
  <2>5. r[N] \in Seq(TextLine)
    BY <1>1, <1>2
  <2>6. r[N][1] \in TextLine
    BY <2>4, <2>5
  <2>7. r[N][1] = entry
    <3> DEFINE t == r[N][1]
    <3>1. t \in Seq(Symbol) /\ entry \in Seq(Symbol) /\ Begins(t, N)
      BY <2>4, <2>6 DEF TextLine
    <3> HIDE DEF t
    <3>2. t = entry
      BY <3>1
    <3> QED
      BY <3>2 DEF t
  <2> QED
    BY <2>4, <2>5, <2>7
<1> QED
  BY <1>3, <1>4

LEMMA SaveHistoryGives ==
    ASSUME NEW h \in Seq(TextLine)
    PROVE  /\ SaveHistory(h) \in Seq(TextLine)
           /\ (\A i \in DOMAIN h : "\n" \notin ToSet(h[i])) => SaveHistory(h) = h
<1> DEFINE all == [i \in DOMAIN h |-> Lines(h[i])]
<1>1. DOMAIN h = 1..Len(h) /\ Len(h) \in Nat /\ \A i \in 1..Len(h) : h[i] \in TextLine
  OBVIOUS
<1>2. \A i \in 1..Len(h) : Lines(h[i]) \in Seq(TextLine)
  BY <1>1, LinesGive
<1>3. all \in Seq(Seq(TextLine)) /\ Len(all) = Len(h)
  <2>1. all \in [1..Len(h) -> Seq(TextLine)]
    BY <1>1, <1>2
  <2> HIDE DEF all
  <2> QED
    BY <1>1, <2>1
<1>4. SaveHistory(h) = FlattenSeq(all)
  BY DEF SaveHistory
<1>5. ASSUME \A i \in DOMAIN h : "\n" \notin ToSet(h[i]) PROVE FlattenSeq(all) = h
  <2>1. \A i \in 1..Len(h) : all[i] = <<h[i]>>
    BY <1>1, <1>5, LinesGive
  <2> HIDE DEF all
  <2> QED
    BY <1>3, <2>1, FlattenOfSingles
<1> HIDE DEF all
<1> QED
  BY <1>3, <1>4, <1>5, FlattenedIsSequence

\* The editor is within its line and its history, whose entries are lines.
ReaderInv ==
    /\ History(history) /\ buffer \in TextLine /\ temp_buffer \in TextLine
    /\ cursor \in 0..Len(buffer) /\ history_index \in 0..Len(history)

LEMMA ReaderInvGives == ASSUME ReaderInv PROVE HistoryComesBack
<1>1. history \in Seq(TextLine) /\ History(history)
  BY DEF ReaderInv, History, Entries
<1>2. (\A i \in DOMAIN history : "\n" \notin ToSet(history[i])) =>
        LoadHistory(SaveHistory(history)) = history
  BY <1>1, SaveHistoryGives, LoadHistoryGives
<1>3. cursor \leq Len(buffer) /\ history_index \leq Len(history)
  BY <1>1 DEF ReaderInv
<1> QED
  BY <1>2, <1>3 DEF HistoryComesBack

\* The line that is shown, with the cursor at its end.
LEMMA ShowsKeeps ==
    ASSUME ReaderInv, NEW line \in TextLine, Shows(line), history' = history,
           temp_buffer' \in TextLine, history_index' \in 0..Len(history)
    PROVE  ReaderInv'
<1>1. Len(line) \in 0..Len(line)
  BY DEF TextLine
<1> QED
  BY <1>1 DEF ReaderInv, Shows

\* A line is taken, into any history.
LEMMA TakesKeeps == ASSUME NEW h, History(h), Takes(h) PROVE ReaderInv'
<1>1. <<>> \in TextLine /\ Len(h) \in 0..Len(h) /\ 0 \in 0..Len(<<>>)
  BY DEF TextLine, History, Entries
<1> QED
  BY <1>1 DEF ReaderInv, Takes

LEMMA WalkKeeps ==
    ASSUME ReaderInv, Up \/ Down \/ ClearLine \/ Complete \/ ReverseSearch PROVE ReaderInv'
<1>1. /\ history \in Seq(TextLine) /\ buffer \in TextLine /\ temp_buffer \in TextLine /\ Len(history) \in Nat
      /\ history_index \in 0..Len(history) /\ \A i \in 1..Len(history) : history[i] \in TextLine
  BY DEF ReaderInv, History, Entries
<1>2. <<>> \in TextLine
  BY DEF TextLine
<1>3. CASE Up
  <2>1. history_index \in 1..Len(history) /\ history_index - 1 \in 0..Len(history)
    BY <1>1, <1>3 DEF Up
  <2>2. temp_buffer' \in TextLine /\ history_index' = history_index - 1 /\ history' = history
    BY <1>1, <1>3 DEF Up
  <2>3. Shows(history[history_index])
    BY <1>3 DEF Up
  <2> QED
    BY <1>1, <2>1, <2>2, <2>3, ShowsKeeps
<1>4. CASE Down
  <2>1. /\ history_index + 1 \in 1..Len(history) /\ history_index + 1 \in 0..Len(history)
        /\ history_index' = history_index + 1 /\ history' = history
    BY <1>1, <1>4 DEF Down
  <2>2. CASE history_index' = Len(history)
    BY <1>1, <1>2, <1>4, <2>1, <2>2, ShowsKeeps DEF Down
  <2>3. CASE history_index' # Len(history)
    <3>1. history_index' + 1 \in 1..Len(history)
      BY <1>1, <2>1, <2>3
    <3>2. Shows(history[history_index' + 1]) /\ temp_buffer' = temp_buffer
      BY <1>4, <2>3 DEF Down
    <3> QED
      BY <1>1, <2>1, <3>1, <3>2, ShowsKeeps
  <2> QED
    BY <2>2, <2>3
<1>5. CASE ClearLine
  BY <1>1, <1>2, <1>5, ShowsKeeps DEF ClearLine, KeepWalk
<1>6. CASE Complete
  <2>1. Completion[buffer] \in TextLine
    <3>1. buffer \in DOMAIN Completion /\ Completion[buffer] \in Seq(ToSet(Completion[buffer]))
      BY <1>6, CompletionAssumption DEF Complete
    <3>2. ToSet(Completion[buffer]) \subseteq Symbol
      BY <3>1 DEF Symbol
    <3> QED
      BY <3>1, <3>2 DEF TextLine
  <2> QED
    BY <1>1, <1>6, <2>1, ShowsKeeps DEF Complete, KeepWalk
<1>7. CASE ReverseSearch
  <2>1. PICK i \in 1..Len(history) : Shows(history[i])
    BY <1>1, <1>7 DEF ReverseSearch
  <2> QED
    BY <1>1, <1>7, <2>1, ShowsKeeps DEF ReverseSearch, KeepWalk
<1> QED
  BY <1>3, <1>4, <1>5, <1>6, <1>7

LEMMA LineEditKeeps ==
    ASSUME ReaderInv, Move \/ Delete \/ Backspace \/ \E c \in Char : Type(c) PROVE ReaderInv'
<1>1. buffer \in Seq(Symbol) /\ cursor \in 0..Len(buffer) /\ Len(buffer) \in Nat
  BY DEF ReaderInv, TextLine
<1>2. KeepWalk
  BY DEF Move, Delete, Backspace, Type
<1>3. CASE Move
  <2>1. buffer' = buffer /\ cursor' \in 0..Len(buffer)
    BY <1>1, <1>3 DEF Move
  <2> QED
    BY <1>2, <2>1 DEF ReaderInv, KeepWalk
<1>4. ASSUME NEW i \in 1..Len(buffer) PROVE Without(i) \in Seq(Symbol) /\ Len(Without(i)) = Len(buffer) - 1
  <2> DEFINE left == SubSeq(buffer, 1, i - 1)
             right == SubSeq(buffer, i + 1, Len(buffer))
  <2>1. left \in Seq(Symbol) /\ Len(left) = i - 1
    BY <1>1
  <2>2. right \in Seq(Symbol) /\ Len(right) = Len(buffer) - i
    BY <1>1
  <2>3. Without(i) = left \o right
    BY DEF Without, RemoveAt
  <2> HIDE DEF left, right
  <2>4. left \o right \in Seq(Symbol) /\ Len(left \o right) = Len(left) + Len(right)
    BY <2>1, <2>2
  <2>5. i \in Nat
    BY <1>1
  <2>6. Len(left \o right) = Len(buffer) - 1
    BY <1>1, <2>1, <2>2, <2>4, <2>5
  <2> QED
    BY <2>3, <2>4, <2>6
<1>5. CASE Delete
  <2>1. cursor + 1 \in 1..Len(buffer)
    BY <1>1, <1>5 DEF Delete
  <2>2. buffer' = Without(cursor + 1) /\ cursor' = cursor
    BY <1>5 DEF Delete
  <2>3. buffer' \in Seq(Symbol) /\ Len(buffer') = Len(buffer) - 1
    BY <1>4, <2>1, <2>2
  <2> QED
    BY <1>1, <1>2, <2>1, <2>2, <2>3 DEF ReaderInv, KeepWalk, TextLine
<1>6. CASE Backspace
  <2>1. cursor \in 1..Len(buffer)
    BY <1>1, <1>6 DEF Backspace
  <2>2. buffer' = Without(cursor) /\ cursor' = cursor - 1
    BY <1>6 DEF Backspace
  <2>3. buffer' \in Seq(Symbol) /\ Len(buffer') = Len(buffer) - 1
    BY <1>4, <2>1, <2>2
  <2> QED
    BY <1>1, <1>2, <2>1, <2>2, <2>3 DEF ReaderInv, KeepWalk, TextLine
<1>7. ASSUME NEW c \in Char, Type(c) PROVE ReaderInv'
  <2>1. c \in Symbol /\ buffer' = InsertAt(buffer, cursor + 1, c) /\ cursor' = cursor + 1
    BY <1>7 DEF Type, Symbol
  <2>2. buffer' \in Seq(Symbol) /\ Len(buffer') = Len(buffer) + 1
    <3> DEFINE left == SubSeq(buffer, 1, cursor)
               right == SubSeq(buffer, cursor + 1, Len(buffer))
    <3>1. left \in Seq(Symbol) /\ Len(left) = cursor
      BY <1>1
    <3>2. right \in Seq(Symbol) /\ Len(right) = Len(buffer) - cursor
      BY <1>1
    <3>3. buffer' = left \o <<c>> \o right
      <4>1. (cursor + 1) - 1 = cursor
        BY <1>1
      <4>2. InsertAt(buffer, cursor + 1, c)
              = SubSeq(buffer, 1, (cursor + 1) - 1) \o <<c>> \o SubSeq(buffer, cursor + 1, Len(buffer))
        BY DEF InsertAt
      <4> QED
        BY <2>1, <4>1, <4>2
    <3> HIDE DEF left, right
    <3> DEFINE grown == left \o <<c>>
    <3>4. grown \in Seq(Symbol) /\ Len(grown) = cursor + 1
      BY <1>1, <2>1, <3>1
    <3>5. buffer' = grown \o right
      BY <3>3
    <3> HIDE DEF grown
    <3>6. grown \o right \in Seq(Symbol) /\ Len(grown \o right) = cursor + 1 + (Len(buffer) - cursor)
      BY <1>1, <3>2, <3>4
    <3> QED
      BY <1>1, <3>5, <3>6
  <2> QED
    BY <1>1, <1>2, <2>1, <2>2 DEF ReaderInv, KeepWalk, TextLine
<1> QED
  BY <1>3, <1>5, <1>6, <1>7

LEMMA LoopKeeps ==
    ASSUME ReaderInv, EnterLine \/ ToggleMultiline \/ EnterBlock \/ Exit PROVE ReaderInv'
<1>1. History(history) /\ buffer \in TextLine
  BY DEF ReaderInv
<1>2. ASSUME NEW line \in TextLine, Takes(AddHistory(history, line)) PROVE ReaderInv'
  BY <1>1, <1>2, AddHistoryKeeps, TakesKeeps
<1>3. CASE EnterLine
  <2>1. CASE buffer # <<>> /\ Last(buffer) = "\\"
    <3>1. PICK next \in {<<>>, <<"\n">>} \cup {<<"\n", c>> : c \in Char \ {"\\"}} :
            Takes(AddHistory(history, Front(buffer) \o next))
      BY <1>3, <2>1 DEF EnterLine
    <3>2. next \in TextLine
      <4>1. <<>> \in TextLine /\ <<"\n">> \in TextLine /\ \A c \in Char : <<"\n", c>> \in TextLine
        BY DEF TextLine, Symbol
      <4> QED
        BY <4>1
    <3>3. Front(buffer) \in TextLine
      BY <1>1, <2>1 DEF TextLine, Front
    <3>4. Front(buffer) \o next \in TextLine
      BY <3>2, <3>3 DEF TextLine
    <3> QED
      BY <1>2, <3>1, <3>4
  <2>2. CASE ~(buffer # <<>> /\ Last(buffer) = "\\")
    BY <1>1, <1>2, <1>3, <2>2 DEF EnterLine
  <2> QED
    BY <2>1, <2>2
<1>4. CASE ToggleMultiline
  <2>1. MultilineLine \in TextLine
    BY DEF MultilineLine, TextLine, Symbol
  <2> QED
    BY <1>2, <1>4, <2>1 DEF ToggleMultiline
<1>5. CASE EnterBlock
  <2>1. PICK c \in Char : Takes(AddHistory(history, <<c, "\n", c>>))
    BY <1>5 DEF EnterBlock
  <2>2. <<c, "\n", c>> \in TextLine
    BY DEF TextLine, Symbol
  <2> QED
    BY <1>2, <2>1, <2>2
<1>6. CASE Exit
  <2>1. PICK h \in {history, AddHistory(history, ExitLine)} : Takes(LoadHistory(SaveHistory(h)))
    BY <1>6 DEF Exit
  <2>2. ExitLine \in TextLine
    BY DEF ExitLine, TextLine, Symbol
  <2>3. History(h)
    BY <1>1, <2>2, AddHistoryKeeps
  <2>4. SaveHistory(h) \in Seq(TextLine)
    BY <2>3, SaveHistoryGives DEF History, Entries
  <2>5. History(LoadHistory(SaveHistory(h)))
    BY <2>4, LoadHistoryGives
  <2> QED
    BY <2>1, <2>5, TakesKeeps
<1> QED
  BY <1>3, <1>4, <1>5, <1>6

LEMMA ReaderKept == ASSUME ReaderInv, [readerNext]_readerVars PROVE ReaderInv'
<1>1. ASSUME UNCHANGED readerVars PROVE ReaderInv'
  BY <1>1 DEF readerVars, ReaderInv
<1> QED
  BY <1>1, WalkKeeps, LineEditKeeps, LoopKeeps DEF readerNext

LEMMA ReaderBegins == readerInit => ReaderInv
<1>1. <<>> \in TextLine /\ <<>> \in Seq(TextLine)
  BY DEF TextLine
<1> QED
  BY <1>1, ReaderAssumption DEF readerInit, ReaderInv, History, Entries

\* A history without entries of several lines comes back from its file as it
\* was, and the editor stays inside its line and its history, whatever keys are
\* typed: walks, completions, continued lines, blocks and restarts.
THEOREM HistoryComesBackHolds == readerSpec => []HistoryComesBack
<1>1. readerInit => ReaderInv
  BY ReaderBegins
<1>2. ReaderInv /\ [readerNext]_readerVars => ReaderInv'
  BY ReaderKept
<1>3. ReaderInv => HistoryComesBack
  BY ReaderInvGives
<1> QED
  BY <1>1, <1>2, <1>3, PTL DEF readerSpec

----------------------------------------------------------------------------
(* What the parts of MCServices save                                       *)

\* A part of MCServices runs or rests.
LEMMA PartsRun ==
    ASSUME [servicesNext]_servicesVars
    PROVE  [readerNext]_readerVars /\ [cliNext]_cliVars /\ [conversationNext]_conversationVars
<1>1. CASE servicesNext
  BY <1>1 DEF servicesNext, Runs
<1>2. CASE UNCHANGED servicesVars
  BY <1>2 DEF servicesVars
<1> QED
  BY <1>1, <1>2

\* Of the parts in one specification, as the run has them: a history that is
\* saved comes back, a session is loaded whole, and the file of conversations
\* agrees with those held.
THEOREM WhatIsSavedComesBackHolds == servicesSpec => []WhatIsSavedComesBack
<1>1. servicesInit => readerInit /\ cliInit /\ conversationInit
  BY DEF servicesInit
<1>2. servicesInit /\ [][servicesNext]_servicesVars
        => readerSpec /\ cliSpec /\ conversationSpec
  BY <1>1, PartsRun, PTL DEF readerSpec, cliSpec, conversationSpec
<1>3. HistoryComesBack /\ LoadIsWhole /\ HeldIsStored => WhatIsSavedComesBack
  BY DEF WhatIsSavedComesBack
<1> QED
  BY <1>2, <1>3, HistoryComesBackHolds, LoadIsWholeHolds, HeldIsStoredHolds, PTL DEF servicesSpec

----------------------------------------------------------------------------
(* The report on two texts: the table of computeDiffEdits                   *)

\* The table row by row and cell by cell.
IsTable(D, a, b) ==
    /\ D \in [0..Len(a) -> [0..Len(b) -> Nat]]
    /\ \A j \in 0..Len(b) : D[0][j] = 0
    /\ \A i \in 0..Len(a) : D[i][0] = 0
    /\ \A i \in 1..Len(a), j \in 1..Len(b) :
          D[i][j] = IF a[i] = b[j] THEN D[i - 1][j - 1] + 1 ELSE Larger(D[i - 1][j], D[i][j - 1])

IsRow(row, a, b, above, i) ==
    /\ row \in [0..Len(b) -> Nat] /\ row[0] = 0
    /\ \A j \in 1..Len(b) :
          row[j] = IF a[i] = b[j] THEN above[j - 1] + 1 ELSE Larger(above[j], row[j - 1])

\* NextRow fills the row from left to right.
LEMMA RowIs ==
    ASSUME NEW a, NEW b, NEW i, Len(b) \in Nat, NEW above \in [0..Len(b) -> Nat]
    PROVE  IsRow(NextRow(a, b, above, i), a, b, above, i)
<1> DEFINE M == Len(b)
           next(j, v) == IF a[i] = b[j] THEN above[j - 1] + 1 ELSE Larger(above[j], v)
           step == [j \in 1..M |-> [v \in Nat |-> next(j, v)]]
           Is(f) == f = [j \in 0..M |-> IF j = 0 THEN 0 ELSE next(j, f[j - 1])]
           row == CHOOSE f : Is(f)
<1>1. \A j \in 1..M : \A v \in Nat : next(j, v) \in Nat
  BY DEF Larger
<1>2. NextRow(a, b, above, i) = row
  BY DEF NextRow
<1> HIDE DEF next
<1>3. PICK r : Along(r, Nat, 0, M, step)
  <2>1. step \in [1..M -> [Nat -> Nat]]
    BY <1>1
  <2> HIDE DEF step
  <2> QED
    BY <2>1, StepsExist
<1>4. Is(r)
  <2>2. r \in [0..M -> Nat] /\ r[0] = 0
    BY <1>3 DEF Along
  <2>1. ASSUME NEW j \in 1..M PROVE r[j] = next(j, r[j - 1])
    <3>1. r[j - 1] \in Nat
      BY <2>2
    <3>2. r[j] = step[j][r[j - 1]]
      <4> HIDE DEF step
      <4> QED
        BY <1>3 DEF Along
    <3> QED
      BY <3>1, <3>2
  <2> QED
    BY <2>1, <2>2
<1>5. Is(row)
  <2> HIDE DEF Is
  <2> QED
    BY <1>4
<1> HIDE DEF row
<1> DEFINE P == {j \in 0..M : row[j] \in Nat}
<1>6. row[0] = 0 /\ \A j \in 1..M : row[j] = next(j, row[j - 1])
  BY <1>5
<1>7. \A j \in 0..M : j \in P
  <2>1. 0 \in P
    BY <1>6
  <2>2. ASSUME NEW j \in 1..M, j - 1 \in P PROVE j \in P
    <3>1. row[j - 1] \in Nat /\ row[j] = next(j, row[j - 1]) /\ j \in 0..M
      BY <1>6, <2>2
    <3> QED
      BY <1>1, <3>1
  <2> HIDE DEF P
  <2> QED
    BY <2>1, <2>2, CountUp
<1>8. row \in [0..M -> Nat]
  BY <1>5, <1>7
<1> QED
  BY <1>2, <1>6, <1>8 DEF next, IsRow

\* LcsTable fills the rows from top to bottom.
LEMMA TableIs ==
    ASSUME NEW a, NEW b, Len(a) \in Nat, Len(b) \in Nat PROVE IsTable(LcsTable(a, b), a, b)
<1> DEFINE N == Len(a)
           M == Len(b)
           V == [0..M -> Nat]
           zero == [j \in 0..M |-> 0]
           step == [i \in 1..N |-> [v \in V |-> NextRow(a, b, v, i)]]
           Is(f) == f = [i \in 0..N |-> IF i = 0 THEN zero ELSE NextRow(a, b, f[i - 1], i)]
           D == CHOOSE f : Is(f)
<1>1. LcsTable(a, b) = D
  BY DEF LcsTable
<1>2. zero \in V
  OBVIOUS
<1>0. \A i \in 1..N : \A v \in V : NextRow(a, b, v, i) \in V
  <2>1. \A i \in 1..N : \A v \in V : IsRow(NextRow(a, b, v, i), a, b, v, i)
    BY RowIs
  <2> QED
    BY <2>1 DEF IsRow
<1> HIDE DEF zero, V
<1>3. PICK r : Along(r, V, zero, N, step)
  <2>1. step \in [1..N -> [V -> V]]
    BY <1>0
  <2> HIDE DEF step
  <2> QED
    BY <1>2, <2>1, StepsExist
<1>4. Is(r)
  <2>1. r \in [0..N -> V] /\ r[0] = zero
    BY <1>3 DEF Along
  <2>2. ASSUME NEW i \in 1..N PROVE r[i] = NextRow(a, b, r[i - 1], i)
    <3>1. r[i - 1] \in V
      BY <2>1
    <3> QED
      BY <1>3, <3>1 DEF Along
  <2> QED
    BY <2>1, <2>2
<1>5. Is(D)
  <2> HIDE DEF Is
  <2> QED
    BY <1>4
<1> HIDE DEF D
<1>6. D[0] = zero /\ \A i \in 1..N : D[i] = NextRow(a, b, D[i - 1], i)
  BY <1>5
<1> DEFINE P == {i \in 0..N : D[i] \in V}
<1>7. \A i \in 0..N : i \in P
  <2>1. 0 \in P
    BY <1>2, <1>6
  <2>2. ASSUME NEW i \in 1..N, i - 1 \in P PROVE i \in P
    BY <1>0, <1>6, <2>2
  <2> HIDE DEF P
  <2> QED
    BY <2>1, <2>2, CountUp
<1>8. D \in [0..N -> V] /\ \A i \in 0..N : D[i] \in V
  BY <1>5, <1>7
<1>9. ASSUME NEW i \in 1..N
      PROVE  /\ D[i][0] = 0
             /\ \A j \in 1..M : D[i][j] = IF a[i] = b[j] THEN D[i - 1][j - 1] + 1
                                                         ELSE Larger(D[i - 1][j], D[i][j - 1])
  <2>1. D[i - 1] \in V /\ D[i] = NextRow(a, b, D[i - 1], i)
    BY <1>6, <1>8
  <2> DEFINE up == D[i - 1]
             here == NextRow(a, b, up, i)
  <2>2. up \in [0..Len(b) -> Nat]
    BY <2>1 DEF V
  <2> HIDE DEF up
  <2>3. IsRow(here, a, b, up, i)
    BY <2>2, RowIs
  <2>4. D[i] = here
    BY <2>1 DEF up
  <2> HIDE DEF here
  <2> QED
    BY <2>3, <2>4 DEF up, IsRow
<1>10. \A j \in 0..M : D[0][j] = 0
  BY <1>6 DEF zero
<1>11. \A i \in 0..N : D[i][0] = 0
  BY <1>9, <1>10
<1>12. D \in [0..N -> [0..M -> Nat]]
  BY <1>8 DEF V
<1> QED
  BY <1>1, <1>9, <1>10, <1>11, <1>12 DEF IsTable

\* A row or a column further, a common subsequence may be longer by one.
LEMMA TableGrows ==
    ASSUME NEW a, NEW b, Len(a) \in Nat, Len(b) \in Nat, NEW D, IsTable(D, a, b)
    PROVE  /\ \A i \in 1..Len(a), j \in 0..Len(b) : D[i - 1][j] \leq D[i][j] /\ D[i][j] \leq D[i - 1][j] + 1
           /\ \A i \in 0..Len(a), j \in 1..Len(b) : D[i][j - 1] \leq D[i][j] /\ D[i][j] \leq D[i][j - 1] + 1
<1> DEFINE N == Len(a)
           M == Len(b)
           Near1(x, y) == x \leq y /\ y \leq x + 1
           Across(i) == \A j \in 1..M : Near1(D[i][j - 1], D[i][j])
           Down1(i) == i # 0 => \A j \in 0..M : Near1(D[i - 1][j], D[i][j])
           P == {i \in 0..N : Across(i) /\ Down1(i)}
<1>0. \A i \in 0..N, j \in 0..M : D[i][j] \in Nat
  BY DEF IsTable
<1>1. 0 \in P
  BY DEF IsTable
<1>2. ASSUME NEW i \in 1..N, i - 1 \in P PROVE i \in P
  <2> DEFINE Q == {j \in 0..M : /\ Near1(D[i - 1][j], D[i][j])
                                /\ j # 0 => Near1(D[i][j - 1], D[i][j])}
  <2>1. 0 \in Q
    <3>1. D[i][0] = 0 /\ D[i - 1][0] = 0
      BY DEF IsTable
    <3> QED
      BY <3>1
  <2>2. ASSUME NEW j \in 1..M, j - 1 \in Q PROVE j \in Q
    <3> DEFINE x == D[i - 1][j - 1]
               up == D[i - 1][j]
               left == D[i][j - 1]
               here == D[i][j]
    <3>1. x \in Nat /\ up \in Nat /\ left \in Nat /\ here \in Nat
      <4>1. i - 1 \in 0..N /\ i \in 0..N /\ j - 1 \in 0..M /\ j \in 0..M
        OBVIOUS
      <4> QED
        BY <1>0, <4>1
    <3>2. Near1(x, up)
      BY <1>2
    <3>3. Near1(x, left)
      BY <2>2
    <3>4. here = IF a[i] = b[j] THEN x + 1 ELSE Larger(up, left)
      BY DEF IsTable
    <3> HIDE DEF x, up, left, here
    <3>5. Near1(up, here) /\ Near1(left, here)
      BY <3>1, <3>2, <3>3, <3>4 DEF Larger
    <3> HIDE DEF Near1
    <3> QED
      BY <3>5 DEF up, left, here
  <2>3. \A j \in 0..M : j \in Q
    <3> HIDE DEF Q
    <3> QED
      BY <2>1, <2>2, CountUp
  <2> HIDE DEF Near1
  <2>4. Across(i) /\ Down1(i)
    BY <2>3
  <2> QED
    BY <2>4
<1>3. \A i \in 0..N : i \in P
  <2> HIDE DEF P
  <2> QED
    BY <1>1, <1>2, CountUp
<1> HIDE DEF Near1
<1>4. /\ \A i \in 1..N, j \in 0..M : Near1(D[i - 1][j], D[i][j])
      /\ \A i \in 0..N, j \in 1..M : Near1(D[i][j - 1], D[i][j])
  BY <1>3
<1> QED
  BY <1>4 DEF Near1

----------------------------------------------------------------------------
(* No common subsequence is longer than the table says                     *)

\* Some subsequences with a line more to choose from.
LEMMA LongerIsTyped ==
    ASSUME NEW T, NEW some \in SUBSET Seq(T), NEW line \in T PROVE Longer(some, line) \in SUBSET Seq(T)
<1>1. \A t \in some : Append(t, line) \in Seq(T)
  OBVIOUS
<1> QED
  BY <1>1 DEF Longer

\* What is left of longer and longer beginnings.
LEMMA SubsequencesAlong ==
    ASSUME NEW T, NEW lines \in Seq(T)
    PROVE  \E r : /\ r \in [0..Len(lines) -> SUBSET Seq(T)] /\ r[0] = {<<>>}
                  /\ \A n \in 1..Len(lines) : r[n] = Longer(r[n - 1], lines[n])
                  /\ FoldLeft(Longer, {<<>>}, lines) = r[Len(lines)]
<1> DEFINE N == Len(lines)
           V == SUBSET Seq(T)
           s == {<<>>}
           Goes(a, v) == Longer(a, v)
           Is(h) == h = [S \in SUBSET (1..N) |-> IF S = {} THEN s
                                                  ELSE Goes(h[S \ {Max(S)}], lines[Max(S)])]
           F == CHOOSE h : Is(h)
           step == [i \in 1..N |-> [a \in V |-> Goes(a, lines[i])]]
<1>1. N \in Nat /\ DOMAIN lines = 1..N /\ \A i \in 1..N : lines[i] \in T
  OBVIOUS
<1>2. s \in V
  OBVIOUS
<1>3. \A a \in V : \A i \in 1..N : Goes(a, lines[i]) \in V
  <2>1. ASSUME NEW a \in V, NEW i \in 1..N PROVE Goes(a, lines[i]) \in V
    <3>1. lines[i] \in T
      BY <1>1
    <3> QED
      BY <3>1, LongerIsTyped
  <2> QED
    BY <2>1
<1>4. FoldLeft(Longer, {<<>>}, lines) = F[1..N]
  <2>1. FoldLeft(Longer, {<<>>}, lines) =
          (CHOOSE h : h = [S \in SUBSET DOMAIN lines |-> IF S = {} THEN s
                              ELSE Goes(h[S \ {Max(S)}], lines[Max(S)])])[DOMAIN lines]
    BY DEF FoldLeft, MapThenFoldSet
  <2> HIDE DEF Goes, N
  <2> QED
    BY <1>1, <2>1
<1> HIDE DEF Goes, N, V, s
<1>5. step \in [1..N -> [V -> V]]
  BY <1>3
<1>6. PICK h \in [SUBSET (1..N) -> V] : FoldOf(h, s, N, step)
  <2> HIDE DEF step
  <2> QED
    BY <1>1, <1>2, <1>5, FoldsExist
<1>7. \A S \in SUBSET (1..N) : S # {} => Max(S) \in 1..N
  BY <1>1, MaxIsIn
<1>8. Is(h)
  <2>1. ASSUME NEW S \in SUBSET (1..N), S # {}
        PROVE  step[Max(S)][h[S \ {Max(S)}]] = Goes(h[S \ {Max(S)}], lines[Max(S)])
    <3>1. h[S \ {Max(S)}] \in V
      BY <1>6
    <3> QED
      BY <1>7, <2>1, <3>1
  <2> HIDE DEF step
  <2> QED
    BY <1>6, <2>1 DEF FoldOf
<1>9. Is(F)
  <2> HIDE DEF Is
  <2> QED
    BY <1>8
<1> HIDE DEF F
<1>10. Folded(F, V, s, N, step)
  BY <1>7, <1>9 DEF Folded
<1>11. PICK r : Along(r, V, s, N, step) /\ F[1..N] = r[N]
  <2>1. N \in Nat
    BY <1>1
  <2> HIDE DEF step, Is
  <2> QED
    BY <2>1, <1>2, <1>5, <1>10, FoldedAlong
<1>12. ASSUME NEW n \in 1..N PROVE r[n] = Goes(r[n - 1], lines[n])
  <2>1. r[n - 1] \in V
    BY <1>1, <1>11 DEF Along
  <2>2. r[n] = step[n][r[n - 1]]
    <3> HIDE DEF step
    <3> QED
      BY <1>11 DEF Along
  <2> QED
    BY <2>1, <2>2
<1> QED
  BY <1>4, <1>11, <1>12 DEF N, Goes, V, s, Along

\* Equal sequences end in equal elements.
LEMMA AppendsAreEqual ==
    ASSUME NEW T, NEW s \in Seq(T), NEW t \in Seq(T), NEW c \in T, NEW d \in T, Append(s, c) = Append(t, d)
    PROVE  s = t /\ c = d
<1>1. Len(s) = Len(t) /\ Len(s) \in Nat
  <2>1. Len(Append(s, c)) = Len(s) + 1 /\ Len(Append(t, d)) = Len(t) + 1
    OBVIOUS
  <2> QED
    BY <2>1
<1>2. Append(s, c)[Len(s) + 1] = c /\ Append(t, d)[Len(t) + 1] = d
  OBVIOUS
<1>3. \A k \in 1..Len(s) : Append(s, c)[k] = s[k] /\ Append(t, d)[k] = t[k]
  BY <1>1
<1>4. \A k \in 1..Len(s) : s[k] = t[k]
  BY <1>3
<1>5. s = t
  BY <1>1, <1>4
<1>6. c = d
  BY <1>1, <1>2
<1> QED
  BY <1>5, <1>6

\* No common subsequence is longer than the table says.
LEMMA CommonIsNoLonger ==
    ASSUME NEW T, NEW a \in Seq(T), NEW b \in Seq(T), NEW D, IsTable(D, a, b)
    PROVE  \A t \in Subsequences(a) \cap Subsequences(b) : t \in Seq(T) /\ Len(t) \leq D[Len(a)][Len(b)]
<1> DEFINE N == Len(a)
           M == Len(b)
<1>0. N \in Nat /\ M \in Nat
  OBVIOUS
<1>1. PICK ra : /\ ra \in [0..N -> SUBSET Seq(T)] /\ ra[0] = {<<>>}
                /\ \A n \in 1..N : ra[n] = Longer(ra[n - 1], a[n])
                /\ FoldLeft(Longer, {<<>>}, a) = ra[N]
  BY SubsequencesAlong
<1>2. PICK rb : /\ rb \in [0..M -> SUBSET Seq(T)] /\ rb[0] = {<<>>}
                /\ \A n \in 1..M : rb[n] = Longer(rb[n - 1], b[n])
                /\ FoldLeft(Longer, {<<>>}, b) = rb[M]
  BY SubsequencesAlong
<1> DEFINE Short(i, j) == \A t \in ra[i] \cap rb[j] : Len(t) \leq D[i][j]
           P == {i \in 0..N : \A j \in 0..M : Short(i, j)}
<1>3. \A i \in 0..N, j \in 0..M : D[i][j] \in Nat
  BY <1>0 DEF IsTable
<1>4. \A i \in 0..N, j \in 0..M : \A t \in ra[i] \cup rb[j] : t \in Seq(T) /\ Len(t) \in Nat
  BY <1>1, <1>2
<1>5. \A j \in 0..M : Short(0, j)
  <2>1. \A t \in ra[0] : Len(t) = 0
    BY <1>1
  <2> QED
    BY <1>0, <1>3, <2>1
<1>6. ASSUME NEW i \in 1..N, i - 1 \in P PROVE i \in P
  <2>0. i - 1 \in 0..N /\ i \in 0..N /\ 0 \in 0..M
    BY <1>0
  <2> DEFINE Q == {j \in 0..M : Short(i, j)}
  <2>1. 0 \in Q
    <3>1. \A t \in rb[0] : Len(t) = 0
      BY <1>2
    <3>2. D[i][0] \in Nat
      BY <1>3, <2>0
    <3> QED
      BY <2>0, <3>1, <3>2
  <2>2. ASSUME NEW j \in 1..M, j - 1 \in Q PROVE j \in Q
    <3>0. j - 1 \in 0..M /\ j \in 0..M
      BY <1>0
    <3> DEFINE x == D[i - 1][j - 1]
               up == D[i - 1][j]
               left == D[i][j - 1]
               here == D[i][j]
    <3>1. x \in Nat /\ up \in Nat /\ left \in Nat /\ here \in Nat
      BY <1>3, <2>0, <3>0
    <3>2. up \leq here /\ left \leq here
      BY <1>0, <2>0, <3>0, TableGrows
    <3>3. a[i] = b[j] => here = x + 1
      BY DEF IsTable
    <3>4. Short(i - 1, j) /\ Short(i - 1, j - 1)
      BY <1>6, <3>0
    <3>5. Short(i, j - 1)
      BY <2>2
    <3> HIDE DEF x, up, left, here
    <3>6. ASSUME NEW t \in ra[i] \cap rb[j] PROVE Len(t) \leq here
      <4>0. t \in Seq(T) /\ Len(t) \in Nat
        BY <1>4, <2>0, <3>0
      <4>1. t \in ra[i - 1] \/ \E u \in ra[i - 1] : t = Append(u, a[i])
        <5>1. t \in Longer(ra[i - 1], a[i])
          BY <1>1
        <5> QED
          BY <5>1 DEF Longer
      <4>2. t \in rb[j - 1] \/ \E u \in rb[j - 1] : t = Append(u, b[j])
        <5>1. t \in Longer(rb[j - 1], b[j])
          BY <1>2
        <5> QED
          BY <5>1 DEF Longer
      <4>3. CASE t \in ra[i - 1]
        <5>1. Len(t) \leq up
          BY <3>4, <4>3 DEF up
        <5> QED
          BY <3>1, <3>2, <4>0, <5>1
      <4>4. CASE t \in rb[j - 1]
        <5>1. Len(t) \leq left
          BY <3>5, <4>4 DEF left
        <5> QED
          BY <3>1, <3>2, <4>0, <5>1
      <4>5. ASSUME NEW u \in ra[i - 1], NEW v \in rb[j - 1], t = Append(u, a[i]), t = Append(v, b[j])
            PROVE  Len(t) \leq here
        <5>1. u \in Seq(T) /\ v \in Seq(T) /\ Len(u) \in Nat
          BY <1>4, <2>0, <3>0
        <5>2. u = v /\ a[i] = b[j] /\ Len(t) = Len(u) + 1
          <6>1. a[i] \in T /\ b[j] \in T
            OBVIOUS
          <6>2. u = v /\ a[i] = b[j]
            <7> DEFINE c == a[i]
                       d == b[j]
            <7>1. Append(u, c) = Append(v, d) /\ c \in T /\ d \in T
              BY <4>5, <6>1
            <7> HIDE DEF c, d
            <7>2. u = v /\ c = d
              BY <5>1, <7>1, AppendsAreEqual
            <7> QED
              BY <7>2 DEF c, d
          <6>3. Len(Append(u, a[i])) = Len(u) + 1
            BY <5>1, <6>1
          <6> QED
            BY <4>5, <6>2, <6>3
        <5>3. u \in ra[i - 1] \cap rb[j - 1]
          BY <5>2
        <5>4. Len(u) \leq x
          BY <3>4, <5>3 DEF x
        <5> QED
          BY <3>1, <3>3, <5>1, <5>2, <5>4
      <4> QED
        BY <4>1, <4>2, <4>3, <4>4, <4>5
    <3> QED
      BY <3>0, <3>6 DEF here
  <2>3. \A j \in 0..M : j \in Q
    <3> HIDE DEF Q
    <3> QED
      BY <1>0, <2>1, <2>2, CountUp
  <2> QED
    BY <2>0, <2>3
<1>7. N \in P
  <2>1. 0 \in P
    BY <1>0, <1>5
  <2> HIDE DEF P
  <2>2. \A i \in 0..N : i \in P
    BY <1>0, <1>6, <2>1, CountUp
  <2> QED
    BY <1>0, <2>2
<1>8. Subsequences(a) = ra[N] /\ Subsequences(b) = rb[M]
  BY <1>1, <1>2 DEF Subsequences
<1>9. N \in 0..N /\ M \in 0..M
  BY <1>0
<1>10. Short(N, M)
  BY <1>7, <1>9
<1> QED
  BY <1>4, <1>8, <1>9, <1>10

----------------------------------------------------------------------------
(* The script that the walk back reads from the table                        *)

Edit(T) == [type : {"Unchanged", "Added", "Deleted"}, text : T, old : Nat, new : Nat]

\* What an edit does that leads from the first i old and j new lines to the
\* first p old and q new ones.
EditOf(e, a, b, i, j, p, q) ==
    \/ /\ e.type = "Unchanged" /\ p = i + 1 /\ q = j + 1
       /\ e.text = a[p] /\ e.text = b[q] /\ e.old = p /\ e.new = q
    \/ e.type = "Added" /\ p = i /\ q = j + 1 /\ e.text = b[q] /\ e.new = q
    \/ e.type = "Deleted" /\ p = i + 1 /\ q = j /\ e.text = a[p] /\ e.old = p

\* The script E leads from o[0] old and w[0] new lines to all of them; o and w
\* say how many there are after each edit.
Script(E, a, b, o, w) ==
    /\ o \in [0..Len(E) -> 0..Len(a)] /\ w \in [0..Len(E) -> 0..Len(b)]
    /\ o[Len(E)] = Len(a) /\ w[Len(E)] = Len(b)
    /\ \A k \in 1..Len(E) : EditOf(E[k], a, b, o[k - 1], w[k - 1], o[k], w[k])

\* A script with one more edit before it.
LEMMA ScriptGrows ==
    ASSUME NEW T, NEW a \in Seq(T), NEW b \in Seq(T), NEW E \in Seq(Edit(T)), NEW o, NEW w,
           Script(E, a, b, o, w), NEW e \in Edit(T), NEW i \in 0..Len(a), NEW j \in 0..Len(b),
           EditOf(e, a, b, i, j, o[0], w[0])
    PROVE  /\ <<e>> \o E \in Seq(Edit(T)) /\ Len(<<e>> \o E) = Len(E) + 1
           /\ \E p, q : Script(<<e>> \o E, a, b, p, q) /\ p[0] = i /\ q[0] = j
<1> DEFINE K == Len(E)
           F == <<e>> \o E
           p == [k \in 0..(K + 1) |-> IF k = 0 THEN i ELSE o[k - 1]]
           q == [k \in 0..(K + 1) |-> IF k = 0 THEN j ELSE w[k - 1]]
<1>1. F \in Seq(Edit(T)) /\ Len(F) = K + 1 /\ F[1] = e /\ \A k \in 2..(K + 1) : F[k] = E[k - 1]
  OBVIOUS
<1>2. K \in Nat /\ K + 1 # 0 /\ K + 1 \in 0..(K + 1) /\ 0 \in 0..(K + 1) /\ K + 1 - 1 = K
  OBVIOUS
<1>3. \A k \in 1..(K + 1) : k \in 0..(K + 1) /\ k - 1 \in 0..K /\ k # 0 /\ k - 1 \in 0..(K + 1)
  BY <1>2
<1>4. p[0] = i /\ q[0] = j /\ \A k \in 1..(K + 1) : p[k] = o[k - 1] /\ q[k] = w[k - 1]
  BY <1>2, <1>3
<1>5. p \in [0..(K + 1) -> 0..Len(a)] /\ q \in [0..(K + 1) -> 0..Len(b)]
  <2>1. \A k \in 0..K : o[k] \in 0..Len(a) /\ w[k] \in 0..Len(b)
    BY DEF Script
  <2>2. \A k \in 0..(K + 1) : k = 0 \/ k \in 1..(K + 1)
    BY <1>2
  <2>3. \A k \in 0..(K + 1) : p[k] \in 0..Len(a) /\ q[k] \in 0..Len(b)
    BY <1>3, <1>4, <2>1, <2>2
  <2> QED
    BY <2>3
<1>6. p[K + 1] = Len(a) /\ q[K + 1] = Len(b)
  BY <1>2, <1>4 DEF Script
<1> HIDE DEF p, q, F
<1>7. ASSUME NEW k \in 1..(K + 1) PROVE EditOf(F[k], a, b, p[k - 1], q[k - 1], p[k], q[k])
  <2>1. CASE k = 1
    <3>1. p[k - 1] = i /\ q[k - 1] = j /\ p[k] = o[0] /\ q[k] = w[0] /\ F[k] = e
      <4>1. k - 1 = 0
        BY <2>1
      <4> QED
        BY <1>1, <1>4, <2>1, <4>1
    <3> QED
      BY <3>1
  <2>2. CASE k # 1
    <3>1. k - 1 \in 1..K /\ k \in 2..(K + 1) /\ k - 1 \in 1..(K + 1)
      BY <1>2, <2>2
    <3>2. EditOf(E[k - 1], a, b, o[k - 1 - 1], w[k - 1 - 1], o[k - 1], w[k - 1])
      BY <3>1 DEF Script
    <3>3. p[k - 1] = o[k - 1 - 1] /\ q[k - 1] = w[k - 1 - 1] /\ p[k] = o[k - 1] /\ q[k] = w[k - 1]
      BY <1>4, <3>1
    <3>4. F[k] = E[k - 1]
      BY <1>1, <3>1
    <3> QED
      BY <3>2, <3>3, <3>4
  <2> QED
    BY <2>1, <2>2
<1>8. Script(F, a, b, p, q)
  BY <1>1, <1>5, <1>6, <1>7 DEF Script
<1> QED
  BY <1>1, <1>4, <1>8 DEF F

\* The walk has been through the script from here on; its length is that of
\* the texts without what they have in common.
WalkInv(at, T, a, b, D) ==
    /\ at.i \in 0..Len(a) /\ at.j \in 0..Len(b) /\ at.edits \in Seq(Edit(T))
    /\ \E o, w : Script(at.edits, a, b, o, w) /\ o[0] = at.i /\ w[0] = at.j
    /\ Len(at.edits) + at.i + at.j + D[Len(a)][Len(b)] = Len(a) + Len(b) + D[at.i][at.j]

\* A turn of the walk back adds an edit before the script, and what the script
\* has too many the table has less.
LEMMA TurnKeeps ==
    ASSUME NEW T, NEW a \in Seq(T), NEW b \in Seq(T), NEW D, IsTable(D, a, b),
           NEW at, WalkInv(at, T, a, b, D)
    PROVE  /\ WalkInv(WalkBack(a, b, D, at), T, a, b, D)
           /\ WalkBack(a, b, D, at).i + WalkBack(a, b, D, at).j < at.i + at.j \/ at.i + at.j = 0
<1> DEFINE N == Len(a)
           M == Len(b)
           i == at.i
           j == at.j
           E == at.edits
           then == WalkBack(a, b, D, at)
           After(e, p, q) == [i |-> p, j |-> q, edits |-> <<e>> \o E]
           same == [type |-> "Unchanged", text |-> a[i], old |-> i, new |-> j]
           more == [type |-> "Added", text |-> b[j], old |-> 0, new |-> j]
           gone == [type |-> "Deleted", text |-> a[i], old |-> i, new |-> 0]
<1>1. /\ i \in 0..N /\ j \in 0..M /\ E \in Seq(Edit(T)) /\ N \in Nat /\ M \in Nat /\ Len(E) \in Nat
      /\ Len(E) + i + j + D[N][M] = N + M + D[i][j]
  BY DEF WalkInv
<1>2. PICK o, w : Script(E, a, b, o, w) /\ o[0] = i /\ w[0] = j
  BY DEF WalkInv
<1>3. \A p \in 0..N, q \in 0..M : D[p][q] \in Nat
  BY DEF IsTable
<1>4. D[N][M] \in Nat /\ D[i][j] \in Nat
  <2>1. N \in 0..N /\ M \in 0..M
    BY <1>1
  <2> QED
    BY <1>1, <1>3, <2>1
<1>5. ASSUME NEW e \in Edit(T), NEW p \in 0..N, NEW q \in 0..M, then = After(e, p, q),
             EditOf(e, a, b, p, q, i, j), 1 + p + q + D[i][j] = i + j + D[p][q]
      PROVE  WalkInv(then, T, a, b, D) /\ then.i + then.j < i + j
  <2>1. then.i = p /\ then.j = q /\ then.edits = <<e>> \o E
    BY <1>5
  <2>2. EditOf(e, a, b, p, q, o[0], w[0])
    BY <1>2, <1>5
  <2>3. /\ <<e>> \o E \in Seq(Edit(T)) /\ Len(<<e>> \o E) = Len(E) + 1
        /\ \E r, s : Script(<<e>> \o E, a, b, r, s) /\ r[0] = p /\ s[0] = q
    <3> HIDE DEF E
    <3> QED
      BY <1>1, <1>2, <2>2, ScriptGrows
  <2>4. D[p][q] \in Nat
    BY <1>3
  <2>5. Len(<<e>> \o E) + p + q + D[N][M] = N + M + D[p][q]
    <3> DEFINE x == D[p][q]
               y == D[i][j]
               z == D[N][M]
               n == Len(E)
               m == Len(<<e>> \o E)
    <3>1. x \in Nat /\ y \in Nat /\ z \in Nat /\ n \in Nat /\ m = n + 1
      BY <1>1, <1>4, <2>3, <2>4
    <3>2. n + i + j + z = N + M + y /\ 1 + p + q + y = i + j + x
      BY <1>1, <1>5
    <3>3. i \in Nat /\ j \in Nat /\ p \in Nat /\ q \in Nat /\ N \in Nat /\ M \in Nat
      BY <1>1
    <3> HIDE DEF x, y, z, n, m, i, j, N, M
    <3>4. m + p + q + z = N + M + x
      BY <3>1, <3>2, <3>3
    <3> QED
      BY <3>4 DEF x, z, m
  <2>6. p + q < i + j
    <3>1. p + q + 1 \leq i + j
      <4>1. (i = p + 1 /\ j = q + 1) \/ (i = p /\ j = q + 1) \/ (i = p + 1 /\ j = q)
        BY <1>5 DEF EditOf
      <4> QED
        BY <1>1, <4>1
    <3> QED
      BY <1>1, <3>1
  <2> HIDE DEF then, After
  <2> QED
    BY <2>1, <2>3, <2>5, <2>6 DEF WalkInv
<1>6. CASE i = 0 /\ j = 0
  <2>1. then = at
    BY <1>6 DEF WalkBack
  <2> QED
    BY <1>6, <2>1
<1>7. CASE i > 0 /\ j > 0 /\ a[i] = b[j]
  <2>1. i \in 1..N /\ j \in 1..M /\ i - 1 \in 0..N /\ j - 1 \in 0..M
    BY <1>1, <1>7
  <2>2. then = After(same, i - 1, j - 1)
    BY <1>1, <1>7 DEF WalkBack
  <2>3. same \in Edit(T)
    BY <2>1 DEF Edit
  <2>4. EditOf(same, a, b, i - 1, j - 1, i, j)
    <3>1. i = i - 1 + 1 /\ j = j - 1 + 1
      BY <2>1
    <3> QED
      BY <1>7, <3>1 DEF EditOf
  <2>5. D[i][j] = D[i - 1][j - 1] + 1
    BY <1>7, <2>1 DEF IsTable
  <2>6. 1 + (i - 1) + (j - 1) + D[i][j] = i + j + D[i - 1][j - 1]
    <3> DEFINE x == D[i - 1][j - 1]
               y == D[i][j]
    <3>1. x \in Nat /\ y = x + 1 /\ i \in Nat /\ j \in Nat
      BY <1>1, <1>3, <2>1, <2>5
    <3> HIDE DEF x, y, i, j
    <3>2. 1 + (i - 1) + (j - 1) + y = i + j + x
      BY <3>1
    <3> QED
      BY <3>2 DEF x, y
  <2> HIDE DEF After, same
  <2> QED
    BY <1>5, <2>1, <2>2, <2>3, <2>4, <2>6
<1>8. CASE ~(i > 0 /\ j > 0 /\ a[i] = b[j]) /\ j > 0 /\ (i = 0 \/ D[i][j - 1] >= D[i - 1][j])
  <2>1. j \in 1..M /\ j - 1 \in 0..M
    BY <1>1, <1>8
  <2>2. then = After(more, i, j - 1)
    <3>1. ~(i = 0 /\ j = 0) /\ i - 0 = i
      BY <1>1, <2>1
    <3> QED
      BY <1>8, <3>1 DEF WalkBack
  <2>3. more \in Edit(T)
    BY <2>1 DEF Edit
  <2>4. EditOf(more, a, b, i, j - 1, i, j)
    <3>1. j = j - 1 + 1
      BY <2>1
    <3> QED
      BY <3>1 DEF EditOf
  <2>5. D[i][j] = D[i][j - 1]
    <3>1. CASE i = 0
      BY <1>1, <2>1, <3>1 DEF IsTable
    <3>2. CASE i # 0
      <4>1. i \in 1..N /\ i - 1 \in 0..N /\ a[i] # b[j]
        BY <1>1, <1>8, <2>1, <3>2
      <4>2. D[i][j] = Larger(D[i - 1][j], D[i][j - 1])
        BY <2>1, <4>1 DEF IsTable
      <4>3. D[i - 1][j] \in Nat /\ D[i][j - 1] \in Nat
        BY <1>1, <1>3, <2>1, <4>1
      <4> QED
        BY <1>8, <3>2, <4>2, <4>3 DEF Larger
    <3> QED
      BY <3>1, <3>2
  <2>6. 1 + i + (j - 1) + D[i][j] = i + j + D[i][j - 1]
    <3> DEFINE y == D[i][j]
    <3>1. y \in Nat /\ y = D[i][j - 1] /\ i \in Nat /\ j \in Nat
      BY <1>1, <1>4, <2>5
    <3> HIDE DEF y, i, j
    <3>2. 1 + i + (j - 1) + y = i + j + y
      BY <3>1
    <3> QED
      BY <3>1, <3>2 DEF y
  <2> HIDE DEF After, more
  <2> QED
    BY <1>1, <1>5, <2>1, <2>2, <2>3, <2>4, <2>6
<1>9. CASE /\ ~(i = 0 /\ j = 0) /\ ~(i > 0 /\ j > 0 /\ a[i] = b[j])
           /\ ~(j > 0 /\ (i = 0 \/ D[i][j - 1] >= D[i - 1][j]))
  <2>1. i \in 1..N /\ i - 1 \in 0..N
    BY <1>1, <1>9
  <2>2. then = After(gone, i - 1, j)
    <3>1. j - 0 = j
      BY <1>1
    <3> QED
      BY <1>9, <3>1 DEF WalkBack
  <2>3. gone \in Edit(T)
    BY <2>1 DEF Edit
  <2>4. EditOf(gone, a, b, i - 1, j, i, j)
    <3>1. i = i - 1 + 1
      BY <2>1
    <3> QED
      BY <3>1 DEF EditOf
  <2>5. D[i][j] = D[i - 1][j]
    <3>1. CASE j = 0
      BY <1>1, <2>1, <3>1 DEF IsTable
    <3>2. CASE j # 0
      <4>1. j \in 1..M /\ j - 1 \in 0..M /\ a[i] # b[j] /\ ~(D[i][j - 1] >= D[i - 1][j])
        BY <1>1, <1>9, <2>1, <3>2
      <4>2. D[i][j] = Larger(D[i - 1][j], D[i][j - 1])
        BY <2>1, <4>1 DEF IsTable
      <4>3. D[i - 1][j] \in Nat /\ D[i][j - 1] \in Nat
        BY <1>1, <1>3, <2>1, <4>1
      <4> QED
        BY <4>1, <4>2, <4>3 DEF Larger
    <3> QED
      BY <3>1, <3>2
  <2>6. 1 + (i - 1) + j + D[i][j] = i + j + D[i - 1][j]
    BY <1>1, <1>4, <2>1, <2>5
  <2> HIDE DEF After, gone
  <2> QED
    BY <1>1, <1>5, <2>1, <2>2, <2>3, <2>4, <2>6
<1> QED
  BY <1>6, <1>7, <1>8, <1>9

\* computeDiffEdits gives a script between the texts, of the length that the
\* last cell of the table says.
LEMMA EditsAreScript ==
    ASSUME NEW T, NEW a \in Seq(T), NEW b \in Seq(T)
    PROVE  /\ ComputeDiffEdits(a, b) \in Seq(Edit(T))
           /\ \E o, w : Script(ComputeDiffEdits(a, b), a, b, o, w) /\ o[0] = 0 /\ w[0] = 0
           /\ Len(ComputeDiffEdits(a, b)) + LcsTable(a, b)[Len(a)][Len(b)] = Len(a) + Len(b)
<1> DEFINE N == Len(a)
           M == Len(b)
           K == N + M
           D == LcsTable(a, b)
           start == [i |-> N, j |-> M, edits |-> <<>>]
           V == {at \in [i : 0..N, j : 0..M, edits : Seq(Edit(T))] : WalkInv(at, T, a, b, D)}
           step == [k \in 1..K |-> [at \in V |-> WalkBack(a, b, D, at)]]
           Is(f) == f = [k \in 0..K |-> IF k = 0 THEN start ELSE WalkBack(a, b, D, f[k - 1])]
           walk == CHOOSE f : Is(f)
<1>0. N \in Nat /\ M \in Nat /\ K \in Nat
  OBVIOUS
<1>1. IsTable(D, a, b)
  BY <1>0, TableIs
<1>2. ComputeDiffEdits(a, b) = walk[K].edits
  BY DEF ComputeDiffEdits
<1> HIDE DEF D, walk
<1>3. D[N][M] \in Nat
  BY <1>0, <1>1 DEF IsTable
<1>4. start \in V
  <2> DEFINE o == [k \in 0..0 |-> N]
             w == [k \in 0..0 |-> M]
  <2>1. start.edits = <<>> /\ start.i = N /\ start.j = M
    OBVIOUS
  <2>2. Script(<<>>, a, b, o, w)
    BY <1>0 DEF Script
  <2>3. o[0] = N /\ w[0] = M
    OBVIOUS
  <2> HIDE DEF o, w
  <2>4. WalkInv(start, T, a, b, D)
    <3> HIDE DEF start
    <3> QED
      BY <1>0, <1>3, <2>1, <2>2, <2>3 DEF WalkInv
  <2> QED
    BY <1>0, <2>4
<1>5. \A at \in V : WalkBack(a, b, D, at) \in V
  <2>1. ASSUME NEW at \in V PROVE WalkBack(a, b, D, at) \in V
    <3> DEFINE then == WalkBack(a, b, D, at)
    <3>1. WalkInv(at, T, a, b, D) /\ at \in [i : 0..N, j : 0..M, edits : Seq(Edit(T))]
      OBVIOUS
    <3>2. WalkInv(then, T, a, b, D)
      BY <1>1, <3>1, TurnKeeps
    <3>3. then.i \in 0..N /\ then.j \in 0..M /\ then.edits \in Seq(Edit(T))
      BY <3>2 DEF WalkInv
    <3>4. then = at \/ \E p, q, r : then = [i |-> p, j |-> q, edits |-> r]
      BY DEF WalkBack
    <3> HIDE DEF then
    <3>5. then \in [i : 0..N, j : 0..M, edits : Seq(Edit(T))]
      BY <3>1, <3>3, <3>4
    <3> QED
      BY <3>2, <3>5 DEF then
  <2> QED
    BY <2>1
<1> HIDE DEF V, start
<1>6. PICK r : Along(r, V, start, K, step)
  <2>1. step \in [1..K -> [V -> V]]
    BY <1>5
  <2> HIDE DEF step, K
  <2> QED
    BY <1>0, <1>4, <2>1, StepsExist
<1>7. Is(r)
  <2> HIDE DEF K
  <2>1. r \in [0..K -> V] /\ r[0] = start
    BY <1>6 DEF Along
  <2>2. ASSUME NEW k \in 1..K PROVE r[k] = WalkBack(a, b, D, r[k - 1])
    <3>1. r[k - 1] \in V
      BY <1>0, <2>1
    <3>2. r[k] = step[k][r[k - 1]]
      <4> HIDE DEF step
      <4> QED
        BY <1>6 DEF Along
    <3> QED
      BY <3>1, <3>2
  <2> QED
    BY <2>1, <2>2
<1>8. Is(walk)
  <2> HIDE DEF Is
  <2> QED
    BY <1>7 DEF walk
<1> HIDE DEF K
<1>9. walk[0] = start /\ \A k \in 1..K : walk[k] = WalkBack(a, b, D, walk[k - 1])
  BY <1>0, <1>8
<1> DEFINE P == {k \in 0..K : walk[k] \in V /\ walk[k].i + walk[k].j \leq K - k}
<1>10. K \in P
  <2>1. 0 \in P
    <3>1. start.i + start.j = K
      BY DEF start, K
    <3> QED
      BY <1>0, <1>4, <1>9, <3>1
  <2>2. ASSUME NEW k \in 1..K, k - 1 \in P PROVE k \in P
    <3> DEFINE at == walk[k - 1]
               then == walk[k]
    <3>1. at \in V /\ then = WalkBack(a, b, D, at) /\ at.i + at.j \leq K - (k - 1)
      BY <1>9, <2>2
    <3> HIDE DEF at, then
    <3>2. then \in V /\ WalkInv(at, T, a, b, D)
      BY <1>5, <3>1 DEF V
    <3>3. then.i + then.j < at.i + at.j \/ at.i + at.j = 0
      BY <1>1, <3>1, <3>2, TurnKeeps
    <3>4. then.i \in Nat /\ then.j \in Nat /\ at.i \in Nat /\ at.j \in Nat
      BY <1>0, <3>1, <3>2 DEF V
    <3>5. then.i + then.j \leq K - k
      <4>1. CASE then.i + then.j < at.i + at.j
        BY <1>0, <3>1, <3>4, <4>1
      <4>2. CASE at.i + at.j = 0
        <5>1. at.i = 0 /\ at.j = 0
          BY <3>4, <4>2
        <5>2. then = at
          BY <3>1, <5>1 DEF WalkBack
        <5> QED
          BY <1>0, <5>1, <5>2
      <4> QED
        BY <3>3, <4>1, <4>2
    <3> QED
      BY <3>2, <3>5 DEF then
  <2> HIDE DEF P
  <2>3. \A k \in 0..K : k \in P
    BY <1>0, <2>1, <2>2, CountUp
  <2> QED
    BY <1>0, <2>3
<1> DEFINE end == walk[K]
<1>11. end \in V /\ end.i + end.j \leq K - K
  BY <1>10
<1> HIDE DEF end
<1>12. /\ WalkInv(end, T, a, b, D) /\ end.i \in 0..N /\ end.j \in 0..M
  BY <1>11 DEF V
<1>13. end.i = 0 /\ end.j = 0
  BY <1>0, <1>11, <1>12
<1>14. D[0][0] = 0
  BY <1>0, <1>1 DEF IsTable
<1>15. /\ end.edits \in Seq(Edit(T))
       /\ \E o, w : Script(end.edits, a, b, o, w) /\ o[0] = 0 /\ w[0] = 0
  BY <1>12, <1>13 DEF WalkInv
<1>16. Len(end.edits) + D[N][M] = N + M
  <2>1. Len(end.edits) + 0 + 0 + D[N][M] = N + M + 0
    BY <1>12, <1>13, <1>14 DEF WalkInv
  <2>2. Len(end.edits) \in Nat
    BY <1>15
  <2> QED
    BY <1>0, <1>3, <2>1, <2>2
<1> QED
  BY <1>2, <1>15, <1>16 DEF end, D

----------------------------------------------------------------------------
(* The clusters of buildHunks                                               *)

\* The clusters of the first k edits: far from each other, each changed edit
\* in one of them.
ClusterInv(C, E, k) ==
    /\ C \in Seq((1..Len(E)) \X (1..Len(E)))
    /\ \A c \in 1..Len(C) : C[c][1] \leq C[c][2] /\ C[c][2] \leq k
    /\ \A c, d \in 1..Len(C) : c < d => C[c][2] + 2 * Context < C[d][1]
    /\ \A x \in 1..k : E[x].type # "Unchanged" =>
          \E c \in 1..Len(C) : C[c][1] \leq x /\ x \leq C[c][2]

LEMMA ClusteredKeeps ==
    ASSUME NEW E, Len(E) \in Nat, NEW k \in 1..Len(E), NEW C, ClusterInv(C, E, k - 1)
    PROVE  ClusterInv(Clustered(E, C, k), E, k)
<1> DEFINE Place == 1..Len(E)
           n == Len(C)
           then == Clustered(E, C, k)
           Holds(c, x) == C[c][1] \leq x /\ x \leq C[c][2]
<1>1. C \in Seq(Place \X Place) /\ n \in Nat /\ Context \in Nat /\ 2 * Context \in Nat
  BY ContextAssumption DEF ClusterInv
<1>2. /\ \A c \in 1..n : C[c][1] \in Place /\ C[c][2] \in Place /\ C[c][1] \leq C[c][2] /\ C[c][2] \leq k - 1
      /\ \A c, d \in 1..n : c < d => C[c][2] + 2 * Context < C[d][1]
      /\ \A x \in 1..(k - 1) : E[x].type # "Unchanged" => \E c \in 1..n : Holds(c, x)
  <2>1. \A c \in 1..n : C[c] \in Place \X Place
    BY <1>1
  <2>2. \A c \in 1..n : C[c][1] \in Place /\ C[c][2] \in Place
    BY <2>1
  <2>3. \A c \in 1..n : C[c][1] \leq C[c][2] /\ C[c][2] \leq k - 1
    BY DEF ClusterInv
  <2>4. \A c, d \in 1..n : c < d => C[c][2] + 2 * Context < C[d][1]
    BY DEF ClusterInv
  <2>5. \A x \in 1..(k - 1) : E[x].type # "Unchanged" => \E c \in 1..n : Holds(c, x)
    BY DEF ClusterInv
  <2> QED
    BY <2>2, <2>3, <2>4, <2>5
<1>3. k \in Nat /\ k \in Place /\ Place \subseteq Nat
  OBVIOUS
<1>4. CASE E[k].type = "Unchanged"
  <2>1. then = C
    BY <1>4 DEF Clustered
  <2>2. \A x \in 1..k : x \in 1..(k - 1) \/ x = k
    BY <1>3
  <2>3. \A x \in 1..k : E[x].type # "Unchanged" => \E c \in 1..n : Holds(c, x)
    BY <1>2, <1>4, <2>2
  <2>4. \A c \in 1..n : C[c][2] \leq k
    BY <1>2, <1>3
  <2> QED
    BY <1>1, <1>2, <2>1, <2>3, <2>4 DEF ClusterInv
<1>5. CASE E[k].type # "Unchanged" /\ n > 0 /\ Near(C[n][2], k)
  <2> DEFINE new1 == <<C[n][1], k>>
             R == [C EXCEPT ![n] = new1]
  <2>1. then = R
    BY <1>5 DEF Clustered
  <2>2. n \in 1..n /\ new1 \in Place \X Place /\ new1[1] = C[n][1] /\ new1[2] = k
    BY <1>1, <1>2, <1>3, <1>5
  <2> HIDE DEF new1
  <2>3. R \in Seq(Place \X Place) /\ Len(R) = n /\ R[n] = new1 /\ \A c \in 1..n : c # n => R[c] = C[c]
    BY <1>1, <2>2
  <2> HIDE DEF R
  <2>4. ASSUME NEW c \in 1..n PROVE R[c][1] = C[c][1] /\ R[c][1] \leq R[c][2] /\ R[c][2] \leq k
    <3>1. CASE c = n
      BY <1>2, <1>3, <2>2, <2>3, <3>1
    <3>2. CASE c # n
      <4>1. R[c] = C[c]
        BY <2>3, <3>2
      <4>2. C[c][1] \leq C[c][2] /\ C[c][2] \leq k
        BY <1>2, <1>3
      <4> QED
        BY <4>1, <4>2
    <3> QED
      BY <3>1, <3>2
  <2>5. ASSUME NEW c \in 1..n, NEW d \in 1..n, c < d PROVE R[c][2] + 2 * Context < R[d][1]
    <3>1. c # n
      BY <1>1, <2>5
    <3> QED
      BY <1>2, <2>3, <2>4, <2>5, <3>1
  <2>6. ASSUME NEW x \in 1..k, E[x].type # "Unchanged"
        PROVE  \E c \in 1..n : R[c][1] \leq x /\ x \leq R[c][2]
    <3>1. CASE x = k
      <4>1. R[n][1] \leq k /\ k \leq R[n][2]
        BY <1>2, <1>3, <2>2, <2>3
      <4> QED
        BY <2>2, <3>1, <4>1
    <3>2. CASE x # k
      <4>1. x \in 1..(k - 1)
        BY <1>3, <3>2
      <4>2. PICK c \in 1..n : Holds(c, x)
        BY <1>2, <2>6, <4>1
      <4>3. R[c][1] \leq x /\ x \leq R[c][2]
        <5>1. CASE c = n
          BY <1>3, <2>2, <2>3, <4>1, <4>2, <5>1
        <5>2. CASE c # n
          BY <2>3, <4>2, <5>2
        <5> QED
          BY <5>1, <5>2
      <4> QED
        BY <4>3
    <3> QED
      BY <3>1, <3>2
  <2> QED
    BY <2>1, <2>3, <2>4, <2>5, <2>6 DEF ClusterInv
<1>6. CASE E[k].type # "Unchanged" /\ ~(n > 0 /\ Near(C[n][2], k))
  <2>0. \A c \in 1..(n + 1) : c # n + 1 => c \in 1..n
    <3>1. n \in Nat
      BY <1>1
    <3> HIDE DEF n
    <3> QED
      BY <3>1
  <2> DEFINE new1 == <<k, k>>
             R == Append(C, new1)
  <2>1. then = R
    BY <1>6 DEF Clustered
  <2>2. new1 \in Place \X Place /\ new1[1] = k /\ new1[2] = k
    BY <1>3
  <2> HIDE DEF new1
  <2>3. R \in Seq(Place \X Place) /\ Len(R) = n + 1 /\ R[n + 1] = new1 /\ \A c \in 1..n : R[c] = C[c]
    BY <1>1, <2>2
  <2> HIDE DEF R
  <2>4. ASSUME NEW c \in 1..(n + 1) PROVE R[c][1] \leq R[c][2] /\ R[c][2] \leq k
    <3>1. CASE c = n + 1
      BY <1>3, <2>2, <2>3, <3>1
    <3>2. CASE c # n + 1
      <4>1. c \in 1..n
        BY <2>0, <3>2
      <4>2. R[c] = C[c]
        BY <2>3, <4>1
      <4>3. C[c][1] \leq C[c][2] /\ C[c][2] \leq k
        BY <1>2, <1>3, <4>1
      <4> QED
        BY <4>2, <4>3
    <3> QED
      BY <3>1, <3>2
  <2>5. ASSUME NEW c \in 1..n PROVE C[c][2] + 2 * Context < k
    <3>1. n \in 1..n /\ n > 0
      BY <1>1
    <3>2. ~ Near(C[n][2], k)
      BY <1>6, <3>1
    <3>3. C[n][2] + 2 * Context < k
      BY <1>1, <1>2, <1>3, <3>1, <3>2 DEF Near
    <3>4. CASE c = n
      BY <3>3, <3>4
    <3>5. CASE c # n
      <4>1. c < n
        BY <1>1, <3>5
      <4>2. C[c][2] + 2 * Context < C[n][1] /\ C[n][1] \leq k
        BY <1>2, <1>3, <3>1, <4>1
      <4> QED
        BY <1>1, <1>2, <1>3, <3>1, <4>2
    <3> QED
      BY <3>4, <3>5
  <2>6. ASSUME NEW c \in 1..(n + 1), NEW d \in 1..(n + 1), c < d PROVE R[c][2] + 2 * Context < R[d][1]
    <3>1. c \in 1..n
      BY <1>1, <2>6
    <3>2. CASE d = n + 1
      BY <2>2, <2>3, <2>5, <3>1, <3>2
    <3>3. CASE d # n + 1
      <4>1. d \in 1..n
        BY <1>1, <3>3
      <4> QED
        BY <1>2, <2>3, <2>6, <3>1, <4>1
    <3> QED
      BY <3>2, <3>3
  <2>7. ASSUME NEW x \in 1..k, E[x].type # "Unchanged"
        PROVE  \E c \in 1..(n + 1) : R[c][1] \leq x /\ x \leq R[c][2]
    <3>1. CASE x = k
      <4>1. n + 1 \in 1..(n + 1)
        BY <1>1
      <4>2. R[n + 1][1] = k /\ R[n + 1][2] = k /\ k \leq k
        BY <1>3, <2>2, <2>3
      <4> QED
        BY <3>1, <4>1, <4>2
    <3>2. CASE x # k
      <4>1. x \in 1..(k - 1)
        BY <1>3, <3>2
      <4>2. PICK c \in 1..n : Holds(c, x)
        BY <1>2, <2>7, <4>1
      <4>3. c \in 1..(n + 1) /\ R[c] = C[c]
        BY <1>1, <2>3
      <4> QED
        BY <4>2, <4>3
    <3> QED
      BY <3>1, <3>2
  <2> QED
    BY <2>1, <2>3, <2>4, <2>6, <2>7 DEF ClusterInv
<1> QED
  BY <1>4, <1>5, <1>6

\* The clusters of all the edits.
LEMMA ClustersAre ==
    ASSUME NEW E, Len(E) \in Nat PROVE ClusterInv(Clusters(E), E, Len(E))
<1> DEFINE K == Len(E)
           V == Seq((1..K) \X (1..K))
           step == [k \in 1..K |-> [C \in V |-> IF ClusterInv(C, E, k - 1) THEN Clustered(E, C, k) ELSE C]]
           Is(f) == f = [k \in 0..K |-> IF k = 0 THEN <<>> ELSE Clustered(E, f[k - 1], k)]
           grouped == CHOOSE f : Is(f)
<1>1. Clusters(E) = grouped[K]
  BY DEF Clusters
<1>2. \A k \in 1..K : \A C \in V : ClusterInv(C, E, k - 1) => Clustered(E, C, k) \in V /\ ClusterInv(Clustered(E, C, k), E, k)
  <2>1. ASSUME NEW k \in 1..K, NEW C \in V, ClusterInv(C, E, k - 1)
        PROVE  Clustered(E, C, k) \in V /\ ClusterInv(Clustered(E, C, k), E, k)
    <3>1. ClusterInv(Clustered(E, C, k), E, k)
      BY <2>1, ClusteredKeeps
    <3> QED
      BY <3>1 DEF ClusterInv
  <2> QED
    BY <2>1
<1>3. <<>> \in V /\ ClusterInv(<<>>, E, 0)
  BY DEF ClusterInv
<1> HIDE DEF V
<1>4. PICK r : Along(r, V, <<>>, K, step)
  <2>1. step \in [1..K -> [V -> V]]
    BY <1>2
  <2> HIDE DEF step
  <2> QED
    BY <1>3, <2>1, StepsExist
<1>5. r \in [0..K -> V] /\ r[0] = <<>>
  BY <1>4 DEF Along
<1>6. ASSUME NEW k \in 1..K, ClusterInv(r[k - 1], E, k - 1)
      PROVE  r[k] = Clustered(E, r[k - 1], k) /\ ClusterInv(r[k], E, k)
  <2>1. r[k - 1] \in V
    BY <1>5
  <2>2. r[k] = step[k][r[k - 1]]
    <3> HIDE DEF step
    <3> QED
      BY <1>4 DEF Along
  <2>3. r[k] = Clustered(E, r[k - 1], k)
    BY <1>6, <2>1, <2>2
  <2> QED
    BY <1>2, <1>6, <2>1, <2>3
<1> DEFINE P == {k \in 0..K : ClusterInv(r[k], E, k)}
<1>7. \A k \in 0..K : k \in P
  <2>1. 0 \in P
    BY <1>3, <1>5
  <2>2. ASSUME NEW k \in 1..K, k - 1 \in P PROVE k \in P
    BY <1>6, <2>2
  <2> HIDE DEF P
  <2> QED
    BY <2>1, <2>2, CountUp
<1>8. Is(r)
  <2>1. ASSUME NEW k \in 1..K PROVE r[k] = Clustered(E, r[k - 1], k)
    <3>1. k - 1 \in 0..K
      OBVIOUS
    <3>2. ClusterInv(r[k - 1], E, k - 1)
      BY <1>7, <3>1
    <3> QED
      BY <1>6, <3>2
  <2> QED
    BY <1>5, <2>1
<1>9. Is(grouped)
  <2> HIDE DEF Is
  <2> QED
    BY <1>8
<1> HIDE DEF grouped
<1>10. grouped[0] = <<>> /\ \A k \in 1..K : grouped[k] = Clustered(E, grouped[k - 1], k)
  BY <1>9
<1> DEFINE Q == {k \in 0..K : grouped[k] \in V /\ ClusterInv(grouped[k], E, k)}
<1>11. \A k \in 0..K : k \in Q
  <2>1. 0 \in Q
    BY <1>3, <1>10
  <2>2. ASSUME NEW k \in 1..K, k - 1 \in Q PROVE k \in Q
    <3>1. grouped[k - 1] \in V /\ ClusterInv(grouped[k - 1], E, k - 1) /\ grouped[k] = Clustered(E, grouped[k - 1], k)
      BY <1>10, <2>2
    <3> QED
      BY <1>2, <3>1
  <2> HIDE DEF Q
  <2> QED
    BY <2>1, <2>2, CountUp
<1>12. K \in 0..K
  OBVIOUS
<1> QED
  BY <1>1, <1>11, <1>12

\* Stretches of a script, F[c]..L[c] for the hunk c, that hold all its changes;
\* none but one at the beginning begins with a change.
Cuts(F, L, H, E) ==
    /\ H \in Nat /\ F \in [1..H -> 1..Len(E)] /\ L \in [1..H -> 1..Len(E)]
    /\ \A c \in 1..H : F[c] \leq L[c] /\ (F[c] = 1 \/ E[F[c]].type = "Unchanged")
    /\ \A c, d \in 1..H : c < d => L[c] < F[d]
    /\ \A x \in 1..Len(E) : E[x].type # "Unchanged" => \E c \in 1..H : F[c] \leq x /\ x \leq L[c]

\* With their contexts the clusters are apart, and begin with an unchanged line
\* or with the script.
LEMMA ClustersCut ==
    ASSUME NEW E, Len(E) \in Nat, NEW C, ClusterInv(C, E, Len(E))
    PROVE  Cuts([c \in 1..Len(C) |-> HunkStart(C[c])], [c \in 1..Len(C) |-> HunkEnd(E, C[c])], Len(C), E)
<1> DEFINE K == Len(E)
           H == Len(C)
           F == [c \in 1..H |-> HunkStart(C[c])]
           L == [c \in 1..H |-> HunkEnd(E, C[c])]
<1>1. H \in Nat /\ Context \in Nat /\ Context # 0 /\ 2 * Context = Context + Context
  BY ContextAssumption DEF ClusterInv
<1>2. \A c \in 1..H : /\ C[c][1] \in 1..K /\ C[c][2] \in 1..K /\ C[c][1] \leq C[c][2]
  BY DEF ClusterInv
<1>3. \A c, d \in 1..H : c < d => C[c][2] + Context + Context < C[d][1]
  <2>1. \A c, d \in 1..H : c < d => C[c][2] + 2 * Context < C[d][1]
    BY DEF ClusterInv
  <2>2. \A c \in 1..H : C[c][2] + 2 * Context = C[c][2] + Context + Context
    BY <1>1, <1>2
  <2> QED
    BY <2>1, <2>2
<1>4. \A x \in 1..K : E[x].type # "Unchanged" => \E c \in 1..H : C[c][1] \leq x /\ x \leq C[c][2]
  BY DEF ClusterInv
<1>5. ASSUME NEW c \in 1..H
      PROVE  /\ F[c] \in 1..K /\ L[c] \in 1..K /\ F[c] \leq C[c][1] /\ C[c][2] \leq L[c]
             /\ F[c] + Context >= C[c][1] /\ L[c] \leq C[c][2] + Context
             /\ F[c] = 1 \/ F[c] + Context = C[c][1]
  <2> DEFINE p == C[c][1]
             q == C[c][2]
  <2>1. p \in 1..K /\ q \in 1..K /\ p \leq q
    BY <1>2
  <2>2. F[c] = (IF 1 >= p - Context THEN 1 ELSE p - Context)
    BY DEF HunkStart, Larger
  <2>3. L[c] = (IF q + Context < K THEN q + Context ELSE K)
    BY DEF HunkEnd
  <2> HIDE DEF F, L, p, q
  <2>4. /\ F[c] \in 1..K /\ F[c] \leq p /\ F[c] + Context >= p /\ (F[c] = 1 \/ F[c] + Context = p)
    BY <1>1, <2>1, <2>2
  <2>5. /\ L[c] \in 1..K /\ q \leq L[c] /\ L[c] \leq q + Context
    BY <1>1, <2>1, <2>3
  <2> QED
    BY <2>4, <2>5 DEF p, q
<1>6. F \in [1..H -> 1..K] /\ L \in [1..H -> 1..K]
  BY <1>5
<1> HIDE DEF F, L
<1>7. \A c \in 1..H : F[c] \leq L[c]
  BY <1>2, <1>5
<1>8. ASSUME NEW c \in 1..H, F[c] # 1 PROVE E[F[c]].type = "Unchanged"
  <2> SUFFICES ASSUME E[F[c]].type # "Unchanged" PROVE FALSE
    OBVIOUS
  <2> DEFINE f == F[c]
  <2>1. f \in 1..K /\ f + Context = C[c][1] /\ C[c][1] \in 1..K
    BY <1>2, <1>5, <1>8
  <2>2. PICK d \in 1..H : C[d][1] \leq f /\ f \leq C[d][2]
    BY <1>4, <2>1
  <2> HIDE DEF f
  <2>3. CASE d = c
    BY <1>1, <2>1, <2>2, <2>3
  <2>4. CASE d < c
    <3>1. C[d][2] + Context + Context < C[c][1] /\ C[d][2] \in 1..K
      BY <1>2, <1>3, <2>4
    <3> QED
      BY <1>1, <2>1, <2>2, <3>1
  <2>5. CASE c < d
    <3>1. C[c][2] + Context + Context < C[d][1] /\ C[c][2] \in 1..K /\ C[d][1] \in 1..K /\ C[c][1] \leq C[c][2]
      BY <1>2, <1>3, <2>5
    <3> QED
      BY <1>1, <2>1, <2>2, <3>1
  <2> QED
    BY <1>1, <2>3, <2>4, <2>5
<1>9. ASSUME NEW c \in 1..H, NEW d \in 1..H, c < d PROVE L[c] < F[d]
  <2>1. C[c][2] + Context + Context < C[d][1] /\ C[c][2] \in 1..K /\ C[d][1] \in 1..K
    BY <1>2, <1>3, <1>9
  <2>2. L[c] \leq C[c][2] + Context /\ F[d] + Context >= C[d][1] /\ L[c] \in 1..K /\ F[d] \in 1..K
    BY <1>5
  <2> DEFINE x == C[c][2]
             y == C[d][1]
             l == L[c]
             f == F[d]
  <2>3. /\ x \in Nat /\ y \in Nat /\ l \in Nat /\ f \in Nat
        /\ x + Context + Context < y /\ l \leq x + Context /\ f + Context >= y
    BY <2>1, <2>2
  <2> HIDE DEF x, y, l, f
  <2>4. l < f
    BY <1>1, <2>3
  <2> QED
    BY <2>4 DEF l, f
<1>10. ASSUME NEW x \in 1..K, E[x].type # "Unchanged" PROVE \E c \in 1..H : F[c] \leq x /\ x \leq L[c]
  <2>1. PICK c \in 1..H : C[c][1] \leq x /\ x \leq C[c][2]
    BY <1>4, <1>10
  <2>2. F[c] \leq x /\ x \leq L[c]
    <3>1. F[c] \leq C[c][1] /\ C[c][2] \leq L[c] /\ F[c] \in 1..K /\ L[c] \in 1..K /\ C[c][1] \in 1..K /\ C[c][2] \in 1..K
      BY <1>2, <1>5
    <3> QED
      BY <2>1, <3>1
  <2> QED
    BY <2>2
<1>11. Cuts(F, L, H, E)
  BY <1>1, <1>6, <1>7, <1>8, <1>9, <1>10 DEF Cuts
<1> QED
  BY <1>11 DEF F, L

----------------------------------------------------------------------------
(* The lines and the numbers of a hunk                                      *)

\* The least of some numbers.
LEMMA MinIsIn ==
    ASSUME NEW S \in SUBSET Nat, S # {} PROVE Min(S) \in S /\ \A x \in S : Min(S) \leq x
<1>1. PICK m \in S : \A y \in S : ~(y < m)
  <2>1. \E m \in S : \A y \in S : <<y, m>> \notin OpToRel(<, Nat)
    BY NatLessThanWellFounded, WFMin
  <2> QED
    BY <2>1 DEF OpToRel
<1>2. \A y \in S : m \leq y
  BY <1>1
<1> QED
  BY <1>2 DEF Min

\* A stretch with one more line.
LEMMA SubSeqGrows ==
    ASSUME NEW T, NEW s \in Seq(T), NEW p \in Nat \ {0}, NEW q \in Nat, p \leq q + 1, q + 1 \leq Len(s)
    PROVE  SubSeq(s, p, q + 1) = Append(SubSeq(s, p, q), s[q + 1])
<1> DEFINE u == SubSeq(s, p, q)
           v == SubSeq(s, p, q + 1)
           w == Append(u, s[q + 1])
           n == q - p + 1
<1>1. n \in Nat /\ Len(s) \in Nat
  OBVIOUS
<1>2. u \in Seq(T) /\ Len(u) = n /\ \A k \in 1..n : u[k] = s[p + k - 1]
  <2>1. q \leq Len(s)
    BY <1>1
  <2> QED
    BY <2>1
<1>3. v \in Seq(T) /\ Len(v) = n + 1 /\ \A k \in 1..(n + 1) : v[k] = s[p + k - 1]
  <2>1. q + 1 - p + 1 = n + 1
    OBVIOUS
  <2> QED
    BY <2>1
<1>4. s[q + 1] \in T
  BY <1>1
<1> HIDE DEF u, v, n
<1>5. w \in Seq(T) /\ Len(w) = n + 1 /\ w[n + 1] = s[q + 1] /\ \A k \in 1..n : w[k] = u[k]
  BY <1>1, <1>2, <1>4
<1> HIDE DEF w
<1>6. \A k \in 1..(n + 1) : v[k] = w[k]
  <2>1. v[n + 1] = s[q + 1]
    <3>1. p + (n + 1) - 1 = q + 1
      BY DEF n
    <3>2. n + 1 \in 1..(n + 1)
      BY <1>1
    <3> QED
      BY <1>3, <3>1, <3>2
  <2>2. \A k \in 1..(n + 1) : k = n + 1 \/ k \in 1..n
    BY <1>1
  <2> QED
    BY <1>1, <1>2, <1>3, <1>5, <2>1, <2>2
<1>7. v = w
  BY <1>3, <1>5, <1>6
<1> QED
  BY <1>7 DEF u, v, w

\* Two stretches that meet.
LEMMA SubSeqsJoin ==
    ASSUME NEW T, NEW s \in Seq(T), NEW p \in Nat \ {0}, NEW q \in Nat, NEW r \in Nat,
           p \leq q + 1, q \leq r, r \leq Len(s)
    PROVE  SubSeq(s, p, q) \o SubSeq(s, q + 1, r) = SubSeq(s, p, r)
<1> DEFINE u == SubSeq(s, p, q)
           v == SubSeq(s, q + 1, r)
           w == SubSeq(s, p, r)
           n == q - p + 1
           m == r - q
<1>1. n \in Nat /\ m \in Nat /\ Len(s) \in Nat
  OBVIOUS
<1>2. u \in Seq(T) /\ Len(u) = n /\ \A k \in 1..n : u[k] = s[p + k - 1]
  <2>1. q \leq Len(s)
    BY <1>1
  <2> QED
    BY <2>1
<1>3. v \in Seq(T) /\ Len(v) = m /\ \A k \in 1..m : v[k] = s[q + k]
  <2>1. \A k \in 1..m : q + 1 + k - 1 = q + k
    OBVIOUS
  <2> QED
    BY <2>1
<1>4. w \in Seq(T) /\ Len(w) = n + m /\ \A k \in 1..(n + m) : w[k] = s[p + k - 1]
  <2>1. r - p + 1 = n + m
    OBVIOUS
  <2> QED
    BY <2>1
<1>5. \A k \in 1..m : p + (n + k) - 1 = q + k
  OBVIOUS
<1> HIDE DEF u, v, w, n, m
<1>6. /\ u \o v \in Seq(T) /\ Len(u \o v) = n + m /\ \A k \in 1..n : (u \o v)[k] = u[k]
      /\ \A k \in 1..m : (u \o v)[n + k] = v[k]
  <2>1. \A k \in 1..n : k \leq n /\ k \in 1..(n + m)
    BY <1>1
  <2>2. \A k \in 1..m : n + k \in 1..(n + m) /\ ~(n + k \leq n) /\ (n + k) - n = k
    BY <1>1
  <2>3. \A k \in 1..(n + m) : (u \o v)[k] = IF k \leq n THEN u[k] ELSE v[k - n]
    BY <1>2, <1>3, ConcatProperties
  <2>4. u \o v \in Seq(T) /\ Len(u \o v) = n + m
    BY <1>2, <1>3, ConcatProperties
  <2>5. ASSUME NEW k \in 1..m PROVE (u \o v)[n + k] = v[k]
    BY <2>2, <2>3
  <2> QED
    BY <2>1, <2>3, <2>4, <2>5
<1> DEFINE x == u \o v
<1> HIDE DEF x
<1>7. \A k \in 1..(n + m) : x[k] = w[k]
  <2>1. \A k \in 1..n : k \in 1..(n + m) /\ x[k] = w[k]
    <3> TAKE k \in 1..n
    <3>1. k \in 1..(n + m)
      BY <1>1
    <3>2. x[k] = s[p + k - 1]
      BY <1>2, <1>6 DEF x
    <3>3. w[k] = s[p + k - 1]
      BY <1>4, <3>1
    <3> QED
      BY <3>1, <3>2, <3>3
  <2>2. ASSUME NEW k \in 1..m PROVE x[n + k] = w[n + k]
    <3>1. n + k \in 1..(n + m)
      BY <1>1
    <3>2. w[n + k] = s[p + (n + k) - 1]
      BY <1>4, <3>1
    <3>3. x[n + k] = s[q + k]
      BY <1>3, <1>6 DEF x
    <3> QED
      BY <1>5, <3>2, <3>3
  <2>3. ASSUME NEW k \in 1..(n + m) PROVE x[k] = w[k]
    <3>1. CASE k \in 1..n
      BY <2>1, <3>1
    <3>2. CASE k \notin 1..n
      <4>1. k - n \in 1..m /\ n + (k - n) = k
        BY <1>1, <3>2
      <4> QED
        BY <2>2, <4>1
    <3> QED
      BY <3>1, <3>2
  <2> QED
    BY <2>3
<1>8. x = w
  BY <1>4, <1>6, <1>7 DEF x
<1> QED
  BY <1>8 DEF u, v, w, x

----------------------------------------------------------------------------
(* One side of a script                                                    *)

\* What the script says of one of its two texts: the edits of the type absent
\* have no line of it, the others one after the other.
OneSide(E, A, O, absent) ==
    /\ O \in [0..Len(E) -> 0..Len(A)] /\ O[0] = 0 /\ O[Len(E)] = Len(A)
    /\ \A k \in 1..Len(E) :
          /\ E[k].type = absent => O[k] = O[k - 1]
          /\ E[k].type # absent => O[k] = O[k - 1] + 1 /\ E[k].text = A[O[k]]

\* A script tells both of its texts, line by line.
LEMMA ScriptHasSides ==
    ASSUME NEW E, NEW a, NEW b, NEW o, NEW w, Script(E, a, b, o, w), o[0] = 0, w[0] = 0
    PROVE  /\ OneSide(E, a, o, "Added") /\ OneSide(E, b, w, "Deleted")
           /\ \A k \in 1..Len(E) : /\ E[k].type # "Added" => E[k].old = o[k]
                                   /\ E[k].type # "Deleted" => E[k].new = w[k]
<1>1. \A k \in 1..Len(E) : EditOf(E[k], a, b, o[k - 1], w[k - 1], o[k], w[k])
  BY DEF Script
<1>2. ASSUME NEW k \in 1..Len(E)
      PROVE  /\ E[k].type = "Added" => o[k] = o[k - 1]
             /\ E[k].type # "Added" => o[k] = o[k - 1] + 1 /\ E[k].text = a[o[k]] /\ E[k].old = o[k]
             /\ E[k].type = "Deleted" => w[k] = w[k - 1]
             /\ E[k].type # "Deleted" => w[k] = w[k - 1] + 1 /\ E[k].text = b[w[k]] /\ E[k].new = w[k]
  BY <1>1 DEF EditOf
<1> QED
  BY <1>2 DEF OneSide, Script

\* The places of a side only go forward.
LEMMA OneSideGrows ==
    ASSUME NEW E, Len(E) \in Nat, NEW A, Len(A) \in Nat, NEW O, NEW absent, OneSide(E, A, O, absent),
           NEW j \in 0..Len(E), NEW k \in j..Len(E)
    PROVE  O[j] \leq O[k] /\ O[j] \in Nat /\ O[k] \in Nat /\ O[k] \leq Len(A)
<1> DEFINE P == {x \in 0..(k - j) : O[j] \leq O[j + x]}
<1>1. \A x \in 0..Len(E) : O[x] \in Nat /\ O[x] \leq Len(A)
  BY DEF OneSide
<1>2. j \in Nat /\ k \in Nat /\ k - j \in Nat /\ k \in 0..Len(E) /\ j + 0 = j /\ j + (k - j) = k
  OBVIOUS
<1>3. 0 \in P
  BY <1>1, <1>2
<1>4. ASSUME NEW x \in 1..(k - j), x - 1 \in P PROVE x \in P
  <2>1. j + x \in 1..Len(E) /\ j + x - 1 = j + (x - 1) /\ j + x \in 0..Len(E) /\ j + (x - 1) \in 0..Len(E)
    BY <1>2
  <2>2. O[j + x] = O[j + (x - 1)] \/ O[j + x] = O[j + (x - 1)] + 1
    <3> DEFINE y == j + x
    <3>1. y \in 1..Len(E) /\ y - 1 = j + (x - 1)
      BY <2>1
    <3> HIDE DEF y
    <3>2. O[y] = O[y - 1] \/ O[y] = O[y - 1] + 1
      BY <3>1 DEF OneSide
    <3> QED
      BY <3>1, <3>2 DEF y
  <2>3. O[j] \in Nat /\ O[j + x] \in Nat /\ O[j + (x - 1)] \in Nat /\ O[j] \leq O[j + (x - 1)]
    BY <1>1, <1>4, <2>1
  <2>4. O[j] \leq O[j + x]
    BY <2>2, <2>3
  <2>5. x \in 0..(k - j)
    BY <1>2
  <2> QED
    BY <2>4, <2>5
<1>5. \A x \in 0..(k - j) : x \in P
  <2> HIDE DEF P
  <2> QED
    BY <1>2, <1>3, <1>4, CountUp
<1>6. k - j \in 0..(k - j)
  BY <1>2
<1>7. O[j] \leq O[k]
  BY <1>2, <1>5, <1>6
<1> QED
  BY <1>1, <1>2, <1>7

\* The number of the first line of a stretch of a script, and how many lines
\* it has.
LEMMA StretchIsNumbered ==
    ASSUME NEW E, Len(E) \in Nat, NEW A, Len(A) \in Nat, NEW O, NEW absent, OneSide(E, A, O, absent),
           NEW f \in 1..Len(E), NEW l \in f..Len(E), f = 1 \/ E[f].type # absent
    PROVE  /\ Numbered(E, f, l, absent) = {} => O[f - 1] + 1 = 1
           /\ Numbered(E, f, l, absent) # {} =>
                /\ Min(Numbered(E, f, l, absent)) \in f..l
                /\ E[Min(Numbered(E, f, l, absent))].type # absent
                /\ O[Min(Numbered(E, f, l, absent))] = O[f - 1] + 1
           /\ Cardinality(Numbered(E, f, l, absent)) = O[l] - O[f - 1]
<1> DEFINE S == Numbered(E, f, l, absent)
           K == Len(E)
<1>1. f \in Nat /\ l \in Nat /\ l \in 1..K /\ f - 1 \in 0..K /\ f - 1 \in Nat
  OBVIOUS
<1>2. S \in SUBSET Nat /\ S \subseteq f..l /\ \A k \in f..l : k \in S <=> E[k].type # absent
  BY DEF Numbered
<1>3. O[0] = 0 /\ \A k \in 0..K : O[k] \in Nat
  BY DEF OneSide
<1>4. ASSUME S = {} PROVE O[f - 1] + 1 = 1
  <2>1. f \in f..l
    BY <1>1
  <2>2. f = 1
    BY <1>2, <1>4, <2>1
  <2> QED
    BY <1>3, <2>2
<1>5. ASSUME S # {} PROVE Min(S) \in f..l /\ E[Min(S)].type # absent /\ O[Min(S)] = O[f - 1] + 1
  <2> DEFINE m == Min(S)
  <2>1. m \in S /\ \A x \in S : m \leq x
    <3> HIDE DEF S
    <3> QED
      BY <1>2, <1>5, MinIsIn
  <2> HIDE DEF m, S
  <2>2. m \in f..l /\ m \in 1..K /\ m \in Nat /\ E[m].type # absent
    BY <1>1, <1>2, <2>1
  <2>3. O[m] = O[m - 1] + 1
    BY <2>2 DEF OneSide
  <2>4. CASE f # 1
    <3>1. f \in S
      BY <1>1, <1>2, <2>4
    <3>2. m = f
      BY <1>1, <2>1, <2>2, <3>1
    <3> QED
      BY <2>2, <2>3, <3>2 DEF m
  <2>5. CASE f = 1
    <3> DEFINE P == {k \in 0..(m - 1) : O[k] = 0}
    <3>1. m - 1 \in Nat /\ m - 1 \in 0..(m - 1)
      BY <2>2
    <3>2. 0 \in P
      BY <1>3, <3>1
    <3>3. ASSUME NEW k \in 1..(m - 1), k - 1 \in P PROVE k \in P
      <4>1. k \in f..l /\ k \in 1..K /\ ~(m \leq k) /\ k \in 0..(m - 1)
        BY <1>1, <2>2, <2>5
      <4>2. E[k].type = absent
        BY <1>2, <2>1, <4>1
      <4>3. O[k] = O[k - 1]
        BY <4>1, <4>2 DEF OneSide
      <4> QED
        BY <3>3, <4>1, <4>3
    <3>4. \A k \in 0..(m - 1) : k \in P
      <4> HIDE DEF P
      <4> QED
        BY <3>1, <3>2, <3>3, CountUp
    <3>5. O[m - 1] = 0
      BY <3>1, <3>4
    <3>6. O[f - 1] = 0
      BY <1>3, <2>5
    <3> QED
      BY <2>2, <2>3, <3>5, <3>6 DEF m
  <2> QED
    BY <2>4, <2>5
<1>6. Cardinality(S) = O[l] - O[f - 1]
  <2> DEFINE n == l - f + 1
             At(x) == f + x - 1
             U(x) == Numbered(E, f, At(x), absent)
             P == {x \in 0..n : IsFiniteSet(U(x)) /\ Cardinality(U(x)) = O[At(x)] - O[f - 1]}
  <2>1. n \in Nat /\ n \in 0..n /\ At(n) = l /\ At(0) = f - 1
    BY <1>1
  <2>2. 0 \in P
    <3>1. U(0) = {}
      BY <1>1 DEF Numbered
    <3>2. IsFiniteSet(U(0)) /\ Cardinality(U(0)) = 0
      BY <3>1, FS_EmptySet
    <3> HIDE DEF U
    <3> QED
      BY <1>1, <1>3, <2>1, <3>2
  <2>3. ASSUME NEW x \in 1..n, x - 1 \in P PROVE x \in P
    <3> DEFINE k == At(x)
    <3>1. k \in f..l /\ k \in 1..K /\ At(x - 1) = k - 1 /\ k - 1 \in 0..K /\ x \in 0..n /\ k \in 0..K
      BY <1>1
    <3>2. U(x) = IF E[k].type = absent THEN U(x - 1) ELSE U(x - 1) \cup {k}
      <4>1. f..k = (f..(k - 1)) \cup {k}
        BY <1>1, <3>1
      <4> QED
        BY <3>1, <4>1 DEF Numbered
    <3>3. k \notin U(x - 1)
      BY <3>1 DEF Numbered
    <3>4. IsFiniteSet(U(x - 1)) /\ Cardinality(U(x - 1)) = O[k - 1] - O[f - 1]
      BY <2>3, <3>1
    <3>5. O[k] \in Nat /\ O[k - 1] \in Nat /\ O[f - 1] \in Nat
      BY <1>1, <1>3, <3>1
    <3>6. /\ E[k].type = absent => O[k] = O[k - 1]
          /\ E[k].type # absent => O[k] = O[k - 1] + 1
      BY <3>1 DEF OneSide
    <3> HIDE DEF U
    <3>7. IsFiniteSet(U(x)) /\ Cardinality(U(x)) = O[k] - O[f - 1]
      <4>1. CASE E[k].type = absent
        BY <3>2, <3>4, <3>6, <4>1
      <4>2. CASE E[k].type # absent
        <5>1. U(x) = U(x - 1) \cup {k}
          BY <3>2, <4>2
        <5>2. IsFiniteSet(U(x)) /\ Cardinality(U(x)) = Cardinality(U(x - 1)) + 1
          <6> DEFINE S0 == U(x - 1)
          <6>1. IsFiniteSet(S0) /\ k \notin S0
            BY <3>3, <3>4
          <6> HIDE DEF S0, k
          <6>2. IsFiniteSet(S0 \cup {k}) /\ Cardinality(S0 \cup {k}) = Cardinality(S0) + 1
            BY <6>1, FS_AddElement
          <6> QED
            BY <5>1, <6>2 DEF S0
        <5> QED
          BY <3>4, <3>5, <3>6, <4>2, <5>2
      <4> QED
        BY <4>1, <4>2
    <3> QED
      BY <3>1, <3>7
  <2>4. \A x \in 0..n : x \in P
    <3> HIDE DEF P, n
    <3> QED
      BY <2>1, <2>2, <2>3, CountUp
  <2>5. Cardinality(U(n)) = O[At(n)] - O[f - 1]
    BY <2>1, <2>4
  <2> HIDE DEF n, At
  <2> QED
    BY <2>1, <2>5
<1> QED
  BY <1>4, <1>5, <1>6

\* A line of a hunk that a side has or has not.
LEMMA ShownIsTyped ==
    ASSUME NEW T, NEW lines \in Seq(T), NEW line \in {"Unchanged", "Added", "Deleted"} \X T, NEW mark
    PROVE  Shown(lines, line, mark) \in Seq(T)
<1>1. line[2] \in T
  OBVIOUS
<1>2. Append(lines, line[2]) \in Seq(T)
  BY <1>1
<1> QED
  BY <1>2 DEF Shown

\* The lines of one side of a hunk so far.
ShownBy(r, T, lines, mark) ==
    /\ r \in [0..Len(lines) -> Seq(T)] /\ r[0] = <<>>
    /\ \A x \in 1..Len(lines) : r[x] = Shown(r[x - 1], lines[x], mark)

\* One side of a hunk, line by line.
LEMMA SideAlong ==
    ASSUME NEW T, NEW hunk, hunk.lines \in Seq({"Unchanged", "Added", "Deleted"} \X T), NEW mark
    PROVE  \E r : ShownBy(r, T, hunk.lines, mark) /\ Side(hunk, mark) = r[Len(hunk.lines)]
<1> DEFINE N == Len(hunk.lines)
           V == Seq(T)
           s == <<>>
           Goes(a, v) == Shown(a, v, mark)
           Is(h) == h = [S \in SUBSET (1..N) |-> IF S = {} THEN s
                                                  ELSE Goes(h[S \ {Max(S)}], hunk.lines[Max(S)])]
           F == CHOOSE h : Is(h)
           step == [i \in 1..N |-> [a \in V |-> Goes(a, hunk.lines[i])]]
<1>1. N \in Nat /\ DOMAIN hunk.lines = 1..N /\ \A i \in 1..N : hunk.lines[i] \in {"Unchanged", "Added", "Deleted"} \X T
  OBVIOUS
<1>2. s \in V
  OBVIOUS
<1>3. \A a \in V : \A i \in 1..N : Goes(a, hunk.lines[i]) \in V
  <2>1. ASSUME NEW a \in V, NEW i \in 1..N PROVE Goes(a, hunk.lines[i]) \in V
    <3>1. hunk.lines[i] \in {"Unchanged", "Added", "Deleted"} \X T
      BY <1>1
    <3> QED
      BY <3>1, ShownIsTyped
  <2> QED
    BY <2>1
<1>4. Side(hunk, mark) = F[1..N]
  <2>1. Side(hunk, mark) =
          (CHOOSE h : h = [S \in SUBSET DOMAIN hunk.lines |-> IF S = {} THEN s
                              ELSE Goes(h[S \ {Max(S)}], hunk.lines[Max(S)])])[DOMAIN hunk.lines]
    BY DEF Side, FoldLeft, MapThenFoldSet
  <2> HIDE DEF Goes, N
  <2> QED
    BY <1>1, <2>1
<1> HIDE DEF Goes, N, V, s
<1>5. step \in [1..N -> [V -> V]]
  BY <1>3
<1>6. PICK h \in [SUBSET (1..N) -> V] : FoldOf(h, s, N, step)
  <2> HIDE DEF step
  <2> QED
    BY <1>1, <1>2, <1>5, FoldsExist
<1>7. \A S \in SUBSET (1..N) : S # {} => Max(S) \in 1..N
  BY <1>1, MaxIsIn
<1>8. Is(h)
  <2>1. ASSUME NEW S \in SUBSET (1..N), S # {}
        PROVE  step[Max(S)][h[S \ {Max(S)}]] = Goes(h[S \ {Max(S)}], hunk.lines[Max(S)])
    <3>1. h[S \ {Max(S)}] \in V
      BY <1>6
    <3> QED
      BY <1>7, <2>1, <3>1
  <2> HIDE DEF step
  <2> QED
    BY <1>6, <2>1 DEF FoldOf
<1>9. Is(F)
  <2> HIDE DEF Is
  <2> QED
    BY <1>8
<1> HIDE DEF F
<1>10. Folded(F, V, s, N, step)
  BY <1>7, <1>9 DEF Folded
<1>11. PICK r : Along(r, V, s, N, step) /\ F[1..N] = r[N]
  <2>1. N \in Nat
    BY <1>1
  <2> HIDE DEF step, Is
  <2> QED
    BY ONLY <2>1, <1>2, <1>5, <1>10, FoldedAlong
<1>12. ASSUME NEW n \in 1..N PROVE r[n] = Goes(r[n - 1], hunk.lines[n])
  <2>1. r[n - 1] \in V
    BY <1>1, <1>11 DEF Along
  <2>2. r[n] = step[n][r[n - 1]]
    <3> HIDE DEF step
    <3> QED
      BY <1>11 DEF Along
  <2> QED
    BY <2>1, <2>2
<1> QED
  BY <1>4, <1>11, <1>12 DEF N, Goes, V, s, Along, ShownBy

\* The two marks of a hunk.
Opposite(own, absent) ==
    \/ own = "Added" /\ absent = "Deleted"
    \/ own = "Deleted" /\ absent = "Added"

\* A place of a side lies in its text.
LEMMA OneSideBounds ==
    ASSUME NEW E, NEW A, Len(A) \in Nat, NEW O, NEW absent, OneSide(E, A, O, absent), NEW k \in 0..Len(E)
    PROVE  O[k] \in Nat /\ O[k] \leq Len(A)
<1>1. O[k] \in 0..Len(A)
  BY DEF OneSide
<1> QED
  BY <1>1

\* A stretch of no lines.
LEMMA EmptySubSeq ==
    ASSUME NEW T, NEW s \in Seq(T), NEW p \in Nat \ {0}, NEW q \in Nat, q + 1 = p, q \leq Len(s)
    PROVE  SubSeq(s, p, q) = <<>>
<1>1. SubSeq(s, p, q) \in Seq(T) /\ Len(SubSeq(s, p, q)) = 0
  OBVIOUS
<1> QED
  BY <1>1, EmptySeq

\* The lines of a hunk are those of its edits.
LEMMA HunkLinesAre ==
    ASSUME NEW T, NEW E \in Seq(Edit(T)), NEW f \in 1..Len(E), NEW l \in f..Len(E)
    PROVE  /\ HunkLines(E, f, l) \in Seq({"Unchanged", "Added", "Deleted"} \X T)
           /\ Len(HunkLines(E, f, l)) = l - f + 1
           /\ \A x \in 1..(l - f + 1) : /\ HunkLines(E, f, l)[x][1] = E[f + x - 1].type
                                        /\ HunkLines(E, f, l)[x][2] = E[f + x - 1].text
<1> DEFINE n == l - f + 1
           S == {"Unchanged", "Added", "Deleted"} \X T
           R == HunkLines(E, f, l)
<1>1. n \in Nat /\ \A x \in 1..n : f + x - 1 \in 1..Len(E)
  OBVIOUS
<1>2. ASSUME NEW x \in 1..n PROVE <<E[f + x - 1].type, E[f + x - 1].text>> \in S
  <2>1. E[f + x - 1] \in Edit(T)
    BY <1>1
  <2> QED
    BY <2>1 DEF Edit
<1>3. R = [x \in 1..n |-> <<E[f + x - 1].type, E[f + x - 1].text>>]
  BY DEF HunkLines
<1> HIDE DEF R, n, S
<1>4. R \in [1..n -> S]
  BY <1>2, <1>3
<1>5. R \in Seq(S) /\ Len(R) = n
  <2>1. Len(R) = n
    BY <1>1, <1>3
  <2> QED
    BY <1>1, <1>4, <2>1
<1>6. \A x \in 1..n : R[x] = <<E[f + x - 1].type, E[f + x - 1].text>>
  BY <1>3
<1> QED
  BY <1>5, <1>6 DEF R, n, S

\* A side of a hunk is a stretch of that text.
LEMMA SideIs ==
    ASSUME NEW T, NEW E \in Seq(Edit(T)), NEW A \in Seq(T), NEW O, NEW own, NEW absent,
           Opposite(own, absent), OneSide(E, A, O, absent),
           NEW f \in 1..Len(E), NEW l \in f..Len(E), NEW h, h.lines = HunkLines(E, f, l)
    PROVE  Side(h, own) = SubSeq(A, O[f - 1] + 1, O[l])
<1> DEFINE lines == HunkLines(E, f, l)
           n == l - f + 1
           At(x) == f + x - 1
           p == O[f - 1] + 1
<1>1. /\ Len(E) \in Nat /\ Len(A) \in Nat /\ f \in Nat /\ l \in Nat /\ n \in Nat /\ At(n) = l /\ At(0) = f - 1
      /\ f - 1 \in 0..Len(E) /\ n \in 0..n
  OBVIOUS
<1>2. /\ lines \in Seq({"Unchanged", "Added", "Deleted"} \X T) /\ Len(lines) = n
      /\ \A x \in 1..n : lines[x][1] = E[At(x)].type /\ lines[x][2] = E[At(x)].text
  BY HunkLinesAre
<1> HIDE DEF lines
<1>3. PICK r : /\ r \in [0..n -> Seq(T)] /\ r[0] = <<>>
               /\ \A x \in 1..n : r[x] = Shown(r[x - 1], lines[x], own)
               /\ Side(h, own) = r[n]
  <2>1. h.lines = lines
    BY DEF lines
  <2>2. PICK r : ShownBy(r, T, lines, own) /\ Side(h, own) = r[Len(lines)]
    BY <1>2, <2>1, SideAlong
  <2> HIDE DEF n
  <2> QED
    BY <1>2, <2>2 DEF ShownBy
<1>4. \A k \in 0..Len(E) : O[k] \in Nat /\ O[k] \leq Len(A)
  BY <1>1, OneSideBounds
<1> DEFINE P == {x \in 0..n : r[x] = SubSeq(A, p, O[At(x)])}
<1>5. p \in Nat \ {0} /\ O[f - 1] + 1 = p
  BY <1>1, <1>4
<1>6. 0 \in P
  <2>1. SubSeq(A, p, O[f - 1]) = <<>>
    <3>1. O[f - 1] \in Nat /\ O[f - 1] \leq Len(A)
      BY <1>1, <1>4
    <3> HIDE DEF p
    <3> QED
      BY <1>5, <3>1, EmptySubSeq
  <2>2. 0 \in 0..n
    BY <1>1
  <2> QED
    BY <1>1, <1>3, <2>1, <2>2
<1>7. ASSUME NEW x \in 1..n, x - 1 \in P PROVE x \in P
  <2> DEFINE k == At(x)
             mine == <<E[k].type, E[k].text>>
  <2>1. /\ k \in 1..Len(E) /\ k \in 0..Len(E) /\ k - 1 \in 0..Len(E) /\ At(x - 1) = k - 1 /\ x \in 0..n
        /\ k - 1 \in (f - 1)..Len(E)
    BY <1>1
  <2>2. r[x] = Shown(SubSeq(A, p, O[k - 1]), lines[x], own)
    BY <1>3, <1>7, <2>1
  <2>3. lines[x][1] = E[k].type /\ lines[x][2] = E[k].text
    BY <1>2
  <2>4. E[k] \in Edit(T)
    BY <2>1
  <2>5. E[k].type \in {"Unchanged", "Added", "Deleted"}
    BY <2>4 DEF Edit
  <2>6. E[k].type \in {"Unchanged", own} <=> E[k].type # absent
    BY <2>5 DEF Opposite
  <2>7. O[f - 1] \leq O[k - 1]
    <3> HIDE DEF k, At
    <3> QED
      BY <1>1, <2>1, OneSideGrows
  <2> HIDE DEF k, At, p
  <2>8. r[x] = SubSeq(A, p, O[k])
    <3>1. CASE E[k].type = absent
      <4>1. O[k] = O[k - 1]
        BY <2>1, <3>1 DEF OneSide
      <4>2. Shown(SubSeq(A, p, O[k - 1]), lines[x], own) = SubSeq(A, p, O[k - 1])
        BY <2>3, <2>6, <3>1 DEF Shown
      <4> QED
        BY <2>2, <4>1, <4>2
    <3>2. CASE E[k].type # absent
      <4>1. O[k] = O[k - 1] + 1 /\ E[k].text = A[O[k]]
        BY <2>1, <3>2 DEF OneSide
      <4>2. Shown(SubSeq(A, p, O[k - 1]), lines[x], own) = Append(SubSeq(A, p, O[k - 1]), A[O[k]])
        BY <2>3, <2>6, <3>2, <4>1 DEF Shown
      <4> DEFINE q == O[k - 1]
      <4>3. q \in Nat /\ p \leq q + 1 /\ q + 1 \leq Len(A)
        <5>1. O[k - 1] \in Nat /\ O[k] \leq Len(A) /\ O[f - 1] \in Nat
          BY <1>1, <1>4, <2>1
        <5> QED
          BY <1>5, <2>7, <4>1, <5>1
      <4> HIDE DEF q
      <4>4. SubSeq(A, p, q + 1) = Append(SubSeq(A, p, q), A[q + 1])
        BY <1>5, <4>3, SubSeqGrows
      <4> QED
        BY <2>2, <4>1, <4>2, <4>4 DEF q
    <3> QED
      BY <3>1, <3>2
  <2> QED
    BY <2>1, <2>8 DEF k
<1>8. \A x \in 0..n : x \in P
  <2> HIDE DEF P, n
  <2> QED
    BY <1>1, <1>6, <1>7, CountUp
<1>9. r[n] = SubSeq(A, p, O[l])
  BY <1>1, <1>8
<1>10. Side(h, own) = r[n]
  BY <1>3
<1> QED
  BY <1>9, <1>10

Stretch(A, O, j, k) == SubSeq(A, O[j] + 1, O[k])

Untouched(E, j, k) == \A x \in (j + 1)..k : E[x].type = "Unchanged"

\* Between two hunks the texts are the same.
LEMMA BetweenIsEqual ==
    ASSUME NEW T, NEW E, Len(E) \in Nat, NEW A \in Seq(T), NEW B \in Seq(T), NEW O, NEW W, NEW here, NEW there,
           Opposite(here, there), OneSide(E, A, O, here), OneSide(E, B, W, there),
           NEW j \in 0..Len(E), NEW k \in j..Len(E), Untouched(E, j, k)
    PROVE  Stretch(A, O, j, k) = Stretch(B, W, j, k)
<1> DEFINE n == k - j
           p == O[j] + 1
           q == W[j] + 1
           Same(x) == SubSeq(A, p, O[j + x]) = SubSeq(B, q, W[j + x])
           P == {x \in 0..n : Same(x)}
<1>1. /\ Len(A) \in Nat /\ Len(B) \in Nat /\ j \in Nat /\ n \in Nat /\ n \in 0..n /\ 0 \in 0..n /\ j + 0 = j /\ j + n = k
      /\ j \in 0..Len(E) /\ k \in 0..Len(E)
  OBVIOUS
<1>2. \A x \in 0..Len(E) : O[x] \in Nat /\ O[x] \leq Len(A) /\ W[x] \in Nat /\ W[x] \leq Len(B)
  BY <1>1, OneSideBounds
<1>3. p \in Nat \ {0} /\ q \in Nat \ {0} /\ O[j] + 1 = p /\ W[j] + 1 = q
  BY <1>2
<1> HIDE DEF p, q
<1>4. 0 \in P
  <2>1. SubSeq(A, p, O[j]) = <<>>
    BY <1>1, <1>2, <1>3, EmptySubSeq
  <2>2. SubSeq(B, q, W[j]) = <<>>
    BY <1>1, <1>2, <1>3, EmptySubSeq
  <2> QED
    BY <1>1, <2>1, <2>2
<1>5. ASSUME NEW x \in 1..n, x - 1 \in P PROVE x \in P
  <2> DEFINE y == j + x
             z == j + (x - 1)
  <2>1. y \in 1..Len(E) /\ y \in (j + 1)..k /\ z = y - 1 /\ z \in 0..Len(E) /\ z \in j..Len(E) /\ y \in 0..Len(E) /\ x \in 0..n
    BY <1>1
  <2>2. Same(x - 1)
    BY <1>5
  <2>3. E[y].type # here /\ E[y].type # there
    BY <2>1 DEF Opposite, Untouched
  <2>4. /\ O[y] = O[z] + 1 /\ E[y].text = A[O[y]]
        /\ W[y] = W[z] + 1 /\ E[y].text = B[W[y]]
    BY <2>1, <2>3 DEF OneSide
  <2>5. O[j] \leq O[z] /\ W[j] \leq W[z]
    <3> HIDE DEF z
    <3> QED
      BY <1>1, <2>1, OneSideGrows
  <2>6. O[y] \leq Len(A) /\ W[y] \leq Len(B) /\ O[z] \in Nat /\ W[z] \in Nat /\ O[j] \in Nat /\ W[j] \in Nat
    BY <1>1, <1>2, <2>1
  <2> DEFINE u == O[z]
             v == W[z]
  <2>7. /\ u \in Nat /\ p \leq u + 1 /\ u + 1 \leq Len(A)
        /\ v \in Nat /\ q \leq v + 1 /\ v + 1 \leq Len(B)
    <3>1. u \in Nat /\ O[j] \in Nat /\ O[j] \leq u /\ O[j] + 1 = p /\ u + 1 \leq Len(A)
      BY <1>3, <2>4, <2>5, <2>6
    <3>2. v \in Nat /\ W[j] \in Nat /\ W[j] \leq v /\ W[j] + 1 = q /\ v + 1 \leq Len(B)
      BY <1>3, <2>4, <2>5, <2>6
    <3> HIDE DEF u, v
    <3>3. p \leq u + 1
      BY <3>1
    <3>4. q \leq v + 1
      BY <3>2
    <3> QED
      BY <3>1, <3>2, <3>3, <3>4
  <2>8. SubSeq(A, p, u) = SubSeq(B, q, v) /\ A[u + 1] = B[v + 1]
    BY <2>2, <2>4
  <2> HIDE DEF u, v, y, z
  <2>9. SubSeq(A, p, u + 1) = Append(SubSeq(A, p, u), A[u + 1])
    BY <1>3, <2>7, SubSeqGrows
  <2>10. SubSeq(B, q, v + 1) = Append(SubSeq(B, q, v), B[v + 1])
    BY <1>3, <2>7, SubSeqGrows
  <2>11. SubSeq(A, p, O[y]) = SubSeq(B, q, W[y])
    BY <2>4, <2>8, <2>9, <2>10 DEF u, v
  <2> QED
    BY <2>1, <2>11 DEF y
<1>6. \A x \in 0..n : x \in P
  <2> HIDE DEF P, n
  <2> QED
    BY <1>1, <1>4, <1>5, CountUp
<1>7. Same(n)
  BY <1>1, <1>6
<1> QED
  BY <1>1, <1>7 DEF p, q, Stretch

\* A hunk is the stretch of the script from f to l, numbered on both sides.
HunkOf(h, E, o, w, f, l) ==
    /\ h.oldStart = o[f - 1] + 1 /\ h.oldLines = o[l] - o[f - 1]
    /\ h.newStart = w[f - 1] + 1 /\ h.newLines = w[l] - w[f - 1]
    /\ h.lines = HunkLines(E, f, l)

\* buildHunks numbers a hunk by the first line it has on each side.
LEMMA HunksAreStretches ==
    ASSUME NEW E, Len(E) \in Nat, NEW a, Len(a) \in Nat, NEW b, Len(b) \in Nat, NEW o, NEW w,
           OneSide(E, a, o, "Added"), OneSide(E, b, w, "Deleted"),
           \A k \in 1..Len(E) : /\ E[k].type # "Added" => E[k].old = o[k]
                                /\ E[k].type # "Deleted" => E[k].new = w[k],
           NEW cluster, NEW f, NEW l, f = HunkStart(cluster), l = HunkEnd(E, cluster),
           f \in 1..Len(E), l \in f..Len(E), f = 1 \/ E[f].type = "Unchanged"
    PROVE  HunkOf(Hunk(E, cluster), E, o, w, f, l)
<1> DEFINE inOld == Numbered(E, f, l, "Added")
           inNew == Numbered(E, f, l, "Deleted")
           h == Hunk(E, cluster)
<1>1. h = [oldStart |-> IF inOld = {} THEN 1 ELSE E[Min(inOld)].old,
           oldLines |-> Cardinality(inOld),
           newStart |-> IF inNew = {} THEN 1 ELSE E[Min(inNew)].new,
           newLines |-> Cardinality(inNew),
           lines |-> HunkLines(E, f, l)]
  BY DEF Hunk
<1>2. f = 1 \/ (E[f].type # "Added" /\ E[f].type # "Deleted")
  OBVIOUS
<1>3. \A k \in f..l : k \in 1..Len(E)
  OBVIOUS
<1>4. /\ inOld = {} => o[f - 1] + 1 = 1
      /\ inOld # {} => /\ Min(inOld) \in f..l /\ E[Min(inOld)].type # "Added"
                       /\ o[Min(inOld)] = o[f - 1] + 1
      /\ Cardinality(inOld) = o[l] - o[f - 1]
  BY <1>2, StretchIsNumbered
<1>5. /\ inNew = {} => w[f - 1] + 1 = 1
      /\ inNew # {} => /\ Min(inNew) \in f..l /\ E[Min(inNew)].type # "Deleted"
                       /\ w[Min(inNew)] = w[f - 1] + 1
      /\ Cardinality(inNew) = w[l] - w[f - 1]
  BY <1>2, StretchIsNumbered
<1> HIDE DEF inOld, inNew, h
<1>6. h.oldStart = o[f - 1] + 1
  BY <1>1, <1>3, <1>4
<1>7. h.newStart = w[f - 1] + 1
  BY <1>1, <1>3, <1>5
<1>8. h.oldLines = Cardinality(inOld) /\ h.newLines = Cardinality(inNew) /\ h.lines = HunkLines(E, f, l)
  BY <1>1
<1> QED
  BY <1>4, <1>5, <1>6, <1>7, <1>8 DEF HunkOf, h

\* Where a patch stands: after the script's first k edits.
Patched(acc, A, B, O, W, k) ==
    acc = [out |-> SubSeq(B, 1, W[k]), next |-> O[k] + 1, fits |-> TRUE]

\* The next hunk of the script fits.
LEMMA HunkFits ==
    ASSUME NEW T, NEW E \in Seq(Edit(T)), NEW A \in Seq(T), NEW B \in Seq(T), NEW O, NEW W, NEW from, NEW to,
           NEW fm, NEW tm, Opposite(fm, tm), OneSide(E, A, O, tm), OneSide(E, B, W, fm),
           NEW g \in 0..Len(E), NEW f \in 1..Len(E), NEW l \in f..Len(E), g < f,
           Untouched(E, g, f - 1),
           NEW acc, Patched(acc, A, B, O, W, g),
           NEW h, h.lines = HunkLines(E, f, l), h[from] = O[f - 1] + 1, h[to] = W[f - 1] + 1
    PROVE  Patched(ApplyHunk(A, from, to, fm, tm, acc, h), A, B, O, W, l)
<1> DEFINE j == f - 1
<1>1. /\ Len(E) \in Nat /\ Len(A) \in Nat /\ Len(B) \in Nat /\ g \in Nat /\ f \in Nat /\ l \in Nat /\ j \in Nat
      /\ j \in 0..Len(E) /\ j \in g..Len(E) /\ l \in j..Len(E) /\ l \in 0..Len(E) /\ j + 1 = f
  OBVIOUS
<1>2. Opposite(tm, fm)
  BY DEF Opposite
<1>3. Side(h, fm) = SubSeq(A, O[j] + 1, O[l]) /\ Side(h, tm) = SubSeq(B, W[j] + 1, W[l])
  BY <1>2, SideIs
<1>4. SubSeq(A, O[g] + 1, O[j]) = SubSeq(B, W[g] + 1, W[j])
  <2>1. Untouched(E, g, j)
    OBVIOUS
  <2> HIDE DEF j
  <2>2. Stretch(A, O, g, j) = Stretch(B, W, g, j)
    BY <1>1, <1>2, <2>1, BetweenIsEqual
  <2> QED
    BY <2>2 DEF Stretch
<1> HIDE DEF j
<1>5. /\ O[g] \in Nat /\ O[j] \in Nat /\ O[l] \in Nat /\ O[g] \leq O[j] /\ O[j] \leq O[l] /\ O[l] \leq Len(A)
  BY <1>1, OneSideGrows
<1>6. /\ W[g] \in Nat /\ W[j] \in Nat /\ W[l] \in Nat /\ W[g] \leq W[j] /\ W[j] \leq W[l] /\ W[l] \leq Len(B)
  BY <1>1, OneSideGrows
<1> DEFINE og == O[g]
           oj == O[j]
           ol == O[l]
           wg == W[g]
           wj == W[j]
           wl == W[l]
           replaced == Side(h, fm)
           end == h[from] + Len(replaced)
           here == acc.out \o SubSeq(A, acc.next, h[from] - 1)
<1>7. h[from] = oj + 1 /\ h[to] = wj + 1 /\ h[from] - 1 = oj
  BY <1>5 DEF j
<1>8. acc.out = SubSeq(B, 1, wg) /\ acc.next = og + 1 /\ acc.fits = TRUE
  BY DEF Patched
<1>9. /\ og \in Nat /\ oj \in Nat /\ ol \in Nat /\ og \leq oj /\ oj \leq ol /\ ol \leq Len(A)
      /\ wg \in Nat /\ wj \in Nat /\ wl \in Nat /\ wg \leq wj /\ wj \leq wl /\ wl \leq Len(B)
  BY <1>5, <1>6
<1>10. replaced = SubSeq(A, oj + 1, ol) /\ Side(h, tm) = SubSeq(B, wj + 1, wl)
  BY <1>3
<1>11. SubSeq(A, og + 1, oj) = SubSeq(B, wg + 1, wj)
  BY <1>4
<1> HIDE DEF og, oj, ol, wg, wj, wl
<1>12. Len(replaced) = ol - oj
  <2>1. Len(SubSeq(A, oj + 1, ol)) = ol - oj
    BY <1>1, <1>9
  <2> QED
    BY <1>10, <2>1
<1> HIDE DEF replaced
<1>13. end = ol + 1 /\ end - 1 = ol
  <2>1. end = (oj + 1) + (ol - oj)
    BY <1>7, <1>12
  <2> HIDE DEF end
  <2>2. (oj + 1) + (ol - oj) = ol + 1 /\ (ol + 1) - 1 = ol
    BY <1>9
  <2> QED
    BY <2>1, <2>2
<1>14. here = SubSeq(B, 1, wj) /\ Len(here) = wj
  <2>1. here = SubSeq(B, 1, wg) \o SubSeq(B, wg + 1, wj)
    BY <1>7, <1>8, <1>11
  <2>2. SubSeq(B, 1, wg) \o SubSeq(B, wg + 1, wj) = SubSeq(B, 1, wj)
    <3>1. wj \leq Len(B) /\ 1 \leq wg + 1 /\ 1 \in Nat \ {0}
      BY <1>1, <1>9
    <3> QED
      BY <1>9, <3>1, SubSeqsJoin
  <2>3. Len(SubSeq(B, 1, wj)) = wj
    BY <1>1, <1>9
  <2> QED
    BY <2>1, <2>2, <2>3
<1>15. here \o Side(h, tm) = SubSeq(B, 1, wl)
  <2>1. SubSeq(B, 1, wj) \o SubSeq(B, wj + 1, wl) = SubSeq(B, 1, wl)
    <3>1. 1 \leq wj + 1 /\ 1 \in Nat \ {0}
      BY <1>9
    <3> QED
      BY <1>9, <3>1, SubSeqsJoin
  <2> QED
    BY <1>10, <1>14, <2>1
<1> HIDE DEF here, end
<1>16. /\ acc.next \leq h[from] /\ end \leq Len(A) + 1 /\ SubSeq(A, h[from], end - 1) = replaced
       /\ h[to] = Len(here) + 1
  <2>1. og + 1 \leq oj + 1 /\ ol + 1 \leq Len(A) + 1
    BY <1>1, <1>9
  <2> QED
    BY <1>7, <1>8, <1>10, <1>13, <1>14, <2>1
<1>17. ApplyHunk(A, from, to, fm, tm, acc, h) = [out |-> here \o Side(h, tm), next |-> end, fits |-> acc.fits]
  BY <1>16 DEF ApplyHunk, here, end, replaced
<1> QED
  BY <1>8, <1>13, <1>15, <1>17 DEF Patched, ol, wl

----------------------------------------------------------------------------
(* The hunks as a patch                                                     *)

HunkTyped(h, from, T) == h[from] \in Nat /\ h.lines \in Seq({"Unchanged", "Added", "Deleted"} \X T)

HunksTyped(hunks, from, T) ==
    /\ Len(hunks) \in Nat /\ DOMAIN hunks = 1..Len(hunks)
    /\ \A c \in 1..Len(hunks) : HunkTyped(hunks[c], from, T)

Patching(T) == [out : Seq(T), next : Nat \ {0}, fits : BOOLEAN]

\* Whatever the hunk, what ApplyHunk leaves is a patching.
LEMMA ApplyHunkIsTyped ==
    ASSUME NEW T, NEW A \in Seq(T), NEW from, NEW to, NEW fm, NEW tm, NEW acc \in Patching(T),
           NEW h, HunkTyped(h, from, T)
    PROVE  ApplyHunk(A, from, to, fm, tm, acc, h) \in Patching(T)
<1> DEFINE replaced == Side(h, fm)
           put == Side(h, tm)
           at == h[from]
           end == at + Len(replaced)
           copied == SubSeq(A, acc.next, at - 1)
           here == acc.out \o copied
           Fit == /\ acc.next \leq at /\ end \leq Len(A) + 1
                  /\ SubSeq(A, at, end - 1) = replaced /\ h[to] = Len(here) + 1
<1>1. h.lines \in Seq({"Unchanged", "Added", "Deleted"} \X T) /\ at \in Nat
  BY DEF HunkTyped
<1>2. replaced \in Seq(T) /\ put \in Seq(T)
  <2>1. Len(h.lines) \in Nat
    BY <1>1
  <2>2. PICK r : ShownBy(r, T, h.lines, fm) /\ Side(h, fm) = r[Len(h.lines)]
    BY <1>1, SideAlong
  <2>3. PICK q : ShownBy(q, T, h.lines, tm) /\ Side(h, tm) = q[Len(h.lines)]
    BY <1>1, SideAlong
  <2>4. Len(h.lines) \in 0..Len(h.lines)
    BY <2>1
  <2> QED
    BY <2>2, <2>3, <2>4 DEF ShownBy
<1>3. acc.out \in Seq(T) /\ acc.next \in Nat \ {0} /\ acc.fits \in BOOLEAN
  BY DEF Patching
<1>4. ApplyHunk(A, from, to, fm, tm, acc, h) =
        IF Fit THEN [out |-> here \o put, next |-> end, fits |-> acc.fits]
        ELSE [out |-> acc.out, next |-> acc.next, fits |-> FALSE]
  BY DEF ApplyHunk
<1> DEFINE n == Len(replaced)
<1>5. n \in Nat /\ Len(A) \in Nat /\ end = at + n
  BY <1>2
<1> HIDE DEF replaced, put, at
<1>6. CASE Fit
  <2>1. end \in Nat \ {0} /\ at - 1 \leq Len(A)
    <3>1. acc.next \leq at /\ end \leq Len(A) + 1
      BY <1>6
    <3> HIDE DEF end, n
    <3> QED
      BY <1>1, <1>3, <1>5, <3>1 DEF at
  <2>2. copied \in Seq(T)
    <3> DEFINE p == acc.next
               q == at - 1
    <3>1. p \in Nat \ {0} /\ q \in Int /\ q \leq Len(A)
      BY <1>1, <1>3, <2>1 DEF at
    <3> HIDE DEF p, q
    <3>2. SubSeq(A, p, q) \in Seq(T)
      BY <1>5, <3>1
    <3> QED
      BY <3>2 DEF p, q
  <2> HIDE DEF copied
  <2>3. here \in Seq(T)
    BY <1>3, <2>2, ConcatProperties
  <2> HIDE DEF here
  <2>4. here \o put \in Seq(T)
    BY <1>2, <2>3, ConcatProperties DEF put
  <2> DEFINE res == [out |-> here \o put, next |-> end, fits |-> acc.fits]
  <2>5. res \in Patching(T)
    BY <1>3, <2>1, <2>4 DEF Patching
  <2> HIDE DEF res
  <2>6. ApplyHunk(A, from, to, fm, tm, acc, h) = res
    BY <1>4, <1>6 DEF res, here, copied
  <2> QED
    BY <2>5, <2>6
<1>7. CASE ~Fit
  <2> DEFINE res == [out |-> acc.out, next |-> acc.next, fits |-> FALSE]
  <2>1. res \in Patching(T)
    BY <1>3 DEF Patching
  <2> HIDE DEF res
  <2>2. ApplyHunk(A, from, to, fm, tm, acc, h) = res
    <3> HIDE DEF Fit
    <3> QED
      BY <1>4, <1>7 DEF res
  <2> QED
    BY <2>1, <2>2
<1> QED
  BY <1>6, <1>7

\* The patch, hunk by hunk.
PatchedBy(r, T, A, hunks, from, to, fm, tm) ==
    /\ r \in [0..Len(hunks) -> Patching(T)]
    /\ r[0] = [out |-> <<>>, next |-> 1, fits |-> TRUE]
    /\ \A c \in 1..Len(hunks) : r[c] = ApplyHunk(A, from, to, fm, tm, r[c - 1], hunks[c])

Completed(acc, A) == [fits |-> acc.fits, text |-> acc.out \o SubSeq(A, acc.next, Len(A))]

LEMMA PatchAlong ==
    ASSUME NEW T, NEW A \in Seq(T), NEW hunks, NEW from, NEW to, NEW fm, NEW tm,
           HunksTyped(hunks, from, T)
    PROVE  \E r : PatchedBy(r, T, A, hunks, from, to, fm, tm) /\ Patch(A, hunks, from, to, fm, tm) = Completed(r[Len(hunks)], A)
<1> DEFINE N == Len(hunks)
           V == Patching(T)
           s == [out |-> <<>>, next |-> 1, fits |-> TRUE]
           Goes(a, v) == ApplyHunk(A, from, to, fm, tm, a, v)
           Is(h) == h = [S \in SUBSET (1..N) |-> IF S = {} THEN s
                                                  ELSE Goes(h[S \ {Max(S)}], hunks[Max(S)])]
           F == CHOOSE h : Is(h)
           step == [i \in 1..N |-> [a \in V |-> Goes(a, hunks[i])]]
<1>1. N \in Nat /\ DOMAIN hunks = 1..N
  BY DEF HunksTyped
<1>2. s \in V
  BY DEF Patching
<1>3. \A a \in V : \A i \in 1..N : Goes(a, hunks[i]) \in V
  <2>1. ASSUME NEW a \in V, NEW i \in 1..N PROVE Goes(a, hunks[i]) \in V
    <3>1. HunkTyped(hunks[i], from, T)
      BY DEF HunksTyped, N
    <3> QED
      BY <3>1, ApplyHunkIsTyped
  <2> QED
    BY <2>1
<1>4. Patch(A, hunks, from, to, fm, tm) = Completed(F[1..N], A)
  <2>1. Patch(A, hunks, from, to, fm, tm) = Completed(
          (CHOOSE h : h = [S \in SUBSET DOMAIN hunks |-> IF S = {} THEN s
                              ELSE Goes(h[S \ {Max(S)}], hunks[Max(S)])])[DOMAIN hunks], A)
    BY DEF Completed, Patch, FoldLeft, MapThenFoldSet
  <2> HIDE DEF Goes, N
  <2> QED
    BY <1>1, <2>1
<1> HIDE DEF Goes, N, V, s
<1>5. step \in [1..N -> [V -> V]]
  BY <1>3
<1>6. PICK h \in [SUBSET (1..N) -> V] : FoldOf(h, s, N, step)
  <2> HIDE DEF step
  <2> QED
    BY <1>1, <1>2, <1>5, FoldsExist
<1>7. \A S \in SUBSET (1..N) : S # {} => Max(S) \in 1..N
  BY <1>1, MaxIsIn
<1>8. Is(h)
  <2>1. ASSUME NEW S \in SUBSET (1..N), S # {}
        PROVE  step[Max(S)][h[S \ {Max(S)}]] = Goes(h[S \ {Max(S)}], hunks[Max(S)])
    <3>1. h[S \ {Max(S)}] \in V
      BY <1>6
    <3> QED
      BY <1>7, <2>1, <3>1
  <2> HIDE DEF step
  <2> QED
    BY <1>6, <2>1 DEF FoldOf
<1>9. Is(F)
  <2> HIDE DEF Is
  <2> QED
    BY <1>8
<1> HIDE DEF F
<1>10. Folded(F, V, s, N, step)
  BY <1>7, <1>9 DEF Folded
<1>11. PICK r : Along(r, V, s, N, step) /\ F[1..N] = r[N]
  <2>1. N \in Nat
    BY <1>1
  <2> HIDE DEF step, Is
  <2> QED
    BY ONLY <2>1, <1>2, <1>5, <1>10, FoldedAlong, SMTT(30)
<1>12. ASSUME NEW n \in 1..N PROVE r[n] = Goes(r[n - 1], hunks[n])
  <2>1. r[n - 1] \in V
    BY <1>1, <1>11 DEF Along
  <2>2. r[n] = step[n][r[n - 1]]
    <3> HIDE DEF step
    <3> QED
      BY <1>11 DEF Along
  <2> QED
    BY <2>1, <2>2
<1> QED
  BY <1>4, <1>11, <1>12 DEF N, Goes, V, s, Along, PatchedBy

\* The hunks lie in the script.
LEMMA CutsAreTyped ==
    ASSUME NEW E, Len(E) \in Nat, NEW F, NEW L, NEW H, Cuts(F, L, H, E)
    PROVE  /\ H \in Nat
           /\ \A c \in 1..H : /\ F[c] \in 1..Len(E) /\ L[c] \in F[c]..Len(E)
                              /\ F[c] \in Nat /\ L[c] \in Nat /\ F[c] \leq L[c]
<1>1. H \in Nat /\ F \in [1..H -> 1..Len(E)] /\ L \in [1..H -> 1..Len(E)] /\ \A c \in 1..H : F[c] \leq L[c]
  BY DEF Cuts
<1>2. ASSUME NEW c \in 1..H
      PROVE  /\ F[c] \in 1..Len(E) /\ L[c] \in F[c]..Len(E)
             /\ F[c] \in Nat /\ L[c] \in Nat /\ F[c] \leq L[c]
  <2>1. F[c] \in 1..Len(E) /\ L[c] \in 1..Len(E) /\ F[c] \leq L[c]
    BY <1>1
  <2> QED
    BY <2>1
<1> QED
  BY <1>1, <1>2

\* Outside the hunks the script leaves the lines alone.
LEMMA CutsLeave ==
    ASSUME NEW E, Len(E) \in Nat, NEW F, NEW L, NEW H, Cuts(F, L, H, E), NEW x \in 1..Len(E)
    PROVE  /\ \A c \in 1..H : (x < F[c] /\ (c = 1 \/ L[c - 1] < x)) => E[x].type = "Unchanged"
           /\ (H = 0 \/ L[H] < x) => E[x].type = "Unchanged"
<1>1. /\ H \in Nat /\ x \in Nat
      /\ \A c \in 1..H : F[c] \in Nat /\ L[c] \in Nat /\ F[c] \leq L[c]
  BY CutsAreTyped
<1>2. \A c, d \in 1..H : c < d => L[c] < F[d]
  BY DEF Cuts
<1>3. E[x].type # "Unchanged" => \E d \in 1..H : F[d] \leq x /\ x \leq L[d]
  BY DEF Cuts
<1>4. \A c, d \in 1..H : c \leq d => L[c] \leq L[d]
  <2>1. \A c, d \in 1..H : c = d \/ c < d => L[c] \leq L[d]
    BY <1>1, <1>2
  <2> QED
    BY <1>1, <2>1
<1>5. ASSUME NEW c \in 1..H, x < F[c], c = 1 \/ L[c - 1] < x, NEW d \in 1..H, F[d] \leq x, x \leq L[d] PROVE FALSE
  <2>1. CASE d < c
    <3>1. c - 1 \in 1..H /\ d \leq c - 1
      BY <1>1, <2>1
    <3>2. L[d] \leq L[c - 1] /\ L[d] \in Nat /\ L[c - 1] \in Nat
      BY <1>1, <1>4, <3>1
    <3>3. L[c - 1] < x
      BY <1>5, <2>1
    <3> QED
      BY <1>1, <1>5, <3>2, <3>3
  <2>2. CASE c \leq d
    <3>1. F[c] \leq F[d]
      <4>1. CASE c = d
        BY <1>1, <4>1
      <4>2. CASE c < d
        <5>1. F[c] \leq L[c] /\ L[c] < F[d] /\ F[c] \in Nat /\ L[c] \in Nat /\ F[d] \in Nat
          BY <1>1, <1>2, <4>2
        <5> QED
          BY <5>1
      <4> QED
        BY <2>2, <4>1, <4>2
    <3>2. F[c] \in Nat /\ F[d] \in Nat
      BY <1>1
    <3> QED
      BY <1>1, <1>5, <3>1, <3>2
  <2> QED
    BY <1>1, <2>1, <2>2
<1>6. ASSUME H = 0 \/ L[H] < x, NEW d \in 1..H, F[d] \leq x, x \leq L[d] PROVE FALSE
  <2>1. H \in 1..H /\ d \leq H /\ H # 0
    BY <1>1
  <2>2. L[d] \leq L[H] /\ L[d] \in Nat /\ L[H] \in Nat
    BY <1>1, <1>4, <2>1
  <2> QED
    BY <1>1, <1>6, <2>1, <2>2
<1> QED
  BY <1>3, <1>5, <1>6

HunkFor(h, E, O, W, from, to, f, l) ==
    h.lines = HunkLines(E, f, l) /\ h[from] = O[f - 1] + 1 /\ h[to] = W[f - 1] + 1

\* Patching one text with the hunks of a script gives the other.
LEMMA PatchRebuilds ==
    ASSUME NEW T, NEW E \in Seq(Edit(T)), NEW A \in Seq(T), NEW B \in Seq(T), NEW O, NEW W, NEW from, NEW to,
           NEW fm, NEW tm, Opposite(fm, tm), OneSide(E, A, O, tm), OneSide(E, B, W, fm),
           NEW F, NEW L, NEW H, Cuts(F, L, H, E), NEW hunks, DOMAIN hunks = 1..H, Len(hunks) = H,
           \A c \in 1..H : HunkFor(hunks[c], E, O, W, from, to, F[c], L[c])
    PROVE  Patch(A, hunks, from, to, fm, tm) = [fits |-> TRUE, text |-> B]
<1> DEFINE K == Len(E)
           G(c) == IF c = 0 THEN 0 ELSE L[c]
<1>1. /\ H \in Nat /\ K \in Nat /\ Len(A) \in Nat /\ Len(B) \in Nat
      /\ \A c \in 1..H : F[c] \in 1..K /\ L[c] \in F[c]..K /\ L[c] \in Nat /\ F[c] \in Nat
  BY CutsAreTyped
<1>2. \A c \in 0..H : G(c) \in 0..K
  <2>1. \A c \in 1..H : L[c] \in 0..K
    BY <1>1
  <2> QED
    BY <1>1, <2>1
<1>3. \A k \in 0..K : O[k] \in Nat /\ W[k] \in Nat
  BY <1>1, OneSideBounds
<1>4. \A c \in 1..H : HunkTyped(hunks[c], from, T)
  <2> TAKE c \in 1..H
  <2>1. HunkLines(E, F[c], L[c]) \in Seq({"Unchanged", "Added", "Deleted"} \X T)
    BY <1>1, HunkLinesAre
  <2>2. F[c] - 1 \in 0..K
    BY <1>1
  <2>3. O[F[c] - 1] \in Nat
    BY <1>3, <2>2
  <2>4. hunks[c].lines = HunkLines(E, F[c], L[c]) /\ hunks[c][from] = O[F[c] - 1] + 1
    BY DEF HunkFor
  <2> QED
    BY <2>1, <2>3, <2>4 DEF HunkTyped
<1>5. PICK r : /\ PatchedBy(r, T, A, hunks, from, to, fm, tm)
               /\ Patch(A, hunks, from, to, fm, tm) = Completed(r[Len(hunks)], A)
  <2>1. HunksTyped(hunks, from, T)
    BY <1>1, <1>4 DEF HunksTyped
  <2> QED
    BY <2>1, PatchAlong
<1> DEFINE P == {c \in 0..H : Patched(r[c], A, B, O, W, G(c))}
<1>6. 0 \in P
  <2>1. W[0] = 0 /\ O[0] = 0
    BY DEF OneSide
  <2>2. SubSeq(B, 1, 0) = <<>>
    BY <1>1, EmptySubSeq
  <2>3. r[0] = [out |-> <<>>, next |-> 1, fits |-> TRUE]
    BY <1>5 DEF PatchedBy
  <2>4. Patched(r[0], A, B, O, W, 0)
    <3>1. 0 + 1 = 1
      OBVIOUS
    <3> QED
      BY <2>1, <2>2, <2>3, <3>1 DEF Patched
  <2>5. G(0) = 0 /\ 0 \in 0..H
    BY <1>1
  <2> HIDE DEF G
  <2> QED
    BY <2>4, <2>5
<1>7. ASSUME NEW c \in 1..H, c - 1 \in P PROVE c \in P
  <2> DEFINE g == G(c - 1)
             f == F[c]
             l == L[c]
             h == hunks[c]
             acc == r[c - 1]
  <2>1. g \in 0..K /\ f \in 1..K /\ l \in f..K /\ c - 1 \in 0..H
    BY <1>1, <1>2
  <2>2. g < f
    <3>1. CASE c = 1
      BY <1>1, <3>1
    <3>2. CASE c # 1
      <4>1. c - 1 \in 1..H /\ c - 1 < c /\ c - 1 # 0
        BY <1>1, <3>2
      <4>2. L[c - 1] < F[c]
        BY <4>1 DEF Cuts
      <4> QED
        BY <4>1, <4>2
    <3> QED
      BY <3>1, <3>2
  <2>3. Untouched(E, g, f - 1)
    <3>1. ASSUME NEW x \in (g + 1)..(f - 1) PROVE E[x].type = "Unchanged"
      <4>1. x \in 1..K /\ x < f /\ g < x
        BY <2>1
      <4>2. c = 1 \/ L[c - 1] < x
        BY <1>1, <4>1
      <4> QED
        BY <1>1, <4>1, <4>2, CutsLeave
    <3> HIDE DEF g
    <3> QED
      BY <3>1 DEF Untouched
  <2>4. Patched(acc, A, B, O, W, g)
    BY <1>7
  <2>5. h.lines = HunkLines(E, f, l) /\ h[from] = O[f - 1] + 1 /\ h[to] = W[f - 1] + 1
    BY DEF HunkFor
  <2>6. r[c] = ApplyHunk(A, from, to, fm, tm, acc, h)
    BY <1>5 DEF PatchedBy
  <2>7. G(c) = l /\ c \in 0..H
    BY <1>1
  <2> HIDE DEF g, f, l, h, acc, G
  <2>8. Patched(ApplyHunk(A, from, to, fm, tm, acc, h), A, B, O, W, l)
    BY <2>1, <2>2, <2>3, <2>4, <2>5, HunkFits
  <2> QED
    BY <2>6, <2>7, <2>8
<1>8. \A c \in 0..H : c \in P
  <2> HIDE DEF P
  <2> QED
    BY <1>1, <1>6, <1>7, CountUp
<1> DEFINE g == G(H)
<1>9. Patched(r[H], A, B, O, W, g) /\ g \in 0..K
  BY <1>1, <1>2, <1>8
<1>10. Untouched(E, g, K)
  <2>1. ASSUME NEW x \in (g + 1)..K PROVE E[x].type = "Unchanged"
    <3>1. x \in 1..K /\ g < x
      BY <1>9
    <3>2. H = 0 \/ L[H] < x
      BY <1>1, <3>1
    <3> QED
      BY <1>1, <3>1, <3>2, CutsLeave
  <2> HIDE DEF g
  <2> QED
    BY <2>1 DEF Untouched
<1> HIDE DEF g
<1>11. /\ Opposite(tm, fm) /\ K \in g..K /\ K \in 0..K
  BY <1>1, <1>9 DEF Opposite
<1>12. Stretch(A, O, g, K) = Stretch(B, W, g, K)
  BY <1>1, <1>9, <1>10, <1>11, BetweenIsEqual
<1>13. O[K] = Len(A) /\ W[K] = Len(B)
  BY DEF OneSide
<1>14. SubSeq(B, 1, W[g]) \o SubSeq(A, O[g] + 1, Len(A)) = B
  <2> DEFINE u == W[g]
  <2>1. u \in Nat /\ u \leq Len(B) /\ 1 \leq u + 1 /\ 1 \in Nat \ {0}
    BY <1>1, <1>9, OneSideBounds
  <2> HIDE DEF u
  <2>2. SubSeq(B, 1, u) \o SubSeq(B, u + 1, Len(B)) = SubSeq(B, 1, Len(B))
    <3> DEFINE m == Len(B)
    <3>1. m \in Nat /\ u \leq m /\ m \leq Len(B)
      BY <1>1, <2>1
    <3> HIDE DEF m
    <3>2. SubSeq(B, 1, u) \o SubSeq(B, u + 1, m) = SubSeq(B, 1, m)
      BY ONLY <2>1, <3>1, SubSeqsJoin, B \in Seq(T), SMTT(30)
    <3> QED
      BY <3>2 DEF m
  <2>3. SubSeq(B, 1, Len(B)) = B
    BY SubSeqFull
  <2>4. SubSeq(A, O[g] + 1, Len(A)) = SubSeq(B, u + 1, Len(B))
    BY <1>12, <1>13 DEF Stretch, u
  <2> QED
    BY <2>2, <2>3, <2>4 DEF u
<1>15. Completed(r[H], A) = [fits |-> TRUE, text |-> B]
  <2> DEFINE acc == r[H]
             out == SubSeq(B, 1, W[g])
  <2>1. acc = [out |-> out, next |-> O[g] + 1, fits |-> TRUE]
    BY <1>9 DEF Patched
  <2> HIDE DEF acc
  <2>2. acc.fits = TRUE /\ acc.out = out /\ acc.next = O[g] + 1
    BY <2>1
  <2>3. out \o SubSeq(A, O[g] + 1, Len(A)) = B
    BY <1>14
  <2> HIDE DEF out
  <2>4. Completed(acc, A) = [fits |-> acc.fits, text |-> acc.out \o SubSeq(A, acc.next, Len(A))]
    BY DEF Completed
  <2>5. acc.out \o SubSeq(A, acc.next, Len(A)) = B
    BY <2>2, <2>3
  <2>6. Completed(acc, A) = [fits |-> TRUE, text |-> B]
    BY <2>2, <2>4, <2>5
  <2> QED
    BY <2>6 DEF acc
<1> QED
  BY <1>5, <1>15

\* The hunks of a script, as stretches of it.
LEMMA HunksOfScript ==
    ASSUME NEW E, Len(E) \in Nat, NEW a, Len(a) \in Nat, NEW b, Len(b) \in Nat, NEW o, NEW w,
           OneSide(E, a, o, "Added"), OneSide(E, b, w, "Deleted"),
           \A k \in 1..Len(E) : /\ E[k].type # "Added" => E[k].old = o[k]
                                /\ E[k].type # "Deleted" => E[k].new = w[k]
    PROVE  \E F, L, H : /\ Cuts(F, L, H, E) /\ DOMAIN BuildHunks(E) = 1..H /\ Len(BuildHunks(E)) = H
                        /\ \A c \in 1..H : HunkOf(BuildHunks(E)[c], E, o, w, F[c], L[c])
<1> DEFINE C == Clusters(E)
           H == Len(C)
           F == [c \in 1..H |-> HunkStart(C[c])]
           L == [c \in 1..H |-> HunkEnd(E, C[c])]
           R == BuildHunks(E)
<1>1. ClusterInv(C, E, Len(E))
  BY ClustersAre
<1> HIDE DEF C
<1>2. Cuts(F, L, H, E)
  BY <1>1, ClustersCut
<1>3. H \in Nat /\ DOMAIN C = 1..H
  BY <1>1 DEF ClusterInv
<1>4. R = [c \in 1..H |-> Hunk(E, C[c])]
  BY <1>3 DEF BuildHunks, C
<1> HIDE DEF R
<1>5. DOMAIN R = 1..H /\ Len(R) = H
  <2> HIDE DEF H
  <2> QED
    BY <1>3, <1>4
<1>6. ASSUME NEW c \in 1..H PROVE HunkOf(R[c], E, o, w, F[c], L[c])
  <2> DEFINE cluster == C[c]
             f == F[c]
             l == L[c]
  <2>1. f = HunkStart(cluster) /\ l = HunkEnd(E, cluster)
    OBVIOUS
  <2> HIDE DEF F, L, f, l, cluster, H
  <2>2. f \in 1..Len(E) /\ l \in f..Len(E)
    BY <1>2, CutsAreTyped DEF f, l
  <2>3. f = 1 \/ E[f].type = "Unchanged"
    BY <1>2 DEF Cuts, f
  <2>4. HunkOf(Hunk(E, cluster), E, o, w, f, l)
    BY <2>1, <2>2, <2>3, HunksAreStretches
  <2> QED
    BY <1>4, <2>4 DEF f, l, cluster
<1> HIDE DEF F, L, H
<1> QED
  BY <1>2, <1>5, <1>6 DEF R

\* A report is a patch both ways, with true counts.
LEMMA ReportIsPatch ==
    ASSUME NEW T, NEW a \in Seq(T), NEW b \in Seq(T),
           NEW hunks, hunks = BuildHunks(ComputeDiffEdits(a, b))
    PROVE  /\ Patch(a, hunks, "oldStart", "newStart", "Deleted", "Added") = [fits |-> TRUE, text |-> b]
           /\ Patch(b, hunks, "newStart", "oldStart", "Added", "Deleted") = [fits |-> TRUE, text |-> a]
           /\ \A h \in ToSet(hunks) : /\ h.oldLines = Len(Side(h, "Deleted"))
                                      /\ h.newLines = Len(Side(h, "Added"))
<1> DEFINE E == ComputeDiffEdits(a, b)
<1>1. /\ E \in Seq(Edit(T))
      /\ \E o, w : Script(E, a, b, o, w) /\ o[0] = 0 /\ w[0] = 0
  BY EditsAreScript
<1> HIDE DEF E
<1>2. PICK o, w : Script(E, a, b, o, w) /\ o[0] = 0 /\ w[0] = 0
  BY <1>1
<1>3. /\ OneSide(E, a, o, "Added") /\ OneSide(E, b, w, "Deleted")
      /\ \A k \in 1..Len(E) : /\ E[k].type # "Added" => E[k].old = o[k]
                              /\ E[k].type # "Deleted" => E[k].new = w[k]
  BY <1>2, ScriptHasSides
<1>4. Len(E) \in Nat /\ Len(a) \in Nat /\ Len(b) \in Nat
  BY <1>1
<1>5. PICK F, L, H : /\ Cuts(F, L, H, E) /\ DOMAIN hunks = 1..H /\ Len(hunks) = H
                     /\ \A c \in 1..H : HunkOf(hunks[c], E, o, w, F[c], L[c])
  BY <1>3, <1>4, HunksOfScript DEF E
<1>6. Opposite("Deleted", "Added") /\ Opposite("Added", "Deleted")
  BY DEF Opposite
<1>7. Patch(a, hunks, "oldStart", "newStart", "Deleted", "Added") = [fits |-> TRUE, text |-> b]
  <2>1. \A c \in 1..H : HunkFor(hunks[c], E, o, w, "oldStart", "newStart", F[c], L[c])
    BY <1>5 DEF HunkFor, HunkOf
  <2> QED
    BY <1>1, <1>3, <1>5, <1>6, <2>1, PatchRebuilds
<1>8. Patch(b, hunks, "newStart", "oldStart", "Added", "Deleted") = [fits |-> TRUE, text |-> a]
  <2>1. \A c \in 1..H : HunkFor(hunks[c], E, w, o, "newStart", "oldStart", F[c], L[c])
    BY <1>5 DEF HunkFor, HunkOf
  <2> QED
    BY <1>1, <1>3, <1>5, <1>6, <2>1, PatchRebuilds
<1>9. ASSUME NEW h \in ToSet(hunks)
      PROVE  h.oldLines = Len(Side(h, "Deleted")) /\ h.newLines = Len(Side(h, "Added"))
  <2>1. PICK c \in 1..H : h = hunks[c]
    BY <1>5 DEF ToSet
  <2> DEFINE f == F[c]
             l == L[c]
  <2>2. f \in 1..Len(E) /\ l \in f..Len(E)
    BY <1>4, <1>5, CutsAreTyped
  <2>3. HunkOf(h, E, o, w, f, l)
    BY <1>5, <2>1
  <2> HIDE DEF f, l
  <2>4. h.oldLines = o[l] - o[f - 1] /\ h.newLines = w[l] - w[f - 1] /\ h.lines = HunkLines(E, f, l)
    BY <2>3 DEF HunkOf
  <2>5. /\ Side(h, "Deleted") = SubSeq(a, o[f - 1] + 1, o[l])
        /\ Side(h, "Added") = SubSeq(b, w[f - 1] + 1, w[l])
    BY <1>1, <1>3, <1>6, <2>2, <2>4, SideIs
  <2>6. f - 1 \in 0..Len(E) /\ l \in (f - 1)..Len(E)
    BY <1>4, <2>2
  <2>7. /\ o[f - 1] \leq o[l] /\ o[f - 1] \in Nat /\ o[l] \in Nat /\ o[l] \leq Len(a)
        /\ w[f - 1] \leq w[l] /\ w[f - 1] \in Nat /\ w[l] \in Nat /\ w[l] \leq Len(b)
    <3> DEFINE j == f - 1
    <3>1. j \in 0..Len(E) /\ l \in j..Len(E)
      BY <2>6
    <3> HIDE DEF j
    <3> QED
      BY <1>3, <1>4, <3>1, OneSideGrows DEF j
  <2> DEFINE p == o[f - 1]
             q == o[l]
             u == w[f - 1]
             v == w[l]
  <2>8. p \in Nat /\ q \in Nat /\ p \leq q /\ q \leq Len(a) /\ u \in Nat /\ v \in Nat /\ u \leq v /\ v \leq Len(b)
    BY <2>7
  <2> HIDE DEF p, q, u, v
  <2>9. Len(SubSeq(a, p + 1, q)) = q - p
    BY <1>4, <2>8
  <2>10. Len(SubSeq(b, u + 1, v)) = v - u
    BY <1>4, <2>8
  <2> QED
    BY <2>4, <2>5, <2>9, <2>10 DEF p, q, u, v
<1> QED
  BY <1>7, <1>8, <1>9

\* A report without hunks leaves the text.
LEMMA NothingToPatch ==
    ASSUME NEW T, NEW a \in Seq(T), NEW from, NEW to, NEW fm, NEW tm
    PROVE  Patch(a, <<>>, from, to, fm, tm) = [fits |-> TRUE, text |-> a]
<1> DEFINE none == <<>>
<1>1. HunksTyped(none, from, T) /\ Len(none) = 0
  BY DEF HunksTyped
<1> HIDE DEF none
<1>2. PICK r : PatchedBy(r, T, a, none, from, to, fm, tm) /\ Patch(a, none, from, to, fm, tm) = Completed(r[Len(none)], a)
  BY <1>1, PatchAlong
<1>3. r[0] = [out |-> <<>>, next |-> 1, fits |-> TRUE]
  BY <1>2 DEF PatchedBy
<1>4. <<>> \o SubSeq(a, 1, Len(a)) = a
  <2>1. SubSeq(a, 1, Len(a)) = a
    BY SubSeqFull
  <2>2. <<>> \o a = a
    BY ConcatEmptySeq
  <2> QED
    BY <2>1, <2>2
<1>5. Completed(r[0], a) = [fits |-> TRUE, text |-> a]
  <2>1. r[0].out = <<>> /\ r[0].next = 1 /\ r[0].fits = TRUE
    BY <1>3
  <2> QED
    BY <1>4, <2>1 DEF Completed
<1> QED
  BY <1>1, <1>2, <1>5 DEF none

----------------------------------------------------------------------------
(* DiffIsExact                                                              *)

diffInv == old \in Seq(DOMAIN Bare) /\ new \in Seq(DOMAIN Bare)

\* The texts are sequences of stored lines.
LEMMA DiffInvHolds == diffInit /\ [][diffNext]_diffVars => []diffInv
<1>1. diffInit => diffInv
  BY DEF diffInit, diffInv
<1>2. diffInv /\ [diffNext]_diffVars => diffInv'
  <2> SUFFICES ASSUME diffInv, [diffNext]_diffVars PROVE diffInv'
    OBVIOUS
  <2>1. CASE AppendOld
    BY <2>1 DEF AppendOld, diffInv
  <2>2. CASE AppendNew
    BY <2>2 DEF AppendNew, diffInv
  <2>3. CASE UNCHANGED diffVars
    BY <2>3 DEF diffVars, diffInv
  <2> QED
    BY <2>1, <2>2, <2>3 DEF diffNext
<1> QED
  BY <1>1, <1>2, PTL

\* On any two texts ComputeDiffBetweenContents gives a minimal, exact patch.
LEMMA ReportIsExact == diffInv => DiffIsExact
<1> SUFFICES ASSUME diffInv PROVE DiffIsExact
  OBVIOUS
<1> DEFINE T == {Bare[l] : l \in DOMAIN Bare}
           a == SplitLines(old)
           b == SplitLines(new)
           hunks == ComputeDiffBetweenContents(old, new)
<1>1. a \in Seq(T) /\ b \in Seq(T)
  BY DEF diffInv, SplitLines
<1> HIDE DEF a, b, T
<1>2. ASSUME NEW s \in Subsequences(a) \cap Subsequences(b)
      PROVE  Len(ComputeDiffEdits(a, b)) \leq Len(a) + Len(b) - Len(s)
  <2> DEFINE D == LcsTable(a, b)
             d == D[Len(a)][Len(b)]
             E == ComputeDiffEdits(a, b)
  <2>1. Len(a) \in Nat /\ Len(b) \in Nat
    BY <1>1
  <2>2. IsTable(D, a, b)
    BY <2>1, TableIs
  <2>3. s \in Seq(T) /\ Len(s) \leq d
    <3> HIDE DEF D
    <3> QED
      BY <1>1, <2>2, CommonIsNoLonger
  <2>4. E \in Seq(Edit(T)) /\ Len(E) + d = Len(a) + Len(b)
    BY <1>1, EditsAreScript
  <2>5. d \in Nat
    <3>1. Len(a) \in 0..Len(a) /\ Len(b) \in 0..Len(b)
      BY <2>1
    <3> HIDE DEF D
    <3> QED
      BY <2>2, <3>1 DEF IsTable
  <2> HIDE DEF d, E, D
  <2>6. Len(E) \in Nat /\ Len(s) \in Nat
    BY <2>3, <2>4
  <2>7. Len(E) \leq Len(a) + Len(b) - Len(s)
    BY <2>1, <2>3, <2>4, <2>5, <2>6
  <2> QED
    BY <2>7 DEF E
<1>3. DiffIsMinimal
  BY <1>2 DEF DiffIsMinimal, a, b
<1>4. /\ Patch(a, hunks, "oldStart", "newStart", "Deleted", "Added") = [fits |-> TRUE, text |-> b]
      /\ Patch(b, hunks, "newStart", "oldStart", "Added", "Deleted") = [fits |-> TRUE, text |-> a]
      /\ \A h \in ToSet(hunks) : /\ h.oldLines = Len(Side(h, "Deleted"))
                                 /\ h.newLines = Len(Side(h, "Added"))
  <2>1. CASE a = b
    <3>1. hunks = <<>>
      BY <2>1 DEF ComputeDiffBetweenContents, a, b
    <3>2. ToSet(hunks) = {}
      BY <3>1 DEF ToSet
    <3> HIDE DEF hunks
    <3> QED
      BY <1>1, <2>1, <3>1, <3>2, NothingToPatch
  <2>2. CASE a # b
    <3>1. hunks = BuildHunks(ComputeDiffEdits(a, b))
      BY <2>2 DEF ComputeDiffBetweenContents, a, b
    <3> HIDE DEF hunks
    <3> QED
      BY <1>1, <3>1, ReportIsPatch
  <2> QED
    BY <2>1, <2>2
<1>5. /\ Applied(hunks) = [fits |-> TRUE, text |-> b]
      /\ Reverted(hunks) = [fits |-> TRUE, text |-> a]
  <2> HIDE DEF hunks
  <2> QED
    BY <1>4 DEF Applied, Reverted, a, b
<1> QED
  BY <1>3, <1>4, <1>5 DEF DiffIsExact, a, b

\* Of any two texts of any length, and for every positive context, the report of
\* computeDiffEdits and buildHunks is a shortest script, makes either text out of
\* the other with each hunk at the lines its header names, and counts them right.
THEOREM DiffIsExactHolds == servicesSpec => []DiffIsExact
<1>1. servicesInit => diffInit
  BY DEF servicesInit
<1>2. ASSUME [servicesNext]_servicesVars PROVE [diffNext]_diffVars
  <2>1. CASE servicesNext
    BY <2>1 DEF servicesNext, Runs
  <2>2. CASE UNCHANGED servicesVars
    BY <2>2 DEF servicesVars
  <2> QED
    BY <1>2, <2>1, <2>2
<1>3. servicesInit /\ [][servicesNext]_servicesVars => diffInit /\ [][diffNext]_diffVars
  BY <1>1, <1>2, PTL
<1> QED
  BY <1>3, DiffInvHolds, ReportIsExact, PTL DEF servicesSpec

----------------------------------------------------------------------------
(* GlobIsExact                                                             *)

StarFree(str) == "*" \notin {str[i] : i \in 1..Len(str)}

\* Where globMatch may stand.
Globbing == [p : Nat, s : Nat, star : Nat, from : Nat, stuck : BOOLEAN]

\* What one turn does.
LEMMA GlobTurnIs ==
    ASSUME NEW p, NEW str, NEW at \in Globbing, StarFree(str), Len(p) \in Nat, Len(str) \in Nat, at.s # 0
    PROVE  \/ (at.stuck \/ ~(at.s \leq Len(str))) /\ GlobTurn(at, p, str) = at
           \/ /\ ~at.stuck /\ at.s \leq Len(str) /\ at.p \leq Len(p) /\ p[at.p] \in {"?", str[at.s]}
              /\ GlobTurn(at, p, str) = [at EXCEPT !.p = @ + 1, !.s = @ + 1]
           \/ /\ ~at.stuck /\ at.s \leq Len(str) /\ at.p \leq Len(p) /\ p[at.p] = "*"
              /\ GlobTurn(at, p, str) = [at EXCEPT !.star = at.p, !.from = at.s, !.p = @ + 1]
           \/ /\ ~at.stuck /\ at.s \leq Len(str) /\ (at.p \leq Len(p) => p[at.p] \notin {"?", str[at.s], "*"})
              /\ at.star = 0 /\ GlobTurn(at, p, str) = [at EXCEPT !.stuck = TRUE]
           \/ /\ ~at.stuck /\ at.s \leq Len(str) /\ (at.p \leq Len(p) => p[at.p] \notin {"?", str[at.s], "*"})
              /\ at.star # 0 /\ GlobTurn(at, p, str) = Back(at)
<1>1. at.p \in Nat /\ at.s \in Nat /\ at.star \in Nat
  BY DEF Globbing
<1> DEFINE res == GlobTurn(at, p, str)
           b == at.s > Len(str)
           m == at.p \leq Len(p) /\ p[at.p] \in {"?", str[at.s]}
           w == at.p \leq Len(p) /\ p[at.p] = "*" /\ str[at.s] # "*"
<1>2. res = CASE at.stuck \/ b -> at
              [] ~at.stuck /\ at.s \leq Len(str) /\ at.p \leq Len(p) /\ p[at.p] \in {"?", str[at.s]} ->
                   [at EXCEPT !.p = @ + 1, !.s = @ + 1]
              [] ~at.stuck /\ at.s \leq Len(str) /\ at.p \leq Len(p) /\ p[at.p] = "*" /\ str[at.s] # "*" ->
                   [at EXCEPT !.star = at.p, !.from = at.s, !.p = @ + 1]
              [] OTHER -> IF at.star = 0 THEN [at EXCEPT !.stuck = TRUE] ELSE Back(at)
  BY DEF GlobTurn
<1> HIDE DEF res
<1>3. b <=> ~(at.s \leq Len(str))
  BY <1>1
<1>4. CASE at.stuck \/ b
  <2>1. res = at
    BY <1>2, <1>3, <1>4
  <2> QED
    BY <1>3, <1>4, <2>1 DEF res
<1>5. CASE ~at.stuck /\ ~b
  <2>1. str[at.s] # "*"
    <3>1. at.s \in 1..Len(str)
      BY <1>1, <1>3, <1>5
    <3> QED
      BY <3>1 DEF StarFree
  <2>2. CASE m
    <3>1. res = [at EXCEPT !.p = @ + 1, !.s = @ + 1]
      <4>1. ~(p[at.p] = "*" /\ str[at.s] # "*")
        BY <2>1, <2>2
      <4> QED
        BY <1>2, <1>3, <1>5, <2>2, <4>1
    <3> QED
      BY <1>3, <1>5, <2>2, <3>1 DEF res
  <2>3. CASE ~m /\ w
    <3>1. res = [at EXCEPT !.star = at.p, !.from = at.s, !.p = @ + 1]
      BY <1>2, <1>3, <1>5, <2>3
    <3> QED
      BY <1>3, <1>5, <2>3, <3>1 DEF res
  <2>4. CASE ~m /\ ~w
    <3>1. res = IF at.star = 0 THEN [at EXCEPT !.stuck = TRUE] ELSE Back(at)
      BY <1>2, <1>3, <1>5, <2>4
    <3>2. at.p \leq Len(p) => p[at.p] \notin {"?", str[at.s], "*"}
      BY <2>1, <2>4
    <3>3. at.star = 0 => res = [at EXCEPT !.stuck = TRUE]
      BY <3>1
    <3>4. at.star # 0 => res = Back(at)
      BY <3>1
    <3> QED
      BY <1>3, <1>5, <3>2, <3>3, <3>4 DEF res
  <2> QED
    BY <2>2, <2>3, <2>4
<1> QED
  BY <1>4, <1>5

\* The turns of the loop, by what they do: an end, a character that fits, a
\* star, the end of all hope, and the way back.
Rests(at, then, p, str) == (at.stuck \/ ~(at.s \leq Len(str))) /\ then = at
Fits1(at, then, p, str) ==
    /\ at.p \leq Len(p) /\ p[at.p] \in {"?", str[at.s]}
    /\ then.p = at.p + 1 /\ then.s = at.s + 1 /\ then.star = at.star /\ then.from = at.from /\ ~then.stuck
Stars(at, then, p, str) ==
    /\ at.p \leq Len(p) /\ p[at.p] = "*"
    /\ then.p = at.p + 1 /\ then.s = at.s /\ then.star = at.p /\ then.from = at.s /\ ~then.stuck
Fails(at, p, str) == at.p \leq Len(p) => p[at.p] \notin {"?", str[at.s], "*"}
GivesUp(at, then, p, str) ==
    /\ Fails(at, p, str) /\ at.star = 0
    /\ then.p = at.p /\ then.s = at.s /\ then.star = at.star /\ then.from = at.from /\ then.stuck
GoesBack(at, then, p, str) ==
    /\ Fails(at, p, str) /\ at.star # 0
    /\ then.p = at.star + 1 /\ then.s = at.from + 1 /\ then.star = at.star /\ then.from = at.from + 1 /\ ~then.stuck

Running(at, str) == ~at.stuck /\ at.s \leq Len(str)

LEMMA GlobTurnMoves ==
    ASSUME NEW p, NEW str, NEW at \in Globbing, StarFree(str), Len(p) \in Nat, Len(str) \in Nat, at.s # 0,
           NEW then, then = GlobTurn(at, p, str)
    PROVE  /\ then \in Globbing
           /\ \/ Rests(at, then, p, str)
              \/ Running(at, str) /\ Fits1(at, then, p, str)
              \/ Running(at, str) /\ Stars(at, then, p, str)
              \/ Running(at, str) /\ GivesUp(at, then, p, str)
              \/ Running(at, str) /\ GoesBack(at, then, p, str)
<1>1. /\ at.p \in Nat /\ at.s \in Nat /\ at.star \in Nat /\ at.from \in Nat /\ at.stuck \in BOOLEAN
      /\ at = [p |-> at.p, s |-> at.s, star |-> at.star, from |-> at.from, stuck |-> at.stuck]
  BY DEF Globbing
<1>2. CASE (at.stuck \/ ~(at.s \leq Len(str))) /\ then = at
  BY <1>2 DEF Rests
<1>3. CASE /\ ~at.stuck /\ at.s \leq Len(str) /\ at.p \leq Len(p) /\ p[at.p] \in {"?", str[at.s]}
           /\ then = [at EXCEPT !.p = @ + 1, !.s = @ + 1]
  <2>1. then = [p |-> at.p + 1, s |-> at.s + 1, star |-> at.star, from |-> at.from, stuck |-> at.stuck]
    BY <1>1, <1>3
  <2>2. then \in Globbing
    BY <1>1, <2>1 DEF Globbing
  <2>3. then.p = at.p + 1 /\ then.s = at.s + 1 /\ then.star = at.star /\ then.from = at.from /\ then.stuck = at.stuck
    BY <2>1
  <2> QED
    BY <1>3, <2>2, <2>3 DEF Fits1, Running
<1>4. CASE /\ ~at.stuck /\ at.s \leq Len(str) /\ at.p \leq Len(p) /\ p[at.p] = "*"
           /\ then = [at EXCEPT !.star = at.p, !.from = at.s, !.p = @ + 1]
  <2>1. then = [p |-> at.p + 1, s |-> at.s, star |-> at.p, from |-> at.s, stuck |-> at.stuck]
    BY <1>1, <1>4
  <2>2. then \in Globbing
    BY <1>1, <2>1 DEF Globbing
  <2>3. then.p = at.p + 1 /\ then.s = at.s /\ then.star = at.p /\ then.from = at.s /\ then.stuck = at.stuck
    BY <2>1
  <2> QED
    BY <1>4, <2>2, <2>3 DEF Stars, Running
<1>5. CASE /\ ~at.stuck /\ at.s \leq Len(str) /\ Fails(at, p, str)
           /\ at.star = 0 /\ then = [at EXCEPT !.stuck = TRUE]
  <2>1. then = [p |-> at.p, s |-> at.s, star |-> at.star, from |-> at.from, stuck |-> TRUE]
    BY <1>1, <1>5
  <2>2. then \in Globbing
    BY <1>1, <2>1 DEF Globbing
  <2>3. then.p = at.p /\ then.s = at.s /\ then.star = at.star /\ then.from = at.from /\ then.stuck
    BY <2>1
  <2> QED
    BY <1>5, <2>2, <2>3 DEF GivesUp, Running
<1>6. CASE /\ ~at.stuck /\ at.s \leq Len(str) /\ Fails(at, p, str)
           /\ at.star # 0 /\ then = Back(at)
  <2>1. then = [p |-> at.star + 1, s |-> at.from + 1, star |-> at.star, from |-> at.from + 1, stuck |-> at.stuck]
    BY <1>1, <1>6 DEF Back
  <2>2. then \in Globbing
    BY <1>1, <2>1 DEF Globbing
  <2>3. then.p = at.star + 1 /\ then.s = at.from + 1 /\ then.star = at.star /\ then.from = at.from + 1 /\ then.stuck = at.stuck
    BY <2>1
  <2> QED
    BY <1>6, <2>2, <2>3 DEF GoesBack, Running
<1> QED
  BY <1>2, <1>3, <1>4, <1>5, <1>6, GlobTurnIs DEF Fails

----------------------------------------------------------------------------

\* The character of a pattern at place k stands for the stretch behind
\* cut[k - 1], up to cut[k].
StandsFor(cut, p, str, k) ==
    IF p[k] = "*" THEN cut[k - 1] \leq cut[k]
    ELSE cut[k] = cut[k - 1] + 1 /\ p[k] \in {"?", str[cut[k]]}

\* The first n characters of a pattern stand for the first m of a string.
CutUp(c, p, str, n, m) ==
    /\ c \in [0..n -> 0..Len(str)] /\ c[0] = 0 /\ c[n] = m
    /\ \A k \in 1..n : StandsFor(c, p, str, k)

LEMMA CutIsCutUp ==
    ASSUME NEW p, NEW str PROVE CutsInto(p, str) <=> \E c : CutUp(c, p, str, Len(p), Len(str))
<1>1. ASSUME NEW c PROVE CutUp(c, p, str, Len(p), Len(str)) <=>
         /\ c \in [0..Len(p) -> 0..Len(str)]
         /\ c[0] = 0 /\ c[Len(p)] = Len(str)
         /\ \A i \in 1..Len(p) :
              IF p[i] = "*" THEN c[i - 1] <= c[i]
              ELSE c[i] = c[i - 1] + 1 /\ p[i] \in {"?", str[c[i]]}
  BY DEF CutUp, StandsFor
<1> QED
  BY <1>1 DEF CutsInto

\* One character more.
LEMMA CutGrows ==
    ASSUME NEW p, NEW str, Len(str) \in Nat, NEW n \in Nat, NEW m \in 0..Len(str), NEW c, CutUp(c, p, str, n, m),
           NEW q \in 0..Len(str),
           (p[n + 1] = "*" /\ m \leq q) \/ (p[n + 1] # "*" /\ q = m + 1 /\ p[n + 1] \in {"?", str[q]})
    PROVE  \E d : CutUp(d, p, str, n + 1, q)
<1> DEFINE d == [k \in 0..(n + 1) |-> IF k = n + 1 THEN q ELSE c[k]]
<1>1. \A k \in 0..n : k \in 0..(n + 1) /\ k # n + 1
  OBVIOUS
<1>2. /\ n + 1 \in 0..(n + 1) /\ 0 \in 0..n /\ n \in 0..n /\ n + 1 - 1 = n
      /\ \A k \in 0..(n + 1) : k = n + 1 \/ k \in 0..n
  OBVIOUS
<1>3. c \in [0..n -> 0..Len(str)] /\ c[0] = 0 /\ c[n] = m /\ \A k \in 1..n : StandsFor(c, p, str, k)
  BY DEF CutUp
<1>4. d \in [0..(n + 1) -> 0..Len(str)]
  BY <1>2, <1>3
<1>5. d[n + 1] = q /\ \A k \in 0..n : d[k] = c[k]
  BY <1>1, <1>2
<1> HIDE DEF d
<1>6. d[0] = 0 /\ d[n] = m
  BY <1>2, <1>3, <1>5
<1>7. ASSUME NEW k \in 1..(n + 1) PROVE StandsFor(d, p, str, k)
  <2>1. CASE k = n + 1
    BY <1>2, <1>5, <1>6, <2>1 DEF StandsFor
  <2>2. CASE k # n + 1
    <3>1. k \in 1..n /\ k \in 0..n /\ k - 1 \in 0..n
      BY <2>2
    <3>2. d[k] = c[k] /\ d[k - 1] = c[k - 1] /\ StandsFor(c, p, str, k)
      BY <1>3, <1>5, <3>1
    <3> QED
      BY <3>2 DEF StandsFor
  <2> QED
    BY <2>1, <2>2
<1>8. CutUp(d, p, str, n + 1, q)
  BY <1>4, <1>5, <1>6, <1>7 DEF CutUp
<1> QED
  BY <1>8

NoStars(p, i, j) == \A k \in (i + 1)..j : p[k] # "*"

\* In a cut the places never go down, and where there is no star they keep
\* pace with the pattern.
LEMMA CutAdvances ==
    ASSUME NEW p, Len(p) \in Nat, NEW str, Len(str) \in Nat, NEW c, CutUp(c, p, str, Len(p), Len(str)),
           NEW i \in 0..Len(p), NEW j \in i..Len(p)
    PROVE  /\ c[i] \in Nat /\ c[j] \in Nat /\ c[i] \leq c[j] /\ c[j] \leq Len(str)
           /\ NoStars(p, i, j) => c[j] - c[i] = j - i
<1> DEFINE n == j - i
           P == {x \in 0..n : c[i] \leq c[i + x]}
           Q == {x \in 0..n : c[i + x] = c[i] + x}
<1>1. /\ i \in Nat /\ j \in Nat /\ n \in Nat /\ i + 0 = i /\ i + n = j /\ n \in 0..n /\ 0 \in 0..n
      /\ j \in 0..Len(p)
  OBVIOUS
<1>2. \A k \in 0..Len(p) : c[k] \in Nat /\ c[k] \leq Len(str)
  <2>1. \A k \in 0..Len(p) : c[k] \in 0..Len(str)
    BY DEF CutUp
  <2> QED
    BY <2>1
<1>3. ASSUME NEW k \in 1..Len(p)
      PROVE  c[k - 1] \leq c[k] /\ (p[k] # "*" => c[k] = c[k - 1] + 1)
  <2>1. StandsFor(c, p, str, k)
    BY DEF CutUp
  <2>2. k \in 0..Len(p) /\ k - 1 \in 0..Len(p)
    OBVIOUS
  <2>3. c[k] \in Nat /\ c[k - 1] \in Nat
    BY <1>2, <2>2
  <2>4. p[k] # "*" => c[k] = c[k - 1] + 1
    BY <2>1 DEF StandsFor
  <2>5. p[k] = "*" => c[k - 1] \leq c[k]
    BY <2>1 DEF StandsFor
  <2> QED
    BY <2>3, <2>4, <2>5
<1>4. ASSUME NEW x \in 1..n
      PROVE  /\ i + x \in 1..Len(p) /\ i + x \in (i + 1)..j /\ i + x - 1 = i + (x - 1)
             /\ i + x \in 0..Len(p) /\ i + (x - 1) \in 0..Len(p) /\ x \in 0..n
  BY <1>1
<1>5. c[i] \in Nat /\ c[j] \in Nat /\ c[j] \leq Len(str)
  BY <1>1, <1>2
<1>6. c[i] \leq c[j]
  <2>1. 0 \in P
    BY <1>1, <1>5
  <2>2. ASSUME NEW x \in 1..n, x - 1 \in P PROVE x \in P
    <3>1. c[i + (x - 1)] \leq c[i + x] /\ c[i + (x - 1)] \in Nat /\ c[i + x] \in Nat
      BY <1>2, <1>3, <1>4
    <3>2. c[i] \leq c[i + (x - 1)]
      BY <2>2
    <3>3. c[i] \leq c[i + x]
      BY <1>5, <3>1, <3>2
    <3> QED
      BY <1>4, <3>3
  <2>3. \A x \in 0..n : x \in P
    <3> HIDE DEF P, n
    <3> QED
      BY <1>1, <2>1, <2>2, CountUp
  <2>4. c[i] \leq c[i + n]
    BY <1>1, <2>3
  <2> QED
    BY <1>1, <2>4
<1>7. ASSUME NoStars(p, i, j) PROVE c[j] - c[i] = j - i
  <2>1. 0 \in Q
    BY <1>1, <1>5
  <2>2. ASSUME NEW x \in 1..n, x - 1 \in Q PROVE x \in Q
    <3>1. p[i + x] # "*"
      BY <1>4, <1>7 DEF NoStars
    <3>2. c[i + x] = c[i + (x - 1)] + 1
      BY <1>3, <1>4, <3>1
    <3>3. c[i + (x - 1)] = c[i] + (x - 1)
      BY <2>2
    <3>4. c[i + x] = c[i] + x
      BY <1>5, <3>2, <3>3
    <3> QED
      BY <1>4, <3>4
  <2>3. \A x \in 0..n : x \in Q
    <3> HIDE DEF Q, n
    <3> QED
      BY <1>1, <2>1, <2>2, CountUp
  <2>4. c[i + n] = c[i] + n
    BY <1>1, <2>3
  <2>5. c[j] = c[i] + n
    BY <1>1, <2>4
  <2> QED
    BY <1>1, <1>5, <2>5
<1> QED
  BY <1>5, <1>6, <1>7

LEMMA CutStep ==
    ASSUME NEW p, NEW str, NEW n \in Nat, NEW m, NEW c, CutUp(c, p, str, n, m), NEW k \in 1..n, Len(str) \in Nat
    PROVE  /\ c[k - 1] \in Nat /\ c[k] \in Nat /\ c[k] \leq Len(str)
           /\ p[k] = "*" => c[k - 1] \leq c[k]
           /\ p[k] # "*" => c[k] = c[k - 1] + 1 /\ p[k] \in {"?", str[c[k]]}
<1>1. c \in [0..n -> 0..Len(str)] /\ StandsFor(c, p, str, k)
  BY DEF CutUp
<1>2. k \in 0..n /\ k - 1 \in 0..n
  OBVIOUS
<1>3. c[k] \in 0..Len(str) /\ c[k - 1] \in 0..Len(str)
  BY <1>1, <1>2
<1>4. p[k] = "*" => c[k - 1] \leq c[k]
  BY <1>1 DEF StandsFor
<1>5. p[k] # "*" => c[k] = c[k - 1] + 1 /\ p[k] \in {"?", str[c[k]]}
  BY <1>1 DEF StandsFor
<1> QED
  BY <1>3, <1>4, <1>5

\* A star at the end of a cut takes one character more.
LEMMA CutStretches ==
    ASSUME NEW p, NEW str, Len(str) \in Nat, NEW n \in Nat \ {0}, NEW m \in Nat, m < Len(str), NEW c, CutUp(c, p, str, n, m),
           p[n] = "*"
    PROVE  \E d : CutUp(d, p, str, n, m + 1)
<1> DEFINE d == [k \in 0..n |-> IF k = n THEN m + 1 ELSE c[k]]
<1>1. c \in [0..n -> 0..Len(str)] /\ c[0] = 0 /\ c[n] = m /\ \A k \in 1..n : StandsFor(c, p, str, k)
  BY DEF CutUp
<1>2. m + 1 \in 0..Len(str) /\ 0 \in 0..n /\ 0 # n /\ n \in 0..n /\ n \in 1..n
  OBVIOUS
<1>3. d \in [0..n -> 0..Len(str)]
  BY <1>1, <1>2
<1>4. d[n] = m + 1 /\ \A k \in 0..n : k # n => d[k] = c[k]
  BY <1>2
<1> HIDE DEF d
<1>5. ASSUME NEW k \in 1..n PROVE StandsFor(d, p, str, k)
  <2>1. k \in 0..n /\ k - 1 \in 0..n /\ k - 1 # n
    OBVIOUS
  <2>2. d[k - 1] = c[k - 1]
    BY <1>4, <2>1
  <2>3. CASE k = n
    <3>1. c[n - 1] \in Nat /\ c[n - 1] \leq c[n]
      BY <1>2, CutStep
    <3>2. d[k - 1] \leq d[k]
      BY <1>1, <1>4, <2>2, <2>3, <3>1
    <3> QED
      BY <2>3, <3>2 DEF StandsFor
  <2>4. CASE k # n
    <3>1. d[k] = c[k] /\ StandsFor(c, p, str, k)
      BY <1>1, <1>4, <2>1, <2>4
    <3> QED
      BY <2>2, <3>1 DEF StandsFor
  <2> QED
    BY <2>3, <2>4
<1>6. CutUp(d, p, str, n, m + 1)
  BY <1>2, <1>3, <1>4, <1>1, <1>5 DEF CutUp
<1> QED
  BY <1>6

----------------------------------------------------------------------------

Whole(c, p, str) == CutUp(c, p, str, Len(p), Len(str))

\* Where the loop stands is reached by a cut, and a cut of the whole that does
\* not pass there does not exist, or gives the last star more.
InPlace(at, p, str) ==
    /\ 1 \leq at.p /\ at.p \leq Len(p) + 1 /\ 1 \leq at.s /\ at.s \leq Len(str) + 1
    /\ at.star < at.p /\ at.from \leq at.s
NoHope(at, p, str) == at.s \leq Len(str) /\ \A c : ~Whole(c, p, str)
Reached(at, p, str) == \E c : CutUp(c, p, str, at.p - 1, at.s - 1)
NoStarYet(at, p, str) == at.from = 0 /\ \A c : Whole(c, p, str) => c[at.p - 1] = at.s - 1
SinceStar(at, p, str) ==
    /\ p[at.star] = "*" /\ 1 \leq at.from
    /\ \E c : CutUp(c, p, str, at.star, at.from - 1)
    /\ at.s - at.from = at.p - 1 - at.star
    /\ NoStars(p, at.star, at.p - 1)
    /\ \A c : Whole(c, p, str) => at.from - 1 \leq c[at.star]
GlobInv(at, p, str) ==
    /\ at \in Globbing /\ InPlace(at, p, str)
    /\ at.stuck => NoHope(at, p, str)
    /\ ~at.stuck => Reached(at, p, str)
    /\ ~at.stuck /\ at.star = 0 => NoStarYet(at, p, str)
    /\ ~at.stuck /\ at.star # 0 => SinceStar(at, p, str)

\* A cut of the whole is no less far than the loop; it is just as far where
\* it gives the last star as much.
LEMMA CutKeepsUp ==
    ASSUME NEW p, NEW str, Len(p) \in Nat, Len(str) \in Nat, NEW at, GlobInv(at, p, str), ~at.stuck,
           NEW c, Whole(c, p, str)
    PROVE  /\ c[at.p - 1] \in Nat /\ at.s - 1 \leq c[at.p - 1]
           /\ at.star = 0 \/ c[at.star] = at.from - 1 => c[at.p - 1] = at.s - 1
<1>1. /\ at.p \in Nat /\ at.s \in Nat /\ at.star \in Nat /\ at.from \in Nat
      /\ 1 \leq at.p /\ at.p \leq Len(p) + 1 /\ at.star < at.p
  BY DEF GlobInv, Globbing, InPlace
<1>2. CASE at.star = 0
  <2>1. c[at.p - 1] = at.s - 1
    BY <1>2 DEF GlobInv, NoStarYet
  <2>2. at.p - 1 \in 0..Len(p)
    BY <1>1
  <2>3. c[at.p - 1] \in 0..Len(str)
    BY <2>2 DEF Whole, CutUp
  <2> QED
    BY <1>1, <2>1, <2>3
<1>3. CASE at.star # 0
  <2>1. SinceStar(at, p, str)
    BY <1>3 DEF GlobInv
  <2> DEFINE i == at.star
             j == at.p - 1
  <2>2. i \in 0..Len(p) /\ j \in i..Len(p)
    BY <1>1
  <2>3. NoStars(p, i, j) /\ i - 1 \in Int /\ i # 0
    BY <1>1, <1>3, <2>1 DEF SinceStar
  <2>4. at.from - 1 \leq c[i] /\ 1 \leq at.from /\ at.s - at.from = j - i
    BY <2>1 DEF SinceStar
  <2>5. at.star = i /\ at.p - 1 = j /\ i \in Nat /\ j \in Nat
    BY <1>1
  <2> HIDE DEF i, j
  <2>6. c[i] \in Nat /\ c[j] \in Nat /\ c[j] - c[i] = j - i
    BY <2>2, <2>3, CutAdvances DEF Whole
  <2>7. at.s - 1 \leq c[j] /\ (c[i] = at.from - 1 => c[j] = at.s - 1)
    <3> DEFINE x == c[i]
               y == c[j]
    <3>1. /\ x \in Nat /\ y \in Nat /\ y - x = j - i /\ at.from - 1 \leq x /\ at.s - at.from = j - i
          /\ at.s \in Nat /\ at.from \in Nat /\ i \in Nat /\ j \in Nat
      BY <1>1, <2>4, <2>5, <2>6
    <3> HIDE DEF x, y
    <3>2. at.s - 1 \leq y /\ (x = at.from - 1 => y = at.s - 1)
      BY ONLY <3>1
    <3> QED
      BY <3>2 DEF x, y
  <2> QED
    BY <1>3, <2>5, <2>6, <2>7
<1> QED
  BY <1>2, <1>3

\* Where neither the character nor a star fits, no cut of the whole passes.
LEMMA CutPassesNot ==
    ASSUME NEW p, NEW str, Len(p) \in Nat, Len(str) \in Nat, NEW at, GlobInv(at, p, str), Running(at, str), Fails(at, p, str),
           NEW c, Whole(c, p, str), c[at.p - 1] = at.s - 1
    PROVE  FALSE
<1>1. /\ at.p \in Nat /\ at.s \in Nat /\ 1 \leq at.p /\ at.p \leq Len(p) + 1 /\ 1 \leq at.s /\ at.s \leq Len(str)
  BY DEF GlobInv, Globbing, InPlace, Running
<1>2. CASE at.p = Len(p) + 1
  <2>1. c[Len(p)] = Len(str)
    BY DEF Whole, CutUp
  <2>2. at.p - 1 = Len(p)
    BY <1>1, <1>2
  <2> QED
    BY <1>1, <2>1, <2>2
<1>3. CASE at.p # Len(p) + 1
  <2>1. at.p \in 1..Len(p) /\ at.p \leq Len(p)
    BY <1>1, <1>3
  <2>2. p[at.p] # "*" /\ p[at.p] \notin {"?", str[at.s]}
    BY <2>1 DEF Fails
  <2>3. c[at.p] = c[at.p - 1] + 1 /\ p[at.p] \in {"?", str[c[at.p]]}
    BY <2>1, <2>2, CutStep DEF Whole
  <2>4. c[at.p] = at.s
    BY <1>1, <2>3
  <2> QED
    BY <2>2, <2>3, <2>4
<1> QED
  BY <1>2, <1>3

\* A character that fits.
LEMMA FitsKeepsGlobInv ==
    ASSUME NEW p, NEW str, Len(p) \in Nat, Len(str) \in Nat, StarFree(str),
           NEW at, GlobInv(at, p, str), Running(at, str), NEW then \in Globbing, Fits1(at, then, p, str)
    PROVE  GlobInv(then, p, str)
<1>1. /\ at.p \in Nat /\ at.s \in Nat /\ at.star \in Nat /\ at.from \in Nat /\ 1 \leq at.p /\ at.p \leq Len(p)
      /\ 1 \leq at.s /\ at.s \leq Len(str) /\ at.star < at.p /\ at.from \leq at.s /\ ~at.stuck
  BY DEF GlobInv, Globbing, InPlace, Running, Fits1
<1>2. /\ then.p = at.p + 1 /\ then.s = at.s + 1 /\ then.star = at.star /\ then.from = at.from /\ ~then.stuck
      /\ p[at.p] \in {"?", str[at.s]}
  BY DEF Fits1
<1>3. p[at.p] # "*"
  <2>1. at.s \in 1..Len(str)
    BY <1>1
  <2> QED
    BY <1>2, <2>1 DEF StarFree
<1>4. InPlace(then, p, str)
  BY <1>1, <1>2 DEF InPlace
<1>5. Reached(then, p, str)
  <2>1. PICK c : CutUp(c, p, str, at.p - 1, at.s - 1)
    BY <1>1 DEF GlobInv, Reached
  <2> DEFINE n == at.p - 1
             m == at.s - 1
  <2>2. /\ n \in Nat /\ m \in 0..Len(str) /\ at.s \in 0..Len(str) /\ at.s = m + 1 /\ at.p = n + 1
        /\ then.p - 1 = n + 1 /\ then.s - 1 = at.s
    <3> DEFINE x == at.p
               y == at.s
               l == Len(str)
    <3>1. x \in Nat /\ y \in Nat /\ 1 \leq x /\ 1 \leq y /\ y \leq l /\ l \in Nat
      BY <1>1
    <3>2. then.p = x + 1 /\ then.s = y + 1
      BY <1>2
    <3> HIDE DEF x, y, l
    <3>3. x - 1 \in Nat /\ y - 1 \in 0..l /\ y \in 0..l /\ y = (y - 1) + 1 /\ x = (x - 1) + 1
      BY ONLY <3>1
    <3>4. then.p - 1 = (x - 1) + 1 /\ then.s - 1 = y
      BY ONLY <3>1, <3>2
    <3> QED
      BY ONLY <3>3, <3>4 DEF x, y, l
  <2>3. CutUp(c, p, str, n, m)
    BY <2>1
  <2> HIDE DEF n, m
  <2>4. p[n + 1] # "*" /\ p[n + 1] \in {"?", str[at.s]}
    BY <1>2, <1>3, <2>2
  <2>5. \E d : CutUp(d, p, str, n + 1, at.s)
    BY <2>2, <2>3, <2>4, CutGrows
  <2> QED
    BY <2>2, <2>5 DEF Reached
<1>6. ASSUME NEW c, Whole(c, p, str) PROVE c[at.p] = c[at.p - 1] + 1
  <2>1. at.p \in 1..Len(p)
    BY <1>1
  <2> QED
    BY <1>3, <1>6, <2>1, CutStep DEF Whole
<1>7. CASE at.star = 0
  <2>1. NoStarYet(at, p, str)
    BY <1>1, <1>7 DEF GlobInv
  <2>2. ASSUME NEW c, Whole(c, p, str) PROVE c[then.p - 1] = then.s - 1
    <3>1. c[at.p - 1] = at.s - 1
      BY <2>1, <2>2 DEF NoStarYet
    <3>2. c[at.p] = c[at.p - 1] + 1
      BY <1>6, <2>2
    <3>3. c[at.p] = at.s /\ then.p - 1 = at.p /\ then.s - 1 = at.s
      BY <1>1, <1>2, <3>1, <3>2
    <3> QED
      BY <3>3
  <2>3. NoStarYet(then, p, str)
    BY <1>2, <2>1, <2>2 DEF NoStarYet
  <2> QED
    BY <1>2, <1>4, <1>5, <1>7, <2>3 DEF GlobInv
<1>8. CASE at.star # 0
  <2>1. SinceStar(at, p, str)
    BY <1>1, <1>8 DEF GlobInv
  <2>2. then.s - then.from = then.p - 1 - then.star
    <3>1. at.s - at.from = at.p - 1 - at.star
      BY <2>1 DEF SinceStar
    <3>2. (at.s + 1) - at.from = (at.p + 1) - 1 - at.star
      <4> DEFINE a == at.s
                 b == at.from
                 c == at.p
                 d == at.star
      <4>1. a \in Nat /\ b \in Nat /\ c \in Nat /\ d \in Nat /\ a - b = c - 1 - d
        BY <1>1, <3>1
      <4> HIDE DEF a, b, c, d
      <4>2. (a + 1) - b = (c + 1) - 1 - d
        BY ONLY <4>1
      <4> QED
        BY <4>2 DEF a, b, c, d
    <3> QED
      BY <1>2, <3>2
  <2>3. NoStars(p, then.star, then.p - 1)
    <3>1. NoStars(p, at.star, at.p - 1)
      BY <2>1 DEF SinceStar
    <3>2. ASSUME NEW k \in (at.star + 1)..at.p PROVE p[k] # "*"
      <4>1. k = at.p \/ k \in (at.star + 1)..(at.p - 1)
        BY <1>1
      <4> QED
        BY <1>3, <3>1, <4>1 DEF NoStars
    <3>3. then.p - 1 = at.p
      BY <1>1, <1>2
    <3> QED
      BY <1>2, <3>2, <3>3 DEF NoStars
  <2>4. /\ p[then.star] = "*" /\ 1 \leq then.from
        /\ \E c : CutUp(c, p, str, then.star, then.from - 1)
        /\ \A c : Whole(c, p, str) => then.from - 1 \leq c[then.star]
    BY <1>2, <2>1 DEF SinceStar
  <2>5. SinceStar(then, p, str)
    BY <2>2, <2>3, <2>4 DEF SinceStar
  <2> QED
    BY <1>2, <1>4, <1>5, <1>8, <2>5 DEF GlobInv
<1> QED
  BY <1>7, <1>8

\* A star: it takes nothing so far.
LEMMA StarKeepsGlobInv ==
    ASSUME NEW p, NEW str, Len(p) \in Nat, Len(str) \in Nat, StarFree(str),
           NEW at, GlobInv(at, p, str), Running(at, str), NEW then \in Globbing, Stars(at, then, p, str)
    PROVE  GlobInv(then, p, str)
<1>1. /\ at.p \in Nat /\ at.s \in Nat /\ at.star \in Nat /\ at.from \in Nat /\ 1 \leq at.p /\ at.p \leq Len(p)
      /\ 1 \leq at.s /\ at.s \leq Len(str) /\ at.star < at.p /\ at.from \leq at.s /\ ~at.stuck
  BY DEF GlobInv, Globbing, InPlace, Running, Stars
<1>2. /\ then.p = at.p + 1 /\ then.s = at.s /\ then.star = at.p /\ then.from = at.s /\ ~then.stuck
      /\ p[at.p] = "*"
  BY DEF Stars
<1>3. InPlace(then, p, str) /\ then.star # 0
  BY <1>1, <1>2 DEF InPlace
<1>4. \E d : CutUp(d, p, str, at.p, at.s - 1)
  <2>1. PICK c : CutUp(c, p, str, at.p - 1, at.s - 1)
    BY <1>1 DEF GlobInv, Reached
  <2> DEFINE n == at.p - 1
             m == at.s - 1
  <2>2. n \in Nat /\ m \in 0..Len(str) /\ m \leq m /\ at.p = n + 1
    BY <1>1
  <2>3. CutUp(c, p, str, n, m)
    BY <2>1
  <2>4. at.s - 1 = m
    OBVIOUS
  <2> HIDE DEF n, m
  <2>5. p[n + 1] = "*"
    BY <1>2, <2>2
  <2>6. \E d : CutUp(d, p, str, n + 1, m)
    BY <2>2, <2>3, <2>5, CutGrows
  <2> QED
    BY <2>2, <2>4, <2>6
<1>5. then.p - 1 = at.p /\ then.s - 1 = at.s - 1 /\ then.from - 1 = at.s - 1
  BY <1>1, <1>2
<1>6. Reached(then, p, str)
  BY <1>4, <1>5 DEF Reached
<1>7. SinceStar(then, p, str)
  <2>1. then.s - then.from = then.p - 1 - then.star
    BY <1>1, <1>2
  <2>2. NoStars(p, then.star, then.p - 1)
    <3>1. (at.p + 1)..at.p = {}
      BY <1>1
    <3> QED
      BY <1>2, <1>5, <3>1 DEF NoStars
  <2>3. ASSUME NEW c, Whole(c, p, str) PROVE at.s - 1 \leq c[at.p]
    <3>1. c[at.p - 1] \in Nat /\ at.s - 1 \leq c[at.p - 1]
      BY <1>1, <2>3, CutKeepsUp
    <3>2. c[at.p] \in Nat /\ c[at.p - 1] \leq c[at.p]
      <4>1. at.p \in 1..Len(p)
        BY <1>1
      <4> QED
        BY <1>2, <2>3, <4>1, CutStep DEF Whole
    <3> QED
      BY <1>1, <3>1, <3>2
  <2>4. p[then.star] = "*" /\ 1 \leq then.from
    BY <1>1, <1>2
  <2>5. \E c : CutUp(c, p, str, then.star, then.from - 1)
    BY <1>2, <1>4, <1>5
  <2>6. \A c : Whole(c, p, str) => then.from - 1 \leq c[then.star]
    BY <1>2, <1>5, <2>3
  <2> QED
    BY <2>1, <2>2, <2>4, <2>5, <2>6 DEF SinceStar
<1> QED
  BY <1>2, <1>3, <1>6, <1>7 DEF GlobInv

\* The end of all hope.
LEMMA GivingUpKeepsGlobInv ==
    ASSUME NEW p, NEW str, Len(p) \in Nat, Len(str) \in Nat, StarFree(str),
           NEW at, GlobInv(at, p, str), Running(at, str), NEW then \in Globbing, GivesUp(at, then, p, str)
    PROVE  GlobInv(then, p, str)
<1>1. ~at.stuck /\ at.s \leq Len(str) /\ at.star = 0 /\ Fails(at, p, str)
  BY DEF Running, GivesUp
<1>2. then.p = at.p /\ then.s = at.s /\ then.star = at.star /\ then.from = at.from /\ then.stuck
  BY DEF GivesUp
<1>3. ASSUME NEW c, Whole(c, p, str) PROVE FALSE
  <2>1. c[at.p - 1] = at.s - 1
    BY <1>1, <1>3, CutKeepsUp
  <2> QED
    BY <1>1, <1>3, <2>1, CutPassesNot
<1>4. NoHope(then, p, str)
  BY <1>1, <1>2, <1>3 DEF NoHope
<1>5. InPlace(then, p, str)
  BY <1>2 DEF GlobInv, InPlace
<1> QED
  BY <1>2, <1>4, <1>5 DEF GlobInv

\* The way back: the last star takes one character more.
LEMMA GoingBackKeepsGlobInv ==
    ASSUME NEW p, NEW str, Len(p) \in Nat, Len(str) \in Nat, StarFree(str),
           NEW at, GlobInv(at, p, str), Running(at, str), NEW then \in Globbing, GoesBack(at, then, p, str)
    PROVE  GlobInv(then, p, str)
<1>1. /\ at.p \in Nat /\ at.s \in Nat /\ at.star \in Nat /\ at.from \in Nat /\ 1 \leq at.p /\ at.p \leq Len(p) + 1
      /\ 1 \leq at.s /\ at.s \leq Len(str) /\ at.star < at.p /\ at.from \leq at.s /\ ~at.stuck
      /\ at.star # 0 /\ Fails(at, p, str)
  BY DEF GlobInv, Globbing, InPlace, Running, GoesBack
<1>2. then.p = at.star + 1 /\ then.s = at.from + 1 /\ then.star = at.star /\ then.from = at.from + 1 /\ ~then.stuck
  BY DEF GoesBack
<1>3. SinceStar(at, p, str)
  BY <1>1 DEF GlobInv
<1>4. InPlace(then, p, str)
  BY <1>1, <1>2 DEF InPlace
<1>5. then.p - 1 = at.star /\ then.s - 1 = at.from /\ then.from - 1 = at.from
  BY <1>1, <1>2
<1>6. 1 \leq at.from /\ p[at.star] = "*"
  BY <1>3 DEF SinceStar
<1>7. \E d : CutUp(d, p, str, at.star, at.from)
  <2> DEFINE m == at.from - 1
  <2>1. PICK c : CutUp(c, p, str, at.star, m)
    BY <1>3 DEF SinceStar
  <2>2. at.star \in Nat \ {0} /\ m \in Nat /\ m < Len(str) /\ m + 1 = at.from
    BY <1>1, <1>6
  <2> HIDE DEF m
  <2>3. \E d : CutUp(d, p, str, at.star, m + 1)
    BY <1>6, <2>1, <2>2, CutStretches
  <2> QED
    BY <2>2, <2>3
<1>8. Reached(then, p, str)
  BY <1>5, <1>7 DEF Reached
<1>9. ASSUME NEW c, Whole(c, p, str) PROVE at.from \leq c[at.star]
  <2>1. at.from - 1 \leq c[at.star]
    BY <1>3, <1>9 DEF SinceStar
  <2>2. c[at.star] # at.from - 1
    <3> SUFFICES ASSUME c[at.star] = at.from - 1 PROVE FALSE
      OBVIOUS
    <3>1. c[at.p - 1] = at.s - 1
      BY <1>1, <1>9, CutKeepsUp
    <3> QED
      BY <1>1, <1>9, <3>1, CutPassesNot
  <2>3. c[at.star] \in Nat
    <3>1. at.star \in 0..Len(p)
      BY <1>1
    <3>2. c[at.star] \in 0..Len(str)
      BY <1>9, <3>1 DEF Whole, CutUp
    <3> QED
      BY <3>2
  <2> QED
    BY <1>1, <2>1, <2>2, <2>3
<1>10. SinceStar(then, p, str)
  <2>1. then.s - then.from = then.p - 1 - then.star
    BY <1>1, <1>2
  <2>2. NoStars(p, then.star, then.p - 1)
    <3>1. (at.star + 1)..at.star = {}
      BY <1>1
    <3> QED
      BY <1>2, <1>5, <3>1 DEF NoStars
  <2>3. p[then.star] = "*" /\ 1 \leq then.from
    BY <1>1, <1>2, <1>6
  <2>4. \E c : CutUp(c, p, str, then.star, then.from - 1)
    BY <1>2, <1>5, <1>7
  <2>5. \A c : Whole(c, p, str) => then.from - 1 \leq c[then.star]
    BY <1>2, <1>5, <1>9
  <2> QED
    BY <2>1, <2>2, <2>3, <2>4, <2>5 DEF SinceStar
<1> QED
  BY <1>1, <1>2, <1>4, <1>8, <1>10 DEF GlobInv

----------------------------------------------------------------------------

\* What a turn raises as long as the loop runs.
Rank(at, p) == at.from * (Len(p) + 2) + at.p

LEMMA RankIsNatural ==
    ASSUME NEW p, Len(p) \in Nat, NEW str, NEW at, GlobInv(at, p, str) PROVE Rank(at, p) \in Nat
<1>1. at.from \in Nat /\ at.p \in Nat /\ Len(p) + 2 \in Nat
  BY DEF GlobInv, Globbing
<1>2. at.from * (Len(p) + 2) \in Nat
  BY <1>1
<1> QED
  BY <1>1, <1>2 DEF Rank

LEMMA RankGrows ==
    ASSUME NEW p, NEW str, Len(p) \in Nat, Len(str) \in Nat, StarFree(str),
           NEW at, GlobInv(at, p, str), Running(at, str), NEW then \in Globbing, Running(then, str), then = GlobTurn(at, p, str)
    PROVE  Rank(at, p) + 1 \leq Rank(then, p)
<1> DEFINE w == Len(p) + 2
<1>1. /\ at \in Globbing /\ at.s # 0 /\ at.p \in Nat /\ at.s \in Nat /\ at.from \in Nat
      /\ at.p \leq Len(p) + 1 /\ at.from \leq at.s /\ w \in Nat
  BY DEF GlobInv, Globbing, InPlace
<1>2. \/ Fits1(at, then, p, str) \/ Stars(at, then, p, str) \/ GivesUp(at, then, p, str) \/ GoesBack(at, then, p, str)
  <2>1. ~Rests(at, then, p, str)
    BY DEF Rests, Running
  <2> QED
    BY <1>1, <2>1, GlobTurnMoves
<1>3. CASE Fits1(at, then, p, str)
  <2>1. then.from = at.from /\ then.p = at.p + 1
    BY <1>3 DEF Fits1
  <2> DEFINE x == at.from * w
  <2>2. x \in Nat
    BY <1>1
  <2>3. Rank(at, p) = x + at.p /\ Rank(then, p) = x + (at.p + 1)
    BY <2>1 DEF Rank
  <2> HIDE DEF x
  <2> QED
    BY <1>1, <2>2, <2>3
<1>4. CASE Stars(at, then, p, str)
  <2>1. then.from = at.s /\ then.p = at.p + 1
    BY <1>4 DEF Stars
  <2> DEFINE x == at.from * w
             y == at.s * w
  <2>2. x \in Nat /\ y \in Nat /\ x \leq y
    BY <1>1
  <2>3. Rank(at, p) = x + at.p /\ Rank(then, p) = y + (at.p + 1)
    BY <2>1 DEF Rank
  <2> HIDE DEF x, y
  <2> QED
    BY <1>1, <2>2, <2>3
<1>5. CASE GivesUp(at, then, p, str)
  BY <1>5 DEF GivesUp, Running
<1>6. CASE GoesBack(at, then, p, str)
  <2>1. then.from = at.from + 1 /\ then.p = at.star + 1 /\ at.star \in Nat
    BY <1>1, <1>6 DEF GoesBack, Globbing
  <2> DEFINE x == at.from * w
  <2>2. x \in Nat /\ (at.from + 1) * w = x + w
    BY <1>1
  <2>3. Rank(at, p) = x + at.p /\ Rank(then, p) = x + w + (at.star + 1)
    BY <2>1, <2>2 DEF Rank
  <2>4. x + w + (at.star + 1) = x + Len(p) + 3 + at.star
    BY <2>1, <2>2
  <2> HIDE DEF x, w
  <2> QED
    BY <1>1, <2>1, <2>2, <2>3, <2>4
<1> QED
  BY <1>2, <1>3, <1>4, <1>5, <1>6

\* The loop has no more turns than Turns.
LEMMA RankIsBounded ==
    ASSUME NEW p, NEW str, Len(p) \in Nat, Len(str) \in Nat, NEW at, GlobInv(at, p, str), Running(at, str)
    PROVE  Rank(at, p) < Turns(p, str)
<1> DEFINE w == Len(p) + 2
           l == Len(str)
<1>1. at.from \in Nat /\ at.p \in Nat /\ at.from \leq l /\ at.p < w /\ w \in Nat /\ l \in Nat
  BY DEF GlobInv, Globbing, InPlace, Running
<1>2. Rank(at, p) = at.from * w + at.p /\ Turns(p, str) = w * (l + 1)
  BY DEF Rank, Turns
<1> HIDE DEF w, l
<1> DEFINE x == at.from * w
           y == l * w
<1>3. x \in Nat /\ y \in Nat /\ x \leq y /\ w * (l + 1) = y + w
  BY <1>1
<1> HIDE DEF x, y
<1>4. Rank(at, p) = x + at.p
  BY <1>2 DEF x
<1> QED
  BY <1>1, <1>2, <1>3, <1>4

LEMMA GlobTurnKeeps ==
    ASSUME NEW p, NEW str, Len(p) \in Nat, Len(str) \in Nat, StarFree(str),
           NEW at, GlobInv(at, p, str)
    PROVE  /\ GlobInv(GlobTurn(at, p, str), p, str)
           /\ Running(GlobTurn(at, p, str), str) => Running(at, str)
<1>1. at \in Globbing /\ at.s # 0
  BY DEF GlobInv, Globbing, InPlace
<1> DEFINE then == GlobTurn(at, p, str)
<1>2. /\ then \in Globbing
      /\ \/ Rests(at, then, p, str)
         \/ Running(at, str) /\ Fits1(at, then, p, str)
         \/ Running(at, str) /\ Stars(at, then, p, str)
         \/ Running(at, str) /\ GivesUp(at, then, p, str)
         \/ Running(at, str) /\ GoesBack(at, then, p, str)
  BY <1>1, GlobTurnMoves
<1> HIDE DEF then
<1>3. CASE Rests(at, then, p, str)
  BY <1>3 DEF Rests, then
<1>4. CASE Running(at, str)
  <2>1. ASSUME Fits1(at, then, p, str) PROVE GlobInv(then, p, str)
    BY <1>2, <1>4, <2>1, FitsKeepsGlobInv
  <2>2. ASSUME Stars(at, then, p, str) PROVE GlobInv(then, p, str)
    BY <1>2, <1>4, <2>2, StarKeepsGlobInv
  <2>3. ASSUME GivesUp(at, then, p, str) PROVE GlobInv(then, p, str)
    BY <1>2, <1>4, <2>3, GivingUpKeepsGlobInv
  <2>4. ASSUME GoesBack(at, then, p, str) PROVE GlobInv(then, p, str)
    BY <1>2, <1>4, <2>4, GoingBackKeepsGlobInv
  <2>5. GlobInv(then, p, str)
    BY <1>2, <1>3, <2>1, <2>2, <2>3, <2>4 DEF then
  <2> QED
    BY <1>4, <2>5 DEF then
<1> QED
  BY <1>2, <1>3, <1>4 DEF then

GlobStart == [p |-> 1, s |-> 1, star |-> 0, from |-> 0, stuck |-> FALSE]

LEMMA GlobStartsInPlace ==
    ASSUME NEW p, NEW str, Len(p) \in Nat, Len(str) \in Nat PROVE GlobInv(GlobStart, p, str)
<1>1. /\ GlobStart.p = 1 /\ GlobStart.s = 1 /\ GlobStart.star = 0 /\ GlobStart.from = 0 /\ ~GlobStart.stuck
      /\ GlobStart \in Globbing
  BY DEF GlobStart, Globbing
<1> DEFINE c == [k \in 0..0 |-> 0]
<1>2. CutUp(c, p, str, 0, 0)
  <2>1. c \in [0..0 -> 0..Len(str)] /\ c[0] = 0 /\ 1..0 = {}
    OBVIOUS
  <2> HIDE DEF c
  <2> QED
    BY <2>1 DEF CutUp
<1>3. Reached(GlobStart, p, str)
  <2>1. GlobStart.p - 1 = 0 /\ GlobStart.s - 1 = 0
    BY <1>1
  <2> HIDE DEF c
  <2> QED
    BY <1>2, <2>1 DEF Reached
<1>4. NoStarYet(GlobStart, p, str)
  <2>1. GlobStart.p - 1 = 0 /\ GlobStart.s - 1 = 0
    BY <1>1
  <2>2. \A d : Whole(d, p, str) => d[0] = 0
    BY DEF Whole, CutUp
  <2> QED
    BY <1>1, <2>1, <2>2 DEF NoStarYet
<1>5. InPlace(GlobStart, p, str)
  BY <1>1 DEF InPlace
<1> QED
  BY <1>1, <1>3, <1>4, <1>5 DEF GlobInv

GlobPlaces(p, str) == {at \in Globbing : GlobInv(at, p, str)}
GlobEnd(p, str) == FoldLeft(LAMBDA at, i : GlobTurn(at, p, str),
                        [p |-> 1, s |-> 1, star |-> 0, from |-> 0, stuck |-> FALSE],
                        [i \in 1..Turns(p, str) |-> i])

TurnByTurn(r, p, str) ==
    /\ r \in [0..Turns(p, str) -> GlobPlaces(p, str)] /\ r[0] = GlobStart
    /\ \A n \in 1..Turns(p, str) : r[n] = GlobTurn(r[n - 1], p, str)

LEMMA GlobAlong ==
    ASSUME NEW p, NEW str, Len(p) \in Nat, Len(str) \in Nat, StarFree(str)
    PROVE  \E r : TurnByTurn(r, p, str) /\ GlobEnd(p, str) = r[Turns(p, str)]
<1> DEFINE N == Turns(p, str)
           V == GlobPlaces(p, str)
           s == GlobStart
           Goes(a, v) == GlobTurn(a, p, str)
           Is(h) == h = [S \in SUBSET (1..N) |-> IF S = {} THEN s
                                                  ELSE Goes(h[S \ {Max(S)}], [t \in 1..Turns(p, str) |-> t][Max(S)])]
           F == CHOOSE h : Is(h)
           step == [i \in 1..N |-> [a \in V |-> Goes(a, [t \in 1..Turns(p, str) |-> t][i])]]
<1>1. N \in Nat /\ DOMAIN [t \in 1..Turns(p, str) |-> t] = 1..N
  BY DEF Turns
<1>2. s \in V
  BY GlobStartsInPlace DEF GlobPlaces, GlobInv
<1>3. \A a \in V : \A i \in 1..N : Goes(a, [t \in 1..Turns(p, str) |-> t][i]) \in V
  <2>1. ASSUME NEW a \in V PROVE GlobTurn(a, p, str) \in V
    <3>1. GlobInv(a, p, str)
      BY <2>1 DEF GlobPlaces
    <3>2. GlobInv(GlobTurn(a, p, str), p, str)
      BY <3>1, GlobTurnKeeps
    <3> QED
      BY <3>2 DEF GlobPlaces, GlobInv
  <2> QED
    BY <2>1
<1>4. GlobEnd(p, str) = F[1..N]
  <2>1. GlobEnd(p, str) =
          (CHOOSE h : h = [S \in SUBSET DOMAIN [t \in 1..Turns(p, str) |-> t] |-> IF S = {} THEN s
                              ELSE Goes(h[S \ {Max(S)}], [t \in 1..Turns(p, str) |-> t][Max(S)])])[DOMAIN [t \in 1..Turns(p, str) |-> t]]
    BY DEF GlobEnd, GlobStart, FoldLeft, MapThenFoldSet
  <2> HIDE DEF Goes, N
  <2> QED
    BY <1>1, <2>1
<1> HIDE DEF Goes, N, V, s
<1>5. step \in [1..N -> [V -> V]]
  BY <1>3
<1>6. PICK h \in [SUBSET (1..N) -> V] : FoldOf(h, s, N, step)
  <2> HIDE DEF step
  <2> QED
    BY <1>1, <1>2, <1>5, FoldsExist
<1>7. \A S \in SUBSET (1..N) : S # {} => Max(S) \in 1..N
  BY <1>1, MaxIsIn
<1>8. Is(h)
  <2>1. ASSUME NEW S \in SUBSET (1..N), S # {}
        PROVE  step[Max(S)][h[S \ {Max(S)}]] = Goes(h[S \ {Max(S)}], [t \in 1..Turns(p, str) |-> t][Max(S)])
    <3>1. h[S \ {Max(S)}] \in V
      BY <1>6
    <3> QED
      BY <1>7, <2>1, <3>1
  <2> HIDE DEF step
  <2> QED
    BY <1>6, <2>1 DEF FoldOf
<1>9. Is(F)
  <2> HIDE DEF Is
  <2> QED
    BY <1>8
<1> HIDE DEF F
<1>10. Folded(F, V, s, N, step)
  BY <1>7, <1>9 DEF Folded
<1>11. PICK r : Along(r, V, s, N, step) /\ F[1..N] = r[N]
  <2>1. N \in Nat
    BY <1>1
  <2> HIDE DEF step, Is
  <2> QED
    BY ONLY <2>1, <1>2, <1>5, <1>10, FoldedAlong, SMTT(30)
<1>12. ASSUME NEW n \in 1..N PROVE r[n] = Goes(r[n - 1], [t \in 1..Turns(p, str) |-> t][n])
  <2>1. r[n - 1] \in V
    BY <1>1, <1>11 DEF Along
  <2>2. r[n] = step[n][r[n - 1]]
    <3> HIDE DEF step
    <3> QED
      BY <1>11 DEF Along
  <2> QED
    BY <2>1, <2>2
<1> QED
  BY <1>4, <1>11, <1>12 DEF N, Goes, V, s, Along, TurnByTurn

LEMMA GlobEnds ==
    ASSUME NEW p, NEW str, Len(p) \in Nat, Len(str) \in Nat, StarFree(str)
    PROVE  GlobInv(GlobEnd(p, str), p, str) /\ ~Running(GlobEnd(p, str), str)
<1> DEFINE N == Turns(p, str)
<1>1. N \in Nat
  BY DEF Turns
<1>2. PICK r : TurnByTurn(r, p, str) /\ GlobEnd(p, str) = r[N]
  BY GlobAlong
<1> HIDE DEF N
<1>3. \A n \in 0..N : GlobInv(r[n], p, str)
  BY <1>2 DEF TurnByTurn, GlobPlaces, N
<1> DEFINE P == {n \in 0..N : Running(r[n], str) => n + 1 \leq Rank(r[n], p)}
<1>4. 0 \in P
  <2>1. r[0] = GlobStart /\ 0 \in 0..N
    BY <1>1, <1>2 DEF TurnByTurn
  <2>2. Rank(GlobStart, p) = 1
    <3>1. GlobStart.p = 1 /\ GlobStart.from = 0 /\ 0 * (Len(p) + 2) = 0
      BY DEF GlobStart
    <3> QED
      BY <3>1 DEF Rank
  <2> QED
    BY <2>1, <2>2
<1>5. ASSUME NEW n \in 1..N, n - 1 \in P PROVE n \in P
  <2>1. n - 1 \in 0..N /\ n \in 0..N /\ n \in Nat
    BY <1>1
  <2>2. GlobInv(r[n - 1], p, str) /\ r[n] = GlobTurn(r[n - 1], p, str)
    BY <1>2, <1>3, <2>1 DEF TurnByTurn, N
  <2>3. ASSUME Running(r[n], str) PROVE n + 1 \leq Rank(r[n], p)
    <3> DEFINE a == r[n - 1]
               b == r[n]
    <3>1. GlobInv(a, p, str) /\ GlobInv(b, p, str) /\ b = GlobTurn(a, p, str) /\ Running(b, str)
      BY <1>3, <2>1, <2>2, <2>3
    <3>2. Running(a, str) => n - 1 + 1 \leq Rank(a, p)
      BY <1>5
    <3> HIDE DEF a, b
    <3>3. Running(a, str)
      BY <3>1, GlobTurnKeeps
    <3>4. b \in Globbing
      BY <3>1 DEF GlobInv
    <3>5. Rank(a, p) + 1 \leq Rank(b, p)
      BY <3>1, <3>3, <3>4, RankGrows
    <3>6. Rank(a, p) \in Nat /\ Rank(b, p) \in Nat
      BY <3>1, RankIsNatural
    <3>7. n + 1 \leq Rank(b, p)
      BY <2>1, <3>2, <3>3, <3>5, <3>6
    <3> QED
      BY <3>7 DEF b
  <2> QED
    BY <2>1, <2>3
<1>6. \A n \in 0..N : n \in P
  <2> HIDE DEF P
  <2> QED
    BY <1>1, <1>4, <1>5, CountUp
<1>7. N \in 0..N
  BY <1>1
<1>8. ASSUME Running(r[N], str) PROVE FALSE
  <2>1. N + 1 \leq Rank(r[N], p)
    BY <1>6, <1>7, <1>8
  <2>2. Rank(r[N], p) < N
    BY <1>3, <1>7, <1>8, RankIsBounded DEF N
  <2>3. Rank(r[N], p) \in Nat
    <3> DEFINE a == r[N]
    <3>1. GlobInv(a, p, str)
      BY <1>3, <1>7
    <3> HIDE DEF a
    <3>2. Rank(a, p) \in Nat
      BY <3>1, RankIsNatural
    <3> QED
      BY <3>2 DEF a
  <2> QED
    BY <1>1, <2>1, <2>2, <2>3
<1> QED
  BY <1>2, <1>3, <1>7, <1>8

\* Stars at the end of the pattern stand for nothing.
LEMMA StarsRunOut ==
    ASSUME NEW p, NEW str, Len(p) \in Nat, Len(str) \in Nat, NEW n \in 0..Len(p),
           NEW c, CutUp(c, p, str, n, Len(str)),
           \A k \in (n + 1)..Len(p) : p[k] = "*"
    PROVE  \E d : Whole(d, p, str)
<1> DEFINE N == Len(p) - n
           P == {x \in 0..N : \E d : CutUp(d, p, str, n + x, Len(str))}
<1>1. N \in Nat /\ n \in Nat /\ n + 0 = n /\ n + N = Len(p) /\ 0 \in 0..N /\ N \in 0..N
  OBVIOUS
<1>2. 0 \in P
  BY <1>1
<1>3. ASSUME NEW x \in 1..N, x - 1 \in P PROVE x \in P
  <2> DEFINE m == n + (x - 1)
             q == Len(str)
  <2>1. /\ m \in Nat /\ m + 1 = n + x /\ m + 1 \in (n + 1)..Len(p) /\ x \in 0..N
        /\ q \in 0..Len(str) /\ q \leq q
    BY <1>1
  <2>2. PICK d : CutUp(d, p, str, m, q)
    BY <1>3
  <2>3. p[m + 1] = "*"
    BY <2>1
  <2> HIDE DEF m
  <2>4. \E e : CutUp(e, p, str, m + 1, q)
    BY <2>1, <2>2, <2>3, CutGrows
  <2> QED
    BY <2>1, <2>4
<1>4. \A x \in 0..N : x \in P
  <2> HIDE DEF P, N
  <2> QED
    BY <1>1, <1>2, <1>3, CountUp
<1>5. \E d : CutUp(d, p, str, n + N, Len(str))
  BY <1>1, <1>4
<1> QED
  BY <1>1, <1>5 DEF Whole

LEMMA GlobMatchIsExact ==
    ASSUME NEW p, NEW str, Len(p) \in Nat, Len(str) \in Nat, StarFree(str)
    PROVE  GlobMatch(p, str) <=> CutsInto(p, str)
<1> DEFINE end == GlobEnd(p, str)
<1>1. GlobInv(end, p, str) /\ ~Running(end, str)
  BY GlobEnds
<1>2. GlobMatch(p, str) <=> end.s > Len(str) /\ \A i \in end.p..Len(p) : p[i] = "*"
  BY DEF GlobMatch, GlobEnd
<1>3. CutsInto(p, str) <=> \E c : Whole(c, p, str)
  BY CutIsCutUp DEF Whole
<1> HIDE DEF end
<1>4. /\ end.p \in Nat /\ end.s \in Nat /\ 1 \leq end.p /\ end.p \leq Len(p) + 1
      /\ 1 \leq end.s /\ end.s \leq Len(str) + 1 /\ end.stuck \in BOOLEAN
  BY <1>1 DEF GlobInv, Globbing, InPlace
<1>5. CASE end.stuck
  <2>1. NoHope(end, p, str)
    BY <1>1, <1>5 DEF GlobInv
  <2>2. ~(end.s > Len(str)) /\ ~(\E c : Whole(c, p, str))
    BY <1>4, <2>1 DEF NoHope
  <2> QED
    BY <1>2, <1>3, <2>2
<1>6. CASE ~end.stuck
  <2>1. end.s = Len(str) + 1
    BY <1>1, <1>4, <1>6 DEF Running
  <2>2. ASSUME \A i \in end.p..Len(p) : p[i] = "*" PROVE \E c : Whole(c, p, str)
    <3> DEFINE n == end.p - 1
    <3>1. n \in 0..Len(p) /\ n + 1 = end.p /\ end.s - 1 = Len(str)
      BY <1>4, <2>1
    <3>2. PICK c : CutUp(c, p, str, n, end.s - 1)
      BY <1>1, <1>6 DEF GlobInv, Reached
    <3> HIDE DEF n
    <3>3. CutUp(c, p, str, n, Len(str))
      BY <3>1, <3>2
    <3>4. \A k \in (n + 1)..Len(p) : p[k] = "*"
      BY <2>2, <3>1
    <3> QED
      BY <3>1, <3>3, <3>4, StarsRunOut
  <2>3. ASSUME NEW c, Whole(c, p, str), NEW i \in end.p..Len(p) PROVE p[i] = "*"
    <3>1. end.p - 1 \in 0..Len(p) /\ i - 1 \in (end.p - 1)..Len(p) /\ i \in 1..Len(p) /\ i \in Nat
      BY <1>4
    <3>2. c[end.p - 1] \in Nat /\ end.s - 1 \leq c[end.p - 1]
      BY <1>1, <1>6, <2>3, CutKeepsUp
    <3>3. c[end.p - 1] \leq c[i - 1] /\ c[i - 1] \in Nat
      BY <2>3, <3>1, CutAdvances DEF Whole
    <3>4. c[i] \in Nat /\ c[i] \leq Len(str) /\ (p[i] # "*" => c[i] = c[i - 1] + 1)
      BY <2>3, <3>1, CutStep DEF Whole
    <3> QED
      BY <1>4, <2>1, <3>2, <3>3, <3>4
  <2>4. end.s > Len(str)
    BY <1>4, <2>1
  <2> QED
    BY <1>2, <1>3, <2>2, <2>3, <2>4
<1> QED
  BY <1>4, <1>5, <1>6

LEMMA PathsStayPaths ==
    ASSUME NEW C, NEW s \in Seq(C)
    PROVE  Normalized(s) \in Seq(C) /\ Filename(s) \in Seq(C)
<1>1. Len(s) \in Nat /\ \A i \in 1..Len(s) : s[i] \in C
  OBVIOUS
<1>2. Normalized(s) \in Seq(C)
  <2> DEFINE ends == {n \in 1..Len(s) : n = 1 \/ s[n] # "/"}
             k == CHOOSE n \in ends : \A m \in ends : m \leq n
  <2>1. Normalized(s) = IF s = <<>> THEN s ELSE SubSeq(s, 1, k)
    BY DEF Normalized
  <2>2. CASE s = <<>>
    BY <2>1, <2>2
  <2>3. CASE s # <<>>
    <3>1. 1 \in ends /\ ends \in SUBSET (1..Len(s))
      <4>1. Len(s) # 0
        BY <2>3
      <4> QED
        BY <1>1, <4>1
    <3> HIDE DEF ends
    <3>2. ends # {}
      BY <3>1
    <3>3. Max(ends) \in ends /\ \A x \in ends : x \leq Max(ends)
      BY <1>1, <3>1, <3>2, MaxIsIn
    <3>4. k \in ends
      BY <3>3
    <3>5. k \in 1..Len(s)
      BY <3>1, <3>4
    <3> HIDE DEF k
    <3>6. SubSeq(s, 1, k) \in Seq(C)
      BY <1>1, <3>5
    <3> QED
      BY <2>1, <2>3, <3>6
  <2> QED
    BY <2>2, <2>3
<1>3. Filename(s) \in Seq(C)
  <2> DEFINE I == {i \in 1..Len(s) : s[i] = "/"}
             after == IF I # {} THEN Max(I) ELSE 0
  <2>1. Filename(s) = SubSeq(s, after + 1, Len(s))
    BY DEF Filename, SelectLastInSubSeq
  <2>2. after \in 0..Len(s)
    <3>1. I \in SUBSET (1..Len(s))
      OBVIOUS
    <3> HIDE DEF I
    <3>2. CASE I = {}
      BY <1>1, <3>2
    <3>3. CASE I # {}
      <4>1. Max(I) \in I
        BY <1>1, <3>1, <3>3, MaxIsIn
      <4>2. Max(I) \in 1..Len(s)
        BY <3>1, <4>1
      <4>3. after = Max(I)
        BY <3>3
      <4> HIDE DEF after
      <4>4. after \in 1..Len(s)
        BY <4>2, <4>3
      <4> QED
        BY <1>1, <4>4
    <3> QED
      BY <3>2, <3>3
  <2> HIDE DEF after
  <2>3. SubSeq(s, after + 1, Len(s)) \in Seq(C)
    BY <1>1, <2>2
  <2> QED
    BY <2>1, <2>3
<1> QED
  BY <1>2, <1>3

globInv == glob \in Seq(Letter \cup {"*", "?"}) /\ path \in Seq(Letter)

\* A pattern is a sequence of letters and wild cards, a path one of letters.
LEMMA GlobsAreTyped == globInit /\ [][globNext]_globVars => []globInv
<1>1. globInit => globInv
  BY DEF globInit, globInv
<1>2. globInv /\ [globNext]_globVars => globInv'
  <2> SUFFICES ASSUME globInv, [globNext]_globVars PROVE globInv'
    OBVIOUS
  <2>1. CASE (\E c \in Letter \cup {"*", "?"} : glob' = Append(glob, c)) /\ UNCHANGED path
    BY <2>1 DEF globInv
  <2>2. CASE (\E c \in Letter : path' = Append(path, c)) /\ UNCHANGED glob
    BY <2>2 DEF globInv
  <2>3. CASE UNCHANGED globVars
    BY <2>3 DEF globVars, globInv
  <2> QED
    BY <2>1, <2>2, <2>3 DEF globNext
<1> QED
  BY <1>1, <1>2, PTL

\* Going back to the last star is enough.
LEMMA LastStarIsEnough == ASSUME "*" \notin Letter PROVE globInv => GlobIsExact
<1> SUFFICES ASSUME globInv PROVE GlobIsExact
  OBVIOUS
<1> DEFINE p == Normalized(glob)
           s == Normalized(path)
           f == Filename(s)
<1>1. p \in Seq(Letter \cup {"*", "?"}) /\ s \in Seq(Letter)
  BY PathsStayPaths DEF globInv
<1> HIDE DEF p, s
<1>2. f \in Seq(Letter)
  BY <1>1, PathsStayPaths
<1> HIDE DEF f
<1>3. ASSUME NEW str \in Seq(Letter) PROVE StarFree(str)
  BY DEF StarFree
<1>4. Len(p) \in Nat /\ Len(s) \in Nat /\ Len(f) \in Nat /\ StarFree(s) /\ StarFree(f)
  BY <1>1, <1>2, <1>3
<1>5. (GlobMatch(p, s) <=> CutsInto(p, s)) /\ (GlobMatch(p, f) <=> CutsInto(p, f))
  BY <1>4, GlobMatchIsExact
<1>6. MatchesPattern(path, glob) <=> GlobMatch(p, s) \/ GlobMatch(p, f)
  BY DEF MatchesPattern, p, s, f
<1>7. GlobIsExact <=> (MatchesPattern(path, glob) <=> CutsInto(p, s) \/ CutsInto(p, f))
  BY DEF GlobIsExact, p, s, f
<1> QED
  BY <1>5, <1>6, <1>7

\* For patterns and paths of any length, a path that has no star in it is
\* protected by a pattern exactly when it, or its last component, can be cut into
\* what the characters of the pattern stand for: that globMatch goes back to the
\* last star only, and never to one before it, loses no match.
THEOREM GlobIsExactHolds ==
    ASSUME "*" \notin Letter
    PROVE  servicesSpec => []GlobIsExact
<1>1. servicesInit => globInit
  BY DEF servicesInit
<1>2. ASSUME [servicesNext]_servicesVars PROVE [globNext]_globVars
  <2>1. CASE servicesNext
    BY <2>1 DEF servicesNext, Runs
  <2>2. CASE UNCHANGED servicesVars
    BY <2>2 DEF servicesVars
  <2> QED
    BY <1>2, <2>1, <2>2
<1>3. servicesInit /\ [][servicesNext]_servicesVars => globInit /\ [][globNext]_globVars
  BY <1>1, <1>2, PTL
<1>4. globInv => GlobIsExact
  BY LastStarIsEnough
<1> QED
  BY <1>3, <1>4, GlobsAreTyped, PTL DEF servicesSpec

----------------------------------------------------------------------------
(* KernelsCountOnce                                                        *)

\* The elements i to i + n - 1, in order.
Upwards(i, n) == [k \in 1..n |-> i + k - 1]

LEMMA UpwardsIs ==
    ASSUME NEW i \in Nat, NEW n \in Nat
    PROVE  Upwards(i, n) \in Seq(Nat) /\ Len(Upwards(i, n)) = n /\ \A k \in 1..n : Upwards(i, n)[k] = i + k - 1
<1>1. \A k \in 1..n : i + k - 1 \in Nat
  OBVIOUS
<1> QED
  BY <1>1 DEF Upwards

Continues(i, n, m) == Upwards(i, n) \o Upwards(i + n, m) = Upwards(i, n + m)

LEMMA UpwardsJoin == ASSUME NEW i \in Nat, NEW n \in Nat, NEW m \in Nat PROVE Continues(i, n, m)
<1> DEFINE j == i + n
           s == Upwards(i, n)
           t == Upwards(j, m)
           u == Upwards(i, n + m)
<1>1. s \in Seq(Nat) /\ Len(s) = n /\ \A k \in 1..n : s[k] = i + k - 1
  BY UpwardsIs
<1>2. t \in Seq(Nat) /\ Len(t) = m /\ \A k \in 1..m : t[k] = i + n + k - 1
  <2>1. j \in Nat
    OBVIOUS
  <2> QED
    BY <2>1, UpwardsIs
<1>3. u \in Seq(Nat) /\ Len(u) = n + m /\ \A k \in 1..(n + m) : u[k] = i + k - 1
  <2>1. n + m \in Nat
    OBVIOUS
  <2> QED
    BY <2>1, UpwardsIs
<1> HIDE DEF s, t, u
<1>4. s \o t \in Seq(Nat) /\ Len(s \o t) = n + m
  BY <1>1, <1>2, ConcatProperties
<1>5. ASSUME NEW k \in 1..(n + m) PROVE (s \o t)[k] = u[k]
  <2>1. (s \o t)[k] = IF k \leq n THEN s[k] ELSE t[k - n]
    BY <1>1, <1>2, ConcatProperties
  <2>2. CASE k \leq n
    <3>1. k \in 1..n
      BY <2>2
    <3> QED
      BY <1>1, <1>3, <2>1, <2>2, <3>1
  <2>3. CASE ~(k \leq n)
    <3>1. k - n \in 1..m /\ i + n + (k - n) - 1 = i + k - 1
      BY <2>3
    <3>2. t[k - n] = i + k - 1
      BY <1>2, <3>1
    <3> QED
      BY <1>3, <2>1, <2>3, <3>2
  <2> QED
    BY <2>2, <2>3
<1>6. s \o t = u
  <2> DEFINE v == s \o t
  <2>1. v \in Seq(Nat) /\ u \in Seq(Nat) /\ Len(v) = Len(u) /\ \A k \in 1..Len(u) : v[k] = u[k]
    BY <1>3, <1>4, <1>5
  <2> HIDE DEF v
  <2>2. v = u
    BY <2>1
  <2> QED
    BY <2>2 DEF v
<1> QED
  BY <1>6 DEF s, t, u, Continues

\* Stretches of w elements each, one behind the other.
Paved(seqs, i, w) == \A b \in 1..Len(seqs) : seqs[b] = Upwards(i + (b - 1) * w, w)

LEMMA FlattenUpwards ==
    ASSUME NEW i \in Nat, NEW w \in Nat, NEW N \in Nat, NEW seqs, seqs \in Seq(Seq(Nat)), Len(seqs) = N, Paved(seqs, i, w)
    PROVE  FlattenSeq(seqs) = Upwards(i, N * w)
<1>1. CASE N = 0
  <2>1. seqs = <<>> /\ N * w = 0
    BY <1>1
  <2>2. FlattenSeq(seqs) = <<>>
    BY <2>1 DEF FlattenSeq
  <2>3. Upwards(i, 0) = <<>>
    BY UpwardsIs
  <2> QED
    BY <2>1, <2>2, <2>3
<1>2. CASE N # 0
  <2>1. seqs # <<>> /\ N \in 1..N /\ N \in 0..N
    BY <1>2
  <2>2. PICK g : Joins(g, seqs, Nat) /\ FlattenSeq(seqs) = g[N]
    BY <2>1, FlattenAlong
  <2> DEFINE P == {n \in 0..N : n = 0 \/ g[n] = Upwards(i, n * w)}
  <2>3. 0 \in P
    OBVIOUS
  <2>4. ASSUME NEW n \in 1..N, n - 1 \in P PROVE n \in P
    <3> DEFINE x == (n - 1) * w
    <3>1. n \in Nat /\ n - 1 \in Nat /\ x \in Nat /\ n * w = x + w /\ n \in 0..N
      OBVIOUS
    <3>2. seqs[n] = Upwards(i + x, w)
      BY DEF Paved
    <3>3. g[n] = IF n = 1 THEN seqs[n] ELSE g[n - 1] \o seqs[n]
      BY <2>2 DEF Joins
    <3>4. n = 1 => x = 0
      OBVIOUS
    <3>5. n # 1 => g[n - 1] = Upwards(i, x)
      BY <2>4
    <3> HIDE DEF x
    <3>6. CASE n = 1
      <4>1. i + x = i /\ x + w = w
        BY <3>1, <3>4, <3>6
      <4>2. g[n] = Upwards(i, n * w)
        BY <3>1, <3>2, <3>3, <3>6, <4>1
      <4> QED
        BY <3>1, <4>2
    <3>7. CASE n # 1
      <4>1. Upwards(i, x) \o Upwards(i + x, w) = Upwards(i, x + w)
        <5>1. Continues(i, x, w)
          BY <3>1, UpwardsJoin
        <5> QED
          BY <5>1 DEF Continues
      <4>2. g[n] = Upwards(i, n * w)
        BY <3>1, <3>2, <3>3, <3>5, <3>7, <4>1
      <4> QED
        BY <3>1, <4>2
    <3> QED
      BY <3>6, <3>7
  <2>5. \A n \in 0..N : n \in P
    <3> HIDE DEF P
    <3> QED
      BY <2>3, <2>4, CountUp
  <2>6. g[N] = Upwards(i, N * w)
    BY <1>2, <2>1, <2>5
  <2> QED
    BY <2>2, <2>6
<1> QED
  BY <1>1, <1>2

LEMMA DivisionIs ==
    /\ \A x \in Nat : x \div 1 = x
    /\ \A x \in Nat : x \div 2 \in Nat /\ (x \div 2) * 2 \leq x
    /\ \A x \in Nat : x \div 4 \in Nat /\ (x \div 4) * 4 \leq x
    /\ \A x \in Nat : x \div 8 \in Nat /\ (x \div 8) * 8 \leq x
    /\ \A x \in Nat : x \div 16 \in Nat /\ (x \div 16) * 16 \leq x
    /\ \A x \in Nat : x \div 32 \in Nat /\ (x \div 32) * 32 \leq x
    /\ 1 \div 1 = 1 /\ 4 \div 4 = 1 /\ 8 \div 1 = 8 /\ 32 \div 4 = 8 /\ 16 \div 2 = 8 /\ 2 \div 2 = 1
  OBVIOUS

\* Offsets that lie as far from each other as an accumulator has lanes.
EvenlySpread(offsets, lanes) == \A o \in 1..Len(offsets) : offsets[o] = (o - 1) * lanes

\* A loop adds a stretch, and stops behind it.
LoopRuns(i, width, offsets, n) ==
    /\ Loop(i, width, offsets).next = i + n
    /\ Loop(i, width, offsets).added = Upwards(i, n)

LEMMA LoopGoesUpwards ==
    ASSUME NEW i \in Nat, dim \in Nat, i \leq dim, NEW width \in Nat, NEW offsets \in Seq(Nat), NEW lanes \in Nat,
           EvenlySpread(offsets, lanes), width \div Len(offsets) = lanes, width = Len(offsets) * lanes,
           NEW q \in Nat, (dim - i) \div width = q
    PROVE  LoopRuns(i, width, offsets, q * width)
<1> DEFINE n == Len(offsets)
           lane(b, o) == [k \in 1..lanes |-> i + (b - 1) * width + offsets[o] + k - 1]
           block(b) == FlattenSeq([o \in DOMAIN offsets |-> lane(b, o)])
           all == [b \in 1..q |-> block(b)]
<1>1. n \in Nat /\ DOMAIN offsets = 1..n /\ \A o \in 1..n : offsets[o] \in Nat
  OBVIOUS
<1>2. Loop(i, width, offsets) = [next |-> i + q * width, added |-> FlattenSeq(all)]
  <2>1. ~(i > dim)
    OBVIOUS
  <2> QED
    BY <2>1 DEF Loop
<1>3. ASSUME NEW b \in 1..q PROVE block(b) = Upwards(i + (b - 1) * width, width)
  <2> DEFINE j == i + (b - 1) * width
             seqs == [o \in DOMAIN offsets |-> lane(b, o)]
  <2>1. j \in Nat
    <3>1. b - 1 \in Nat
      OBVIOUS
    <3>2. (b - 1) * width \in Nat
      BY <3>1
    <3> QED
      BY <3>2
  <2>2. ASSUME NEW o \in 1..n
        PROVE  lane(b, o) = Upwards(j + (o - 1) * lanes, lanes) /\ j + (o - 1) * lanes \in Nat
    <3> DEFINE y == (o - 1) * lanes
    <3>1. offsets[o] = y /\ y \in Nat
      BY DEF EvenlySpread
    <3>2. lane(b, o) = [k \in 1..lanes |-> j + y + k - 1]
      BY <3>1
    <3> HIDE DEF j, y
    <3>3. j + y \in Nat
      BY <2>1, <3>1
    <3> HIDE DEF lane
    <3>4. lane(b, o) = Upwards(j + y, lanes)
      BY <3>2 DEF Upwards
    <3> QED
      BY <3>3, <3>4 DEF y
  <2> HIDE DEF j, lane
  <2>3. seqs \in Seq(Seq(Nat)) /\ Len(seqs) = n
    <3>1. ASSUME NEW o \in 1..n PROVE lane(b, o) \in Seq(Nat)
      <4> DEFINE z == j + (o - 1) * lanes
      <4>1. lane(b, o) = Upwards(z, lanes) /\ z \in Nat
        BY <2>2
      <4> HIDE DEF z
      <4> QED
        BY <4>1, UpwardsIs
    <3> QED
      BY <1>1, <3>1
  <2>4. Paved(seqs, j, lanes)
    BY <1>1, <2>2, <2>3 DEF Paved
  <2> HIDE DEF seqs
  <2>5. FlattenSeq(seqs) = Upwards(j, n * lanes)
    BY <1>1, <2>1, <2>3, <2>4, FlattenUpwards
  <2> QED
    BY <2>5 DEF seqs, j
<1> HIDE DEF block
<1>4. all \in Seq(Seq(Nat)) /\ Len(all) = q
  <2>1. ASSUME NEW b \in 1..q PROVE block(b) \in Seq(Nat)
    <3> DEFINE j == i + (b - 1) * width
    <3>1. b - 1 \in Nat
      OBVIOUS
    <3>2. (b - 1) * width \in Nat
      BY <3>1
    <3>3. j \in Nat /\ block(b) = Upwards(j, width)
      BY <1>3, <3>2
    <3> HIDE DEF j
    <3> QED
      BY <3>3, UpwardsIs
  <2> QED
    BY <2>1
<1>5. Paved(all, i, width)
  BY <1>3, <1>4 DEF Paved
<1> HIDE DEF all
<1>6. FlattenSeq(all) = Upwards(i, q * width)
  BY <1>4, <1>5, FlattenUpwards
<1> QED
  BY <1>2, <1>6 DEF LoopRuns

\* A loop in steps of one adds all that is left.
LEMMA LoopsByOne ==
    ASSUME NEW i \in Nat, dim \in Nat, i \leq dim
    PROVE  LoopRuns(i, 1, <<0>>, dim - i)
<1> DEFINE q == dim - i
<1>1. q \in Nat /\ q \div 1 = q /\ 1 \div 1 = 1 /\ q * 1 = q
  BY DivisionIs
<1>2. /\ <<0>> \in Seq(Nat) /\ Len(<<0>>) = 1 /\ EvenlySpread(<<0>>, 1)
      /\ 1 = 1 * 1
  BY DEF EvenlySpread
<1> HIDE DEF q
<1>3. (dim - i) \div 1 = q /\ dim - i = q
  BY <1>1 DEF q
<1>4. LoopRuns(i, 1, <<0>>, q * 1)
  BY <1>1, <1>2, <1>3, LoopGoesUpwards
<1> QED
  BY <1>1, <1>3, <1>4

\* The loops of the kernels: how far they come, in one to four steps at a time.
LEMMA LoopsByMore ==
    ASSUME NEW i \in Nat, dim \in Nat, i \leq dim
    PROVE  /\ \E n \in Nat : i + n \leq dim /\ LoopRuns(i, 2, <<0, 1>>, n)
           /\ \E n \in Nat : i + n \leq dim /\ LoopRuns(i, 4, <<0, 1, 2, 3>>, n)
           /\ \E n \in Nat : i + n \leq dim /\ LoopRuns(i, 8, <<0>>, n)
           /\ \E n \in Nat : i + n \leq dim /\ LoopRuns(i, 16, <<0, 8>>, n)
           /\ \E n \in Nat : i + n \leq dim /\ LoopRuns(i, 32, <<0, 8, 16, 24>>, n)
<1> DEFINE x == dim - i
<1>1. x \in Nat /\ x = dim - i
  OBVIOUS
<1> HIDE DEF x
<1>2. \E n \in Nat : i + n \leq dim /\ LoopRuns(i, 2, <<0, 1>>, n)
  <2> DEFINE q == x \div 2
             offsets == <<0, 1>>
  <2>1. q \in Nat /\ q * 2 \leq x /\ 2 \div 2 = 1 /\ 2 = 2 * 1
    BY <1>1, DivisionIs
  <2>2. offsets \in Seq(Nat) /\ Len(offsets) = 2 /\ EvenlySpread(offsets, 1)
    BY DEF EvenlySpread
  <2>3. (dim - i) \div 2 = q
    BY <1>1
  <2> HIDE DEF q, offsets
  <2>4. LoopRuns(i, 2, offsets, q * 2)
    BY <2>1, <2>2, <2>3, LoopGoesUpwards
  <2>5. q * 2 \in Nat /\ i + q * 2 \leq dim
    BY <1>1, <2>1
  <2> QED
    BY <2>4, <2>5 DEF offsets
<1>3. \E n \in Nat : i + n \leq dim /\ LoopRuns(i, 4, <<0, 1, 2, 3>>, n)
  <2> DEFINE q == x \div 4
             offsets == <<0, 1, 2, 3>>
  <2>1. q \in Nat /\ q * 4 \leq x /\ 4 \div 4 = 1 /\ 4 = 4 * 1
    BY <1>1, DivisionIs
  <2>2. offsets \in Seq(Nat) /\ Len(offsets) = 4 /\ EvenlySpread(offsets, 1)
    BY DEF EvenlySpread
  <2>3. (dim - i) \div 4 = q
    BY <1>1
  <2> HIDE DEF q, offsets
  <2>4. LoopRuns(i, 4, offsets, q * 4)
    BY <2>1, <2>2, <2>3, LoopGoesUpwards
  <2>5. q * 4 \in Nat /\ i + q * 4 \leq dim
    BY <1>1, <2>1
  <2> QED
    BY <2>4, <2>5 DEF offsets
<1>4. \E n \in Nat : i + n \leq dim /\ LoopRuns(i, 8, <<0>>, n)
  <2> DEFINE q == x \div 8
             offsets == <<0>>
  <2>1. q \in Nat /\ q * 8 \leq x /\ 8 \div 1 = 8 /\ 8 = 1 * 8
    BY <1>1, DivisionIs
  <2>2. offsets \in Seq(Nat) /\ Len(offsets) = 1 /\ EvenlySpread(offsets, 8)
    BY DEF EvenlySpread
  <2>3. (dim - i) \div 8 = q
    BY <1>1
  <2> HIDE DEF q, offsets
  <2>4. LoopRuns(i, 8, offsets, q * 8)
    BY <2>1, <2>2, <2>3, LoopGoesUpwards
  <2>5. q * 8 \in Nat /\ i + q * 8 \leq dim
    BY <1>1, <2>1
  <2> QED
    BY <2>4, <2>5 DEF offsets
<1>5. \E n \in Nat : i + n \leq dim /\ LoopRuns(i, 16, <<0, 8>>, n)
  <2> DEFINE q == x \div 16
             offsets == <<0, 8>>
  <2>1. q \in Nat /\ q * 16 \leq x /\ 16 \div 2 = 8 /\ 16 = 2 * 8
    BY <1>1, DivisionIs
  <2>2. offsets \in Seq(Nat) /\ Len(offsets) = 2 /\ EvenlySpread(offsets, 8)
    BY DEF EvenlySpread
  <2>3. (dim - i) \div 16 = q
    BY <1>1
  <2> HIDE DEF q, offsets
  <2>4. LoopRuns(i, 16, offsets, q * 16)
    BY <2>1, <2>2, <2>3, LoopGoesUpwards
  <2>5. q * 16 \in Nat /\ i + q * 16 \leq dim
    BY <1>1, <2>1
  <2> QED
    BY <2>4, <2>5 DEF offsets
<1>6. \E n \in Nat : i + n \leq dim /\ LoopRuns(i, 32, <<0, 8, 16, 24>>, n)
  <2> DEFINE q == x \div 32
             offsets == <<0, 8, 16, 24>>
  <2>1. q \in Nat /\ q * 32 \leq x /\ 32 \div 4 = 8 /\ 32 = 4 * 8
    BY <1>1, DivisionIs
  <2>2. offsets \in Seq(Nat) /\ Len(offsets) = 4 /\ EvenlySpread(offsets, 8)
    BY DEF EvenlySpread
  <2>3. (dim - i) \div 32 = q
    BY <1>1
  <2> HIDE DEF q, offsets
  <2>4. LoopRuns(i, 32, offsets, q * 32)
    BY <2>1, <2>2, <2>3, LoopGoesUpwards
  <2>5. q * 32 \in Nat /\ i + q * 32 \leq dim
    BY <1>1, <2>1
  <2> QED
    BY <2>4, <2>5 DEF offsets
<1> QED
  BY <1>2, <1>3, <1>4, <1>5, <1>6

\* One or two loops and what they leave take each element once.
LEMMA OneLoopAndRest ==
    ASSUME NEW loop, NEW n \in Nat, dim \in Nat, n \leq dim, loop.next = n, loop.added = Upwards(0, n)
    PROVE  Total(<<loop>>) = Upwards(0, dim)
<1> DEFINE each == [l \in DOMAIN <<loop>> |-> <<loop>>[l].added]
<1>1. each = <<Upwards(0, n)>>
  OBVIOUS
<1>2. FlattenSeq(each) = Upwards(0, n)
  BY <1>1 DEF FlattenSeq
<1>3. Rest(<<loop>>) = Loop(n, 1, <<0>>)
  BY DEF Rest
<1>4. Rest(<<loop>>).added = Upwards(n, dim - n)
  BY <1>3, LoopsByOne DEF LoopRuns
<1> HIDE DEF each
<1>5. Total(<<loop>>) = Upwards(0, n) \o Upwards(n, dim - n)
  BY <1>2, <1>4 DEF Total, each
<1>6. Continues(0, n, dim - n) /\ 0 + n = n /\ n + (dim - n) = dim
  <2>1. dim - n \in Nat
    OBVIOUS
  <2> QED
    BY <2>1, UpwardsJoin
<1> QED
  BY <1>5, <1>6 DEF Continues

LEMMA TwoLoopsAndRest ==
    ASSUME NEW first, NEW second, NEW n \in Nat, NEW m \in Nat, dim \in Nat, n + m \leq dim,
           first.added = Upwards(0, n), second.next = n + m, second.added = Upwards(n, m)
    PROVE  Total(<<first, second>>) = Upwards(0, dim)
<1> DEFINE loops == <<first, second>>
           each == [l \in DOMAIN loops |-> loops[l].added]
<1>1. each = <<Upwards(0, n), Upwards(n, m)>>
  OBVIOUS
<1>2. n + m \in Nat /\ dim - (n + m) \in Nat /\ 0 + n = n /\ 0 + (n + m) = n + m /\ n + m + (dim - (n + m)) = dim
  OBVIOUS
<1>3. FlattenSeq(each) = Upwards(0, n + m)
  <2> DEFINE s == Upwards(0, n)
             t == Upwards(n, m)
  <2>1. s \in Seq(Nat) /\ t \in Seq(Nat)
    BY UpwardsIs
  <2>2. s \o t = Upwards(0, n + m)
    <3>1. Continues(0, n, m)
      BY UpwardsJoin
    <3> QED
      BY <1>2, <3>1 DEF Continues
  <2> HIDE DEF s, t
  <2>3. each = <<s, t>> /\ each \in Seq(Seq(Nat)) /\ each # <<>> /\ Len(each) = 2
    BY <1>1, <2>1 DEF s, t
  <2> HIDE DEF each
  <2>4. PICK g : Joins(g, each, Nat) /\ FlattenSeq(each) = g[Len(each)]
    BY <2>3, FlattenAlong
  <2>5. g[2] = g[1] \o each[2] /\ g[1] = each[1]
    <3>1. 1 \in 1..Len(each) /\ 2 \in 1..Len(each) /\ 2 - 1 = 1
      BY <2>3
    <3>2. g[1] = IF 1 = 1 THEN each[1] ELSE g[1 - 1] \o each[1]
      BY <2>4, <3>1 DEF Joins
    <3>3. g[2] = IF 2 = 1 THEN each[2] ELSE g[2 - 1] \o each[2]
      BY <2>4, <3>1 DEF Joins
    <3>4. g[1] = each[1]
      BY <3>2
    <3>5. g[2] = g[2 - 1] \o each[2]
      <4>1. ~(2 = 1)
        OBVIOUS
      <4> QED
        BY <3>3, <4>1
    <3> QED
      BY <3>1, <3>4, <3>5
  <2> QED
    BY <2>2, <2>3, <2>4, <2>5
<1>4. Rest(loops) = Loop(n + m, 1, <<0>>)
  BY DEF Rest
<1>5. Rest(loops).added = Upwards(n + m, dim - (n + m))
  BY <1>2, <1>4, LoopsByOne DEF LoopRuns
<1> HIDE DEF each, loops
<1>6. Total(loops) = Upwards(0, n + m) \o Upwards(n + m, dim - (n + m))
  BY <1>3, <1>5 DEF Total, each
<1>7. Continues(0, n + m, dim - (n + m))
  BY <1>2, UpwardsJoin
<1> QED
  BY <1>2, <1>6, <1>7 DEF Continues, loops

LEMMA KernelsAreWhole ==
    ASSUME dim \in Nat
    PROVE  \A taken \in {DotScalar, DotAvx2, Cosine(TRUE), Cosine(FALSE), Normalize(TRUE), Normalize(FALSE)} :
              taken = Upwards(0, dim)
<1>1. 0 \in Nat /\ 0 \leq dim /\ \A n \in Nat : 0 + n = n
  OBVIOUS
<1>2. DotScalar = Upwards(0, dim)
  <2>1. PICK n \in Nat : n \leq dim /\ LoopRuns(0, 4, <<0, 1, 2, 3>>, n)
    BY <1>1, LoopsByMore
  <2> QED
    BY <1>1, <2>1, OneLoopAndRest DEF LoopRuns, DotScalar
<1>3. DotAvx2 = Upwards(0, dim)
  <2>1. PICK n \in Nat : n \leq dim /\ LoopRuns(0, 32, <<0, 8, 16, 24>>, n)
    BY <1>1, LoopsByMore
  <2>2. PICK m \in Nat : n + m \leq dim /\ LoopRuns(n, 8, <<0>>, m)
    BY <2>1, LoopsByMore
  <2> QED
    BY <1>1, <2>1, <2>2, TwoLoopsAndRest DEF LoopRuns, DotAvx2
<1>4. CosineAvx2 = Upwards(0, dim)
  <2>1. PICK n \in Nat : n \leq dim /\ LoopRuns(0, 16, <<0, 8>>, n)
    BY <1>1, LoopsByMore
  <2>2. PICK m \in Nat : n + m \leq dim /\ LoopRuns(n, 8, <<0>>, m)
    BY <2>1, LoopsByMore
  <2> QED
    BY <1>1, <2>1, <2>2, TwoLoopsAndRest DEF LoopRuns, CosineAvx2
<1>5. CosineScalar = Upwards(0, dim)
  <2>1. PICK n \in Nat : n \leq dim /\ LoopRuns(0, 2, <<0, 1>>, n)
    BY <1>1, LoopsByMore
  <2> QED
    BY <1>1, <2>1, OneLoopAndRest DEF LoopRuns, CosineScalar
<1>6. Normalize(TRUE) = Upwards(0, dim) /\ Normalize(FALSE) = Upwards(0, dim)
  <2>1. PICK n \in Nat : n \leq dim /\ LoopRuns(0, 8, <<0>>, n)
    BY <1>1, LoopsByMore
  <2>2. LoopRuns(0, 1, <<0>>, dim)
    BY <1>1, LoopsByOne
  <2>3. Total(<<Loop(0, 8, <<0>>)>>) = Upwards(0, dim)
    BY <1>1, <2>1, OneLoopAndRest DEF LoopRuns
  <2>4. Total(<<Loop(0, 1, <<0>>)>>) = Upwards(0, dim)
    BY <1>1, <2>2, OneLoopAndRest DEF LoopRuns
  <2> QED
    BY <2>3, <2>4 DEF Normalize
<1> QED
  BY <1>2, <1>3, <1>4, <1>5, <1>6 DEF Cosine

kernelsInv == dim \in Nat

LEMMA KernelsAreTyped == kernelsInit /\ [][kernelsNext]_kernelsVars => []kernelsInv
<1>1. kernelsInit => kernelsInv
  BY DEF kernelsInit, kernelsInv
<1>2. kernelsInv /\ [kernelsNext]_kernelsVars => kernelsInv'
  <2> SUFFICES ASSUME kernelsInv, [kernelsNext]_kernelsVars PROVE kernelsInv'
    OBVIOUS
  <2>1. dim' = dim + 1 \/ dim' = dim
    BY DEF kernelsNext, kernelsVars
  <2> QED
    BY <2>1 DEF kernelsInv
<1> QED
  BY <1>1, <1>2, PTL

\* Every kernel adds every element once.
LEMMA KernelsAgree == kernelsInv => KernelsCountOnce
<1> SUFFICES ASSUME dim \in Nat PROVE KernelsCountOnce
  BY DEF kernelsInv
<1> DEFINE s == Upwards(0, dim)
<1>1. s \in Seq(Nat) /\ Len(s) = dim /\ \A k \in 1..dim : s[k] = k - 1
  <2>1. 0 \in Nat /\ \A k \in 1..dim : 0 + k - 1 = k - 1
    OBVIOUS
  <2> QED
    BY <2>1, UpwardsIs
<1> HIDE DEF s
<1>2. ToSet(s) = 0..(dim - 1)
  <2>1. ASSUME NEW x \in ToSet(s) PROVE x \in 0..(dim - 1)
    <3>1. PICK k \in 1..dim : x = s[k]
      BY <1>1 DEF ToSet
    <3> QED
      BY <1>1, <3>1
  <2>2. ASSUME NEW x \in 0..(dim - 1) PROVE x \in ToSet(s)
    <3>1. x + 1 \in 1..dim /\ x + 1 - 1 = x
      OBVIOUS
    <3>2. s[x + 1] = x
      BY <1>1, <3>1
    <3> QED
      BY <1>1, <3>1, <3>2 DEF ToSet
  <2> QED
    BY <2>1, <2>2
<1> QED
  BY <1>1, <1>2, KernelsAreWhole DEF KernelsCountOnce, s

\* Whatever the dimension of two vectors, every kernel takes each element once:
\* the blocks of 32, 16, 8, 4 and 2, and the rests behind them, leave none out and
\* take none twice, so that results do not depend on the processor but for rounding.
THEOREM KernelsCountOnceHolds == servicesSpec => []KernelsCountOnce
<1>1. servicesInit => kernelsInit
  BY DEF servicesInit
<1>2. ASSUME [servicesNext]_servicesVars PROVE [kernelsNext]_kernelsVars
  <2>1. CASE servicesNext
    BY <2>1 DEF servicesNext, Runs
  <2>2. CASE UNCHANGED servicesVars
    BY <2>2 DEF servicesVars
  <2> QED
    BY <1>2, <2>1, <2>2
<1>3. servicesInit /\ [][servicesNext]_servicesVars => kernelsInit /\ [][kernelsNext]_kernelsVars
  BY <1>1, <1>2, PTL
<1> QED
  BY <1>3, KernelsAreTyped, KernelsAgree, PTL DEF servicesSpec

----------------------------------------------------------------------------
(* WindowIsLongest                                                         *)

\* T holds the sums of the first numbers.
RunningSums(T, nums) ==
    /\ T \in [0..Len(nums) -> Nat] /\ T[0] = 0
    /\ \A k \in 1..Len(nums) : T[k] = T[k - 1] + nums[k]

LEMMA TallyAlong ==
    ASSUME NEW nums \in Seq(Nat)
    PROVE  \E r : RunningSums(r, nums) /\ Tally(nums) = r[Len(nums)]
<1> DEFINE N == Len(nums)
           V == Nat
           s == 0
           Goes(a, v) == a + v
           Is(h) == h = [S \in SUBSET (1..N) |-> IF S = {} THEN s
                                                  ELSE Goes(h[S \ {Max(S)}], nums[Max(S)])]
           F == CHOOSE h : Is(h)
           step == [i \in 1..N |-> [a \in V |-> Goes(a, nums[i])]]
<1>1. N \in Nat /\ DOMAIN nums = 1..N /\ \A i \in 1..N : nums[i] \in Nat
  OBVIOUS
<1>2. s \in V
  OBVIOUS
<1>3. \A a \in V : \A i \in 1..N : Goes(a, nums[i]) \in V
  <2>1. ASSUME NEW a \in Nat, NEW i \in 1..N PROVE a + nums[i] \in Nat
    <3>1. nums[i] \in Nat
      BY <1>1
    <3> QED
      BY <3>1
  <2> QED
    BY <2>1
<1>4. Tally(nums) = F[1..N]
  <2>1. Tally(nums) =
          (CHOOSE h : h = [S \in SUBSET DOMAIN nums |-> IF S = {} THEN s
                              ELSE Goes(h[S \ {Max(S)}], nums[Max(S)])])[DOMAIN nums]
    BY DEF Tally, FoldLeft, MapThenFoldSet
  <2> HIDE DEF Goes, N
  <2> QED
    BY <1>1, <2>1
<1> HIDE DEF Goes, N, V, s
<1>5. step \in [1..N -> [V -> V]]
  BY <1>3
<1>6. PICK h \in [SUBSET (1..N) -> V] : FoldOf(h, s, N, step)
  <2> HIDE DEF step
  <2> QED
    BY <1>1, <1>2, <1>5, FoldsExist
<1>7. \A S \in SUBSET (1..N) : S # {} => Max(S) \in 1..N
  BY <1>1, MaxIsIn
<1>8. Is(h)
  <2>1. ASSUME NEW S \in SUBSET (1..N), S # {}
        PROVE  step[Max(S)][h[S \ {Max(S)}]] = Goes(h[S \ {Max(S)}], nums[Max(S)])
    <3>1. h[S \ {Max(S)}] \in V
      BY <1>6
    <3> QED
      BY <1>7, <2>1, <3>1
  <2> HIDE DEF step
  <2> QED
    BY <1>6, <2>1 DEF FoldOf
<1>9. Is(F)
  <2> HIDE DEF Is
  <2> QED
    BY <1>8
<1> HIDE DEF F
<1>10. Folded(F, V, s, N, step)
  BY <1>7, <1>9 DEF Folded
<1>11. PICK r : Along(r, V, s, N, step) /\ F[1..N] = r[N]
  <2>1. N \in Nat
    BY <1>1
  <2> HIDE DEF step, Is
  <2> QED
    BY ONLY <2>1, <1>2, <1>5, <1>10, FoldedAlong, SMTT(30)
<1>12. ASSUME NEW n \in 1..N PROVE r[n] = Goes(r[n - 1], nums[n])
  <2>1. r[n - 1] \in V
    BY <1>1, <1>11 DEF Along
  <2>2. r[n] = step[n][r[n - 1]]
    <3> HIDE DEF step
    <3> QED
      BY <1>11 DEF Along
  <2> QED
    BY <2>1, <2>2
<1> QED
  BY <1>4, <1>11, <1>12 DEF N, Goes, V, s, Along, RunningSums

LEMMA SumsGrow ==
    ASSUME NEW nums \in Seq(Nat), NEW T, RunningSums(T, nums), NEW i \in 0..Len(nums), NEW j \in i..Len(nums)
    PROVE  T[i] \in Nat /\ T[j] \in Nat /\ T[i] \leq T[j]
<1> DEFINE n == j - i
           P == {x \in 0..n : T[i] \leq T[i + x]}
<1>1. /\ i \in Nat /\ j \in Nat /\ n \in Nat /\ i + 0 = i /\ i + n = j /\ n \in 0..n /\ 0 \in 0..n /\ j \in 0..Len(nums)
      /\ \A k \in 1..Len(nums) : nums[k] \in Nat
  OBVIOUS
<1>2. \A k \in 0..Len(nums) : T[k] \in Nat
  BY DEF RunningSums
<1>3. 0 \in P
  BY <1>1, <1>2
<1>4. ASSUME NEW x \in 1..n, x - 1 \in P PROVE x \in P
  <2>1. i + x \in 1..Len(nums) /\ i + x \in 0..Len(nums) /\ i + (x - 1) \in 0..Len(nums) /\ i + x - 1 = i + (x - 1) /\ x \in 0..n
    BY <1>1
  <2>2. T[i + x] = T[i + (x - 1)] + nums[i + x] /\ nums[i + x] \in Nat
    BY <1>1, <2>1 DEF RunningSums
  <2>3. T[i + (x - 1)] \in Nat /\ T[i + x] \in Nat /\ T[i] \in Nat
    BY <1>2, <2>1
  <2>4. T[i] \leq T[i + (x - 1)]
    BY <1>4
  <2>5. T[i] \leq T[i + x]
    BY <2>2, <2>3, <2>4
  <2> QED
    BY <2>1, <2>5
<1>5. \A x \in 0..n : x \in P
  <2> HIDE DEF P, n
  <2> QED
    BY <1>1, <1>3, <1>4, CountUp
<1>6. T[i] \leq T[i + n]
  BY <1>1, <1>5
<1> QED
  BY <1>1, <1>2, <1>6

\* What the end of some numbers sums to.
LEMMA TallyOfEnd ==
    ASSUME NEW nums \in Seq(Nat), NEW T, RunningSums(T, nums), NEW i \in 1..Len(nums)
    PROVE  /\ SubSeq(nums, i, Len(nums)) \in Seq(Nat) /\ Len(SubSeq(nums, i, Len(nums))) = Len(nums) - i + 1
           /\ Tally(SubSeq(nums, i, Len(nums))) = T[Len(nums)] - T[i - 1]
<1> DEFINE N == Len(nums)
           u == SubSeq(nums, i, N)
           n == N - i + 1
<1>1. N \in Nat /\ i \in Nat /\ n \in Nat /\ i - 1 \in 0..N /\ \A k \in 1..N : nums[k] \in Nat
  OBVIOUS
<1>2. u \in Seq(Nat) /\ Len(u) = n /\ \A k \in 1..n : u[k] = nums[i + k - 1]
  <2>1. i \in Int /\ N \in Int /\ i \leq N /\ \A k \in i..N : nums[k] \in Nat
    BY <1>1
  <2>2. /\ u \in Seq(Nat) /\ Len(u) = (IF i \leq N THEN N - i + 1 ELSE 0)
        /\ \A k \in 1..(N - i + 1) : u[k] = nums[i + k - 1]
    <3> HIDE DEF N
    <3> QED
      BY ONLY <2>1, SubSeqProperties
  <2> QED
    BY <2>1, <2>2
<1> HIDE DEF u
<1>3. PICK U : RunningSums(U, u) /\ Tally(u) = U[Len(u)]
  BY <1>2, TallyAlong
<1> DEFINE P == {k \in 0..n : U[k] = T[i - 1 + k] - T[i - 1]}
<1>4. \A k \in 0..N : T[k] \in Nat
  BY DEF RunningSums
<1>5. 0 \in P
  <2>1. i - 1 + 0 = i - 1 /\ U[0] = 0 /\ T[i - 1] \in Nat /\ 0 \in 0..n
    BY <1>1, <1>3, <1>4 DEF RunningSums
  <2>2. U[0] = T[i - 1] - T[i - 1]
    BY <2>1
  <2> QED
    BY <2>1, <2>2
<1>6. ASSUME NEW k \in 1..n, k - 1 \in P PROVE k \in P
  <2> DEFINE a == T[i - 1]
             b == T[i - 1 + (k - 1)]
             c == T[i - 1 + k]
             x == nums[i + k - 1]
  <2>1. i - 1 + k \in 1..N /\ i - 1 + k - 1 = i - 1 + (k - 1) /\ i - 1 + (k - 1) \in 0..N /\ i - 1 + k = i + k - 1 /\ k \in 0..n
    BY <1>1
  <2>2. a \in Nat /\ b \in Nat /\ x \in Nat /\ c = b + x
    BY <1>1, <1>4, <2>1 DEF RunningSums
  <2>3. U[k] = U[k - 1] + x
    BY <1>2, <1>3 DEF RunningSums
  <2>4. U[k - 1] = b - a
    BY <1>6
  <2> HIDE DEF a, b, c, x
  <2>5. U[k] = c - a
    BY <2>2, <2>3, <2>4
  <2> QED
    BY <2>1, <2>5 DEF a, c
<1>7. \A k \in 0..n : k \in P
  <2> HIDE DEF P, n
  <2> QED
    BY <1>1, <1>5, <1>6, CountUp
<1>8. n \in 0..n /\ i - 1 + n = N
  BY <1>1
<1>9. U[n] = T[N] - T[i - 1]
  BY <1>7, <1>8
<1> QED
  BY <1>2, <1>3, <1>9 DEF u

----------------------------------------------------------------------------

Taking == [window : Seq(Nat), sum : Nat, full : BOOLEAN]
NoneTaken == [window |-> <<>>, sum |-> 0, full |-> FALSE]

TakingAlong(r, nums, limit) ==
    /\ r \in [0..Len(nums) -> Taking] /\ r[0] = NoneTaken
    /\ \A n \in 1..Len(nums) : r[n] = TakeMessage(r[n - 1], Reverse(nums)[n], limit)

LEMMA TakeMessageIsTyped ==
    ASSUME NEW acc \in Taking, NEW n \in Nat, NEW limit PROVE TakeMessage(acc, n, limit) \in Taking
<1>1. acc.window \in Seq(Nat) /\ acc.sum \in Nat /\ acc.full \in BOOLEAN
  BY DEF Taking
<1>2. <<n>> \o acc.window \in Seq(Nat) /\ acc.sum + n \in Nat
  BY <1>1
<1>3. TakeMessage(acc, n, limit) = [acc EXCEPT !.full = TRUE] \/
      TakeMessage(acc, n, limit) = [acc EXCEPT !.window = <<n>> \o @, !.sum = @ + n]
  BY DEF TakeMessage
<1>4. [acc EXCEPT !.full = TRUE] \in Taking
  BY DEF Taking
<1>5. [acc EXCEPT !.window = <<n>> \o @, !.sum = @ + n] \in Taking
  <2> DEFINE w == <<n>> \o acc.window
             m == acc.sum + n
  <2>1. w \in Seq(Nat) /\ m \in Nat
    BY <1>2
  <2> HIDE DEF w, m
  <2>2. [acc EXCEPT !.window = w, !.sum = m] \in Taking
    BY <2>1 DEF Taking
  <2> QED
    BY <2>2 DEF w, m
<1> QED
  BY <1>3, <1>4, <1>5

LEMMA ReverseIs ==
    ASSUME NEW nums \in Seq(Nat)
    PROVE  Reverse(nums) \in Seq(Nat) /\ Len(Reverse(nums)) = Len(nums) /\ \A k \in 1..Len(nums) : Reverse(nums)[k] = nums[Len(nums) + 1 - k]
<1> DEFINE N == Len(nums)
<1>1. Reverse(nums) = [k \in 1..N |-> nums[N - k + 1]]
  BY DEF Reverse
<1>2. \A k \in 1..N : N - k + 1 \in 1..N /\ N - k + 1 = N + 1 - k
  OBVIOUS
<1>3. \A k \in 1..N : nums[N - k + 1] \in Nat /\ nums[N - k + 1] = nums[N + 1 - k]
  BY <1>2
<1> QED
  BY <1>1, <1>3

MessagesTaken(nums, limit) == FoldLeft(LAMBDA acc, n : TakeMessage(acc, n, limit), [window |-> <<>>, sum |-> 0, full |-> FALSE], Reverse(nums))

LEMMA WindowAlong ==
    ASSUME NEW nums \in Seq(Nat), NEW limit
    PROVE  \E r : TakingAlong(r, nums, limit) /\ MessagesTaken(nums, limit) = r[Len(nums)]
<1> DEFINE N == Len(nums)
           V == Taking
           s == NoneTaken
           Goes(a, v) == TakeMessage(a, v, limit)
           Is(h) == h = [S \in SUBSET (1..N) |-> IF S = {} THEN s
                                                  ELSE Goes(h[S \ {Max(S)}], Reverse(nums)[Max(S)])]
           F == CHOOSE h : Is(h)
           step == [i \in 1..N |-> [a \in V |-> Goes(a, Reverse(nums)[i])]]
<1>1. N \in Nat /\ DOMAIN Reverse(nums) = 1..N /\ \A i \in 1..N : Reverse(nums)[i] \in Nat
  BY ReverseIs
<1>2. s \in V
  BY DEF NoneTaken, Taking
<1>3. \A a \in V : \A i \in 1..N : Goes(a, Reverse(nums)[i]) \in V
  <2>1. ASSUME NEW a \in V, NEW i \in 1..N PROVE TakeMessage(a, Reverse(nums)[i], limit) \in V
    <3>1. Reverse(nums)[i] \in Nat
      BY <1>1
    <3> QED
      BY <2>1, <3>1, TakeMessageIsTyped
  <2> QED
    BY <2>1
<1>4. MessagesTaken(nums, limit) = F[1..N]
  <2>1. MessagesTaken(nums, limit) =
          (CHOOSE h : h = [S \in SUBSET DOMAIN Reverse(nums) |-> IF S = {} THEN s
                              ELSE Goes(h[S \ {Max(S)}], Reverse(nums)[Max(S)])])[DOMAIN Reverse(nums)]
    BY DEF MessagesTaken, NoneTaken, FoldLeft, MapThenFoldSet
  <2> HIDE DEF Goes, N
  <2> QED
    BY <1>1, <2>1
<1> HIDE DEF Goes, N, V, s
<1>5. step \in [1..N -> [V -> V]]
  BY <1>3
<1>6. PICK h \in [SUBSET (1..N) -> V] : FoldOf(h, s, N, step)
  <2> HIDE DEF step
  <2> QED
    BY <1>1, <1>2, <1>5, FoldsExist
<1>7. \A S \in SUBSET (1..N) : S # {} => Max(S) \in 1..N
  BY <1>1, MaxIsIn
<1>8. Is(h)
  <2>1. ASSUME NEW S \in SUBSET (1..N), S # {}
        PROVE  step[Max(S)][h[S \ {Max(S)}]] = Goes(h[S \ {Max(S)}], Reverse(nums)[Max(S)])
    <3>1. h[S \ {Max(S)}] \in V
      BY <1>6
    <3> QED
      BY <1>7, <2>1, <3>1
  <2> HIDE DEF step
  <2> QED
    BY <1>6, <2>1 DEF FoldOf
<1>9. Is(F)
  <2> HIDE DEF Is
  <2> QED
    BY <1>8
<1> HIDE DEF F
<1>10. Folded(F, V, s, N, step)
  BY <1>7, <1>9 DEF Folded
<1>11. PICK r : Along(r, V, s, N, step) /\ F[1..N] = r[N]
  <2>1. N \in Nat
    BY <1>1
  <2> HIDE DEF step, Is
  <2> QED
    BY ONLY <2>1, <1>2, <1>5, <1>10, FoldedAlong, SMTT(30)
<1>12. ASSUME NEW n \in 1..N PROVE r[n] = Goes(r[n - 1], Reverse(nums)[n])
  <2>1. r[n - 1] \in V
    BY <1>1, <1>11 DEF Along
  <2>2. r[n] = step[n][r[n - 1]]
    <3> HIDE DEF step
    <3> QED
      BY <1>11 DEF Along
  <2> QED
    BY <2>1, <2>2
<1> QED
  BY <1>4, <1>11, <1>12 DEF N, Goes, V, s, Along, TakingAlong

\* The numbers from place j on.
EndFrom(nums, j) == SubSeq(nums, j, Len(nums))

LEMMA EndsGrow ==
    ASSUME NEW nums \in Seq(Nat)
    PROVE  /\ EndFrom(nums, Len(nums) + 1) = <<>>
           /\ \A j \in 1..Len(nums) : EndFrom(nums, j) = <<nums[j]>> \o EndFrom(nums, j + 1)
           /\ \A j \in 1..Len(nums) : EndFrom(nums, j) # <<>>
<1>1. EndFrom(nums, Len(nums) + 1) = <<>>
  <2>1. Len(nums) + 1 \in Int /\ Len(nums) \in Int /\ Len(nums) < Len(nums) + 1
    OBVIOUS
  <2> QED
    BY <2>1, SubSeqEmpty DEF EndFrom
<1>2. ASSUME NEW j \in 1..Len(nums) PROVE EndFrom(nums, j) = <<nums[j]>> \o EndFrom(nums, j + 1)
  <2>1. Len(nums) \in j..Len(nums)
    OBVIOUS
  <2> QED
    BY <2>1, SubSeqRecursiveFirst DEF EndFrom
<1>3. ASSUME NEW j \in 1..Len(nums) PROVE EndFrom(nums, j) # <<>>
  <2>1. PICK T : RunningSums(T, nums) /\ Tally(nums) = T[Len(nums)]
    BY TallyAlong
  <2>2. Len(EndFrom(nums, j)) = Len(nums) - j + 1
    BY <2>1, TallyOfEnd DEF EndFrom
  <2>3. Len(EndFrom(nums, j)) # 0
    BY <2>2
  <2> QED
    BY <2>3
<1> QED
  BY <1>1, <1>2, <1>3

\* After k messages from the end: the window is an end of the conversation, it
\* is within the limit or the last message, and one that is full has met one
\* that would be too much.
WindowInv(acc, k, j, nums, T, limit) ==
    /\ j \in 1..(Len(nums) + 1) /\ acc.window = EndFrom(nums, j) /\ acc.sum = T[Len(nums)] - T[j - 1]
    /\ j < Len(nums) => acc.sum \leq limit
    /\ ~acc.full => j = Len(nums) + 1 - k
    /\ acc.full => 2 \leq j /\ j \leq Len(nums) /\ limit < T[Len(nums)] - T[j - 2]

LEMMA TakeMessageIs ==
    ASSUME NEW acc \in Taking, NEW n \in Nat, NEW limit
    PROVE  /\ acc.full \/ (acc.sum + n > limit /\ acc.window # <<>>) =>
                /\ TakeMessage(acc, n, limit).window = acc.window /\ TakeMessage(acc, n, limit).sum = acc.sum
                /\ TakeMessage(acc, n, limit).full
           /\ ~(acc.full \/ (acc.sum + n > limit /\ acc.window # <<>>)) =>
                /\ TakeMessage(acc, n, limit).window = <<n>> \o acc.window
                /\ TakeMessage(acc, n, limit).sum = acc.sum + n /\ TakeMessage(acc, n, limit).full = acc.full
<1> DEFINE w == <<n>> \o acc.window
           m == acc.sum + n
<1>1. [acc EXCEPT !.full = TRUE].window = acc.window /\ [acc EXCEPT !.full = TRUE].sum = acc.sum /\ [acc EXCEPT !.full = TRUE].full
  BY DEF Taking
<1>2. TakeMessage(acc, n, limit) =
        IF acc.full \/ (acc.sum + n > limit /\ acc.window # <<>>) THEN [acc EXCEPT !.full = TRUE]
        ELSE [acc EXCEPT !.window = w, !.sum = m]
  BY DEF TakeMessage
<1> HIDE DEF w, m
<1>3. /\ [acc EXCEPT !.window = w, !.sum = m].window = w /\ [acc EXCEPT !.window = w, !.sum = m].sum = m
      /\ [acc EXCEPT !.window = w, !.sum = m].full = acc.full
  BY DEF Taking
<1>4. CASE acc.full \/ (acc.sum + n > limit /\ acc.window # <<>>)
  BY <1>1, <1>2, <1>4
<1>5. CASE ~(acc.full \/ (acc.sum + n > limit /\ acc.window # <<>>))
  BY <1>2, <1>3, <1>5 DEF w, m
<1> QED
  BY <1>4, <1>5

LEMMA WindowGoesOn ==
    ASSUME NEW nums \in Seq(Nat), NEW T, RunningSums(T, nums), NEW limit \in Nat, NEW k \in 1..Len(nums),
           NEW acc \in Taking, NEW j, WindowInv(acc, k - 1, j, nums, T, limit)
    PROVE  \E i : WindowInv(TakeMessage(acc, nums[Len(nums) + 1 - k], limit), k, i, nums, T, limit)
<1> DEFINE N == Len(nums)
           v == nums[N + 1 - k]
           then == TakeMessage(acc, v, limit)
<1>1. N \in Nat /\ k \in Nat /\ 1 \leq k /\ k \leq N /\ N + 1 - k \in 1..N
  OBVIOUS
<1>2. /\ j \in 1..(N + 1) /\ acc.window = EndFrom(nums, j) /\ acc.sum = T[N] - T[j - 1]
      /\ j < N => acc.sum \leq limit
      /\ ~acc.full => j = N + 1 - (k - 1)
      /\ acc.full => 2 \leq j /\ j \leq N /\ limit < T[N] - T[j - 2]
  BY DEF WindowInv
<1>3. acc.sum \in Nat /\ acc.full \in BOOLEAN /\ acc.window \in Seq(Nat) /\ v \in Nat
  <2>1. \A i \in 1..N : nums[i] \in Nat
    OBVIOUS
  <2> QED
    BY <1>1, <2>1 DEF Taking
<1>5. /\ acc.full \/ (acc.sum + v > limit /\ acc.window # <<>>) =>
           then.window = acc.window /\ then.sum = acc.sum /\ then.full
      /\ ~(acc.full \/ (acc.sum + v > limit /\ acc.window # <<>>)) =>
           then.window = <<v>> \o acc.window /\ then.sum = acc.sum + v /\ then.full = acc.full
  BY <1>3, TakeMessageIs
<1> HIDE DEF then
<1>6. CASE acc.full
  <2>1. then.window = acc.window /\ then.sum = acc.sum /\ then.full
    BY <1>5, <1>6
  <2>2. WindowInv(then, k, j, nums, T, limit)
    BY <1>2, <1>6, <2>1 DEF WindowInv
  <2> QED
    BY <2>2 DEF then
<1>7. CASE ~acc.full
  <2>1. j = N + 2 - k /\ j - 1 = N + 1 - k /\ j - 1 \in 1..N /\ j \in 2..(N + 1) /\ j - 1 \in 0..N /\ j - 2 \in 0..N /\ j - 1 - 1 = j - 2
    BY <1>1, <1>2, <1>7
  <2> DEFINE a == T[N]
             b == T[j - 1]
             c == T[j - 2]
  <2>2. a \in Nat /\ b \in Nat /\ c \in Nat
    <3>1. N \in 0..N
      BY <1>1
    <3> QED
      BY <2>1, <3>1 DEF RunningSums
  <2>3. b = c + v
    <3>1. T[j - 1] = T[j - 1 - 1] + nums[j - 1]
      BY <2>1 DEF RunningSums
    <3>2. nums[j - 1] = v
      BY <2>1
    <3> QED
      BY <2>1, <3>1, <3>2
  <2>4. acc.sum = a - b
    BY <1>2
  <2> HIDE DEF a, b, c
  <2>5. acc.sum + v = a - c
    BY <1>3, <2>2, <2>3, <2>4
  <2>6. CASE acc.sum + v > limit /\ acc.window # <<>>
    <3>1. then.window = acc.window /\ then.sum = acc.sum /\ then.full
      BY <1>5, <2>6
    <3>2. j # N + 1
      BY <1>2, <2>6, EndsGrow
    <3>3. 2 \leq j /\ j \leq N
      BY <1>1, <2>1, <3>2
    <3>4. limit < a - c
      BY <1>3, <2>2, <2>5, <2>6
    <3>5. limit < T[N] - T[j - 2]
      BY <3>4 DEF a, c
    <3>6. WindowInv(then, k, j, nums, T, limit)
      BY <1>2, <3>1, <3>3, <3>5 DEF WindowInv
    <3> QED
      BY <3>6 DEF then
  <2>7. CASE ~(acc.sum + v > limit /\ acc.window # <<>>)
    <3> DEFINE i == j - 1
    <3>1. then.window = <<v>> \o acc.window /\ then.sum = acc.sum + v /\ ~then.full
      BY <1>5, <1>7, <2>7
    <3>2. i \in 1..N /\ i + 1 = j /\ i \in 1..(N + 1) /\ i - 1 = j - 2 /\ i = N + 1 - k
      BY <1>1, <2>1
    <3>3. EndFrom(nums, i) = <<nums[i]>> \o EndFrom(nums, i + 1)
      BY <3>2, EndsGrow
    <3>4. then.window = EndFrom(nums, i)
      <4>1. nums[i] = v
        BY <3>2
      <4> QED
        BY <1>2, <3>1, <3>2, <3>3, <4>1
    <3>5. then.sum = T[N] - T[i - 1]
      BY <2>5, <3>1, <3>2 DEF a, c
    <3>6. i < N => then.sum \leq limit
      <4> SUFFICES ASSUME i < N PROVE then.sum \leq limit
        OBVIOUS
      <4>1. j \in 1..N
        BY <1>1, <2>1, <3>2
      <4>2. acc.window # <<>>
        BY <1>2, <4>1, EndsGrow
      <4> QED
        BY <1>3, <2>7, <3>1, <4>2
    <3> HIDE DEF i
    <3>7. WindowInv(then, k, i, nums, T, limit)
      BY <3>1, <3>2, <3>4, <3>5, <3>6 DEF WindowInv
    <3> QED
      BY <3>7 DEF then
  <2> QED
    BY <2>6, <2>7
<1> QED
  BY <1>3, <1>6, <1>7

LEMMA WindowEnds ==
    ASSUME NEW nums \in Seq(Nat), NEW T, RunningSums(T, nums), NEW limit \in Nat
    PROVE  \E j : WindowInv(MessagesTaken(nums, limit), Len(nums), j, nums, T, limit)
<1> DEFINE N == Len(nums)
<1>1. N \in Nat /\ N \in 0..N
  OBVIOUS
<1>2. PICK r : TakingAlong(r, nums, limit) /\ MessagesTaken(nums, limit) = r[N]
  BY WindowAlong
<1> DEFINE P == {k \in 0..N : \E j : WindowInv(r[k], k, j, nums, T, limit)}
<1>3. 0 \in P
  <2>1. r[0].window = <<>> /\ r[0].sum = 0 /\ ~r[0].full
    BY <1>2 DEF TakingAlong, NoneTaken
  <2> DEFINE j == N + 1
  <2>2. j \in 1..(N + 1) /\ j - 1 = N /\ ~(j < N) /\ j = N + 1 - 0 /\ T[N] \in Nat
    BY <1>1 DEF RunningSums
  <2>3. 0 = T[N] - T[N]
    BY <2>2
  <2>4. EndFrom(nums, j) = <<>>
    BY EndsGrow
  <2> HIDE DEF j
  <2>5. WindowInv(r[0], 0, j, nums, T, limit)
    BY <2>1, <2>2, <2>3, <2>4 DEF WindowInv
  <2> QED
    BY <1>1, <2>5
<1>4. ASSUME NEW k \in 1..N, k - 1 \in P PROVE k \in P
  <2>1. k \in 0..N /\ k - 1 \in 0..N /\ k \in 1..Len(nums)
    OBVIOUS
  <2>2. r[k - 1] \in Taking /\ r[k] = TakeMessage(r[k - 1], Reverse(nums)[k], limit)
    BY <1>2, <2>1 DEF TakingAlong
  <2>3. Reverse(nums)[k] = nums[Len(nums) + 1 - k]
    BY <2>1, ReverseIs
  <2>4. PICK j : WindowInv(r[k - 1], k - 1, j, nums, T, limit)
    BY <1>4
  <2>5. \E i : WindowInv(TakeMessage(r[k - 1], nums[Len(nums) + 1 - k], limit), k, i, nums, T, limit)
    <3> DEFINE acc == r[k - 1]
    <3>1. acc \in Taking /\ WindowInv(acc, k - 1, j, nums, T, limit)
      BY <2>2, <2>4
    <3> HIDE DEF acc
    <3>2. \E i : WindowInv(TakeMessage(acc, nums[Len(nums) + 1 - k], limit), k, i, nums, T, limit)
      BY <2>1, <3>1, WindowGoesOn
    <3> QED
      BY <3>2 DEF acc
  <2> QED
    BY <2>1, <2>2, <2>3, <2>5
<1>5. \A k \in 0..N : k \in P
  <2> HIDE DEF P, N
  <2> QED
    BY <1>1, <1>3, <1>4, CountUp
<1> QED
  BY <1>1, <1>2, <1>5

\* The window is the longest end within the limit, for every conversation.
LEMMA WindowIsLongestEnd ==
    ASSUME NEW nums \in Seq(Nat), NEW limit \in Nat
    PROVE  LongestWindow(nums, limit, ContextWindow(nums, limit))
<1> DEFINE N == Len(nums)
           acc == MessagesTaken(nums, limit)
           window == ContextWindow(nums, limit)
           ends == {SubSeq(nums, i, Len(nums)) : i \in DOMAIN nums}
           fitting == {e \in ends : Tally(e) <= limit}
<1>1. N \in Nat /\ DOMAIN nums = 1..N
  OBVIOUS
<1>2. PICK T : RunningSums(T, nums) /\ Tally(nums) = T[N]
  BY TallyAlong
<1>3. PICK j : WindowInv(acc, N, j, nums, T, limit)
  BY <1>2, WindowEnds
<1>4. window = acc.window
  BY DEF ContextWindow, MessagesTaken
<1>5. \A i \in 0..N : T[i] \in Nat
  BY <1>2 DEF RunningSums
<1>6. ASSUME NEW i \in 1..N
      PROVE  /\ Len(EndFrom(nums, i)) = N - i + 1 /\ Tally(EndFrom(nums, i)) = T[N] - T[i - 1]
             /\ EndFrom(nums, i) \in ends
  <2>1. EndFrom(nums, i) \in ends
    BY <1>1 DEF EndFrom
  <2> HIDE DEF ends
  <2> QED
    BY <1>2, <2>1, TallyOfEnd DEF EndFrom
<1>7. \A e \in fitting : \E i \in 1..N : e = EndFrom(nums, i) /\ T[N] - T[i - 1] \leq limit
  <2> SUFFICES ASSUME NEW e \in fitting PROVE \E i \in 1..N : e = EndFrom(nums, i) /\ T[N] - T[i - 1] \leq limit
    OBVIOUS
  <2>1. PICK i \in 1..N : e = EndFrom(nums, i)
    BY <1>1 DEF EndFrom
  <2>2. Tally(e) \leq limit
    OBVIOUS
  <2>3. T[N] - T[i - 1] \leq limit
    BY <1>6, <2>1, <2>2
  <2> QED
    BY <2>1, <2>3
<1>8. \A i \in 1..N : T[N] - T[i - 1] \leq limit => EndFrom(nums, i) \in fitting
  <2> HIDE DEF ends
  <2> QED
    BY <1>6
<1>9. LongestWindow(nums, limit, window) <=>
        CASE nums = <<>> -> window = <<>>
          [] nums # <<>> /\ fitting = {} -> window = <<nums[N]>>
          [] OTHER -> window \in fitting /\ \A e \in fitting : Len(e) <= Len(window)
  BY DEF LongestWindow
<1>10. /\ j \in 1..(N + 1) /\ window = EndFrom(nums, j)
       /\ j < N => T[N] - T[j - 1] \leq limit
       /\ ~acc.full => j = N + 1 - N
       /\ acc.full => 2 \leq j /\ j \leq N /\ limit < T[N] - T[j - 2]
  BY <1>3, <1>4 DEF WindowInv
<1> HIDE DEF fitting, window, acc
<1>11. CASE nums = <<>>
  <2>1. N = 0
    BY <1>11
  <2>2. j = N + 1
    BY <1>10, <2>1
  <2>3. window = <<>>
    BY <1>10, <2>2, EndsGrow
  <2>4. LongestWindow(nums, limit, window)
    BY <1>9, <1>11, <2>3
  <2> QED
    BY <2>4 DEF window
<1>12. CASE nums # <<>>
  <2>1. N # 0 /\ 1 \leq N
    BY <1>1, <1>12
  <2>2. j \in 1..N
    BY <1>1, <1>10, <2>1
  <2>3. CASE fitting = {}
    <3>1. j = N
      <4>1. ~(j < N)
        BY <1>8, <1>10, <2>2, <2>3
      <4> QED
        BY <2>2, <4>1
    <3>2. EndFrom(nums, N) = <<nums[N]>> \o <<>>
      <4>1. N \in 1..Len(nums)
        BY <2>1
      <4>2. EndFrom(nums, N) = <<nums[N]>> \o EndFrom(nums, N + 1) /\ EndFrom(nums, N + 1) = <<>>
        BY <4>1, EndsGrow
      <4> QED
        BY <4>2
    <3>3. <<nums[N]>> \o <<>> = <<nums[N]>>
      <4>1. <<nums[N]>> \in Seq(Nat)
        <5>1. nums[N] \in Nat
          BY <2>1
        <5> QED
          BY <5>1
      <4> QED
        BY <4>1, ConcatEmptySeq
    <3>4. window = <<nums[N]>>
      BY <1>10, <3>1, <3>2, <3>3
    <3>5. LongestWindow(nums, limit, window)
      BY <1>9, <1>12, <2>3, <3>4
    <3> QED
      BY <3>5 DEF window
  <2>4. CASE fitting # {}
    <3>1. PICK m \in 1..N : T[N] - T[m - 1] \leq limit
      BY <1>7, <2>4
    <3>2. T[N] - T[N - 1] \leq limit
      <4>1. m - 1 \in 0..Len(nums) /\ N - 1 \in (m - 1)..Len(nums) /\ N \in 0..N
        BY <1>1
      <4>2. T[m - 1] \in Nat /\ T[N - 1] \in Nat /\ T[m - 1] \leq T[N - 1]
        BY <1>2, <4>1, SumsGrow
      <4>3. T[N] \in Nat
        BY <1>5, <4>1
      <4> QED
        BY <3>1, <4>2, <4>3
    <3>3. T[N] - T[j - 1] \leq limit
      <4>1. CASE j = N
        BY <3>2, <4>1
      <4>2. CASE j # N
        <5>1. j < N
          BY <2>2, <4>2
        <5> QED
          BY <1>10, <5>1
      <4> QED
        BY <4>1, <4>2
    <3>4. window \in fitting
      BY <1>8, <1>10, <2>2, <3>3
    <3>5. ASSUME NEW e \in fitting PROVE Len(e) \leq Len(window)
      <4>1. PICK i \in 1..N : e = EndFrom(nums, i) /\ T[N] - T[i - 1] \leq limit
        BY <1>7
      <4>2. j \leq i
        <5> SUFFICES ASSUME ~(j \leq i) PROVE FALSE
          OBVIOUS
        <5>1. acc.full
          <6> SUFFICES ASSUME ~acc.full PROVE FALSE
            OBVIOUS
          <6>1. j = 1
            BY <1>1, <1>10
          <6> QED
            BY <6>1
        <5>2. i - 1 \in 0..Len(nums) /\ j - 2 \in (i - 1)..Len(nums) /\ N \in 0..N
          BY <1>1, <2>2
        <5>3. T[i - 1] \in Nat /\ T[j - 2] \in Nat /\ T[i - 1] \leq T[j - 2]
          BY <1>2, <5>2, SumsGrow
        <5>4. T[N] \in Nat /\ limit < T[N] - T[j - 2]
          BY <1>5, <1>10, <5>1, <5>2
        <5> QED
          BY <4>1, <5>3, <5>4
      <4>3. Len(e) = N - i + 1 /\ Len(window) = N - j + 1
        BY <1>6, <1>10, <2>2, <4>1
      <4> QED
        BY <1>1, <2>2, <4>2, <4>3
    <3>6. LongestWindow(nums, limit, window)
      BY <1>9, <1>12, <2>4, <3>4, <3>5
    <3> QED
      BY <3>6 DEF window
  <2> QED
    BY <2>3, <2>4
<1> QED
  BY <1>11, <1>12

\* For every conversation and every limit, the context of a request is the
\* longest end of the conversation within the limit, or its last message where
\* even that is too long: getContextWindow, which goes backwards and stops at the
\* first message too many, never gives up a message it had room for.
THEOREM WindowIsLongestHolds ==
    \A tokens \in Seq(Nat), limit \in Nat : LongestWindow(tokens, limit, ContextWindow(tokens, limit))
<1> QED
  BY WindowIsLongestEnd
=============================================================================
