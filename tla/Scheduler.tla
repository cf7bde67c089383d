------------------------------ MODULE Scheduler ------------------------------
(***************************************************************************)
(* scheduler/scheduler: a table of tasks, a heap of <<priority, id>>, and  *)
(* worker threads, under one mutex that a worker does not hold while the   *)
(* work runs.  submit moves the task into the table and then uses the id   *)
(* it has moved away: what it queues and returns is the empty id, whose    *)
(* entry in the table, NoId, is created by operator[].  A submitted task  *)
(* is therefore queued by a resume() only.  Ids are random and submit does *)
(* not tell them; the callers of the model know them nonetheless.          *)
(***************************************************************************)
EXTENDS Naturals, FiniteSets, FiniteSetsExt, Maps

CONSTANTS
    Job,            \* ids of submitted tasks
    NoId,           \* the empty id
    PoolWorker,     \* threads of the pool
    NoTask,         \* the worker waits or has ended
    Priority,       \* TaskPriority, the lowest being 0
    DefaultRetries, \* default_max_retries_
    MaxQueued       \* bound: entries of the heap

ASSUME SchedulerAssumption ==
    /\ NoId \notin Job /\ NoTask \notin Job \cup {NoId}
    /\ Priority \subseteq Nat /\ 0 \in Priority
    /\ DefaultRetries \in Nat /\ MaxQueued \in Nat

VARIABLES
    tasks,          \* id -> [state, priority, needs, retries]
    queue,          \* <<priority, id>> -> number of entries of the heap
    work,           \* worker -> the task it executes
    calling,        \* workers past the work, in on_complete
    alive,          \* workers that have been started and have not ended
    pool,           \* running_ and stopping_: "new", "running", "stopping", "stopped"
    freed           \* history: a task was erased while a worker executed it

schedulerVars == <<tasks, queue, work, calling, alive, pool, freed>>

schedulerInit ==
    /\ tasks = <<>> /\ queue = <<>> /\ freed = FALSE
    /\ work = [w \in PoolWorker |-> NoTask] /\ alive = {} /\ calling = {}
    /\ pool = "new"

StateOf(id) == tasks[id].state
SetTask(id, s) == tasks' = [tasks EXCEPT ![id].state = s]

QueueSize == MapThenSumSet(LAMBDA e : queue[e], DOMAIN queue)
QueuedOnce(q, entry) == Put(q, entry, IF entry \in DOMAIN q THEN q[entry] + 1 ELSE 1)
Popped(q, entry) == IF q[entry] > 1 THEN Put(q, entry, q[entry] - 1) ELSE Drop(q, {entry})
Requeue(id) ==
    /\ QueueSize < MaxQueued
    /\ queue' = QueuedOnce(queue, <<tasks[id].priority, id>>)

\* operator[] value-initialises: Pending, priority 0, not cancellable.
UnnamedTask == [state |-> "Pending", priority |-> 0, needs |-> {}, retries |-> 0]

\* submit, submitWithDeps.  Nothing refuses a task before initialize; after
\* stop, stopping_ does until the next one.  submitWithDeps leaves
\* retry_count uninitialised, which may be a number beyond all retries.
Submit(id) ==
    /\ id \notin DOMAIN tasks /\ pool \in {"new", "running"}
    /\ QueueSize < MaxQueued
    /\ \E p \in Priority, needs \in SUBSET (DOMAIN tasks \ {NoId}),
          r \in {0, DefaultRetries} :
         LET task == [state |-> "Pending", priority |-> p, needs |-> needs, retries |-> r]
             ghost == IF NoId \in DOMAIN tasks THEN tasks[NoId] ELSE UnnamedTask
         IN  /\ needs = {} => r = 0
             /\ tasks' = Put(Put(tasks, id, task), NoId, ghost)
             /\ queue' = QueuedOnce(queue, <<ghost.priority, NoId>>)
    /\ UNCHANGED <<work, calling, alive, pool, freed>>

Cancel(id) ==
    /\ id \in DOMAIN tasks \ {NoId} /\ StateOf(id) \notin {"Completed", "Cancelled"}
    /\ SetTask(id, "Cancelled")
    /\ UNCHANGED <<queue, work, calling, alive, pool, freed>>

PauseTask(id) ==
    /\ id \in DOMAIN tasks /\ StateOf(id) \in {"Running", "Pending"}
    /\ SetTask(id, "Paused")
    /\ UNCHANGED <<queue, work, calling, alive, pool, freed>>

ResumeTask(id) ==
    /\ id \in DOMAIN tasks /\ StateOf(id) = "Paused"
    /\ Requeue(id)
    /\ SetTask(id, "Pending")
    /\ UNCHANGED <<work, calling, alive, pool, freed>>

ClearCompleted ==
    LET gone == {id \in DOMAIN tasks : StateOf(id) \in {"Completed", "Cancelled"}}
    IN  /\ tasks' = Drop(tasks, gone)
        /\ freed' = (freed \/ \E w \in PoolWorker : work[w] \in gone)
        /\ UNCHANGED <<queue, work, calling, alive, pool>>

----------------------------------------------------------------------------
(* The workers                                                             *)

CanExecute(id) ==
    \A d \in tasks[id].needs : d \in DOMAIN tasks /\ StateOf(d) = "Completed"

Runnable(id) == id \in DOMAIN tasks /\ StateOf(id) = "Pending" /\ CanExecute(id)

\* A free worker pops until a task can run; the others are dropped.  The
\* heap gives the highest priority first and, among equal ones, the least
\* id, which is random.  NoId becomes Running and, its id being empty, is
\* not executed.
PopTask(w) ==
    /\ w \in alive /\ work[w] = NoTask /\ pool = "running" /\ queue # <<>>
    /\ LET able == {e \in DOMAIN queue : Runnable(e[2])}
       IN  IF able = {} THEN queue' = <<>> /\ UNCHANGED <<tasks, work>>
           ELSE \E e \in able :
                  /\ \A f \in able : e[1] >= f[1]
                  /\ \E others \in SUBSET {f \in DOMAIN queue : f[1] = e[1] /\ f \notin able} :
                       queue' = Drop(Popped(queue, e),
                                     others \cup {f \in DOMAIN queue : f[1] > e[1]})
                  /\ SetTask(e[2], "Running")
                  /\ work' = [work EXCEPT ![w] = IF e[2] = NoId THEN NoTask ELSE e[2]]
    /\ UNCHANGED <<calling, alive, pool, freed>>

Executes(w) == work[w] \in DOMAIN tasks
LetGo(w) == work' = [work EXCEPT ![w] = NoTask] /\ calling' = calling \ {w}

\* The work has returned: Completed, whatever the state is now.  Nothing is
\* said of what a worker does with a task that was erased (`freed`).
WorkReturns(w) ==
    /\ Executes(w) /\ w \notin calling
    /\ SetTask(work[w], "Completed")
    /\ calling' = calling \cup {w}
    /\ UNCHANGED <<queue, work, alive, pool, freed>>

CallbackReturns(w) ==
    /\ Executes(w) /\ w \in calling
    /\ LetGo(w)
    /\ UNCHANGED <<tasks, queue, alive, pool, freed>>

\* Mutant: the retry is queued, and the task stays as it is.
RetryStillRunning(w) ==
    /\ Executes(w) /\ tasks[work[w]].retries < DefaultRetries
    /\ tasks' = [tasks EXCEPT ![work[w]].retries = @ + 1]
    /\ Requeue(work[w])
    /\ LetGo(w)
    /\ UNCHANGED <<alive, pool, freed>>

\* An exception of the work, or of on_complete after it.
WorkRetries(w) ==
    /\ Executes(w) /\ tasks[work[w]].retries < DefaultRetries
    /\ tasks' = [tasks EXCEPT ![work[w]].retries = @ + 1, ![work[w]].state = "Pending"]
    /\ Requeue(work[w])
    /\ LetGo(w)
    /\ UNCHANGED <<alive, pool, freed>>

WorkFails(w) ==
    /\ Executes(w) /\ tasks[work[w]].retries = DefaultRetries
    /\ SetTask(work[w], "Failed")
    /\ LetGo(w)
    /\ UNCHANGED <<queue, alive, pool, freed>>

----------------------------------------------------------------------------
(* initialize and stop, called by the thread that owns the scheduler       *)

StartPool ==
    /\ pool \in {"new", "stopped"}
    /\ pool' = "running" /\ alive' = PoolWorker
    /\ UNCHANGED <<tasks, queue, work, calling, freed>>

StopPool ==
    /\ pool = "running"
    /\ pool' = "stopping"
    /\ UNCHANGED <<tasks, queue, work, calling, alive, freed>>

\* A worker between two tasks sees stopping_ and ends.
WorkerEnds(w) ==
    /\ w \in alive /\ work[w] = NoTask /\ pool = "stopping"
    /\ alive' = alive \ {w}
    /\ UNCHANGED <<tasks, queue, work, calling, pool, freed>>

\* stop() has joined them all.
Joined ==
    /\ pool = "stopping" /\ alive = {}
    /\ pool' = "stopped"
    /\ UNCHANGED <<tasks, queue, work, calling, alive, freed>>

schedulerNext ==
    \/ \E id \in Job : Submit(id) \/ Cancel(id)
    \/ \E id \in Job \cup {NoId} : PauseTask(id) \/ ResumeTask(id)
    \/ ClearCompleted \/ StartPool \/ StopPool \/ Joined
    \/ \E w \in PoolWorker : \/ PopTask(w) \/ WorkReturns(w) \/ CallbackReturns(w) \/ WorkRetries(w) \/ WorkFails(w)
                         \/ WorkerEnds(w)

schedulerSpec == schedulerInit /\ [][schedulerNext]_schedulerVars

----------------------------------------------------------------------------
\* Every task in the state Running is executed by a worker, whatever callers
\* pause, resume and cancel meanwhile, so that a stop that has joined the
\* workers leaves none behind; only the ghost of submit stays Running for
\* ever, and waitForAll with it.
RunningIsAttended ==
    ~freed => \A id \in DOMAIN tasks \ {NoId} :
        StateOf(id) = "Running" => \E w \in alive \ calling : work[w] = id
=============================================================================
