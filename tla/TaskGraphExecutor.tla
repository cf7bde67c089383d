------------------------- MODULE TaskGraphExecutor -------------------------
(***************************************************************************)
(* The parallel executor of a task graph (src/src/taskgraph/taskgraph.cpp, *)
(* class TaskGraphExecutor): execute() flattens the graph, fills the ready *)
(* queue with the nodes that have no predecessor, and launches a pool of   *)
(* threads that run workerLoop until the queue is empty and nobody works.  *)
(* A completed node decrements an atomic counter of each successor and the *)
(* one that reaches zero makes the successor ready; a node that fails for  *)
(* good has everything below it skipped (when configured so).              *)
(*                                                                         *)
(* One action is one atomic access or one critical section of              *)
(* queue_mutex_.  The window between the evaluation of the wait predicate  *)
(* and the moment the thread is really blocked is a state of its own       *)
(* ("block"), because cancel() stores cancelled_ without the mutex.        *)
(***************************************************************************)
EXTENDS Naturals, Sequences, FiniteSets, Functions

CONSTANTS
    Node,           \* indices of the flattened nodes of one execution
    Worker,         \* the threads execute() launches
    Graphs,         \* the successor relations (ctx.adj) execute() is called with
    MaxRetries,     \* TaskNode::max_retries of each node
    MaxExecutions,  \* bound: calls of execute() on one executor
    NoNode          \* a worker that processes nothing

ASSUME NodeAssumption == IsFiniteSet(Node) /\ NoNode \notin Node
\* execute() launches one thread when the configuration asks for none.
ASSUME WorkerAssumption == IsFiniteSet(Worker) /\ Worker # {}
ASSUME GraphsAssumption == Graphs \subseteq [Node -> SUBSET Node]
ASSUME RetriesAssumption == MaxRetries \in [Node -> Nat]
ASSUME ExecutionsAssumption == MaxExecutions \in Nat

VARIABLES
    adj,            \* ctx.adj: successors of each node
    rollback,       \* config_.rollback_on_node_failure
    phase,          \* the caller: outside or inside execute()
    executions,     \* calls of execute() so far (bounded)
    summary,        \* the last TaskGraphExecutionSummary
    state,          \* NodeRuntimeState::state, synced back to the graph
    remaining,      \* NodeRuntimeState::remaining_dependencies
    retry_count,    \* NodeRuntimeState::retry_count, synced back to the graph
    counters,       \* ctx.completed_nodes, failed_nodes and skipped_nodes
    ready_queue,    \* ready_queue_, guarded by queue_mutex_
    active_workers, \* active_workers_
    cancelled,      \* cancelled_
    canceller,      \* a thread inside cancel()
    pc,             \* where each worker is
    cur,            \* node_idx of each worker
    left,           \* successors still to visit: resolution, or to_skip
    batch,          \* newly_ready of each worker (or the node to retry)
    seen            \* the state loaded by invalidateDownstream before its CAS

config == <<adj, rollback>>
nodes == <<state, remaining, retry_count, counters>>
locals == <<cur, left, batch, seen>>
vars == <<adj, rollback, phase, executions, summary, state, remaining,
          retry_count, counters, ready_queue, active_workers, cancelled,
          canceller, pc, cur, left, batch, seen>>

NodeState == {"Pending", "Ready", "Running", "Completed", "Failed", "Skipped"}
Decided == {"Completed", "Failed", "Skipped"}

WorkerPc == {"off", "loop", "wait", "block", "blocked", "check", "start",
             "run", "resolve", "push", "notify", "skip", "cas", "finish",
             "exited"}

Preds(n) == {p \in Node : n \in adj[p]}

\* A nonempty set in which everyone has a successor: what hasCycle() finds.
Cyclic(g) ==
    \E S \in SUBSET Node : S # {} /\ \A n \in S : g[n] \cap S # {}

\* No thread holds queue_mutex_ (only "block" keeps it over two steps).
MutexFree == \A w \in Worker : pc[w] # "block"

NotifyAll(p) == [w \in Worker |-> IF p[w] = "blocked" THEN "wait" ELSE p[w]]

Goto(w, to) == pc' = [pc EXCEPT ![w] = to]

NoCounters == [completed |-> 0, failed |-> 0, skipped |-> 0]

----------------------------------------------------------------------------
(* The caller of execute()                                                 *)

Init ==
    /\ adj \in Graphs
    /\ rollback \in BOOLEAN
    /\ phase = "idle"
    /\ executions = 0
    /\ summary = [success |-> FALSE, completed |-> 0, failed |-> 0, skipped |-> 0]
    /\ state = [n \in Node |-> "Pending"]
    /\ remaining = [n \in Node |-> 0]
    /\ retry_count = [n \in Node |-> 0]
    /\ counters = NoCounters
    /\ ready_queue = <<>>
    /\ active_workers = 0
    /\ cancelled = FALSE
    /\ canceller = "out"
    /\ pc = [w \in Worker |-> "off"]
    /\ cur = [w \in Worker |-> NoNode]
    /\ left = [w \in Worker |-> {}]
    /\ batch = [w \in Worker |-> <<>>]
    /\ seen = [w \in Worker |-> "Pending"]

Sources == {n \in Node : Preds(n) = {}}

\* The orders in which the index loop of step 2 may push the initial nodes.
QueueOrders(S) ==
    Bijection(1..Cardinality(S), S)

\* remaining_dependencies at the start of an execution.
InDegreeShort(n) == IF Preds(n) = {} THEN 0 ELSE Cardinality(Preds(n)) - 1
InDegree(n) == Cardinality(Preds(n))

\* Each execution has a fresh ExecutionContext, its counters at zero.
KeptCounters == counters
FreshCounters == NoCounters

\* execute() up to the launch of the workers, on a graph that has nodes.
Execute ==
    /\ phase = "idle"
    /\ executions < MaxExecutions
    /\ ~Cyclic(adj)
    /\ Node # {}
    /\ phase' = "running"
    /\ executions' = executions + 1
    /\ cancelled' = FALSE
    /\ state' = [n \in Node |-> IF n \in Sources THEN "Ready" ELSE "Pending"]
    /\ remaining' = [n \in Node |-> InDegree(n)]
    /\ counters' = FreshCounters
    /\ ready_queue' \in QueueOrders(Sources)
    /\ active_workers' = 0
    /\ pc' = [w \in Worker |-> "loop"]
    /\ UNCHANGED <<config, summary, retry_count, canceller, locals>>

\* execute() returns before it launches anything: no node, or a cycle.
ExecuteRefused ==
    /\ phase = "idle"
    /\ executions < MaxExecutions
    /\ Node = {} \/ Cyclic(adj)
    /\ executions' = executions + 1
    /\ cancelled' = FALSE
    /\ summary' = [success |-> Node = {}, completed |-> 0, failed |-> 0, skipped |-> 0]
    /\ UNCHANGED <<config, phase, nodes, ready_queue, active_workers, canceller,
                   pc, locals>>

SuccessIgnoringCancel ==
    counters.failed = 0 /\ counters.completed + counters.skipped = Cardinality(Node)

\* summary.success
Success ==
    /\ counters.failed = 0
    /\ counters.completed + counters.skipped = Cardinality(Node)
    /\ ~cancelled

\* All workers are joined: the states go back to the graph, the summary out.
Join ==
    /\ phase = "running"
    /\ \A w \in Worker : pc[w] = "exited"
    /\ phase' = "idle"
    /\ pc' = [w \in Worker |-> "off"]
    /\ summary' =
         [success |-> Success,
          completed |-> counters.completed,
          failed |-> counters.failed,
          skipped |-> counters.skipped]
    /\ UNCHANGED <<config, executions, nodes, ready_queue, active_workers,
                   cancelled, canceller, locals>>

\* TaskGraph::reset() between two executions.
Reset ==
    /\ phase = "idle"
    /\ state' = [n \in Node |-> "Pending"]
    /\ retry_count' = [n \in Node |-> 0]
    /\ UNCHANGED <<config, phase, executions, summary, remaining, counters,
                   ready_queue, active_workers, cancelled, canceller, pc, locals>>

\* cancel(): the store, then notify_all, neither under queue_mutex_.
CancelStore ==
    /\ canceller = "out"
    /\ cancelled' = TRUE
    /\ canceller' = "notify"
    /\ UNCHANGED <<config, phase, executions, summary, nodes, ready_queue,
                   active_workers, pc, locals>>

CancelNotify ==
    /\ canceller = "notify"
    /\ canceller' = "out"
    /\ pc' = NotifyAll(pc)
    /\ UNCHANGED <<config, phase, executions, summary, nodes, ready_queue,
                   active_workers, cancelled, locals>>

----------------------------------------------------------------------------
(* workerLoop                                                              *)

caller == <<config, phase, executions, summary, cancelled, canceller>>

\* while (!cancelled_)
LoopTest(w) ==
    /\ pc[w] = "loop"
    /\ Goto(w, IF cancelled THEN "exited" ELSE "wait")
    /\ UNCHANGED <<caller, nodes, ready_queue, active_workers, locals>>

Drained == ready_queue = <<>> /\ active_workers = 0

\* The predicate is false: the thread will block, still holding the mutex.
WaitFalse(w) ==
    /\ pc[w] = "wait"
    /\ MutexFree
    /\ ~cancelled /\ ready_queue = <<>> /\ active_workers # 0
    /\ Goto(w, "block")
    /\ UNCHANGED <<caller, nodes, ready_queue, active_workers, locals>>

\* The wait set takes the thread and the mutex is released, at once.
Block(w) ==
    /\ pc[w] = "block"
    /\ Goto(w, "blocked")
    /\ UNCHANGED <<caller, nodes, ready_queue, active_workers, locals>>

\* A condition variable may wake a thread that nobody notified.
SpuriousWake(w) ==
    /\ pc[w] = "blocked"
    /\ Goto(w, "wait")
    /\ UNCHANGED <<caller, nodes, ready_queue, active_workers, locals>>

\* Cancelled or drained: wake the others and leave the loop.
Leave(w) ==
    /\ pc[w] = "wait"
    /\ MutexFree
    /\ cancelled \/ Drained
    /\ pc' = [NotifyAll(pc) EXCEPT ![w] = "exited"]
    /\ UNCHANGED <<caller, nodes, ready_queue, active_workers, locals>>

Pop(w) ==
    /\ pc[w] = "wait"
    /\ MutexFree
    /\ ~cancelled
    /\ ready_queue # <<>>
    /\ cur' = [cur EXCEPT ![w] = Head(ready_queue)]
    /\ ready_queue' = Tail(ready_queue)
    /\ active_workers' = active_workers + 1
    /\ Goto(w, "check")
    /\ UNCHANGED <<caller, nodes, left, batch, seen>>

\* A popped node that was skipped meanwhile is not processed.
CheckSkipped(w) ==
    /\ pc[w] = "check"
    /\ Goto(w, IF state[cur[w]] = "Skipped" THEN "finish" ELSE "start")
    /\ UNCHANGED <<caller, nodes, ready_queue, active_workers, locals>>

\* No work is left once this worker has decremented active_workers_.
LastOutTooLate == ready_queue = <<>> /\ active_workers = 0
LastOut == ready_queue = <<>> /\ active_workers = 1

\* active_workers_--, and the last one out of work wakes everybody.
Finish(w) ==
    /\ pc[w] = "finish"
    /\ MutexFree
    /\ active_workers' = active_workers - 1
    /\ cur' = [cur EXCEPT ![w] = NoNode]
    /\ pc' = [(IF LastOut THEN NotifyAll(pc) ELSE pc) EXCEPT ![w] = "loop"]
    /\ UNCHANGED <<caller, nodes, ready_queue, left, batch, seen>>

----------------------------------------------------------------------------
(* processNode and invalidateDownstream                                    *)

\* The store of Running is unconditional.
Start(w) ==
    /\ pc[w] = "start"
    /\ state' = [state EXCEPT ![cur[w]] = "Running"]
    /\ Goto(w, "run")
    /\ UNCHANGED <<caller, remaining, retry_count, counters, ready_queue,
                   active_workers, locals>>

\* The handler returned success.
HandlerSucceeds(w) ==
    /\ pc[w] = "run"
    /\ state' = [state EXCEPT ![cur[w]] = "Completed"]
    /\ counters' = [counters EXCEPT !.completed = @ + 1]
    /\ left' = [left EXCEPT ![w] = adj[cur[w]]]
    /\ Goto(w, IF adj[cur[w]] = {} THEN "finish" ELSE "resolve")
    /\ UNCHANGED <<caller, remaining, retry_count, ready_queue, active_workers,
                   cur, batch, seen>>

\* The decrement takes the counter to zero and the CAS Pending -> Ready wins.
BecomesReadyEarly(s) == remaining[s] <= 2
BecomesReady(s) == remaining[s] = 1 /\ state[s] = "Pending"

\* fetch_sub on one successor, and the CAS Pending -> Ready of the last one.
\* The two accesses are one step: nobody else reads the counter between them.
Resolve(w) ==
    /\ pc[w] = "resolve"
    /\ \E s \in left[w] :
         LET ready == BecomesReady(s)
             todo == left[w] \ {s}
             news == IF ready THEN Append(batch[w], s) ELSE batch[w]
         IN  /\ remaining' = [remaining EXCEPT ![s] = @ - 1]
             /\ state' = IF ready THEN [state EXCEPT ![s] = "Ready"] ELSE state
             /\ left' = [left EXCEPT ![w] = todo]
             /\ batch' = [batch EXCEPT ![w] = news]
             /\ Goto(w, IF todo # {} THEN "resolve"
                        ELSE IF news = <<>> THEN "finish" ELSE "push")
    /\ UNCHANGED <<caller, retry_count, counters, ready_queue, active_workers,
                   cur, seen>>

\* Under queue_mutex_: the newly ready nodes, or the node to retry.
Push(w) ==
    /\ pc[w] = "push"
    /\ MutexFree
    /\ ready_queue' = ready_queue \o batch[w]
    /\ Goto(w, "notify")
    /\ UNCHANGED <<caller, nodes, active_workers, locals>>

\* notify_one for one node, notify_all for more; the mutex is not held.
NotifyOne(w) ==
    /\ pc[w] = "notify"
    /\ Len(batch[w]) = 1
    /\ \/ \E v \in Worker : /\ pc[v] = "blocked"
                            /\ pc' = [pc EXCEPT ![v] = "wait", ![w] = "finish"]
       \/ /\ \A v \in Worker : pc[v] # "blocked"
          /\ Goto(w, "finish")
    /\ batch' = [batch EXCEPT ![w] = <<>>]
    /\ UNCHANGED <<caller, nodes, ready_queue, active_workers, cur, left, seen>>

NotifyMany(w) ==
    /\ pc[w] = "notify"
    /\ Len(batch[w]) # 1
    /\ pc' = [NotifyAll(pc) EXCEPT ![w] = "finish"]
    /\ batch' = [batch EXCEPT ![w] = <<>>]
    /\ UNCHANGED <<caller, nodes, ready_queue, active_workers, cur, left, seen>>

\* The handler failed and max_retries allows another attempt.
HandlerRetries(w) ==
    /\ pc[w] = "run"
    /\ retry_count[cur[w]] + 1 <= MaxRetries[cur[w]]
    /\ retry_count' = [retry_count EXCEPT ![cur[w]] = @ + 1]
    /\ state' = [state EXCEPT ![cur[w]] = "Ready"]
    /\ batch' = [batch EXCEPT ![w] = <<cur[w]>>]
    /\ Goto(w, "push")
    /\ UNCHANGED <<caller, remaining, counters, ready_queue, active_workers,
                   cur, left, seen>>

\* The handler failed for good: invalidateDownstream starts when configured.
HandlerFails(w) ==
    /\ pc[w] = "run"
    /\ retry_count[cur[w]] + 1 > MaxRetries[cur[w]]
    /\ retry_count' = [retry_count EXCEPT ![cur[w]] = @ + 1]
    /\ state' = [state EXCEPT ![cur[w]] = "Failed"]
    /\ counters' = [counters EXCEPT !.failed = @ + 1]
    /\ left' = [left EXCEPT ![w] = IF rollback THEN adj[cur[w]] ELSE {}]
    /\ Goto(w, IF rollback /\ adj[cur[w]] # {} THEN "skip" ELSE "finish")
    /\ UNCHANGED <<caller, remaining, ready_queue, active_workers, cur, batch, seen>>

\* Load the state of one node of to_skip; a decided one is dropped.  The node
\* stays at hand in batch until its CAS.
SkipLoad(w) ==
    /\ pc[w] = "skip"
    /\ \E s \in left[w] :
         /\ left' = [left EXCEPT ![w] = @ \ {s}]
         /\ IF state[s] \in Decided
            THEN /\ Goto(w, IF left[w] = {s} THEN "finish" ELSE "skip")
                 /\ UNCHANGED <<batch, seen>>
            ELSE /\ seen' = [seen EXCEPT ![w] = state[s]]
                 /\ batch' = [batch EXCEPT ![w] = <<s>>]
                 /\ Goto(w, "cas")
    /\ UNCHANGED <<caller, nodes, ready_queue, active_workers, cur>>

\* Skipping a node pushes its successors on to_skip.
SkipsOnlyDirect(s) == {}
SkipsNext(s) == adj[s]

\* compare_exchange(st -> Skipped); its successors follow if it wins.  If it
\* loses, the node is dropped and not looked at again.
SkipCas(w) ==
    /\ pc[w] = "cas"
    /\ LET s == batch[w][1]
           won == state[s] = seen[w]
           todo == IF won THEN left[w] \cup SkipsNext(s) ELSE left[w]
       IN  /\ state' = IF won THEN [state EXCEPT ![s] = "Skipped"] ELSE state
           /\ counters' = IF won THEN [counters EXCEPT !.skipped = @ + 1] ELSE counters
           /\ left' = [left EXCEPT ![w] = todo]
           /\ Goto(w, IF todo = {} THEN "finish" ELSE "skip")
    /\ batch' = [batch EXCEPT ![w] = <<>>]
    /\ seen' = [seen EXCEPT ![w] = "Pending"]
    /\ UNCHANGED <<caller, remaining, retry_count, ready_queue, active_workers, cur>>

----------------------------------------------------------------------------
(* The specification                                                       *)

\* The steps a worker takes by itself (all but the spurious wake-up).
Work(w) ==
    \/ LoopTest(w) \/ WaitFalse(w) \/ Block(w) \/ Leave(w) \/ Pop(w)
    \/ CheckSkipped(w) \/ Finish(w) \/ Start(w) \/ HandlerSucceeds(w)
    \/ Resolve(w) \/ Push(w) \/ NotifyOne(w) \/ NotifyMany(w)
    \/ HandlerRetries(w) \/ HandlerFails(w) \/ SkipLoad(w) \/ SkipCas(w)

Next ==
    \/ Execute \/ ExecuteRefused \/ Join \/ Reset
    \/ CancelStore \/ CancelNotify
    \/ \E w \in Worker : Work(w) \/ SpuriousWake(w)

Spec == Init /\ [][Next]_vars

\* Threads that can take a step are scheduled, handlers return, and the mutex
\* is handed to every thread that keeps asking for it.
Fairness ==
    /\ WF_vars(Join)
    /\ WF_vars(CancelNotify)
    /\ \A w \in Worker : SF_vars(Work(w))

FairSpec == Spec /\ Fairness

----------------------------------------------------------------------------
(* Properties                                                              *)

CallerTypeOK ==
    /\ adj \in Graphs
    /\ rollback \in BOOLEAN
    /\ phase \in {"idle", "running"}
    /\ executions \in Nat
    /\ summary \in [success : BOOLEAN, completed : Nat, failed : Nat, skipped : Nat]
    /\ cancelled \in BOOLEAN
    /\ canceller \in {"out", "notify"}

NodeTypeOK ==
    /\ state \in [Node -> NodeState]
    /\ remaining \in [Node -> Nat]
    /\ retry_count \in [Node -> Nat]
    /\ counters \in [completed : Nat, failed : Nat, skipped : Nat]
    /\ ready_queue \in Seq(Node)
    /\ active_workers \in Nat

WorkerTypeOK ==
    /\ pc \in [Worker -> WorkerPc]
    /\ cur \in [Worker -> Node \cup {NoNode}]
    /\ left \in [Worker -> SUBSET Node]
    /\ batch \in [Worker -> Seq(Node)]
    /\ seen \in [Worker -> NodeState \ Decided]

\* Every variable stays in the range its declaration gives it: the atomics of
\* NodeRuntimeState and ExecutionContext never wrap below zero.
TypeOK == CallerTypeOK /\ NodeTypeOK /\ WorkerTypeOK

\* A node is made ready, run or decided by its handler only when every node it
\* depends on has completed, whatever the threads that decrement its counter,
\* retry or skip do meanwhile.
DependencyOrder ==
    \A n \in Node : state[n] \in {"Ready", "Running", "Completed", "Failed"} =>
        \A p \in Preds(n) : state[p] = "Completed"

\* The nodes that a worker is about to run or to put in the queue.
Holding(w) ==
    IF pc[w] \in {"check", "start", "run"} THEN {cur[w]}
    ELSE IF pc[w] \in {"resolve", "push"}
         THEN Range(batch[w])
         ELSE {}

Queued == Range(ready_queue)

\* At most one thread at a time has a node in its hands, and not while the
\* node is in the queue: no handler runs twice for one readiness.
DispatchedOnce ==
    phase = "running" =>
      /\ IsInjective(ready_queue)
      /\ \A w \in Worker :
           /\ Holding(w) \cap Queued = {}
           /\ \A v \in Worker \ {w} : Holding(w) \cap Holding(v) = {}

\* The counters of the summary are the numbers of nodes in each final state.
CountersMatch ==
    phase = "running" =>
      /\ counters.completed = Cardinality({n \in Node : state[n] = "Completed"})
      /\ counters.failed = Cardinality({n \in Node : state[n] = "Failed"})
      /\ counters.skipped = Cardinality({n \in Node : state[n] = "Skipped"})

\* Within one execution a decided node is never touched again: neither the
\* unconditional store of Running nor a lost CAS race revives it.
DecidedIsFinal ==
    [][phase = "running" =>
         \A n \in Node : state[n] \in Decided => state'[n] = state[n]]_vars

\* n lies below a failed node: every closed set that holds the successors of
\* the failed nodes holds n.
BelowFailure(n) ==
    \A S \in SUBSET Node :
        (\A p \in Node : state[p] = "Failed" \/ p \in S => adj[p] \subseteq S)
        => n \in S

\* When execute() returns uncancelled with rollback on, the skipped nodes are
\* exactly those below a failed one and no node is left undecided.
SkippedIsBelowFailure ==
    [][phase = "running" /\ phase' = "idle" /\ ~cancelled /\ rollback =>
         \A n \in Node : /\ state[n] \in Decided
                         /\ state[n] = "Skipped" <=> BelowFailure(n)]_vars

\* execute() returns: no wake-up is lost for good, even the one cancel() may
\* lose by not taking queue_mutex_.
ExecuteReturns == phase = "running" ~> phase = "idle"

Outcome(s) ==
    CASE s = "Completed" -> "completed"
      [] s = "Failed" -> "failed"
      [] s = "Skipped" -> "skipped"
      [] OTHER -> "undecided"

Abstract == INSTANCE DagExecution WITH
    running <- (phase = "running"),
    outcome <- [n \in Node |-> Outcome(state[n])],
    stop <- cancelled,
    success <- summary.success

\* The executor implements the promise of DagExecution.
ImplementsDagExecution == Abstract!Spec

----------------------------------------------------------------------------
(* The inductive invariant behind DependencyOrder and DispatchedOnce       *)

\* The predecessors whose completion has not been counted at s yet.
Uncounted(s) ==
    {p \in Preds(s) :
        \/ state[p] # "Completed"
        \/ \E w \in Worker : pc[w] = "resolve" /\ cur[w] = p /\ s \in left[w]}

Doomed(s) == \E p \in Preds(s) : state[p] \in {"Failed", "Skipped"}

CounterInv == \A s \in Node : remaining[s] = Cardinality(Uncounted(s))

ReadyInv ==
    \A s \in Node : state[s] \in {"Ready", "Running", "Completed", "Failed"} =>
        Uncounted(s) = {}

QueueInv == \A n \in Queued : state[n] = "Ready"

WorkerInv(w) ==
    /\ pc[w] \in {"check", "start", "run", "resolve", "push", "skip", "cas"} =>
         cur[w] \in Node
    /\ pc[w] \in {"check", "start"} => state[cur[w]] = "Ready"
    /\ pc[w] = "run" => state[cur[w]] = "Running"
    /\ pc[w] = "resolve" => state[cur[w]] = "Completed" /\ left[w] \subseteq adj[cur[w]]
    /\ pc[w] \in {"resolve", "push"} => \A n \in Holding(w) : state[n] = "Ready"
    /\ pc[w] \in {"resolve", "push"} => IsInjective(batch[w])
    /\ pc[w] \in {"skip", "cas"} => \A s \in left[w] : Doomed(s)
    /\ pc[w] = "cas" => batch[w] # <<>> /\ Doomed(batch[w][1])
    /\ pc[w] \notin {"resolve", "push", "notify", "cas"} => batch[w] = <<>>

\* Between the pop and active_workers_--.
Working(w) == pc[w] \notin {"off", "loop", "wait", "block", "blocked", "exited"}

ActiveInv == active_workers = Cardinality({w \in Worker : Working(w)})

ResolversDiffer ==
    \A w, v \in Worker :
        w # v /\ pc[w] = "resolve" /\ pc[v] = "resolve" => cur[w] # cur[v]

ExecutionInv ==
    /\ CounterInv
    /\ ReadyInv
    /\ QueueInv
    /\ ActiveInv
    /\ \A w \in Worker : WorkerInv(w)
    /\ ResolversDiffer

IdleInv == \A w \in Worker : pc[w] = "off" /\ batch[w] = <<>>

IInv ==
    /\ TypeOK
    /\ DependencyOrder
    /\ DispatchedOnce
    /\ phase = "running" => ExecutionInv
    /\ phase = "idle" => IdleInv

----------------------------------------------------------------------------
(* The inductive invariant behind the refinement and SkippedIsBelowFailure *)

\* Every undecided node waits for something that is still to happen: for the
\* count of a predecessor, in the queue or in a worker's hands.
PlacedInv ==
    \A n \in Node :
        /\ state[n] = "Pending" => remaining[n] # 0
        /\ state[n] = "Ready" => n \in Queued \/ \E w \in Worker : n \in Holding(w)
        /\ state[n] = "Running" => \E w \in Worker : pc[w] = "run" /\ cur[w] = n

\* A worker leaves an uncancelled execution only when no work is left.
DrainInv == ~cancelled /\ (\E w \in Worker : pc[w] = "exited") => Drained

\* The nodes that invalidateDownstream still has to look at.
Spreading(w) ==
    IF pc[w] = "skip" THEN left[w]
    ELSE IF pc[w] = "cas" THEN left[w] \cup {batch[w][1]}
         ELSE {}

SkipInv ==
    /\ \A n \in Node : state[n] = "Skipped" => BelowFailure(n)
    /\ rollback =>
         \A p \in Node : state[p] \in {"Failed", "Skipped"} =>
           \A s \in adj[p] : state[s] = "Skipped" \/ \E w \in Worker : s \in Spreading(w)
    /\ \A w \in Worker : pc[w] = "cas" => seen[w] = "Pending"

OutcomeInv ==
    phase = "running" =>
      /\ ~Cyclic(adj)
      /\ PlacedInv
      /\ DrainInv
      /\ SkipInv
=============================================================================
