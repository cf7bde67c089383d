---------------------------- MODULE MCExecutions ----------------------------
(***************************************************************************)
(* The two components whose progress is checked, for TLC in one run: a     *)
(* behaviour is one of the agents or one of the executor of task graphs,   *)
(* as focus says, and leaves the other in its initial state.               *)
(***************************************************************************)
EXTENDS Agents

CONSTANTS
    Worker,  \* of the executor
    NoNode   \* a worker that processes nothing

VARIABLES focus, adj, rollback, phase, executions, summary, node_state, remaining,
          retry_count, counters, ready_queue, active_workers, cancelled_,
          canceller, worker_pc, cur, left, batch, seen

\* Three nodes; the first one may be retried; every acyclic graph on them.
ExecutorGraphs == {g \in [1..3 -> SUBSET (1..3)] : \A n \in 1..3 : \A s \in g[n] : n < s}

Executor == INSTANCE TaskGraphExecutor WITH
    Node <- 1..3, Graphs <- ExecutorGraphs, MaxRetries <- [n \in 1..3 |-> IF n = 1 THEN 1 ELSE 0],
    MaxExecutions <- 1, state <- node_state, cancelled <- cancelled_, pc <- worker_pc

executorVars == <<adj, rollback, phase, executions, summary, node_state, remaining, retry_count, counters,
                  ready_queue, active_workers, cancelled_, canceller, worker_pc, cur, left, batch, seen>>
executionsVars == <<focus, agentVars, executorVars>>

executionsInit ==
    /\ focus \in {"agents", "executor"}
    /\ AgentInit /\ Executor!Init
    /\ focus = "agents" => rollback = FALSE /\ \A n \in 1..3 : adj[n] = {}

AgentsStep == focus = "agents" /\ AgentNext /\ UNCHANGED <<focus, executorVars>>
ExecutorStep == focus = "executor" /\ Executor!Next /\ UNCHANGED <<focus, agentVars>>

\* The fairness of each component, while it has the focus.
executionsFairness ==
    /\ \A t \in Thread : WF_agentVars(focus = "agents" /\ (Loop(t) \/ Collect(t)))
    /\ \A a \in Agent : WF_agentVars(focus = "agents" /\ CancelState(a))
    /\ WF_executorVars(focus = "executor" /\ Executor!Join)
    /\ WF_executorVars(focus = "executor" /\ Executor!CancelNotify)
    /\ \A w \in Worker : SF_executorVars(focus = "executor" /\ Executor!Work(w))

executionsSpec ==
    /\ executionsInit
    /\ [][AgentsStep \/ ExecutorStep]_executionsVars
    /\ executionsFairness

\* Once execute() of the task graph executor runs, it returns: no lost
\* wake-up, cancellation or failure leaves a worker or the caller waiting.
ExecuteReturns == Executor!ExecuteReturns
=============================================================================
