------------------------------- MODULE Agents -------------------------------
(***************************************************************************)
(* Agent::execute, cancel, pause and resume (src/src/agents/agents.cpp).   *)
(* An agent has an atomic state and two atomic flags and no lock around    *)
(* them: execute checks the state and begins later, a running execution    *)
(* writes the state at every stage, and cancel writes it from another      *)
(* thread.                                                                 *)
(*                                                                         *)
(* An action is one access to the shared atomics together with the local   *)
(* work around it.  Prompts, tool results, statistics and events are left  *)
(* out: nothing here decides on them.  The model's answer is one of four:  *)
(* an error, an answer, tool calls, or an exception.                       *)
(***************************************************************************)
EXTENDS Naturals

CONSTANTS
    Agent,         \* agents
    Thread,        \* threads that call execute
    NoAgent,       \* the thread is in no execute
    MaxIterations  \* config_.max_iterations

ASSUME AgentAssumption == NoAgent \notin Agent

ASSUME IterationsAssumption == MaxIterations \in Nat

VARIABLES
    state,      \* Agent::state_
    cancelled,  \* impl_->cancelled
    paused,     \* impl_->paused
    cancelling, \* agents whose cancel() has raised the flag, not yet the state
    pc,         \* where each thread is in execute
    on,         \* the agent it executes
    iteration,  \* iterations
    success,    \* result.success
    late,       \* history: iterations begun under the cancelled flag, up to 2
    stranded    \* history: agents an exception has left

control == <<state, cancelled, paused, cancelling>>
locals == <<on, iteration, success>>
agentVars == <<state, cancelled, paused, cancelling, pc, on, iteration, success,
               late, stranded>>

AgentState == {"Idle", "Thinking", "Acting", "Waiting", "Completed", "Failed",
               "Cancelled"}

\* execute admits a call in these states.
Ready == {"Idle", "Waiting"}

\* The states the end of executeLoop leaves alone.
Dead == {"Failed", "Cancelled"}

InLoop == {"top", "stopping", "pausing", "think", "act"}
Inside == InLoop \cup
    {"begin", "finish", "failing", "rest", "unfailed", "resting"}

AgentInit ==
    /\ state = [a \in Agent |-> "Idle"]
    /\ cancelled = [a \in Agent |-> FALSE]
    /\ paused = [a \in Agent |-> FALSE]
    /\ cancelling = {}
    /\ pc = [t \in Thread |-> "idle"]
    /\ on = [t \in Thread |-> NoAgent]
    /\ iteration = [t \in Thread |-> 0]
    /\ success = [t \in Thread |-> FALSE]
    /\ late = [t \in Thread |-> 0]
    /\ stranded = {}

Goto(t, to) == pc' = [pc EXCEPT ![t] = to]

SetState(a, s) == state' = [state EXCEPT ![a] = s]

----------------------------------------------------------------------------
(* execute and the loop                                                    *)

\* execute finds the agent ready.
Admitted(t, a) ==
    /\ pc[t] = "idle"
    /\ state[a] \in Ready
    /\ on' = [on EXCEPT ![t] = a]
    /\ success' = [success EXCEPT ![t] = FALSE]
    /\ Goto(t, "begin")
    /\ UNCHANGED <<control, iteration, late, stranded>>

\* "Agent is busy".
Refused(t, a) ==
    /\ pc[t] = "idle"
    /\ state[a] \notin Ready
    /\ on' = [on EXCEPT ![t] = a]
    /\ success' = [success EXCEPT ![t] = FALSE]
    /\ Goto(t, "returned")
    /\ UNCHANGED <<control, iteration, late, stranded>>

\* executeLoop lowers both flags, whoever raised them.
Begin(t) ==
    /\ pc[t] = "begin"
    /\ cancelled' = [cancelled EXCEPT ![on[t]] = FALSE]
    /\ paused' = [paused EXCEPT ![on[t]] = FALSE]
    /\ iteration' = [iteration EXCEPT ![t] = 0]
    /\ late' = [u \in Thread |-> IF on[u] = on[t] THEN 0 ELSE late[u]]
    /\ Goto(t, "top")
    /\ UNCHANGED <<state, cancelling, on, success, stranded>>

Exhausted(t) ==
    /\ pc[t] = "top"
    /\ iteration[t] >= MaxIterations
    /\ Goto(t, "finish")
    /\ UNCHANGED <<control, locals, late, stranded>>

SeeCancelled(t) ==
    /\ pc[t] = "top"
    /\ iteration[t] < MaxIterations
    /\ cancelled[on[t]]
    /\ Goto(t, "stopping")
    /\ UNCHANGED <<control, locals, late, stranded>>

StopCancelled(t) ==
    /\ pc[t] = "stopping"
    /\ SetState(on[t], "Cancelled")
    /\ Goto(t, "finish")
    /\ UNCHANGED <<cancelled, paused, cancelling, locals, late, stranded>>

\* The test of the flag without the stop.
ProceedUnchecked(t) ==
    /\ pc[t] = "top"
    /\ iteration[t] < MaxIterations
    /\ Goto(t, "pausing")
    /\ UNCHANGED <<control, locals, late, stranded>>

Proceed(t) ==
    /\ pc[t] = "top"
    /\ iteration[t] < MaxIterations
    /\ ~cancelled[on[t]]
    /\ Goto(t, "pausing")
    /\ UNCHANGED <<control, locals, late, stranded>>

\* The wait that only resume() ends.
ThinkWhenResumed(t) ==
    /\ pc[t] = "pausing"
    /\ ~paused[on[t]]
    /\ iteration' = [iteration EXCEPT ![t] = @ + 1]
    /\ late' = IF cancelled[on[t]] /\ late[t] < 2
               THEN [late EXCEPT ![t] = @ + 1] ELSE late
    /\ SetState(on[t], "Thinking")
    /\ Goto(t, "think")
    /\ UNCHANGED <<cancelled, paused, cancelling, on, success, stranded>>

\* The wait for resume() or cancel(), then the next iteration.
Think(t) ==
    /\ pc[t] = "pausing"
    /\ ~paused[on[t]] \/ cancelled[on[t]]
    /\ iteration' = [iteration EXCEPT ![t] = @ + 1]
    /\ late' = IF cancelled[on[t]] /\ late[t] < 2
               THEN [late EXCEPT ![t] = @ + 1] ELSE late
    /\ SetState(on[t], "Thinking")
    /\ Goto(t, "think")
    /\ UNCHANGED <<cancelled, paused, cancelling, on, success, stranded>>

ModelFails(t) ==
    /\ pc[t] = "think"
    /\ SetState(on[t], "Failed")
    /\ Goto(t, "finish")
    /\ UNCHANGED <<cancelled, paused, cancelling, locals, late, stranded>>

\* The answer is complete, or names no tool.
ModelAnswers(t) ==
    /\ pc[t] = "think"
    /\ success' = [success EXCEPT ![t] = TRUE]
    /\ SetState(on[t], "Completed")
    /\ Goto(t, "finish")
    /\ UNCHANGED <<cancelled, paused, cancelling, on, iteration, late, stranded>>

ModelCallsTools(t) ==
    /\ pc[t] = "think"
    /\ SetState(on[t], "Acting")
    /\ Goto(t, "act")
    /\ UNCHANGED <<cancelled, paused, cancelling, locals, late, stranded>>

ToolsReturn(t) ==
    /\ pc[t] = "act"
    /\ Goto(t, "top")
    /\ UNCHANGED <<control, locals, late, stranded>>

\* An exception of the model, a tool or a callback leaves executeLoop.
Throws(t) ==
    /\ pc[t] \in {"think", "act"}
    /\ stranded' = stranded \cup {on[t]}
    /\ Goto(t, "returned")
    /\ UNCHANGED <<control, locals, late>>

----------------------------------------------------------------------------
(* The end of executeLoop                                                  *)

\* A failed task: the state is read, then written.
Finish(t) ==
    /\ pc[t] = "finish"
    /\ Goto(t, IF ~success[t] /\ state[on[t]] # "Cancelled" THEN "failing" ELSE "rest")
    /\ UNCHANGED <<control, locals, late, stranded>>

Fail(t) ==
    /\ pc[t] = "failing"
    /\ SetState(on[t], "Failed")
    /\ Goto(t, "rest")
    /\ UNCHANGED <<cancelled, paused, cancelling, locals, late, stranded>>

\* A state that is neither Failed nor Cancelled is reset: two reads, one write.
UnlessFailed(t) ==
    /\ pc[t] = "rest"
    /\ Goto(t, IF state[on[t]] = "Failed" THEN "returned" ELSE "unfailed")
    /\ UNCHANGED <<control, locals, late, stranded>>

\* The reset left out: the state stays Completed.
UnlessCancelledKept(t) ==
    /\ pc[t] = "unfailed"
    /\ Goto(t, "returned")
    /\ UNCHANGED <<control, locals, late, stranded>>

UnlessCancelled(t) ==
    /\ pc[t] = "unfailed"
    /\ Goto(t, IF state[on[t]] = "Cancelled" THEN "returned" ELSE "resting")
    /\ UNCHANGED <<control, locals, late, stranded>>

BecomeIdle(t) ==
    /\ pc[t] = "resting"
    /\ SetState(on[t], "Idle")
    /\ Goto(t, "returned")
    /\ UNCHANGED <<cancelled, paused, cancelling, locals, late, stranded>>

\* The caller has the result, and the locals are gone.
Collect(t) ==
    /\ pc[t] = "returned"
    /\ on' = [on EXCEPT ![t] = NoAgent]
    /\ iteration' = [iteration EXCEPT ![t] = 0]
    /\ success' = [success EXCEPT ![t] = FALSE]
    /\ late' = [late EXCEPT ![t] = 0]
    /\ Goto(t, "idle")
    /\ UNCHANGED <<control, stranded>>

----------------------------------------------------------------------------
(* cancel, pause and resume                                                *)

\* cancel() raises the flag and ends a pause ...
CancelFlag(a) ==
    /\ cancelled' = [cancelled EXCEPT ![a] = TRUE]
    /\ paused' = [paused EXCEPT ![a] = FALSE]
    /\ cancelling' = cancelling \cup {a}
    /\ UNCHANGED <<state, pc, locals, late, stranded>>

\* ... and then sets the state.
CancelState(a) ==
    /\ a \in cancelling
    /\ SetState(a, "Cancelled")
    /\ cancelling' = cancelling \ {a}
    /\ UNCHANGED <<cancelled, paused, pc, locals, late, stranded>>

Pause(a) ==
    /\ paused' = [paused EXCEPT ![a] = TRUE]
    /\ UNCHANGED <<state, cancelled, cancelling, pc, locals, late, stranded>>

Resume(a) ==
    /\ paused' = [paused EXCEPT ![a] = FALSE]
    /\ UNCHANGED <<state, cancelled, cancelling, pc, locals, late, stranded>>

----------------------------------------------------------------------------
(* The specification                                                       *)

\* A running execution, without the exceptions.
Loop(t) ==
    \/ Begin(t) \/ Exhausted(t) \/ SeeCancelled(t) \/ StopCancelled(t)
    \/ Proceed(t) \/ Think(t)
    \/ ModelFails(t) \/ ModelAnswers(t) \/ ModelCallsTools(t) \/ ToolsReturn(t)
    \/ Finish(t) \/ Fail(t)
    \/ UnlessFailed(t) \/ UnlessCancelled(t) \/ BecomeIdle(t)

AgentNext ==
    \/ \E t \in Thread : Loop(t) \/ Throws(t) \/ Collect(t)
    \/ \E t \in Thread, a \in Agent : Admitted(t, a) \/ Refused(t, a)
    \/ \E a \in Agent : CancelFlag(a) \/ CancelState(a) \/ Pause(a) \/ Resume(a)

AgentSpec == AgentInit /\ [][AgentNext]_agentVars

\* A thread inside execute is scheduled, its model and tool calls end, and a
\* cancel() that has begun goes on.  Nobody has to call resume.
AgentFairness ==
    /\ \A t \in Thread : WF_agentVars(Loop(t) \/ Collect(t))
    /\ \A a \in Agent : WF_agentVars(CancelState(a))

FairAgentSpec == AgentSpec /\ AgentFairness

----------------------------------------------------------------------------
(* Properties                                                              *)

\* The atomics and the threads stay in range, and a thread inside execute
\* holds an agent.
AgentTypeOK ==
    /\ state \in [Agent -> AgentState]
    /\ cancelled \in [Agent -> BOOLEAN]
    /\ paused \in [Agent -> BOOLEAN]
    /\ cancelling \in SUBSET Agent
    /\ pc \in [Thread -> Inside \cup {"idle", "returned"}]
    /\ on \in [Thread -> Agent \cup {NoAgent}]
    /\ iteration \in [Thread -> 0..MaxIterations]
    /\ success \in [Thread -> BOOLEAN]
    /\ late \in [Thread -> 0..2]
    /\ stranded \in SUBSET Agent

InsideHasAgent == \A t \in Thread : pc[t] \in Inside => on[t] \in Agent

Attended(a) == \E t \in Thread : on[t] = a /\ pc[t] \in Inside

\* Whoever overlapped, cancelled or failed, an agent that nobody executes is
\* Idle, Failed or Cancelled, unless an exception has left it: isBusy() is
\* never true of an agent at rest.
RestingWhenUnattended ==
    \A a \in Agent : Attended(a) \/ a \in stranded \/ state[a] \in Dead \cup {"Idle"}

\* Once cancel() has raised its flag, an execution begins at most one more
\* iteration, even when a pause hid the flag, until a new execution lowers it.
AtMostOneLateIteration == \A t \in Thread : late[t] <= 1

\* A paused execution that is cancelled returns, though nobody resumes it,
\* unless another execution of the same agent lowers the flag.
CancelEndsPause ==
    \A t \in Thread :
        pc[t] = "pausing" /\ cancelled[on[t]]
            ~> pc[t] \notin InLoop \/ ~cancelled[on[t]]
=============================================================================
