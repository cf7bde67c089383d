---------------------------- MODULE Orchestrator ----------------------------
(***************************************************************************)
(* MultiAgentOrchestrator::runWorkflow and cancel                          *)
(* (src/src/agents/Orchestrator.cpp) over the six agents of module Agents: *)
(* plan, research, checkpoint, code, test, debug and patch as long as the  *)
(* tests fail, roll back, review.  A thread of the GUI runs a workflow,    *)
(* the GUI's own thread cancels it.                                        *)
(*                                                                         *)
(* The text that agents hand to one another is left out; what a workflow   *)
(* decides on is whether an execution succeeded, whether the plan has      *)
(* steps, whether the test report names a failure and whether the review   *)
(* passed.  An exception would end the program here, so Throws is not part *)
(* of Next, and nothing pauses these agents.                               *)
(***************************************************************************)
EXTENDS Agents, Sequences

CONSTANTS
    MaxRepairCycles,  \* config_.max_repair_cycles
    MaxCancels,       \* bound: how often the user cancels
    HasCheckpoint     \* config_.auto_git_checkpoint with a tool registry, and
                      \* config_.rollback_on_unrecoverable_failure

\* The order in which cancel() visits the agents.
Roles == <<"planner", "researcher", "coder", "tester", "reviewer", "debugger">>

ASSUME RolesAssumption == Agent = {Roles[i] : i \in 1..Len(Roles)}

ASSUME RepairAssumption == MaxRepairCycles \in Nat /\ MaxCancels \in Nat

ASSUME CheckpointAssumption == HasCheckpoint \in BOOLEAN

VARIABLES
    stop,      \* MultiAgentOrchestrator::cancelled_
    stage,     \* where each thread is in runWorkflow
    cycle,     \* repair_cycle
    passed,    \* tests_passed
    errors,    \* result.errors is not empty
    reviewed,  \* result.review.passed
    toCancel,  \* agents that a running cancel() has still to visit
    cancels,   \* calls of cancel(), for the bound
    tested,    \* history: no edit since the tests passed
    edited     \* history: edits since the checkpoint

flags == <<cycle, passed, errors, reviewed>>
history == <<tested, edited>>
cancellation == <<toCancel, cancels>>
orchVars == <<stop, stage, flags, cancellation, history>>
vars == <<agentVars, orchVars>>

\* The agent of each stage that executes one.
Executes ==
    [plan |-> "planner", research |-> "researcher", code |-> "coder",
     test |-> "tester", debug |-> "debugger", patch |-> "coder",
     review |-> "reviewer"]

\* The stages that begin with a look at cancelled_, and what they lead to.
Checks ==
    [beforePlan |-> "plan", beforeResearch |-> "research", beforeCode |-> "code",
     beforeTest |-> "test", beforeReview |-> "review"]

\* Agents with can_write_files: only their tools may change the tree.
Writers == {"coder", "debugger"}

Init ==
    /\ AgentInit
    /\ stop = FALSE
    /\ stage = [t \in Thread |-> "none"]
    /\ cycle = [t \in Thread |-> 0]
    /\ passed = [t \in Thread |-> FALSE]
    /\ errors = [t \in Thread |-> FALSE]
    /\ reviewed = [t \in Thread |-> FALSE]
    /\ toCancel = <<>>
    /\ cancels = 0
    /\ tested = [t \in Thread |-> FALSE]
    /\ edited = [t \in Thread |-> FALSE]

Enter(t, s) == stage' = [stage EXCEPT ![t] = s]

----------------------------------------------------------------------------
(* runWorkflow                                                             *)

Start(t) ==
    /\ stage[t] = "none"
    /\ stop' = FALSE
    /\ Enter(t, "beforePlan")
    /\ UNCHANGED <<agentVars, flags, cancellation, history>>

\* The repair loop without its look at cancelled_.
GoOnRepairing(t) ==
    /\ stage[t] \in DOMAIN Checks
    /\ stage[t] = "beforeTest" => cycle[t] <= MaxRepairCycles
    /\ ~stop \/ stage[t] = "beforeTest"
    /\ Enter(t, Checks[stage[t]])
    /\ UNCHANGED <<agentVars, stop, flags, cancellation, history>>

\* cancelled_ is not set: the stage goes on.
GoOn(t) ==
    /\ stage[t] \in DOMAIN Checks
    /\ stage[t] = "beforeTest" => cycle[t] <= MaxRepairCycles
    /\ ~stop
    /\ Enter(t, Checks[stage[t]])
    /\ UNCHANGED <<agentVars, stop, flags, cancellation, history>>

\* "Workflow cancelled".
Abort(t) ==
    /\ stage[t] \in {"beforePlan", "beforeResearch", "beforeCode"}
    /\ stop
    /\ Enter(t, "none")
    /\ UNCHANGED <<agentVars, stop, flags, cancellation, history>>

EndTests(t) ==
    /\ stage[t] = "beforeTest"
    /\ stop \/ cycle[t] > MaxRepairCycles
    /\ Enter(t, "rollback")
    /\ UNCHANGED <<agentVars, stop, flags, cancellation, history>>

\* The stage executes its agent, or is refused.
Execute(t) ==
    /\ stage[t] \in DOMAIN Executes
    /\ Admitted(t, Executes[stage[t]]) \/ Refused(t, Executes[stage[t]])
    /\ UNCHANGED orchVars

\* A step of the agent; the tools of a writer may change the tree.
AgentStep(t) ==
    /\ Loop(t)
    /\ \/ UNCHANGED history
       \/ /\ pc[t] = "act" /\ on[t] \in Writers
          /\ tested' = [tested EXCEPT ![t] = FALSE]
          /\ edited' = [edited EXCEPT ![t] = TRUE]
    /\ UNCHANGED <<stop, stage, flags, cancellation>>

\* The plan is usable when the planner succeeded and its answer has steps.
Planned(t) ==
    /\ stage[t] = "plan"
    /\ Collect(t)
    /\ \E steps \in BOOLEAN :
         Enter(t, IF success[t] /\ steps THEN "beforeResearch" ELSE "none")
    /\ UNCHANGED <<stop, flags, cancellation, history>>

\* createGitCheckpoint: the stash of the git tool leaves the tree alone.
Researched(t) ==
    /\ stage[t] = "research"
    /\ Collect(t)
    /\ edited' = [edited EXCEPT ![t] = FALSE]
    /\ Enter(t, "beforeCode")
    /\ UNCHANGED <<stop, flags, cancellation, tested>>

Coded(t) ==
    /\ stage[t] = "code"
    /\ Collect(t)
    /\ errors' = [errors EXCEPT ![t] = ~success[t]]
    /\ Enter(t, "beforeTest")
    /\ UNCHANGED <<stop, cycle, passed, reviewed, cancellation, history>>

TestsPass(t) ==
    /\ stage[t] = "test"
    /\ Collect(t)
    /\ success[t]
    /\ passed' = [passed EXCEPT ![t] = TRUE]
    /\ tested' = [tested EXCEPT ![t] = TRUE]
    /\ Enter(t, "rollback")
    /\ UNCHANGED <<stop, cycle, errors, reviewed, cancellation, edited>>

\* The failure that is not counted.
TestsFailUncounted(t) ==
    /\ stage[t] = "test"
    /\ Collect(t)
    /\ Enter(t, "debug")
    /\ UNCHANGED <<stop, flags, cancellation, history>>

\* The tester failed, or its report names a failure.
TestsFail(t) ==
    /\ stage[t] = "test"
    /\ Collect(t)
    /\ cycle' = [cycle EXCEPT ![t] = @ + 1]
    /\ IF cycle[t] + 1 > MaxRepairCycles
       THEN errors' = [errors EXCEPT ![t] = TRUE] /\ Enter(t, "rollback")
       ELSE UNCHANGED errors /\ Enter(t, "debug")
    /\ UNCHANGED <<stop, passed, reviewed, cancellation, history>>

Debugged(t) ==
    /\ stage[t] = "debug"
    /\ Collect(t)
    /\ Enter(t, "patch")
    /\ UNCHANGED <<stop, flags, cancellation, history>>

\* The patch that goes to the review without a test.
PatchedUntested(t) ==
    /\ stage[t] = "patch"
    /\ Collect(t)
    /\ passed' = [passed EXCEPT ![t] = success[t]]
    /\ Enter(t, "rollback")
    /\ UNCHANGED <<stop, cycle, errors, reviewed, cancellation, history>>

\* Whether the coder succeeded is not looked at.
Patched(t) ==
    /\ stage[t] = "patch"
    /\ Collect(t)
    /\ Enter(t, "beforeTest")
    /\ UNCHANGED <<stop, flags, cancellation, history>>

\* rollbackGitCheckpoint: "stash" with subcommand "pop", which the git tool
\* does not read; it reports success and changes nothing.
Rollback(t) ==
    /\ stage[t] = "rollback"
    /\ HasCheckpoint /\ ~passed[t]
    /\ Enter(t, "rolledBack")
    /\ UNCHANGED <<agentVars, stop, flags, cancellation, history>>

NoRollback(t) ==
    /\ \/ stage[t] = "rollback" /\ (passed[t] \/ ~HasCheckpoint)
       \/ stage[t] = "rolledBack"
    /\ Enter(t, "beforeReview")
    /\ UNCHANGED <<agentVars, stop, flags, cancellation, history>>

Reviewed(t) ==
    /\ stage[t] = "review"
    /\ Collect(t)
    /\ \E ok \in BOOLEAN : reviewed' = [reviewed EXCEPT ![t] = ok /\ success[t]]
    /\ Enter(t, "end")
    /\ UNCHANGED <<stop, cycle, passed, errors, cancellation, history>>

SkipReview(t) ==
    /\ stage[t] = "beforeReview"
    /\ stop
    /\ Enter(t, "end")
    /\ UNCHANGED <<agentVars, stop, flags, cancellation, history>>

\* result.success.
Success(t) == passed[t] /\ reviewed[t] /\ ~errors[t]

\* The workflow returns its result.
End(t) ==
    /\ stage[t] = "end"
    /\ cycle' = [cycle EXCEPT ![t] = 0]
    /\ passed' = [passed EXCEPT ![t] = FALSE]
    /\ errors' = [errors EXCEPT ![t] = FALSE]
    /\ reviewed' = [reviewed EXCEPT ![t] = FALSE]
    /\ tested' = [tested EXCEPT ![t] = FALSE]
    /\ edited' = [edited EXCEPT ![t] = FALSE]
    /\ Enter(t, "none")
    /\ UNCHANGED <<agentVars, stop, cancellation>>

----------------------------------------------------------------------------
(* cancel                                                                  *)

Cancel ==
    /\ toCancel = <<>>
    /\ cancels < MaxCancels
    /\ stop' = TRUE
    /\ toCancel' = Roles
    /\ cancels' = cancels + 1
    /\ UNCHANGED <<agentVars, stage, flags, history>>

\* The agents are cancelled one after the other, each in two steps.
CancelNext ==
    /\ toCancel # <<>>
    /\ LET a == Head(toCancel)
       IN  IF a \in cancelling
           THEN CancelState(a) /\ toCancel' = Tail(toCancel)
           ELSE CancelFlag(a) /\ UNCHANGED toCancel
    /\ UNCHANGED <<stop, stage, flags, cancels, history>>

----------------------------------------------------------------------------
(* The specification                                                       *)

\* A workflow once it has begun.
Workflow(t) ==
    \/ GoOn(t) \/ Abort(t) \/ EndTests(t) \/ Execute(t) \/ AgentStep(t)
    \/ Planned(t) \/ Researched(t) \/ Coded(t) \/ TestsPass(t) \/ TestsFail(t)
    \/ Debugged(t) \/ Patched(t) \/ Rollback(t) \/ NoRollback(t)
    \/ Reviewed(t) \/ SkipReview(t) \/ End(t)

Next ==
    \/ \E t \in Thread : Start(t) \/ Workflow(t)
    \/ Cancel \/ CancelNext

Spec == Init /\ [][Next]_vars

\* The thread of a workflow is scheduled and every model call ends.
Fairness == \A t \in Thread : WF_vars(Workflow(t))

FairSpec == Spec /\ Fairness

----------------------------------------------------------------------------
(* What TLC compares                                                       *)

\* Begin lowers the cancelled flag of an agent before anything reads it, so the
\* flag of an agent that no thread executes and no cancel() is visiting tells no
\* two states apart.
FlagMatters(a) == a \in cancelling \/ \E t \in Thread : on[t] = a

View ==
    <<state, [a \in Agent |-> cancelled[a] /\ FlagMatters(a)], cancelling,
      pc, on, iteration, success, late, orchVars>>

----------------------------------------------------------------------------
(* Properties                                                              *)

Stage ==
    {"none", "rollback", "rolledBack", "end"} \cup DOMAIN Checks \cup DOMAIN Executes

TypeOK ==
    /\ AgentTypeOK
    /\ stop \in BOOLEAN
    /\ stage \in [Thread -> Stage]
    /\ cycle \in [Thread -> 0..MaxRepairCycles + 1]
    /\ passed \in [Thread -> BOOLEAN]
    /\ errors \in [Thread -> BOOLEAN]
    /\ reviewed \in [Thread -> BOOLEAN]
    /\ toCancel \in Seq(Agent)
    /\ cancels \in 0..MaxCancels
    /\ tested \in [Thread -> BOOLEAN]
    /\ edited \in [Thread -> BOOLEAN]

\* A workflow returns success only if its tests passed after the last edit of its
\* coder or debugger, whatever was cancelled, refused or repaired in between.
SuccessIsTested ==
    \A t \in Thread : stage[t] = "end" /\ Success(t) => tested[t]

\* Once cancel() has visited every agent, none is admitted before the next
\* workflow begins, though a cancelled agent that was running becomes Idle
\* again and the repair loop does not look at cancelled_ between its agents.
CancelStopsWork ==
    [][ stop /\ toCancel = <<>> =>
          \A t \in Thread : pc'[t] = "begin" => pc[t] = "begin" ]_vars

\* Every workflow returns, however its agents fail and whenever it is cancelled.
WorkflowReturns == \A t \in Thread : stage[t] # "none" ~> stage[t] = "none"

\* "Automatic Git checkpointing and rollback support"
\* (FEATURES_DEVELOPMENT_PLAN.md): after a rollback the tree is the one of the
\* checkpoint.
RollbackRestores == \A t \in Thread : stage[t] = "rolledBack" => ~edited[t]

\* "Agent Not Responding ... Check model connection status ... Try switching to
\* more capable model" (docs/AGENT_WORKFLOW.md): a planner whose model failed
\* once is ready for the next workflow, if nobody is cancelling.
PlannerServes ==
    \A t \in Thread :
        stage[t] = "plan" /\ pc[t] = "idle" /\ cancels = 0 => state["planner"] \in Ready
=============================================================================
