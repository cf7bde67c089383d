---------------------------- MODULE AgentProofs ----------------------------
(***************************************************************************)
(* Theorems about modules Agents and Orchestrator, for any agents, threads *)
(* and bounds.                                                             *)
(*                                                                         *)
(* For Agents: an agent that is neither Idle, Failed nor Cancelled has a   *)
(* thread inside execute, because the only ways out of executeLoop read    *)
(* one of these states or write Idle; and a raised flag that has already   *)
(* let one iteration pass is still raised, so the next look at it ends the *)
(* loop.                                                                   *)
(*                                                                         *)
(* For Orchestrator: tests_passed is set with the tree just tested, and no *)
(* later stage of the workflow executes an agent that may write.  Of a     *)
(* cancel that has visited every agent: an agent it could not stop was     *)
(* running, and the workflow looks at cancelled_, or finds the next agent  *)
(* Cancelled, before it begins another.                                    *)
(***************************************************************************)
EXTENDS Orchestrator, TLAPS

----------------------------------------------------------------------------
(* Agents                                                                  *)

\* A counted late iteration means that the flag is still up, and one that has
\* not begun yet was let through before the flag was raised.
LateInv ==
    \A t \in Thread :
        /\ late[t] > 0 => on[t] \in Agent /\ cancelled[on[t]]
        /\ pc[t] \in {"idle", "begin", "pausing"} => late[t] = 0

\* A thread that is let into an iteration has one left.
BudgetInv == \A t \in Thread : pc[t] = "pausing" => iteration[t] < MaxIterations

AgentInv ==
    /\ AgentTypeOK
    /\ InsideHasAgent
    /\ RestingWhenUnattended
    /\ LateInv
    /\ BudgetInv
    /\ AtMostOneLateIteration

\* The invariant holds before any call.
LEMMA AgentInitInv == AgentInit => AgentInv
  BY AgentAssumption, IterationsAssumption
  DEF AgentInit, AgentInv, AgentTypeOK, InsideHasAgent, RestingWhenUnattended,
      LateInv, BudgetInv, AtMostOneLateIteration, AgentState, Inside, InLoop, Dead

\* Every step of a thread keeps it.
LEMMA ThreadStepInv ==
    ASSUME AgentInv, NEW t \in Thread, Loop(t) \/ Throws(t) \/ Collect(t)
    PROVE  AgentInv'
  <1> USE AgentAssumption, IterationsAssumption
      DEF AgentInv, AgentTypeOK, InsideHasAgent, RestingWhenUnattended, Attended,
          LateInv, BudgetInv, AtMostOneLateIteration, AgentState, Inside, InLoop, Dead,
          Goto, SetState, control, locals
  <1>1. CASE Begin(t)
    BY <1>1 DEF Begin
  <1>2. CASE Exhausted(t)
    BY <1>2 DEF Exhausted
  <1>3. CASE SeeCancelled(t)
    BY <1>3 DEF SeeCancelled
  <1>4. CASE StopCancelled(t)
    BY <1>4 DEF StopCancelled
  <1>5. CASE Proceed(t)
    BY <1>5 DEF Proceed
  <1>6. CASE Think(t)
    BY <1>6 DEF Think
  <1>7. CASE ModelFails(t)
    BY <1>7 DEF ModelFails
  <1>8. CASE ModelAnswers(t)
    BY <1>8 DEF ModelAnswers
  <1>9. CASE ModelCallsTools(t)
    BY <1>9 DEF ModelCallsTools
  <1>10. CASE ToolsReturn(t)
    BY <1>10 DEF ToolsReturn
  <1>11. CASE Finish(t)
    BY <1>11 DEF Finish
  <1>12. CASE Fail(t)
    BY <1>12 DEF Fail
  <1>13. CASE UnlessFailed(t)
    BY <1>13 DEF UnlessFailed
  <1>14. CASE UnlessCancelled(t)
    BY <1>14 DEF UnlessCancelled
  <1>15. CASE BecomeIdle(t)
    BY <1>15 DEF BecomeIdle
  <1>16. CASE Throws(t)
    BY <1>16 DEF Throws
  <1>17. CASE Collect(t)
    BY <1>17 DEF Collect
  <1>18. QED
    BY <1>1, <1>2, <1>3, <1>4, <1>5, <1>6, <1>7, <1>8, <1>9, <1>10, <1>11,
       <1>12, <1>13, <1>14, <1>15, <1>16, <1>17 DEF Loop

\* So does a call, admitted or refused.
LEMMA CallInv ==
    ASSUME AgentInv, NEW t \in Thread, NEW a \in Agent, Admitted(t, a) \/ Refused(t, a)
    PROVE  AgentInv'
  <1> USE AgentAssumption, IterationsAssumption
      DEF AgentInv, AgentTypeOK, InsideHasAgent, RestingWhenUnattended, Attended,
          LateInv, BudgetInv, AtMostOneLateIteration, AgentState, Inside, InLoop, Dead,
          Goto, SetState, control, locals
  <1>1. CASE Admitted(t, a)
    BY <1>1 DEF Admitted
  <1>2. CASE Refused(t, a)
    BY <1>2 DEF Refused
  <1>3. QED
    BY <1>1, <1>2

\* So do cancel, pause and resume.
LEMMA ControlInv ==
    ASSUME AgentInv, NEW a \in Agent,
           CancelFlag(a) \/ CancelState(a) \/ Pause(a) \/ Resume(a)
    PROVE  AgentInv'
  <1> USE AgentAssumption, IterationsAssumption
      DEF AgentInv, AgentTypeOK, InsideHasAgent, RestingWhenUnattended, Attended,
          LateInv, BudgetInv, AtMostOneLateIteration, AgentState, Inside, InLoop, Dead,
          Goto, SetState, control, locals
  <1>1. CASE CancelFlag(a)
    BY <1>1 DEF CancelFlag
  <1>2. CASE CancelState(a)
    BY <1>2 DEF CancelState
  <1>3. CASE Pause(a)
    BY <1>3 DEF Pause
  <1>4. CASE Resume(a)
    BY <1>4 DEF Resume
  <1>5. QED
    BY <1>1, <1>2, <1>3, <1>4

LEMMA AgentStutter == ASSUME AgentInv, UNCHANGED agentVars PROVE AgentInv'
  BY DEF AgentInv, AgentTypeOK, InsideHasAgent, RestingWhenUnattended, Attended,
         LateInv, BudgetInv, AtMostOneLateIteration, agentVars

\* The inductive invariant of the agents.
THEOREM AgentsInvariant == AgentSpec => []AgentInv
  <1>1. AgentInv /\ [AgentNext]_agentVars => AgentInv'
    <2> SUFFICES ASSUME AgentInv, [AgentNext]_agentVars PROVE AgentInv'
      OBVIOUS
    <2>1. ASSUME NEW t \in Thread, Loop(t) \/ Throws(t) \/ Collect(t)
          PROVE  AgentInv'
      BY <2>1, ThreadStepInv
    <2>2. ASSUME NEW t \in Thread, NEW a \in Agent, Admitted(t, a) \/ Refused(t, a)
          PROVE  AgentInv'
      BY <2>2, CallInv
    <2>3. ASSUME NEW a \in Agent,
                 CancelFlag(a) \/ CancelState(a) \/ Pause(a) \/ Resume(a)
          PROVE  AgentInv'
      BY <2>3, ControlInv
    <2>4. CASE UNCHANGED agentVars
      BY <2>4, AgentStutter
    <2>5. QED
      BY <2>1, <2>2, <2>3, <2>4 DEF AgentNext
  <1>2. QED
    BY <1>1, AgentInitInv, PTL DEF AgentSpec

\* Type correctness of the agents.
THEOREM AgentsTypeCorrect == AgentSpec => []AgentTypeOK
  <1>1. AgentInv => AgentTypeOK
    BY DEF AgentInv
  <1>2. QED
    BY <1>1, AgentsInvariant, PTL

\* For any number of agents and threads, an agent that nobody executes is at
\* rest, unless an exception has left it.
THEOREM AgentsRest == AgentSpec => []RestingWhenUnattended
  <1>1. AgentInv => RestingWhenUnattended
    BY DEF AgentInv
  <1>2. QED
    BY <1>1, AgentsInvariant, PTL

\* However many threads execute an agent and whenever it is cancelled or
\* paused, the cancelled flag lets at most one more iteration begin.
THEOREM CancelIsPrompt == AgentSpec => []AtMostOneLateIteration
  <1>1. AgentInv => AtMostOneLateIteration
    BY DEF AgentInv
  <1>2. QED
    BY <1>1, AgentsInvariant, PTL

----------------------------------------------------------------------------
(* Orchestrator                                                            *)

\* A thread is inside execute in the stages that execute an agent, with the
\* agent of the stage.
ExecutingInv ==
    \A t \in Thread : pc[t] # "idle" =>
        stage[t] \in DOMAIN Executes /\ on[t] = Executes[stage[t]]

\* What follows the test stage once the tests have passed.
AfterTests == {"rollback", "rolledBack", "beforeReview", "review", "end"}

PassedInv ==
    \A t \in Thread : passed[t] => stage[t] \in AfterTests /\ tested[t]

WorkflowInv ==
    /\ AgentInv
    /\ stop \in BOOLEAN
    /\ stage \in [Thread -> Stage]
    /\ passed \in [Thread -> BOOLEAN]
    /\ tested \in [Thread -> BOOLEAN]
    /\ toCancel \in Seq(Agent)
    /\ ExecutingInv
    /\ PassedInv

\* The six roles are the agents.
LEMMA RolesAreAgents ==
    {"planner", "researcher", "coder", "tester", "reviewer", "debugger"} \subseteq Agent
  <1>1. /\ Len(Roles) = 6
        /\ Roles[1] = "planner" /\ Roles[2] = "researcher" /\ Roles[3] = "coder"
        /\ Roles[4] = "tester" /\ Roles[5] = "reviewer" /\ Roles[6] = "debugger"
    BY DEF Roles
  <1>2. QED
    BY <1>1, RolesAssumption

\* So are the agents of the stages.
LEMMA StageAgents == \A s \in DOMAIN Executes : Executes[s] \in Agent
  BY RolesAreAgents DEF Executes

\* A running execution stays with its agent and does not end inside the loop.
LEMMA LoopFrame ==
    ASSUME AgentTypeOK, NEW t \in Thread, Loop(t)
    PROVE  /\ pc[t] # "idle"
           /\ on' = on
           /\ pc' \in [Thread -> Inside \cup {"idle", "returned"}]
           /\ \A u \in Thread : u # t => pc'[u] = pc[u]
  BY DEF Loop, AgentTypeOK, Inside, InLoop, Goto, locals,
         Begin, Exhausted, SeeCancelled, StopCancelled, Proceed, Think, ModelFails,
         ModelAnswers, ModelCallsTools, ToolsReturn, Finish, Fail,
         UnlessFailed, UnlessCancelled, BecomeIdle

\* The steps of a workflow that leave the agents alone.
LEMMA QuietStepInv ==
    ASSUME WorkflowInv, NEW t \in Thread,
           \/ Start(t) \/ GoOn(t) \/ Abort(t) \/ EndTests(t)
           \/ Rollback(t) \/ NoRollback(t) \/ SkipReview(t) \/ End(t)
    PROVE  WorkflowInv'
  <1>1. UNCHANGED agentVars /\ UNCHANGED toCancel
    BY DEF Start, GoOn, Abort, EndTests, Rollback, NoRollback, SkipReview, End,
           cancellation
  <1>2. AgentInv'
    BY <1>1, AgentStutter DEF WorkflowInv
  <1>3. pc' = pc /\ on' = on
    BY <1>1 DEF agentVars
  <1> USE <1>1, <1>2, <1>3
      DEF WorkflowInv, ExecutingInv, PassedInv, AfterTests, Stage, Executes, Checks,
          Enter, flags, history, cancellation
  <1>4. CASE Start(t)
    BY <1>4 DEF Start
  <1>5. CASE GoOn(t)
    BY <1>5 DEF GoOn
  <1>6. CASE Abort(t)
    BY <1>6 DEF Abort
  <1>7. CASE EndTests(t)
    BY <1>7 DEF EndTests
  <1>8. CASE Rollback(t)
    BY <1>8 DEF Rollback
  <1>9. CASE NoRollback(t)
    BY <1>9 DEF NoRollback
  <1>10. CASE SkipReview(t)
    BY <1>10 DEF SkipReview
  <1>11. CASE End(t)
    BY <1>11 DEF End
  <1>12. QED
    BY <1>4, <1>5, <1>6, <1>7, <1>8, <1>9, <1>10, <1>11

\* The steps that take the result of an agent.
LEMMA ResultInv ==
    ASSUME WorkflowInv, NEW t \in Thread,
           \/ Planned(t) \/ Researched(t) \/ Coded(t) \/ TestsPass(t) \/ TestsFail(t)
           \/ Debugged(t) \/ Patched(t) \/ Reviewed(t)
    PROVE  WorkflowInv'
  <1>1. Collect(t)
    BY DEF Planned, Researched, Coded, TestsPass, TestsFail, Debugged, Patched, Reviewed
  <1>2. AgentInv'
    BY <1>1, ThreadStepInv DEF WorkflowInv
  <1>3. /\ pc[t] = "returned" /\ pc'[t] = "idle"
        /\ \A u \in Thread : u # t => pc'[u] = pc[u] /\ on'[u] = on[u]
    BY <1>1 DEF Collect, Goto, WorkflowInv, AgentInv, AgentTypeOK
  <1>4. UNCHANGED toCancel /\ UNCHANGED stop
    BY DEF Planned, Researched, Coded, TestsPass, TestsFail, Debugged, Patched, Reviewed,
           cancellation
  <1> USE <1>2, <1>3, <1>4
      DEF WorkflowInv, ExecutingInv, PassedInv, AfterTests, Stage, Executes, Checks,
          Enter, flags, history, cancellation
  <1>5. CASE Planned(t)
    BY <1>5 DEF Planned
  <1>6. CASE Researched(t)
    BY <1>6 DEF Researched
  <1>7. CASE Coded(t)
    BY <1>7 DEF Coded
  <1>8. CASE TestsPass(t)
    BY <1>8 DEF TestsPass
  <1>9. CASE TestsFail(t)
    <2>1. \E s \in {"debug", "rollback"} : stage' = [stage EXCEPT ![t] = s]
      BY <1>9 DEF TestsFail
    <2>2. stage[t] = "test" /\ passed' = passed /\ stop' = stop /\ tested' = tested /\ edited' = edited
      BY <1>9 DEF TestsFail
    <2>3. QED
      BY <2>1, <2>2
  <1>10. CASE Debugged(t)
    BY <1>10 DEF Debugged
  <1>11. CASE Patched(t)
    BY <1>11 DEF Patched
  <1>12. CASE Reviewed(t)
    BY <1>12 DEF Reviewed
  <1>13. QED
    BY <1>5, <1>6, <1>7, <1>8, <1>9, <1>10, <1>11, <1>12

\* A call of the agent of the stage.
LEMMA ExecuteInv ==
    ASSUME WorkflowInv, NEW t \in Thread, Execute(t)
    PROVE  WorkflowInv'
  <1> DEFINE a == Executes[stage[t]]
  <1>1. stage[t] \in DOMAIN Executes /\ (Admitted(t, a) \/ Refused(t, a))
    BY DEF Execute
  <1>2. a \in Agent
    BY <1>1, StageAgents
  <1>3. AgentInv'
    BY <1>1, <1>2, CallInv DEF WorkflowInv
  <1>4. /\ on'[t] = a
        /\ \A u \in Thread : u # t => pc'[u] = pc[u] /\ on'[u] = on[u]
    BY <1>1 DEF Admitted, Refused, Goto, WorkflowInv, AgentInv, AgentTypeOK
  <1>5. UNCHANGED orchVars
    BY DEF Execute
  <1>6. QED
    BY <1>1, <1>3, <1>4, <1>5
    DEF WorkflowInv, ExecutingInv, PassedInv, orchVars, flags, history, cancellation

\* A step of an agent: only a writer may disturb what was tested, and no stage
\* after the tests executes one.
LEMMA AgentStepInv ==
    ASSUME WorkflowInv, NEW t \in Thread, AgentStep(t)
    PROVE  WorkflowInv'
  <1>1. Loop(t) /\ UNCHANGED <<stop, stage, passed, toCancel>>
    BY DEF AgentStep, flags, cancellation
  <1>2. AgentInv'
    BY <1>1, ThreadStepInv DEF WorkflowInv
  <1>3. /\ pc[t] # "idle" /\ on' = on
        /\ \A u \in Thread : u # t => pc'[u] = pc[u]
    BY <1>1, LoopFrame DEF WorkflowInv, AgentInv
  <1>4. ExecutingInv'
    BY <1>1, <1>3 DEF WorkflowInv, ExecutingInv
  <1>5. PassedInv' /\ tested' \in [Thread -> BOOLEAN]
    <2>1. CASE UNCHANGED history
      BY <2>1, <1>1 DEF WorkflowInv, PassedInv, history
    <2>2. CASE on[t] \in Writers /\ tested' = [tested EXCEPT ![t] = FALSE]
      <3>1. stage[t] \in DOMAIN Executes /\ Executes[stage[t]] \in Writers
        BY <2>2, <1>3 DEF WorkflowInv, ExecutingInv
      <3>2. stage[t] \notin AfterTests
        BY <3>1 DEF Executes, Writers, AfterTests
      <3>3. ~passed[t]
        BY <3>2 DEF WorkflowInv, PassedInv
      <3>4. QED
        BY <3>3, <2>2, <1>1 DEF WorkflowInv, PassedInv
    <2>3. QED
      BY <2>1, <2>2 DEF AgentStep
  <1>6. QED
    BY <1>1, <1>2, <1>4, <1>5 DEF WorkflowInv

\* cancel() touches neither the stages nor what was tested.
LEMMA CancelInv ==
    ASSUME WorkflowInv, Cancel \/ CancelNext
    PROVE  WorkflowInv'
  <1>1. Roles \in Seq(Agent)
    BY RolesAreAgents DEF Roles
  <1>2. CASE Cancel
    <2>1. UNCHANGED agentVars /\ stop' = TRUE /\ toCancel' = Roles
      BY <1>2 DEF Cancel
    <2>2. AgentInv'
      BY <2>1, AgentStutter DEF WorkflowInv
    <2>3. QED
      BY <1>1, <1>2, <2>1, <2>2
      DEF Cancel, WorkflowInv, ExecutingInv, PassedInv, agentVars, flags, history
  <1>3. CASE CancelNext
    <2>1. toCancel # <<>> /\ Head(toCancel) \in Agent /\ Tail(toCancel) \in Seq(Agent)
      BY <1>3 DEF CancelNext, WorkflowInv
    <2>2. CancelState(Head(toCancel)) \/ CancelFlag(Head(toCancel))
      BY <1>3 DEF CancelNext
    <2>3. AgentInv'
      BY <2>1, <2>2, ControlInv DEF WorkflowInv
    <2>4. toCancel' \in Seq(Agent)
      BY <1>3, <2>1 DEF CancelNext, WorkflowInv
    <2>5. UNCHANGED <<stop, stage, passed, tested>>
      BY <1>3 DEF CancelNext, flags, history
    <2>6. UNCHANGED <<pc, on>>
      BY <2>2 DEF CancelState, CancelFlag, locals
    <2>7. QED
      BY <2>3, <2>4, <2>5, <2>6 DEF WorkflowInv, ExecutingInv, PassedInv
  <1>4. QED
    BY <1>2, <1>3

\* The inductive invariant of the workflow.
THEOREM WorkflowInvariant == Spec => []WorkflowInv
  <1>1. Init => WorkflowInv
    <2> SUFFICES ASSUME Init PROVE WorkflowInv
      OBVIOUS
    <2>1. AgentInv
      BY AgentInitInv DEF Init
    <2>2. <<>> \in Seq(Agent)
      OBVIOUS
    <2>3. stage \in [Thread -> Stage]
      BY DEF Init, Stage
    <2>4. QED
      BY <2>1, <2>2, <2>3
      DEF Init, AgentInit, WorkflowInv, ExecutingInv, PassedInv
  <1>2. WorkflowInv /\ [Next]_vars => WorkflowInv'
    <2> SUFFICES ASSUME WorkflowInv, [Next]_vars PROVE WorkflowInv'
      OBVIOUS
    <2>1. ASSUME NEW t \in Thread, Start(t) \/ Workflow(t)
          PROVE  WorkflowInv'
      BY <2>1, QuietStepInv, ResultInv, ExecuteInv, AgentStepInv DEF Workflow
    <2>2. CASE Cancel \/ CancelNext
      BY <2>2, CancelInv
    <2>3. CASE UNCHANGED vars
      <3>1. UNCHANGED agentVars
        BY <2>3 DEF vars
      <3>2. AgentInv'
        BY <3>1, AgentStutter DEF WorkflowInv
      <3>3. QED
        BY <2>3, <3>2
        DEF vars, agentVars, orchVars, flags, cancellation, history, WorkflowInv,
            ExecutingInv, PassedInv
    <2>4. QED
      BY <2>1, <2>2, <2>3 DEF Next
  <1>3. QED
    BY <1>1, <1>2, PTL DEF Spec

\* However many workflows share the agents and whatever fails or is cancelled,
\* a workflow returns success only for a tree it has tested after its own last
\* edit.
THEOREM SuccessTested == Spec => []SuccessIsTested
  <1>1. WorkflowInv => SuccessIsTested
    BY DEF WorkflowInv, PassedInv, SuccessIsTested, Success
  <1>2. QED
    BY <1>1, WorkflowInvariant, PTL

----------------------------------------------------------------------------
(* cancel                                                                  *)

\* The GUI runs one workflow at a time.
OneWorkflow == \A t, u \in Thread : t = u

\* The agents that a stage comes after without a look at cancelled_.
Before(s) == CASE s = "debug" -> {"tester"}
               [] s = "patch" -> {"tester", "debugger"}
               [] OTHER       -> {}

Visited(a) == \A i \in 1..Len(toCancel) : toCancel[i] # a

\* An agent that cancel() has visited is ready again only if it was running,
\* or had, since the workflow looked at cancelled_ last.
CancelledInv ==
    stop =>
      \A t \in Thread : stage[t] \in DOMAIN Executes =>
        \A a \in Agent : Visited(a) /\ state[a] \in Ready =>
          a \in Before(stage[t]) \/ (pc[t] # "idle" /\ a = Executes[stage[t]])

StopsInv == OneWorkflow /\ WorkflowInv /\ CancelledInv

\* A running execution writes the state of its own agent only.
LEMMA LoopWrites ==
    ASSUME AgentTypeOK, NEW t \in Thread, Loop(t)
    PROVE  /\ \A a \in Agent : a # on[t] => state'[a] = state[a]
           /\ pc'[t] # "idle" /\ pc'[t] # "begin"
<1> USE DEF AgentTypeOK, Goto, SetState, control, locals, Inside, InLoop
<1>1. CASE Begin(t) \/ Exhausted(t) \/ SeeCancelled(t) \/ StopCancelled(t) \/ Proceed(t)
  BY <1>1 DEF Begin, Exhausted, SeeCancelled, StopCancelled, Proceed
<1>2. CASE Think(t) \/ ModelFails(t) \/ ModelAnswers(t) \/ ModelCallsTools(t) \/ ToolsReturn(t)
  BY <1>2 DEF Think, ModelFails, ModelAnswers, ModelCallsTools, ToolsReturn
<1>3. CASE Finish(t) \/ Fail(t) \/ UnlessFailed(t) \/ UnlessCancelled(t) \/ BecomeIdle(t)
  BY <1>3 DEF Finish, Fail, UnlessFailed, UnlessCancelled, BecomeIdle
<1> QED
  BY <1>1, <1>2, <1>3 DEF Loop

\* A stage that looks at cancelled_ is entered under it by nobody.
LEMMA QuietStepStops ==
    ASSUME StopsInv, NEW t \in Thread,
           \/ Start(t) \/ GoOn(t) \/ Abort(t) \/ EndTests(t)
           \/ Rollback(t) \/ NoRollback(t) \/ SkipReview(t) \/ End(t)
    PROVE  CancelledInv'
<1>1. /\ stage \in [Thread -> Stage] /\ \A u \in Thread : u = t
  BY DEF StopsInv, WorkflowInv, OneWorkflow
<1>2. CASE Start(t)
  BY <1>2 DEF Start, CancelledInv
<1>3. CASE GoOn(t)
  BY <1>3 DEF GoOn, CancelledInv
<1>4. CASE ~Start(t) /\ ~GoOn(t)
  <2>1. stage'[t] \in {"none", "rollback", "rolledBack", "beforeReview", "end"}
    BY <1>1, <1>4 DEF Abort, EndTests, Rollback, NoRollback, SkipReview, End, Enter
  <2>2. stage'[t] \notin DOMAIN Executes
    BY <2>1 DEF Executes
  <2> QED
    BY <1>1, <2>2 DEF CancelledInv
<1> QED
  BY <1>2, <1>3, <1>4

LEMMA ResultStops ==
    ASSUME StopsInv, NEW t \in Thread,
           \/ Planned(t) \/ Researched(t) \/ Coded(t) \/ TestsPass(t) \/ TestsFail(t)
           \/ Debugged(t) \/ Patched(t) \/ Reviewed(t)
    PROVE  CancelledInv'
<1>1. stage \in [Thread -> Stage] /\ \A u \in Thread : u = t
  BY DEF StopsInv, WorkflowInv, OneWorkflow
<1>2. state' = state /\ stop' = stop /\ toCancel' = toCancel
  BY DEF Planned, Researched, Coded, TestsPass, TestsFail, Debugged, Patched, Reviewed,
         Collect, control, cancellation
<1>3. \/ stage'[t] \in {"none", "beforeResearch", "beforeCode", "beforeTest", "rollback", "end"}
      \/ stage[t] = "test" /\ stage'[t] = "debug"
      \/ stage[t] = "debug" /\ stage'[t] = "patch"
  BY <1>1 DEF Planned, Researched, Coded, TestsPass, TestsFail, Debugged, Patched, Reviewed, Enter
<1>4. CASE stage'[t] \in {"none", "beforeResearch", "beforeCode", "beforeTest", "rollback", "end"}
  <2>1. stage'[t] \notin DOMAIN Executes
    BY <1>4 DEF Executes
  <2> QED
    BY <1>1, <2>1 DEF CancelledInv
<1>5. \A a : Visited(a)' <=> Visited(a)
  BY <1>2 DEF Visited
<1>6. /\ Before("test") = {} /\ Before("debug") = {"tester"} /\ Before("patch") = {"tester", "debugger"}
      /\ Executes["test"] = "tester" /\ Executes["debug"] = "debugger"
      /\ "test" \in DOMAIN Executes /\ "debug" \in DOMAIN Executes
  BY DEF Before, Executes
<1>7. CASE stage[t] = "test" /\ stage'[t] = "debug"
  BY <1>1, <1>2, <1>5, <1>6, <1>7 DEF CancelledInv, StopsInv
<1>8. CASE stage[t] = "debug" /\ stage'[t] = "patch"
  BY <1>1, <1>2, <1>5, <1>6, <1>8 DEF CancelledInv, StopsInv
<1> QED
  BY <1>3, <1>4, <1>7, <1>8

LEMMA ExecuteStops ==
    ASSUME StopsInv, NEW t \in Thread, Execute(t)
    PROVE  CancelledInv'
<1>1. /\ pc[t] = "idle" /\ pc'[t] # "idle" /\ state' = state
      /\ UNCHANGED <<stop, stage, toCancel>>
  BY DEF Execute, Admitted, Refused, Goto, control, orchVars, cancellation, StopsInv, WorkflowInv,
         AgentInv, AgentTypeOK
<1>2. \A u \in Thread : u = t
  BY DEF StopsInv, OneWorkflow
<1>3. \A a : Visited(a)' <=> Visited(a)
  BY <1>1 DEF Visited
<1> QED
  BY <1>1, <1>2, <1>3 DEF CancelledInv, StopsInv

LEMMA AgentStepStops ==
    ASSUME StopsInv, NEW t \in Thread, AgentStep(t)
    PROVE  CancelledInv'
<1>1. Loop(t) /\ UNCHANGED <<stop, stage, toCancel>>
  BY DEF AgentStep, cancellation
<1>2. /\ pc[t] # "idle" /\ pc'[t] # "idle"
      /\ \A a \in Agent : a # on[t] => state'[a] = state[a]
  BY <1>1, LoopFrame, LoopWrites DEF StopsInv, WorkflowInv, AgentInv
<1>3. stage[t] \in DOMAIN Executes /\ on[t] = Executes[stage[t]]
  BY <1>2 DEF StopsInv, WorkflowInv, ExecutingInv
<1>4. \A u \in Thread : u = t
  BY DEF StopsInv, OneWorkflow
<1>5. \A a : Visited(a)' <=> Visited(a)
  BY <1>1 DEF Visited
<1> QED
  BY <1>1, <1>2, <1>3, <1>4, <1>5 DEF CancelledInv, StopsInv

\* An agent is Cancelled when it is visited.
LEMMA CancelStops ==
    ASSUME StopsInv, Cancel \/ CancelNext
    PROVE  CancelledInv'
<1>1. CASE Cancel
  <2>1. toCancel' = Roles
    BY <1>1 DEF Cancel
  <2>2. \A a \in Agent : ~Visited(a)'
    BY <2>1, RolesAssumption DEF Visited
  <2> QED
    BY <2>2 DEF CancelledInv
<1>2. CASE CancelNext
  <2> DEFINE a == Head(toCancel)
  <2>1. /\ toCancel # <<>> /\ toCancel \in Seq(Agent) /\ a \in Agent
        /\ UNCHANGED <<stop, stage, pc>>
    BY <1>2 DEF CancelNext, CancelState, CancelFlag, StopsInv, WorkflowInv
  <2>2. CASE CancelFlag(a) /\ UNCHANGED toCancel
    <3>1. state' = state /\ \A b : Visited(b)' <=> Visited(b)
      BY <2>2 DEF CancelFlag, Visited
    <3> QED
      BY <2>1, <3>1 DEF CancelledInv, StopsInv
  <2>3. CASE CancelState(a) /\ toCancel' = Tail(toCancel)
    <3>1. \A b \in Agent : state'[b] = IF b = a THEN "Cancelled" ELSE state[b]
      BY <2>1, <2>3 DEF CancelState, SetState, StopsInv, WorkflowInv, AgentInv, AgentTypeOK
    <3>2. ASSUME NEW b \in Agent, Visited(b)', b # a PROVE Visited(b)
      <4>1. /\ Len(toCancel) \in Nat /\ a = toCancel[1] /\ Len(toCancel') = Len(toCancel) - 1
            /\ \A i \in 1..Len(toCancel) - 1 : toCancel'[i] = toCancel[i + 1]
        BY <2>1, <2>3
      <4>2. ASSUME NEW i \in 1..Len(toCancel) PROVE toCancel[i] # b
        <5>1. CASE i = 1
          BY <3>2, <4>1, <5>1
        <5>2. CASE i # 1
          <6>1. i - 1 \in 1..Len(toCancel') /\ toCancel'[i - 1] = toCancel[i]
            BY <4>1, <5>2
          <6> QED
            BY <3>2, <6>1 DEF Visited
        <5> QED
          BY <5>1, <5>2
      <4> QED
        BY <4>2 DEF Visited
    <3>3. "Cancelled" \notin Ready
      BY DEF Ready
    <3> QED
      BY <2>1, <3>1, <3>2, <3>3 DEF CancelledInv, StopsInv
  <2> QED
    BY <1>2, <2>2, <2>3 DEF CancelNext
<1> QED
  BY <1>1, <1>2

\* Nobody begins when all have been visited: the agent of the stage was not
\* among those that ran before it.
LEMMA NoneBegins ==
    ASSUME StopsInv, [Next]_vars, stop, toCancel = <<>>, NEW t \in Thread, pc'[t] = "begin"
    PROVE  pc[t] = "begin"
<1>1. \A u \in Thread : u = t
  BY DEF StopsInv, OneWorkflow
<1>2. CASE UNCHANGED pc
  BY <1>2
<1>3. CASE AgentStep(t)
  BY <1>3, LoopWrites DEF AgentStep, StopsInv, WorkflowInv, AgentInv
<1>4. CASE Collect(t)
  BY <1>4 DEF Collect, Goto, StopsInv, WorkflowInv, AgentInv, AgentTypeOK
<1>5. CASE Execute(t)
  <2> DEFINE a == Executes[stage[t]]
  <2>1. stage[t] \in DOMAIN Executes /\ (Admitted(t, a) \/ Refused(t, a)) /\ pc[t] = "idle"
    BY <1>5 DEF Execute, Admitted, Refused
  <2>2. a \in Agent /\ Visited(a)
    BY <2>1, StageAgents DEF Visited
  <2>3. a \notin Before(stage[t])
    BY <2>1 DEF Executes, Before
  <2>4. state[a] \notin Ready
    BY <2>1, <2>2, <2>3 DEF StopsInv, CancelledInv
  <2>5. Refused(t, a)
    BY <2>1, <2>4 DEF Admitted
  <2> QED
    BY <2>5 DEF Refused, Goto, StopsInv, WorkflowInv, AgentInv, AgentTypeOK
<1> QED
  <2>1. CASE UNCHANGED vars
    BY <1>2, <2>1 DEF vars, agentVars
  <2>2. CASE Cancel \/ CancelNext
    BY <1>2, <2>2 DEF Cancel, CancelNext, CancelState, CancelFlag, agentVars
  <2>3. CASE Start(t) \/ Workflow(t)
    BY <1>2, <1>3, <1>4, <1>5, <2>3
    DEF Workflow, Start, GoOn, Abort, EndTests, Rollback, NoRollback, SkipReview, End,
        Planned, Researched, Coded, TestsPass, TestsFail, Debugged, Patched, Reviewed, agentVars
  <2> QED
    BY <1>1, <2>1, <2>2, <2>3 DEF Next

\* For any iteration limit, number of repair cycles and cancels: once cancel()
\* has visited every agent of a workflow that runs alone, none begins before
\* the next workflow does.
THEOREM CancelStopsWorkHolds == OneWorkflow /\ Spec => CancelStopsWork
<1>1. OneWorkflow /\ Init => CancelledInv
  BY DEF Init, CancelledInv
<1>2. StopsInv /\ [Next]_vars => CancelledInv'
  <2> SUFFICES ASSUME StopsInv, [Next]_vars PROVE CancelledInv'
    OBVIOUS
  <2>1. ASSUME NEW t \in Thread, Start(t) \/ Workflow(t)
        PROVE  CancelledInv'
    BY <2>1, QuietStepStops, ResultStops, ExecuteStops, AgentStepStops DEF Workflow
  <2>2. CASE Cancel \/ CancelNext
    BY <2>2, CancelStops
  <2>3. CASE UNCHANGED vars
    BY <2>3 DEF vars, agentVars, orchVars, cancellation, StopsInv, CancelledInv, Visited
  <2> QED
    BY <2>1, <2>2, <2>3 DEF Next
<1>3. OneWorkflow => OneWorkflow'
  BY DEF OneWorkflow
<1>4. StopsInv /\ [Next]_vars =>
        (stop /\ toCancel = <<>> => \A t \in Thread : pc'[t] = "begin" => pc[t] = "begin")
  BY NoneBegins
<1> QED
  BY <1>1, <1>2, <1>3, <1>4, WorkflowInvariant, PTL DEF Spec, CancelStopsWork, StopsInv
=============================================================================
