------------------------------- MODULE Planner -------------------------------
(***************************************************************************)
(* planner/planner: a plan is the task graph read from an answer of the    *)
(* model.  One answer makes a plan (chain of thought), the best of three   *)
(* does (tree of thought), or a second answer to a critique of the first   *)
(* replaces it (reflection).  The mutex is held from the first call of the *)
(* model to the plan, and while a plan is executed.                        *)
(***************************************************************************)
EXTENDS TaskGraph, Naturals, Sequences, SequencesExt

CONSTANTS
    Chain,          \* ids of the fallback plan, in order
    MaxNodes,       \* bound: nodes of an answer
    MaxDeps,        \* bound: dependencies of each
    MaxPlans        \* bound: plans made, and plans executed

VARIABLES
    planning,       \* "no", the strategy under way, or "execute"
    answers,        \* answers of the model so far
    kept,           \* the plan kept of them: [graph, score]
    sawGood,        \* history: one of them could be executed
    plan,           \* the plan returned last: [graph, strategy]
    planStats       \* stats_

plannerVars == <<planning, answers, kept, sawGood, plan, planStats>>

NoPlan == [graph |-> EmptyGraph, score |-> 0]

plannerInit ==
    /\ planning = "no" /\ answers = 0 /\ sawGood = FALSE
    /\ kept = NoPlan
    /\ plan = [graph |-> EmptyGraph, strategy |-> "none"]
    /\ planStats = [total |-> 0, cot |-> 0, tot |-> 0, reflection |-> 0,
                    executed |-> 0, successful |-> 0]

----------------------------------------------------------------------------
(* From an answer to a graph                                               *)

PlanNode(deps) == [dependencies |-> deps, dependents |-> {}, state |-> "Pending"]

\* addNode leaves the graph alone when the id is taken.
AddTo(g, id, deps) == IF id \in DOMAIN g THEN g ELSE Insert(g, id, PlanNode(deps))

Items(items) == FoldLeft(LAMBDA g, item : AddTo(g, item.id, item.deps), EmptyGraph, items)

\* What an exception falls back on is added to the nodes read before it.
Fallback(g) ==
    FoldLeft(LAMBDA acc, i : AddTo(acc, Chain[i], IF i = 1 THEN {} ELSE {Chain[i - 1]}),
             g, [i \in DOMAIN Chain |-> i])

\* parsePlanJsonToGraph of an answer whose nodes are items, the next of which
\* is broken or not.  An answer that is no JSON has none and is broken; the
\* answer callModel makes up when the model fails is a chain of its own ids.
ParsePlan(items, broken) == IF broken THEN Fallback(Items(items)) ELSE Items(items)

\* The colours of a depth-first search find a cycle when there is one:
\* TaskGraphAlgorithms!HasCycle.  Here only the answer matters.
PlanIsCyclic(g) ==
    LET succ == Successors(g)
    IN  \E S \in SUBSET DOMAIN g : S # {} /\ \A x \in S : succ[x] \cap S # {}

\* Mutant: cycles are not looked for.
ScoreAnyGraph(g, roles) ==
    IF g = EmptyGraph THEN 0
    ELSE 70 + (IF "Researcher" \in roles THEN 15 ELSE 0) + (IF "Tester" \in roles THEN 15 ELSE 0)

\* evaluateBranchViability, with the agent types that the nodes name.
EvaluateBranchViability(g, roles) ==
    IF g = EmptyGraph \/ PlanIsCyclic(g) THEN 0
    ELSE 70 + (IF "Researcher" \in roles THEN 15 ELSE 0) + (IF "Tester" \in roles THEN 15 ELSE 0)

Executable(g) == g # EmptyGraph /\ ~PlanIsCyclic(g)

\* max_element keeps the first of the best; a reflection keeps the draft when
\* the refined plan is empty.
Keeps(strategy, old, new) ==
    \/ strategy = "tot" /\ new.score <= old.score
    \/ strategy = "reflection" /\ new.graph = EmptyGraph

----------------------------------------------------------------------------
(* createPlan, executePlan                                                 *)

PlanAnswers ==
    UNION {[1..n -> [id : Id, deps : {D \in SUBSET Id : Cardinality(D) <= MaxDeps}]] : n \in 0..MaxNodes}
Calls == [cot |-> 1, tot |-> 3, reflection |-> 2]

CreatePlan(strategy) ==
    /\ planning = "no" /\ planStats.total < MaxPlans
    /\ planning' = strategy /\ answers' = 0 /\ sawGood' = FALSE
    /\ planStats' = [planStats EXCEPT !.total = @ + 1, ![strategy] = @ + 1]
    /\ UNCHANGED <<kept, plan>>

\* One answer of the model.
Answer(items, broken, roles) ==
    /\ planning \in DOMAIN Calls /\ answers < Calls[planning]
    /\ LET g == ParsePlan(items, broken)
           seen == IF broken THEN {"Researcher", "Tester"} ELSE roles
           new == [graph |-> g, score |-> EvaluateBranchViability(g, seen)]
       IN  /\ kept' = (IF answers > 0 /\ Keeps(planning, kept, new) THEN kept ELSE new)
           /\ sawGood' = (sawGood \/ Executable(g))
    /\ answers' = answers + 1
    /\ UNCHANGED <<planning, plan, planStats>>

ReturnPlan ==
    /\ planning \in DOMAIN Calls /\ answers = Calls[planning]
    /\ plan' = [graph |-> kept.graph, strategy |-> planning]
    /\ planning' = "no" /\ kept' = NoPlan
    /\ UNCHANGED <<answers, sawGood, planStats>>

\* executePlan: what the executor does is TaskGraphExecutor.  It refuses a
\* graph with a cycle, and may end without success.
ExecutePlan ==
    /\ planning = "no" /\ planStats.executed < MaxPlans
    /\ plan.strategy # "none"
    /\ planning' = "execute"
    /\ planStats' = [planStats EXCEPT !.executed = @ + 1]
    /\ UNCHANGED <<answers, kept, sawGood, plan>>

EndExecution(success) ==
    /\ planning = "execute" /\ (success => ~PlanIsCyclic(plan.graph))
    /\ planning' = "no"
    /\ planStats' = [planStats EXCEPT !.successful = @ + (IF success THEN 1 ELSE 0)]
    /\ UNCHANGED <<answers, kept, sawGood, plan>>

plannerNext ==
    \/ \E s \in DOMAIN Calls : CreatePlan(s)
    \/ \E items \in PlanAnswers, broken \in BOOLEAN, roles \in SUBSET {"Researcher", "Tester"} :
         Answer(items, broken, roles)
    \/ ReturnPlan \/ ExecutePlan
    \/ \E success \in BOOLEAN : EndExecution(success)

plannerSpec == plannerInit /\ [][plannerNext]_plannerVars

----------------------------------------------------------------------------
\* The tree of thought gives back a plan that can be executed whenever one of
\* its three answers held one, broken answers, repeated ids, self-references
\* and cycles among them notwithstanding.  (The other strategies return what
\* the last answer holds, a cycle included.)
GoodBranchIsTaken ==
    planning = "no" /\ plan.strategy = "tot" /\ answers = Calls.tot =>
        (sawGood => Executable(plan.graph))
=============================================================================
