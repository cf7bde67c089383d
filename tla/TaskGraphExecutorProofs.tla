----------------------- MODULE TaskGraphExecutorProofs -----------------------
(***************************************************************************)
(* Machine-checked proofs about TaskGraphExecutor.                         *)
(***************************************************************************)
EXTENDS TaskGraphExecutor, FiniteSetTheorems, WellFoundedInduction, TLAPS

----------------------------------------------------------------------------
(* Sequences that hold no element twice                                    *)

LEMMA EmptySeqFacts ==
    /\ Range(<<>>) = {}
    /\ IsInjective(<<>>)
BY DEF Range, IsInjective

LEMMA SingletonFacts ==
    ASSUME NEW S, NEW x \in S
    PROVE  /\ <<x>> \in Seq(S)
           /\ <<x>> # <<>>
           /\ <<x>>[1] = x
           /\ Range(<<x>>) = {x}
           /\ IsInjective(<<x>>)
BY DEF Range, IsInjective

LEMMA ElementsInSet ==
    ASSUME NEW S, NEW q \in Seq(S)
    PROVE  Range(q) \subseteq S
BY DEF Range

LEMMA TailFacts ==
    ASSUME NEW S, NEW q \in Seq(S), q # <<>>, IsInjective(q)
    PROVE  /\ Head(q) \in S
           /\ Head(q) \in Range(q)
           /\ Tail(q) \in Seq(S)
           /\ Range(Tail(q)) = Range(q) \ {Head(q)}
           /\ IsInjective(Tail(q))
<1>1. /\ Len(q) \in Nat \ {0}
      /\ DOMAIN q = 1..Len(q)
      /\ Head(q) = q[1]
      /\ Tail(q) \in Seq(S)
      /\ Len(Tail(q)) = Len(q) - 1
      /\ \A i \in 1..Len(q)-1 : Tail(q)[i] = q[i+1]
  OBVIOUS
<1>2. Head(q) \in S /\ Head(q) \in Range(q)
  BY <1>1 DEF Range
<1>3. DOMAIN Tail(q) = 1..Len(q)-1
  BY <1>1
<1>4. IsInjective(Tail(q))
  BY <1>1, <1>3 DEF IsInjective
<1>5. ASSUME NEW x \in Range(Tail(q))
      PROVE  x \in Range(q) \ {Head(q)}
  BY <1>1, <1>3, <1>5 DEF Range, IsInjective
<1>6. ASSUME NEW x \in Range(q) \ {Head(q)}
      PROVE  x \in Range(Tail(q))
  <2>1. PICK i \in 1..Len(q) : q[i] = x
    BY <1>1 DEF Range
  <2>2. i # 1
    BY <2>1, <1>1
  <2>3. i-1 \in 1..Len(q)-1 /\ Tail(q)[i-1] = x
    BY <2>1, <2>2, <1>1
  <2> QED
    BY <2>3, <1>3 DEF Range
<1> QED
  BY <1>1, <1>2, <1>4, <1>5, <1>6

LEMMA ConcatFacts ==
    ASSUME NEW S, NEW q \in Seq(S), NEW r \in Seq(S),
           IsInjective(q), IsInjective(r), Range(q) \cap Range(r) = {}
    PROVE  /\ q \o r \in Seq(S)
           /\ Range(q \o r) = Range(q) \cup Range(r)
           /\ IsInjective(q \o r)
<1> DEFINE c == q \o r
<1>1. /\ c \in Seq(S)
      /\ Len(q) \in Nat /\ Len(r) \in Nat
      /\ Len(c) = Len(q) + Len(r)
      /\ DOMAIN c = 1..Len(q) + Len(r)
      /\ DOMAIN q = 1..Len(q) /\ DOMAIN r = 1..Len(r)
  OBVIOUS
<1>2. \A i \in 1..Len(q) : c[i] = q[i]
  OBVIOUS
<1>3. \A i \in 1..Len(r) : c[Len(q) + i] = r[i]
  OBVIOUS
<1>4. \A i \in DOMAIN c : \/ i \in DOMAIN q /\ c[i] = q[i]
                          \/ i - Len(q) \in DOMAIN r /\ c[i] = r[i - Len(q)]
  <2> TAKE i \in DOMAIN c
  <2>1. CASE i <= Len(q)
    BY <2>1, <1>1, <1>2
  <2>2. CASE i > Len(q)
    <3>1. i - Len(q) \in 1..Len(r) /\ Len(q) + (i - Len(q)) = i
      BY <2>2, <1>1
    <3> HIDE DEF c
    <3> QED
      BY <3>1, <1>1, <1>3
  <2> QED
    BY <2>1, <2>2, <1>1
<1> HIDE DEF c
<1>5. \A i \in DOMAIN q : c[i] \in Range(q)
  BY <1>1, <1>2 DEF Range
<1>6. Range(c) \subseteq Range(q) \cup Range(r)
  BY <1>4 DEF Range
<1>7. Range(q) \subseteq Range(c)
  BY <1>1, <1>2 DEF Range
<1>8. Range(r) \subseteq Range(c)
  <2> SUFFICES ASSUME NEW i \in 1..Len(r) PROVE r[i] \in Range(c)
    BY <1>1 DEF Range
  <2>1. Len(q) + i \in DOMAIN c
    BY <1>1
  <2> QED
    BY <2>1, <1>3 DEF Range
<1>9. IsInjective(c)
  <2> SUFFICES ASSUME NEW i \in DOMAIN c, NEW j \in DOMAIN c, c[i] = c[j]
               PROVE  i = j
    BY DEF IsInjective
  <2>1. CASE i \in DOMAIN q /\ j \in DOMAIN q
    BY <2>1, <1>1, <1>2 DEF IsInjective
  <2>2. CASE i \notin DOMAIN q /\ j \notin DOMAIN q
    BY <2>2, <1>1, <1>4 DEF IsInjective
  <2>3. CASE i \in DOMAIN q /\ j \notin DOMAIN q
    BY <2>3, <1>1, <1>2, <1>4 DEF Range
  <2>4. CASE i \notin DOMAIN q /\ j \in DOMAIN q
    BY <2>4, <1>1, <1>2, <1>4 DEF Range
  <2> QED
    BY <2>1, <2>2, <2>3, <2>4
<1> QED
  BY <1>1, <1>6, <1>7, <1>8, <1>9 DEF c

LEMMA AppendFacts ==
    ASSUME NEW S, NEW q \in Seq(S), NEW x \in S, IsInjective(q), x \notin Range(q)
    PROVE  /\ Append(q, x) \in Seq(S)
           /\ Range(Append(q, x)) = Range(q) \cup {x}
           /\ IsInjective(Append(q, x))
<1>1. Append(q, x) = q \o <<x>>
  OBVIOUS
<1>2. <<x>> \in Seq(S) /\ Range(<<x>>) = {x} /\ IsInjective(<<x>>)
  BY SingletonFacts
<1>3. Range(q) \cap Range(<<x>>) = {}
  BY <1>2
<1>4. /\ q \o <<x>> \in Seq(S)
      /\ Range(q \o <<x>>) = Range(q) \cup Range(<<x>>)
      /\ IsInjective(q \o <<x>>)
  BY <1>2, <1>3, ConcatFacts
<1> QED
  BY <1>1, <1>2, <1>4

----------------------------------------------------------------------------
(* Consequences of the invariant                                           *)

LEMMA PredsFinite ==
    ASSUME NEW n \in Node
    PROVE  /\ Preds(n) \subseteq Node
           /\ IsFiniteSet(Preds(n))
           /\ IsFiniteSet(Uncounted(n))
<1>1. Preds(n) \subseteq Node /\ Uncounted(n) \subseteq Node
  BY DEF Preds, Uncounted
<1> QED
  BY <1>1, NodeAssumption, FS_Subset

\* A ready, running, completed or failed node has no uncounted predecessor,
\* so all its predecessors have completed.
LEMMA ReadyImpliesOrder == ReadyInv' => DependencyOrder'
BY DEF ReadyInv, DependencyOrder, Uncounted

\* A doomed node is neither ready, nor running, completed or failed.
LEMMA DoomedNotReady ==
    ASSUME ReadyInv, TypeOK, NEW s \in Node, Doomed(s)
    PROVE  state[s] \in {"Pending", "Skipped"}
BY DEF ReadyInv, Doomed, Uncounted, TypeOK, NodeTypeOK, NodeState

\* Worker steps happen only inside execute().
LEMMA WorkImpliesRunning ==
    ASSUME IInv, NEW w \in Worker, pc[w] # "off"
    PROVE  phase = "running" /\ ExecutionInv /\ DispatchedOnce
BY DEF IInv, IdleInv, TypeOK, CallerTypeOK

----------------------------------------------------------------------------
(* Preservation: the caller of execute()                                   *)

LEMMA InitIInv == Init => IInv
<1> SUFFICES ASSUME Init PROVE IInv
  OBVIOUS
<1>1. TypeOK
  <2>1. CallerTypeOK
    BY DEF Init, CallerTypeOK
  <2>2. NodeTypeOK
    BY DEF Init, NodeTypeOK, NoCounters, NodeState
  <2>3. WorkerTypeOK
    BY DEF Init, WorkerTypeOK, NodeState, Decided, WorkerPc
  <2> QED
    BY <2>1, <2>2, <2>3 DEF TypeOK
<1>2. DependencyOrder /\ DispatchedOnce /\ IdleInv /\ phase = "idle"
  BY DEF Init, DependencyOrder, DispatchedOnce, IdleInv
<1> QED
  BY <1>1, <1>2 DEF IInv

LEMMA CardinalityOfUncounted ==
    ASSUME NEW n \in Node
    PROVE  Cardinality(Preds(n)) \in Nat
BY PredsFinite, FS_CardinalityType

LEMMA ExecuteStep == IInv /\ Execute => IInv'
<1> SUFFICES ASSUME IInv, Execute PROVE IInv'
  OBVIOUS
<1>1. TypeOK /\ IdleInv /\ phase = "idle" /\ phase' = "running"
  BY DEF IInv, Execute
<1>2. /\ Sources \subseteq Node
      /\ IsFiniteSet(Sources)
      /\ Cardinality(Sources) \in Nat
  BY NodeAssumption, FS_Subset, FS_CardinalityType DEF Sources
<1>3. /\ ready_queue' \in Seq(Node)
      /\ IsInjective(ready_queue')
      /\ Range(ready_queue') = Sources
  <2>1. /\ ready_queue' \in [1..Cardinality(Sources) -> Sources]
        /\ IsInjective(ready_queue')
        /\ \A t \in Sources : \E i \in 1..Cardinality(Sources) : ready_queue'[i] = t
    BY DEF Execute, QueueOrders, Bijection, Injection, Surjection
  <2>2. ready_queue' \in Seq(Node)
    BY <2>1, <1>2
  <2>3. Range(ready_queue') = Sources
    BY <2>1 DEF Range
  <2> QED
    BY <2>1, <2>2, <2>3
<1>4. \A n \in Node : Preds(n)' = Preds(n) /\ Cardinality(Preds(n)) \in Nat
  BY CardinalityOfUncounted DEF Execute, config, Preds
<1>5. TypeOK'
  <2>1. counters' \in [completed : Nat, failed : Nat, skipped : Nat]
    BY DEF Execute, FreshCounters, NoCounters
  <2>2. remaining' \in [Node -> Nat]
    BY <1>4 DEF Execute, InDegree
  <2>3. state' \in [Node -> NodeState] /\ pc' \in [Worker -> WorkerPc]
    BY DEF Execute, NodeState, WorkerPc
  <2>4. CallerTypeOK'
    <3>1. /\ UNCHANGED <<adj, rollback, summary, canceller>>
          /\ executions' = executions + 1
          /\ cancelled' = FALSE
      BY DEF Execute, config
    <3>2. executions' \in Nat
      BY <3>1, <1>1 DEF TypeOK, CallerTypeOK
    <3> QED
      BY <3>1, <3>2, <1>1, Zenon DEF TypeOK, CallerTypeOK
  <2>5. NodeTypeOK'
    BY <1>1, <1>3, <2>1, <2>2, <2>3 DEF TypeOK, NodeTypeOK, Execute
  <2>6. WorkerTypeOK'
    BY <1>1, <2>3 DEF TypeOK, WorkerTypeOK, Execute, locals
  <2> QED
    BY <2>4, <2>5, <2>6 DEF TypeOK
<1>6. \A n \in Node : Uncounted(n)' = Preds(n)
  <2>1. \A p \in Node : state'[p] # "Completed"
    BY DEF Execute
  <2> QED
    BY <1>4, <2>1 DEF Uncounted, Preds
<1>7. CounterInv'
  BY <1>6 DEF CounterInv, Execute, InDegree
<1>8. ReadyInv'
  BY <1>6 DEF ReadyInv, Execute, Sources
<1>9. QueueInv'
  BY <1>3, <1>2 DEF QueueInv, Queued, Execute
<1>10. ActiveInv'
  <2>1. {w \in Worker : Working(w)}' = {}
    BY <1>1 DEF Execute, Working, TypeOK
  <2> QED
    BY <2>1, FS_EmptySet DEF ActiveInv, Execute
<1>11. (\A w \in Worker : WorkerInv(w))' /\ ResolversDiffer'
  BY <1>1 DEF Execute, WorkerInv, ResolversDiffer, IdleInv, locals
<1>12. DispatchedOnce'
  BY <1>3 DEF DispatchedOnce, Execute, Holding
<1> QED
  BY <1>1, <1>5, <1>7, <1>8, <1>9, <1>10, <1>11, <1>12, ReadyImpliesOrder
     DEF IInv, ExecutionInv

LEMMA ExecuteRefusedStep == IInv /\ ExecuteRefused => IInv'
<1> SUFFICES ASSUME IInv, ExecuteRefused PROVE IInv'
  OBVIOUS
<1>1. /\ UNCHANGED <<adj, rollback, phase, state, remaining, retry_count, counters,
                     ready_queue, active_workers, canceller, pc, cur, left, batch, seen>>
      /\ executions' = executions + 1
      /\ cancelled' = FALSE
      /\ summary' \in [success : BOOLEAN, completed : Nat, failed : Nat, skipped : Nat]
      /\ phase = "idle"
  BY DEF ExecuteRefused, config, nodes, locals
<1>2. CallerTypeOK'
  <2>1. executions' \in Nat
    BY <1>1 DEF IInv, TypeOK, CallerTypeOK
  <2> QED
    BY <1>1, <2>1, Zenon DEF IInv, TypeOK, CallerTypeOK
<1>3. NodeTypeOK' /\ WorkerTypeOK'
  BY <1>1 DEF IInv, TypeOK, NodeTypeOK, WorkerTypeOK
<1>4. DependencyOrder' /\ DispatchedOnce' /\ IdleInv'
  BY <1>1 DEF IInv, DependencyOrder, Preds, DispatchedOnce, IdleInv
<1> QED
  BY <1>1, <1>2, <1>3, <1>4 DEF IInv, TypeOK

LEMMA JoinStep == IInv /\ Join => IInv'
<1> SUFFICES ASSUME IInv, Join PROVE IInv'
  OBVIOUS
<1>1. /\ UNCHANGED <<adj, rollback, executions, state, remaining, retry_count, counters,
                     ready_queue, active_workers, cancelled, canceller, cur, left,
                     batch, seen>>
      /\ phase = "running"
      /\ phase' = "idle"
      /\ pc' = [w \in Worker |-> "off"]
      /\ \A w \in Worker : pc[w] = "exited"
  BY DEF Join, config, nodes, locals
<1>2. CallerTypeOK'
  <2>1. Success \in BOOLEAN
    BY DEF Success
  <2>2. /\ counters.completed \in Nat
        /\ counters.failed \in Nat
        /\ counters.skipped \in Nat
    BY DEF IInv, TypeOK, NodeTypeOK
  <2>3. summary' \in [success : BOOLEAN, completed : Nat, failed : Nat, skipped : Nat]
    BY <2>1, <2>2, Zenon DEF Join
  <2> QED
    BY <1>1, <2>3, Zenon DEF IInv, TypeOK, CallerTypeOK
<1>3. NodeTypeOK' /\ WorkerTypeOK'
  BY <1>1 DEF IInv, TypeOK, NodeTypeOK, WorkerTypeOK, WorkerPc
<1>4. DependencyOrder' /\ DispatchedOnce'
  BY <1>1 DEF IInv, DependencyOrder, Preds, DispatchedOnce
<1>5. IdleInv'
  BY <1>1 DEF IInv, ExecutionInv, WorkerInv, IdleInv
<1> QED
  BY <1>1, <1>2, <1>3, <1>4, <1>5 DEF IInv, TypeOK

LEMMA ResetStep == IInv /\ Reset => IInv'
<1> SUFFICES ASSUME IInv, Reset PROVE IInv'
  OBVIOUS
<1>1. /\ UNCHANGED <<adj, rollback, phase, executions, summary, remaining, counters,
                     ready_queue, active_workers, cancelled, canceller, pc, cur, left,
                     batch, seen>>
      /\ phase = "idle"
      /\ state' = [n \in Node |-> "Pending"]
      /\ retry_count' = [n \in Node |-> 0]
  BY DEF Reset, config, locals
<1>2. CallerTypeOK'
  BY <1>1, Zenon DEF IInv, TypeOK, CallerTypeOK
<1>3. NodeTypeOK' /\ WorkerTypeOK'
  BY <1>1 DEF IInv, TypeOK, NodeTypeOK, WorkerTypeOK, NodeState
<1>4. DependencyOrder' /\ DispatchedOnce' /\ IdleInv'
  BY <1>1 DEF IInv, DependencyOrder, DispatchedOnce, IdleInv
<1> QED
  BY <1>1, <1>2, <1>3, <1>4 DEF IInv, TypeOK

----------------------------------------------------------------------------
(* Preservation: steps that move threads and change nothing else           *)

Quiet == {"loop", "wait", "block", "blocked", "exited"}

LEMMA QuietStep ==
    ASSUME IInv, CallerTypeOK',
           UNCHANGED <<adj, phase, nodes, ready_queue, active_workers, locals>>,
           pc' \in [Worker -> WorkerPc],
           \A v \in Worker : pc'[v] = pc[v] \/ (pc[v] \in Quiet /\ pc'[v] \in Quiet)
    PROVE  IInv'
<1>1. UNCHANGED <<adj, phase, state, remaining, retry_count, counters, ready_queue,
                  active_workers, cur, left, batch, seen>>
  BY DEF nodes, locals
<1>2. TypeOK'
  BY <1>1 DEF IInv, TypeOK, NodeTypeOK, WorkerTypeOK
<1>3. DependencyOrder'
  BY <1>1 DEF IInv, DependencyOrder, Preds
<1>4. CASE phase = "idle"
  <2>1. pc' = pc
    BY <1>4 DEF IInv, IdleInv, Quiet, TypeOK, WorkerTypeOK
  <2> QED
    BY <1>1, <1>2, <1>3, <1>4, <2>1 DEF IInv, IdleInv, DispatchedOnce
<1>5. CASE phase = "running"
  <2>1. \A n \in Node : Uncounted(n)' = Uncounted(n)
    BY <1>1 DEF Uncounted, Preds, Quiet
  <2>2. {v \in Worker : Working(v)}' = {v \in Worker : Working(v)}
    BY <1>1 DEF Working, Quiet
  <2>3. \A v \in Worker : Holding(v)' = Holding(v)
    BY <1>1 DEF Holding, Quiet
  <2>4. CounterInv' /\ ReadyInv' /\ QueueInv' /\ ActiveInv'
    BY <1>1, <1>5, <2>1, <2>2
       DEF IInv, ExecutionInv, CounterInv, ReadyInv, QueueInv, Queued, ActiveInv
  <2>5. ASSUME NEW v \in Worker PROVE WorkerInv(v)'
    <3>1. WorkerInv(v)
      BY <1>5 DEF IInv, ExecutionInv
    <3> QED
      BY <1>1, <2>3, <3>1 DEF WorkerInv, Quiet, Doomed, Preds
  <2>6. ResolversDiffer'
    BY <1>1, <1>5 DEF IInv, ExecutionInv, ResolversDiffer, Quiet
  <2>7. DispatchedOnce'
    BY <1>1, <1>5, <2>3 DEF IInv, DispatchedOnce, Queued
  <2> QED
    BY <1>1, <1>2, <1>3, <1>5, <2>4, <2>5, <2>6, <2>7 DEF IInv, ExecutionInv
<1> QED
  BY <1>4, <1>5 DEF IInv, TypeOK, CallerTypeOK

LEMMA CallerUnchanged == TypeOK /\ UNCHANGED caller => CallerTypeOK'
BY Zenon DEF TypeOK, CallerTypeOK, caller, config

LEMMA NotifyAllFacts ==
    ASSUME WorkerTypeOK
    PROVE  /\ NotifyAll(pc) \in [Worker -> WorkerPc]
           /\ \A v \in Worker : NotifyAll(pc)[v] = pc[v]
                                \/ (pc[v] \in Quiet /\ NotifyAll(pc)[v] \in Quiet)
BY DEF WorkerTypeOK, NotifyAll, WorkerPc, Quiet

LEMMA CancelStep == IInv /\ (CancelStore \/ CancelNotify) => IInv'
<1> SUFFICES ASSUME IInv PROVE CancelStore \/ CancelNotify => IInv'
  OBVIOUS
<1>1. ASSUME CancelStore PROVE IInv'
  <2>1. CallerTypeOK'
    BY <1>1, Zenon DEF IInv, TypeOK, CallerTypeOK, CancelStore, config
  <2>2. /\ UNCHANGED <<adj, phase, nodes, ready_queue, active_workers, locals>>
        /\ pc' = pc
    BY <1>1 DEF CancelStore, config
  <2> QED
    BY <2>1, <2>2, QuietStep DEF IInv, TypeOK, WorkerTypeOK
<1>2. ASSUME CancelNotify PROVE IInv'
  <2>1. CallerTypeOK'
    BY <1>2, Zenon DEF IInv, TypeOK, CallerTypeOK, CancelNotify, config
  <2>2. /\ UNCHANGED <<adj, phase, nodes, ready_queue, active_workers, locals>>
        /\ pc' = NotifyAll(pc)
    BY <1>2 DEF CancelNotify, config
  <2> QED
    BY <2>1, <2>2, QuietStep, NotifyAllFacts DEF IInv, TypeOK
<1> QED
  BY <1>1, <1>2

LEMMA WaitingStep ==
    ASSUME IInv, NEW w \in Worker,
           \/ LoopTest(w) \/ WaitFalse(w) \/ Block(w) \/ SpuriousWake(w) \/ Leave(w)
    PROVE  IInv'
<1>1. UNCHANGED <<caller, nodes, ready_queue, active_workers, locals>>
  BY DEF LoopTest, WaitFalse, Block, SpuriousWake, Leave
<1>2. CallerTypeOK'
  BY <1>1, CallerUnchanged DEF IInv
<1>3. UNCHANGED <<adj, phase>>
  BY <1>1 DEF caller, config
<1>4. WorkerTypeOK
  BY DEF IInv, TypeOK
<1>5. CASE LoopTest(w) \/ WaitFalse(w) \/ Block(w) \/ SpuriousWake(w)
  <2>1. PICK to \in Quiet : pc' = [pc EXCEPT ![w] = to]
    BY <1>5 DEF LoopTest, WaitFalse, Block, SpuriousWake, Goto, Quiet
  <2>2. pc[w] \in Quiet
    BY <1>5 DEF LoopTest, WaitFalse, Block, SpuriousWake, Quiet
  <2>3. /\ pc' \in [Worker -> WorkerPc]
        /\ \A v \in Worker : pc'[v] = pc[v] \/ (pc[v] \in Quiet /\ pc'[v] \in Quiet)
    BY <2>1, <2>2, <1>4 DEF WorkerTypeOK, WorkerPc, Quiet
  <2> QED
    BY <1>1, <1>2, <1>3, <2>3, QuietStep
<1>6. CASE Leave(w)
  <2>1. pc' = [NotifyAll(pc) EXCEPT ![w] = "exited"] /\ pc[w] = "wait"
    BY <1>6 DEF Leave
  <2>2. /\ pc' \in [Worker -> WorkerPc]
        /\ \A v \in Worker : pc'[v] = pc[v] \/ (pc[v] \in Quiet /\ pc'[v] \in Quiet)
    BY <2>1, <1>4, NotifyAllFacts DEF WorkerPc, Quiet
  <2> QED
    BY <1>1, <1>2, <1>3, <2>2, QuietStep
<1> QED
  BY <1>5, <1>6

----------------------------------------------------------------------------
(* What a step of one worker leaves to the others                          *)

LEMMA OtherWorker ==
    ASSUME NEW v \in Worker, WorkerInv(v), adj' = adj,
           pc'[v] = pc[v] \/ (pc[v] \in Quiet /\ pc'[v] \in Quiet),
           cur'[v] = cur[v], left'[v] = left[v], batch'[v] = batch[v],
           \A n \in Holding(v) : state'[n] = state[n],
           \A n \in Node : state[n] = "Completed" => state'[n] = "Completed",
           \A n \in Node : state[n] \in {"Failed", "Skipped"}
                           => state'[n] \in {"Failed", "Skipped"}
    PROVE  /\ WorkerInv(v)'
           /\ Holding(v)' = Holding(v)
           /\ Working(v)' <=> Working(v)
<1>1. Holding(v)' = Holding(v)
  BY DEF Holding, Quiet
<1>2. Working(v)' <=> Working(v)
  BY DEF Working, Quiet
<1>3. ASSUME pc'[v] = pc[v] PROVE WorkerInv(v)'
  <2>1. pc[v] \in {"check", "start", "run"} => state'[cur[v]] = state[cur[v]]
    BY DEF Holding
  <2>2. \A s : (\E p \in Node : s \in adj[p] /\ state[p] \in {"Failed", "Skipped"})
               => (\E p \in Node : s \in adj'[p] /\ state'[p] \in {"Failed", "Skipped"})
    OBVIOUS
  <2>3. pc[v] \in {"skip", "cas"} => (\A s \in left[v] : Doomed(s))'
    BY <2>2 DEF WorkerInv, Doomed, Preds
  <2>4. pc[v] = "cas" => Doomed(batch[v][1])'
    BY <2>2 DEF WorkerInv, Doomed, Preds
  <2>5. pc[v] \in {"resolve", "push"} => (\A n \in Holding(v) : state[n] = "Ready")'
    BY <1>1 DEF WorkerInv
  <2>6. pc[v] \in {"resolve", "push"} => IsInjective(batch[v])'
    BY DEF WorkerInv
  <2>7. pc[v] = "resolve" => state'[cur[v]] = "Completed" /\ left'[v] \subseteq adj'[cur[v]]
    BY DEF WorkerInv
  <2> QED
    BY <1>3, <2>1, <2>3, <2>4, <2>5, <2>6, <2>7 DEF WorkerInv
<1>4. ASSUME pc[v] \in Quiet, pc'[v] \in Quiet PROVE WorkerInv(v)'
  BY <1>4 DEF WorkerInv, Quiet
<1> QED
  BY <1>1, <1>2, <1>3, <1>4

LEMMA SameUncounted ==
    ASSUME adj' = adj,
           \A n \in Node : state'[n] = "Completed" <=> state[n] = "Completed",
           \A v \in Worker : pc'[v] = "resolve" <=> pc[v] = "resolve",
           \A v \in Worker : pc[v] = "resolve" => cur'[v] = cur[v] /\ left'[v] = left[v]
    PROVE  \A n \in Node : Uncounted(n)' = Uncounted(n)
BY DEF Uncounted, Preds

LEMMA SameActive ==
    ASSUME ActiveInv, active_workers' = active_workers,
           \A v \in Worker : Working(v)' <=> Working(v)
    PROVE  ActiveInv'
<1>1. {v \in Worker : Working(v)}' = {v \in Worker : Working(v)}
  OBVIOUS
<1> QED
  BY <1>1 DEF ActiveInv

LEMMA WorkingFinite ==
    /\ IsFiniteSet({v \in Worker : Working(v)})
    /\ Cardinality({v \in Worker : Working(v)}) \in Nat
<1>1. {v \in Worker : Working(v)} \subseteq Worker
  OBVIOUS
<1> QED
  BY <1>1, WorkerAssumption, FS_Subset, FS_CardinalityType

\* The part of a step of w that is the same for every step but Execute: what
\* IInv says before it, and what is left to show after it.
LEMMA RunningFacts ==
    ASSUME IInv, NEW w \in Worker, pc[w] # "off"
    PROVE  /\ phase = "running"
           /\ TypeOK /\ NodeTypeOK /\ WorkerTypeOK
           /\ CounterInv /\ ReadyInv /\ QueueInv /\ ActiveInv
           /\ \A v \in Worker : WorkerInv(v)
           /\ ResolversDiffer
           /\ IsInjective(ready_queue)
           /\ \A v \in Worker : Holding(v) \cap Queued = {}
           /\ \A u, v \in Worker : u # v => Holding(u) \cap Holding(v) = {}
BY WorkImpliesRunning DEF IInv, TypeOK, ExecutionInv, DispatchedOnce

LEMMA Assemble ==
    ASSUME TypeOK', phase' = "running",
           CounterInv', ReadyInv', QueueInv', ActiveInv',
           \A v \in Worker : WorkerInv(v)',
           ResolversDiffer',
           IsInjective(ready_queue)',
           \A v \in Worker : Holding(v)' \cap Queued' = {},
           \A u, v \in Worker : u # v => Holding(u)' \cap Holding(v)' = {}
    PROVE  IInv'
BY ReadyImpliesOrder DEF IInv, ExecutionInv, DispatchedOnce

----------------------------------------------------------------------------
(* Preservation: the queue                                                 *)

LEMMA PopStep ==
    ASSUME IInv, NEW w \in Worker, Pop(w)
    PROVE  IInv'
<1> DEFINE x == Head(ready_queue)
<1>1. /\ pc[w] = "wait"
      /\ UNCHANGED <<adj, phase, state, remaining, retry_count, counters,
                     left, batch, seen>>
      /\ UNCHANGED caller
      /\ ready_queue # <<>>
      /\ ready_queue' = Tail(ready_queue)
      /\ cur' = [cur EXCEPT ![w] = x]
      /\ active_workers' = active_workers + 1
      /\ pc' = [pc EXCEPT ![w] = "check"]
  BY DEF Pop, Goto, caller, config, nodes
<1>2. pc[w] # "off"
  BY <1>1
<1>3. /\ x \in Node
      /\ x \in Queued
      /\ ready_queue' \in Seq(Node)
      /\ Queued' = Queued \ {x}
      /\ IsInjective(ready_queue')
  BY <1>1, <1>2, RunningFacts, TailFacts DEF NodeTypeOK, Queued
<1>4. TypeOK'
  <2>1. NodeTypeOK'
    BY <1>1, <1>2, <1>3, RunningFacts DEF NodeTypeOK
  <2>2. WorkerTypeOK'
    BY <1>1, <1>2, <1>3, RunningFacts DEF WorkerTypeOK, WorkerPc
  <2> QED
    BY <1>1, <1>2, <2>1, <2>2, RunningFacts, CallerUnchanged DEF TypeOK
<1>5. pc' \in [Worker -> WorkerPc] /\ pc \in [Worker -> WorkerPc]
  BY <1>4, <1>2, RunningFacts DEF TypeOK, WorkerTypeOK
<1>6. ASSUME NEW v \in Worker, v # w
      PROVE  WorkerInv(v)' /\ Holding(v)' = Holding(v) /\ (Working(v)' <=> Working(v))
  <2>1. WorkerInv(v) /\ cur \in [Worker -> Node \cup {NoNode}]
    BY <1>2, RunningFacts DEF WorkerTypeOK
  <2> QED
    BY <1>1, <1>5, <1>6, <2>1, OtherWorker
<1>7. WorkerInv(w)' /\ Holding(w)' = {x} /\ Working(w)' /\ ~Working(w)
  <2>1. cur'[w] = x /\ pc'[w] = "check" /\ batch[w] = <<>> /\ state[x] = "Ready"
    BY <1>1, <1>2, <1>3, <1>5, RunningFacts DEF WorkerTypeOK, WorkerInv, QueueInv
  <2> QED
    BY <1>1, <1>3, <2>1 DEF WorkerInv, Holding, Working
<1>8. CounterInv' /\ ReadyInv' /\ QueueInv' /\ ResolversDiffer'
  <2>1. \A v \in Worker : /\ pc'[v] = "resolve" <=> pc[v] = "resolve"
                          /\ pc[v] = "resolve" => cur'[v] = cur[v] /\ left'[v] = left[v]
    BY <1>1, <1>2, <1>5, RunningFacts DEF WorkerTypeOK
  <2>2. \A n \in Node : Uncounted(n)' = Uncounted(n)
    BY <1>1, <2>1, SameUncounted
  <2> QED
    BY <1>1, <1>2, <1>3, <2>1, <2>2, RunningFacts
       DEF CounterInv, ReadyInv, QueueInv, ResolversDiffer
<1>9. ActiveInv'
  <2>1. {v \in Worker : Working(v)}' = {v \in Worker : Working(v)} \cup {w}
    BY <1>6, <1>7
  <2> QED
    BY <1>1, <1>2, <1>7, <2>1, WorkingFinite, RunningFacts, FS_AddElement DEF ActiveInv
<1>10. \A v \in Worker : Holding(v)' \cap Queued' = {}
  BY <1>2, <1>3, <1>6, <1>7, RunningFacts
<1>11. \A u, v \in Worker : u # v => Holding(u)' \cap Holding(v)' = {}
  BY <1>2, <1>3, <1>6, <1>7, RunningFacts
<1>12. \A v \in Worker : WorkerInv(v)'
  BY <1>6, <1>7
<1> QED
  BY <1>1, <1>2, <1>3, <1>4, <1>8, <1>9, <1>10, <1>11, <1>12, RunningFacts, Assemble

LEMMA FinishStep ==
    ASSUME IInv, NEW w \in Worker, Finish(w)
    PROVE  IInv'
<1> DEFINE base == IF LastOut THEN NotifyAll(pc) ELSE pc
<1>1. /\ pc[w] = "finish"
      /\ UNCHANGED <<adj, phase, state, remaining, retry_count, counters,
                     ready_queue, left, batch, seen>>
      /\ UNCHANGED caller
      /\ cur' = [cur EXCEPT ![w] = NoNode]
      /\ active_workers' = active_workers - 1
      /\ pc' = [base EXCEPT ![w] = "loop"]
  BY DEF Finish, caller, config, nodes
<1>2. pc[w] # "off"
  BY <1>1
<1>3. pc \in [Worker -> WorkerPc] /\ cur \in [Worker -> Node \cup {NoNode}]
  BY <1>2, RunningFacts DEF WorkerTypeOK
<1>4. /\ base \in [Worker -> WorkerPc]
      /\ \A v \in Worker : base[v] = pc[v] \/ (pc[v] \in Quiet /\ base[v] \in Quiet)
  BY <1>2, <1>3, RunningFacts, NotifyAllFacts
<1> HIDE DEF base
<1>5. /\ pc' \in [Worker -> WorkerPc]
      /\ pc'[w] = "loop"
      /\ \A v \in Worker : v # w =>
            /\ pc'[v] = pc[v] \/ (pc[v] \in Quiet /\ pc'[v] \in Quiet)
            /\ cur'[v] = cur[v]
  BY <1>1, <1>3, <1>4 DEF WorkerPc
<1>6. ASSUME NEW v \in Worker, v # w
      PROVE  WorkerInv(v)' /\ Holding(v)' = Holding(v) /\ (Working(v)' <=> Working(v))
  <2>1. WorkerInv(v)
    BY <1>2, RunningFacts
  <2> QED
    BY <1>1, <1>5, <1>6, <2>1, OtherWorker
<1>7. WorkerInv(w)' /\ Holding(w)' = {} /\ ~Working(w)' /\ Working(w)
  <2>1. batch[w] = <<>>
    BY <1>1, <1>2, RunningFacts DEF WorkerInv
  <2> QED
    BY <1>1, <1>5, <2>1 DEF WorkerInv, Holding, Working
<1>8. CounterInv' /\ ReadyInv' /\ QueueInv' /\ ResolversDiffer'
  <2>1. \A v \in Worker : /\ pc'[v] = "resolve" <=> pc[v] = "resolve"
                          /\ pc[v] = "resolve" => cur'[v] = cur[v] /\ left'[v] = left[v]
    BY <1>1, <1>5 DEF Quiet
  <2>2. \A n \in Node : Uncounted(n)' = Uncounted(n)
    BY <1>1, <2>1, SameUncounted
  <2> QED
    BY <1>1, <1>2, <2>1, <2>2, RunningFacts
       DEF CounterInv, ReadyInv, QueueInv, Queued, ResolversDiffer
<1>9. ActiveInv' /\ active_workers' \in Nat
  <2>1. {v \in Worker : Working(v)}' = {v \in Worker : Working(v)} \ {w}
    BY <1>6, <1>7
  <2>2. w \in {v \in Worker : Working(v)}
    BY <1>7
  <2>3. /\ Cardinality({v \in Worker : Working(v)} \ {w})
             = Cardinality({v \in Worker : Working(v)}) - 1
        /\ Cardinality({v \in Worker : Working(v)} \ {w}) \in Nat
    BY <2>2, WorkingFinite, FS_RemoveElement, FS_CardinalityType
  <2> QED
    BY <1>1, <1>2, <2>1, <2>3, RunningFacts DEF ActiveInv
<1>10. TypeOK'
  <2>1. NodeTypeOK'
    BY <1>1, <1>2, <1>9, RunningFacts DEF NodeTypeOK
  <2>2. WorkerTypeOK'
    BY <1>1, <1>2, <1>5, RunningFacts DEF WorkerTypeOK
  <2> QED
    BY <1>1, <1>2, <2>1, <2>2, RunningFacts, CallerUnchanged DEF TypeOK
<1>11. /\ IsInjective(ready_queue)'
       /\ \A v \in Worker : Holding(v)' \cap Queued' = {}
       /\ \A u, v \in Worker : u # v => Holding(u)' \cap Holding(v)' = {}
  BY <1>1, <1>2, <1>6, <1>7, RunningFacts DEF Queued
<1>12. \A v \in Worker : WorkerInv(v)'
  BY <1>6, <1>7
<1> QED
  BY <1>1, <1>2, <1>8, <1>9, <1>10, <1>11, <1>12, RunningFacts, Assemble

LEMMA PushStep ==
    ASSUME IInv, NEW w \in Worker, Push(w)
    PROVE  IInv'
<1>1. /\ pc[w] = "push"
      /\ UNCHANGED <<adj, phase, state, remaining, retry_count, counters,
                     active_workers, cur, left, batch, seen>>
      /\ UNCHANGED caller
      /\ ready_queue' = ready_queue \o batch[w]
      /\ pc' = [pc EXCEPT ![w] = "notify"]
  BY DEF Push, Goto, caller, config, nodes, locals
<1>2. pc[w] # "off"
  BY <1>1
<1>3. pc \in [Worker -> WorkerPc] /\ batch[w] \in Seq(Node) /\ ready_queue \in Seq(Node)
  BY <1>2, RunningFacts DEF WorkerTypeOK, NodeTypeOK
<1>4. /\ Holding(w) = Range(batch[w])
      /\ IsInjective(batch[w])
      /\ cur[w] \in Node
  BY <1>1, <1>2, RunningFacts DEF Holding, WorkerInv
<1>5. /\ ready_queue' \in Seq(Node)
      /\ Queued' = Queued \cup Holding(w)
      /\ IsInjective(ready_queue')
  <2>1. Range(ready_queue) \cap Range(batch[w]) = {} /\ IsInjective(ready_queue)
    BY <1>2, <1>4, RunningFacts DEF Queued
  <2> QED
    BY <1>1, <1>3, <1>4, <2>1, ConcatFacts DEF Queued
<1>6. /\ pc' \in [Worker -> WorkerPc]
      /\ pc'[w] = "notify"
      /\ \A v \in Worker : v # w => pc'[v] = pc[v]
  BY <1>1, <1>3 DEF WorkerPc
<1>7. ASSUME NEW v \in Worker, v # w
      PROVE  WorkerInv(v)' /\ Holding(v)' = Holding(v) /\ (Working(v)' <=> Working(v))
  <2>1. WorkerInv(v)
    BY <1>2, RunningFacts
  <2> QED
    BY <1>1, <1>6, <1>7, <2>1, OtherWorker
<1>8. WorkerInv(w)' /\ Holding(w)' = {} /\ Working(w)' /\ Working(w)
  BY <1>1, <1>6 DEF WorkerInv, Holding, Working
<1>9. CounterInv' /\ ReadyInv' /\ QueueInv' /\ ResolversDiffer'
  <2>1. \A v \in Worker : pc'[v] = "resolve" <=> pc[v] = "resolve"
    BY <1>1, <1>6
  <2>2. \A n \in Node : Uncounted(n)' = Uncounted(n)
    BY <1>1, <2>1, SameUncounted
  <2>3. \A n \in Holding(w) : state[n] = "Ready"
    BY <1>1, <1>2, RunningFacts DEF WorkerInv
  <2> QED
    BY <1>1, <1>2, <1>5, <2>1, <2>2, <2>3, RunningFacts
       DEF CounterInv, ReadyInv, QueueInv, ResolversDiffer
<1>10. ActiveInv'
  BY <1>1, <1>2, <1>7, <1>8, RunningFacts, SameActive
<1>11. TypeOK'
  <2>1. NodeTypeOK'
    BY <1>1, <1>2, <1>5, RunningFacts DEF NodeTypeOK
  <2>2. WorkerTypeOK'
    BY <1>1, <1>2, <1>6, RunningFacts DEF WorkerTypeOK
  <2> QED
    BY <1>1, <1>2, <2>1, <2>2, RunningFacts, CallerUnchanged DEF TypeOK
<1>12. /\ IsInjective(ready_queue)'
       /\ \A v \in Worker : Holding(v)' \cap Queued' = {}
       /\ \A u, v \in Worker : u # v => Holding(u)' \cap Holding(v)' = {}
  <2>1. \A v \in Worker : Holding(v)' \cap Queued' = {}
    BY <1>2, <1>5, <1>7, <1>8, RunningFacts
  <2>2. \A u, v \in Worker : u # v => Holding(u)' \cap Holding(v)' = {}
    BY <1>2, <1>7, <1>8, RunningFacts
  <2> QED
    BY <1>5, <2>1, <2>2
<1>13. \A v \in Worker : WorkerInv(v)'
  BY <1>7, <1>8
<1> QED
  BY <1>1, <1>2, <1>9, <1>10, <1>11, <1>12, <1>13, RunningFacts, Assemble

LEMMA NotifyStep ==
    ASSUME IInv, NEW w \in Worker, NotifyOne(w) \/ NotifyMany(w)
    PROVE  IInv'
<1>1. /\ pc[w] = "notify"
      /\ UNCHANGED <<adj, phase, state, remaining, retry_count, counters,
                     ready_queue, active_workers, cur, left, seen>>
      /\ UNCHANGED caller
      /\ batch' = [batch EXCEPT ![w] = <<>>]
  BY DEF NotifyOne, NotifyMany, caller, config, nodes
<1>2. pc[w] # "off"
  BY <1>1
<1>3. pc \in [Worker -> WorkerPc] /\ batch \in [Worker -> Seq(Node)]
  BY <1>2, RunningFacts DEF WorkerTypeOK
<1>4. /\ pc' \in [Worker -> WorkerPc]
      /\ pc'[w] = "finish"
      /\ \A v \in Worker : v # w =>
            pc'[v] = pc[v] \/ (pc[v] \in Quiet /\ pc'[v] \in Quiet)
  <2>1. CASE NotifyOne(w)
    <3>1. CASE \E v \in Worker : /\ pc[v] = "blocked"
                                 /\ pc' = [pc EXCEPT ![v] = "wait", ![w] = "finish"]
      BY <3>1, <1>1, <1>3 DEF WorkerPc, Quiet
    <3>2. CASE pc' = [pc EXCEPT ![w] = "finish"]
      BY <3>2, <1>3 DEF WorkerPc
    <3> QED
      BY <2>1, <3>1, <3>2 DEF NotifyOne, Goto
  <2>2. CASE NotifyMany(w)
    <3>1. pc' = [NotifyAll(pc) EXCEPT ![w] = "finish"]
      BY <2>2 DEF NotifyMany
    <3> QED
      BY <3>1, <1>2, <1>3, RunningFacts, NotifyAllFacts DEF WorkerPc
  <2> QED
    BY <2>1, <2>2
<1>5. ASSUME NEW v \in Worker, v # w
      PROVE  WorkerInv(v)' /\ Holding(v)' = Holding(v) /\ (Working(v)' <=> Working(v))
  <2>1. WorkerInv(v) /\ batch'[v] = batch[v]
    BY <1>1, <1>2, <1>3, <1>5, RunningFacts
  <2> QED
    BY <1>1, <1>4, <1>5, <2>1, OtherWorker
<1>6. WorkerInv(w)' /\ Holding(w)' = {} /\ Holding(w) = {} /\ Working(w)' /\ Working(w)
  <2>1. batch'[w] = <<>>
    BY <1>1, <1>3
  <2> QED
    BY <1>1, <1>4, <2>1 DEF WorkerInv, Holding, Working
<1>7. CounterInv' /\ ReadyInv' /\ QueueInv' /\ ResolversDiffer'
  <2>1. \A v \in Worker : pc'[v] = "resolve" <=> pc[v] = "resolve"
    BY <1>1, <1>4 DEF Quiet
  <2>2. \A n \in Node : Uncounted(n)' = Uncounted(n)
    BY <1>1, <2>1, SameUncounted
  <2> QED
    BY <1>1, <1>2, <2>1, <2>2, RunningFacts
       DEF CounterInv, ReadyInv, QueueInv, Queued, ResolversDiffer
<1>8. ActiveInv'
  BY <1>1, <1>2, <1>5, <1>6, RunningFacts, SameActive
<1>9. TypeOK'
  <2>1. NodeTypeOK'
    BY <1>1, <1>2, RunningFacts DEF NodeTypeOK
  <2>2. WorkerTypeOK'
    BY <1>1, <1>2, <1>4, RunningFacts DEF WorkerTypeOK
  <2> QED
    BY <1>1, <1>2, <2>1, <2>2, RunningFacts, CallerUnchanged DEF TypeOK
<1>10. /\ IsInjective(ready_queue)'
       /\ \A v \in Worker : Holding(v)' \cap Queued' = {}
       /\ \A u, v \in Worker : u # v => Holding(u)' \cap Holding(v)' = {}
  BY <1>1, <1>2, <1>5, <1>6, RunningFacts DEF Queued
<1>11. \A v \in Worker : WorkerInv(v)'
  BY <1>5, <1>6
<1> QED
  BY <1>1, <1>2, <1>7, <1>8, <1>9, <1>10, <1>11, RunningFacts, Assemble

----------------------------------------------------------------------------
(* Preservation: processNode                                               *)

LEMMA CheckStep ==
    ASSUME IInv, NEW w \in Worker, CheckSkipped(w)
    PROVE  IInv'
<1>1. /\ pc[w] = "check"
      /\ UNCHANGED <<adj, phase, state, remaining, retry_count, counters,
                     ready_queue, active_workers, cur, left, batch, seen>>
      /\ UNCHANGED caller
  BY DEF CheckSkipped, caller, config, nodes, locals
<1>2. pc[w] # "off"
  BY <1>1
<1>3. /\ pc \in [Worker -> WorkerPc]
      /\ state[cur[w]] = "Ready"
      /\ cur[w] \in Node
  BY <1>1, <1>2, RunningFacts DEF WorkerTypeOK, WorkerInv
<1>4. /\ pc' \in [Worker -> WorkerPc]
      /\ pc'[w] = "start"
      /\ \A v \in Worker : v # w => pc'[v] = pc[v]
  BY <1>3 DEF CheckSkipped, Goto, WorkerPc
<1>5. ASSUME NEW v \in Worker, v # w
      PROVE  WorkerInv(v)' /\ Holding(v)' = Holding(v) /\ (Working(v)' <=> Working(v))
  <2>1. WorkerInv(v)
    BY <1>2, RunningFacts
  <2> QED
    BY <1>1, <1>4, <1>5, <2>1, OtherWorker
<1>6. WorkerInv(w)' /\ Holding(w)' = Holding(w) /\ Working(w)' /\ Working(w)
  <2>1. batch[w] = <<>>
    BY <1>1, <1>2, RunningFacts DEF WorkerInv
  <2> QED
    BY <1>1, <1>3, <1>4, <2>1 DEF WorkerInv, Holding, Working
<1>7. CounterInv' /\ ReadyInv' /\ QueueInv' /\ ResolversDiffer'
  <2>1. \A v \in Worker : pc'[v] = "resolve" <=> pc[v] = "resolve"
    BY <1>1, <1>4
  <2>2. \A n \in Node : Uncounted(n)' = Uncounted(n)
    BY <1>1, <2>1, SameUncounted
  <2> QED
    BY <1>1, <1>2, <2>1, <2>2, RunningFacts
       DEF CounterInv, ReadyInv, QueueInv, Queued, ResolversDiffer
<1>8. ActiveInv'
  BY <1>1, <1>2, <1>5, <1>6, RunningFacts, SameActive
<1>9. TypeOK'
  <2>1. NodeTypeOK' /\ WorkerTypeOK'
    BY <1>1, <1>2, <1>4, RunningFacts DEF NodeTypeOK, WorkerTypeOK
  <2> QED
    BY <1>1, <1>2, <2>1, RunningFacts, CallerUnchanged DEF TypeOK
<1>10. /\ IsInjective(ready_queue)'
       /\ \A v \in Worker : Holding(v)' \cap Queued' = {}
       /\ \A u, v \in Worker : u # v => Holding(u)' \cap Holding(v)' = {}
  BY <1>1, <1>2, <1>5, <1>6, RunningFacts DEF Queued
<1>11. \A v \in Worker : WorkerInv(v)'
  BY <1>5, <1>6
<1> QED
  BY <1>1, <1>2, <1>7, <1>8, <1>9, <1>10, <1>11, RunningFacts, Assemble

LEMMA StartStep ==
    ASSUME IInv, NEW w \in Worker, Start(w)
    PROVE  IInv'
<1> DEFINE n == cur[w]
<1>1. /\ pc[w] = "start"
      /\ UNCHANGED <<adj, phase, remaining, retry_count, counters,
                     ready_queue, active_workers, cur, left, batch, seen>>
      /\ UNCHANGED caller
      /\ state' = [state EXCEPT ![n] = "Running"]
      /\ pc' = [pc EXCEPT ![w] = "run"]
  BY DEF Start, Goto, caller, config, locals
<1>2. pc[w] # "off"
  BY <1>1
<1>3. /\ pc \in [Worker -> WorkerPc]
      /\ state \in [Node -> NodeState]
      /\ n \in Node
      /\ state[n] = "Ready"
      /\ batch[w] = <<>>
      /\ Holding(w) = {n}
  BY <1>1, <1>2, RunningFacts DEF WorkerTypeOK, NodeTypeOK, WorkerInv, Holding
<1> HIDE DEF n
<1>4. /\ pc' \in [Worker -> WorkerPc]
      /\ pc'[w] = "run"
      /\ \A v \in Worker : v # w => pc'[v] = pc[v]
      /\ state' \in [Node -> NodeState]
      /\ state'[n] = "Running"
      /\ \A m \in Node : m # n => state'[m] = state[m]
  BY <1>1, <1>3 DEF WorkerPc, NodeState
<1>5. ASSUME NEW v \in Worker, v # w
      PROVE  WorkerInv(v)' /\ Holding(v)' = Holding(v) /\ (Working(v)' <=> Working(v))
  <2>1. WorkerInv(v) /\ n \notin Holding(v)
    BY <1>2, <1>3, <1>5, RunningFacts
  <2>2. \A m \in Holding(v) : state'[m] = state[m]
    BY <1>1, <1>3, <2>1
  <2> QED
    BY <1>1, <1>3, <1>4, <1>5, <2>1, <2>2, OtherWorker
<1>6. WorkerInv(w)' /\ Holding(w)' = Holding(w) /\ Working(w)' /\ Working(w)
  BY <1>1, <1>3, <1>4 DEF WorkerInv, Holding, Working, n
<1>7. CounterInv' /\ ReadyInv' /\ QueueInv' /\ ResolversDiffer'
  <2>1. \A v \in Worker : pc'[v] = "resolve" <=> pc[v] = "resolve"
    BY <1>1, <1>4
  <2>2. \A m \in Node : Uncounted(m)' = Uncounted(m)
    BY <1>1, <1>3, <1>4, <2>1, SameUncounted
  <2>3. n \notin Queued /\ Queued' = Queued /\ Queued \subseteq Node
    BY <1>1, <1>2, <1>3, RunningFacts, ElementsInSet DEF Queued, NodeTypeOK
  <2>4. CounterInv' /\ ReadyInv'
    BY <1>1, <1>2, <1>3, <1>4, <2>2, RunningFacts DEF CounterInv, ReadyInv
  <2>5. QueueInv' /\ ResolversDiffer'
    BY <1>1, <1>2, <1>4, <2>1, <2>3, RunningFacts DEF QueueInv, ResolversDiffer
  <2> QED
    BY <2>4, <2>5
<1>8. ActiveInv'
  BY <1>1, <1>2, <1>5, <1>6, RunningFacts, SameActive
<1>9. TypeOK'
  <2>1. NodeTypeOK' /\ WorkerTypeOK'
    BY <1>1, <1>2, <1>4, RunningFacts DEF NodeTypeOK, WorkerTypeOK
  <2> QED
    BY <1>1, <1>2, <2>1, RunningFacts, CallerUnchanged DEF TypeOK
<1>10. /\ IsInjective(ready_queue)'
       /\ \A v \in Worker : Holding(v)' \cap Queued' = {}
       /\ \A u, v \in Worker : u # v => Holding(u)' \cap Holding(v)' = {}
  BY <1>1, <1>2, <1>5, <1>6, RunningFacts DEF Queued
<1>11. \A v \in Worker : WorkerInv(v)'
  BY <1>5, <1>6
<1> QED
  BY <1>1, <1>2, <1>7, <1>8, <1>9, <1>10, <1>11, RunningFacts, Assemble

LEMMA TallyFacts ==
    ASSUME NEW c \in [completed : Nat, failed : Nat, skipped : Nat]
    PROVE  /\ [c EXCEPT !.completed = @ + 1] \in [completed : Nat, failed : Nat, skipped : Nat]
           /\ [c EXCEPT !.failed = @ + 1] \in [completed : Nat, failed : Nat, skipped : Nat]
           /\ [c EXCEPT !.skipped = @ + 1] \in [completed : Nat, failed : Nat, skipped : Nat]
OBVIOUS

LEMMA SucceedStep ==
    ASSUME IInv, NEW w \in Worker, HandlerSucceeds(w)
    PROVE  IInv'
<1> DEFINE n == cur[w]
<1>1. /\ pc[w] = "run"
      /\ UNCHANGED <<adj, phase, remaining, retry_count,
                     ready_queue, active_workers, cur, batch, seen>>
      /\ UNCHANGED caller
      /\ counters' = [counters EXCEPT !.completed = @ + 1]
      /\ state' = [state EXCEPT ![n] = "Completed"]
      /\ left' = [left EXCEPT ![w] = adj[n]]
      /\ pc' = [pc EXCEPT ![w] = IF adj[n] = {} THEN "finish" ELSE "resolve"]
  BY DEF HandlerSucceeds, Goto, caller, config
<1>2. pc[w] # "off"
  BY <1>1
<1>3. /\ pc \in [Worker -> WorkerPc]
      /\ left \in [Worker -> SUBSET Node]
      /\ state \in [Node -> NodeState]
      /\ n \in Node
      /\ state[n] = "Running"
      /\ batch[w] = <<>>
      /\ Holding(w) = {n}
      /\ adj[n] \subseteq Node
  <2>1. adj \in [Node -> SUBSET Node]
    BY <1>2, RunningFacts, GraphsAssumption DEF TypeOK, CallerTypeOK
  <2> QED
    BY <1>1, <1>2, <2>1, RunningFacts
       DEF WorkerTypeOK, NodeTypeOK, WorkerInv, Holding
<1>4. /\ pc' \in [Worker -> WorkerPc]
      /\ pc'[w] = IF adj[n] = {} THEN "finish" ELSE "resolve"
      /\ \A v \in Worker : v # w => pc'[v] = pc[v] /\ left'[v] = left[v]
      /\ left'[w] = adj[n]
      /\ left' \in [Worker -> SUBSET Node]
      /\ state' \in [Node -> NodeState]
      /\ state'[n] = "Completed"
      /\ \A m \in Node : m # n => state'[m] = state[m]
  BY <1>1, <1>3 DEF WorkerPc, NodeState
<1>5. ASSUME NEW v \in Worker, v # w
      PROVE  WorkerInv(v)' /\ Holding(v)' = Holding(v) /\ (Working(v)' <=> Working(v))
  <2>1. WorkerInv(v) /\ n \notin Holding(v)
    BY <1>2, <1>3, <1>5, RunningFacts
  <2>2. \A m \in Holding(v) : state'[m] = state[m]
    BY <1>1, <1>3, <2>1
  <2>3. \A m \in Node : state[m] = "Completed" => state'[m] = "Completed"
    BY <1>3, <1>4
  <2>4. \A m \in Node : state[m] \in {"Failed", "Skipped"}
                        => state'[m] \in {"Failed", "Skipped"}
    BY <1>3, <1>4
  <2> HIDE DEF n
  <2> QED
    BY <1>1, <1>4, <1>5, <2>1, <2>2, <2>3, <2>4, OtherWorker
<1>6. WorkerInv(w)' /\ Holding(w)' = {} /\ Working(w)' /\ Working(w)
  <2>1. pc'[w] = "resolve" => Range(batch[w]) = {} /\ IsInjective(batch[w])
    BY <1>3, EmptySeqFacts
  <2>2. Holding(w)' = {}
    BY <1>1, <1>4, <2>1 DEF Holding
  <2> QED
    BY <1>1, <1>3, <1>4, <2>1, <2>2 DEF WorkerInv, Working
<1>7. CounterInv' /\ ReadyInv' /\ QueueInv' /\ ResolversDiffer'
  <2>1. \A m \in Node : Uncounted(m)' = Uncounted(m)
    <3> SUFFICES ASSUME NEW m \in Node, NEW p \in Node, m \in adj[p]
                 PROVE  p \in Uncounted(m)' <=> p \in Uncounted(m)
      BY <1>1 DEF Uncounted, Preds
    <3>1. CASE p = n
      <4>1. pc'[w] = "resolve" /\ cur'[w] = p /\ m \in left'[w]
        BY <1>1, <1>4, <3>1
      <4>2. p \in Uncounted(m)'
        BY <1>1, <4>1 DEF Uncounted, Preds
      <4>3. p \in Uncounted(m)
        BY <1>3, <3>1 DEF Uncounted, Preds
      <4> QED
        BY <4>2, <4>3
    <3>2. CASE p # n
      <4>1. state'[p] = state[p]
        BY <1>4, <3>2
      <4>2. \A v \in Worker : (pc'[v] = "resolve" /\ cur'[v] = p /\ m \in left'[v])
                              <=> (pc[v] = "resolve" /\ cur[v] = p /\ m \in left[v])
        BY <1>1, <1>4, <3>2
      <4> QED
        BY <1>1, <4>1, <4>2 DEF Uncounted, Preds
    <3> QED
      BY <3>1, <3>2
  <2>2. CounterInv'
    BY <1>1, <1>2, <2>1, RunningFacts DEF CounterInv
  <2>3. ReadyInv'
    BY <1>1, <1>2, <1>3, <1>4, <2>1, RunningFacts DEF ReadyInv
  <2>4. n \notin Queued /\ Queued' = Queued /\ Queued \subseteq Node
    BY <1>1, <1>2, <1>3, RunningFacts, ElementsInSet DEF Queued, NodeTypeOK
  <2>5. QueueInv'
    BY <1>2, <1>4, <2>4, RunningFacts DEF QueueInv
  <2>6. \A v \in Worker : pc[v] = "resolve" => cur[v] # n
    BY <1>2, <1>3, RunningFacts DEF WorkerInv
  <2>7. ResolversDiffer'
    BY <1>1, <1>2, <1>4, <2>6, RunningFacts DEF ResolversDiffer
  <2> QED
    BY <2>2, <2>3, <2>5, <2>7
<1>8. ActiveInv'
  BY <1>1, <1>2, <1>5, <1>6, RunningFacts, SameActive
<1>9. TypeOK'
  <2>1. counters' \in [completed : Nat, failed : Nat, skipped : Nat]
    BY <1>1, <1>2, RunningFacts, TallyFacts DEF NodeTypeOK
  <2>2. NodeTypeOK' /\ WorkerTypeOK'
    BY <1>1, <1>2, <1>4, <2>1, RunningFacts DEF NodeTypeOK, WorkerTypeOK
  <2> QED
    BY <1>1, <1>2, <2>2, RunningFacts, CallerUnchanged DEF TypeOK
<1>10. /\ IsInjective(ready_queue)'
       /\ \A v \in Worker : Holding(v)' \cap Queued' = {}
       /\ \A u, v \in Worker : u # v => Holding(u)' \cap Holding(v)' = {}
  BY <1>1, <1>2, <1>5, <1>6, RunningFacts DEF Queued
<1>11. \A v \in Worker : WorkerInv(v)'
  BY <1>5, <1>6
<1> QED
  BY <1>1, <1>2, <1>7, <1>8, <1>9, <1>10, <1>11, RunningFacts, Assemble

LEMMA HeldNodes ==
    ASSUME TypeOK, NEW v \in Worker, WorkerInv(v)
    PROVE  \A n \in Holding(v) : n \in Node /\ state[n] \in {"Ready", "Running"}
<1>1. pc[v] \in {"resolve", "push"} => Range(batch[v]) \subseteq Node
  BY ElementsInSet DEF TypeOK, WorkerTypeOK
<1> QED
  BY <1>1 DEF Holding, WorkerInv

LEMMA ResolveStep ==
    ASSUME IInv, NEW w \in Worker, Resolve(w)
    PROVE  IInv'
<1> DEFINE p == cur[w]
<1>1. PICK s \in left[w] :
        LET ready == BecomesReady(s)
            todo == left[w] \ {s}
            news == IF ready THEN Append(batch[w], s) ELSE batch[w]
        IN  /\ remaining' = [remaining EXCEPT ![s] = @ - 1]
            /\ state' = IF ready THEN [state EXCEPT ![s] = "Ready"] ELSE state
            /\ left' = [left EXCEPT ![w] = todo]
            /\ batch' = [batch EXCEPT ![w] = news]
            /\ Goto(w, IF todo # {} THEN "resolve"
                       ELSE IF news = <<>> THEN "finish" ELSE "push")
  BY DEF Resolve
<1> DEFINE news == IF BecomesReady(s) THEN Append(batch[w], s) ELSE batch[w]
           dest == IF left[w] \ {s} # {} THEN "resolve"
                   ELSE IF news = <<>> THEN "finish" ELSE "push"
<1>2. /\ pc[w] = "resolve"
      /\ UNCHANGED <<adj, phase, retry_count, counters,
                     ready_queue, active_workers, cur, seen>>
      /\ UNCHANGED caller
  BY DEF Resolve, caller, config
<1>3. pc[w] # "off"
  BY <1>2
<1>4. /\ pc \in [Worker -> WorkerPc]
      /\ cur \in [Worker -> Node \cup {NoNode}]
      /\ left \in [Worker -> SUBSET Node]
      /\ batch \in [Worker -> Seq(Node)]
      /\ state \in [Node -> NodeState]
      /\ remaining \in [Node -> Nat]
  BY <1>3, RunningFacts DEF WorkerTypeOK, NodeTypeOK
<1>5. /\ p \in Node
      /\ s \in Node
      /\ s \in adj[p]
      /\ state[p] = "Completed"
      /\ IsInjective(batch[w])
      /\ Holding(w) = Range(batch[w])
      /\ \A n \in Holding(w) : state[n] = "Ready"
  <2>1. WorkerInv(w)
    BY <1>3, RunningFacts
  <2> QED
    BY <1>1, <1>2, <1>4, <2>1 DEF WorkerInv, Holding
<1>6. p \in Uncounted(s)
  BY <1>1, <1>2, <1>5 DEF Uncounted, Preds
<1>7. /\ Cardinality(Uncounted(s)) \in Nat
      /\ Cardinality(Uncounted(s) \ {p}) \in Nat
      /\ Cardinality(Uncounted(s) \ {p}) = Cardinality(Uncounted(s)) - 1
      /\ remaining[s] = Cardinality(Uncounted(s))
  <2>1. IsFiniteSet(Uncounted(s))
    BY <1>5, PredsFinite
  <2> QED
    BY <1>3, <1>5, <1>6, <2>1, RunningFacts, FS_RemoveElement, FS_CardinalityType
       DEF CounterInv
<1>8. state[s] \in {"Pending", "Skipped"}
  BY <1>3, <1>4, <1>5, <1>6, RunningFacts DEF ReadyInv, NodeState
<1>9. BecomesReady(s) => state[s] = "Pending" /\ Uncounted(s) \ {p} = {}
  <2>1. ASSUME BecomesReady(s) PROVE Cardinality(Uncounted(s) \ {p}) = 0
    BY <1>7, <2>1 DEF BecomesReady
  <2>2. IsFiniteSet(Uncounted(s) \ {p})
    BY <1>5, PredsFinite, FS_Subset
  <2> QED
    BY <2>1, <2>2, FS_EmptySet DEF BecomesReady
<1>10. s \notin Queued /\ \A v \in Worker : s \notin Holding(v)
  <2>1. s \notin Queued
    BY <1>3, <1>8, RunningFacts DEF QueueInv
  <2>2. \A v \in Worker : s \notin Holding(v)
    BY <1>3, <1>8, RunningFacts, HeldNodes
  <2> QED
    BY <2>1, <2>2
<1>11. /\ news \in Seq(Node)
       /\ IsInjective(news)
       /\ Range(news) = IF BecomesReady(s) THEN Holding(w) \cup {s} ELSE Holding(w)
       /\ news = <<>> => Range(news) = {}
  <2>1. batch[w] \in Seq(Node) /\ s \notin Range(batch[w])
    BY <1>4, <1>5, <1>10
  <2>2. /\ Append(batch[w], s) \in Seq(Node)
        /\ IsInjective(Append(batch[w], s))
        /\ Range(Append(batch[w], s)) = Holding(w) \cup {s}
    BY <1>5, <2>1, AppendFacts
  <2>3. news = <<>> => Range(news) = {}
    BY EmptySeqFacts
  <2> QED
    BY <1>5, <2>1, <2>2, <2>3
<1> HIDE DEF news
<1>12. /\ pc' \in [Worker -> WorkerPc]
       /\ pc'[w] = dest
       /\ \A v \in Worker : v # w =>
             pc'[v] = pc[v] /\ left'[v] = left[v] /\ batch'[v] = batch[v]
       /\ left'[w] = left[w] \ {s}
       /\ batch'[w] = news
       /\ left' \in [Worker -> SUBSET Node]
       /\ batch' \in [Worker -> Seq(Node)]
  <2>1. /\ left' = [left EXCEPT ![w] = left[w] \ {s}]
        /\ batch' = [batch EXCEPT ![w] = news]
        /\ pc' = [pc EXCEPT ![w] = dest]
    BY <1>1 DEF Goto, news
  <2>2. dest \in WorkerPc /\ left[w] \ {s} \in SUBSET Node
    BY <1>4 DEF WorkerPc
  <2> HIDE DEF dest
  <2> QED
    BY <1>4, <1>11, <2>1, <2>2
<1>13. /\ state' \in [Node -> NodeState]
       /\ state'[s] = IF BecomesReady(s) THEN "Ready" ELSE state[s]
       /\ \A n \in Node : n # s => state'[n] = state[n]
       /\ remaining'[s] = remaining[s] - 1
       /\ \A n \in Node : n # s => remaining'[n] = remaining[n]
       /\ remaining' \in [Node -> Nat]
  <2>1. state' = IF BecomesReady(s) THEN [state EXCEPT ![s] = "Ready"] ELSE state
    BY <1>1
  <2>2. remaining' = [remaining EXCEPT ![s] = remaining[s] - 1] /\ remaining[s] - 1 \in Nat
    BY <1>1, <1>4, <1>5, <1>7
  <2> QED
    BY <1>4, <1>5, <2>1, <2>2 DEF NodeState
<1>14. Holding(w)' = Range(news)
  <2>1. CASE dest = "finish"
    <3>1. Range(news) = {}
      BY <1>11, <2>1
    <3> QED
      BY <1>12, <2>1, <3>1 DEF Holding
  <2>2. CASE dest # "finish"
    <3>1. pc'[w] \in {"resolve", "push"}
      BY <1>12, <2>2
    <3> HIDE DEF dest
    <3> QED
      BY <1>12, <3>1 DEF Holding
  <2> QED
    BY <2>1, <2>2
<1>15. ASSUME NEW v \in Worker, v # w
       PROVE  WorkerInv(v)' /\ Holding(v)' = Holding(v) /\ (Working(v)' <=> Working(v))
  <2>1. WorkerInv(v) /\ \A n \in Holding(v) : n \in Node /\ n # s
    BY <1>3, <1>10, RunningFacts, HeldNodes
  <2>2. \A n \in Holding(v) : state'[n] = state[n]
    BY <1>13, <2>1
  <2>3. /\ \A n \in Node : state[n] = "Completed" => state'[n] = "Completed"
        /\ \A n \in Node : state[n] \in {"Failed", "Skipped"}
                           => state'[n] \in {"Failed", "Skipped"}
    BY <1>8, <1>9, <1>13
  <2>4. pc'[v] = pc[v] /\ cur'[v] = cur[v] /\ left'[v] = left[v] /\ batch'[v] = batch[v]
    BY <1>2, <1>12, <1>15
  <2> QED
    BY <1>2, <2>1, <2>2, <2>3, <2>4, OtherWorker
<1>16. WorkerInv(w)' /\ Working(w)' /\ Working(w)
  <2>1. WorkerInv(w)
    BY <1>3, RunningFacts
  <2>2. dest = "resolve" => state'[p] = "Completed" /\ left'[w] \subseteq adj'[p]
    BY <1>2, <1>5, <1>8, <1>12, <1>13, <2>1 DEF WorkerInv
  <2>3. \A n \in Range(news) : state'[n] = "Ready"
    BY <1>5, <1>10, <1>11, <1>13, <1>3, RunningFacts, HeldNodes
  <2>4. dest = "finish" => news = <<>>
    OBVIOUS
  <2>5. dest \in {"resolve", "finish", "push"}
    OBVIOUS
  <2> HIDE DEF dest
  <2> QED
    BY <1>2, <1>5, <1>11, <1>12, <1>14, <2>2, <2>3, <2>4, <2>5 DEF WorkerInv, Working
<1>17. /\ Uncounted(s)' = Uncounted(s) \ {p}
       /\ \A t \in Node \ {s} : Uncounted(t)' = Uncounted(t)
  <2>1. \A q \in Node : state'[q] = "Completed" <=> state[q] = "Completed"
    BY <1>8, <1>13
  <2>2. \A v \in Worker : v # w => ~(pc'[v] = "resolve" /\ cur'[v] = p)
    BY <1>2, <1>3, <1>12, RunningFacts DEF ResolversDiffer
  <2>3. \A q \in Node : q # p => \A v \in Worker :
           (pc'[v] = "resolve" /\ cur'[v] = q) <=> (pc[v] = "resolve" /\ cur[v] = q)
    BY <1>2, <1>12
  <2>4. \A t, q \in Node : q # p =>
           ((\E v \in Worker : pc'[v] = "resolve" /\ cur'[v] = q /\ t \in left'[v])
            <=> (\E v \in Worker : pc[v] = "resolve" /\ cur[v] = q /\ t \in left[v]))
    BY <1>2, <1>12, <2>3
  <2>5. \A t \in Node :
           (\E v \in Worker : pc'[v] = "resolve" /\ cur'[v] = p /\ t \in left'[v])
            <=> t \in left[w] \ {s}
    BY <1>2, <1>12, <2>2
  <2>6. \A t \in Node :
           (\E v \in Worker : pc[v] = "resolve" /\ cur[v] = p /\ t \in left[v])
            <=> t \in left[w]
    BY <1>2, <1>3, RunningFacts DEF ResolversDiffer
  <2> HIDE DEF p, dest
  <2> QED
    BY <1>2, <1>5, <1>6, <2>1, <2>4, <2>5, <2>6 DEF Uncounted, Preds
<1>18. CounterInv'
  BY <1>3, <1>5, <1>7, <1>13, <1>17, RunningFacts DEF CounterInv
<1>19. ReadyInv'
  BY <1>3, <1>8, <1>9, <1>13, <1>17, RunningFacts DEF ReadyInv
<1>20. QueueInv'
  BY <1>2, <1>3, <1>10, <1>13, RunningFacts, ElementsInSet DEF QueueInv, Queued, NodeTypeOK
<1>21. ResolversDiffer'
  BY <1>2, <1>3, <1>12, RunningFacts DEF ResolversDiffer
<1>22. ActiveInv'
  BY <1>2, <1>3, <1>15, <1>16, RunningFacts, SameActive
<1>23. TypeOK'
  <2>1. NodeTypeOK'
    BY <1>2, <1>3, <1>13, RunningFacts DEF NodeTypeOK
  <2>2. WorkerTypeOK'
    BY <1>2, <1>3, <1>12, RunningFacts DEF WorkerTypeOK
  <2> QED
    BY <1>2, <1>3, <2>1, <2>2, RunningFacts, CallerUnchanged DEF TypeOK
<1>24. IsInjective(ready_queue)' /\ \A v \in Worker : Holding(v)' \cap Queued' = {}
  <2>1. Queued' = Queued
    BY <1>2 DEF Queued
  <2> QED
    BY <1>2, <1>3, <1>10, <1>11, <1>14, <1>15, <2>1, RunningFacts
<1>25. \A u, v \in Worker : u # v => Holding(u)' \cap Holding(v)' = {}
  BY <1>3, <1>10, <1>11, <1>14, <1>15, RunningFacts
<1>26. \A v \in Worker : WorkerInv(v)'
  BY <1>15, <1>16
<1> QED
  BY <1>2, <1>3, <1>18, <1>19, <1>20, <1>21, <1>22, <1>23, <1>24, <1>25, <1>26,
     RunningFacts, Assemble

LEMMA RetryStep ==
    ASSUME IInv, NEW w \in Worker, HandlerRetries(w)
    PROVE  IInv'
<1> DEFINE n == cur[w]
<1>1. /\ pc[w] = "run"
      /\ UNCHANGED <<adj, phase, remaining, counters,
                     ready_queue, active_workers, cur, left, seen>>
      /\ UNCHANGED caller
      /\ retry_count' = [retry_count EXCEPT ![n] = @ + 1]
      /\ state' = [state EXCEPT ![n] = "Ready"]
      /\ batch' = [batch EXCEPT ![w] = <<n>>]
      /\ pc' = [pc EXCEPT ![w] = "push"]
  BY DEF HandlerRetries, Goto, caller, config
<1>2. pc[w] # "off"
  BY <1>1
<1>3. /\ pc \in [Worker -> WorkerPc]
      /\ batch \in [Worker -> Seq(Node)]
      /\ state \in [Node -> NodeState]
      /\ retry_count \in [Node -> Nat]
      /\ n \in Node
      /\ state[n] = "Running"
      /\ Holding(w) = {n}
  BY <1>1, <1>2, RunningFacts DEF WorkerTypeOK, NodeTypeOK, WorkerInv, Holding
<1>4. <<n>> \in Seq(Node) /\ Range(<<n>>) = {n} /\ IsInjective(<<n>>)
  BY <1>3, SingletonFacts
<1>5. /\ pc' \in [Worker -> WorkerPc]
      /\ pc'[w] = "push"
      /\ \A v \in Worker : v # w => pc'[v] = pc[v] /\ batch'[v] = batch[v]
      /\ batch'[w] = <<n>>
      /\ batch' \in [Worker -> Seq(Node)]
      /\ state' \in [Node -> NodeState]
      /\ state'[n] = "Ready"
      /\ \A m \in Node : m # n => state'[m] = state[m]
      /\ retry_count' \in [Node -> Nat]
  BY <1>1, <1>3, <1>4 DEF WorkerPc, NodeState
<1> HIDE DEF n
<1>6. ASSUME NEW v \in Worker, v # w
      PROVE  WorkerInv(v)' /\ Holding(v)' = Holding(v) /\ (Working(v)' <=> Working(v))
  <2>1. WorkerInv(v) /\ n \notin Holding(v)
    BY <1>2, <1>3, <1>6, RunningFacts
  <2>2. \A m \in Holding(v) : state'[m] = state[m]
    BY <1>1, <1>3, <2>1
  <2>3. /\ \A m \in Node : state[m] = "Completed" => state'[m] = "Completed"
        /\ \A m \in Node : state[m] \in {"Failed", "Skipped"}
                           => state'[m] \in {"Failed", "Skipped"}
    BY <1>3, <1>5
  <2> QED
    BY <1>1, <1>5, <1>6, <2>1, <2>2, <2>3, OtherWorker
<1>7. WorkerInv(w)' /\ Holding(w)' = {n} /\ Working(w)' /\ Working(w)
  <2>1. Holding(w)' = {n}
    BY <1>4, <1>5 DEF Holding
  <2> QED
    BY <1>1, <1>3, <1>4, <1>5, <2>1 DEF WorkerInv, Working, n
<1>8. CounterInv' /\ ReadyInv' /\ QueueInv' /\ ResolversDiffer'
  <2>1. \A v \in Worker : pc'[v] = "resolve" <=> pc[v] = "resolve"
    BY <1>1, <1>5
  <2>2. \A m \in Node : Uncounted(m)' = Uncounted(m)
    BY <1>1, <1>3, <1>5, <2>1, SameUncounted
  <2>3. n \notin Queued /\ Queued' = Queued /\ Queued \subseteq Node
    BY <1>1, <1>2, <1>3, RunningFacts, ElementsInSet DEF Queued, NodeTypeOK
  <2>4. CounterInv' /\ ReadyInv'
    BY <1>1, <1>2, <1>3, <1>5, <2>2, RunningFacts DEF CounterInv, ReadyInv
  <2>5. QueueInv' /\ ResolversDiffer'
    BY <1>1, <1>2, <1>5, <2>1, <2>3, RunningFacts DEF QueueInv, ResolversDiffer
  <2> QED
    BY <2>4, <2>5
<1>9. ActiveInv'
  BY <1>1, <1>2, <1>6, <1>7, RunningFacts, SameActive
<1>10. TypeOK'
  <2>1. NodeTypeOK' /\ WorkerTypeOK'
    BY <1>1, <1>2, <1>5, RunningFacts DEF NodeTypeOK, WorkerTypeOK
  <2> QED
    BY <1>1, <1>2, <2>1, RunningFacts, CallerUnchanged DEF TypeOK
<1>11. /\ IsInjective(ready_queue)'
       /\ \A v \in Worker : Holding(v)' \cap Queued' = {}
       /\ \A u, v \in Worker : u # v => Holding(u)' \cap Holding(v)' = {}
  BY <1>1, <1>2, <1>3, <1>6, <1>7, RunningFacts DEF Queued
<1>12. \A v \in Worker : WorkerInv(v)'
  BY <1>6, <1>7
<1> QED
  BY <1>1, <1>2, <1>8, <1>9, <1>10, <1>11, <1>12, RunningFacts, Assemble

LEMMA FailStep ==
    ASSUME IInv, NEW w \in Worker, HandlerFails(w)
    PROVE  IInv'
<1> DEFINE n == cur[w]
           below == IF rollback THEN adj[n] ELSE {}
           dest == IF rollback /\ adj[n] # {} THEN "skip" ELSE "finish"
<1>1. /\ pc[w] = "run"
      /\ UNCHANGED <<adj, phase, remaining,
                     ready_queue, active_workers, cur, batch, seen>>
      /\ UNCHANGED caller
      /\ retry_count' = [retry_count EXCEPT ![n] = @ + 1]
      /\ counters' = [counters EXCEPT !.failed = @ + 1]
      /\ state' = [state EXCEPT ![n] = "Failed"]
      /\ left' = [left EXCEPT ![w] = below]
      /\ pc' = [pc EXCEPT ![w] = dest]
  BY DEF HandlerFails, Goto, caller, config
<1>2. pc[w] # "off"
  BY <1>1
<1>3. /\ pc \in [Worker -> WorkerPc]
      /\ left \in [Worker -> SUBSET Node]
      /\ state \in [Node -> NodeState]
      /\ retry_count \in [Node -> Nat]
      /\ n \in Node
      /\ state[n] = "Running"
      /\ batch[w] = <<>>
      /\ Holding(w) = {n}
      /\ below \subseteq adj[n]
      /\ adj[n] \subseteq Node
      /\ dest \in {"skip", "finish"}
  <2>1. adj \in [Node -> SUBSET Node]
    BY <1>2, RunningFacts, GraphsAssumption DEF TypeOK, CallerTypeOK
  <2> QED
    BY <1>1, <1>2, <2>1, RunningFacts
       DEF WorkerTypeOK, NodeTypeOK, WorkerInv, Holding
<1> HIDE DEF below, dest
<1>4. /\ pc' \in [Worker -> WorkerPc]
      /\ pc'[w] = dest
      /\ \A v \in Worker : v # w => pc'[v] = pc[v] /\ left'[v] = left[v]
      /\ left'[w] = below
      /\ left' \in [Worker -> SUBSET Node]
      /\ state' \in [Node -> NodeState]
      /\ state'[n] = "Failed"
      /\ \A m \in Node : m # n => state'[m] = state[m]
      /\ retry_count' \in [Node -> Nat]
  BY <1>1, <1>3 DEF WorkerPc, NodeState
<1> HIDE DEF n
<1>5. ASSUME NEW v \in Worker, v # w
      PROVE  WorkerInv(v)' /\ Holding(v)' = Holding(v) /\ (Working(v)' <=> Working(v))
  <2>1. WorkerInv(v) /\ n \notin Holding(v)
    BY <1>2, <1>3, <1>5, RunningFacts
  <2>2. \A m \in Holding(v) : state'[m] = state[m]
    BY <1>1, <1>3, <2>1
  <2>3. /\ \A m \in Node : state[m] = "Completed" => state'[m] = "Completed"
        /\ \A m \in Node : state[m] \in {"Failed", "Skipped"}
                           => state'[m] \in {"Failed", "Skipped"}
    BY <1>3, <1>4
  <2> QED
    BY <1>1, <1>4, <1>5, <2>1, <2>2, <2>3, OtherWorker
<1>6. WorkerInv(w)' /\ Holding(w)' = {} /\ Working(w)' /\ Working(w)
  <2>1. \A s \in left'[w] : Doomed(s)'
    BY <1>1, <1>3, <1>4 DEF Doomed, Preds
  <2> QED
    BY <1>1, <1>3, <1>4, <2>1 DEF WorkerInv, Holding, Working, n
<1>7. CounterInv' /\ ReadyInv' /\ QueueInv' /\ ResolversDiffer'
  <2>1. \A v \in Worker : pc'[v] = "resolve" <=> pc[v] = "resolve"
    BY <1>1, <1>3, <1>4
  <2>2. \A v \in Worker : pc[v] = "resolve" => cur'[v] = cur[v] /\ left'[v] = left[v]
    BY <1>1, <1>4
  <2>3. \A m \in Node : Uncounted(m)' = Uncounted(m)
    BY <1>1, <1>3, <1>4, <2>1, <2>2, SameUncounted
  <2>4. n \notin Queued /\ Queued' = Queued /\ Queued \subseteq Node
    BY <1>1, <1>2, <1>3, RunningFacts, ElementsInSet DEF Queued, NodeTypeOK
  <2>5. CounterInv' /\ ReadyInv'
    BY <1>1, <1>2, <1>3, <1>4, <2>3, RunningFacts DEF CounterInv, ReadyInv
  <2>6. QueueInv' /\ ResolversDiffer'
    BY <1>1, <1>2, <1>4, <2>1, <2>4, RunningFacts DEF QueueInv, ResolversDiffer
  <2> QED
    BY <2>5, <2>6
<1>8. ActiveInv'
  BY <1>1, <1>2, <1>5, <1>6, RunningFacts, SameActive
<1>9. TypeOK'
  <2>1. counters' \in [completed : Nat, failed : Nat, skipped : Nat]
    BY <1>1, <1>2, RunningFacts, TallyFacts DEF NodeTypeOK
  <2>2. NodeTypeOK' /\ WorkerTypeOK'
    BY <1>1, <1>2, <1>4, <2>1, RunningFacts DEF NodeTypeOK, WorkerTypeOK
  <2> QED
    BY <1>1, <1>2, <2>2, RunningFacts, CallerUnchanged DEF TypeOK
<1>10. /\ IsInjective(ready_queue)'
       /\ \A v \in Worker : Holding(v)' \cap Queued' = {}
       /\ \A u, v \in Worker : u # v => Holding(u)' \cap Holding(v)' = {}
  BY <1>1, <1>2, <1>5, <1>6, RunningFacts DEF Queued
<1>11. \A v \in Worker : WorkerInv(v)'
  BY <1>5, <1>6
<1> QED
  BY <1>1, <1>2, <1>7, <1>8, <1>9, <1>10, <1>11, RunningFacts, Assemble

----------------------------------------------------------------------------
(* Preservation: invalidateDownstream                                      *)

LEMMA SkipLoadStep ==
    ASSUME IInv, NEW w \in Worker, SkipLoad(w)
    PROVE  IInv'
<1>1. /\ pc[w] = "skip"
      /\ UNCHANGED <<adj, phase, state, remaining, retry_count, counters,
                     ready_queue, active_workers, cur>>
      /\ UNCHANGED caller
  BY DEF SkipLoad, caller, config, nodes
<1>2. pc[w] # "off"
  BY <1>1
<1>3. /\ pc \in [Worker -> WorkerPc]
      /\ left \in [Worker -> SUBSET Node]
      /\ batch \in [Worker -> Seq(Node)]
      /\ seen \in [Worker -> NodeState \ Decided]
      /\ state \in [Node -> NodeState]
      /\ cur[w] \in Node
      /\ batch[w] = <<>>
      /\ \A s \in left[w] : Doomed(s)
  BY <1>1, <1>2, RunningFacts DEF WorkerTypeOK, NodeTypeOK, WorkerInv
<1>4. PICK s \in left[w] :
         /\ left' = [left EXCEPT ![w] = @ \ {s}]
         /\ \/ /\ pc' = [pc EXCEPT ![w] = IF left[w] = {s} THEN "finish" ELSE "skip"]
               /\ UNCHANGED <<batch, seen>>
            \/ /\ state[s] \notin Decided
               /\ seen' = [seen EXCEPT ![w] = state[s]]
               /\ batch' = [batch EXCEPT ![w] = <<s>>]
               /\ pc' = [pc EXCEPT ![w] = "cas"]
  BY DEF SkipLoad, Goto
<1>5. s \in Node /\ <<s>> \in Seq(Node) /\ <<s>> # <<>> /\ <<s>>[1] = s
  <2>1. s \in Node
    BY <1>3
  <2> QED
    BY <2>1, SingletonFacts
<1>6. /\ pc' \in [Worker -> WorkerPc]
      /\ \A v \in Worker : v # w =>
            pc'[v] = pc[v] /\ left'[v] = left[v] /\ batch'[v] = batch[v]
      /\ left'[w] \subseteq left[w]
      /\ \/ pc'[w] \in {"skip", "finish"} /\ batch'[w] = <<>>
         \/ pc'[w] = "cas" /\ batch'[w] = <<s>>
      /\ left' \in [Worker -> SUBSET Node]
      /\ batch' \in [Worker -> Seq(Node)]
      /\ seen' \in [Worker -> NodeState \ Decided]
  <2>1. CASE pc' = [pc EXCEPT ![w] = IF left[w] = {s} THEN "finish" ELSE "skip"]
             /\ UNCHANGED <<batch, seen>>
    BY <1>3, <1>4, <2>1 DEF WorkerPc
  <2>2. CASE /\ state[s] \notin Decided
             /\ seen' = [seen EXCEPT ![w] = state[s]]
             /\ batch' = [batch EXCEPT ![w] = <<s>>]
             /\ pc' = [pc EXCEPT ![w] = "cas"]
    BY <1>3, <1>4, <1>5, <2>2 DEF WorkerPc
  <2> QED
    BY <1>4, <2>1, <2>2
<1>7. ASSUME NEW v \in Worker, v # w
      PROVE  WorkerInv(v)' /\ Holding(v)' = Holding(v) /\ (Working(v)' <=> Working(v))
  <2>1. WorkerInv(v)
    BY <1>2, RunningFacts
  <2> QED
    BY <1>1, <1>6, <1>7, <2>1, OtherWorker
<1>8. WorkerInv(w)' /\ Holding(w)' = {} /\ Holding(w) = {} /\ Working(w)' /\ Working(w)
  <2>1. \A t \in left'[w] \cup {s} : Doomed(t)'
    BY <1>1, <1>3, <1>6 DEF Doomed, Preds
  <2>2. pc'[w] = "cas" => Doomed(batch[w][1])'
    BY <1>1, <1>5, <1>6, <2>1 DEF Doomed, Preds
  <2> QED
    BY <1>1, <1>3, <1>5, <1>6, <2>1, <2>2 DEF WorkerInv, Holding, Working
<1>9. CounterInv' /\ ReadyInv' /\ QueueInv' /\ ResolversDiffer'
  <2>1. \A v \in Worker : pc'[v] = "resolve" <=> pc[v] = "resolve"
    BY <1>1, <1>6
  <2>2. \A v \in Worker : pc[v] = "resolve" => cur'[v] = cur[v] /\ left'[v] = left[v]
    BY <1>1, <1>6
  <2>3. \A n \in Node : Uncounted(n)' = Uncounted(n)
    BY <1>1, <2>1, <2>2, SameUncounted
  <2> QED
    BY <1>1, <1>2, <2>1, <2>3, RunningFacts
       DEF CounterInv, ReadyInv, QueueInv, Queued, ResolversDiffer
<1>10. ActiveInv'
  BY <1>1, <1>2, <1>7, <1>8, RunningFacts, SameActive
<1>11. TypeOK'
  <2>1. NodeTypeOK' /\ WorkerTypeOK'
    BY <1>1, <1>2, <1>6, RunningFacts DEF NodeTypeOK, WorkerTypeOK
  <2> QED
    BY <1>1, <1>2, <2>1, RunningFacts, CallerUnchanged DEF TypeOK
<1>12. /\ IsInjective(ready_queue)'
       /\ \A v \in Worker : Holding(v)' \cap Queued' = {}
       /\ \A u, v \in Worker : u # v => Holding(u)' \cap Holding(v)' = {}
  BY <1>1, <1>2, <1>7, <1>8, RunningFacts DEF Queued
<1>13. \A v \in Worker : WorkerInv(v)'
  BY <1>7, <1>8
<1> QED
  BY <1>1, <1>2, <1>9, <1>10, <1>11, <1>12, <1>13, RunningFacts, Assemble

LEMMA SkipCasStep ==
    ASSUME IInv, NEW w \in Worker, SkipCas(w)
    PROVE  IInv'
<1> DEFINE s == batch[w][1]
           won == state[s] = seen[w]
           todo == IF won THEN left[w] \cup SkipsNext(s) ELSE left[w]
           dest == IF todo = {} THEN "finish" ELSE "skip"
<1>1. /\ pc[w] = "cas"
      /\ UNCHANGED <<adj, phase, remaining, retry_count,
                     ready_queue, active_workers, cur>>
      /\ UNCHANGED caller
      /\ state' = IF won THEN [state EXCEPT ![s] = "Skipped"] ELSE state
      /\ counters' = IF won THEN [counters EXCEPT !.skipped = @ + 1] ELSE counters
      /\ left' = [left EXCEPT ![w] = todo]
      /\ pc' = [pc EXCEPT ![w] = dest]
      /\ batch' = [batch EXCEPT ![w] = <<>>]
      /\ seen' = [seen EXCEPT ![w] = "Pending"]
  BY DEF SkipCas, Goto, caller, config
<1>2. pc[w] # "off"
  BY <1>1
<1>3. /\ pc \in [Worker -> WorkerPc]
      /\ left \in [Worker -> SUBSET Node]
      /\ batch \in [Worker -> Seq(Node)]
      /\ seen \in [Worker -> NodeState \ Decided]
      /\ state \in [Node -> NodeState]
      /\ adj \in [Node -> SUBSET Node]
      /\ batch[w] # <<>>
      /\ cur[w] \in Node
      /\ Doomed(s)
      /\ \A t \in left[w] : Doomed(t)
  BY <1>1, <1>2, RunningFacts, GraphsAssumption
     DEF WorkerTypeOK, NodeTypeOK, TypeOK, CallerTypeOK, WorkerInv
<1>4. s \in Node
  BY <1>3
<1> HIDE DEF s
<1>5. state[s] \in {"Pending", "Skipped"}
  BY <1>2, <1>3, <1>4, RunningFacts, DoomedNotReady
<1>6. /\ won => state[s] = "Pending"
      /\ todo \subseteq left[w] \cup adj[s]
      /\ todo \subseteq Node
      /\ dest \in {"finish", "skip"}
  BY <1>3, <1>4, <1>5 DEF Decided, SkipsNext
<1>7. \A t \in todo : t \in left[w] \/ (won /\ t \in adj[s])
  BY DEF SkipsNext
<1> HIDE DEF todo, dest
<1>8. /\ pc' \in [Worker -> WorkerPc]
      /\ pc'[w] = dest
      /\ \A v \in Worker : v # w =>
            pc'[v] = pc[v] /\ left'[v] = left[v] /\ batch'[v] = batch[v]
      /\ left'[w] = todo
      /\ batch'[w] = <<>>
      /\ left' \in [Worker -> SUBSET Node]
      /\ batch' \in [Worker -> Seq(Node)]
      /\ seen' \in [Worker -> NodeState \ Decided]
  BY <1>1, <1>3, <1>6 DEF WorkerPc, NodeState, Decided
<1>9. /\ state' \in [Node -> NodeState]
      /\ state'[s] = IF won THEN "Skipped" ELSE state[s]
      /\ \A n \in Node : n # s => state'[n] = state[n]
  BY <1>1, <1>3, <1>4 DEF NodeState
<1>10. /\ \A n \in Node : state'[n] = "Completed" <=> state[n] = "Completed"
       /\ \A n \in Node : state[n] \in {"Failed", "Skipped"}
                          => state'[n] \in {"Failed", "Skipped"}
       /\ won => state'[s] = "Skipped"
  BY <1>5, <1>6, <1>9
<1> HIDE DEF won
<1>11. s \notin Queued /\ \A v \in Worker : s \notin Holding(v)
  <2>1. s \notin Queued
    BY <1>2, <1>5, RunningFacts DEF QueueInv
  <2>2. \A v \in Worker : s \notin Holding(v)
    BY <1>2, <1>5, RunningFacts, HeldNodes
  <2> QED
    BY <2>1, <2>2
<1>12. ASSUME NEW v \in Worker, v # w
       PROVE  WorkerInv(v)' /\ Holding(v)' = Holding(v) /\ (Working(v)' <=> Working(v))
  <2>1. WorkerInv(v) /\ \A n \in Holding(v) : n \in Node /\ n # s
    BY <1>2, <1>11, RunningFacts, HeldNodes
  <2>2. \A n \in Holding(v) : state'[n] = state[n]
    BY <1>9, <2>1
  <2>3. pc'[v] = pc[v] /\ cur'[v] = cur[v] /\ left'[v] = left[v] /\ batch'[v] = batch[v]
    BY <1>1, <1>8, <1>12
  <2> QED
    BY <1>1, <1>10, <2>1, <2>2, <2>3, OtherWorker
<1>13. WorkerInv(w)' /\ Holding(w)' = {} /\ Holding(w) = {} /\ Working(w)' /\ Working(w)
  <2>1. \A t \in left'[w] : Doomed(t)'
    <3> SUFFICES ASSUME NEW t \in todo PROVE Doomed(t)'
      BY <1>8
    <3>1. CASE t \in left[w]
      BY <1>1, <1>3, <1>10, <3>1 DEF Doomed, Preds
    <3>2. CASE won /\ t \in adj[s]
      BY <1>1, <1>4, <1>10, <3>2 DEF Doomed, Preds
    <3> QED
      BY <1>7, <3>1, <3>2
  <2> QED
    BY <1>1, <1>3, <1>6, <1>8, <2>1 DEF WorkerInv, Holding, Working
<1>14. CounterInv' /\ ReadyInv' /\ QueueInv' /\ ResolversDiffer'
  <2>1. \A v \in Worker : pc'[v] = "resolve" <=> pc[v] = "resolve"
    BY <1>1, <1>6, <1>8
  <2>2. \A v \in Worker : pc[v] = "resolve" => cur'[v] = cur[v] /\ left'[v] = left[v]
    BY <1>1, <1>8
  <2>3. \A n \in Node : Uncounted(n)' = Uncounted(n)
    BY <1>1, <1>10, <2>1, <2>2, SameUncounted
  <2>4. CounterInv'
    BY <1>1, <1>2, <2>3, RunningFacts DEF CounterInv
  <2>5. ReadyInv'
    BY <1>2, <1>5, <1>9, <2>3, RunningFacts DEF ReadyInv
  <2>6. QueueInv'
    BY <1>1, <1>2, <1>9, <1>11, RunningFacts, ElementsInSet
       DEF QueueInv, Queued, NodeTypeOK
  <2>7. ResolversDiffer'
    BY <1>1, <1>2, <2>1, RunningFacts DEF ResolversDiffer
  <2> QED
    BY <2>4, <2>5, <2>6, <2>7
<1>15. ActiveInv'
  BY <1>1, <1>2, <1>12, <1>13, RunningFacts, SameActive
<1>16. TypeOK'
  <2>1. counters' \in [completed : Nat, failed : Nat, skipped : Nat]
    BY <1>1, <1>2, RunningFacts, TallyFacts DEF NodeTypeOK
  <2>2. NodeTypeOK' /\ WorkerTypeOK'
    BY <1>1, <1>2, <1>8, <1>9, <2>1, RunningFacts DEF NodeTypeOK, WorkerTypeOK
  <2> QED
    BY <1>1, <1>2, <2>2, RunningFacts, CallerUnchanged DEF TypeOK
<1>17. /\ IsInjective(ready_queue)'
       /\ \A v \in Worker : Holding(v)' \cap Queued' = {}
       /\ \A u, v \in Worker : u # v => Holding(u)' \cap Holding(v)' = {}
  BY <1>1, <1>2, <1>12, <1>13, RunningFacts DEF Queued
<1>18. \A v \in Worker : WorkerInv(v)'
  BY <1>12, <1>13
<1> QED
  BY <1>1, <1>2, <1>14, <1>15, <1>16, <1>17, <1>18, RunningFacts, Assemble

----------------------------------------------------------------------------
(* The theorems                                                            *)

LEMMA StutterStep == IInv /\ UNCHANGED vars => IInv'
<1> SUFFICES ASSUME IInv, UNCHANGED vars PROVE IInv'
  OBVIOUS
<1>1. CallerTypeOK'
  BY Zenon DEF IInv, TypeOK, CallerTypeOK, vars
<1>2. /\ UNCHANGED <<adj, phase, nodes, ready_queue, active_workers, locals>>
      /\ pc' = pc
  BY DEF vars, nodes, locals
<1> QED
  BY <1>1, <1>2, QuietStep DEF IInv, TypeOK, WorkerTypeOK

LEMMA WorkStep ==
    ASSUME IInv, NEW w \in Worker, Work(w) \/ SpuriousWake(w)
    PROVE  IInv'
<1>1. CASE LoopTest(w) \/ WaitFalse(w) \/ Block(w) \/ SpuriousWake(w) \/ Leave(w)
  BY <1>1, WaitingStep
<1>2. CASE Pop(w)
  BY <1>2, PopStep
<1>3. CASE CheckSkipped(w)
  BY <1>3, CheckStep
<1>4. CASE Finish(w)
  BY <1>4, FinishStep
<1>5. CASE Start(w)
  BY <1>5, StartStep
<1>6. CASE HandlerSucceeds(w)
  BY <1>6, SucceedStep
<1>7. CASE Resolve(w)
  BY <1>7, ResolveStep
<1>8. CASE Push(w)
  BY <1>8, PushStep
<1>9. CASE NotifyOne(w) \/ NotifyMany(w)
  BY <1>9, NotifyStep
<1>10. CASE HandlerRetries(w)
  BY <1>10, RetryStep
<1>11. CASE HandlerFails(w)
  BY <1>11, FailStep
<1>12. CASE SkipLoad(w)
  BY <1>12, SkipLoadStep
<1>13. CASE SkipCas(w)
  BY <1>13, SkipCasStep
<1> QED
  BY <1>1, <1>2, <1>3, <1>4, <1>5, <1>6, <1>7, <1>8, <1>9, <1>10, <1>11, <1>12,
     <1>13 DEF Work

LEMMA NextIInv == IInv /\ [Next]_vars => IInv'
<1> SUFFICES ASSUME IInv, [Next]_vars PROVE IInv'
  OBVIOUS
<1>1. CASE UNCHANGED vars
  BY <1>1, StutterStep
<1>2. CASE Execute
  BY <1>2, ExecuteStep
<1>3. CASE ExecuteRefused
  BY <1>3, ExecuteRefusedStep
<1>4. CASE Join
  BY <1>4, JoinStep
<1>5. CASE Reset
  BY <1>5, ResetStep
<1>6. CASE CancelStore \/ CancelNotify
  BY <1>6, CancelStep
<1>7. CASE \E w \in Worker : Work(w) \/ SpuriousWake(w)
  BY <1>7, WorkStep
<1> QED
  BY <1>1, <1>2, <1>3, <1>4, <1>5, <1>6, <1>7 DEF Next

\* The inductive invariant holds in every reachable state, for every graph,
\* every number of workers and every retry limit: the counter of a node is the
\* number of its predecessors that have not been counted as completed.
THEOREM InvariantHolds == Spec => []IInv
<1>1. Init => IInv
  BY InitIInv
<1>2. IInv /\ [Next]_vars => IInv'
  BY NextIInv
<1> QED
  BY <1>1, <1>2, PTL DEF Spec

\* The variables of the executor stay in their ranges: in particular neither
\* remaining_dependencies nor active_workers_ ever goes below zero.
THEOREM TypeCorrect == Spec => []TypeOK
<1>1. IInv => TypeOK
  BY DEF IInv
<1> QED
  BY <1>1, InvariantHolds, PTL

\* No node is made ready, run, completed or failed before everything it depends
\* on has completed.
THEOREM DependencyOrderHolds == Spec => []DependencyOrder
<1>1. IInv => DependencyOrder
  BY DEF IInv
<1> QED
  BY <1>1, InvariantHolds, PTL

\* A node is in the queue or in the hands of one worker at most once.
THEOREM DispatchedOnceHolds == Spec => []DispatchedOnce
<1>1. IInv => DispatchedOnce
  BY DEF IInv
<1> QED
  BY <1>1, InvariantHolds, PTL

LEMMA WorkKeepsDecided ==
    ASSUME IInv, NEW w \in Worker, Work(w) \/ SpuriousWake(w)
    PROVE  \A n \in Node : state[n] \in Decided => state'[n] = state[n]
<1>1. pc[w] # "off"
  BY DEF Work, LoopTest, WaitFalse, Block, SpuriousWake, Leave, Pop, CheckSkipped,
         Finish, Start, HandlerSucceeds, Resolve, Push, NotifyOne, NotifyMany,
         HandlerRetries, HandlerFails, SkipLoad, SkipCas
<1>2. /\ state \in [Node -> NodeState]
      /\ WorkerInv(w)
      /\ seen[w] \notin Decided
  BY <1>1, RunningFacts DEF NodeTypeOK, WorkerTypeOK
<1>3. CASE UNCHANGED state
  BY <1>3
<1>4. CASE Start(w)
  BY <1>2, <1>4 DEF Start, WorkerInv, Decided
<1>5. CASE HandlerSucceeds(w) \/ HandlerRetries(w) \/ HandlerFails(w)
  BY <1>2, <1>5 DEF HandlerSucceeds, HandlerRetries, HandlerFails, WorkerInv, Decided
<1>6. CASE Resolve(w)
  <2>1. PICK s \in left[w] :
          state' = IF BecomesReady(s) THEN [state EXCEPT ![s] = "Ready"] ELSE state
    BY <1>6 DEF Resolve
  <2> QED
    BY <1>2, <2>1 DEF BecomesReady, Decided
<1>7. CASE SkipCas(w)
  <2>1. state' = IF state[batch[w][1]] = seen[w]
                 THEN [state EXCEPT ![batch[w][1]] = "Skipped"] ELSE state
    BY <1>7 DEF SkipCas
  <2> QED
    BY <1>2, <2>1
<1> QED
  BY <1>3, <1>4, <1>5, <1>6, <1>7
     DEF Work, LoopTest, WaitFalse, Block, SpuriousWake, Leave, Pop, CheckSkipped,
         Finish, Push, NotifyOne, NotifyMany, SkipLoad, nodes

\* A node decided in an execution is never touched again in that execution.
THEOREM DecidedIsFinalHolds == Spec => DecidedIsFinal
<1> DEFINE Keeps == phase = "running" =>
                      \A n \in Node : state[n] \in Decided => state'[n] = state[n]
<1>1. IInv /\ [Next]_vars => [Keeps]_vars
  <2> SUFFICES ASSUME IInv, Next PROVE Keeps
    OBVIOUS
  <2>1. CASE Execute \/ ExecuteRefused \/ Join \/ Reset
    BY <2>1 DEF Execute, ExecuteRefused, Join, Reset, nodes
  <2>2. CASE CancelStore \/ CancelNotify
    BY <2>2 DEF CancelStore, CancelNotify, nodes
  <2>3. CASE \E w \in Worker : Work(w) \/ SpuriousWake(w)
    BY <2>3, WorkKeepsDecided
  <2> QED
    BY <2>1, <2>2, <2>3 DEF Next
<1> QED
  BY <1>1, InvariantHolds, PTL DEF Spec, DecidedIsFinal

----------------------------------------------------------------------------
(* The counters of the summary                                             *)

InState(t) == {n \in Node : state[n] = t}

LEMMA InStateFinite ==
    ASSUME NEW t
    PROVE  IsFiniteSet(InState(t)) /\ Cardinality(InState(t)) \in Nat
BY NodeAssumption, FS_Subset, FS_CardinalityType DEF InState

\* A node that moves between two states other than t is not counted in t.
LEMMA MovesElsewhere ==
    ASSUME TypeOK, NEW n \in Node, NEW t, NEW u, state[n] # t, u # t,
           state' = [state EXCEPT ![n] = u]
    PROVE  InState(t)' = InState(t)
BY DEF TypeOK, NodeTypeOK, InState

\* A node that enters the state t is counted once more in t.
LEMMA MovesInto ==
    ASSUME TypeOK, NEW n \in Node, NEW t, state[n] # t,
           state' = [state EXCEPT ![n] = t]
    PROVE  Cardinality(InState(t))' = Cardinality(InState(t)) + 1
<1>1. InState(t)' = InState(t) \cup {n} /\ n \notin InState(t)
  BY DEF TypeOK, NodeTypeOK, InState
<1> QED
  BY <1>1, InStateFinite, FS_AddElement

CountersAgree ==
    /\ counters.completed = Cardinality(InState("Completed"))
    /\ counters.failed = Cardinality(InState("Failed"))
    /\ counters.skipped = Cardinality(InState("Skipped"))

\* A move between undecided states changes no counter.
LEMMA UndecidedMove ==
    ASSUME TypeOK, CountersAgree, NEW n \in Node, NEW u,
           state[n] \notin Decided, u \notin Decided,
           state' = [state EXCEPT ![n] = u], counters' = counters
    PROVE  CountersAgree'
<1>1. \A t \in Decided : InState(t)' = InState(t)
  BY MovesElsewhere
<1> QED
  BY <1>1 DEF CountersAgree, Decided

LEMMA WorkKeepsCounters ==
    ASSUME IInv, CountersAgree, NEW w \in Worker, Work(w) \/ SpuriousWake(w)
    PROVE  CountersAgree'
<1>1. pc[w] # "off"
  BY DEF Work, LoopTest, WaitFalse, Block, SpuriousWake, Leave, Pop, CheckSkipped,
         Finish, Start, HandlerSucceeds, Resolve, Push, NotifyOne, NotifyMany,
         HandlerRetries, HandlerFails, SkipLoad, SkipCas
<1>2. /\ TypeOK
      /\ WorkerInv(w)
      /\ counters \in [completed : Nat, failed : Nat, skipped : Nat]
  BY <1>1, RunningFacts DEF TypeOK, NodeTypeOK
<1>3. CASE UNCHANGED <<state, counters>>
  BY <1>3 DEF CountersAgree, InState
<1>4. CASE Start(w)
  <2>1. cur[w] \in Node /\ state[cur[w]] = "Ready"
    BY <1>2, <1>4 DEF Start, WorkerInv
  <2>2. state' = [state EXCEPT ![cur[w]] = "Running"] /\ counters' = counters
    BY <1>4 DEF Start
  <2> QED
    BY <1>2, <2>1, <2>2, UndecidedMove DEF Decided
<1>5. CASE HandlerRetries(w)
  <2>1. cur[w] \in Node /\ state[cur[w]] = "Running"
    BY <1>2, <1>5 DEF HandlerRetries, WorkerInv
  <2>2. state' = [state EXCEPT ![cur[w]] = "Ready"] /\ counters' = counters
    BY <1>5 DEF HandlerRetries
  <2> QED
    BY <1>2, <2>1, <2>2, UndecidedMove DEF Decided
<1>6. CASE Resolve(w)
  <2>1. PICK s \in left[w] :
          state' = IF BecomesReady(s) THEN [state EXCEPT ![s] = "Ready"] ELSE state
    BY <1>6 DEF Resolve
  <2>2. counters' = counters /\ s \in Node
    BY <1>2, <1>6 DEF Resolve, TypeOK, WorkerTypeOK
  <2>3. CASE BecomesReady(s)
    <3>1. state[s] = "Pending"
      BY <2>3 DEF BecomesReady
    <3> QED
      BY <1>2, <2>1, <2>2, <2>3, <3>1, UndecidedMove DEF Decided
  <2> QED
    BY <1>3, <2>1, <2>2, <2>3
<1>7. CASE HandlerSucceeds(w)
  <2>1. cur[w] \in Node /\ state[cur[w]] = "Running"
    BY <1>2, <1>7 DEF HandlerSucceeds, WorkerInv
  <2>2. /\ state' = [state EXCEPT ![cur[w]] = "Completed"]
        /\ counters' = [counters EXCEPT !.completed = @ + 1]
    BY <1>7 DEF HandlerSucceeds
  <2>3. /\ Cardinality(InState("Completed"))' = Cardinality(InState("Completed")) + 1
        /\ InState("Failed")' = InState("Failed")
        /\ InState("Skipped")' = InState("Skipped")
    BY <1>2, <2>1, <2>2, MovesInto, MovesElsewhere
  <2> QED
    BY <1>2, <2>2, <2>3 DEF CountersAgree
<1>8. CASE HandlerFails(w)
  <2>1. cur[w] \in Node /\ state[cur[w]] = "Running"
    BY <1>2, <1>8 DEF HandlerFails, WorkerInv
  <2>2. /\ state' = [state EXCEPT ![cur[w]] = "Failed"]
        /\ counters' = [counters EXCEPT !.failed = @ + 1]
    BY <1>8 DEF HandlerFails
  <2>3. /\ Cardinality(InState("Failed"))' = Cardinality(InState("Failed")) + 1
        /\ InState("Completed")' = InState("Completed")
        /\ InState("Skipped")' = InState("Skipped")
    BY <1>2, <2>1, <2>2, MovesInto, MovesElsewhere
  <2> QED
    BY <1>2, <2>2, <2>3 DEF CountersAgree
<1>9. CASE SkipCas(w)
  <2> DEFINE s == batch[w][1]
  <2>1. s \in Node /\ seen[w] \notin Decided
    BY <1>2, <1>9 DEF SkipCas, WorkerInv, TypeOK, WorkerTypeOK
  <2>2. /\ state' = IF state[s] = seen[w] THEN [state EXCEPT ![s] = "Skipped"] ELSE state
        /\ counters' = IF state[s] = seen[w] THEN [counters EXCEPT !.skipped = @ + 1]
                       ELSE counters
    BY <1>9 DEF SkipCas
  <2>3. CASE state[s] = seen[w]
    <3>1. state[s] \notin Decided
      BY <2>1, <2>3
    <3>2. state' = [state EXCEPT ![s] = "Skipped"]
      BY <2>2, <2>3
    <3>3. /\ Cardinality(InState("Skipped"))' = Cardinality(InState("Skipped")) + 1
          /\ InState("Completed")' = InState("Completed")
          /\ InState("Failed")' = InState("Failed")
      BY <1>2, <2>1, <3>1, <3>2, MovesInto, MovesElsewhere DEF Decided
    <3> QED
      BY <1>2, <2>2, <2>3, <3>3 DEF CountersAgree
  <2> QED
    BY <1>3, <2>2, <2>3
<1> QED
  BY <1>3, <1>4, <1>5, <1>6, <1>7, <1>8, <1>9
     DEF Work, LoopTest, WaitFalse, Block, SpuriousWake, Leave, Pop, CheckSkipped,
         Finish, Push, NotifyOne, NotifyMany, SkipLoad, nodes

\* Inside execute() completed_nodes, failed_nodes and skipped_nodes are the
\* numbers of nodes in each final state, whoever retries, skips or loses a CAS.
THEOREM CountersMatchHolds == Spec => []CountersMatch
<1>1. Init => CountersMatch
  BY DEF Init, CountersMatch
<1>2. IInv /\ CountersMatch /\ [Next]_vars => CountersMatch'
  <2> SUFFICES ASSUME IInv, CountersMatch, [Next]_vars PROVE CountersMatch'
    OBVIOUS
  <2>1. CASE Execute
    <3>1. \A t \in Decided : InState(t)' = {}
      BY <2>1 DEF Execute, InState, Decided
    <3>2. counters' = NoCounters
      BY <2>1 DEF Execute, FreshCounters
    <3> QED
      BY <3>1, <3>2, FS_EmptySet DEF CountersMatch, NoCounters, InState, Decided
  <2>2. CASE UNCHANGED <<phase, state, counters>> \/ phase' = "idle"
    BY <2>2 DEF CountersMatch
  <2>3. CASE ExecuteRefused \/ Join \/ Reset \/ CancelStore \/ CancelNotify \/ UNCHANGED vars
    <3>1. UNCHANGED <<phase, state, counters>> \/ phase' = "idle"
      BY <2>3 DEF ExecuteRefused, Join, Reset, CancelStore, CancelNotify, vars, nodes
    <3> QED
      BY <2>2, <3>1
  <2>4. ASSUME NEW w \in Worker, Work(w) \/ SpuriousWake(w)
        PROVE  CountersMatch'
    <3>1. pc[w] # "off"
      BY <2>4 DEF Work, LoopTest, WaitFalse, Block, SpuriousWake, Leave, Pop, CheckSkipped,
         Finish, Start, HandlerSucceeds, Resolve, Push, NotifyOne, NotifyMany,
         HandlerRetries, HandlerFails, SkipLoad, SkipCas
    <3>2. phase = "running"
      BY <3>1, WorkImpliesRunning
    <3>3. CountersAgree
      BY <3>2 DEF CountersMatch, CountersAgree, InState
    <3>4. CountersAgree'
      BY <2>4, <3>3, WorkKeepsCounters
    <3> QED
      BY <3>4 DEF CountersMatch, CountersAgree, InState
  <2> QED
    BY <2>1, <2>3, <2>4 DEF Next
<1> QED
  BY <1>1, <1>2, InvariantHolds, PTL DEF Spec

----------------------------------------------------------------------------
(* The second inductive invariant: nothing undecided is forgotten          *)

\* A step of one worker leaves the others where they are, except that it may
\* wake them.
LEMMA OthersKept ==
    ASSUME IInv, NEW w \in Worker, Work(w) \/ SpuriousWake(w), NEW v \in Worker, v # w
    PROVE  /\ pc'[v] = pc[v] \/ (pc[v] = "blocked" /\ pc'[v] = "wait")
           /\ Holding(v)' = Holding(v)
           /\ Spreading(v)' = Spreading(v)
           /\ cur'[v] = cur[v]
           /\ seen'[v] = seen[v]
<1>1. pc[w] # "off"
  BY DEF Work, LoopTest, WaitFalse, Block, SpuriousWake, Leave, Pop, CheckSkipped,
         Finish, Start, HandlerSucceeds, Resolve, Push, NotifyOne, NotifyMany,
         HandlerRetries, HandlerFails, SkipLoad, SkipCas
<1>2. /\ pc \in [Worker -> WorkerPc]
      /\ cur \in [Worker -> Node \cup {NoNode}]
      /\ left \in [Worker -> SUBSET Node]
      /\ batch \in [Worker -> Seq(Node)]
      /\ seen \in [Worker -> NodeState \ Decided]
  BY <1>1, RunningFacts DEF WorkerTypeOK
<1>3. /\ pc'[v] = pc[v] \/ (pc[v] = "blocked" /\ pc'[v] = "wait")
      /\ cur'[v] = cur[v]
      /\ left'[v] = left[v]
      /\ batch'[v] = batch[v]
      /\ seen'[v] = seen[v]
  <2>1. CASE LoopTest(w) \/ WaitFalse(w) \/ Block(w) \/ SpuriousWake(w)
    BY <1>2, <2>1 DEF LoopTest, WaitFalse, Block, SpuriousWake, Goto, locals
  <2>2. CASE Leave(w) \/ Finish(w)
    BY <1>2, <2>2 DEF Leave, Finish, NotifyAll, locals
  <2>3. CASE Pop(w) \/ CheckSkipped(w) \/ Start(w) \/ Push(w)
    BY <1>2, <2>3 DEF Pop, CheckSkipped, Start, Push, Goto, locals
  <2>4. CASE HandlerSucceeds(w) \/ HandlerRetries(w) \/ HandlerFails(w)
    BY <1>2, <2>4 DEF HandlerSucceeds, HandlerRetries, HandlerFails, Goto
  <2>5. CASE Resolve(w)
    BY <1>2, <2>5 DEF Resolve, Goto
  <2>6. CASE NotifyOne(w) \/ NotifyMany(w)
    BY <1>2, <2>6 DEF NotifyOne, NotifyMany, NotifyAll, Goto
  <2>7. CASE SkipLoad(w)
    BY <1>2, <2>7 DEF SkipLoad, Goto
  <2>8. CASE SkipCas(w)
    BY <1>2, <2>8 DEF SkipCas, Goto
  <2> QED
    BY <2>1, <2>2, <2>3, <2>4, <2>5, <2>6, <2>7, <2>8 DEF Work
<1> QED
  BY <1>3 DEF Holding, Spreading

\* What a step of w does to the nodes that w had, or was not, responsible for.
HandsOver(w) ==
    /\ \A n \in Node : state'[n] = "Pending" => remaining'[n] # 0
    /\ \A n \in Node : state'[n] = "Ready" =>
         \/ n \in Queued' \/ n \in Holding(w)'
         \/ state[n] = "Ready" /\ n \notin Queued /\ n \notin Holding(w)
    /\ \A n \in Node : state'[n] = "Running" =>
         \/ pc'[w] = "run" /\ cur'[w] = n
         \/ state[n] = "Running" /\ ~(pc[w] = "run" /\ cur[w] = n)

LEMMA HandedOver ==
    ASSUME IInv, PlacedInv, NEW w \in Worker, Work(w) \/ SpuriousWake(w), HandsOver(w)
    PROVE  PlacedInv'
<1> SUFFICES ASSUME NEW n \in Node
             PROVE  /\ state'[n] = "Pending" => remaining'[n] # 0
                    /\ state'[n] = "Ready" =>
                         n \in Queued' \/ \E v \in Worker : n \in Holding(v)'
                    /\ state'[n] = "Running" =>
                         \E v \in Worker : pc'[v] = "run" /\ cur'[v] = n
  BY DEF PlacedInv
<1>1. state'[n] = "Pending" => remaining'[n] # 0
  BY DEF HandsOver
<1>2. ASSUME state'[n] = "Ready"
      PROVE  n \in Queued' \/ \E v \in Worker : n \in Holding(v)'
  <2>1. CASE state[n] = "Ready" /\ n \notin Queued /\ n \notin Holding(w)
    <3>1. PICK v \in Worker : n \in Holding(v)
      BY <2>1 DEF PlacedInv
    <3> QED
      BY <2>1, <3>1, OthersKept
  <2> QED
    BY <1>2, <2>1 DEF HandsOver
<1>3. ASSUME state'[n] = "Running"
      PROVE  \E v \in Worker : pc'[v] = "run" /\ cur'[v] = n
  <2>1. CASE state[n] = "Running" /\ ~(pc[w] = "run" /\ cur[w] = n)
    <3>1. PICK v \in Worker : pc[v] = "run" /\ cur[v] = n
      BY <2>1 DEF PlacedInv
    <3> QED
      BY <2>1, <3>1, OthersKept
  <2> QED
    BY <1>3, <2>1 DEF HandsOver
<1> QED
  BY <1>1, <1>2, <1>3

\* A step that moves no node and holds as much as before hands nothing over.
LEMMA KeepsPlaces ==
    ASSUME PlacedInv, NEW w \in Worker, UNCHANGED <<state, remaining>>,
           Queued \cup Holding(w) \subseteq Queued' \cup Holding(w)',
           pc[w] # "run"
    PROVE  HandsOver(w)
BY DEF HandsOver, PlacedInv

LEMMA WorkHandsOver ==
    ASSUME IInv, PlacedInv, NEW w \in Worker, Work(w) \/ SpuriousWake(w)
    PROVE  HandsOver(w)
<1>1. pc[w] # "off"
  BY DEF Work, LoopTest, WaitFalse, Block, SpuriousWake, Leave, Pop, CheckSkipped,
         Finish, Start, HandlerSucceeds, Resolve, Push, NotifyOne, NotifyMany,
         HandlerRetries, HandlerFails, SkipLoad, SkipCas
<1>2. /\ pc \in [Worker -> WorkerPc]
      /\ cur \in [Worker -> Node \cup {NoNode}]
      /\ left \in [Worker -> SUBSET Node]
      /\ batch \in [Worker -> Seq(Node)]
      /\ state \in [Node -> NodeState]
      /\ remaining \in [Node -> Nat]
      /\ ready_queue \in Seq(Node)
      /\ IsInjective(ready_queue)
      /\ Holding(w) \cap Queued = {}
      /\ WorkerInv(w)
      /\ TypeOK /\ ReadyInv
  BY <1>1, RunningFacts DEF WorkerTypeOK, NodeTypeOK
<1>3. CASE LoopTest(w) \/ WaitFalse(w) \/ Block(w) \/ SpuriousWake(w) \/ Leave(w) \/ Finish(w)
           \/ NotifyOne(w) \/ NotifyMany(w) \/ SkipLoad(w)
  <2>1. UNCHANGED <<state, remaining, ready_queue>> /\ Holding(w) = {} /\ pc[w] # "run"
    BY <1>3 DEF LoopTest, WaitFalse, Block, SpuriousWake, Leave, Finish, NotifyOne,
                NotifyMany, SkipLoad, nodes, Holding
  <2> QED
    BY <2>1, KeepsPlaces DEF Queued
<1>4. CASE Pop(w)
  <2>1. /\ UNCHANGED <<state, remaining>> /\ pc[w] = "wait"
        /\ pc'[w] = "check" /\ cur'[w] = Head(ready_queue)
        /\ ready_queue' = Tail(ready_queue) /\ ready_queue # <<>>
    BY <1>2, <1>4 DEF Pop, nodes, Goto
  <2>2. Holding(w) = {} /\ Holding(w)' = {Head(ready_queue)}
    BY <2>1 DEF Holding
  <2>3. Queued' = Queued \ {Head(ready_queue)}
    BY <1>2, <2>1, TailFacts DEF Queued
  <2> QED
    BY <2>1, <2>2, <2>3, KeepsPlaces
<1>5. CASE CheckSkipped(w)
  <2>1. /\ UNCHANGED <<state, remaining, ready_queue, cur>> /\ pc[w] = "check"
        /\ pc'[w] = "start"
    BY <1>2, <1>5 DEF CheckSkipped, nodes, Goto, locals, WorkerInv
  <2>2. Holding(w)' = Holding(w)
    BY <2>1 DEF Holding
  <2> QED
    BY <2>1, <2>2, KeepsPlaces DEF Queued
<1>6. CASE Start(w)
  <2>1. /\ state' = [state EXCEPT ![cur[w]] = "Running"]
        /\ UNCHANGED <<remaining, ready_queue, cur>>
        /\ pc[w] = "start" /\ pc'[w] = "run"
        /\ cur[w] \in Node
    BY <1>2, <1>6 DEF Start, Goto, locals, WorkerInv
  <2>2. Holding(w) = {cur[w]} /\ Holding(w)' = {cur[w]}
    BY <2>1 DEF Holding
  <2> QED
    BY <1>2, <2>1, <2>2 DEF HandsOver, Queued, PlacedInv
<1>7. CASE HandlerSucceeds(w) \/ HandlerFails(w)
  <2>1. /\ \/ state' = [state EXCEPT ![cur[w]] = "Completed"]
           \/ state' = [state EXCEPT ![cur[w]] = "Failed"]
        /\ UNCHANGED <<remaining, ready_queue, cur>>
        /\ pc[w] = "run"
        /\ cur[w] \in Node
    BY <1>2, <1>7 DEF HandlerSucceeds, HandlerFails, WorkerInv
  <2>2. Holding(w) = {cur[w]}
    BY <2>1 DEF Holding
  <2> QED
    BY <1>2, <2>1, <2>2 DEF HandsOver, Queued, PlacedInv
<1>8. CASE HandlerRetries(w)
  <2>1. /\ state' = [state EXCEPT ![cur[w]] = "Ready"]
        /\ UNCHANGED <<remaining, ready_queue, cur>>
        /\ pc[w] = "run" /\ pc'[w] = "push"
        /\ cur[w] \in Node
        /\ batch'[w] = <<cur[w]>>
    BY <1>2, <1>8 DEF HandlerRetries, Goto, WorkerInv
  <2>2. Holding(w) = {cur[w]} /\ Holding(w)' = {cur[w]}
    BY <2>1, SingletonFacts DEF Holding
  <2> QED
    BY <1>2, <2>1, <2>2 DEF HandsOver, Queued, PlacedInv
<1>9. CASE Push(w)
  <2>1. /\ UNCHANGED <<state, remaining>>
        /\ ready_queue' = ready_queue \o batch[w]
        /\ pc[w] = "push"
    BY <1>9 DEF Push, nodes
  <2>2. Holding(w) = Range(batch[w]) /\ IsInjective(batch[w])
    BY <1>2, <2>1 DEF Holding, WorkerInv
  <2>3. Queued' = Queued \cup Holding(w)
    <3>1. /\ ready_queue \in Seq(Node) /\ batch[w] \in Seq(Node)
          /\ IsInjective(ready_queue) /\ IsInjective(batch[w])
          /\ Range(ready_queue) \cap Range(batch[w]) = {}
      BY <1>2, <2>2 DEF Queued
    <3>2. Range(ready_queue \o batch[w]) = Range(ready_queue) \cup Range(batch[w])
      BY <3>1, ConcatFacts
    <3> QED
      BY <2>1, <2>2, <3>2 DEF Queued
  <2> QED
    BY <2>1, <2>3, KeepsPlaces
<1>10. CASE Resolve(w)
  <2>1. PICK s \in left[w] :
          /\ remaining' = [remaining EXCEPT ![s] = @ - 1]
          /\ state' = IF BecomesReady(s) THEN [state EXCEPT ![s] = "Ready"] ELSE state
          /\ batch' = [batch EXCEPT ![w] = IF BecomesReady(s) THEN Append(batch[w], s)
                                           ELSE batch[w]]
          /\ pc' = [pc EXCEPT ![w] =
                      IF left[w] \ {s} # {} THEN "resolve"
                      ELSE IF (IF BecomesReady(s) THEN Append(batch[w], s) ELSE batch[w]) = <<>>
                           THEN "finish" ELSE "push"]
    BY <1>10 DEF Resolve, Goto
  <2>2. s \in Node /\ pc[w] = "resolve" /\ UNCHANGED <<ready_queue, cur>>
    BY <1>2, <1>10 DEF Resolve
  <2>3. IsInjective(batch[w]) /\ Holding(w) = Range(batch[w])
    BY <1>2, <2>2 DEF WorkerInv, Holding
  <2>4. Holding(w)' = Range(batch'[w])
    BY <1>2, <2>1, <2>2, EmptySeqFacts DEF Holding
  <2>5. CASE BecomesReady(s)
    <3>1. state[s] = "Pending" /\ s \notin Holding(w)
      BY <1>2, <2>2, <2>5 DEF BecomesReady, WorkerInv
    <3>2. Holding(w)' = Holding(w) \cup {s}
      BY <1>2, <2>1, <2>2, <2>3, <2>4, <2>5, <3>1, AppendFacts
    <3>3. \A n \in Node : n # s => state'[n] = state[n] /\ remaining'[n] = remaining[n]
      BY <1>2, <2>1, <2>5
    <3>4. state'[s] = "Ready"
      BY <1>2, <2>1, <2>2, <2>5
    <3> QED
      BY <2>2, <3>2, <3>3, <3>4 DEF HandsOver, PlacedInv, Queued
  <2>6. CASE ~BecomesReady(s)
    <3>1. state' = state /\ batch'[w] = batch[w]
      BY <1>2, <2>1, <2>6
    <3>2. \A n \in Node : state[n] = "Pending" => remaining'[n] # 0
      BY <1>2, <2>1, <2>2, <2>6 DEF BecomesReady, PlacedInv
    <3> QED
      BY <2>2, <2>3, <2>4, <3>1, <3>2 DEF HandsOver, Queued
  <2> QED
    BY <2>5, <2>6
<1>11. CASE SkipCas(w)
  <2> DEFINE s == batch[w][1]
  <2>1. /\ state' = IF state[s] = seen[w] THEN [state EXCEPT ![s] = "Skipped"] ELSE state
        /\ UNCHANGED <<remaining, ready_queue>>
        /\ pc[w] = "cas"
    BY <1>11 DEF SkipCas
  <2>2. s \in Node /\ state[s] \in {"Pending", "Skipped"}
    BY <1>2, <2>1, DoomedNotReady DEF WorkerInv
  <2>3. Holding(w) = {}
    BY <2>1 DEF Holding
  <2>4. \A n \in Node : state'[n] = state[n] \/ state'[n] = "Skipped"
    BY <1>2, <2>1
  <2> QED
    BY <2>1, <2>3, <2>4 DEF HandsOver, PlacedInv, Queued
<1> QED
  BY <1>3, <1>4, <1>5, <1>6, <1>7, <1>8, <1>9, <1>10, <1>11 DEF Work

LEMMA WorkKeepsPlaced ==
    ASSUME IInv, PlacedInv, NEW w \in Worker, Work(w) \/ SpuriousWake(w)
    PROVE  PlacedInv'
BY WorkHandsOver, HandedOver

\* A worker that is past the queue keeps active_workers_ above zero.
LEMMA WorkingIsActive ==
    ASSUME IInv, NEW w \in Worker, pc[w] # "off", Working(w)
    PROVE  active_workers # 0
BY WorkingFinite, RunningFacts, FS_EmptySet DEF ActiveInv

LEMMA WorkKeepsDrain ==
    ASSUME IInv, DrainInv, NEW w \in Worker, Work(w) \/ SpuriousWake(w)
    PROVE  DrainInv'
<1>1. pc[w] # "off" /\ cancelled' = cancelled
  BY DEF Work, LoopTest, WaitFalse, Block, SpuriousWake, Leave, Pop, CheckSkipped,
         Finish, Start, HandlerSucceeds, Resolve, Push, NotifyOne, NotifyMany,
         HandlerRetries, HandlerFails, SkipLoad, SkipCas, caller
<1>2. pc \in [Worker -> WorkerPc]
  BY <1>1, RunningFacts DEF WorkerTypeOK
<1>3. \A v \in Worker : v # w /\ pc'[v] = "exited" => pc[v] = "exited"
  BY OthersKept
<1>4. CASE Working(w)
  <2>1. ~Drained /\ pc[w] # "exited"
    BY <1>1, <1>4, WorkingIsActive DEF Drained, Working
  <2>2. CASE CheckSkipped(w) \/ Start(w) \/ Push(w) \/ HandlerSucceeds(w)
             \/ HandlerRetries(w) \/ HandlerFails(w)
    BY <1>1, <1>2, <1>3, <2>1, <2>2
       DEF CheckSkipped, Start, Push, HandlerSucceeds, HandlerRetries, HandlerFails, Goto,
           DrainInv
  <2>3. CASE Finish(w)
    BY <1>1, <1>2, <1>3, <2>1, <2>3 DEF Finish, NotifyAll, DrainInv
  <2>4. CASE NotifyOne(w) \/ NotifyMany(w)
    BY <1>1, <1>2, <1>3, <2>1, <2>4 DEF NotifyOne, NotifyMany, NotifyAll, Goto, DrainInv
  <2>5. CASE Resolve(w)
    BY <1>1, <1>2, <1>3, <2>1, <2>5 DEF Resolve, Goto, DrainInv
  <2>6. CASE SkipLoad(w)
    BY <1>1, <1>2, <1>3, <2>1, <2>6 DEF SkipLoad, Goto, DrainInv
  <2>7. CASE SkipCas(w)
    BY <1>1, <1>2, <1>3, <2>1, <2>7 DEF SkipCas, Goto, DrainInv
  <2> QED
    BY <1>4, <2>2, <2>3, <2>4, <2>5, <2>6, <2>7
       DEF Working, Work, LoopTest, WaitFalse, Block, SpuriousWake, Leave, Pop
<1>5. CASE LoopTest(w) \/ WaitFalse(w) \/ Block(w) \/ SpuriousWake(w) \/ Leave(w)
  <2>1. UNCHANGED <<ready_queue, active_workers>>
    BY <1>5 DEF LoopTest, WaitFalse, Block, SpuriousWake, Leave
  <2>2. pc'[w] = "exited" => cancelled \/ Drained
    BY <1>2, <1>5 DEF LoopTest, WaitFalse, Block, SpuriousWake, Leave, Goto
  <2> QED
    BY <1>1, <1>3, <2>1, <2>2 DEF DrainInv, Drained
<1>6. CASE Pop(w)
  <2>1. ~Drained /\ pc'[w] = "check"
    BY <1>2, <1>6 DEF Pop, Drained, Goto
  <2> QED
    BY <1>1, <1>3, <2>1 DEF DrainInv
<1> QED
  BY <1>4, <1>5, <1>6
     DEF Working, Work, CheckSkipped, Finish, Start, HandlerSucceeds, Resolve, Push,
         NotifyOne, NotifyMany, HandlerRetries, HandlerFails, SkipLoad, SkipCas

\* What a step of w does to the successors of failed and skipped nodes.
Spreads(w) ==
    /\ \A p \in Node : state'[p] \in {"Failed", "Skipped"} =>
         state[p] \in {"Failed", "Skipped"} \/ (rollback => adj[p] \subseteq Spreading(w)')
    /\ \A s \in Spreading(w) : state'[s] = "Skipped" \/ s \in Spreading(w)'
    /\ \A n \in Node : state'[n] = "Skipped" => state[n] = "Skipped" \/ Doomed(n)

LEMMA WorkSpreads ==
    ASSUME IInv, NEW w \in Worker, Work(w) \/ SpuriousWake(w),
           pc[w] = "cas" => seen[w] = "Pending"
    PROVE  Spreads(w)
<1>1. pc[w] # "off"
  BY DEF Work, LoopTest, WaitFalse, Block, SpuriousWake, Leave, Pop, CheckSkipped,
         Finish, Start, HandlerSucceeds, Resolve, Push, NotifyOne, NotifyMany,
         HandlerRetries, HandlerFails, SkipLoad, SkipCas
<1>2. /\ pc \in [Worker -> WorkerPc]
      /\ cur \in [Worker -> Node \cup {NoNode}]
      /\ left \in [Worker -> SUBSET Node]
      /\ batch \in [Worker -> Seq(Node)]
      /\ state \in [Node -> NodeState]
      /\ adj \in [Node -> SUBSET Node]
      /\ WorkerInv(w)
      /\ TypeOK /\ ReadyInv
  BY <1>1, RunningFacts, GraphsAssumption DEF WorkerTypeOK, NodeTypeOK, TypeOK, CallerTypeOK
<1>3. CASE UNCHANGED state /\ pc[w] \notin {"skip", "cas"}
  BY <1>3 DEF Spreads, Spreading
<1>4. CASE Start(w) \/ HandlerSucceeds(w) \/ HandlerRetries(w)
  <2>1. /\ pc[w] \notin {"skip", "cas"}
        /\ \E u \in {"Running", "Completed", "Ready"} : state' = [state EXCEPT ![cur[w]] = u]
    BY <1>4 DEF Start, HandlerSucceeds, HandlerRetries
  <2> QED
    BY <1>2, <2>1 DEF Spreads, Spreading
<1>5. CASE Resolve(w)
  <2>1. PICK s \in left[w] :
          state' = IF BecomesReady(s) THEN [state EXCEPT ![s] = "Ready"] ELSE state
    BY <1>5 DEF Resolve
  <2>2. pc[w] = "resolve"
    BY <1>5 DEF Resolve
  <2> QED
    BY <1>2, <2>1, <2>2 DEF Spreads, Spreading
<1>6. CASE HandlerFails(w)
  <2>1. /\ state' = [state EXCEPT ![cur[w]] = "Failed"]
        /\ pc[w] = "run"
        /\ cur[w] \in Node
        /\ left'[w] = IF rollback THEN adj[cur[w]] ELSE {}
        /\ pc'[w] = IF rollback /\ adj[cur[w]] # {} THEN "skip" ELSE "finish"
    BY <1>2, <1>6 DEF HandlerFails, Goto, WorkerInv
  <2>2. rollback => adj[cur[w]] \subseteq Spreading(w)'
    BY <2>1 DEF Spreading
  <2> QED
    BY <1>2, <2>1, <2>2 DEF Spreads, Spreading
<1>7. CASE SkipLoad(w)
  <2>1. PICK s \in left[w] :
          /\ left' = [left EXCEPT ![w] = @ \ {s}]
          /\ IF state[s] \in Decided
             THEN pc' = [pc EXCEPT ![w] = IF left[w] = {s} THEN "finish" ELSE "skip"]
             ELSE /\ batch' = [batch EXCEPT ![w] = <<s>>]
                  /\ pc' = [pc EXCEPT ![w] = "cas"]
    BY <1>7 DEF SkipLoad, Goto
  <2>2. state' = state /\ pc[w] = "skip" /\ Spreading(w) = left[w]
    BY <1>7 DEF SkipLoad, nodes, Spreading
  <2>3. state[s] \in {"Pending", "Skipped"}
    BY <1>2, <2>1, <2>2, DoomedNotReady DEF WorkerInv
  <2>4. left[w] \ {s} \subseteq Spreading(w)'
    BY <1>2, <2>1 DEF Spreading
  <2>5. state[s] = "Skipped" \/ s \in Spreading(w)'
    <3>1. CASE state[s] = "Pending"
      <4>1. batch'[w] = <<s>> /\ pc'[w] = "cas"
        BY <1>2, <2>1, <3>1 DEF Decided
      <4> QED
        BY <4>1 DEF Spreading
    <3> QED
      BY <2>3, <3>1
  <2> QED
    BY <2>2, <2>4, <2>5 DEF Spreads
<1>8. CASE SkipCas(w)
  <2> DEFINE s == batch[w][1]
  <2>1. /\ state' = IF state[s] = seen[w] THEN [state EXCEPT ![s] = "Skipped"] ELSE state
        /\ left' = [left EXCEPT ![w] = IF state[s] = seen[w] THEN left[w] \cup adj[s]
                                       ELSE left[w]]
        /\ pc' = [pc EXCEPT ![w] =
                    IF (IF state[s] = seen[w] THEN left[w] \cup adj[s] ELSE left[w]) = {}
                    THEN "finish" ELSE "skip"]
        /\ pc[w] = "cas"
    BY <1>8 DEF SkipCas, SkipsNext, Goto
  <2>2. s \in Node /\ Doomed(s) /\ state[s] \in {"Pending", "Skipped"}
    BY <1>2, <2>1, DoomedNotReady DEF WorkerInv
  <2>3. Spreading(w) = left[w] \cup {s}
    BY <2>1 DEF Spreading
  <2>4. Spreading(w)' = left'[w]
    BY <1>2, <2>1 DEF Spreading
  <2>5. CASE state[s] = seen[w]
    BY <1>2, <2>1, <2>2, <2>3, <2>4, <2>5 DEF Spreads
  <2>6. CASE state[s] # seen[w]
    <3>1. state[s] = "Skipped"
      BY <2>1, <2>2, <2>6
    <3> QED
      BY <1>2, <2>1, <2>2, <2>3, <2>4, <2>6, <3>1 DEF Spreads
  <2> QED
    BY <2>5, <2>6
<1> QED
  BY <1>3, <1>4, <1>5, <1>6, <1>7, <1>8
     DEF Work, LoopTest, WaitFalse, Block, SpuriousWake, Leave, Pop, CheckSkipped,
         Finish, Push, NotifyOne, NotifyMany, nodes

\* The CAS of a worker expects the state its load has seen, which is Pending.
LEMMA WorkSeesPending ==
    ASSUME IInv, SkipInv, NEW w \in Worker, Work(w) \/ SpuriousWake(w)
    PROVE  \A v \in Worker : pc'[v] = "cas" => seen'[v] = "Pending"
<1>1. pc[w] # "off"
  BY DEF Work, LoopTest, WaitFalse, Block, SpuriousWake, Leave, Pop, CheckSkipped,
         Finish, Start, HandlerSucceeds, Resolve, Push, NotifyOne, NotifyMany,
         HandlerRetries, HandlerFails, SkipLoad, SkipCas
<1>2. /\ pc \in [Worker -> WorkerPc]
      /\ left \in [Worker -> SUBSET Node]
      /\ seen \in [Worker -> NodeState \ Decided]
      /\ WorkerInv(w)
      /\ TypeOK /\ ReadyInv
  BY <1>1, RunningFacts DEF WorkerTypeOK
<1>3. ASSUME NEW v \in Worker, v # w, pc'[v] = "cas"
      PROVE  seen'[v] = "Pending"
  BY <1>3, OthersKept DEF SkipInv
<1>4. CASE SkipLoad(w)
  <2>1. PICK s \in left[w] :
          IF state[s] \in Decided
          THEN pc' = [pc EXCEPT ![w] = IF left[w] = {s} THEN "finish" ELSE "skip"]
          ELSE seen' = [seen EXCEPT ![w] = state[s]]
    BY <1>4 DEF SkipLoad, Goto
  <2>2. state[s] \in {"Pending", "Skipped"}
    BY <1>2, <1>4, <2>1, DoomedNotReady DEF WorkerInv, SkipLoad
  <2>3. pc'[w] = "cas" => seen'[w] = "Pending"
    BY <1>2, <2>1, <2>2 DEF Decided
  <2> QED
    BY <1>3, <2>3
<1>5. CASE ~SkipLoad(w)
  <2>1. pc'[w] # "cas"
    <3>1. CASE LoopTest(w) \/ WaitFalse(w) \/ Block(w) \/ SpuriousWake(w)
      BY <1>2, <3>1 DEF LoopTest, WaitFalse, Block, SpuriousWake, Goto
    <3>2. CASE Leave(w) \/ Finish(w)
      BY <1>2, <3>2 DEF Leave, Finish, NotifyAll
    <3>3. CASE Pop(w) \/ CheckSkipped(w) \/ Start(w) \/ Push(w)
      BY <1>2, <3>3 DEF Pop, CheckSkipped, Start, Push, Goto
    <3>4. CASE HandlerSucceeds(w) \/ HandlerRetries(w) \/ HandlerFails(w)
      BY <1>2, <3>4 DEF HandlerSucceeds, HandlerRetries, HandlerFails, Goto
    <3>5. CASE Resolve(w)
      BY <1>2, <3>5 DEF Resolve, Goto
    <3>6. CASE NotifyOne(w) \/ NotifyMany(w)
      BY <1>2, <3>6 DEF NotifyOne, NotifyMany, NotifyAll, Goto
    <3>7. CASE SkipCas(w)
      BY <1>2, <3>7 DEF SkipCas, Goto
    <3> QED
      BY <1>5, <3>1, <3>2, <3>3, <3>4, <3>5, <3>6, <3>7 DEF Work
  <2> QED
    BY <1>3, <2>1
<1> QED
  BY <1>4, <1>5

LEMMA WorkKeepsSkip ==
    ASSUME IInv, SkipInv, NEW w \in Worker, Work(w) \/ SpuriousWake(w)
    PROVE  SkipInv'
<1>1. UNCHANGED <<adj, rollback>>
  BY DEF Work, LoopTest, WaitFalse, Block, SpuriousWake, Leave, Pop, CheckSkipped,
         Finish, Start, HandlerSucceeds, Resolve, Push, NotifyOne, NotifyMany,
         HandlerRetries, HandlerFails, SkipLoad, SkipCas, caller, config
<1>2. adj \in [Node -> SUBSET Node]
  BY GraphsAssumption DEF IInv, TypeOK, CallerTypeOK
<1>3. Spreads(w)
  BY WorkSpreads DEF SkipInv
<1>4. \A n \in Node : state[n] = "Failed" => state'[n] = "Failed"
  BY WorkKeepsDecided DEF Decided
<1>5. ASSUME NEW n \in Node, state'[n] = "Skipped"
      PROVE  BelowFailure(n)'
  <2> SUFFICES ASSUME NEW S \in SUBSET Node,
                      \A p \in Node : state'[p] = "Failed" \/ p \in S => adj[p] \subseteq S
               PROVE  n \in S
    BY <1>1 DEF BelowFailure
  <2>1. \A p \in Node : state[p] = "Failed" \/ p \in S => adj[p] \subseteq S
    BY <1>4
  <2>2. \A p \in Node : state[p] = "Skipped" => p \in S
    BY <2>1 DEF SkipInv, BelowFailure
  <2>3. CASE Doomed(n)
    BY <2>1, <2>2, <2>3 DEF Doomed, Preds
  <2> QED
    BY <1>3, <1>5, <2>2, <2>3 DEF Spreads
<1>6. ASSUME rollback, NEW p \in Node, state'[p] \in {"Failed", "Skipped"}, NEW s \in adj[p]
      PROVE  state'[s] = "Skipped" \/ \E v \in Worker : s \in Spreading(v)'
  <2>1. s \in Node
    BY <1>2
  <2>2. CASE state[p] \in {"Failed", "Skipped"}
    <3>1. CASE state[s] = "Skipped"
      BY <2>1, <3>1, WorkKeepsDecided DEF Decided
    <3>2. CASE \E v \in Worker : s \in Spreading(v)
      <4>1. PICK v \in Worker : s \in Spreading(v)
        BY <3>2
      <4>2. CASE v = w
        BY <1>3, <4>1, <4>2 DEF Spreads
      <4>3. CASE v # w
        BY <4>1, <4>3, OthersKept
      <4> QED
        BY <4>2, <4>3
    <3> QED
      BY <1>6, <2>2, <3>1, <3>2 DEF SkipInv
  <2>3. CASE adj[p] \subseteq Spreading(w)'
    BY <2>3
  <2> QED
    BY <1>3, <1>6, <2>2, <2>3 DEF Spreads
<1>7. \A v \in Worker : pc'[v] = "cas" => seen'[v] = "Pending"
  BY WorkSeesPending
<1> QED
  BY <1>1, <1>5, <1>6, <1>7 DEF SkipInv

LEMMA NextOutcome == IInv /\ OutcomeInv /\ [Next]_vars => OutcomeInv'
<1> SUFFICES ASSUME IInv, OutcomeInv, [Next]_vars PROVE OutcomeInv'
  OBVIOUS
<1>1. CASE Execute
  <2>1. /\ phase = "idle"
        /\ UNCHANGED adj
        /\ ~Cyclic(adj)
        /\ state' = [n \in Node |-> IF n \in Sources THEN "Ready" ELSE "Pending"]
        /\ remaining' = [n \in Node |-> InDegree(n)]
        /\ pc' = [w \in Worker |-> "loop"]
    BY <1>1 DEF Execute, config
  <2>2. Queued' = Sources
    <3>1. /\ ready_queue' \in [1..Cardinality(Sources) -> Sources]
          /\ \A t \in Sources : \E i \in 1..Cardinality(Sources) : ready_queue'[i] = t
      BY <1>1 DEF Execute, QueueOrders, Bijection, Injection, Surjection
    <3> QED
      BY <3>1 DEF Queued, Range
  <2>3. \A n \in Node : n \notin Sources => InDegree(n) # 0
    BY PredsFinite, FS_EmptySet DEF Sources, InDegree
  <2>4. PlacedInv'
    BY <2>1, <2>2, <2>3 DEF PlacedInv
  <2>5. DrainInv' /\ SkipInv'
    BY <2>1 DEF DrainInv, SkipInv
  <2>6. ~Cyclic(adj)'
    BY <2>1 DEF Cyclic
  <2> QED
    BY <2>4, <2>5, <2>6 DEF OutcomeInv
<1>2. CASE ExecuteRefused \/ Join \/ Reset
  BY <1>2 DEF ExecuteRefused, Join, Reset, OutcomeInv
<1>3. CASE CancelStore \/ CancelNotify \/ UNCHANGED vars
  <2>1. /\ UNCHANGED <<adj, rollback, phase, state, remaining, ready_queue, active_workers,
                       cur, left, batch, seen>>
        /\ cancelled' \/ UNCHANGED cancelled
        /\ pc' = pc \/ pc' = NotifyAll(pc)
    BY <1>3 DEF CancelStore, CancelNotify, vars, config, nodes, locals
  <2>2. pc \in [Worker -> WorkerPc]
    BY DEF IInv, TypeOK, WorkerTypeOK
  <2>3. \A v \in Worker : pc'[v] = pc[v] \/ (pc[v] = "blocked" /\ pc'[v] = "wait")
    BY <2>1, <2>2 DEF NotifyAll
  <2>4. \A v \in Worker : Holding(v)' = Holding(v) /\ Spreading(v)' = Spreading(v)
    BY <2>1, <2>3 DEF Holding, Spreading
  <2>5. PlacedInv => PlacedInv'
    BY <2>1, <2>3, <2>4 DEF PlacedInv, Queued
  <2>6. DrainInv => DrainInv'
    BY <2>1, <2>3 DEF DrainInv, Drained
  <2>7. SkipInv => SkipInv'
    BY <2>1, <2>3, <2>4 DEF SkipInv, BelowFailure
  <2>8. ~Cyclic(adj) => ~Cyclic(adj)'
    BY <2>1 DEF Cyclic
  <2> QED
    BY <2>1, <2>5, <2>6, <2>7, <2>8 DEF OutcomeInv
<1>4. ASSUME NEW w \in Worker, Work(w) \/ SpuriousWake(w)
      PROVE  OutcomeInv'
  <2>1. pc[w] # "off" /\ UNCHANGED <<adj, phase>>
    BY <1>4 DEF Work, LoopTest, WaitFalse, Block, SpuriousWake, Leave, Pop, CheckSkipped,
         Finish, Start, HandlerSucceeds, Resolve, Push, NotifyOne, NotifyMany,
         HandlerRetries, HandlerFails, SkipLoad, SkipCas, caller, config
  <2>2. phase = "running"
    BY <2>1, WorkImpliesRunning
  <2>3. PlacedInv' /\ DrainInv' /\ SkipInv'
    BY <1>4, <2>2, WorkKeepsPlaced, WorkKeepsDrain, WorkKeepsSkip DEF OutcomeInv
  <2>4. ~Cyclic(adj)'
    BY <2>1, <2>2 DEF OutcomeInv, Cyclic
  <2> QED
    BY <2>3, <2>4 DEF OutcomeInv
<1> QED
  BY <1>1, <1>2, <1>3, <1>4 DEF Next

\* Nothing undecided is ever forgotten, no worker leaves while work is left, and
\* the nodes skipped so far are below a failure, in every reachable state.
THEOREM OutcomeInvariantHolds == Spec => []OutcomeInv
<1>1. Init => OutcomeInv
  BY DEF Init, OutcomeInv
<1>2. IInv /\ OutcomeInv /\ [Next]_vars => OutcomeInv'
  BY NextOutcome
<1> QED
  BY <1>1, <1>2, InvariantHolds, PTL DEF Spec

----------------------------------------------------------------------------
(* What execute() leaves behind                                            *)

\* A set of naturals that is not empty has a least element.
LEMMA LeastNatural ==
    ASSUME NEW T, T \subseteq Nat, T # {}
    PROVE  \E x \in T : \A y \in T : ~(y < x)
<1>1. \E x \in T : \A y \in T : <<y, x>> \notin OpToRel(<, Nat)
  BY NatLessThanWellFounded, WFMin
<1> QED
  BY <1>1 DEF OpToRel

\* In a graph without a cycle no set of nodes gives each of its members a
\* predecessor inside the set.
LEMMA AcyclicHasSource ==
    ASSUME adj \in [Node -> SUBSET Node], ~Cyclic(adj),
           NEW U \in SUBSET Node, \A n \in U : \E p \in U : n \in adj[p]
    PROVE  U = {}
<1> SUFFICES ASSUME U # {} PROVE FALSE
  OBVIOUS
<1> DEFINE Fed == {S \in SUBSET Node : S # {} /\ \A n \in S : \E p \in S : n \in adj[p]}
<1>1. \A S \in SUBSET Node : IsFiniteSet(S) /\ Cardinality(S) \in Nat
  BY NodeAssumption, FS_Subset, FS_CardinalityType
<1>2. PICK S \in Fed : \A T \in Fed : ~(Cardinality(T) < Cardinality(S))
  <2> DEFINE Sizes == {Cardinality(S) : S \in Fed}
  <2>1. Sizes \subseteq Nat /\ Sizes # {}
    BY <1>1
  <2>2. \E x \in Sizes : \A y \in Sizes : ~(y < x)
    BY <2>1, LeastNatural
  <2> QED
    BY <2>2
<1>3. PICK n \in S : adj[n] \cap S = {}
  BY DEF Cyclic
<1>4. S \ {n} \in Fed
  BY <1>3
<1>5. Cardinality(S \ {n}) = Cardinality(S) - 1
  BY <1>1, <1>3, FS_RemoveElement
<1>6. Cardinality(S) \in Nat /\ ~(Cardinality(S \ {n}) < Cardinality(S))
  BY <1>1, <1>2, <1>4, Zenon
<1> QED
  BY <1>5, <1>6

\* When every worker has left an execution nobody cancelled, what is undecided
\* is Pending and waits for a predecessor that has not completed.
LEMMA AtJoin ==
    ASSUME IInv, OutcomeInv, Join, ~cancelled,
           NEW n \in Node, state[n] \notin Decided
    PROVE  state[n] = "Pending" /\ \E p \in Preds(n) : state[p] # "Completed"
<1>1. phase = "running" /\ \A w \in Worker : pc[w] = "exited"
  BY DEF Join
<1>2. /\ PlacedInv /\ DrainInv /\ CounterInv
      /\ state \in [Node -> NodeState]
  BY <1>1 DEF IInv, ExecutionInv, OutcomeInv, TypeOK, NodeTypeOK
<1>3. Queued = {}
  BY <1>1, <1>2, WorkerAssumption, EmptySeqFacts DEF DrainInv, Drained, Queued
<1>4. state[n] = "Pending" /\ remaining[n] # 0
  BY <1>1, <1>2, <1>3 DEF PlacedInv, Holding, NodeState, Decided
<1>5. Uncounted(n) # {}
  BY <1>2, <1>4, FS_EmptySet DEF CounterInv
<1> QED
  BY <1>1, <1>4, <1>5 DEF Uncounted

\* When execute() returns uncancelled with rollback on, every node is decided
\* and the skipped ones are exactly those below a failed one.
THEOREM SkippedIsBelowFailureHolds == Spec => SkippedIsBelowFailure
<1> DEFINE Left == phase = "running" /\ phase' = "idle" /\ ~cancelled /\ rollback =>
                     \A n \in Node : /\ state[n] \in Decided
                                     /\ state[n] = "Skipped" <=> BelowFailure(n)
<1>1. IInv /\ OutcomeInv /\ [Next]_vars => [Left]_vars
  <2> SUFFICES ASSUME IInv, OutcomeInv, Next,
                      phase = "running", phase' = "idle", ~cancelled, rollback
               PROVE  \A n \in Node : /\ state[n] \in Decided
                                      /\ state[n] = "Skipped" <=> BelowFailure(n)
    OBVIOUS
  <2>1. Join
    BY DEF Next, Execute, ExecuteRefused, Reset, CancelStore, CancelNotify,
         Work, LoopTest, WaitFalse, Block, SpuriousWake, Leave, Pop, CheckSkipped,
         Finish, Start, HandlerSucceeds, Resolve, Push, NotifyOne, NotifyMany,
         HandlerRetries, HandlerFails, SkipLoad, SkipCas, caller
  <2>2. /\ adj \in [Node -> SUBSET Node]
        /\ state \in [Node -> NodeState]
        /\ SkipInv /\ ~Cyclic(adj)
    BY GraphsAssumption DEF IInv, TypeOK, CallerTypeOK, NodeTypeOK, OutcomeInv
  <2>3. \A w \in Worker : Spreading(w) = {}
    BY <2>1 DEF Join, Spreading
  <2>4. \A p \in Node : state[p] \in {"Failed", "Skipped"} =>
          \A s \in adj[p] : state[s] = "Skipped"
    BY <2>2, <2>3 DEF SkipInv
  <2> DEFINE U == {n \in Node : state[n] \notin Decided}
  <2>5. \A n \in U : \E p \in U : n \in adj[p]
    <3> SUFFICES ASSUME NEW n \in U PROVE \E p \in U : n \in adj[p]
      OBVIOUS
    <3>1. state[n] = "Pending" /\ \E p \in Preds(n) : state[p] # "Completed"
      BY <2>1, AtJoin
    <3>2. PICK p \in Preds(n) : state[p] # "Completed"
      BY <3>1
    <3>3. p \in Node /\ n \in adj[p]
      BY DEF Preds
    <3>4. state[p] \notin {"Failed", "Skipped"}
      BY <2>4, <3>1, <3>3
    <3> QED
      BY <3>2, <3>3, <3>4 DEF Decided
  <2>6. U = {}
    <3> HIDE DEF U
    <3>1. U \in SUBSET Node
      BY DEF U
    <3> QED
      BY <2>2, <2>5, <3>1, AcyclicHasSource
  <2>7. ASSUME NEW n \in Node, BelowFailure(n)
        PROVE  state[n] = "Skipped"
    <3> DEFINE S == {m \in Node : state[m] = "Skipped"}
    <3>1. \A p \in Node : state[p] = "Failed" \/ p \in S => adj[p] \subseteq S
      BY <2>2, <2>4
    <3> QED
      BY <2>7, <3>1 DEF BelowFailure
  <2> QED
    BY <2>2, <2>6, <2>7 DEF SkipInv
<1> QED
  BY <1>1, InvariantHolds, OutcomeInvariantHolds, PTL DEF Spec, SkippedIsBelowFailure

----------------------------------------------------------------------------
(* The refinement: the executor implements DagExecution                    *)

LEMMA OutcomeFacts ==
    /\ Outcome("Completed") = "completed"
    /\ Outcome("Failed") = "failed"
    /\ Outcome("Skipped") = "skipped"
    /\ Outcome("Pending") = "undecided"
    /\ Outcome("Ready") = "undecided"
    /\ Outcome("Running") = "undecided"
BY DEF Outcome

\* A step of one thread decides the node it has in its hands, or nothing.
LEMMA WorkRefines ==
    ASSUME IInv, OutcomeInv, NEW w \in Worker, Work(w) \/ SpuriousWake(w)
    PROVE  Abstract!Next \/ UNCHANGED Abstract!vars
<1> DEFINE outcome == [n \in Node |-> Outcome(state[n])]
<1>1. pc[w] # "off" /\ UNCHANGED <<adj, phase, cancelled, summary>>
  BY DEF Work, LoopTest, WaitFalse, Block, SpuriousWake, Leave, Pop, CheckSkipped,
         Finish, Start, HandlerSucceeds, Resolve, Push, NotifyOne, NotifyMany,
         HandlerRetries, HandlerFails, SkipLoad, SkipCas, caller, config
<1>2. /\ state \in [Node -> NodeState]
      /\ WorkerInv(w)
      /\ phase = "running"
      /\ TypeOK /\ ReadyInv /\ DependencyOrder /\ SkipInv
  BY <1>1, RunningFacts DEF NodeTypeOK, IInv, OutcomeInv
<1>3. ASSUME outcome' = outcome
      PROVE  UNCHANGED Abstract!vars
  BY <1>1, <1>3 DEF Abstract!vars
<1>4. CASE UNCHANGED state
  BY <1>3, <1>4
<1>5. CASE Start(w) \/ HandlerRetries(w)
  <2>1. /\ state[cur[w]] \in {"Ready", "Running"}
        /\ \E u \in {"Ready", "Running"} : state' = [state EXCEPT ![cur[w]] = u]
    BY <1>2, <1>5 DEF Start, HandlerRetries, WorkerInv
  <2>2. \A n \in Node : Outcome(state'[n]) = Outcome(state[n])
    BY <1>2, <2>1, OutcomeFacts
  <2> QED
    BY <1>3, <2>2
<1>6. CASE Resolve(w)
  <2>1. PICK s \in left[w] :
          state' = IF BecomesReady(s) THEN [state EXCEPT ![s] = "Ready"] ELSE state
    BY <1>6 DEF Resolve
  <2>2. \A n \in Node : Outcome(state'[n]) = Outcome(state[n])
    BY <1>2, <2>1, OutcomeFacts DEF BecomesReady
  <2> QED
    BY <1>3, <2>2
<1>7. ASSUME cur[w] \in Node, state[cur[w]] = "Running"
      PROVE  Abstract!Runnable(cur[w])
  <2>1. \A p \in Preds(cur[w]) : p \in Node /\ state[p] = "Completed"
    BY <1>2, <1>7 DEF DependencyOrder, Preds
  <2> QED
    BY <1>7, <2>1, OutcomeFacts DEF Abstract!Runnable, Abstract!Preds, Preds
<1>8. CASE HandlerSucceeds(w)
  <2>1. /\ cur[w] \in Node /\ state[cur[w]] = "Running"
        /\ state' = [state EXCEPT ![cur[w]] = "Completed"]
    BY <1>2, <1>8 DEF HandlerSucceeds, WorkerInv
  <2>2. outcome' = [outcome EXCEPT ![cur[w]] = "completed"]
    BY <1>2, <2>1, OutcomeFacts
  <2>3. Abstract!Complete(cur[w])
    BY <1>1, <1>2, <1>7, <2>1, <2>2 DEF Abstract!Complete
  <2> QED
    BY <2>1, <2>3 DEF Abstract!Next
<1>9. CASE HandlerFails(w)
  <2>1. /\ cur[w] \in Node /\ state[cur[w]] = "Running"
        /\ state' = [state EXCEPT ![cur[w]] = "Failed"]
    BY <1>2, <1>9 DEF HandlerFails, WorkerInv
  <2>2. outcome' = [outcome EXCEPT ![cur[w]] = "failed"]
    BY <1>2, <2>1, OutcomeFacts
  <2>3. Abstract!Fail(cur[w])
    BY <1>1, <1>2, <1>7, <2>1, <2>2 DEF Abstract!Fail
  <2> QED
    BY <2>1, <2>3 DEF Abstract!Next
<1>10. CASE SkipCas(w)
  <2> DEFINE s == batch[w][1]
  <2>1. /\ state' = IF state[s] = seen[w] THEN [state EXCEPT ![s] = "Skipped"] ELSE state
        /\ pc[w] = "cas"
    BY <1>10 DEF SkipCas
  <2>2. s \in Node /\ Doomed(s) /\ seen[w] = "Pending"
    BY <1>2, <2>1 DEF WorkerInv, TypeOK, WorkerTypeOK, SkipInv
  <2>3. CASE state[s] = seen[w]
    <3>1. outcome[s] = "undecided"
      BY <2>2, <2>3, OutcomeFacts
    <3>2. \E p \in Abstract!Preds(s) : outcome[p] \in {"failed", "skipped"}
      BY <2>2, OutcomeFacts DEF Doomed, Preds, Abstract!Preds
    <3>3. outcome' = [outcome EXCEPT ![s] = "skipped"]
      BY <1>2, <2>1, <2>2, <2>3, OutcomeFacts
    <3>4. Abstract!Skip(s)
      BY <1>1, <1>2, <3>1, <3>2, <3>3 DEF Abstract!Skip
    <3> QED
      BY <2>2, <3>4 DEF Abstract!Next
  <2> QED
    BY <1>4, <2>1, <2>3
<1> QED
  BY <1>4, <1>5, <1>6, <1>8, <1>9, <1>10
     DEF Work, LoopTest, WaitFalse, Block, SpuriousWake, Leave, Pop, CheckSkipped,
         Finish, Push, NotifyOne, NotifyMany, SkipLoad, nodes

\* summary.success means that every node completed and nobody cancelled.
LEMMA SuccessIsAllCompleted ==
    ASSUME IInv, OutcomeInv, CountersMatch, phase = "running", ~cancelled
    PROVE  Success <=> \A n \in Node : state[n] = "Completed"
<1>1. /\ CountersAgree
      /\ state \in [Node -> NodeState]
      /\ adj \in [Node -> SUBSET Node]
      /\ SkipInv
  BY GraphsAssumption
     DEF CountersMatch, CountersAgree, InState, IInv, TypeOK, CallerTypeOK, NodeTypeOK,
         OutcomeInv
<1>2. ASSUME \A n \in Node : state[n] = "Completed"
      PROVE  Success
  <2>1. InState("Completed") = Node /\ InState("Failed") = {} /\ InState("Skipped") = {}
    BY <1>2 DEF InState
  <2>2. Cardinality(Node) \in Nat
    BY NodeAssumption, FS_CardinalityType
  <2> QED
    BY <1>1, <2>1, <2>2, FS_EmptySet DEF CountersAgree, Success
<1>3. ASSUME Success
      PROVE  \A n \in Node : state[n] = "Completed"
  <2>1. InState("Failed") = {}
    BY <1>1, <1>3, InStateFinite, FS_EmptySet DEF Success, CountersAgree
  <2>2. \A n \in Node : state[n] # "Failed"
    BY <2>1 DEF InState
  <2>3. \A n \in Node : ~BelowFailure(n)
    <3>1. \A p \in Node : state[p] = "Failed" \/ p \in {} => adj[p] \subseteq {}
      BY <2>2
    <3>2. {} \in SUBSET Node
      OBVIOUS
    <3> QED
      BY <3>1, <3>2, Zenon DEF BelowFailure
  <2>4. InState("Skipped") = {}
    BY <1>1, <2>3 DEF SkipInv, InState
  <2>5. Cardinality(InState("Completed")) = Cardinality(Node)
    BY <1>1, <1>3, <2>4, InStateFinite, FS_EmptySet DEF Success, CountersAgree
  <2>6. InState("Completed") \in SUBSET Node
    BY DEF InState
  <2>7. InState("Completed") = Node
    BY <2>5, <2>6, NodeAssumption, FS_Subset
  <2> QED
    BY <2>7 DEF InState
<1> QED
  BY <1>2, <1>3

LEMMA JoinRefines == IInv /\ OutcomeInv /\ CountersMatch /\ Join => Abstract!Next
<1> SUFFICES ASSUME IInv, OutcomeInv, CountersMatch, Join PROVE Abstract!Next
  OBVIOUS
<1> DEFINE outcome == [n \in Node |-> Outcome(state[n])]
<1>1. /\ phase = "running" /\ phase' = "idle"
      /\ UNCHANGED <<adj, state, cancelled>>
      /\ summary'.success = Success
      /\ state \in [Node -> NodeState]
      /\ cancelled \in BOOLEAN
  BY DEF Join, config, nodes, IInv, TypeOK, CallerTypeOK, NodeTypeOK
<1>2. ~cancelled => \A n \in Node : ~Abstract!Runnable(n)
  <2> SUFFICES ASSUME ~cancelled, NEW n \in Node, Abstract!Runnable(n) PROVE FALSE
    OBVIOUS
  <2>1. Outcome(state[n]) = "undecided"
    BY DEF Abstract!Runnable
  <2>2. state[n] \notin Decided
    BY <2>1, OutcomeFacts DEF Decided
  <2>3. PICK p \in Preds(n) : state[p] # "Completed"
    BY <2>2, AtJoin
  <2>4. Outcome(state[p]) # "completed" /\ p \in Node
    BY <1>1, <2>3, OutcomeFacts DEF NodeState, Preds
  <2> QED
    BY <2>3, <2>4 DEF Abstract!Runnable, Abstract!Preds, Preds
<1>3. Success <=> (~cancelled /\ \A n \in Node : outcome[n] = "completed")
  <2>1. \A n \in Node : state[n] = "Completed" <=> Outcome(state[n]) = "completed"
    BY <1>1, OutcomeFacts DEF NodeState
  <2>2. CASE cancelled
    BY <2>2 DEF Success
  <2>3. CASE ~cancelled
    BY <1>1, <2>1, <2>3, SuccessIsAllCompleted
  <2> QED
    BY <2>2, <2>3
<1>4. summary'.success = (~cancelled /\ \A n \in Node : outcome[n] = "completed")
  <2>1. Success \in BOOLEAN
    BY DEF Success
  <2> QED
    BY <1>1, <1>3, <2>1
<1>5. Abstract!Return
  BY <1>1, <1>2, <1>4 DEF Abstract!Return
<1> QED
  BY <1>5 DEF Abstract!Next

\* For every graph, every number of workers and every retry limit the executor
\* implements DagExecution: seen through the states of its nodes it only takes
\* steps a caller of execute() is promised, and returns only when nothing that
\* could still run is left or somebody cancelled.
THEOREM ImplementsDagExecutionHolds == Spec => ImplementsDagExecution
<1>1. Init => Abstract!Init
  BY OutcomeFacts DEF Init, Abstract!Init, Abstract!Undecided
<1>2. IInv /\ OutcomeInv /\ CountersMatch /\ [Next]_vars => [Abstract!Next]_(Abstract!vars)
  <2> SUFFICES ASSUME IInv, OutcomeInv, CountersMatch, [Next]_vars
               PROVE  Abstract!Next \/ UNCHANGED Abstract!vars
    OBVIOUS
  <2>1. CASE Execute
    <3>1. Abstract!Begin
      <4>1. /\ phase = "idle" /\ phase' = "running" /\ cancelled' = FALSE
            /\ UNCHANGED <<adj, summary>>
            /\ \A n \in Node : state'[n] \in {"Ready", "Pending"}
        BY <2>1 DEF Execute, config
      <4> QED
        BY <4>1, OutcomeFacts DEF Abstract!Begin, Abstract!Undecided
    <3> QED
      BY <3>1 DEF Abstract!Next
  <2>2. CASE ExecuteRefused
    <3>1. Abstract!Refuse
      BY <2>2 DEF ExecuteRefused, Abstract!Refuse, config, nodes
    <3> QED
      BY <3>1 DEF Abstract!Next
  <2>3. CASE Join
    BY <2>3, JoinRefines
  <2>4. CASE Reset
    <3>1. Abstract!Reset
      BY <2>4, OutcomeFacts DEF Reset, Abstract!Reset, Abstract!Undecided, config
    <3> QED
      BY <3>1 DEF Abstract!Next
  <2>5. CASE CancelStore
    <3>1. Abstract!Cancel
      BY <2>5 DEF CancelStore, Abstract!Cancel, config, nodes
    <3> QED
      BY <3>1 DEF Abstract!Next
  <2>6. CASE CancelNotify \/ UNCHANGED vars
    BY <2>6 DEF CancelNotify, vars, Abstract!vars, config, nodes
  <2>7. CASE \E w \in Worker : Work(w) \/ SpuriousWake(w)
    BY <2>7, WorkRefines
  <2> QED
    BY <2>1, <2>2, <2>3, <2>4, <2>5, <2>6, <2>7 DEF Next
<1> QED
  BY <1>1, <1>2, InvariantHolds, OutcomeInvariantHolds, CountersMatchHolds, PTL
     DEF Spec, ImplementsDagExecution, Abstract!Spec
=============================================================================
