-------------------------- MODULE ModelRouterProofs --------------------------
(***************************************************************************)
(* Proofs about ModelRouter, for any providers, threads and chains: the    *)
(* conjuncts of IInv are shown stable one by one, then put together.       *)
(***************************************************************************)
EXTENDS ModelRouter, TLAPS

----------------------------------------------------------------------------
(* The transitions of a health entry                                       *)

LEMMA HealthFacts ==
    ASSUME NEW h \in Health
    PROVE  /\ Fresh \in Health
           /\ AfterSuccess(h) = Fresh
           /\ AfterFailure(h) \in Health
           /\ AfterFailure(h).status \in {"Offline", "Degraded"}
           /\ AfterFailure(h).status = "Offline" =>
                AfterFailure(h).failures = OfflineAfter
           /\ AfterFailure(h).probe = FALSE
  BY DEF Health, Status, Fresh, AfterSuccess, AfterFailure, OfflineAfter

LEMMA ProbeFacts ==
    ASSUME NEW h \in Health
    PROVE  ProbeBegins(h) \in Health /\ ProbeBegins(h).status = "HalfOpen"
  BY DEF Health, Status, ProbeBegins

LEMMA PollFacts ==
    ASSUME NEW h \in Health, NEW b \in BOOLEAN
    PROVE  /\ AfterPoll(h, b) \in Health
           /\ AfterPoll(h, b) = Fresh \/ AfterPoll(h, b).status = "Degraded"
  BY DEF Health, Status, AfterPoll, Fresh, OfflineAfter

LEMMA FreshFacts ==
    Fresh \in Health /\ Fresh.status = "Healthy" /\ Fresh.probe = FALSE
  BY DEF Health, Status, Fresh, OfflineAfter

----------------------------------------------------------------------------
(* Initial states                                                          *)

LEMMA InitIInv == Init => IInv
<1> SUFFICES ASSUME Init PROVE IInv
  OBVIOUS
<1>1. TypeOK
  BY FreshFacts DEF Init, TypeOK, NoPoll
<1>2. RegisteredInv /\ ChainInv
  BY DEF Init, RegisteredInv, ChainInv, NoPoll
<1>3. HalfOpenIsProbed /\ OfflineRecovers /\ HealthyIsClean
  BY FreshFacts DEF Init, HalfOpenIsProbed, OfflineRecovers, HealthyIsClean
<1> QED
  BY <1>1, <1>2, <1>3 DEF IInv

----------------------------------------------------------------------------
(* Type correctness                                                        *)

LEMMA HeadIsProvider ==
    ASSUME TypeOK, ChainInv, NEW t \in Thread, pc[t] \in {"lookup", "call"}
    PROVE  /\ Head(todo[t]) \in Provider
           /\ todo[t] \in Seq(Provider)
           /\ todo[t] # <<>>
  BY DEF TypeOK, ChainInv

LEMMA ReturnType ==
    ASSUME TypeOK, NEW t \in Thread, Return(t)
    PROVE  /\ pc' \in [Thread -> {"idle", "check", "lookup", "call"}]
           /\ todo' \in [Thread -> Seq(Provider)]
           /\ probing' \in [Thread -> BOOLEAN]
<1>1. <<>> \in Seq(Provider)
  OBVIOUS
<1>2. todo' = [todo EXCEPT ![t] = <<>>]
  BY DEF Return
<1>3. todo' \in [Thread -> Seq(Provider)]
  BY <1>1, <1>2 DEF TypeOK
<1> QED
  BY <1>3 DEF Return, Goto, TypeOK

LEMMA TypeStep ==
    ASSUME TypeOK, ChainInv, [Next]_vars
    PROVE  TypeOK'
<1> USE DEF registry, requests
<1>1. ASSUME NEW t \in Thread, NEW p \in Provider, Route(t, p)
      PROVE  TypeOK'
  <2>1. ChainFrom(p, fallback) \in Seq(Provider)
    BY ChainsAssumption DEF TypeOK
  <2> QED
    BY <1>1, <2>1 DEF Route, Goto, TypeOK
<1>2. ASSUME NEW t \in Thread, Shed(t) \/ Missing(t)
      PROVE  TypeOK'
  <2>1. todo[t] \in Seq(Provider) /\ todo[t] # <<>>
    BY <1>2 DEF TypeOK, ChainInv, Shed, Missing
  <2>2. Tail(todo[t]) \in Seq(Provider)
    BY <2>1
  <2>3. /\ UNCHANGED <<registered, fallback, health, cooled, abandoned, poll>>
        /\ NextProvider(t)
    BY <1>2 DEF Shed, Missing
  <2> QED
    BY <2>2, <2>3 DEF NextProvider, Goto, TypeOK
<1>3. ASSUME NEW t \in Thread, AttemptClosed(t) \/ Found(t)
      PROVE  TypeOK'
  BY <1>3 DEF AttemptClosed, Found, Goto, TypeOK
<1>4. ASSUME NEW t \in Thread, AttemptProbe(t)
      PROVE  TypeOK'
  <2>1. Head(todo[t]) \in Provider /\ health[Head(todo[t])] \in Health
    BY <1>4 DEF AttemptProbe, TypeOK
  <2> QED
    BY <1>4, <2>1, ProbeFacts DEF AttemptProbe, Goto, TypeOK
<1>5. ASSUME NEW t \in Thread, Exhausted(t)
      PROVE  TypeOK'
  <2>1. UNCHANGED <<registered, fallback, health, cooled, abandoned, poll>> /\ Return(t)
    BY <1>5 DEF Exhausted
  <2> QED
    BY <2>1, ReturnType DEF TypeOK
<1>6. ASSUME NEW t \in Thread, CallSucceeds(t)
      PROVE  TypeOK'
  <2>1. Return(t) /\ UNCHANGED <<registered, fallback, cooled, abandoned, poll>>
    BY <1>6 DEF CallSucceeds
  <2>2. health' \in [Provider -> Health]
    BY <1>6, FreshFacts DEF CallSucceeds, AfterSuccess, TypeOK
  <2> QED
    BY <2>1, <2>2, ReturnType DEF TypeOK
<1>7. ASSUME NEW t \in Thread, CallFails(t)
      PROVE  TypeOK'
  <2>1. Head(todo[t]) \in Provider /\ todo[t] \in Seq(Provider) /\ todo[t] # <<>>
    BY <1>7, HeadIsProvider DEF CallFails
  <2>2. health[Head(todo[t])] \in Health /\ Tail(todo[t]) \in Seq(Provider)
    BY <2>1 DEF TypeOK
  <2> QED
    BY <1>7, <2>1, <2>2, HealthFacts DEF CallFails, NextProvider, Goto, TypeOK
<1>8. ASSUME NEW t \in Thread, CallThrows(t)
      PROVE  TypeOK'
  <2>1. Head(todo[t]) \in Provider
    BY <1>8, HeadIsProvider DEF CallThrows
  <2>2. Return(t) /\ UNCHANGED <<registered, fallback, health, cooled, poll>>
    BY <1>8 DEF CallThrows
  <2>3. abandoned' \in SUBSET Provider
    BY <1>8, <2>1 DEF CallThrows, TypeOK
  <2> QED
    BY <2>2, <2>3, ReturnType DEF TypeOK
<1>9. ASSUME NEW p \in Provider, RegisterProvider(p) \/ ResetHealth(p)
      PROVE  TypeOK'
  <2>1. /\ UNCHANGED <<fallback, pc, todo, probing, abandoned, poll>>
        /\ health' = [health EXCEPT ![p] = Fresh]
        /\ cooled' = [cooled EXCEPT ![p] = TRUE]
        /\ registered' \in SUBSET Provider
    BY <1>9 DEF RegisterProvider, ResetHealth, TypeOK
  <2>2. health' \in [Provider -> Health] /\ cooled' \in [Provider -> BOOLEAN]
    BY <2>1, FreshFacts DEF TypeOK
  <2> QED
    BY <2>1, <2>2 DEF TypeOK
<1>10. ASSUME NEW c \in Chains, SetFallbackChain(c)
       PROVE  TypeOK'
  BY <1>10 DEF SetFallbackChain, TypeOK
<1>11. ASSUME NEW p \in Provider, CooldownElapses(p)
       PROVE  TypeOK'
  BY <1>11 DEF CooldownElapses, TypeOK
<1>12. CASE PollStart
  BY <1>12 DEF PollStart, NoPoll, TypeOK
<1>13. ASSUME NEW p \in Provider, PollAsk(p)
       PROVE  TypeOK'
  BY <1>13 DEF PollAsk, TypeOK
<1>14. CASE PollWrite
  <2>1. poll.at \in Provider /\ poll.left \in SUBSET Provider
        /\ poll.healthy \in BOOLEAN
    BY <1>14 DEF PollWrite, TypeOK
  <2>2. AfterPoll(health[poll.at], poll.healthy) \in Health
    BY <2>1, PollFacts DEF TypeOK
  <2> QED
    BY <1>14, <2>1, <2>2 DEF PollWrite, NoPoll, TypeOK
<1>15. CASE UNCHANGED vars
  BY <1>15 DEF vars, TypeOK
<1> QED
  BY <1>1, <1>2, <1>3, <1>4, <1>5, <1>6, <1>7, <1>8, <1>9, <1>10, <1>11,
     <1>12, <1>13, <1>14, <1>15 DEF Next, Request

----------------------------------------------------------------------------
(* What a step does to an entry of health_map_                             *)

HealthMoves(h, next) ==
    \/ next \in {h, Fresh, AfterFailure(h), ProbeBegins(h)}
    \/ \E b \in BOOLEAN : next = AfterPoll(h, b)

LEMMA HealthChange ==
    ASSUME TypeOK, ChainInv, [Next]_vars, NEW q \in Provider
    PROVE  HealthMoves(health[q], health'[q])
<1> USE DEF HealthMoves
<1>1. CASE UNCHANGED health
  BY <1>1
<1>2. ASSUME NEW t \in Thread, AttemptProbe(t)
      PROVE  HealthMoves(health[q], health'[q])
  <2>1. Head(todo[t]) \in Provider
    BY <1>2 DEF AttemptProbe, TypeOK
  <2>2. health' = [health EXCEPT ![Head(todo[t])] = ProbeBegins(@)]
    BY <1>2 DEF AttemptProbe
  <2> QED
    BY <2>1, <2>2 DEF TypeOK
<1>3. ASSUME NEW t \in Thread, CallSucceeds(t)
      PROVE  HealthMoves(health[q], health'[q])
  <2>1. health' = [health EXCEPT ![Head(todo[t])] = Fresh]
    BY <1>3 DEF CallSucceeds, AfterSuccess
  <2> QED
    BY <2>1 DEF TypeOK
<1>4. ASSUME NEW t \in Thread, CallFails(t)
      PROVE  HealthMoves(health[q], health'[q])
  <2>1. health' = [health EXCEPT ![Head(todo[t])] = AfterFailure(@)]
    BY <1>4 DEF CallFails
  <2> QED
    BY <2>1 DEF TypeOK
<1>5. ASSUME NEW p \in Provider, RegisterProvider(p) \/ ResetHealth(p)
      PROVE  HealthMoves(health[q], health'[q])
  <2>1. health' = [health EXCEPT ![p] = Fresh]
    BY <1>5 DEF RegisterProvider, ResetHealth
  <2> QED
    BY <2>1 DEF TypeOK
<1>6. CASE PollWrite
  <2>1. health' = [health EXCEPT ![poll.at] = AfterPoll(@, poll.healthy)]
    BY <1>6 DEF PollWrite
  <2>2. poll.healthy \in BOOLEAN
    BY DEF TypeOK
  <2> QED
    BY <2>1, <2>2 DEF TypeOK
<1>7. ASSUME NEW t \in Thread, Request(t) \/ \E p \in Provider : Route(t, p)
      PROVE  \/ UNCHANGED health
             \/ AttemptProbe(t) \/ CallSucceeds(t) \/ CallFails(t)
  BY <1>7 DEF Request, Route, AttemptClosed, Shed, Exhausted, Found, Missing, CallThrows
<1>8. ASSUME NEW p \in Provider, PollAsk(p) \/ CooldownElapses(p)
      PROVE  UNCHANGED health
  BY <1>8 DEF PollAsk, CooldownElapses
<1>9. ASSUME PollStart \/ UNCHANGED vars \/ \E c \in Chains : SetFallbackChain(c)
      PROVE  UNCHANGED health
  BY <1>9 DEF PollStart, vars, SetFallbackChain
<1> QED
  BY <1>1, <1>2, <1>3, <1>4, <1>5, <1>6, <1>7, <1>8, <1>9 DEF Next

LEMMA BreakerStep ==
    ASSUME TypeOK, ChainInv, OfflineRecovers, HealthyIsClean, [Next]_vars
    PROVE  OfflineRecovers' /\ HealthyIsClean'
<1>1. ASSUME NEW p \in Provider
      PROVE  /\ health'[p].status = "Offline" =>
                   ~health'[p].probe /\ health'[p].failures = OfflineAfter
             /\ health'[p].status = "Healthy" => health'[p] = Fresh
  <2>1. HealthMoves(health[p], health'[p]) /\ health[p] \in Health
    BY HealthChange DEF TypeOK
  <2>2. CASE health'[p] = health[p]
    BY <2>2 DEF OfflineRecovers, HealthyIsClean
  <2>3. CASE health'[p] = Fresh
    BY <2>3, FreshFacts
  <2>4. CASE health'[p] = AfterFailure(health[p])
    BY <2>1, <2>4, HealthFacts
  <2>5. CASE health'[p] = ProbeBegins(health[p])
    BY <2>1, <2>5, ProbeFacts
  <2>6. ASSUME NEW b \in BOOLEAN, health'[p] = AfterPoll(health[p], b)
        PROVE  health'[p] = Fresh \/ health'[p].status = "Degraded"
    BY <2>1, <2>6, PollFacts
  <2> QED
    BY <2>1, <2>2, <2>3, <2>4, <2>5, <2>6, FreshFacts DEF HealthMoves
<1> QED
  BY <1>1 DEF OfflineRecovers, HealthyIsClean

----------------------------------------------------------------------------
(* The registry and the chains                                             *)

LEMMA ChainStep ==
    ASSUME TypeOK, ChainInv, [Next]_vars
    PROVE  ChainInv'
<1> USE DEF registry, requests
<1>1. ASSUME NEW t \in Thread, AttemptClosed(t) \/ AttemptProbe(t) \/ Found(t)
      PROVE  ChainInv'
  <2>1. todo[t] # <<>> /\ UNCHANGED todo /\ pc' = [pc EXCEPT ![t] = pc'[t]]
    BY <1>1 DEF AttemptClosed, AttemptProbe, Found, Goto, ChainInv, TypeOK
  <2> QED
    BY <2>1 DEF ChainInv, TypeOK
<1>2. ASSUME NEW t \in Thread,
             \/ Shed(t) \/ Missing(t) \/ Exhausted(t) \/ CallSucceeds(t)
             \/ CallFails(t) \/ CallThrows(t)
             \/ \E p \in Provider : Route(t, p)
      PROVE  ChainInv'
  <2>1. \E s, to : /\ todo' = [todo EXCEPT ![t] = s]
                   /\ pc' = [pc EXCEPT ![t] = to]
                   /\ to \in {"idle", "check"}
    BY <1>2 DEF Shed, Missing, Exhausted, CallSucceeds, CallFails, CallThrows,
                Route, NextProvider, Return, Goto
  <2> QED
    BY <2>1 DEF ChainInv, TypeOK
<1>3. ASSUME UNCHANGED requests
      PROVE  ChainInv'
  BY <1>3 DEF ChainInv
<1>4. ASSUME NEW p \in Provider,
             RegisterProvider(p) \/ ResetHealth(p) \/ PollAsk(p) \/ CooldownElapses(p)
      PROVE  UNCHANGED requests
  BY <1>4 DEF RegisterProvider, ResetHealth, PollAsk, CooldownElapses
<1>5. ASSUME \/ PollStart \/ PollWrite \/ UNCHANGED vars
             \/ \E c \in Chains : SetFallbackChain(c)
      PROVE  UNCHANGED requests
  BY <1>5 DEF PollStart, PollWrite, SetFallbackChain, vars
<1> QED
  BY <1>1, <1>2, <1>3, <1>4, <1>5 DEF Next, Request

LEMMA RegistryGrows ==
    ASSUME TypeOK, [Next]_vars
    PROVE  registered \subseteq registered'
<1> USE DEF registry, requests
<1>1. ASSUME NEW t \in Thread, Request(t) \/ \E p \in Provider : Route(t, p)
      PROVE  UNCHANGED registered
  BY <1>1 DEF Request, Route, AttemptClosed, AttemptProbe, Shed, Exhausted, Found,
              Missing, CallSucceeds, CallFails, CallThrows
<1>2. ASSUME NEW p \in Provider,
             RegisterProvider(p) \/ ResetHealth(p) \/ PollAsk(p) \/ CooldownElapses(p)
      PROVE  registered \subseteq registered'
  BY <1>2 DEF RegisterProvider, ResetHealth, PollAsk, CooldownElapses
<1>3. ASSUME \/ PollStart \/ PollWrite \/ UNCHANGED vars
             \/ \E c \in Chains : SetFallbackChain(c)
      PROVE  UNCHANGED registered
  BY <1>3 DEF PollStart, PollWrite, SetFallbackChain, vars
<1> QED
  BY <1>1, <1>2, <1>3 DEF Next

\* A health entry that changes belongs to a registered provider.
LEMMA OnlyRegisteredChange ==
    ASSUME TypeOK, ChainInv, RegisteredInv, [Next]_vars,
           NEW q \in Provider, q \notin registered
    PROVE  health'[q] = Fresh
<1> USE DEF registry, requests
<1>0. health[q] = Fresh
  BY DEF RegisteredInv
<1>1. ASSUME NEW t \in Thread, AttemptProbe(t)
      PROVE  health'[q] = Fresh
  <2>1. Head(todo[t]) \in Provider /\ health[Head(todo[t])].status = "Offline"
    BY <1>1 DEF AttemptProbe, MayProbe, TypeOK
  <2>2. Head(todo[t]) # q
    BY <1>0, <2>1, FreshFacts
  <2> QED
    BY <1>0, <1>1, <2>2 DEF AttemptProbe, TypeOK
<1>2. ASSUME NEW t \in Thread, CallSucceeds(t) \/ CallFails(t)
      PROVE  health'[q] = Fresh
  <2>1. Head(todo[t]) # q
    BY <1>2 DEF CallSucceeds, CallFails, RegisteredInv
  <2>2. \E r : health' = [health EXCEPT ![Head(todo[t])] = r]
    BY <1>2 DEF CallSucceeds, CallFails
  <2> QED
    BY <1>0, <2>1, <2>2 DEF TypeOK
<1>3. ASSUME NEW p \in Provider, RegisterProvider(p) \/ ResetHealth(p)
      PROVE  health'[q] = Fresh
  BY <1>0, <1>3 DEF RegisterProvider, ResetHealth, TypeOK
<1>4. CASE PollWrite
  <2>1. poll.at # q
    BY <1>4 DEF PollWrite, RegisteredInv
  <2> QED
    BY <1>0, <1>4, <2>1 DEF PollWrite, TypeOK
<1>5. ASSUME NEW t \in Thread, Request(t) \/ \E p \in Provider : Route(t, p)
      PROVE  \/ UNCHANGED health
             \/ AttemptProbe(t) \/ CallSucceeds(t) \/ CallFails(t)
  BY <1>5 DEF Request, Route, AttemptClosed, Shed, Exhausted, Found, Missing, CallThrows
<1>6. ASSUME NEW p \in Provider, PollAsk(p) \/ CooldownElapses(p)
      PROVE  UNCHANGED health
  BY <1>6 DEF PollAsk, CooldownElapses
<1>7. ASSUME PollStart \/ UNCHANGED vars \/ \E c \in Chains : SetFallbackChain(c)
      PROVE  UNCHANGED health
  BY <1>7 DEF PollStart, vars, SetFallbackChain
<1> QED
  BY <1>0, <1>1, <1>2, <1>3, <1>4, <1>5, <1>6, <1>7 DEF Next

LEMMA RegisteredStep ==
    ASSUME TypeOK, ChainInv, RegisteredInv, [Next]_vars
    PROVE  RegisteredInv'
<1> USE DEF registry, requests
<1>1. \A p \in Provider \ registered' : health'[p] = Fresh
  BY OnlyRegisteredChange, RegistryGrows
<1>2. \A t \in Thread : pc'[t] = "call" => Head(todo'[t]) \in registered'
  <2> SUFFICES ASSUME NEW u \in Thread, pc'[u] = "call"
               PROVE  Head(todo'[u]) \in registered'
    OBVIOUS
  <2>1. ASSUME NEW t \in Thread, Found(t)
        PROVE  Head(todo'[u]) \in registered'
    BY <2>1 DEF Found, Goto, TypeOK, RegisteredInv
  <2>2. ASSUME NEW t \in Thread, NEW to \in {"idle", "check", "lookup"},
               pc' = [pc EXCEPT ![t] = to], \E s : todo' = [todo EXCEPT ![t] = s]
        PROVE  Head(todo'[u]) \in registered'
    <3>1. u # t /\ pc[u] = "call" /\ todo'[u] = todo[u]
      BY <2>2 DEF TypeOK
    <3> QED
      BY <3>1, RegistryGrows DEF RegisteredInv
  <2>3. ASSUME NEW t \in Thread,
               \/ AttemptClosed(t) \/ AttemptProbe(t)
               \/ Shed(t) \/ Missing(t) \/ Exhausted(t) \/ CallSucceeds(t)
               \/ CallFails(t) \/ CallThrows(t)
               \/ \E p \in Provider : Route(t, p)
        PROVE  \E to \in {"idle", "check", "lookup"} :
                  /\ pc' = [pc EXCEPT ![t] = to]
                  /\ \E s : todo' = [todo EXCEPT ![t] = s]
    <3>1. CASE AttemptClosed(t) \/ AttemptProbe(t)
      <4>1. pc' = [pc EXCEPT ![t] = "lookup"] /\ todo' = todo
        BY <3>1 DEF AttemptClosed, AttemptProbe, Goto
      <4>2. todo' = [todo EXCEPT ![t] = todo[t]]
        BY <4>1 DEF TypeOK
      <4> QED
        BY <4>1, <4>2
    <3> QED
      BY <2>3, <3>1 DEF Shed, Missing, Exhausted, CallSucceeds, CallFails,
                CallThrows, Route, NextProvider, Return, Goto
  <2>4. ASSUME UNCHANGED requests
        PROVE  Head(todo'[u]) \in registered'
    BY <2>4, RegistryGrows DEF RegisteredInv
  <2>5. ASSUME NEW p \in Provider,
               \/ RegisterProvider(p) \/ ResetHealth(p)
               \/ PollAsk(p) \/ CooldownElapses(p)
        PROVE  UNCHANGED requests
    BY <2>5 DEF RegisterProvider, ResetHealth, PollAsk, CooldownElapses
  <2>6. ASSUME \/ PollStart \/ PollWrite \/ UNCHANGED vars
               \/ \E c \in Chains : SetFallbackChain(c)
        PROVE  UNCHANGED requests
    BY <2>6 DEF PollStart, PollWrite, SetFallbackChain, vars
  <2> HIDE DEF requests
  <2> QED
    BY <2>1, <2>2, <2>3, <2>4, <2>5, <2>6 DEF Next, Request
<1>3. poll'.left \subseteq registered' /\ poll'.at \in registered' \cup {NoProvider}
  <2>1. CASE PollStart
    BY <2>1, RegistryGrows DEF PollStart, NoPoll, RegisteredInv
  <2>2. ASSUME NEW p \in Provider, PollAsk(p)
        PROVE  poll'.left \subseteq registered' /\ poll'.at \in registered' \cup {NoProvider}
    BY <2>2, RegistryGrows DEF PollAsk, RegisteredInv
  <2>3. CASE PollWrite
    BY <2>3, RegistryGrows DEF PollWrite, NoPoll, RegisteredInv
  <2>4. CASE UNCHANGED poll
    BY <2>4, RegistryGrows DEF RegisteredInv
  <2>5. ASSUME NEW t \in Thread, Request(t) \/ \E p \in Provider : Route(t, p)
        PROVE  UNCHANGED poll
    BY <2>5 DEF Request, Route, AttemptClosed, AttemptProbe, Shed, Exhausted, Found,
                Missing, CallSucceeds, CallFails, CallThrows
  <2>6. ASSUME NEW p \in Provider,
               RegisterProvider(p) \/ ResetHealth(p) \/ CooldownElapses(p)
        PROVE  UNCHANGED poll
    BY <2>6 DEF RegisterProvider, ResetHealth, CooldownElapses
  <2>7. ASSUME UNCHANGED vars \/ \E c \in Chains : SetFallbackChain(c)
        PROVE  UNCHANGED poll
    BY <2>7 DEF SetFallbackChain, vars
  <2> QED
    BY <2>1, <2>2, <2>3, <2>4, <2>5, <2>6, <2>7 DEF Next
<1> QED
  BY <1>1, <1>2, <1>3 DEF RegisteredInv

----------------------------------------------------------------------------
(* A half-open provider is being probed                                    *)

LEMMA HalfOpenStep ==
    ASSUME IInv, [Next]_vars
    PROVE  HalfOpenIsProbed'
<1> USE DEF registry, requests
<1> USE DEF IInv
<1> SUFFICES ASSUME NEW q \in Provider, health'[q].status = "HalfOpen"
             PROVE  q \in abandoned' \/ \E t \in Thread : Probes(t, q)'
  BY DEF HalfOpenIsProbed
<1> DEFINE Goal == q \in abandoned' \/ \E t \in Thread : Probes(t, q)'
<1>0. /\ health[q] \in Health
      /\ health'[q] # Fresh
  BY FreshFacts DEF TypeOK
\* Threads other than t keep their requests, and so their probes.
<1>1. ASSUME NEW t \in Thread, health[q].status = "HalfOpen",
             abandoned \subseteq abandoned',
             ~Probes(t, q),
             \A u \in Thread \ {t} : /\ pc'[u] = pc[u]
                                     /\ todo'[u] = todo[u]
                                     /\ probing'[u] = probing[u]
      PROVE  Goal
  <2>1. q \in abandoned \/ \E u \in Thread : Probes(u, q)
    BY <1>1 DEF HalfOpenIsProbed
  <2>2. ASSUME NEW u \in Thread, Probes(u, q)
        PROVE  Probes(u, q)'
    BY <1>1, <2>2 DEF Probes
  <2> QED
    BY <1>1, <2>1, <2>2
<1>2. ASSUME UNCHANGED <<requests, abandoned>>, health[q].status = "HalfOpen"
      PROVE  Goal
  BY <1>2 DEF HalfOpenIsProbed, Probes
<1>3. ASSUME NEW t \in Thread, AttemptProbe(t)
      PROVE  Goal
  <2>1. CASE Head(todo[t]) = q
    <3>1. Probes(t, q)'
      BY <1>3, <2>1 DEF AttemptProbe, Goto, Probes, TypeOK
    <3> QED
      BY <3>1
  <2>2. CASE Head(todo[t]) # q
    <3>1. health'[q] = health[q]
      BY <1>3, <2>2 DEF AttemptProbe, TypeOK
    <3>2. q \in abandoned => q \in abandoned'
      BY <1>3, <2>2 DEF AttemptProbe
    <3>3. ASSUME NEW u \in Thread, Probes(u, q)
          PROVE  Probes(u, q)'
      BY <1>3, <3>3 DEF AttemptProbe, Goto, Probes, TypeOK
    <3> QED
      BY <3>1, <3>2, <3>3 DEF HalfOpenIsProbed
  <2> QED
    BY <2>1, <2>2
<1>4. ASSUME NEW t \in Thread, AttemptClosed(t) \/ Found(t)
      PROVE  Goal
  <2>1. UNCHANGED <<health, abandoned, todo, probing>>
    BY <1>4 DEF AttemptClosed, Found
  <2>2. ASSUME NEW u \in Thread, Probes(u, q)
        PROVE  Probes(u, q)'
    BY <1>4, <2>2 DEF AttemptClosed, Found, Goto, Probes, TypeOK
  <2> QED
    BY <2>1, <2>2 DEF HalfOpenIsProbed
<1>5. ASSUME NEW t \in Thread, Shed(t) \/ Exhausted(t) \/ \E p \in Provider : Route(t, p)
      PROVE  Goal
  <2>1. ~Probes(t, q) /\ UNCHANGED <<health, abandoned>>
    BY <1>5 DEF Shed, Exhausted, Route, Probes
  <2>2. \A u \in Thread \ {t} : /\ pc'[u] = pc[u]
                                /\ todo'[u] = todo[u]
                                /\ probing'[u] = probing[u]
    BY <1>5 DEF Shed, Exhausted, Route, NextProvider, Return, Goto, TypeOK
  <2> QED
    BY <1>1, <2>1, <2>2
<1>6. ASSUME NEW t \in Thread, Missing(t)
      PROVE  Goal
  <2>1. UNCHANGED <<health, abandoned>>
    BY <1>6 DEF Missing
  <2>2. Head(todo[t]) # q
    BY <1>0, <1>6, <2>1 DEF Missing, RegisteredInv
  <2>3. \A u \in Thread \ {t} : /\ pc'[u] = pc[u]
                                /\ todo'[u] = todo[u]
                                /\ probing'[u] = probing[u]
    BY <1>6 DEF Missing, NextProvider, Goto, TypeOK
  <2> QED
    BY <1>1, <2>1, <2>2, <2>3 DEF Probes
<1>7. ASSUME NEW t \in Thread, CallSucceeds(t) \/ CallFails(t)
      PROVE  Goal
  <2>1. Head(todo[t]) # q
    <3>1. CASE CallSucceeds(t)
      BY <1>0, <3>1 DEF CallSucceeds, AfterSuccess, TypeOK
    <3>2. CASE CallFails(t)
      BY <1>0, <3>2, HealthFacts DEF CallFails, TypeOK
    <3> QED
      BY <1>7, <3>1, <3>2
  <2>2. health'[q] = health[q] /\ UNCHANGED abandoned
    BY <1>7, <2>1 DEF CallSucceeds, CallFails, TypeOK
  <2>3. \A u \in Thread \ {t} : /\ pc'[u] = pc[u]
                                /\ todo'[u] = todo[u]
                                /\ probing'[u] = probing[u]
    BY <1>7 DEF CallSucceeds, CallFails, NextProvider, Return, Goto, TypeOK
  <2> QED
    BY <1>1, <2>1, <2>2, <2>3 DEF Probes
<1>8. ASSUME NEW t \in Thread, CallThrows(t)
      PROVE  Goal
  <2>1. health'[q] = health[q] /\ abandoned \subseteq abandoned'
    BY <1>8 DEF CallThrows
  <2>2. \A u \in Thread \ {t} : /\ pc'[u] = pc[u]
                                /\ todo'[u] = todo[u]
                                /\ probing'[u] = probing[u]
    BY <1>8 DEF CallThrows, Return, Goto, TypeOK
  <2>3. CASE Probes(t, q)
    BY <1>8, <2>3 DEF CallThrows, Probes
  <2>4. CASE ~Probes(t, q)
    BY <1>1, <2>1, <2>2, <2>4
  <2> QED
    BY <2>3, <2>4
<1>9. ASSUME NEW p \in Provider, RegisterProvider(p) \/ ResetHealth(p)
      PROVE  Goal
  <2>1. health' = [health EXCEPT ![p] = Fresh] /\ UNCHANGED <<requests, abandoned>>
    BY <1>9 DEF RegisterProvider, ResetHealth
  <2>2. health'[q] = health[q]
    BY <1>0, <2>1 DEF TypeOK
  <2> QED
    BY <1>2, <2>1, <2>2
<1>10. ASSUME PollWrite
       PROVE  Goal
  <2>1. /\ health' = [health EXCEPT ![poll.at] = AfterPoll(@, poll.healthy)]
        /\ UNCHANGED <<requests, abandoned>>
    BY <1>10 DEF PollWrite
  <2>2. poll.healthy \in BOOLEAN
    BY DEF TypeOK
  <2>3. poll.at # q
    BY <1>0, <2>1, <2>2, PollFacts DEF TypeOK
  <2>4. health'[q] = health[q]
    BY <2>1, <2>3 DEF TypeOK
  <2> QED
    BY <1>2, <2>1, <2>4
<1>11. ASSUME NEW p \in Provider, PollAsk(p) \/ CooldownElapses(p)
       PROVE  UNCHANGED <<health, requests, abandoned>>
  BY <1>11 DEF PollAsk, CooldownElapses
<1>12. ASSUME PollStart \/ UNCHANGED vars \/ \E c \in Chains : SetFallbackChain(c)
       PROVE  UNCHANGED <<health, requests, abandoned>>
  BY <1>12 DEF PollStart, vars, SetFallbackChain
<1>13. ASSUME UNCHANGED <<health, requests, abandoned>>
       PROVE  Goal
  BY <1>2, <1>13
<1> HIDE DEF Goal, requests, IInv
<1>14. ASSUME NEW t \in Thread, Request(t) \/ \E p \in Provider : Route(t, p)
       PROVE  Goal
  BY <1>3, <1>4, <1>5, <1>6, <1>7, <1>8, <1>14 DEF Request
<1>15. ASSUME NEW p \in Provider,
              RegisterProvider(p) \/ ResetHealth(p) \/ PollAsk(p) \/ CooldownElapses(p)
       PROVE  Goal
  BY <1>9, <1>11, <1>13, <1>15
<1>16. ASSUME \/ PollStart \/ PollWrite \/ UNCHANGED vars
              \/ \E c \in Chains : SetFallbackChain(c)
       PROVE  Goal
  <2>1. CASE PollWrite
    BY <1>10, <2>1
  <2>2. CASE PollStart \/ UNCHANGED vars \/ \E c \in Chains : SetFallbackChain(c)
    <3>1. UNCHANGED <<health, requests, abandoned>>
      BY <1>12, <2>2
    <3> QED
      BY <1>13, <3>1
  <2> QED
    BY <1>16, <2>1, <2>2
<1>17. Goal
  <2>1. CASE UNCHANGED vars
    BY <1>16, <2>1
  <2>2. CASE Next
    BY <1>14, <1>15, <1>16, <2>2, Zenon DEF Next
  <2> QED
    BY <2>1, <2>2
<1> QED
  BY <1>17 DEF Goal

----------------------------------------------------------------------------
(* Theorems                                                                *)

\* The inductive invariant holds, for any providers, threads and chains.
THEOREM InvariantHolds == Spec => []IInv
<1>1. Init => IInv
  BY InitIInv
<1>2. IInv /\ [Next]_vars => IInv'
  BY TypeStep, ChainStep, RegisteredStep, BreakerStep, HalfOpenStep DEF IInv
<1> QED
  BY <1>1, <1>2, PTL DEF Spec

\* The variables of the router keep their types.
THEOREM TypeCorrect == Spec => []TypeOK
<1>1. IInv => TypeOK
  BY DEF IInv
<1> QED
  BY <1>1, InvariantHolds, PTL

\* A half-open provider always has a probe on its way, unless it was abandoned
\* by an exception: the breaker itself never locks a provider out.
THEOREM HalfOpenIsProbedHolds == Spec => []HalfOpenIsProbed
<1>1. IInv => HalfOpenIsProbed
  BY DEF IInv
<1> QED
  BY <1>1, InvariantHolds, PTL

\* An Offline provider has no stale probe flag: its next request after the
\* cooldown is admitted.
THEOREM OfflineRecoversHolds == Spec => []OfflineRecovers
<1>1. IInv => OfflineRecovers
  BY DEF IInv
<1> QED
  BY <1>1, InvariantHolds, PTL

\* A provider that counts as Healthy has no failures left and no probe flag,
\* whichever stale result, poll or reset wrote its entry last.
THEOREM HealthyIsCleanHolds == Spec => []HealthyIsClean
<1>1. IInv => HealthyIsClean
  BY DEF IInv
<1> QED
  BY <1>1, InvariantHolds, PTL
=============================================================================
