----------------------------- MODULE ModelRouter -----------------------------
(***************************************************************************)
(* Routing of model requests with a circuit breaker per provider           *)
(* (src/src/providers/ModelRouter.cpp).  routeWithFallback walks a chain   *)
(* of providers: health_mutex_ guards the breaker, provider_mutex_ the     *)
(* registry, and the call itself is made with no lock held, so that the    *)
(* health a request saw may be stale when its result is recorded.          *)
(*                                                                         *)
(* An action is one critical section or one call.  Token counts, messages, *)
(* events and the metrics ledger are left out.  consecutive_failures       *)
(* saturates at the threshold it is compared with, time is one bit per     *)
(* provider: its cooldown has elapsed or not.                              *)
(***************************************************************************)
EXTENDS Naturals, Sequences

CONSTANTS
    Provider,   \* provider names
    Thread,     \* threads that route requests
    Chains,     \* the values of fallback_chain_
    NoProvider  \* checkHealthAll is between two providers

ASSUME ProviderAssumption == NoProvider \notin Provider

\* The chain of a request: the initial provider, then the others.
ChainFrom(p, c) == <<p>> \o SelectSeq(c, LAMBDA q : q # p)

ASSUME ChainsAssumption ==
    \A c \in Chains, p \in Provider : ChainFrom(p, c) \in Seq(Provider)

OfflineAfter == 3  \* consecutive failures that open the breaker

VARIABLES
    registered, \* providers_
    fallback,   \* fallback_chain_
    health,     \* health_map_; a missing entry reads as Fresh
    cooled,     \* cooldown_seconds_ have passed since last_failure_time
    pc,         \* where each thread is in routeWithFallback
    todo,       \* the rest of its chain, the current provider first
    probing,    \* its current attempt was admitted as the half-open probe
    abandoned,  \* history: providers whose last probe ended in an exception
    poll        \* checkHealthAll: providers left, the one asked, its answer

registry == <<registered, fallback>>
requests == <<pc, todo, probing>>
vars == <<registered, fallback, health, cooled, pc, todo, probing, abandoned, poll>>

Status == {"Healthy", "Degraded", "HalfOpen", "Offline"}

Health == [status : Status, failures : 0..OfflineAfter, probe : BOOLEAN]

Fresh == [status |-> "Healthy", failures |-> 0, probe |-> FALSE]

NoPoll == [left |-> {}, at |-> NoProvider, healthy |-> FALSE]

----------------------------------------------------------------------------
(* The breaker                                                             *)

\* shouldAttempt in the closed states ...
Closed(p) == health[p].status \in {"Healthy", "Degraded"}

\* ... and in Offline, when the provider may be probed.
MayProbe(p) == health[p].status = "Offline" /\ cooled[p] /\ ~health[p].probe

ProbeBegins(h) == [h EXCEPT !.status = "HalfOpen", !.probe = TRUE]

\* The flag survives the failure of the probe.
FailureKeepingProbe(h) ==
    LET n == IF h.failures < OfflineAfter THEN h.failures + 1 ELSE h.failures
    IN  [status |-> IF n >= OfflineAfter THEN "Offline" ELSE "Degraded",
         failures |-> n,
         probe |-> h.probe]

\* The failed probe leaves the state half open.
FailureInHalfOpen(h) ==
    IF h.status = "HalfOpen" THEN [h EXCEPT !.probe = FALSE] ELSE FailureKeepingProbe(h)

\* recordFailure; the count saturates at the threshold.
AfterFailure(h) ==
    LET n == IF h.failures < OfflineAfter THEN h.failures + 1 ELSE h.failures
    IN  [status |-> IF n >= OfflineAfter THEN "Offline" ELSE "Degraded",
         failures |-> n,
         probe |-> FALSE]

\* recordSuccess that forgets the count of failures.
SuccessKeepingFailures(h) == [Fresh EXCEPT !.failures = h.failures]

AfterSuccess(h) == Fresh

\* checkHealthAll: an unhealthy answer degrades whatever the state was.
AfterPoll(h, healthy) == IF healthy THEN Fresh ELSE [h EXCEPT !.status = "Degraded"]

----------------------------------------------------------------------------
(* routeWithFallback                                                       *)

Init ==
    /\ registered \in SUBSET Provider
    /\ fallback \in Chains
    /\ health = [p \in Provider |-> Fresh]
    /\ cooled = [p \in Provider |-> TRUE]
    /\ pc = [t \in Thread |-> "idle"]
    /\ todo = [t \in Thread |-> <<>>]
    /\ probing = [t \in Thread |-> FALSE]
    /\ abandoned = {}
    /\ poll = NoPoll

Goto(t, to) == pc' = [pc EXCEPT ![t] = to]

\* The provider at hand is given up and the next one of the chain looked at.
NextProvider(t) ==
    /\ todo' = [todo EXCEPT ![t] = Tail(@)]
    /\ probing' = [probing EXCEPT ![t] = FALSE]
    /\ Goto(t, "check")

Return(t) ==
    /\ todo' = [todo EXCEPT ![t] = <<>>]
    /\ probing' = [probing EXCEPT ![t] = FALSE]
    /\ Goto(t, "idle")

\* The chain is copied: a later setFallbackChain does not reach this request.
Route(t, p) ==
    /\ pc[t] = "idle"
    /\ todo' = [todo EXCEPT ![t] = ChainFrom(p, fallback)]
    /\ Goto(t, "check")
    /\ UNCHANGED <<registry, health, cooled, probing, abandoned, poll>>

AttemptClosed(t) ==
    /\ pc[t] = "check" /\ todo[t] # <<>>
    /\ Closed(Head(todo[t]))
    /\ Goto(t, "lookup")
    /\ UNCHANGED <<registry, health, cooled, todo, probing, abandoned, poll>>

AttemptProbe(t) ==
    /\ pc[t] = "check" /\ todo[t] # <<>>
    /\ LET p == Head(todo[t])
       IN  /\ MayProbe(p)
           /\ health' = [health EXCEPT ![p] = ProbeBegins(@)]
           /\ abandoned' = abandoned \ {p}
    /\ probing' = [probing EXCEPT ![t] = TRUE]
    /\ Goto(t, "lookup")
    /\ UNCHANGED <<registry, cooled, todo, poll>>

Shed(t) ==
    /\ pc[t] = "check" /\ todo[t] # <<>>
    /\ ~Closed(Head(todo[t])) /\ ~MayProbe(Head(todo[t]))
    /\ NextProvider(t)
    /\ UNCHANGED <<registry, health, cooled, abandoned, poll>>

\* "All providers in fallback chain exhausted".
Exhausted(t) ==
    /\ pc[t] = "check" /\ todo[t] = <<>>
    /\ Return(t)
    /\ UNCHANGED <<registry, health, cooled, abandoned, poll>>

Found(t) ==
    /\ pc[t] = "lookup"
    /\ Head(todo[t]) \in registered
    /\ Goto(t, "call")
    /\ UNCHANGED <<registry, health, cooled, todo, probing, abandoned, poll>>

Missing(t) ==
    /\ pc[t] = "lookup"
    /\ Head(todo[t]) \notin registered
    /\ NextProvider(t)
    /\ UNCHANGED <<registry, health, cooled, abandoned, poll>>

\* chat or chatStream returns, and recordSuccess.
CallSucceeds(t) ==
    /\ pc[t] = "call"
    /\ LET p == Head(todo[t]) IN health' = [health EXCEPT ![p] = AfterSuccess(@)]
    /\ Return(t)
    /\ UNCHANGED <<registry, cooled, abandoned, poll>>

\* It returns an error: recordFailure, and the next provider.
CallFails(t) ==
    /\ pc[t] = "call"
    /\ LET p == Head(todo[t])
       IN  /\ health' = [health EXCEPT ![p] = AfterFailure(@)]
           /\ cooled' = [cooled EXCEPT ![p] = FALSE]
    /\ NextProvider(t)
    /\ UNCHANGED <<registry, abandoned, poll>>

\* It throws (dump() of text that is not UTF-8, a token callback): nothing
\* is recorded and the exception leaves routeWithFallback.
CallThrows(t) ==
    /\ pc[t] = "call"
    /\ abandoned' = IF probing[t] THEN abandoned \cup {Head(todo[t])} ELSE abandoned
    /\ Return(t)
    /\ UNCHANGED <<registry, health, cooled, poll>>

----------------------------------------------------------------------------
(* The rest of the interface                                               *)

\* registerProvider also replaces the health entry.
RegisterProvider(p) ==
    /\ registered' = registered \cup {p}
    /\ health' = [health EXCEPT ![p] = Fresh]
    /\ cooled' = [cooled EXCEPT ![p] = TRUE]
    /\ UNCHANGED <<fallback, requests, abandoned, poll>>

ResetHealth(p) ==
    /\ health' = [health EXCEPT ![p] = Fresh]
    /\ cooled' = [cooled EXCEPT ![p] = TRUE]
    /\ UNCHANGED <<registry, requests, abandoned, poll>>

SetFallbackChain(c) ==
    /\ fallback' = c
    /\ UNCHANGED <<registered, health, cooled, requests, abandoned, poll>>

\* checkHealthAll copies the registry, asks each provider with no lock held,
\* then writes its entry.
PollStart ==
    /\ poll = NoPoll
    /\ poll' = [NoPoll EXCEPT !.left = registered]
    /\ UNCHANGED <<registry, health, cooled, requests, abandoned>>

PollAsk(p) ==
    /\ poll.at = NoProvider
    /\ p \in poll.left
    /\ \E answer \in BOOLEAN :
         poll' = [left |-> poll.left \ {p}, at |-> p, healthy |-> answer]
    /\ UNCHANGED <<registry, health, cooled, requests, abandoned>>

PollWrite ==
    /\ poll.at # NoProvider
    /\ health' = [health EXCEPT ![poll.at] = AfterPoll(@, poll.healthy)]
    /\ poll' = [NoPoll EXCEPT !.left = poll.left]
    /\ UNCHANGED <<registry, cooled, requests, abandoned>>

\* Time passes.
CooldownElapses(p) ==
    /\ ~cooled[p]
    /\ cooled' = [cooled EXCEPT ![p] = TRUE]
    /\ UNCHANGED <<registry, health, requests, abandoned, poll>>

----------------------------------------------------------------------------
(* The specification                                                       *)

\* The steps of a request once it has begun.
Request(t) ==
    \/ AttemptClosed(t) \/ AttemptProbe(t) \/ Shed(t) \/ Exhausted(t)
    \/ Found(t) \/ Missing(t)
    \/ CallSucceeds(t) \/ CallFails(t) \/ CallThrows(t)

Next ==
    \/ \E t \in Thread : Request(t) \/ \E p \in Provider : Route(t, p)
    \/ \E p \in Provider :
         RegisterProvider(p) \/ ResetHealth(p) \/ PollAsk(p) \/ CooldownElapses(p)
    \/ \E c \in Chains : SetFallbackChain(c)
    \/ PollStart \/ PollWrite

Spec == Init /\ [][Next]_vars

\* A request goes on (a call returns or throws, HTTP requests time out), time
\* passes.  No fairness for callers, resets and polls: nothing schedules them.
Fairness ==
    /\ \A t \in Thread : WF_vars(Request(t))
    /\ \A p \in Provider : WF_vars(CooldownElapses(p))

FairSpec == Spec /\ Fairness

----------------------------------------------------------------------------
(* Properties                                                              *)

\* The breaker, the requests and the poll stay in range; a chain never holds a
\* name that is not a provider's.
TypeOK ==
    /\ registered \in SUBSET Provider
    /\ fallback \in Chains
    /\ health \in [Provider -> Health]
    /\ cooled \in [Provider -> BOOLEAN]
    /\ pc \in [Thread -> {"idle", "check", "lookup", "call"}]
    /\ todo \in [Thread -> Seq(Provider)]
    /\ probing \in [Thread -> BOOLEAN]
    /\ abandoned \in SUBSET Provider
    /\ poll \in [left : SUBSET Provider, at : Provider \cup {NoProvider},
                 healthy : BOOLEAN]

\* Thread t is on its way to p, or calls it, as the half-open probe.
Probes(t, p) ==
    pc[t] \in {"lookup", "call"} /\ todo[t] # <<>> /\ Head(todo[t]) = p /\ probing[t]

\* HalfOpen sheds every request, so only a probe that is still on its way can
\* end it: while a provider is HalfOpen there is one, unless a probe has ended
\* in an exception since the provider was last admitted to one.
HalfOpenIsProbed ==
    \A p \in Provider : health[p].status = "HalfOpen" =>
        p \in abandoned \/ \E t \in Thread : Probes(t, p)

\* An entry of health_map_ that differs from a fresh one belongs to a registered
\* provider, as do the calls and the answers that will write it.
RegisteredInv ==
    /\ \A p \in Provider \ registered : health[p] = Fresh
    /\ \A t \in Thread : pc[t] = "call" => Head(todo[t]) \in registered
    /\ poll.left \subseteq registered
    /\ poll.at \in registered \cup {NoProvider}

\* A thread that has a provider in hand has a chain.
ChainInv == \A t \in Thread : pc[t] \in {"lookup", "call"} => todo[t] # <<>>

\* An Offline provider is never kept offline by a probe_in_flight flag that
\* nobody will clear, and it was opened by enough failures.
OfflineRecovers ==
    \A p \in Provider : health[p].status = "Offline" =>
        ~health[p].probe /\ health[p].failures = OfflineAfter

\* Only a provider whose failures are forgotten counts as Healthy, whichever
\* stale result, poll or reset wrote the entry last.
HealthyIsClean ==
    \A p \in Provider : health[p].status = "Healthy" => health[p] = Fresh

\* The inductive invariant behind the three properties.
IInv ==
    /\ TypeOK
    /\ RegisteredInv
    /\ ChainInv
    /\ HalfOpenIsProbed
    /\ OfflineRecovers
    /\ HealthyIsClean

\* "Exactly 1 probe request should go to primary" (tests/test_providers.cpp):
\* two requests never probe the same provider at once.
AtMostOneProbe ==
    \A p \in Provider : \A t, u \in Thread :
        Probes(t, p) /\ Probes(u, p) => t = u

\* "recovery probing" (FEATURES_DEVELOPMENT_PLAN.md): the half-open state ends.
HalfOpenEnds ==
    \A p \in Provider : health[p].status = "HalfOpen" ~> health[p].status # "HalfOpen"
=============================================================================
