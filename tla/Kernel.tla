------------------------------- MODULE Kernel -------------------------------
(***************************************************************************)
(* kernel/Kernel around events/EventBus: run() and its event loop in one   *)
(* or two threads; pause(), resume() and stop() from others; everybody     *)
(* publishes.  The kernel's state and stop flag are atomics without a      *)
(* lock, so each access is a step; the bus takes its mutex for publish and *)
(* for the moment in which processEvents takes the pending events, and     *)
(* walks its subscribers without it.                                       *)
(***************************************************************************)
EXTENDS Naturals, Sequences, SequencesExt, FiniteSets

CONSTANTS
    KernelThread,   \* threads that call the kernel
    MaxEvents       \* bound: events published

ASSUME KernelAssumption == MaxEvents \in Nat

VARIABLES
    kstate,         \* state_
    should_stop,    \* shouldStop_
    subsystems,     \* agents, scheduler and planner: "none", "failed", "up", "down"
    bus,            \* eventBus_ exists
    kpc,            \* where each thread is
    target,         \* the state its setState stores
    published,      \* number of events published: event n is the n-th
    pending,        \* pendingEvents_
    batch,          \* thread -> eventsToProcess
    delivered,      \* history: events handed to their subscribers
    raced           \* history: subscribers_ was written during a walk

kernelControl == <<kstate, should_stop, subsystems, bus>>
busVars == <<published, pending, batch, delivered, raced>>
kernelVars == <<kernelControl, kpc, target, busVars>>

kernelInit ==
    /\ kstate = "Idle" /\ should_stop = FALSE
    /\ subsystems = "none" /\ bus = FALSE
    /\ kpc = [t \in KernelThread |-> "idle"]
    /\ target = [t \in KernelThread |-> "none"]
    /\ published = 0 /\ pending = <<>> /\ delivered = {} /\ raced = FALSE
    /\ batch = [t \in KernelThread |-> <<>>]

To(t, pc) == kpc' = [kpc EXCEPT ![t] = pc]

\* publish, under the mutex of the bus.
Publish ==
    /\ published < MaxEvents
    /\ published' = published + 1
    /\ pending' = Append(pending, published')
    /\ UNCHANGED <<batch, delivered, raced>>

PublishIfBus == IF bus THEN Publish ELSE UNCHANGED busVars

\* initialize, called once, fails before the bus exists, after it, or not at
\* all.  (The state is Idle before it, and run() may be called.)
InitializeKernel ==
    /\ subsystems = "none"
    /\ \/ kstate' = "Error" /\ subsystems' = "failed" /\ UNCHANGED <<bus, busVars>>
       \/ /\ kstate' \in {"Error", "Idle"}
          /\ bus' = TRUE
          /\ subsystems' = (IF kstate' = "Idle" THEN "up" ELSE "failed")
          /\ Publish
    /\ UNCHANGED <<should_stop, kpc, target>>

\* setState: the store, then the event, then on to the next step.
Begin(t, pc, s) ==
    /\ To(t, pc)
    /\ target' = [target EXCEPT ![t] = s]

StoreState(t) ==
    /\ kpc[t] \in {"run", "change"}
    /\ kstate' = target[t]
    /\ To(t, IF kpc[t] = "run" THEN "run event" ELSE "change event")
    /\ UNCHANGED <<should_stop, subsystems, bus, target, busVars>>

AnnounceState(t) ==
    /\ kpc[t] \in {"run event", "change event"}
    /\ PublishIfBus
    /\ To(t, IF kpc[t] = "run event" THEN "clear" ELSE "idle")
    /\ UNCHANGED <<kernelControl, target>>

----------------------------------------------------------------------------
(* run and the event loop                                                  *)

Run(t) ==
    /\ kpc[t] = "idle" /\ kstate \in {"Idle", "Paused"}
    /\ Begin(t, "run", "Running")
    /\ UNCHANGED <<kernelControl, busVars>>

ClearStop(t) ==
    /\ kpc[t] = "clear"
    /\ should_stop' = FALSE
    /\ To(t, "loop")
    /\ UNCHANGED <<kstate, subsystems, bus, target, busVars>>

Turn(t) ==
    /\ kpc[t] = "loop"
    /\ To(t, IF ~should_stop /\ kstate = "Running" /\ bus THEN "take"
             ELSE IF ~should_stop /\ kstate = "Running" THEN "loop" ELSE "idle")
    /\ UNCHANGED <<kernelControl, target, busVars>>

\* Mutant: the events are copied, and stay.
TakeCopy(t) ==
    /\ kpc[t] = "take"
    /\ batch' = [batch EXCEPT ![t] = pending]
    /\ To(t, "walk")
    /\ UNCHANGED <<kernelControl, target, published, pending, delivered, raced>>

\* processEvents: everything pending is taken under the mutex ...
Take(t) ==
    /\ kpc[t] = "take"
    /\ batch' = [batch EXCEPT ![t] = pending]
    /\ pending' = <<>>
    /\ To(t, "walk")
    /\ UNCHANGED <<kernelControl, target, published, delivered, raced>>

\* ... and handed over one by one without it.
Deliver(t) ==
    /\ kpc[t] = "walk" /\ batch[t] # <<>>
    /\ delivered' = delivered \cup {Head(batch[t])}
    /\ batch' = [batch EXCEPT ![t] = Tail(@)]
    /\ UNCHANGED <<kernelControl, kpc, target, published, pending, raced>>

EndBatch(t) ==
    /\ kpc[t] = "walk" /\ batch[t] = <<>>
    /\ To(t, "loop")
    /\ UNCHANGED <<kernelControl, target, busVars>>

----------------------------------------------------------------------------
(* pause, resume, stop and the users of the bus                            *)

PauseKernel(t) ==
    /\ kpc[t] = "idle" /\ kstate = "Running"
    /\ Begin(t, "change", "Paused")
    /\ UNCHANGED <<kernelControl, busVars>>

ResumeKernel(t) ==
    /\ kpc[t] = "idle" /\ kstate = "Paused"
    /\ Begin(t, "change", "Running")
    /\ UNCHANGED <<kernelControl, busVars>>

\* stop in any state, an error included: the flag, the subsystems, Idle.
StopFlag(t) ==
    /\ kpc[t] = "idle"
    /\ should_stop' = TRUE
    /\ To(t, "stopping")
    /\ UNCHANGED <<kstate, subsystems, bus, target, busVars>>

StopSubsystems(t) ==
    /\ kpc[t] = "stopping"
    /\ subsystems' = (IF subsystems = "up" THEN "down" ELSE subsystems)
    /\ Begin(t, "change", "Idle")
    /\ UNCHANGED <<kstate, should_stop, bus, busVars>>

\* Agents, the router and the task graph publish; anyone may subscribe.
PublishEvent == bus /\ Publish /\ UNCHANGED <<kernelControl, kpc, target>>
Subscribe ==
    /\ bus
    /\ raced' = (raced \/ \E t \in KernelThread : kpc[t] = "walk" /\ batch[t] # <<>>)
    /\ UNCHANGED <<kernelControl, kpc, target, published, pending, batch, delivered>>

kernelNext ==
    \/ InitializeKernel \/ PublishEvent \/ Subscribe
    \/ \E t \in KernelThread :
         \/ StoreState(t) \/ AnnounceState(t)
         \/ Run(t) \/ ClearStop(t) \/ Turn(t) \/ Take(t) \/ Deliver(t) \/ EndBatch(t)
         \/ PauseKernel(t) \/ ResumeKernel(t) \/ StopFlag(t) \/ StopSubsystems(t)

kernelSpec == kernelInit /\ [][kernelNext]_kernelVars

----------------------------------------------------------------------------
\* However many loops a pause, a resume and a run have set going, an event
\* published is pending, in one batch or delivered, once: none is lost and
\* none handed over twice, and none taken later overtakes one taken before.
EventsOnce ==
    ~raced =>
        LET taken == [t \in KernelThread |-> ToSet(batch[t])]
            out == delivered \cup UNION {taken[t] : t \in KernelThread}
        IN  /\ out \cup ToSet(pending) = 1..published
            /\ out \cap ToSet(pending) = {}
            /\ \A t \in KernelThread : /\ taken[t] \cap delivered = {}
                                       /\ \A u \in KernelThread \ {t} : taken[t] \cap taken[u] = {}
            /\ \A e \in out, f \in ToSet(pending) : e < f
=============================================================================
