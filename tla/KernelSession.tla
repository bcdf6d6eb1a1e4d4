---------------------------- MODULE KernelSession ----------------------------
(***************************************************************************)
(* The incremental kernel session                                          *)
(* (src/domain/engine/kernel/session.ts): it works through its event queue *)
(* in bounded steps.  A step runs on working copies of the queue and of    *)
(* the entity registry and stages lifecycle transitions with an external   *)
(* port; only when all of it is done and the resulting snapshot passes the *)
(* snapshot schema does the port publish and the session keep the result.  *)
(*                                                                         *)
(* The code is synchronous, but a step calls out: to the dispatcher once   *)
(* per event and to the port.  The step is therefore cut at these calls:   *)
(* BeginStep, one Dispatch per event, and FinishStep or FailStep.  FailStep*)
(* is every way out by an exception - the dispatcher throws, its commands  *)
(* are refused, the port rejects or throws, the snapshot is refused, the   *)
(* commit fails - and is possible at each of these points.                 *)
(*                                                                         *)
(* What the events do is their payload: an event carries one lifecycle     *)
(* transition or none, fixed when it is made; payload says which.          *)
(***************************************************************************)
EXTENDS QueueOps, RegistryOps, Sequences

CONSTANTS
  Times, UsedPhases,  (* what the dispatcher's drafts use                  *)
  EventLimit,         (* eventLimit of the session                         *)
  Horizon,            (* objective.horizonMs                               *)
  Payloads,           (* the payload tables explored                       *)
  Idle,               (* no step is in progress                            *)
  NoLifecycle,        (* payload of an event that is no transition         *)
  Worlds,             (* the initial worlds explored                       *)
  RootEvent,          (* the id of the first policy input                  *)
  NextEvent,          (* the id a resumed pending action continues with    *)
  OtherEvent,         (* another event queued in a resumed run             *)
  Visible,            (* the entities the policy sees, the actor included  *)
  MaxBudget,          (* bound: the largest maxEvents                      *)
  MaxBatch            (* bound: the most drafts of one dispatch            *)

ASSUME SessionAssumption ==
  /\ Times \subseteq Nat /\ UsedPhases \subseteq Phases
  /\ EventLimit \in Nat \ {0} /\ Horizon \in Nat
  /\ {RootEvent, NextEvent, OtherEvent} \subseteq Ids
  /\ RootEvent # NextEvent /\ RootEvent # OtherEvent /\ NextEvent # OtherEvent
  /\ Visible \subseteq EntityIds /\ Visible # {}

(* Payloads are tables of transitions, worlds are tables of entities. *)
ASSUME TablesAssumption ==
  /\ NoLifecycle \notin Lifecycle
  /\ Payloads \subseteq [Ids -> Lifecycle \cup {NoLifecycle}]
  /\ \A world \in Worlds :
       DOMAIN world \subseteq EntityIds /\ world \in [DOMAIN world -> EntityState]

ASSUME SessionBounds == MaxBudget \in Nat /\ MaxBatch \in Nat /\ MaxSafeInteger > 3

VARIABLES
  payload,    (* what each event id carries                                *)
  session,    (* the retained state of the session                         *)
  work,       (* the step in progress, or Idle                             *)
  staged,     (* the events whose transitions the open port batch holds    *)
  published   (* the events whose transitions the port has published       *)

vars == <<payload, session, work, staged, published>>

Stepping == work # Idle

(* An executed event as the trace keeps it. *)
TraceEntry(q, p) ==
  [id |-> p, time |-> q.entries[p].time, seq |-> q.entries[p].seq,
   causes |-> q.entries[p].causes]

IdsOf(trace) == {trace[n].id : n \in DOMAIN trace}

IsLifecycle(e) == payload[e.id] # NoLifecycle

(* The transitions of a trace, in order, as the ids of their events. *)
Effects(trace) ==
  LET upto[n \in 0..Len(trace)] ==
        IF n = 0 THEN << >>
        ELSE IF IsLifecycle(trace[n]) THEN Append(upto[n - 1], trace[n].id)
        ELSE upto[n - 1]
  IN upto[Len(trace)]

-----------------------------------------------------------------------------
(* What EngineSnapshotSchema, the schemas inside it and                    *)
(* assertSnapshotCompatible demand, in parts.                              *)

(* The queue is well formed and the trace lies behind its frontier. *)
FrontierHeld(s) ==
  /\ Restorable(s.queue)
  /\ \A n \in DOMAIN s.trace : LET e == s.trace[n] IN
       /\ e.id \in s.queue.allocated \ Pending(s.queue)
       /\ e.time <= s.queue.clock /\ e.seq <= s.queue.last
       /\ e.time = s.queue.clock => e.seq <= s.queue.current
       /\ \A p \in Pending(s.queue) : s.queue.entries[p].seq # e.seq
  /\ \A m, n \in DOMAIN s.trace : m < n =>
       Earlier(s.trace[m], s.trace[n]) /\ s.trace[m].id # s.trace[n].id

(* Every cause is kept: before its effect in the trace, or queued. *)
CausesKept(s) ==
  /\ \A n \in DOMAIN s.trace : \A c \in s.trace[n].causes :
       \E m \in 1..(n - 1) : s.trace[m].id = c
  /\ \A p \in Pending(s.queue) :
       s.queue.entries[p].causes \subseteq IdsOf(s.trace) \cup Pending(s.queue)

(* The ledger of retired entities agrees with the transitions executed, *)
LedgerAgrees(s) ==
  \A e \in {n \in IdsOf(s.trace) : payload[n] # NoLifecycle} :
    IF payload[e].transition = "despawn"
    THEN payload[e].entity \in s.registry.retired
    ELSE payload[e].entity \in s.registry.retired \cup Active(s.registry)

(* the entities of the scenario are still there or retired, *)
ScenarioAccounted(s) == s.scenario \subseteq s.registry.retired \cup Active(s.registry)

(* the visible ones are there, among them the actor; the entities refer to *)
(* each other only, and no buff has run out,                               *)
WorldSound(s) ==
  /\ Visible \subseteq Active(s.registry)
  /\ Active(s.registry) \cap s.registry.retired = {}
  /\ Consistent(s.registry.entities)
  /\ ~SomeBuffExpired(s.registry, s.queue.clock)

(* and whoever waits for something waits for a queued event. *)
PendingSound(s) ==
  \A a \in DOMAIN s.pending :
    s.pending[a] = "scheduled" => a \in Pending(s.queue)

SnapshotAccepted(s) ==
  /\ FrontierHeld(s)
  /\ CausesKept(s)
  /\ s.queue.clock <= Horizon
  /\ LedgerAgrees(s)
  /\ ScenarioAccounted(s)
  /\ WorldSound(s)
  /\ PendingSound(s)
  /\ s.status # "running" => Pending(s.queue) = {} /\ DOMAIN s.pending = {}

-----------------------------------------------------------------------------
(* A fresh run has one queued event, the first policy input. *)
FreshQueueWithInput ==
  AllocateBatch(FreshQueue(0), DefaultRank,
    Single(RootEvent, [time |-> 0, phase |-> "input", causes |-> {}]))

FreshSession(world) ==
  [queue |-> FreshQueueWithInput, registry |-> FreshRegistry(world),
   scenario |-> DOMAIN world,
   trace |-> << >>, pending |-> << >>, status |-> "running"]

(* A resumed run: the input was executed; its action waits for NextEvent,  *)
(* due at a time, and another event is queued besides.  The snapshot is    *)
(* one that a session left, so both lie within the horizon (the schema     *)
(* would let a foreign one with a later event in, and it would stop there).*)
ResumedSession(world, due, other) ==
  LET after  == Pop(FreshQueueWithInput, RootEvent)
      queued == [i \in {NextEvent, OtherEvent} |->
                   IF i = NextEvent
                   THEN [time |-> due, phase |-> "windup", causes |-> {RootEvent}]
                   ELSE other]
  IN [queue    |-> AllocateBatch(after, DefaultRank, queued),
      registry |-> FreshRegistry(world), scenario |-> DOMAIN world,
      trace    |-> <<TraceEntry(FreshQueueWithInput, RootEvent)>>,
      pending  |-> [a \in {NextEvent} |-> "scheduled"],
      status   |-> "running"]

Init ==
  /\ payload \in Payloads /\ payload[RootEvent] = NoLifecycle
  /\ \E world \in Worlds :
       \/ session = FreshSession(world)
       \/ \E due, time \in {t \in Times : t <= Horizon}, phase \in UsedPhases :
            session = ResumedSession(world, due,
              [time |-> time, phase |-> phase, causes |-> {RootEvent}])
  /\ SnapshotAccepted(session)
  /\ work = Idle
  /\ staged = << >>
  /\ published = << >>

-----------------------------------------------------------------------------
(* step(budget): only a running session that is not already stepping.      *)
BeginStep(maxEvents, until) ==
  /\ ~Stepping
  /\ session.status = "running"
  /\ until >= session.queue.clock
  /\ work' = [queue |-> session.queue, registry |-> session.registry, trace |-> << >>,
              cancelled |-> {}, left |-> maxEvents, until |-> until]
  /\ staged' = << >>
  /\ UNCHANGED <<payload, session, published>>

(* The event the loop turns to next, if it turns again at all. *)
Due(p) ==
  /\ work.left > 0
  /\ IsHead(work.queue, p)
  /\ work.queue.entries[p].time <= work.until

(* The allocation frontier is the work limit: cancelled events count too. *)
WithinLimit(e) == e.seq <= EventLimit

LifecycleAllowed(p) ==
  /\ work.queue.entries[p].phase = "lifecycle"
  /\ ApplyAccepted(work.registry, payload[p])

(* One turn: the dispatcher asks to cancel C and to schedule B. *)
Dispatch(p, C, B) ==
  /\ Stepping /\ Due(p)
  /\ LET e == work.queue.entries[p] IN
       /\ WithinLimit(e)
       /\ e.time <= Horizon
       /\ ~SomeBuffExpired(work.registry, e.time)
  /\ \A i \in DOMAIN B : B[i].time <= Horizon
  /\ payload[p] # NoLifecycle => LifecycleAllowed(p)
  /\ DispatchAccepted(work.queue, p, C, B)
  /\ work' = [work EXCEPT
       !.queue     = DispatchEvent(@, p, C, B),
       !.registry  = IF payload[p] = NoLifecycle THEN @ ELSE Apply(@, payload[p]),
       !.trace     = Append(@, TraceEntry(work.queue, p)),
       !.cancelled = @ \cup (C \cap Pending(work.queue)),
       !.left      = @ - 1]
  /\ staged' = IF payload[p] = NoLifecycle THEN staged ELSE Append(staged, p)
  /\ UNCHANGED <<payload, session, published>>

(* The loop has ended at the allocation limit. *)
Exhausted ==
  \E p \in Pending(work.queue) : Due(p) /\ ~WithinLimit(work.queue.entries[p])

LoopOver ==
  Exhausted \/ ~ \E p \in Pending(work.queue) : Due(p)

SettledActions_GoneIsComplete(w) ==
  [a \in DOMAIN session.pending |->
     IF session.pending[a] = "scheduled" /\ a \notin Pending(w.queue)
     THEN "complete" ELSE session.pending[a]]

(* A waiting action is settled by the fate of its continuation. *)
SettledActions(w) ==
  [a \in DOMAIN session.pending |->
     IF session.pending[a] # "scheduled" THEN session.pending[a]
     ELSE IF a \in w.cancelled THEN "interrupted"
     ELSE IF a \in IdsOf(w.trace) THEN "complete"
     ELSE "scheduled"]

(* The snapshot a step leaves when its loop ends in the working state w. *)
NextSession(w, exhausted) ==
  [queue    |-> IF exhausted THEN CancelBatch(w.queue, Pending(w.queue)) ELSE w.queue,
   registry |-> w.registry,
   scenario |-> session.scenario,
   trace    |-> session.trace \o w.trace,
   pending  |-> IF exhausted THEN << >> ELSE SettledActions(w),
   status   |-> IF exhausted THEN "incomplete" ELSE "running"]

(* The snapshot is accepted, the port commits, the session keeps it. *)
FinishStep ==
  /\ Stepping /\ LoopOver
  /\ LET next == NextSession(work, Exhausted) IN
       SnapshotAccepted(next) /\ session' = next
  /\ published' = published \o staged
  /\ work' = Idle /\ staged' = << >>
  /\ UNCHANGED payload

FailStep_Published ==
  /\ Stepping
  /\ published' = published \o staged
  /\ work' = Idle /\ staged' = << >>
  /\ UNCHANGED <<payload, session>>

(* The port rolls back, the working copies are dropped. *)
FailStep ==
  /\ Stepping
  /\ work' = Idle /\ staged' = << >>
  /\ UNCHANGED <<payload, session, published>>

(* What a dispatcher may schedule: each draft cites the event at hand and  *)
(* at most one other id it has heard of, and has the phase its payload     *)
(* demands (with another phase its dispatch would fail).                   *)
UsedBatches(p) ==
  LET known  == work.queue.allocated
      drafts == [time : Times, phase : UsedPhases, causes : {{p, c} : c \in known}]
      sets   == {J \in SUBSET (Ids \ known) :
                   IsFiniteSet(J) /\ Cardinality(J) <= MaxBatch}
  IN {B \in UNION {[I -> drafts] : I \in sets} :
        \A i \in DOMAIN B : B[i].phase = "lifecycle" <=> payload[i] # NoLifecycle}

Next ==
  \/ \E maxEvents \in 1..MaxBudget, until \in Times : BeginStep(maxEvents, until)
  \/ Stepping /\ \E p \in Pending(work.queue) : \E C \in SUBSET Pending(work.queue) :
       \E B \in UsedBatches(p) : Dispatch(p, C \ {p}, B)
  \/ FinishStep
  \/ FailStep

Spec == Init /\ [][Next]_vars

-----------------------------------------------------------------------------
IsTrace(trace) ==
  \A n \in DOMAIN trace :
    trace[n] \in [id : Ids, time : Nat, seq : Nat \ {0}, causes : SUBSET Ids]

TypeOK ==
  /\ payload \in [Ids -> Lifecycle \cup {NoLifecycle}]
  /\ IsQueue(session.queue) /\ IsRegistry(session.registry) /\ IsTrace(session.trace)
  /\ DOMAIN session.pending \subseteq Ids
  /\ \A a \in DOMAIN session.pending :
       session.pending[a] \in {"scheduled", "interrupted", "complete"}
  /\ session.status \in {"running", "incomplete"}
  /\ Stepping => /\ IsQueue(work.queue) /\ IsRegistry(work.registry) /\ IsTrace(work.trace)
                 /\ work.cancelled \subseteq Ids /\ work.left \in 0..MaxBudget

(* The port has published exactly the transitions of the retained trace,   *)
(* each once and in order, whichever steps failed in between and at        *)
(* whatever point.                                                         *)
PublishedOnce == published = Effects(session.trace)

(* An action that waited is complete if and only if its continuation ran,  *)
(* and interrupted if and only if it was cancelled; nothing waits for an   *)
(* event that is gone.                                                     *)
PendingOutcome ==
  \A a \in DOMAIN session.pending :
    /\ session.pending[a] = "scheduled" <=> a \in Pending(session.queue)
    /\ session.pending[a] = "complete" <=> a \in IdsOf(session.trace)

(* The state after a dispatch of p with no commands. *)
AfterPlain(p) ==
  NextSession([queue     |-> DispatchEvent(session.queue, p, {}, << >>),
               registry  |-> session.registry,
               trace     |-> <<TraceEntry(session.queue, p)>>,
               cancelled |-> {}], FALSE)

(* A running session is never wedged by its own bookkeeping.  The schema's *)
(* checks of the frontier, of the trace's order and of the entity ledger   *)
(* never refuse a step: the working state passes them after every single   *)
(* dispatch, so no work is thrown away at the end because of them.  (What  *)
(* may be refused at the end is what the dispatcher cited and the state it *)
(* gave its entities.)  And if the next event is no transition and no buff *)
(* has run out before it, a dispatcher that asks for nothing gets past it. *)
NeverWedged ==
  /\ Stepping =>
       LET next == NextSession(work, FALSE) IN
         FrontierHeld(next) /\ LedgerAgrees(next) /\ ScenarioAccounted(next)
  /\ session.status = "running" =>
       \A p \in Pending(session.queue) :
         (IsHead(session.queue, p) /\ payload[p] = NoLifecycle
            /\ ~SomeBuffExpired(session.registry, session.queue.entries[p].time))
         => session.queue.entries[p].time <= Horizon /\ SnapshotAccepted(AfterPlain(p))
=============================================================================
