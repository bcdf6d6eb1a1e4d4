----------------------------- MODULE EventQueue -----------------------------
(***************************************************************************)
(* The kernel's event queue as a state machine: what a caller does with    *)
(* one EventQueue object between and during its step calls                 *)
(* (src/domain/engine/kernel/event-queue.ts).  A call that throws leaves   *)
(* the queue as it was and is no step here.  One turn of the loop in       *)
(* step() is one action: each turn commits before the next dispatch, and a *)
(* later dispatch that throws keeps the turns before it.                   *)
(***************************************************************************)
EXTENDS QueueOps

CONSTANTS
  Times,        (* the times the callers use                             *)
  UsedPhases,   (* the phases the callers use                            *)
  RankPolicies, (* the phase orders callers of scheduleBatch bring along *)
  EventLimit,   (* eventLimit of the constructor                         *)
  MaxBatch,     (* bound: the most drafts in one batch                   *)
  MaxCauses     (* bound: the most causes a draft cites                  *)

ASSUME TimesAssumption == Times \subseteq Nat
ASSUME UsedPhasesAssumption == UsedPhases \subseteq Phases
ASSUME PoliciesAssumption ==
  RankPolicies \subseteq [Phases -> 1..7] /\ DefaultRank \in RankPolicies
ASSUME EventLimitAssumption == EventLimit \in Nat \ {0}
ASSUME BoundsAssumption == MaxBatch \in Nat /\ MaxCauses \in Nat

VARIABLES
  queue,      (* the EventQueue object                                   *)
  executed,   (* history: the ids dispatched so far                      *)
  cancelled   (* history: the ids cancelled so far                       *)

vars == <<queue, executed, cancelled>>

TypeOK ==
  /\ IsQueue(queue)
  /\ executed \in SUBSET Ids
  /\ cancelled \in SUBSET Ids

Init ==
  /\ \E start \in Times : queue = FreshQueue(start)
  /\ executed = {}
  /\ cancelled = {}

UsedDraft ==
  [time   : Times,
   phase  : UsedPhases,
   causes : {C \in SUBSET Ids : Cardinality(C) <= MaxCauses}]

FreshIds == Ids \ queue.allocated

(* The batches a caller may bring: fresh ids, at most MaxBatch of them. *)
Batches ==
  UNION { [I -> UsedDraft] :
            I \in {J \in SUBSET FreshIds : IsFiniteSet(J) /\ Cardinality(J) <= MaxBatch} }

-----------------------------------------------------------------------------
ScheduleBatch(rank, B) ==
  /\ BatchAccepted(queue, rank, B)
  /\ queue' = AllocateBatch(queue, rank, B)
  /\ UNCHANGED <<executed, cancelled>>

(* schedule(draft) refuses a time that is pending and then allocates. *)
Schedule(i, draft) ==
  /\ BatchAccepted(queue, DefaultRank, Single(i, draft))
  /\ queue' = AllocateBatch(queue, DefaultRank, Single(i, draft))
  /\ UNCHANGED <<executed, cancelled>>

(* cancel(eventId) of a pending event; of any other it changes nothing. *)
Cancel(i) ==
  /\ i \in Pending(queue)
  /\ CancelAccepted(queue, {i})
  /\ queue' = CancelBatch(queue, {i})
  /\ cancelled' = cancelled \cup {i}
  /\ UNCHANGED executed

Replace(target, i, draft) ==
  /\ ReplaceAccepted(queue, target, i, draft)
  /\ queue' = ReplaceEvent(queue, target, i, draft)
  /\ cancelled' = cancelled \cup {target}
  /\ UNCHANGED executed

(* One turn of step: the head is within the work limit, and its dispatch   *)
(* returned cancellations C and new events B.                              *)
StepEvent(p, C, B) ==
  /\ IsHead(queue, p)
  /\ queue.entries[p].seq <= EventLimit
  /\ DispatchAccepted(queue, p, C, B)
  /\ queue' = DispatchEvent(queue, p, C, B)
  /\ executed' = executed \cup {p}
  /\ cancelled' = cancelled \cup (C \cap Pending(queue))

Next ==
  \/ \E rank \in RankPolicies, B \in Batches : ScheduleBatch(rank, B)
  \/ \E i \in FreshIds, draft \in UsedDraft : Schedule(i, draft)
  \/ \E i \in Pending(queue) : Cancel(i)
  \/ \E target \in Pending(queue), i \in FreshIds, draft \in UsedDraft :
       Replace(target, i, draft)
  \/ \E p \in Pending(queue), C \in SUBSET Pending(queue), B \in Batches :
       StepEvent(p, C \ {p}, B)

Spec == Init /\ [][Next]_vars

-----------------------------------------------------------------------------
(* Every reachable queue can be rebuilt from its snapshot and its ledger.  *)
(* step() rebuilds the queue before each dispatch and a session does on    *)
(* every step and resume, so a queue that fails this is stuck for good.    *)
Restorability == Restorable(queue)

(* Events that wait for the same time run in the order of their phases and *)
(* then of their ids, whoever scheduled them and in whatever order: the    *)
(* order of insertion is not an ordering input.                            *)
CanonicalTies ==
  \A p \in Pending(queue) :
    \E rank \in RankPolicies :
      \A o \in Pending(queue) :
        queue.entries[o].time = queue.entries[p].time =>
          (queue.entries[o].seq < queue.entries[p].seq
             <=> Precedes(rank, queue.entries, o, p))

(* Each id is pending, executed or cancelled, and only one of these; the   *)
(* ledger that forbids reuse is exactly their union.                       *)
LedgerPartition ==
  /\ queue.allocated = Pending(queue) \cup executed \cup cancelled
  /\ Pending(queue) \cap executed = {}
  /\ Pending(queue) \cap cancelled = {}
  /\ executed \cap cancelled = {}

(* Dispatches happen in strictly increasing (timeMs, sequence) order, also *)
(* when a dispatch schedules at the current time or replaces an event.     *)
Chronological ==
  [][executed' # executed =>
       Earlier([time |-> queue.clock, seq |-> queue.current],
               [time |-> queue'.clock, seq |-> queue'.current])]_vars

(* The queue is a causal schedule. *)
Abstract == INSTANCE CausalSchedule WITH
  waiting <- [p \in Pending(queue) |->
                [time |-> queue.entries[p].time, causes |-> queue.entries[p].causes]],
  done    <- executed,
  dropped <- cancelled,
  now     <- queue.clock

(* An event runs only after each of its causes ran or was withdrawn before *)
(* it was asked for, and never before its time.                            *)
CausalOrder == Abstract!Spec
=============================================================================
