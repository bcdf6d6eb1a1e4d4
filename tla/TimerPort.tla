------------------------------ MODULE TimerPort ------------------------------
(***************************************************************************)
(* Timers over the kernel's queue (src/domain/engine/kernel/timer-port.ts). *)
(* A consumer is handed a context, the frontier of the queue as it was     *)
(* then, and may keep it: for each of its calls the port compares the      *)
(* context with the queue as it is.  A call that is refused changes        *)
(* nothing and is no step here.  One consumer holds one context; the       *)
(* kernel goes on dispatching in between.  The id of the run is left out:  *)
(* a port serves one run.                                                  *)
(***************************************************************************)
EXTENDS EventQueue

(* The bound leaves room for the one event that a call allocates. *)
ASSUME PortAssumption == MaxBatch >= 1

VARIABLES
  context,   (* the PortContext the consumer holds                          *)
  moved      (* history: since then an event was allocated or dispatched    *)

portVars == <<context, moved>>
allPortVars == <<vars, portVars>>

(* The frontier of a queue, as a context: causes are what the consumer has *)
(* to cite, the event that runs and what led to it.                        *)
ContextAt(q, causes) ==
  [time |-> q.clock, seq |-> q.current, next |-> q.next, allocated |-> q.allocated,
   causes |-> causes]

PortInit ==
  /\ context = ContextAt(queue, {})
  /\ moved = FALSE

ContextMatches_LedgerOnly ==
  context.next = queue.next /\ context.allocated = queue.allocated

(* assertContext *)
ContextMatches ==
  /\ context.time = queue.clock /\ context.seq = queue.current
  /\ context.next = queue.next /\ context.allocated = queue.allocated

(* What the port asks of an event in addition: its number is the next one, *)
(* it comes after the frontier, and it cites the causes of the context.    *)
FollowsContext(draft) ==
  /\ Earlier(context, [time |-> draft.time, seq |-> queue.next])
  /\ context.causes \subseteq draft.causes

-----------------------------------------------------------------------------
(* Events that are allocated alone are never compared by phase: any will do. *)
LoneDraft == {draft \in UsedDraft : draft.phase = CHOOSE phase \in UsedPhases : TRUE}

(* The kernel hands out the frontier. *)
HandOut(causes) ==
  /\ causes \subseteq executed
  /\ context' = ContextAt(queue, causes)
  /\ moved' = FALSE
  /\ UNCHANGED vars

PortSchedule(i, draft) ==
  /\ ContextMatches /\ FollowsContext(draft)
  /\ Schedule(i, draft)
  /\ moved' = TRUE
  /\ UNCHANGED context

PortReplace(target, i, draft) ==
  /\ ContextMatches /\ FollowsContext(draft)
  /\ Replace(target, i, draft)
  /\ moved' = TRUE
  /\ UNCHANGED context

PortCancel(i) ==
  /\ ContextMatches
  /\ Cancel(i)
  /\ UNCHANGED portVars

(* A turn of the kernel's loop, with or without new events. *)
KernelTurn(p, B) ==
  /\ StepEvent(p, {}, B)
  /\ moved' = TRUE
  /\ UNCHANGED context

PortNext ==
  \/ \E causes \in SUBSET executed : Cardinality(causes) <= MaxCauses /\ HandOut(causes)
  \/ \E i \in FreshIds, draft \in LoneDraft :
       \/ PortSchedule(i, draft)
       \/ \E target \in Pending(queue) : PortReplace(target, i, draft)
  \/ \E i \in Pending(queue) : PortCancel(i)
  \/ \E p \in Pending(queue) :
       \/ KernelTurn(p, [i \in {} |-> i])
       \/ \E i \in FreshIds, draft \in LoneDraft : KernelTurn(p, Single(i, draft))

PortSpec == Init /\ PortInit /\ [][PortNext]_allPortVars

-----------------------------------------------------------------------------
(* A context that the port still accepts is the frontier: nothing was      *)
(* dispatched or allocated since it was handed out, also when the clock    *)
(* stood still, the ledger did not grow, or only one of the counters       *)
(* moved.  And the event that peek finds is then one that                  *)
(* assertTimerPeekResult lets pass: a consumer with a current context is   *)
(* always answered.                                                        *)
OnlyCurrentContexts ==
  ContextMatches =>
    /\ ~moved
    /\ \A p \in Pending(queue) : Earlier(context, queue.entries[p])
==============================================================================
