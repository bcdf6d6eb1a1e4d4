--------------------------- MODULE KernelPartsProofs ---------------------------
(***************************************************************************)
(* Proofs about the parts of the kernel as state machines: the event       *)
(* queue, the timer port on top of it, the entity registry and the batch   *)
(* protocol of lifecycle transitions.  All of it holds for any ids, times, *)
(* phases, rank policies, entities and transitions, infinite sets of them  *)
(* included, and for any work limit.                                       *)
(***************************************************************************)
EXTENDS TimerPort, EntityRegistry, LifecycleBatch, KernelOpsProofs

-----------------------------------------------------------------------------
(* The event queue. *)

LEMMA BatchTypes ==
  /\ \A B \in Batches : IsBatch(B) /\ IsFiniteSet(DOMAIN B)
  /\ \A i \in FreshIds, draft \in UsedDraft :
       /\ IsBatch(Single(i, draft))
       /\ DOMAIN Single(i, draft) = {i}
       /\ IsFiniteSet(DOMAIN Single(i, draft))
  /\ DefaultRank \in [Phases -> 1..7]
  /\ \A rank \in RankPolicies : rank \in [Phases -> 1..7]
<1>1. UsedDraft \subseteq Draft
  BY TimesAssumption, UsedPhasesAssumption DEF UsedDraft, Draft
<1>2. \A B \in Batches : IsBatch(B) /\ IsFiniteSet(DOMAIN B)
  BY <1>1 DEF Batches, IsBatch, FreshIds
<1>3. ASSUME NEW i \in FreshIds, NEW draft \in UsedDraft
      PROVE  /\ IsBatch(Single(i, draft))
             /\ DOMAIN Single(i, draft) = {i}
             /\ IsFiniteSet(DOMAIN Single(i, draft))
  <2>1. IsFiniteSet({i})
    BY FS_Singleton
  <2>2. QED
    BY <2>1, <1>1 DEF Single, IsBatch, FreshIds
<1>4. QED
  BY <1>2, <1>3, PoliciesAssumption

-----------------------------------------------------------------------------
(* The invariant of the state machine: the queue value is sound and the    *)
(* ids fall into pending, executed and cancelled.                          *)
IInv ==
  /\ QueueInv(queue)
  /\ executed \in SUBSET Ids
  /\ cancelled \in SUBSET Ids
  /\ LedgerPartition

LEMMA InitInv == Init => IInv
<1> SUFFICES ASSUME NEW start \in Times, queue = FreshQueue(start),
                    executed = {}, cancelled = {}
             PROVE  IInv
  BY DEF Init
<1>1. QueueInv(queue)
  BY FreshQueueInv, TimesAssumption
<1>2. Pending(queue) = {} /\ queue.allocated = {}
  BY DEF FreshQueue, Pending
<1>3. QED
  BY <1>1, <1>2 DEF IInv, LedgerPartition

LEMMA NextInv == IInv /\ [Next]_vars => IInv'
<1> SUFFICES ASSUME IInv, [Next]_vars
             PROVE  IInv'
  OBVIOUS
<1>0. /\ QueueInv(queue) /\ IsQueue(queue)
      /\ Pending(queue) \subseteq Ids
      /\ LedgerPartition
  BY DEF IInv, QueueInv, IsQueue
<1>1. ASSUME NEW rank \in RankPolicies, NEW B \in Batches, ScheduleBatch(rank, B)
      PROVE  IInv'
  <2>1. QueueInv(queue')
    BY <1>0, <1>1, AllocateInv, BatchTypes DEF ScheduleBatch
  <2>2. /\ Pending(queue') = Pending(queue) \cup DOMAIN B
        /\ queue'.allocated = queue.allocated \cup DOMAIN B
    BY <1>1, AllocateIds DEF ScheduleBatch
  <2>3. DOMAIN B \cap queue.allocated = {}
    BY <1>1 DEF ScheduleBatch, BatchAccepted, FreshInBatch
  <2>4. QED
    BY <1>0, <1>1, <2>1, <2>2, <2>3 DEF IInv, LedgerPartition, ScheduleBatch
<1>2. ASSUME NEW i \in FreshIds, NEW draft \in UsedDraft, Schedule(i, draft)
      PROVE  IInv'
  <2>1. QueueInv(queue')
    BY <1>0, <1>2, AllocateInv, BatchTypes DEF Schedule
  <2>2. /\ Pending(queue') = Pending(queue) \cup {i}
        /\ queue'.allocated = queue.allocated \cup {i}
    <3>1. DOMAIN Single(i, draft) = {i}
      BY BatchTypes
    <3>2. queue' = AllocateBatch(queue, DefaultRank, Single(i, draft))
      BY <1>2 DEF Schedule
    <3>3. QED
      BY <3>1, <3>2, AllocateIds
  <2>3. QED
    BY <1>0, <1>2, <2>1, <2>2 DEF IInv, LedgerPartition, Schedule, FreshIds
<1>3. ASSUME NEW i \in Pending(queue), Cancel(i)
      PROVE  IInv'
  <2>1. QueueInv(queue')
    BY <1>0, <1>3, CancelInv DEF Cancel
  <2>2. /\ Pending(queue') = Pending(queue) \ {i}
        /\ queue'.allocated = queue.allocated
    BY <1>0, <1>3, CancelIds DEF Cancel
  <2>3. QED
    BY <1>0, <1>3, <2>1, <2>2 DEF IInv, LedgerPartition, Cancel
<1>4. ASSUME NEW target \in Pending(queue), NEW i \in FreshIds,
             NEW draft \in UsedDraft, Replace(target, i, draft)
      PROVE  IInv'
  <2> DEFINE c == CancelBatch(queue, {target})
  <2>1. /\ QueueInv(c) /\ Pending(c) = Pending(queue) \ {target}
        /\ c.allocated = queue.allocated
    BY <1>0, CancelInv, CancelIds
  <2>2. /\ BatchAccepted(c, DefaultRank, Single(i, draft))
        /\ queue' = AllocateBatch(c, DefaultRank, Single(i, draft))
        /\ executed' = executed /\ cancelled' = cancelled \cup {target}
    BY <1>4 DEF Replace, ReplaceAccepted, ReplaceEvent
  <2> HIDE DEF c
  <2>3. QueueInv(queue')
    BY <2>1, <2>2, AllocateInv, BatchTypes
  <2>4. /\ Pending(queue') = (Pending(queue) \ {target}) \cup {i}
        /\ queue'.allocated = queue.allocated \cup {i}
    <3>1. DOMAIN Single(i, draft) = {i}
      BY BatchTypes
    <3>2. QED
      BY <2>1, <2>2, <3>1, AllocateIds
  <2>5. QED
    BY <1>0, <2>2, <2>3, <2>4 DEF IInv, LedgerPartition, FreshIds
<1>5. ASSUME NEW p \in Pending(queue), NEW C \in SUBSET Pending(queue),
             NEW B \in Batches, StepEvent(p, C \ {p}, B)
      PROVE  IInv'
  <2> DEFINE W == C \ {p}
             h == Pop(queue, p)
             c == CancelBatch(h, W)
  <2>1. /\ QueueInv(h) /\ Pending(h) = Pending(queue) \ {p}
        /\ h.allocated = queue.allocated
    BY <1>0, <1>5, PopInv, PopIds DEF StepEvent
  <2>2. /\ BatchAccepted(c, DefaultRank, B)
        /\ queue' = AllocateBatch(c, DefaultRank, B)
        /\ executed' = executed \cup {p}
        /\ cancelled' = cancelled \cup W
    BY <1>5 DEF StepEvent, DispatchAccepted, DispatchEvent
  <2> HIDE DEF h
  <2>3. /\ QueueInv(c) /\ Pending(c) = Pending(h) \ W
        /\ c.allocated = h.allocated
    BY <2>1, CancelInv, CancelIds DEF QueueInv
  <2> HIDE DEF c
  <2>4. QueueInv(queue')
    BY <2>2, <2>3, AllocateInv, BatchTypes
  <2>5. /\ Pending(queue') = ((Pending(queue) \ {p}) \ W) \cup DOMAIN B
        /\ queue'.allocated = queue.allocated \cup DOMAIN B
    BY <2>1, <2>2, <2>3, AllocateIds
  <2>6. DOMAIN B \cap queue.allocated = {}
    BY <2>1, <2>2, <2>3 DEF BatchAccepted, FreshInBatch
  <2>7. QED
    BY <1>0, <2>2, <2>4, <2>5, <2>6 DEF IInv, LedgerPartition
<1>6. CASE UNCHANGED vars
  BY <1>6 DEF IInv, LedgerPartition, vars
<1>7. QED
  BY <1>1, <1>2, <1>3, <1>4, <1>5, <1>6 DEF Next

-----------------------------------------------------------------------------
LEMMA AlwaysIInv == Spec => []IInv
  BY InitInv, NextInv, PTL DEF Spec

(* Every field of the queue keeps its type. *)
THEOREM TypeCorrect == Spec => []TypeOK
<1>1. IInv => TypeOK
  BY DEF IInv, QueueInv, TypeOK
<1>2. QED
  BY <1>1, AlwaysIInv, PTL

(* Whatever the callers schedule, cancel, replace and dispatch, the queue  *)
(* can be rebuilt from its snapshot and ledger: step and resume never find *)
(* it refused by the constructor or by the snapshot schema.                *)
THEOREM AlwaysRestorable == Spec => []Restorability
<1>1. IInv => Restorability
  BY DEF IInv, QueueInv, Restorability
<1>2. QED
  BY <1>1, AlwaysIInv, PTL

(* No id is dispatched twice, dispatched after it was cancelled, or        *)
(* allocated a second time.                                                *)
THEOREM IdsUsedOnce == Spec => []LedgerPartition
<1>1. IInv => LedgerPartition
  BY DEF IInv
<1>2. QED
  BY <1>1, AlwaysIInv, PTL

(* What a dispatch does, all of its parts together. *)
LEMMA StepEffect ==
  ASSUME IInv, NEW p \in Pending(queue), NEW C \in SUBSET Pending(queue),
         NEW B \in Batches, StepEvent(p, C \ {p}, B)
  PROVE  /\ Pending(queue') = ((Pending(queue) \ {p}) \ C) \cup DOMAIN B
         /\ DOMAIN B \cap queue.allocated = {}
         /\ \A o \in (Pending(queue) \ {p}) \ C : queue'.entries[o] = queue.entries[o]
         /\ \A i \in DOMAIN B : /\ queue'.entries[i].time = B[i].time
                                /\ queue'.entries[i].causes = B[i].causes
                                /\ B[i].time >= queue.entries[p].time
                                /\ B[i].causes \subseteq DOMAIN B \cup queue.allocated
         /\ queue'.clock = queue.entries[p].time
         /\ queue'.current = queue.entries[p].seq
         /\ executed' = executed \cup {p}
         /\ cancelled' = cancelled \cup (C \ {p})
<1>1. /\ IsHead(queue, p) /\ DispatchAccepted(queue, p, C \ {p}, B)
      /\ queue' = DispatchEvent(queue, p, C \ {p}, B)
      /\ executed' = executed \cup {p}
      /\ cancelled' = cancelled \cup (C \ {p})
  BY DEF StepEvent
<1>2. QueueInv(queue) /\ IsBatch(B) /\ IsFiniteSet(DOMAIN B)
  BY BatchTypes DEF IInv
<1> DEFINE W == C \ {p}
<1>3. /\ Pending(queue') = ((Pending(queue) \ {p}) \ W) \cup DOMAIN B
      /\ \A o \in (Pending(queue) \ {p}) \ W : queue'.entries[o] = queue.entries[o]
  <2>1. DispatchAccepted(queue, p, W, B) /\ queue' = DispatchEvent(queue, p, W, B)
    BY <1>1
  <2> HIDE DEF W
  <2>2. Pending(queue') = ((Pending(queue) \ {p}) \ W) \cup DOMAIN B
    BY <1>1, <1>2, <2>1, DispatchEffect
  <2>3. \A o \in (Pending(queue) \ {p}) \ W : queue'.entries[o] = queue.entries[o]
    BY <1>1, <1>2, <2>1, DispatchEffect
  <2> QED BY <2>2, <2>3
<1>4. (Pending(queue) \ {p}) \ (C \ {p}) = (Pending(queue) \ {p}) \ C
  OBVIOUS
<1>5. /\ DOMAIN B \cap queue.allocated = {}
      /\ \A i \in DOMAIN B : /\ queue'.entries[i].time = B[i].time
                             /\ queue'.entries[i].causes = B[i].causes
                             /\ B[i].time >= queue.entries[p].time
                             /\ B[i].causes \subseteq DOMAIN B \cup queue.allocated
  BY <1>1, <1>2, DispatchEffect
<1>6. queue'.clock = queue.entries[p].time /\ queue'.current = queue.entries[p].seq
  BY <1>1, <1>2, DispatchEffect
<1> QED BY <1>1, <1>3, <1>4, <1>5, <1>6

(* Dispatches happen in strictly increasing (timeMs, sequence) order. *)
THEOREM AlwaysChronological == Spec => Chronological
<1> DEFINE Forward ==
      executed' # executed =>
        Earlier([time |-> queue.clock, seq |-> queue.current],
                [time |-> queue'.clock, seq |-> queue'.current])
<1>1. IInv /\ [Next]_vars => [Forward]_vars
  <2> SUFFICES ASSUME IInv, Next, executed' # executed
               PROVE  Earlier([time |-> queue.clock, seq |-> queue.current],
                              [time |-> queue'.clock, seq |-> queue'.current])
    OBVIOUS
  <2>1. PICK p \in Pending(queue), C \in SUBSET Pending(queue), B \in Batches :
          StepEvent(p, C \ {p}, B)
    BY DEF Next, ScheduleBatch, Schedule, Cancel, Replace
  <2>2. queue'.clock = queue.entries[p].time /\ queue'.current = queue.entries[p].seq
    BY <2>1, StepEffect
  <2>3. \/ queue.entries[p].time > queue.clock
        \/ queue.entries[p].time = queue.clock /\ queue.entries[p].seq > queue.current
    BY DEF IInv, QueueInv, Restorable
  <2>4. /\ queue.clock \in Nat /\ queue.current \in Nat
        /\ queue.entries[p].time \in Nat /\ queue.entries[p].seq \in Nat
    BY DEF IInv, QueueInv, IsQueue, Event
  <2>5. QED
    BY <2>2, <2>3, <2>4 DEF Earlier
<1>2. QED
  BY <1>1, AlwaysIInv, PTL DEF Spec, Chronological

-----------------------------------------------------------------------------
(* Every step keeps the order of events that wait for the same time.       *)
LEMMA TiesInit == Init => TiesInOrder(queue, RankPolicies)
<1> SUFFICES ASSUME NEW start \in Times, queue = FreshQueue(start)
             PROVE  TiesInOrder(queue, RankPolicies)
  BY DEF Init
<1>1. Pending(queue) = {}
  BY DEF FreshQueue, Pending
<1> QED BY <1>1 DEF TiesInOrder

(* A queue that lost some events and then took a batch. *)
LEMMA LossThenBatch ==
  ASSUME NEW q, IsQueue(q), TiesInOrder(q, RankPolicies),
         NEW c, IsQueue(c), Pending(c) \subseteq Pending(q),
         \A p \in Pending(c) : c.entries[p] = q.entries[p],
         NEW rank \in RankPolicies, NEW B, IsBatch(B), IsFiniteSet(DOMAIN B),
         BatchAccepted(c, rank, B)
  PROVE  TiesInOrder(AllocateBatch(c, rank, B), RankPolicies)
<1>1. TiesInOrder(c, RankPolicies)
  BY FewerTies
<1> QED BY <1>1, AllocateTies, PoliciesAssumption

LEMMA TiesNext ==
  ASSUME IInv, TiesInOrder(queue, RankPolicies), [Next]_vars
  PROVE  TiesInOrder(queue', RankPolicies)
<1>0. QueueInv(queue) /\ IsQueue(queue) /\ DefaultRank \in RankPolicies
  BY PoliciesAssumption DEF IInv, QueueInv
<1>1. ASSUME NEW rank \in RankPolicies, NEW B \in Batches, ScheduleBatch(rank, B)
      PROVE  TiesInOrder(queue', RankPolicies)
  BY <1>0, <1>1, LossThenBatch, BatchTypes DEF ScheduleBatch
<1>2. ASSUME NEW i \in FreshIds, NEW draft \in UsedDraft, Schedule(i, draft)
      PROVE  TiesInOrder(queue', RankPolicies)
  BY <1>0, <1>2, LossThenBatch, BatchTypes DEF Schedule
<1>3. ASSUME NEW i \in Pending(queue), Cancel(i)
      PROVE  TiesInOrder(queue', RankPolicies)
  <2>1. queue' = CancelBatch(queue, {i})
    BY <1>3 DEF Cancel
  <2>2. Pending(queue') = Pending(queue) \ {i}
        /\ \A p \in Pending(queue) \ {i} : queue'.entries[p] = queue.entries[p]
    BY <1>0, <2>1, CancelIds, CancelEntries
  <2> QED BY <2>2, FewerTies
<1>4. ASSUME NEW target \in Pending(queue), NEW i \in FreshIds,
             NEW draft \in UsedDraft, Replace(target, i, draft)
      PROVE  TiesInOrder(queue', RankPolicies)
  <2> SUFFICES ASSUME NEW c, c = CancelBatch(queue, {target})
               PROVE  TiesInOrder(queue', RankPolicies)
    OBVIOUS
  <2>1. /\ IsQueue(c) /\ Pending(c) = Pending(queue) \ {target}
        /\ \A p \in Pending(c) : c.entries[p] = queue.entries[p]
    BY <1>0, CancelInv, CancelIds, CancelEntries DEF QueueInv
  <2>2. /\ BatchAccepted(c, DefaultRank, Single(i, draft))
        /\ queue' = AllocateBatch(c, DefaultRank, Single(i, draft))
    BY <1>4 DEF Replace, ReplaceAccepted, ReplaceEvent
  <2> QED BY <1>0, <2>1, <2>2, LossThenBatch, BatchTypes
<1>5. ASSUME NEW p \in Pending(queue), NEW C \in SUBSET Pending(queue),
             NEW B \in Batches, StepEvent(p, C \ {p}, B)
      PROVE  TiesInOrder(queue', RankPolicies)
  <2> SUFFICES ASSUME NEW h, h = Pop(queue, p), NEW c, c = CancelBatch(h, C \ {p})
               PROVE  TiesInOrder(queue', RankPolicies)
    OBVIOUS
  <2>1. /\ QueueInv(h) /\ IsQueue(h) /\ Pending(h) = Pending(queue) \ {p}
        /\ \A o \in Pending(h) : h.entries[o] = queue.entries[o]
    BY <1>0, <1>5, PopInv, PopIds, PopEntries DEF StepEvent, QueueInv
  <2>2. /\ IsQueue(c) /\ Pending(c) = Pending(h) \ (C \ {p})
        /\ \A o \in Pending(c) : c.entries[o] = h.entries[o]
    BY <2>1, CancelInv, CancelIds, CancelEntries DEF QueueInv
  <2>3. /\ BatchAccepted(c, DefaultRank, B)
        /\ queue' = AllocateBatch(c, DefaultRank, B)
    BY <1>5 DEF StepEvent, DispatchAccepted, DispatchEvent
  <2>4. Pending(c) \subseteq Pending(queue)
        /\ \A o \in Pending(c) : c.entries[o] = queue.entries[o]
    BY <2>1, <2>2
  <2> QED BY ZenonT(30), <1>0, <2>2, <2>3, <2>4, LossThenBatch, BatchTypes
<1>6. CASE UNCHANGED vars
  BY <1>6 DEF TiesInOrder, vars
<1> QED BY <1>1, <1>2, <1>3, <1>4, <1>5, <1>6 DEF Next

(* Events that wait for the same time run in the order of their phases and *)
(* then of their ids, whoever scheduled them and in whatever order.        *)
THEOREM AlwaysCanonicalTies == Spec => []CanonicalTies
<1> DEFINE Ties == TiesInOrder(queue, RankPolicies)
<1>1. Init => Ties
  BY TiesInit
<1>2. IInv /\ Ties /\ [Next]_vars => Ties'
  BY TiesNext DEF TiesInOrder, Pending, Precedes
<1>3. Ties => CanonicalTies
  BY DEF TiesInOrder, CanonicalTies
<1> HIDE DEF Ties
<1> QED BY <1>1, <1>2, <1>3, AlwaysIInv, PTL DEF Spec

-----------------------------------------------------------------------------
(* The queue implements the abstract schedule.                             *)

(* The effect of any step on what the abstract schedule sees: the events W *)
(* and R leave, the batch B arrives, nothing else changes.                 *)
Effect(W, R, B) ==
  /\ W \subseteq Pending(queue) /\ R \subseteq Pending(queue) /\ W \cap R = {}
  /\ Pending(queue') = ((Pending(queue) \ R) \ W) \cup DOMAIN B
  /\ DOMAIN B \cap queue.allocated = {}
  /\ \A o \in (Pending(queue) \ R) \ W :
       queue'.entries[o] = queue.entries[o] /\ queue.entries[o].causes \cap W = {}
  /\ \A i \in DOMAIN B :
       /\ queue'.entries[i].time = B[i].time
       /\ queue'.entries[i].causes = B[i].causes
       /\ B[i].time >= queue'.clock
       /\ B[i].causes \subseteq DOMAIN B \cup queue.allocated
  /\ executed' = executed \cup R
  /\ cancelled' = cancelled \cup W

LEMMA EffectMaps ==
  ASSUME IInv, NEW W, NEW R, NEW B, Effect(W, R, B)
  PROVE  /\ Abstract!Admit
         /\ Abstract!Removed = W \cup R
         /\ Abstract!Added = DOMAIN B
         /\ Abstract!Withdraw(W)
<1> DEFINE bar == [p \in Pending(queue) |->
                     [time |-> queue.entries[p].time, causes |-> queue.entries[p].causes]]
           bar1 == [p \in Pending(queue') |->
                     [time |-> queue'.entries[p].time, causes |-> queue'.entries[p].causes]]
           stay == (Pending(queue) \ R) \ W
<1>1. /\ queue.allocated = Pending(queue) \cup executed \cup cancelled
      /\ DOMAIN B \cap Pending(queue) = {}
  BY DEF IInv, LedgerPartition, Effect
<1>2. DOMAIN bar = Pending(queue) /\ DOMAIN bar1 = Pending(queue')
  OBVIOUS
<1>3. /\ Abstract!Added = DOMAIN B
      /\ Abstract!Removed = W \cup R
      /\ Abstract!Kept = stay
  <2>1. /\ Abstract!Added = Pending(queue') \ Pending(queue)
        /\ Abstract!Removed = Pending(queue) \ Pending(queue')
        /\ Abstract!Kept = Pending(queue) \cap Pending(queue')
    BY DEF Abstract!Added, Abstract!Removed, Abstract!Kept
  <2>2. QED
    BY <2>1, <1>1 DEF Effect
<1>4. Abstract!Used = queue.allocated
  BY <1>1 DEF Abstract!Used
<1>5. \A i \in stay : bar1[i] = bar[i] /\ bar[i].causes \cap W = {}
  <2>1. TAKE i \in stay
  <2>2. i \in Pending(queue) /\ i \in Pending(queue')
    BY DEF Effect
  <2>3. queue'.entries[i] = queue.entries[i] /\ queue.entries[i].causes \cap W = {}
    BY DEF Effect
  <2>4. QED
    BY <2>2, <2>3
<1>6. \A i \in DOMAIN B : /\ bar1[i].time >= queue'.clock
                          /\ bar1[i].causes \subseteq queue.allocated \cup DOMAIN B
  <2>1. TAKE i \in DOMAIN B
  <2>2. i \in Pending(queue')
    BY DEF Effect
  <2>3. /\ queue'.entries[i].time = B[i].time
        /\ queue'.entries[i].causes = B[i].causes
        /\ B[i].time >= queue'.clock
        /\ B[i].causes \subseteq DOMAIN B \cup queue.allocated
    BY DEF Effect
  <2>4. QED
    BY <2>2, <2>3
<1>7. Abstract!Admit
  <2>1. DOMAIN B \cap (executed \cup cancelled) = {}
    BY <1>1 DEF Effect
  <2>2. QED
    BY <2>1, <1>3, <1>4, <1>5, <1>6 DEF Abstract!Admit
<1>8. Abstract!Withdraw(W)
  BY <1>3, <1>5 DEF Abstract!Withdraw, Effect
<1>9. QED
  BY <1>3, <1>7, <1>8

(* Allocating a batch and cancelling a set are plans of the schedule. *)
LEMMA AllocateMaps ==
  ASSUME IInv, NEW rank, NEW B, BatchAccepted(queue, rank, B),
         queue' = AllocateBatch(queue, rank, B), UNCHANGED <<executed, cancelled>>
  PROVE  Abstract!Plan
<1>1. /\ Pending(queue') = Pending(queue) \cup DOMAIN B
      /\ queue'.allocated = queue.allocated \cup DOMAIN B
  BY AllocateIds
<1>2. DOMAIN B \cap queue.allocated = {}
  BY DEF BatchAccepted, FreshInBatch
<1>3. /\ \A o \in Pending(queue) \ DOMAIN B : queue'.entries[o] = queue.entries[o]
      /\ \A i \in DOMAIN B :
           queue'.entries[i].time = B[i].time /\ queue'.entries[i].causes = B[i].causes
      /\ queue'.clock = queue.clock
  BY AllocateEntries
<1>4. \A i \in DOMAIN B : /\ B[i].time >= queue.clock
                          /\ B[i].causes \subseteq DOMAIN B \cup queue.allocated
  BY DEF BatchAccepted, NotInPast, CausesInOrder
<1>5. Pending(queue) \cap DOMAIN B = {}
  BY <1>2 DEF IInv, QueueInv, Restorable
<1>6. Effect({}, {}, B)
  BY <1>1, <1>2, <1>3, <1>4, <1>5 DEF Effect
<1>7. QED
  BY <1>3, <1>6, EffectMaps DEF Abstract!Plan

LEMMA CancelMaps ==
  ASSUME IInv, NEW i \in Pending(queue), Cancel(i)
  PROVE  Abstract!Plan
<1> DEFINE B == [j \in {} |-> j]
<1>0. IsQueue(queue)
  BY DEF IInv, QueueInv
<1>1. Pending(queue') = Pending(queue) \ {i}
  BY <1>0, CancelIds DEF Cancel
<1>2. \A o \in Pending(queue) \ {i} : queue'.entries[o] = queue.entries[o]
  BY <1>0, CancelEntries DEF Cancel
<1>3. queue'.clock = queue.clock
  BY <1>0, CancelEntries DEF Cancel
<1>4. \A o \in Pending(queue) \ {i} : queue.entries[o].causes \cap {i} = {}
  BY DEF Cancel, CancelAccepted
<1>5. Effect({i}, {}, B)
  BY <1>1, <1>2, <1>4 DEF Effect, Cancel
<1>6. Abstract!Admit /\ Abstract!Removed = {i} /\ Abstract!Withdraw({i})
  BY <1>5, EffectMaps
<1>7. QED
  BY <1>3, <1>6 DEF Abstract!Plan, Cancel

LEMMA ReplaceMaps ==
  ASSUME IInv, NEW target \in Pending(queue), NEW i \in FreshIds, NEW draft \in UsedDraft,
         Replace(target, i, draft)
  PROVE  Abstract!Plan
<1> DEFINE B == Single(i, draft)
<1> SUFFICES ASSUME NEW c, c = CancelBatch(queue, {target})
             PROVE  Abstract!Plan
  OBVIOUS
<1>0. IsQueue(queue)
  BY DEF IInv, QueueInv
<1>1. /\ BatchAccepted(c, DefaultRank, B)
      /\ queue' = AllocateBatch(c, DefaultRank, B)
      /\ CancelAccepted(queue, {target})
      /\ executed' = executed /\ cancelled' = cancelled \cup {target}
  BY DEF Replace, ReplaceAccepted, ReplaceEvent
<1> HIDE DEF B
<1>2. Pending(c) = Pending(queue) \ {target} /\ c.allocated = queue.allocated
  BY <1>0, CancelIds
<1>3. /\ \A o \in Pending(queue) \ {target} : c.entries[o] = queue.entries[o]
      /\ c.clock = queue.clock
  BY <1>0, CancelEntries
<1>4. Pending(queue') = Pending(c) \cup DOMAIN B
  BY <1>1, AllocateIds
<1>5. /\ \A o \in Pending(c) \ DOMAIN B : queue'.entries[o] = c.entries[o]
      /\ \A j \in DOMAIN B :
           queue'.entries[j].time = B[j].time /\ queue'.entries[j].causes = B[j].causes
      /\ queue'.clock = c.clock
  BY <1>1, AllocateEntries
<1>6. /\ DOMAIN B \cap queue.allocated = {}
      /\ \A j \in DOMAIN B : /\ B[j].time >= queue.clock
                             /\ B[j].causes \subseteq DOMAIN B \cup queue.allocated
  BY <1>1, <1>2, <1>3 DEF BatchAccepted, FreshInBatch, NotInPast, CausesInOrder
<1>7. Pending(c) \cap DOMAIN B = {}
  BY <1>2, <1>6 DEF IInv, QueueInv, Restorable
<1>8. \A o \in Pending(queue) \ {target} :
        queue'.entries[o] = queue.entries[o] /\ queue.entries[o].causes \cap {target} = {}
  <2>1. TAKE o \in Pending(queue) \ {target}
  <2>2. queue'.entries[o] = c.entries[o]
    BY <1>2, <1>5, <1>7
  <2>3. queue.entries[o].causes \cap {target} = {}
    BY <1>1 DEF CancelAccepted
  <2>4. QED
    BY <2>2, <2>3, <1>3
<1>9. queue'.clock = queue.clock
  BY <1>3, <1>5
<1>10. Effect({target}, {}, B)
  BY <1>1, <1>2, <1>4, <1>5, <1>6, <1>8, <1>9 DEF Effect
<1>11. Abstract!Admit /\ Abstract!Removed = {target} /\ Abstract!Withdraw({target})
  BY <1>10, EffectMaps
<1>12. QED
  BY <1>1, <1>9, <1>11 DEF Abstract!Plan

(* A dispatch is a run of the schedule. *)
LEMMA RunMaps ==
  ASSUME IInv, NEW p \in Pending(queue), NEW C \in SUBSET Pending(queue),
         NEW B \in Batches, StepEvent(p, C \ {p}, B)
  PROVE  Abstract!Run(p)
<1> DEFINE W == C \ {p}
           bar == [o \in Pending(queue) |->
                     [time |-> queue.entries[o].time, causes |-> queue.entries[o].causes]]
           bar1 == [o \in Pending(queue') |->
                     [time |-> queue'.entries[o].time, causes |-> queue'.entries[o].causes]]
<1>1. /\ Pending(queue') = ((Pending(queue) \ {p}) \ W) \cup DOMAIN B
      /\ DOMAIN B \cap queue.allocated = {}
      /\ \A o \in (Pending(queue) \ {p}) \ W : queue'.entries[o] = queue.entries[o]
      /\ \A i \in DOMAIN B : /\ queue'.entries[i].time = B[i].time
                             /\ queue'.entries[i].causes = B[i].causes
                             /\ B[i].time >= queue.entries[p].time
                             /\ B[i].causes \subseteq DOMAIN B \cup queue.allocated
      /\ queue'.clock = queue.entries[p].time
      /\ executed' = executed \cup {p}
      /\ cancelled' = cancelled \cup W
  <2>1. (Pending(queue) \ {p}) \ W = (Pending(queue) \ {p}) \ C
    OBVIOUS
  <2>2. /\ Pending(queue') = ((Pending(queue) \ {p}) \ C) \cup DOMAIN B
        /\ DOMAIN B \cap queue.allocated = {}
        /\ queue'.clock = queue.entries[p].time
        /\ executed' = executed \cup {p}
        /\ cancelled' = cancelled \cup W
    BY StepEffect
  <2>3. \A o \in (Pending(queue) \ {p}) \ C : queue'.entries[o] = queue.entries[o]
    BY StepEffect
  <2>4. \A i \in DOMAIN B : /\ queue'.entries[i].time = B[i].time
                            /\ queue'.entries[i].causes = B[i].causes
                            /\ B[i].time >= queue.entries[p].time
                            /\ B[i].causes \subseteq DOMAIN B \cup queue.allocated
    BY StepEffect
  <2>5. QED
    BY <2>1, <2>2, <2>3, <2>4
<1>2. /\ IsHead(queue, p)
      /\ \A i \in DOMAIN B : p \in B[i].causes
      /\ \A i \in DOMAIN B : B[i].causes \cap W = {}
      /\ \A o \in (Pending(queue) \ {p}) \ W : queue.entries[o].causes \cap W = {}
  <2> SUFFICES ASSUME NEW h, h = Pop(queue, p)
               PROVE  /\ IsHead(queue, p)
                      /\ \A i \in DOMAIN B : p \in B[i].causes
                      /\ \A i \in DOMAIN B : B[i].causes \cap W = {}
                      /\ \A o \in (Pending(queue) \ {p}) \ W :
                           queue.entries[o].causes \cap W = {}
    OBVIOUS
  <2>1. Pending(h) = Pending(queue) \ {p}
    BY PopIds
  <2>2. \A o \in Pending(queue) \ {p} : h.entries[o] = queue.entries[o]
    BY PopEntries
  <2>3. W \cap Pending(h) = W
    BY <2>1
  <2>4. /\ IsHead(queue, p)
        /\ \A i \in DOMAIN B : p \in B[i].causes
        /\ CancelAccepted(h, W)
        /\ \A i \in DOMAIN B : B[i].causes \cap (W \cap Pending(h)) = {}
    BY DEF StepEvent, DispatchAccepted
  <2>5. \A o \in Pending(h) \ W : h.entries[o].causes \cap W = {}
    BY <2>3, <2>4 DEF CancelAccepted
  <2>6. QED
    BY <2>1, <2>2, <2>3, <2>4, <2>5
<1>3. Effect(W, {p}, B)
  BY <1>1, <1>2 DEF Effect
<1>4. /\ Abstract!Admit /\ Abstract!Removed = W \cup {p}
      /\ Abstract!Added = DOMAIN B /\ Abstract!Withdraw(W)
  BY <1>3, EffectMaps
<1>5. \A o \in Pending(queue) : /\ queue.entries[o].time \in Nat
                                /\ queue.entries[o].seq \in Nat
  BY DEF IInv, QueueInv, IsQueue, Event
<1>6. \A o \in Pending(queue) : queue.entries[p].time <= queue.entries[o].time
  BY <1>2, <1>5 DEF IsHead, Earlier
<1>7. queue.entries[p].causes \cap Pending(queue) = {}
  <2>1. ASSUME NEW o \in queue.entries[p].causes \cap Pending(queue)
        PROVE  FALSE
    <3>1. Earlier(queue.entries[o], queue.entries[p])
      BY <2>1 DEF IInv, QueueInv, Restorable
    <3>2. o # p => Earlier(queue.entries[p], queue.entries[o])
      BY <1>2, <2>1 DEF IsHead
    <3>3. QED
      BY <1>5, <2>1, <3>1, <3>2 DEF Earlier
  <2>2. QED
    BY <2>1
<1>8. queue'.clock >= queue.clock
  <2>1. queue.clock \in Nat
    BY DEF IInv, QueueInv, IsQueue
  <2>2. queue.entries[p].time >= queue.clock
    BY <1>5, <2>1 DEF IInv, QueueInv, Restorable
  <2>3. QED
    BY <1>1, <2>2
<1>9. \A i \in DOMAIN B : p \in bar1[i].causes /\ bar1[i].causes \cap W = {}
  BY <1>1, <1>2
<1>10. DOMAIN bar = Pending(queue) /\ \A o \in Pending(queue) :
         bar[o].time = queue.entries[o].time /\ bar[o].causes = queue.entries[o].causes
  OBVIOUS
<1>11. (W \cup {p}) \ {p} = W
  OBVIOUS
<1> HIDE DEF W, bar, bar1
<1>12. p \in Abstract!Removed /\ Abstract!Removed \ {p} = W
  BY <1>4, <1>11
<1>13. QED
  BY <1>1, <1>4, <1>6, <1>7, <1>8, <1>9, <1>10, <1>12 DEF Abstract!Run, bar, bar1

(* The queue implements the abstract schedule: an event runs only when     *)
(* none of its causes waits and no other event is due earlier.             *)
THEOREM ImplementsSchedule == Spec => CausalOrder
<1>1. Init => Abstract!Init
  <2> SUFFICES ASSUME NEW start \in Times, queue = FreshQueue(start),
                      executed = {}, cancelled = {}
               PROVE  Abstract!Init
    BY DEF Init
  <2>1. Pending(queue) = {} /\ queue.clock = start /\ start \in Nat
    BY TimesAssumption DEF FreshQueue, Pending
  <2>2. QED
    BY <2>1 DEF Abstract!Init
<1>2. IInv /\ [Next]_vars => [Abstract!Next]_(Abstract!scheduleVars)
  <2> SUFFICES ASSUME IInv, [Next]_vars
               PROVE  Abstract!Next \/ UNCHANGED Abstract!scheduleVars
    OBVIOUS
  <2>1. ASSUME NEW rank \in RankPolicies, NEW B \in Batches, ScheduleBatch(rank, B)
        PROVE  Abstract!Plan
    BY <2>1, AllocateMaps DEF ScheduleBatch
  <2>2. ASSUME NEW i \in FreshIds, NEW draft \in UsedDraft, Schedule(i, draft)
        PROVE  Abstract!Plan
    BY <2>2, AllocateMaps DEF Schedule
  <2>3. ASSUME NEW i \in Pending(queue), Cancel(i)
        PROVE  Abstract!Plan
    BY <2>3, CancelMaps
  <2>4. ASSUME NEW target \in Pending(queue), NEW i \in FreshIds,
               NEW draft \in UsedDraft, Replace(target, i, draft)
        PROVE  Abstract!Plan
    BY <2>4, ReplaceMaps
  <2>5. ASSUME NEW p \in Pending(queue), NEW C \in SUBSET Pending(queue),
               NEW B \in Batches, StepEvent(p, C \ {p}, B)
        PROVE  Abstract!Next
    <3>1. Abstract!Run(p)
      BY <2>5, RunMaps
    <3>2. QED
      BY <3>1 DEF Abstract!Next
  <2>6. CASE UNCHANGED vars
    BY <2>6 DEF vars, Abstract!scheduleVars
  <2>7. QED
    BY <2>1, <2>2, <2>3, <2>4, <2>5, <2>6 DEF Next, Abstract!Next
<1>3. QED
  BY <1>1, <1>2, AlwaysIInv, PTL DEF Spec, CausalOrder, Abstract!Spec


-----------------------------------------------------------------------------
(***************************************************************************)
(* The timer port.                                                         *)
(*                                                                         *)
(* The argument: the next number never falls, the frontier never goes      *)
(* back, and whatever moves the queue on makes one of them grow.  So a     *)
(* context that still agrees with both was handed out after the last such  *)
(* step.                                                                   *)
(***************************************************************************)

Frontier(q) == [time |-> q.clock, seq |-> q.current]

(* How far the queue has come since the context was handed out. *)
ContextInv ==
  /\ context.time \in Nat /\ context.seq \in Nat /\ context.next \in Nat
  /\ context.next <= queue.next
  /\ \/ context.time = queue.clock /\ context.seq = queue.current
     \/ Earlier(context, Frontier(queue))
  /\ moved => context.next < queue.next \/ Earlier(context, Frontier(queue))

PortInv == IInv /\ ContextInv

(* One event fits in a batch, and none does. *)
LEMMA SmallBatches ==
  /\ [i \in {} |-> i] \in Batches
  /\ \A i \in FreshIds, draft \in UsedDraft : Single(i, draft) \in Batches
<1>1. IsFiniteSet({}) /\ Cardinality({}) = 0
  BY FS_EmptySet
<1>2. {} \in {J \in SUBSET FreshIds : IsFiniteSet(J) /\ Cardinality(J) <= MaxBatch}
  BY <1>1, BoundsAssumption
<1>3. [i \in {} |-> i] \in [{} -> UsedDraft]
  OBVIOUS
<1>4. ASSUME NEW i \in FreshIds, NEW draft \in UsedDraft
      PROVE  Single(i, draft) \in Batches
  <2>1. IsFiniteSet({i}) /\ Cardinality({i}) = 1
    BY FS_Singleton
  <2>2. {i} \in {J \in SUBSET FreshIds : IsFiniteSet(J) /\ Cardinality(J) <= MaxBatch}
    BY <2>1, BoundsAssumption, PortAssumption
  <2>3. Single(i, draft) \in [{i} -> UsedDraft]
    BY DEF Single
  <2> QED
    BY <2>2, <2>3 DEF Batches
<1> QED
  BY <1>2, <1>3, <1>4 DEF Batches

(* The kernel's turn is a step of the queue that cancels nothing. *)
LEMMA TurnIsStep ==
  ASSUME NEW p \in Pending(queue), NEW B, KernelTurn(p, B)
  PROVE  StepEvent(p, {} \ {p}, B)
<1>1. {} \ {p} = {}
  OBVIOUS
<1> QED
  BY <1>1 DEF KernelTurn

(* What the port and the kernel do to the queue are steps of the queue. *)
LEMMA PortStepIsQueueStep == PortNext => [Next]_vars
<1> SUFFICES ASSUME PortNext PROVE [Next]_vars
  OBVIOUS
<1>1. ASSUME NEW p \in Pending(queue), NEW B \in Batches, KernelTurn(p, B)
      PROVE  Next
  <2>1. StepEvent(p, {} \ {p}, B)
    BY <1>1, TurnIsStep
  <2> QED
    BY <2>1 DEF Next
<1>2. ASSUME NEW causes, HandOut(causes) PROVE UNCHANGED vars
  BY <1>2 DEF HandOut
<1>3. ASSUME NEW i \in FreshIds, NEW draft \in UsedDraft, PortSchedule(i, draft)
      PROVE  Next
  BY <1>3 DEF PortSchedule, Next
<1>4. ASSUME NEW target \in Pending(queue), NEW i \in FreshIds, NEW draft \in UsedDraft,
             PortReplace(target, i, draft)
      PROVE  Next
  BY <1>4 DEF PortReplace, Next
<1>5. ASSUME NEW i \in Pending(queue), PortCancel(i) PROVE Next
  BY <1>5 DEF PortCancel, Next
<1> QED
  BY <1>1, <1>2, <1>3, <1>4, <1>5, SmallBatches DEF PortNext, LoneDraft

LEMMA FrontierType ==
  ASSUME IInv
  PROVE  queue.clock \in Nat /\ queue.current \in Nat /\ queue.next \in Nat \ {0}
BY DEF IInv, QueueInv, IsQueue

(* A call that allocates moves the next number on by one. *)
LEMMA AllocationMoves ==
  ASSUME NEW q, q.next \in Nat, NEW i, NEW draft
  PROVE  LET r == AllocateBatch(q, DefaultRank, Single(i, draft))
         IN r.next = q.next + 1 /\ r.clock = q.clock /\ r.current = q.current
<1>1. DOMAIN Single(i, draft) = {i} /\ Cardinality({i}) = 1
  BY FS_Singleton DEF Single
<1> QED
  BY <1>1 DEF AllocateBatch

(* A dispatch moves the frontier on and takes no number back. *)
LEMMA DispatchMoves ==
  ASSUME IInv, NEW p \in Pending(queue), NEW B \in Batches, KernelTurn(p, B)
  PROVE  /\ queue'.next \in Nat /\ queue.next <= queue'.next
         /\ Earlier(Frontier(queue), Frontier(queue'))
<1>1. StepEvent(p, {} \ {p}, B)
  BY TurnIsStep
<1>2. queue'.clock = queue.entries[p].time /\ queue'.current = queue.entries[p].seq
  BY <1>1, StepEffect
<1>3. \/ queue.entries[p].time > queue.clock
      \/ queue.entries[p].time = queue.clock /\ queue.entries[p].seq > queue.current
  BY DEF IInv, QueueInv, Restorable
<1>4. queue.entries[p].time \in Nat /\ queue.entries[p].seq \in Nat
  BY DEF IInv, QueueInv, IsQueue, Event
<1>5. queue'.next = queue.next + Cardinality(DOMAIN B)
  <2>1. queue' = AllocateBatch(CancelBatch(Pop(queue, p), {}), DefaultRank, B)
    BY DEF KernelTurn, StepEvent, DispatchEvent
  <2>2. CancelBatch(Pop(queue, p), {}).next = queue.next
    BY DEF CancelBatch, Pop
  <2> QED
    BY <2>1, <2>2 DEF AllocateBatch
<1>6. Cardinality(DOMAIN B) \in Nat
  BY BatchTypes, FS_CardinalityType
<1> QED
  BY <1>2, <1>3, <1>4, <1>5, <1>6, FrontierType DEF Earlier, Frontier

LEMMA PortInitInv == Init /\ PortInit => PortInv
<1> SUFFICES ASSUME Init, PortInit PROVE PortInv
  OBVIOUS
<1>1. IInv
  BY InitInv
<1> QED
  BY <1>1, FrontierType DEF PortInv, ContextInv, PortInit, ContextAt

LEMMA PortStepInv == PortInv /\ [PortNext]_allPortVars => PortInv'
<1> SUFFICES ASSUME PortInv, [PortNext]_allPortVars PROVE PortInv'
  OBVIOUS
<1>1. IInv'
  BY PortStepIsQueueStep, NextInv DEF PortInv, allPortVars
<1>3. /\ queue.clock \in Nat /\ queue.current \in Nat /\ queue.next \in Nat
      /\ queue'.clock \in Nat /\ queue'.current \in Nat /\ queue'.next \in Nat
  BY <1>1, FrontierType DEF PortInv, IInv, QueueInv, IsQueue
<1>4. CASE UNCHANGED allPortVars
  BY <1>1, <1>4 DEF PortInv, ContextInv, allPortVars, vars, portVars
<1>5. ASSUME NEW causes, HandOut(causes) PROVE ContextInv'
  BY <1>3, <1>5 DEF HandOut, vars, ContextAt, ContextInv
<1>6. ASSUME NEW i \in FreshIds, NEW draft \in UsedDraft, PortSchedule(i, draft)
      PROVE  ContextInv'
  <2>1. /\ queue'.next = queue.next + 1
        /\ queue'.clock = queue.clock /\ queue'.current = queue.current
    BY <1>3, <1>6, AllocationMoves DEF PortSchedule, Schedule
  <2> QED
    BY <1>3, <1>6, <2>1 DEF PortInv, ContextInv, PortSchedule, Frontier, Earlier
<1>7. ASSUME NEW target \in Pending(queue), NEW i \in FreshIds, NEW draft \in UsedDraft,
             PortReplace(target, i, draft)
      PROVE  ContextInv'
  <2> DEFINE c == CancelBatch(queue, {target})
  <2>1. c.next = queue.next /\ c.clock = queue.clock /\ c.current = queue.current
    BY DEF CancelBatch
  <2>2. queue' = AllocateBatch(c, DefaultRank, Single(i, draft))
    BY <1>7 DEF PortReplace, Replace, ReplaceEvent
  <2>3. /\ queue'.next = queue.next + 1
        /\ queue'.clock = queue.clock /\ queue'.current = queue.current
    <3> HIDE DEF c
    <3> QED
      BY <1>3, <2>1, <2>2, AllocationMoves
  <2> QED
    BY <1>3, <1>7, <2>3 DEF PortInv, ContextInv, PortReplace, Frontier, Earlier
<1>8. ASSUME NEW i \in Pending(queue), PortCancel(i) PROVE ContextInv'
  <2>1. /\ queue'.next = queue.next
        /\ queue'.clock = queue.clock /\ queue'.current = queue.current
    BY <1>8 DEF PortCancel, Cancel, CancelBatch
  <2> QED
    BY <1>8, <2>1 DEF PortInv, ContextInv, PortCancel, portVars, Frontier, Earlier
<1>9. ASSUME NEW p \in Pending(queue), NEW B \in Batches, KernelTurn(p, B)
      PROVE  ContextInv'
  <2>1. queue.next <= queue'.next /\ Earlier(Frontier(queue), Frontier(queue'))
    BY <1>9, DispatchMoves DEF PortInv
  <2>2. context' = context /\ moved'
    BY <1>9 DEF KernelTurn
  <2> QED
    BY <1>3, <2>1, <2>2 DEF PortInv, ContextInv, Frontier, Earlier
<1> QED
  BY <1>1, <1>4, <1>5, <1>6, <1>7, <1>8, <1>9, SmallBatches DEF PortInv, PortNext, LoneDraft

(* Whatever a consumer of timers keeps, and whatever the kernel and it do  *)
(* in between: the port accepts a context only if nothing was dispatched   *)
(* or allocated since it was handed out, and then peek passes the          *)
(* assertion on its result.                                                *)
THEOREM ContextsAreCurrent == PortSpec => []OnlyCurrentContexts
<1>1. PortInv => OnlyCurrentContexts
  <2> SUFFICES ASSUME PortInv, ContextMatches
               PROVE  ~moved /\ \A p \in Pending(queue) : Earlier(context, queue.entries[p])
    BY DEF OnlyCurrentContexts
  <2>1. queue.clock \in Nat /\ queue.current \in Nat /\ queue.next \in Nat
    BY FrontierType DEF PortInv
  <2>2. ~moved
    BY <2>1 DEF PortInv, ContextInv, ContextMatches, Frontier, Earlier
  <2>3. \A p \in Pending(queue) : Earlier(context, queue.entries[p])
    BY DEF PortInv, IInv, QueueInv, Restorable, ContextMatches, Earlier
  <2> QED
    BY <2>2, <2>3
<1>2. PortSpec => []PortInv
  BY PortInitInv, PortStepInv, PTL DEF PortSpec
<1> QED
  BY <1>1, <1>2, PTL

-----------------------------------------------------------------------------
(* The entity registry. *)

LEMMA AlwaysRegistryInv == RegistrySpec => []RegistryInv(registry)
<1>1. RegistryInit => RegistryInv(registry)
  BY FreshInv, FormsAssumption DEF RegistryInit
<1>2. RegistryInv(registry) /\ [RegistryNext]_registry => RegistryInv(registry')
  <2> SUFFICES ASSUME RegistryInv(registry), RegistryNext
               PROVE  RegistryInv(registry')
    OBVIOUS
  <2>1. ASSUME NEW e \in EntityIds, NEW state \in Forms, SpawnEntity(e, state)
        PROVE  RegistryInv(registry')
    BY <2>1, SpawnInv, FormsAssumption DEF SpawnEntity
  <2>2. ASSUME NEW e \in EntityIds, DespawnEntity(e)
        PROVE  RegistryInv(registry')
    BY <2>2, DespawnInv DEF DespawnEntity
  <2>3. ASSUME NEW t \in UsedTransitions, ApplyTransition(t)
        PROVE  RegistryInv(registry')
    <3>1. t \in Lifecycle
      BY FormsAssumption DEF UsedTransitions, Lifecycle
    <3>2. QED
      BY <2>3, <3>1, ApplyInv DEF ApplyTransition
  <2>4. QED
    BY <2>1, <2>2, <2>3 DEF RegistryNext
<1>3. (RegistryInv(registry))' <=> RegistryInv(registry')
  BY DEF RegistryInv, IsRegistry, Consistent, ReferencesResolve, OwnershipEnds, Active
<1>4. QED
  BY <1>1, <1>2, <1>3, PTL DEF RegistrySpec

(* Every reachable registry has its type. *)
THEOREM RegistryTyped == RegistrySpec => []RegistryTypeOK
<1>1. RegistryInv(registry) => RegistryTypeOK
  BY DEF RegistryInv, RegistryTypeOK
<1>2. QED
  BY <1>1, AlwaysRegistryInv, PTL

(* No accepted sequence of calls leaves a dangling reference, a cycle of   *)
(* owners or a retired id among the active ones, for any number of         *)
(* entities.                                                               *)
THEOREM AlwaysRebuildable == RegistrySpec => []Rebuildable
<1>1. RegistryInv(registry) => Rebuildable
  BY DEF RegistryInv, Rebuildable
<1>2. QED
  BY <1>1, AlwaysRegistryInv, PTL


(* A pair of id and revision names one state for ever. *)
THEOREM AlwaysVersioned == RegistrySpec => StateVersioned
<1>1. RegistryInv(registry) /\ [RegistryNext]_registry => [KeepsVersions(registry, registry')]_registry
  <2> SUFFICES ASSUME RegistryInv(registry), RegistryNext
               PROVE  KeepsVersions(registry, registry')
    OBVIOUS
  <2>1. ASSUME NEW e \in EntityIds, NEW state \in Forms, SpawnEntity(e, state)
        PROVE  KeepsVersions(registry, registry')
    BY <2>1, SpawnVersions DEF SpawnEntity
  <2>2. ASSUME NEW e \in EntityIds, DespawnEntity(e)
        PROVE  KeepsVersions(registry, registry')
    BY <2>2, DespawnVersions DEF DespawnEntity
  <2>3. ASSUME NEW t \in UsedTransitions, ApplyTransition(t)
        PROVE  KeepsVersions(registry, registry')
    <3>1. t \in Lifecycle
      BY FormsAssumption DEF UsedTransitions, Lifecycle
    <3>2. QED
      BY <2>3, <3>1, ApplyVersions DEF ApplyTransition
  <2>4. QED
    BY <2>1, <2>2, <2>3 DEF RegistryNext
<1> DEFINE Keeps ==
      /\ \A e \in Active(registry) :
           IF e \in Active(registry')
           THEN \/ /\ registry'.revisions[e] = registry.revisions[e]
                   /\ registry'.entities[e] = registry.entities[e]
                \/ registry'.revisions[e] > registry.revisions[e]
           ELSE e \in registry'.retired
      /\ \A e \in registry.retired :
           e \in registry'.retired /\ e \notin Active(registry')
<1>2. RegistryInv(registry) /\ [RegistryNext]_registry => [Keeps]_registry
  BY <1>1 DEF KeepsVersions
<1>3. QED
  BY <1>2, AlwaysRegistryInv, PTL DEF StateVersioned, RegistrySpec

-----------------------------------------------------------------------------
(* The batch protocol of lifecycle transitions. *)

(* Before a failure the port holds what apply reported; a batch that       *)
(* failed never reaches commit.                                            *)
BatchInv ==
  /\ BatchTypeOK
  /\ ~failed /\ phase \in {"working", "committing"} => staged = told
  /\ phase = "committing" => ~failed /\ validated = told
  /\ phase = "none" => told = << >>

LEMMA BatchInvAlways == BatchSpec => []BatchInv
<1>1. BatchInit => BatchInv
  <2> SUFFICES ASSUME BatchInit
               PROVE  BatchInv
    OBVIOUS
  <2>1. << >> \in Seq(LifecycleTransitions)
    OBVIOUS
  <2>2. BatchTypeOK
    BY <2>1 DEF BatchInit, BatchTypeOK
  <2>3. QED
    BY <2>2 DEF BatchInit, BatchInv
<1>2. BatchInv /\ [BatchNext]_batchVars => BatchInv'
  <2> SUFFICES ASSUME BatchInv, [BatchNext]_batchVars
               PROVE  BatchInv'
    OBVIOUS
  <2> USE DEF BatchInv, BatchTypeOK
  <2>1. ASSUME NEW complete \in BOOLEAN, BeginBatch(complete)
        PROVE  BatchInv'
    BY <2>1 DEF BeginBatch
  <2>2. ASSUME NEW t \in LifecycleTransitions, ApplyMember(t)
        PROVE  BatchInv'
    BY <2>2 DEF ApplyMember
  <2>3. ASSUME NEW t \in LifecycleTransitions, MemberThrows(t)
        PROVE  BatchInv'
    <3>1. staged' = staged \/ staged' = Append(staged, t)
      BY <2>3 DEF MemberThrows
    <3>2. staged' \in Seq(LifecycleTransitions)
      <4>1. staged \in Seq(LifecycleTransitions)
        OBVIOUS
      <4>2. Append(staged, t) \in Seq(LifecycleTransitions)
        BY <4>1
      <4>3. QED
        BY <3>1, <4>1, <4>2
    <3>3. QED
      BY <2>3, <3>2 DEF MemberThrows
  <2>4. CASE WorkReturns
    BY <2>4 DEF WorkReturns
  <2>5. CASE WorkThrows
    BY <2>5 DEF WorkThrows
  <2>6. CASE CommitReturns
    <3>1. published' \in Seq(LifecycleTransitions)
      BY <2>6 DEF CommitReturns
    <3>2. staged' = << >> /\ told' = << >> /\ << >> \in Seq(LifecycleTransitions)
      BY <2>6 DEF CommitReturns
    <3>3. QED
      BY <2>6, <3>1, <3>2 DEF CommitReturns
  <2>7. CASE CommitThrows
    BY <2>7 DEF CommitThrows
  <2>8. CASE Rollback
    BY <2>8 DEF Rollback
  <2>9. CASE UNCHANGED batchVars
    BY <2>9 DEF batchVars
  <2>10. QED
    BY <2>1, <2>2, <2>3, <2>4, <2>5, <2>6, <2>7, <2>8, <2>9 DEF BatchNext
<1>3. QED
  BY <1>1, <1>2, PTL DEF BatchSpec

(* Every reachable batch has its type: one phase of the callback, one of   *)
(* the port, and transitions only in what is told, staged and published.   *)
THEOREM BatchTyped == BatchSpec => []BatchTypeOK
<1>1. BatchInv => BatchTypeOK
  BY DEF BatchInv
<1>2. QED
  BY <1>1, BatchInvAlways, PTL

(* The port publishes nothing the step had not staged when it was done. *)
THEOREM AlwaysOnlyValidated == BatchSpec => []OnlyValidated
<1>1. BatchInv => OnlyValidated
  BY DEF BatchInv, OnlyValidated
<1>2. QED
  BY <1>1, BatchInvAlways, PTL

(* A batch is atomic: all of it becomes visible, once and in order, or     *)
(* none of it.                                                             *)
THEOREM BatchesAreAtomic == BatchSpec => AllOrNothing
<1>1. BatchInit => Atomic!Init
  BY DEF BatchInit, Atomic!Init
<1>2. BatchInv /\ [BatchNext]_batchVars => [Atomic!Next]_(Atomic!vars)
  <2> SUFFICES ASSUME BatchInv, [BatchNext]_batchVars
               PROVE  Atomic!Next \/ UNCHANGED Atomic!vars
    OBVIOUS
  <2> USE DEF Atomic!Next, Atomic!vars
  <2>1. ASSUME NEW complete \in BOOLEAN, BeginBatch(complete)
        PROVE  Atomic!Discard
    BY <2>1 DEF BeginBatch, Atomic!Discard
  <2>2. ASSUME NEW t \in LifecycleTransitions, ApplyMember(t)
        PROVE  Atomic!Tell
    <3>1. told \in Seq(LifecycleTransitions)
      BY DEF BatchInv, BatchTypeOK
    <3>2. /\ Len(Append(told, t)) = Len(told) + 1
          /\ SubSeq(Append(told, t), 1, Len(told)) = told
      BY <3>1
    <3>3. QED
      BY <2>2, <3>2 DEF ApplyMember, Atomic!Tell
  <2>3. ASSUME NEW t \in LifecycleTransitions, MemberThrows(t)
        PROVE  UNCHANGED Atomic!vars
    BY <2>3 DEF MemberThrows
  <2>4. CASE WorkReturns
    BY <2>4 DEF WorkReturns
  <2>5. CASE WorkThrows
    BY <2>5 DEF WorkThrows
  <2>6. CASE CommitReturns
    <3>1. staged = told
      BY <2>6 DEF BatchInv, CommitReturns
    <3>2. Atomic!Publish
      BY <2>6, <3>1 DEF CommitReturns, Atomic!Publish
    <3>3. QED
      BY <3>2
  <2>7. CASE CommitThrows
    BY <2>7 DEF CommitThrows
  <2>8. CASE Rollback
    BY <2>8 DEF Rollback, Atomic!Discard
  <2>9. CASE UNCHANGED batchVars
    BY <2>9 DEF batchVars
  <2>10. QED
    BY <2>1, <2>2, <2>3, <2>4, <2>5, <2>6, <2>7, <2>8, <2>9 DEF BatchNext
<1>3. QED
  BY <1>1, <1>2, BatchInvAlways, PTL DEF BatchSpec, AllOrNothing, Atomic!Spec
=============================================================================
