------------------------------ MODULE QueueOps ------------------------------
(***************************************************************************)
(* The value of a kernel event queue and the pure part of its operations   *)
(* (src/domain/engine/kernel/event-queue.ts).  A queue is a record; every  *)
(* method of the class is an operator from a queue to the queue it leaves  *)
(* behind, next to the condition under which the method does not throw.    *)
(* EventQueue.tla drives one queue with these operators, KernelSession.tla *)
(* drives the working copy of a session's queue with them.                 *)
(*                                                                         *)
(* The code keeps the pending events in an array that it sorts by          *)
(* (timeMs, sequence) after every insertion; here they are a function from *)
(* event id to event, and "the first entry" is the least one of that       *)
(* order.  kind and payload are not kept: no decision of the queue reads   *)
(* them.  A batch is a function from event ids to drafts, so that a batch  *)
(* with a repeated id (which the code rejects) cannot be written down.     *)
(***************************************************************************)
EXTENDS Integers, FiniteSets

CONSTANTS
  Ids,             (* event ids; numbers, for the order the code puts strings in *)
  MaxSafeInteger   (* the largest sequence number, 2^53 - 1 in the code          *)

ASSUME IdsAssumption == Ids \subseteq Nat
ASSUME MaxSafeAssumption == MaxSafeInteger \in Nat

(* DEFAULT_PHASE_ORDER: the rank of each phase among the events of one time *)
DefaultRank ==
  [input |-> 1, windup |-> 2, impact |-> 3, periodic |-> 4, expiry |-> 5,
   lifecycle |-> 6, checkpoint |-> 7]

Phases == DOMAIN DefaultRank

(* What a caller hands over, and what the queue keeps of it. *)
Draft == [time : Nat, phase : Phases, causes : SUBSET Ids]
Event == [time : Nat, phase : Phases, causes : SUBSET Ids, seq : Nat \ {0}]

(* The ids that wait in the queue. *)
Pending(q) == DOMAIN q.entries

IsBatch(B) ==
  /\ DOMAIN B \subseteq Ids
  /\ B = [i \in DOMAIN B |-> B[i]]
  /\ \A i \in DOMAIN B : B[i] \in Draft

IsQueue(q) ==
  /\ q = [entries |-> q.entries, clock |-> q.clock, last |-> q.last,
          current |-> q.current, next |-> q.next, allocated |-> q.allocated]
  /\ q.entries = [p \in Pending(q) |-> q.entries[p]]
  /\ Pending(q) \subseteq Ids
  /\ \A p \in Pending(q) : q.entries[p] \in Event
  /\ q.clock \in Nat /\ q.last \in Nat /\ q.current \in Nat
  /\ q.next \in Nat \ {0}
  /\ q.allocated \subseteq Ids

(* Variants of a definition that a plausible slip in the code would give   *)
(* stand before it, named <definition>_<slip>; nothing else uses them.     *)
(* A queue nobody has scheduled into, at the given time. *)
FreshQueue(time) ==
  [entries |-> [i \in {} |-> i], clock |-> time, last |-> 0, current |-> 0,
   next |-> 1, allocated |-> {}]

-----------------------------------------------------------------------------
(* The canonical order of a batch: time, then phase rank, then id. *)
Precedes(rank, B, i, j) ==
  \/ B[i].time < B[j].time
  \/ /\ B[i].time = B[j].time
     /\ \/ rank[B[i].phase] < rank[B[j].phase]
        \/ rank[B[i].phase] = rank[B[j].phase] /\ i < j

(* scheduleBatch accepts a batch of fresh ids, *)
FreshInBatch(q, B) == DOMAIN B \cap q.allocated = {}

NotInPast_Unchecked(q, B) == TRUE

(* none of it in the past, *)
NotInPast(q, B) == \A i \in DOMAIN B : B[i].time >= q.clock

OwnTimes_Unchecked(q, B) == TRUE

(* none of it at a time for which an event already waits, *)
OwnTimes(q, B) ==
  \A i \in DOMAIN B, p \in Pending(q) : q.entries[p].time # B[i].time

(* each cause of it in the ledger or earlier in the batch, and not due     *)
(* after what it causes,                                                   *)
CausesInOrder(q, rank, B) ==
  \A i \in DOMAIN B : \A c \in B[i].causes :
    /\ c \in DOMAIN B \cup q.allocated
    /\ c \in DOMAIN B => Precedes(rank, B, c, i)
    /\ c \in Pending(q) => q.entries[c].time <= B[i].time

(* as long as the numbers last. *)
NumbersLeft(q, B) == q.next + Cardinality(DOMAIN B) <= MaxSafeInteger

BatchAccepted(q, rank, B) ==
  /\ FreshInBatch(q, B)
  /\ NotInPast(q, B)
  /\ OwnTimes(q, B)
  /\ CausesInOrder(q, rank, B)
  /\ NumbersLeft(q, B)

(* How many drafts of the batch come before draft i. *)
BatchPlace(rank, B, i) == Cardinality({j \in DOMAIN B : Precedes(rank, B, j, i)})

(* The event a draft becomes: numbered by its place in the batch. *)
Numbered(q, rank, B, i) ==
  [time   |-> B[i].time,
   phase  |-> B[i].phase,
   causes |-> B[i].causes,
   seq    |-> q.next + BatchPlace(rank, B, i)]

AllocateBatch_NextByOne(q, rank, B) ==
  [entries   |-> [i \in Pending(q) \cup DOMAIN B |->
                    IF i \in DOMAIN B THEN Numbered(q, rank, B, i)
                                      ELSE q.entries[i]],
   clock     |-> q.clock,
   last      |-> q.last,
   current   |-> q.current,
   next      |-> q.next + 1,
   allocated |-> q.allocated \cup DOMAIN B]

AllocateBatch(q, rank, B) ==
  [entries   |-> [i \in Pending(q) \cup DOMAIN B |->
                    IF i \in DOMAIN B THEN Numbered(q, rank, B, i)
                                      ELSE q.entries[i]],
   clock     |-> q.clock,
   last      |-> q.last,
   current   |-> q.current,
   next      |-> q.next + Cardinality(DOMAIN B),
   allocated |-> q.allocated \cup DOMAIN B]

(* schedule(draft): a batch of one. *)
Single(i, draft) == [j \in {i} |-> draft]

-----------------------------------------------------------------------------
CancelAccepted_Unchecked(q, C) == TRUE

(* cancelBatch: ids that are not pending are ignored; a pending cause may  *)
(* only go together with every pending event that cites it.                *)
CancelAccepted(q, C) ==
  \A p \in Pending(q) \ C : q.entries[p].causes \cap (C \cap Pending(q)) = {}

CancelBatch(q, C) ==
  [q EXCEPT !.entries = [p \in Pending(q) \ C |-> q.entries[p]]]

(* replace: cancel one pending event and schedule another, or neither. *)
ReplaceAccepted(q, target, i, draft) ==
  /\ target \in Pending(q)
  /\ CancelAccepted(q, {target})
  /\ BatchAccepted(CancelBatch(q, {target}), DefaultRank, Single(i, draft))

ReplaceEvent_TargetKept(q, target, i, draft) ==
  AllocateBatch(q, DefaultRank, Single(i, draft))

ReplaceEvent(q, target, i, draft) ==
  AllocateBatch(CancelBatch(q, {target}), DefaultRank, Single(i, draft))

-----------------------------------------------------------------------------
(* The order events run in. *)
Earlier(e, f) == e.time < f.time \/ (e.time = f.time /\ e.seq < f.seq)

(* p is the entry at the front of the sorted array. *)
IsHead(q, p) ==
  /\ p \in Pending(q)
  /\ \A o \in Pending(q) \ {p} : Earlier(q.entries[p], q.entries[o])

Pop_LastOverwritten(q, p) ==
  [entries   |-> [o \in Pending(q) \ {p} |-> q.entries[o]],
   clock     |-> q.entries[p].time,
   last      |-> q.entries[p].seq,
   current   |-> q.entries[p].seq,
   next      |-> q.next,
   allocated |-> q.allocated]

Pop(q, p) ==
  [entries   |-> [o \in Pending(q) \ {p} |-> q.entries[o]],
   clock     |-> q.entries[p].time,
   last      |-> IF q.entries[p].seq > q.last THEN q.entries[p].seq ELSE q.last,
   current   |-> q.entries[p].seq,
   next      |-> q.next,
   allocated |-> q.allocated]

(* One turn of step's loop for the head p, whose dispatch asked to cancel  *)
(* C and to schedule B.  The three parts are committed together or, when   *)
(* one of them is refused, not at all.                                     *)
DispatchAccepted(q, p, C, B) ==
  LET popped == Pop(q, p) IN
    /\ \A i \in DOMAIN B : p \in B[i].causes
    /\ CancelAccepted(popped, C)
    /\ \A i \in DOMAIN B : B[i].causes \cap (C \cap Pending(popped)) = {}
    /\ BatchAccepted(CancelBatch(popped, C), DefaultRank, B)

DispatchEvent(q, p, C, B) ==
  AllocateBatch(CancelBatch(Pop(q, p), C), DefaultRank, B)

-----------------------------------------------------------------------------
(* What EventQueueSnapshotSchema and the constructor demand of a snapshot  *)
(* and its ledger before a queue is rebuilt from them.                     *)
Restorable(q) ==
  /\ q.current <= q.last
  /\ q.last < q.next
  /\ Cardinality(q.allocated) = q.next - 1
  /\ Pending(q) \subseteq q.allocated
  /\ \A p \in Pending(q) :
       /\ q.entries[p].seq < q.next
       /\ \/ q.entries[p].time > q.clock
          \/ q.entries[p].time = q.clock /\ q.entries[p].seq > q.current
       /\ \A o \in Pending(q) \ {p} : q.entries[o].seq # q.entries[p].seq
       /\ \A c \in q.entries[p].causes \cap Pending(q) :
            Earlier(q.entries[c], q.entries[p])
=============================================================================
