---------------------------- MODULE KernelOpsProofs ----------------------------
(***************************************************************************)
(* What the operators of QueueOps and RegistryOps keep, for any ids, times *)
(* and phases, any entities and any entity states: each accepted operation *)
(* on a sound queue or registry leaves a sound one.  The state machines    *)
(* that drive these values (EventQueue, TimerPort, EntityRegistry and      *)
(* KernelSession) cite these lemmas.                                       *)
(***************************************************************************)
EXTENDS QueueOps, RegistryOps, FiniteSetTheorems, TLAPS

-----------------------------------------------------------------------------
(* The canonical order of a batch, and the numbers it gives out. *)

(* Precedes is a strict order that compares any two drafts of a batch, so  *)
(* sorting a batch has one result.                                         *)
LEMMA PrecedesOrder ==
  ASSUME NEW rank \in [Phases -> 1..7], NEW B, IsBatch(B)
  PROVE  /\ \A i \in DOMAIN B : ~Precedes(rank, B, i, i)
         /\ \A i, j \in DOMAIN B :
              i # j => Precedes(rank, B, i, j) \/ Precedes(rank, B, j, i)
         /\ \A i, j, k \in DOMAIN B :
              Precedes(rank, B, i, j) /\ Precedes(rank, B, j, k) => Precedes(rank, B, i, k)
<1>1. \A i \in DOMAIN B : i \in Nat /\ B[i].time \in Nat /\ rank[B[i].phase] \in Nat
  BY IdsAssumption DEF IsBatch, Draft
<1>2. QED
  BY <1>1 DEF Precedes

(* A draft's place is below the size of its batch, and the drafts of a     *)
(* batch have different places, in the order of Precedes.                  *)
LEMMA Places ==
  ASSUME NEW rank \in [Phases -> 1..7], NEW B, IsBatch(B), IsFiniteSet(DOMAIN B)
  PROVE  /\ Cardinality(DOMAIN B) \in Nat
         /\ \A i \in DOMAIN B :
              BatchPlace(rank, B, i) \in Nat /\ BatchPlace(rank, B, i) < Cardinality(DOMAIN B)
         /\ \A i, j \in DOMAIN B :
              Precedes(rank, B, i, j) => BatchPlace(rank, B, i) < BatchPlace(rank, B, j)
         /\ \A i, j \in DOMAIN B :
              i # j => BatchPlace(rank, B, i) # BatchPlace(rank, B, j)
<1> DEFINE Below(i) == {j \in DOMAIN B : Precedes(rank, B, j, i)}
<1>1. \A i \in DOMAIN B : BatchPlace(rank, B, i) = Cardinality(Below(i))
  BY DEF BatchPlace
<1>2. \A i \in DOMAIN B :
        IsFiniteSet(Below(i)) /\ Cardinality(Below(i)) \in Nat
  BY FS_Subset, FS_CardinalityType
<1>3. Cardinality(DOMAIN B) \in Nat
  BY FS_CardinalityType
<1>4. \A i \in DOMAIN B : Cardinality(Below(i)) < Cardinality(DOMAIN B)
  <2>1. TAKE i \in DOMAIN B
  <2>2. i \notin Below(i)
    BY PrecedesOrder
  <2>3. Below(i) \subseteq DOMAIN B /\ Below(i) # DOMAIN B
    BY <2>2
  <2>4. Cardinality(Below(i)) <= Cardinality(DOMAIN B)
        /\ Cardinality(Below(i)) # Cardinality(DOMAIN B)
    BY <2>3, FS_Subset
  <2>5. QED
    BY <2>4, <1>2, <1>3
<1>5. ASSUME NEW i \in DOMAIN B, NEW j \in DOMAIN B, Precedes(rank, B, i, j)
      PROVE  Cardinality(Below(i)) < Cardinality(Below(j))
  <2>1. Below(i) \subseteq Below(j)
    BY <1>5, PrecedesOrder
  <2>2. i \in Below(j) /\ i \notin Below(i)
    BY <1>5, PrecedesOrder
  <2>3. Cardinality(Below(i)) <= Cardinality(Below(j))
        /\ Cardinality(Below(i)) # Cardinality(Below(j))
    BY <2>1, <2>2, <1>2, FS_Subset
  <2>4. QED
    BY <2>3, <1>2
<1>6. \A i, j \in DOMAIN B :
        Precedes(rank, B, i, j) => BatchPlace(rank, B, i) < BatchPlace(rank, B, j)
  BY <1>1, <1>5
<1>7. ASSUME NEW i \in DOMAIN B, NEW j \in DOMAIN B, i # j
      PROVE  BatchPlace(rank, B, i) # BatchPlace(rank, B, j)
  <2>1. Precedes(rank, B, i, j) \/ Precedes(rank, B, j, i)
    BY <1>7, PrecedesOrder
  <2>2. BatchPlace(rank, B, i) \in Nat /\ BatchPlace(rank, B, j) \in Nat
    BY <1>1, <1>2
  <2>3. QED
    BY <2>1, <2>2, <1>6
<1>8. QED
  BY <1>1, <1>2, <1>3, <1>4, <1>6, <1>7

-----------------------------------------------------------------------------
(* The inductive invariant of a queue value.  Restorable alone is not      *)
(* inductive: that causes precede what they cause survives an allocation   *)
(* only because no pending event cites an id that is yet to be allocated.  *)
QueueInv(q) ==
  /\ IsQueue(q)
  /\ IsFiniteSet(q.allocated)
  /\ Restorable(q)
  /\ \A p \in Pending(q) : q.entries[p].causes \subseteq q.allocated

LEMMA FreshQueueInv ==
  ASSUME NEW time \in Nat
  PROVE  QueueInv(FreshQueue(time))
<1>1. Cardinality({}) = 0 /\ IsFiniteSet({})
  BY FS_EmptySet
<1> DEFINE f == FreshQueue(time)
<1>2. /\ f.entries = [i \in {} |-> i] /\ f.clock = time /\ f.last = 0
      /\ f.current = 0 /\ f.next = 1 /\ f.allocated = {}
      /\ f = [entries |-> f.entries, clock |-> f.clock, last |-> f.last,
              current |-> f.current, next |-> f.next, allocated |-> f.allocated]
  BY DEF FreshQueue
<1> HIDE DEF f
<1>3. Pending(f) = {}
  BY <1>2 DEF Pending
<1>4. f.entries = [p \in Pending(f) |-> f.entries[p]]
  BY <1>2, <1>3
<1>5. IsQueue(f)
  BY <1>2, <1>3, <1>4 DEF IsQueue
<1>6. Restorable(f)
  BY <1>1, <1>2, <1>3 DEF Restorable
<1>7. QED
  BY <1>1, <1>2, <1>3, <1>5, <1>6 DEF QueueInv, f

LEMMA CancelInv ==
  ASSUME NEW q, QueueInv(q), NEW C
  PROVE  QueueInv(CancelBatch(q, C))
<1> SUFFICES ASSUME NEW r, r = CancelBatch(q, C)
             PROVE  QueueInv(r)
  OBVIOUS
<1> DEFINE E == [p \in Pending(q) \ C |-> q.entries[p]]
<1>0. r = [entries |-> E, clock |-> q.clock, last |-> q.last, current |-> q.current,
           next |-> q.next, allocated |-> q.allocated]
  BY DEF CancelBatch, QueueInv, IsQueue
<1>e. r.entries = E
  BY <1>0
<1>p. Pending(r) = Pending(q) \ C
  BY <1>e DEF Pending
<1>1. /\ Pending(r) \subseteq Pending(q)
      /\ \A p \in Pending(r) : r.entries[p] = q.entries[p]
      /\ r.clock = q.clock /\ r.last = q.last /\ r.current = q.current
      /\ r.next = q.next /\ r.allocated = q.allocated
  BY <1>0, <1>e, <1>p
<1>2. IsQueue(r)
  <2>1. /\ r = [entries |-> r.entries, clock |-> r.clock, last |-> r.last,
                current |-> r.current, next |-> r.next, allocated |-> r.allocated]
        /\ r.entries = [p \in Pending(r) |-> r.entries[p]]
    BY <1>0, <1>e, <1>p
  <2>2. QED
    BY <1>1, <2>1 DEF QueueInv, IsQueue
<1>3. Restorable(r)
  BY <1>1 DEF QueueInv, Restorable
<1>4. QED
  BY <1>1, <1>2, <1>3 DEF QueueInv

LEMMA PopInv ==
  ASSUME NEW q, QueueInv(q), NEW h, IsHead(q, h)
  PROVE  QueueInv(Pop(q, h))
<1> SUFFICES ASSUME NEW r, r = Pop(q, h)
             PROVE  QueueInv(r)
  OBVIOUS
<1>0. h \in Pending(q) /\ q.entries[h] \in Event
  BY DEF IsHead, QueueInv, IsQueue
<1> DEFINE E == [o \in Pending(q) \ {h} |-> q.entries[o]]
<1>r. r = [entries |-> E, clock |-> q.entries[h].time,
           last |-> IF q.entries[h].seq > q.last THEN q.entries[h].seq ELSE q.last,
           current |-> q.entries[h].seq, next |-> q.next, allocated |-> q.allocated]
  BY DEF Pop
<1>e. r.entries = E
  BY <1>r
<1>p. Pending(r) = Pending(q) \ {h}
  BY <1>e DEF Pending
<1>1. /\ Pending(r) = Pending(q) \ {h}
      /\ \A p \in Pending(r) : r.entries[p] = q.entries[p]
      /\ r.clock = q.entries[h].time /\ r.current = q.entries[h].seq
      /\ r.last = IF q.entries[h].seq > q.last THEN q.entries[h].seq ELSE q.last
      /\ r.next = q.next /\ r.allocated = q.allocated
  BY <1>r, <1>e, <1>p
<1>2. IsQueue(r)
  <2>1. /\ r = [entries |-> r.entries, clock |-> r.clock, last |-> r.last,
                current |-> r.current, next |-> r.next, allocated |-> r.allocated]
        /\ r.entries = [p \in Pending(r) |-> r.entries[p]]
    BY <1>r, <1>e, <1>p
  <2>2. r.clock \in Nat /\ r.current \in Nat /\ r.last \in Nat
    BY <1>0, <1>1 DEF Event, QueueInv, IsQueue
  <2>3. QED
    BY <1>1, <2>1, <2>2 DEF QueueInv, IsQueue
<1>3. Restorable(r)
  <2>1. r.current <= r.last /\ r.last < r.next
    BY <1>0, <1>1 DEF Event, QueueInv, IsQueue, Restorable
  <2>2. ASSUME NEW p \in Pending(r)
        PROVE  \/ r.entries[p].time > r.clock
               \/ r.entries[p].time = r.clock /\ r.entries[p].seq > r.current
    BY <1>0, <1>1 DEF IsHead, Earlier, QueueInv, IsQueue, Event
  <2>3. QED
    BY <1>1, <2>1, <2>2 DEF QueueInv, Restorable
<1>4. QED
  BY <1>1, <1>2, <1>3 DEF QueueInv

LEMMA AllocateInv ==
  ASSUME NEW q, QueueInv(q), NEW rank \in [Phases -> 1..7],
         NEW B, IsBatch(B), IsFiniteSet(DOMAIN B),
         BatchAccepted(q, rank, B)
  PROVE  QueueInv(AllocateBatch(q, rank, B))
<1> DEFINE n == Cardinality(DOMAIN B)
<1> SUFFICES ASSUME NEW r, r = AllocateBatch(q, rank, B)
             PROVE  QueueInv(r)
  OBVIOUS
<1> DEFINE E == [i \in Pending(q) \cup DOMAIN B |->
                   IF i \in DOMAIN B THEN Numbered(q, rank, B, i) ELSE q.entries[i]]
<1>r. r = [entries |-> E, clock |-> q.clock, last |-> q.last, current |-> q.current,
           next |-> q.next + n, allocated |-> q.allocated \cup DOMAIN B]
  BY DEF AllocateBatch
<1>e. r.entries = E
  BY <1>r
<1>p. Pending(r) = Pending(q) \cup DOMAIN B
  BY <1>e DEF Pending
<1>1. /\ Pending(r) = Pending(q) \cup DOMAIN B
      /\ \A i \in DOMAIN B : r.entries[i] = Numbered(q, rank, B, i)
      /\ \A p \in Pending(q) \ DOMAIN B : r.entries[p] = q.entries[p]
      /\ r.clock = q.clock /\ r.last = q.last /\ r.current = q.current
      /\ r.next = q.next + n
      /\ r.allocated = q.allocated \cup DOMAIN B
  BY <1>r, <1>e, <1>p
<1>2. /\ n \in Nat
      /\ \A i \in DOMAIN B : BatchPlace(rank, B, i) \in Nat /\ BatchPlace(rank, B, i) < n
      /\ \A i, j \in DOMAIN B :
           Precedes(rank, B, i, j) => BatchPlace(rank, B, i) < BatchPlace(rank, B, j)
      /\ \A i, j \in DOMAIN B : i # j => BatchPlace(rank, B, i) # BatchPlace(rank, B, j)
  BY Places
<1>3. Pending(q) \cap DOMAIN B = {}
  BY DEF QueueInv, Restorable, BatchAccepted, FreshInBatch
<1>4. ASSUME NEW i \in DOMAIN B
      PROVE  /\ r.entries[i] \in Event
             /\ r.entries[i].time = B[i].time
             /\ r.entries[i].causes = B[i].causes
             /\ r.entries[i].seq = q.next + BatchPlace(rank, B, i)
             /\ r.entries[i].seq >= q.next
             /\ r.entries[i].seq < r.next
  <2>1. B[i] \in Draft /\ q.next \in Nat \ {0} /\ BatchPlace(rank, B, i) \in Nat
    BY <1>2 DEF IsBatch, QueueInv, IsQueue
  <2>2. Numbered(q, rank, B, i) \in Event
    BY <2>1 DEF Numbered, Event, Draft
  <2>3. QED
    BY <1>1, <1>2, <2>1, <2>2 DEF Numbered
<1>5. ASSUME NEW p \in Pending(q)
      PROVE  /\ r.entries[p] = q.entries[p]
             /\ r.entries[p] \in Event
             /\ r.entries[p].seq < q.next
             /\ r.entries[p].causes \subseteq q.allocated
  BY <1>1, <1>3 DEF QueueInv, IsQueue, Restorable
<1>6. IsQueue(r)
  <2>1. /\ r = [entries |-> r.entries, clock |-> r.clock, last |-> r.last,
                current |-> r.current, next |-> r.next, allocated |-> r.allocated]
        /\ r.entries = [p \in Pending(r) |-> r.entries[p]]
    BY <1>r, <1>e, <1>p
  <2>2. /\ Pending(r) \subseteq Ids /\ r.allocated \subseteq Ids
        /\ r.next \in Nat \ {0}
    BY <1>1, <1>2 DEF QueueInv, IsQueue, IsBatch
  <2>3. \A p \in Pending(r) : r.entries[p] \in Event
    BY <1>1, <1>4, <1>5
  <2>4. QED
    BY <1>1, <2>1, <2>2, <2>3 DEF QueueInv, IsQueue
<1>7. IsFiniteSet(r.allocated) /\ Cardinality(r.allocated) = r.next - 1
  <2>1. q.allocated \cap DOMAIN B = {}
    BY DEF BatchAccepted, FreshInBatch
  <2>2. /\ IsFiniteSet(q.allocated \cup DOMAIN B)
        /\ Cardinality(q.allocated \cup DOMAIN B) =
             Cardinality(q.allocated) + Cardinality(DOMAIN B)
             - Cardinality(q.allocated \cap DOMAIN B)
    BY FS_Union DEF QueueInv
  <2>3. Cardinality(q.allocated \cap DOMAIN B) = 0
    BY <2>1, FS_EmptySet
  <2>4. Cardinality(q.allocated) = q.next - 1 /\ q.next \in Nat
    BY DEF QueueInv, Restorable, IsQueue
  <2>5. QED
    BY <1>1, <1>2, <2>2, <2>3, <2>4
<1>8. \A p \in Pending(r) : r.entries[p].causes \subseteq r.allocated
  <2>1. \A i \in DOMAIN B : B[i].causes \subseteq q.allocated \cup DOMAIN B
    BY DEF BatchAccepted, CausesInOrder
  <2>2. QED
    BY <1>1, <1>4, <1>5, <2>1
<1>9. ASSUME NEW p \in Pending(r)
      PROVE  /\ r.entries[p].seq < r.next
             /\ \/ r.entries[p].time > r.clock
                \/ r.entries[p].time = r.clock /\ r.entries[p].seq > r.current
  <2>1. CASE p \in DOMAIN B
    <3>1. q.current \in Nat /\ q.next \in Nat /\ q.current < q.next /\ q.clock \in Nat
      BY DEF QueueInv, IsQueue, Restorable
    <3>2. B[p].time >= q.clock /\ B[p].time \in Nat
      BY <2>1 DEF BatchAccepted, NotInPast, IsBatch, Draft
    <3>3. r.entries[p].seq \in Nat
      BY <2>1, <1>4 DEF Event
    <3>4. QED
      BY <2>1, <1>1, <1>4, <3>1, <3>2, <3>3
  <2>2. CASE p \in Pending(q)
    <3>1. q.entries[p].seq \in Nat /\ q.next \in Nat
      BY <2>2 DEF QueueInv, IsQueue, Event
    <3>2. QED
      BY <2>2, <3>1, <1>1, <1>2, <1>5 DEF QueueInv, Restorable
  <2>3. QED
    BY <1>1, <2>1, <2>2
<1>10. ASSUME NEW p \in Pending(r), NEW o \in Pending(r) \ {p}
       PROVE  r.entries[o].seq # r.entries[p].seq
  <2>0. q.next \in Nat /\ \A i \in Pending(r) : r.entries[i].seq \in Nat
    BY <1>6 DEF QueueInv, IsQueue, Event
  <2>1. CASE p \in DOMAIN B /\ o \in DOMAIN B
    BY <2>0, <2>1, <1>2, <1>4
  <2>2. CASE p \in Pending(q) /\ o \in Pending(q)
    BY <2>2, <1>5 DEF QueueInv, Restorable
  <2>3. CASE p \in Pending(q) /\ o \in DOMAIN B
    BY <2>0, <2>3, <1>4, <1>5
  <2>4. CASE p \in DOMAIN B /\ o \in Pending(q)
    BY <2>0, <2>4, <1>4, <1>5
  <2>5. QED
    BY <1>1, <2>1, <2>2, <2>3, <2>4
<1>11. ASSUME NEW p \in Pending(r), NEW c \in r.entries[p].causes \cap Pending(r)
       PROVE  Earlier(r.entries[c], r.entries[p])
  <2>0. q.next \in Nat /\ \A i \in Pending(r) : r.entries[i] \in Event
    BY <1>6 DEF QueueInv, IsQueue
  <2>1. CASE p \in DOMAIN B /\ c \in DOMAIN B
    <3>1. Precedes(rank, B, c, p)
      BY <2>1, <1>4 DEF BatchAccepted, CausesInOrder
    <3>2. B[c].time < B[p].time \/ B[c].time = B[p].time
      BY <3>1 DEF Precedes
    <3>3. BatchPlace(rank, B, c) < BatchPlace(rank, B, p)
      BY <2>1, <3>1, <1>2
    <3>4. QED
      BY <2>0, <2>1, <3>2, <3>3, <1>2, <1>4 DEF Earlier
  <2>2. CASE p \in DOMAIN B /\ c \in Pending(q)
    <3>1. c \in B[p].causes
      BY <2>2, <1>4
    <3>2. q.entries[c].time <= B[p].time /\ q.entries[c].time # B[p].time
      BY <2>2, <3>1 DEF BatchAccepted, CausesInOrder, OwnTimes
    <3>3. q.entries[c].time \in Nat /\ B[p].time \in Nat
      BY <2>2 DEF QueueInv, IsQueue, Event, IsBatch, Draft
    <3>4. QED
      BY <2>2, <3>2, <3>3, <1>4, <1>5 DEF Earlier
  <2>3. CASE p \in Pending(q)
    <3>1. c \in q.allocated
      BY <2>3, <1>5
    <3>2. c \in Pending(q)
      BY <3>1, <1>1 DEF BatchAccepted, FreshInBatch
    <3>3. QED
      BY <2>3, <3>2, <1>5 DEF QueueInv, Restorable
  <2>4. QED
    BY <1>1, <2>1, <2>2, <2>3
<1>12. /\ r.current <= r.last /\ r.last < r.next
       /\ Pending(r) \subseteq r.allocated
  BY <1>1, <1>2 DEF QueueInv, IsQueue, Restorable
<1>13. Restorable(r)
  BY <1>7, <1>9, <1>10, <1>11, <1>12 DEF Restorable
<1>14. QED
  BY <1>6, <1>7, <1>8, <1>13 DEF QueueInv

-----------------------------------------------------------------------------
(* Which ids wait, and which are in the ledger, after each operator. *)

LEMMA AllocateIds ==
  ASSUME NEW q, NEW rank, NEW B
  PROVE  /\ Pending(AllocateBatch(q, rank, B)) = Pending(q) \cup DOMAIN B
         /\ AllocateBatch(q, rank, B).allocated = q.allocated \cup DOMAIN B
  BY DEF Pending, AllocateBatch

LEMMA CancelIds ==
  ASSUME NEW q, IsQueue(q), NEW C
  PROVE  /\ Pending(CancelBatch(q, C)) = Pending(q) \ C
         /\ CancelBatch(q, C).allocated = q.allocated
  BY DEF Pending, CancelBatch, IsQueue

LEMMA PopIds ==
  ASSUME NEW q, NEW h
  PROVE  /\ Pending(Pop(q, h)) = Pending(q) \ {h}
         /\ Pop(q, h).allocated = q.allocated
  BY DEF Pending, Pop

-----------------------------------------------------------------------------
(* Which events wait, and at what time the queue stands, after each        *)
(* operator.                                                               *)

LEMMA AllocateEntries ==
  ASSUME NEW q, NEW rank, NEW B, NEW r, r = AllocateBatch(q, rank, B)
  PROVE  /\ \A p \in Pending(q) \ DOMAIN B : r.entries[p] = q.entries[p]
         /\ \A i \in DOMAIN B :
              r.entries[i].time = B[i].time /\ r.entries[i].causes = B[i].causes
         /\ r.clock = q.clock /\ r.current = q.current
<1> DEFINE E == [i \in Pending(q) \cup DOMAIN B |->
                   IF i \in DOMAIN B THEN Numbered(q, rank, B, i) ELSE q.entries[i]]
<1>1. r.entries = E /\ r.clock = q.clock /\ r.current = q.current
  BY DEF AllocateBatch
<1>2. \A i \in DOMAIN B : E[i] = Numbered(q, rank, B, i)
  OBVIOUS
<1>3. \A i \in DOMAIN B :
        E[i].time = B[i].time /\ E[i].causes = B[i].causes
  BY <1>2 DEF Numbered
<1>4. QED
  BY <1>1, <1>3

LEMMA CancelEntries ==
  ASSUME NEW q, IsQueue(q), NEW C, NEW r, r = CancelBatch(q, C)
  PROVE  /\ \A p \in Pending(q) \ C : r.entries[p] = q.entries[p]
         /\ r.clock = q.clock /\ r.current = q.current
  BY DEF CancelBatch, IsQueue

LEMMA PopEntries ==
  ASSUME NEW q, NEW h, NEW r, r = Pop(q, h)
  PROVE  /\ \A p \in Pending(q) \ {h} : r.entries[p] = q.entries[p]
         /\ r.clock = q.entries[h].time /\ r.current = q.entries[h].seq
  BY DEF Pop

(* What a dispatch does, all of its parts together: the head leaves, what   *)
(* it cancels leaves, what it schedules arrives with new numbers, and the  *)
(* frontier moves to the head.                                             *)
LEMMA DispatchEffect ==
  ASSUME NEW q, QueueInv(q), NEW p, IsHead(q, p), NEW C,
         NEW B, IsBatch(B), IsFiniteSet(DOMAIN B), DispatchAccepted(q, p, C, B),
         NEW r, r = DispatchEvent(q, p, C, B)
  PROVE  /\ QueueInv(r)
         /\ Pending(r) = ((Pending(q) \ {p}) \ C) \cup DOMAIN B
         /\ r.allocated = q.allocated \cup DOMAIN B
         /\ DOMAIN B \cap q.allocated = {}
         /\ \A o \in (Pending(q) \ {p}) \ C : r.entries[o] = q.entries[o]
         /\ \A i \in DOMAIN B : /\ r.entries[i].time = B[i].time
                                /\ r.entries[i].causes = B[i].causes
                                /\ r.entries[i].seq >= q.next
                                /\ B[i].time >= q.entries[p].time
                                /\ B[i].causes \subseteq DOMAIN B \cup q.allocated
         /\ r.clock = q.entries[p].time
         /\ r.current = q.entries[p].seq
         /\ r.last = IF q.entries[p].seq > q.last THEN q.entries[p].seq ELSE q.last
         /\ r.next <= MaxSafeInteger
<1> SUFFICES ASSUME NEW h, h = Pop(q, p), NEW c, c = CancelBatch(h, C)
             PROVE  /\ QueueInv(r)
                    /\ Pending(r) = ((Pending(q) \ {p}) \ C) \cup DOMAIN B
                    /\ r.allocated = q.allocated \cup DOMAIN B
                    /\ DOMAIN B \cap q.allocated = {}
                    /\ \A o \in (Pending(q) \ {p}) \ C : r.entries[o] = q.entries[o]
                    /\ \A i \in DOMAIN B :
                         /\ r.entries[i].time = B[i].time
                         /\ r.entries[i].causes = B[i].causes
                         /\ r.entries[i].seq >= q.next
                         /\ B[i].time >= q.entries[p].time
                         /\ B[i].causes \subseteq DOMAIN B \cup q.allocated
                    /\ r.clock = q.entries[p].time
                    /\ r.current = q.entries[p].seq
                    /\ r.last = IF q.entries[p].seq > q.last THEN q.entries[p].seq ELSE q.last
                    /\ r.next <= MaxSafeInteger
  OBVIOUS
<1>1. /\ BatchAccepted(c, DefaultRank, B)
      /\ r = AllocateBatch(c, DefaultRank, B)
  BY DEF DispatchAccepted, DispatchEvent
<1>0. DefaultRank \in [Phases -> 1..7]
  BY DEF DefaultRank, Phases
<1>2. /\ QueueInv(h) /\ IsQueue(h)
      /\ Pending(h) = Pending(q) \ {p} /\ h.allocated = q.allocated
  BY PopInv, PopIds DEF QueueInv
<1>3. /\ QueueInv(c) /\ IsQueue(c)
      /\ Pending(c) = Pending(h) \ C /\ c.allocated = h.allocated
  BY <1>2, CancelInv, CancelIds DEF QueueInv
<1>4. /\ Pending(r) = Pending(c) \cup DOMAIN B
      /\ r.allocated = c.allocated \cup DOMAIN B
      /\ QueueInv(r)
  BY <1>0, <1>1, <1>3, AllocateIds, AllocateInv
<1>5. /\ DOMAIN B \cap q.allocated = {}
      /\ \A i \in DOMAIN B : B[i].time >= c.clock
                             /\ B[i].causes \subseteq DOMAIN B \cup q.allocated
  BY <1>1, <1>2, <1>3 DEF BatchAccepted, FreshInBatch, NotInPast, CausesInOrder
<1>6. /\ \A o \in Pending(q) \ {p} : h.entries[o] = q.entries[o]
      /\ h.clock = q.entries[p].time /\ h.current = q.entries[p].seq
  BY PopEntries
<1>7. /\ \A o \in Pending(h) \ C : c.entries[o] = h.entries[o]
      /\ c.clock = h.clock /\ c.current = h.current
  BY <1>2, CancelEntries
<1>8. /\ \A o \in Pending(c) \ DOMAIN B : r.entries[o] = c.entries[o]
      /\ \A i \in DOMAIN B : /\ r.entries[i].time = B[i].time
                             /\ r.entries[i].causes = B[i].causes
      /\ r.clock = c.clock /\ r.current = c.current
  BY <1>1, AllocateEntries
<1>9. Pending(c) \cap DOMAIN B = {}
  BY <1>2, <1>3, <1>5 DEF QueueInv, Restorable
<1>10. /\ h.next = q.next
       /\ h.last = IF q.entries[p].seq > q.last THEN q.entries[p].seq ELSE q.last
  BY DEF Pop
<1>11. c.next = h.next /\ c.last = h.last
  BY <1>2 DEF CancelBatch, IsQueue
<1>12. /\ \A i \in DOMAIN B : r.entries[i].seq = c.next + BatchPlace(DefaultRank, B, i)
       /\ r.last = c.last
       /\ r.next = c.next + Cardinality(DOMAIN B)
  <2> DEFINE E == [i \in Pending(c) \cup DOMAIN B |->
                     IF i \in DOMAIN B THEN Numbered(c, DefaultRank, B, i) ELSE c.entries[i]]
  <2>1. r.entries = E /\ r.last = c.last /\ r.next = c.next + Cardinality(DOMAIN B)
    BY <1>1 DEF AllocateBatch
  <2>2. \A i \in DOMAIN B : E[i] = Numbered(c, DefaultRank, B, i)
    OBVIOUS
  <2> QED BY <2>1, <2>2 DEF Numbered
<1>13. \A i \in DOMAIN B : r.entries[i].seq >= q.next
  <2>1. q.next \in Nat
    BY DEF QueueInv, IsQueue
  <2>2. \A i \in DOMAIN B : BatchPlace(DefaultRank, B, i) \in Nat
    BY <1>0, Places
  <2> QED BY <1>10, <1>11, <1>12, <2>1, <2>2
<1>14. r.next <= MaxSafeInteger
  BY <1>1, <1>12 DEF BatchAccepted, NumbersLeft
<1>15. Pending(r) = ((Pending(q) \ {p}) \ C) \cup DOMAIN B
  BY <1>2, <1>3, <1>4
<1>16. ASSUME NEW o \in (Pending(q) \ {p}) \ C
       PROVE  r.entries[o] = q.entries[o]
  BY <1>2, <1>3, <1>6, <1>7, <1>8, <1>9
<1> QED
  BY <1>2, <1>3, <1>4, <1>5, <1>6, <1>7, <1>8, <1>10, <1>11, <1>12, <1>13, <1>14, <1>15, <1>16

(* Events of one time stand in the order of one of the rank policies R.    *)
TiesInOrder(q, R) ==
  \A p \in Pending(q) : \E rank \in R : \A o \in Pending(q) :
    q.entries[o].time = q.entries[p].time =>
      (q.entries[o].seq < q.entries[p].seq <=> Precedes(rank, q.entries, o, p))

(* Taking events away keeps that order, *)
LEMMA FewerTies ==
  ASSUME NEW R, NEW q, TiesInOrder(q, R), NEW r, Pending(r) \subseteq Pending(q),
         \A p \in Pending(r) : r.entries[p] = q.entries[p]
  PROVE  TiesInOrder(r, R)
<1> SUFFICES ASSUME NEW p \in Pending(r)
             PROVE  \E rank \in R : \A o \in Pending(r) :
                      r.entries[o].time = r.entries[p].time =>
                        (r.entries[o].seq < r.entries[p].seq
                           <=> Precedes(rank, r.entries, o, p))
  BY DEF TiesInOrder
<1>1. PICK rank \in R : \A o \in Pending(q) :
        q.entries[o].time = q.entries[p].time =>
          (q.entries[o].seq < q.entries[p].seq <=> Precedes(rank, q.entries, o, p))
  BY DEF TiesInOrder
<1>2. \A o \in Pending(r) : Precedes(rank, r.entries, o, p) <=> Precedes(rank, q.entries, o, p)
  BY DEF Precedes
<1> QED BY <1>1, <1>2

(* and so does a batch, which never joins a time that is waited for: all   *)
(* the events of one time come from one batch.                             *)
LEMMA AllocateTies ==
  ASSUME NEW R, NEW q, IsQueue(q), TiesInOrder(q, R), NEW rank \in R,
         rank \in [Phases -> 1..7], NEW B, IsBatch(B), IsFiniteSet(DOMAIN B),
         BatchAccepted(q, rank, B)
  PROVE  TiesInOrder(AllocateBatch(q, rank, B), R)
<1> DEFINE E == [i \in Pending(q) \cup DOMAIN B |->
                   IF i \in DOMAIN B THEN Numbered(q, rank, B, i) ELSE q.entries[i]]
<1> SUFFICES ASSUME NEW r, r = AllocateBatch(q, rank, B)
             PROVE  TiesInOrder(r, R)
  OBVIOUS
<1>1. r.entries = E /\ Pending(r) = Pending(q) \cup DOMAIN B
  <2>1. r.entries = E
    BY DEF AllocateBatch
  <2> QED BY <2>1 DEF Pending
<1>2. \A i \in DOMAIN B : /\ r.entries[i].time = B[i].time
                          /\ r.entries[i].phase = B[i].phase
                          /\ r.entries[i].seq = q.next + BatchPlace(rank, B, i)
  <2>1. \A i \in DOMAIN B : E[i] = Numbered(q, rank, B, i)
    OBVIOUS
  <2> QED BY <1>1, <2>1 DEF Numbered
<1>3. \A p \in Pending(q) \ DOMAIN B : r.entries[p] = q.entries[p]
  BY <1>1
<1>4. \A i \in DOMAIN B, p \in Pending(q) : q.entries[p].time # B[i].time
  BY DEF BatchAccepted, OwnTimes
<1> HIDE DEF E
<1>5. ASSUME NEW p \in Pending(r), p \notin DOMAIN B
      PROVE  \E policy \in R : \A o \in Pending(r) :
               r.entries[o].time = r.entries[p].time =>
                 (r.entries[o].seq < r.entries[p].seq <=> Precedes(policy, r.entries, o, p))
  <2>0. p \in Pending(q)
    BY <1>1, <1>5
  <2>1. PICK policy \in R : \A o \in Pending(q) :
          q.entries[o].time = q.entries[p].time =>
            (q.entries[o].seq < q.entries[p].seq <=> Precedes(policy, q.entries, o, p))
    BY <2>0 DEF TiesInOrder
  <2>2. ASSUME NEW o \in Pending(r), r.entries[o].time = r.entries[p].time
        PROVE  r.entries[o].seq < r.entries[p].seq <=> Precedes(policy, r.entries, o, p)
    <3>1. o \in Pending(q) \ DOMAIN B
      BY <1>1, <1>2, <1>3, <1>4, <1>5, <2>0, <2>2
    <3>2. r.entries[o] = q.entries[o] /\ r.entries[p] = q.entries[p]
      BY <1>3, <1>5, <2>0, <3>1
    <3>3. Precedes(policy, r.entries, o, p) <=> Precedes(policy, q.entries, o, p)
      BY <3>2 DEF Precedes
    <3> QED BY <2>1, <2>2, <3>1, <3>2, <3>3
  <2> QED BY <2>2
<1>6. ASSUME NEW p \in DOMAIN B, NEW o \in Pending(r), r.entries[o].time = r.entries[p].time
      PROVE  r.entries[o].seq < r.entries[p].seq <=> Precedes(rank, r.entries, o, p)
  <2>1. o \in DOMAIN B
    BY <1>1, <1>2, <1>3, <1>4, <1>6
  <2>2. Precedes(rank, r.entries, o, p) <=> Precedes(rank, B, o, p)
    BY <1>2, <2>1 DEF Precedes
  <2>3. r.entries[o].seq < r.entries[p].seq <=> BatchPlace(rank, B, o) < BatchPlace(rank, B, p)
    BY <1>2, <2>1, Places DEF IsQueue
  <2>4. BatchPlace(rank, B, o) < BatchPlace(rank, B, p) <=> Precedes(rank, B, o, p)
    <3>1. BatchPlace(rank, B, o) \in Nat /\ BatchPlace(rank, B, p) \in Nat
      BY <2>1, Places
    <3>2. Precedes(rank, B, o, p) => BatchPlace(rank, B, o) < BatchPlace(rank, B, p)
      BY <2>1, Places
    <3>3. Precedes(rank, B, p, o) => BatchPlace(rank, B, p) < BatchPlace(rank, B, o)
      BY <2>1, Places
    <3>4. o # p => Precedes(rank, B, o, p) \/ Precedes(rank, B, p, o)
      BY <2>1, PrecedesOrder
    <3> QED BY <3>1, <3>2, <3>3, <3>4
  <2> QED BY <2>2, <2>3, <2>4
<1> QED BY <1>1, <1>5, <1>6 DEF TiesInOrder

-----------------------------------------------------------------------------
(* What holds of every registry: its type, and that it can be rebuilt. *)
RegistryInv(r) ==
  IsRegistry(r) /\ Consistent(r.entities) /\ Active(r) \cap r.retired = {}

(* Taking away an entity nobody else names leaves no dangling reference    *)
(* and no cycle: the despawn method need not check the references again.   *)
LEMMA WithoutConsistent ==
  ASSUME NEW world, Consistent(world), NEW e,
         \A o \in DOMAIN world \ {e} : world[o].owner # e /\ e \notin world[o].cites
  PROVE  Consistent(Without(world, e))
<1> DEFINE w == [x \in DOMAIN world \ {e} |-> world[x]]
<1>1. ReferencesResolve(w)
  <2> SUFFICES ASSUME NEW o \in DOMAIN w
               PROVE  w[o].owner \in DOMAIN w \cup {NoEntity} /\ w[o].cites \subseteq DOMAIN w
    BY DEF ReferencesResolve
  <2>2. o \in DOMAIN world /\ o # e /\ w[o] = world[o]
    OBVIOUS
  <2>3. /\ world[o].owner \in DOMAIN world \cup {NoEntity}
        /\ world[o].cites \subseteq DOMAIN world
    BY <2>2 DEF Consistent, ReferencesResolve
  <2>4. QED
    BY <2>2, <2>3
<1>2. OwnershipEnds(w)
  <2> SUFFICES ASSUME NEW S \in SUBSET DOMAIN w, S # {}
               PROVE  \E o \in S : w[o].owner \notin S
    BY DEF OwnershipEnds
  <2>1. PICK o \in S : world[o].owner \notin S
    BY DEF Consistent, OwnershipEnds
  <2>2. QED
    BY <2>1
<1>3. QED
  BY <1>1, <1>2 DEF Without, Consistent

LEMMA FreshInv ==
  ASSUME NEW A \in SUBSET EntityIds, NEW world \in [A -> EntityState], Consistent(world)
  PROVE  RegistryInv(FreshRegistry(world))
<1> SUFFICES ASSUME NEW r, r = FreshRegistry(world)
             PROVE  RegistryInv(r)
  OBVIOUS
<1>1. r = [entities |-> world, revisions |-> [e \in A |-> 1], retired |-> {}]
  BY DEF FreshRegistry
<1>2. r.entities = world /\ r.revisions = [e \in A |-> 1] /\ r.retired = {}
  BY <1>1
<1>3. Active(r) = A
  BY <1>2 DEF Active
<1>4. IsRegistry(r)
  <2>1. r.entities = [e \in A |-> r.entities[e]] /\ \A e \in A : r.entities[e] \in EntityState
    BY <1>2
  <2>2. r.revisions \in [A -> Nat \ {0}] /\ r.retired \subseteq EntityIds
    BY <1>2
  <2>3. r = [entities |-> r.entities, revisions |-> r.revisions, retired |-> r.retired]
    BY <1>1
  <2>4. QED
    BY <1>3, <2>1, <2>2, <2>3 DEF IsRegistry
<1>5. QED
  BY <1>2, <1>4 DEF RegistryInv

LEMMA SpawnInv ==
  ASSUME NEW q, RegistryInv(q), NEW e \in EntityIds, NEW state \in EntityState,
         SpawnAccepted(q, e, state)
  PROVE  RegistryInv(Spawn(q, e, state))
<1> SUFFICES ASSUME NEW r, r = Spawn(q, e, state)
             PROVE  RegistryInv(r)
  OBVIOUS
<1> DEFINE R == [x \in Active(q) \cup {e} |-> IF x = e THEN 1 ELSE q.revisions[x]]
<1>1. r = [entities |-> With(q.entities, e, state), revisions |-> R, retired |-> q.retired]
  BY DEF Spawn
<1>2. /\ r.entities = With(q.entities, e, state) /\ r.revisions = R
      /\ r.retired = q.retired
  BY <1>1
<1>3. Active(r) = Active(q) \cup {e}
  BY <1>2 DEF Active, With
<1>4. /\ Active(q) \subseteq EntityIds /\ \A o \in Active(q) : q.entities[o] \in EntityState
      /\ q.revisions \in [Active(q) -> Nat \ {0}] /\ q.retired \subseteq EntityIds
      /\ Active(q) \cap q.retired = {}
  BY DEF RegistryInv, IsRegistry
<1>5. r.entities = [x \in Active(r) |-> r.entities[x]]
  BY <1>2, <1>3 DEF With, Active
<1>6. \A o \in Active(r) : r.entities[o] \in EntityState
  BY <1>2, <1>3, <1>4 DEF With, Active
<1>7. r.revisions \in [Active(r) -> Nat \ {0}]
  BY <1>2, <1>3, <1>4
<1>8. IsRegistry(r)
  BY <1>1, <1>2, <1>3, <1>4, <1>5, <1>6, <1>7 DEF IsRegistry
<1>9. QED
  BY <1>2, <1>3, <1>4, <1>8 DEF RegistryInv, SpawnAccepted, NeverAllocated

LEMMA DespawnInv ==
  ASSUME NEW q, RegistryInv(q), NEW e \in EntityIds, DespawnAccepted(q, e)
  PROVE  RegistryInv(Despawn(q, e))
<1> SUFFICES ASSUME NEW r, r = Despawn(q, e)
             PROVE  RegistryInv(r)
  OBVIOUS
<1>1. r = [entities |-> Without(q.entities, e), revisions |-> Without(q.revisions, e),
           retired |-> q.retired \cup {e}]
  BY DEF Despawn
<1>2. /\ r.entities = Without(q.entities, e) /\ r.revisions = Without(q.revisions, e)
      /\ r.retired = q.retired \cup {e}
  BY <1>1
<1>3. Active(r) = Active(q) \ {e}
  BY <1>2 DEF Active, Without
<1>4. /\ Active(q) \subseteq EntityIds /\ \A o \in Active(q) : q.entities[o] \in EntityState
      /\ q.revisions \in [Active(q) -> Nat \ {0}] /\ q.retired \subseteq EntityIds
      /\ Active(q) \cap q.retired = {}
  BY DEF RegistryInv, IsRegistry
<1>5. r.entities = [x \in Active(r) |-> r.entities[x]]
  BY <1>2, <1>3 DEF Without, Active
<1>6. \A o \in Active(r) : r.entities[o] \in EntityState
  BY <1>2, <1>3, <1>4 DEF Without, Active
<1>7. r.revisions \in [Active(r) -> Nat \ {0}]
  BY <1>2, <1>3, <1>4 DEF Without
<1>8. IsRegistry(r)
  BY <1>1, <1>2, <1>3, <1>4, <1>5, <1>6, <1>7 DEF IsRegistry
<1>9. Consistent(r.entities)
  BY <1>2, WithoutConsistent DEF RegistryInv, DespawnAccepted, Active
<1>10. QED
  BY <1>2, <1>3, <1>4, <1>8, <1>9 DEF RegistryInv

LEMMA ReplaceInv ==
  ASSUME NEW q, RegistryInv(q), NEW e \in Active(q), NEW state \in EntityState,
         Consistent(With(q.entities, e, state))
  PROVE  RegistryInv(ReplaceState(q, e, state))
<1> SUFFICES ASSUME NEW r, r = ReplaceState(q, e, state)
             PROVE  RegistryInv(r)
  OBVIOUS
<1> DEFINE R == [q.revisions EXCEPT ![e] = @ + 1]
<1>1. r = [entities |-> With(q.entities, e, state), revisions |-> R, retired |-> q.retired]
  BY DEF ReplaceState
<1>2. /\ r.entities = With(q.entities, e, state) /\ r.revisions = R
      /\ r.retired = q.retired
  BY <1>1
<1>3. Active(r) = Active(q)
  BY <1>2 DEF Active, With
<1>4. /\ Active(q) \subseteq EntityIds /\ \A o \in Active(q) : q.entities[o] \in EntityState
      /\ q.revisions \in [Active(q) -> Nat \ {0}] /\ q.retired \subseteq EntityIds
      /\ Active(q) \cap q.retired = {}
  BY DEF RegistryInv, IsRegistry
<1>5. r.entities = [x \in Active(r) |-> r.entities[x]]
  BY <1>2, <1>3 DEF With, Active
<1>6. \A o \in Active(r) : r.entities[o] \in EntityState
  BY <1>2, <1>3, <1>4 DEF With, Active
<1>7. r.revisions \in [Active(r) -> Nat \ {0}]
  BY <1>2, <1>3, <1>4
<1>8. IsRegistry(r)
  BY <1>1, <1>2, <1>3, <1>4, <1>5, <1>6, <1>7 DEF IsRegistry
<1>9. QED
  BY <1>2, <1>3, <1>4, <1>8 DEF RegistryInv

(* apply, whichever transition it is given. *)
LEMMA ApplyInv ==
  ASSUME NEW q, RegistryInv(q), NEW t \in Lifecycle, ApplyAccepted(q, t)
  PROVE  RegistryInv(Apply(q, t))
<1>1. /\ t.entity \in EntityIds /\ t.transition \in Transitions
      /\ t.replacement \in EntityState \cup {NoEntity}
  BY DEF Lifecycle
<1>2. FitsEntity(q.entities, t) /\ Consistent(Resulting(q.entities, t))
  BY DEF ApplyAccepted, LifecycleAccepted
<1>3. CASE t.transition = "spawn"
  <2>1. t.replacement \in EntityState
    BY <1>1, <1>2, <1>3 DEF FitsEntity
  <2>2. Apply(q, t) = Spawn(q, t.entity, t.replacement)
    BY <1>3 DEF Apply
  <2>3. QED
    BY <1>1, <1>3, <2>1, <2>2, SpawnInv DEF ApplyAccepted
<1>4. CASE t.transition = "despawn"
  <2>1. Apply(q, t) = Despawn(q, t.entity)
    BY <1>4 DEF Apply
  <2>2. QED
    BY <1>1, <1>4, <2>1, DespawnInv DEF ApplyAccepted
<1>5. CASE t.transition \in {"death", "revive", "transform"}
  <2>1. t.entity \in Active(q) /\ t.replacement # NoEntity
    BY <1>2, <1>5 DEF FitsEntity, Active
  <2>2. Consistent(With(q.entities, t.entity, t.replacement))
    BY <1>2, <2>1 DEF Resulting
  <2>3. Apply(q, t) = ReplaceState(q, t.entity, t.replacement)
    BY <1>5 DEF Apply
  <2>4. QED
    BY <1>1, <2>1, <2>2, <2>3, ReplaceInv
<1>6. QED
  BY <1>1, <1>3, <1>4, <1>5 DEF Transitions

-----------------------------------------------------------------------------
(* What StateVersioned asks of one step, from q to r. *)
KeepsVersions(q, r) ==
  /\ \A e \in Active(q) :
       IF e \in Active(r)
       THEN \/ r.revisions[e] = q.revisions[e] /\ r.entities[e] = q.entities[e]
            \/ r.revisions[e] > q.revisions[e]
       ELSE e \in r.retired
  /\ \A e \in q.retired : e \in r.retired /\ e \notin Active(r)

LEMMA SpawnVersions ==
  ASSUME NEW q, RegistryInv(q), NEW e, NEW state, SpawnAccepted(q, e, state),
         NEW r, r = Spawn(q, e, state)
  PROVE  KeepsVersions(q, r)
<1> DEFINE R == [x \in Active(q) \cup {e} |-> IF x = e THEN 1 ELSE q.revisions[x]]
           E == [x \in Active(q) \cup {e} |-> IF x = e THEN state ELSE q.entities[x]]
<1>1. r.entities = E /\ r.revisions = R /\ r.retired = q.retired
  BY DEF Spawn, With, Active
<1>2. Active(r) = Active(q) \cup {e} /\ e \notin Active(q) /\ e \notin q.retired
  BY <1>1 DEF Active, SpawnAccepted, NeverAllocated
<1>3. \A o \in Active(q) : R[o] = q.revisions[o] /\ E[o] = q.entities[o]
  BY <1>2
<1>4. Active(q) \cap q.retired = {}
  BY DEF RegistryInv
<1>5. QED
  BY <1>1, <1>2, <1>3, <1>4 DEF KeepsVersions

LEMMA DespawnVersions ==
  ASSUME NEW q, RegistryInv(q), NEW e, DespawnAccepted(q, e), NEW r, r = Despawn(q, e)
  PROVE  KeepsVersions(q, r)
<1> DEFINE R == [x \in (DOMAIN q.revisions) \ {e} |-> q.revisions[x]]
           E == [x \in Active(q) \ {e} |-> q.entities[x]]
<1>1. r.entities = E /\ r.revisions = R /\ r.retired = q.retired \cup {e}
  BY DEF Despawn, Without, Active
<1>2. Active(r) = Active(q) \ {e} /\ DOMAIN q.revisions = Active(q)
  BY <1>1 DEF Active, RegistryInv, IsRegistry
<1>3. \A o \in Active(r) : R[o] = q.revisions[o] /\ E[o] = q.entities[o]
  BY <1>2
<1>4. Active(q) \cap q.retired = {} /\ e \in Active(q)
  BY DEF RegistryInv, DespawnAccepted
<1>5. QED
  BY <1>1, <1>2, <1>3, <1>4 DEF KeepsVersions

LEMMA ReplaceVersions ==
  ASSUME NEW q, RegistryInv(q), NEW e \in Active(q), NEW state,
         NEW r, r = ReplaceState(q, e, state)
  PROVE  KeepsVersions(q, r)
<1> DEFINE R == [q.revisions EXCEPT ![e] = @ + 1]
           E == [x \in Active(q) \cup {e} |-> IF x = e THEN state ELSE q.entities[x]]
<1>1. r.entities = E /\ r.revisions = R /\ r.retired = q.retired
  BY DEF ReplaceState, With, Active
<1>2. Active(r) = Active(q) /\ q.revisions \in [Active(q) -> Nat \ {0}]
  BY <1>1 DEF Active, RegistryInv, IsRegistry
<1>3. \A o \in Active(q) \ {e} : R[o] = q.revisions[o] /\ E[o] = q.entities[o]
  BY <1>2
<1>4. R[e] > q.revisions[e]
  BY <1>2
<1>5. Active(q) \cap q.retired = {}
  BY DEF RegistryInv
<1>6. QED
  BY <1>1, <1>2, <1>3, <1>4, <1>5 DEF KeepsVersions

LEMMA ApplyVersions ==
  ASSUME NEW q, RegistryInv(q), NEW t \in Lifecycle, ApplyAccepted(q, t)
  PROVE  KeepsVersions(q, Apply(q, t))
<1>1. FitsEntity(q.entities, t)
  BY DEF ApplyAccepted, LifecycleAccepted
<1>2. CASE t.transition = "spawn"
  BY <1>2, SpawnVersions DEF Apply, ApplyAccepted
<1>3. CASE t.transition = "despawn"
  BY <1>3, DespawnVersions DEF Apply, ApplyAccepted
<1>4. CASE t.transition \in {"death", "revive", "transform"}
  <2>1. t.entity \in Active(q)
    BY <1>1, <1>4 DEF FitsEntity, Active
  <2>2. Apply(q, t) = ReplaceState(q, t.entity, t.replacement)
    BY <1>4 DEF Apply
  <2>3. QED
    BY <2>1, <2>2, ReplaceVersions
<1>5. QED
  BY <1>2, <1>3, <1>4 DEF Lifecycle, Transitions
=============================================================================
