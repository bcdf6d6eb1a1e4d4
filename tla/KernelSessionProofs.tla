-------------------------- MODULE KernelSessionProofs --------------------------
(***************************************************************************)
(* Proofs about the kernel session, for any ids, times, entities, payloads *)
(* and worlds, any budget and any work limit.                              *)
(*                                                                         *)
(* The argument has two halves.  What the session retains is sound and has *)
(* been published.  What a step in progress has done so far is sound by    *)
(* itself after every dispatch: its trace lies behind the frontier of its  *)
(* working queue, every retained id has one fate in the step, and what is  *)
(* staged with the port is what the trace says beyond what is published.   *)
(***************************************************************************)
EXTENDS KernelSession, KernelOpsProofs, InductionLemmas, SequenceTheorems

(* An executed event. *)
Executed == [id : Ids, time : Nat, seq : Nat \ {0}, causes : SUBSET Ids]

-----------------------------------------------------------------------------
(* The transitions of a trace, for the payload table pay. *)
EffectsOf(pay, s) ==
  LET upto[n \in 0..Len(s)] ==
        IF n = 0 THEN << >>
        ELSE IF pay[s[n].id] # NoLifecycle THEN Append(upto[n - 1], s[n].id)
        ELSE upto[n - 1]
  IN upto[Len(s)]

EffStep(pay, s, f, n) ==
  IF n = 0 THEN << >>
  ELSE IF pay[s[n].id] # NoLifecycle THEN Append(f[n - 1], s[n].id)
  ELSE f[n - 1]
EffIter(pay, s) == CHOOSE f : f = [n \in 0..Len(s) |-> EffStep(pay, s, f, n)]

LEMMA EffectsIsIter == \A pay, s : EffectsOf(pay, s) = EffIter(pay, s)[Len(s)]
BY DEF EffectsOf, EffIter, EffStep

LEMMA EffIterAt ==
  ASSUME NEW pay, NEW S, NEW s \in Seq(S)
  PROVE  \A n \in 0..Len(s) : EffIter(pay, s)[n] = EffStep(pay, s, EffIter(pay, s), n)
<1> DEFINE Upto(f, k) == \A n \in 0..Len(s) : n <= k => f[n] = EffStep(pay, s, f, n)
           Bad == {k \in Nat : ~ \E f : Upto(f, k)}
<1>0. Len(s) \in Nat
  BY LenProperties
<1>1. 0 \notin Bad
  <2> DEFINE f == [n \in 0..Len(s) |-> << >>]
  <2>1. ASSUME NEW n \in 0..Len(s), n <= 0 PROVE f[n] = EffStep(pay, s, f, n)
    <3>1. n = 0
      BY <2>1, <1>0
    <3> QED BY <3>1 DEF EffStep
  <2> HIDE DEF f
  <2> QED BY <2>1
<1>2. ASSUME NEW m \in Nat, NEW f, Upto(f, m)
      PROVE  \E g : Upto(g, m + 1)
  <2> DEFINE g == [n \in 0..Len(s) |-> IF n <= m THEN f[n] ELSE EffStep(pay, s, f, n)]
  <2>1. ASSUME NEW n \in 0..Len(s), n <= m + 1
        PROVE  g[n] = EffStep(pay, s, g, n)
    <3>1. g[n] = EffStep(pay, s, f, n)
      BY <1>2
    <3>2. CASE n = 0
      BY <3>1, <3>2 DEF EffStep
    <3>3. CASE n # 0
      <4>1. n - 1 \in 0..Len(s) /\ n - 1 <= m
        BY <1>0, <2>1, <3>3
      <4>2. g[n - 1] = f[n - 1]
        BY <4>1
      <4> QED BY <3>1, <3>3, <4>2 DEF EffStep
    <3> QED BY <3>2, <3>3
  <2> HIDE DEF g
  <2> QED BY <2>1
<1>3. Bad = {}
  <2> SUFFICES ASSUME Bad # {} PROVE FALSE
    OBVIOUS
  <2>1. PICK m \in Bad : \A k \in Bad : m <= k
    <3> HIDE DEF Bad
    <3>1. Bad \subseteq Nat
      BY DEF Bad
    <3> QED BY <3>1, LeastNatural
  <2>2. m - 1 \in Nat /\ m - 1 \notin Bad
    <3>1. Bad \subseteq Nat
      BY DEF Bad
    <3> HIDE DEF Bad
    <3> QED BY <1>1, <2>1, <3>1
  <2>3. \E f : Upto(f, m - 1)
    BY <2>2
  <2>4. \E g : Upto(g, (m - 1) + 1)
    <3> HIDE DEF Upto
    <3> QED BY <1>2, <2>2, <2>3
  <2> QED BY <2>1, <2>4
<1>4. PICK f : Upto(f, Len(s))
  BY <1>0, <1>3
<1> DEFINE h == [n \in 0..Len(s) |-> f[n]]
<1>5. h = [n \in 0..Len(s) |-> EffStep(pay, s, h, n)]
  <2> SUFFICES ASSUME NEW n \in 0..Len(s)
               PROVE  f[n] = EffStep(pay, s, h, n)
    OBVIOUS
  <2>1. f[n] = EffStep(pay, s, f, n)
    BY <1>0, <1>4
  <2>2. n # 0 => n - 1 \in 0..Len(s)
    BY <1>0
  <2> QED BY <2>1, <2>2 DEF EffStep
<1> HIDE DEF h
<1> DEFINE g == EffIter(pay, s)
<1>6. g = [n \in 0..Len(s) |-> EffStep(pay, s, g, n)]
  BY <1>5 DEF EffIter
<1> HIDE DEF g
<1>7. \A n \in 0..Len(s) : g[n] = EffStep(pay, s, g, n)
  BY <1>6
<1> QED BY <1>7 DEF g

LEMMA EffectsEmpty == \A pay : EffectsOf(pay, << >>) = << >>
<1> SUFFICES ASSUME NEW pay
             PROVE  EffectsOf(pay, << >>) = << >>
  OBVIOUS
<1>1. << >> \in Seq({}) /\ Len(<< >>) = 0 /\ 0 \in 0..0
  OBVIOUS
<1>2. EffIter(pay, << >>)[0] = EffStep(pay, << >>, EffIter(pay, << >>), 0)
  BY <1>1, EffIterAt
<1> QED BY <1>1, <1>2, EffectsIsIter DEF EffStep

(* A trace that grows by an event has one more transition or none. *)
LEMMA EffectsAppend ==
  ASSUME NEW pay, NEW S, NEW s \in Seq(S), NEW e \in S
  PROVE  EffectsOf(pay, Append(s, e)) =
           IF pay[e.id] # NoLifecycle THEN Append(EffectsOf(pay, s), e.id)
                                      ELSE EffectsOf(pay, s)
<1> SUFFICES ASSUME NEW t, t = Append(s, e)
             PROVE  EffectsOf(pay, t) =
                      IF pay[e.id] # NoLifecycle THEN Append(EffectsOf(pay, s), e.id)
                                                 ELSE EffectsOf(pay, s)
  OBVIOUS
<1>1. /\ t \in Seq(S) /\ Len(s) \in Nat /\ Len(t) = Len(s) + 1 /\ t[Len(s) + 1] = e
      /\ \A n \in 1..Len(s) : t[n] = s[n]
  BY LenProperties, AppendProperties
<1> DEFINE Bad == {n \in 0..Len(s) : EffIter(pay, s)[n] # EffIter(pay, t)[n]}
<1>2. Bad = {}
  <2> SUFFICES ASSUME Bad # {} PROVE FALSE
    OBVIOUS
  <2>1. PICK m \in Bad : \A k \in Bad : m <= k
    <3>1. Bad \subseteq Nat
      BY <1>1
    <3> HIDE DEF Bad
    <3> QED BY <3>1, LeastNatural
  <2>2. m \in 0..Len(s) /\ m \in 0..Len(t) /\ EffIter(pay, s)[m] # EffIter(pay, t)[m]
    BY <1>1, <2>1
  <2>3. /\ EffIter(pay, s)[m] = EffStep(pay, s, EffIter(pay, s), m)
        /\ EffIter(pay, t)[m] = EffStep(pay, t, EffIter(pay, t), m)
    <3>1. \A n \in 0..Len(s) : EffIter(pay, s)[n] = EffStep(pay, s, EffIter(pay, s), n)
      BY EffIterAt
    <3>2. \A n \in 0..Len(t) : EffIter(pay, t)[n] = EffStep(pay, t, EffIter(pay, t), n)
      <4>1. t \in Seq(S)
        BY <1>1
      <4> QED BY <4>1, EffIterAt
    <3> QED BY <2>2, <3>1, <3>2
  <2>4. m # 0
    BY <2>2, <2>3 DEF EffStep
  <2>5. m - 1 \in 0..Len(s) /\ ~(m <= m - 1) /\ m \in 1..Len(s)
    BY <1>1, <2>2, <2>4
  <2>6. EffIter(pay, s)[m - 1] = EffIter(pay, t)[m - 1]
    BY <2>1, <2>5
  <2>7. s[m] = t[m]
    BY <1>1, <2>5
  <2> QED BY <2>2, <2>3, <2>4, <2>6, <2>7 DEF EffStep
<1>3. EffIter(pay, t)[Len(s)] = EffIter(pay, s)[Len(s)]
  BY <1>1, <1>2
<1>4. EffIter(pay, t)[Len(s) + 1] = EffStep(pay, t, EffIter(pay, t), Len(s) + 1)
  <2>1. Len(s) + 1 \in 0..Len(t)
    BY <1>1
  <2>2. \A n \in 0..Len(t) : EffIter(pay, t)[n] = EffStep(pay, t, EffIter(pay, t), n)
    BY <1>1, EffIterAt
  <2> QED BY <2>1, <2>2
<1>5. (Len(s) + 1) - 1 = Len(s) /\ Len(s) + 1 # 0
  BY <1>1
<1> QED BY <1>1, <1>3, <1>4, <1>5, EffectsIsIter DEF EffStep

-----------------------------------------------------------------------------
(* The trace lies behind the frontier of the queue, and its events are in  *)
(* the order in which they ran.                                            *)
Behind(q, trace) ==
  /\ \A n \in DOMAIN trace :
       /\ trace[n].id \in q.allocated \ Pending(q)
       /\ trace[n].time <= q.clock /\ trace[n].seq <= q.last
       /\ trace[n].time = q.clock => trace[n].seq <= q.current
       /\ \A p \in Pending(q) : q.entries[p].seq # trace[n].seq
  /\ \A m, n \in DOMAIN trace : m < n =>
       Earlier(trace[m], trace[n]) /\ trace[m].id # trace[n].id

(* What the transitions of the trace were about is where they left it. *)
Accounted(pay, trace, r) ==
  \A e \in {n \in IdsOf(trace) : pay[n] # NoLifecycle} :
    IF pay[e].transition = "despawn"
    THEN pay[e].entity \in r.retired
    ELSE pay[e].entity \in r.retired \cup Active(r)

(* Every id that waited when the step began has one fate in it: it still   *)
(* waits, ran or was cancelled; an id that did not wait has none.          *)
Fates(s, w) ==
  /\ s.queue.allocated \subseteq w.queue.allocated
  /\ w.cancelled \cup IdsOf(w.trace) \subseteq w.queue.allocated
  /\ Pending(w.queue) \cap w.cancelled = {}
  /\ Pending(w.queue) \cap IdsOf(w.trace) = {}
  /\ w.cancelled \cap IdsOf(w.trace) = {}
  /\ Pending(s.queue) \subseteq Pending(w.queue) \cup w.cancelled \cup IdsOf(w.trace)
  /\ (Pending(w.queue) \cup w.cancelled \cup IdsOf(w.trace))
       \cap (s.queue.allocated \ Pending(s.queue)) = {}

(* Nothing waits beyond the horizon, and the numbers have not run out. *)
InReach(q) ==
  /\ q.next <= MaxSafeInteger
  /\ \A p \in Pending(q) : q.entries[p].time <= Horizon

(* PendingOutcome and SnapshotAccepted of any retained state. *)
Settled(s) ==
  \A a \in DOMAIN s.pending :
    /\ s.pending[a] = "scheduled" <=> a \in Pending(s.queue)
    /\ s.pending[a] = "complete" <=> a \in IdsOf(s.trace)

AcceptedFor(pay, s) ==
  /\ Restorable(s.queue) /\ Behind(s.queue, s.trace)
  /\ CausesKept(s)
  /\ s.queue.clock <= Horizon
  /\ Accounted(pay, s.trace, s.registry)
  /\ ScenarioAccounted(s)
  /\ WorldSound(s)
  /\ PendingSound(s)
  /\ s.status # "running" => Pending(s.queue) = {} /\ DOMAIN s.pending = {}

(* What the session retains, for the payloads pay and the transitions pub  *)
(* that the port has published.                                            *)
Retained(pay, s, pub) ==
  /\ pay \in [Ids -> Lifecycle \cup {NoLifecycle}]
  /\ QueueInv(s.queue) /\ RegistryInv(s.registry) /\ s.trace \in Seq(Executed)
  /\ InReach(s.queue)
  /\ DOMAIN s.pending \subseteq s.queue.allocated
  /\ \A a \in DOMAIN s.pending : s.pending[a] \in {"scheduled", "interrupted", "complete"}
  /\ s.status \in {"running", "incomplete"}
  /\ AcceptedFor(pay, s)
  /\ Settled(s)
  /\ pub \in Seq(Ids) /\ pub = EffectsOf(pay, s.trace)

(* What a step has done so far. *)
Underway(pay, s, w, st, pub) ==
  /\ w = [queue |-> w.queue, registry |-> w.registry, trace |-> w.trace,
          cancelled |-> w.cancelled, left |-> w.left, until |-> w.until]
  /\ QueueInv(w.queue) /\ RegistryInv(w.registry) /\ w.trace \in Seq(Executed)
  /\ InReach(w.queue)
  /\ w.cancelled \subseteq Ids /\ w.left \in 0..MaxBudget
  /\ Fates(s, w)
  /\ Behind(w.queue, s.trace \o w.trace)
  /\ Accounted(pay, s.trace \o w.trace, w.registry)
  /\ s.scenario \subseteq w.registry.retired \cup Active(w.registry)
  /\ st \in Seq(Ids) /\ pub \o st = EffectsOf(pay, s.trace \o w.trace)

SessionInv ==
  /\ Retained(payload, session, published)
  /\ Stepping => Underway(payload, session, work, staged, published)

-----------------------------------------------------------------------------
(* Traces that grow. *)

LEMMA TraceAppend ==
  ASSUME NEW s \in Seq(Executed), NEW e \in Executed, NEW t, t = Append(s, e)
  PROVE  /\ t \in Seq(Executed) /\ Len(s) \in Nat
         /\ DOMAIN s = 1..Len(s) /\ DOMAIN t = 1..(Len(s) + 1)
         /\ \A n \in DOMAIN s : t[n] = s[n]
         /\ t[Len(s) + 1] = e
         /\ IdsOf(t) = IdsOf(s) \cup {e.id}
<1>1. /\ t \in Seq(Executed) /\ Len(s) \in Nat
      /\ DOMAIN s = 1..Len(s) /\ DOMAIN t = 1..(Len(s) + 1)
      /\ \A n \in DOMAIN s : t[n] = s[n]
      /\ t[Len(s) + 1] = e
  BY LenProperties, AppendProperties
<1>2. IdsOf(t) = IdsOf(s) \cup {e.id}
  <2>1. ASSUME NEW i \in IdsOf(t) PROVE i \in IdsOf(s) \cup {e.id}
    <3>1. PICK n \in DOMAIN t : i = t[n].id
      BY <2>1 DEF IdsOf
    <3>2. n = Len(s) + 1 \/ n \in DOMAIN s
      BY <1>1
    <3> QED BY <1>1, <3>1, <3>2 DEF IdsOf
  <2>2. ASSUME NEW i \in IdsOf(s) PROVE i \in IdsOf(t)
    <3>1. PICK n \in DOMAIN s : i = s[n].id
      BY <2>2 DEF IdsOf
    <3>2. n \in DOMAIN t /\ t[n].id = i
      BY <1>1, <3>1
    <3> QED BY <3>2 DEF IdsOf
  <2>3. e.id \in IdsOf(t)
    <3>1. Len(s) + 1 \in DOMAIN t
      BY <1>1
    <3> QED BY <1>1, <3>1 DEF IdsOf
  <2> QED BY <2>1, <2>2, <2>3
<1> QED BY <1>1, <1>2

LEMMA TraceAppendIds ==
  \A s \in Seq(Executed), e \in Executed :
    Append(s, e) \in Seq(Executed) /\ IdsOf(Append(s, e)) = IdsOf(s) \cup {e.id}
BY ZenonT(60), TraceAppend

LEMMA TraceOfOne ==
  ASSUME NEW e \in Executed
  PROVE  <<e>> = Append(<< >>, e) /\ <<e>> \in Seq(Executed) /\ IdsOf(<<e>>) = {e.id}
<1>1. << >> \in Seq(Executed) /\ IdsOf(<< >>) = {}
  BY EmptySeq DEF IdsOf
<1>2. <<e>> = Append(<< >>, e)
  OBVIOUS
<1>3. IdsOf(Append(<< >>, e)) = IdsOf(<< >>) \cup {e.id} /\ Append(<< >>, e) \in Seq(Executed)
  BY <1>1, TraceAppendIds
<1>4. IdsOf(Append(<< >>, e)) = {e.id}
  BY <1>1, <1>3
<1> QED BY <1>2, <1>3, <1>4

LEMMA TraceConcat ==
  ASSUME NEW s \in Seq(Executed), NEW t \in Seq(Executed)
  PROVE  /\ s \o t \in Seq(Executed)
         /\ IdsOf(s \o t) = IdsOf(s) \cup IdsOf(t)
<1>1. /\ s \o t \in Seq(Executed) /\ Len(s) \in Nat /\ Len(t) \in Nat
      /\ DOMAIN s = 1..Len(s) /\ DOMAIN t = 1..Len(t) /\ DOMAIN (s \o t) = 1..(Len(s) + Len(t))
      /\ \A n \in 1..Len(s) : (s \o t)[n] = s[n]
      /\ \A n \in 1..Len(t) : (s \o t)[Len(s) + n] = t[n]
  BY LenProperties, ConcatProperties
<1> DEFINE u == s \o t
<1>2. /\ DOMAIN u = 1..(Len(s) + Len(t))
      /\ \A n \in 1..Len(s) : u[n] = s[n]
      /\ \A n \in 1..Len(t) : u[Len(s) + n] = t[n]
  BY <1>1
<1> HIDE DEF u
<1>3. ASSUME NEW i \in IdsOf(u) PROVE i \in IdsOf(s) \cup IdsOf(t)
  <2>1. PICK n \in DOMAIN u : i = u[n].id
    BY <1>3 DEF IdsOf
  <2>2. CASE n \in 1..Len(s)
    BY <1>1, <1>2, <2>1, <2>2 DEF IdsOf
  <2>3. CASE n \notin 1..Len(s)
    <3>1. n - Len(s) \in 1..Len(t) /\ Len(s) + (n - Len(s)) = n
      BY <1>1, <1>2, <2>3
    <3>2. u[n] = t[n - Len(s)]
      BY <1>2, <3>1
    <3> QED BY <1>1, <2>1, <3>1, <3>2 DEF IdsOf
  <2> QED BY <2>2, <2>3
<1>4. ASSUME NEW i \in IdsOf(s) PROVE i \in IdsOf(u)
  <2>1. PICK n \in DOMAIN s : i = s[n].id
    BY <1>4 DEF IdsOf
  <2>2. n \in DOMAIN u /\ u[n].id = i
    BY <1>1, <1>2, <2>1
  <2> QED BY <2>2 DEF IdsOf
<1>5. ASSUME NEW i \in IdsOf(t) PROVE i \in IdsOf(u)
  <2>1. PICK n \in DOMAIN t : i = t[n].id
    BY <1>5 DEF IdsOf
  <2>2. Len(s) + n \in DOMAIN u /\ u[Len(s) + n].id = i
    BY <1>1, <1>2, <2>1
  <2> QED BY <2>2 DEF IdsOf
<1>6. IdsOf(u) = IdsOf(s) \cup IdsOf(t)
  BY <1>3, <1>4, <1>5
<1> QED BY <1>1, <1>6 DEF u

-----------------------------------------------------------------------------
(* One dispatch. *)

(* What runs next comes after all that ran: the frontier never goes back.  *)
LEMMA BehindDispatch ==
  ASSUME NEW q, QueueInv(q), NEW p, IsHead(q, p), NEW C,
         NEW B, IsBatch(B), IsFiniteSet(DOMAIN B), DispatchAccepted(q, p, C, B),
         NEW r, r = DispatchEvent(q, p, C, B),
         NEW trace \in Seq(Executed), Behind(q, trace)
  PROVE  /\ TraceEntry(q, p) \in Executed
         /\ Behind(r, Append(trace, TraceEntry(q, p)))
<1> SUFFICES ASSUME NEW e, e = TraceEntry(q, p), NEW t, t = Append(trace, e)
             PROVE  e \in Executed /\ Behind(r, t)
  OBVIOUS
<1>0. /\ p \in Pending(q) /\ p \in Ids /\ p \in q.allocated
      /\ q.entries[p] \in Event
      /\ \A o \in Pending(q) : q.entries[o] \in Event
      /\ q.clock \in Nat /\ q.last \in Nat /\ q.current \in Nat /\ q.next \in Nat
      /\ q.last < q.next /\ q.current <= q.last /\ q.entries[p].seq < q.next
  BY DEF IsHead, QueueInv, IsQueue, Restorable
<1>1. /\ e \in Executed /\ e.id = p
      /\ e.time = q.entries[p].time /\ e.seq = q.entries[p].seq
      /\ e.time \in Nat /\ e.seq \in Nat
  BY <1>0 DEF TraceEntry, Executed, Event
<1>2. \/ e.time > q.clock
      \/ e.time = q.clock /\ e.seq > q.current
  BY <1>0, <1>1 DEF QueueInv, Restorable
<1>3. /\ Pending(r) = ((Pending(q) \ {p}) \ C) \cup DOMAIN B
      /\ r.allocated = q.allocated \cup DOMAIN B
      /\ DOMAIN B \cap q.allocated = {}
      /\ \A o \in (Pending(q) \ {p}) \ C : r.entries[o] = q.entries[o]
      /\ \A i \in DOMAIN B : r.entries[i].seq >= q.next
  BY DispatchEffect
<1>4. /\ r.clock = e.time /\ r.current = e.seq
      /\ r.last = IF e.seq > q.last THEN e.seq ELSE q.last
  BY <1>1, DispatchEffect
<1>r. \A o \in Pending(r) : r.entries[o].seq \in Nat
  <2>1. QueueInv(r)
    BY DispatchEffect
  <2> QED BY <2>1 DEF QueueInv, IsQueue, Event
<1>5. /\ Len(trace) \in Nat
      /\ DOMAIN trace = 1..Len(trace) /\ DOMAIN t = 1..(Len(trace) + 1)
      /\ \A n \in DOMAIN trace : t[n] = trace[n]
      /\ t[Len(trace) + 1] = e
  BY <1>1, TraceAppend
<1>6. \A n \in DOMAIN trace : trace[n].time \in Nat /\ trace[n].seq \in Nat
  <2>1. \A n \in DOMAIN trace : trace[n] \in Executed
    BY <1>5, ElementOfSeq
  <2> QED BY <2>1 DEF Executed
<1>7. ASSUME NEW n \in DOMAIN trace
      PROVE  /\ trace[n].id \in r.allocated \ Pending(r)
             /\ trace[n].time <= r.clock /\ trace[n].seq <= r.last
             /\ trace[n].time = r.clock => trace[n].seq <= r.current
             /\ \A o \in Pending(r) : r.entries[o].seq # trace[n].seq
             /\ Earlier(trace[n], e) /\ trace[n].id # e.id
  <2>1. /\ trace[n].id \in q.allocated \ Pending(q)
        /\ trace[n].time <= q.clock /\ trace[n].seq <= q.last
        /\ trace[n].time = q.clock => trace[n].seq <= q.current
        /\ \A o \in Pending(q) : q.entries[o].seq # trace[n].seq
    BY DEF Behind
  <2>2. /\ trace[n].id \in r.allocated \ Pending(r) /\ trace[n].id # e.id
    BY <1>0, <1>1, <1>3, <2>1
  <2>3. Earlier(trace[n], e)
    BY SMTT(30), <1>0, <1>1, <1>2, <1>6, <2>1 DEF Earlier
  <2>4. trace[n].time <= r.clock /\ trace[n].seq <= r.last
        /\ (trace[n].time = r.clock => trace[n].seq <= r.current)
    BY SMTT(30), <1>0, <1>1, <1>2, <1>4, <1>6, <2>1
  <2>5. ASSUME NEW o \in Pending(r) PROVE r.entries[o].seq # trace[n].seq
    <3>1. CASE o \in DOMAIN B
      BY <1>0, <1>3, <1>6, <1>r, <2>1, <3>1
    <3>2. CASE o \notin DOMAIN B
      BY <1>3, <2>1, <3>2
    <3> QED BY <3>1, <3>2
  <2> QED BY <2>2, <2>3, <2>4, <2>5
<1>8. /\ e.id \in r.allocated \ Pending(r)
      /\ e.time <= r.clock /\ e.seq <= r.last
      /\ e.time = r.clock => e.seq <= r.current
  BY <1>0, <1>1, <1>3, <1>4
<1>9. ASSUME NEW o \in Pending(r) PROVE r.entries[o].seq # e.seq
  <2>1. CASE o \in DOMAIN B
    BY <1>0, <1>1, <1>3, <1>r, <2>1
  <2>2. CASE o \notin DOMAIN B
    <3>1. o \in Pending(q) \ {p} /\ r.entries[o] = q.entries[o]
      BY <1>3, <2>2
    <3>2. q.entries[o].seq # q.entries[p].seq
      BY <1>0, <3>1 DEF QueueInv, Restorable
    <3> QED BY <1>1, <3>1, <3>2
  <2> QED BY <2>1, <2>2
<1>10. ASSUME NEW n \in DOMAIN t
       PROVE  /\ t[n].id \in r.allocated \ Pending(r)
              /\ t[n].time <= r.clock /\ t[n].seq <= r.last
              /\ t[n].time = r.clock => t[n].seq <= r.current
              /\ \A o \in Pending(r) : r.entries[o].seq # t[n].seq
  <2>1. n \in DOMAIN trace \/ n = Len(trace) + 1
    BY <1>5
  <2>2. t[n] = e \/ (n \in DOMAIN trace /\ t[n] = trace[n])
    BY <1>5, <2>1
  <2> QED BY <2>2, <1>7, <1>8, <1>9
<1>11. ASSUME NEW m \in DOMAIN t, NEW n \in DOMAIN t, m < n
       PROVE  Earlier(t[m], t[n]) /\ t[m].id # t[n].id
  <2>1. m \in DOMAIN trace /\ t[m] = trace[m]
    BY <1>5, <1>11
  <2>2. CASE n = Len(trace) + 1
    BY <1>5, <1>7, <2>1, <2>2
  <2>3. CASE n \in DOMAIN trace
    BY <1>5, <1>11, <2>1, <2>3 DEF Behind
  <2> QED BY <1>5, <2>2, <2>3
<1> QED BY <1>1, <1>10, <1>11 DEF Behind

(* A transition leaves its entity where its kind says, and every entity    *)
(* that was known stays known.                                             *)
LEMMA ApplyLeaves ==
  ASSUME NEW q, RegistryInv(q), NEW t \in Lifecycle, ApplyAccepted(q, t),
         NEW r, r = Apply(q, t)
  PROVE  /\ q.retired \subseteq r.retired
         /\ Active(q) \subseteq r.retired \cup Active(r)
         /\ IF t.transition = "despawn" THEN t.entity \in r.retired
                                        ELSE t.entity \in Active(r)
<1>1. KeepsVersions(q, r)
  BY ApplyVersions
<1>2. FitsEntity(q.entities, t)
  BY DEF ApplyAccepted, LifecycleAccepted
<1>3. CASE t.transition = "spawn"
  <2>1. r.entities = [x \in DOMAIN q.entities \cup {t.entity} |->
                        IF x = t.entity THEN t.replacement ELSE q.entities[x]]
    BY <1>3 DEF Apply, Spawn, With
  <2>2. t.entity \in Active(r)
    BY <2>1 DEF Active
  <2> QED BY <1>1, <1>3, <2>2 DEF KeepsVersions
<1>4. CASE t.transition = "despawn"
  <2>1. r.retired = q.retired \cup {t.entity}
    BY <1>4 DEF Apply, Despawn
  <2> QED BY <1>1, <1>4, <2>1 DEF KeepsVersions
<1>5. CASE t.transition \in {"death", "revive", "transform"}
  <2>1. t.entity \in DOMAIN q.entities
    BY <1>2, <1>5 DEF FitsEntity
  <2>2. r.entities = [x \in DOMAIN q.entities \cup {t.entity} |->
                        IF x = t.entity THEN t.replacement ELSE q.entities[x]]
    BY <1>5 DEF Apply, ReplaceState, With
  <2>3. t.entity \in Active(r)
    BY <2>2 DEF Active
  <2> QED BY <1>1, <1>5, <2>3 DEF KeepsVersions
<1> QED BY <1>3, <1>4, <1>5 DEF Lifecycle, Transitions

(* The batches a dispatcher brings are batches of finitely many drafts.     *)
LEMMA UsedBatchTypes ==
  ASSUME IsQueue(work.queue), NEW p \in Pending(work.queue), NEW B \in UsedBatches(p)
  PROVE  IsBatch(B) /\ IsFiniteSet(DOMAIN B)
<1> DEFINE known  == work.queue.allocated
           drafts == [time : Times, phase : UsedPhases, causes : {{p, c} : c \in known}]
<1>1. p \in Ids /\ known \subseteq Ids
  BY DEF IsQueue
<1>2. drafts \subseteq Draft
  BY <1>1, SessionAssumption DEF Draft
<1>3. \E J \in SUBSET (Ids \ known) : IsFiniteSet(J) /\ B \in [J -> drafts]
  BY DEF UsedBatches
<1> HIDE DEF drafts, known
<1>4. PICK J \in SUBSET Ids : IsFiniteSet(J) /\ B \in [J -> drafts]
  BY <1>3
<1>5. DOMAIN B = J /\ \A i \in J : B[i] \in Draft
  BY <1>2, <1>4
<1>6. B = [i \in J |-> B[i]]
  BY <1>4
<1> QED BY <1>4, <1>5, <1>6 DEF IsBatch

(* What a dispatch does to the working state. *)
LEMMA DispatchWork ==
  ASSUME SessionInv, NEW p, NEW C, NEW B, Dispatch(p, C, B)
  PROVE  /\ Underway(payload, session, work, staged, published)
         /\ IsHead(work.queue, p) /\ DispatchAccepted(work.queue, p, C, B)
         /\ work.left > 0 /\ work.queue.entries[p].time <= Horizon
         /\ \A i \in DOMAIN B : B[i].time <= Horizon
         /\ payload[p] # NoLifecycle => ApplyAccepted(work.registry, payload[p])
         /\ work' = [queue     |-> DispatchEvent(work.queue, p, C, B),
                     registry  |-> IF payload[p] = NoLifecycle THEN work.registry
                                   ELSE Apply(work.registry, payload[p]),
                     trace     |-> Append(work.trace, TraceEntry(work.queue, p)),
                     cancelled |-> work.cancelled \cup (C \cap Pending(work.queue)),
                     left      |-> work.left - 1,
                     until     |-> work.until]
         /\ staged' = IF payload[p] = NoLifecycle THEN staged ELSE Append(staged, p)
         /\ payload' = payload /\ session' = session /\ published' = published
<1>1. Underway(payload, session, work, staged, published)
  BY DEF SessionInv, Dispatch
<1>2. /\ IsHead(work.queue, p) /\ DispatchAccepted(work.queue, p, C, B)
      /\ work.left > 0 /\ work.queue.entries[p].time <= Horizon
      /\ \A i \in DOMAIN B : B[i].time <= Horizon
      /\ payload[p] # NoLifecycle => ApplyAccepted(work.registry, payload[p])
      /\ staged' = IF payload[p] = NoLifecycle THEN staged ELSE Append(staged, p)
      /\ payload' = payload /\ session' = session /\ published' = published
  BY DEF Dispatch, Due, LifecycleAllowed
<1> DEFINE r == DispatchEvent(work.queue, p, C, B)
           g == IF payload[p] = NoLifecycle THEN work.registry
                ELSE Apply(work.registry, payload[p])
           t == Append(work.trace, TraceEntry(work.queue, p))
           x == work.cancelled \cup (C \cap Pending(work.queue))
<1>3. work' = [work EXCEPT !.queue = r, !.registry = g, !.trace = t,
                           !.cancelled = x, !.left = work.left - 1]
  BY DEF Dispatch
<1>4. work = [queue |-> work.queue, registry |-> work.registry, trace |-> work.trace,
              cancelled |-> work.cancelled, left |-> work.left, until |-> work.until]
  BY <1>1 DEF Underway
<1> HIDE DEF r, g, t, x
<1>5. work' = [queue |-> r, registry |-> g, trace |-> t, cancelled |-> x,
               left |-> work.left - 1, until |-> work.until]
  BY <1>3, <1>4
<1> QED BY <1>1, <1>2, <1>5 DEF r, g, t, x

LEMMA DispatchUnderway ==
  ASSUME SessionInv, NEW p \in Pending(work.queue), NEW C, p \notin C,
         NEW B \in UsedBatches(p), Dispatch(p, C, B)
  PROVE  Underway(payload, session, work', staged', published)
<1> SUFFICES ASSUME NEW w, w = work', NEW st, st = staged',
                    NEW q, q = work.queue, NEW e, e = TraceEntry(q, p),
                    NEW r, r = DispatchEvent(q, p, C, B)
             PROVE  Underway(payload, session, w, st, published)
  OBVIOUS
<1>1. /\ Underway(payload, session, work, staged, published)
      /\ Retained(payload, session, published)
      /\ QueueInv(q) /\ IsQueue(q)
      /\ IsBatch(B) /\ IsFiniteSet(DOMAIN B)
      /\ IsHead(q, p) /\ DispatchAccepted(q, p, C, B)
  <2>1. Underway(payload, session, work, staged, published)
    BY DispatchWork
  <2>2. QueueInv(q) /\ IsQueue(q)
    BY <2>1 DEF Underway, QueueInv
  <2>3. IsBatch(B) /\ IsFiniteSet(DOMAIN B)
    BY <2>2, UsedBatchTypes
  <2> QED BY <2>1, <2>2, <2>3, DispatchWork DEF SessionInv
<1>2. w = [queue     |-> r,
           registry  |-> IF payload[p] = NoLifecycle THEN work.registry
                         ELSE Apply(work.registry, payload[p]),
           trace     |-> Append(work.trace, e),
           cancelled |-> work.cancelled \cup (C \cap Pending(q)),
           left      |-> work.left - 1,
           until     |-> work.until]
  BY DispatchWork
<1>3. /\ w.queue = r /\ w.trace = Append(work.trace, e)
      /\ w.cancelled = work.cancelled \cup (C \cap Pending(q))
      /\ w.left = work.left - 1
      /\ w.registry = IF payload[p] = NoLifecycle THEN work.registry
                      ELSE Apply(work.registry, payload[p])
      /\ w = [queue |-> w.queue, registry |-> w.registry, trace |-> w.trace,
              cancelled |-> w.cancelled, left |-> w.left, until |-> w.until]
  BY <1>2
<1>4. /\ QueueInv(r)
      /\ Pending(r) = ((Pending(q) \ {p}) \ C) \cup DOMAIN B
      /\ r.allocated = q.allocated \cup DOMAIN B
      /\ DOMAIN B \cap q.allocated = {}
      /\ r.next <= MaxSafeInteger
  BY <1>1, DispatchEffect
<1>5. /\ \A o \in (Pending(q) \ {p}) \ C : r.entries[o] = q.entries[o]
      /\ \A i \in DOMAIN B : r.entries[i].time = B[i].time
  BY <1>1, DispatchEffect
<1>6. /\ session.trace \in Seq(Executed) /\ work.trace \in Seq(Executed)
      /\ Behind(q, session.trace \o work.trace)
      /\ Pending(q) \subseteq Ids /\ Pending(q) \subseteq q.allocated
  BY <1>1 DEF Underway, Retained, QueueInv, IsQueue, Restorable
<1> DEFINE old == session.trace \o work.trace
<1>7. old \in Seq(Executed)
  BY <1>6, TraceConcat
<1>8. e \in Executed /\ e.id = p /\ Behind(r, Append(old, e))
  <2>1. e \in Executed /\ Behind(r, Append(old, e))
    BY <1>1, <1>6, <1>7, BehindDispatch
  <2> QED BY <2>1 DEF TraceEntry
<1>9. session.trace \o w.trace = Append(old, e)
  <2>1. w.trace = work.trace \o <<e>> /\ <<e>> \in Seq(Executed)
    BY <1>3, <1>6, <1>8, AppendIsConcat
  <2>2. session.trace \o (work.trace \o <<e>>) = old \o <<e>>
    <3>1. \A a, b, c \in Seq(Executed) : (a \o b) \o c = a \o (b \o c)
      BY ConcatAssociative
    <3> QED BY ZenonT(30), <1>6, <2>1, <3>1
  <2> QED BY <1>7, <1>8, <2>1, <2>2, AppendIsConcat
<1> HIDE DEF old
<1>10. /\ w.trace \in Seq(Executed) /\ IdsOf(w.trace) = IdsOf(work.trace) \cup {p}
       /\ IdsOf(Append(old, e)) = IdsOf(old) \cup {p}
  <2>1. w.trace \in Seq(Executed) /\ IdsOf(w.trace) = IdsOf(work.trace) \cup {p}
    BY <1>3, <1>6, <1>8, TraceAppendIds
  <2>2. IdsOf(Append(old, e)) = IdsOf(old) \cup {p}
    BY <1>7, <1>8, TraceAppendIds
  <2> QED BY <2>1, <2>2
<1>11. InReach(w.queue)
  <2>1. \A i \in DOMAIN B : B[i].time <= Horizon
    BY DispatchWork
  <2>2. \A o \in Pending(q) : q.entries[o].time <= Horizon
    BY <1>1 DEF Underway, InReach
  <2> QED BY <1>3, <1>4, <1>5, <2>1, <2>2 DEF InReach
<1>12. w.cancelled \subseteq Ids /\ w.left \in 0..MaxBudget
  <2>1. work.cancelled \subseteq Ids /\ work.left \in 0..MaxBudget /\ work.left > 0
    BY <1>1, DispatchWork DEF Underway
  <2> QED BY <1>3, <1>6, <2>1, SessionBounds
<1>13. Fates(session, w)
  <2>1. Fates(session, work)
    BY <1>1 DEF Underway
  <2>2. session.queue.allocated \subseteq w.queue.allocated
    BY <1>3, <1>4, <2>1 DEF Fates
  <2>3. w.cancelled \cup IdsOf(w.trace) \subseteq w.queue.allocated
    BY <1>3, <1>4, <1>6, <1>10, <2>1 DEF Fates
  <2>4. /\ Pending(w.queue) \cap w.cancelled = {}
        /\ Pending(w.queue) \cap IdsOf(w.trace) = {}
        /\ w.cancelled \cap IdsOf(w.trace) = {}
    BY <1>3, <1>4, <1>6, <1>10, <2>1 DEF Fates
  <2>5. Pending(session.queue) \subseteq Pending(w.queue) \cup w.cancelled \cup IdsOf(w.trace)
    BY <1>3, <1>4, <1>10, <2>1 DEF Fates
  <2>6. (Pending(w.queue) \cup w.cancelled \cup IdsOf(w.trace))
          \cap (session.queue.allocated \ Pending(session.queue)) = {}
    BY <1>3, <1>4, <1>6, <1>10, <2>1 DEF Fates
  <2> QED BY <2>2, <2>3, <2>4, <2>5, <2>6 DEF Fates
<1>14. /\ RegistryInv(w.registry)
       /\ Accounted(payload, Append(old, e), w.registry)
       /\ session.scenario \subseteq w.registry.retired \cup Active(w.registry)
  <2>1. /\ RegistryInv(work.registry) /\ Accounted(payload, old, work.registry)
        /\ session.scenario \subseteq work.registry.retired \cup Active(work.registry)
    BY <1>1 DEF Underway, old
  <2>2. CASE payload[p] = NoLifecycle
    BY <1>3, <1>10, <2>1, <2>2 DEF Accounted
  <2>3. CASE payload[p] # NoLifecycle
    <3> SUFFICES ASSUME NEW g, g = w.registry
                 PROVE  /\ RegistryInv(g)
                        /\ Accounted(payload, Append(old, e), g)
                        /\ session.scenario \subseteq g.retired \cup Active(g)
      OBVIOUS
    <3>1. payload[p] \in Lifecycle /\ ApplyAccepted(work.registry, payload[p])
      BY <1>1, <1>6, <2>3, DispatchWork DEF Retained
    <3>2. g = Apply(work.registry, payload[p])
      BY <1>3, <2>3
    <3>3. RegistryInv(g)
      BY <2>1, <3>1, <3>2, ApplyInv
    <3>4. /\ work.registry.retired \subseteq g.retired
          /\ Active(work.registry) \subseteq g.retired \cup Active(g)
          /\ IF payload[p].transition = "despawn" THEN payload[p].entity \in g.retired
                                                  ELSE payload[p].entity \in Active(g)
      BY <2>1, <3>1, <3>2, ApplyLeaves
    <3>5. Accounted(payload, Append(old, e), g)
      <4> SUFFICES ASSUME NEW i \in IdsOf(Append(old, e)), payload[i] # NoLifecycle
                   PROVE  IF payload[i].transition = "despawn"
                          THEN payload[i].entity \in g.retired
                          ELSE payload[i].entity \in g.retired \cup Active(g)
        BY DEF Accounted
      <4>1. CASE i = p
        BY <3>4, <4>1
      <4>2. CASE i # p
        <5>1. i \in IdsOf(old)
          BY <1>10, <4>2
        <5> QED BY <2>1, <3>4, <5>1 DEF Accounted
      <4> QED BY <4>1, <4>2
    <3> QED BY <2>1, <3>3, <3>4, <3>5
  <2> QED BY <2>2, <2>3
<1>15. st \in Seq(Ids) /\ published \o st = EffectsOf(payload, Append(old, e))
  <2>1. /\ staged \in Seq(Ids) /\ published \in Seq(Ids)
        /\ published \o staged = EffectsOf(payload, old)
        /\ p \in Ids
    BY <1>1, <1>6 DEF Underway, Retained, old
  <2>2. EffectsOf(payload, Append(old, e)) =
          IF payload[p] # NoLifecycle THEN Append(EffectsOf(payload, old), p)
                                      ELSE EffectsOf(payload, old)
    <3>1. EffectsOf(payload, Append(old, e)) =
            IF payload[e.id] # NoLifecycle THEN Append(EffectsOf(payload, old), e.id)
                                           ELSE EffectsOf(payload, old)
      <4>1. e \in Executed
        BY <1>8
      <4> QED BY ZenonT(60), <1>7, <4>1, EffectsAppend
    <3> QED BY <1>8, <3>1
  <2>3. CASE payload[p] = NoLifecycle
    BY <2>1, <2>2, <2>3, DispatchWork
  <2>4. CASE payload[p] # NoLifecycle
    <3>1. st = Append(staged, p)
      BY <2>4, DispatchWork
    <3>2. st = staged \o <<p>> /\ st \in Seq(Ids) /\ <<p>> \in Seq(Ids)
      BY <2>1, <3>1, AppendIsConcat
    <3>3. published \o st = (published \o staged) \o <<p>>
      <4>1. \A a, b, c \in Seq(Ids) : (a \o b) \o c = a \o (b \o c)
        BY ConcatAssociative
      <4>2. published \o (staged \o <<p>>) = (published \o staged) \o <<p>>
        BY <2>1, <3>2, <4>1
      <4> QED BY <3>2, <4>2
    <3>4. Append(published \o staged, p) = (published \o staged) \o <<p>>
      BY <2>1, ConcatProperties, AppendIsConcat
    <3> QED BY <2>1, <2>2, <2>4, <3>2, <3>3, <3>4
  <2> QED BY <2>3, <2>4
<1> QED
  BY <1>3, <1>4, <1>8, <1>9, <1>10, <1>11, <1>12, <1>13, <1>14, <1>15 DEF Underway

-----------------------------------------------------------------------------
(* The other steps. *)

LEMMA AcceptedIsAcceptedFor ==
  \A s : SnapshotAccepted(s) <=> AcceptedFor(payload, s)
BY DEF SnapshotAccepted, AcceptedFor, FrontierHeld, Behind, LedgerAgrees, Accounted

LEMMA BeginUnderway ==
  ASSUME SessionInv, NEW maxEvents \in 1..MaxBudget, NEW until, BeginStep(maxEvents, until)
  PROVE  Underway(payload, session, work', << >>, published)
<1> SUFFICES ASSUME NEW w, w = work'
             PROVE  Underway(payload, session, w, << >>, published)
  OBVIOUS
<1>1. w = [queue |-> session.queue, registry |-> session.registry, trace |-> << >>,
           cancelled |-> {}, left |-> maxEvents, until |-> until]
  BY DEF BeginStep
<1>2. /\ w.queue = session.queue /\ w.registry = session.registry /\ w.trace = << >>
      /\ w.cancelled = {} /\ w.left = maxEvents
      /\ w = [queue |-> w.queue, registry |-> w.registry, trace |-> w.trace,
              cancelled |-> w.cancelled, left |-> w.left, until |-> w.until]
  BY <1>1
<1>3. Retained(payload, session, published) /\ AcceptedFor(payload, session)
  BY DEF SessionInv, Retained
<1>4. /\ QueueInv(w.queue) /\ RegistryInv(w.registry) /\ InReach(w.queue)
      /\ session.trace \in Seq(Executed) /\ published \in Seq(Ids)
      /\ published = EffectsOf(payload, session.trace)
  BY <1>2, <1>3 DEF Retained
<1>5. /\ session.trace \o << >> = session.trace
      /\ published \o << >> = published
      /\ << >> \in Seq(Executed) /\ << >> \in Seq(Ids)
  BY <1>4, ConcatEmptySeq, EmptySeq
<1>6. IdsOf(w.trace) = {}
  BY <1>2 DEF IdsOf
<1>7. Fates(session, w)
  <2>1. Pending(session.queue) \subseteq session.queue.allocated
    BY <1>3 DEF Retained, QueueInv, Restorable
  <2> QED BY <1>2, <1>6, <2>1 DEF Fates
<1>8. /\ Behind(w.queue, session.trace \o w.trace)
      /\ Accounted(payload, session.trace \o w.trace, w.registry)
      /\ session.scenario \subseteq w.registry.retired \cup Active(w.registry)
  BY <1>2, <1>3, <1>5 DEF AcceptedFor, ScenarioAccounted
<1>9. w.cancelled \subseteq Ids /\ w.left \in 0..MaxBudget
  BY <1>2, SessionBounds
<1> QED
  BY <1>2, <1>4, <1>5, <1>7, <1>8, <1>9 DEF Underway

LEMMA FinishRetained ==
  ASSUME SessionInv, FinishStep
  PROVE  Retained(payload, session', published')
<1>1. /\ Underway(payload, session, work, staged, published)
      /\ Retained(payload, session, published)
  BY DEF SessionInv, FinishStep
<1>2. PICK x \in BOOLEAN : /\ session' = NextSession(work, x)
                           /\ SnapshotAccepted(NextSession(work, x))
  <2>1. CASE Exhausted
    <3>1. session' = NextSession(work, TRUE) /\ SnapshotAccepted(NextSession(work, TRUE))
      BY <2>1 DEF FinishStep, NextSession
    <3> QED BY <3>1
  <2>2. CASE ~Exhausted
    <3>1. session' = NextSession(work, FALSE) /\ SnapshotAccepted(NextSession(work, FALSE))
      BY <2>2 DEF FinishStep, NextSession
    <3> QED BY <3>1
  <2> QED BY <2>1, <2>2
<1> SUFFICES ASSUME NEW s, s = NextSession(work, x), NEW pub, pub = published \o staged
             PROVE  Retained(payload, s, pub)
  BY <1>2 DEF FinishStep
<1>3. AcceptedFor(payload, s)
  BY <1>2, AcceptedIsAcceptedFor
<1>4. /\ s.queue = IF x THEN CancelBatch(work.queue, Pending(work.queue)) ELSE work.queue
      /\ s.registry = work.registry
      /\ s.trace = session.trace \o work.trace
      /\ s.pending = IF x THEN << >> ELSE SettledActions(work)
      /\ s.status = IF x THEN "incomplete" ELSE "running"
  BY DEF NextSession
<1>5. /\ QueueInv(work.queue) /\ IsQueue(work.queue) /\ RegistryInv(work.registry)
      /\ InReach(work.queue) /\ Fates(session, work)
      /\ work.trace \in Seq(Executed) /\ session.trace \in Seq(Executed)
      /\ staged \in Seq(Ids) /\ published \in Seq(Ids)
      /\ published \o staged = EffectsOf(payload, session.trace \o work.trace)
      /\ payload \in [Ids -> Lifecycle \cup {NoLifecycle}]
  BY <1>1 DEF Underway, Retained, QueueInv
<1>6. pub \in Seq(Ids) /\ pub = EffectsOf(payload, s.trace)
  BY <1>4, <1>5, ConcatProperties
<1>7. s.trace \in Seq(Executed) /\ IdsOf(s.trace) = IdsOf(session.trace) \cup IdsOf(work.trace)
  BY <1>4, <1>5, TraceConcat
<1>8. QueueInv(s.queue) /\ InReach(s.queue)
  <2>1. CASE ~x
    BY <1>4, <1>5, <2>1
  <2>2. CASE x
    <3> DEFINE c == CancelBatch(work.queue, Pending(work.queue))
    <3>1. QueueInv(c) /\ Pending(c) = {}
      BY <1>5, CancelInv, CancelIds
    <3>2. c.next = work.queue.next
      BY <1>5 DEF CancelBatch, IsQueue
    <3>3. s.queue = c
      BY <1>4, <2>2
    <3> HIDE DEF c
    <3> QED BY <1>5, <3>1, <3>2, <3>3 DEF InReach
  <2> QED BY <2>1, <2>2
<1>9. s.status \in {"running", "incomplete"}
  BY <1>4
<1>10. /\ DOMAIN s.pending \subseteq s.queue.allocated
       /\ \A a \in DOMAIN s.pending : s.pending[a] \in {"scheduled", "interrupted", "complete"}
       /\ Settled(s)
  <2>1. CASE x
    <3>1. DOMAIN s.pending = {}
      BY <1>4, <2>1
    <3> QED BY <3>1 DEF Settled
  <2>2. CASE ~x
    <3>1. s.queue = work.queue /\ s.pending = SettledActions(work)
      BY <1>4, <2>2
    <3>2. /\ DOMAIN s.pending = DOMAIN session.pending
          /\ \A a \in DOMAIN session.pending :
               s.pending[a] = IF session.pending[a] # "scheduled" THEN session.pending[a]
                              ELSE IF a \in work.cancelled THEN "interrupted"
                              ELSE IF a \in IdsOf(work.trace) THEN "complete"
                              ELSE "scheduled"
      BY <3>1 DEF SettledActions
    <3>3. /\ DOMAIN session.pending \subseteq session.queue.allocated
          /\ \A a \in DOMAIN session.pending :
               session.pending[a] \in {"scheduled", "interrupted", "complete"}
          /\ Settled(session)
      BY <1>1 DEF Retained
    <3>4. IdsOf(session.trace) \subseteq session.queue.allocated \ Pending(session.queue)
      BY <1>1 DEF Retained, AcceptedFor, Behind, IdsOf
    <3>5. DOMAIN s.pending \subseteq s.queue.allocated
      BY <1>5, <3>1, <3>2, <3>3 DEF Fates
    <3>6. ASSUME NEW a \in DOMAIN session.pending
          PROVE  /\ s.pending[a] \in {"scheduled", "interrupted", "complete"}
                 /\ s.pending[a] = "scheduled" <=> a \in Pending(s.queue)
                 /\ s.pending[a] = "complete" <=> a \in IdsOf(s.trace)
      <4>1. /\ a \in session.queue.allocated
            /\ session.pending[a] \in {"scheduled", "interrupted", "complete"}
            /\ session.pending[a] = "scheduled" <=> a \in Pending(session.queue)
            /\ session.pending[a] = "complete" <=> a \in IdsOf(session.trace)
        BY <3>3 DEF Settled
      <4>2. CASE a \notin Pending(session.queue)
        <5>1. a \notin Pending(work.queue) /\ a \notin IdsOf(work.trace)
          BY <1>5, <4>1, <4>2 DEF Fates
        <5>2. s.pending[a] = session.pending[a] /\ session.pending[a] # "scheduled"
          BY <3>2, <4>1, <4>2
        <5> QED BY <1>7, <3>1, <4>1, <5>1, <5>2
      <4>3. CASE a \in Pending(session.queue)
        <5>1. a \notin IdsOf(session.trace)
          BY <3>4, <4>3
        <5>2. /\ a \in Pending(work.queue) \cup work.cancelled \cup IdsOf(work.trace)
              /\ Pending(work.queue) \cap work.cancelled = {}
              /\ Pending(work.queue) \cap IdsOf(work.trace) = {}
              /\ work.cancelled \cap IdsOf(work.trace) = {}
          BY <1>5, <4>3 DEF Fates
        <5>3. s.pending[a] = IF a \in work.cancelled THEN "interrupted"
                             ELSE IF a \in IdsOf(work.trace) THEN "complete"
                             ELSE "scheduled"
          BY <3>2, <4>1, <4>3
        <5> QED BY <1>7, <3>1, <5>1, <5>2, <5>3
      <4> QED BY <4>2, <4>3
    <3> QED BY <3>2, <3>5, <3>6 DEF Settled
  <2> QED BY <2>1, <2>2
<1> QED
  BY <1>3, <1>4, <1>5, <1>6, <1>7, <1>8, <1>9, <1>10 DEF Retained

LEMMA SessionNext == SessionInv /\ [Next]_vars => SessionInv'
<1> SUFFICES ASSUME SessionInv, [Next]_vars
             PROVE  SessionInv'
  OBVIOUS
<1> USE DEF Stepping
<1>a. Retained(payload, session, published)
  BY DEF SessionInv
<1>b. (/\ Retained(payload', session', published')
       /\ work' # Idle => Underway(payload', session', work', staged', published'))
      => SessionInv'
  BY DEF SessionInv, Retained, Underway, AcceptedFor, Settled, Behind, Accounted, Fates,
         InReach, EffectsOf, QueueInv, IsQueue, Restorable, Pending, Earlier, RegistryInv,
         IsRegistry, Consistent, ReferencesResolve, OwnershipEnds, Active, CausesKept, IdsOf,
         ScenarioAccounted, WorldSound, SomeBuffExpired, PendingSound
<1>1. ASSUME NEW maxEvents \in 1..MaxBudget, NEW until \in Times, BeginStep(maxEvents, until)
      PROVE  SessionInv'
  BY <1>1, <1>a, <1>b, BeginUnderway DEF BeginStep
<1>2. ASSUME Stepping, NEW p \in Pending(work.queue), NEW C \in SUBSET Pending(work.queue),
             NEW B \in UsedBatches(p), Dispatch(p, C \ {p}, B)
      PROVE  SessionInv'
  <2>1. Underway(payload, session, work', staged', published)
    BY <1>2, DispatchUnderway
  <2>2. payload' = payload /\ session' = session /\ published' = published
    BY <1>2 DEF Dispatch
  <2> QED BY <1>a, <1>b, <2>1, <2>2
<1>3. CASE FinishStep
  <2>1. work' = Idle /\ payload' = payload
    BY <1>3 DEF FinishStep
  <2> QED BY <1>3, <1>b, <2>1, FinishRetained
<1>4. CASE FailStep
  BY <1>4, <1>a, <1>b DEF FailStep
<1>5. CASE UNCHANGED vars
  BY <1>5, <1>b DEF vars, SessionInv
<1> QED
  BY <1>1, <1>2, <1>3, <1>4, <1>5 DEF Next

-----------------------------------------------------------------------------
(* The starts. *)

(* The queue of a fresh run: the first policy input, at time 0. *)
LEMMA FreshInput ==
  ASSUME NEW q, q = FreshQueueWithInput
  PROVE  /\ QueueInv(q) /\ InReach(q) /\ q.next = 2 /\ q.clock = 0
         /\ Pending(q) = {RootEvent} /\ q.allocated = {RootEvent}
         /\ q.entries[RootEvent].time = 0 /\ q.entries[RootEvent].causes = {}
         /\ IsHead(q, RootEvent)
<1> DEFINE f == FreshQueue(0)
           B == Single(RootEvent, [time |-> 0, phase |-> "input", causes |-> {}])
<1>1. /\ QueueInv(f) /\ Pending(f) = {} /\ f.allocated = {} /\ f.clock = 0 /\ f.next = 1
  BY FreshQueueInv DEF FreshQueue, Pending
<1>2. /\ DOMAIN B = {RootEvent}
      /\ B[RootEvent] = [time |-> 0, phase |-> "input", causes |-> {}]
      /\ B = [i \in {RootEvent} |-> B[i]]
  BY DEF Single
<1>3. /\ RootEvent \in Ids /\ "input" \in Phases /\ DefaultRank \in [Phases -> 1..7]
  BY SessionAssumption DEF Phases, DefaultRank
<1>4. IsFiniteSet({RootEvent}) /\ Cardinality({RootEvent}) = 1
  BY FS_Singleton
<1>q. q = AllocateBatch(f, DefaultRank, B)
  BY DEF FreshQueueWithInput
<1> HIDE DEF f, B
<1>5. IsBatch(B) /\ IsFiniteSet(DOMAIN B)
  BY <1>2, <1>3, <1>4 DEF IsBatch, Draft
<1>6. BatchAccepted(f, DefaultRank, B)
  <2>1. FreshInBatch(f, B) /\ NotInPast(f, B) /\ OwnTimes(f, B)
    BY <1>1, <1>2 DEF FreshInBatch, NotInPast, OwnTimes
  <2>2. CausesInOrder(f, DefaultRank, B)
    BY <1>1, <1>2 DEF CausesInOrder
  <2>3. NumbersLeft(f, B)
    BY <1>1, <1>2, <1>4, SessionBounds, MaxSafeAssumption DEF NumbersLeft
  <2> QED BY <2>1, <2>2, <2>3 DEF BatchAccepted
<1>7. QueueInv(q)
  BY <1>q, <1>1, <1>3, <1>5, <1>6, AllocateInv
<1>8. Pending(q) = {RootEvent} /\ q.allocated = {RootEvent}
  BY <1>q, <1>1, <1>2, AllocateIds
<1>9. /\ \A i \in DOMAIN B : q.entries[i].time = B[i].time /\ q.entries[i].causes = B[i].causes
      /\ q.clock = f.clock
  BY <1>q, AllocateEntries
<1>10. q.next = 2
  BY <1>q, <1>1, <1>2, <1>4 DEF AllocateBatch
<1>11. q.entries[RootEvent].time = 0 /\ q.entries[RootEvent].causes = {} /\ q.clock = 0
  BY <1>1, <1>2, <1>9
<1>12. InReach(q)
  BY <1>8, <1>10, <1>11, SessionBounds, SessionAssumption, MaxSafeAssumption DEF InReach
<1>13. IsHead(q, RootEvent)
  BY <1>8 DEF IsHead
<1> QED BY <1>7, <1>8, <1>10, <1>11, <1>12, <1>13

LEMMA FreshRetained ==
  ASSUME payload \in Payloads, NEW world \in Worlds, session = FreshSession(world),
         SnapshotAccepted(session), published = << >>
  PROVE  Retained(payload, session, published)
<1>1. /\ session.queue = FreshQueueWithInput /\ session.registry = FreshRegistry(world)
      /\ session.trace = << >> /\ session.pending = << >> /\ session.status = "running"
  BY DEF FreshSession
<1>2. QueueInv(session.queue) /\ InReach(session.queue)
  BY <1>1, FreshInput
<1>3. AcceptedFor(payload, session)
  BY AcceptedIsAcceptedFor
<1>4. RegistryInv(session.registry)
  <2>1. DOMAIN world \in SUBSET EntityIds /\ world \in [DOMAIN world -> EntityState]
    BY TablesAssumption
  <2>2. Consistent(world)
    BY <1>1, <1>3 DEF AcceptedFor, WorldSound, FreshRegistry
  <2> QED BY <1>1, <2>1, <2>2, FreshInv
<1>5. DOMAIN session.pending = {}
  BY <1>1
<1>6. /\ << >> \in Seq(Ids) /\ session.trace \in Seq(Executed)
      /\ published = EffectsOf(payload, session.trace)
  BY <1>1, EmptySeq, EffectsEmpty
<1>7. payload \in [Ids -> Lifecycle \cup {NoLifecycle}]
  BY TablesAssumption
<1> QED BY <1>1, <1>2, <1>3, <1>4, <1>5, <1>6, <1>7 DEF Retained, Settled

LEMMA ResumedRetained ==
  ASSUME payload \in Payloads, payload[RootEvent] = NoLifecycle, NEW world \in Worlds,
         NEW due \in {t \in Times : t <= Horizon}, NEW time \in {t \in Times : t <= Horizon},
         NEW phase \in UsedPhases,
         session = ResumedSession(world, due,
                     [time |-> time, phase |-> phase, causes |-> {RootEvent}]),
         SnapshotAccepted(session), published = << >>
  PROVE  Retained(payload, session, published)
<1> DEFINE other == [time |-> time, phase |-> phase, causes |-> {RootEvent}]
           B == [i \in {NextEvent, OtherEvent} |->
                   IF i = NextEvent
                   THEN [time |-> due, phase |-> "windup", causes |-> {RootEvent}]
                   ELSE other]
<1> SUFFICES ASSUME NEW f, f = FreshQueueWithInput, NEW a, a = Pop(f, RootEvent)
             PROVE  Retained(payload, session, published)
  OBVIOUS
<1>1. /\ session.queue = AllocateBatch(a, DefaultRank, B)
      /\ session.registry = FreshRegistry(world)
      /\ session.trace = <<TraceEntry(f, RootEvent)>>
      /\ session.pending = [x \in {NextEvent} |-> "scheduled"]
      /\ session.status = "running"
  BY DEF ResumedSession
<1>2. /\ QueueInv(f) /\ f.next = 2 /\ f.clock = 0
      /\ Pending(f) = {RootEvent} /\ f.allocated = {RootEvent}
      /\ f.entries[RootEvent].time = 0 /\ f.entries[RootEvent].causes = {}
      /\ IsHead(f, RootEvent)
  BY FreshInput
<1>3. /\ QueueInv(a) /\ Pending(a) = {} /\ a.allocated = {RootEvent}
      /\ a.clock = 0 /\ a.next = 2
  <2>1. QueueInv(a) /\ Pending(a) = {} /\ a.allocated = {RootEvent}
    BY <1>2, PopInv, PopIds
  <2>2. a.clock = 0 /\ a.next = 2
    BY <1>2 DEF Pop
  <2> QED BY <2>1, <2>2
<1>4. /\ DOMAIN B = {NextEvent, OtherEvent}
      /\ B[NextEvent] = [time |-> due, phase |-> "windup", causes |-> {RootEvent}]
      /\ B[OtherEvent] = other
      /\ B = [i \in {NextEvent, OtherEvent} |-> B[i]]
  BY SessionAssumption
<1>5. /\ RootEvent \in Ids /\ NextEvent \in Ids /\ OtherEvent \in Ids
      /\ RootEvent # NextEvent /\ RootEvent # OtherEvent
      /\ due \in Nat /\ time \in Nat /\ phase \in Phases /\ "windup" \in Phases
      /\ due <= Horizon /\ time <= Horizon
      /\ DefaultRank \in [Phases -> 1..7]
  <2>1. "windup" \in Phases /\ DefaultRank \in [Phases -> 1..7]
    BY DEF Phases, DefaultRank
  <2>2. due \in Nat /\ time \in Nat /\ phase \in Phases
        /\ due <= Horizon /\ time <= Horizon
    BY SessionAssumption
  <2>3. /\ RootEvent \in Ids /\ NextEvent \in Ids /\ OtherEvent \in Ids
        /\ RootEvent # NextEvent /\ RootEvent # OtherEvent
    BY SessionAssumption
  <2> QED BY <2>1, <2>2, <2>3
<1>6. IsFiniteSet({NextEvent, OtherEvent}) /\ Cardinality({NextEvent, OtherEvent}) \in Nat
      /\ Cardinality({NextEvent, OtherEvent}) <= 2
  <2>1. IsFiniteSet({NextEvent}) /\ Cardinality({NextEvent}) = 1
    BY FS_Singleton
  <2>2. /\ IsFiniteSet({NextEvent} \cup {OtherEvent})
        /\ \/ Cardinality({NextEvent} \cup {OtherEvent}) = Cardinality({NextEvent})
           \/ Cardinality({NextEvent} \cup {OtherEvent}) = Cardinality({NextEvent}) + 1
    BY <2>1, FS_AddElement
  <2>3. {NextEvent} \cup {OtherEvent} = {NextEvent, OtherEvent}
    OBVIOUS
  <2> DEFINE n == Cardinality({NextEvent, OtherEvent})
  <2>4. n = 1 \/ n = 1 + 1
    BY <2>1, <2>2, <2>3, Zenon
  <2>5. IsFiniteSet({NextEvent, OtherEvent})
    BY <2>2, <2>3
  <2> HIDE DEF n
  <2>6. n \in Nat /\ n <= 2
    BY <2>4
  <2> QED BY <2>5, <2>6 DEF n
<1> HIDE DEF B
<1>7. IsBatch(B) /\ IsFiniteSet(DOMAIN B)
  BY <1>4, <1>5, <1>6 DEF IsBatch, Draft
<1>8. BatchAccepted(a, DefaultRank, B)
  <2>1. FreshInBatch(a, B) /\ NotInPast(a, B) /\ OwnTimes(a, B)
    BY <1>3, <1>4, <1>5 DEF FreshInBatch, NotInPast, OwnTimes
  <2>2. CausesInOrder(a, DefaultRank, B)
    BY <1>3, <1>4, <1>5 DEF CausesInOrder
  <2>3. NumbersLeft(a, B)
    BY <1>3, <1>4, <1>6, SessionBounds, MaxSafeAssumption DEF NumbersLeft
  <2> QED BY <2>1, <2>2, <2>3 DEF BatchAccepted
<1> SUFFICES ASSUME NEW q, q = AllocateBatch(a, DefaultRank, B)
             PROVE  Retained(payload, session, published)
  OBVIOUS
<1>q. session.queue = q
  BY <1>1
<1>9. /\ QueueInv(q) /\ Pending(q) = {NextEvent, OtherEvent}
      /\ q.allocated = {RootEvent, NextEvent, OtherEvent}
  <2>1. QueueInv(q)
    BY <1>3, <1>5, <1>7, <1>8, AllocateInv
  <2>2. Pending(q) = Pending(a) \cup DOMAIN B /\ q.allocated = a.allocated \cup DOMAIN B
    BY AllocateIds
  <2> QED BY <1>3, <1>4, <2>1, <2>2
<1>10. InReach(q)
  <2>1. \A i \in DOMAIN B : q.entries[i].time = B[i].time
    BY AllocateEntries
  <2>2. q.next = 2 + Cardinality({NextEvent, OtherEvent})
    BY <1>3, <1>4 DEF AllocateBatch
  <2> DEFINE n == Cardinality({NextEvent, OtherEvent})
  <2>n. n \in Nat /\ n <= 2 /\ q.next = 2 + n
    BY <1>6, <2>2
  <2> HIDE DEF n
  <2>3. q.next <= MaxSafeInteger
    BY <2>n, SessionBounds, MaxSafeAssumption
  <2>4. B[NextEvent].time = due /\ B[OtherEvent].time = time
    BY <1>4
  <2>5. ASSUME NEW p \in Pending(q) PROVE q.entries[p].time <= Horizon
    <3>1. p \in {NextEvent, OtherEvent}
      BY <1>9
    <3>2. q.entries[p].time = B[p].time
      BY <1>4, <2>1, <3>1
    <3>3. B[p].time = due \/ B[p].time = time
      BY <2>4, <3>1
    <3> QED BY <1>5, <3>2, <3>3
  <2> QED BY <2>3, <2>5 DEF InReach
<1>11. AcceptedFor(payload, session)
  BY AcceptedIsAcceptedFor
<1>12. RegistryInv(session.registry)
  <2>1. DOMAIN world \in SUBSET EntityIds /\ world \in [DOMAIN world -> EntityState]
    BY TablesAssumption
  <2>2. Consistent(world)
    <3>1. FreshRegistry(world).entities = world
      BY DEF FreshRegistry
    <3> QED BY <1>1, <1>11, <3>1 DEF AcceptedFor, WorldSound
  <2> QED BY <1>1, <2>1, <2>2, FreshInv
<1> SUFFICES ASSUME NEW e, e = TraceEntry(f, RootEvent)
             PROVE  Retained(payload, session, published)
  OBVIOUS
<1>13. e \in Executed /\ e.id = RootEvent
  <2>1. f.entries[RootEvent] \in Event
    BY <1>2 DEF QueueInv, IsQueue
  <2> QED BY <1>5, <2>1 DEF TraceEntry, Event, Executed
<1>14. /\ session.trace \in Seq(Executed) /\ IdsOf(session.trace) = {RootEvent}
       /\ EffectsOf(payload, session.trace) = << >>
  <2>1. session.trace = <<e>>
    BY <1>1
  <2>2. <<e>> = Append(<< >>, e) /\ <<e>> \in Seq(Executed) /\ IdsOf(<<e>>) = {RootEvent}
    BY <1>13, TraceOfOne
  <2>3. EffectsOf(payload, Append(<< >>, e)) = EffectsOf(payload, << >>)
    <3>1. << >> \in Seq(Executed)
      BY EmptySeq
    <3> QED BY <1>13, <3>1, EffectsAppend
  <2> QED BY <2>1, <2>2, <2>3, EffectsEmpty
<1>15. /\ DOMAIN session.pending = {NextEvent} /\ session.pending[NextEvent] = "scheduled"
  BY <1>1
<1>16. Settled(session)
  BY <1>5, <1>q, <1>9, <1>14, <1>15 DEF Settled
<1>17. /\ payload \in [Ids -> Lifecycle \cup {NoLifecycle}]
       /\ published \in Seq(Ids)
  BY TablesAssumption, EmptySeq
<1> QED
  BY <1>1, <1>q, <1>9, <1>10, <1>11, <1>12, <1>14, <1>15, <1>16, <1>17 DEF Retained

LEMMA SessionStart == Init => SessionInv
<1> SUFFICES ASSUME Init
             PROVE  SessionInv
  OBVIOUS
<1>1. Retained(payload, session, published)
  BY FreshRetained, ResumedRetained DEF Init
<1> QED BY <1>1 DEF SessionInv, Init, Stepping

LEMMA AlwaysSessionInv == Spec => []SessionInv
BY SessionStart, SessionNext, PTL DEF Spec

-----------------------------------------------------------------------------
(* The theorems. *)

(* Every field of the session and of a step in progress keeps its type. *)
THEOREM SessionTyped == Spec => []TypeOK
<1>1. SessionInv => TypeOK
  <2> SUFFICES ASSUME SessionInv
               PROVE  TypeOK
    OBVIOUS
  <2>1. \A s \in Seq(Executed) : IsTrace(s)
    <3>1. \A s \in Seq(Executed) : \A n \in DOMAIN s : s[n] \in Executed
      BY ElementOfSeq, LenProperties
    <3> QED BY <3>1 DEF IsTrace, Executed
  <2>2. /\ payload \in [Ids -> Lifecycle \cup {NoLifecycle}]
        /\ IsQueue(session.queue) /\ IsRegistry(session.registry) /\ IsTrace(session.trace)
        /\ DOMAIN session.pending \subseteq Ids
        /\ \A a \in DOMAIN session.pending :
             session.pending[a] \in {"scheduled", "interrupted", "complete"}
        /\ session.status \in {"running", "incomplete"}
    BY <2>1 DEF SessionInv, Retained, QueueInv, RegistryInv, IsQueue
  <2>3. Stepping => /\ IsQueue(work.queue) /\ IsRegistry(work.registry)
                    /\ IsTrace(work.trace)
                    /\ work.cancelled \subseteq Ids /\ work.left \in 0..MaxBudget
    BY <2>1 DEF SessionInv, Underway, QueueInv, RegistryInv
  <2> QED BY <2>2, <2>3 DEF TypeOK
<1> QED BY <1>1, AlwaysSessionInv, PTL

(* The port has published exactly the transitions of the retained trace,   *)
(* each once and in order, whichever steps failed and at whatever point.   *)
THEOREM AlwaysPublishedOnce == Spec => []PublishedOnce
<1>1. Effects(session.trace) = EffectsOf(payload, session.trace)
  BY DEF Effects, EffectsOf, IsLifecycle
<1>2. SessionInv => PublishedOnce
  BY <1>1 DEF SessionInv, Retained, PublishedOnce
<1> QED BY <1>2, AlwaysSessionInv, PTL

(* An action that waited is complete if and only if its continuation ran,  *)
(* and nothing waits for an event that is gone.                            *)
THEOREM OutcomesMatch == Spec => []PendingOutcome
<1>1. SessionInv => PendingOutcome
  BY DEF SessionInv, Retained, Settled, PendingOutcome
<1> QED BY <1>1, AlwaysSessionInv, PTL

(* A step with no commands, and a plain event: what it leaves is accepted. *)
LEMMA PlainAccepted ==
  ASSUME SessionInv, session.status = "running",
         NEW p \in Pending(session.queue), IsHead(session.queue, p),
         payload[p] = NoLifecycle,
         ~SomeBuffExpired(session.registry, session.queue.entries[p].time)
  PROVE  /\ session.queue.entries[p].time <= Horizon
         /\ SnapshotAccepted(AfterPlain(p))
<1> SUFFICES ASSUME NEW q, q = session.queue, NEW e, e = TraceEntry(q, p),
                    NEW r, r = DispatchEvent(q, p, {}, << >>),
                    NEW s, s = AfterPlain(p)
             PROVE  /\ session.queue.entries[p].time <= Horizon
                    /\ AcceptedFor(payload, s)
  BY AcceptedIsAcceptedFor
<1>1. /\ Retained(payload, session, published) /\ AcceptedFor(payload, session)
      /\ QueueInv(q) /\ IsQueue(q) /\ InReach(q)
      /\ session.trace \in Seq(Executed)
      /\ Behind(q, session.trace) /\ Settled(session)
  BY DEF SessionInv, Retained, AcceptedFor, QueueInv
<1>2. IsBatch(<< >>) /\ IsFiniteSet(DOMAIN << >>) /\ DOMAIN << >> = {}
      /\ Cardinality(DOMAIN << >>) = 0
  <2>1. DOMAIN << >> = {} /\ << >> = [i \in {} |-> << >>[i]]
    OBVIOUS
  <2>2. IsFiniteSet({}) /\ Cardinality({}) = 0
    BY FS_EmptySet
  <2> QED BY <2>1, <2>2 DEF IsBatch
<1>3. DispatchAccepted(q, p, {}, << >>)
  <2> SUFFICES ASSUME NEW h, h = Pop(q, p), NEW c, c = CancelBatch(h, {})
               PROVE  /\ CancelAccepted(h, {}) /\ BatchAccepted(c, DefaultRank, << >>)
    BY <1>2 DEF DispatchAccepted
  <2>1. c.next = q.next
    <3>1. IsQueue(h) /\ h.next = q.next
      BY <1>1, PopInv DEF QueueInv, Pop
    <3> QED BY <3>1 DEF CancelBatch, IsQueue
  <2>2. NumbersLeft(c, << >>)
    BY <1>1, <1>2, <2>1 DEF NumbersLeft, InReach, IsQueue
  <2>3. BatchAccepted(c, DefaultRank, << >>)
    BY <1>2, <2>2
       DEF BatchAccepted, FreshInBatch, NotInPast, OwnTimes, CausesInOrder
  <2> QED BY <2>3 DEF CancelAccepted
<1>4. /\ QueueInv(r) /\ Pending(r) = Pending(q) \ {p}
      /\ \A o \in Pending(q) \ {p} : r.entries[o] = q.entries[o]
      /\ r.clock = q.entries[p].time
  <2>1. /\ QueueInv(r) /\ Pending(r) = ((Pending(q) \ {p}) \ {}) \cup DOMAIN << >>
        /\ \A o \in (Pending(q) \ {p}) \ {} : r.entries[o] = q.entries[o]
        /\ r.clock = q.entries[p].time
    BY <1>1, <1>2, <1>3, DispatchEffect
  <2> QED BY <1>2, <2>1
<1>5. /\ s.queue = r /\ s.registry = session.registry /\ s.scenario = session.scenario
      /\ s.trace = session.trace \o <<e>> /\ s.status = "running"
      /\ s.pending = [a \in DOMAIN session.pending |->
                        IF session.pending[a] # "scheduled" THEN session.pending[a]
                        ELSE IF a \in {} THEN "interrupted"
                        ELSE IF a \in IdsOf(<<e>>) THEN "complete"
                        ELSE "scheduled"]
  BY DEF AfterPlain, NextSession, SettledActions
<1>6. e \in Executed /\ e.id = p /\ e.causes = q.entries[p].causes
      /\ Behind(r, Append(session.trace, e))
  <2>1. e \in Executed /\ Behind(r, Append(session.trace, e))
    BY <1>1, <1>2, <1>3, BehindDispatch
  <2> QED BY <2>1 DEF TraceEntry
<1>7. s.trace = Append(session.trace, e)
  BY <1>1, <1>5, <1>6, AppendIsConcat
<1>8. /\ Len(session.trace) \in Nat
      /\ DOMAIN session.trace = 1..Len(session.trace)
      /\ DOMAIN s.trace = 1..(Len(session.trace) + 1)
      /\ \A n \in DOMAIN session.trace : s.trace[n] = session.trace[n]
      /\ s.trace[Len(session.trace) + 1] = e
      /\ IdsOf(s.trace) = IdsOf(session.trace) \cup {p}
  <2>1. session.trace \in Seq(Executed) /\ e \in Executed /\ e.id = p
    BY <1>1, <1>6
  <2>2. IdsOf(s.trace) = IdsOf(session.trace) \cup {p}
    BY <1>7, <2>1, TraceAppendIds
  <2> QED BY <1>7, <2>1, <2>2, LenProperties, AppendProperties
<1>9. Restorable(s.queue) /\ Behind(s.queue, s.trace)
  BY <1>4, <1>5, <1>6, <1>7 DEF QueueInv
<1>10. s.queue.clock <= Horizon /\ q.entries[p].time <= Horizon
  BY <1>1, <1>4, <1>5 DEF InReach
<1>11. CausesKept(s)
  <2>0. CausesKept(session)
    BY <1>1 DEF AcceptedFor
  <2>1. e.causes \subseteq IdsOf(session.trace)
    <3> SUFFICES ASSUME NEW c \in e.causes
                 PROVE  c \in IdsOf(session.trace)
      OBVIOUS
    <3>1. c \in IdsOf(session.trace) \cup Pending(q)
      BY <1>6, <2>0 DEF CausesKept
    <3>2. c \notin Pending(q)
      <4> SUFFICES ASSUME c \in Pending(q) PROVE FALSE
        OBVIOUS
      <4>1. Earlier(q.entries[c], q.entries[p])
        BY <1>1, <1>6 DEF QueueInv, Restorable
      <4>2. c = p \/ Earlier(q.entries[p], q.entries[c])
        BY DEF IsHead
      <4>3. q.entries[c] \in Event /\ q.entries[p] \in Event
        BY <1>1 DEF IsQueue
      <4>4. /\ q.entries[c].time \in Nat /\ q.entries[c].seq \in Nat
            /\ q.entries[p].time \in Nat /\ q.entries[p].seq \in Nat
        BY <4>3 DEF Event
      <4> QED BY <4>1, <4>2, <4>4 DEF Earlier
    <3> QED BY <3>1, <3>2
  <2>2. ASSUME NEW n \in DOMAIN s.trace, NEW c \in s.trace[n].causes
        PROVE  \E m \in 1..(n - 1) : s.trace[m].id = c
    <3>1. CASE n \in DOMAIN session.trace
      <4>1. PICK m \in 1..(n - 1) : session.trace[m].id = c
        BY <1>8, <2>0, <2>2, <3>1 DEF CausesKept
      <4>2. m \in DOMAIN session.trace
        BY <1>8, <3>1
      <4> QED BY <1>8, <4>1, <4>2
    <3>2. CASE n = Len(session.trace) + 1
      <4>1. PICK m \in DOMAIN session.trace : session.trace[m].id = c
        BY <1>8, <2>1, <2>2, <3>2 DEF IdsOf
      <4>2. m \in 1..(n - 1)
        BY <1>8, <3>2
      <4> QED BY <1>8, <4>1, <4>2
    <3> QED BY <1>8, <3>1, <3>2
  <2>3. ASSUME NEW o \in Pending(r)
        PROVE  r.entries[o].causes \subseteq IdsOf(s.trace) \cup Pending(r)
    <3>1. r.entries[o] = q.entries[o] /\ o \in Pending(q)
      BY <1>4
    <3>2. q.entries[o].causes \subseteq IdsOf(session.trace) \cup Pending(q)
      BY <2>0, <3>1 DEF CausesKept
    <3> QED BY <1>4, <1>8, <3>1, <3>2
  <2> QED BY <1>5, <2>2, <2>3 DEF CausesKept
<1>12. Accounted(payload, s.trace, s.registry)
  BY <1>1, <1>5, <1>8 DEF AcceptedFor, Accounted
<1>13. ScenarioAccounted(s)
  BY <1>1, <1>5 DEF AcceptedFor, ScenarioAccounted
<1>14. WorldSound(s)
  BY <1>1, <1>4, <1>5 DEF AcceptedFor, WorldSound
<1>15. PendingSound(s)
  <2> SUFFICES ASSUME NEW a \in DOMAIN s.pending, s.pending[a] = "scheduled"
               PROVE  a \in Pending(r)
    BY <1>5 DEF PendingSound
  <2>1. a \in DOMAIN session.pending /\ session.pending[a] = "scheduled" /\ a \notin IdsOf(<<e>>)
    BY <1>5
  <2>2. a \in Pending(q)
    BY <1>1, <2>1 DEF Settled
  <2>3. IdsOf(<<e>>) = {p}
    <3>1. e \in Executed /\ e.id = p
      BY <1>6
    <3> QED BY <3>1, TraceOfOne
  <2> QED BY <1>4, <2>1, <2>2, <2>3
<1> QED
  BY <1>5, <1>9, <1>10, <1>11, <1>12, <1>13, <1>14, <1>15 DEF AcceptedFor

(* The schema's checks of the frontier, of the order of the trace and of   *)
(* the ledger never refuse a step, and a plain event at the head of a      *)
(* running session's queue can always be got past.                         *)
THEOREM SessionNeverWedged == Spec => []NeverWedged
<1>1. SessionInv => NeverWedged
  <2> SUFFICES ASSUME SessionInv
               PROVE  NeverWedged
    OBVIOUS
  <2>1. ASSUME Stepping, NEW s, s = NextSession(work, FALSE)
        PROVE  FrontierHeld(s) /\ LedgerAgrees(s) /\ ScenarioAccounted(s)
    <3>1. Underway(payload, session, work, staged, published)
      BY <2>1 DEF SessionInv
    <3>2. /\ s.queue = work.queue /\ s.registry = work.registry
          /\ s.scenario = session.scenario /\ s.trace = session.trace \o work.trace
      BY <2>1 DEF NextSession
    <3>3. FrontierHeld(s)
      BY <3>1, <3>2 DEF Underway, QueueInv, Behind, FrontierHeld
    <3>4. LedgerAgrees(s)
      BY <3>1, <3>2 DEF Underway, LedgerAgrees, Accounted
    <3>5. ScenarioAccounted(s)
      BY <3>1, <3>2 DEF Underway, ScenarioAccounted
    <3> QED BY <3>3, <3>4, <3>5
  <2> QED BY <2>1, PlainAccepted DEF NeverWedged
<1> QED BY <1>1, AlwaysSessionInv, PTL
=============================================================================
