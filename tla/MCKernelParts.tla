--------------------------- MODULE MCKernelParts ---------------------------
(* The parts of the engine that stand alone, one of them in each behaviour:  *)
(* while a part runs, the others rest in one of their initial states.        *)
(* Queue, and timers over it: four ids, two times.  Registry: three ids;     *)
(* entities live or lie dead, are owned by nobody or by one of two, and name *)
(* at most one other.                                                        *)
(* Batches: two transitions, at most three of them in a batch.               *)
EXTENDS TimerPort, EntityRegistry, LifecycleBatch

CONSTANTS hero, pet, ward, spawn, death

MCIds == 1..4
MCTimes == 0..1
MCUsedPhases == {"impact", "lifecycle"}
ReversedRank == [p \in Phases |-> 8 - DefaultRank[p]]
MCRankPolicies == {DefaultRank, ReversedRank}

MCForms ==
  {[alive |-> a, owner |-> o, cites |-> c, expires |-> Never] :
     a \in BOOLEAN, o \in {NoEntity, hero, pet}, c \in {{}, {hero}, {pet}}}

VARIABLE part   (* the part that runs: "queue", "timers", "registry" or "batches" *)

partsVars == <<part, vars, portVars, registry, batchVars>>

InitParts ==
  /\ part \in {"queue", "timers", "registry", "batches"}
  /\ IF part \in {"queue", "timers"} THEN Init ELSE queue = FreshQueue(0) /\ executed = {} /\ cancelled = {}
  /\ PortInit
  /\ IF part = "registry" THEN RegistryInit
     ELSE registry = FreshRegistry([e \in {} |-> e])
  /\ BatchInit

NextParts ==
  \/ part = "queue" /\ Next /\ UNCHANGED <<part, portVars, registry, batchVars>>
  \/ part = "timers" /\ PortNext /\ UNCHANGED <<part, registry, batchVars>>
  \/ part = "registry" /\ RegistryNext /\ UNCHANGED <<part, vars, portVars, batchVars>>
  \/ part = "batches" /\ BatchNext /\ UNCHANGED <<part, vars, portVars, registry>>

SpecParts == InitParts /\ [][NextParts]_partsVars
===========================================================================
