--------------------------- MODULE EntityRegistry ---------------------------
(***************************************************************************)
(* One EntityRegistry object under any sequence of accepted calls          *)
(* (src/domain/engine/kernel/entities.ts).  A call that throws undoes what *)
(* it did and is no step here.                                             *)
(***************************************************************************)
EXTENDS RegistryOps

CONSTANTS
  Forms,        (* the entity states the callers use        *)
  MaxRevision   (* bound: the largest revision explored     *)

ASSUME FormsAssumption == Forms \subseteq EntityState
ASSUME MaxRevisionAssumption == MaxRevision \in Nat \ {0}

VARIABLE registry

RegistryTypeOK == IsRegistry(registry)

(* The worlds a scenario may start from, at least one entity in each. *)
RegistryInit ==
  \E A \in (SUBSET EntityIds) \ {{}} : \E world \in [A -> Forms] :
    Consistent(world) /\ registry = FreshRegistry(world)

(* spawn(entity) *)
SpawnEntity(e, state) ==
  SpawnAccepted(registry, e, state) /\ registry' = Spawn(registry, e, state)

(* despawn(entityId) *)
DespawnEntity(e) ==
  DespawnAccepted(registry, e) /\ registry' = Despawn(registry, e)

(* apply(transition) *)
ApplyTransition(t) ==
  /\ ApplyAccepted(registry, t)
  /\ t.entity \in Active(registry) => registry.revisions[t.entity] < MaxRevision
  /\ registry' = Apply(registry, t)

UsedTransitions ==
  [entity : EntityIds, transition : Transitions, replacement : Forms \cup {NoEntity}]

RegistryNext ==
  \/ \E e \in EntityIds, state \in Forms : SpawnEntity(e, state)
  \/ \E e \in EntityIds : DespawnEntity(e)
  \/ \E t \in UsedTransitions : ApplyTransition(t)

RegistrySpec == RegistryInit /\ [][RegistryNext]_registry

-----------------------------------------------------------------------------
(* The constructor accepts every reachable registry again: no reference    *)
(* dangles, nobody owns himself through others, no retired id is active.   *)
(* A session rebuilds its registry on every step, so one state that fails  *)
(* this would end the session.                                             *)
Rebuildable ==
  Consistent(registry.entities) /\ Active(registry) \cap registry.retired = {}

(* A pair of id and revision names one state for ever: a state changes     *)
(* only together with its revision, and an id that was given up does not   *)
(* come back with its revisions counted from 1 again.                      *)
StateVersioned ==
  [][/\ \A e \in Active(registry) :
          IF e \in Active(registry')
          THEN \/ /\ registry'.revisions[e] = registry.revisions[e]
                  /\ registry'.entities[e] = registry.entities[e]
               \/ registry'.revisions[e] > registry.revisions[e]
          ELSE e \in registry'.retired
     /\ \A e \in registry.retired :
          e \in registry'.retired /\ e \notin Active(registry')]_registry
=============================================================================
