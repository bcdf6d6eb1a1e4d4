----------------------------- MODULE RegistryOps -----------------------------
(***************************************************************************)
(* The value of an entity registry and its operations                      *)
(* (src/domain/engine/kernel/entities.ts), written like QueueOps: a record *)
(* and, for every method, the condition under which it does not throw and  *)
(* the registry it leaves.                                                 *)
(*                                                                         *)
(* Of an entity's state the registry reads four things: whether it lives,  *)
(* who owns it, which entities it names as the source of a buff or of a    *)
(* copied ability (cites; the code treats both alike) and when its first   *)
(* buff runs out.  Health, stats, items and positions are not kept.        *)
(***************************************************************************)
EXTENDS Integers

CONSTANTS
  EntityIds,  (* entity ids                                  *)
  NoEntity,   (* null: no owner, or no replacement           *)
  Never       (* expiresAtMs = null                          *)

ASSUME NoEntityAssumption == NoEntity \notin EntityIds
ASSUME NeverAssumption == Never \notin Nat

EntityState ==
  [alive : BOOLEAN, owner : EntityIds \cup {NoEntity}, cites : SUBSET EntityIds,
   expires : Nat \cup {Never}]

Transitions == {"spawn", "despawn", "death", "revive", "transform"}

(* A LifecycleTransition. *)
Lifecycle ==
  [entity : EntityIds, transition : Transitions, replacement : EntityState \cup {NoEntity}]

Active(r) == DOMAIN r.entities

IsRegistry(r) ==
  /\ r = [entities |-> r.entities, revisions |-> r.revisions, retired |-> r.retired]
  /\ r.entities = [e \in Active(r) |-> r.entities[e]]
  /\ Active(r) \subseteq EntityIds
  /\ \A e \in Active(r) : r.entities[e] \in EntityState
  /\ r.revisions \in [Active(r) -> Nat \ {0}]
  /\ r.retired \subseteq EntityIds

(* The constructor without a ledger: the entities of a fresh scenario. *)
FreshRegistry(world) ==
  [entities |-> world, revisions |-> [e \in DOMAIN world |-> 1], retired |-> {}]

-----------------------------------------------------------------------------
(* assertReferences: every reference resolves, and following the owners    *)
(* from any entity ends.                                                   *)
ReferencesResolve(world) ==
  \A e \in DOMAIN world :
    /\ world[e].owner \in DOMAIN world \cup {NoEntity}
    /\ world[e].cites \subseteq DOMAIN world

OwnershipEnds(world) ==
  \A S \in SUBSET DOMAIN world : S # {} => \E e \in S : world[e].owner \notin S

Consistent(world) == ReferencesResolve(world) /\ OwnershipEnds(world)

With(world, e, state) ==
  [x \in DOMAIN world \cup {e} |-> IF x = e THEN state ELSE world[x]]

Without(world, e) == [x \in DOMAIN world \ {e} |-> world[x]]

NeverAllocated(r, e) == e \notin Active(r) /\ e \notin r.retired

SpawnAccepted(r, e, state) ==
  NeverAllocated(r, e) /\ Consistent(With(r.entities, e, state))

Spawn(r, e, state) ==
  [entities  |-> With(r.entities, e, state),
   revisions |-> [x \in Active(r) \cup {e} |-> IF x = e THEN 1 ELSE r.revisions[x]],
   retired   |-> r.retired]

DespawnAccepted_OwnersOnly(r, e) ==
  /\ e \in Active(r)
  /\ \A o \in Active(r) \ {e} : r.entities[o].owner # e

(* Nothing else that is active may name e. *)
DespawnAccepted(r, e) ==
  /\ e \in Active(r)
  /\ \A o \in Active(r) \ {e} : r.entities[o].owner # e /\ e \notin r.entities[o].cites

Despawn(r, e) ==
  [entities  |-> Without(r.entities, e),
   revisions |-> Without(r.revisions, e),
   retired   |-> r.retired \cup {e}]

ReplaceState_SameRevision(r, e, state) ==
  [r EXCEPT !.entities = With(r.entities, e, state)]

(* Death, revival and transformation keep the identity. *)
ReplaceState(r, e, state) ==
  [entities  |-> With(r.entities, e, state),
   revisions |-> [r.revisions EXCEPT ![e] = @ + 1],
   retired   |-> r.retired]

-----------------------------------------------------------------------------
(* assertLifecycleResolution: the transition fits the entity it is about,  *)
FitsEntity(world, t) ==
  CASE t.transition = "spawn" ->
         t.entity \notin DOMAIN world /\ t.replacement # NoEntity
    [] t.transition = "despawn" ->
         t.entity \in DOMAIN world /\ t.replacement = NoEntity
    [] t.transition = "death" ->
         /\ t.entity \in DOMAIN world /\ t.replacement # NoEntity
         /\ world[t.entity].alive /\ ~t.replacement.alive
    [] t.transition = "revive" ->
         /\ t.entity \in DOMAIN world /\ t.replacement # NoEntity
         /\ ~world[t.entity].alive /\ t.replacement.alive
    [] OTHER ->
         /\ t.entity \in DOMAIN world /\ t.replacement # NoEntity
         /\ world[t.entity].alive = t.replacement.alive

(* and the world it would lead to is consistent. *)
Resulting(world, t) ==
  IF t.replacement = NoEntity THEN Without(world, t.entity)
                              ELSE With(world, t.entity, t.replacement)

LifecycleAccepted(world, t) == FitsEntity(world, t) /\ Consistent(Resulting(world, t))

(* apply(transition) *)
ApplyAccepted(r, t) ==
  /\ LifecycleAccepted(r.entities, t)
  /\ t.transition = "spawn" => SpawnAccepted(r, t.entity, t.replacement)
  /\ t.transition = "despawn" => DespawnAccepted(r, t.entity)

Apply(r, t) ==
  CASE t.transition = "spawn"   -> Spawn(r, t.entity, t.replacement)
    [] t.transition = "despawn" -> Despawn(r, t.entity)
    [] OTHER                    -> ReplaceState(r, t.entity, t.replacement)

(* firstExpiredBuffAt(timeMs) # null *)
SomeBuffExpired(r, time) ==
  \E e \in Active(r) : r.entities[e].expires # Never /\ r.entities[e].expires < time
=============================================================================
