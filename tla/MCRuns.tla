------------------------------- MODULE MCRuns -------------------------------
(* Runs that work within limits and may fail at every call out, one of two  *)
(* kinds in each behaviour: a kernel session, and ingest runs.               *)
(* Session: a hero who may have a pet; four event ids.  Event 3 spawns the  *)
(* pet, kills it or makes it go, event 4 does something else to it.          *)
(* Ingest: any two of the three matches but the first two meet one of the    *)
(* byte ceilings; the first two together meet that of accepted matches.      *)
EXTENDS KernelSession, IngestRuns, TLC

CONSTANTS hero, pet, r1, r2

MCEntityIds == {hero, pet}

State(alive, owner, expires) ==
  [alive |-> alive, owner |-> owner, cites |-> {}, expires |-> expires]

Alone == [e \in {hero} |-> State(TRUE, NoEntity, Never)]
WithPet == [e \in {hero, pet} |->
              IF e = hero THEN State(TRUE, NoEntity, Never) ELSE State(TRUE, hero, Never)]
MCWorlds == {Alone, WithPet}

SpawnPet == [entity |-> pet, transition |-> "spawn", replacement |-> State(TRUE, hero, 0)]
KillPet == [entity |-> pet, transition |-> "death", replacement |-> State(FALSE, hero, Never)]
DropPet == [entity |-> pet, transition |-> "despawn", replacement |-> NoEntity]
DropHero == [entity |-> hero, transition |-> "despawn", replacement |-> NoEntity]

Carries(i, t, j, u) ==
  [x \in Ids |-> IF x = i THEN t ELSE IF x = j THEN u ELSE NoLifecycle]

MCPayloads == {Carries(3, SpawnPet, 4, DropPet), Carries(3, KillPet, 4, DropPet),
               Carries(3, SpawnPet, 4, DropHero)}

MCBytes == [m \in Offered |-> CASE m = "m1" -> 1 [] m = "m2" -> 2 [] OTHER -> 3]
MCPgBytes == [m \in Offered |-> IF m = "m3" THEN 2 ELSE 1]

Alike == Permutations({r1, r2})

VARIABLE part   (* the part that runs: "session" or "ingest" *)

limitedVars == <<part, vars, runVars>>

InitLimited ==
  /\ part \in {"session", "ingest"}
  /\ IF part = "session" THEN Init
     ELSE /\ payload = CHOOSE p \in Payloads : TRUE
          /\ session = FreshSession(CHOOSE w \in Worlds : TRUE)
          /\ work = Idle /\ staged = <<>> /\ published = <<>>
  /\ RunsInit

NextLimited ==
  \/ part = "session" /\ Next /\ UNCHANGED <<part, runVars>>
  \/ part = "ingest" /\ RunsNext /\ UNCHANGED <<part, vars>>

SpecLimited == InitLimited /\ [][NextLimited]_limitedVars
=============================================================================
