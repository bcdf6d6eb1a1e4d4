--------------------------- MODULE CausalSchedule ---------------------------
(***************************************************************************)
(* What the event queue promises, without sequence numbers, phases or the  *)
(* ledger: events wait for their time and for their causes, time does not  *)
(* go back, an id is used once, and nobody withdraws an event another      *)
(* waiting event cites.  The only states are which events wait, which ran  *)
(* and which were withdrawn.                                               *)
(***************************************************************************)
EXTENDS Integers

VARIABLES
  waiting,   (* function from the waiting ids to [time, causes] *)
  done,      (* the ids that ran                                *)
  dropped,   (* the ids that were withdrawn                     *)
  now        (* the time of the last event that ran             *)

scheduleVars == <<waiting, done, dropped, now>>

Used == DOMAIN waiting \cup done \cup dropped
Added == DOMAIN waiting' \ DOMAIN waiting
Removed == DOMAIN waiting \ DOMAIN waiting'
Kept == DOMAIN waiting \cap DOMAIN waiting'

Init ==
  /\ waiting = [i \in {} |-> i]
  /\ done = {}
  /\ dropped = {}
  /\ now >= 0

(* New events use new ids, name only known causes and lie ahead. *)
Admit ==
  /\ Added \cap (done \cup dropped) = {}
  /\ \A i \in Kept : waiting'[i] = waiting[i]
  /\ \A i \in Added :
       /\ waiting'[i].time >= now'
       /\ waiting'[i].causes \subseteq Used \cup Added

(* The events W leave without running; nothing that stays cites them. *)
Withdraw(W) ==
  /\ dropped' = dropped \cup W
  /\ \A i \in Kept : waiting[i].causes \cap W = {}

(* Somebody plans and withdraws events; none runs. *)
Plan ==
  /\ Admit
  /\ Withdraw(Removed)
  /\ UNCHANGED <<done, now>>

(* The event p runs: no other is due earlier and none of its causes still  *)
(* waits.  What it plans names it as a cause and cites nothing it withdrew. *)
Run(p) ==
  /\ p \in Removed
  /\ \A o \in DOMAIN waiting : waiting[p].time <= waiting[o].time
  /\ waiting[p].causes \cap DOMAIN waiting = {}
  /\ now' = waiting[p].time
  /\ now' >= now
  /\ done' = done \cup {p}
  /\ Admit
  /\ Withdraw(Removed \ {p})
  /\ \A i \in Added :
       p \in waiting'[i].causes /\ waiting'[i].causes \cap (Removed \ {p}) = {}

Next == Plan \/ \E p \in DOMAIN waiting : Run(p)

Spec == Init /\ [][Next]_scheduleVars
=============================================================================
