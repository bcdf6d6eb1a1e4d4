----------------------------- MODULE AtomicBatch -----------------------------
(***************************************************************************)
(* What a lifecycle batch promises (docs/architecture/combat-contracts.md):*)
(* the transitions a step was told are applied become visible together, in *)
(* order and once, or none of them does.                                   *)
(***************************************************************************)
EXTENDS Integers, Sequences

VARIABLES
  told,     (* the transitions the step in progress was told are applied *)
  visible   (* the transitions everybody can see                         *)

vars == <<told, visible>>

Init == told = << >> /\ visible = << >>

Tell ==
  /\ Len(told') = Len(told) + 1
  /\ SubSeq(told', 1, Len(told)) = told
  /\ UNCHANGED visible

Publish == visible' = visible \o told /\ told' = << >>

Discard == told' = << >> /\ UNCHANGED visible

Next == Tell \/ Publish \/ Discard

Spec == Init /\ [][Next]_vars
=============================================================================
