--------------------------- MODULE LifecycleBatch ---------------------------
(***************************************************************************)
(* withLifecycleBatch (src/domain/contracts/ports.ts): one step's          *)
(* lifecycle transitions against an external port that stages them         *)
(* privately and publishes on commit.  Call after call runs on one port.   *)
(*                                                                         *)
(* The work callback is arbitrary: it may apply any number of transitions, *)
(* catch an exception of apply and go on, return or throw, and keep the    *)
(* stage object it was given and call it again while the port commits or   *)
(* after the batch is over.  The port keeps its contract in what matters   *)
(* here: commit publishes all that is staged or throws and publishes       *)
(* nothing.  A port whose apply throws may have staged the transition all  *)
(* the same.                                                               *)
(***************************************************************************)
EXTENDS Integers, Sequences

CONSTANTS
  LifecycleTransitions,   (* the transitions the callbacks apply             *)
  MaxApplied,             (* bound: the most transitions staged in one batch *)
  MaxPublished            (* bound: the most transitions published           *)

ASSUME BatchBounds == MaxApplied \in Nat /\ MaxPublished \in Nat

VARIABLES
  phase,      (* where the call is: "none" when no call is in progress *)
  open,       (* the code's open and failed                            *)
  failed,
  staged,     (* what the port holds privately                         *)
  published,  (* what the port has made visible                        *)
  told,       (* history: what apply reported as applied in this batch *)
  validated   (* history: told at the moment the work had returned     *)

batchVars == <<phase, open, failed, staged, published, told, validated>>

BatchTypeOK ==
  /\ phase \in {"none", "working", "committing", "undoing"}
  /\ open \in BOOLEAN /\ failed \in BOOLEAN
  /\ staged \in Seq(LifecycleTransitions) /\ told \in Seq(LifecycleTransitions)
  /\ published \in Seq(LifecycleTransitions) /\ validated \in Seq(LifecycleTransitions)
  /\ open => phase = "working"

BatchInit ==
  /\ phase = "none" /\ open = FALSE /\ failed = FALSE
  /\ staged = << >> /\ published = << >> /\ told = << >> /\ validated = << >>

-----------------------------------------------------------------------------
(* beginBatch returned a complete transaction, or only part of one. *)
BeginBatch(complete) ==
  /\ phase = "none"
  /\ phase' = IF complete THEN "working" ELSE "undoing"
  /\ open' = complete /\ failed' = FALSE
  /\ staged' = << >> /\ told' = << >>
  /\ UNCHANGED <<published, validated>>

(* stage.apply(transition) while the batch is open and has not failed. *)
ApplyMember(t) ==
  /\ open /\ ~failed
  /\ Len(staged) < MaxApplied
  /\ staged' = Append(staged, t) /\ told' = Append(told, t)
  /\ UNCHANGED <<phase, open, failed, published, validated>>

(* The port's apply throws, before or after it staged the transition. *)
MemberThrows(t) ==
  /\ open /\ ~failed
  /\ failed' = TRUE
  /\ \/ staged' = staged
     \/ Len(staged) < MaxApplied /\ staged' = Append(staged, t)
  /\ UNCHANGED <<phase, open, published, told, validated>>

WorkReturns_PoisonIgnored ==
  /\ phase = "working"
  /\ open' = FALSE
  /\ phase' = "committing"
  /\ validated' = told
  /\ UNCHANGED <<failed, staged, published, told>>

WorkReturns_ClosedAfterCommit ==
  /\ phase = "working"
  /\ phase' = IF failed THEN "undoing" ELSE "committing"
  /\ validated' = told
  /\ UNCHANGED <<open, failed, staged, published, told>>

(* The work is done and its result validated: commit, unless an apply      *)
(* failed, whether or not the callback noticed.                            *)
WorkReturns ==
  /\ phase = "working"
  /\ open' = FALSE
  /\ phase' = IF failed THEN "undoing" ELSE "committing"
  /\ validated' = told
  /\ UNCHANGED <<failed, staged, published, told>>

WorkThrows ==
  /\ phase = "working"
  /\ open' = FALSE
  /\ phase' = "undoing"
  /\ UNCHANGED <<failed, staged, published, told, validated>>

CommitReturns ==
  /\ phase = "committing"
  /\ Len(published) + Len(staged) <= MaxPublished
  /\ published' = published \o staged
  /\ staged' = << >> /\ told' = << >>
  /\ open' = FALSE /\ phase' = "none"
  /\ UNCHANGED <<failed, validated>>

CommitThrows ==
  /\ phase = "committing"
  /\ open' = FALSE /\ phase' = "undoing"
  /\ UNCHANGED <<failed, staged, published, told, validated>>

(* rollback, which discards what is staged also when it throws. *)
Rollback ==
  /\ phase = "undoing"
  /\ staged' = << >> /\ told' = << >>
  /\ phase' = "none"
  /\ UNCHANGED <<open, failed, published, validated>>

BatchNext ==
  \/ \E complete \in BOOLEAN : BeginBatch(complete)
  \/ \E t \in LifecycleTransitions : ApplyMember(t) \/ MemberThrows(t)
  \/ WorkReturns \/ WorkThrows
  \/ CommitReturns \/ CommitThrows \/ Rollback

BatchSpec == BatchInit /\ [][BatchNext]_batchVars

-----------------------------------------------------------------------------
Atomic == INSTANCE AtomicBatch WITH told <- told, visible <- published

(* The transitions a batch was told are applied become visible together,   *)
(* in order and exactly once, or not at all - also when an apply threw     *)
(* after the port had staged it and the callback swallowed the exception.  *)
AllOrNothing == Atomic!Spec

(* What the port is about to publish is what the step had staged when its  *)
(* result was validated: a stage object kept beyond the step, or called    *)
(* again from inside commit, adds nothing.                                 *)
OnlyValidated == phase = "committing" => staged = validated
=============================================================================
