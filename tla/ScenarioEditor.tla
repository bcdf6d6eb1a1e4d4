--------------------------- MODULE ScenarioEditor ---------------------------
(***************************************************************************)
(* The draft of a scenario (components/lab/state/scenario-editor.ts) under *)
(* its search settings (components/lab/scenario/search-settings-state.ts). *)
(*                                                                         *)
(* A draft is a set of defaults with the user's overrides on top.  New     *)
(* defaults are asked for, and answered at any later time, in any order,   *)
(* more than once or never; meanwhile the user edits.  The budget amount   *)
(* is typed as text, kept beside the draft whether it is a number or not.  *)
(***************************************************************************)
EXTENDS Absent, Integers

CONSTANTS
  OtherFields,  (* the fields of a scenario other than the search settings   *)
  Values,       (* their values                                              *)
  Whole,        (* the amounts that are whole numbers of at least zero       *)
  Odd,          (* the other amounts an edit may put into a draft            *)
  SearchSettings,  (* the rest of the search settings: kind, slots and boots    *)
  Texts,        (* what may be typed as an amount                            *)
  ParseAmount,  (* the amount of a text, or None                             *)
  Lawful,       (* the scenarios that meet their contract                    *)
  Unset,        (* the value of a field without an override                  *)
  MaxSafe       (* the largest revision: Number.MAX_SAFE_INTEGER             *)

Search == "searchConstraints"
Fields == OtherFields \cup {Search}
Amounts == Whole \cup Odd
Constraints == [amount : Amounts, rest : SearchSettings]
ValuesOf(f) == IF f = Search THEN Constraints ELSE Values
Scenarios == {d \in [Fields -> Values \cup Constraints] :
                 \A f \in Fields : d[f] \in ValuesOf(f)}

ASSUME EditorAssumption ==
  /\ Search \notin OtherFields
  /\ Lawful \subseteq Scenarios
  /\ ParseAmount \in [Texts -> Whole \cup {None}]
  /\ None \notin Amounts /\ None \notin Texts
  /\ Whole \cap Odd = {}
  /\ Unset \notin Values \cup Constraints
  /\ MaxSafe \in Nat

VARIABLES
  defaults,   (* the scenario the overrides are laid on                      *)
  overrides,  (* per field, the user's value or Unset                        *)
  revision, requestSequence,
  pending,    (* pendingDefaults: a request or None                          *)
  issues,     (* whether defaultsIssues says something                       *)
  text,       (* budgetAmountText: a text or None                            *)
  sent,       (* the requests issued so far, with the acts that preceded     *)
  acts,       (* history: how often the user edited, reset or asked          *)
  gap         (* history: the acts between the request whose answer was      *)
              (* applied last and that answer                                *)

editor == <<defaults, overrides, revision, requestSequence, pending, issues>>
editorVars == <<defaults, overrides, revision, requestSequence, pending, issues,
          text, sent, acts, gap>>

Requests == [requestId : 1..MaxSafe, revision : 0..MaxSafe]

-----------------------------------------------------------------------------
(* scenarioDraft *)
Draft == [f \in Fields |-> IF overrides[f] = Unset THEN defaults[f] ELSE overrides[f]]

(* budgetAmountText followed by parseAmount: the amount the panel shows. A  *)
(* whole amount prints as itself, and any other as no whole number.         *)
ShownAmount ==
  IF text # None THEN ParseAmount[text]
  ELSE IF Draft[Search].amount \in Whole THEN Draft[Search].amount ELSE None

(* serializeSearchSettings, as far as the amount goes: nothing of a draft   *)
(* that fails its contract, or whose text is no amount, is serialized.      *)
SerializedAmount ==
  IF ShownAmount = None \/ Draft \notin Lawful THEN None ELSE Draft[Search].amount

MatchesRequest_AnyRequest(request) ==
  /\ pending # None
  /\ revision = request.revision

MatchesRequest(request) ==
  /\ pending # None
  /\ pending.requestId = request.requestId
  /\ pending.revision = request.revision
  /\ revision = request.revision

-----------------------------------------------------------------------------
EditorInit ==
  /\ defaults \in Lawful
  /\ overrides = [f \in Fields |-> Unset]
  /\ revision = 0 /\ requestSequence = 0
  /\ pending = None /\ issues = FALSE
  /\ text = None
  /\ sent = {} /\ acts = 0 /\ gap = 0

(* What every edit and reset does; advance throws at the largest revision.  *)
Revise(newOverrides) ==
  /\ revision < MaxSafe
  /\ revision' = revision + 1
  /\ overrides' = newOverrides
  /\ pending' = None /\ issues' = FALSE
  /\ acts' = acts + 1
  /\ UNCHANGED <<defaults, requestSequence, sent, gap>>

Edit_TextKept(f, v) ==
  /\ Revise([overrides EXCEPT ![f] = v])
  /\ text' = text

(* A manual edit of one field, which replaces the whole group and its text. *)
EditField(f, v) ==
  /\ Revise([overrides EXCEPT ![f] = v])
  /\ text' = IF f = Search THEN None ELSE text

(* reset-field, and reset-searchConstraints of the settings                 *)
ResetField(f) ==
  /\ Revise([overrides EXCEPT ![f] = Unset])
  /\ text' = IF f = Search THEN None ELSE text

ResetAll ==
  /\ Revise([f \in Fields |-> Unset])
  /\ text' = None

(* edit-budget-amount: a text that is no number keeps the amount before it. *)
TypeAmount(t) ==
  LET amount == IF ParseAmount[t] = None THEN Draft[Search].amount ELSE ParseAmount[t]
  IN /\ Revise([overrides EXCEPT ![Search] = [amount |-> amount, rest |-> Draft[Search].rest]])
     /\ text' = t

(* edit-budget-kind, edit-slot-count and edit-boot-rule                     *)
EditSettings(s) ==
  /\ Revise([overrides EXCEPT ![Search] = [amount |-> Draft[Search].amount, rest |-> s]])
  /\ UNCHANGED text

RequestDefaults ==
  LET request == [requestId |-> requestSequence + 1, revision |-> revision]
  IN /\ requestSequence < MaxSafe
     /\ requestSequence' = requestSequence + 1
     /\ pending' = request
     /\ issues' = FALSE
     /\ acts' = acts + 1
     /\ sent' = sent \cup {[request |-> request, asked |-> acts + 1]}
     /\ UNCHANGED <<defaults, overrides, revision, text, gap>>

(* receive-defaults with a scenario of the same id                          *)
ReceiveDefaults(s, value) ==
  /\ MatchesRequest(s.request)
  /\ revision < MaxSafe
  /\ defaults' = value
  /\ revision' = revision + 1
  /\ pending' = None /\ issues' = FALSE
  /\ gap' = acts - s.asked
  /\ UNCHANGED <<overrides, requestSequence, text, sent, acts>>

(* defaults-failed, and receive-defaults with a malformed scenario or one   *)
(* of another id                                                            *)
RefuseDefaults(s) ==
  /\ MatchesRequest(s.request)
  /\ pending' = None /\ issues' = TRUE
  /\ UNCHANGED <<defaults, overrides, revision, requestSequence, text, sent, acts, gap>>

EditorNext ==
  \/ \E f \in Fields : \/ \E v \in ValuesOf(f) : EditField(f, v)
                       \/ ResetField(f)
  \/ ResetAll
  \/ \E t \in Texts : TypeAmount(t)
  \/ \E s \in SearchSettings : EditSettings(s)
  \/ RequestDefaults
  \/ \E s \in sent : \/ \E value \in Lawful : ReceiveDefaults(s, value)
                     \/ RefuseDefaults(s)

EditorSpec == EditorInit /\ [][EditorNext]_editorVars

-----------------------------------------------------------------------------
EditorTypeOK ==
  /\ defaults \in Scenarios
  /\ overrides \in [Fields -> Values \cup Constraints \cup {Unset}]
  /\ \A f \in Fields : overrides[f] \in ValuesOf(f) \cup {Unset}
  /\ revision \in 0..MaxSafe /\ requestSequence \in 0..MaxSafe
  /\ pending \in Requests \cup {None}
  /\ issues \in BOOLEAN
  /\ text \in Texts \cup {None}
  /\ sent \subseteq [request : Requests, asked : Nat]
  /\ acts \in Nat /\ gap \in Int

(* Defaults are replaced only by the answer to the user's latest act: no    *)
(* edit, reset or newer request lies between a request and an answer to it  *)
(* that was applied, however late, repeated or reordered the answers are.   *)
OnlyCurrentAnswers == gap = 0

(* An amount that is serialized is the amount on display, and while the     *)
(* text is no whole number nothing is serialized: "Invalid raw input never  *)
(* serializes as the previous valid amount."  The text outlives edits of    *)
(* other fields and new defaults, so it must never part from its override.  *)
SerializedAsShown == SerializedAmount \in {None, ShownAmount}
=============================================================================
