----------------------------- MODULE MCLabPage -----------------------------
(* The page of the lab: its runs, its inputs and the scenario draft, one of  *)
(* them in each behaviour, while the others rest in an initial state.        *)
(* Runs: main inputs with two cohorts, one of them with illegal ranks and    *)
(* one that compares a build with itself; a champion filter with one target. *)
(* Inputs: levels below, at and above the first rank of R, the last one with *)
(* observed ranks that are not legal; six items, one of them boots.          *)
(* Editor: one plain field beside the search settings, two whole amounts and *)
(* a bad one, two texts, a number and a word; a policy and slots that clash. *)
EXTENDS LabRun, LabInputs, ScenarioEditor, TLC

CONSTANTS
  Parts,   (* the parts that run: "runs", "inputs", "editor" *)
  pol1, pol2, set1, set2

MCKeyOf == [m \in Mains |-> IF m = "other" THEN "k2" ELSE "k1"]
MCTargetsOf ==
  [k \in Keys \X Champions |->
     CASE k = <<"k1", "all">> -> {"t1", "t2"}
       [] k = <<"k2", "all">> -> {"t2"}
       [] k = <<"k1", "one">> -> {"t1"}
       [] OTHER               -> {}]
MCClamped == [m \in Illegal |-> "plain"]

Ranks(a, b, c, d) == ("q" :> a) @@ ("w" :> b) @@ ("e" :> c) @@ ("r" :> d)
MCObserved ==
  13 :> [ranks |-> Ranks(5, 4, 2, 2), items |-> <<2, 3, 2, 5>>, boot |-> 1, common |-> <<3, 4, 9>>, legendary |-> 3]
    @@ 6 :> [ranks |-> Ranks(3, 2, 0, 2), items |-> <<>>, boot |-> None, common |-> <<>>, legendary |-> None]
    @@ 5 :> [ranks |-> Ranks(3, 1, 1, 0), items |-> <<1, 2>>, boot |-> 1, common |-> <<>>, legendary |-> 0]
MCPresets == {[actions |-> <<"R", "Q">>, continueAutos |-> TRUE], [actions |-> <<"AA">>, continueAutos |-> TRUE]}
MCCandidates == {<<1, 2, 3, 4, 5, 6>>, <<1, 4, 6>>}
MCCore == <<2, 3, 1>>

MCParse == [t \in Texts |-> IF t = "7" THEN 7 ELSE None]
MCLawful ==
  {[f \in {"policy", "searchConstraints"} |-> IF f = "policy" THEN v ELSE c] :
     v \in {pol1, pol2}, c \in [amount : {0, 7}, rest : {set1, set2}]}
    \ {[f \in {"policy", "searchConstraints"} |-> IF f = "policy" THEN pol2 ELSE c] :
         c \in [amount : {0, 7}, rest : {set2}]}

VARIABLE part

InitPage ==
  /\ part \in Parts
  /\ Init /\ (part # "runs" => settings = CHOOSE x \in Settings : x.selected = None /\ x.champion = AnyChampion)
  /\ InputsInit
  /\ EditorInit /\ (part # "editor" => defaults = CHOOSE d \in Lawful : TRUE)

NextPage ==
  \/ part = "runs" /\ Next /\ UNCHANGED <<part, inputVars, editorVars>>
  \/ part = "inputs" /\ InputsNext /\ UNCHANGED <<part, vars, editorVars>>
  \/ part = "editor" /\ EditorNext /\ UNCHANGED <<part, vars, inputVars>>

SpecPage == InitPage /\ [][NextPage]_<<part, vars, inputVars, editorVars>>
===========================================================================
