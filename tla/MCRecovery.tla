----------------------------- MODULE MCRecovery -----------------------------
(* What failures leave behind, one part in each behaviour:                   *)
(* "pipeline"  the archive pipeline, with uploads that fail and runs that    *)
(*             die, under an operator who keeps reconciling;                 *)
(* "versions"  the static sources of two versions, one run after the other,  *)
(*             and an object that somebody else has damaged;                 *)
(* "overlap"   two runs of one version at a time, whose items may differ;    *)
(* "repair"    such runs, one after the other, beside a reconciliation;      *)
(* "client"    calls of the database client;                                 *)
(* "sources"   pinned source sets of one artifact or two.                    *)
EXTENDS MCArchivePipeline, StaticSync, DatabaseClient, SourceSets

MCVersionOf == [s \in StaticSources |-> IF s \in {"champions 2", "items 2"} THEN 2 ELSE 1]
MCKindOf == [s \in StaticSources |-> IF s \in {"champions 1", "champions 2"} THEN "champions" ELSE "items"]
MCFetches ==
  {[champions |-> "champions 1", items |-> "items 1"],
   [champions |-> "champions 1", items |-> "other items 1"],
   [champions |-> "champions 2", items |-> "items 2"]}

MCDrafts ==
  [pinned : BOOLEAN, regions : {<<1>>, <<2, 1>>}, required : {<<1>>, <<1, 1>>, <<3>>},
   artifacts :
     {<<[id |-> 1, path |-> "a", pinned |-> p]>> : p \in BOOLEAN} \cup
     {<<[id |-> i, path |-> "a", pinned |-> TRUE], [id |-> 1, path |-> q, pinned |-> TRUE]>> :
        i \in {1, 2}, q \in {"a", "a/x", "b"}}]
MCStores ==
  {<<[id |-> 1, bytes |-> x]>> : x \in {"x", "y"}} \cup
  {<<[id |-> i, bytes |-> x], [id |-> 2, bytes |-> y]>> :
     i \in {1, 2}, x \in {"x", "y"}, y \in {"x", "y"}}
MCUnder == {<<"a", "a/x">>}

VARIABLE part   (* the part that runs *)

recoveryVars == <<part, vars, staticVars, clientVars, setVars>>

InitRecovery ==
  /\ part \in {"pipeline", "versions", "overlap", "repair", "client", "sources"}
  /\ Init
  /\ part # "pipeline" => /\ bucket = [s \in Sources |-> "absent"]
                          /\ pointer = [m1 \in Matches |-> NoSource]
  /\ StaticInit
  /\ \A s \in StaticSources :
       objects[s] = "damaged" => part = "versions" /\ s = "items 1"
  /\ ClientInit
  /\ IF part = "sources" THEN SetsInit
     ELSE /\ draft = <<>> /\ retained = <<>> /\ document = Nothing /\ asBuilt = <<>>
          /\ reading = Nothing /\ copy = <<>> /\ compared = 0 /\ catalog = <<>> /\ step = "draft"

(* Who acts: two runs at a time in "overlap" alone, the reconciliation in   *)
(* "repair" alone, version 2 in "versions" alone.                           *)
StaticPart ==
  /\ StaticNext
  /\ part # "overlap" => Cardinality({p \in Syncs : sAt'[p] # "idle"}) <= 1
  /\ part # "repair" => checker' = Resting
  /\ \A p \in Syncs :
       fetched'[p]["items"] # (IF part = "versions" THEN "other items 1" ELSE "items 2")

NextRecovery ==
  \/ part = "pipeline" /\ Next /\ UNCHANGED <<part, staticVars, clientVars, setVars>>
  \/ part \in {"versions", "overlap", "repair"} /\ StaticPart
     /\ UNCHANGED <<part, vars, clientVars, setVars>>
  \/ part = "client" /\ ClientNext /\ UNCHANGED <<part, vars, staticVars, setVars>>
  \/ part = "sources" /\ SetsNext /\ UNCHANGED <<part, vars, staticVars, clientVars>>

SpecRecovery ==
  InitRecovery /\ [][NextRecovery]_recoveryVars /\ (part = "pipeline" => Operated)
=============================================================================
