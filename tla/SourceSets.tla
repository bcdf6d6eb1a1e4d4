----------------------------- MODULE SourceSets ------------------------------
(***************************************************************************)
(* Pinned source sets (src/domain/rulesets/source-validation.ts) and the   *)
(* catalog that is compiled from one (ddragon-source-catalog.ts).          *)
(*                                                                         *)
(* A set is built once, from a draft and the bytes retained for it, and    *)
(* kept as a document.  Later it is read again, with the bytes that are    *)
(* retained then, and compared with them artifact by artifact: between two *)
(* artifacts there is an await, and whoever owns the bytes may change      *)
(* them.  The catalog is compiled from what was compared.                  *)
(*                                                                         *)
(* A hash stands for what it is the hash of: collisions are left out.  So  *)
(* is the time of retrieval, which no hash covers.  That a version is      *)
(* pinned, in the set or in the version and address of an artifact, is one *)
(* mark each; of the paths only which lies under which is kept.            *)
(***************************************************************************)
EXTENDS Integers, Sequences, SequencesExt, Ordering

CONSTANTS
  Drafts,    (* what may be built: a mark, regions, required ids, artifacts  *)
  Stores,    (* the bytes that may be retained: sequences of [id, bytes]     *)
  Under      (* pairs of paths, the second below the first                     *)

ASSUME SetsAssumption ==
  /\ Drafts \subseteq [pinned : BOOLEAN, regions : Seq(Nat), required : Seq(Nat),
                       artifacts : Seq([id : Nat, path : STRING, pinned : BOOLEAN])]
  /\ Stores \subseteq Seq([id : Nat, bytes : STRING])

VARIABLES
  draft, retained,   (* the draft, and the bytes, which their owner changes  *)
  document,          (* the document, as it is kept                          *)
  asBuilt,           (* history: the document and the bytes as built         *)
  reading,           (* the document, as a reader has parsed it              *)
  copy,              (* the bytes the reader has copied                      *)
  compared,          (* how many artifacts it has compared                   *)
  catalog,           (* what the catalog was compiled from                   *)
  step               (* where the set stands                                 *)

setVars == <<draft, retained, document, asBuilt, reading, copy, compared, catalog, step>>

Nothing == [regions |-> <<>>]

IdsOf(s) == {s[i].id : i \in DOMAIN s}
NoRepeat(s) == \A i, j \in DOMAIN s : s[i] = s[j] => i = j
Field(s, Get(_)) == [i \in DOMAIN s |-> Get(s[i])]
(* sortedIdentifiers, of identifiers that are told apart: no list is sorted *)
(* that repeats one, as what is sorted is refused then (WellFormed).        *)
SortedIds(s) == Ascending(ToSet(s))

(* retainedBytesById, for the ids that are declared: none twice, none      *)
(* missing, none more.                                                     *)
Inventory(store, declared) ==
  /\ NoRepeat(Field(store, LAMBDA e : e.id))
  /\ IdsOf(store) = declared

ById(list, id) == list[CHOOSE i \in DOMAIN list : list[i].id = id]
BytesFrom(store, id) == ById(store, id).bytes

(* PinnedSourceSetSchema *)
WellFormed(d) ==
  /\ d.artifacts # <<>> /\ d.required # <<>> /\ d.regions # <<>>
  /\ NoRepeat(Field(d.artifacts, LAMBDA a : a.id))
  /\ NoRepeat(Field(d.artifacts, LAMBDA a : a.path))
  /\ \A i, j \in DOMAIN d.artifacts : <<d.artifacts[i].path, d.artifacts[j].path>> \notin Under
  /\ NoRepeat(d.required) /\ NoRepeat(d.regions)

(* sourceSetHashBytes *)
SetHash(d) ==
  [required |-> d.required, regions |-> d.regions, pinned |-> d.pinned,
   artifacts |-> d.artifacts]

(* The artifacts in the order of their ids, each with the hash of its      *)
(* bytes, and the lists in order.                                          *)
Hashed(d, store) ==
  LET ids == Ascending(IdsOf(d.artifacts))
      body ==
        [pinned |-> d.pinned, required |-> SortedIds(d.required), regions |-> SortedIds(d.regions),
         artifacts |->
           [i \in DOMAIN ids |->
              LET it == ById(d.artifacts, ids[i])
              IN [id |-> it.id, path |-> it.path, pinned |-> it.pinned,
                  hash |-> BytesFrom(store, it.id)]]]
  IN [pinned |-> body.pinned, required |-> body.required, regions |-> body.regions,
      artifacts |-> body.artifacts, hash |-> SetHash(body)]

Canonical(d) ==
  /\ d.required = SortedIds(d.required) /\ d.regions = SortedIds(d.regions)
  /\ Field(d.artifacts, LAMBDA a : a.id) = Ascending(IdsOf(d.artifacts))

(* assertExplicitVersionPin *)
Pinned(d) == d.pinned /\ \A i \in DOMAIN d.artifacts : d.artifacts[i].pinned

RequiredThere(d) == ToSet(d.required) \subseteq IdsOf(d.artifacts)

-----------------------------------------------------------------------------
SetsInit ==
  /\ draft \in Drafts /\ retained \in Stores
  /\ document = Nothing /\ asBuilt = <<>> /\ reading = Nothing
  /\ copy = <<>> /\ compared = 0 /\ catalog = <<>>
  /\ step = "draft"

(* buildPinnedSourceSet; it asks neither for pinned versions nor for the   *)
(* artifacts that are required.                                            *)
BuildSet ==
  /\ step = "draft"
  /\ IF /\ Inventory(retained, IdsOf(draft.artifacts))
        /\ WellFormed(draft)
     THEN /\ document' = Hashed(draft, retained)
          /\ asBuilt' = <<document', retained>>
          /\ step' = "built"
     ELSE step' = "refused" /\ UNCHANGED <<document, asBuilt>>
  /\ UNCHANGED <<draft, retained, reading, copy, compared, catalog>>

(* A document with one thing altered. *)
Altered(d) ==
  LET other == IF d.artifacts[1].hash = "x" THEN "y" ELSE "x"
  IN {[d EXCEPT !.pinned = FALSE], [d EXCEPT !.regions = <<1, 2>>], [d EXCEPT !.required = <<2>>],
      [d EXCEPT !.artifacts[1].hash = other], [d EXCEPT !.artifacts[1].path = "c"],
      [d EXCEPT !.artifacts = <<@[1]>>], [d EXCEPT !.artifacts = Reverse(@)]}

(* The document is edited where it is kept: once. *)
EditDocument ==
  /\ step = "built" /\ document = asBuilt[1]
  /\ document' \in Altered(document)
  /\ UNCHANGED <<draft, retained, asBuilt, reading, copy, compared, catalog, step>>

(* The owner of the bytes changes them, at any time: once. *)
ChangeBytes(store) ==
  /\ step \in {"built", "comparing"} /\ retained = asBuilt[2]
  /\ retained' = store
  /\ UNCHANGED <<draft, document, asBuilt, reading, copy, compared, catalog, step>>

(* compileDataDragonSourceCatalog: a copy of the bytes, and what           *)
(* assertPinnedSourceSet asks of the document before it looks at a hash.   *)
ReadSet ==
  /\ step = "built"
  /\ copy' = retained
  /\ reading' = document
  /\ step' = IF /\ WellFormed(document) /\ Canonical(document) /\ Pinned(document)
                /\ RequiredThere(document)
                /\ Inventory(retained, IdsOf(document.artifacts))
             THEN "comparing" ELSE "rejected"
  /\ UNCHANGED <<draft, retained, document, asBuilt, compared, catalog>>

ReaderBytes_Shared == retained

(* The bytes the reader goes by. *)
ReaderBytes == copy

CompareArtifact ==
  /\ step = "comparing" /\ compared < Len(reading.artifacts)
  /\ LET artifact == reading.artifacts[compared + 1]
     IN IF BytesFrom(ReaderBytes, artifact.id) = artifact.hash
        THEN compared' = compared + 1 /\ UNCHANGED step
        ELSE step' = "rejected" /\ UNCHANGED compared
  /\ UNCHANGED <<draft, retained, document, asBuilt, reading, copy, catalog>>

CompileCatalog ==
  /\ step = "comparing" /\ compared = Len(reading.artifacts)
  /\ IF reading.hash = SetHash(reading)
     THEN catalog' = <<reading, ReaderBytes>> /\ step' = "compiled"
     ELSE step' = "rejected" /\ UNCHANGED catalog
  /\ UNCHANGED <<draft, retained, document, asBuilt, reading, copy, compared>>

SetsNext ==
  \/ BuildSet \/ EditDocument \/ ReadSet \/ CompareArtifact \/ CompileCatalog
  \/ \E store \in Stores : ChangeBytes(store)

SetsSpec == SetsInit /\ [][SetsNext]_setVars

-----------------------------------------------------------------------------
SameBytes(one, other) ==
  IdsOf(one) = IdsOf(other) /\ \A id \in IdsOf(one) : BytesFrom(one, id) = BytesFrom(other, id)

(* A catalog is compiled from the set and the bytes that were built, or    *)
(* from none: any edit of the document and any change of the bytes, before *)
(* or while they are compared, is noticed or has no effect.  And what was  *)
(* built and left alone is accepted, if only its versions are pinned and   *)
(* what it requires is there.                                              *)
CompiledAsBuilt ==
  /\ step = "compiled" =>
       /\ [hash |-> SetHash(catalog[1])] = [hash |-> SetHash(asBuilt[1])]
       /\ SameBytes(catalog[2], asBuilt[2])
  /\ step = "rejected" =>
       \/ reading # asBuilt[1] \/ ~SameBytes(copy, asBuilt[2]) \/ Len(copy) # Len(asBuilt[2])
       \/ ~Pinned(reading) \/ ~RequiredThere(reading)
==============================================================================
