------------------------- MODULE MCArchivePipeline -------------------------
(* One match with two fetches that differ, and two ingest runs. *)
EXTENDS ArchivePipeline, TLC

CONSTANTS a, b, m, first, second

MCMatchOf == [s \in Sources |-> m]

Alike == Permutations({a, b}) \cup Permutations({first, second})

(* Bound: a loss, or a reconciliation that is cut off or misreads, not both. *)
OneTrouble == Cardinality(lost) + faults <= 1
=============================================================================
