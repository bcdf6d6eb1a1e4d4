-------------------------- MODULE ArchivedMatches --------------------------
(***************************************************************************)
(* What the archive promises of the matches the lab works with: a match is *)
(* accepted with the bytes of one source, which were in the archive before *)
(* it was accepted; it is never taken back and never changes its source.   *)
(***************************************************************************)
CONSTANTS Sources, Matches, MatchOf, NoSource, Legacy

VARIABLES
  stored,    (* the sources whose bytes have been in the archive  *)
  accepted   (* for each match the source it was accepted with    *)

Init ==
  /\ stored \subseteq Sources
  /\ accepted \in [Matches -> {NoSource, Legacy}]

Store(s) ==
  /\ stored' = stored \cup {s}
  /\ UNCHANGED accepted

Accept(s) ==
  /\ s \in stored
  /\ accepted[MatchOf[s]] = NoSource
  /\ accepted' = [accepted EXCEPT ![MatchOf[s]] = s]
  /\ UNCHANGED stored

Next == \E s \in Sources : Store(s) \/ Accept(s)

Spec == Init /\ [][Next]_<<stored, accepted>>
=============================================================================
