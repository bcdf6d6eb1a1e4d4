------------------------------- MODULE Absent -------------------------------
(* null and undefined, in the modules that describe the page of the lab.     *)
CONSTANT None
=============================================================================
