------------------------- MODULE MCIngestionRecords -------------------------
(* A small instance of IngestionRecords for TLC. *)
EXTENDS IngestionRecords, TLC

\* Calls, keys and versions are interchangeable.
Symmetric == Permutations(Sessions) \cup Permutations(Keys) \cup Permutations(Versions)
=============================================================================
