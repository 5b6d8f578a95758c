------------------------- MODULE MCUpdateEngagement -------------------------
(* Small instances of UpdateEngagement for TLC. *)
EXTENDS UpdateEngagement, TLC

\* The facts of a policy are interchangeable.
Symmetric == Permutations(FactTypes)
=============================================================================
