------------------------- MODULE MCReassessmentScan -------------------------
(* Small instances of ReassessmentScan for TLC. *)
EXTENDS ReassessmentScan, TLC

\* Scans are interchangeable in safety runs.
Symmetric == Permutations(Scanners)
=============================================================================
