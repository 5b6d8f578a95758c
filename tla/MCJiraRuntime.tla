--------------------------- MODULE MCJiraRuntime ---------------------------
(* Small instances of JiraRuntime for TLC. *)
EXTENDS JiraRuntime, TLC

\* Requests and webhook events are interchangeable in safety runs.
Symmetric == Permutations(Requests) \cup Permutations(Events)
=============================================================================
