----------------------- MODULE MCScalarReconciliation -----------------------
(* Small instances of ScalarReconciliation for TLC. *)
EXTENDS ScalarReconciliation, TLC

CONSTANTS ann, bob

\* ann outranks bob, and what either observed counts for one instant.
Ranked ==
  [enabled |-> TRUE, tier |-> [u \in Subjects |-> IF u = ann THEN 1 ELSE 2],
   named |-> {}, gated |-> {}, basis |-> {"observed"}, duration |-> 1,
   untilSuperseded |-> FALSE, request |-> TRUE]

\* Everybody has the same rank and counts for two instants.
Level ==
  [Ranked EXCEPT !.tier = [u \in Subjects |-> 1], !.named = {bob},
                 !.basis = {"effective"}, !.duration = 2]

\* What bob says of the event stands until he says otherwise; ann needs an
\* approval.
EventDated ==
  [Ranked EXCEPT !.gated = {ann}, !.basis = {}, !.untilSuperseded = TRUE,
                 !.request = FALSE]

Ruled == {Ranked, Level, EventDated}

\* ann's statements expire at 2, before a rule would let them.
Expiring == [u \in Subjects |-> IF u = ann THEN {2} ELSE {0}]
\* The API process that serves bob may be ahead of the database.
Ahead == [u \in Subjects |-> IF u = bob THEN {1} ELSE {0}]
Lists == {{ann, bob}}
Granted == {<<ann, "pmo_admin">>, <<bob, "project_manager">>}
Movable == {<<bob, "project_manager">>}

Symmetric == Permutations(Values)
=============================================================================
