------------------------ MODULE ScalarReconciliation ------------------------
(***************************************************************************)
(* Asking somebody to settle a dispute                                     *)
(* (packages/data/src/scalar-reconciliation.ts with the routing of         *)
(* reconciliation-authorization.ts).  A check assesses the fact anew and   *)
(* opens a request for the dispute it finds, unless this dispute under     *)
(* this policy has one.  A request is assigned to the project's one        *)
(* configured manager while a grant lets them see it; a refresh routes it  *)
(* again.  Nothing closes a request.                                       *)
(***************************************************************************)
EXTENDS FactAssessments

CONSTANTS
  Managers  \* configured PROJECT_MANAGERs; sealed with the project

ASSUME ReconciliationAssumption == Managers \subseteq Subjects

VARIABLES
  checked,  \* the ScalarReconciliationCheck that took the latest assessment
  requests  \* ScalarReconciliationRequest rows, all OPEN, with their last
            \* ScalarReconciliationAssignment

caseVars == <<checked, requests>>
vars == <<factVars, caseVars>>

Outcomes == {"NOT_CHECKED", "NO_REQUEST", "REUSED", "CREATED"}
RoutingReasons == {"NO_CONFIGURED_PM", "AMBIGUOUS_CONFIGURED_PM",
                   "PM_SCOPE_UNAVAILABLE", "ASSIGNED"}

\* A check without a request has request 0; to is {} for nobody.
CheckRows == [outcome : Outcomes, request : Nat]
Assignments == [reason : RoutingReasons, to : SUBSET Subjects]
RequestRows == [policy : Nat, contributors : SUBSET Nat, assignment : Assignments]

NotChecked == [outcome |-> "NOT_CHECKED", request |-> 0]

TypeOK ==
  /\ FactTypeOK
  /\ checked \in CheckRows
  /\ requests \in Seq(RequestRows)

Init == FactInit /\ checked = NotChecked /\ requests = <<>>

-----------------------------------------------------------------------------

\* authorizeReconciliation: the manager's grant is read with the actor's.
Routed(m) == Holds(m, {"project_manager"})

Reason ==
  IF Managers = {} THEN "NO_CONFIGURED_PM"
  ELSE IF Cardinality(Managers) > 1 THEN "AMBIGUOUS_CONFIGURED_PM"
  ELSE IF \E m \in Managers : Routed(m) THEN "ASSIGNED" ELSE "PM_SCOPE_UNAVAILABLE"

\* Mutant of Assignment: the assignee is left out.
AssignmentUnaddressed == [reason |-> Reason]

Assignment ==
  [reason |-> Reason, to |-> IF Reason = "ASSIGNED" THEN Managers ELSE {}]

\* Mutant of Opened: the case leaves out the contributors.
OpenedUnder(policy, contributors) == {r \in DOMAIN requests : requests[r].policy = policy}

\* The case of an assessment: the policy revision and all its contributors.
Opened(policy, contributors) ==
  {r \in DOMAIN requests :
     requests[r].policy = policy /\ requests[r].contributors = contributors}

\* The assessment, the check, the request and its first assignment commit
\* together.
Check(u) ==
  /\ Holds(u, Writers)
  /\ \E a \in Assessed(u) :
       /\ Capture(a)
       /\ LET answer == a.evaluation.answer
              asks == AsksForReconciliation(a.snapshot, answer)
              opened == Opened(Active, answer.disputed)
          IN \/ /\ ~asks
                /\ checked' = [outcome |-> "NO_REQUEST", request |-> 0]
                /\ UNCHANGED requests
             \/ /\ asks
                /\ \E r \in opened : checked' = [outcome |-> "REUSED", request |-> r]
                /\ UNCHANGED requests
             \/ /\ asks /\ opened = {}
                /\ checked' = [outcome |-> "CREATED", request |-> Len(requests) + 1]
                /\ requests' = Append(requests,
                     [policy |-> Active, contributors |-> answer.disputed,
                      assignment |-> Assignment])

\* A refresh never looks at what the request is about.
RefreshAssignment(u) ==
  /\ Holds(u, Writers)
  /\ \E r \in DOMAIN requests : requests' = [requests EXCEPT ![r].assignment = Assignment]
  /\ UNCHANGED <<factVars, checked>>

Next ==
  \/ \E u \in Subjects : \/ AppendHumanStatement(u) /\ UNCHANGED caseVars
                         \/ SetSourceAccess(u) /\ UNCHANGED caseVars
                         \/ AppendPolicy(u) /\ UNCHANGED caseVars
                         \/ CaptureAssessment(u) /\ checked' = NotChecked
                                                 /\ UNCHANGED requests
                         \/ Check(u)
                         \/ RefreshAssignment(u)
  \/ ChangeGrant /\ UNCHANGED caseVars
  \/ Tick /\ UNCHANGED caseVars

Spec == Init /\ [][Next]_vars

-----------------------------------------------------------------------------
(* What must hold *)

\* Each dispute under each policy has one request however often and by
\* whomever it is checked; a check points at the request of its own dispute,
\* and at none exactly when its assessment asks for none.
Asks(a) == a.status = "CONFLICTING" /\ policies[a.policy].definition.request

OneRequestPerCase ==
  /\ \A r, q \in DOMAIN requests :
       /\ requests[r].policy = requests[q].policy
       /\ requests[r].contributors = requests[q].contributors
       => r = q
  /\ checked # NotChecked =>
       /\ checked.request # 0 <=> Asks(latest)
       /\ checked.request # 0 =>
            /\ requests[checked.request].policy = latest.policy
            /\ requests[checked.request].contributors = latest.disputed
=============================================================================
