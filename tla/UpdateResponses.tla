--------------------------- MODULE UpdateResponses ---------------------------
(***************************************************************************)
(* What becomes of a captured stage: the request, its invitation and its   *)
(* content, the raw responses of its recipient, the history that lists     *)
(* them, the context an escalation shows, and the purge of content         *)
(* (packages/data/src/project-updates.ts, migration 202610010001).         *)
(*                                                                         *)
(* Every operation locks the project row first, so it is one action.  One  *)
(* that is denied, or repeats a key, changes nothing and is no action.     *)
(* Whether the sources a request quotes can be read is an input: reads is  *)
(* the set of roles whose subject can.  Only the named recipient may open  *)
(* an invitation and he is the subject of his role, so the role stands for *)
(* him; reviewers, who only read, are left out.  Instants are phases: an   *)
(* invitation has not expired, it has expired, its content is due.         *)
(***************************************************************************)
EXTENDS UpdateEngagement

CONSTANTS
  HistoryLimit,    \* entries an escalation context admits, 20
  MaxResponses,    \* bound: responses in all
  MaxAges,         \* bound: instants that pass for requests
  MaxEvents        \* bound: those and the changes of the environment together

\* A policy has at most eight reminders.
ASSUME ResponseAssumption ==
  /\ HistoryLimit \in Nat /\ MaxResponses \in Nat /\ MaxAges \in Nat /\ MaxEvents \in Nat
  /\ OwnerEscalation < HistoryLimit

VARIABLES
  requests,     \* ProjectUpdateCapturedRequest, its invitation and content, by stage
  responses,    \* ProjectUpdateResponse and its content, in the order received
  ages          \* instants that have passed for requests

responseVars == <<requests, responses, ages>>
allVars == <<vars, responseVars>>

\* unique(engagement, generation, kind, ordinal, recipient): what names a stage.
Id(s) == [obligation |-> s.obligation, generation |-> s.generation, plan |-> s.plan]
Ids == [obligation : Nat, generation : Nat, plan : Nat]

\* The invitation expires before the content does, or with it.
Purgeable == 0
Expired == 1
Open == 2

RequestRows == [phase : {Purgeable, Expired, Open}, content : {"PRESENT", "PURGED"}]
ResponseRows ==
  [request : Ids, due : BOOLEAN, content : {"PRESENT", "PURGED"}]

ResponsesInit == Init /\ requests = << >> /\ responses = << >> /\ ages = 0

MoreEvents == changes + Len(responses) + ages < MaxEvents

CapturedStages == {s \in stages : s.state = "CAPTURED"}

-----------------------------------------------------------------------------
(* captureStage *)

\* The stages a batch has just captured.
JustCaptured == {t \in stages' : t.state = "CAPTURED" /\ Id(t) \notin DOMAIN requests}

\* A capture commits its request, invitation and content with the receipt.
Capturing ==
  LET new == {Id(t) : t \in JustCaptured} IN
  requests' = [i \in DOMAIN requests \cup new |->
                 IF i \in new THEN [phase |-> Open, content |-> "PRESENT"] ELSE requests[i]]

\* A step of the engagement leaves the responses alone.
Alongside ==
  /\ Capturing
  /\ changes' # changes => MoreEvents
  /\ UNCHANGED <<responses, ages>>

EngagementStep ==
  \/ Assess /\ Alongside
  \/ ActivateEngagement /\ Alongside
  \/ BeginCaptureGeneration /\ Alongside
  \/ PickProject /\ Alongside
  \/ ProcessProject /\ Alongside
  \/ ProcessFails /\ Alongside
  \/ BecomesEligible /\ Alongside
  \/ \E s \in stages : StageElapses(s) /\ Alongside
  \/ SourceChanges /\ Alongside
  \/ ProjectAges /\ Alongside
  \/ SetPolicy /\ Alongside
  \/ AccessChanges /\ Alongside
  \/ ZoneChanges /\ Alongside
  \/ Deploy /\ Alongside
  \/ ChangeIssuance /\ Alongside

-----------------------------------------------------------------------------
(* authorizedInvitation, submitResponse *)

CurrentCycle(s) ==
  /\ obligations[s.obligation].state = "OPEN"
  /\ obligations[s.obligation].engagement = "ACTIVE"
  /\ obligations[s.obligation].generation = s.generation
  /\ obligations[s.obligation].policy = policy.revision

Authentic(s, reads) ==
  /\ Role(s.plan) \in granted \cap reads /\ "OWNER" \in granted

\* Mutant: an invitation of an earlier generation is still accepted.
AnyGeneration(s, reads) ==
  /\ GateOpen /\ s.epoch = deployment.epoch
  /\ s.state = "CAPTURED"
  /\ Authentic(s, reads)
  /\ Live(s.obligation) /\ obligations[s.obligation].policy = policy.revision
  /\ requests[Id(s)] = [phase |-> Open, content |-> "PRESENT"]

\* mayAccessProjectUpdateInvitation, asked by the named recipient of stage s.
MayAccess(s, reads) ==
  /\ GateOpen /\ s.epoch = deployment.epoch
  /\ s.state = "CAPTURED"
  /\ Authentic(s, reads)
  /\ CurrentCycle(s)
  /\ requests[Id(s)] = [phase |-> Open, content |-> "PRESENT"]

\* guard_update_response_birth: the lineage a response must have.
ResponseAccepted(s) ==
  /\ gate.enabled /\ gate.epoch = s.epoch
  /\ obligations[s.obligation].state = "OPEN"
  /\ obligations[s.obligation].engagement = "ACTIVE"
  /\ obligations[s.obligation].generation = s.generation
  /\ obligations[s.obligation].policy = policy.revision
  /\ requests[Id(s)].phase = Open /\ requests[Id(s)].content = "PRESENT"

\* A new key; a correction of an earlier response is a response like any other.
SubmitResponse(s) ==
  /\ Len(responses) < MaxResponses /\ MoreEvents
  /\ MayAccess(s, Roles)
  /\ ResponseAccepted(s)
  /\ responses' = Append(responses, [request |-> Id(s), due |-> FALSE, content |-> "PRESENT"])
  /\ UNCHANGED <<vars, requests, ages>>

-----------------------------------------------------------------------------
(* captureHistory *)

Status(s) ==
  CASE ~GateOpen \/ s.epoch # deployment.epoch -> "QUARANTINED"
    [] GateOpen /\ s.epoch = deployment.epoch /\ requests[Id(s)].phase # Open -> "EXPIRED"
    [] OTHER -> IF CurrentCycle(s) THEN "ACTIVE" ELSE "ENDED"

\* The named recipient sees what was asked of him while it is retained.
Disclosed(s, reads) ==
  /\ requests[Id(s)].phase # Purgeable /\ requests[Id(s)].content = "PRESENT"
  /\ GateOpen
  /\ Role(s.plan) \in granted \cap reads

\* recipientPath.
PathShown(s, reads) == Disclosed(s, reads) /\ Status(s) = "ACTIVE"

-----------------------------------------------------------------------------
(* escalationContext *)

CapturedRequests(s) ==
  {t \in CapturedStages : /\ t.obligation = s.obligation /\ t.plan = Request
                          /\ t.generation <= s.generation}

\* Mutant: the first captured request to the owner.
FirstRequest(s) ==
  {t \in CapturedRequests(s) : \A u \in CapturedRequests(s) : t.generation <= u.generation}

\* The latest captured request to the owner.
OriginalRequest(s) ==
  {t \in CapturedRequests(s) : \A u \in CapturedRequests(s) : u.generation <= t.generation}

\* It, and the reminders and the escalation to the owner since.
Entries(s) ==
  {t \in CapturedStages :
     /\ t.obligation = s.obligation /\ Role(t.plan) = "OWNER"
     /\ \E o \in OriginalRequest(s) :
          t = o \/ (t.plan # Request /\ t.generation \in o.generation .. s.generation)}

ContextAvailable(s) == Entries(s) # {} /\ Cardinality(Entries(s)) <= HistoryLimit

-----------------------------------------------------------------------------
(* purge_update_capture_content, and time *)

\* Mutant: a state the content rows do not have.
Discarded(row) == [row EXCEPT !.content = "EXPIRED"]

Purged(row) == [row EXCEPT !.content = "PURGED"]

\* Content whose retention has ended, whatever the gate says.
PurgeCaptureContent ==
  /\ \/ \E i \in DOMAIN requests : requests[i] = [phase |-> Purgeable, content |-> "PRESENT"]
     \/ \E n \in DOMAIN responses : responses[n].due /\ responses[n].content = "PRESENT"
  /\ requests' = [i \in DOMAIN requests |->
       IF requests[i].phase = Purgeable THEN Purged(requests[i]) ELSE requests[i]]
  /\ responses' = [n \in DOMAIN responses |->
       IF responses[n].due THEN Purged(responses[n]) ELSE responses[n]]
  /\ UNCHANGED <<vars, ages>>

\* The content may be due as soon as the invitation expires.
RequestAges(i) ==
  /\ ages < MaxAges /\ MoreEvents /\ ages' = ages + 1
  /\ \E phase \in {Purgeable, Expired} :
       phase < requests[i].phase /\ requests' = [requests EXCEPT ![i].phase = phase]
  /\ UNCHANGED <<vars, responses>>

\* A response is kept as long as its request, from when it was received.
ResponseAges(n) ==
  /\ ~responses[n].due /\ requests[responses[n].request].phase = Purgeable
  /\ responses' = [responses EXCEPT ![n].due = TRUE]
  /\ UNCHANGED <<vars, requests, ages>>

ResponsesNext ==
  \/ EngagementStep
  \/ \E s \in CapturedStages : SubmitResponse(s)
  \/ PurgeCaptureContent
  \/ \E i \in DOMAIN requests : RequestAges(i)
  \/ \E n \in DOMAIN responses : ResponseAges(n)

ResponsesSpec == ResponsesInit /\ [][ResponsesNext]_allVars

\* Recipients and retention owe nothing: only the worker and time are fair.
FairResponsesSpec == ResponsesSpec /\ Fairness

-----------------------------------------------------------------------------
(* Properties *)

ResponsesTypeOK ==
  /\ TypeOK
  /\ DOMAIN requests = {Id(s) : s \in CapturedStages}
  /\ \A i \in DOMAIN requests : requests[i] \in RequestRows
  /\ responses \in Seq(ResponseRows)
  /\ \A n \in DOMAIN responses : responses[n].request \in DOMAIN requests
  /\ ages \in 0 .. MaxAges

\* Three deciders of one question: whoever may open an invitation finds the way to
\* it in his history, which decides on its own which requests are active, and when he
\* answers, the database, which has its own rule for the lineage of a response, does
\* not refuse the answer.
OpenInvitationsUsable ==
  \A s \in CapturedStages, reads \in SUBSET Roles :
    MayAccess(s, reads) => PathShown(s, reads) /\ ResponseAccepted(s)

\* "Locate the latest captured OWNER REQUEST ... Never substitute a different
\* engagement, project, recipient, policy or cycle" (EXEC-020): while the manager can
\* open an escalation, its context is available and has every step that led to it,
\* and each of them is of the generation that is pursued.
EscalationExplained ==
  \A s \in CapturedStages :
    (s.plan = ManagerEscalation /\ MayAccess(s, Roles)) =>
      /\ ContextAvailable(s)
      /\ {t.plan : t \in Entries(s)} = Request .. OwnerEscalation
      /\ \A t \in Entries(s) : CurrentCycle(t) /\ t.epoch = s.epoch
=============================================================================
