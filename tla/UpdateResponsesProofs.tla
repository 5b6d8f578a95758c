----------------------- MODULE UpdateResponsesProofs -----------------------
(***************************************************************************)
(* Theorems about UpdateResponses, for any required facts, any number of   *)
(* reminders that an escalation context has room for, and any number of    *)
(* responses.                                                              *)
(***************************************************************************)
EXTENDS UpdateEngagementProofs, UpdateResponses, FiniteSetTheorems

-----------------------------------------------------------------------------
(* A response only reads the engagement *)

\* Every disjunct is a step of the engagement that leaves the rows of recipients alone.
LEMMA StepsAlongside ==
  EngagementStep => Next /\ Capturing /\ responses' = responses /\ ages' = ages
<1>1. EngagementStep => Next
  BY DEF EngagementStep, Next
<1>2. EngagementStep => Alongside
  BY DEF EngagementStep
<1> QED BY <1>1, <1>2 DEF Alongside

LEMMA EngagementSteps == [ResponsesNext]_allVars => [Next]_vars
<1> SUFFICES ASSUME [ResponsesNext]_allVars PROVE [Next]_vars
  OBVIOUS
<1>1. CASE EngagementStep
  BY <1>1, StepsAlongside
<1>2. CASE ~EngagementStep
  <2>1. UNCHANGED vars
    BY <1>2 DEF ResponsesNext, SubmitResponse, PurgeCaptureContent, RequestAges, ResponseAges,
         allVars
  <2> QED BY <2>1
<1> QED BY <1>1, <1>2

\* Whatever recipients, time and retention do, the engagement behaves as its own
\* specification says: every theorem about it holds here too.
THEOREM EngagementImplemented == ResponsesSpec => Spec
<1>1. ResponsesInit => Init
  BY DEF ResponsesInit
<1> QED BY <1>1, EngagementSteps, PTL DEF ResponsesSpec, Spec

LEMMA EngagementInvariant == ResponsesSpec => []IInv
BY EngagementImplemented, InvariantHolds, PTL

-----------------------------------------------------------------------------
(* Requests belong to captured stages *)

RowsInv ==
  /\ DOMAIN requests = {Id(s) : s \in CapturedStages}
  /\ \A i \in DOMAIN requests : requests[i] \in RequestRows
  /\ responses \in Seq(ResponseRows)
  /\ \A n \in DOMAIN responses : responses[n].request \in DOMAIN requests
  /\ ages \in 0 .. MaxAges

LEMMA RowsInit == ResponsesInit => RowsInv
<1> SUFFICES ASSUME ResponsesInit PROVE RowsInv
  OBVIOUS
<1>1. stages = {} /\ requests = << >> /\ responses = << >> /\ ages = 0
  BY DEF ResponsesInit, Init
<1>2. CapturedStages = {}
  BY <1>1 DEF CapturedStages
<1> QED BY <1>1, <1>2, ResponseAssumption DEF RowsInv

LEMMA CapturingRows ==
  ASSUME IInv, RowsInv, EngagementStep
  PROVE  RowsInv'
<1> DEFINE new == {Id(t) : t \in JustCaptured}
<1>1. /\ [Next]_vars /\ responses' = responses /\ ages' = ages
      /\ requests' = [i \in DOMAIN requests \cup new |->
           IF i \in new THEN [phase |-> Open, content |-> "PRESENT"] ELSE requests[i]]
  BY StepsAlongside DEF Capturing
<1>2. DOMAIN requests' = DOMAIN requests \cup new
  BY <1>1
<1>3. CapturedStages' = {t \in stages' : t.state = "CAPTURED"}
  BY DEF CapturedStages
<1>4. DOMAIN requests \subseteq {Id(t) : t \in CapturedStages'}
  <2> SUFFICES ASSUME NEW s \in CapturedStages
               PROVE  Id(s) \in {Id(t) : t \in CapturedStages'}
    BY DEF RowsInv
  <2>1. s \in stages /\ s.state = "CAPTURED"
    BY DEF CapturedStages
  <2>2. s \in StageRows
    BY <2>1 DEF IInv, StagesInv
  <2>3. PICK t \in stages' :
          /\ [s EXCEPT !.state = t.state, !.epoch = t.epoch, !.elapsed = t.elapsed] = t
          /\ t.state = "CAPTURED"
    BY <1>1, <2>1, StepInv DEF Kept
  <2>4. t.obligation = s.obligation /\ t.generation = s.generation /\ t.plan = s.plan
    BY <2>2, <2>3 DEF StageRows
  <2>5. Id(t) = Id(s)
    BY <2>4 DEF Id
  <2> QED BY <1>3, <2>3, <2>5
<1>5. new = {Id(t) : t \in CapturedStages'} \ DOMAIN requests
  BY <1>3 DEF JustCaptured
<1> HIDE DEF new
<1>6. DOMAIN requests' = {Id(t) : t \in CapturedStages'}
  BY <1>2, <1>4, <1>5
<1>7. [phase |-> Open, content |-> "PRESENT"] \in RequestRows
  BY DEF RequestRows
<1>8. \A i \in DOMAIN requests' : requests'[i] \in RequestRows
  BY <1>1, <1>2, <1>7 DEF RowsInv
<1>9. \A n \in DOMAIN responses' : responses'[n].request \in DOMAIN requests'
  BY <1>1, <1>2 DEF RowsInv
<1>10. (DOMAIN requests = {Id(s) : s \in CapturedStages})'
  BY <1>6
<1> QED BY <1>1, <1>8, <1>9, <1>10 DEF RowsInv

LEMMA PurgedRows ==
  /\ \A row \in RequestRows : Purged(row) \in RequestRows
  /\ \A row \in ResponseRows : Purged(row) \in ResponseRows /\ Purged(row).request = row.request
BY DEF RequestRows, ResponseRows, Purged

LEMMA RowsStep2 ==
  ASSUME IInv, RowsInv, [ResponsesNext]_allVars
  PROVE  RowsInv'
<1>1. CASE EngagementStep
  BY <1>1, CapturingRows
<1>2. ASSUME NEW s \in CapturedStages, SubmitResponse(s) PROVE RowsInv'
  <2> DEFINE row == [request |-> Id(s), due |-> FALSE, content |-> "PRESENT"]
  <2>1. /\ responses' = Append(responses, row)
        /\ stages' = stages /\ requests' = requests /\ ages' = ages
    BY <1>2 DEF SubmitResponse, vars
  <2>2. s \in StageRows
    BY DEF IInv, StagesInv, CapturedStages
  <2>3. Id(s) \in Ids
    BY <2>2 DEF Id, Ids, StageRows
  <2>4. row \in ResponseRows /\ row.request = Id(s) /\ Id(s) \in DOMAIN requests
    BY <2>3 DEF ResponseRows, RowsInv
  <2> HIDE DEF row
  <2>5. responses' \in Seq(ResponseRows)
    BY <2>1, <2>4 DEF RowsInv
  <2>6. \A n \in DOMAIN responses' : responses'[n] = row \/
          (n \in DOMAIN responses /\ responses'[n] = responses[n])
    BY <2>1, <2>4 DEF RowsInv
  <2>7. \A n \in DOMAIN responses' : responses'[n].request \in DOMAIN requests'
    BY <2>1, <2>4, <2>6 DEF RowsInv
  <2>8. CapturedStages' = CapturedStages
    BY <2>1 DEF CapturedStages
  <2>9. (DOMAIN requests = {Id(t) : t \in CapturedStages})'
    BY <2>1, <2>8 DEF RowsInv
  <2> QED BY <2>1, <2>5, <2>7, <2>9 DEF RowsInv
<1>3. CASE PurgeCaptureContent
  <2>1. /\ requests' = [i \in DOMAIN requests |->
             IF requests[i].phase = Purgeable THEN Purged(requests[i]) ELSE requests[i]]
        /\ responses' = [n \in DOMAIN responses |->
             IF responses[n].due THEN Purged(responses[n]) ELSE responses[n]]
        /\ stages' = stages /\ ages' = ages
    BY <1>3 DEF PurgeCaptureContent, vars
  <2>2. /\ responses \in Seq(ResponseRows)
        /\ \A n \in DOMAIN responses : responses[n] \in ResponseRows
    BY DEF RowsInv
  <2>3. DOMAIN requests' = DOMAIN requests /\ DOMAIN responses' = DOMAIN responses
    BY <2>1
  <2>4. \A i \in DOMAIN requests' : requests'[i] \in RequestRows
    BY <2>1, PurgedRows DEF RowsInv
  <2>5. \A n \in DOMAIN responses' :
          responses'[n] \in ResponseRows /\ responses'[n].request \in DOMAIN requests'
    BY <2>1, <2>2, <2>3, PurgedRows DEF RowsInv
  <2>6. responses' \in Seq(ResponseRows)
    <3>1. Len(responses) \in Nat /\ DOMAIN responses = 1 .. Len(responses)
      BY <2>2
    <3>2. responses' \in [1 .. Len(responses) -> ResponseRows]
      BY <2>1, <2>3, <2>5, <3>1
    <3> QED BY <3>1, <3>2, SeqDef
  <2>7. CapturedStages' = CapturedStages
    BY <2>1 DEF CapturedStages
  <2>8. (DOMAIN requests = {Id(t) : t \in CapturedStages})'
    BY <2>3, <2>7 DEF RowsInv
  <2> QED BY <2>1, <2>4, <2>5, <2>6, <2>8 DEF RowsInv
<1>4. ASSUME NEW i \in DOMAIN requests, RequestAges(i) PROVE RowsInv'
  <2>1. PICK phase \in {Purgeable, Expired} : requests' = [requests EXCEPT ![i].phase = phase]
    BY <1>4 DEF RequestAges
  <2>2. /\ stages' = stages /\ responses' = responses
        /\ ages < MaxAges /\ ages' = ages + 1
    BY <1>4 DEF RequestAges, vars
  <2>3. \A row \in RequestRows : [row EXCEPT !.phase = phase] \in RequestRows
    BY DEF RequestRows
  <2>4. DOMAIN requests' = DOMAIN requests /\ \A j \in DOMAIN requests : requests'[j] \in RequestRows
    BY <2>1, <2>3 DEF RowsInv
  <2>5. ages' \in 0 .. MaxAges
    BY <2>2, ResponseAssumption DEF RowsInv
  <2>6. CapturedStages' = CapturedStages
    BY <2>2 DEF CapturedStages
  <2>7. (DOMAIN requests = {Id(t) : t \in CapturedStages})'
    BY <2>4, <2>6 DEF RowsInv
  <2> QED BY <2>2, <2>4, <2>5, <2>7 DEF RowsInv
<1>5. ASSUME NEW n \in DOMAIN responses, ResponseAges(n) PROVE RowsInv'
  <2>1. /\ responses' = [responses EXCEPT ![n].due = TRUE]
        /\ stages' = stages /\ requests' = requests /\ ages' = ages
    BY <1>5 DEF ResponseAges, vars
  <2>2. \A row \in ResponseRows :
          /\ [row EXCEPT !.due = TRUE] \in ResponseRows
          /\ [row EXCEPT !.due = TRUE].request = row.request
    BY DEF ResponseRows
  <2>3. responses[n] \in ResponseRows
    BY DEF RowsInv
  <2> DEFINE row == [responses[n] EXCEPT !.due = TRUE]
  <2>4. row \in ResponseRows /\ row.request = responses[n].request
    BY <2>2, <2>3
  <2>5. responses' = [responses EXCEPT ![n] = row]
    BY <2>1
  <2> HIDE DEF row
  <2>6. responses' \in Seq(ResponseRows) /\ DOMAIN responses' = DOMAIN responses
    BY <2>4, <2>5 DEF RowsInv
  <2>7. \A m \in DOMAIN responses' : responses'[m].request = responses[m].request
    BY <2>4, <2>5, <2>6 DEF RowsInv
  <2>8. CapturedStages' = CapturedStages
    BY <2>1 DEF CapturedStages
  <2>9. (DOMAIN requests = {Id(t) : t \in CapturedStages})'
    BY <2>1, <2>8 DEF RowsInv
  <2> QED BY <2>1, <2>6, <2>7, <2>9 DEF RowsInv
<1>6. CASE UNCHANGED allVars
  <2>1. stages' = stages /\ requests' = requests /\ responses' = responses /\ ages' = ages
    BY <1>6 DEF allVars, responseVars, vars, rows
  <2>2. CapturedStages' = CapturedStages
    BY <2>1 DEF CapturedStages
  <2> QED BY <2>1, <2>2 DEF RowsInv
<1> QED BY <1>1, <1>2, <1>3, <1>4, <1>5, <1>6 DEF ResponsesNext

\* Every captured request belongs to a stage whose receipt is captured and the
\* reverse, and every response to a captured request: what is purged, aged or
\* answered keeps its row.
THEOREM ResponsesTyped == ResponsesSpec => []ResponsesTypeOK
<1>1. ResponsesInit => RowsInv
  BY RowsInit
<1>2. IInv /\ RowsInv /\ [ResponsesNext]_allVars => RowsInv'
  BY RowsStep2
<1>3. ResponsesSpec => []RowsInv
  BY <1>1, <1>2, EngagementInvariant, PTL DEF ResponsesSpec
<1>4. IInv /\ RowsInv => ResponsesTypeOK
  BY DEF IInv, Settings, ObligationsInv, StagesInv, TypeOK, RowsInv, ResponsesTypeOK
<1> QED BY <1>3, <1>4, EngagementInvariant, PTL

-----------------------------------------------------------------------------
(* The three deciders of an invitation agree *)

\* Whoever may open an invitation finds the way to it in his history and may
\* answer it: in every state the two later deciders are no stricter.
THEOREM InvitationsStayUsable == ResponsesSpec => []OpenInvitationsUsable
<1>1. OpenInvitationsUsable
  <2> SUFFICES ASSUME NEW s \in CapturedStages, NEW reads \in SUBSET Roles, MayAccess(s, reads)
               PROVE  PathShown(s, reads) /\ ResponseAccepted(s)
    BY DEF OpenInvitationsUsable
  <2>1. /\ GateOpen /\ s.epoch = deployment.epoch /\ CurrentCycle(s)
        /\ Role(s.plan) \in granted \cap reads
        /\ requests[Id(s)] = [phase |-> Open, content |-> "PRESENT"]
    BY DEF MayAccess, Authentic
  <2>2. requests[Id(s)].phase = Open /\ requests[Id(s)].content = "PRESENT"
    BY <2>1
  <2>3. Status(s) = "ACTIVE"
    BY <2>1, <2>2 DEF Status
  <2>4. Disclosed(s, reads)
    BY <2>1, <2>2 DEF Disclosed, Open, Purgeable
  <2>5. ResponseAccepted(s)
    BY <2>1, <2>2 DEF ResponseAccepted, GateOpen, CurrentCycle
  <2> QED BY <2>3, <2>4, <2>5 DEF PathShown
<1> QED BY <1>1, PTL

-----------------------------------------------------------------------------
(* The context of an escalation *)

LEMMA EscalationEntries ==
  ASSUME IInv, NEW s \in CapturedStages, s.plan = ManagerEscalation
  PROVE  /\ {t.plan : t \in Entries(s)} = Request .. OwnerEscalation
         /\ \A t \in Entries(s) :
              /\ t \in CapturedStages /\ t.obligation = s.obligation
              /\ t.generation = s.generation /\ t.epoch = s.epoch
<1>1. /\ stages \subseteq StageRows /\ (\A t \in stages : StageInv(obligations, t))
      /\ Unrepeated(stages) /\ Asked(stages) /\ Unbroken(stages)
  BY DEF IInv, StagesInv
<1>2. s \in stages /\ s \in StageRows /\ s.state = "CAPTURED"
  BY <1>1 DEF CapturedStages
<1>3. \A q \in Request .. OwnerEscalation : \E t \in stages : Follows(stages, s, q, t)
  BY <1>1, <1>2, EngagementAssumption DEF Unbroken, ManagerEscalation, OwnerEscalation, Request
<1>4. s.generation \in RequestGenerations(stages, s)
  <2>1. s.mode = "CAPTURE"
    BY <1>1, <1>2 DEF StageInv
  <2>2. PICK r \in stages : r.obligation = s.obligation /\ r.generation = s.generation
                              /\ r.plan = Request
    BY <1>1, <1>2, <2>1 DEF Asked
  <2>3. s.generation \in Nat
    BY <1>2 DEF StageRows
  <2> QED BY <2>2, <2>3 DEF RequestGenerations
<1>5. \A q, t : (q \in Request .. OwnerEscalation /\ t \in stages /\ Follows(stages, s, q, t)) =>
        /\ t \in CapturedStages /\ t.obligation = s.obligation /\ t.plan = q
        /\ t.generation = s.generation /\ t.epoch = s.epoch
  <2> SUFFICES ASSUME NEW q, NEW t \in stages, Follows(stages, s, q, t)
               PROVE  /\ t \in CapturedStages /\ t.obligation = s.obligation /\ t.plan = q
                      /\ t.generation = s.generation /\ t.epoch = s.epoch
    OBVIOUS
  <2>1. t.generation \in Nat /\ s.generation \in Nat
    BY <1>1, <1>2 DEF StageRows
  <2>2. t.generation <= s.generation /\ s.generation <= t.generation
    BY <1>4 DEF Follows
  <2>3. t.generation = s.generation
    BY <2>1, <2>2
  <2> QED BY <2>3 DEF Follows, CapturedStages
<1>6. PICK r \in stages : Follows(stages, s, Request, r)
  <2>1. Request \in Request .. OwnerEscalation
    BY EngagementAssumption DEF Request, OwnerEscalation
  <2> QED BY <1>3, <2>1
<1>7. /\ r \in CapturedStages /\ r.obligation = s.obligation /\ r.plan = Request
      /\ r.generation = s.generation /\ r.epoch = s.epoch
  <2>1. Request \in Request .. OwnerEscalation
    BY EngagementAssumption DEF Request, OwnerEscalation
  <2> QED BY <1>5, <1>6, <2>1
<1>8. OriginalRequest(s) = {r}
  <2>1. s.generation \in Nat
    BY <1>2 DEF StageRows
  <2>2. r \in CapturedRequests(s)
    BY <1>7, <2>1 DEF CapturedRequests
  <2>3. \A t \in CapturedRequests(s) :
          /\ t \in stages /\ t \in StageRows /\ t.obligation = s.obligation /\ t.plan = Request
          /\ t.generation <= s.generation
    BY <1>1 DEF CapturedRequests, CapturedStages
  <2>4. \A t \in CapturedRequests(s) : t.generation <= r.generation
    BY <1>7, <2>3
  <2>5. \A t \in OriginalRequest(s) : t = r
    <3> SUFFICES ASSUME NEW t \in OriginalRequest(s) PROVE t = r
      OBVIOUS
    <3>1. t \in CapturedRequests(s) /\ r.generation <= t.generation
      BY <2>2 DEF OriginalRequest
    <3>2. t.generation = r.generation
      <4>1. t.generation \in Nat /\ r.generation \in Nat
        BY <1>7, <2>1, <2>3, <3>1 DEF StageRows
      <4>2. t.generation <= r.generation /\ r.generation <= t.generation
        BY <2>4, <3>1
      <4> QED BY <4>1, <4>2
    <3> QED BY <1>1, <1>7, <2>3, <3>1, <3>2 DEF Unrepeated, CapturedStages
  <2>6. r \in OriginalRequest(s)
    BY <2>2, <2>4 DEF OriginalRequest
  <2> QED BY <2>5, <2>6
<1>9. \A t : t \in Entries(s) <=>
        /\ t \in CapturedStages /\ t.obligation = s.obligation /\ Role(t.plan) = "OWNER"
        /\ t = r \/ (t.plan # Request /\ t.generation \in s.generation .. s.generation)
  BY <1>7, <1>8 DEF Entries
<1>10. \A t \in Entries(s) : t.generation = s.generation /\ t.plan \in Request .. OwnerEscalation
  <2> SUFFICES ASSUME NEW t \in Entries(s)
               PROVE  t.generation = s.generation /\ t.plan \in Request .. OwnerEscalation
    OBVIOUS
  <2>1. t \in CapturedStages /\ Role(t.plan) = "OWNER"
    BY <1>9
  <2>2. t.generation = s.generation
    <3>1. s.generation \in Nat
      BY <1>2 DEF StageRows
    <3> QED BY <1>7, <1>9, <3>1
  <2>3. t.plan \in Plans /\ t.plan # ManagerEscalation
    BY <1>1, <2>1 DEF CapturedStages, StageInv, Role
  <2>4. t.plan \in Request .. OwnerEscalation
    BY <2>3, EngagementAssumption
       DEF Plans, LastPlan, ManagerEscalation, OwnerEscalation, Request
  <2> QED BY <2>2, <2>4
<1>11. \A t \in Entries(s) : Follows(stages, s, t.plan, t)
  <2> SUFFICES ASSUME NEW t \in Entries(s) PROVE Follows(stages, s, t.plan, t)
    OBVIOUS
  <2>1. t \in stages /\ t.obligation = s.obligation /\ t.generation = s.generation
    BY <1>9, <1>10 DEF CapturedStages
  <2>2. PICK u \in stages : Follows(stages, s, t.plan, u)
    BY <1>3, <1>10
  <2>3. u.obligation = s.obligation /\ u.plan = t.plan /\ u.generation = s.generation
    BY <1>5, <1>10, <2>2
  <2>4. u = t
    BY <1>1, <2>1, <2>3 DEF Unrepeated
  <2> QED BY <2>2, <2>4
<1>12. \A t \in Entries(s) :
         /\ t \in CapturedStages /\ t.obligation = s.obligation
         /\ t.generation = s.generation /\ t.epoch = s.epoch
  BY <1>9, <1>10, <1>11 DEF Follows
<1>13. Request .. OwnerEscalation \subseteq {t.plan : t \in Entries(s)}
  <2> SUFFICES ASSUME NEW q \in Request .. OwnerEscalation
               PROVE  \E t \in Entries(s) : t.plan = q
    OBVIOUS
  <2>1. CASE q = Request
    <3>1. Role(Request) = "OWNER"
      BY EngagementAssumption DEF Role, Request, ManagerEscalation
    <3> QED BY <1>7, <1>9, <2>1, <3>1
  <2>2. CASE q # Request
    <3>1. PICK t \in stages : Follows(stages, s, q, t)
      BY <1>3
    <3>2. /\ t \in CapturedStages /\ t.obligation = s.obligation /\ t.plan = q
          /\ t.generation = s.generation
      BY <1>5, <3>1
    <3>3. Role(q) = "OWNER"
      BY EngagementAssumption DEF Role, Request, OwnerEscalation, ManagerEscalation
    <3>4. s.generation \in s.generation .. s.generation
      BY <1>2 DEF StageRows
    <3> QED BY <1>9, <2>2, <3>2, <3>3, <3>4
  <2> QED BY <2>1, <2>2
<1> QED BY <1>10, <1>12, <1>13

\* Entries are named by their plans, so there are no more than the chain has
\* plans for the owner.
LEMMA EntriesFit ==
  ASSUME IInv, NEW s \in CapturedStages, s.plan = ManagerEscalation
  PROVE  ContextAvailable(s)
<1> DEFINE entries == Entries(s)
<1> DEFINE plans == Request .. OwnerEscalation
<1> DEFINE f == [t \in entries |-> t.plan]
<1>1. /\ {t.plan : t \in entries} = plans
      /\ \A t \in entries : t \in stages /\ t.obligation = s.obligation
                              /\ t.generation = s.generation
  BY EscalationEntries DEF CapturedStages
<1> HIDE DEF entries
<1>2. Request \in Int /\ OwnerEscalation \in Int /\ Request <= OwnerEscalation
  BY EngagementAssumption DEF Request, OwnerEscalation
<1>3. IsFiniteSet(plans) /\ Cardinality(plans) = OwnerEscalation + 1
  BY <1>2, FS_Interval DEF Request
<1>4. f \in [entries -> plans]
  BY <1>1
<1>5. \A t, u \in entries : f[t] = f[u] => t = u
  BY <1>1 DEF IInv, StagesInv, Unrepeated
<1>6. f \in Injection(entries, plans)
  BY <1>4, <1>5 DEF Injection, IsInjective
<1>7. IsFiniteSet(entries) /\ Cardinality(entries) <= Cardinality(plans)
  BY <1>3, <1>6, FS_Injection
<1>8. Cardinality(entries) \in Nat
  BY <1>7, FS_CardinalityType
<1>9. Request \in plans
  BY <1>2
<1>10. entries # {}
  BY <1>1, <1>9
<1>11. Cardinality(entries) <= HistoryLimit
  BY <1>2, <1>3, <1>7, <1>8, ResponseAssumption
<1> QED BY <1>10, <1>11 DEF entries, ContextAvailable

\* While the manager can open an escalation, its context is available and has
\* every step that led to it, each of the generation that is pursued.
THEOREM EscalationsStayExplained == ResponsesSpec => []EscalationExplained
<1>1. IInv => EscalationExplained
  <2> SUFFICES ASSUME IInv, NEW s \in CapturedStages,
                      s.plan = ManagerEscalation, MayAccess(s, Roles)
               PROVE  /\ ContextAvailable(s)
                      /\ {t.plan : t \in Entries(s)} = Request .. OwnerEscalation
                      /\ \A t \in Entries(s) : CurrentCycle(t) /\ t.epoch = s.epoch
    BY DEF EscalationExplained
  <2>1. ContextAvailable(s)
    BY EntriesFit
  <2>2. CurrentCycle(s)
    BY DEF MayAccess
  <2>3. \A t \in Entries(s) : CurrentCycle(t)
    BY <2>2, EscalationEntries DEF CurrentCycle
  <2> QED BY <2>1, <2>3, EscalationEntries
<1> QED BY <1>1, EngagementInvariant, PTL
=============================================================================
