------------------------- MODULE JiraRuntimeProofs -------------------------
(***************************************************************************)
(* Theorems about JiraRuntime, for every number of jobs, pages, requests   *)
(* and events.                                                             *)
(***************************************************************************)
EXTENDS JiraRuntime, TLAPS

-----------------------------------------------------------------------------
(* Types of the helpers *)

LEMMA HelperTypes ==
  ASSUME NEW a \in Nat, NEW b \in Nat
  PROVE  Max2(a, b) \in Nat /\ Less(a) \in Nat
BY DEF Max2, Less

LEMMA RowTypes ==
  ASSUME source \in SourceRows,
         NEW kind \in Kinds, NEW reset \in BOOLEAN, NEW row \in JobRows
  PROVE  /\ NoJob \in JobRows
         /\ NewJob(kind, reset) \in JobRows
         /\ Expired(row) \in JobRows
         /\ Claimed(row) \in JobRows
<1>1. NoJob \in JobRows
  BY DEF NoJob, JobRows, JobStates, Kinds
<1>2. NewJob(kind, reset) \in JobRows
  BY <1>1 DEF NewJob, JobRows, JobStates, SourceRows
<1>3. Expired(row) \in JobRows
  BY DEF Expired, JobRows, JobStates
<1>4. Claimed(row) \in JobRows
  <2>1. row.attempts + 1 \in Nat
    BY DEF JobRows
  <2> QED BY <2>1, ConnectorAssumption DEF ConnectorAssumption, Claimed, JobRows, JobStates
<1> QED BY <1>1, <1>2, <1>3, <1>4

-----------------------------------------------------------------------------
(* Every transaction preserves the types of the rows *)

LEMMA EnqueueTypes ==
  ASSUME DbTypeOK, NEW j \in Jobs, EnqueueDueJobs(j)
  PROVE  DbTypeOK'
<1>1. source' \in SourceRows
  BY DEF DbTypeOK, EnqueueDueJobs, SourceRows
<1>2. jobs' \in [Jobs -> JobRows]
  BY RowTypes DEF DbTypeOK, EnqueueDueJobs, Kinds
<1> QED BY <1>1, <1>2 DEF DbTypeOK, EnqueueDueJobs

LEMMA SweptType ==
  ASSUME DbTypeOK
  PROVE  Swept \in [Jobs -> JobRows]
BY RowTypes DEF DbTypeOK, Swept, Kinds

LEMMA ClaimTypes ==
  ASSUME DbTypeOK
  PROVE  /\ \A j \in Jobs : ClaimNextJob(j) => DbTypeOK'
         /\ ClaimNothing => DbTypeOK'
<1>1. /\ \A row \in JobRows : Expired(row) \in JobRows /\ Claimed(row) \in JobRows
  BY RowTypes DEF DbTypeOK, Kinds
<1>2. ASSUME NEW j \in Jobs, ClaimNextJob(j) PROVE DbTypeOK'
  <2>1. jobs' \in [Jobs -> JobRows]
    BY <1>1, <1>2, SweptType DEF ClaimNextJob
  <2> QED BY <1>2, <2>1 DEF DbTypeOK, ClaimNextJob
<1>3. ASSUME ClaimNothing PROVE DbTypeOK'
  <2>1. jobs' \in [Jobs -> JobRows]
    BY <1>1, <1>3, SweptType DEF ClaimNothing
  <2> QED BY <1>3, <2>1 DEF DbTypeOK, ClaimNothing
<1> QED BY <1>2, <1>3

LEMMA ResetTypes ==
  ASSUME DbTypeOK, NEW j \in Jobs, ResetConnectorCursorForJob(j)
  PROVE  DbTypeOK'
<1>1. source' \in SourceRows
  <2>1. source.revision + 1 \in Nat /\ source.generation + 1 \in Nat
    BY DEF DbTypeOK, SourceRows
  <2> QED BY <2>1 DEF DbTypeOK, ResetConnectorCursorForJob, SourceRows, CursorStates
<1>2. jobs' \in [Jobs -> JobRows]
  <2>1. [jobs[j] EXCEPT !.state = "READY", !.resetCompleted = TRUE,
                        !.lease = 0, !.delay = 0] \in JobRows
    BY DEF DbTypeOK, JobRows, JobStates
  <2>2. jobs' = [jobs EXCEPT ![j] = [jobs[j] EXCEPT !.state = "READY", !.resetCompleted = TRUE,
                                                    !.lease = 0, !.delay = 0]]
    BY DEF DbTypeOK, ResetConnectorCursorForJob
  <2> QED BY <2>1, <2>2 DEF DbTypeOK
<1>3. pages' \in Seq([page : Nat, config : Nat])
  BY DEF ResetConnectorCursorForJob
<1> QED BY <1>1, <1>2, <1>3 DEF DbTypeOK, ResetConnectorCursorForJob

LEMMA PersistTypes ==
  ASSUME DbTypeOK, NEW j \in Jobs, NEW n \in Jobs, NEW page \in Nat,
         PersistConnectorPageForJob(j, n, page)
  PROVE  DbTypeOK'
<1>1. source' \in SourceRows
  <2>1. source.revision + 1 \in Nat
    BY DEF DbTypeOK, SourceRows
  <2> QED BY <2>1 DEF DbTypeOK, PersistConnectorPageForJob, SourceRows, CursorStates, Healths
<1>2. jobs' \in [Jobs -> JobRows]
  <2>1. [jobs[j] EXCEPT !.state = "COMPLETED", !.lease = 0] \in JobRows
    BY DEF DbTypeOK, JobRows, JobStates
  <2>2. NewJob("SCHEDULED", FALSE) \in JobRows
    BY RowTypes DEF DbTypeOK, Kinds
  <2> QED BY <2>1, <2>2 DEF DbTypeOK, PersistConnectorPageForJob
<1>3. pages' \in Seq([page : Nat, config : Nat])
  <2>1. [page |-> page, config |-> jobs[j].config] \in [page : Nat, config : Nat]
    BY DEF DbTypeOK, JobRows
  <2> QED BY <2>1 DEF DbTypeOK, PersistConnectorPageForJob
<1> QED BY <1>1, <1>2, <1>3 DEF DbTypeOK, PersistConnectorPageForJob

LEMMA FailTypes ==
  ASSUME DbTypeOK, NEW j \in Jobs, NEW code \in Codes, NEW wait \in Nat,
         FailRunningJob(j, code, wait)
  PROVE  DbTypeOK'
<1>1. source' \in SourceRows
  BY DEF DbTypeOK, FailRunningJob, SourceRows, Healths
<1>2. jobs' \in [Jobs -> JobRows]
  <2>1. Max2(wait, Backoff) \in Nat
    BY ConnectorAssumption, HelperTypes DEF ConnectorAssumption
  <2>2. \A n \in Nat, state \in {"READY", "FAILED"} :
          [jobs[j] EXCEPT !.state = state, !.lease = 0, !.delay = n] \in JobRows
    BY DEF DbTypeOK, JobRows, JobStates
  <2> DEFINE delay == IF code \in Retryable THEN Max2(wait, Backoff) ELSE 0
             state == IF WillRetry(j, code) THEN "READY" ELSE "FAILED"
  <2>3. jobs' = [jobs EXCEPT ![j] = [jobs[j] EXCEPT !.state = state, !.lease = 0, !.delay = delay]]
    BY DEF DbTypeOK, FailRunningJob
  <2>4. delay \in Nat /\ state \in {"READY", "FAILED"}
    BY <2>1
  <2> HIDE DEF delay, state
  <2> QED BY <2>2, <2>3, <2>4 DEF DbTypeOK
<1>3. credential' \in CredentialRows
  <2>1. credential.revision + 1 \in Nat
    BY DEF DbTypeOK, CredentialRows
  <2> QED BY <2>1 DEF DbTypeOK, FailRunningJob, CredentialRows, CredentialStates
<1> QED BY <1>1, <1>2, <1>3 DEF DbTypeOK, FailRunningJob

LEMMA ExpireTypes ==
  ASSUME DbTypeOK, NEW j \in Jobs, ExpireRunningJob(j)
  PROVE  DbTypeOK'
<1>1. jobs' \in [Jobs -> JobRows]
  BY RowTypes DEF DbTypeOK, ExpireRunningJob, Kinds
<1> QED BY <1>1 DEF DbTypeOK, ExpireRunningJob

LEMMA WebhookTypes ==
  ASSUME DbTypeOK, NEW e \in Events, NEW j \in Jobs, AcceptWebhook(e, j)
  PROVE  DbTypeOK'
<1>1. /\ NewJob("WEBHOOK", TRUE) \in JobRows
      /\ \A row \in JobRows : Expired(row) \in JobRows
  BY RowTypes DEF DbTypeOK, Kinds
<1>2. jobs' \in [Jobs -> JobRows]
  BY <1>1 DEF DbTypeOK, AcceptWebhook
<1>3. receipts' \in [Events -> Jobs \cup {0}]
  BY DEF DbTypeOK, AcceptWebhook
<1> QED BY <1>2, <1>3 DEF DbTypeOK, AcceptWebhook

LEMMA ConfigureTypes ==
  ASSUME DbTypeOK, NEW connector \in BOOLEAN, Configure(connector)
  PROVE  DbTypeOK'
<1>1. source' \in SourceRows
  <2>1. source.config + 1 \in Nat
    BY DEF DbTypeOK, SourceRows
  <2> QED BY <2>1 DEF DbTypeOK, Configure, SourceRows, CursorStates
<1>2. jobs' \in [Jobs -> JobRows]
  <2>1. \A row \in JobRows : Expired(row) \in JobRows
    BY RowTypes DEF DbTypeOK, Kinds
  <2> QED BY <2>1 DEF DbTypeOK, Configure
<1> QED BY <1>1, <1>2 DEF DbTypeOK, Configure

LEMMA CredentialTypes ==
  ASSUME DbTypeOK, NEW token \in Nat, NEW rotation
  PROVE  /\ SetOAuthCredential(token) => DbTypeOK'
         /\ BeginRotation => DbTypeOK'
         /\ AbandonLapsedRotation => DbTypeOK'
         /\ CompleteOAuthRotation(rotation, token) => DbTypeOK'
         /\ CompleteStaleRotation(rotation) => DbTypeOK'
         /\ FailOAuthRotation(rotation) => DbTypeOK'
         /\ TokenNearsExpiry => DbTypeOK'
<1>1. credential.revision + 1 \in Nat
  BY DEF DbTypeOK, CredentialRows
<1>2. ASSUME credential' \in CredentialRows,
             UNCHANGED <<source, jobs, pages, receipts>>
      PROVE  DbTypeOK'
  BY <1>2 DEF DbTypeOK
<1>3. SetOAuthCredential(token) => DbTypeOK'
  BY <1>1, <1>2 DEF DbTypeOK, SetOAuthCredential, CredentialRows, CredentialStates
<1>4. BeginRotation => DbTypeOK'
  <2>1. RotationTicks \in Nat
    BY ConnectorAssumption DEF ConnectorAssumption
  <2> QED BY <1>1, <1>2, <2>1 DEF DbTypeOK, BeginRotation, CredentialRows, CredentialStates
<1>5. ASSUME RequireReauthorization PROVE credential' \in CredentialRows
  BY <1>1, <1>5 DEF DbTypeOK, RequireReauthorization, CredentialRows, CredentialStates
<1>6. ASSUME CompleteOAuthRotation(rotation, token) PROVE DbTypeOK'
  <2>1. \A n \in Nat : [credential EXCEPT !.state = "ACTIVE", !.revision = n, !.token = token,
                                          !.operation = 0, !.deadline = 0, !.usable = TRUE]
                       \in CredentialRows
    BY DEF DbTypeOK, CredentialRows, CredentialStates
  <2>2. credential' \in CredentialRows
    BY <1>1, <1>6, <2>1 DEF CompleteOAuthRotation
  <2> QED BY <1>2, <1>6, <2>2 DEF CompleteOAuthRotation
<1>7. TokenNearsExpiry => DbTypeOK'
  BY <1>2 DEF DbTypeOK, TokenNearsExpiry, CredentialRows
<1> QED
  BY <1>2, <1>3, <1>4, <1>5, <1>6, <1>7
  DEF AbandonLapsedRotation, CompleteStaleRotation, FailOAuthRotation

LEMMA DeferTypes ==
  ASSUME DbTypeOK, NEW j \in Jobs, NEW wait \in Nat, DeferOAuthRotation(j, wait)
  PROVE  DbTypeOK'
<1>1. source' \in SourceRows
  BY DEF DbTypeOK, DeferOAuthRotation, SourceRows, Healths
<1>2. jobs' \in [Jobs -> JobRows]
  <2>1. Max2(wait, Backoff) \in Nat
    BY ConnectorAssumption, HelperTypes DEF ConnectorAssumption
  <2>2. \A n \in Nat, state \in {"READY", "FAILED"} :
          [jobs[j] EXCEPT !.state = state, !.lease = 0, !.delay = n] \in JobRows
    BY DEF DbTypeOK, JobRows, JobStates
  <2> DEFINE delay == Max2(wait, Backoff)
             state == IF jobs[j].attempts < RetryBudget THEN "READY" ELSE "FAILED"
  <2>3. jobs' = [jobs EXCEPT ![j] = [jobs[j] EXCEPT !.state = state, !.lease = 0, !.delay = delay]]
    BY DEF DbTypeOK, DeferOAuthRotation
  <2>4. delay \in Nat /\ state \in {"READY", "FAILED"}
    BY <2>1
  <2> HIDE DEF delay, state
  <2> QED BY <2>2, <2>3, <2>4 DEF DbTypeOK
<1>3. credential' \in CredentialRows
  <2>1. credential.revision + 1 \in Nat
    BY DEF DbTypeOK, CredentialRows
  <2> QED BY <2>1 DEF DbTypeOK, DeferOAuthRotation, CredentialRows, CredentialStates
<1> QED BY <1>1, <1>2, <1>3 DEF DbTypeOK, DeferOAuthRotation

LEMMA TimeTypes ==
  ASSUME DbTypeOK
  PROVE  /\ TickRows => DbTypeOK'
         /\ SlotBegins => DbTypeOK'
         /\ \A j \in Jobs : JobAges(j) => DbTypeOK'
<1>1. ASSUME TickRows PROVE DbTypeOK'
  <2>1. jobs' \in [Jobs -> JobRows]
    <3>1. \A j \in Jobs : Less(jobs[j].lease) \in Nat /\ Less(jobs[j].delay) \in Nat
      BY HelperTypes DEF DbTypeOK, JobRows
    <3> QED BY <1>1, <3>1 DEF DbTypeOK, TickRows, JobRows
  <2>2. credential' \in CredentialRows
    <3>1. Less(credential.deadline) \in Nat
      BY HelperTypes DEF DbTypeOK, CredentialRows
    <3> QED BY <1>1, <3>1 DEF DbTypeOK, TickRows, CredentialRows
  <2> QED BY <1>1, <2>1, <2>2 DEF DbTypeOK, TickRows
<1>2. ASSUME SlotBegins PROVE DbTypeOK'
  <2>1. source.slot + 1 \in Nat
    BY DEF DbTypeOK, SourceRows
  <2>2. source' \in SourceRows
    BY <1>2, <2>1 DEF DbTypeOK, SlotBegins, SourceRows
  <2> QED BY <1>2, <2>2 DEF DbTypeOK, SlotBegins
<1>3. ASSUME NEW j \in Jobs, JobAges(j) PROVE DbTypeOK'
  <2>1. jobs' \in [Jobs -> JobRows]
    BY <1>3 DEF DbTypeOK, JobAges, JobRows
  <2> QED BY <1>3, <2>1 DEF DbTypeOK, JobAges
<1> QED BY <1>1, <1>2, <1>3

-----------------------------------------------------------------------------
(* What a step does to the request that takes it *)

\* A request that is not idle works on a row of the table.
Busy == \A r \in Requests : At(r, "idle") \/ Job(r) \in Jobs

RequestOK == request \in [Requests -> RequestRecords] /\ Busy

TypeInv == TypeOK /\ Busy

LEMMA IdleType == Idle \in RequestRecords
<1>1. /\ [config |-> 0, revision |-> 0, generation |-> 0] \in Expectations
      /\ NoRotation \in Rotations
  BY DEF Expectations, Rotations, NoRotation
<1> QED BY <1>1 DEF Idle, RequestRecords, Steps, Codes

\* One row of request replaced by another.
LEMMA RowReplaced ==
  ASSUME RequestOK, NEW r \in Requests, NEW row \in RequestRecords,
         row.step = "idle" \/ row.job \in Jobs,
         request' = [request EXCEPT ![r] = row]
  PROVE  RequestOK'
BY DEF RequestOK, Busy, At, Job

LEMMA DoneTypes ==
  ASSUME RequestOK, NEW r \in Requests, Done(r)
  PROVE  RequestOK'
<1>1. Idle.step = "idle"
  BY DEF Idle
<1> QED BY <1>1, IdleType, RowReplaced DEF Done

LEMMA GotoTypes ==
  ASSUME RequestOK, NEW r \in Requests, NEW step \in Steps, Job(r) \in Jobs, Goto(r, step)
  PROVE  RequestOK'
<1> DEFINE row == [request[r] EXCEPT !.step = step]
<1>1. row \in RequestRecords /\ row.job \in Jobs
  BY DEF RequestOK, RequestRecords, Job
<1>2. request' = [request EXCEPT ![r] = row]
  BY DEF RequestOK, Goto
<1> HIDE DEF row
<1> QED BY <1>1, <1>2, RowReplaced

LEMMA FailingTypes ==
  ASSUME RequestOK, NEW r \in Requests, Job(r) \in Jobs,
         NEW code \in Codes, NEW wait \in Nat, NEW caught \in BOOLEAN,
         Failing(r, code, wait, caught)
  PROVE  RequestOK'
<1> DEFINE row == [Idle EXCEPT !.step = "fail", !.job = Job(r), !.claim = Claim(r),
                               !.code = code, !.wait = wait, !.caught = caught]
<1>1. Claim(r) \in Nat
  BY DEF RequestOK, RequestRecords, Claim
<1>2. row \in RequestRecords /\ row.job \in Jobs
  BY <1>1, IdleType DEF RequestRecords, Steps
<1>3. request' = [request EXCEPT ![r] = row]
  BY DEF Failing
<1> HIDE DEF row
<1> QED BY <1>2, <1>3, RowReplaced

LEMMA FailuresTypes ==
  ASSUME NEW f \in Failures
  PROVE  f.code \in Codes /\ f.wait \in Nat
BY RuntimeAssumption DEF Failures, RuntimeAssumption

LEMMA RefusedTypes ==
  ASSUME RequestOK, NEW r \in Requests, Job(r) \in Jobs, NEW claimed, Refused(r, claimed)
  PROVE  RequestOK'
<1>1. (IF claimed THEN "INVALID_RESPONSE" ELSE "TEMPORARILY_UNAVAILABLE") \in Codes
  BY DEF Codes
<1> QED BY <1>1, FailingTypes DEF Refused

LEMMA RotationFailedTypes ==
  ASSUME RequestOK, NEW r \in Requests, Job(r) \in Jobs, NEW failure,
         failure.code \in Codes, failure.wait \in Nat, RotationFailed(r, failure)
  PROVE  RequestOK'
<1> DEFINE step == IF failure.code = "RATE_LIMITED" THEN "defer" ELSE "abandon"
           row == [request[r] EXCEPT !.step = step, !.code = failure.code, !.wait = failure.wait]
<1>1. step \in Steps
  BY DEF Steps
<1> HIDE DEF step
<1>2. row \in RequestRecords /\ row.job \in Jobs
  BY <1>1 DEF RequestOK, RequestRecords, Job
<1>3. request' = [request EXCEPT ![r] = row]
  BY DEF RequestOK, RotationFailed, step
<1> HIDE DEF row
<1> QED BY <1>2, <1>3, RowReplaced

-----------------------------------------------------------------------------
(* Every step preserves the types *)

\* What an action that goes on to the next state must show.
LEMMA TypeParts ==
  ASSUME DbTypeOK', RequestOK', valid' \subseteq Nat, issued' \in Nat, asked' \in Nat
  PROVE  TypeInv'
BY DEF TypeInv, TypeOK, RequestOK, Busy, At, Job

LEMMA AskedType ==
  ASSUME TypeInv, NEW r \in Requests, Asked(r)
  PROVE  asked' \in Nat
<1>1. asked \in Nat /\ request[r].wait \in Nat
  BY DEF TypeInv, TypeOK, RequestRecords
<1> QED BY <1>1, HelperTypes DEF Asked

LEMMA StepTypes ==
  ASSUME TypeInv, NEW r \in Requests, Step(r)
  PROVE  TypeInv'
<1> USE DEF external
<1>1. /\ DbTypeOK /\ RequestOK
      /\ valid \subseteq Nat /\ issued \in Nat /\ asked \in Nat
  BY DEF TypeInv, TypeOK, RequestOK
<1>2. ASSUME UNCHANGED dbVars PROVE DbTypeOK'
  BY <1>1, <1>2 DEF dbVars, DbTypeOK
<1>3. \A step \in Steps \ {"idle"} : At(r, step) => Job(r) \in Jobs
  BY <1>1 DEF RequestOK, Busy, At
<1>4. /\ request[r].code \in Codes /\ request[r].wait \in Nat /\ request[r].caught \in BOOLEAN
      /\ request[r].cursor \in Nat /\ request[r].token \in Nat
  BY <1>1 DEF RequestOK, RequestRecords
<1>5. CASE Enqueue(r)
  <2>1. DbTypeOK'
    BY <1>1, <1>5, EnqueueTypes DEF Enqueue
  <2>2. RequestOK'
    BY <1>1, <1>5 DEF Enqueue, RequestOK, Busy, At, Job
  <2> QED BY <1>1, <1>5, <2>1, <2>2, TypeParts DEF Enqueue
<1>6. CASE ClaimJob(r)
  <2>1. DbTypeOK'
    BY <1>1, <1>6, ClaimTypes DEF ClaimJob
  <2>2. RequestOK'
    <3>1. ASSUME NEW j \in Jobs,
                 request' = [request EXCEPT ![r].step = "snapshot", ![r].job = j,
                                            ![r].claim = jobs[j].attempts + 1]
          PROVE  RequestOK'
      <4> DEFINE row == [request[r] EXCEPT !.step = "snapshot", !.job = j,
                                           !.claim = jobs[j].attempts + 1]
      <4>1. jobs[j].attempts + 1 \in Nat
        BY <1>1 DEF DbTypeOK, JobRows
      <4>2. \A n \in Nat : [request[r] EXCEPT !.step = "snapshot", !.job = j, !.claim = n]
                             \in RequestRecords
        BY <1>1, ZenonT(40) DEF RequestOK, RequestRecords, Steps
      <4>3. row \in RequestRecords
        BY <4>1, <4>2
      <4>4. row.job = j
        BY <1>1 DEF RequestOK, RequestRecords
      <4>5. request' = [request EXCEPT ![r] = row]
        BY <1>1, <3>1 DEF RequestOK
      <4> HIDE DEF row
      <4> QED BY <1>1, <4>3, <4>4, <4>5, RowReplaced
    <3>2. ASSUME UNCHANGED request PROVE RequestOK'
      BY <1>1, <3>2 DEF RequestOK, Busy, At, Job
    <3> QED BY <1>6, <3>1, <3>2 DEF ClaimJob
  <2> QED BY <1>1, <1>6, <2>1, <2>2, TypeParts DEF ClaimJob
<1>7. CASE ReadConnectorSyncSnapshot(r)
  <2>1. Job(r) \in Jobs
    BY <1>3, <1>7 DEF ReadConnectorSyncSnapshot, Steps
  <2> DEFINE seen == [config |-> source.config, revision |-> source.revision,
                      generation |-> source.generation]
             next == [request EXCEPT ![r].step = "access", ![r].expected = seen,
                                     ![r].cursor = source.cursor]
  <2>0. /\ seen \in Expectations
        /\ source.cursor \in Nat
    BY <1>1 DEF DbTypeOK, SourceRows, Expectations
  <2>2. \/ Goto(r, "reset")
        \/ request' = next
        \/ \E claimed \in BOOLEAN : Refused(r, claimed)
    BY <1>7 DEF ReadConnectorSyncSnapshot, Refused
  <2> HIDE DEF seen
  <2>3. ASSUME request' = next PROVE RequestOK'
    <3> DEFINE row == [request[r] EXCEPT !.step = "access", !.expected = seen,
                                         !.cursor = source.cursor]
    <3>1. request' = [request EXCEPT ![r] = row]
      BY <1>1, <2>3 DEF RequestOK
    <3>2. \A a \in Expectations, b \in Nat :
            [request[r] EXCEPT !.step = "access", !.expected = a, !.cursor = b] \in RequestRecords
      BY <1>1, ZenonT(40) DEF RequestOK, RequestRecords, Steps
    <3>3. row \in RequestRecords
      BY <2>0, <3>2
    <3>4. row.job \in Jobs
      BY <1>1, <2>1 DEF RequestOK, RequestRecords, Job
    <3> HIDE DEF row
    <3> QED BY <1>1, <3>1, <3>3, <3>4, RowReplaced
  <2>4. RequestOK'
    <3> HIDE DEF next
    <3> QED BY <1>1, <2>1, <2>2, <2>3, GotoTypes, RefusedTypes DEF Steps
  <2> QED BY <1>1, <1>2, <1>7, <2>4, TypeParts DEF ReadConnectorSyncSnapshot
<1>8. CASE Reset(r)
  <2>1. Job(r) \in Jobs
    BY <1>3, <1>8 DEF Reset, Steps
  <2>2. DbTypeOK'
    BY <1>1, <1>2, <1>8, <2>1, ResetTypes DEF Reset
  <2>3. RequestOK'
    BY <1>1, <1>8, <2>1, DoneTypes, RefusedTypes DEF Reset
  <2> QED BY <1>1, <1>8, <2>2, <2>3, TypeParts DEF Reset
<1>9. CASE AccessOrBeginRotation(r)
  <2>1. Job(r) \in Jobs
    BY <1>3, <1>9 DEF AccessOrBeginRotation, Steps
  <2>2. DbTypeOK'
    <3>1. BeginRotation => DbTypeOK'
      BY <1>1, CredentialTypes
    <3>2. AbandonLapsedRotation => DbTypeOK'
      BY <1>1, CredentialTypes
    <3> QED BY <1>2, <1>9, <3>1, <3>2 DEF AccessOrBeginRotation
  <2>3. ASSUME BeginRotation,
               request' = [request EXCEPT
                   ![r].step = "refresh",
                   ![r].rotation = [operation |-> credential'.operation,
                                    revision |-> credential'.revision,
                                    config |-> source.config],
                   ![r].token = credential.token]
        PROVE  RequestOK'
    <3> DEFINE rotation == [operation |-> credential'.operation,
                            revision |-> credential'.revision,
                            config |-> source.config]
               row == [request[r] EXCEPT !.step = "refresh", !.rotation = rotation,
                                         !.token = credential.token]
    <3>1. credential' \in CredentialRows /\ credential \in CredentialRows /\ source \in SourceRows
      BY <1>1, <2>2 DEF DbTypeOK
    <3>2. /\ rotation \in Rotations
          /\ credential.token \in Nat
      BY <3>1 DEF CredentialRows, SourceRows, Rotations
    <3>3. request' = [request EXCEPT ![r].step = "refresh", ![r].rotation = rotation,
                                     ![r].token = credential.token]
      BY <2>3
    <3> HIDE DEF rotation
    <3>4. request' = [request EXCEPT ![r] = row]
      BY <1>1, <3>3 DEF RequestOK
    <3>5. \A a \in Rotations, b \in Nat :
            [request[r] EXCEPT !.step = "refresh", !.rotation = a, !.token = b] \in RequestRecords
      BY <1>1, ZenonT(40) DEF RequestOK, RequestRecords, Steps
    <3>6. row \in RequestRecords
      BY <3>2, <3>5
    <3>7. row.job \in Jobs
      BY <1>1, <2>1 DEF RequestOK, RequestRecords, Job
    <3> HIDE DEF row
    <3> QED BY <1>1, <3>4, <3>6, <3>7, RowReplaced
  <2>4. RequestOK'
    <3>1. {"EXPIRED_CREDENTIALS", "TEMPORARILY_UNAVAILABLE"} \subseteq Codes /\ 0 \in Nat
      BY DEF Codes
    <3>2. ASSUME NEW code \in {"EXPIRED_CREDENTIALS", "TEMPORARILY_UNAVAILABLE"},
                 Failing(r, code, 0, FALSE)
          PROVE  RequestOK'
      BY <1>1, <2>1, <3>1, <3>2, FailingTypes
    <3>3. Goto(r, "fetch") => RequestOK'
      BY <1>1, <2>1, GotoTypes DEF Steps
    <3>4. Refused(r, TRUE) => RequestOK'
      BY <1>1, <2>1, RefusedTypes
    <3> QED BY <1>9, <2>3, <3>2, <3>3, <3>4 DEF AccessOrBeginRotation
  <2> QED BY <1>1, <1>9, <2>2, <2>4, TypeParts DEF AccessOrBeginRotation
<1>10. CASE RefreshToken(r)
  <2>1. Job(r) \in Jobs
    BY <1>3, <1>10 DEF RefreshToken, Steps
  <2>2. issued + 1 \in Nat
    BY <1>1
  <2>3. valid' \subseteq Nat /\ issued' \in Nat /\ asked' \in Nat /\ UNCHANGED dbVars
    BY <1>1, <1>10, <2>2 DEF RefreshToken
  <2>4. ASSUME request' = [request EXCEPT ![r].step = "complete", ![r].token = issued + 1]
        PROVE  RequestOK'
    <3> DEFINE token == issued + 1
               row == [request[r] EXCEPT !.step = "complete", !.token = token]
    <3>1. token \in Nat
      BY <2>2
    <3>2. request' = [request EXCEPT ![r].step = "complete", ![r].token = token]
      BY <2>4
    <3> HIDE DEF token
    <3>3. request' = [request EXCEPT ![r] = row]
      BY <1>1, <3>2 DEF RequestOK
    <3>4. row \in RequestRecords /\ row.job \in Jobs
      BY <1>1, <2>1, <3>1, ZenonT(40) DEF RequestOK, RequestRecords, Steps, Job
    <3> HIDE DEF row
    <3> QED BY <1>1, <3>3, <3>4, RowReplaced
  <2>5. RotationFailed(r, [code |-> "TEMPORARILY_UNAVAILABLE", wait |-> 0]) => RequestOK'
    BY <1>1, <2>1, RotationFailedTypes DEF Codes
  <2>6. (\E f \in Failures : RotationFailed(r, f)) => RequestOK'
    BY <1>1, <2>1, RotationFailedTypes, FailuresTypes
  <2>7. RequestOK'
    BY <1>10, <2>4, <2>5, <2>6 DEF RefreshToken
  <2> QED BY <1>2, <2>3, <2>7, TypeParts
<1>11. CASE CompleteRotation(r)
  <2>1. Job(r) \in Jobs
    BY <1>3, <1>11 DEF CompleteRotation, Steps
  <2>2. DbTypeOK'
    BY <1>1, <1>2, <1>4, <1>11, CredentialTypes DEF CompleteRotation
  <2>3. ASSUME NEW code \in Codes,
               request' = [request EXCEPT ![r].step = "abandon", ![r].code = code]
        PROVE  RequestOK'
    <3> DEFINE row == [request[r] EXCEPT !.step = "abandon", !.code = code]
    <3>1. row \in RequestRecords /\ row.job \in Jobs
      BY <1>1, <2>1, ZenonT(40) DEF RequestOK, RequestRecords, Steps, Job
    <3>2. request' = [request EXCEPT ![r] = row]
      BY <1>1, <2>3 DEF RequestOK
    <3> HIDE DEF row
    <3> QED BY <1>1, <3>1, <3>2, RowReplaced
  <2>4. RequestOK'
    <3>1. Goto(r, "verify") => RequestOK'
      BY <1>1, <2>1, GotoTypes DEF Steps
    <3>2. {"EXPIRED_CREDENTIALS", "TEMPORARILY_UNAVAILABLE"} \subseteq Codes
      BY DEF Codes
    <3> QED BY <1>11, <2>3, <3>1, <3>2 DEF CompleteRotation
  <2> QED BY <1>1, <1>11, <2>2, <2>4, TypeParts DEF CompleteRotation
<1>12. CASE VerifyResources(r)
  <2>1. Job(r) \in Jobs
    BY <1>3, <1>12 DEF VerifyResources, Steps
  <2>2. Goto(r, "fetch") => RequestOK'
    BY <1>1, <2>1, GotoTypes DEF Steps
  <2>3. RequestOK'
    BY <1>1, <1>12, <2>1, <2>2, RotationFailedTypes, FailuresTypes DEF VerifyResources
  <2> QED BY <1>1, <1>2, <1>12, <2>3, TypeParts DEF VerifyResources
<1>13. CASE AbandonRotation(r)
  <2>1. Job(r) \in Jobs
    BY <1>3, <1>13 DEF AbandonRotation, Steps
  <2>2. DbTypeOK'
    BY <1>1, <1>2, <1>4, <1>13, CredentialTypes DEF AbandonRotation
  <2>3. RequestOK'
    BY <1>1, <1>13, <2>1, GotoTypes DEF AbandonRotation, Steps
  <2> QED BY <1>1, <1>13, <2>2, <2>3, TypeParts DEF AbandonRotation
<1>14. CASE DeferRotation(r)
  <2>1. Job(r) \in Jobs
    BY <1>3, <1>14 DEF DeferRotation, Steps
  <2>2. DbTypeOK'
    BY <1>1, <1>2, <1>4, <1>14, <2>1, DeferTypes DEF DeferRotation
  <2>3. Goto(r, "fail") => RequestOK'
    BY <1>1, <2>1, GotoTypes DEF Steps
  <2>4. RequestOK'
    BY <1>1, <1>14, <2>1, <2>3, DoneTypes, RefusedTypes DEF DeferRotation
  <2>5. asked' \in Nat
    BY <1>1, <1>14, AskedType DEF DeferRotation
  <2> QED BY <1>1, <1>14, <2>2, <2>4, <2>5, TypeParts DEF DeferRotation
<1>15. CASE PullChanges(r)
  <2>1. Job(r) \in Jobs
    BY <1>3, <1>15 DEF PullChanges, Steps
  <2>2. Goto(r, "persist") => RequestOK'
    BY <1>1, <2>1, GotoTypes DEF Steps
  <2>3. RequestOK'
    BY <1>1, <1>15, <2>1, <2>2, FailingTypes, FailuresTypes DEF PullChanges
  <2> QED BY <1>1, <1>2, <1>15, <2>3, TypeParts DEF PullChanges
<1>16. CASE Persist(r)
  <2>1. Job(r) \in Jobs
    BY <1>3, <1>16 DEF Persist, Steps
  <2>2. request[r].cursor + 1 \in Nat
    BY <1>4
  <2>3. DbTypeOK'
    BY <1>1, <1>2, <1>16, <2>1, <2>2, PersistTypes DEF Persist
  <2>4. RequestOK'
    BY <1>1, <1>16, <2>1, DoneTypes, RefusedTypes DEF Persist
  <2> QED BY <1>1, <1>16, <2>3, <2>4, TypeParts DEF Persist
<1>17. CASE Fail(r)
  <2>1. Job(r) \in Jobs
    BY <1>3, <1>17 DEF Fail, Steps
  <2>2. DbTypeOK'
    BY <1>1, <1>2, <1>4, <1>17, <2>1, FailTypes, ExpireTypes DEF Fail
  <2>3. RequestOK'
    BY <1>1, <1>17, <2>1, DoneTypes, RefusedTypes DEF Fail
  <2>4. asked' \in Nat
    BY <1>1, <1>17, AskedType DEF Fail
  <2> QED BY <1>1, <1>17, <2>2, <2>3, <2>4, TypeParts DEF Fail
<1> QED
  BY <1>5, <1>6, <1>7, <1>8, <1>9, <1>10, <1>11, <1>12, <1>13, <1>14, <1>15, <1>16, <1>17
  DEF Step

LEMMA EnvironmentTypes ==
  ASSUME TypeInv, Environment
  PROVE  TypeInv'
<1> USE DEF external
<1>1. /\ DbTypeOK /\ RequestOK
      /\ valid \subseteq Nat /\ issued \in Nat /\ asked \in Nat
  BY DEF TypeInv, TypeOK, RequestOK
<1>2. ASSUME UNCHANGED request PROVE RequestOK'
  BY <1>1, <1>2 DEF RequestOK, Busy, At, Job
<1>3. CASE \E e \in Events : Deliver(e)
  <2>1. DbTypeOK'
    BY <1>1, <1>3, WebhookTypes DEF Deliver
  <2> QED BY <1>1, <1>2, <1>3, <2>1, TypeParts DEF Deliver
<1>4. CASE Reconfigure
  <2>1. DbTypeOK'
    BY <1>1, <1>4, ConfigureTypes DEF Reconfigure
  <2> QED BY <1>1, <1>2, <1>4, <2>1, TypeParts DEF Reconfigure
<1>5. CASE Authorize
  <2>1. issued + 1 \in Nat
    BY <1>1
  <2>2. DbTypeOK'
    BY <1>1, <1>5, <2>1, CredentialTypes DEF Authorize
  <2>3. valid' \subseteq Nat /\ issued' \in Nat
    BY <1>1, <1>5, <2>1 DEF Authorize
  <2> QED BY <1>1, <1>2, <1>5, <2>2, <2>3, TypeParts DEF Authorize
<1>6. CASE Tick
  <2>1. DbTypeOK'
    BY <1>1, <1>6, TimeTypes DEF Tick
  <2>2. asked' \in Nat
    BY <1>1, <1>6, HelperTypes DEF Tick
  <2> QED BY <1>1, <1>2, <1>6, <2>1, <2>2, TypeParts DEF Tick
<1>7. CASE Passing
  <2>1. DbTypeOK'
    BY <1>1, <1>7, TimeTypes, CredentialTypes DEF Passing
  <2> QED BY <1>1, <1>2, <1>7, <2>1, TypeParts DEF Passing
<1> QED BY <1>3, <1>4, <1>5, <1>6, <1>7 DEF Environment

LEMMA InitTypes == Init => TypeInv
<1> SUFFICES ASSUME Init PROVE TypeInv
  OBVIOUS
<1>1. source \in SourceRows
  BY DEF Init, DbInit, SourceRows, CursorStates, Healths
<1>2. jobs \in [Jobs -> JobRows]
  <2>1. NoJob \in JobRows
    BY DEF NoJob, JobRows, JobStates, Kinds
  <2> QED BY <2>1 DEF Init, DbInit
<1>3. pages \in Seq([page : Nat, config : Nat]) /\ receipts \in [Events -> Jobs \cup {0}]
  BY DEF Init, DbInit
<1>4. credential \in CredentialRows
  BY DEF Init, DbInit, CredentialRows, CredentialStates
<1>5. request \in [Requests -> RequestRecords] /\ Busy
  BY IdleType DEF Init, Busy, At, Idle
<1>6. valid \subseteq Nat /\ issued \in Nat /\ asked \in Nat
  BY DEF Init
<1> QED BY <1>1, <1>2, <1>3, <1>4, <1>5, <1>6 DEF TypeInv, TypeOK, DbTypeOK

LEMMA NextTypes == TypeInv /\ [Next]_vars => TypeInv'
<1> SUFFICES ASSUME TypeInv, [Next]_vars PROVE TypeInv'
  OBVIOUS
<1>1. ASSUME NEW r \in Requests, Stop(r) PROVE TypeInv'
  <2>1. /\ DbTypeOK' /\ valid' \subseteq Nat /\ issued' \in Nat /\ asked' \in Nat
    BY <1>1 DEF Stop, dbVars, external, TypeInv, TypeOK, DbTypeOK
  <2>2. RequestOK'
    BY <1>1, DoneTypes DEF Stop, TypeInv, TypeOK, RequestOK
  <2> QED BY <2>1, <2>2, TypeParts
<1>2. CASE UNCHANGED vars
  BY <1>2 DEF vars, TypeInv, TypeOK, DbTypeOK, Busy, At, Job
<1> QED BY <1>1, <1>2, StepTypes, EnvironmentTypes DEF Next

\* Every variable has its type, and a request that has claimed works on a row
\* of the job table.
THEOREM TypeInvariant == Spec => []TypeInv
BY InitTypes, NextTypes, PTL DEF Spec

\* Every variable has its type.
THEOREM TypeCorrect == Spec => []TypeOK
<1>1. TypeInv => TypeOK
  BY DEF TypeInv
<1> QED BY <1>1, TypeInvariant, PTL

-----------------------------------------------------------------------------
(* What the cursor, the jobs and the pages rest on *)

\* The transactions that write the source, the jobs or the pages, with the
\* guards under which a request runs them.
Transaction ==
  \/ ClaimNothing
  \/ TickRows
  \/ SlotBegins
  \/ \E j \in Jobs : EnqueueDueJobs(j)
  \/ \E j \in Jobs : ClaimNextJob(j)
  \/ \E j \in Jobs : ExpireRunningJob(j)
  \/ \E j \in Jobs : JobAges(j)
  \/ \E j \in Jobs, claim \in Nat, seen \in BOOLEAN :
       ResetAllowed(j, claim, seen) /\ ResetConnectorCursorForJob(j)
  \/ \E j \in Jobs, n \in Jobs, claim \in Nat, seen \in BOOLEAN, cursor \in Nat : \E expected :
       /\ PersistAllowed(j, claim, seen, expected, cursor)
       /\ PersistConnectorPageForJob(j, n, cursor + 1)
  \/ \E j \in Jobs, code \in Codes, wait \in Nat :
       jobs[j].state = "RUNNING" /\ FailRunningJob(j, code, wait)
  \/ \E j \in Jobs, wait \in Nat :
       jobs[j].state = "RUNNING" /\ DeferOAuthRotation(j, wait)
  \/ \E e \in Events, j \in Jobs : AcceptWebhook(e, j)
  \/ \E connector \in BOOLEAN : Configure(connector)
  \/ UNCHANGED <<source, jobs, pages>>

LEMMA CredentialOnly ==
  ASSUME NEW token, NEW rotation,
         \/ SetOAuthCredential(token) \/ BeginRotation \/ AbandonLapsedRotation
         \/ CompleteOAuthRotation(rotation, token) \/ CompleteStaleRotation(rotation)
         \/ FailOAuthRotation(rotation) \/ TokenNearsExpiry
  PROVE  UNCHANGED <<source, jobs, pages>>
BY DEF SetOAuthCredential, BeginRotation, AbandonLapsedRotation, CompleteOAuthRotation,
       CompleteStaleRotation, FailOAuthRotation, TokenNearsExpiry

LEMMA EveryStepIsATransaction == TypeInv /\ [Next]_vars => Transaction
<1> SUFFICES ASSUME TypeInv, [Next]_vars PROVE Transaction
  OBVIOUS
<1>1. /\ DbTypeOK /\ RequestOK
      /\ \A r \in Requests : request[r] \in RequestRecords
  BY DEF TypeInv, TypeOK, RequestOK
<1>2. ASSUME UNCHANGED dbVars PROVE Transaction
  BY <1>2 DEF dbVars, Transaction
<1>3. ASSUME UNCHANGED <<source, jobs, pages>> PROVE Transaction
  BY <1>3 DEF Transaction
<1>4. ASSUME NEW r \in Requests, Step(r) PROVE Transaction
  <2>1. /\ request[r].code \in Codes /\ request[r].wait \in Nat
        /\ request[r].cursor \in Nat /\ Claim(r) \in Nat
    BY <1>1 DEF RequestRecords, Claim
  <2>2. \A step \in Steps \ {"idle"} : At(r, step) => Job(r) \in Jobs
    BY <1>1 DEF RequestOK, Busy, At
  <2>3. \A j \in Jobs : AppSees(j) \subseteq BOOLEAN
    <3>1. \A j \in Jobs : (jobs[j].lease > 0) \in BOOLEAN
      BY <1>1 DEF DbTypeOK, JobRows
    <3> QED BY <3>1 DEF AppSees
  <2>4. CASE Enqueue(r)
    BY <2>4 DEF Enqueue, Transaction
  <2>5. CASE ClaimJob(r)
    BY <2>5 DEF ClaimJob, Transaction
  <2>6. CASE ReadConnectorSyncSnapshot(r) \/ RefreshToken(r) \/ VerifyResources(r) \/ PullChanges(r)
    BY <1>2, <2>6 DEF ReadConnectorSyncSnapshot, RefreshToken, VerifyResources, PullChanges
  <2>7. CASE Reset(r)
    <3>1. Job(r) \in Jobs
      BY <2>2, <2>7 DEF Reset, Steps
    <3>2. \/ UNCHANGED dbVars
          \/ \E seen \in BOOLEAN : /\ ResetAllowed(Job(r), Claim(r), seen)
                                   /\ ResetConnectorCursorForJob(Job(r))
      BY <2>3, <2>7, <3>1 DEF Reset
    <3> QED BY <1>2, <2>1, <3>1, <3>2 DEF Transaction
  <2>8. CASE AccessOrBeginRotation(r)
    BY <1>2, <1>3, <2>8, CredentialOnly DEF AccessOrBeginRotation
  <2>9. CASE CompleteRotation(r)
    BY <1>2, <1>3, <2>9, CredentialOnly DEF CompleteRotation
  <2>10. CASE AbandonRotation(r)
    BY <1>2, <1>3, <2>10, CredentialOnly DEF AbandonRotation
  <2>11. CASE DeferRotation(r)
    <3>1. Job(r) \in Jobs
      BY <2>2, <2>11 DEF DeferRotation, Steps
    <3>2. \/ UNCHANGED dbVars
          \/ /\ jobs[Job(r)].state = "RUNNING"
             /\ DeferOAuthRotation(Job(r), request[r].wait)
      BY <2>11 DEF DeferRotation, DeferAllowed, LiveClaim, Holds
    <3> QED BY <1>2, <2>1, <3>1, <3>2 DEF Transaction
  <2>12. CASE Persist(r)
    <3>1. Job(r) \in Jobs
      BY <2>2, <2>12 DEF Persist, Steps
    <3>2. \/ UNCHANGED dbVars
          \/ \E seen \in BOOLEAN, n \in Jobs :
               /\ PersistAllowed(Job(r), Claim(r), seen, request[r].expected, request[r].cursor)
               /\ PersistConnectorPageForJob(Job(r), n, request[r].cursor + 1)
      BY <2>3, <2>12, <3>1 DEF Persist
    <3> QED BY <1>2, <2>1, <3>1, <3>2 DEF Transaction
  <2>13. CASE Fail(r)
    <3>1. Job(r) \in Jobs
      BY <2>2, <2>13 DEF Fail, Steps
    <3>2. \/ UNCHANGED dbVars
          \/ ExpireRunningJob(Job(r))
          \/ /\ jobs[Job(r)].state = "RUNNING"
             /\ FailRunningJob(Job(r), request[r].code, request[r].wait)
      BY <2>13 DEF Fail, LiveClaim, Holds
    <3> QED BY <1>2, <2>1, <3>1, <3>2 DEF Transaction
  <2> QED
    BY <1>4, <2>4, <2>5, <2>6, <2>7, <2>8, <2>9, <2>10, <2>11, <2>12, <2>13 DEF Step
<1>5. CASE Environment
  <2>1. CASE \E e \in Events : Deliver(e)
    BY <2>1 DEF Deliver, Transaction
  <2>2. CASE Reconfigure
    BY <2>2 DEF Reconfigure, Transaction
  <2>3. CASE Authorize
    BY <1>3, <2>3, CredentialOnly DEF Authorize
  <2>4. CASE Tick
    BY <2>4 DEF Tick, Transaction
  <2>5. CASE Passing
    BY <1>3, <2>5, CredentialOnly DEF Passing, Transaction
  <2> QED BY <1>5, <2>1, <2>2, <2>3, <2>4, <2>5 DEF Environment
<1>6. ASSUME NEW r \in Requests, Stop(r) PROVE Transaction
  BY <1>2, <1>6 DEF Stop
<1>7. CASE UNCHANGED vars
  BY <1>3, <1>7 DEF vars
<1> QED BY <1>4, <1>5, <1>6, <1>7 DEF Next

-----------------------------------------------------------------------------
(* At most one running job *)

LEMMA OneRunningStep ==
  ASSUME DbTypeOK, SingleRunning, Transaction
  PROVE  SingleRunning'
<1> USE DEF SingleRunning
<1>1. \A j \in Jobs : jobs[j] \in JobRows
  BY DEF DbTypeOK
<1>2. \A row \in JobRows : Expired(row).state = "EXPIRED" /\ Claimed(row).state = "RUNNING"
  BY DEF Expired, Claimed, JobRows
<1>3. \A kind, reset : NewJob(kind, reset).state = "READY"
  BY DEF NewJob, NoJob
\* No job that was not running is.
<1>4. ASSUME \A j \in Jobs : jobs'[j].state = "RUNNING" => jobs[j].state = "RUNNING"
      PROVE  SingleRunning'
  BY <1>4
<1>5. ASSUME NEW j \in Jobs, ClaimNextJob(j) PROVE SingleRunning'
  <2>1. \A i \in Jobs : Swept[i] \in JobRows
    BY SweptType
  <2>2. \A i \in Jobs \ {j} : jobs'[i].state # "RUNNING"
    BY <1>2, <1>5, <2>1 DEF ClaimNextJob, Claimable
  <2> QED BY <2>2
<1>6. CASE ClaimNothing
  <2>1. \A i \in Jobs : Swept[i] \in JobRows
    BY SweptType
  <2>2. \A i \in Jobs : Swept[i].state = "RUNNING" => jobs[i].state = "RUNNING"
    BY <1>1, <1>2 DEF Swept
  <2> QED BY <1>2, <1>4, <1>6, <2>1, <2>2 DEF ClaimNothing
<1>7. CASE TickRows
  BY <1>1, <1>4, <1>7 DEF TickRows, JobRows
<1>8. CASE SlotBegins \/ (\E connector \in BOOLEAN : Configure(connector))
           \/ (\E j \in Jobs : ExpireRunningJob(j))
  BY <1>1, <1>2, <1>4, <1>8 DEF SlotBegins, Configure, ExpireRunningJob, DbTypeOK
<1>9. CASE \E j \in Jobs : EnqueueDueJobs(j)
  BY <1>3, <1>4, <1>9 DEF EnqueueDueJobs, DbTypeOK
<1>10. ASSUME NEW j \in Jobs, JobAges(j) PROVE SingleRunning'
  BY <1>1, <1>4, <1>10 DEF JobAges, DbTypeOK, JobRows
<1>11. ASSUME NEW j \in Jobs, ResetConnectorCursorForJob(j) PROVE SingleRunning'
  BY <1>1, <1>4, <1>11 DEF ResetConnectorCursorForJob, DbTypeOK, JobRows
<1>12. ASSUME NEW j \in Jobs, NEW n \in Jobs, NEW page, PersistConnectorPageForJob(j, n, page)
       PROVE  SingleRunning'
  BY <1>1, <1>3, <1>4, <1>12 DEF PersistConnectorPageForJob, JobRows
<1>13. ASSUME NEW j \in Jobs, NEW code, NEW wait, jobs[j].state = "RUNNING",
              FailRunningJob(j, code, wait) \/ DeferOAuthRotation(j, wait)
       PROVE  SingleRunning'
  BY <1>1, <1>4, <1>13 DEF FailRunningJob, DeferOAuthRotation, DbTypeOK, JobRows
<1>14. ASSUME NEW e \in Events, NEW j \in Jobs, AcceptWebhook(e, j) PROVE SingleRunning'
  <2>1. \/ jobs' = jobs
        \/ jobs' = [i \in Jobs |->
              IF i = j THEN NewJob("WEBHOOK", TRUE)
              ELSE IF jobs[i].kind = "SCHEDULED" /\ jobs[i].state = "READY"
              THEN Expired(jobs[i]) ELSE jobs[i]]
    BY <1>14 DEF AcceptWebhook
  <2>2. NewJob("WEBHOOK", TRUE).state = "READY"
    BY <1>3
  <2>3. \A i \in Jobs : Expired(jobs[i]).state = "EXPIRED"
    BY <1>1, <1>2
  <2> QED BY <1>4, <2>1, <2>2, <2>3
<1>15. CASE UNCHANGED <<source, jobs, pages>>
  BY <1>15
<1> QED
  BY <1>5, <1>6, <1>7, <1>8, <1>9, <1>10, <1>11, <1>12, <1>13, <1>14, <1>15 DEF Transaction

\* At most one job of the source is running, for any number of jobs and of
\* overlapping requests (claimNextJob).
THEOREM OneRunningJob == Spec => []SingleRunning
<1>1. Init => SingleRunning
  BY DEF Init, DbInit, NoJob, SingleRunning
<1>2. TypeInv /\ SingleRunning /\ [Next]_vars => SingleRunning'
  BY OneRunningStep, EveryStepIsATransaction DEF TypeInv, TypeOK
<1> QED BY <1>1, <1>2, TypeInvariant, PTL DEF Spec

-----------------------------------------------------------------------------
(* The pages of a generation *)

\* A cursor that may be used is before the last page.
CursorBounded == source.cursorState = "READY" => source.cursor < PageCount

PagesInv == PagesContiguous /\ GenerationUniform /\ CursorBounded

\* A transaction leaves the cursor and the pages alone, restarts the
\* traversal, adds the next page, or fences the cursor.
Traversed ==
  \/ /\ pages' = pages
     /\ source'.config = source.config /\ source'.cursor = source.cursor
     /\ source'.cursorState = source.cursorState
     /\ source'.generation = source.generation
     /\ source'.revision = source.revision
  \/ \E j \in Jobs, claim \in Nat, seen \in BOOLEAN :
       ResetAllowed(j, claim, seen) /\ ResetConnectorCursorForJob(j)
  \/ \E j \in Jobs, n \in Jobs, claim \in Nat, seen \in BOOLEAN, cursor \in Nat : \E expected :
       /\ PersistAllowed(j, claim, seen, expected, cursor)
       /\ PersistConnectorPageForJob(j, n, cursor + 1)
  \/ \E connector \in BOOLEAN : Configure(connector)

LEMMA EveryTransactionTraverses ==
  ASSUME DbTypeOK, Transaction
  PROVE  Traversed
<1> DEFINE same == /\ pages' = pages
                   /\ source'.config = source.config /\ source'.cursor = source.cursor
                   /\ source'.cursorState = source.cursorState
                   /\ source'.generation = source.generation
                   /\ source'.revision = source.revision
<1>1. ASSUME UNCHANGED <<source, pages>> PROVE same
  BY <1>1
<1>2. CASE ClaimNothing \/ TickRows \/ (\E j \in Jobs : ClaimNextJob(j))
           \/ (\E j \in Jobs : ExpireRunningJob(j)) \/ (\E j \in Jobs : JobAges(j))
           \/ (\E e \in Events, j \in Jobs : AcceptWebhook(e, j))
           \/ UNCHANGED <<source, jobs, pages>>
  BY <1>1, <1>2 DEF ClaimNothing, TickRows, ClaimNextJob, ExpireRunningJob, JobAges,
                    AcceptWebhook, Traversed
<1>3. CASE SlotBegins
  BY <1>3 DEF SlotBegins, DbTypeOK, SourceRows, Traversed
<1>4. CASE \E j \in Jobs : EnqueueDueJobs(j)
  BY <1>4 DEF EnqueueDueJobs, DbTypeOK, SourceRows, Traversed
<1>5. ASSUME NEW j \in Jobs, NEW code, NEW wait,
             FailRunningJob(j, code, wait) \/ DeferOAuthRotation(j, wait)
      PROVE  same
  BY <1>5 DEF FailRunningJob, DeferOAuthRotation, DbTypeOK, SourceRows
<1> QED BY <1>2, <1>3, <1>4, <1>5 DEF Transaction, Traversed

LEMMA PagesStep ==
  ASSUME DbTypeOK, PagesInv, Traversed
  PROVE  PagesInv'
<1> USE DEF PagesInv, PagesContiguous, GenerationUniform, CursorBounded
<1>1. PageCount \in Nat \ {0}
  BY ConnectorAssumption DEF ConnectorAssumption
<1>2. source \in SourceRows /\ pages \in Seq([page : Nat, config : Nat])
  BY DEF DbTypeOK
<1>3. ASSUME NEW j \in Jobs, ResetConnectorCursorForJob(j) PROVE PagesInv'
  <2>1. source'.cursor = 0 /\ source'.cursorState = "READY" /\ pages' = <<>>
    BY <1>2, <1>3 DEF ResetConnectorCursorForJob, SourceRows
  <2> QED BY <1>1, <2>1
<1>4. ASSUME NEW j \in Jobs, NEW n \in Jobs, NEW claim \in Nat, NEW seen \in BOOLEAN,
             NEW cursor \in Nat, NEW expected,
             PersistAllowed(j, claim, seen, expected, cursor),
             PersistConnectorPageForJob(j, n, cursor + 1)
      PROVE  PagesInv'
  <2> DEFINE row == [page |-> cursor + 1, config |-> jobs[j].config]
  <2>1. /\ source.cursorState = "READY" /\ source.cursor = cursor
        /\ source.config = jobs[j].config
    BY <1>4 DEF PersistAllowed, SameConfig
  <2>2. cursor = Len(pages) /\ cursor < PageCount
    BY <2>1
  <2>3. pages' = Append(pages, row)
    BY <1>4 DEF PersistConnectorPageForJob
  <2>4. /\ Len(pages') = cursor + 1
        /\ \A i \in 1 .. Len(pages) : pages'[i] = pages[i]
        /\ pages'[cursor + 1] = row
    BY <1>2, <2>2, <2>3
  <2>5. /\ source'.config = source.config
        /\ source'.cursorState = IF cursor + 1 = PageCount THEN "TERMINAL" ELSE "READY"
        /\ source'.cursor = IF cursor + 1 = PageCount THEN 0 ELSE cursor + 1
    BY <1>2, <1>4 DEF PersistConnectorPageForJob, SourceRows
  <2>6. row.page = cursor + 1 /\ row.config = source.config
    BY <2>1
  <2> HIDE DEF row
  <2>7. \A i \in 1 .. Len(pages') : pages'[i].page = i /\ pages'[i].config = source.config
    <3>1. \A i \in 1 .. Len(pages) : pages[i].page = i /\ pages[i].config = source.config
      BY <2>1
    <3>2. \A i \in 1 .. Len(pages') : i \in 1 .. Len(pages) \/ i = cursor + 1
      BY <2>2, <2>4
    <3> QED BY <2>4, <2>6, <3>1, <3>2
  <2>8. PagesContiguous' /\ CursorBounded'
    BY <1>1, <2>2, <2>4, <2>5, <2>7
  <2>9. GenerationUniform'
    <3>1. Len(pages') >= 1 => pages'[1].config = source.config
      BY <2>2, <2>4, <2>7
    <3> QED BY <2>2, <2>4, <2>5, <2>7, <3>1
  <2> QED BY <2>8, <2>9
<1>5. ASSUME NEW connector \in BOOLEAN, Configure(connector) PROVE PagesInv'
  <2>1. source'.cursorState = "RESET_REQUIRED" /\ pages' = pages
    BY <1>2, <1>5 DEF Configure, SourceRows
  <2> QED BY <2>1
<1> QED BY <1>3, <1>4, <1>5 DEF Traversed

LEMMA PagesInductive == Spec => []PagesInv
<1>1. Init => PagesInv
  BY DEF Init, DbInit, PagesInv, PagesContiguous, GenerationUniform, CursorBounded
<1>2. TypeInv /\ PagesInv /\ [Next]_vars => PagesInv'
  BY PagesStep, EveryTransactionTraverses, EveryStepIsATransaction DEF TypeInv, TypeOK
<1> QED BY <1>1, <1>2, TypeInvariant, PTL DEF Spec

\* The pages of a generation are consecutive from the first and the stored
\* cursor is where they end (persistConnectorPageForJob).
THEOREM PagesAreContiguous == Spec => []PagesContiguous
<1>1. PagesInv => PagesContiguous
  BY DEF PagesInv
<1> QED BY <1>1, PagesInductive, PTL

\* No generation mixes pages of two configurations (configure).
THEOREM GenerationsAreUniform == Spec => []GenerationUniform
<1>1. PagesInv => GenerationUniform
  BY DEF PagesInv
<1> QED BY <1>1, PagesInductive, PTL

\* The source is read as SourceTraversal promises: every step of every request
\* is a step of it or a stutter.
THEOREM TraversalImplemented == Spec => ImplementsTraversal
<1> DEFINE fenced == source.cursorState = "RESET_REQUIRED"
           read == [n \in DOMAIN pages |-> pages[n].config]
<1>1. Init => Traversal!TraversalInit
  BY DEF Init, DbInit, Traversal!TraversalInit
<1>2. TypeInv /\ PagesInv /\ [Next]_vars => [Traversal!TraversalNext]_(Traversal!traversalVars)
  <2> SUFFICES ASSUME TypeInv, PagesInv, [Next]_vars
               PROVE  [Traversal!TraversalNext]_(Traversal!traversalVars)
    OBVIOUS
  <2>1. /\ Traversed /\ PageCount \in Nat \ {0}
        /\ source \in SourceRows /\ pages \in Seq([page : Nat, config : Nat])
    BY EveryTransactionTraverses, EveryStepIsATransaction, ConnectorAssumption
    DEF TypeInv, TypeOK, DbTypeOK, ConnectorAssumption
  <2>2. ASSUME NEW j \in Jobs, ResetConnectorCursorForJob(j) PROVE Traversal!Restart
    BY <2>1, <2>2 DEF ResetConnectorCursorForJob, SourceRows, Traversal!Restart
  <2>3. ASSUME NEW j \in Jobs, NEW n \in Jobs, NEW claim \in Nat, NEW seen \in BOOLEAN,
               NEW cursor \in Nat, NEW expected,
               PersistAllowed(j, claim, seen, expected, cursor),
               PersistConnectorPageForJob(j, n, cursor + 1)
        PROVE  Traversal!ReadPage
    <3> DEFINE row == [page |-> cursor + 1, config |-> jobs[j].config]
    <3>1. /\ source.cursorState = "READY" /\ source.cursor = cursor
          /\ row.config = source.config /\ pages' = Append(pages, row)
      BY <2>3 DEF PersistAllowed, SameConfig, PersistConnectorPageForJob
    <3>2. Len(pages) < PageCount
      BY <3>1 DEF PagesInv, PagesContiguous, CursorBounded
    <3>3. /\ source'.config = source.config /\ source'.generation = source.generation
          /\ source'.cursorState \in {"READY", "TERMINAL"}
      BY <2>1, <2>3 DEF PersistConnectorPageForJob, SourceRows
    <3> HIDE DEF row
    <3>4. read' = Append(read, source.config)
      BY <2>1, <3>1
    <3>5. Len(read) = Len(pages)
      BY <2>1
    <3> QED BY <3>1, <3>2, <3>3, <3>4, <3>5 DEF Traversal!ReadPage
  <2>4. ASSUME NEW connector \in BOOLEAN, Configure(connector)
        PROVE  Traversal!NewConfiguration
    BY <2>1, <2>4 DEF Configure, SourceRows, Traversal!NewConfiguration
  <2> QED BY <2>1, <2>2, <2>3, <2>4
          DEF Traversed, Traversal!TraversalNext, Traversal!traversalVars
<1> QED BY <1>1, <1>2, TypeInvariant, PagesInductive, PTL
        DEF Spec, ImplementsTraversal, Traversal!TraversalSpec

-----------------------------------------------------------------------------
(* Webhook jobs *)

\* A webhook job asks for a reset from its insert on.
WebhookInv ==
  /\ \A j \in Jobs : jobs[j].kind = "WEBHOOK" => jobs[j].resetRequested
  /\ WebhookRestarts

\* A row that keeps its kind and the progress of its reset and is not completed.
Kept(old, new) ==
  /\ new.kind = old.kind /\ new.resetRequested = old.resetRequested
  /\ new.resetCompleted = old.resetCompleted
  /\ new.state = "COMPLETED" => old.state = "COMPLETED"

LEMMA KeptRows ==
  ASSUME NEW row \in JobRows
  PROVE  Kept(row, row) /\ Kept(row, Expired(row)) /\ Kept(row, Claimed(row))
BY DEF Kept, Expired, Claimed, JobRows

LEMMA NewRows ==
  ASSUME NEW kind, NEW reset
  PROVE  /\ NewJob(kind, reset).kind = kind /\ NewJob(kind, reset).resetRequested = reset
         /\ NewJob(kind, reset).state = "READY"
BY DEF NewJob, NoJob

LEMMA WebhookStep ==
  ASSUME DbTypeOK, WebhookInv, Transaction
  PROVE  WebhookInv'
<1> USE DEF WebhookInv, WebhookRestarts
<1>1. \A j \in Jobs : jobs[j] \in JobRows
  BY DEF DbTypeOK
<1>2. \A j \in Jobs : Swept[j] \in JobRows /\ Kept(jobs[j], Swept[j])
  BY <1>1, SweptType, KeptRows DEF Swept
<1>3. ASSUME \A j \in Jobs : Kept(jobs[j], jobs'[j])
      PROVE  WebhookInv'
  BY <1>3 DEF Kept
<1>4. ASSUME NEW j \in Jobs, ClaimNextJob(j) PROVE WebhookInv'
  <2>1. \A i \in Jobs : jobs'[i] \in {Swept[i], Expired(Swept[i]), Claimed(Swept[i])}
    BY <1>4 DEF ClaimNextJob
  <2>2. \A i \in Jobs : /\ Kept(jobs[i], Swept[i]) /\ Kept(jobs[i], Expired(Swept[i]))
                        /\ Kept(jobs[i], Claimed(Swept[i]))
    BY <1>2, KeptRows DEF Kept
  <2> QED BY <1>3, <2>1, <2>2
<1>5. CASE ClaimNothing
  <2>1. \A i \in Jobs : jobs'[i] \in {Swept[i], Expired(Swept[i])}
    BY <1>5 DEF ClaimNothing
  <2>2. \A i \in Jobs : Kept(jobs[i], Swept[i]) /\ Kept(jobs[i], Expired(Swept[i]))
    BY <1>2, KeptRows DEF Kept
  <2> QED BY <1>3, <2>1, <2>2
<1>6. CASE TickRows
  BY <1>1, <1>3, <1>6 DEF TickRows, JobRows, Kept
<1>7. CASE SlotBegins \/ (\E connector \in BOOLEAN : Configure(connector))
           \/ (\E j \in Jobs : ExpireRunningJob(j)) \/ UNCHANGED <<source, jobs, pages>>
  <2>1. \A i \in Jobs : jobs'[i] \in {jobs[i], Expired(jobs[i])}
    BY <1>7 DEF SlotBegins, Configure, ExpireRunningJob, DbTypeOK
  <2> QED BY <1>1, <1>3, <2>1, KeptRows
<1>8. CASE \E j \in Jobs : EnqueueDueJobs(j)
  BY <1>8, NewRows DEF EnqueueDueJobs, DbTypeOK
<1>9. ASSUME NEW j \in Jobs, JobAges(j) PROVE WebhookInv'
  BY <1>1, <1>3, <1>9 DEF JobAges, DbTypeOK, JobRows, Kept
<1>10. ASSUME NEW j \in Jobs, ResetConnectorCursorForJob(j) PROVE WebhookInv'
  <2>1. jobs' = [jobs EXCEPT ![j] = [jobs[j] EXCEPT !.state = "READY", !.resetCompleted = TRUE,
                                                    !.lease = 0, !.delay = 0]]
    BY <1>10 DEF DbTypeOK, ResetConnectorCursorForJob
  <2> QED BY <1>1, <2>1 DEF DbTypeOK, JobRows
<1>11. ASSUME NEW j \in Jobs, NEW n \in Jobs, NEW page, ~ResetRequired(j),
              PersistConnectorPageForJob(j, n, page)
       PROVE  WebhookInv'
  <2>1. jobs[j].resetRequested => jobs[j].resetCompleted
    BY <1>1, <1>11 DEF ResetRequired, JobRows
  <2>2. /\ jobs'[j].kind = jobs[j].kind /\ jobs'[j].resetRequested = jobs[j].resetRequested
        /\ jobs'[j].resetCompleted = jobs[j].resetCompleted
    BY <1>1, <1>11 DEF PersistConnectorPageForJob, JobRows
  <2>3. \A i \in Jobs \ {j} : jobs'[i] \in {jobs[i], NewJob("SCHEDULED", FALSE)}
    BY <1>11 DEF PersistConnectorPageForJob
  <2>4. NewJob("SCHEDULED", FALSE).kind = "SCHEDULED"
    BY NewRows
  <2> QED BY <2>1, <2>2, <2>3, <2>4
<1>12. ASSUME NEW j \in Jobs, NEW code, NEW wait,
              FailRunningJob(j, code, wait) \/ DeferOAuthRotation(j, wait)
       PROVE  WebhookInv'
  <2>1. \A i \in Jobs \ {j} : jobs'[i] = jobs[i]
    BY <1>12 DEF FailRunningJob, DeferOAuthRotation, DbTypeOK
  <2>2. Kept(jobs[j], jobs'[j])
    BY <1>1, <1>12 DEF FailRunningJob, DeferOAuthRotation, DbTypeOK, JobRows, Kept
  <2> QED BY <1>1, <1>3, <2>1, <2>2, KeptRows
<1>13. ASSUME NEW e \in Events, NEW j \in Jobs, AcceptWebhook(e, j) PROVE WebhookInv'
  <2>1. \A i \in Jobs : jobs'[i] \in {jobs[i], Expired(jobs[i]), NewJob("WEBHOOK", TRUE)}
    BY <1>13 DEF AcceptWebhook
  <2>2. \A i \in Jobs : Kept(jobs[i], jobs[i]) /\ Kept(jobs[i], Expired(jobs[i]))
    BY <1>1, KeptRows
  <2>3. /\ NewJob("WEBHOOK", TRUE).resetRequested
        /\ NewJob("WEBHOOK", TRUE).state = "READY"
    BY NewRows
  <2> QED BY <2>1, <2>2, <2>3, ZenonT(40) DEF Kept
<1> QED
  BY <1>4, <1>5, <1>6, <1>7, <1>8, <1>9, <1>10, <1>11, <1>12, <1>13
  DEF Transaction, PersistAllowed

\* A webhook job completes only after it restarted the traversal
\* (acceptWebhook, persistConnectorPageForJob).
THEOREM WebhookJobsRestart == Spec => []WebhookRestarts
<1>1. Init => WebhookInv
  BY DEF Init, DbInit, NoJob, WebhookInv, WebhookRestarts
<1>2. TypeInv /\ WebhookInv /\ [Next]_vars => WebhookInv'
  BY WebhookStep, EveryStepIsATransaction DEF TypeInv, TypeOK
<1>3. WebhookInv => WebhookRestarts
  BY DEF WebhookInv
<1> QED BY <1>1, <1>2, <1>3, TypeInvariant, PTL DEF Spec

-----------------------------------------------------------------------------
(* Who moves the cursor *)

\* The revision of the cursor changes only in the transaction of a request
\* that holds the current claim of a running job (the compare-and-set of
\* ingestion-persistence.ts).
THEOREM OnlyTheClaimMovesTheCursor == Spec => OnlyClaimMovesCursor
<1> DEFINE Moves == source'.revision # source.revision =>
                      \E r \in Requests : /\ request[r].step \in {"reset", "persist"}
                                          /\ Holds(Job(r), Claim(r))
<1>1. TypeInv /\ [Next]_vars => Moves
  <2> SUFFICES ASSUME TypeInv, [Next]_vars, source'.revision # source.revision
               PROVE  \E r \in Requests : /\ request[r].step \in {"reset", "persist"}
                                          /\ Holds(Job(r), Claim(r))
    OBVIOUS
  <2>1. source \in SourceRows
    BY DEF TypeInv, TypeOK, DbTypeOK
  <2>2. ~(UNCHANGED source)
    OBVIOUS
  <2>3. ASSUME NEW r \in Requests, Step(r)
        PROVE  /\ request[r].step \in {"reset", "persist"}
               /\ Holds(Job(r), Claim(r))
    <3>1. ~(\E j \in Jobs : EnqueueDueJobs(j))
      BY <2>1 DEF EnqueueDueJobs, SourceRows
    <3>2. \A j, wait : ~DeferOAuthRotation(j, wait)
      BY <2>1 DEF DeferOAuthRotation, SourceRows
    <3>3. \A j, code, wait : ~FailRunningJob(j, code, wait)
      BY <2>1 DEF FailRunningJob, SourceRows
    <3>4. ~Enqueue(r) /\ ~ClaimJob(r) /\ ~DeferRotation(r) /\ ~Fail(r)
      BY <2>2, <3>1, <3>2, <3>3
      DEF Enqueue, ClaimJob, ClaimNextJob, ClaimNothing, DeferRotation, Fail,
          ExpireRunningJob, dbVars
    <3>5. /\ ~ReadConnectorSyncSnapshot(r) /\ ~AccessOrBeginRotation(r) /\ ~RefreshToken(r)
          /\ ~CompleteRotation(r) /\ ~VerifyResources(r) /\ ~AbandonRotation(r)
          /\ ~PullChanges(r)
      BY <2>2
      DEF ReadConnectorSyncSnapshot, AccessOrBeginRotation, RefreshToken, CompleteRotation,
          VerifyResources, AbandonRotation, PullChanges, dbVars, BeginRotation,
          AbandonLapsedRotation, CompleteOAuthRotation, CompleteStaleRotation,
          FailOAuthRotation
    <3>6. CASE Reset(r)
      BY <2>2, <3>6 DEF Reset, At, ResetAllowed, AppClaim, dbVars
    <3>7. CASE Persist(r)
      BY <2>2, <3>7 DEF Persist, At, PersistAllowed, AppClaim, dbVars
    <3> QED BY <2>3, <3>4, <3>5, <3>6, <3>7 DEF Step
  <2>4. ~Environment
    <3>1. ~Reconfigure /\ ~SlotBegins
      BY <2>1, <2>2 DEF Reconfigure, Configure, SlotBegins, SourceRows
    <3> QED
      BY <2>2, <3>1
      DEF Environment, Deliver, AcceptWebhook, Authorize, SetOAuthCredential, Tick, TickRows,
          Passing, TokenNearsExpiry, JobAges
  <2>5. \A r \in Requests : ~Stop(r)
    BY <2>2 DEF Stop, dbVars
  <2> QED BY <2>2, <2>3, <2>4, <2>5 DEF Next, vars
<1>2. TypeInv /\ [Next]_vars => [Moves]_vars
  BY <1>1
<1> QED BY <1>2, TypeInvariant, PTL DEF Spec, OnlyClaimMovesCursor
=============================================================================
