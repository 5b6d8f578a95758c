---------------------------- MODULE JiraRuntime ----------------------------
(***************************************************************************)
(* JiraRuntimeService.runOne (apps/api/src/jira-runtime.ts): requests that *)
(* run the transactions of ConnectorRuntime one after the other, with the  *)
(* calls to Atlassian between them.  The worker dispatches a request every *)
(* minute and gives up on it after 25 seconds while the API may still be   *)
(* executing it, so several requests run at the same time.  A request may  *)
(* stop between any two of its steps.                                      *)
(*                                                                         *)
(* Atlassian is external: a refresh token is valid once, and a refresh     *)
(* that is not answered may have consumed it.                              *)
(***************************************************************************)
EXTENDS ConnectorRuntime

CONSTANTS
  Requests,     \* requests that may be executing at the same time
  Answers,      \* codes of the failed calls to Atlassian
  Waits,        \* Retry-After values of a 429, in ticks
  ClockSkew     \* TRUE: the application clock may differ from the database's

ASSUME RuntimeAssumption ==
  /\ Answers \subseteq Codes /\ Waits \subseteq Nat
  /\ ClockSkew \in BOOLEAN

VARIABLES
  request,     \* what each request has read and where it is
  valid,       \* refresh tokens Atlassian accepts
  issued,      \* number of refresh tokens Atlassian has issued
  asked        \* ticks left of the delay Atlassian asked for in a 429 that a
               \* request with a live claim passed on

vars == <<source, jobs, pages, receipts, credential, request, valid, issued, asked>>

Steps == {"idle", "snapshot", "reset", "access", "refresh",
          "complete", "verify", "defer", "abandon", "fetch", "persist", "fail"}

Expectations == [config : Nat, revision : Nat, generation : Nat]
Rotations == [operation : Nat, revision : Nat, config : Nat]

RequestRecords ==
  [step : Steps, job : Jobs \cup {0}, claim : Nat, expected : Expectations,
   cursor : Nat, rotation : Rotations,
   token : Nat, code : Codes, wait : Nat, caught : BOOLEAN]

NoRotation == [operation |-> 0, revision |-> 0, config |-> 0]

Idle ==
  [step |-> "idle", job |-> 0, claim |-> 0,
   expected |-> [config |-> 0, revision |-> 0, generation |-> 0],
   cursor |-> 0, rotation |-> NoRotation, token |-> 0,
   code |-> "INVALID_RESPONSE", wait |-> 0, caught |-> FALSE]

Init ==
  /\ DbInit
  /\ request = [r \in Requests |-> Idle]
  /\ valid = {} /\ issued = 0 /\ asked = 0

-----------------------------------------------------------------------------
(* Helpers *)

external == <<valid, issued>>

Job(r) == request[r].job
Claim(r) == request[r].claim
At(r, step) == request[r].step = step
Goto(r, step) == request' = [request EXCEPT ![r].step = step]
Done(r) == request' = [request EXCEPT ![r] = Idle]

\* The request will call failRunningJob; caught: from the outer catch, where
\* an error of failRunningJob itself is not handled again.
Failing(r, code, wait, caught) ==
  request' = [request EXCEPT
    ![r] = [Idle EXCEPT !.step = "fail", !.job = Job(r), !.claim = Claim(r),
                        !.code = code, !.wait = wait, !.caught = caught]]

\* What the application clock may show of the lease of job j.
AppSees(j) == IF ClockSkew THEN BOOLEAN ELSE {jobs[j].lease > 0}

\* The statuses of a call to Atlassian that does not succeed.
Failures ==
  {[code |-> c, wait |-> 0] : c \in Answers}
    \cup {[code |-> c, wait |-> n] : c \in Answers \cap {"RATE_LIMITED"}, n \in Waits}

-----------------------------------------------------------------------------
(* The steps of a request *)

\* enqueueDueJobs, the first call of runOne.  It leaves nothing for the claim
\* to read, so a request that has enqueued is still idle.
Enqueue(r) ==
  /\ At(r, "idle")
  /\ \E j \in Jobs : EnqueueDueJobs(j)
  /\ UNCHANGED <<request, external, asked>>

\* A request that finds nothing to claim returns.
ClaimJob(r) ==
  /\ At(r, "idle")
  /\ \/ \E j \in Jobs :
          /\ ClaimNextJob(j)
          /\ request' = [request EXCEPT ![r].step = "snapshot", ![r].job = j,
                                        ![r].claim = jobs[j].attempts + 1]
     \/ ClaimNothing /\ UNCHANGED request
  /\ UNCHANGED <<external, asked>>

\* The error of a transaction that the outer catch of runOne maps to a code.
Refused(r, claimed) ==
  Failing(r, IF claimed THEN "INVALID_RESPONSE" ELSE "TEMPORARILY_UNAVAILABLE", 0, TRUE)

ReadConnectorSyncSnapshot(r) ==
  LET j == Job(r) IN
  /\ At(r, "snapshot")
  /\ \E seen \in AppSees(j) :
       LET claimed == AppClaim(j, Claim(r), seen) /\ ~jobs[j].aged
           readable == /\ claimed /\ SameConfig(j) /\ HasServiceGrants
                       /\ ResetRequired(j) \/ source.cursorState = "READY"
       IN \/ /\ readable /\ ResetRequired(j)
             /\ Goto(r, "reset")
          \/ /\ readable /\ ~ResetRequired(j)
             /\ request' = [request EXCEPT
                  ![r].step = "access",
                  ![r].expected = [config |-> source.config,
                                   revision |-> source.revision,
                                   generation |-> source.generation],
                  ![r].cursor = source.cursor]
          \/ ~readable /\ Refused(r, claimed)
  /\ UNCHANGED <<dbVars, external, asked>>

Reset(r) ==
  LET j == Job(r) IN
  /\ At(r, "reset")
  /\ \E seen \in AppSees(j) :
       LET allowed == ResetAllowed(j, Claim(r), seen) IN
       \/ /\ allowed /\ ~ReadyRefused(j)
          /\ ResetConnectorCursorForJob(j)
          /\ Done(r)
       \/ /\ ~allowed \/ ReadyRefused(j)
          /\ Refused(r, AppClaim(j, Claim(r), seen))
          /\ UNCHANGED dbVars
  /\ UNCHANGED <<external, asked>>

AccessOrBeginRotation(r) ==
  /\ At(r, "access")
  /\ \/ ~HasServiceGrants /\ Refused(r, TRUE) /\ UNCHANGED dbVars
     \/ /\ HasServiceGrants
        /\ \/ AccessGranted /\ Goto(r, "fetch") /\ UNCHANGED dbVars
           \/ /\ RotationRunning
              /\ Failing(r, "TEMPORARILY_UNAVAILABLE", 0, FALSE)
              /\ UNCHANGED dbVars
           \/ Unavailable /\ Failing(r, "EXPIRED_CREDENTIALS", 0, FALSE) /\ UNCHANGED dbVars
           \/ AbandonLapsedRotation /\ Failing(r, "EXPIRED_CREDENTIALS", 0, FALSE)
           \/ /\ BeginRotation
              /\ request' = [request EXCEPT
                   ![r].step = "refresh",
                   ![r].rotation = [operation |-> credential'.operation,
                                    revision |-> credential'.revision,
                                    config |-> source.config],
                   ![r].token = credential.token]
  /\ UNCHANGED <<external, asked>>

\* A failed call inside the refresh: a 429 defers the rotation, anything else
\* gives it up.
RotationFailed(r, failure) ==
  request' = [request EXCEPT
    ![r].step = IF failure.code = "RATE_LIMITED" THEN "defer" ELSE "abandon",
    ![r].code = failure.code, ![r].wait = failure.wait]

\* POST https://auth.atlassian.com/oauth/token
RefreshToken(r) ==
  LET token == request[r].token
      exchanged == /\ token \in valid
                   /\ valid' = (valid \ {token}) \cup {issued + 1}
                   /\ issued' = issued + 1
  IN
  /\ At(r, "refresh")
  /\ \/ exchanged /\ request' = [request EXCEPT ![r].step = "complete", ![r].token = issued + 1]
     \/ exchanged /\ RotationFailed(r, [code |-> "TEMPORARILY_UNAVAILABLE", wait |-> 0])
     \/ (\E f \in Failures : RotationFailed(r, f)) /\ UNCHANGED external
  /\ UNCHANGED <<dbVars, asked>>

CompleteRotation(r) ==
  LET rotation == request[r].rotation
      given(code) == request' = [request EXCEPT ![r].step = "abandon", ![r].code = code]
  IN
  /\ At(r, "complete")
  /\ \/ CompleteOAuthRotation(rotation, request[r].token) /\ Goto(r, "verify")
     \/ CompleteStaleRotation(rotation) /\ given("EXPIRED_CREDENTIALS")
     \/ /\ HasServiceGrants /\ ~OwnsRotation(rotation)
        /\ given("EXPIRED_CREDENTIALS") /\ UNCHANGED dbVars
     \/ ~HasServiceGrants /\ given("TEMPORARILY_UNAVAILABLE") /\ UNCHANGED dbVars
  /\ UNCHANGED <<external, asked>>

\* The accessible-resources call that follows the commit, still inside the
\* try of the refresh.
VerifyResources(r) ==
  /\ At(r, "verify")
  /\ \/ Goto(r, "fetch")
     \/ \E f \in Failures : RotationFailed(r, f)
  /\ UNCHANGED <<dbVars, external, asked>>

AbandonRotation(r) ==
  /\ At(r, "abandon")
  /\ \/ FailOAuthRotation(request[r].rotation)
     \/ ~OwnsRotation(request[r].rotation) /\ UNCHANGED dbVars
  /\ Goto(r, "fail")
  /\ UNCHANGED <<external, asked>>

\* The delay of a 429 that a live claim passes on binds the source from here.
Asked(r) == asked' = Max2(asked, request[r].wait)

DeferRotation(r) ==
  LET j == Job(r)
      allowed == DeferAllowed(j, Claim(r), request[r].rotation)
      refused == jobs[j].attempts < RetryBudget /\ ReadyRefused(j)
  IN
  /\ At(r, "defer")
  /\ \/ ~HasServiceGrants /\ Refused(r, TRUE) /\ UNCHANGED <<dbVars, asked>>
     \/ /\ HasServiceGrants /\ allowed /\ ~refused
        /\ DeferOAuthRotation(j, request[r].wait) /\ Done(r) /\ Asked(r)
     \/ /\ HasServiceGrants /\ allowed /\ refused
        /\ Refused(r, TRUE) /\ UNCHANGED dbVars /\ Asked(r)
     \/ /\ HasServiceGrants /\ ~allowed
        /\ Goto(r, "fail") /\ UNCHANGED <<dbVars, asked>>
  /\ UNCHANGED external

\* Resource check, discovery and pullChanges; a missing scope or a failed
\* sprint check throws to the outer catch.
PullChanges(r) ==
  /\ At(r, "fetch")
  /\ \/ Goto(r, "persist")
     \/ \E f \in Failures, caught \in BOOLEAN : Failing(r, f.code, f.wait, caught)
  /\ UNCHANGED <<dbVars, external, asked>>

Persist(r) ==
  LET j == Job(r) IN
  /\ At(r, "persist")
  /\ \E seen \in AppSees(j) :
       LET allowed == PersistAllowed(j, Claim(r), seen, request[r].expected,
                                     request[r].cursor)
       IN \/ /\ allowed
             /\ \E n \in Jobs : PersistConnectorPageForJob(j, n, request[r].cursor + 1)
             /\ Done(r)
          \/ /\ ~allowed
             /\ Refused(r, AppClaim(j, Claim(r), seen) /\ ~jobs[j].aged)
             /\ UNCHANGED dbVars
  /\ UNCHANGED <<external, asked>>

\* failRunningJob and what its own error leads to.
Fail(r) ==
  LET j == Job(r)
      code == request[r].code
      live == LiveClaim(j, Claim(r))
      current == SameConfig(j) /\ HasServiceGrants
      refused == WillRetry(j, code) /\ ReadyRefused(j)
  IN
  /\ At(r, "fail")
  /\ \/ ~live /\ Done(r) /\ UNCHANGED <<dbVars, asked>>
     \/ live /\ ~current /\ ExpireRunningJob(j) /\ Done(r) /\ UNCHANGED asked
     \/ /\ live /\ current /\ ~refused
        /\ FailRunningJob(j, code, request[r].wait) /\ Done(r) /\ Asked(r)
     \/ /\ live /\ current /\ refused
        /\ IF request[r].caught THEN Done(r) ELSE Refused(r, TRUE)
        /\ Asked(r) /\ UNCHANGED dbVars
  /\ UNCHANGED external

Step(r) ==
  \/ Enqueue(r) \/ ClaimJob(r) \/ ReadConnectorSyncSnapshot(r) \/ Reset(r)
  \/ AccessOrBeginRotation(r) \/ RefreshToken(r) \/ CompleteRotation(r)
  \/ VerifyResources(r) \/ AbandonRotation(r) \/ DeferRotation(r)
  \/ PullChanges(r) \/ Persist(r) \/ Fail(r)

\* The process ends, or the connection to the database does.
Stop(r) ==
  /\ ~At(r, "idle")
  /\ Done(r)
  /\ UNCHANGED <<dbVars, external, asked>>

-----------------------------------------------------------------------------
(* Everyone else *)

Deliver(e) ==
  /\ \E j \in Jobs : AcceptWebhook(e, j)
  /\ UNCHANGED <<request, external, asked>>

Reconfigure ==
  /\ \E connector \in BOOLEAN : Configure(connector)
  /\ UNCHANGED <<request, external, asked>>

\* An administrator goes through the consent of Atlassian and stores its token.
Authorize ==
  /\ SetOAuthCredential(issued + 1)
  /\ issued' = issued + 1 /\ valid' = valid \cup {issued + 1}
  /\ UNCHANGED <<request, asked>>

Tick ==
  /\ TickRows
  /\ asked' = Less(asked)
  /\ UNCHANGED <<request, external>>

Passing ==
  /\ SlotBegins \/ TokenNearsExpiry \/ (\E j \in Jobs : JobAges(j))
  /\ UNCHANGED <<request, external, asked>>

Environment ==
  \/ \E e \in Events : Deliver(e)
  \/ Reconfigure \/ Authorize \/ Tick \/ Passing

Next == (\E r \in Requests : Step(r) \/ Stop(r)) \/ Environment

Spec == Init /\ [][Next]_vars

\* The worker dispatches a request every minute, a call to Atlassian and a
\* transaction time out, and the clock goes on: a request that has not
\* stopped takes its next step, and a tick comes.
Fairness == WF_vars(Tick) /\ \A r \in Requests : WF_vars(Step(r))

FairSpec == Spec /\ Fairness

-----------------------------------------------------------------------------
(* Properties *)

\* Every variable has its type.
TypeOK ==
  /\ DbTypeOK
  /\ request \in [Requests -> RequestRecords]
  /\ valid \subseteq Nat /\ issued \in Nat /\ asked \in Nat

\* At most one job of the source is running, whichever requests crash, lapse
\* or race to claim (connector-runtime.ts, claimNextJob; the unique index of
\* the database is never what prevents it).
SingleRunning ==
  \A i, j \in Jobs :
    jobs[i].state = "RUNNING" /\ jobs[j].state = "RUNNING" => i = j

\* The pages of a generation are pages 1, 2, ... in order, none twice and none
\* skipped, and the stored cursor is where they end: after a crash, a lapsed
\* lease or a reset by another job, a traversal resumes exactly where the
\* committed receipts stop.
PagesContiguous ==
  /\ \A n \in 1 .. Len(pages) : pages[n].page = n
  /\ source.cursorState = "READY" => source.cursor = Len(pages)
  /\ source.cursorState = "TERMINAL" => Len(pages) = PageCount

\* No generation mixes pages read under two configurations: once configure
\* has fenced the cursor, only a reset lets another page in.
GenerationUniform ==
  \A n \in 1 .. Len(pages) :
    /\ pages[n].config = pages[1].config
    /\ source.cursorState # "RESET_REQUIRED" => pages[n].config = source.config

\* A webhook job completes only after it restarted the traversal, so the
\* event that queued it is never answered from a stale cursor alone.
WebhookRestarts ==
  \A j \in Jobs :
    jobs[j].kind = "WEBHOOK" /\ jobs[j].state = "COMPLETED" => jobs[j].resetCompleted

\* A credential marked ACTIVE holds a refresh token Atlassian still accepts,
\* however refreshes, crashes, lapsed deadlines and new authorizations
\* interleave.
CredentialUsable ==
  credential.state = "ACTIVE" => credential.token \in valid

\* No two requests are about to present the same refresh token.
SingleRefresh ==
  \A r, s \in Requests :
    At(r, "refresh") /\ At(s, "refresh") /\ request[r].token = request[s].token
      => r = s

\* The cursor of the source moves only by the request that holds the current
\* claim of the running job, or by configure.
OnlyClaimMovesCursor ==
  [][source'.revision # source.revision =>
       \E r \in Requests : /\ request[r].step \in {"reset", "persist"}
                           /\ Holds(Job(r), Claim(r))]_vars

\* While the delay Atlassian asked for has not passed, no job of the source is
\* claimed (connector-runtime.ts:709, "Retain the provider delay even after
\* the retry budget is exhausted or this job expires").
RetryAfterHonoured ==
  [][asked > 0 => \A j \in Jobs : jobs'[j].attempts = jobs[j].attempts]_vars

\* A definitive 429 during a refresh releases the refresh lease: the claim
\* that reports it leaves no rotation of its own behind
\* (docs/00-governance/DECISION_LOG.md:154).
RateLimitReleasesRotation ==
  [][\A r \in Requests :
       /\ At(r, "defer") /\ request'[r].step # "defer" /\ HasServiceGrants
       /\ DeferAllowed(Job(r), Claim(r), request[r].rotation)
       /\ request'[r] # Idle
       => ~(credential'.state = "ROTATING")]_vars

\* The receipt of a reset stays valid however its job ends: receipts are
\* immutable, and no receipt of a source is invalid after a reconfiguration
\* (ingestion-reassessment.integration.test.ts:965).
ResetReceiptsValid ==
  \A j \in Jobs :
    jobs[j].resetCompleted /\ ~IsLive(jobs[j]) => SyncReceiptValid(jobs[j])

\* Whatever the requests, webhooks and reconfigurations do to each other, the
\* source is read in generations of consecutive pages (SourceTraversal).
Traversal == INSTANCE SourceTraversal WITH
  config <- source.config,
  fenced <- source.cursorState = "RESET_REQUIRED",
  generation <- source.generation,
  read <- [n \in DOMAIN pages |-> pages[n].config]

ImplementsTraversal == Traversal!TraversalSpec

\* Again and again no job waits or runs: every job is settled, though requests
\* stop, leases lapse and calls to Atlassian fail, because it completes, fails or
\* expires (the retry budget and the attempt limit of claimNextJob).
JobsSettle == []<>(\A j \in Jobs : ~IsLive(jobs[j]))
=============================================================================
