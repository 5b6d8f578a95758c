------------------------- MODULE ConnectorRuntime -------------------------
(***************************************************************************)
(* The durable state of one Jira source and the transactions on it:        *)
(* DatabaseConnectorRuntimeRepository (packages/data/src/                  *)
(* connector-runtime.ts) and the connector half of                         *)
(* DatabaseIngestionRepository (ingestion-persistence.ts).                 *)
(*                                                                         *)
(* Every transaction locks the source row first (SELECT ... FOR UPDATE),   *)
(* so a transaction is one action.  What happens between two transactions  *)
(* of a request is in JiraRuntime.                                         *)
(*                                                                         *)
(* Time is relative: a lease, a delay (availableAt) and a rotation         *)
(* deadline are the ticks that remain; 0 is "in the past".                 *)
(* The mapping revision is a function of the configuration revision (the   *)
(* foreign key of ConnectorSyncJob), so the configuration stands for both. *)
(***************************************************************************)
EXTENDS Naturals, Sequences

CONSTANTS
  MaxJobs,        \* bound: rows of ConnectorSyncJob
  Events,         \* webhook deliveries that may arrive
  MaxConfig,      \* bound: configuration revisions
  MaxSlots,       \* bound: scheduling slots that may pass
  MaxCredential,  \* bound: credential revisions
  Aging,          \* TRUE: jobs may outlive their 24 hours
  PageCount,      \* pages of one traversal of the Jira source
  LeaseTicks,     \* leaseDurationSeconds
  RotationTicks,  \* the 60 seconds of a refresh lease
  Backoff,        \* ticks of 1s * 2^(attempts-1), capped at 15 minutes
  RetryBudget,    \* 5: a claim with this number or more is not retried
  AttemptLimit    \* 100: a job claimed this often is expired

ASSUME ConnectorAssumption ==
  /\ MaxJobs \in Nat /\ MaxConfig \in Nat /\ MaxSlots \in Nat
  /\ MaxCredential \in Nat /\ Aging \in BOOLEAN
  /\ PageCount \in Nat \ {0}
  /\ LeaseTicks \in Nat \ {0} /\ RotationTicks \in Nat \ {0}
  /\ Backoff \in Nat /\ RetryBudget \in Nat /\ AttemptLimit \in Nat

VARIABLES
  source,      \* the IngestionSource row
  jobs,        \* ConnectorSyncJob rows
  pages,       \* CONNECTOR_PAGE receipts of the current generation, in order
  receipts,    \* ConnectorWebhookReceipt: the job of each accepted event
  credential   \* the jira_oauth ConnectorCredential row

dbVars == <<source, jobs, pages, receipts, credential>>

Jobs == 1 .. MaxJobs
Max2(a, b) == IF a >= b THEN a ELSE b

CursorStates == {"READY", "TERMINAL", "RESET_REQUIRED"}
Healths == {"UNKNOWN", "HEALTHY", "DEGRADED", "FAILED"}
JobStates == {"ABSENT", "READY", "RUNNING", "COMPLETED", "FAILED", "EXPIRED"}
Kinds == {"SCHEDULED", "WEBHOOK"}
CredentialStates == {"ABSENT", "ACTIVE", "ROTATING", "REAUTH_REQUIRED"}

\* The failure codes the transactions tell apart.  TEMPORARILY_UNAVAILABLE
\* stands for UNKNOWN_OUTCOME too, EXPIRED_CREDENTIALS for INVALID_CREDENTIALS
\* and INVALID_RESPONSE for the codes that are never retried.
Codes == {"RATE_LIMITED", "TEMPORARILY_UNAVAILABLE", "EXPIRED_CREDENTIALS",
          "INVALID_RESPONSE"}
Retryable == {"RATE_LIMITED", "TEMPORARILY_UNAVAILABLE"}

SourceRows ==
  [config : Nat, connector : BOOLEAN, cursor : Nat, cursorState : CursorStates,
   revision : Nat, generation : Nat, health : Healths,
   due : BOOLEAN, slot : Nat, slotTaken : BOOLEAN]

JobRows ==
  [state : JobStates, kind : Kinds, config : Nat, resetRequested : BOOLEAN,
   resetCompleted : BOOLEAN, attempts : Nat, lease : Nat, delay : Nat,
   aged : BOOLEAN]

CredentialRows ==
  [state : CredentialStates, token : Nat, revision : Nat, operation : Nat,
   deadline : Nat, usable : BOOLEAN]

DbTypeOK ==
  /\ source \in SourceRows
  /\ jobs \in [Jobs -> JobRows]
  /\ pages \in Seq([page : Nat, config : Nat])
  /\ receipts \in [Events -> Jobs \cup {0}]
  /\ credential \in CredentialRows

NoJob ==
  [state |-> "ABSENT", kind |-> "SCHEDULED", config |-> 0,
   resetRequested |-> FALSE, resetCompleted |-> FALSE, attempts |-> 0,
   lease |-> 0, delay |-> 0, aged |-> FALSE]

\* A configured source that has never been synchronised.
DbInit ==
  /\ source = [config |-> 1, connector |-> TRUE, cursor |-> 0,
               cursorState |-> "RESET_REQUIRED", revision |-> 0,
               generation |-> 1, health |-> "UNKNOWN",
               due |-> TRUE, slot |-> 0, slotTaken |-> FALSE]
  /\ jobs = [j \in Jobs |-> NoJob]
  /\ pages = <<>>
  /\ receipts = [e \in Events |-> 0]
  /\ credential = [state |-> "ABSENT", token |-> 0, revision |-> 0,
                   operation |-> 0, deadline |-> 0, usable |-> FALSE]

-----------------------------------------------------------------------------
(* Predicates on rows *)

IsLive(job) == job.state \in {"READY", "RUNNING"}

\* Mutant: a failed job does not hold its source back.
FencesExpiredOnly(job) == job.state = "EXPIRED" /\ job.delay > 0

\* FAILED or EXPIRED, and availableAt still in the future.
Fences(job) == job.state \in {"FAILED", "EXPIRED"} /\ job.delay > 0

\* The insert of a job takes the next row.
IsNextRow(j) ==
  jobs[j].state = "ABSENT" /\ \A i \in Jobs : i < j => jobs[i].state # "ABSENT"

\* Mutant: a webhook job does not ask for a reset.
NewJobWithoutReset(kind, reset) ==
  [NoJob EXCEPT !.state = "READY", !.kind = kind, !.config = source.config,
                !.resetRequested = reset /\ kind = "SCHEDULED"]

NewJob(kind, reset) ==
  [NoJob EXCEPT !.state = "READY", !.kind = kind, !.config = source.config,
                !.resetRequested = reset]

\* Mutant: a state the table does not know.
Cancelled(job) == [job EXCEPT !.state = "CANCELLED", !.lease = 0]

Expired(job) == [job EXCEPT !.state = "EXPIRED", !.lease = 0]

\* lockCurrentServiceGrants: configure grants every configured project when
\* the mapping is a connector mapping and revokes them all when it is not.
HasServiceGrants == source.connector

\* The claim a request presents is the current one of a running job.
Holds(j, claim) == jobs[j].state = "RUNNING" /\ jobs[j].attempts = claim

\* ... and its lease has not lapsed on the database clock.
LiveClaim(j, claim) == Holds(j, claim) /\ jobs[j].lease > 0

SameConfig(j) == source.config = jobs[j].config

\* The unique index on READY webhook jobs refuses to let j become READY.
ReadyRefused(j) ==
  /\ jobs[j].kind = "WEBHOOK"
  /\ \E i \in Jobs \ {j} : jobs[i].kind = "WEBHOOK" /\ jobs[i].state = "READY"

-----------------------------------------------------------------------------
(* Scheduling and claiming *)

\* The source is due, nothing holds it back and no job of this slot exists.
SourceDue ==
  /\ source.connector /\ source.due /\ ~source.slotTaken
  /\ \A i \in Jobs : ~Fences(jobs[i]) /\ ~IsLive(jobs[i])

EnqueueDueJobs(j) ==
  /\ SourceDue /\ HasServiceGrants
  /\ IsNextRow(j)
  /\ jobs' = [jobs EXCEPT ![j] = NewJob("SCHEDULED", source.cursorState # "READY")]
  /\ source' = [source EXCEPT !.slotTaken = TRUE]
  /\ UNCHANGED <<pages, receipts, credential>>

\* The first statement of claimNextJob: rows past expiresAt are expired.
Swept ==
  [j \in Jobs |-> IF jobs[j].aged /\ IsLive(jobs[j]) THEN Expired(jobs[j])
                                                     ELSE jobs[j]]

\* Mutant: a running job whose lease has lapsed is never taken over.
CandidateReadyOnly(rows, j) ==
  rows[j].state = "READY" /\ rows[j].delay = 0 /\ \A i \in Jobs : ~Fences(rows[i])

Candidate(rows, j) ==
  /\ \/ rows[j].state = "READY"
     \/ rows[j].state = "RUNNING" /\ rows[j].lease = 0
  /\ rows[j].delay = 0
  /\ \A i \in Jobs : ~Fences(rows[i])

\* A candidate the loop expires and passes over.
Unclaimable(rows, j) ==
  \/ rows[j].attempts >= AttemptLimit
  \/ source.config # rows[j].config
  \/ ~HasServiceGrants

\* Mutant: another running job is not looked for.
ClaimableAnyway(rows, j) == Candidate(rows, j) /\ ~Unclaimable(rows, j)

Claimable(rows, j) ==
  /\ Candidate(rows, j)
  /\ ~Unclaimable(rows, j)
  /\ \A i \in Jobs \ {j} : rows[i].state # "RUNNING"

Claimed(job) ==
  [job EXCEPT !.state = "RUNNING", !.attempts = @ + 1, !.lease = LeaseTicks]

\* The loop stops at the first job it can claim, having expired the
\* unclaimable candidates it met before (the order is by availableAt).
ClaimNextJob(j) ==
  /\ Claimable(Swept, j)
  /\ \E met \in SUBSET {i \in Jobs : Candidate(Swept, i) /\ Unclaimable(Swept, i)} :
       jobs' = [i \in Jobs |-> IF i = j THEN Claimed(Swept[i])
                               ELSE IF i \in met THEN Expired(Swept[i])
                               ELSE Swept[i]]
  /\ UNCHANGED <<source, pages, receipts, credential>>

ClaimNothing ==
  /\ \A j \in Jobs : ~Claimable(Swept, j)
  /\ jobs' = [i \in Jobs |->
                IF Candidate(Swept, i) /\ Unclaimable(Swept, i)
                THEN Expired(Swept[i]) ELSE Swept[i]]
  /\ UNCHANGED <<source, pages, receipts, credential>>

-----------------------------------------------------------------------------
(* Pages, resets, failures: the transactions of a claimed job *)

\* Mutant: the claim generation is not compared.
AppClaimAnyAttempt(j, claim, seen) == jobs[j].state = "RUNNING" /\ seen

\* The snapshot and the writes of ingestion-persistence.ts check the lease
\* with the clock of the application: "seen" is what that clock shows.
AppClaim(j, claim, seen) == Holds(j, claim) /\ seen

\* What valid_ingestion_receipt asks of the job whose receipt it looks at.
SyncReceiptValid(job) == job.state \in {"READY", "COMPLETED"}

ResetRequired(j) == jobs[j].resetRequested /\ ~jobs[j].resetCompleted

\* The guards of resetConnectorCursorForJob that its update depends on.
ResetAllowed(j, claim, seen) ==
  AppClaim(j, claim, seen) /\ SameConfig(j) /\ ResetRequired(j) /\ HasServiceGrants

\* Mutant: the cursor envelope survives the reset.
ResetKeepsCursor(j) ==
  /\ source' = [source EXCEPT !.cursorState = "READY",
                              !.revision = @ + 1, !.generation = @ + 1]
  /\ pages' = <<>>
  /\ jobs' = [jobs EXCEPT ![j].state = "READY", ![j].resetCompleted = TRUE,
                          ![j].lease = 0, ![j].delay = 0]
  /\ UNCHANGED <<receipts, credential>>

\* Mutant: the reset stays in the generation.
ResetKeepsGeneration(j) ==
  /\ source' = [source EXCEPT !.cursor = 0, !.cursorState = "READY", !.revision = @ + 1]
  /\ pages' = <<>>
  /\ jobs' = [jobs EXCEPT ![j].state = "READY", ![j].resetCompleted = TRUE,
                          ![j].lease = 0, ![j].delay = 0]
  /\ UNCHANGED <<receipts, credential>>

ResetConnectorCursorForJob(j) ==
  /\ source' = [source EXCEPT !.cursor = 0, !.cursorState = "READY",
                              !.revision = @ + 1, !.generation = @ + 1]
  /\ pages' = <<>>
  /\ jobs' = [jobs EXCEPT ![j].state = "READY", ![j].resetCompleted = TRUE,
                          ![j].lease = 0, ![j].delay = 0]
  /\ UNCHANGED <<receipts, credential>>

\* expected: the configuration, cursor revision and generation of the snapshot;
\* cursor: the one the page was requested with.
PersistAllowed(j, claim, seen, expected, cursor) ==
  /\ AppClaim(j, claim, seen) /\ ~jobs[j].aged
  /\ ~ResetRequired(j)
  /\ SameConfig(j) /\ jobs[j].config = expected.config
  /\ source.revision = expected.revision
  /\ source.generation = expected.generation
  /\ source.cursorState = "READY" /\ source.cursor = cursor
  /\ HasServiceGrants

\* The page that follows the stored cursor is committed; the last page of the
\* traversal makes the cursor terminal, any other inserts a continuation n.
PersistConnectorPageForJob(j, n, page) ==
  LET terminal == page = PageCount IN
  /\ terminal \/ IsNextRow(n)
  /\ source' = [source EXCEPT !.cursor = IF terminal THEN 0 ELSE page,
                              !.cursorState = IF terminal THEN "TERMINAL" ELSE "READY",
                              !.revision = @ + 1, !.health = "HEALTHY", !.due = FALSE]
  /\ pages' = Append(pages, [page |-> page, config |-> jobs[j].config])
  /\ jobs' = [i \in Jobs |->
                IF i = j THEN [jobs[j] EXCEPT !.state = "COMPLETED", !.lease = 0]
                ELSE IF i = n /\ ~terminal THEN NewJob("SCHEDULED", FALSE)
                ELSE jobs[i]]
  /\ UNCHANGED <<receipts, credential>>

\* Only a claim below the budget is retried.
WillRetry(j, code) == code \in Retryable /\ jobs[j].attempts < RetryBudget

\* failRunningJob when the claim is live and its configuration current.
FailRunningJob(j, code, wait) ==
  /\ jobs' = [jobs EXCEPT ![j].state = IF WillRetry(j, code) THEN "READY" ELSE "FAILED",
                          ![j].lease = 0,
                          ![j].delay = IF code \in Retryable THEN Max2(wait, Backoff)
                                                             ELSE 0]
  /\ source' = [source EXCEPT !.health = IF WillRetry(j, code) THEN "DEGRADED" ELSE "FAILED",
                              !.due = FALSE]
  /\ credential' =
       IF code = "EXPIRED_CREDENTIALS" /\ credential.state = "ACTIVE"
       THEN [credential EXCEPT !.state = "REAUTH_REQUIRED", !.revision = @ + 1]
       ELSE credential
  /\ UNCHANGED <<pages, receipts>>

\* failRunningJob when the claim is live but not its configuration or scope.
ExpireRunningJob(j) ==
  /\ jobs' = [jobs EXCEPT ![j] = Expired(jobs[j])]
  /\ UNCHANGED <<source, pages, receipts, credential>>

-----------------------------------------------------------------------------
(* Webhooks and configuration *)

\* acceptWebhook, after authentication.  An event already received changes
\* nothing; a new one joins the READY webhook job or replaces the READY
\* scheduled jobs by a webhook job that starts over.
AcceptWebhook(e, j) ==
  /\ receipts[e] = 0
  /\ HasServiceGrants
  /\ LET queued == {i \in Jobs : jobs[i].kind = "WEBHOOK" /\ jobs[i].state = "READY"} IN
       \/ /\ j \in queued
          /\ jobs' = jobs
       \/ /\ queued = {}
          /\ IsNextRow(j)
          /\ jobs' = [i \in Jobs |->
                IF i = j THEN NewJob("WEBHOOK", TRUE)
                ELSE IF jobs[i].kind = "SCHEDULED" /\ jobs[i].state = "READY"
                THEN Expired(jobs[i]) ELSE jobs[i]]
  /\ receipts' = [receipts EXCEPT ![e] = j]
  /\ UNCHANGED <<source, pages, credential>>

\* Mutant: the cursor is not fenced.
ConfigureUnfenced(connector) ==
  /\ source.config < MaxConfig
  /\ source' = [source EXCEPT !.config = @ + 1, !.connector = connector, !.slotTaken = FALSE]
  /\ jobs' = [j \in Jobs |-> IF IsLive(jobs[j]) THEN Expired(jobs[j]) ELSE jobs[j]]
  /\ UNCHANGED <<pages, receipts, credential>>

\* configure: a new revision, the cursor fenced, every live job expired, the
\* service grants re-issued for a connector mapping and revoked otherwise.
Configure(connector) ==
  /\ source.config < MaxConfig
  /\ source' = [source EXCEPT !.config = @ + 1, !.connector = connector,
                              !.cursor = 0, !.cursorState = "RESET_REQUIRED",
                              !.slotTaken = FALSE]
  /\ jobs' = [j \in Jobs |-> IF IsLive(jobs[j]) THEN Expired(jobs[j]) ELSE jobs[j]]
  /\ UNCHANGED <<pages, receipts, credential>>

-----------------------------------------------------------------------------
(* The OAuth credential *)

\* An administrator stores the token of a new authorization.
SetOAuthCredential(token) ==
  /\ source.connector
  /\ credential.revision < MaxCredential
  /\ credential.state # "ROTATING"
  /\ credential' = [state |-> "ACTIVE", token |-> token,
                    revision |-> credential.revision + 1, operation |-> 0,
                    deadline |-> 0, usable |-> TRUE]
  /\ UNCHANGED <<source, jobs, pages, receipts>>

\* accessOrBeginRotation, by what it returns.
AccessGranted == credential.state = "ACTIVE" /\ credential.usable
RotationRunning == credential.state = "ROTATING" /\ credential.deadline > 0
Unavailable == credential.state \in {"ABSENT", "REAUTH_REQUIRED"}

\* Mutant: a lapsed rotation is started again with the same token.
BeginRotationAgain ==
  /\ \/ credential.state = "ACTIVE" /\ ~credential.usable
     \/ credential.state = "ROTATING" /\ credential.deadline = 0
  /\ credential.revision < MaxCredential
  /\ credential' = [credential EXCEPT !.state = "ROTATING", !.revision = @ + 1,
                                      !.operation = credential.revision + 1,
                                      !.deadline = RotationTicks]
  /\ UNCHANGED <<source, jobs, pages, receipts>>

\* The operation identifier is fresh: the revision the rotation starts.
BeginRotation ==
  /\ credential.state = "ACTIVE" /\ ~credential.usable
  /\ credential.revision < MaxCredential
  /\ credential' = [credential EXCEPT !.state = "ROTATING", !.revision = @ + 1,
                                      !.operation = credential.revision + 1,
                                      !.deadline = RotationTicks]
  /\ UNCHANGED <<source, jobs, pages, receipts>>

\* Mutant: a rotation that failed gives its old token back.
RestoreToken ==
  credential' = [credential EXCEPT !.state = "ACTIVE", !.revision = @ + 1,
                                   !.operation = 0, !.deadline = 0]

RequireReauthorization ==
  credential' = [credential EXCEPT !.state = "REAUTH_REQUIRED", !.revision = @ + 1,
                                   !.operation = 0, !.deadline = 0]

\* A rotation whose deadline passed: the token it consumed may be spent.
AbandonLapsedRotation ==
  /\ credential.state = "ROTATING" /\ credential.deadline = 0
  /\ RequireReauthorization
  /\ UNCHANGED <<source, jobs, pages, receipts>>

\* The rotation a request presents still owns the row.
OwnsRotation(rotation) ==
  /\ credential.state = "ROTATING"
  /\ credential.operation = rotation.operation
  /\ credential.revision = rotation.revision

RotationCurrent(rotation) ==
  credential.deadline > 0 /\ source.config = rotation.config

CompleteOAuthRotation(rotation, token) ==
  /\ HasServiceGrants
  /\ OwnsRotation(rotation) /\ RotationCurrent(rotation)
  /\ credential' = [credential EXCEPT !.state = "ACTIVE", !.revision = @ + 1,
                                      !.token = token, !.operation = 0,
                                      !.deadline = 0, !.usable = TRUE]
  /\ UNCHANGED <<source, jobs, pages, receipts>>

CompleteStaleRotation(rotation) ==
  /\ HasServiceGrants
  /\ OwnsRotation(rotation) /\ ~RotationCurrent(rotation)
  /\ RequireReauthorization
  /\ UNCHANGED <<source, jobs, pages, receipts>>

FailOAuthRotation(rotation) ==
  /\ OwnsRotation(rotation)
  /\ RequireReauthorization
  /\ UNCHANGED <<source, jobs, pages, receipts>>

\* deferOAuthRotation: a rate-limited refresh consumed nothing; job and
\* credential are released together, the job after the provider's delay.
DeferAllowed(j, claim, rotation) ==
  /\ LiveClaim(j, claim)
  /\ source.config = rotation.config /\ jobs[j].config = rotation.config
  /\ OwnsRotation(rotation) /\ credential.deadline > 0

DeferOAuthRotation(j, wait) ==
  LET retry == jobs[j].attempts < RetryBudget IN
  /\ jobs' = [jobs EXCEPT ![j].state = IF retry THEN "READY" ELSE "FAILED",
                          ![j].lease = 0, ![j].delay = Max2(wait, Backoff)]
  /\ source' = [source EXCEPT !.health = IF retry THEN "DEGRADED" ELSE "FAILED",
                              !.due = FALSE]
  /\ credential' = [credential EXCEPT !.state = "ACTIVE", !.revision = @ + 1,
                                      !.operation = 0, !.deadline = 0]
  /\ UNCHANGED <<pages, receipts>>

-----------------------------------------------------------------------------
(* Time *)

Less(n) == IF n = 0 THEN 0 ELSE n - 1

\* One tick of the database clock.
TickRows ==
  /\ jobs' = [j \in Jobs |-> [jobs[j] EXCEPT !.lease = Less(@), !.delay = Less(@)]]
  /\ credential' = [credential EXCEPT !.deadline = Less(@)]
  /\ UNCHANGED <<source, pages, receipts>>

\* A scheduling slot of 15 minutes begins; 15 minutes may have passed since
\* the health of the source was last written.
SlotBegins ==
  /\ source.slot < MaxSlots
  /\ \E due \in {source.due, TRUE} :
       source' = [source EXCEPT !.slot = @ + 1, !.slotTaken = FALSE, !.due = due]
  /\ UNCHANGED <<jobs, pages, receipts, credential>>

\* 24 hours have passed since the job was inserted.
JobAges(j) ==
  /\ Aging
  /\ IsLive(jobs[j]) /\ ~jobs[j].aged
  /\ jobs' = [jobs EXCEPT ![j].aged = TRUE]
  /\ UNCHANGED <<source, pages, receipts, credential>>

\* Less than two minutes of validity are left of the access token.
TokenNearsExpiry ==
  /\ credential.usable
  /\ credential.revision < MaxCredential
  /\ credential' = [credential EXCEPT !.usable = FALSE]
  /\ UNCHANGED <<source, jobs, pages, receipts>>
=============================================================================
