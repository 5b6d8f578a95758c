# Verification of the Project Delivery Assurance Agent

This directory holds TLA+ models of the Project Delivery Assurance Agent, the TLC
configurations that model-check them and the TLAPS proofs about them. The agent is a
TypeScript monorepo: a NestJS API, a React console, a graphile-worker process and the
PostgreSQL repositories they share. Almost every state change is a transaction on
PostgreSQL rows that takes row locks before it reads; what is hard is what happens
*between* transactions: calls to Atlassian, dispatches that time out while the API is
still working, leases that lapse, administrators who change a policy in the middle.

How to read a module: a transaction that locks its rows first is one action; the steps
of a request or a scan that spans several transactions are separate actions, and
`Stop` may end it between any two of them. Time is relative (ticks *left* of a lease,
delay or deadline, 0 = past or NULL), so a state space is finite without a bound on
the clock. Every bound is a named constant. Operators marked `Mutant` are plausible
bugs; nothing but the mutation runs uses them.

## 1. Inventory

### 1.1 Components, their state and operations

| Component | Source | State | Operations that change it |
|---|---|---|---|
| Jira synchronisation runtime | `packages/data/src/connector-runtime.ts`, `apps/api/src/jira-runtime.ts`, `packages/connectors-jira/src/oauth.ts` | `ConnectorSyncJob`, `ConnectorWebhookReceipt`, `ConnectorCredential`, scheduling columns of `IngestionSource` | enqueue, claim, snapshot, reset, rotate / complete / fail / defer the OAuth refresh, persist, fail, accept a webhook, store a credential |
| Connector pages and source configuration | `packages/data/src/ingestion-persistence.ts` | cursor, health and configuration of `IngestionSource`, `IngestionOperationReceipt` | persist a page for a job, reset the cursor for a job, configure |
| Spreadsheet import and records | same file, `packages/domain/src/ingestion-persistence.ts`, `spreadsheet-preview.ts` | configuration revisions, `IngestionOperationReceipt`, records, projections and their content, retention policy | preflight, preview, reviewed import, operator page, event, reset, set retention, purge |
| Reassessment scan and its causes | `packages/data/src/project-update-scan.ts`, `ingestion-reassessments.ts` | `IngestionProjectReassessment`, the scan columns of `ProjectUpdatePolicy` | record a cause, claim, complete, release, enable / disable the policy, retry a cause, reconfigure |
| Project updates | `packages/data/src/project-updates.ts` and the `project-update*.ts` rules | policies, assessments, obligations, engagements, stages, captures, invitations, responses, the issuance gate | assess, refresh / replan engagements, capture a stage, defer, suppress, respond, purge |
| Milestone snapshots and reconciliation | `milestone-persistence.ts`, `milestone-reconciliation.ts`, `milestone-request-proof.ts` | snapshots, requests, assignments, responses | register, request, assign, respond, close |
| Facts, evidence, authority | `project-facts.ts`, `authority-persistence.ts`, `fact-authorization.ts`, `source-authority.ts`, `temporal-facts.ts`, the guards of the authority migrations | `ProjectFactVersion`, sources and their readers, `AuthorityPolicyRevision`, `FactAuthorityConflict`, sealed `FactAssessment` rows | state, change access, append a policy, capture |
| Scalar reconciliation | `scalar-reconciliation.ts`, `reconciliation-authorization.ts`, `scalar-reconciliation-identity.ts` | `ScalarReconciliationCheck`, `...Request`, `...Assignment` | check, refresh an assignment |
| Canonical projects and RAID | `canonical-project.ts` | projects, milestones, RAID items with revisions | create, update, close, reopen |
| Health and blocker-age assessments | `health-assessment.ts`, `blocker-age-assessment.ts` | captured assessments | capture, expire |
| Signal rules | `packages/domain/src/*-signals.ts`, `*-advice.ts`, `project-update-schedule.ts` | none | pure functions |
| Observations and queues | `*-observation.ts`, `pm-action-queue.ts` | none | read-only projections |
| Worker | `apps/worker/src/main.ts`, `tasks.ts` | none that lasts | dispatches the API every minute / hour, restarts itself |
| API | `apps/api/src/*` | none of its own | validates and routes |
| XLSX slot | `apps/api/src/synthetic-xlsx-slot.ts` | one child process | acquire, parse, kill |
| Web console | `apps/web/src/*-resource.ts`, `evidence-state.ts` | caches, leases of a page | load, expire, navigate |
| Operations | `packages/operations/src/*` | dumps, roles, grants, the issuance gate | back up, restore, migrate, grant, enable / disable issuance |
| Platform | `packages/platform/src/*` | none | configuration, logging, envelope encryption |

### 1.2 Interactions

* The worker (`graphile-worker`, one job at a time, crontab in `main.ts`) calls an
  internal API route every minute for each of: connector synchronisation (25 s
  timeout), the project scan, the engagement batch and content retention (30 s). A
  call that times out at the worker goes on at the API, so several requests of one
  kind can be executing at once.
* A connector page that changes a record of a project leaves a *cause* in the same
  transaction; the project scan claims causes, runs one assessment and answers them.
* An assessment opens, keeps or closes an *obligation* for each missing or stale fact
  group and refreshes the *engagement* that asks the owners for an update; the
  engagement batch captures its stages one at a time.
* `configure` fences everything read under the previous mapping: jobs, cursor, causes.
* A statement of fact never replaces another: the evaluator ranks the last words of all
  sources under the policy in force, an assessment retains what disagrees, the database
  derives the same answer again before it seals the assessment, and a check turns a
  dispute into one request to the project manager.
* The issuance gate (operations) stops new invitations by rotating an epoch that the
  capture transaction compares under a lock.

### 1.3 What is hard

Overlapping requests after a dispatch timeout; leases checked with two clocks; a call
to Atlassian between two transactions whose inputs may have changed meanwhile;
single-use refresh tokens consumed by a call whose answer is lost; claims that lapse,
are overtaken or fenced; database triggers that restate the rules of the code; an evaluator the database repeats in SQL;
commands sent again under a key; content that expires while commands refer to it; retries
with budgets that must neither be exceeded nor run out because of contention; every
queue that must drain. `PROJECT.json` lists each hazard at its line with the
properties that cover it.

## 2. Plan

| Order | Modules | Abstract specification | State |
|---|---|---|---|
| 1 | `ConnectorRuntime`, composed by `JiraRuntime`; proofs in `JiraRuntimeProofs` (durable rows) and `JiraProviderProofs` (tokens and delays) | `SourceTraversal` | done |
| 2 | `ReassessmentScan`; proofs in `ReassessmentScanProofs` | `ReassessmentOutbox` | done |
| 3 | `UpdateEngagement`: policy, obligations, engagements, stages, issuance gate, the engagement batch; proofs in `UpdateEngagementProofs` and `UpdateBatchProofs` (what a batch captures) | - | done |
| 4 | `IngestionRecords`; proofs in `IngestionRecordsProofs` | - | done, except rejected rows |
| 5 | `SourceAuthority`, `AssessmentSeal`, `FactAssessments`, composed by `ScalarReconciliation`; proofs in `ScalarReconciliationProofs` | the seal is a second, independent definition of the answer | done for human statements |
| 6 | `UpdateResponses`: invitations, responses, history, escalation context and purge; proofs in `UpdateResponsesProofs` | `UpdateEngagement` | done, except reviewers and paging |
| 7 | `MilestoneReconciliation` | a request is closed by one response against the head it was raised on | planned |
| 8 | `CanonicalProject` | append-only history, one current revision | planned |
| 9 | operators for freshness, completeness, schedule, health | reference definitions over bounded inputs | planned |
| 10 | `ConsoleResource`, `XlsxSlot`, `BackupRestore`, nonce replay of the dispatch | - | planned |

What modules 1 to 6 promise and a prover can reach is proved (section 5); the plan that is
left is rows 7 to 10.

## 3. The models and the code

### 3.1 `ConnectorRuntime` and `JiraRuntime`

One Jira source. `ConnectorRuntime` is the durable half: variables `source`, `jobs`,
`pages`, `receipts`, `credential` are the rows of `IngestionSource`,
`ConnectorSyncJob`, `IngestionOperationReceipt` (of the current generation),
`ConnectorWebhookReceipt` and `ConnectorCredential`. Each action is one transaction
with all its early returns: `EnqueueDueJobs`, `ClaimNextJob` / `ClaimNothing` (with the
sweep of jobs past 24 h and the candidates the loop expires on its way),
`ResetConnectorCursorForJob`, `PersistConnectorPageForJob`, `FailRunningJob`,
`ExpireRunningJob`, `AcceptWebhook`, `Configure`, the four transactions of a token
rotation, `SetOAuthCredential`. The unique index on READY webhook jobs is the guard
`ReadyRefused`: an update it refuses rolls the whole transaction back.

`JiraRuntime` is `JiraRuntimeService.runOne`: a record per request with the step it is
at and what it has read (claim generation, expected revisions, cursor, rotation,
token). The calls to Atlassian (external) are steps with every outcome: a refresh that
succeeds, one that consumes the token and loses the answer, 429 with and without
Retry-After, other failures. The lease is checked with the database clock by the
runtime repository and with the application clock by the page repository; with
`ClockSkew` the application sees a lease as live or lapsed nondeterministically.

Abstracted: one source stands for all (nothing crosses sources but the claim order);
page contents, item parsing and the mapping; the mapping revision (a function of the
configuration revision by foreign key); failure codes the transactions do not tell
apart; client-secret and webhook-secret storage; the replay nonces of the dispatch.

`SourceTraversal` is the promise: a source is read in generations; a generation reads
pages 1, 2, ... under one configuration; a new configuration lets no page in before
the next generation. `JiraRuntime!ImplementsTraversal` is the refinement mapping.

### 3.2 `ReassessmentScan`

Variables: `policy` (the scan columns of `ProjectUpdatePolicy`), `causes`
(`IngestionProjectReassessment`), `config` of the source, `order` (projects by
`scheduledScanLastAttemptAt`), `dispatched` (the worker has asked for a scan),
`scanner` (what each scan in flight holds), and the history variable `unpaid`, which no
action reads. Actions: `EnqueueConnectorReassessments` (transaction of the page),
`Claim` / `ClaimNothing`, `Complete`, `CompleteContended` (55P03), `CompleteFails`,
`LoseClaim`, `ReleaseContended`, `ReleaseFailed`, and the administrator's
`EnablePolicy`, `DisablePolicy` (with `blockDisabledPolicyCauses`),
`RetryReassessment`, `Reconfigure`. `RowGuard` is the trigger
`guard_ingestion_project_reassessment`: it constrains nothing in the model, so that a
disagreement with it would show as a violation of `RowGuardAccepts`.

Abstracted: `assessInTransaction` is a step that succeeds, fails or is contended;
claim generations are compared for equality only, so a new one is any value nobody
still refers to (the code counts up; no comparison but equality exists);
`SKIP LOCKED` (a transaction is atomic here, so nothing is locked between actions);
`totalAttempts` and audit identifiers.

`ReassessmentOutbox` is the promise without claims, leases and attempts: a change
waits, is answered under an enabled policy and its own configuration, or is blocked;
an answer is final; nothing waits under a disabled policy.

### 3.3 `UpdateEngagement`

One project. `obligations` is the sequence of `ProjectUpdateObligation` rows, each with
the `ProjectUpdateEngagement` that answers it (unique per obligation); `stages` is the
set of `ProjectUpdateStage` rows with their outbox rows; `policy`, `granted`, `zone`,
`deployment` and `gate` are what a transaction reads of the policy, the access grants,
the configured zones, the capture configuration the API has mounted and
`ProjectUpdateIssuanceGate`; `facts`, `aged` and `moved` are what the sources say.

Every method locks the project row first and is one RepeatableRead transaction, so it
is one action: `Assess` (`assessInTransaction`), `ActivateEngagement`,
`BeginCaptureGeneration`; the batch is two, `PickProject` and `ProcessProject` /
`ProcessFails`, with any change between them. All of them contain the assessment, so it
is written once as functions of the rows: `Current` is the obligation it ends with,
`Opened` the obligations after superseding and opening, `Refreshed` / `RefreshedStages`
the effect of `refreshEngagements` (close what ended, replan what changed),
`Assessed(create)` / `AssessedStages(create)` add `createEngagement`, and
`Commits(create)` says that nothing in it throws. A transaction that throws changes
nothing and is no action; a batch that throws is `ProcessFails`.

Stages are planned as a chain: plan 0 is the request, then the reminders, the
escalation to the owner and the one to the project manager, who has a plan only while
he is authorized. `InSequence` is `captureSequenceWait`: the stage before, of no
earlier generation than the newest request, was captured in the current epoch and its
waiting time has passed. `BirthAccepted` is the trigger `guard_update_capture_birth`.

Abstracted: dates (a stage's time has come or not; the calendar is planned with the
schedule rules); the state of a fact is FRESH, STALE, MISSING or UNKNOWN; one subject
for each role and a new subject only by a new policy revision; the CLAIMED state of an outbox row,
which begins and ends inside one transaction; PAUSED engagements and EMAIL stages,
which nothing in this code writes; text and previews. Invitations are in 3.6. Quiet hours and
unreadable evidence are the nondeterministic set `withheld`.

### 3.4 `IngestionRecords`

One source, seen from the operator's side and from the runtime's. A command is two
transactions: `Preflight` reads the configuration, anything may happen while the file is
parsed or the page validated, then `PersistCsvPreview`, `CommitCsvReviewedImport`,
`PersistConnectorPage`, `PersistConnectorEvent` or `ResetSync` locks the projects and the
source, checks everything again and commits one receipt (`receipts`, in commit order).
`Replay` answers a command whose receipt exists, `Refuse` is every refusal, `Stop` a call
that ends between the two. `Configure` writes a configuration and possibly a new mapping
and fences the cursor; `ChangeGrant` is what other operators do to the access of a caller;
`SetRetention`, `PurgeExpired` and `HourPasses` are retention. `content[v][m]` is the
projection of one revision of one external record under a mapping: none, live or redacted.
`Projectable` and `RetentionGuardAccepts` are the guards of migration 202609230001.
`RowsBacked` is one conjunct of `valid_ingestion_receipt`: each row a receipt accepted has its
content row. The function also asks for the scope and audit rows of the receipt, which are
written with it and never change, and, for the receipt of a connector job, for the state of
the job; that condition is in 3.1 (`ResetReceiptsValid`, which the code violates). The code
calls the function on previews, which have no job. `ReceiptsBacked` is therefore about rows
only and says nothing of the receipt of a reset, which has none.

Abstracted: a version stands for a revision with its content hash and clocks; two versions
are of different records; a file or a page is the set of versions it carries, a rejected
row is in no version; the hash of a request is the request without its subject and key;
`recordHealth` (advisory) is left out; how the runtime comes to a page or a reset is
module 3.1, here it is one more caller, `Runtime`.

### 3.5 `SourceAuthority`, `AssessmentSeal`, `FactAssessments`, `ScalarReconciliation`

One scalar fact. `SourceAuthority` holds the pure rules of the TypeScript evaluator over a
snapshot: `Applicability` is the temporal history, `Row` one version under the policy,
`Answer` what is selected, disputed and resolved, `Pairs` what is retained of a dispute.
`AssessmentSeal` holds what the database derives from the rows before it seals an
assessment, translated from the SQL alone (window functions become counts of distinct
clocks, nulls 0), so that the two can be compared: `SealAccepts`.
`FactAssessments` has the rows (`versions`, `readers`, `policies`, `conflicts`, `latest`,
`grants`) and the commands `AppendHumanStatement`, `SetSourceAccess`, `AppendPolicy`,
`CaptureAssessment`. Each locks the project to its commit and is one action. `Prepared`
is `prepareAssessmentInTransaction`: the answer, the disputes it found added to the
retained ones, and the answer again. `Capture` is the persisting half, with the triggers
as its guard `Sealable`, so an answer the database refuses leaves no trace.
`ScalarReconciliation` adds `Check`, which commits the assessment, the check, the request
and its first assignment together, and `RefreshAssignment`.

Abstracted: a command under a used key is answered from its receipt and one with an old
revision is refused, so every action is a new command at the current revision; a source
that is not AVAILABLE has no readers; a policy has one validity rule for all its sources;
the roles of the token are those of the grants; the database clock does not run backwards,
so `POLICY_NOT_APPLICABLE` cannot be reached (`active` reads only what is in effect); ids
sort like the order they were written in; of the assessments and assignments only the last
is kept (rows are append-only and no command reads an older one).

### 3.6 `UpdateResponses`

What becomes of a captured stage, on top of 3.3. `requests` has, by the identity of a
stage (obligation, generation, plan), the phase of its invitation and whether its content
is still there; `responses` is the sequence of raw responses; `ages` counts the instants
that passed. `EngagementStep` is every step of 3.3 (listed one by one,
so that TLC reports which of them a run takes) together with `Alongside`: a capture
commits its request, invitation and content with the receipt, and nothing else of these rows
changes. `SubmitResponse` is
`submitResponse`, an instant
ends an invitation (Expired) or makes its content due as well (Purgeable), and the purge takes all rows that are due (the code takes 50 in a call and calls again).

The code decides three times whether an invitation is open, each time from other rows:
`MayAccess` when it is opened, `PathShown` when the history of the recipient offers it,
`ResponseAccepted` in the trigger `guard_update_response_birth`. `EscalationExplained` is
about `escalationContext`, which collects the request and the follow-ups before an
escalation (`OriginalRequest`, `Entries`) and refuses more than 20 (`ContextAvailable`).

Abstracted: the subject of a role stands for the recipient; whether he can read the quoted
sources is an input (`reads`); a correction or a retry under a used key changes nothing but
its receipt; reviewers, who only read, and the paging of the history are left out.

## 4. What the runs check

| Run | Instance | Shows |
|---|---|---|
| `cursor` | 2 requests, 3 jobs, 2 pages, 1 webhook, 2 configurations, clock skew, fairness | `SingleRunning`, `PagesContiguous`, `WebhookRestarts`, `OnlyClaimMovesCursor`, `ImplementsTraversal`, `JobsSettle` |
| `credential` | 2 requests, 2 scheduled jobs, 5 credential revisions, 1-tick leases and deadlines, aging, Retry-After longer than the backoff | `CredentialUsable`, `SingleRefresh`, `RetryAfterHonoured` |
| `webhook_retry` | 1 request, 3 jobs, 2 webhooks, Retry-After longer than the backoff | **violation** of `RetryAfterHonoured` (section 6) |
| `rate_limited_refresh` | 1 request, 2 webhooks | **violation** of `RateLimitReleasesRotation` (section 6) |
| `reset_receipts` | 1 request, 3 jobs, 1 webhook, 2 configurations | **violation** of `ResetReceiptsValid` (section 6) |
| `scan` | 1 project, 1 cause, 2 scans, 2 attempts, a recovery, 2 configurations | `CohortIntact`, `OneLiveClaim`, `RowGuardAccepts`, `ImplementsOutbox` |
| `scan_turns` | 2 projects, one always due and contended, a scan that may stop, 2 attempts, a recovery, 2 configurations, fairness | `CausesSettle`: the other project gets its turn and its cause is settled |
| `engage` | 1 fact, fresh or missing, both escalations, no reminder; manager, zones, epochs, deployments and shadow mode change, stages are withheld; 2 changes, 1 response, 1 instant, 3 of these together | `EveryGenerationAsks`, `NoPoisonedBatch`, `AskedPerChange`, `UnbrokenChain`, `EscalationExplained`, `OpenInvitationsUsable` |
| `engage_settle` | 2 facts, fresh or missing, 2 reminders, no escalation, no responses; sources, owner, schedule with the policy, and shadow mode change, batches fail; 2 changes, fairness | `OneCycle`, `StagesSettle`, `AsksForWhatIsMissing` |
| `engage_chain` | both escalations, 2 facts, no reminder, 3 changes of the sources | **violation** of `NoStageStranded` (section 6) |
| `ingest` | 2 calls, 1 operator, 2 keys, 1 event, 2 versions, 3 receipts, 2 configurations, 1 hour | `OneReceiptPerCommand`, `ImportedOnce`, `ImportsFaithful`, `ReceiptsBacked`, `CursorChain`, `NoResurrection`, `CommitsUnderAuthority` |
| `facts` | 2 people, 2 values, 3 policies (ranked, level, until superseded), 4 statements or policies, 2 instants, a process 1 instant ahead, a history limit of 3 | `AssessmentsSeal`, `ConflictsStand`, `ResolutionsHold`, `ContributorsRetained`, `OneRequestPerCase` |

A type invariant is checked once for each model: in `cursor`, `scan`, `engage` (as
`ResponsesTypeOK`, which contains that of 3.3), `ingest` and `facts`. `AttemptsBounded`,
`GenerationUniform`, `NothingWaitsWhenDisabled`, `IntentsUnique` and `ReceiptsAreFinal` are
proved and not run: the mutants that break the first three break `RowGuardAccepts`,
`ImplementsTraversal` and `ImplementsOutbox`.

`StagesSettle` is about the stages that can have their turn (`HasTurn`): each stage of the
chain before them, since the newest request, is captured in this epoch or still pending. What
can be left without one is any follow-up after the first: a replan writes the pending stages
and a request, never a captured reminder or owner escalation (section 6, finding 3); a stage
suppressed under shadow mode or captured in an old epoch leaves its followers behind too. In
this instance such stages occur (a first reminder captured, then one of two facts recovers)
and without `HasTurn` TLC refutes the property there; `NoStageStranded` is the claim that they
never occur, which the code violates. `AskedPerChange` counts repetitions: with one change a
stage is captured twice in an epoch, never more often.

**Bounds.** Two requests (or scans) are enough for every race the code has, because a
step compares its own claim with the row's current one only; the third job of `cursor`
is the continuation or the webhook job that appears while one runs and one waits. Two
pages give a first, a last and a boundary between them. One-tick leases make "just
before" and "just after" distinct without a clock. Budgets of 2 instead of 5 (and an
attempt limit of 2 or 3 instead of 100) keep the shape "below / at the limit". Two
configurations are one change; more changes only repeat it. `Generations` has five
values because at most four are referred to at once (policy, two scans, a waiting
cause), so `Fresh` is never empty in these runs. In the engagement runs `MaxChanges`
bounds the changes of the environment, not the steps of the system: after each of them
any number of assessments and batches may run; `MaxEvents` bounds changes, responses and
instants together, so that each pair of them meets in every order. Two facts give the masks "one
recovered" and "changed back"; a chain of two or three stages has a first, a last and a
stage between them; the kinds of change are divided over the runs by what the
properties of a run depend on. In `ingest` two calls are enough because a commit is checked
against rows only; three receipts are a preview and two imports of it, or a page, a reset
and a page; one hour is before and at the deadline; two versions make a file that is partly
imported and partly purged. In `facts` two people give every relation of two ranks, two
values every disagreement; four revisions are a policy and three statements, or a policy
that changes between two of them; four statements exceed the history limit; the second
instant is where Ranked statements expire, where ann's own deadline lies and where what bob
observed ahead of time becomes known. `ConflictLimit` is not exceeded there (the limit of
the history comes first); the proofs have both limits. What does not depend on the bounds is
proved (section 5).

**Deadlock** is switched off in the Jira runs, whose counters (jobs, revisions) are
bounded, so that a behaviour may reach the end of its supply, and in the engagement
runs: with the changes used up and an assessment that cannot commit (a closed gate)
nothing is left to do. The scan, ingestion and fact runs check it.

**Fairness.** Weak fairness of `Tick` and of each request's or scan's `Step`. The
crontab dispatches every minute, graphile-worker reruns a failed dispatch, every
transaction and every call to Atlassian has a timeout, so a step that stays enabled is
taken. In `UpdateEngagement` it is weak fairness of the steps of the batch and, for each plan, of the passing of a stage's time; quiet hours end, so
`Withholds` is FALSE in `engage_settle`. `Stop` (a crash) is never fair and never required. In `JobsSettle` and
`CausesSettle` a crash may follow every claim; it is the budgets that end it.

## 5. What is proved

Every invariant of a passing run but `AskedPerChange`, every action property of one, and every
refinement is stated by a theorem below. TLAPS checks them for every value of the constants that the assumptions
admit: any number of requests, scans, jobs, pages, causes, required facts, people, versions,
policies, statements, responses and changes, any lease, budget and limit. The assumptions
(`ConnectorAssumption`, `RuntimeAssumption`, `ScanAssumption`, `EngagementAssumption`,
`ResponseAssumption`, `IngestionAssumption`, `FactAssumption`, `ReconciliationAssumption`)
are as weak as the code justifies: naturals, non-zero leases, finite non-empty sets of
projects and of facts, a null that is no key, project managers who are people. One relates
two constants: the chain of a policy fits the context of an escalation
(`OwnerEscalation < HistoryLimit`; a policy has at most 8 reminders, a context 20 entries).

* `JiraRuntimeProofs` - `TypeCorrect`, `OneRunningJob`, `PagesAreContiguous`,
  `GenerationsAreUniform`, `WebhookJobsRestart`, `OnlyTheClaimMovesTheCursor`,
  `TraversalImplemented`. The key lemma is `EveryStepIsATransaction`: a step of any
  request changes the durable rows by one of the listed transactions or not at all, so
  each invariant is shown once per transaction. `PagesInv` strengthens the page
  properties by "a READY cursor is below the page count", without which the terminal
  page could be read twice; `WebhookInv` adds that a webhook job asks for a reset from its
  insert on, which with the guard of the page transaction gives the property.
* `JiraProviderProofs` - what the runtime promises Atlassian: `StoredTokenIsUsable`,
  `TokensArePresentedOnce`, `DelaysAreHonoured`. Neither token property is inductive, because
  the token is in three places (the row, the request that presents it, the answer not yet
  stored) and its use in a fourth (Atlassian). `TokensInv` says how they relate: rotations
  in flight have different revisions, so the row has at most one owner (`RotationsApart`);
  the owner presents the stored token, which is still valid (`OwnerPresents`); a token that
  was received is valid, is nobody else's and is not in the row (`ReceivedKept`); and tokens
  are numbered as issued (`TokensIssued`). A step of any request does one of seven things to
  them (`TokenStep`: rests, gives up, authorizes, exchanges, begins, completes, defers), and
  each is shown once. `DelaysAreHonoured` is for sources without webhooks (`Events = {}`):
  with them `webhook_retry` refutes it (section 6). Then at most one job is live
  (`OneLiveJob`), so while a delay runs it is kept in a row that fences the source or waits
  itself (`DelayKept`), and a delay is passed on only by the request that reports the 429
  (`WaitsReported`).
* `ReassessmentScanProofs` - `TypeCorrect`, `ClaimsKeepTheirCauses`, `ClaimsExclude`,
  `DisabledSettles`, `AttemptsStayBounded`, `GuardNeverObjects`, `OutboxImplemented`,
  all from the inductive invariant `IInv`: types; for each cause what its state says of
  its attempts, claim and policy; for each scan that its cohort belongs to its project
  and is intact while its claim is live; and `Distinct`: two scans of a project never
  have the same generation. `CohortIntact` alone is
  not inductive: a recovery could re-open a cause of a live claim unless one knows that
  disabling also ended the claim.
* `UpdateEngagementProofs` - `TypeCorrect`, `CyclesExclude`, `IntentsStayUnique`,
  `EveryGenerationIsAsked`, `ChainStaysUnbroken`, `ReceiptsStayFinal`. Every
  transaction is put together from three kinds of change, and each keeps the invariant
  once: stages that are settled or put off (`EvolvedInv`), generations that grow
  (`MovedInv`), and a chain of new stages in a generation nobody has used (`AddedInv`).
  `IInv` adds to the properties that a stage's generation is one its engagement has
  reached, so the next one is unused; that an obligation without an engagement has no
  generation; and that no plan is pending in two generations, without which one replan
  could write the same intent twice. It also says that no shadow stage is captured.
* `UpdateBatchProofs` - `BatchesAreAccepted`, `CapturesAskForWhatIsMissing`, about every batch
  that could run in a state. The birth guard of the database asks for the current
  generation, and the batch does not look at generations: it captures what is due. That it
  never captures an old one is `Lagging`: a pending stage of an earlier generation is the
  escalation to the project manager (the only one a replan may skip, when he has lost his
  access), and if it is to be captured, then every stage of the chain before it was
  suppressed, so that its turn never comes. `Lagging` is kept by an assessment because a
  replan replaces every other pending stage.
* `UpdateResponsesProofs` - `EngagementImplemented` (every step is a step of 3.3 or a stutter,
  so all its theorems hold here too), `ResponsesTyped`, `InvitationsStayUsable`,
  `EscalationsStayExplained`. The last rests on `ChainStaysUnbroken`: before an escalation to
  the manager each earlier plan was captured, in its generation and epoch
  (`EscalationEntries`); the entries are as many as the plans (`EntriesFit`, an injection), so
  the limit is not exceeded.
* `IngestionRecordsProofs` - `TypesKept`, `CommandsOnce`, `PreviewsImportedOnce`,
  `ImportsOfReviewedRows`, `ReceiptsStayBacked`, `CursorsChained`, `PurgedForGood`,
  `WritersAuthorized`. `Committed` says once what a commit of any kind adds: one receipt,
  by a caller that may write, whose key and event are new, whose cursor follows the last one. `IInv`
  adds to the properties what a call in flight knows (`Calls`), that a mapping is
  no newer than its configuration, that a receipt names a configuration that was there, that
  what was purged is past its deadline, and that the source row is the end of the chain (`CursorHead`).
* `ScalarReconciliationProofs` - `TypesKept`, `EvaluatorsAgree`, `DisputesStand`,
  `ContributorsKept`, `RequestsOnce`, `ResolutionsAreLast`. `EvaluatorsAgree` compares two
  programs: the TypeScript evaluator and the SQL that derives the answer again before it
  seals an assessment, for any history and any policy without UNTIL_SUPERSEDED (there they
  differ, section 6). Its lemmas go column by column through the two derivations
  (`SameRow` to `SameStatus`, joined by `SealAgrees`), over `LeastElement` and
  `GreatestElement`, which turn the counts of the one into the order of the other.
  `DisputesStand` is what makes a dispute final; `RequestsOnce` needs that a retained pair
  stays a dispute (`DisputesInv`) and that a case has one request (`CasesInv`).

Only model-checked: the liveness properties `JobsSettle`, `CausesSettle` and `StagesSettle`,
and `AskedPerChange`, which compares the number of captured stages with a bounded counter.
Liveness under fairness, ENABLED, induction over data and RECURSIVE operators are out of the
prover's reach. `NoStageStranded`, `RateLimitReleasesRotation` and `ResetReceiptsValid` are
violated (section 6).

## 6. Findings

1. **A retried job does not hold its source back** (`webhook_retry`). The comment at
   `connector-runtime.ts:709` says the delay of a 429 is a fence of the source. The
   claim path fences by FAILED and EXPIRED jobs only; a retried job is READY, so a
   webhook job of the same source is claimed inside the delay.
2. **A rate-limited refresh can keep its lease** (`rate_limited_refresh`).
   `DECISION_LOG.md:154` says a definitive 429 releases the refresh lease.
   `deferOAuthRotation` also returns the job to READY in the same transaction; if that
   job and a waiting one are both webhook jobs the unique index rolls both back, and
   the lapsed rotation later demands a new consent although no token was spent.
3. **A follow-up can be stranded** (`engage_chain`). The request and the owner
   escalation are captured, then one of two facts recovers. The replan writes the
   pending manager escalation and a fresh request into a new generation, but no owner
   escalation; `captureSequenceWait` looks for one no earlier than the newest request
   and never finds it. The comment at `project-updates.ts:1252` and `AC-UPD-008` say
   that the manager is reached. It is not only the manager: with two reminders the second is
   stranded when the first was captured before the replan, and so is the escalation to the
   owner after a captured reminder, because a replan rewrites no captured stage but the request.
   The same happens when the manager is revoked while the
   facts change and change back: his retained stage equals its plan again, is not
   replaced and stays behind the newer generations.
4. **A reset receipt becomes invalid** (`reset_receipts`). `valid_ingestion_receipt` accepts
   the receipt of a connector job only while the job is READY or COMPLETED. The reset commits
   its receipt while the job goes on; when the job expires or fails later, the receipt of what
   it did is no longer valid and a restore refuses the backup that has it, although
   `tests/ingestion-reassessment.integration.test.ts:965` and EXEC-019 count on it.

Observations without a run of their own:

* Under UNTIL_SUPERSEDED `source-authority.ts` calls a statement without a deadline CURRENT
  (and one that was superseded UNKNOWN), the SQL of migration 202609140001 lines 105 to 115
  derives UNKNOWN (and STALE or CURRENT). An assessment with such a statement cannot be
  sealed: the capture rolls back. The tests always give a deadline. This is why
  `AssessmentsSeal` is stated for the other policies.
* Under UNTIL_SUPERSEDED two statements of one author with the same instant are UNKNOWN and so
  no longer dispute a statement of an equal source.
* "A generation covers the whole unsent snapshot" (`project-updates.ts`) is false once the
  manager lost his access: his pending stage stays in the earlier generation (`Lagging`).
* An owner request that comes due under the global shadow mode is suppressed. When shadow mode
  is turned off its follow-ups stay pending without a request before them, and as long as one
  is pending in the deployed epoch `beginCaptureGeneration` refuses too: it takes a change of
  the facts, the policy, the responsibilities or the epoch. `HasTurn` leaves such a follow-up
  out.
* `captureHistory` offers the path of a manager's escalation also while the owner has lost
  his access, when opening it is DENIED. `OpenInvitationsUsable` is the other direction.
* `guard_ingestion_retention` compares `auditEventId`, which every change of a policy renews, so
  it accepts the first policy of a source and no change of it.
* An import that is retried after `configure` answers INVALID_PREVIEW instead of its receipt
  (`ingestion-persistence.ts:1888`); retention counts from when a version was received, so one
  that expired cannot be projected under a new mapping.
* `configure` and the job transactions lock the source before its projects, operator calls
  the other way round; `restore.ts` purges with rules of its own.

## 7. Not modelled

Components without a module in section 2 are listed with their reason in `PROJECT.json`. In
short: pure I/O and parsing (Jira read adapter, API routing, platform), read-only projections
(observations, queues), rendering, distribution and acceptance scripts. Milestone snapshots,
requests and captures, canonical projects and the health and blocker assessments are planned.
Of the modelled parts, statements of fact by a spreadsheet or a connector, rejected rows, the
reviewers of responses and the paging of histories are left out. Lock ordering between
transactions (a PostgreSQL deadlock aborts one of them and the request is retried) is outside
a model whose actions are whole transactions.
