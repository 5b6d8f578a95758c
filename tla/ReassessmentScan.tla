-------------------------- MODULE ReassessmentScan --------------------------
(***************************************************************************)
(* The scheduled scan of projects: ProjectUpdateScanCoordinator            *)
(* (packages/data/src/project-update-scan.ts), the causes a connector page *)
(* leaves for it (ingestion-reassessments.ts) and the administrator's      *)
(* operations on both (project-updates.ts).                                *)
(*                                                                         *)
(* A scan is three transactions: claim a project, complete the claim, and  *)
(* release it when completing failed.  Several scans run at the same time  *)
(* (a dispatch is given up after 30 seconds, a claim lasts 120) and each   *)
(* may stop between two transactions.  A transaction locks the project and *)
(* its policy row, so it is one action.                                    *)
(*                                                                         *)
(* Time is relative, in minutes: claim, failure, next and available are    *)
(* the ticks left of scanClaimUntil, scanFailureNextEligibleAt,            *)
(* scheduledScanNextEligibleAt and availableAt; 0 is NULL or in the past.  *)
(* Claim generations are compared for equality only, so a new generation   *)
(* is any that nobody still refers to.  totalAttempts, a statistic, and    *)
(* the identifiers of audit events are left out.                           *)
(***************************************************************************)
EXTENDS Integers, FiniteSets

CONSTANTS
  Projects,         \* the projects with an update policy
  MaxCauses,        \* bound: rows of IngestionProjectReassessment
  Scanners,         \* bound: scans that may be executing at the same time
  Generations,      \* bound: claim generations somebody may refer to
  MaxConfig,        \* bound: configurations of the source
  MaxRecovery,      \* bound: recoveries of one cause
  Contended,        \* projects whose source rows may be locked by others
  Budget,           \* 5 automatic attempts of a cause
  BatchSize,        \* 25 causes of a claim
  LeaseTicks,       \* LEASE_SECONDS
  PeriodTicks,      \* PERIOD_SECONDS
  RetryTicks,       \* RETRY_SECONDS
  ContentionTicks   \* CONTENTION_SECONDS

ASSUME ScanAssumption ==
  /\ IsFiniteSet(Projects) /\ Projects # {}
  /\ MaxCauses \in Nat /\ MaxConfig \in Nat /\ MaxRecovery \in Nat
  /\ Generations \subseteq Nat \ {0} /\ Generations # {}
  /\ Contended \subseteq Projects
  /\ Budget \in Nat \ {0} /\ BatchSize \in Nat \ {0}
  /\ LeaseTicks \in Nat \ {0} /\ PeriodTicks \in Nat
  /\ RetryTicks \in Nat /\ ContentionTicks \in Nat \ {0}

VARIABLES
  policy,      \* ProjectUpdatePolicy rows
  causes,      \* IngestionProjectReassessment rows, oldest first
  config,      \* currentConfigRevision of the source
  order,       \* the projects, least recently attempted first
  dispatched,  \* the worker has asked for a scan
  scanner,     \* what each scan has claimed and where it is
  unpaid       \* history: claims of a cause since its last recovery that no
               \* contention excused

vars == <<policy, causes, config, order, dispatched, scanner, unpaid>>

Causes == 1 .. MaxCauses
Ranks == 1 .. Cardinality(Projects)

CauseStates == {"ABSENT", "READY", "COMPLETED", "BLOCKED"}
Reasons == {"QUEUED", "CLAIMED", "FAILED", "LOCK_CONTENDED", "POLICY_DISABLED",
            "SOURCE_SCOPE_CHANGED", "RETRY_EXHAUSTED", "RETRY_REQUESTED", "COMPLETED"}

PolicyRows ==
  [enabled : BOOLEAN, generation : Generations, claim : Nat, failure : Nat, next : Nat]

\* claimed: claimedGeneration, 0 when NULL.
CauseRows ==
  [state : CauseStates, project : Projects, config : Nat, attempts : Nat,
   recovery : Nat, available : Nat, reason : Reasons, claimed : Generations \cup {0}]

ScanRecords ==
  [step : {"idle", "complete", "release"}, project : Projects,
   generation : Generations, cohort : SUBSET Causes, periodic : BOOLEAN,
   contention : BOOLEAN]

Idle ==
  [step |-> "idle", project |-> CHOOSE p \in Projects : TRUE,
   generation |-> CHOOSE g \in Generations : TRUE, cohort |-> {},
   periodic |-> FALSE, contention |-> FALSE]

NoCause ==
  [state |-> "ABSENT", project |-> CHOOSE p \in Projects : TRUE, config |-> 0,
   attempts |-> 0, recovery |-> 0, available |-> 0, reason |-> "QUEUED", claimed |-> 0]

Bijective(f) == \A a, b \in DOMAIN f : f[a] = f[b] => a = b

Init ==
  /\ policy = [p \in Projects |->
                 [enabled |-> FALSE, generation |-> CHOOSE g \in Generations : TRUE,
                  claim |-> 0, failure |-> 0, next |-> 0]]
  /\ causes = [c \in Causes |-> NoCause]
  /\ config = 1
  /\ order \in [Ranks -> Projects] /\ Bijective(order)
  /\ dispatched = FALSE
  /\ scanner = [s \in Scanners |-> Idle]
  /\ unpaid = [c \in Causes |-> 0]

-----------------------------------------------------------------------------
(* Helpers *)

Owned(p) == {c \in Causes : causes[c].project = p /\ causes[c].state = "READY"}
Available(p) == {c \in Owned(p) : causes[c].available = 0}

\* Mutant: the configuration is not compared.
SourceAlwaysMatches(c) == TRUE

\* sourceStillMatches, when it gets its locks.  Every configuration has its
\* own grants, active while it is the current one.
SourceStillMatches(c) == causes[c].config = config

At(s, step) == scanner[s].step = step
Project(s) == scanner[s].project
Cohort(s) == scanner[s].cohort
Return(s) == scanner' = [scanner EXCEPT ![s] = Idle]

\* The claim is the current one, its lease has not lapsed and the policy still
\* schedules scans.
Live(s) ==
  /\ policy[Project(s)].generation = scanner[s].generation
  /\ policy[Project(s)].claim > 0
  /\ policy[Project(s)].enabled

\* All causes of the claim are still READY and charged to it.
CohortHolds(s) ==
  \A c \in Cohort(s) :
    /\ causes[c].state = "READY" /\ causes[c].available = 0
    /\ causes[c].claimed = scanner[s].generation

\* A generation that neither the policy of p, a scan of it nor a cause that
\* waits for one refers to.
Fresh(p) ==
  {g \in Generations :
     /\ policy[p].generation # g
     /\ \A s \in Scanners : At(s, "idle") \/ Project(s) # p \/ scanner[s].generation # g
     /\ \A c \in Owned(p) : causes[c].claimed # g}

\* Mutant: the generation is not advanced.
SameGeneration(p) == policy[p].generation

\* "scanClaimGeneration" + 1.
NextGeneration(p) == CHOOSE g \in Fresh(p) : TRUE

\* Mutant: a state the table does not know.
Cancelled(cause, reason) == [cause EXCEPT !.state = "CANCELLED", !.reason = reason]

Blocked(cause, reason) == [cause EXCEPT !.state = "BLOCKED", !.reason = reason]
Answered(cause) == [cause EXCEPT !.state = "COMPLETED", !.reason = "COMPLETED"]

\* An attempt is charged to a claim, or given back.
Charged(cause, generation) ==
  [cause EXCEPT !.attempts = @ + 1, !.claimed = generation, !.reason = "CLAIMED"]
Refunded(cause) ==
  [cause EXCEPT !.attempts = @ - 1, !.claimed = 0, !.available = ContentionTicks,
                !.reason = "LOCK_CONTENDED"]

-----------------------------------------------------------------------------
(* The connector page that records changes *)

\* enqueueConnectorReassessments: one cause for each project the page changed
\* whose policy schedules scans, in the transaction of the page; rows gives
\* each of them the next free row.
EnqueueConnectorReassessments(rows) ==
  LET taken == {rows[p] : p \in DOMAIN rows} IN
  /\ DOMAIN rows # {} /\ Bijective(rows)
  /\ \A p \in DOMAIN rows : policy[p].enabled
  /\ \A c \in taken : /\ causes[c].state = "ABSENT"
                      /\ \A d \in 1 .. c - 1 : d \in taken \/ causes[d].state # "ABSENT"
  /\ causes' = [c \in Causes |->
       IF c \in taken
       THEN [NoCause EXCEPT !.state = "READY", !.config = config,
                            !.project = CHOOSE p \in DOMAIN rows : rows[p] = c]
       ELSE causes[c]]
  /\ UNCHANGED <<policy, config, order, dispatched, scanner, unpaid>>

-----------------------------------------------------------------------------
(* The transactions of a scan *)

\* A project the first query of claim selects.
Eligible(p) ==
  /\ policy[p].enabled /\ policy[p].claim = 0 /\ policy[p].failure = 0
  /\ policy[p].next = 0 \/ Available(p) # {}

\* The 25 oldest available causes.
Candidates(p) ==
  {c \in Available(p) : Cardinality({d \in Available(p) : d < c}) < BatchSize}

Exhausted(p) == {c \in Candidates(p) : causes[c].attempts = Budget}

\* Mutant: the time of the attempt is not recorded.
NotRecorded(n) == order

\* Order by scheduledScanLastAttemptAt: the n-th project becomes the last.
Attempted(n) ==
  [i \in Ranks |-> IF i < n THEN order[i]
                   ELSE IF i < Cardinality(Projects) THEN order[i + 1] ELSE order[n]]

\* claim: exhausted causes are settled, the others charged to the new claim.
Claim(s, n) ==
  LET p == order[n]
      cohort == Candidates(p) \ Exhausted(p)
      generation == NextGeneration(p)
  IN
  /\ At(s, "idle") /\ dispatched
  /\ Eligible(p) /\ \A m \in 1 .. n - 1 : ~Eligible(order[m])
  /\ Fresh(p) # {}
  /\ causes' = [c \in Causes |->
       IF c \in Exhausted(p) THEN Blocked(causes[c], "RETRY_EXHAUSTED")
       ELSE IF c \in cohort THEN Charged(causes[c], generation) ELSE causes[c]]
  /\ policy' = [policy EXCEPT ![p].generation = generation, ![p].claim = LeaseTicks]
  /\ order' = Attempted(n)
  /\ scanner' = [scanner EXCEPT
       ![s] = [step |-> "complete", project |-> p, generation |-> generation,
               cohort |-> cohort, periodic |-> policy[p].next = 0, contention |-> FALSE]]
  /\ unpaid' = [c \in Causes |-> IF c \in cohort THEN unpaid[c] + 1 ELSE unpaid[c]]
  /\ dispatched' = FALSE
  /\ UNCHANGED config

ClaimNothing(s) ==
  /\ At(s, "idle") /\ dispatched
  /\ \A p \in Projects : ~Eligible(p)
  /\ dispatched' = FALSE
  /\ UNCHANGED <<policy, causes, config, order, scanner, unpaid>>

\* complete, when every check passes: the causes whose source still matches are
\* answered by one assessment, the others blocked.
Complete(s) ==
  LET p == Project(s)
      valid == {c \in Cohort(s) : SourceStillMatches(c)}
      assessed == scanner[s].periodic \/ valid # {}
  IN
  /\ At(s, "complete") /\ Live(s) /\ CohortHolds(s)
  /\ causes' = [c \in Causes |->
       IF c \in valid THEN Answered(causes[c])
       ELSE IF c \in Cohort(s) THEN Blocked(causes[c], "SOURCE_SCOPE_CHANGED")
       ELSE causes[c]]
  /\ policy' = [policy EXCEPT
       ![p].claim = 0,
       ![p].failure = IF assessed THEN 0 ELSE @,
       ![p].next = IF assessed THEN PeriodTicks ELSE @]
  /\ Return(s)
  /\ UNCHANGED <<config, order, dispatched, unpaid>>

\* LostClaim: the scan returns and writes nothing.
LoseClaim(s) ==
  /\ At(s, "complete") \/ At(s, "release")
  /\ ~Live(s) \/ ~CohortHolds(s)
  /\ Return(s)
  /\ UNCHANGED <<policy, causes, config, order, dispatched, unpaid>>

\* Any error of complete; its transaction is rolled back.
CompleteFails(s) ==
  /\ At(s, "complete")
  /\ scanner' = [scanner EXCEPT ![s].step = "release"]
  /\ UNCHANGED <<policy, causes, config, order, dispatched, unpaid>>

\* sourceStillMatches does not get a lock at once (55P03).
CompleteContended(s) ==
  /\ At(s, "complete") /\ Live(s) /\ CohortHolds(s)
  /\ Cohort(s) # {} /\ Project(s) \in Contended
  /\ scanner' = [scanner EXCEPT ![s].step = "release", ![s].contention = TRUE]
  /\ unpaid' = [c \in Causes |-> IF c \in Cohort(s) THEN unpaid[c] - 1 ELSE unpaid[c]]
  /\ UNCHANGED <<policy, causes, config, order, dispatched>>

\* release after contention: the attempt is given back.
ReleaseContended(s) ==
  /\ At(s, "release") /\ Live(s) /\ CohortHolds(s) /\ scanner[s].contention
  /\ causes' = [c \in Causes |-> IF c \in Cohort(s) THEN Refunded(causes[c]) ELSE causes[c]]
  /\ policy' = [policy EXCEPT ![Project(s)].claim = 0]
  /\ Return(s)
  /\ UNCHANGED <<config, order, dispatched, unpaid>>

\* Mutant: the last attempt is not recognised.
FailedOnce(cause) == [cause EXCEPT !.available = RetryTicks, !.reason = "FAILED"]

Failed(cause) ==
  IF cause.attempts = Budget
  THEN [Blocked(cause, "RETRY_EXHAUSTED") EXCEPT !.available = RetryTicks]
  ELSE [cause EXCEPT !.available = RetryTicks, !.reason = "FAILED"]

\* release after any other error: project and causes wait RETRY_SECONDS.
ReleaseFailed(s) ==
  /\ At(s, "release") /\ Live(s) /\ CohortHolds(s) /\ ~scanner[s].contention
  /\ causes' = [c \in Causes |-> IF c \in Cohort(s) THEN Failed(causes[c]) ELSE causes[c]]
  /\ policy' = [policy EXCEPT ![Project(s)].claim = 0, ![Project(s)].failure = RetryTicks]
  /\ Return(s)
  /\ UNCHANGED <<config, order, dispatched, unpaid>>

Step(s) ==
  \/ \E n \in Ranks : Claim(s, n)
  \/ ClaimNothing(s)
  \/ Complete(s) \/ LoseClaim(s) \/ CompleteFails(s) \/ CompleteContended(s)
  \/ ReleaseContended(s) \/ ReleaseFailed(s)

\* The process ends, or its connection to the database does.
Stop(s) ==
  /\ ~At(s, "idle")
  /\ Return(s)
  /\ UNCHANGED <<policy, causes, config, order, dispatched, unpaid>>

-----------------------------------------------------------------------------
(* The administrator, the source and the clock *)

\* setPolicy with scheduledScanEnabled.
EnablePolicy(p) ==
  /\ policy' = [policy EXCEPT ![p].enabled = TRUE]
  /\ UNCHANGED <<causes, config, order, dispatched, scanner, unpaid>>

\* Mutant: the claim survives.
DisableUnfenced(p) ==
  /\ policy' = [policy EXCEPT ![p].enabled = FALSE]
  /\ causes' = [c \in Causes |->
       IF c \in Owned(p) THEN Blocked(causes[c], "POLICY_DISABLED") ELSE causes[c]]
  /\ UNCHANGED <<config, order, dispatched, scanner, unpaid>>

\* setPolicy without it: blockDisabledPolicyCauses settles what waits and
\* fences the claim in progress.
DisablePolicy(p) ==
  /\ Fresh(p) # {}
  /\ policy' = [policy EXCEPT ![p].enabled = FALSE, ![p].claim = 0,
                              ![p].generation = NextGeneration(p)]
  /\ causes' = [c \in Causes |->
       IF c \in Owned(p) THEN Blocked(causes[c], "POLICY_DISABLED") ELSE causes[c]]
  /\ UNCHANGED <<config, order, dispatched, scanner, unpaid>>

Recovered(cause) ==
  [cause EXCEPT !.state = "READY", !.attempts = 0, !.recovery = @ + 1, !.claimed = 0,
                !.available = 0, !.reason = "RETRY_REQUESTED"]

RetryReassessment(c) ==
  /\ causes[c].state = "BLOCKED" /\ causes[c].recovery < MaxRecovery
  /\ policy[causes[c].project].enabled /\ SourceStillMatches(c)
  /\ causes' = [causes EXCEPT ![c] = Recovered(@)]
  /\ unpaid' = [unpaid EXCEPT ![c] = 0]
  /\ UNCHANGED <<policy, config, order, dispatched, scanner>>

Reconfigure ==
  /\ config < MaxConfig
  /\ config' = config + 1
  /\ UNCHANGED <<policy, causes, order, dispatched, scanner, unpaid>>

\* A dispatch that failed is retried before the minute is over.
Redispatch ==
  /\ dispatched' = TRUE
  /\ UNCHANGED <<policy, causes, config, order, scanner, unpaid>>

Less(n) == IF n = 0 THEN 0 ELSE n - 1

Waited(cause) == [cause EXCEPT !.available = Less(@)]

\* A minute passes; the worker's crontab dispatches a scan.
Tick ==
  /\ policy' = [p \in Projects |-> [policy[p] EXCEPT !.claim = Less(@), !.failure = Less(@),
                                                     !.next = Less(@)]]
  /\ causes' = [c \in Causes |-> Waited(causes[c])]
  /\ dispatched' = TRUE
  /\ UNCHANGED <<config, order, scanner, unpaid>>

Environment ==
  \/ \E S \in SUBSET Projects : \E rows \in [S -> Causes] : EnqueueConnectorReassessments(rows)
  \/ \E p \in Projects : EnablePolicy(p) \/ DisablePolicy(p)
  \/ \E c \in Causes : RetryReassessment(c)
  \/ Reconfigure \/ Redispatch \/ Tick

Next == (\E s \in Scanners : Step(s) \/ Stop(s)) \/ Environment

Spec == Init /\ [][Next]_vars

\* The crontab of the worker and the timeouts of a transaction: a minute
\* passes, and a scan that has not stopped takes its next step.
Fairness == WF_vars(Tick) /\ \A s \in Scanners : WF_vars(Step(s))

FairSpec == Spec /\ Fairness

-----------------------------------------------------------------------------
(* The row guard of the database *)

Unchanged(old, new) ==
  /\ new.project = old.project /\ new.config = old.config
  /\ new.recovery = old.recovery

\* The claim an update is made under is the current one of its project.
UnderClaim(old) ==
  policy[old.project].claim > 0 /\ old.claimed = policy[old.project].generation

GuardBirth(old, new) ==
  /\ old.state = "ABSENT" /\ new.state = "READY" /\ new.attempts = 0
  /\ new.recovery = 0 /\ new.claimed = 0 /\ new.reason = "QUEUED"
  /\ policy[new.project].enabled /\ new.config = config

GuardClaimed(old, new) ==
  /\ old.state = "READY" /\ new.state = "READY" /\ Unchanged(old, new)
  /\ old.attempts < Budget /\ new.attempts = old.attempts + 1
  /\ new.claimed = policy'[old.project].generation /\ new.claimed # old.claimed
  /\ policy'[old.project].claim > 0
  /\ old.available = 0 /\ new.available = 0 /\ new.reason = "CLAIMED"

GuardContention(old, new) ==
  /\ old.state = "READY" /\ new.state = "READY" /\ Unchanged(old, new)
  /\ UnderClaim(old) /\ old.attempts >= 1 /\ new.attempts = old.attempts - 1
  /\ new.claimed = 0 /\ new.available > old.available /\ new.reason = "LOCK_CONTENDED"

GuardRetried(old, new) ==
  /\ old.state = "BLOCKED" /\ new.state = "READY" /\ new.attempts = 0
  /\ new.recovery = old.recovery + 1 /\ new.claimed = 0 /\ new.reason = "RETRY_REQUESTED"

GuardCompleted(old, new) == new.state = "COMPLETED" /\ UnderClaim(old)

GuardFailed(old, new) ==
  /\ new.state \in {"READY", "BLOCKED"} /\ UnderClaim(old)
  /\ new.state = "BLOCKED" <=> new.attempts = Budget
  /\ new.reason = IF new.state = "BLOCKED" THEN "RETRY_EXHAUSTED" ELSE "FAILED"

GuardBlocked(old, new) ==
  /\ new.state = "BLOCKED"
  /\ \/ /\ new.reason = "RETRY_EXHAUSTED" /\ new.attempts = Budget
        /\ old.claimed # 0 /\ ~UnderClaim(old)
     \/ new.reason = "POLICY_DISABLED" /\ ~policy'[old.project].enabled
     \/ new.reason = "SOURCE_SCOPE_CHANGED" /\ UnderClaim(old) /\ old.config # config

\* guard_ingestion_project_reassessment.
RowGuard(old, new) ==
  \/ GuardBirth(old, new) \/ GuardClaimed(old, new)
  \/ GuardContention(old, new) \/ GuardRetried(old, new)
  \/ /\ old.state = "READY" /\ Unchanged(old, new)
     /\ new.attempts = old.attempts /\ new.claimed = old.claimed
     /\ GuardCompleted(old, new) \/ GuardFailed(old, new) \/ GuardBlocked(old, new)

-----------------------------------------------------------------------------
(* Properties *)

\* Every variable has its type.
TypeOK ==
  /\ policy \in [Projects -> PolicyRows]
  /\ causes \in [Causes -> CauseRows]
  /\ config \in Nat
  /\ order \in [Ranks -> Projects]
  /\ dispatched \in BOOLEAN
  /\ scanner \in [Scanners -> ScanRecords]
  /\ unpaid \in [Causes -> Int]

\* A scan whose claim is live still holds every cause it claimed: neither an
\* administrator who disables, enables and retries nor another scan can take
\* one away without ending the claim, so the cohort check of complete and
\* release (project-update-scan.ts) never gives a claim up on its own.
CohortIntact ==
  \A s \in Scanners : ~At(s, "idle") /\ Live(s) => CohortHolds(s)

\* At most one scan of a project has a live claim, whichever scans stop, lapse
\* or are overtaken: no two of them assess the project for the same causes.
OneLiveClaim ==
  \A s, t \in Scanners :
    /\ ~At(s, "idle") /\ ~At(t, "idle") /\ Project(s) = Project(t)
    /\ Live(s) /\ Live(t)
    => s = t

\* No cause waits under a policy that schedules no scans, where nothing would
\* ever settle it (blockDisabledPolicyCauses).
NothingWaitsWhenDisabled ==
  \A c \in Causes : causes[c].state = "READY" => policy[causes[c].project].enabled

\* Between two recoveries by an administrator at most Budget claims of a cause
\* end other than by contention, crashed and lapsed ones included ("a crashed
\* fifth claim remains charged and cannot obtain a sixth automatic attempt").
AttemptsBounded == \A c \in Causes : unpaid[c] <= Budget

\* The database trigger on the causes accepts every update the coordinator and
\* the administrator's operations make: none of their transactions fails, and
\* none fails for ever, because the two disagree.
RowGuardAccepts ==
  [][\A c \in Causes :
       [causes[c] EXCEPT !.available = 0] # [causes'[c] EXCEPT !.available = 0]
         => RowGuard(causes[c], causes'[c])]_vars

Status(state) ==
  CASE state = "READY" -> "waiting"
    [] state = "COMPLETED" -> "answered"
    [] state = "BLOCKED" -> "blocked"
    [] OTHER -> "absent"

Scope(cause) == [project |-> cause.project, config |-> cause.config]

\* A change waits, is answered under an enabled policy and its own
\* configuration, or is blocked (ReassessmentOutbox).
Outbox == INSTANCE ReassessmentOutbox WITH
  Changes <- Causes,
  enabled <- {p \in Projects : policy[p].enabled},
  config <- config,
  status <- [c \in Causes |-> Status(causes[c].state)],
  scope <- [c \in Causes |-> Scope(causes[c])]

ImplementsOutbox == Outbox!OutboxSpec

\* A cause of a project whose source is not locked for ever is settled in the
\* end, although scans stop and fail and another project is always contended.
CausesSettle ==
  \A c \in Causes :
    (causes[c].state = "READY" /\ causes[c].project \notin Contended)
      ~> causes[c].state \in {"COMPLETED", "BLOCKED"}
=============================================================================
