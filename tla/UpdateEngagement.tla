-------------------------- MODULE UpdateEngagement --------------------------
(***************************************************************************)
(* The engagement workflow of one project: ProjectUpdateRepository         *)
(* (packages/data/src/project-updates.ts).  An assessment opens, keeps or  *)
(* supersedes the project's update obligation and refreshes the engagement *)
(* that answers it; the engagement plans a chain of stages (request,       *)
(* reminders, escalation to the owner, escalation to the project manager); *)
(* a batch of the worker captures, defers or suppresses the due stages.    *)
(*                                                                         *)
(* Every operation is one RepeatableRead transaction that first locks the  *)
(* project row, so it is one action; the batch is two, pick and process.   *)
(* A transaction that throws changes nothing and is no action.  An outbox  *)
(* row is CLAIMED only inside the transaction that settles it, PAUSED is   *)
(* never set, and both are left out.  Dates are flags: whether the time of *)
(* a stage has come, whether the source date has moved.  Plans are numbers *)
(* in the order of the chain.                                              *)
(***************************************************************************)
EXTENDS Integers, Sequences, FiniteSets

CONSTANTS
  FactTypes,       \* required facts of the policy
  SourceStates,    \* bound: what the sources may say of a fact
  Reminders,       \* reminderBusinessDayOffsets.length
  Escalates,       \* escalationAfterBusinessDays > 0
  Modes,           \* bound: how the installation may be set up at first
  Withholds,       \* bound: quiet hours and unreadable evidence occur
  Kinds,           \* bound: the changes of the environment that occur
  MaxChanges       \* bound: how many of them

SourceKinds == {"FRESH", "STALE", "MISSING", "UNKNOWN"}
ChangeKinds ==
  {"source", "policy", "schedule", "owner", "manager", "zone", "deploy", "shadow", "gate", "fault"}

ASSUME EngagementAssumption ==
  /\ IsFiniteSet(FactTypes) /\ FactTypes # {}
  /\ "FRESH" \in SourceStates /\ SourceStates \subseteq SourceKinds
  /\ Reminders \in Nat /\ Escalates \in BOOLEAN /\ Withholds \in BOOLEAN
  /\ Modes \subseteq {"SHADOW", "CAPTURE"} /\ Kinds \subseteq ChangeKinds /\ MaxChanges \in Nat

VARIABLES
  facts,        \* what the sources say of each required fact
  aged,         \* the freshness window since project.createdAt has passed
  moved,        \* cycleHash differs from the open obligation's
  policy,       \* ProjectUpdatePolicy and its current revision
  granted,      \* roles whose subject is assigned and has access
  zone,         \* the configured time zone of each role's subject
  deployment,   \* the capture boundary the API reads
  gate,         \* ProjectUpdateIssuanceGate
  obligations,  \* ProjectUpdateObligation rows, each with its engagement
  stages,       \* ProjectUpdateStage rows, each with its outbox row
  worker,       \* the batch: idle, or it has picked the project
  eligible,     \* engagementProcessNextEligibleAt has passed
  changes       \* changes of the environment so far

sources == <<facts, aged>>
settings == <<policy, granted, zone, deployment, gate>>
rows == <<obligations, stages>>
vars == <<facts, aged, moved, policy, granted, zone, deployment, gate,
          obligations, stages, worker, eligible, changes>>

Roles == {"OWNER", "PROJECT_MANAGER"}
Request == 0
OwnerEscalation == Reminders + 1
ManagerEscalation == Reminders + 2
LastPlan == IF Escalates THEN ManagerEscalation ELSE Reminders
Plans == Request .. LastPlan
Role(plan) == IF plan = ManagerEscalation THEN "PROJECT_MANAGER" ELSE "OWNER"

ObligationRows ==
  [state : {"OPEN", "SUPERSEDED"}, policy : Nat,
   engagement : {"NONE", "ACTIVE", "CLOSED"}, generation : Nat]

\* birth: captureIssuanceEpoch of the birth audit, 0 when there is none.
\* epoch: issuanceEpoch of the captured request, 0 when there is none.
\* elapsed: READY, availableAt has passed; CAPTURED, the business days a
\* follow-up waits have passed.
StageRows ==
  [obligation : Nat, generation : Nat, plan : Nat, facts : SUBSET FactTypes,
   zone : BOOLEAN, mode : {"SHADOW", "CAPTURE"},
   state : {"READY", "CAPTURED", "SUPPRESSED"}, birth : Nat, epoch : Nat,
   elapsed : BOOLEAN]

Init ==
  /\ facts \in [FactTypes -> SourceStates]
  /\ aged = FALSE /\ moved = FALSE
  /\ policy = [revision |-> 1, scheduled |-> TRUE]
  /\ granted = Roles
  /\ zone = [r \in Roles |-> FALSE]
  /\ \E mode \in Modes :
       /\ deployment = IF mode = "SHADOW" THEN [shadow |-> TRUE, epoch |-> 0]
                        ELSE [shadow |-> FALSE, epoch |-> 1]
       /\ gate = [enabled |-> mode = "CAPTURE", epoch |-> 1]
  /\ obligations = << >> /\ stages = {}
  /\ worker = "idle" /\ eligible = TRUE
  /\ changes = 0

-----------------------------------------------------------------------------
(* What a transaction reads *)

Remaining == {f \in FactTypes : facts[f] # "FRESH"}
SourceUnknown == \E f \in FactTypes : facts[f] = "UNKNOWN"

\* When every fact has a trusted time the oldest decides, else the age of the
\* project does.
SourceStale ==
  IF \A f \in FactTypes : facts[f] \in {"FRESH", "STALE"}
    THEN \E f \in FactTypes : facts[f] = "STALE"
    ELSE aged

Configured == ~deployment.shadow /\ deployment.epoch # 0
GateOpen == Configured /\ gate.enabled /\ gate.epoch = deployment.epoch

\* captureIssuanceEpoch of an audit event written now.
BirthEpoch == IF Configured THEN deployment.epoch ELSE 0

\* The plan for the project manager exists only while he is authorized.
Planned == {p \in Plans : p = ManagerEscalation => "PROJECT_MANAGER" \in granted}

Pending(ss, o) == {s \in ss : s.obligation = o /\ s.state = "READY"}

Suppressed(ss, which) ==
  (ss \ which) \cup {[s EXCEPT !.state = "SUPPRESSED", !.elapsed = FALSE] : s \in which}

NewStage(o, generation, plan, mode) ==
  [obligation |-> o, generation |-> generation, plan |-> plan, facts |-> Remaining,
   zone |-> zone[Role(plan)], mode |-> mode, state |-> "READY",
   birth |-> BirthEpoch, epoch |-> 0, elapsed |-> FALSE]

-----------------------------------------------------------------------------
(* assessInTransaction *)

OpenRows == {o \in DOMAIN obligations : obligations[o].state = "OPEN"}
NoObligation == 0
CurrentOpen == IF OpenRows = {} THEN NoObligation ELSE CHOOSE o \in OpenRows : TRUE
Live(o) == o \in DOMAIN obligations /\ obligations[o].engagement = "ACTIVE"

SamePolicy == CurrentOpen # NoObligation /\ obligations[CurrentOpen].policy = policy.revision

Stale == SourceStale \/ (Live(CurrentOpen) /\ SamePolicy /\ Remaining # {})
Reuse == Stale /\ SamePolicy /\ (Live(CurrentOpen) \/ ~moved)

\* The obligation the assessment ends with.
Current ==
  CASE ~Stale -> NoObligation
    [] Stale /\ Reuse -> CurrentOpen
    [] Stale /\ ~Reuse -> Len(obligations) + 1

Superseded ==
  [o \in DOMAIN obligations |->
     IF o = CurrentOpen /\ ~Reuse THEN [obligations[o] EXCEPT !.state = "SUPERSEDED"]
     ELSE obligations[o]]

Opened ==
  IF Stale /\ ~Reuse
    THEN Append(Superseded, [state |-> "OPEN", policy |-> policy.revision,
                             engagement |-> "NONE", generation |-> 0])
    ELSE Superseded

(* refreshEngagements *)

\* Engagements of another obligation than the current one are closed.
Ended == {o \in DOMAIN obligations : Live(o) /\ o # Current}

\* Mutant: the facts of a pending stage are not compared.
ZoneChanged(o) ==
  {s \in Pending(stages, o) : Role(s.plan) \in granted /\ s.zone # zone[Role(s.plan)]}

\* Pending stages whose facts or time zone are no longer those of their plan;
\* a stage whose recipient is not authorized is retained.
Changed(o) ==
  {s \in Pending(stages, o) :
     Role(s.plan) \in granted /\ (s.facts # Remaining \/ s.zone # zone[Role(s.plan)])}

\* Mutant: the stages that did not change stay in their generation.
OnlyChanged(o) == Changed(o)

\* One change replaces every pending stage that has a plan.
Replaced(o) ==
  IF Changed(o) = {} THEN {} ELSE {s \in Pending(stages, o) : s.plan \in Planned}

Replanned == {o \in DOMAIN obligations : o = Current /\ Live(o) /\ Replaced(o) # {}}

NextGeneration(o) == obligations[o].generation + 1

\* Mutant: captured follow-ups are replanned without a request.
NoRequest(o) == {}

\* A new generation invalidates the captured locators: it gets a request of
\* its own when the request was not among the replaced stages.
FreshRequest(o) ==
  IF /\ \E s \in Replaced(o) : s.mode = "CAPTURE"
     /\ \A s \in Replaced(o) : s.plan # Request
    THEN {NewStage(o, NextGeneration(o), Request, "CAPTURE")} ELSE {}

Replacements(o) ==
  {NewStage(o, NextGeneration(o), s.plan, s.mode) : s \in Replaced(o)}
    \cup FreshRequest(o)

Refreshed ==
  LET opened == Opened IN
  [o \in DOMAIN opened |->
     CASE o \in Ended -> [opened[o] EXCEPT !.engagement = "CLOSED"]
       [] o \in Replanned -> [opened[o] EXCEPT !.generation = NextGeneration(o)]
       [] OTHER -> opened[o]]

\* Mutant: the intents of a closed engagement are left.
KeptIntents == Suppressed(stages, UNION {Replaced(o) : o \in Replanned})

Suspended ==
  Suppressed(stages, (UNION {Pending(stages, o) : o \in Ended})
                       \cup (UNION {Replaced(o) : o \in Replanned}))

RefreshedStages == Suspended \cup (UNION {Replacements(o) : o \in Replanned})

(* createEngagement *)

\* An unknown source, an owner without access and a policy that schedules no
\* scans keep an engagement from being created.
MayCreate == ~SourceUnknown /\ policy.scheduled /\ "OWNER" \in granted
CaptureMode == IF Configured THEN "CAPTURE" ELSE "SHADOW"

CarriesForward == Ended # {} /\ Current # NoObligation /\ MayCreate
Creates(create) == create /\ Current # NoObligation /\ Refreshed[Current].engagement = "NONE"

\* stagePlans fails without a policy that schedules scans, and a configuration
\* whose gate is closed fails a creation: either fails the whole transaction.
Commits(create) ==
  /\ (Live(Current) /\ Pending(stages, Current) # {}) => policy.scheduled
  /\ Creates(create) => (Configured => GateOpen)

Assessed(create) ==
  IF Creates(create)
    THEN [Refreshed EXCEPT ![Current].engagement = "ACTIVE", ![Current].generation = 1]
    ELSE Refreshed

AssessedStages(create) ==
  IF Creates(create)
    THEN RefreshedStages \cup {NewStage(Current, 1, p, CaptureMode) : p \in Planned}
    ELSE RefreshedStages

CycleMoved == moved /\ Reuse

-----------------------------------------------------------------------------
(* Operations of users and of the scan *)

\* assess, and the completion of a scan's claim when the policy schedules it.
Assess ==
  /\ Commits(CarriesForward)
  /\ obligations' = Assessed(CarriesForward)
  /\ stages' = AssessedStages(CarriesForward)
  /\ moved' = CycleMoved
  /\ UNCHANGED <<sources, settings, worker, eligible, changes>>

\* activateEngagement: an assessment that also creates the engagement.
ActivateEngagement ==
  /\ Current # NoObligation /\ MayCreate
  /\ Refreshed[Current].engagement # "CLOSED"
  /\ Commits(TRUE)
  /\ obligations' = Assessed(TRUE)
  /\ stages' = AssessedStages(TRUE)
  /\ moved' = CycleMoved
  /\ UNCHANGED <<sources, settings, worker, eligible, changes>>

\* Mutant: a new generation may be approved at any time.
NeverDuplicates(s) == FALSE

\* A stage of the current generation that a new one would duplicate.
Duplicates(s) ==
  \/ s.state = "CAPTURED" /\ s.epoch = deployment.epoch
  \/ s.state = "READY" /\ (s.birth = 0 \/ s.birth = deployment.epoch)

\* beginCaptureGeneration: a new generation of the whole chain to capture.
BeginCaptureGeneration ==
  LET now == Assessed(CarriesForward)
      ss == AssessedStages(CarriesForward)
      generation == now[Current].generation + 1 IN
  /\ GateOpen
  /\ Current # NoObligation /\ MayCreate
  /\ now[Current].engagement = "ACTIVE"
  /\ \A s \in ss :
       (s.obligation = Current /\ s.generation = now[Current].generation
          /\ s.mode = "CAPTURE") => ~Duplicates(s)
  /\ obligations' = [now EXCEPT ![Current].generation = generation]
  /\ stages' = Suppressed(ss, Pending(ss, Current))
                 \cup {NewStage(Current, generation, p, "CAPTURE") : p \in Planned}
  /\ moved' = CycleMoved
  /\ UNCHANGED <<sources, settings, worker, eligible, changes>>

-----------------------------------------------------------------------------
(* processEngagementBatch *)

Due(ss) == {s \in ss : s.state = "READY" /\ s.elapsed}

PickProject ==
  /\ worker = "idle" /\ eligible /\ policy.scheduled
  /\ \E s \in Due(stages) : Live(s.obligation)
  /\ worker' = "picked" /\ eligible' = FALSE
  /\ UNCHANGED <<sources, moved, settings, rows, changes>>

\* The generations a follow-up may look for its predecessor in: from the
\* newest request's to its own.
RequestGenerations(ss, s) ==
  {t.generation : t \in {u \in ss : u.obligation = s.obligation /\ u.plan = Request
                                      /\ u.generation <= s.generation}}

Predecessors(ss, s) ==
  {t \in ss : /\ t.obligation = s.obligation /\ t.plan = s.plan - 1
              /\ t.generation <= s.generation
              /\ \A g \in RequestGenerations(ss, s) : g <= t.generation}

\* Mutant: the stages of the chain do not wait for one another.
Unordered(ss, s) == TRUE

\* Mutant: a stage of the same generation does not count.
AfterEarlierGeneration(ss, s) ==
  s.plan = Request \/ \E t \in Predecessors(ss, s) :
    /\ t.state = "CAPTURED" /\ t.epoch = gate.epoch /\ t.elapsed
    /\ t.generation < s.generation

\* captureSequenceWait: the stage before was captured in the current epoch and
\* the business days since have passed.
InSequence(ss, s) ==
  s.plan = Request \/ \E t \in Predecessors(ss, s) :
    t.state = "CAPTURED" /\ t.epoch = gate.epoch /\ t.elapsed

Authorized(s) == Role(s.plan) \in granted /\ "OWNER" \in granted

Deferred(s) == [s EXCEPT !.elapsed = FALSE]
Captured(s) ==
  [s EXCEPT !.state = "CAPTURED", !.epoch = deployment.epoch, !.elapsed = FALSE]

\* Withheld are the stages in quiet hours or at a weekend, and those whose
\* evidence or reviewers are not readable.
Served(s, withheld) == Authorized(s) /\ ~SourceUnknown /\ s \notin withheld
Silent(s) == s.mode = "SHADOW" \/ deployment.shadow

Captures(ss, withheld) ==
  {s \in Due(ss) : Served(s, withheld) /\ ~Silent(s) /\ GateOpen /\ InSequence(ss, s)}

Settled(ss, withheld) ==
  LET captures == Captures(ss, withheld) IN
  (ss \ Due(ss)) \cup
  {CASE s \in captures -> Captured(s)
     [] Served(s, withheld) /\ Silent(s) -> [s EXCEPT !.state = "SUPPRESSED", !.elapsed = FALSE]
     [] OTHER -> Deferred(s) : s \in Due(ss)}

\* guard_update_capture_birth: the database refuses a captured request of
\* another generation than the engagement's, or of a lineage that has ended.
BirthAccepted(now, s) ==
  /\ now[s.obligation].state = "OPEN" /\ now[s.obligation].engagement = "ACTIVE"
  /\ now[s.obligation].generation = s.generation
  /\ now[s.obligation].policy = policy.revision
  /\ gate.enabled /\ gate.epoch = deployment.epoch

\* A batch assesses the project, then settles every stage that is due.
ProcessProject ==
  /\ worker = "picked" /\ policy.scheduled /\ Commits(CarriesForward)
  /\ obligations' = Assessed(CarriesForward)
  /\ LET ss == AssessedStages(CarriesForward) IN
     \E withheld \in IF Withholds THEN SUBSET Due(ss) ELSE {{}} :
       /\ \A s \in Captures(ss, withheld) : BirthAccepted(obligations', s)
       /\ stages' = Settled(ss, withheld)
  /\ moved' = CycleMoved /\ worker' = "idle"
  /\ UNCHANGED <<sources, settings, eligible, changes>>

-----------------------------------------------------------------------------
(* Time and the environment *)

\* The transaction failed and was rolled back; the project is left alone for
\* five minutes.
ProcessFails ==
  /\ worker = "picked"
  /\ \/ (~policy.scheduled \/ ~Commits(CarriesForward)) /\ UNCHANGED changes
     \/ "fault" \in Kinds /\ changes < MaxChanges /\ changes' = changes + 1
  /\ worker' = "idle"
  /\ UNCHANGED <<sources, moved, settings, rows, eligible>>

\* A batch ends within the minute its project is set aside for.
BecomesEligible ==
  /\ worker = "idle" /\ ~eligible /\ eligible' = TRUE
  /\ UNCHANGED <<sources, moved, settings, rows, worker, changes>>

StageElapses(s) ==
  /\ s \in stages /\ s.state # "SUPPRESSED" /\ ~s.elapsed
  /\ stages' = (stages \ {s}) \cup {[s EXCEPT !.elapsed = TRUE]}
  /\ UNCHANGED <<sources, moved, settings, obligations, worker, eligible, changes>>

Change(kind) == kind \in Kinds /\ changes < MaxChanges /\ changes' = changes + 1

\* The sources, or the time since they were read, say something else.  Only the
\* cycle of an open obligation is compared.
SourceChanges ==
  /\ Change("source")
  /\ \E f \in FactTypes, state \in SourceStates :
       state # facts[f] /\ facts' = [facts EXCEPT ![f] = state]
  /\ moved' \in IF OpenRows = {} THEN {FALSE} ELSE BOOLEAN
  /\ UNCHANGED <<aged, settings, rows, worker, eligible>>

\* Only a fact without a trusted time makes the age of the project count.
AgeCounts == SourceStates \cap {"MISSING", "UNKNOWN"} # {}

ProjectAges ==
  /\ AgeCounts /\ ~aged /\ aged' = TRUE
  /\ UNCHANGED <<facts, moved, settings, rows, worker, eligible, changes>>

\* setPolicy, with the freshness window it may change.
SetPolicy ==
  /\ \/ Change("policy") /\ policy' = [policy EXCEPT !.revision = @ + 1]
     \/ Change("schedule") /\ policy' = [revision |-> policy.revision + 1,
                                          scheduled |-> ~policy.scheduled]
  /\ aged' \in IF AgeCounts THEN BOOLEAN ELSE {FALSE}
  /\ UNCHANGED <<facts, moved, granted, zone, deployment, gate, rows, worker, eligible>>

\* A responsibility or an access grant is given or taken.
AccessChanges ==
  /\ \/ Change("owner") /\ granted' = (granted \ {"OWNER"}) \cup ({"OWNER"} \ granted)
     \/ Change("manager") /\ granted' = (granted \ {"PROJECT_MANAGER"})
                                           \cup ({"PROJECT_MANAGER"} \ granted)
  /\ UNCHANGED <<sources, moved, policy, zone, deployment, gate, rows, worker, eligible>>

ZoneChanges ==
  /\ Change("zone")
  /\ \E r \in Roles : zone' = [zone EXCEPT ![r] = ~@]
  /\ UNCHANGED <<sources, moved, policy, granted, deployment, gate, rows, worker, eligible>>

\* The operator mounts another capture configuration, or turns the global
\* shadow mode.
Deploy ==
  /\ \/ Change("deploy") /\ \E e \in 0 .. gate.epoch :
          e # deployment.epoch /\ deployment' = [deployment EXCEPT !.epoch = e]
     \/ Change("shadow") /\ deployment' = [deployment EXCEPT !.shadow = ~@]
  /\ UNCHANGED <<sources, moved, policy, granted, zone, gate, rows, worker, eligible>>

\* changeUpdateIssuance: enabling keeps the epoch, disabling rotates it.
ChangeIssuance ==
  /\ Change("gate")
  /\ \/ ~gate.enabled /\ gate' = [gate EXCEPT !.enabled = TRUE]
     \/ gate' = [enabled |-> FALSE, epoch |-> gate.epoch + 1]
  /\ UNCHANGED <<sources, moved, policy, granted, zone, deployment, rows, worker, eligible>>

Next ==
  \/ Assess \/ ActivateEngagement \/ BeginCaptureGeneration
  \/ PickProject \/ ProcessProject \/ ProcessFails \/ BecomesEligible
  \/ \E s \in stages : StageElapses(s)
  \/ SourceChanges \/ ProjectAges \/ SetPolicy \/ AccessChanges \/ ZoneChanges
  \/ Deploy \/ ChangeIssuance

Spec == Init /\ [][Next]_vars

\* The worker's cron asks for a batch every minute, and time passes.  Quiet
\* hours end, so a stage is not withheld for ever: Withholds is FALSE where
\* this is used.
Fairness ==
  /\ WF_vars(BecomesEligible \/ PickProject \/ ProcessProject \/ ProcessFails)
  /\ \A p \in Plans : WF_vars(\E s \in stages : s.plan = p /\ StageElapses(s))

-----------------------------------------------------------------------------
(* Properties *)

TypeOK ==
  /\ facts \in [FactTypes -> SourceStates]
  /\ aged \in BOOLEAN /\ moved \in BOOLEAN
  /\ policy \in [revision : Nat, scheduled : BOOLEAN]
  /\ granted \subseteq Roles /\ zone \in [Roles -> BOOLEAN]
  /\ deployment \in [shadow : BOOLEAN, epoch : Nat]
  /\ gate \in [enabled : BOOLEAN, epoch : Nat]
  /\ obligations \in Seq(ObligationRows) /\ stages \subseteq StageRows
  /\ worker \in {"idle", "picked"} /\ eligible \in BOOLEAN
  /\ changes \in 0 .. MaxChanges

\* There is one cycle at a time: only the newest obligation may be open, only
\* the open one is pursued by an engagement, and an intent that is still to be
\* acted on belongs to that engagement.  An intent of a cycle that has ended
\* would ask for facts nobody misses.
OneCycle ==
  /\ \A o \in DOMAIN obligations :
       /\ obligations[o].state = "OPEN" => o = Len(obligations)
       /\ Live(o) => obligations[o].state = "OPEN"
  /\ \A s \in stages : s.state = "READY" => Live(s.obligation)

\* unique(engagement, generation, kind, ordinal, recipient): no intent is
\* written twice, or the transaction that writes it would fail for ever.
IntentsUnique ==
  \A s, t \in stages :
    (s.obligation = t.obligation /\ s.generation = t.generation /\ s.plan = t.plan) => s = t

\* A recipient is asked the same question again, within one issuance epoch, at most
\* once for every change of what the engagement was planned under: neither the
\* approval of a new capture generation (the conflict of beginCaptureGeneration) nor
\* a replan repeats a captured stage of its own accord.
AskedPerChange ==
  \A s \in stages : s.state = "CAPTURED" =>
    Cardinality({t \in stages : /\ t.state = "CAPTURED" /\ t.epoch = s.epoch
                                /\ t.obligation = s.obligation /\ t.plan = s.plan})
      <= 1 + changes

\* "A new generation invalidates captured locators. Prepare a fresh owner
\* request too" (refreshEngagements): every generation that captures has an
\* owner request of its own, so its unresolved facts have a response path.
EveryGenerationAsks ==
  \A s \in stages : s.mode = "CAPTURE" =>
    \E t \in stages : t.obligation = s.obligation /\ t.generation = s.generation
                        /\ t.plan = Request

\* A follow-up was captured only after every stage of the chain before it, in
\* the same issuance epoch and no earlier than the newest request: nobody is
\* escalated who was not asked.
UnbrokenChain ==
  \A s \in stages : s.state = "CAPTURED" =>
    \A q \in Request .. s.plan - 1 :
      \E t \in stages :
        /\ t.obligation = s.obligation /\ t.plan = q
        /\ t.state = "CAPTURED" /\ t.epoch = s.epoch
        /\ t.generation <= s.generation
        /\ \A g \in RequestGenerations(stages, s) : g <= t.generation

\* The birth guard of the database accepts every capture a batch decides on;
\* one refusal would roll the batch back, and every later one of the project.
NoPoisonedBatch ==
  Commits(CarriesForward) =>
    \A s \in Captures(AssessedStages(CarriesForward), {}) :
      BirthAccepted(Assessed(CarriesForward), s)

\* "Replace retained stages too, so no pending action is stranded behind a newer
\* generation." (refreshEngagements): the stage a pending follow-up waits for is itself
\* captured or still to be captured.
NoStageStranded ==
  \A s \in stages : (s.mode = "CAPTURE" /\ s.state = "READY" /\ s.plan # Request) =>
    \E t \in Predecessors(stages, s) : t.state \in {"READY", "CAPTURED"}

\* What is captured is still true: the request asks for exactly the facts that
\* are unresolved at the time of capture, at the recipient's current time zone.
Newly == {t \in stages' : t.state = "CAPTURED" /\ t \notin stages /\ ~t.elapsed}
AsksForWhatIsMissing ==
  [][ProcessProject =>
       \A s \in Newly : s.facts = Remaining /\ s.zone = zone[Role(s.plan)]]_vars

\* Terminal receipts retain their history: a stage never leaves its snapshot
\* and, once captured or suppressed, its outcome.
ReceiptsAreFinal ==
  [][\A s \in stages : \E t \in stages' :
       /\ [s EXCEPT !.state = t.state, !.epoch = t.epoch, !.elapsed = t.elapsed] = t
       /\ s.state # "READY" => (t.state = s.state /\ t.epoch = s.epoch)]_vars

\* A stage can have its turn: every stage of the chain before it, since the newest
\* request, is captured in this epoch or still to be captured.
HasTurn(s) ==
  s.mode = "SHADOW" \/ \A q \in Request .. s.plan - 1 :
    \E t \in stages :
      /\ t.obligation = s.obligation /\ t.plan = q /\ t.generation <= s.generation
      /\ \A g \in RequestGenerations(stages, s) : g <= t.generation
      /\ t.state = "READY" \/ (t.state = "CAPTURED" /\ t.epoch = gate.epoch)

\* When access, policy, sources and gate stay favourable, every pending stage that can
\* have its turn is eventually captured, suppressed or replaced: no number of deferrals
\* and failed batches keeps it back.  A follow-up that a replan, a new epoch or the
\* shadow mode has left without a predecessor is excluded: it waits for ever
\* (NoStageStranded).
Favourable == granted = Roles /\ policy.scheduled /\ ~SourceUnknown /\ GateOpen
StagesSettle ==
  <>[]Favourable => []<>(\A s \in stages : HasTurn(s) => s.state # "READY")
=============================================================================
