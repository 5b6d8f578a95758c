----------------------- MODULE ReassessmentScanProofs -----------------------
(***************************************************************************)
(* Theorems about ReassessmentScan, for any number of projects, causes,    *)
(* scans and generations and any lengths of the leases and delays.         *)
(***************************************************************************)
EXTENDS ReassessmentScan, FiniteSetTheorems, TLAPS

-----------------------------------------------------------------------------
(* Types *)

LEMMA FreshTypes ==
  ASSUME NEW p \in Projects, Fresh(p) # {}
  PROVE  NextGeneration(p) \in Fresh(p) /\ NextGeneration(p) \in Generations
BY DEF NextGeneration, Fresh

LEMMA IdleTypes == Idle \in ScanRecords /\ NoCause \in CauseRows
<1>1. (CHOOSE p \in Projects : TRUE) \in Projects
  BY ScanAssumption
<1>2. (CHOOSE g \in Generations : TRUE) \in Generations
  BY ScanAssumption
<1>3. Idle \in ScanRecords
  BY <1>1, <1>2 DEF Idle, ScanRecords
<1>4. NoCause \in CauseRows
  BY <1>1 DEF NoCause, CauseRows, CauseStates, Reasons
<1> QED BY <1>3, <1>4

LEMMA LessTypes == \A n \in Nat : Less(n) \in Nat
BY DEF Less

LEMMA CardinalityType == Cardinality(Projects) \in Nat
BY ScanAssumption, FS_CardinalityType

\* What a scan writes about itself keeps its type.
LEMMA ReturnTypes ==
  ASSUME TypeOK, NEW s \in Scanners, Return(s)
  PROVE  scanner' \in [Scanners -> ScanRecords]
BY IdleTypes DEF Return, TypeOK

LEMMA AttemptedTypes ==
  ASSUME TypeOK, NEW n \in Ranks
  PROVE  Attempted(n) \in [Ranks -> Projects]
<1>1. \A i \in Ranks : i < Cardinality(Projects) => i + 1 \in Ranks
  BY CardinalityType DEF Ranks
<1> QED BY <1>1 DEF Attempted, TypeOK

\* What each update does to a row, field by field.
LEMMA BlockedEffect ==
  ASSUME NEW row \in CauseRows, NEW reason \in Reasons, NEW new, new = Blocked(row, reason)
  PROVE  /\ new \in CauseRows /\ Unchanged(row, new)
         /\ new.state = "BLOCKED" /\ new.reason = reason
         /\ new.attempts = row.attempts /\ new.claimed = row.claimed
         /\ new.available = row.available
BY DEF Blocked, CauseRows, CauseStates, Unchanged

LEMMA ChargedEffect ==
  ASSUME NEW row \in CauseRows, NEW g \in Generations, NEW new, new = Charged(row, g)
  PROVE  /\ new \in CauseRows /\ Unchanged(row, new)
         /\ new.state = row.state /\ new.reason = "CLAIMED"
         /\ new.attempts = row.attempts + 1 /\ new.claimed = g
         /\ new.available = row.available
<1>1. \A n \in Nat :
        [row EXCEPT !.attempts = n, !.claimed = g, !.reason = "CLAIMED"] \in CauseRows
  BY DEF CauseRows, Reasons
<1>2. row.attempts + 1 \in Nat
  BY DEF CauseRows
<1>3. new \in CauseRows
  BY <1>1, <1>2 DEF Charged
<1> QED BY <1>3 DEF CauseRows, Unchanged, Charged

LEMMA AnsweredEffect ==
  ASSUME NEW row \in CauseRows, NEW new, new = Answered(row)
  PROVE  /\ new \in CauseRows /\ Unchanged(row, new)
         /\ new.state = "COMPLETED" /\ new.reason = "COMPLETED"
         /\ new.attempts = row.attempts /\ new.claimed = row.claimed
         /\ new.available = row.available
BY DEF Answered, CauseRows, CauseStates, Reasons, Unchanged

LEMMA RefundedEffect ==
  ASSUME NEW row \in CauseRows, row.attempts >= 1, NEW new, new = Refunded(row)
  PROVE  /\ new \in CauseRows /\ Unchanged(row, new)
         /\ new.state = row.state /\ new.reason = "LOCK_CONTENDED"
         /\ new.attempts = row.attempts - 1 /\ new.claimed = 0
         /\ new.available = ContentionTicks
<1>1. \A n \in Nat :
        [row EXCEPT !.attempts = n, !.claimed = 0,
                    !.available = ContentionTicks, !.reason = "LOCK_CONTENDED"] \in CauseRows
  BY ScanAssumption DEF CauseRows, Reasons
<1>2. row.attempts - 1 \in Nat
  BY DEF CauseRows
<1>3. new \in CauseRows
  BY <1>1, <1>2 DEF Refunded
<1> QED BY <1>3 DEF CauseRows, Unchanged, Refunded

LEMMA FailedEffect ==
  ASSUME NEW row \in CauseRows, NEW new, new = Failed(row)
  PROVE  /\ new \in CauseRows /\ Unchanged(row, new)
         /\ new.state = IF row.attempts = Budget THEN "BLOCKED" ELSE row.state
         /\ new.reason = IF row.attempts = Budget THEN "RETRY_EXHAUSTED" ELSE "FAILED"
         /\ new.attempts = row.attempts /\ new.claimed = row.claimed
BY ScanAssumption DEF Failed, Blocked, CauseRows, CauseStates, Reasons, Unchanged

LEMMA WaitedEffect ==
  ASSUME NEW row \in CauseRows, NEW new, new = Waited(row)
  PROVE  /\ new \in CauseRows /\ Unchanged(row, new)
         /\ new.state = row.state /\ new.reason = row.reason
         /\ new.attempts = row.attempts /\ new.claimed = row.claimed
         /\ new.available = Less(row.available)
<1>1. \A n \in Nat : [row EXCEPT !.available = n] \in CauseRows
  BY DEF CauseRows
<1>2. Less(row.available) \in Nat
  BY LessTypes DEF CauseRows
<1>3. new \in CauseRows
  BY <1>1, <1>2 DEF Waited
<1> QED BY <1>3 DEF CauseRows, Unchanged, Waited

LEMMA RecoveredEffect ==
  ASSUME NEW row \in CauseRows, NEW new, new = Recovered(row)
  PROVE  /\ new \in CauseRows /\ new.project = row.project /\ new.config = row.config
         /\ new.state = "READY" /\ new.reason = "RETRY_REQUESTED" /\ new.attempts = 0
         /\ new.recovery = row.recovery + 1 /\ new.claimed = 0 /\ new.available = 0
<1>1. \A n \in Nat :
        [row EXCEPT !.state = "READY", !.attempts = 0, !.recovery = n, !.claimed = 0,
                    !.available = 0, !.reason = "RETRY_REQUESTED"] \in CauseRows
  BY DEF CauseRows, CauseStates, Reasons
<1>2. row.recovery + 1 \in Nat
  BY DEF CauseRows
<1>3. new \in CauseRows
  BY <1>1, <1>2 DEF Recovered
<1> QED BY <1>3 DEF CauseRows, Recovered

LEMMA PolicyTypes ==
  ASSUME NEW row \in PolicyRows
  PROVE  /\ \A g \in Generations : [row EXCEPT !.generation = g, !.claim = LeaseTicks] \in PolicyRows
         /\ \A n, k \in Nat : [row EXCEPT !.claim = 0, !.failure = n, !.next = k] \in PolicyRows
         /\ [row EXCEPT !.claim = 0] \in PolicyRows
         /\ [row EXCEPT !.claim = 0, !.failure = RetryTicks] \in PolicyRows
         /\ [row EXCEPT !.enabled = TRUE] \in PolicyRows
         /\ \A g \in Generations :
              [row EXCEPT !.enabled = FALSE, !.claim = 0, !.generation = g] \in PolicyRows
         /\ [row EXCEPT !.claim = Less(@), !.failure = Less(@), !.next = Less(@)] \in PolicyRows
<1>1. /\ Less(row.claim) \in Nat /\ Less(row.failure) \in Nat /\ Less(row.next) \in Nat
  BY LessTypes DEF PolicyRows
<1> QED BY <1>1, ScanAssumption DEF PolicyRows

-----------------------------------------------------------------------------
(* The inductive invariant *)

Busy(s) == ~At(s, "idle")

\* The generation of the claim is the one the policy is at.
Leading(s) == policy[Project(s)].generation = scanner[s].generation

\* What a cause owes: no claim goes uncharged, and one that nobody has charged
\* can still be claimed.
CauseInv(c) ==
  /\ unpaid[c] <= causes[c].attempts /\ causes[c].attempts <= Budget
  /\ causes[c].state = "READY" /\ causes[c].claimed = 0 => causes[c].attempts < Budget
  /\ causes[c].state = "ABSENT" => unpaid[c] <= 0
  /\ causes[c].state = "READY" => policy[causes[c].project].enabled

\* What a scan rests on: its causes belong to its project, and as long as no
\* newer generation exists they are READY, available and charged to it.
ScanInv(s) ==
  Busy(s) =>
    /\ \A c \in Cohort(s) : causes[c].state # "ABSENT" /\ causes[c].project = Project(s)
    /\ At(s, "complete") => ~scanner[s].contention
    /\ Leading(s) =>
         /\ CohortHolds(s)
         /\ \A c \in Cohort(s) :
              /\ causes[c].attempts >= 1
              /\ scanner[s].contention => unpaid[c] < causes[c].attempts

\* Two scans of a project never have the same generation.
Distinct ==
  \A s, t \in Scanners :
    Busy(s) /\ Busy(t) /\ s # t /\ Project(s) = Project(t)
      => scanner[s].generation # scanner[t].generation

IInv ==
  /\ TypeOK
  /\ \A c \in Causes : CauseInv(c)
  /\ \A s \in Scanners : ScanInv(s)
  /\ Distinct

\* The effect of a transaction on the rows of causes, as far as it matters to
\* the claims of other scans: no row leaves its project, and a row charged to
\* the leading claim of t is left alone.
LEMMA ScanKept ==
  ASSUME IInv, NEW t \in Scanners, scanner'[t] = scanner[t],
         \A c \in Causes : causes[c].state # "ABSENT" =>
           causes'[c].state # "ABSENT" /\ causes'[c].project = causes[c].project,
         Busy(t) /\ Leading(t)' => Leading(t),
         Busy(t) /\ Leading(t)' => \A c \in Cohort(t) :
           /\ causes'[c].state = causes[c].state /\ causes'[c].claimed = causes[c].claimed
           /\ causes'[c].attempts = causes[c].attempts
           /\ causes[c].available = 0 => causes'[c].available = 0
           /\ unpaid'[c] = unpaid[c]
  PROVE  ScanInv(t)'
<1>1. Cohort(t) \subseteq Causes
  BY DEF IInv, TypeOK, ScanRecords, Cohort
<1>2. ScanInv(t)
  BY DEF IInv
<1> QED BY <1>1, <1>2 DEF ScanInv, Busy, At, Leading, Cohort, Project, CohortHolds

LEMMA DistinctKept ==
  ASSUME IInv, NEW s \in Scanners, Return(s)
  PROVE  /\ Distinct'
         /\ ~Busy(s)'
         /\ \A t \in Scanners \ {s} : scanner'[t] = scanner[t]
BY DEF IInv, TypeOK, Return, Distinct, Busy, At, Project, Idle

-----------------------------------------------------------------------------
(* One lemma per transaction *)

LEMMA ClaimKeeps ==
  ASSUME IInv, NEW s \in Scanners, NEW n \in Ranks, Claim(s, n)
  PROVE  IInv'
<1> DEFINE p == order[n]
           g == NextGeneration(p)
           cohort == Candidates(p) \ Exhausted(p)
<1>1. p \in Projects
  BY DEF IInv, TypeOK
<1>2. g \in Fresh(p) /\ g \in Generations
  BY <1>1, FreshTypes DEF Claim
<1>3. Candidates(p) \subseteq Available(p) /\ Exhausted(p) \subseteq Candidates(p)
      /\ Available(p) \subseteq Owned(p) /\ Owned(p) \subseteq Causes
  BY DEF Candidates, Exhausted, Available, Owned
<1>4. \A c \in cohort : /\ c \in Causes /\ causes[c].state = "READY" /\ causes[c].project = p
                        /\ causes[c].available = 0 /\ causes[c].attempts # Budget
  BY <1>3 DEF Candidates, Exhausted, Available, Owned
<1>5. \A c \in Causes : causes[c] \in CauseRows /\ unpaid[c] \in Int
  BY DEF IInv, TypeOK
<1>6. ASSUME NEW c \in cohort
      PROVE  /\ causes'[c] \in CauseRows /\ unpaid'[c] = unpaid[c] + 1
             /\ causes'[c].state = "READY" /\ causes'[c].project = p
             /\ causes'[c].available = 0 /\ causes'[c].claimed = g
             /\ causes'[c].attempts = causes[c].attempts + 1
  <2>1. causes'[c] = Charged(causes[c], g)
        /\ unpaid'[c] = unpaid[c] + 1
    BY <1>3, <1>4 DEF Claim
  <2> HIDE DEF g, cohort
  <2>2. c \in Causes /\ causes[c] \in CauseRows
    BY <1>4, <1>5
  <2>3. g \in Generations
    BY <1>2
  <2>4. /\ causes'[c] \in CauseRows /\ Unchanged(causes[c], causes'[c])
        /\ causes'[c].state = causes[c].state /\ causes'[c].claimed = g
        /\ causes'[c].attempts = causes[c].attempts + 1
        /\ causes'[c].available = causes[c].available
    BY <2>1, <2>2, <2>3, ChargedEffect
  <2> QED BY <2>1, <2>4, <1>4 DEF Unchanged
<1>7. ASSUME NEW c \in Exhausted(p)
      PROVE  /\ causes'[c] \in CauseRows /\ unpaid'[c] = unpaid[c]
             /\ causes'[c].state = "BLOCKED" /\ causes'[c].project = p
             /\ causes'[c].attempts = causes[c].attempts
  <2>1. causes'[c] = Blocked(causes[c], "RETRY_EXHAUSTED") /\ unpaid'[c] = unpaid[c]
    BY <1>3 DEF Claim
  <2>2. c \in Causes /\ causes[c] \in CauseRows /\ causes[c].project = p
    BY <1>3, <1>5 DEF Owned
  <2>3. "RETRY_EXHAUSTED" \in Reasons
    BY DEF Reasons
  <2> QED BY <2>1, <2>2, <2>3, BlockedEffect DEF Unchanged
<1>8. \A c \in Causes \ (cohort \cup Exhausted(p)) : causes'[c] = causes[c] /\ unpaid'[c] = unpaid[c]
  BY DEF Claim
<1>9. \A q \in Projects : policy'[q].enabled = policy[q].enabled
                          /\ (q # p => policy'[q] = policy[q])
  BY <1>1 DEF Claim, IInv, TypeOK, PolicyRows
<1>10. policy'[p].generation = g /\ policy'[p].claim = LeaseTicks
  BY <1>1 DEF Claim, IInv, TypeOK, PolicyRows
<1>11. /\ scanner'[s].step = "complete" /\ scanner'[s].project = p /\ scanner'[s].generation = g
       /\ scanner'[s].cohort = cohort /\ scanner'[s].contention = FALSE
       /\ \A t \in Scanners \ {s} : scanner'[t] = scanner[t]
  BY DEF Claim, IInv, TypeOK
<1> HIDE DEF p, g, cohort
<1>12. TypeOK'
  <2>1. policy' \in [Projects -> PolicyRows]
    BY <1>1, <1>2, PolicyTypes DEF Claim, IInv, TypeOK, g, p
  <2>2. causes' \in [Causes -> CauseRows]
    <3>1. \A c \in Causes : causes'[c] \in CauseRows
      BY <1>5, <1>6, <1>7, <1>8
    <3>2. causes' = [c \in Causes |-> causes'[c]]
      BY DEF Claim
    <3> QED BY <3>1, <3>2
  <2>3. order' \in [Ranks -> Projects]
    BY AttemptedTypes DEF Claim, IInv
  <2>4. scanner' \in [Scanners -> ScanRecords]
    <3>1. cohort \subseteq Causes
      BY <1>4
    <3>2. (policy[p].next = 0) \in BOOLEAN
      OBVIOUS
    <3>3. [step |-> "complete", project |-> p, generation |-> g, cohort |-> cohort,
           periodic |-> policy[p].next = 0, contention |-> FALSE] \in ScanRecords
      BY <3>1, <3>2, <1>1, <1>2 DEF ScanRecords
    <3> QED BY <3>3 DEF Claim, IInv, TypeOK, p, g, cohort
  <2>5. unpaid' \in [Causes -> Int]
    <3>1. \A c \in Causes : unpaid'[c] \in Int
      BY <1>5, <1>6, <1>7, <1>8
    <3>2. unpaid' = [c \in Causes |-> unpaid'[c]]
      BY DEF Claim
    <3> QED BY <3>1, <3>2
  <2>6. config' \in Nat /\ dispatched' \in BOOLEAN
    BY DEF Claim, IInv, TypeOK
  <2> QED BY <2>1, <2>2, <2>3, <2>4, <2>5, <2>6 DEF TypeOK
<1>13. \A c \in Causes : CauseInv(c)'
  <2>1. SUFFICES ASSUME NEW c \in Causes PROVE CauseInv(c)'
    OBVIOUS
  <2>2. CauseInv(c) /\ causes[c] \in CauseRows /\ causes[c].project \in Projects
    BY <1>5 DEF IInv, CauseRows
  <2>3. CASE c \in cohort
    <3>1. causes[c].attempts \in Nat /\ Budget \in Nat /\ g # 0
      BY <2>2, <1>2, ScanAssumption DEF CauseRows
    <3>2. causes[c].attempts < Budget
      BY <3>1, <2>2, <2>3, <1>4 DEF CauseInv
    <3>3. policy'[p].enabled
      BY <2>2, <2>3, <1>1, <1>4, <1>9 DEF CauseInv
    <3> QED BY <3>1, <3>2, <3>3, <2>2, <2>3, <1>5, <1>6 DEF CauseInv
  <2>4. CASE c \in Exhausted(p)
    BY <2>2, <2>4, <1>7 DEF CauseInv
  <2>5. CASE c \notin cohort \cup Exhausted(p)
    BY <2>2, <2>5, <1>8, <1>9 DEF CauseInv
  <2> QED BY <2>3, <2>4, <2>5
<1>14. ScanInv(s)'
  <2>1. \A c \in cohort :
          /\ causes'[c].state = "READY" /\ causes'[c].project = p /\ causes'[c].available = 0
          /\ causes'[c].claimed = g /\ causes'[c].attempts >= 1
    BY <1>4, <1>5, <1>6 DEF CauseRows
  <2> QED BY <2>1, <1>11 DEF ScanInv, Cohort, Project, CohortHolds, At
<1>15. ASSUME NEW t \in Scanners \ {s} PROVE ScanInv(t)'
  <2>1. scanner'[t] = scanner[t]
    BY <1>11
  <2>2. Busy(t) /\ Project(t) = p => scanner[t].generation # g
    BY <1>2 DEF Fresh, Busy
  <2>3. Busy(t) /\ Leading(t)' => Project(t) # p /\ Leading(t)
    BY <2>1, <2>2, <1>9, <1>10 DEF Leading, Project, IInv, TypeOK, ScanRecords
  <2>4. \A c \in Causes : causes[c].project # p =>
          causes'[c] = causes[c] /\ unpaid'[c] = unpaid[c]
    BY <1>3, <1>4, <1>8 DEF Owned
  <2>5. \A c \in Causes : causes[c].state # "ABSENT" =>
           causes'[c].state # "ABSENT" /\ causes'[c].project = causes[c].project
    BY <1>3, <1>4, <1>6, <1>7, <1>8 DEF Owned
  <2>6. Busy(t) => \A c \in Cohort(t) : c \in Causes /\ causes[c].project = Project(t)
    BY DEF IInv, ScanInv, TypeOK, ScanRecords, Cohort
  <2> QED BY <2>1, <2>3, <2>4, <2>5, <2>6, ScanKept
<1>16. Distinct'
  <2>1. \A t \in Scanners \ {s} : Busy(t) /\ Project(t) = p => scanner[t].generation # g
    BY <1>2 DEF Fresh, Busy
  <2> QED BY <2>1, <1>11 DEF Distinct, Busy, At, Project, IInv
<1> QED BY <1>12, <1>13, <1>14, <1>15, <1>16 DEF IInv

\* Another scan whose project has the generation of a live claim does not lead.
LEMMA OthersTrail ==
  ASSUME IInv, NEW s \in Scanners, Busy(s), Leading(s), NEW t \in Scanners \ {s},
         Busy(t), Project(t) = Project(s)
  PROVE  ~Leading(t)
BY DEF IInv, Distinct, Leading

LEMMA CohortFacts ==
  ASSUME IInv, NEW s \in Scanners, Busy(s), Live(s)
  PROVE  /\ Leading(s) /\ CohortHolds(s) /\ Project(s) \in Projects
         /\ \A c \in Cohort(s) : /\ c \in Causes /\ causes[c] \in CauseRows
                                 /\ causes[c].state = "READY" /\ causes[c].project = Project(s)
                                 /\ causes[c].attempts >= 1
                                 /\ scanner[s].contention => unpaid[c] < causes[c].attempts
BY DEF IInv, TypeOK, ScanInv, Live, Leading, CohortHolds, Cohort, Project, ScanRecords

\* A transaction that writes only the causes of the live claim of s, and no
\* generation, leaves the claims of the others alone.
LEMMA OthersUndisturbed ==
  ASSUME IInv, NEW s \in Scanners, Busy(s), Leading(s),
         NEW t \in Scanners \ {s}, scanner'[t] = scanner[t],
         \A q \in Projects : policy'[q].generation = policy[q].generation,
         \A c \in Causes \ Cohort(s) : causes'[c] = causes[c] /\ unpaid'[c] = unpaid[c],
         \A c \in Cohort(s) : causes'[c].state # "ABSENT" /\ causes'[c].project = causes[c].project
  PROVE  ScanInv(t)'
<1>1. Project(t) \in Projects /\ Project(t)' = Project(t)
  BY DEF IInv, TypeOK, ScanRecords, Project
<1>2. Busy(t) /\ Leading(t)' => Leading(t)
  BY <1>1 DEF Leading, Project
<1>3. Busy(t) /\ Leading(t)' => Project(t) # Project(s)
  BY <1>2, OthersTrail
<1>4. Busy(t) => \A c \in Cohort(t) : c \in Causes /\ causes[c].project = Project(t)
  BY DEF IInv, ScanInv, TypeOK, ScanRecords, Cohort
<1>5. \A c \in Cohort(s) : causes[c].project = Project(s)
  BY DEF IInv, ScanInv
<1>6. \A c \in Causes : causes[c].state # "ABSENT" =>
        causes'[c].state # "ABSENT" /\ causes'[c].project = causes[c].project
  OBVIOUS
<1> QED BY <1>2, <1>3, <1>4, <1>5, <1>6, ScanKept

\* The last transaction of a scan: it settles, refunds or postpones the causes
\* of its live claim and forgets the claim.
LEMMA SettleKeeps ==
  ASSUME IInv, NEW s \in Scanners, Busy(s), Live(s), Return(s),
         policy' \in [Projects -> PolicyRows],
         \A q \in Projects : /\ policy'[q].generation = policy[q].generation
                             /\ policy'[q].enabled = policy[q].enabled,
         causes' \in [Causes -> CauseRows],
         \A c \in Causes \ Cohort(s) : causes'[c] = causes[c],
         \A c \in Cohort(s) :
           /\ causes'[c].project = causes[c].project
           /\ causes'[c].state \in {"READY", "COMPLETED", "BLOCKED"}
           /\ unpaid[c] <= causes'[c].attempts /\ causes'[c].attempts <= Budget
           /\ causes'[c].state = "READY" /\ causes'[c].claimed = 0
                => causes'[c].attempts < Budget,
         UNCHANGED <<config, order, dispatched, unpaid>>
  PROVE  IInv'
<1>1. TypeOK'
  BY ReturnTypes DEF IInv, TypeOK
<1>2. \A c \in Cohort(s) : c \in Causes /\ causes[c].state = "READY" /\ causes[c].project \in Projects
  BY CohortFacts DEF CauseRows
<1>3. ASSUME NEW c \in Causes PROVE CauseInv(c)'
  <2>1. CauseInv(c) /\ causes[c].project \in Projects
    BY DEF IInv, TypeOK, CauseRows
  <2>2. CASE c \in Cohort(s)
    BY <2>1, <2>2, <1>2 DEF CauseInv
  <2>3. CASE c \notin Cohort(s)
    BY <2>1, <2>3 DEF CauseInv
  <2> QED BY <2>2, <2>3
<1>4. Distinct' /\ ~Busy(s)' /\ \A t \in Scanners \ {s} : scanner'[t] = scanner[t]
  BY DistinctKept
<1>5. ScanInv(s)'
  BY <1>4 DEF ScanInv
<1>6. ASSUME NEW t \in Scanners \ {s} PROVE ScanInv(t)'
  <2>1. \A c \in Cohort(s) : causes'[c].state # "ABSENT"
    OBVIOUS
  <2>2. Leading(s)
    BY CohortFacts
  <2> QED BY <1>4, <2>1, <2>2, OthersUndisturbed
<1> QED BY <1>1, <1>3, <1>4, <1>5, <1>6 DEF IInv

\* A scan that ends without writing anything.
LEMMA ReturnKeeps ==
  ASSUME IInv, NEW s \in Scanners, Return(s),
         UNCHANGED <<policy, causes, config, order, dispatched, unpaid>>
  PROVE  IInv'
<1>1. TypeOK'
  BY ReturnTypes DEF IInv, TypeOK
<1>2. Distinct' /\ ~Busy(s)' /\ \A t \in Scanners \ {s} : scanner'[t] = scanner[t]
  BY DistinctKept
<1>3. \A c \in Causes : CauseInv(c)'
  BY DEF IInv, CauseInv
<1>4. ASSUME NEW t \in Scanners PROVE ScanInv(t)'
  BY <1>2 DEF IInv, ScanInv, Busy, At, Cohort, Project, Leading, CohortHolds
<1> QED BY <1>1, <1>2, <1>3, <1>4 DEF IInv

LEMMA CompleteKeeps == ASSUME IInv, NEW s \in Scanners, Complete(s) PROVE IInv'
<1> DEFINE valid == {c \in Cohort(s) : SourceStillMatches(c)}
           p == Project(s)
<1>1. Busy(s) /\ Live(s) /\ Return(s) /\ UNCHANGED <<config, order, dispatched, unpaid>>
  BY DEF Complete, Busy, At
<1>2. p \in Projects /\ \A c \in Cohort(s) : /\ c \in Causes /\ causes[c] \in CauseRows
                                             /\ CauseInv(c)
  BY <1>1, CohortFacts DEF IInv
<1>3. policy' \in [Projects -> PolicyRows]
      /\ \A q \in Projects : /\ policy'[q].generation = policy[q].generation
                             /\ policy'[q].enabled = policy[q].enabled
  <2>1. PICK n, k \in Nat : policy' = [policy EXCEPT ![p].claim = 0, ![p].failure = n, ![p].next = k]
    <3>1. policy[p].failure \in Nat /\ policy[p].next \in Nat /\ PeriodTicks \in Nat /\ 0 \in Nat
      BY <1>2, ScanAssumption DEF IInv, TypeOK, PolicyRows
    <3> QED BY <3>1 DEF Complete
  <2>2. policy' = [policy EXCEPT ![p] = [@ EXCEPT !.claim = 0, !.failure = n, !.next = k]]
    BY <2>1, <1>2 DEF IInv, TypeOK, PolicyRows
  <2>3. policy[p] \in PolicyRows
    BY <1>2 DEF IInv, TypeOK
  <2>4. [policy[p] EXCEPT !.claim = 0, !.failure = n, !.next = k] \in PolicyRows
    BY <2>3, PolicyTypes
  <2> HIDE DEF p
  <2>5. policy' \in [Projects -> PolicyRows]
    BY <2>2, <2>4 DEF IInv, TypeOK
  <2> QED BY <2>2, <2>3, <2>5, <1>2 DEF IInv, TypeOK, PolicyRows
<1>4. ASSUME NEW c \in valid PROVE causes'[c] = Answered(causes[c])
  BY <1>2 DEF Complete
<1>5. ASSUME NEW c \in Cohort(s) \ valid
      PROVE  causes'[c] = Blocked(causes[c], "SOURCE_SCOPE_CHANGED")
  BY <1>2 DEF Complete
<1>6. \A c \in Causes \ Cohort(s) : causes'[c] = causes[c]
  BY DEF Complete
<1> HIDE DEF valid
<1>7. ASSUME NEW c \in Cohort(s)
      PROVE  /\ causes'[c] \in CauseRows /\ causes'[c].project = causes[c].project
             /\ causes'[c].state \in {"COMPLETED", "BLOCKED"}
             /\ causes'[c].attempts = causes[c].attempts
  <2>1. CASE c \in valid
    BY <2>1, <1>2, <1>4, AnsweredEffect DEF Unchanged
  <2>2. CASE c \notin valid
    <3>1. "SOURCE_SCOPE_CHANGED" \in Reasons
      BY DEF Reasons
    <3> QED BY <3>1, <2>2, <1>2, <1>5, BlockedEffect DEF Unchanged
  <2> QED BY <2>1, <2>2
<1>8. causes' \in [Causes -> CauseRows]
  <2>1. \A c \in Causes : causes'[c] \in CauseRows
    BY <1>6, <1>7 DEF IInv, TypeOK
  <2>2. causes' = [c \in Causes |-> causes'[c]]
    BY DEF Complete
  <2> QED BY <2>1, <2>2
<1>9. ASSUME NEW c \in Cohort(s)
      PROVE  /\ causes'[c].project = causes[c].project
             /\ causes'[c].state \in {"READY", "COMPLETED", "BLOCKED"}
             /\ unpaid[c] <= causes'[c].attempts /\ causes'[c].attempts <= Budget
             /\ causes'[c].state = "READY" /\ causes'[c].claimed = 0
                  => causes'[c].attempts < Budget
  BY <1>2, <1>7 DEF CauseInv
<1> QED BY <1>1, <1>3, <1>6, <1>8, <1>9, SettleKeeps

LEMMA ReleaseContendedKeeps == ASSUME IInv, NEW s \in Scanners, ReleaseContended(s) PROVE IInv'
<1> DEFINE p == Project(s)
<1>1. Busy(s) /\ Live(s) /\ Return(s) /\ UNCHANGED <<config, order, dispatched, unpaid>>
      /\ scanner[s].contention
  BY DEF ReleaseContended, Busy, At
<1>2. p \in Projects /\ \A c \in Cohort(s) :
        /\ c \in Causes /\ causes[c] \in CauseRows /\ CauseInv(c) /\ unpaid[c] \in Int
        /\ causes[c].state = "READY" /\ causes[c].attempts >= 1
        /\ unpaid[c] < causes[c].attempts
  BY <1>1, CohortFacts DEF IInv, TypeOK
<1>3. policy' \in [Projects -> PolicyRows]
      /\ \A q \in Projects : /\ policy'[q].generation = policy[q].generation
                             /\ policy'[q].enabled = policy[q].enabled
  BY <1>2, ScanAssumption DEF ReleaseContended, IInv, TypeOK, PolicyRows
<1>4. ASSUME NEW c \in Cohort(s)
      PROVE  /\ causes'[c] \in CauseRows /\ causes'[c].project = causes[c].project
             /\ causes'[c].state = "READY" /\ causes'[c].claimed = 0
             /\ causes'[c].attempts = causes[c].attempts - 1
  <2>1. causes'[c] = Refunded(causes[c])
    BY <1>2 DEF ReleaseContended
  <2> QED BY <2>1, <1>2, RefundedEffect DEF Unchanged
<1>5. \A c \in Causes \ Cohort(s) : causes'[c] = causes[c]
  BY DEF ReleaseContended
<1>6. causes' \in [Causes -> CauseRows]
  <2>1. \A c \in Causes : causes'[c] \in CauseRows
    BY <1>4, <1>5 DEF IInv, TypeOK
  <2>2. causes' = [c \in Causes |-> causes'[c]]
    BY DEF ReleaseContended
  <2> QED BY <2>1, <2>2
<1>7. ASSUME NEW c \in Cohort(s)
      PROVE  /\ unpaid[c] <= causes'[c].attempts /\ causes'[c].attempts < Budget
  <2>1. causes[c].attempts \in Int /\ Budget \in Int /\ unpaid[c] \in Int
        /\ causes[c].attempts <= Budget /\ unpaid[c] < causes[c].attempts
    BY <1>2, ScanAssumption DEF CauseInv, CauseRows
  <2> QED BY <2>1, <1>4
<1>8. ASSUME NEW c \in Cohort(s)
      PROVE  /\ causes'[c].project = causes[c].project
             /\ causes'[c].state \in {"READY", "COMPLETED", "BLOCKED"}
             /\ unpaid[c] <= causes'[c].attempts /\ causes'[c].attempts <= Budget
             /\ causes'[c].state = "READY" /\ causes'[c].claimed = 0
                  => causes'[c].attempts < Budget
  <2>1. causes'[c].attempts \in Int /\ Budget \in Int
    BY <1>4, ScanAssumption DEF CauseRows
  <2> QED BY <1>4, <1>7, <2>1
<1> QED BY <1>1, <1>3, <1>5, <1>6, <1>8, SettleKeeps

LEMMA ReleaseFailedKeeps == ASSUME IInv, NEW s \in Scanners, ReleaseFailed(s) PROVE IInv'
<1> DEFINE p == Project(s)
<1>1. Busy(s) /\ Live(s) /\ Return(s) /\ UNCHANGED <<config, order, dispatched, unpaid>>
      /\ CohortHolds(s)
  BY DEF ReleaseFailed, Busy, At
<1>2. p \in Projects /\ \A c \in Cohort(s) :
        /\ c \in Causes /\ causes[c] \in CauseRows /\ CauseInv(c)
        /\ causes[c].state = "READY" /\ causes[c].claimed # 0
  <2>1. scanner[s].generation # 0
    BY ScanAssumption DEF IInv, TypeOK, ScanRecords
  <2> QED BY <2>1, <1>1, CohortFacts DEF IInv, CohortHolds
<1>3. policy' \in [Projects -> PolicyRows]
      /\ \A q \in Projects : /\ policy'[q].generation = policy[q].generation
                             /\ policy'[q].enabled = policy[q].enabled
  BY <1>2, ScanAssumption, ZenonT(40) DEF ReleaseFailed, IInv, TypeOK, PolicyRows
<1>4. ASSUME NEW c \in Cohort(s)
      PROVE  /\ causes'[c] \in CauseRows /\ causes'[c].project = causes[c].project
             /\ causes'[c].state \in {"READY", "BLOCKED"} /\ causes'[c].claimed # 0
             /\ causes'[c].attempts = causes[c].attempts
  <2>1. causes'[c] = Failed(causes[c])
    BY <1>2 DEF ReleaseFailed
  <2> QED BY <2>1, <1>2, FailedEffect DEF Unchanged
<1>5. \A c \in Causes \ Cohort(s) : causes'[c] = causes[c]
  BY DEF ReleaseFailed
<1>6. causes' \in [Causes -> CauseRows]
  <2>1. \A c \in Causes : causes'[c] \in CauseRows
    BY <1>4, <1>5 DEF IInv, TypeOK
  <2>2. causes' = [c \in Causes |-> causes'[c]]
    BY DEF ReleaseFailed
  <2> QED BY <2>1, <2>2
<1>7. ASSUME NEW c \in Cohort(s)
      PROVE  /\ causes'[c].project = causes[c].project
             /\ causes'[c].state \in {"READY", "COMPLETED", "BLOCKED"}
             /\ unpaid[c] <= causes'[c].attempts /\ causes'[c].attempts <= Budget
             /\ causes'[c].state = "READY" /\ causes'[c].claimed = 0
                  => causes'[c].attempts < Budget
  BY <1>2, <1>4 DEF CauseInv
<1> QED BY <1>1, <1>3, <1>5, <1>6, <1>7, SettleKeeps

LEMMA CompleteFailsKeeps == ASSUME IInv, NEW s \in Scanners, CompleteFails(s) PROVE IInv'
<1>1. At(s, "complete") /\ ~scanner[s].contention
  BY DEF IInv, ScanInv, CompleteFails, Busy, At
<1>2. scanner' \in [Scanners -> ScanRecords]
  BY DEF CompleteFails, IInv, TypeOK, ScanRecords
<1>3. TypeOK'
  BY <1>2 DEF CompleteFails, IInv, TypeOK
<1>4. \A t \in Scanners :
        /\ scanner'[t].project = scanner[t].project
        /\ scanner'[t].generation = scanner[t].generation
        /\ scanner'[t].cohort = scanner[t].cohort
        /\ scanner'[t].contention = scanner[t].contention
        /\ scanner'[t].step = "complete" => scanner[t].step = "complete"
        /\ scanner'[t].step # "idle" <=> scanner[t].step # "idle"
  BY <1>1 DEF CompleteFails, IInv, TypeOK, ScanRecords, At
<1>5. UNCHANGED <<policy, causes, unpaid>>
  BY DEF CompleteFails
<1>6. \A c \in Causes : CauseInv(c)'
  BY <1>5 DEF IInv, CauseInv
<1>7. Distinct'
  BY <1>4 DEF IInv, Distinct, Busy, At, Project
<1>8. ASSUME NEW t \in Scanners PROVE ScanInv(t)'
  <2>1. ScanInv(t)
    BY DEF IInv
  <2> QED BY <2>1, <1>4, <1>5 DEF ScanInv, Busy, At, Cohort, Project, Leading, CohortHolds
<1> QED BY <1>3, <1>6, <1>7, <1>8 DEF IInv

LEMMA CompleteContendedKeeps == ASSUME IInv, NEW s \in Scanners, CompleteContended(s) PROVE IInv'
<1>1. Busy(s) /\ Live(s) /\ Leading(s)
  BY DEF CompleteContended, Busy, At, Live, Leading
<1>2. Cohort(s) \subseteq Causes
  BY <1>1, CohortFacts
<1>3. scanner' \in [Scanners -> ScanRecords]
  BY ZenonT(40) DEF CompleteContended, IInv, TypeOK, ScanRecords
<1>4. \A c \in Causes : unpaid'[c] = IF c \in Cohort(s) THEN unpaid[c] - 1 ELSE unpaid[c]
  BY DEF CompleteContended
<1>5. unpaid' \in [Causes -> Int]
  BY DEF CompleteContended, IInv, TypeOK
<1>6. TypeOK'
  BY <1>3, <1>5 DEF CompleteContended, IInv, TypeOK
<1>7. UNCHANGED <<policy, causes>>
  BY DEF CompleteContended
<1>8. ASSUME NEW c \in Causes PROVE CauseInv(c)' /\ unpaid'[c] <= unpaid[c]
  <2>1. causes[c].attempts \in Int /\ unpaid[c] \in Int /\ CauseInv(c)
    BY DEF IInv, TypeOK, CauseRows
  <2>2. unpaid'[c] \in Int /\ unpaid'[c] <= unpaid[c]
    BY <2>1, <1>4
  <2> QED BY <2>1, <2>2, <1>7 DEF CauseInv
<1>9. \A t \in Scanners :
        /\ scanner'[t].project = scanner[t].project
        /\ scanner'[t].generation = scanner[t].generation
        /\ scanner'[t].cohort = scanner[t].cohort
        /\ scanner'[t].step # "idle" <=> scanner[t].step # "idle"
        /\ t # s => scanner'[t] = scanner[t]
  BY <1>1 DEF CompleteContended, IInv, TypeOK, ScanRecords, Busy, At
<1>10. Distinct'
  BY <1>9 DEF IInv, Distinct, Busy, At, Project
<1>11. ScanInv(s)'
  <2>1. ScanInv(s) /\ scanner'[s].step = "release"
    BY DEF IInv, CompleteContended, TypeOK, ScanRecords
  <2>2. \A c \in Cohort(s) : unpaid'[c] < causes[c].attempts
    <3>1. ASSUME NEW c \in Cohort(s) PROVE unpaid'[c] < causes[c].attempts
      <4>1. causes[c].attempts \in Int /\ unpaid[c] \in Int /\ unpaid[c] <= causes[c].attempts
        BY <1>2 DEF IInv, TypeOK, CauseRows, CauseInv
      <4> QED BY <4>1, <1>2, <1>4
    <3> QED BY <3>1
  <2> QED BY <2>1, <2>2, <1>1, <1>7, <1>9 DEF ScanInv, Busy, At, Cohort, Project, Leading, CohortHolds
<1>12. ASSUME NEW t \in Scanners \ {s} PROVE ScanInv(t)'
  <2>1. \A c \in Cohort(s) : causes[c].state # "ABSENT"
    BY <1>1 DEF IInv, ScanInv
  <2> QED BY <2>1, <1>1, <1>4, <1>7, <1>9, OthersUndisturbed
<1> QED BY <1>6, <1>8, <1>10, <1>11, <1>12 DEF IInv

LEMMA EnqueueKeeps ==
  ASSUME IInv, NEW S \in SUBSET Projects, NEW rows \in [S -> Causes],
         EnqueueConnectorReassessments(rows)
  PROVE  IInv'
<1> DEFINE taken == {rows[p] : p \in DOMAIN rows}
           born == [NoCause EXCEPT !.state = "READY", !.config = config]
<1>1. \A c \in taken : c \in Causes /\ causes[c].state = "ABSENT"
  BY ZenonT(40) DEF EnqueueConnectorReassessments
<1>2. ASSUME NEW c \in taken
      PROVE  \E p \in Projects : policy[p].enabled /\ causes'[c] = [born EXCEPT !.project = p]
  <2>1. PICK p \in DOMAIN rows : p = CHOOSE q \in DOMAIN rows : rows[q] = c
    OBVIOUS
  <2>2. causes'[c] = [NoCause EXCEPT !.state = "READY", !.config = config, !.project = p]
    BY <1>1, <2>1 DEF EnqueueConnectorReassessments
  <2>3. p \in Projects /\ policy[p].enabled
    BY DEF EnqueueConnectorReassessments
  <2> QED BY <2>2, <2>3 DEF NoCause
<1>3. born \in CauseRows /\ born.state = "READY" /\ born.attempts = 0
  BY IdleTypes DEF IInv, TypeOK, CauseRows, CauseStates, NoCause
<1>4. \A c \in Causes \ taken : causes'[c] = causes[c]
  BY DEF EnqueueConnectorReassessments
<1>5. UNCHANGED <<policy, config, order, dispatched, scanner, unpaid>>
  BY DEF EnqueueConnectorReassessments
<1> HIDE DEF taken, born
<1>6. ASSUME NEW c \in taken
      PROVE  /\ causes'[c] \in CauseRows /\ causes'[c].state = "READY"
             /\ causes'[c].attempts = 0 /\ policy[causes'[c].project].enabled
  <2>1. PICK p \in Projects : policy[p].enabled /\ causes'[c] = [born EXCEPT !.project = p]
    BY <1>2
  <2>2. [born EXCEPT !.project = p] \in CauseRows
    BY <1>3 DEF CauseRows
  <2>3. /\ causes'[c].project = p /\ causes'[c].state = "READY"
        /\ causes'[c].attempts = 0
    BY <2>1, <1>3 DEF CauseRows
  <2> QED BY <2>1, <2>2, <2>3
<1>7. TypeOK'
  <2>1. \A c \in Causes : causes'[c] \in CauseRows
    BY <1>4, <1>6 DEF IInv, TypeOK
  <2>2. causes' = [c \in Causes |-> causes'[c]]
    BY DEF EnqueueConnectorReassessments
  <2>3. causes' \in [Causes -> CauseRows]
    BY <2>1, <2>2
  <2> QED BY <2>3, <1>5 DEF IInv, TypeOK
<1>8. ASSUME NEW c \in Causes PROVE CauseInv(c)'
  <2>1. CauseInv(c) /\ Budget \in Nat \ {0}
    BY ScanAssumption DEF IInv
  <2>2. CASE c \in taken
    BY <2>1, <2>2, <1>1, <1>5, <1>6 DEF CauseInv
  <2>3. CASE c \notin taken
    BY <2>1, <2>3, <1>4, <1>5 DEF CauseInv
  <2> QED BY <2>2, <2>3
<1>9. ASSUME NEW t \in Scanners PROVE ScanInv(t)'
  <2>1. \A c \in Causes : causes[c].state # "ABSENT" => causes'[c] = causes[c]
    BY <1>1, <1>4
  <2>2. Busy(t) => \A c \in Cohort(t) : c \in Causes /\ causes[c].state # "ABSENT"
    BY DEF IInv, ScanInv, TypeOK, ScanRecords, Cohort
  <2>3. Leading(t)' => Leading(t)
    BY <1>5 DEF Leading, Project
  <2>4. scanner'[t] = scanner[t] /\ unpaid' = unpaid
    BY <1>5
  <2> QED BY <2>1, <2>2, <2>3, <2>4, ScanKept
<1>10. Distinct'
  BY <1>5 DEF IInv, Distinct, Busy, At, Project
<1> QED BY <1>7, <1>8, <1>9, <1>10 DEF IInv

LEMMA EnablePolicyKeeps == ASSUME IInv, NEW p \in Projects, EnablePolicy(p) PROVE IInv'
<1>1. UNCHANGED <<causes, config, order, dispatched, scanner, unpaid>>
  BY DEF EnablePolicy
<1>2. policy' \in [Projects -> PolicyRows]
  BY PolicyTypes DEF EnablePolicy, IInv, TypeOK
<1>3. \A q \in Projects : /\ policy'[q].generation = policy[q].generation
                          /\ policy[q].enabled => policy'[q].enabled
  BY DEF EnablePolicy, IInv, TypeOK, PolicyRows
<1>4. TypeOK'
  BY <1>1, <1>2 DEF IInv, TypeOK
<1>5. ASSUME NEW c \in Causes PROVE CauseInv(c)'
  <2>1. CauseInv(c) /\ causes[c].project \in Projects
    BY DEF IInv, TypeOK, CauseRows
  <2> QED BY <2>1, <1>1, <1>3 DEF CauseInv
<1>6. ASSUME NEW t \in Scanners PROVE ScanInv(t)'
  <2>1. Project(t) \in Projects
    BY DEF IInv, TypeOK, ScanRecords, Project
  <2>2. Leading(t)' => Leading(t)
    BY <2>1, <1>1, <1>3 DEF Leading, Project
  <2> QED BY <1>1, <2>2, ScanKept
<1>7. Distinct'
  BY <1>1 DEF IInv, Distinct, Busy, At, Project
<1> QED BY <1>4, <1>5, <1>6, <1>7 DEF IInv

LEMMA DisablePolicyKeeps == ASSUME IInv, NEW p \in Projects, DisablePolicy(p) PROVE IInv'
<1> DEFINE g == NextGeneration(p)
<1>1. UNCHANGED <<config, order, dispatched, scanner, unpaid>>
  BY DEF DisablePolicy
<1>2. g \in Fresh(p) /\ g \in Generations
  BY FreshTypes DEF DisablePolicy
<1>3. policy' \in [Projects -> PolicyRows]
      /\ policy'[p].generation = g
      /\ \A q \in Projects \ {p} : policy'[q] = policy[q]
  <2>1. [policy[p] EXCEPT !.enabled = FALSE, !.claim = 0, !.generation = g] \in PolicyRows
    BY <1>2, PolicyTypes DEF IInv, TypeOK
  <2> QED BY <2>1, <1>2 DEF DisablePolicy, IInv, TypeOK, PolicyRows
<1>4. Owned(p) \subseteq Causes /\ "POLICY_DISABLED" \in Reasons
  BY DEF Owned, Reasons
<1>5. ASSUME NEW c \in Owned(p)
      PROVE  /\ causes'[c] \in CauseRows /\ causes'[c].state = "BLOCKED"
             /\ causes'[c].project = causes[c].project /\ causes'[c].attempts = causes[c].attempts
  <2>1. causes'[c] = Blocked(causes[c], "POLICY_DISABLED") /\ causes[c] \in CauseRows
    BY <1>4 DEF DisablePolicy, IInv, TypeOK
  <2> QED BY <2>1, <1>4, BlockedEffect DEF Unchanged
<1>6. \A c \in Causes \ Owned(p) : causes'[c] = causes[c]
  BY DEF DisablePolicy
<1> HIDE DEF g
<1>7. TypeOK'
  <2>1. \A c \in Causes : causes'[c] \in CauseRows
    BY <1>5, <1>6 DEF IInv, TypeOK
  <2>2. causes' = [c \in Causes |-> causes'[c]]
    BY DEF DisablePolicy
  <2>3. causes' \in [Causes -> CauseRows]
    BY <2>1, <2>2
  <2> QED BY <2>3, <1>1, <1>3 DEF IInv, TypeOK
<1>8. ASSUME NEW c \in Causes PROVE CauseInv(c)'
  <2>1. CauseInv(c) /\ causes[c].project \in Projects
    BY DEF IInv, TypeOK, CauseRows
  <2>2. CASE c \in Owned(p)
    BY <2>1, <2>2, <1>1, <1>5 DEF CauseInv, Owned
  <2>3. CASE c \notin Owned(p)
    BY <2>1, <2>3, <1>1, <1>3, <1>6 DEF CauseInv, Owned
  <2> QED BY <2>2, <2>3
<1>9. ASSUME NEW t \in Scanners PROVE ScanInv(t)'
  <2>1. Busy(t) /\ Project(t) = p => scanner[t].generation # g
    BY <1>2 DEF Fresh, Busy
  <2>2. Project(t) \in Projects
    BY DEF IInv, TypeOK, ScanRecords, Project
  <2>3. Busy(t) /\ Leading(t)' => Project(t) # p /\ Leading(t)
    BY <2>1, <2>2, <1>1, <1>3 DEF Leading, Project
  <2>4. \A c \in Causes : causes[c].project # p => causes'[c] = causes[c]
    BY <1>6 DEF Owned
  <2>5. Busy(t) => \A c \in Cohort(t) : c \in Causes /\ causes[c].project = Project(t)
    BY DEF IInv, ScanInv, TypeOK, ScanRecords, Cohort
  <2>6. \A c \in Causes : causes[c].state # "ABSENT" =>
          causes'[c].state # "ABSENT" /\ causes'[c].project = causes[c].project
    BY <1>5, <1>6
  <2> QED BY <1>1, <2>3, <2>4, <2>5, <2>6, ScanKept
<1>10. Distinct'
  BY <1>1 DEF IInv, Distinct, Busy, At, Project
<1> QED BY <1>7, <1>8, <1>9, <1>10 DEF IInv

LEMMA RetryReassessmentKeeps ==
  ASSUME IInv, NEW c \in Causes, RetryReassessment(c) PROVE IInv'
<1>1. UNCHANGED <<policy, config, order, dispatched, scanner>>
  BY DEF RetryReassessment
<1>2. causes[c] \in CauseRows /\ causes[c].state = "BLOCKED"
      /\ policy[causes[c].project].enabled
  BY DEF RetryReassessment, IInv, TypeOK
<1>3. causes'[c] = Recovered(causes[c]) /\ unpaid'[c] = 0
  BY DEF RetryReassessment, IInv, TypeOK
<1>4. /\ causes'[c] \in CauseRows /\ causes'[c].project = causes[c].project
      /\ causes'[c].state = "READY" /\ causes'[c].attempts = 0 /\ causes'[c].claimed = 0
  BY <1>2, <1>3, RecoveredEffect
<1>5. \A d \in Causes \ {c} : causes'[d] = causes[d] /\ unpaid'[d] = unpaid[d]
  BY DEF RetryReassessment, IInv, TypeOK
<1>6. TypeOK'
  <2>1. causes' \in [Causes -> CauseRows]
    BY <1>3, <1>4 DEF RetryReassessment, IInv, TypeOK
  <2>2. unpaid' \in [Causes -> Int]
    BY DEF RetryReassessment, IInv, TypeOK
  <2> QED BY <2>1, <2>2, <1>1 DEF IInv, TypeOK
<1>7. ASSUME NEW d \in Causes PROVE CauseInv(d)'
  <2>1. CauseInv(d) /\ Budget \in Nat \ {0}
    BY ScanAssumption DEF IInv
  <2>2. CASE d = c
    BY <2>1, <2>2, <1>1, <1>2, <1>3, <1>4 DEF CauseInv
  <2>3. CASE d # c
    BY <2>1, <2>3, <1>1, <1>5 DEF CauseInv
  <2> QED BY <2>2, <2>3
<1>8. ASSUME NEW t \in Scanners PROVE ScanInv(t)'
  <2>1. Leading(t)' => Leading(t)
    BY <1>1 DEF Leading, Project
  <2>2. Busy(t) /\ Leading(t) => c \notin Cohort(t)
    BY <1>2 DEF IInv, ScanInv, CohortHolds
  <2>3. Busy(t) => Cohort(t) \subseteq Causes
    BY DEF IInv, TypeOK, ScanRecords, Cohort
  <2>4. \A d \in Causes : causes[d].state # "ABSENT" =>
          causes'[d].state # "ABSENT" /\ causes'[d].project = causes[d].project
    BY <1>4, <1>5
  <2> QED BY <1>1, <1>5, <2>1, <2>2, <2>3, <2>4, ScanKept
<1>9. Distinct'
  BY <1>1 DEF IInv, Distinct, Busy, At, Project
<1> QED BY <1>6, <1>7, <1>8, <1>9 DEF IInv

LEMMA TickKeeps == ASSUME IInv, Tick PROVE IInv'
<1>1. UNCHANGED <<config, order, scanner, unpaid>> /\ dispatched' \in BOOLEAN
  BY DEF Tick
<1>2. policy' \in [Projects -> PolicyRows]
  BY PolicyTypes DEF Tick, IInv, TypeOK
<1>3. \A q \in Projects : /\ policy'[q].generation = policy[q].generation
                          /\ policy'[q].enabled = policy[q].enabled
  BY DEF Tick, IInv, TypeOK, PolicyRows
<1>4. ASSUME NEW c \in Causes
      PROVE  /\ causes'[c] \in CauseRows /\ causes'[c].project = causes[c].project
             /\ causes'[c].state = causes[c].state /\ causes'[c].claimed = causes[c].claimed
             /\ causes'[c].attempts = causes[c].attempts
             /\ causes[c].available = 0 => causes'[c].available = 0
  <2>1. causes'[c] = Waited(causes[c]) /\ causes[c] \in CauseRows
    BY DEF Tick, IInv, TypeOK
  <2> QED BY <2>1, WaitedEffect DEF Unchanged, Less
<1>5. TypeOK'
  <2>1. causes' = [c \in Causes |-> causes'[c]]
    BY DEF Tick
  <2>2. causes' \in [Causes -> CauseRows]
    BY <2>1, <1>4
  <2> QED BY <2>2, <1>1, <1>2 DEF IInv, TypeOK
<1>6. ASSUME NEW c \in Causes PROVE CauseInv(c)'
  <2>1. CauseInv(c) /\ causes[c].project \in Projects
    BY DEF IInv, TypeOK, CauseRows
  <2> QED BY <2>1, <1>1, <1>3, <1>4 DEF CauseInv
<1>7. ASSUME NEW t \in Scanners PROVE ScanInv(t)'
  <2>1. Project(t) \in Projects /\ Cohort(t) \subseteq Causes
    BY DEF IInv, TypeOK, ScanRecords, Project, Cohort
  <2>2. Leading(t)' => Leading(t)
    BY <2>1, <1>1, <1>3 DEF Leading, Project
  <2> QED BY <1>1, <1>4, <2>1, <2>2, ScanKept
<1>8. Distinct'
  BY <1>1 DEF IInv, Distinct, Busy, At, Project
<1> QED BY <1>5, <1>6, <1>7, <1>8 DEF IInv

\* What changes nothing but the dispatch or the configuration.
LEMMA RestKeeps ==
  ASSUME IInv, UNCHANGED <<policy, causes, order, scanner, unpaid>>,
         config' \in Nat, dispatched' \in BOOLEAN
  PROVE  IInv'
<1>1. TypeOK'
  BY DEF IInv, TypeOK
<1>2. \A c \in Causes : CauseInv(c)'
  BY DEF IInv, CauseInv
<1>3. \A t \in Scanners : ScanInv(t)'
  BY DEF IInv, ScanInv, Busy, At, Cohort, Project, Leading, CohortHolds
<1>4. Distinct'
  BY DEF IInv, Distinct, Busy, At, Project
<1> QED BY <1>1, <1>2, <1>3, <1>4 DEF IInv

LEMMA InitHolds == Init => IInv
<1> SUFFICES ASSUME Init PROVE IInv
  OBVIOUS
<1>1. \A p \in Projects : policy[p] \in PolicyRows
  <2>1. (CHOOSE g \in Generations : TRUE) \in Generations
    BY ScanAssumption
  <2> QED BY <2>1 DEF Init, PolicyRows
<1>2. TypeOK
  <2>1. policy \in [Projects -> PolicyRows]
    <3>1. policy = [p \in Projects |-> policy[p]]
      BY DEF Init
    <3> QED BY <3>1, <1>1
  <2>2. causes \in [Causes -> CauseRows] /\ scanner \in [Scanners -> ScanRecords]
    BY IdleTypes DEF Init
  <2>3. config \in Nat /\ unpaid \in [Causes -> Int]
    BY DEF Init
  <2>4. order \in [Ranks -> Projects] /\ dispatched \in BOOLEAN
    BY DEF Init
  <2> QED BY <2>1, <2>2, <2>3, <2>4 DEF TypeOK
<1>3. \A c \in Causes : CauseInv(c)
  BY ScanAssumption DEF Init, CauseInv, NoCause
<1>4. \A s \in Scanners : ~Busy(s)
  BY DEF Init, Busy, At, Idle
<1> QED BY <1>2, <1>3, <1>4 DEF IInv, ScanInv, Distinct

LEMMA NextKeeps == ASSUME IInv, [Next]_vars PROVE IInv'
<1>1. ASSUME NEW s \in Scanners, Step(s) PROVE IInv'
  <2>1. ASSUME NEW n \in Ranks, Claim(s, n) PROVE IInv'
    BY <2>1, ClaimKeeps
  <2>2. CASE ClaimNothing(s)
    BY <2>2, RestKeeps DEF ClaimNothing, IInv, TypeOK
  <2>3. CASE LoseClaim(s)
    BY <2>3, ReturnKeeps DEF LoseClaim
  <2> QED BY <1>1, <2>1, <2>2, <2>3, CompleteKeeps, CompleteFailsKeeps, CompleteContendedKeeps,
             ReleaseContendedKeeps, ReleaseFailedKeeps DEF Step
<1>2. ASSUME NEW s \in Scanners, Stop(s) PROVE IInv'
  BY <1>2, ReturnKeeps DEF Stop
<1>3. CASE Environment
  <2>1. CASE Reconfigure
    BY <2>1, RestKeeps DEF Reconfigure, IInv, TypeOK
  <2>2. CASE Redispatch
    BY <2>2, RestKeeps DEF Redispatch, IInv, TypeOK
  <2> QED BY <1>3, <2>1, <2>2, EnqueueKeeps, EnablePolicyKeeps, DisablePolicyKeeps,
             RetryReassessmentKeeps, TickKeeps DEF Environment
<1>4. CASE UNCHANGED vars
  BY <1>4, RestKeeps DEF vars, IInv, TypeOK
<1> QED BY <1>1, <1>2, <1>3, <1>4 DEF Next

\* IInv, the strengthening that makes the properties below inductive: a scan
\* whose generation is the newest holds its causes, and no two scans share one.
THEOREM ScanInvariant == Spec => []IInv
<1>1. Init => IInv
  BY InitHolds
<1>2. IInv /\ [Next]_vars => IInv'
  BY NextKeeps
<1> QED BY <1>1, <1>2, PTL DEF Spec

-----------------------------------------------------------------------------
(* The properties *)

\* Every variable has its type: generations, attempts and the times left.
THEOREM TypeCorrect == Spec => []TypeOK
<1>1. IInv => TypeOK
  BY DEF IInv
<1> QED BY <1>1, ScanInvariant, PTL

\* A live claim still holds every cause it claimed, so the cohort check of
\* complete and release never gives a claim up on its own.
THEOREM ClaimsKeepTheirCauses == Spec => []CohortIntact
<1>1. IInv => CohortIntact
  BY DEF IInv, CohortIntact, ScanInv, Live, Leading, Busy, Project
<1> QED BY <1>1, ScanInvariant, PTL

\* At most one scan of a project has a live claim (claim, project-update-scan.ts).
THEOREM ClaimsExclude == Spec => []OneLiveClaim
<1>1. IInv => OneLiveClaim
  BY DEF IInv, OneLiveClaim, Distinct, Live, Busy, Project
<1> QED BY <1>1, ScanInvariant, PTL

\* No cause waits under a disabled policy (blockDisabledPolicyCauses).
THEOREM DisabledSettles == Spec => []NothingWaitsWhenDisabled
<1>1. IInv => NothingWaitsWhenDisabled
  BY DEF IInv, NothingWaitsWhenDisabled, CauseInv
<1> QED BY <1>1, ScanInvariant, PTL

\* Between two recoveries at most Budget claims of a cause end other than by
\* contention, whatever stops and lapses.
THEOREM AttemptsStayBounded == Spec => []AttemptsBounded
<1>1. IInv => AttemptsBounded
  <2> SUFFICES ASSUME IInv, NEW c \in Causes PROVE unpaid[c] <= Budget
    BY DEF AttemptsBounded
  <2>1. CauseInv(c) /\ causes[c].attempts \in Int /\ unpaid[c] \in Int /\ Budget \in Int
    BY ScanAssumption DEF IInv, TypeOK, CauseRows
  <2> QED BY <2>1 DEF CauseInv
<1> QED BY <1>1, ScanInvariant, PTL

-----------------------------------------------------------------------------
(* The row guard of the database *)

\* The guard has nothing to object to in what happens to c.
Accepted(c) ==
  [causes[c] EXCEPT !.available = 0] # [causes'[c] EXCEPT !.available = 0]
    => RowGuard(causes[c], causes'[c])

LEMMA CompleteAccepted ==
  ASSUME IInv, NEW s \in Scanners, Complete(s), NEW c \in Causes PROVE Accepted(c)
<1>1. Busy(s) /\ Live(s)
  BY DEF Complete, Busy, At
<1>2. CASE c \notin Cohort(s)
  BY <1>2 DEF Complete, Accepted
<1>3. CASE c \in Cohort(s)
  <2>1. causes[c] \in CauseRows /\ causes[c].state = "READY" /\ UnderClaim(causes[c])
    BY <1>1, <1>3, CohortFacts DEF UnderClaim, Live, CohortHolds
  <2>2. CASE SourceStillMatches(c)
    <3>1. causes'[c] = Answered(causes[c])
      BY <1>3, <2>2 DEF Complete
    <3> QED BY <3>1, <2>1, AnsweredEffect DEF Accepted, RowGuard, GuardCompleted
  <2>3. CASE ~SourceStillMatches(c)
    <3>1. causes'[c] = Blocked(causes[c], "SOURCE_SCOPE_CHANGED")
          /\ "SOURCE_SCOPE_CHANGED" \in Reasons
      BY <1>3, <2>3 DEF Complete, Reasons
    <3>2. causes[c].config # config
      BY <2>3 DEF SourceStillMatches
    <3> QED BY <3>1, <3>2, <2>1, BlockedEffect DEF Accepted, RowGuard, GuardBlocked
  <2> QED BY <2>2, <2>3
<1> QED BY <1>2, <1>3

LEMMA ReleaseContendedAccepted ==
  ASSUME IInv, NEW s \in Scanners, ReleaseContended(s), NEW c \in Causes PROVE Accepted(c)
<1>1. Busy(s) /\ Live(s)
  BY DEF ReleaseContended, Busy, At
<1>2. CASE c \notin Cohort(s)
  BY <1>2 DEF ReleaseContended, Accepted
<1>3. CASE c \in Cohort(s)
  <2>1. /\ causes[c] \in CauseRows /\ causes[c].state = "READY" /\ UnderClaim(causes[c])
        /\ causes[c].attempts >= 1 /\ causes[c].available = 0
    BY <1>1, <1>3, CohortFacts DEF UnderClaim, Live, CohortHolds
  <2>2. causes'[c] = Refunded(causes[c])
    BY <1>3 DEF ReleaseContended
  <2> QED BY <2>1, <2>2, RefundedEffect, ScanAssumption DEF Accepted, RowGuard, GuardContention
<1> QED BY <1>2, <1>3

LEMMA ReleaseFailedAccepted ==
  ASSUME IInv, NEW s \in Scanners, ReleaseFailed(s), NEW c \in Causes PROVE Accepted(c)
<1>1. Busy(s) /\ Live(s)
  BY DEF ReleaseFailed, Busy, At
<1>2. CASE c \notin Cohort(s)
  BY <1>2 DEF ReleaseFailed, Accepted
<1>3. CASE c \in Cohort(s)
  <2>1. causes[c] \in CauseRows /\ causes[c].state = "READY" /\ UnderClaim(causes[c])
    BY <1>1, <1>3, CohortFacts DEF UnderClaim, Live, CohortHolds
  <2>2. causes'[c] = Failed(causes[c])
    BY <1>3 DEF ReleaseFailed
  <2> QED BY <2>1, <2>2, FailedEffect DEF Accepted, RowGuard, GuardFailed
<1> QED BY <1>2, <1>3

LEMMA ClaimAccepted ==
  ASSUME IInv, NEW s \in Scanners, NEW n \in Ranks, Claim(s, n), NEW c \in Causes
  PROVE  Accepted(c)
<1> DEFINE p == order[n]
           g == NextGeneration(p)
<1>1. p \in Projects /\ policy[p] \in PolicyRows /\ causes[c] \in CauseRows /\ CauseInv(c)
  BY DEF IInv, TypeOK
<1>2. g \in Fresh(p) /\ g \in Generations
  BY <1>1, FreshTypes DEF Claim
<1>3. policy[p].claim = 0 /\ policy'[p].generation = g /\ policy'[p].claim = LeaseTicks
  BY <1>1 DEF Claim, Eligible, IInv, TypeOK, PolicyRows
<1>4. Exhausted(p) \subseteq Candidates(p) /\ Candidates(p) \subseteq Owned(p)
  BY DEF Candidates, Exhausted, Available
<1>5. CASE c \in Exhausted(p)
  <2>1. causes'[c] = Blocked(causes[c], "RETRY_EXHAUSTED") /\ "RETRY_EXHAUSTED" \in Reasons
    BY <1>5 DEF Claim, Reasons
  <2>2. causes[c].state = "READY" /\ causes[c].project = p /\ causes[c].attempts = Budget
    BY <1>4, <1>5 DEF Exhausted, Owned
  <2>3. causes[c].claimed # 0 /\ ~UnderClaim(causes[c])
    BY <2>2, <1>1, <1>3, ScanAssumption DEF CauseInv, UnderClaim
  <2> QED BY <2>1, <2>2, <2>3, <1>1, BlockedEffect DEF Accepted, RowGuard, GuardBlocked
<1>6. CASE c \in Candidates(p) \ Exhausted(p)
  <2>1. causes'[c] = Charged(causes[c], g)
    BY <1>6 DEF Claim
  <2>2. /\ causes[c].state = "READY" /\ causes[c].project = p /\ causes[c].available = 0
        /\ causes[c].attempts # Budget
    BY <1>6 DEF Exhausted, Candidates, Available, Owned
  <2>3. causes[c].claimed # g
    BY <1>2, <1>4, <1>6 DEF Fresh
  <2>4. causes[c].attempts < Budget
    BY <1>1, <2>2, ScanAssumption DEF CauseInv, CauseRows
  <2> HIDE DEF g
  <2> QED BY <2>1, <2>2, <2>3, <2>4, <1>1, <1>2, <1>3, ChargedEffect, ScanAssumption
          DEF Accepted, RowGuard, GuardClaimed
<1>7. CASE c \notin Candidates(p)
  BY <1>4, <1>7 DEF Claim, Accepted
<1> QED BY <1>5, <1>6, <1>7

LEMMA EnqueueAccepted ==
  ASSUME IInv, NEW S \in SUBSET Projects, NEW rows \in [S -> Causes],
         EnqueueConnectorReassessments(rows), NEW c \in Causes
  PROVE  Accepted(c)
<1> DEFINE taken == {rows[q] : q \in DOMAIN rows}
<1>1. CASE c \notin taken
  BY <1>1 DEF EnqueueConnectorReassessments, Accepted
<1>2. CASE c \in taken
  <2>1. PICK q \in DOMAIN rows : q = CHOOSE r \in DOMAIN rows : rows[r] = c
    BY <1>2
  <2>2. causes'[c] = [NoCause EXCEPT !.state = "READY", !.config = config, !.project = q]
    BY <1>2, <2>1 DEF EnqueueConnectorReassessments
  <2>3. policy[q].enabled /\ causes[c].state = "ABSENT"
    BY <1>2 DEF EnqueueConnectorReassessments
  <2> QED BY <2>2, <2>3 DEF NoCause, Accepted, RowGuard, GuardBirth
<1> QED BY <1>1, <1>2

LEMMA DisablePolicyAccepted ==
  ASSUME IInv, NEW p \in Projects, DisablePolicy(p), NEW c \in Causes PROVE Accepted(c)
<1>1. CASE c \notin Owned(p)
  BY <1>1 DEF DisablePolicy, Accepted
<1>2. CASE c \in Owned(p)
  <2>1. causes'[c] = Blocked(causes[c], "POLICY_DISABLED") /\ "POLICY_DISABLED" \in Reasons
    BY <1>2 DEF DisablePolicy, Reasons
  <2>2. causes[c] \in CauseRows /\ causes[c].state = "READY" /\ causes[c].project = p
    BY <1>2 DEF Owned, IInv, TypeOK
  <2>3. ~policy'[p].enabled
    BY DEF DisablePolicy, IInv, TypeOK, PolicyRows
  <2> QED BY <2>1, <2>2, <2>3, BlockedEffect DEF Accepted, RowGuard, GuardBlocked
<1> QED BY <1>1, <1>2

LEMMA RetryReassessmentAccepted ==
  ASSUME IInv, NEW d \in Causes, RetryReassessment(d), NEW c \in Causes PROVE Accepted(c)
<1>1. CASE c # d
  BY <1>1 DEF RetryReassessment, Accepted, IInv, TypeOK
<1>2. CASE c = d
  <2>1. causes'[c] = Recovered(causes[c]) /\ causes[c] \in CauseRows /\ causes[c].state = "BLOCKED"
    BY <1>2 DEF RetryReassessment, IInv, TypeOK
  <2> QED BY <2>1, RecoveredEffect DEF Accepted, RowGuard, GuardRetried
<1> QED BY <1>1, <1>2

LEMMA TickAccepted == ASSUME IInv, Tick, NEW c \in Causes PROVE Accepted(c)
<1>1. causes'[c] = [causes[c] EXCEPT !.available = Less(@)] /\ causes[c] \in CauseRows
  BY DEF Tick, Waited, IInv, TypeOK
<1>2. [causes'[c] EXCEPT !.available = 0] = [causes[c] EXCEPT !.available = 0]
  BY <1>1 DEF CauseRows
<1> QED BY <1>2 DEF Accepted

LEMMA NextAccepted == ASSUME IInv, [Next]_vars, NEW c \in Causes PROVE Accepted(c)
<1>1. CASE UNCHANGED causes
  BY <1>1 DEF Accepted
<1>2. ASSUME NEW s \in Scanners, Step(s) PROVE Accepted(c)
  <2>1. CASE ClaimNothing(s) \/ LoseClaim(s) \/ CompleteFails(s) \/ CompleteContended(s)
    BY <2>1, <1>1 DEF ClaimNothing, LoseClaim, CompleteFails, CompleteContended
  <2> QED BY <1>2, <2>1, ClaimAccepted, CompleteAccepted, ReleaseContendedAccepted,
             ReleaseFailedAccepted DEF Step
<1>3. ASSUME NEW s \in Scanners, Stop(s) PROVE Accepted(c)
  BY <1>3, <1>1 DEF Stop
<1>4. CASE Environment
  <2>1. ASSUME NEW p \in Projects, EnablePolicy(p) PROVE Accepted(c)
    BY <2>1, <1>1 DEF EnablePolicy
  <2>2. CASE Reconfigure \/ Redispatch
    BY <2>2, <1>1 DEF Reconfigure, Redispatch
  <2> QED BY <1>4, <2>1, <2>2, EnqueueAccepted, DisablePolicyAccepted,
             RetryReassessmentAccepted, TickAccepted DEF Environment
<1>5. CASE UNCHANGED vars
  BY <1>5, <1>1 DEF vars
<1> QED BY <1>2, <1>3, <1>4, <1>5 DEF Next

\* The trigger on the causes (guard_ingestion_project_reassessment) accepts
\* every update of the coordinator and of the administrator's operations.
THEOREM GuardNeverObjects == Spec => RowGuardAccepts
<1>1. IInv /\ [Next]_vars =>
        \A c \in Causes :
          [causes[c] EXCEPT !.available = 0] # [causes'[c] EXCEPT !.available = 0]
            => RowGuard(causes[c], causes'[c])
  BY NextAccepted DEF Accepted
<1> QED BY <1>1, ScanInvariant, PTL DEF Spec, RowGuardAccepts

-----------------------------------------------------------------------------
(* The refinement *)

OutboxEnabled == {p \in Projects : policy[p].enabled}
OutboxStatus == [c \in Causes |-> Status(causes[c].state)]
OutboxScope == [c \in Causes |-> Scope(causes[c])]

LEMMA StatusValues ==
  ASSUME NEW row \in CauseRows
  PROVE  /\ Status(row.state) = "waiting" <=> row.state = "READY"
         /\ Status(row.state) = "answered" <=> row.state = "COMPLETED"
         /\ Status(row.state) = "blocked" <=> row.state = "BLOCKED"
         /\ Status(row.state) = "absent" <=> row.state = "ABSENT"
BY DEF Status, CauseRows, CauseStates

\* A transaction that leaves the state and the scope of every cause alone, and
\* policies enabled as they are, is a stuttering step.
LEMMA StutterSteps ==
  ASSUME UNCHANGED config,
         \A q \in Projects : policy'[q].enabled = policy[q].enabled,
         \A c \in Causes : /\ causes'[c].state = causes[c].state
                           /\ causes'[c].project = causes[c].project
                           /\ causes'[c].config = causes[c].config
  PROVE  UNCHANGED Outbox!outboxVars
BY DEF Outbox!outboxVars, Scope

\* One that answers and blocks causes of an enabled project is an answer.
LEMMA AnswerSteps ==
  ASSUME IInv, UNCHANGED config, NEW p \in Projects, policy[p].enabled,
         \A q \in Projects : policy'[q].enabled = policy[q].enabled,
         NEW answered \in SUBSET Owned(p), NEW blocked \in SUBSET Owned(p),
         answered \cap blocked = {},
         \A c \in answered : SourceStillMatches(c) /\ causes'[c].state = "COMPLETED",
         \A c \in blocked : causes'[c].state = "BLOCKED",
         \A c \in Causes \ (answered \cup blocked) : causes'[c].state = causes[c].state,
         \A c \in Causes : causes'[c].project = causes[c].project
                           /\ causes'[c].config = causes[c].config
  PROVE  Outbox!OutboxNext
<1>1. answered \subseteq Causes /\ blocked \subseteq Causes
  BY DEF Owned
<1>2. \A c \in Causes : causes[c] \in CauseRows
  BY DEF IInv, TypeOK
<1>3. answered \cup blocked \subseteq Outbox!Waiting(p)
  BY <1>1, <1>2, StatusValues DEF Outbox!Waiting, Owned, Scope
<1>4. \A c \in answered : Outbox!Current(c)
  BY <1>1 DEF Outbox!Current, SourceStillMatches, Scope
<1>5. OutboxStatus' = [c \in Causes |-> IF c \in answered THEN "answered"
                                        ELSE IF c \in blocked THEN "blocked"
                                        ELSE OutboxStatus[c]]
  BY <1>1 DEF OutboxStatus, Status
<1>6. OutboxEnabled' = OutboxEnabled /\ OutboxScope' = OutboxScope
  BY DEF OutboxEnabled, OutboxScope, Scope
<1>7. p \in OutboxEnabled
  BY DEF OutboxEnabled
<1>8. Outbox!Answer(p, answered, blocked)
  BY <1>3, <1>4, <1>5, <1>6, <1>7 DEF Outbox!Answer, OutboxStatus, OutboxEnabled, OutboxScope
<1> QED BY <1>1, <1>8 DEF Outbox!OutboxNext

\* So is one that only blocks.
LEMMA BlockSteps ==
  ASSUME IInv, UNCHANGED config, NEW p \in Projects, policy[p].enabled,
         \A q \in Projects : policy'[q].enabled = policy[q].enabled,
         NEW blocked, blocked \subseteq Owned(p),
         \A c \in Causes : /\ causes'[c].project = causes[c].project
                           /\ causes'[c].config = causes[c].config
                           /\ causes'[c].state = IF c \in blocked THEN "BLOCKED"
                                                ELSE causes[c].state
  PROVE  Outbox!OutboxNext
<1>1. PICK none \in SUBSET Owned(p) : none = {}
  OBVIOUS
<1>2. none \cap blocked = {} /\ blocked \in SUBSET Owned(p) /\ blocked \subseteq Causes
  BY <1>1 DEF Owned
<1>3. \A c \in none : SourceStillMatches(c) /\ causes'[c].state = "COMPLETED"
  BY <1>1
<1>4. \A c \in blocked : causes'[c].state = "BLOCKED"
  BY <1>2
<1>5. \A c \in Causes \ (none \cup blocked) : causes'[c].state = causes[c].state
  OBVIOUS
<1>6. \A c \in Causes : causes'[c].project = causes[c].project
                        /\ causes'[c].config = causes[c].config
  OBVIOUS
<1>7. ASSUME NEW answered \in SUBSET Owned(p), answered = none PROVE Outbox!OutboxNext
  BY <1>2, <1>3, <1>4, <1>5, <1>6, <1>7, AnswerSteps
<1> QED BY <1>1, <1>7

LEMMA ClaimRefines ==
  ASSUME IInv, NEW s \in Scanners, NEW n \in Ranks, Claim(s, n) PROVE Outbox!OutboxNext
<1> DEFINE p == order[n]
           g == NextGeneration(p)
<1>1. p \in Projects /\ policy[p].enabled /\ UNCHANGED config
  BY DEF Claim, Eligible, IInv, TypeOK
<1>2. \A q \in Projects : policy'[q].enabled = policy[q].enabled
  BY <1>1 DEF Claim, IInv, TypeOK, PolicyRows
<1>3. Exhausted(p) \subseteq Owned(p) /\ Owned(p) \subseteq Causes
      /\ Exhausted(p) \subseteq Candidates(p)
  BY DEF Exhausted, Candidates, Available, Owned
<1>4. \A c \in Causes : causes[c] \in CauseRows
  BY DEF IInv, TypeOK
<1>5. ASSUME NEW c \in Causes
      PROVE  /\ causes'[c].project = causes[c].project /\ causes'[c].config = causes[c].config
             /\ causes'[c].state = IF c \in Exhausted(p) THEN "BLOCKED" ELSE causes[c].state
  <2>1. CASE c \in Exhausted(p)
    <3>1. causes'[c] = Blocked(causes[c], "RETRY_EXHAUSTED") /\ "RETRY_EXHAUSTED" \in Reasons
      BY <2>1 DEF Claim, Reasons
    <3> QED BY <3>1, <2>1, <1>4, BlockedEffect DEF Unchanged
  <2>2. CASE c \in Candidates(p) \ Exhausted(p)
    <3>1. causes'[c] = Charged(causes[c], g)
      BY <2>2 DEF Claim
    <3>2. g \in Generations
      BY <1>1, FreshTypes DEF Claim
    <3> HIDE DEF g
    <3> QED BY <3>1, <3>2, <2>2, <1>4, ChargedEffect DEF Unchanged
  <2>3. CASE c \notin Candidates(p)
    BY <2>3, <1>3 DEF Claim
  <2> QED BY <2>1, <2>2, <2>3
<1> HIDE DEF p
<1> QED BY <1>1, <1>2, <1>3, <1>5, BlockSteps

LEMMA CompleteRefines ==
  ASSUME IInv, NEW s \in Scanners, Complete(s) PROVE Outbox!OutboxNext
<1> DEFINE p == Project(s)
           valid == {c \in Cohort(s) : SourceStillMatches(c)}
           stale == Cohort(s) \ valid
<1>1. Busy(s) /\ Live(s) /\ UNCHANGED config
  BY DEF Complete, Busy, At
<1>2. p \in Projects /\ policy[p].enabled
  BY <1>1, CohortFacts DEF Live
<1>3. \A q \in Projects : policy'[q].enabled = policy[q].enabled
  BY <1>2 DEF Complete, IInv, TypeOK, PolicyRows
<1>4. \A c \in Cohort(s) : c \in Causes /\ causes[c] \in CauseRows /\ c \in Owned(p)
  BY <1>1, CohortFacts DEF Owned
<1>5. ASSUME NEW c \in valid
      PROVE  causes'[c].state = "COMPLETED" /\ Unchanged(causes[c], causes'[c])
  <2>1. causes'[c] = Answered(causes[c])
    BY <1>4 DEF Complete
  <2> QED BY <2>1, <1>4, AnsweredEffect
<1>6. ASSUME NEW c \in stale
      PROVE  causes'[c].state = "BLOCKED" /\ Unchanged(causes[c], causes'[c])
  <2>1. causes'[c] = Blocked(causes[c], "SOURCE_SCOPE_CHANGED")
        /\ "SOURCE_SCOPE_CHANGED" \in Reasons
    BY <1>4 DEF Complete, Reasons
  <2> QED BY <2>1, <1>4, BlockedEffect
<1>7. \A c \in Causes \ (valid \cup stale) : causes'[c] = causes[c]
  BY DEF Complete
<1>8. valid \subseteq Owned(p) /\ stale \subseteq Owned(p) /\ valid \cap stale = {}
      /\ \A c \in valid : SourceStillMatches(c)
  BY <1>4
<1> HIDE DEF p, valid, stale
<1>9. \A c \in Causes : causes'[c].project = causes[c].project
                        /\ causes'[c].config = causes[c].config
  BY <1>5, <1>6, <1>7 DEF Unchanged
<1>10. \A c \in valid : SourceStillMatches(c) /\ causes'[c].state = "COMPLETED"
  BY <1>5, <1>8
<1>11. \A c \in stale : causes'[c].state = "BLOCKED"
  BY <1>6
<1>12. \A c \in Causes \ (valid \cup stale) : causes'[c].state = causes[c].state
  BY <1>7
<1> QED BY <1>1, <1>2, <1>3, <1>8, <1>9, <1>10, <1>11, <1>12, AnswerSteps

LEMMA ReleaseContendedRefines ==
  ASSUME IInv, NEW s \in Scanners, ReleaseContended(s) PROVE UNCHANGED Outbox!outboxVars
<1>1. Busy(s) /\ Live(s) /\ UNCHANGED config
  BY DEF ReleaseContended, Busy, At
<1>2. \A q \in Projects : policy'[q].enabled = policy[q].enabled
  BY <1>1, CohortFacts DEF ReleaseContended, IInv, TypeOK, PolicyRows
<1>3. ASSUME NEW c \in Causes
      PROVE  /\ causes'[c].state = causes[c].state /\ causes'[c].project = causes[c].project
             /\ causes'[c].config = causes[c].config
  <2>1. CASE c \in Cohort(s)
    <3>1. causes'[c] = Refunded(causes[c])
      BY <2>1 DEF ReleaseContended
    <3> QED BY <3>1, <2>1, <1>1, CohortFacts, RefundedEffect DEF Unchanged
  <2>2. CASE c \notin Cohort(s)
    BY <2>2 DEF ReleaseContended
  <2> QED BY <2>1, <2>2
<1> QED BY <1>1, <1>2, <1>3, StutterSteps

LEMMA ReleaseFailedRefines ==
  ASSUME IInv, NEW s \in Scanners, ReleaseFailed(s) PROVE Outbox!OutboxNext
<1> DEFINE p == Project(s)
           spent == {c \in Cohort(s) : causes[c].attempts = Budget}
<1>1. Busy(s) /\ Live(s) /\ UNCHANGED config
  BY DEF ReleaseFailed, Busy, At
<1>2. p \in Projects /\ policy[p].enabled
  BY <1>1, CohortFacts DEF Live
<1>3. \A q \in Projects : policy'[q].enabled = policy[q].enabled
  BY <1>2 DEF ReleaseFailed, IInv, TypeOK, PolicyRows
<1>4. \A c \in Cohort(s) : c \in Causes /\ causes[c] \in CauseRows /\ c \in Owned(p)
                           /\ causes[c].state = "READY"
  BY <1>1, CohortFacts DEF Owned
<1>5. ASSUME NEW c \in Cohort(s)
      PROVE  /\ Unchanged(causes[c], causes'[c])
             /\ causes'[c].state = IF c \in spent THEN "BLOCKED" ELSE causes[c].state
  <2>1. causes'[c] = Failed(causes[c])
    BY <1>4 DEF ReleaseFailed
  <2> QED BY <2>1, <1>4, FailedEffect
<1>6. \A c \in Causes \ Cohort(s) : causes'[c] = causes[c]
  BY DEF ReleaseFailed
<1>7. spent \subseteq Owned(p) /\ spent \subseteq Cohort(s)
  BY <1>4
<1> HIDE DEF p, spent
<1>8. \A c \in Causes : /\ causes'[c].project = causes[c].project
                        /\ causes'[c].config = causes[c].config
                        /\ causes'[c].state = IF c \in spent THEN "BLOCKED"
                                             ELSE causes[c].state
  BY <1>5, <1>6, <1>7 DEF Unchanged
<1> QED BY <1>1, <1>2, <1>3, <1>7, <1>8, BlockSteps

LEMMA EnqueueRefines ==
  ASSUME IInv, NEW S \in SUBSET Projects, NEW rows \in [S -> Causes],
         EnqueueConnectorReassessments(rows)
  PROVE  Outbox!OutboxNext
<1> DEFINE taken == {rows[q] : q \in DOMAIN rows}
<1>1. \A c \in taken : c \in Causes /\ causes[c].state = "ABSENT"
  BY ZenonT(40) DEF EnqueueConnectorReassessments
<1>2. ASSUME NEW c \in taken
      PROVE  /\ causes'[c].state = "READY" /\ causes'[c].config = config
             /\ causes'[c].project \in OutboxEnabled
  <2>1. PICK q \in DOMAIN rows : q = CHOOSE r \in DOMAIN rows : rows[r] = c
    OBVIOUS
  <2>2. causes'[c] = [NoCause EXCEPT !.state = "READY", !.config = config, !.project = q]
    BY <1>1, <2>1 DEF EnqueueConnectorReassessments
  <2>3. q \in Projects /\ policy[q].enabled
    BY DEF EnqueueConnectorReassessments
  <2> QED BY <2>2, <2>3 DEF NoCause, OutboxEnabled
<1>3. \A c \in Causes \ taken : causes'[c] = causes[c]
  BY DEF EnqueueConnectorReassessments
<1>4. UNCHANGED <<policy, config>>
  BY DEF EnqueueConnectorReassessments
<1> HIDE DEF taken
<1>5. OutboxStatus' = [c \in Causes |-> IF c \in taken THEN "waiting" ELSE OutboxStatus[c]]
  BY <1>1, <1>2, <1>3 DEF OutboxStatus, Status
<1>6. \A c \in taken : /\ OutboxStatus[c] = "absent"
                       /\ OutboxScope'[c].project \in OutboxEnabled
                       /\ OutboxScope'[c].config = config
  BY <1>1, <1>2 DEF OutboxStatus, Status, OutboxScope, Scope
<1>7. /\ \A c \in Causes \ taken : OutboxScope'[c] = OutboxScope[c]
      /\ DOMAIN OutboxScope' = Causes /\ OutboxEnabled' = OutboxEnabled
  BY <1>3, <1>4 DEF OutboxScope, OutboxEnabled
<1>8. Outbox!Record(taken)
  BY <1>4, <1>5, <1>6, <1>7
  DEF Outbox!Record, Outbox!Become, OutboxStatus, OutboxScope, OutboxEnabled
<1>9. taken \in SUBSET Causes
  BY <1>1
<1> QED BY <1>8, <1>9 DEF Outbox!OutboxNext

LEMMA EnablePolicyRefines ==
  ASSUME IInv, NEW p \in Projects, EnablePolicy(p) PROVE Outbox!OutboxNext
<1>1. OutboxEnabled' = OutboxEnabled \cup {p}
  BY DEF EnablePolicy, OutboxEnabled, IInv, TypeOK, PolicyRows
<1>2. UNCHANGED <<causes, config>>
  BY DEF EnablePolicy
<1>3. Outbox!Enable(p)
  BY <1>1, <1>2 DEF Outbox!Enable, OutboxEnabled
<1> QED BY <1>3 DEF Outbox!OutboxNext

LEMMA DisablePolicyRefines ==
  ASSUME IInv, NEW p \in Projects, DisablePolicy(p) PROVE Outbox!OutboxNext
<1>1. OutboxEnabled' = OutboxEnabled \ {p}
  BY DEF DisablePolicy, OutboxEnabled, IInv, TypeOK, PolicyRows
<1>2. \A c \in Causes : causes[c] \in CauseRows
  BY DEF IInv, TypeOK
<1>3. Owned(p) \subseteq Causes /\ "POLICY_DISABLED" \in Reasons
  BY DEF Owned, Reasons
<1>4. ASSUME NEW c \in Causes
      PROVE  /\ causes'[c].project = causes[c].project /\ causes'[c].config = causes[c].config
             /\ causes'[c].state = IF c \in Owned(p) THEN "BLOCKED" ELSE causes[c].state
  <2>1. CASE c \in Owned(p)
    <3>1. causes'[c] = Blocked(causes[c], "POLICY_DISABLED")
      BY <2>1 DEF DisablePolicy
    <3> QED BY <3>1, <2>1, <1>2, <1>3, BlockedEffect DEF Unchanged
  <2>2. CASE c \notin Owned(p)
    BY <2>2 DEF DisablePolicy
  <2> QED BY <2>1, <2>2
<1>5. Outbox!Waiting(p) = Owned(p)
  BY <1>2, StatusValues DEF Outbox!Waiting, Owned, Scope
<1>6. OutboxStatus' = [c \in Causes |-> IF c \in Owned(p) THEN "blocked" ELSE OutboxStatus[c]]
  BY <1>3, <1>4 DEF OutboxStatus, Status
<1>7. OutboxScope' = OutboxScope /\ config' = config
  BY <1>4 DEF OutboxScope, Scope, DisablePolicy
<1>8. Outbox!Disable(p)
  BY <1>1, <1>5, <1>6, <1>7
  DEF Outbox!Disable, Outbox!Become, OutboxStatus, OutboxScope, OutboxEnabled
<1> QED BY <1>8 DEF Outbox!OutboxNext

LEMMA RetryReassessmentRefines ==
  ASSUME IInv, NEW c \in Causes, RetryReassessment(c) PROVE Outbox!OutboxNext
<1>1. causes'[c] = Recovered(causes[c]) /\ causes[c] \in CauseRows /\ causes[c].state = "BLOCKED"
      /\ causes[c].project \in OutboxEnabled /\ causes[c].config = config
  BY DEF RetryReassessment, IInv, TypeOK, CauseRows, OutboxEnabled, SourceStillMatches
<1>2. \A d \in Causes \ {c} : causes'[d] = causes[d]
  BY DEF RetryReassessment, IInv, TypeOK
<1>3. causes'[c].state = "READY" /\ causes'[c].project = causes[c].project
      /\ causes'[c].config = causes[c].config
  BY <1>1, RecoveredEffect
<1>4. UNCHANGED <<policy, config>>
  BY DEF RetryReassessment
<1>5. OutboxStatus[c] = "blocked" /\ OutboxScope[c].project \in OutboxEnabled
      /\ OutboxScope[c].config = config
  BY <1>1 DEF OutboxStatus, OutboxScope, Scope, Status
<1>6. OutboxStatus' = [d \in Causes |-> IF d \in {c} THEN "waiting" ELSE OutboxStatus[d]]
  BY <1>2, <1>3 DEF OutboxStatus, Status
<1>7. OutboxScope' = OutboxScope /\ OutboxEnabled' = OutboxEnabled
  BY <1>2, <1>3, <1>4 DEF OutboxScope, Scope, OutboxEnabled
<1>8. Outbox!Reopen(c)
  BY <1>4, <1>5, <1>6, <1>7
  DEF Outbox!Reopen, Outbox!Current, Outbox!Become, OutboxStatus, OutboxScope, OutboxEnabled
<1> QED BY <1>8 DEF Outbox!OutboxNext

LEMMA ReconfigureRefines == ASSUME Reconfigure PROVE Outbox!OutboxNext
<1>1. config' = config + 1 /\ UNCHANGED <<policy, causes>>
  BY DEF Reconfigure
<1>2. Outbox!NewConfiguration
  BY <1>1 DEF Outbox!NewConfiguration
<1> QED BY <1>2 DEF Outbox!OutboxNext

LEMMA TickRefines == ASSUME IInv, Tick PROVE UNCHANGED Outbox!outboxVars
<1>1. \A q \in Projects : policy'[q].enabled = policy[q].enabled
  BY DEF Tick, IInv, TypeOK, PolicyRows
<1>2. ASSUME NEW c \in Causes
      PROVE  /\ causes'[c].state = causes[c].state /\ causes'[c].project = causes[c].project
             /\ causes'[c].config = causes[c].config
  <2>1. causes'[c] = Waited(causes[c]) /\ causes[c] \in CauseRows
    BY DEF Tick, IInv, TypeOK
  <2> QED BY <2>1, WaitedEffect DEF Unchanged
<1>3. UNCHANGED config
  BY DEF Tick
<1> QED BY <1>1, <1>2, <1>3, StutterSteps

LEMMA UnchangedRefines ==
  ASSUME UNCHANGED <<policy, causes, config>> PROVE UNCHANGED Outbox!outboxVars
BY DEF Outbox!outboxVars

LEMMA InitRefines == Init => Outbox!OutboxInit
<1> SUFFICES ASSUME Init PROVE Outbox!OutboxInit
  OBVIOUS
<1>1. OutboxEnabled = {}
  BY DEF Init, OutboxEnabled
<1>2. OutboxStatus = [c \in Causes |-> "absent"]
  BY DEF Init, OutboxStatus, NoCause, Status
<1>3. PICK p \in Projects : p = CHOOSE q \in Projects : TRUE
  BY ScanAssumption
<1>4. OutboxScope = [c \in Causes |-> [project |-> p, config |-> 0]]
  BY <1>3 DEF Init, OutboxScope, Scope, NoCause
<1>5. OutboxScope \in [Causes -> {[project |-> q, config |-> 0] : q \in Projects}]
  BY <1>4
<1> QED BY <1>1, <1>2, <1>5 DEF Outbox!OutboxInit, Init, OutboxStatus, OutboxScope, OutboxEnabled

LEMMA NextRefines ==
  ASSUME IInv, [Next]_vars PROVE [Outbox!OutboxNext]_(Outbox!outboxVars)
<1>1. ASSUME NEW s \in Scanners, Step(s) PROVE [Outbox!OutboxNext]_(Outbox!outboxVars)
  <2>1. CASE ClaimNothing(s) \/ LoseClaim(s) \/ CompleteFails(s) \/ CompleteContended(s)
    BY <2>1, UnchangedRefines DEF ClaimNothing, LoseClaim, CompleteFails, CompleteContended
  <2> QED BY <1>1, <2>1, ClaimRefines, CompleteRefines, ReleaseContendedRefines,
             ReleaseFailedRefines DEF Step
<1>2. ASSUME NEW s \in Scanners, Stop(s) PROVE [Outbox!OutboxNext]_(Outbox!outboxVars)
  BY <1>2, UnchangedRefines DEF Stop
<1>3. CASE Environment
  <2>1. CASE Redispatch
    BY <2>1, UnchangedRefines DEF Redispatch
  <2> QED BY <1>3, <2>1, EnqueueRefines, EnablePolicyRefines, DisablePolicyRefines,
             RetryReassessmentRefines, ReconfigureRefines, TickRefines DEF Environment
<1>4. CASE UNCHANGED vars
  BY <1>4, UnchangedRefines DEF vars
<1> QED BY <1>1, <1>2, <1>3, <1>4 DEF Next

\* Claims, leases, attempts and clocks implement the outbox: a change waits
\* under an enabled policy until it is answered under its own configuration or
\* blocked.
THEOREM OutboxImplemented == Spec => ImplementsOutbox
<1>1. Init => Outbox!OutboxInit
  BY InitRefines
<1>2. IInv /\ [Next]_vars => [Outbox!OutboxNext]_(Outbox!outboxVars)
  BY NextRefines
<1> QED BY <1>1, <1>2, ScanInvariant, PTL DEF Spec, ImplementsOutbox, Outbox!OutboxSpec
=============================================================================
