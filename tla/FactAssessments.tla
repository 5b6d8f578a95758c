-------------------------- MODULE FactAssessments --------------------------
(***************************************************************************)
(* One scalar fact of a project and the assessments kept of it             *)
(* (packages/data/src/project-facts.ts and authority-persistence.ts).      *)
(*                                                                         *)
(* Every command locks the Project row first and holds it to its commit,   *)
(* so a command is one action.  A command carries a key of its own and     *)
(* the revision it saw: under a used key it is answered from its receipt,  *)
(* with another revision it is refused, and neither changes anything, so   *)
(* an action here is a command with a new key and the current revision.    *)
(* Reads and deliveries change nothing and are not actions.                *)
(*                                                                         *)
(* The source row, its access row and its first reader are created with    *)
(* an author's first statement.  Only a reader of an AVAILABLE source may  *)
(* see it, so "readers" is empty for a source in any other state.          *)
(*                                                                         *)
(* observedAt is the clock of the API process (new Date()); every other    *)
(* instant is the clock of the database.  ClockErrors says how far ahead   *)
(* of the database the API process that serves somebody may be.            *)
(***************************************************************************)
EXTENDS AssessmentSeal

CONSTANTS
  Subjects,        \* people with a grant on the project
  Values,          \* typed values of the fact
  Definitions,     \* enabled policies an administrator may append
  ReaderLists,     \* readers an administrator may give a source
  InitialGrants,   \* <<subject, role>> pairs
  Changeable,      \* grants operators add and remove
  EffectiveTimes,  \* instants a statement or a policy may take effect at
  ValidUntil,      \* instants somebody's statements expire at; 0: never
  ClockErrors,     \* how far ahead the clock that dates them may be
  HistoryLimit,    \* 1000: versions of one assessment
  ConflictLimit,   \* 1000: conflicts of one assessment
  MaxTime,         \* bound: instants
  MaxVersions,     \* bound: statements
  MaxRevisions     \* bound: statements and policy revisions

Roles == {"leadership", "project_manager", "portfolio_manager", "pmo_admin"}
Writers == {"project_manager", "portfolio_manager", "pmo_admin"}
Instants == 1 .. MaxTime

DefinitionRows ==
  [enabled : BOOLEAN, tier : [Subjects -> Nat], named : SUBSET Subjects,
   gated : SUBSET Subjects, basis : {{}, {"effective"}, {"observed"}},
   duration : Nat, untilSuperseded : BOOLEAN, request : BOOLEAN]

NoDefinition ==
  [enabled |-> FALSE, tier |-> [u \in Subjects |-> 0], named |-> {}, gated |-> {},
   basis |-> {}, duration |-> 0, untilSuperseded |-> FALSE, request |-> FALSE]

ASSUME FactAssumption ==
  /\ Definitions \subseteq {d \in DefinitionRows : d.enabled}
  /\ ReaderLists \subseteq SUBSET Subjects
  /\ InitialGrants \subseteq Subjects \X Roles
  /\ Changeable \subseteq Subjects \X Roles
  /\ EffectiveTimes \subseteq Instants /\ ValidUntil \in [Subjects -> SUBSET Nat]
  /\ ClockErrors \in [Subjects -> SUBSET Nat]
  /\ HistoryLimit \in Nat /\ ConflictLimit \in Nat
  /\ MaxTime \in Nat \ {0} /\ MaxVersions \in Nat /\ MaxRevisions \in Nat

VARIABLES
  now,          \* the clock of the database
  versions,     \* ProjectFactVersion rows, by revision
  readers,      \* who may see a source
  policies,     \* AuthorityPolicyRevision rows, by revision
  conflicts,    \* FactAuthorityConflict rows, all between two versions; none
                \* is ever resolved
  latest,       \* the last sealed FactAssessment; nothing reads an older one
  grants        \* AccessGrant rows

factVars == <<now, versions, readers, policies, conflicts, latest, grants>>

VersionRows ==
  [by : Subjects, value : Values, effective : Instants, observed : Nat \ {0}, until : Nat]

PolicyRows == [effective : Instants, definition : Definitions \cup {NoDefinition}]

\* policy is 0 without one, and before the first assessment.
AssessmentRows ==
  [policy : Nat, status : Statuses, selected : SUBSET Nat,
   disputed : SUBSET Nat, recorded : SUBSET (SUBSET Nat)]

NoAssessment ==
  [policy |-> 0, status |-> "UNKNOWN", selected |-> {}, disputed |-> {}, recorded |-> {}]

FactTypeOK ==
  /\ now \in Instants
  /\ versions \in Seq(VersionRows)
  /\ readers \in [Subjects -> SUBSET Subjects]
  /\ policies \in Seq(PolicyRows)
  /\ conflicts \subseteq SUBSET Nat
  /\ latest \in AssessmentRows
  /\ grants \subseteq Subjects \X Roles

FactInit ==
  /\ now = 1
  /\ versions = <<>>
  /\ readers = [u \in Subjects |-> {}]
  /\ policies = <<>>
  /\ conflicts = {}
  /\ latest = NoAssessment
  /\ grants = InitialGrants

Within == Len(versions) + Len(policies) < MaxRevisions

-----------------------------------------------------------------------------
(* What a command reads *)

Holds(u, roles) == \E r \in roles : <<u, r>> \in grants

Sources == {versions[i].by : i \in DOMAIN versions}

\* The last revision that is in effect; 0: there is none.
InForce(r) == policies[r].effective <= now
Active ==
  LET inForce == {r \in DOMAIN policies : InForce(r)}
  IN IF inForce = {} THEN 0 ELSE Max(inForce)

Definition == IF Active = 0 THEN NoDefinition ELSE policies[Active].definition

\* Mutant of Snapshot: a pair is forgotten once a new statement replaced one.
SnapshotForgetting(u, pairs) ==
  LET s == [complete |-> Len(versions) <= HistoryLimit,
            versions |-> versions, asOf |-> now]
      standing == {pair \in pairs : \A i \in pair : IsHead(s, i)}
  IN [complete |-> s.complete /\ Cardinality(standing) <= ConflictLimit,
      versions |-> versions, recorded |-> standing, asOf |-> now,
      definition |-> Definition, readable |-> {a \in Sources : u \in readers[a]}]

\* buildSourceAuthoritySnapshot for a reader, over these recorded pairs
Snapshot(u, pairs) ==
  [complete |-> Len(versions) <= HistoryLimit /\ Cardinality(pairs) <= ConflictLimit,
   versions |-> versions, recorded |-> pairs, asOf |-> now,
   definition |-> Definition, readable |-> {s \in Sources : u \in readers[s]}]

\* Mutant of Discovered: what a higher source contradicts is not retained.
DiscoveredAmongPeers(s, answer) ==
  UNION {Pairs(s, g) : g \in answer.disagreements}

\* prepareAssessmentInTransaction: what the reader's answer disputes is
\* retained before the answer is given.
Discovered(s, answer) ==
  UNION {Pairs(s, g) : g \in answer.disagreements \cup answer.contradictions}

Prepared(u) ==
  UNION {{Snapshot(u, conflicts \cup Discovered(s, e.answer)) : e \in Evaluations(s)} :
           s \in {Snapshot(u, conflicts)}}

\* The one assessment a reader gets.
Assessed(u) ==
  UNION {{[snapshot |-> s, evaluation |-> e] : e \in Evaluations(s)} : s \in Prepared(u)}

\* What the triggers of a capture require; otherwise it rolls back.
Sealable(a) ==
  /\ \A pair \in a.snapshot.recorded \ conflicts : ValidConflict(a.snapshot, pair)
  /\ SealAccepts(a.snapshot, a.evaluation)

-----------------------------------------------------------------------------
(* Commands *)

AppendHumanStatement(u) ==
  /\ Holds(u, Writers)
  /\ Within /\ Len(versions) < MaxVersions
  /\ u \in Sources => u \in readers[u]
  /\ \E value \in Values, effective \in EffectiveTimes,
        until \in ValidUntil[u], error \in ClockErrors[u] :
       /\ until = 0 \/ until >= effective
       /\ versions' = Append(versions,
            [by |-> u, value |-> value, effective |-> effective,
             observed |-> now + error, until |-> until])
  /\ readers' = IF u \in Sources THEN readers ELSE [readers EXCEPT ![u] = {u}]
  /\ UNCHANGED <<now, policies, conflicts, latest, grants>>

SetSourceAccess(u) ==
  /\ Holds(u, {"pmo_admin"})
  /\ \E s \in Sources, list \in ReaderLists : readers' = [readers EXCEPT ![s] = list]
  /\ UNCHANGED <<now, versions, policies, conflicts, latest, grants>>

\* A rule may name a source only once it exists.
AppendPolicy(u) ==
  /\ Holds(u, {"pmo_admin"})
  /\ Within
  /\ \E d \in Definitions \cup {NoDefinition}, effective \in EffectiveTimes :
       /\ d.named \subseteq Sources
       /\ policies' = Append(policies, [effective |-> effective, definition |-> d])
  /\ UNCHANGED <<now, versions, readers, conflicts, latest, grants>>

\* persistPreparedAssessmentInTransaction
Capture(a) ==
  LET answer == a.evaluation.answer
  IN /\ versions # <<>>
     /\ Sealable(a)
     /\ conflicts' = a.snapshot.recorded
     /\ latest' =
          [policy |-> Active, status |-> answer.status,
           selected |-> answer.selected, disputed |-> answer.disputed,
           recorded |-> IF a.snapshot.complete THEN a.snapshot.recorded ELSE {}]
     /\ UNCHANGED <<now, versions, readers, policies, grants>>

CaptureAssessment(u) == Holds(u, Roles) /\ \E a \in Assessed(u) : Capture(a)

ChangeGrant ==
  /\ \E g \in Changeable :
       grants' = IF g \in grants THEN grants \ {g} ELSE grants \cup {g}
  /\ UNCHANGED <<now, versions, readers, policies, conflicts, latest>>

Tick ==
  /\ now < MaxTime
  /\ now' = now + 1
  /\ UNCHANGED <<versions, readers, policies, conflicts, latest, grants>>

FactNext ==
  \/ \E u \in Subjects : \/ AppendHumanStatement(u) \/ SetSourceAccess(u)
                         \/ AppendPolicy(u) \/ CaptureAssessment(u)
  \/ ChangeGrant
  \/ Tick

FactSpec == FactInit /\ [][FactNext]_factVars

-----------------------------------------------------------------------------
(* What must hold *)

\* Whatever the evaluator answers somebody who may ask, the database derives
\* the same from the rows and the capture commits: the two independent
\* implementations of the authority rules (source-authority.ts and
\* valid_fact_assessment) never disagree, unless the rules are UNTIL_SUPERSEDED,
\* a mode the later one does not know.
AssessmentsSeal ==
  ~Definition.untilSuperseded =>
    \A u \in Subjects : versions # <<>> /\ Holds(u, Roles) =>
      \A a \in Assessed(u) : Sealable(a)

\* A dispute that was retained once is never settled behind anybody's back:
\* no later statement, policy, expiry or reader gets a resolved answer.
ConflictsStand ==
  [][conflicts # {} /\ latest' # latest => latest'.status # "RESOLVED"]_factVars

\* A resolved answer is the last word: each of its versions is the latest
\* known statement of its author, and nobody of a higher rank, however long
\* ago, and nobody of the same rank whose word is still fresh, last said
\* anything else.
LastWord(i) ==
  LET known(j) == versions[j].observed <= now /\ versions[j].effective <= now
  IN /\ known(i)
     /\ \A j \in DOMAIN versions :
          versions[j].by = versions[i].by /\ known(j) => ~Later(versions[j], versions[i])

\* Under UNTIL_SUPERSEDED a word stands as long as its author has one: two
\* statements of the same instants are none.
Alone(i) ==
  \A j \in DOMAIN versions \ {i} :
    \/ versions[j].by # versions[i].by
    \/ versions[j].effective # versions[i].effective
    \/ versions[j].observed # versions[i].observed

StillFresh(i) ==
  LET v == versions[i]
  IN /\ v.until # 0 \/ Definition.basis # {} \/ (Definition.untilSuperseded /\ Alone(i))
     /\ v.until # 0 => now < v.until
     /\ \A b \in Definition.basis : now < v[b] + Definition.duration

Settles(i) ==
  LET rank(j) == Definition.tier[versions[j].by]
      counts(j) == rank(j) # 0 /\ versions[j].by \notin Definition.gated /\ LastWord(j)
  IN /\ counts(i) /\ StillFresh(i)
     /\ \A j \in DOMAIN versions :
          counts(j) /\ (rank(j) < rank(i) \/ (rank(j) = rank(i) /\ StillFresh(j)))
            => versions[j].value = versions[i].value

ResolutionsHold ==
  [][latest' # latest /\ latest'.status = "RESOLVED" =>
       latest'.selected # {} /\ \A i \in latest'.selected : Settles(i)]_factVars

\* Every version an assessment disputes stays disputed: the pairs retained
\* with it cover all its contributors, each against one that differs.
ContributorsRetained ==
  latest.status = "CONFLICTING" =>
    /\ latest.disputed \subseteq UNION latest.recorded
    /\ \A pair \in latest.recorded :
         \E i, j \in pair : versions[i].value # versions[j].value
=============================================================================
