-------------------------- MODULE SourceAuthority --------------------------
(***************************************************************************)
(* The answer the project's own rules give to "what is this fact?": the    *)
(* evaluator resolveSourceAuthority (packages/domain/src/                  *)
(* source-authority.ts) on the temporal history of temporal-facts.ts, and  *)
(* the case a disagreement opens (scalar-reconciliation-identity.ts).      *)
(*                                                                         *)
(* A snapshot is what buildSourceAuthoritySnapshot hands over: the         *)
(* versions of one fact in the order of their revisions, the conflicts     *)
(* recorded between them, the policy in force, the clock and the sources   *)
(* the reader may see.  Everybody's statements form one source, so a       *)
(* version's source is its author.  An instant is a positive number and 0  *)
(* stands for null.                                                        *)
(*                                                                         *)
(* A policy ranks sources: tier 0 is no rule.  "gated" are the sources     *)
(* whose rule asks for an approval; no writer records one, so their        *)
(* versions never qualify.  "basis" names the instants a rule's duration   *)
(* runs from: none, or one.  Every version is HUMAN_CONFIRMED.             *)
(***************************************************************************)
EXTENDS Naturals, Sequences, FiniteSets, FiniteSetsExt

Statuses == {"INCOMPLETE", "REVALIDATION_REQUIRED", "NO_POLICY",
             "CONFLICTING", "AMBIGUOUS", "RESOLVED", "UNKNOWN"}

-----------------------------------------------------------------------------
(* The temporal history *)

\* Mutant of Indices: the history leaves out what the reader may not see.
IndicesReadable(s) ==
  IF s.complete THEN {i \in DOMAIN s.versions : s.versions[i].by \in s.readable} ELSE {}

\* An incomplete snapshot carries no history.
Indices(s) == IF s.complete THEN DOMAIN s.versions ELSE {}

NotYetObserved(s, i) == s.versions[i].observed > s.asOf
NotYetEffective(s, i) == s.versions[i].effective > s.asOf
Known(s, i) == ~NotYetObserved(s, i) /\ ~NotYetEffective(s, i)

Later(v, w) ==
  \/ v.effective > w.effective
  \/ v.effective = w.effective /\ v.observed > w.observed

Stream(s, i) ==
  {j \in Indices(s) : Known(s, j) /\ s.versions[j].by = s.versions[i].by}

IsHead(s, i) ==
  Known(s, i) /\ \A j \in Stream(s, i) : ~Later(s.versions[j], s.versions[i])

Tied(s, i) ==
  \E j \in Stream(s, i) \ {i} :
    /\ s.versions[j].effective = s.versions[i].effective
    /\ s.versions[j].observed = s.versions[i].observed

Applicability(s, i) ==
  IF NotYetObserved(s, i) THEN "NOT_YET_OBSERVED"
  ELSE IF NotYetEffective(s, i) THEN "NOT_YET_EFFECTIVE"
  ELSE IF ~IsHead(s, i) THEN "SUPERSEDED"
  ELSE IF Tied(s, i) THEN "AMBIGUOUS" ELSE "APPLICABLE"

-----------------------------------------------------------------------------
(* One version under the policy *)

Tier(s, i) == s.definition.tier[s.versions[i].by]

Readable(s, i) == s.versions[i].by \in s.readable

\* The earliest deadline counts: neither one may extend the other.
Deadlines(s, i) ==
  ({s.versions[i].until} \ {0}) \cup
  {s.versions[i][b] + s.definition.duration :
     b \in IF Tier(s, i) = 0 THEN {} ELSE s.definition.basis}

Expiry(s, i) == IF Deadlines(s, i) = {} THEN 0 ELSE Min(Deadlines(s, i))

EventDate(s, i) == Tier(s, i) # 0 /\ s.definition.untilSuperseded

Freshness(s, i, applicability) ==
  LET expiry == IF Known(s, i) /\ ~(EventDate(s, i) /\ applicability = "SUPERSEDED")
                THEN Expiry(s, i) ELSE 0
  IN IF expiry = 0
     THEN IF EventDate(s, i) /\ applicability = "APPLICABLE"
          THEN "CURRENT" ELSE "UNKNOWN"
     ELSE IF s.asOf >= expiry THEN "STALE" ELSE "CURRENT"

Reasons(s, i, row) ==
  {r \in {"NO_AUTHORITY_RULE", "NOT_APPLICABLE", "AMBIGUOUS_STREAM",
          "APPROVAL_REQUIRED", "STALE", "UNKNOWN_VALIDITY"} :
     \/ r = "NO_AUTHORITY_RULE" /\ Tier(s, i) = 0
     \/ r = "NOT_APPLICABLE" /\ row.applicability \notin {"APPLICABLE", "AMBIGUOUS"}
     \/ r = "AMBIGUOUS_STREAM" /\ row.applicability = "AMBIGUOUS"
     \/ r = "APPROVAL_REQUIRED" /\ Tier(s, i) # 0
                                /\ s.versions[i].by \in s.definition.gated
     \/ r = "STALE" /\ row.freshness = "STALE"
     \/ r = "UNKNOWN_VALIDITY" /\ row.freshness = "UNKNOWN"}

\* One row for each version; a last word that counts is heard even when stale.
Row(s, i, applicability) ==
  [applicability |-> applicability,
   expiry |-> Expiry(s, i),
   freshness |-> Freshness(s, i, applicability),
   counts |-> /\ applicability \in {"APPLICABLE", "AMBIGUOUS"}
              /\ Tier(s, i) # 0 /\ s.versions[i].by \notin s.definition.gated
              /\ Readable(s, i)]

Rows(s) == [i \in Indices(s) |-> Row(s, i, Applicability(s, i))]

-----------------------------------------------------------------------------
(* The answer *)

Selected(s, rows) ==
  LET eligible == {i \in DOMAIN rows : rows[i].counts /\ rows[i].freshness = "CURRENT"}
  IN {i \in eligible : \A j \in eligible : Tier(s, i) <= Tier(s, j)}

Disagreements(s, selected) ==
  {g \in {selected} : \E i, j \in g : s.versions[i].value # s.versions[j].value}

\* What a higher source last said, however old it is by now.
Against(s, rows, i) ==
  {j \in DOMAIN rows :
     /\ rows[j].counts
     /\ Tier(s, j) < Tier(s, i)
     /\ s.versions[j].value # s.versions[i].value}

Contradictions(s, rows, selected) ==
  LET overruled == {i \in selected : Against(s, rows, i) # {}}
  IN {g \in {overruled \cup UNION {Against(s, rows, i) : i \in overruled}} : g # {}}

Status(s, rows, selected, conflicts) ==
  IF ~s.complete THEN "INCOMPLETE"
  ELSE IF \E i \in DOMAIN rows : ~Readable(s, i) THEN "REVALIDATION_REQUIRED"
  ELSE IF ~s.definition.enabled THEN "NO_POLICY"
  ELSE IF conflicts # {} THEN "CONFLICTING"
  ELSE IF \E i \in selected : rows[i].applicability = "AMBIGUOUS" THEN "AMBIGUOUS"
  ELSE IF selected # {} THEN "RESOLVED" ELSE "UNKNOWN"

Answer(s, rows) ==
  LET selected == Selected(s, rows)
      disagreements == Disagreements(s, selected)
      contradictions == Contradictions(s, rows, selected)
      conflicts == (IF s.complete THEN s.recorded ELSE {})
                     \cup disagreements \cup contradictions
  IN [selected |-> selected, disagreements |-> disagreements,
      contradictions |-> contradictions, disputed |-> UNION conflicts,
      status |-> Status(s, rows, selected, conflicts)]

\* The answer with the rows it was read from.
Evaluations(s) == {[rows |-> rows, answer |-> Answer(s, rows)] : rows \in {Rows(s)}}

\* scalarReconciliationIdentity is null for every other assessment.
AsksForReconciliation(s, answer) ==
  answer.status = "CONFLICTING" /\ s.definition.request

\* The pairs a capture retains for a group: every member is set against one
\* that differs from it.
Pairs(s, g) ==
  LET differ(i, j) == s.versions[i].value # s.versions[j].value
      first == Min(g)
      other == Min({i \in g : differ(i, first)})
  IN {{i, IF differ(i, first) THEN first ELSE other} : i \in g \ {first}}
=============================================================================
