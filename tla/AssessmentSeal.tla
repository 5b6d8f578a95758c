--------------------------- MODULE AssessmentSeal ---------------------------
(***************************************************************************)
(* The database's own reading of a snapshot.  An assessment is assembled   *)
(* unsealed; its seal is refused unless valid_fact_assessment (migration   *)
(* 202609140001, the last one that defines it) derives from the stored     *)
(* rows what the result claims, and a conflict is refused unless           *)
(* valid_authority_conflict (202609100001) holds of it.  A refusal rolls   *)
(* the whole capture back.                                                 *)
(*                                                                         *)
(* What SQL derives is written here from the SQL alone: the ranks of the   *)
(* window functions, the nulls of LEAST, the tests on reasons.             *)
(***************************************************************************)
EXTENDS SourceAuthority

Seen(s, i) == s.versions[i].observed <= s.asOf /\ s.versions[i].effective <= s.asOf

Visible(s) == {i \in Indices(s) : Seen(s, i)}

\* ORDER BY "effectiveAt" DESC, "observedAt" DESC within a source
Clock(s, i) == <<s.versions[i].effective, s.versions[i].observed>>

SealPosition(s, i) ==
  1 + Cardinality({Clock(s, j) : j \in {k \in Visible(s) :
        /\ s.versions[k].by = s.versions[i].by
        /\ \/ Clock(s, k)[1] > Clock(s, i)[1]
           \/ Clock(s, k)[1] = Clock(s, i)[1] /\ Clock(s, k)[2] > Clock(s, i)[2]}})

SealTies(s, i) ==
  Cardinality({j \in Visible(s) :
    s.versions[j].by = s.versions[i].by /\ Clock(s, j) = Clock(s, i)})

SealApplicability(s, i) ==
  IF i \in Visible(s)
  THEN IF SealPosition(s, i) > 1 THEN "SUPERSEDED"
       ELSE IF SealTies(s, i) > 1 THEN "AMBIGUOUS" ELSE "APPLICABLE"
  ELSE IF s.versions[i].observed > s.asOf THEN "NOT_YET_OBSERVED" ELSE "NOT_YET_EFFECTIVE"

\* A rule without a duration adds a null deadline, which LEAST ignores.
SealExpiry(s, i) ==
  LET v == s.versions[i]
      from == IF "observed" \in s.definition.basis THEN v.observed ELSE v.effective
      deadline == IF Tier(s, i) = 0 \/ s.definition.basis = {} THEN 0
                  ELSE from + s.definition.duration
  IN IF v.until = 0 \/ deadline = 0 THEN v.until + deadline
     ELSE Min({v.until, deadline})

\* Mutant of SealFreshness: a statement is still current at its deadline.
SealFreshnessInclusive(s, i) ==
  IF i \notin Visible(s) \/ SealExpiry(s, i) = 0 THEN "UNKNOWN"
  ELSE IF SealExpiry(s, i) < s.asOf THEN "STALE" ELSE "CURRENT"

SealFreshness(s, i) ==
  IF i \notin Visible(s) \/ SealExpiry(s, i) = 0 THEN "UNKNOWN"
  ELSE IF SealExpiry(s, i) <= s.asOf THEN "STALE" ELSE "CURRENT"

\* CASE WHEN test THEN reason END, without its null
When(test, reason) == IF test THEN {reason} ELSE {}

SealReasons(s, i, applicability, freshness) ==
  UNION {When(Tier(s, i) = 0, "NO_AUTHORITY_RULE"),
         When(applicability \notin {"APPLICABLE", "AMBIGUOUS"}, "NOT_APPLICABLE"),
         When(applicability = "AMBIGUOUS", "AMBIGUOUS_STREAM"),
         When(Tier(s, i) # 0 /\ s.versions[i].by \in s.definition.gated, "APPROVAL_REQUIRED"),
         When(freshness = "STALE", "STALE"),
         When(freshness = "UNKNOWN", "UNKNOWN_VALIDITY")}

SealRow(s, i, applicability, freshness) ==
  [applicability |-> applicability, expiry |-> SealExpiry(s, i),
   reasons |-> SealReasons(s, i, applicability, freshness)]

SealRows(s) ==
  [i \in Indices(s) |-> SealRow(s, i, SealApplicability(s, i), SealFreshness(s, i))]

Claims(s, rows, allowed) ==
  {i \in DOMAIN rows : Readable(s, i) /\ Tier(s, i) # 0 /\ rows[i].reasons \subseteq allowed}

SealSelected(s, rows) ==
  LET claims == Claims(s, rows, {"AMBIGUOUS_STREAM"})
      best == Min({Tier(s, j) : j \in claims})
  IN {i \in claims : Tier(s, i) = best}

SealDisagreements(s, selected) ==
  {g \in {selected} : Cardinality({s.versions[i].value : i \in g}) > 1}

SealContradictions(s, rows, selected) ==
  LET higher == Claims(s, rows, {"AMBIGUOUS_STREAM", "STALE", "UNKNOWN_VALIDITY"})
      clashes == {p \in selected \X higher :
                    /\ Tier(s, p[2]) < Tier(s, p[1])
                    /\ s.versions[p[2]].value # s.versions[p[1]].value}
  IN {g \in {UNION {{p[1], p[2]} : p \in clashes}} : g # {}}

SealStatus(s, rows, selected, disputed) ==
  IF ~s.complete THEN "INCOMPLETE"
  ELSE IF \E i \in DOMAIN rows : ~Readable(s, i) THEN "REVALIDATION_REQUIRED"
  ELSE IF ~s.definition.enabled THEN "NO_POLICY"
  ELSE IF disputed THEN "CONFLICTING"
  ELSE IF \E i \in selected : rows[i].applicability = "AMBIGUOUS" THEN "AMBIGUOUS"
  ELSE IF selected # {} THEN "RESOLVED" ELSE "UNKNOWN"

\* valid_authority_conflict, for a pair found now; a pair that brings the
\* assessment over its limit is one too.
ValidConflict(s, pair) ==
  /\ s.definition.enabled
  /\ \A i \in pair : i \in DOMAIN s.versions /\ Seen(s, i)
  /\ \E i, j \in pair : s.versions[i].value # s.versions[j].value

\* valid_fact_assessment, for the answer the evaluator gives on this snapshot
SealAccepts(s, evaluation) ==
  \A rows \in {SealRows(s)} :
    LET answer == evaluation.answer
        selected == SealSelected(s, rows)
        disagreements == SealDisagreements(s, selected)
        contradictions == SealContradictions(s, rows, selected)
    IN /\ \A i \in DOMAIN rows :
            Readable(s, i) =>
              rows[i] = [applicability |-> evaluation.rows[i].applicability,
                         expiry |-> evaluation.rows[i].expiry,
                         reasons |-> Reasons(s, i, evaluation.rows[i])]
       /\ answer.selected = selected
       /\ answer.disagreements = disagreements
       /\ answer.contradictions = contradictions
       /\ answer.status = SealStatus(s, rows, selected,
            s.recorded \cup disagreements \cup contradictions # {})
=============================================================================
