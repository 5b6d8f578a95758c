--------------------- MODULE ScalarReconciliationProofs ---------------------
(***************************************************************************)
(* Theorems about ScalarReconciliation, for any people, values, policies,  *)
(* reader lists, clocks and limits.                                        *)
(***************************************************************************)
EXTENDS ScalarReconciliation, FiniteSetTheorems, WellFoundedInduction, TLAPS

-----------------------------------------------------------------------------
(* Least and greatest elements *)

LEMMA LeastElement ==
  ASSUME NEW S \in SUBSET Nat, S # {}
  PROVE  Min(S) \in S /\ \A n \in S : Min(S) <= n
<1> DEFINE Less == {p \in Nat \X Nat : p[1] < p[2]}
<1>1. IsWellFoundedOn(Less, Nat)
  BY NatLessThanWellFounded, Zenon DEF OpToRel
<1>2. PICK m \in S : \A n \in S : ~(<<n, m>> \in Less)
  BY <1>1, WFMin
<1>3. \A n \in S : m <= n
  <2>1. SUFFICES ASSUME NEW n \in S, n < m PROVE FALSE
    OBVIOUS
  <2>2. <<n, m>> \in Nat \X Nat /\ <<n, m>>[1] < <<n, m>>[2]
    BY <2>1
  <2> QED
    BY <1>2, <2>2
<1> QED
  BY <1>3 DEF Min

LEMMA GreatestElement ==
  ASSUME NEW k \in Nat, NEW S \in SUBSET (1 .. k), S # {}
  PROVE  Max(S) \in S /\ \A n \in S : n <= Max(S)
<1> DEFINE T == {n \in Nat : k - n \in S}
<1>1. T \in SUBSET Nat
  OBVIOUS
<1>2. PICK s \in S : TRUE
  OBVIOUS
<1>3. k - s \in T
  OBVIOUS
<1>4. Min(T) \in T /\ \A n \in T : Min(T) <= n
  BY <1>1, <1>3, LeastElement
<1>5. \A n \in S : n <= k - Min(T)
  <2>1. TAKE n \in S
  <2>2. k - n \in T
    OBVIOUS
  <2> QED
    BY <1>4, <2>2
<1> QED
  BY <1>4, <1>5 DEF Max

-----------------------------------------------------------------------------
(* A snapshot and its versions *)

Snapshots ==
  [complete : BOOLEAN, versions : Seq(VersionRows), recorded : SUBSET (SUBSET Nat),
   asOf : Nat, definition : Definitions \cup {NoDefinition}, readable : SUBSET Subjects]

LEMMA DefinitionsTyped ==
  ASSUME NEW d \in Definitions \cup {NoDefinition}
  PROVE  /\ d.enabled \in BOOLEAN /\ d.untilSuperseded \in BOOLEAN /\ d.request \in BOOLEAN
         /\ d.tier \in [Subjects -> Nat] /\ d.duration \in Nat
         /\ d.basis \in {{}, {"effective"}, {"observed"}}
         /\ ~d.enabled => \A u \in Subjects : d.tier[u] = 0
<1>1. CASE d \in Definitions
  BY <1>1, FactAssumption DEF FactAssumption, DefinitionRows
<1>2. CASE d = NoDefinition
  BY <1>2 DEF NoDefinition
<1> QED
  BY <1>1, <1>2

LEMMA VersionsTyped ==
  ASSUME NEW s \in Snapshots
  PROVE  /\ Indices(s) \subseteq 1 .. Len(s.versions)
         /\ Len(s.versions) \in Nat
         /\ IsFiniteSet(Indices(s))
         /\ \A i \in Indices(s) :
              /\ i \in Nat \ {0}
              /\ s.versions[i] \in VersionRows
              /\ s.versions[i].by \in Subjects
              /\ s.versions[i].effective \in Nat \ {0}
              /\ s.versions[i].observed \in Nat \ {0}
              /\ s.versions[i].until \in Nat
              /\ s.definition.tier[s.versions[i].by] \in Nat
<1>1. s.versions \in Seq(VersionRows)
  BY DEF Snapshots
<1>2. Len(s.versions) \in Nat /\ DOMAIN s.versions = 1 .. Len(s.versions)
  BY <1>1
<1>3. Indices(s) \subseteq 1 .. Len(s.versions)
  BY <1>2 DEF Indices
<1>4. IsFiniteSet(Indices(s))
  <2>1. IsFiniteSet(1 .. Len(s.versions))
    BY <1>2, FS_Interval
  <2> QED
    BY <1>3, <2>1, FS_Subset
<1>5. \A i \in Indices(s) : i \in Nat \ {0} /\ s.versions[i] \in VersionRows
  BY <1>1, <1>2, <1>3
<1>6. s.definition.tier \in [Subjects -> Nat]
  BY DefinitionsTyped DEF Snapshots
<1> QED
  BY <1>2, <1>3, <1>4, <1>5, <1>6, FactAssumption DEF VersionRows, Instants, FactAssumption

LEMMA VisibleIsKnown ==
  ASSUME NEW s \in Snapshots, NEW i \in Indices(s)
  PROVE  i \in Visible(s) <=> Known(s, i)
<1> s.asOf \in Nat /\ s.versions[i].observed \in Nat /\ s.versions[i].effective \in Nat
  BY VersionsTyped DEF Snapshots
<1> QED
  BY DEF Visible, Seen, Known, NotYetObserved, NotYetEffective

\* A rank of the window function above the first is a later statement.
LEMMA PositionIsHead ==
  ASSUME NEW s \in Snapshots, NEW i \in Indices(s), Known(s, i)
  PROVE  SealPosition(s, i) > 1 <=> ~IsHead(s, i)
<1> DEFINE K == {k \in Visible(s) :
                   /\ s.versions[k].by = s.versions[i].by
                   /\ \/ Clock(s, k)[1] > Clock(s, i)[1]
                      \/ Clock(s, k)[1] = Clock(s, i)[1] /\ Clock(s, k)[2] > Clock(s, i)[2]}
           C == {Clock(s, j) : j \in K}
<1>1. Visible(s) \subseteq Indices(s)
  BY DEF Visible
<1>2. IsFiniteSet(K)
  BY <1>1, VersionsTyped, FS_Subset
<1>3. IsFiniteSet(C)
  <2>1. [j \in K |-> Clock(s, j)] \in Surjection(K, C)
    BY Zenon DEF Surjection
  <2> QED
    BY <1>2, <2>1, FS_Surjection
<1>4. Cardinality(C) \in Nat /\ (Cardinality(C) = 0 <=> C = {})
  BY <1>3, FS_CardinalityType, FS_EmptySet
<1>5. C = {} <=> K = {}
  OBVIOUS
<1>6. K = {j \in Stream(s, i) : Later(s.versions[j], s.versions[i])}
  BY <1>1, VisibleIsKnown DEF Stream, Later, Clock
<1>7. SealPosition(s, i) = 1 + Cardinality(C)
  BY Zenon DEF SealPosition
<1> QED
  BY <1>4, <1>5, <1>6, <1>7 DEF IsHead

LEMMA TiesAreTied ==
  ASSUME NEW s \in Snapshots, NEW i \in Indices(s), Known(s, i)
  PROVE  SealTies(s, i) > 1 <=> Tied(s, i)
<1> DEFINE K == {j \in Visible(s) :
                   s.versions[j].by = s.versions[i].by /\ Clock(s, j) = Clock(s, i)}
<1>1. Visible(s) \subseteq Indices(s)
  BY DEF Visible
<1>2. IsFiniteSet(K) /\ i \in K
  BY <1>1, VersionsTyped, FS_Subset, VisibleIsKnown
<1>3. IsFiniteSet(K \ {i})
  BY <1>2, FS_Subset
<1>4. /\ Cardinality(K \ {i}) \in Nat
      /\ Cardinality(K \ {i}) = 0 <=> K \ {i} = {}
  BY <1>3, FS_CardinalityType, FS_EmptySet
<1>5. Cardinality(K \ {i}) = Cardinality(K) - 1 /\ Cardinality(K) \in Nat
  BY <1>2, FS_RemoveElement, FS_CardinalityType
<1>6. K \ {i} = {j \in Stream(s, i) \ {i} :
                   /\ s.versions[j].effective = s.versions[i].effective
                   /\ s.versions[j].observed = s.versions[i].observed}
  BY <1>1, VisibleIsKnown DEF Stream, Clock
<1>7. SealTies(s, i) = Cardinality(K)
  BY Zenon DEF SealTies
<1> QED
  BY <1>4, <1>5, <1>6, <1>7 DEF Tied

LEMMA SameApplicability ==
  ASSUME NEW s \in Snapshots, NEW i \in Indices(s)
  PROVE  SealApplicability(s, i) = Applicability(s, i)
<1>1. CASE Known(s, i)
  BY <1>1, VisibleIsKnown, PositionIsHead, TiesAreTied
  DEF SealApplicability, Applicability, Known
<1>2. CASE ~Known(s, i)
  <2>1. s.asOf \in Nat /\ s.versions[i].observed \in Nat
    BY VersionsTyped DEF Snapshots
  <2> QED
    BY <1>2, <2>1, VisibleIsKnown DEF SealApplicability, Applicability, Known, NotYetObserved
<1> QED
  BY <1>1, <1>2

-----------------------------------------------------------------------------
(* One version, read twice *)

\* What the one rule of a source adds to the deadlines.
RuleDeadline(s, i) ==
  LET from == IF "observed" \in s.definition.basis
              THEN s.versions[i].observed ELSE s.versions[i].effective
  IN IF Tier(s, i) = 0 \/ s.definition.basis = {} THEN 0 ELSE from + s.definition.duration

LEMMA RuleDeadlineTyped ==
  ASSUME NEW s \in Snapshots, NEW i \in Indices(s)
  PROVE  /\ RuleDeadline(s, i) \in Nat
         /\ Deadlines(s, i) = ({s.versions[i].until} \cup {RuleDeadline(s, i)}) \ {0}
<1>1. /\ s.versions[i].observed \in Nat \ {0} /\ s.versions[i].effective \in Nat \ {0}
      /\ s.versions[i].until \in Nat
  BY VersionsTyped
<1>2. s.definition.basis \in {{}, {"effective"}, {"observed"}} /\ s.definition.duration \in Nat
  BY DefinitionsTyped DEF Snapshots
<1>3. CASE Tier(s, i) = 0 \/ s.definition.basis = {}
  BY <1>1, <1>3 DEF RuleDeadline, Deadlines
<1>4. CASE Tier(s, i) # 0 /\ s.definition.basis = {"effective"}
  BY <1>1, <1>2, <1>4 DEF RuleDeadline, Deadlines
<1>5. CASE Tier(s, i) # 0 /\ s.definition.basis = {"observed"}
  BY <1>1, <1>2, <1>5 DEF RuleDeadline, Deadlines
<1> QED
  BY <1>2, <1>3, <1>4, <1>5

LEMMA SameExpiry ==
  ASSUME NEW s \in Snapshots, NEW i \in Indices(s)
  PROVE  SealExpiry(s, i) = Expiry(s, i) /\ Expiry(s, i) \in Nat
<1> DEFINE u == s.versions[i].until
           r == RuleDeadline(s, i)
<1>1. u \in Nat /\ r \in Nat /\ Deadlines(s, i) = ({u} \cup {r}) \ {0}
  BY VersionsTyped, RuleDeadlineTyped
<1>2. SealExpiry(s, i) = IF u = 0 \/ r = 0 THEN u + r ELSE Min({u, r})
  BY DEF SealExpiry, RuleDeadline
<1>3. Expiry(s, i) = IF Deadlines(s, i) = {} THEN 0 ELSE Min(Deadlines(s, i))
  BY DEF Expiry
<1> HIDE DEF u, r
<1>4. CASE u = 0 /\ r = 0
  BY <1>1, <1>2, <1>3, <1>4
<1>5. CASE u # 0 /\ r # 0
  <2>1. Deadlines(s, i) = {u, r}
    BY <1>1, <1>5
  <2> QED
    BY <1>1, <1>2, <1>3, <1>5, <2>1, LeastElement
<1>6. ASSUME NEW d \in Nat, d = u + r, d # 0, u = 0 \/ r = 0
      PROVE  SealExpiry(s, i) = Expiry(s, i) /\ Expiry(s, i) \in Nat
  <2>1. Deadlines(s, i) = {d}
    BY <1>1, <1>6
  <2>2. Min({d}) = d
    BY <1>6, LeastElement
  <2> QED
    BY <1>2, <1>3, <1>6, <2>1, <2>2
<1> QED
  BY <1>1, <1>4, <1>5, <1>6

LEMMA SameFreshness ==
  ASSUME NEW s \in Snapshots, ~s.definition.untilSuperseded, NEW i \in Indices(s)
  PROVE  SealFreshness(s, i) = Freshness(s, i, Applicability(s, i))
<1>1. s.asOf \in Nat /\ Expiry(s, i) \in Nat /\ SealExpiry(s, i) = Expiry(s, i)
  BY SameExpiry DEF Snapshots
<1>2. ~EventDate(s, i)
  BY DEF EventDate
<1> QED
  BY <1>1, <1>2, VisibleIsKnown DEF SealFreshness, Freshness

LEMMA SameReasons ==
  ASSUME NEW s, NEW i, NEW row
  PROVE  SealReasons(s, i, row.applicability, row.freshness) = Reasons(s, i, row)
<1>1. SealReasons(s, i, row.applicability, row.freshness) \subseteq Reasons(s, i, row)
  BY DEF SealReasons, Reasons, When
<1>2. Reasons(s, i, row) \subseteq SealReasons(s, i, row.applicability, row.freshness)
  BY DEF SealReasons, Reasons, When
<1> QED
  BY <1>1, <1>2

\* What both readings say of a version, in the evaluator's words.
ReadRow(s, i) == Row(s, i, Applicability(s, i))

LEMMA SameRow ==
  ASSUME NEW s \in Snapshots, ~s.definition.untilSuperseded, NEW i \in Indices(s)
  PROVE  SealRows(s)[i] =
           [applicability |-> ReadRow(s, i).applicability, expiry |-> ReadRow(s, i).expiry,
            reasons |-> Reasons(s, i, ReadRow(s, i))]
<1> DEFINE row == ReadRow(s, i)
<1>1. /\ row.applicability = SealApplicability(s, i)
      /\ row.expiry = SealExpiry(s, i)
      /\ row.freshness = SealFreshness(s, i)
  BY SameApplicability, SameExpiry, SameFreshness DEF ReadRow, Row
<1>2. SealRows(s)[i] = SealRow(s, i, SealApplicability(s, i), SealFreshness(s, i))
  BY DEF SealRows
<1> HIDE DEF row
<1>3. SealRows(s)[i] =
        [applicability |-> row.applicability, expiry |-> row.expiry,
         reasons |-> SealReasons(s, i, row.applicability, row.freshness)]
  BY <1>1, <1>2 DEF SealRow
<1> QED
  BY <1>3, SameReasons DEF row

-----------------------------------------------------------------------------
(* The two answers *)

\* The tests of the SQL on a version's reasons are those of the evaluator on
\* the version itself.
LEMMA ReasonsTested ==
  ASSUME NEW s, NEW i, NEW row,
         row.freshness \in {"CURRENT", "STALE", "UNKNOWN"}
  PROVE  LET qualifies == /\ Tier(s, i) # 0
                          /\ row.applicability \in {"APPLICABLE", "AMBIGUOUS"}
                          /\ s.versions[i].by \notin s.definition.gated
         IN /\ Reasons(s, i, row) \subseteq {"AMBIGUOUS_STREAM"}
                 <=> qualifies /\ row.freshness = "CURRENT"
            /\ Reasons(s, i, row) \subseteq {"AMBIGUOUS_STREAM", "STALE", "UNKNOWN_VALIDITY"}
                 <=> qualifies
<1> DEFINE R == Reasons(s, i, row)
<1>1. R \subseteq {"NO_AUTHORITY_RULE", "NOT_APPLICABLE", "AMBIGUOUS_STREAM",
                   "APPROVAL_REQUIRED", "STALE", "UNKNOWN_VALIDITY"}
  BY DEF Reasons
<1>2. /\ "NO_AUTHORITY_RULE" \in R <=> Tier(s, i) = 0
      /\ "NOT_APPLICABLE" \in R <=> row.applicability \notin {"APPLICABLE", "AMBIGUOUS"}
      /\ "APPROVAL_REQUIRED" \in R
           <=> Tier(s, i) # 0 /\ s.versions[i].by \in s.definition.gated
      /\ "STALE" \in R <=> row.freshness = "STALE"
      /\ "UNKNOWN_VALIDITY" \in R <=> row.freshness = "UNKNOWN"
  BY DEF Reasons
<1> HIDE DEF R
<1>3. R \subseteq {"AMBIGUOUS_STREAM"}
        <=> {"NO_AUTHORITY_RULE", "NOT_APPLICABLE", "APPROVAL_REQUIRED",
             "STALE", "UNKNOWN_VALIDITY"} \cap R = {}
  BY <1>1
<1>4. R \subseteq {"AMBIGUOUS_STREAM", "STALE", "UNKNOWN_VALIDITY"}
        <=> {"NO_AUTHORITY_RULE", "NOT_APPLICABLE", "APPROVAL_REQUIRED"} \cap R = {}
  BY <1>1
<1>5. R \subseteq {"AMBIGUOUS_STREAM"}
        <=> /\ Tier(s, i) # 0
            /\ row.applicability \in {"APPLICABLE", "AMBIGUOUS"}
            /\ s.versions[i].by \notin s.definition.gated
            /\ row.freshness = "CURRENT"
  BY <1>2, <1>3
<1>6. R \subseteq {"AMBIGUOUS_STREAM", "STALE", "UNKNOWN_VALIDITY"}
        <=> /\ Tier(s, i) # 0
            /\ row.applicability \in {"APPLICABLE", "AMBIGUOUS"}
            /\ s.versions[i].by \notin s.definition.gated
  BY <1>2, <1>4
<1> QED
  BY <1>5, <1>6 DEF R

LEMMA RowsRead ==
  ASSUME NEW s
  PROVE  /\ DOMAIN Rows(s) = Indices(s)
         /\ \A i \in Indices(s) : Rows(s)[i] = ReadRow(s, i)
         /\ DOMAIN SealRows(s) = Indices(s)
         /\ \A i \in Indices(s) :
              ReadRow(s, i).freshness \in {"CURRENT", "STALE", "UNKNOWN"}
BY DEF Rows, ReadRow, Row, SealRows, Freshness

Eligible(s) == {i \in Indices(s) : ReadRow(s, i).counts /\ ReadRow(s, i).freshness = "CURRENT"}
Heard(s) == {i \in Indices(s) : ReadRow(s, i).counts}

LEMMA SameClaims ==
  ASSUME NEW s \in Snapshots, ~s.definition.untilSuperseded
  PROVE  /\ Claims(s, SealRows(s), {"AMBIGUOUS_STREAM"}) = Eligible(s)
         /\ Claims(s, SealRows(s), {"AMBIGUOUS_STREAM", "STALE", "UNKNOWN_VALIDITY"}) = Heard(s)
<1>1. ASSUME NEW i \in Indices(s)
      PROVE  /\ SealRows(s)[i].reasons = Reasons(s, i, ReadRow(s, i))
             /\ ReadRow(s, i).counts
                  <=> /\ Tier(s, i) # 0
                      /\ ReadRow(s, i).applicability \in {"APPLICABLE", "AMBIGUOUS"}
                      /\ s.versions[i].by \notin s.definition.gated
                      /\ Readable(s, i)
  <2>1. SealRows(s)[i].reasons = Reasons(s, i, ReadRow(s, i))
    <3>1. SealRows(s)[i] =
            [applicability |-> ReadRow(s, i).applicability, expiry |-> ReadRow(s, i).expiry,
             reasons |-> Reasons(s, i, ReadRow(s, i))]
      BY SameRow, Zenon
    <3> QED
      BY <3>1
  <2>2. ReadRow(s, i).counts
          = (/\ ReadRow(s, i).applicability \in {"APPLICABLE", "AMBIGUOUS"}
             /\ Tier(s, i) # 0 /\ s.versions[i].by \notin s.definition.gated
             /\ Readable(s, i))
    BY Zenon DEF ReadRow, Row
  <2> QED
    BY <2>1, <2>2
<1> DEFINE qualifies(i) == /\ Tier(s, i) # 0
                           /\ ReadRow(s, i).applicability \in {"APPLICABLE", "AMBIGUOUS"}
                           /\ s.versions[i].by \notin s.definition.gated
<1>2. ASSUME NEW i \in Indices(s)
      PROVE  /\ Reasons(s, i, ReadRow(s, i)) \subseteq {"AMBIGUOUS_STREAM"}
                  <=> qualifies(i) /\ ReadRow(s, i).freshness = "CURRENT"
             /\ Reasons(s, i, ReadRow(s, i))
                  \subseteq {"AMBIGUOUS_STREAM", "STALE", "UNKNOWN_VALIDITY"}
                  <=> qualifies(i)
  BY RowsRead, ReasonsTested
<1> QED
  BY <1>1, <1>2, RowsRead DEF Claims, Eligible, Heard

\* The best of the eligible, for both.
Best(s) == {i \in Eligible(s) : \A j \in Eligible(s) : Tier(s, i) <= Tier(s, j)}

LEMMA SelectedRead ==
  ASSUME NEW s
  PROVE  Selected(s, Rows(s)) = Best(s)
BY RowsRead DEF Selected, Best, Eligible

LEMMA SameSelected ==
  ASSUME NEW s \in Snapshots, ~s.definition.untilSuperseded
  PROVE  SealSelected(s, SealRows(s)) = Best(s)
<1> DEFINE T == {Tier(s, j) : j \in Eligible(s)}
<1>1. \A j \in Eligible(s) : Tier(s, j) \in Nat
  BY VersionsTyped DEF Eligible, Tier
<1>2. SealSelected(s, SealRows(s)) = {i \in Eligible(s) : Tier(s, i) = Min(T)}
  BY SameClaims DEF SealSelected
<1>3. CASE Eligible(s) = {}
  BY <1>2, <1>3 DEF Best
<1>4. CASE Eligible(s) # {}
  <2>1. T \in SUBSET Nat /\ T # {}
    BY <1>1, <1>4
  <2>2. PICK j \in Eligible(s) : Tier(s, j) = Min(T)
    BY <2>1, LeastElement
  <2>3. \A i \in Eligible(s) : Min(T) <= Tier(s, i) /\ Min(T) \in Nat
    BY <2>1, LeastElement
  <2>4. \A i \in Eligible(s) :
          Tier(s, i) = Min(T) <=> \A k \in Eligible(s) : Tier(s, i) <= Tier(s, k)
    BY <1>1, <2>2, <2>3
  <2> QED
    BY <1>2, <2>4 DEF Best
<1> QED
  BY <1>3, <1>4

LEMMA ValuesDiffer ==
  ASSUME NEW s \in Snapshots, NEW S \in SUBSET Indices(s)
  PROVE  Cardinality({s.versions[i].value : i \in S}) > 1
           <=> \E i, j \in S : s.versions[i].value # s.versions[j].value
<1> DEFINE V == {s.versions[i].value : i \in S}
<1>1. IsFiniteSet(S)
  BY VersionsTyped, FS_Subset
<1>2. [i \in S |-> s.versions[i].value] \in Surjection(S, V)
  BY Zenon DEF Surjection
<1>3. IsFiniteSet(V)
  BY <1>1, <1>2, FS_Surjection
<1>4. Cardinality(V) \in Nat /\ (Cardinality(V) = 0 <=> V = {})
  BY <1>3, FS_CardinalityType, FS_EmptySet
<1>5. Cardinality(V) = 1 <=> \E x : V = {x}
  BY <1>3, FS_Singleton
<1>6. ASSUME NEW i \in S, NEW j \in S, s.versions[i].value # s.versions[j].value
      PROVE  Cardinality(V) > 1
  <2>1. s.versions[i].value \in V /\ s.versions[j].value \in V
    OBVIOUS
  <2>2. V # {} /\ ~\E x : V = {x}
    BY <1>6, <2>1
  <2> HIDE DEF V
  <2> QED
    BY <1>4, <1>5, <2>2
<1>7. ASSUME \A i, j \in S : s.versions[i].value = s.versions[j].value
      PROVE  ~(Cardinality(V) > 1)
  <2>1. CASE S = {}
    <3>1. V = {}
      BY <2>1
    <3> HIDE DEF V
    <3> QED
      BY <1>4, <3>1
  <2>2. CASE S # {}
    <3>1. PICK i \in S : TRUE
      BY <2>2
    <3>2. V = {s.versions[i].value}
      BY <1>7, <3>1
    <3>3. Cardinality(V) = 1
      BY <3>2, FS_Singleton
    <3> QED
      BY <3>3
  <2> QED
    BY <2>1, <2>2
<1> QED
  BY <1>6, <1>7

LEMMA SameDisagreements ==
  ASSUME NEW s \in Snapshots
  PROVE  SealDisagreements(s, Best(s)) = Disagreements(s, Best(s))
<1>1. Best(s) \in SUBSET Indices(s)
  BY DEF Best, Eligible
<1>2. Cardinality({s.versions[i].value : i \in Best(s)}) > 1
        <=> \E i, j \in Best(s) : s.versions[i].value # s.versions[j].value
  BY <1>1, ValuesDiffer
<1> QED
  BY <1>2 DEF SealDisagreements, Disagreements

\* Who is heard against one of the best.
Higher(s, i) ==
  {j \in Heard(s) : Tier(s, j) < Tier(s, i) /\ s.versions[j].value # s.versions[i].value}

Clashing(s) ==
  LET overruled == {i \in Best(s) : Higher(s, i) # {}}
  IN overruled \cup UNION {Higher(s, i) : i \in overruled}

LEMMA ContradictionsRead ==
  ASSUME NEW s
  PROVE  Contradictions(s, Rows(s), Best(s)) = {g \in {Clashing(s)} : g # {}}
<1>1. \A i : Against(s, Rows(s), i) = Higher(s, i)
  BY RowsRead DEF Against, Higher, Heard
<1> QED
  BY <1>1 DEF Contradictions, Clashing

LEMMA SameContradictions ==
  ASSUME NEW s \in Snapshots, ~s.definition.untilSuperseded
  PROVE  SealContradictions(s, SealRows(s), Best(s)) = Contradictions(s, Rows(s), Best(s))
<1> DEFINE clashes == {p \in Best(s) \X Heard(s) :
                         /\ Tier(s, p[2]) < Tier(s, p[1])
                         /\ s.versions[p[2]].value # s.versions[p[1]].value}
           U == UNION {{p[1], p[2]} : p \in clashes}
<1>1. SealContradictions(s, SealRows(s), Best(s)) = {g \in {U} : g # {}}
  BY SameClaims, Zenon DEF SealContradictions
<1>2. ASSUME NEW i \in Best(s), NEW j \in Higher(s, i)
      PROVE  i \in U /\ j \in U
  <2>1. <<i, j>> \in clashes
    BY <1>2 DEF Higher
  <2>2. {<<i, j>>[1], <<i, j>>[2]} \in {{p[1], p[2]} : p \in clashes}
    BY <2>1
  <2>3. {i, j} \in {{p[1], p[2]} : p \in clashes}
    BY <2>2
  <2> QED
    BY <2>3
<1>3. ASSUME NEW p \in clashes
      PROVE  p[1] \in Best(s) /\ p[2] \in Higher(s, p[1])
  BY DEF Higher
<1>4. Clashing(s) \subseteq U
  BY <1>2 DEF Clashing
<1>5. U \subseteq Clashing(s)
  <2>1. ASSUME NEW p \in clashes
        PROVE  p[1] \in Clashing(s) /\ p[2] \in Clashing(s)
    BY <1>3 DEF Clashing
  <2> QED
    BY <2>1
<1>6. U = Clashing(s)
  BY <1>4, <1>5
<1> QED
  BY <1>1, <1>6, ContradictionsRead

LEMMA SameStatus ==
  ASSUME NEW s \in Snapshots, ~s.definition.untilSuperseded, NEW disputes
  PROVE  SealStatus(s, SealRows(s), Best(s), disputes # {})
           = Status(s, Rows(s), Best(s), disputes)
<1>1. \A i \in Indices(s) : SealRows(s)[i].applicability = Rows(s)[i].applicability
  <2>1. TAKE i \in Indices(s)
  <2>2. SealRows(s)[i] =
          [applicability |-> ReadRow(s, i).applicability, expiry |-> ReadRow(s, i).expiry,
           reasons |-> Reasons(s, i, ReadRow(s, i))]
    BY SameRow, Zenon
  <2> QED
    BY <2>2, RowsRead
<1>2. Best(s) \subseteq Indices(s)
  BY DEF Best, Eligible
<1> QED
  BY <1>1, <1>2, RowsRead DEF SealStatus, Status

Found(s) == Disagreements(s, Best(s)) \cup Contradictions(s, Rows(s), Best(s))

LEMMA AnswerRead ==
  ASSUME NEW s, NEW e \in Evaluations(s)
  PROVE  /\ e.rows = Rows(s)
         /\ e.answer.selected = Best(s)
         /\ e.answer.disagreements = Disagreements(s, Best(s))
         /\ e.answer.contradictions = Contradictions(s, Rows(s), Best(s))
         /\ e.answer.disputed =
              UNION ((IF s.complete THEN s.recorded ELSE {}) \cup Found(s))
         /\ e.answer.status =
              Status(s, Rows(s), Best(s),
                     (IF s.complete THEN s.recorded ELSE {}) \cup Found(s))
<1>1. e = [rows |-> Rows(s), answer |-> Answer(s, Rows(s))]
  BY DEF Evaluations
<1>2. Selected(s, Rows(s)) = Best(s)
  BY SelectedRead
<1> DEFINE all == (IF s.complete THEN s.recorded ELSE {})
                    \cup Disagreements(s, Best(s)) \cup Contradictions(s, Rows(s), Best(s))
<1>3. Answer(s, Rows(s)) =
        [selected |-> Best(s), disagreements |-> Disagreements(s, Best(s)),
         contradictions |-> Contradictions(s, Rows(s), Best(s)),
         disputed |-> UNION all, status |-> Status(s, Rows(s), Best(s), all)]
  BY <1>2 DEF Answer
<1>4. all = (IF s.complete THEN s.recorded ELSE {}) \cup Found(s)
  BY DEF Found
<1> HIDE DEF all
<1>5. /\ e.rows = Rows(s)
      /\ e.answer = Answer(s, Rows(s))
  BY <1>1
<1>6. /\ e.answer.selected = Best(s)
      /\ e.answer.disagreements = Disagreements(s, Best(s))
      /\ e.answer.contradictions = Contradictions(s, Rows(s), Best(s))
      /\ e.answer.disputed = UNION all
      /\ e.answer.status = Status(s, Rows(s), Best(s), all)
  BY <1>3, <1>5
<1> QED
  BY <1>4, <1>5, <1>6, Zenon

\* The two implementations of the rules agree, on every history.
LEMMA SealAgrees ==
  ASSUME NEW s \in Snapshots, ~s.definition.untilSuperseded, NEW e \in Evaluations(s)
  PROVE  SealAccepts(s, e)
<1> DEFINE rows == SealRows(s)
           disagreements == SealDisagreements(s, SealSelected(s, rows))
           contradictions == SealContradictions(s, rows, SealSelected(s, rows))
<1>1. /\ SealSelected(s, rows) = Best(s)
      /\ disagreements = Disagreements(s, Best(s))
      /\ contradictions = Contradictions(s, Rows(s), Best(s))
  BY SameSelected, SameDisagreements, SameContradictions, Zenon
<1>2. ASSUME NEW i \in DOMAIN rows
      PROVE  rows[i] = [applicability |-> e.rows[i].applicability,
                        expiry |-> e.rows[i].expiry,
                        reasons |-> Reasons(s, i, e.rows[i])]
  <2>1. i \in Indices(s) /\ e.rows[i] = ReadRow(s, i)
    BY AnswerRead, RowsRead
  <2>2. SealRows(s)[i] =
          [applicability |-> ReadRow(s, i).applicability, expiry |-> ReadRow(s, i).expiry,
           reasons |-> Reasons(s, i, ReadRow(s, i))]
    BY <2>1, SameRow, Zenon
  <2> QED
    BY <2>1, <2>2, Zenon
<1> DEFINE all == s.recorded \cup disagreements \cup contradictions
           read == (IF s.complete THEN s.recorded ELSE {}) \cup Found(s)
<1>3. e.answer.status = SealStatus(s, rows, Best(s), all # {})
  <2>1. e.answer.status = Status(s, Rows(s), Best(s), read)
    BY AnswerRead
  <2>2. CASE s.complete
    <3>1. all = read
      BY <1>1, <2>2 DEF Found
    <3>2. SealStatus(s, rows, Best(s), all # {}) = Status(s, Rows(s), Best(s), all)
      BY SameStatus, Zenon
    <3> QED
      BY <2>1, <3>1, <3>2, Zenon
  <2>3. CASE ~s.complete
    BY <2>1, <2>3, Zenon DEF Status, SealStatus
  <2> QED
    BY <2>2, <2>3
<1>4. /\ e.answer.selected = SealSelected(s, rows)
      /\ e.answer.disagreements = disagreements
      /\ e.answer.contradictions = contradictions
  BY <1>1, AnswerRead
<1>5. e.answer.status = SealStatus(s, rows, SealSelected(s, rows), all # {})
  BY <1>1, <1>3, Zenon
<1> DEFINE Accepts(r) ==
             /\ \A i \in DOMAIN r :
                  Readable(s, i) =>
                    r[i] = [applicability |-> e.rows[i].applicability,
                            expiry |-> e.rows[i].expiry,
                            reasons |-> Reasons(s, i, e.rows[i])]
             /\ e.answer.selected = SealSelected(s, r)
             /\ e.answer.disagreements = SealDisagreements(s, SealSelected(s, r))
             /\ e.answer.contradictions = SealContradictions(s, r, SealSelected(s, r))
             /\ e.answer.status = SealStatus(s, r, SealSelected(s, r),
                  s.recorded \cup SealDisagreements(s, SealSelected(s, r))
                             \cup SealContradictions(s, r, SealSelected(s, r)) # {})
<1>6. Accepts(rows)
  BY <1>2, <1>4, <1>5, Zenon
<1>7. SealAccepts(s, e) <=> \A r \in {SealRows(s)} : Accepts(r)
  BY Zenon DEF SealAccepts
<1> QED
  BY <1>6, <1>7, Zenon

-----------------------------------------------------------------------------
(* What an assessment retains *)

\* The conflicts recorded before have no part in what is found now.
LEMMA RecordedAside ==
  ASSUME NEW s, NEW t, s.complete = t.complete, s.versions = t.versions,
         s.asOf = t.asOf, s.definition = t.definition, s.readable = t.readable
  PROVE  Found(s) = Found(t)
<1>1. Indices(s) = Indices(t)
  BY DEF Indices
<1>2. \A i : Known(s, i) = Known(t, i)
  BY DEF Known, NotYetObserved, NotYetEffective
<1>3. \A i : Stream(s, i) = Stream(t, i)
  BY <1>1, <1>2 DEF Stream
<1>4. \A i : IsHead(s, i) = IsHead(t, i) /\ Tied(s, i) = Tied(t, i)
  BY <1>2, <1>3 DEF IsHead, Tied
<1>5. \A i : Applicability(s, i) = Applicability(t, i)
  BY <1>4 DEF Applicability, NotYetObserved, NotYetEffective
<1>6. \A i : Tier(s, i) = Tier(t, i) /\ Readable(s, i) = Readable(t, i)
             /\ Expiry(s, i) = Expiry(t, i) /\ EventDate(s, i) = EventDate(t, i)
  BY DEF Tier, Readable, Expiry, Deadlines, EventDate
<1>7. \A i, x : Freshness(s, i, x) = Freshness(t, i, x)
  BY <1>2, <1>6, Zenon DEF Freshness
<1>8. \A i : ReadRow(s, i) = ReadRow(t, i)
  BY <1>5, <1>6, <1>7, Zenon DEF ReadRow, Row
<1>9. Eligible(s) = Eligible(t) /\ Heard(s) = Heard(t)
  BY <1>1, <1>8 DEF Eligible, Heard
<1>10. Best(s) = Best(t)
  BY <1>6, <1>9 DEF Best
<1>11. \A i : Higher(s, i) = Higher(t, i)
  BY <1>6, <1>9 DEF Higher
<1>12. Clashing(s) = Clashing(t)
  BY <1>10, <1>11 DEF Clashing
<1>13. Disagreements(s, Best(s)) = Disagreements(t, Best(t))
  BY <1>10 DEF Disagreements
<1> QED
  BY <1>12, <1>13, ContradictionsRead DEF Found

LEMMA HeardIsSeen ==
  ASSUME NEW s \in Snapshots, NEW i \in Heard(s)
  PROVE  i \in Indices(s) /\ Seen(s, i) /\ s.definition.enabled
<1>1. i \in Indices(s) /\ ReadRow(s, i).counts
  BY DEF Heard
<1>2. Applicability(s, i) \in {"APPLICABLE", "AMBIGUOUS"} /\ Tier(s, i) # 0
  BY <1>1, Zenon DEF ReadRow, Row
<1>3. Known(s, i)
  BY <1>2, Zenon DEF Applicability, Known
<1>4. i \in Visible(s)
  BY <1>1, <1>3, VisibleIsKnown
<1>5. s.definition \in Definitions \cup {NoDefinition} /\ s.versions[i].by \in Subjects
  BY <1>1, VersionsTyped DEF Snapshots
<1>6. s.definition.enabled
  BY <1>2, <1>5, DefinitionsTyped DEF Tier
<1> QED
  BY <1>1, <1>4, <1>6 DEF Visible

Differ(s, S) == \E i, j \in S : s.versions[i].value # s.versions[j].value

LEMMA FoundDiffer ==
  ASSUME NEW s, NEW g \in Found(s)
  PROVE  g \subseteq Heard(s) /\ Differ(s, g)
<1>1. Best(s) \subseteq Heard(s)
  BY DEF Best, Eligible, Heard
<1>2. CASE g \in Disagreements(s, Best(s))
  BY <1>1, <1>2 DEF Disagreements, Differ
<1>3. CASE g \in Contradictions(s, Rows(s), Best(s))
  <2>1. g = Clashing(s) /\ g # {}
    BY <1>3, ContradictionsRead
  <2>2. \A i : Higher(s, i) \subseteq Heard(s)
    BY DEF Higher
  <2>3. Clashing(s) \subseteq Heard(s)
    BY <1>1, <2>2 DEF Clashing
  <2>4. PICK i \in Best(s) : Higher(s, i) # {}
    BY <2>1 DEF Clashing
  <2>5. PICK j \in Higher(s, i) : TRUE
    BY <2>4
  <2>6. i \in Clashing(s) /\ j \in Clashing(s)
    BY <2>4, <2>5 DEF Clashing
  <2>7. s.versions[j].value # s.versions[i].value
    BY <2>5 DEF Higher
  <2> QED
    BY <2>1, <2>3, <2>6, <2>7 DEF Differ
<1> QED
  BY <1>2, <1>3 DEF Found

\* The pairs of a group name all its members, each beside one that differs.
LEMMA PairsCover ==
  ASSUME NEW s, NEW g \in SUBSET Nat, Differ(s, g)
  PROVE  /\ \A pair \in Pairs(s, g) : pair \subseteq g /\ Differ(s, pair)
         /\ \A i \in g : \E pair \in Pairs(s, g) : i \in pair
<1> DEFINE differ(i, j) == s.versions[i].value # s.versions[j].value
           first == Min(g)
           others == {i \in g : differ(i, first)}
           other == Min(others)
           pairOf(i) == {i, IF differ(i, first) THEN first ELSE other}
<1>1. first \in g
  BY LeastElement DEF Differ
<1>2. others # {}
  BY <1>1 DEF Differ
<1>3. other \in others
  BY <1>2, LeastElement
<1>4. Pairs(s, g) = {pairOf(i) : i \in g \ {first}}
  BY Zenon DEF Pairs
<1> HIDE DEF first, other
<1>5. ASSUME NEW i \in g \ {first}
      PROVE  pairOf(i) \subseteq g /\ Differ(s, pairOf(i)) /\ i \in pairOf(i)
  BY <1>1, <1>3 DEF Differ
<1>6. other # first /\ first \in pairOf(other)
  BY <1>3
<1>7. ASSUME NEW i \in g
      PROVE  \E pair \in Pairs(s, g) : i \in pair
  <2>1. CASE i = first
    BY <1>3, <1>4, <1>6, <2>1
  <2>2. CASE i # first
    BY <1>4, <1>5, <2>2
  <2> QED
    BY <2>1, <2>2
<1> QED
  BY <1>4, <1>5, <1>7

-----------------------------------------------------------------------------
(* What a command reads *)

LEMMA ActiveTyped ==
  ASSUME FactTypeOK
  PROVE  /\ Active \in Nat
         /\ Active = 0 \/ Active \in DOMAIN policies
         /\ Definition \in Definitions \cup {NoDefinition}
         /\ Definition # NoDefinition => Active \in DOMAIN policies
<1> DEFINE inForce == {r \in DOMAIN policies : InForce(r)}
<1>1. policies \in Seq(PolicyRows) /\ DOMAIN policies = 1 .. Len(policies)
      /\ Len(policies) \in Nat
  BY DEF FactTypeOK
<1>2. Active = IF inForce = {} THEN 0 ELSE Max(inForce)
  BY DEF Active
<1>3. inForce \in SUBSET (1 .. Len(policies))
  BY <1>1
<1>4. Active = 0 \/ Active \in DOMAIN policies
  BY <1>1, <1>2, <1>3, GreatestElement
<1>5. ASSUME Active \in DOMAIN policies
      PROVE  policies[Active].definition \in Definitions \cup {NoDefinition}
  <2>1. policies[Active] \in PolicyRows
    BY <1>1, <1>5
  <2> QED
    BY <2>1 DEF PolicyRows
<1> QED
  BY <1>1, <1>4, <1>5 DEF Definition

LEMMA SnapshotTyped ==
  ASSUME FactTypeOK, NEW u, NEW pairs \in SUBSET (SUBSET Nat)
  PROVE  Snapshot(u, pairs) \in Snapshots
<1>1. Sources \subseteq Subjects
  <2>1. \A i \in DOMAIN versions : versions[i] \in VersionRows
    BY DEF FactTypeOK
  <2> QED
    BY <2>1 DEF Sources, VersionRows
<1>2. {x \in Sources : u \in readers[x]} \in SUBSET Subjects
  BY <1>1
<1>3. versions \in Seq(VersionRows) /\ now \in Nat
  BY DEF FactTypeOK, Instants
<1>4. Definition \in Definitions \cup {NoDefinition}
  BY ActiveTyped
<1>5. (Len(versions) <= HistoryLimit /\ Cardinality(pairs) <= ConflictLimit) \in BOOLEAN
  OBVIOUS
<1> QED
  BY <1>2, <1>3, <1>4, <1>5, Zenon DEF Snapshot, Snapshots

\* What a reader's assessment adds to the conflicts.
Retained(u) == UNION {Pairs(Snapshot(u, conflicts), g) : g \in Found(Snapshot(u, conflicts))}

LEMMA AssessedShape ==
  ASSUME NEW u, NEW a \in Assessed(u)
  PROVE  /\ a.snapshot = Snapshot(u, conflicts \cup Retained(u))
         /\ a.evaluation \in Evaluations(a.snapshot)
<1> DEFINE s == Snapshot(u, conflicts)
<1>1. \A e \in Evaluations(s) : Discovered(s, e.answer) = Retained(u)
  <2>1. TAKE e \in Evaluations(s)
  <2>2. e.answer.disagreements \cup e.answer.contradictions = Found(s)
    BY AnswerRead DEF Found
  <2> HIDE DEF s
  <2>3. Discovered(s, e.answer) = UNION {Pairs(s, g) : g \in Found(s)}
    BY <2>2, Zenon DEF Discovered
  <2> QED
    BY <2>3 DEF Retained, s
<1>2. \A t \in Prepared(u) : t = Snapshot(u, conflicts \cup Retained(u))
  <2>1. TAKE t \in Prepared(u)
  <2>2. PICK e \in Evaluations(s) : t = Snapshot(u, conflicts \cup Discovered(s, e.answer))
    BY Zenon DEF Prepared
  <2> QED
    BY <1>1, <2>2, Zenon
<1>3. PICK t \in Prepared(u) : \E e \in Evaluations(t) : a = [snapshot |-> t, evaluation |-> e]
  BY Zenon DEF Assessed
<1> QED
  BY <1>2, <1>3

LEMMA RetainedFacts ==
  ASSUME FactTypeOK, NEW u
  PROVE  LET s == Snapshot(u, conflicts) IN
         /\ Retained(u) \subseteq SUBSET Nat
         /\ \A pair \in Retained(u) : Differ(s, pair) /\ \A i \in pair : i \in Heard(s)
         /\ UNION Found(s) \subseteq UNION Retained(u)
<1> DEFINE s == Snapshot(u, conflicts)
<1>1. s \in Snapshots
  BY SnapshotTyped DEF FactTypeOK
<1> HIDE DEF s
<1>2. Heard(s) \subseteq Nat
  BY <1>1, VersionsTyped DEF Heard
<1>3. ASSUME NEW g \in Found(s)
      PROVE  /\ g \in SUBSET Nat /\ g \subseteq Heard(s)
             /\ \A pair \in Pairs(s, g) : pair \subseteq g /\ Differ(s, pair)
             /\ \A i \in g : \E pair \in Pairs(s, g) : i \in pair
  BY <1>2, FoundDiffer, PairsCover
<1>4. Retained(u) = UNION {Pairs(s, g) : g \in Found(s)}
  BY DEF Retained, s
<1>5. ASSUME NEW pair \in Retained(u)
      PROVE  pair \subseteq Heard(s) /\ Differ(s, pair)
  <2>1. PICK g \in Found(s) : pair \in Pairs(s, g)
    BY <1>4
  <2> QED
    BY <1>3, <2>1
<1>6. UNION Found(s) \subseteq UNION Retained(u)
  BY <1>3, <1>4
<1> QED
  BY <1>2, <1>5, <1>6 DEF s

\* What is retained is what the final answer finds.
LEMMA FoundIsRetained ==
  ASSUME FactTypeOK, NEW u, NEW a \in Assessed(u), a.snapshot.complete
  PROVE  UNION Found(a.snapshot) \subseteq UNION Retained(u)
<1> DEFINE s == Snapshot(u, conflicts)
           t == Snapshot(u, conflicts \cup Retained(u))
<1>1. a.snapshot = t /\ t.complete
  BY AssessedShape
<1>3. CASE s.complete
  <2>1. s.complete = t.complete
    BY <1>1, <1>3 DEF Snapshot
  <2>2. s.versions = t.versions /\ s.asOf = t.asOf /\ s.definition = t.definition
        /\ s.readable = t.readable
    BY DEF Snapshot
  <2> HIDE DEF s, t
  <2>3. Found(t) = Found(s)
    BY <2>1, <2>2, RecordedAside
  <2> QED
    BY <1>1, <2>3, RetainedFacts DEF s
<1>4. CASE ~s.complete
  <2>2. Indices(s) = {}
    BY <1>4, Zenon DEF Indices
  <2>3. Found(s) = {}
    <3>1. \A g \in Found(s) : g \subseteq Indices(s) /\ Differ(s, g)
      BY FoundDiffer DEF Heard
    <3> QED
      BY <2>2, <3>1 DEF Differ
  <2>4. Retained(u) = {}
    BY <2>3 DEF Retained
  <2>5. t = s
    BY <2>4 DEF Snapshot
  <2> QED
    BY <1>1, <1>4, <2>5
<1> QED
  BY <1>3, <1>4

-----------------------------------------------------------------------------
(* Captures *)

LEMMA SnapshotFields ==
  ASSUME NEW u, NEW pairs
  PROVE  /\ Snapshot(u, pairs).versions = versions
         /\ Snapshot(u, pairs).recorded = pairs
         /\ Snapshot(u, pairs).asOf = now
         /\ Snapshot(u, pairs).definition = Definition
BY DEF Snapshot

LEMMA AssessedFacts ==
  ASSUME FactTypeOK, NEW u, NEW a \in Assessed(u)
  PROVE  /\ a.snapshot \in Snapshots
         /\ a.evaluation \in Evaluations(a.snapshot)
         /\ a.snapshot.recorded = conflicts \cup Retained(u)
         /\ a.snapshot.versions = versions /\ a.snapshot.asOf = now
         /\ a.snapshot.definition = Definition
<1>1. conflicts \cup Retained(u) \in SUBSET (SUBSET Nat)
  BY RetainedFacts DEF FactTypeOK
<1>2. a.snapshot = Snapshot(u, conflicts \cup Retained(u))
  BY AssessedShape
<1>3. a.snapshot \in Snapshots
  BY <1>1, <1>2, SnapshotTyped
<1> QED
  BY <1>2, <1>3, AssessedShape, SnapshotFields

LEMMA RetainedIsValid ==
  ASSUME FactTypeOK, NEW u, NEW pair \in Retained(u)
  PROVE  /\ pair \subseteq DOMAIN versions
         /\ \E i, j \in pair : versions[i].value # versions[j].value
         /\ \A i \in pair : versions[i].observed <= now /\ versions[i].effective <= now
         /\ Definition.enabled
<1> DEFINE s == Snapshot(u, conflicts)
<1>1. s \in Snapshots
  BY SnapshotTyped DEF FactTypeOK
<1>2. s.versions = versions /\ s.asOf = now /\ s.definition = Definition
  BY SnapshotFields
<1>3. Differ(s, pair) /\ \A i \in pair : i \in Heard(s)
  BY RetainedFacts
<1> HIDE DEF s
<1>4. \A i \in pair : i \in Indices(s) /\ Seen(s, i) /\ s.definition.enabled
  BY <1>1, <1>3, HeardIsSeen
<1>5. Indices(s) \subseteq DOMAIN versions
  BY <1>2 DEF Indices
<1>6. \E i, j \in pair : versions[i].value # versions[j].value
  BY <1>2, <1>3 DEF Differ
<1> QED
  BY <1>2, <1>4, <1>5, <1>6 DEF Seen

\* An answer under a policy that is not enabled is not a dispute.
LEMMA AnswerFacts ==
  ASSUME NEW s \in Snapshots, NEW e \in Evaluations(s)
  PROVE  /\ e.answer.status \in Statuses
         /\ e.answer.selected \in SUBSET Nat
         /\ e.answer.disputed \in SUBSET Nat
         /\ e.answer.status = "CONFLICTING" => s.complete /\ s.definition.enabled
         /\ e.answer.status = "RESOLVED" =>
              /\ s.complete /\ s.recorded = {} /\ Found(s) = {}
              /\ \A i \in Indices(s) : Readable(s, i)
              /\ Best(s) # {}
<1> DEFINE all == (IF s.complete THEN s.recorded ELSE {}) \cup Found(s)
<1>1. /\ e.answer.selected = Best(s)
      /\ e.answer.disputed = UNION all
      /\ e.answer.status = Status(s, Rows(s), Best(s), all)
  BY AnswerRead
<1>2. Best(s) \in SUBSET Nat /\ Heard(s) \subseteq Nat
  BY VersionsTyped DEF Best, Eligible, Heard
<1>3. \A g \in Found(s) : g \in SUBSET Nat
  BY <1>2, FoundDiffer
<1>4. s.recorded \in SUBSET (SUBSET Nat)
  BY DEF Snapshots
<1>5. UNION all \in SUBSET Nat
  BY <1>3, <1>4
<1>6. DOMAIN Rows(s) = Indices(s)
  BY RowsRead
<1> HIDE DEF all
<1>7. Status(s, Rows(s), Best(s), all) \in Statuses
  BY DEF Status, Statuses
<1>8. Status(s, Rows(s), Best(s), all) = "CONFLICTING" => s.complete /\ s.definition.enabled
  BY DEF Status
<1>9. Status(s, Rows(s), Best(s), all) = "RESOLVED" =>
        /\ s.complete /\ all = {}
        /\ \A i \in Indices(s) : Readable(s, i)
        /\ Best(s) # {}
  BY <1>6 DEF Status
<1>10. s.complete /\ all = {} => s.recorded = {} /\ Found(s) = {}
  BY DEF all
<1> QED
  BY <1>1, <1>2, <1>5, <1>7, <1>8, <1>9, <1>10

\* What a capture does to the two tables.
LEMMA CaptureEffect ==
  ASSUME FactTypeOK, NEW u, NEW a \in Assessed(u), Capture(a)
  PROVE  /\ conflicts' = conflicts \cup Retained(u)
         /\ latest' = [policy |-> Active, status |-> a.evaluation.answer.status,
                       selected |-> Best(a.snapshot),
                       disputed |-> a.evaluation.answer.disputed,
                       recorded |-> IF a.snapshot.complete
                                    THEN conflicts \cup Retained(u) ELSE {}]
         /\ latest' \in AssessmentRows
         /\ conflicts' \subseteq SUBSET Nat
         /\ UNCHANGED <<now, versions, readers, policies, grants>>
<1>1. /\ conflicts' = conflicts \cup Retained(u)
      /\ conflicts' \subseteq SUBSET Nat
  <2>1. conflicts' = a.snapshot.recorded
    BY DEF Capture
  <2>2. a.snapshot.recorded = conflicts \cup Retained(u)
    BY AssessedFacts
  <2>3. Retained(u) \subseteq SUBSET Nat
    BY RetainedFacts
  <2>4. conflicts \subseteq SUBSET Nat
    BY DEF FactTypeOK
  <2> QED
    BY <2>1, <2>2, <2>3, <2>4
<1>2. /\ a.snapshot \in Snapshots /\ a.evaluation \in Evaluations(a.snapshot)
      /\ a.snapshot.recorded = conflicts \cup Retained(u)
  BY AssessedFacts
<1>3. /\ a.evaluation.answer.status \in Statuses
      /\ a.evaluation.answer.selected \in SUBSET Nat
      /\ a.evaluation.answer.disputed \in SUBSET Nat
      /\ a.evaluation.answer.selected = Best(a.snapshot)
  BY <1>2, AnswerFacts, AnswerRead
<1>4. latest' = [policy |-> Active, status |-> a.evaluation.answer.status,
                 selected |-> Best(a.snapshot),
                 disputed |-> a.evaluation.answer.disputed,
                 recorded |-> IF a.snapshot.complete
                              THEN conflicts \cup Retained(u) ELSE {}]
  BY <1>2, <1>3 DEF Capture
<1>5. (IF a.snapshot.complete THEN conflicts \cup Retained(u) ELSE {}) \in SUBSET (SUBSET Nat)
  BY <1>1
<1>6. latest' \in AssessmentRows
  BY <1>3, <1>4, <1>5, ActiveTyped DEF AssessmentRows
<1> QED
  BY <1>1, <1>4, <1>6 DEF Capture

-----------------------------------------------------------------------------
(* Types *)

LEMMA StatementsTyped ==
  ASSUME FactTypeOK, NEW u \in Subjects, AppendHumanStatement(u)
  PROVE  FactTypeOK'
<1>1. PICK value \in Values, effective \in EffectiveTimes,
           until \in ValidUntil[u], error \in ClockErrors[u] :
        versions' = Append(versions,
          [by |-> u, value |-> value, effective |-> effective,
           observed |-> now + error, until |-> until])
  BY DEF AppendHumanStatement
<1>2. now \in Nat \ {0} /\ until \in Nat /\ error \in Nat /\ effective \in Instants
  BY FactAssumption DEF FactAssumption, FactTypeOK, Instants
<1>3. [by |-> u, value |-> value, effective |-> effective,
       observed |-> now + error, until |-> until] \in VersionRows
  BY <1>2 DEF VersionRows
<1>4. versions' \in Seq(VersionRows)
  BY <1>1, <1>3 DEF FactTypeOK
<1>5. readers' \in [Subjects -> SUBSET Subjects]
  BY DEF AppendHumanStatement, FactTypeOK
<1> QED
  BY <1>4, <1>5 DEF AppendHumanStatement, FactTypeOK

LEMMA PoliciesTyped ==
  ASSUME FactTypeOK, NEW u \in Subjects, AppendPolicy(u)
  PROVE  /\ FactTypeOK'
         /\ Len(policies') = Len(policies) + 1
         /\ \A r \in DOMAIN policies : r \in DOMAIN policies' /\ policies'[r] = policies[r]
<1>1. PICK d \in Definitions \cup {NoDefinition}, effective \in EffectiveTimes :
        policies' = Append(policies, [effective |-> effective, definition |-> d])
  BY DEF AppendPolicy
<1>2. [effective |-> effective, definition |-> d] \in PolicyRows
  BY FactAssumption DEF FactAssumption, PolicyRows
<1>3. policies \in Seq(PolicyRows)
  BY DEF FactTypeOK
<1>4. /\ policies' \in Seq(PolicyRows)
      /\ Len(policies') = Len(policies) + 1
      /\ \A r \in DOMAIN policies : r \in DOMAIN policies' /\ policies'[r] = policies[r]
  BY <1>1, <1>2, <1>3
<1> QED
  BY <1>4 DEF AppendPolicy, FactTypeOK

LEMMA CapturesTyped ==
  ASSUME FactTypeOK, NEW u, NEW a \in Assessed(u), Capture(a)
  PROVE  FactTypeOK'
<1>1. /\ latest' \in AssessmentRows /\ conflicts' \subseteq SUBSET Nat
      /\ UNCHANGED <<now, versions, readers, policies, grants>>
  BY CaptureEffect
<1> QED
  BY <1>1 DEF FactTypeOK

LEMMA FactTypesStep ==
  ASSUME FactTypeOK, [FactNext]_factVars
  PROVE  FactTypeOK'
<1>1. ASSUME NEW u \in Subjects, SetSourceAccess(u)
      PROVE  FactTypeOK'
  <2>1. PICK s \in Sources, list \in ReaderLists : readers' = [readers EXCEPT ![s] = list]
    BY <1>1 DEF SetSourceAccess
  <2>2. readers' \in [Subjects -> SUBSET Subjects]
    BY <2>1, FactAssumption DEF FactAssumption, FactTypeOK
  <2> QED
    BY <1>1, <2>2 DEF SetSourceAccess, FactTypeOK
<1>2. ASSUME NEW u \in Subjects, CaptureAssessment(u)
      PROVE  FactTypeOK'
  BY <1>2, CapturesTyped DEF CaptureAssessment
<1>3. CASE ChangeGrant
  <2>1. grants' \subseteq Subjects \X Roles
    BY <1>3, FactAssumption DEF ChangeGrant, FactAssumption, FactTypeOK
  <2> QED
    BY <1>3, <2>1 DEF ChangeGrant, FactTypeOK
<1>4. CASE Tick
  <2>1. now' \in Instants
    BY <1>4, FactAssumption DEF Tick, FactAssumption, FactTypeOK, Instants
  <2> QED
    BY <1>4, <2>1 DEF Tick, FactTypeOK
<1>5. CASE UNCHANGED factVars
  BY <1>5 DEF factVars, FactTypeOK
<1> QED
  BY <1>1, <1>2, <1>3, <1>4, <1>5, StatementsTyped, PoliciesTyped DEF FactNext

LEMMA AssignmentTyped == Assignment \in Assignments
BY ReconciliationAssumption
DEF Assignment, Assignments, Reason, RoutingReasons, ReconciliationAssumption

\* Every step of the cases is a step of the facts, and a check captures.
LEMMA StepsAreFactSteps ==
  ASSUME [Next]_vars
  PROVE  [FactNext]_factVars
<1>1. ASSUME NEW u \in Subjects, Check(u)
      PROVE  CaptureAssessment(u)
  <2>1. \A r \in Writers : r \in Roles
    BY DEF Writers, Roles
  <2>2. Holds(u, Roles)
    BY <1>1, <2>1 DEF Check, Holds
  <2> QED
    BY <1>1, <2>2, Zenon DEF Check, CaptureAssessment
<1>2. ASSUME NEW u \in Subjects, RefreshAssignment(u)
      PROVE  UNCHANGED factVars
  BY <1>2 DEF RefreshAssignment
<1>3. UNCHANGED vars => UNCHANGED factVars
  BY DEF vars
<1> QED
  BY <1>1, <1>2, <1>3 DEF Next, FactNext

\* What a check writes.
LEMMA CheckEffect ==
  ASSUME NEW u, NEW a \in Assessed(u), NEW answer, answer = a.evaluation.answer,
         \/ /\ ~AsksForReconciliation(a.snapshot, answer)
            /\ checked' = [outcome |-> "NO_REQUEST", request |-> 0]
            /\ UNCHANGED requests
         \/ /\ AsksForReconciliation(a.snapshot, answer)
            /\ \E r \in Opened(Active, answer.disputed) :
                 checked' = [outcome |-> "REUSED", request |-> r]
            /\ UNCHANGED requests
         \/ /\ AsksForReconciliation(a.snapshot, answer)
            /\ Opened(Active, answer.disputed) = {}
            /\ checked' = [outcome |-> "CREATED", request |-> Len(requests) + 1]
            /\ requests' = Append(requests,
                 [policy |-> Active, contributors |-> answer.disputed,
                  assignment |-> Assignment]),
         TypeOK, Capture(a)
  PROVE  checked' \in CheckRows /\ requests' \in Seq(RequestRows)
<1>1. FactTypeOK /\ requests \in Seq(RequestRows)
  BY DEF TypeOK
<1>2. Active \in Nat /\ answer.disputed \in SUBSET Nat
  BY <1>1, ActiveTyped, AssessedFacts, AnswerFacts
<1>3. [policy |-> Active, contributors |-> answer.disputed,
       assignment |-> Assignment] \in RequestRows
  BY <1>2, AssignmentTyped DEF RequestRows
<1>4. Opened(Active, answer.disputed) \subseteq Nat
  BY <1>1 DEF Opened
<1>5. Len(requests) + 1 \in Nat
  BY <1>1
<1>6. checked' \in CheckRows
  BY <1>4, <1>5 DEF CheckRows, Outcomes
<1>7. Append(requests, [policy |-> Active, contributors |-> answer.disputed,
                        assignment |-> Assignment]) \in Seq(RequestRows)
  BY <1>1, <1>3
<1>8. requests' \in Seq(RequestRows)
  BY <1>1, <1>7
<1> QED
  BY <1>6, <1>8

LEMMA TypesStep ==
  ASSUME TypeOK, [Next]_vars
  PROVE  TypeOK'
<1>1. FactTypeOK'
  BY StepsAreFactSteps, FactTypesStep DEF TypeOK
<1>2. ASSUME NEW u \in Subjects, Check(u)
      PROVE  checked' \in CheckRows /\ requests' \in Seq(RequestRows)
  BY <1>2, CheckEffect, Zenon DEF Check
<1>3. ASSUME NEW u \in Subjects, RefreshAssignment(u)
      PROVE  checked' \in CheckRows /\ requests' \in Seq(RequestRows)
  <2>1. PICK r \in DOMAIN requests : requests' = [requests EXCEPT ![r].assignment = Assignment]
    BY <1>3 DEF RefreshAssignment
  <2>2. requests[r] \in RequestRows /\ requests \in Seq(RequestRows)
    BY DEF TypeOK
  <2>3. [requests[r] EXCEPT !.assignment = Assignment] \in RequestRows
    BY <2>2, AssignmentTyped DEF RequestRows
  <2>4. requests' = [requests EXCEPT ![r] = [requests[r] EXCEPT !.assignment = Assignment]]
    BY <2>1, <2>2
  <2>5. requests' \in Seq(RequestRows)
    BY <2>2, <2>3, <2>4
  <2> QED
    BY <1>3, <2>5 DEF RefreshAssignment, TypeOK
<1>4. ASSUME NEW u \in Subjects, CaptureAssessment(u), checked' = NotChecked,
             UNCHANGED requests
      PROVE  checked' \in CheckRows /\ requests' \in Seq(RequestRows)
  BY <1>4 DEF NotChecked, CheckRows, Outcomes, TypeOK
<1>5. UNCHANGED caseVars => checked' \in CheckRows /\ requests' \in Seq(RequestRows)
  BY DEF caseVars, TypeOK
<1>6. UNCHANGED vars => UNCHANGED caseVars
  BY DEF vars
<1>7. checked' \in CheckRows /\ requests' \in Seq(RequestRows)
  BY <1>2, <1>3, <1>4, <1>5, <1>6 DEF Next
<1> QED
  BY <1>1, <1>7 DEF TypeOK

LEMMA TypesInit ==
  ASSUME Init
  PROVE  TypeOK
<1>1. readers \in [Subjects -> SUBSET Subjects] /\ now \in Instants
  BY FactAssumption DEF Init, FactInit, FactAssumption, Instants
<1>2. latest \in AssessmentRows
  BY DEF Init, FactInit, NoAssessment, AssessmentRows, Statuses
<1>3. grants \subseteq Subjects \X Roles
  BY FactAssumption DEF Init, FactInit, FactAssumption
<1>4. versions \in Seq(VersionRows) /\ policies \in Seq(PolicyRows)
  BY DEF Init, FactInit
<1>5. checked \in CheckRows /\ requests \in Seq(RequestRows)
  BY DEF Init, NotChecked, CheckRows, Outcomes
<1> QED
  BY <1>1, <1>2, <1>3, <1>4, <1>5 DEF Init, FactInit, TypeOK, FactTypeOK

\* The rows of a fact, its policies, assessments and requests keep their types.
THEOREM TypesKept == Spec => []TypeOK
<1>1. TypeOK /\ [Next]_vars => TypeOK'
  BY TypesStep
<1> QED
  BY <1>1, TypesInit, PTL DEF Spec

-----------------------------------------------------------------------------
(* The two implementations agree *)

\* For every history, policy, reader and clock the database accepts what the
\* evaluator answers, as long as the rules are not UNTIL_SUPERSEDED.
THEOREM EvaluatorsAgree == Spec => []AssessmentsSeal
<1>1. ASSUME TypeOK
      PROVE  AssessmentsSeal
  <2>1. SUFFICES ASSUME ~Definition.untilSuperseded, NEW u \in Subjects, NEW a \in Assessed(u)
                 PROVE  Sealable(a)
    BY Zenon DEF AssessmentsSeal
  <2>2. FactTypeOK
    BY <1>1 DEF TypeOK
  <2>3. /\ a.snapshot \in Snapshots /\ a.evaluation \in Evaluations(a.snapshot)
        /\ a.snapshot.recorded = conflicts \cup Retained(u)
        /\ a.snapshot.versions = versions /\ a.snapshot.asOf = now
        /\ a.snapshot.definition = Definition
    BY <2>2, AssessedFacts
  <2>4. ASSUME NEW pair \in a.snapshot.recorded \ conflicts
        PROVE  ValidConflict(a.snapshot, pair)
    <3>1. pair \in Retained(u)
      BY <2>3, <2>4
    <3> QED
      BY <2>2, <2>3, <3>1, RetainedIsValid DEF ValidConflict, Seen
  <2>5. ~a.snapshot.definition.untilSuperseded
    BY <2>1, <2>3, Zenon
  <2>6. SealAccepts(a.snapshot, a.evaluation)
    BY <2>3, <2>5, SealAgrees, Zenon
  <2> QED
    BY <2>4, <2>6 DEF Sealable
<1> QED
  BY <1>1, TypesKept, PTL

-----------------------------------------------------------------------------
(* Disputes *)

\* latest and conflicts change by captures alone.
LEMMA OnlyCaptures ==
  ASSUME [Next]_vars
  PROVE  \/ \E u \in Subjects : \E a \in Assessed(u) : Capture(a)
         \/ latest' = latest /\ conflicts' = conflicts
<1>1. [FactNext]_factVars
  BY StepsAreFactSteps
<1>2. ASSUME NEW u \in Subjects,
             AppendHumanStatement(u) \/ SetSourceAccess(u) \/ AppendPolicy(u)
      PROVE  latest' = latest /\ conflicts' = conflicts
  BY <1>2 DEF AppendHumanStatement, SetSourceAccess, AppendPolicy
<1>3. ASSUME NEW u \in Subjects, CaptureAssessment(u)
      PROVE  \E a \in Assessed(u) : Capture(a)
  BY <1>3 DEF CaptureAssessment
<1>4. ChangeGrant \/ Tick => latest' = latest /\ conflicts' = conflicts
  BY DEF ChangeGrant, Tick
<1>5. UNCHANGED factVars => latest' = latest /\ conflicts' = conflicts
  BY DEF factVars
<1> QED
  BY <1>1, <1>2, <1>3, <1>4, <1>5 DEF FactNext

\* Once a dispute is retained no later assessment is RESOLVED.
THEOREM DisputesStand == Spec => ConflictsStand
<1>1. ASSUME TypeOK, [Next]_vars, conflicts # {}, latest' # latest
      PROVE  latest'.status # "RESOLVED"
  <2>1. PICK u \in Subjects : \E a \in Assessed(u) : Capture(a)
    BY <1>1, OnlyCaptures
  <2>2. PICK a \in Assessed(u) : Capture(a)
    BY <2>1
  <2>3. FactTypeOK
    BY <1>1 DEF TypeOK
  <2>4. a.snapshot \in Snapshots /\ a.evaluation \in Evaluations(a.snapshot)
        /\ a.snapshot.recorded = conflicts \cup Retained(u)
    BY <2>3, AssessedFacts
  <2>5. a.evaluation.answer.status # "RESOLVED"
    BY <1>1, <2>4, AnswerFacts
  <2>6. latest'.status = a.evaluation.answer.status
    BY <2>2, <2>3, CaptureEffect
  <2> QED
    BY <2>5, <2>6
<1>2. TypeOK /\ [Next]_vars
        => [conflicts # {} /\ latest' # latest => latest'.status # "RESOLVED"]_factVars
  BY <1>1
<1> QED
  BY <1>2, TypesKept, PTL DEF Spec, ConflictsStand

Disputes(pair) ==
  pair \subseteq DOMAIN versions /\ \E i, j \in pair : versions[i].value # versions[j].value

\* Retained pairs are disputes for good; so are those of the last assessment,
\* which was given under a policy that still stands if it is one.
DisputesInv ==
  /\ \A pair \in conflicts : Disputes(pair)
  /\ latest.status = "CONFLICTING" =>
       /\ latest.policy \in DOMAIN policies
       /\ latest.disputed \subseteq UNION latest.recorded
       /\ \A pair \in latest.recorded : Disputes(pair)

LEMMA VersionsStand ==
  ASSUME TypeOK, [Next]_vars
  PROVE  /\ \A i \in DOMAIN versions : i \in DOMAIN versions' /\ versions'[i] = versions[i]
         /\ \A r \in DOMAIN policies : r \in DOMAIN policies' /\ policies'[r] = policies[r]
<1>1. [FactNext]_factVars
  BY StepsAreFactSteps
<1>2. FactTypeOK /\ versions \in Seq(VersionRows)
  BY DEF TypeOK, FactTypeOK
<1>3. ASSUME NEW u \in Subjects, AppendHumanStatement(u)
      PROVE  \A i \in DOMAIN versions : i \in DOMAIN versions' /\ versions'[i] = versions[i]
  <2>1. PICK row : versions' = Append(versions, row)
    BY <1>3 DEF AppendHumanStatement
  <2> QED
    BY <1>2, <2>1
<1>4. ASSUME NEW u \in Subjects, AppendPolicy(u)
      PROVE  \A r \in DOMAIN policies : r \in DOMAIN policies' /\ policies'[r] = policies[r]
  BY <1>2, <1>4, PoliciesTyped
<1>5. ASSUME NEW u \in Subjects
      PROVE  /\ AppendHumanStatement(u) => policies' = policies
             /\ AppendPolicy(u) => versions' = versions
             /\ SetSourceAccess(u) \/ CaptureAssessment(u)
                  => versions' = versions /\ policies' = policies
  BY DEF AppendHumanStatement, AppendPolicy, SetSourceAccess, CaptureAssessment, Capture
<1>6. ChangeGrant \/ Tick => versions' = versions /\ policies' = policies
  BY DEF ChangeGrant, Tick
<1>7. UNCHANGED factVars => versions' = versions /\ policies' = policies
  BY DEF factVars
<1> QED
  BY <1>1, <1>3, <1>4, <1>5, <1>6, <1>7 DEF FactNext

LEMMA DisputesStep ==
  ASSUME TypeOK, DisputesInv, [Next]_vars
  PROVE  DisputesInv'
<1> DEFINE Stands(pair) == /\ pair \subseteq DOMAIN versions'
                           /\ \E i, j \in pair : versions'[i].value # versions'[j].value
<1>1. \A pair : Disputes(pair) => Stands(pair)
  BY VersionsStand DEF Disputes
<1>2. DisputesInv' <=>
        /\ \A pair \in conflicts' : Stands(pair)
        /\ latest'.status = "CONFLICTING" =>
             /\ latest'.policy \in DOMAIN policies'
             /\ latest'.disputed \subseteq UNION latest'.recorded
             /\ \A pair \in latest'.recorded : Stands(pair)
  BY DEF DisputesInv, Disputes
<1>3. CASE latest' = latest /\ conflicts' = conflicts
  BY <1>1, <1>2, <1>3, VersionsStand DEF DisputesInv
<1>4. ASSUME NEW u \in Subjects, NEW a \in Assessed(u), Capture(a)
      PROVE  DisputesInv'
  <2>1. FactTypeOK
    BY DEF TypeOK
  <2>2. /\ conflicts' = conflicts \cup Retained(u)
        /\ latest'.policy = Active
        /\ latest'.status = a.evaluation.answer.status
        /\ latest'.disputed = a.evaluation.answer.disputed
        /\ a.snapshot.complete => latest'.recorded = conflicts \cup Retained(u)
        /\ policies' = policies
    BY <1>4, <2>1, CaptureEffect
  <2>3. \A pair \in conflicts \cup Retained(u) : Disputes(pair)
    BY <2>1, RetainedIsValid DEF DisputesInv, Disputes
  <2>4. ASSUME a.evaluation.answer.status = "CONFLICTING"
        PROVE  /\ a.snapshot.complete /\ Active \in DOMAIN policies
               /\ a.evaluation.answer.disputed \subseteq UNION (conflicts \cup Retained(u))
    <3>1. /\ a.snapshot \in Snapshots /\ a.evaluation \in Evaluations(a.snapshot)
          /\ a.snapshot.recorded = conflicts \cup Retained(u)
          /\ a.snapshot.definition = Definition
      BY <2>1, AssessedFacts
    <3>2. a.snapshot.complete /\ Definition.enabled
      BY <2>4, <3>1, AnswerFacts
    <3>3. Definition # NoDefinition
      BY <3>2 DEF NoDefinition
    <3>4. Active \in DOMAIN policies
      BY <2>1, <3>3, ActiveTyped
    <3>5. a.evaluation.answer.disputed
            = UNION ((IF a.snapshot.complete THEN a.snapshot.recorded ELSE {})
                       \cup Found(a.snapshot))
      BY <3>1, AnswerRead
    <3>6. a.evaluation.answer.disputed = UNION (conflicts \cup Retained(u) \cup Found(a.snapshot))
      BY <3>1, <3>2, <3>5
    <3>7. UNION Found(a.snapshot) \subseteq UNION Retained(u)
      BY <2>1, <3>2, FoundIsRetained
    <3> QED
      BY <3>2, <3>4, <3>6, <3>7
  <2> QED
    BY <1>1, <1>2, <2>2, <2>3, <2>4
<1> QED
  BY <1>3, <1>4, OnlyCaptures

LEMMA DisputesKept == Spec => []DisputesInv
<1>1. Init => DisputesInv
  BY DEF Init, FactInit, NoAssessment, DisputesInv
<1>2. TypeOK /\ DisputesInv /\ [Next]_vars => DisputesInv'
  BY DisputesStep
<1> QED
  BY <1>1, <1>2, TypesKept, PTL DEF Spec

\* A CONFLICTING assessment keeps every version it disputes beside a version
\* that differs from it, whatever is said, revoked or expires later.
THEOREM ContributorsKept == Spec => []ContributorsRetained
<1>1. DisputesInv => ContributorsRetained
  BY DEF DisputesInv, Disputes, ContributorsRetained
<1> QED
  BY <1>1, DisputesKept, PTL

-----------------------------------------------------------------------------
(* Requests *)

OneCase ==
  \A r, q \in DOMAIN requests :
    /\ requests[r].policy = requests[q].policy
    /\ requests[r].contributors = requests[q].contributors
    => r = q

\* The latest check and its request.
CheckedCase ==
  checked # NotChecked =>
    /\ checked.request # 0 <=> Asks(latest)
    /\ checked.request # 0 =>
         /\ checked.request \in DOMAIN requests
         /\ requests[checked.request].policy = latest.policy
         /\ requests[checked.request].contributors = latest.disputed

CasesInv == OneCase /\ CheckedCase

\* Whether an assessment asks for a request does not change later.
LEMMA AsksStands ==
  ASSUME TypeOK, DisputesInv, [Next]_vars, latest' = latest
  PROVE  Asks(latest)' = Asks(latest)
<1>1. CASE latest.status = "CONFLICTING"
  <2>1. policies'[latest.policy] = policies[latest.policy]
    BY <1>1, VersionsStand DEF DisputesInv
  <2> QED
    BY <2>1 DEF Asks
<1>2. CASE latest.status # "CONFLICTING"
  BY <1>2 DEF Asks
<1> QED
  BY <1>1, <1>2

LEMMA CheckedStands ==
  ASSUME TypeOK, DisputesInv, CasesInv, [Next]_vars,
         latest' = latest, checked' = checked,
         DOMAIN requests' = DOMAIN requests,
         \A r \in DOMAIN requests :
           /\ requests'[r].policy = requests[r].policy
           /\ requests'[r].contributors = requests[r].contributors
  PROVE  CasesInv'
<1>1. Asks(latest)' = Asks(latest)
  BY AsksStands
<1>2. NotChecked' = NotChecked
  BY DEF NotChecked
<1>3. OneCase'
  BY DEF CasesInv, OneCase
<1>4. CheckedCase'
  BY <1>1, <1>2 DEF CasesInv, CheckedCase
<1> QED
  BY <1>3, <1>4 DEF CasesInv

\* An assessment asks for a request exactly when its policy says so.
LEMMA AsksWhenAsked ==
  ASSUME TypeOK, NEW u \in Subjects, NEW a \in Assessed(u), Capture(a)
  PROVE  Asks(latest)' <=> AsksForReconciliation(a.snapshot, a.evaluation.answer)
<1>1. FactTypeOK
  BY DEF TypeOK
<1>2. /\ latest'.status = a.evaluation.answer.status
      /\ latest'.policy = Active
      /\ policies' = policies
  BY <1>1, CaptureEffect
<1>3. /\ a.snapshot \in Snapshots /\ a.evaluation \in Evaluations(a.snapshot)
      /\ a.snapshot.definition = Definition
  BY <1>1, AssessedFacts
<1>4. CASE a.evaluation.answer.status = "CONFLICTING"
  <2>1. Definition.enabled
    BY <1>3, <1>4, AnswerFacts
  <2>2. Active # 0
    BY <2>1 DEF Definition, NoDefinition
  <2>3. Definition = policies[Active].definition
    BY <2>2 DEF Definition
  <2> QED
    BY <1>2, <1>3, <1>4, <2>3 DEF Asks, AsksForReconciliation
<1>5. CASE a.evaluation.answer.status # "CONFLICTING"
  BY <1>2, <1>5 DEF Asks, AsksForReconciliation
<1> QED
  BY <1>4, <1>5

LEMMA CheckKeepsCases ==
  ASSUME TypeOK, CasesInv, NEW u \in Subjects, Check(u)
  PROVE  CasesInv'
<1>1. PICK a \in Assessed(u) :
        /\ Capture(a)
        /\ LET answer == a.evaluation.answer
               asks == AsksForReconciliation(a.snapshot, answer)
               opened == Opened(Active, answer.disputed)
           IN \/ /\ ~asks
                 /\ checked' = [outcome |-> "NO_REQUEST", request |-> 0]
                 /\ UNCHANGED requests
              \/ /\ asks
                 /\ \E r \in opened : checked' = [outcome |-> "REUSED", request |-> r]
                 /\ UNCHANGED requests
              \/ /\ asks /\ opened = {}
                 /\ checked' = [outcome |-> "CREATED", request |-> Len(requests) + 1]
                 /\ requests' = Append(requests,
                      [policy |-> Active, contributors |-> answer.disputed,
                       assignment |-> Assignment])
  BY Zenon DEF Check
<1> DEFINE asks == AsksForReconciliation(a.snapshot, a.evaluation.answer)
           disputed == a.evaluation.answer.disputed
<1>2. /\ latest'.policy = Active /\ latest'.disputed = disputed
      /\ Asks(latest)' <=> asks
  BY <1>1, CaptureEffect, AsksWhenAsked DEF TypeOK
<1>3. requests \in Seq(RequestRows) /\ OneCase
  BY DEF TypeOK, CasesInv
<1>4. CASE /\ ~asks
           /\ checked' = [outcome |-> "NO_REQUEST", request |-> 0]
           /\ UNCHANGED requests
  BY <1>2, <1>3, <1>4 DEF CasesInv, OneCase, CheckedCase
<1>5. ASSUME asks, NEW r \in Opened(Active, disputed),
             checked' = [outcome |-> "REUSED", request |-> r], UNCHANGED requests
      PROVE  CasesInv'
  <2>1. /\ r \in DOMAIN requests /\ r # 0
        /\ requests[r].policy = Active /\ requests[r].contributors = disputed
    BY <1>3, <1>5 DEF Opened
  <2> QED
    BY <1>2, <1>3, <1>5, <2>1 DEF CasesInv, OneCase, CheckedCase
<1>6. CASE /\ asks /\ Opened(Active, disputed) = {}
           /\ checked' = [outcome |-> "CREATED", request |-> Len(requests) + 1]
           /\ requests' = Append(requests,
                [policy |-> Active, contributors |-> disputed, assignment |-> Assignment])
  <2> DEFINE n == Len(requests) + 1
  <2>1. /\ n \in Nat \ {0} /\ DOMAIN requests' = DOMAIN requests \cup {n}
        /\ n \notin DOMAIN requests
        /\ \A r \in DOMAIN requests : requests'[r] = requests[r]
        /\ requests'[n].policy = Active /\ requests'[n].contributors = disputed
    BY <1>3, <1>6
  <2>2. \A r \in DOMAIN requests :
          ~(requests[r].policy = Active /\ requests[r].contributors = disputed)
    BY <1>6 DEF Opened
  <2> HIDE DEF n
  <2>3. OneCase'
    BY <1>3, <2>1, <2>2 DEF OneCase
  <2>4. checked'.request = n
    BY <1>6 DEF n
  <2>5. CheckedCase'
    BY <1>2, <1>6, <2>1, <2>4 DEF CheckedCase
  <2> QED
    BY <2>3, <2>5 DEF CasesInv
<1> QED
  BY <1>1, <1>4, <1>5, <1>6, Zenon

LEMMA CasesStep ==
  ASSUME TypeOK, DisputesInv, CasesInv, [Next]_vars
  PROVE  CasesInv'
<1>1. ASSUME NEW u \in Subjects, RefreshAssignment(u)
      PROVE  CasesInv'
  <2>1. PICK r \in DOMAIN requests : requests' = [requests EXCEPT ![r].assignment = Assignment]
    BY <1>1 DEF RefreshAssignment
  <2>2. /\ DOMAIN requests' = DOMAIN requests
        /\ \A q \in DOMAIN requests :
             /\ requests'[q].policy = requests[q].policy
             /\ requests'[q].contributors = requests[q].contributors
    <3>1. requests \in Seq(RequestRows) /\ \A q \in DOMAIN requests : requests[q] \in RequestRows
      BY DEF TypeOK
    <3> QED
      BY <2>1, <3>1 DEF RequestRows
  <2>3. latest' = latest /\ checked' = checked
    BY <1>1 DEF RefreshAssignment, factVars
  <2> QED
    BY <2>2, <2>3, CheckedStands
<1>2. ASSUME NEW u \in Subjects, CaptureAssessment(u), checked' = NotChecked,
             UNCHANGED requests
      PROVE  CasesInv'
  <2>1. NotChecked' = NotChecked
    BY DEF NotChecked
  <2> QED
    BY <1>2, <2>1 DEF CasesInv, OneCase, CheckedCase
<1>3. ASSUME UNCHANGED caseVars, latest' = latest
      PROVE  CasesInv'
  BY <1>3, CheckedStands DEF caseVars
<1>4. ASSUME NEW u \in Subjects,
             AppendHumanStatement(u) \/ SetSourceAccess(u) \/ AppendPolicy(u)
      PROVE  latest' = latest
  BY <1>4 DEF AppendHumanStatement, SetSourceAccess, AppendPolicy
<1>5. ChangeGrant \/ Tick => latest' = latest
  BY DEF ChangeGrant, Tick
<1>6. UNCHANGED vars => UNCHANGED caseVars /\ latest' = latest
  BY DEF vars, factVars
<1> QED
  BY <1>1, <1>2, <1>3, <1>4, <1>5, <1>6, CheckKeepsCases DEF Next

\* However often and by whomever a dispute is checked, it has one request, and
\* every check points at the one of its own dispute and policy.
THEOREM RequestsOnce == Spec => []OneRequestPerCase
<1>1. Init => CasesInv
  BY DEF Init, CasesInv, OneCase, CheckedCase
<1>2. TypeOK /\ DisputesInv /\ CasesInv /\ [Next]_vars => CasesInv'
  BY CasesStep
<1>3. CasesInv => OneRequestPerCase
  BY DEF CasesInv, OneCase, CheckedCase, OneRequestPerCase
<1> QED
  BY <1>1, <1>2, <1>3, TypesKept, DisputesKept, PTL DEF Spec

-----------------------------------------------------------------------------
(* Resolutions *)

LEMMA HeadIsLastWord ==
  ASSUME NEW s \in Snapshots, s.versions = versions, s.asOf = now,
         Indices(s) = DOMAIN versions, NEW i \in DOMAIN versions
  PROVE  IsHead(s, i) <=> LastWord(i)
<1>1. \A j \in DOMAIN versions :
        Known(s, j) <=> versions[j].observed <= now /\ versions[j].effective <= now
  <2>1. TAKE j \in DOMAIN versions
  <2>2. s.asOf \in Nat /\ versions[j].observed \in Nat /\ versions[j].effective \in Nat
    BY VersionsTyped DEF Snapshots
  <2> QED
    BY <2>2 DEF Known, NotYetObserved, NotYetEffective
<1>2. IsHead(s, i) <=> /\ Known(s, i)
                       /\ \A j \in DOMAIN versions :
                            Known(s, j) /\ versions[j].by = versions[i].by
                              => ~Later(versions[j], versions[i])
  BY DEF IsHead, Stream
<1> QED
  BY <1>1, <1>2 DEF LastWord

LEMMA HeadApplies ==
  ASSUME NEW s, NEW i
  PROVE  /\ Applicability(s, i) \in {"APPLICABLE", "AMBIGUOUS"} <=> IsHead(s, i)
         /\ IsHead(s, i) => (Applicability(s, i) = "APPLICABLE" <=> ~Tied(s, i))
         /\ IsHead(s, i) => Known(s, i)
<1>1. IsHead(s, i) => Known(s, i)
  BY DEF IsHead
<1> QED
  BY <1>1 DEF Applicability, Known

LEMMA AloneIsUntied ==
  ASSUME NEW s \in Snapshots, s.versions = versions, s.asOf = now,
         Indices(s) = DOMAIN versions, NEW i \in DOMAIN versions, Known(s, i)
  PROVE  Tied(s, i) <=> ~Alone(i)
<1>1. ASSUME NEW j \in DOMAIN versions \ {i}, versions[j].by = versions[i].by,
             versions[j].effective = versions[i].effective,
             versions[j].observed = versions[i].observed
      PROVE  j \in Stream(s, i)
  BY <1>1 DEF Stream, Known, NotYetObserved, NotYetEffective
<1>2. \A j \in Stream(s, i) : j \in DOMAIN versions /\ versions[j].by = versions[i].by
  BY DEF Stream
<1> QED
  BY <1>1, <1>2 DEF Tied, Alone

\* CURRENT is what the property calls fresh, for a last word under a rule.
LEMMA CurrentIsFresh ==
  ASSUME NEW s \in Snapshots, s.versions = versions, s.asOf = now, s.definition = Definition,
         Indices(s) = DOMAIN versions, NEW i \in DOMAIN versions,
         IsHead(s, i), Tier(s, i) # 0
  PROVE  Freshness(s, i, Applicability(s, i)) = "CURRENT" <=> StillFresh(i)
<1> DEFINE until == versions[i].until
           rule == RuleDeadline(s, i)
           fresh == Freshness(s, i, Applicability(s, i))
<1>1. /\ until \in Nat /\ rule \in Nat /\ now \in Nat
      /\ Deadlines(s, i) = ({until} \cup {rule}) \ {0}
  BY VersionsTyped, RuleDeadlineTyped DEF Snapshots
<1>2. Known(s, i) /\ Applicability(s, i) # "SUPERSEDED"
  BY HeadApplies
<1>3. EventDate(s, i) = Definition.untilSuperseded
  BY DefinitionsTyped DEF EventDate, Snapshots
<1>4. fresh = "CURRENT" <=>
        IF Expiry(s, i) = 0
        THEN Definition.untilSuperseded /\ Applicability(s, i) = "APPLICABLE"
        ELSE ~(now >= Expiry(s, i))
  BY <1>2, <1>3 DEF Freshness
<1>5. Applicability(s, i) = "APPLICABLE" <=> Alone(i)
  BY <1>2, HeadApplies, AloneIsUntied
<1>6. /\ rule = 0 <=> Definition.basis = {}
      /\ rule # 0 => \A b \in Definition.basis : rule = versions[i][b] + Definition.duration
  <2>1. Definition.basis \in {{}, {"effective"}, {"observed"}} /\ Definition.duration \in Nat
    BY DefinitionsTyped DEF Snapshots
  <2>2. versions[i].observed \in Nat \ {0} /\ versions[i].effective \in Nat \ {0}
    BY VersionsTyped
  <2>3. CASE Definition.basis = {}
    BY <2>3 DEF RuleDeadline
  <2>4. CASE Definition.basis = {"effective"}
    BY <2>1, <2>2, <2>4 DEF RuleDeadline
  <2>5. CASE Definition.basis = {"observed"}
    BY <2>1, <2>2, <2>5 DEF RuleDeadline
  <2> QED
    BY <2>1, <2>3, <2>4, <2>5
<1>7. StillFresh(i) <=>
        /\ until # 0 \/ rule # 0 \/ (Definition.untilSuperseded /\ Alone(i))
        /\ until # 0 => now < until
        /\ rule # 0 => now < rule
  BY <1>6 DEF StillFresh
<1>8. Expiry(s, i) = IF Deadlines(s, i) = {} THEN 0 ELSE Min(Deadlines(s, i))
  BY DEF Expiry
<1> HIDE DEF until, rule, fresh
<1>9. CASE until = 0 /\ rule = 0
  <2>1. Expiry(s, i) = 0
    BY <1>1, <1>8, <1>9
  <2> QED
    BY <1>4, <1>5, <1>7, <1>9, <2>1 DEF fresh
<1>10. CASE until # 0 \/ rule # 0
  <2>1. Deadlines(s, i) \in SUBSET Nat /\ Deadlines(s, i) # {}
    BY <1>1, <1>10
  <2>2. /\ Expiry(s, i) \in Deadlines(s, i)
        /\ \A d \in Deadlines(s, i) : Expiry(s, i) <= d
    BY <1>8, <2>1, LeastElement
  <2>3. Expiry(s, i) \in Nat \ {0}
    BY <1>1, <2>2
  <2>4. ~(now >= Expiry(s, i)) <=> \A d \in Deadlines(s, i) : now < d
    BY <1>1, <2>1, <2>2
  <2>5. (\A d \in Deadlines(s, i) : now < d)
          <=> (until # 0 => now < until) /\ (rule # 0 => now < rule)
    BY <1>1
  <2> QED
    BY <1>4, <1>7, <1>10, <2>3, <2>4, <2>5 DEF fresh
<1> QED
  BY <1>9, <1>10

LEMMA NothingFound ==
  ASSUME NEW s, Found(s) = {}
  PROVE  /\ \A i, j \in Best(s) : s.versions[i].value = s.versions[j].value
         /\ \A i \in Best(s), j \in Heard(s) :
              Tier(s, j) < Tier(s, i) => s.versions[j].value = s.versions[i].value
<1>1. ASSUME NEW i \in Best(s), NEW j \in Best(s), s.versions[i].value # s.versions[j].value
      PROVE  FALSE
  <2>1. Best(s) \in Disagreements(s, Best(s))
    BY <1>1 DEF Disagreements
  <2> QED
    BY <2>1 DEF Found
<1>2. ASSUME NEW i \in Best(s), NEW j \in Heard(s), Tier(s, j) < Tier(s, i),
             s.versions[j].value # s.versions[i].value
      PROVE  FALSE
  <2>1. j \in Higher(s, i)
    BY <1>2 DEF Higher
  <2>2. i \in Clashing(s)
    BY <2>1 DEF Clashing
  <2>3. Clashing(s) \in Contradictions(s, Rows(s), Best(s))
    BY <2>2, ContradictionsRead
  <2> QED
    BY <2>3 DEF Found
<1> QED
  BY <1>1, <1>2

LEMMA ResolvedSettles ==
  ASSUME NEW s \in Snapshots, s.versions = versions, s.asOf = now, s.definition = Definition,
         s.complete, Found(s) = {}, \A i \in Indices(s) : Readable(s, i),
         NEW i \in Best(s)
  PROVE  Settles(i)
<1> DEFINE rank(j) == Definition.tier[versions[j].by]
           counts(j) == rank(j) # 0 /\ versions[j].by \notin Definition.gated /\ LastWord(j)
<1>1. Indices(s) = DOMAIN versions
  BY DEF Indices
<1>2. \A j : Tier(s, j) = rank(j)
  BY DEF Tier
<1>3. ASSUME NEW j \in DOMAIN versions
      PROVE  /\ j \in Heard(s) <=> counts(j)
             /\ j \in Heard(s) => (j \in Eligible(s) <=> StillFresh(j))
  <2>1. /\ ReadRow(s, j).counts
            = (/\ Applicability(s, j) \in {"APPLICABLE", "AMBIGUOUS"}
               /\ Tier(s, j) # 0 /\ s.versions[j].by \notin s.definition.gated
               /\ Readable(s, j))
        /\ ReadRow(s, j).freshness = Freshness(s, j, Applicability(s, j))
    BY Zenon DEF ReadRow, Row
  <2>2. Applicability(s, j) \in {"APPLICABLE", "AMBIGUOUS"} <=> LastWord(j)
    BY <1>1, HeadApplies, HeadIsLastWord
  <2>3. j \in Heard(s) <=> counts(j)
    BY <1>1, <1>2, <2>1, <2>2 DEF Heard
  <2>4. ASSUME j \in Heard(s)
        PROVE  j \in Eligible(s) <=> StillFresh(j)
    <3>1. IsHead(s, j) /\ Tier(s, j) # 0
      BY <1>1, <1>2, <2>3, <2>4, HeadIsLastWord
    <3>2. Freshness(s, j, Applicability(s, j)) = "CURRENT" <=> StillFresh(j)
      BY <1>1, <3>1, CurrentIsFresh
    <3> QED
      BY <1>1, <2>1, <2>4, <3>2 DEF Heard, Eligible
  <2> QED
    BY <2>3, <2>4
<1>4. i \in DOMAIN versions /\ i \in Heard(s) /\ i \in Eligible(s)
  BY <1>1 DEF Best, Eligible, Heard
<1>5. counts(i) /\ StillFresh(i)
  BY <1>3, <1>4
<1>6. ASSUME NEW j \in DOMAIN versions, counts(j), rank(j) < rank(i)
      PROVE  versions[j].value = versions[i].value
  BY <1>2, <1>3, <1>6, NothingFound
<1>7. ASSUME NEW j \in DOMAIN versions, counts(j), rank(j) = rank(i), StillFresh(j)
      PROVE  versions[j].value = versions[i].value
  <2>1. j \in Eligible(s)
    BY <1>3, <1>7
  <2>2. j \in Best(s)
    BY <1>2, <1>7, <2>1 DEF Best
  <2> QED
    BY <2>2, NothingFound
<1> QED
  BY <1>5, <1>6, <1>7, Zenon DEF Settles

\* A RESOLVED answer is the last word of its authors, fresh, and contradicted
\* by nobody who ranks higher or as high.
THEOREM ResolutionsAreLast == Spec => ResolutionsHold
<1>1. ASSUME TypeOK, [Next]_vars, latest' # latest, latest'.status = "RESOLVED"
      PROVE  latest'.selected # {} /\ \A i \in latest'.selected : Settles(i)
  <2>1. PICK u \in Subjects : \E a \in Assessed(u) : Capture(a)
    BY <1>1, OnlyCaptures
  <2>2. PICK a \in Assessed(u) : Capture(a)
    BY <2>1
  <2>3. FactTypeOK
    BY <1>1 DEF TypeOK
  <2>4. /\ a.snapshot \in Snapshots /\ a.evaluation \in Evaluations(a.snapshot)
        /\ a.snapshot.versions = versions /\ a.snapshot.asOf = now
        /\ a.snapshot.definition = Definition
    BY <2>3, AssessedFacts
  <2>5. /\ latest'.status = a.evaluation.answer.status
        /\ latest'.selected = Best(a.snapshot)
    BY <2>2, <2>3, CaptureEffect
  <2>6. /\ a.snapshot.complete /\ Found(a.snapshot) = {}
        /\ \A i \in Indices(a.snapshot) : Readable(a.snapshot, i)
        /\ Best(a.snapshot) # {}
    BY <1>1, <2>4, <2>5, AnswerFacts
  <2>7. \A i \in Best(a.snapshot) : Settles(i)
    BY <2>4, <2>6, ResolvedSettles
  <2> QED
    BY <2>5, <2>6, <2>7
<1>2. TypeOK /\ [Next]_vars =>
        [latest' # latest /\ latest'.status = "RESOLVED" =>
           latest'.selected # {} /\ \A i \in latest'.selected : Settles(i)]_factVars
  BY <1>1
<1> QED
  BY <1>2, TypesKept, PTL DEF Spec, ResolutionsHold
=============================================================================
