----------------------- MODULE UpdateEngagementProofs -----------------------
(***************************************************************************)
(* Theorems about UpdateEngagement, for any required facts, any number of  *)
(* reminders and any number of changes of the environment.                 *)
(***************************************************************************)
EXTENDS UpdateEngagement, SequenceTheorems, TLAPS

-----------------------------------------------------------------------------
(* The inductive invariant *)

\* What the obligation rows say on their own.
ObligationsInv(obs) ==
  /\ obs \in Seq(ObligationRows)
  /\ \A o \in DOMAIN obs :
       /\ obs[o].state = "OPEN" => o = Len(obs)
       /\ obs[o].engagement = "ACTIVE" => obs[o].state = "OPEN"
       /\ obs[o].engagement = "NONE" => obs[o].generation = 0

\* A stage belongs to a generation its engagement has reached, a pending one to
\* an engagement that is active, and a captured one was planned to be captured.
StageInv(obs, s) ==
  /\ s.obligation \in DOMAIN obs /\ s.plan \in Plans
  /\ 1 <= s.generation /\ s.generation <= obs[s.obligation].generation
  /\ s.state = "READY" => obs[s.obligation].engagement = "ACTIVE"
  /\ s.state = "CAPTURED" => s.mode = "CAPTURE"

\* No intent is written twice, and no plan is pending in two generations.
Unrepeated(ss) ==
  \A s, t \in ss :
    (/\ s.obligation = t.obligation /\ s.plan = t.plan
     /\ s.generation = t.generation \/ (s.state = "READY" /\ t.state = "READY")) => s = t

Asked(ss) ==
  \A s \in ss : s.mode = "CAPTURE" =>
    \E t \in ss : t.obligation = s.obligation /\ t.generation = s.generation
                    /\ t.plan = Request

Follows(ss, s, q, t) ==
  /\ t.obligation = s.obligation /\ t.plan = q
  /\ t.state = "CAPTURED" /\ t.epoch = s.epoch
  /\ t.generation <= s.generation
  /\ \A g \in RequestGenerations(ss, s) : g <= t.generation

Unbroken(ss) ==
  \A s \in ss : s.state = "CAPTURED" =>
    \A q \in Request .. s.plan - 1 : \E t \in ss : Follows(ss, s, q, t)

StagesInv(obs, ss) ==
  /\ ss \subseteq StageRows
  /\ \A s \in ss : StageInv(obs, s)
  /\ Unrepeated(ss) /\ Asked(ss) /\ Unbroken(ss)

Settings ==
  /\ facts \in [FactTypes -> SourceStates]
  /\ aged \in BOOLEAN /\ moved \in BOOLEAN
  /\ policy \in [revision : Nat, scheduled : BOOLEAN]
  /\ granted \subseteq Roles /\ zone \in [Roles -> BOOLEAN]
  /\ deployment \in [shadow : BOOLEAN, epoch : Nat]
  /\ gate \in [enabled : BOOLEAN, epoch : Nat]
  /\ worker \in {"idle", "picked"} /\ eligible \in BOOLEAN
  /\ changes \in 0 .. MaxChanges

IInv == Settings /\ ObligationsInv(obligations) /\ StagesInv(obligations, stages)

-----------------------------------------------------------------------------
(* Stages that are settled keep their intent *)

\* A transaction may settle a pending stage and put off its time; whatever it
\* does, the intent stays, and so does the outcome of a settled stage.
Same(s, t) ==
  /\ t \in StageRows
  /\ [s EXCEPT !.state = t.state, !.epoch = t.epoch, !.elapsed = t.elapsed] = t
  /\ s.state # "READY" => (t.state = s.state /\ t.epoch = s.epoch)

\* It captures no shadow stage, and a follow-up only after the stage before it.
InOrder(ss, s, t) ==
  (s.state = "READY" /\ t.state = "CAPTURED") =>
    /\ s.mode = "CAPTURE"
    /\ s.plan = Request \/ \E p \in Predecessors(ss, s) :
                             p.state = "CAPTURED" /\ p.epoch = t.epoch

Evolved(ss, tt) ==
  \E f \in [ss -> StageRows] :
    tt = {f[s] : s \in ss} /\ \A s \in ss : Same(s, f[s]) /\ InOrder(ss, s, f[s])

LEMMA SameFields ==
  ASSUME NEW s \in StageRows, NEW t, Same(s, t)
  PROVE  /\ t \in StageRows
         /\ t.obligation = s.obligation /\ t.generation = s.generation /\ t.plan = s.plan
         /\ t.facts = s.facts /\ t.zone = s.zone /\ t.mode = s.mode /\ t.birth = s.birth
         /\ t.state = "READY" => s.state = "READY"
BY DEF Same, StageRows

LEMMA EvolvedInv ==
  ASSUME NEW obs, NEW ss, NEW tt, StagesInv(obs, ss), Evolved(ss, tt)
  PROVE  StagesInv(obs, tt)
<1>1. PICK f \in [ss -> StageRows] :
        tt = {f[s] : s \in ss} /\ \A s \in ss : Same(s, f[s]) /\ InOrder(ss, s, f[s])
  BY DEF Evolved
<1>2. ss \subseteq StageRows
  BY DEF StagesInv
<1>3. \A s \in ss :
        /\ f[s] \in StageRows /\ f[s].obligation = s.obligation
        /\ f[s].generation = s.generation /\ f[s].plan = s.plan /\ f[s].mode = s.mode
        /\ f[s].state = "READY" => s.state = "READY"
  BY <1>1, <1>2, SameFields
<1>4. tt \subseteq StageRows
  BY <1>1
<1>5. \A t \in tt : StageInv(obs, t)
  <2> SUFFICES ASSUME NEW s \in ss PROVE StageInv(obs, f[s])
    BY <1>1
  <2>1. StageInv(obs, s)
    BY DEF StagesInv
  <2>2. f[s].state = "CAPTURED" => f[s].mode = "CAPTURE"
    <3>1. Same(s, f[s]) /\ InOrder(ss, s, f[s]) /\ s \in StageRows
      BY <1>1, <1>2
    <3>2. s.state \in {"READY", "CAPTURED", "SUPPRESSED"}
      BY <3>1 DEF StageRows
    <3> QED BY <1>3, <2>1, <3>1, <3>2 DEF Same, InOrder, StageInv
  <2> QED BY <2>1, <2>2, <1>3 DEF StageInv
<1>6. Unrepeated(tt)
  <2>1. Unrepeated(ss)
    BY DEF StagesInv
  <2> QED BY <1>1, <1>3, <2>1 DEF Unrepeated
<1>7. Asked(tt)
  <2>1. Asked(ss)
    BY DEF StagesInv
  <2> QED BY <1>1, <1>3, <2>1 DEF Asked
<1>8. Unbroken(tt)
  <2> SUFFICES ASSUME NEW u \in tt, u.state = "CAPTURED", NEW q \in Request .. u.plan - 1
               PROVE  \E t \in tt : Follows(tt, u, q, t)
    BY DEF Unbroken
  <2> PICK s \in ss : u = f[s]
    BY <1>1
  <2> SUFFICES \E t \in ss : Follows(tt, f[s], q, f[t])
    BY <1>1
  <2>1. f[s].state = "CAPTURED" /\ q \in Request .. s.plan - 1
    BY <1>3
  <2>2. RequestGenerations(tt, f[s]) = RequestGenerations(ss, s)
    BY <1>1, <1>3 DEF RequestGenerations
  <2>3. \A t \in ss : t.state = "CAPTURED" => f[t].state = "CAPTURED" /\ f[t].epoch = t.epoch
    BY <1>1 DEF Same
  <2>4. s \in StageRows /\ s.generation \in Nat /\ s.plan \in Nat /\ Unbroken(ss)
    BY <1>2 DEF StagesInv, StageRows
  <2>5. CASE s.state = "CAPTURED"
    <3>1. PICK t \in ss : Follows(ss, s, q, t)
      BY <2>4, <2>5, <2>1 DEF Unbroken
    <3> QED BY <1>3, <2>2, <2>3, <2>5, <3>1 DEF Follows
  <2>6. CASE s.state = "READY"
    <3>1. s.plan # Request
      BY <2>4, <2>1 DEF Request
    <3>2. PICK p \in Predecessors(ss, s) : p.state = "CAPTURED" /\ p.epoch = f[s].epoch
      BY <1>1, <2>6, <2>1, <3>1 DEF InOrder
    <3>3. /\ p \in ss /\ p.obligation = s.obligation /\ p.plan = s.plan - 1
          /\ p.generation <= s.generation /\ p.generation \in Nat
          /\ \A g \in RequestGenerations(ss, s) : g <= p.generation
      BY <1>2 DEF Predecessors, StageRows
    <3>4. CASE q = p.plan
      BY <1>3, <2>2, <2>3, <3>2, <3>3, <3>4 DEF Follows
    <3>5. CASE q # p.plan
      <4>1. q \in Request .. p.plan - 1
        BY <2>4, <2>1, <3>3, <3>5 DEF Request
      <4>2. PICK t \in ss : Follows(ss, p, q, t)
        BY <2>4, <3>2, <3>3, <4>1 DEF Unbroken
      <4>3. \A g \in RequestGenerations(ss, s) : g \in RequestGenerations(ss, p)
        BY <3>3 DEF RequestGenerations
      <4>4. t.generation <= s.generation
        BY <1>2, <2>4, <3>3, <4>2 DEF Follows, StageRows
      <4> QED BY <1>3, <2>2, <2>3, <3>2, <3>3, <4>2, <4>3, <4>4 DEF Follows
    <3> QED BY <3>4, <3>5
  <2>7. CASE s.state = "SUPPRESSED"
    BY <1>1, <2>7, <2>1 DEF Same
  <2> QED BY <2>4, <2>5, <2>6, <2>7 DEF StageRows
<1> QED BY <1>4, <1>5, <1>6, <1>7, <1>8 DEF StagesInv

LEMMA SuppressedEvolves ==
  ASSUME NEW ss, ss \subseteq StageRows, NEW which, which \subseteq ss,
         \A s \in which : s.state = "READY"
  PROVE  /\ Evolved(ss, Suppressed(ss, which))
         /\ \A t \in Suppressed(ss, which) : t.state = "READY" => t \in ss \ which
<1> DEFINE f == [s \in ss |->
      IF s \in which THEN [s EXCEPT !.state = "SUPPRESSED", !.elapsed = FALSE] ELSE s]
<1>1. \A s \in which : [s EXCEPT !.state = "SUPPRESSED", !.elapsed = FALSE] \in StageRows
  BY DEF StageRows
<1>2. \A s \in ss : f[s] \in StageRows /\ Same(s, f[s]) /\ InOrder(ss, s, f[s])
  BY <1>1, ZenonT(40) DEF Same, InOrder, StageRows
<1>3. f \in [ss -> StageRows]
  BY <1>2
<1>4. Suppressed(ss, which) = {f[s] : s \in ss}
  BY DEF Suppressed
<1>5. Evolved(ss, Suppressed(ss, which))
  BY <1>2, <1>3, <1>4 DEF Evolved
<1>6. \A t \in Suppressed(ss, which) : t.state = "READY" => t \in ss \ which
  BY <1>1 DEF Suppressed, StageRows
<1> QED BY <1>5, <1>6

LEMMA SettledEvolves ==
  ASSUME NEW ss, ss \subseteq StageRows, NEW withheld, Settings
  PROVE  Evolved(ss, Settled(ss, withheld))
<1> DEFINE settled(s) ==
      CASE s \in Captures(ss, withheld) -> Captured(s)
        [] Served(s, withheld) /\ Silent(s) ->
             [s EXCEPT !.state = "SUPPRESSED", !.elapsed = FALSE]
        [] OTHER -> Deferred(s)
<1> DEFINE f == [s \in ss |-> IF s \in Due(ss) THEN settled(s) ELSE s]
<1>1. \A s \in Due(ss) : s \in ss /\ s.state = "READY"
  BY DEF Due
<1>2. deployment.epoch \in Nat
  BY DEF Settings
<1>3. \A s \in ss : s.state = "READY" =>
        /\ Same(s, Captured(s)) /\ Same(s, Deferred(s))
        /\ Same(s, [s EXCEPT !.state = "SUPPRESSED", !.elapsed = FALSE])
  BY <1>2, ZenonT(40) DEF Same, Captured, Deferred, StageRows
<1>4. \A s \in ss : Same(s, s)
  BY DEF Same, StageRows
<1>5. \A s \in Due(ss) : settled(s) \in
        {Captured(s), Deferred(s), [s EXCEPT !.state = "SUPPRESSED", !.elapsed = FALSE]}
  OBVIOUS
<1>6. \A s \in Due(ss) : Same(s, settled(s))
  BY <1>1, <1>3, <1>5
<1>7. Settled(ss, withheld) = (ss \ Due(ss)) \cup {settled(s) : s \in Due(ss)}
  BY DEF Settled
<1>8. \A s \in Due(ss) : InOrder(ss, s, settled(s))
  <2> SUFFICES ASSUME NEW s \in Due(ss), settled(s).state = "CAPTURED"
               PROVE  /\ s.mode = "CAPTURE"
                      /\ s.plan = Request \/ \E p \in Predecessors(ss, s) :
                           p.state = "CAPTURED" /\ p.epoch = settled(s).epoch
    BY DEF InOrder
  <2>1. s \in StageRows /\ s.state = "READY"
    BY <1>1
  <2>2. CASE s \in Captures(ss, withheld)
    <3>1. settled(s) = Captured(s)
      BY <2>2
    <3>2. settled(s).epoch = deployment.epoch
      BY <2>1, <3>1, ZenonT(40) DEF Captured, StageRows
    <3>3. InSequence(ss, s) /\ gate.epoch = deployment.epoch /\ s.mode # "SHADOW"
      BY <2>2 DEF Captures, GateOpen, Silent
    <3>4. s.mode = "CAPTURE"
      BY <2>1, <3>3 DEF StageRows
    <3> QED BY <3>2, <3>3, <3>4 DEF InSequence
  <2>3. CASE s \notin Captures(ss, withheld)
    <3>1. settled(s) \in {Deferred(s), [s EXCEPT !.state = "SUPPRESSED", !.elapsed = FALSE]}
      BY <2>3
    <3> DEFINE outcome == settled(s)
    <3>2. \A t \in StageRows : t.state = "READY" =>
            /\ Deferred(t).state # "CAPTURED"
            /\ [t EXCEPT !.state = "SUPPRESSED", !.elapsed = FALSE].state # "CAPTURED"
      BY DEF Deferred, StageRows
    <3>3. outcome \in {Deferred(s), [s EXCEPT !.state = "SUPPRESSED", !.elapsed = FALSE]}
      BY <3>1
    <3> HIDE DEF outcome
    <3>4. outcome.state # "CAPTURED"
      BY <2>1, <3>2, <3>3
    <3> QED BY <3>4 DEF outcome
  <2> QED BY <2>2, <2>3
<1> HIDE DEF settled
<1>9. \A s \in ss : Same(s, f[s]) /\ InOrder(ss, s, f[s])
  <2>1. \A s \in ss : InOrder(ss, s, s)
    BY DEF InOrder
  <2> QED BY <1>4, <1>6, <1>8, <2>1
<1>10. f \in [ss -> StageRows]
  BY <1>9 DEF Same
<1>11. Settled(ss, withheld) = {f[s] : s \in ss}
  BY <1>1, <1>7
<1> QED BY <1>9, <1>10, <1>11 DEF Evolved

-----------------------------------------------------------------------------
(* Stages that are written *)

LEMMA PlanTypes == Plans \subseteq Nat /\ Planned \subseteq Plans /\ Request \in Planned
<1>1. LastPlan \in Nat /\ ManagerEscalation \in Nat /\ ManagerEscalation # 0
  BY EngagementAssumption DEF LastPlan, ManagerEscalation
<1> QED BY <1>1 DEF Plans, Planned, Request

LEMMA NewStageTypes ==
  ASSUME Settings, NEW o \in Nat, NEW g \in Nat, NEW p \in Plans,
         NEW mode \in {"SHADOW", "CAPTURE"}
  PROVE  LET s == NewStage(o, g, p, mode) IN
         /\ s \in StageRows /\ s.obligation = o /\ s.generation = g /\ s.plan = p
         /\ s.mode = mode /\ s.state = "READY"
<1>1. p \in Nat
  BY PlanTypes
<1>2. Remaining \in SUBSET FactTypes
  BY DEF Remaining
<1>3. zone[Role(p)] \in BOOLEAN
  BY DEF Settings, Role, Roles
<1>4. BirthEpoch \in Nat
  BY DEF Settings, BirthEpoch
<1> QED BY <1>1, <1>2, <1>3, <1>4 DEF NewStage, StageRows

\* A chain of new stages in a generation that no stage of the obligation has
\* yet, whose plans are not pending.
LEMMA AddedInv ==
  ASSUME NEW obs, NEW ss, NEW new, NEW o, NEW g,
         StagesInv(obs, ss), new \subseteq StageRows, g \in Nat,
         o \in DOMAIN obs, obs[o].engagement = "ACTIVE", obs[o].generation = g, 1 <= g,
         \A n \in new : n.obligation = o /\ n.generation = g /\ n.plan \in Plans,
         \A m, n \in new : m.plan = n.plan => m = n,
         \A s \in ss : s.obligation = o =>
           s.generation < g /\ (s.state = "READY" => \A n \in new : n.plan # s.plan),
         (\E n \in new : n.mode = "CAPTURE") => \E n \in new : n.plan = Request,
         \A n \in new : n.state = "READY"
  PROVE  StagesInv(obs, ss \cup new)
<1>1. /\ ss \subseteq StageRows /\ (\A s \in ss : StageInv(obs, s))
      /\ Unrepeated(ss) /\ Asked(ss) /\ Unbroken(ss)
  BY DEF StagesInv
<1>2. ss \cup new \subseteq StageRows
  BY <1>1
<1>3. \A n \in new : StageInv(obs, n)
  BY DEF StageInv
<1>4. \A s \in ss, n \in new : s.obligation = n.obligation => s.generation # n.generation
  BY <1>1 DEF StageRows
<1>5. Unrepeated(ss \cup new)
  <2>1. \A s, t \in ss :
          (/\ s.obligation = t.obligation /\ s.plan = t.plan
           /\ s.generation = t.generation \/ (s.state = "READY" /\ t.state = "READY")) => s = t
    BY <1>1 DEF Unrepeated
  <2>2. \A s \in ss, n \in new : s.obligation = n.obligation /\ s.plan = n.plan =>
          s.generation # n.generation /\ s.state # "READY"
    BY <1>4
  <2>3. \A s \in ss, n \in new : n.obligation = s.obligation /\ n.plan = s.plan =>
          n.generation # s.generation /\ s.state # "READY"
    BY <2>2
  <2> QED BY <2>1, <2>2, <2>3 DEF Unrepeated
<1>6. Asked(ss \cup new)
  <2> SUFFICES ASSUME NEW s \in ss \cup new, s.mode = "CAPTURE"
               PROVE  \E t \in ss \cup new : t.obligation = s.obligation
                        /\ t.generation = s.generation /\ t.plan = Request
    BY DEF Asked
  <2>1. CASE s \in ss
    BY <2>1, <1>1 DEF Asked
  <2>2. CASE s \in new
    BY <2>2
  <2> QED BY <2>1, <2>2
<1>7. Unbroken(ss \cup new)
  <2> SUFFICES ASSUME NEW s \in ss, s.state = "CAPTURED", NEW q \in Request .. s.plan - 1
               PROVE  \E t \in ss : Follows(ss \cup new, s, q, t)
    BY DEF Unbroken
  <2>1. PICK t \in ss : Follows(ss, s, q, t)
    BY <1>1 DEF Unbroken
  <2>2. s.generation \in Nat
    BY <1>1 DEF StageRows
  <2>3. RequestGenerations(ss \cup new, s) = RequestGenerations(ss, s)
    <3>1. \A n \in new : n.obligation = s.obligation => ~(n.generation <= s.generation)
      BY <2>2
    <3> QED BY <3>1 DEF RequestGenerations
  <2> QED BY <2>1, <2>3 DEF Follows
<1> QED BY <1>1, <1>2, <1>3, <1>5, <1>6, <1>7 DEF StagesInv

-----------------------------------------------------------------------------
(* The obligations after an assessment *)

LEMMA ObligationTypes ==
  ASSUME NEW obs, ObligationsInv(obs)
  PROVE  /\ Len(obs) \in Nat /\ DOMAIN obs = 1 .. Len(obs)
         /\ \A o \in DOMAIN obs : obs[o] \in ObligationRows /\ o \in Nat /\ o # 0
         /\ \A o \in DOMAIN obs : obs[o].generation \in Nat
<1>1. obs \in Seq(ObligationRows)
  BY DEF ObligationsInv
<1>2. Len(obs) \in Nat /\ DOMAIN obs = 1 .. Len(obs)
  BY <1>1, LenProperties
<1>3. \A o \in DOMAIN obs : obs[o] \in ObligationRows
  BY <1>1, <1>2, ElementOfSeq
<1> QED BY <1>2, <1>3 DEF ObligationRows

LEMMA OneOpenRow ==
  ASSUME ObligationsInv(obligations)
  PROVE  /\ CurrentOpen # NoObligation =>
              /\ CurrentOpen = Len(obligations) /\ CurrentOpen \in DOMAIN obligations
              /\ obligations[CurrentOpen].state = "OPEN"
         /\ \A o \in DOMAIN obligations :
              obligations[o].state = "OPEN" \/ Live(o) => o = CurrentOpen
<1>1. \A o \in OpenRows : o = Len(obligations) /\ o \in DOMAIN obligations
  BY DEF OpenRows, ObligationsInv
<1>2. CASE OpenRows = {}
  BY <1>2 DEF CurrentOpen, OpenRows, ObligationsInv, Live
<1>3. CASE OpenRows # {}
  <2>1. CurrentOpen \in OpenRows
    BY <1>3 DEF CurrentOpen
  <2> QED BY <2>1, <1>1 DEF OpenRows, ObligationsInv, Live
<1> QED BY <1>2, <1>3

LEMMA SameInterval ==
  ASSUME NEW m \in Nat, NEW n \in Nat, 1 .. m = 1 .. n
  PROVE  m = n
<1>1. CASE m < n
  <2>1. n \in 1 .. n /\ n \notin 1 .. m
    BY <1>1
  <2> QED BY <2>1
<1>2. CASE n < m
  <2>1. m \in 1 .. m /\ m \notin 1 .. n
    BY <1>2
  <2> QED BY <2>1
<1> QED BY <1>1, <1>2

\* A new obligation is opened when the current one cannot be reused.
Opens == Stale /\ ~Reuse

LEMMA OpenedRows ==
  ASSUME ObligationsInv(obligations), Settings
  PROVE  /\ Superseded \in Seq(ObligationRows) /\ Opened \in Seq(ObligationRows)
         /\ Len(Opened) = IF Opens THEN Len(obligations) + 1 ELSE Len(obligations)
         /\ DOMAIN Opened = 1 .. Len(Opened)
         /\ \A o \in DOMAIN obligations : o \in DOMAIN Opened /\ Opened[o] = Superseded[o]
         /\ Opens => Opened[Len(obligations) + 1] =
              [state |-> "OPEN", policy |-> policy.revision, engagement |-> "NONE",
               generation |-> 0]
<1> DEFINE row == [state |-> "OPEN", policy |-> policy.revision, engagement |-> "NONE",
                   generation |-> 0]
<1>1. row \in ObligationRows
  BY DEF ObligationRows, Settings
<1>2. Len(obligations) \in Nat /\ DOMAIN obligations = 1 .. Len(obligations)
  BY ObligationTypes
<1>3. \A o \in DOMAIN obligations : obligations[o] \in ObligationRows
  BY ObligationTypes
<1>4. \A o \in DOMAIN obligations :
        [obligations[o] EXCEPT !.state = "SUPERSEDED"] \in ObligationRows
  BY <1>3 DEF ObligationRows
<1>5. Superseded \in [1 .. Len(obligations) -> ObligationRows]
  BY <1>2, <1>3, <1>4 DEF Superseded
<1>6. Superseded \in Seq(ObligationRows)
  BY <1>2, <1>5, SeqDef
<1>7. Len(Superseded) = Len(obligations)
  <2>1. DOMAIN Superseded = 1 .. Len(Superseded) /\ Len(Superseded) \in Nat
    BY <1>6, LenProperties
  <2>2. DOMAIN Superseded = 1 .. Len(obligations)
    BY <1>5
  <2> QED BY <2>1, <2>2, <1>2, SameInterval
<1>8. CASE Opens
  <2>1. Opened = Append(Superseded, row)
    BY <1>8 DEF Opened, Opens
  <2> HIDE DEF row
  <2>2. /\ Append(Superseded, row) \in Seq(ObligationRows)
        /\ Len(Append(Superseded, row)) = Len(Superseded) + 1
        /\ \A i \in 1 .. Len(Superseded) : Append(Superseded, row)[i] = Superseded[i]
        /\ Append(Superseded, row)[Len(Superseded) + 1] = row
    BY <1>1, <1>6, AppendProperties
  <2>3. DOMAIN Opened = 1 .. Len(Opened)
    BY <2>1, <2>2, LenProperties
  <2> QED BY <1>2, <1>6, <1>7, <1>8, <2>1, <2>2, <2>3 DEF row
<1>9. CASE ~Opens
  <2>1. Opened = Superseded
    BY <1>9 DEF Opened, Opens
  <2> QED BY <1>2, <1>5, <1>6, <1>7, <1>9, <2>1
<1> QED BY <1>8, <1>9

LEMMA CurrentTypes ==
  ASSUME ObligationsInv(obligations)
  PROVE  /\ Current = IF ~Stale THEN NoObligation
                      ELSE IF Opens THEN Len(obligations) + 1 ELSE CurrentOpen
         /\ Reuse => Stale /\ CurrentOpen # NoObligation
<1>1. Reuse => Stale /\ CurrentOpen # NoObligation
  BY DEF Reuse, SamePolicy
<1> QED BY <1>1 DEF Current, Opens

LEMMA RefreshedRows ==
  ASSUME ObligationsInv(obligations), Settings
  PROVE  /\ ObligationsInv(Refreshed) /\ DOMAIN Refreshed = DOMAIN Opened
         /\ \A o \in DOMAIN obligations :
              /\ o \in DOMAIN Refreshed
              /\ obligations[o].generation <= Refreshed[o].generation
              /\ Live(o) /\ o \notin Ended => Refreshed[o].engagement = "ACTIVE"
         /\ \A o \in Replanned :
              /\ o \in DOMAIN obligations /\ o \notin Ended
              /\ Refreshed[o].engagement = "ACTIVE"
              /\ Refreshed[o].generation = NextGeneration(o)
         /\ Current # NoObligation =>
              Current \in DOMAIN Refreshed /\ Refreshed[Current].state = "OPEN"
<1> DEFINE n == Len(obligations)
<1>1. /\ n \in Nat /\ DOMAIN obligations = 1 .. n
      /\ \A o \in 1 .. n : obligations[o] \in ObligationRows /\ o \in Nat /\ o # 0
      /\ \A o \in 1 .. n : obligations[o].generation \in Nat
  BY ObligationTypes
<1>2. /\ Superseded \in Seq(ObligationRows) /\ Opened \in Seq(ObligationRows)
      /\ Len(Opened) = IF Opens THEN n + 1 ELSE n
      /\ DOMAIN Opened = 1 .. Len(Opened)
      /\ \A o \in 1 .. n : o \in DOMAIN Opened /\ Opened[o] = Superseded[o]
      /\ Opens => Opened[n + 1] =
           [state |-> "OPEN", policy |-> policy.revision, engagement |-> "NONE",
            generation |-> 0]
  BY <1>1, OpenedRows
<1>3. /\ CurrentOpen # NoObligation =>
           /\ CurrentOpen = n /\ CurrentOpen \in 1 .. n
           /\ obligations[CurrentOpen].state = "OPEN"
      /\ \A o \in 1 .. n : obligations[o].state = "OPEN" \/ Live(o) => o = CurrentOpen
  BY <1>1, OneOpenRow
<1>4. /\ Current = IF ~Stale THEN NoObligation
                   ELSE IF Opens THEN n + 1 ELSE CurrentOpen
      /\ Reuse => Stale /\ CurrentOpen # NoObligation
  BY CurrentTypes
<1>5. \A o \in 1 .. n : obligations[o].engagement = "ACTIVE" => obligations[o].state = "OPEN"
  BY <1>1 DEF ObligationsInv
<1>6. \A o \in 1 .. n : obligations[o].engagement = "NONE" => obligations[o].generation = 0
  BY <1>1 DEF ObligationsInv
\* The rows that were there, after superseding.
<1>7. \A o \in 1 .. n :
        /\ Opened[o].engagement = obligations[o].engagement
        /\ Opened[o].generation = obligations[o].generation
        /\ Opened[o].state = IF o = CurrentOpen /\ ~Reuse THEN "SUPERSEDED"
                             ELSE obligations[o].state
  BY <1>1, <1>2 DEF Superseded, ObligationRows
<1>8. Ended \subseteq 1 .. n /\ Replanned \subseteq 1 .. n /\ Replanned \cap Ended = {}
  BY <1>1 DEF Ended, Replanned
<1>9. \A o \in Replanned : Live(o) /\ o = Current
  BY DEF Replanned
<1>10. \A o \in 1 .. n : Live(o) <=> obligations[o].engagement = "ACTIVE"
  BY <1>1 DEF Live
<1>11. \A o \in Replanned : NextGeneration(o) \in Nat
         /\ NextGeneration(o) = obligations[o].generation + 1
  BY <1>1, <1>8 DEF NextGeneration
<1>12. \A o \in DOMAIN Opened : Opened[o] \in ObligationRows
  BY <1>2, ElementOfSeq
<1>13. \A o \in DOMAIN Opened : Refreshed[o] =
         IF o \in Ended THEN [Opened[o] EXCEPT !.engagement = "CLOSED"]
         ELSE IF o \in Replanned THEN [Opened[o] EXCEPT !.generation = NextGeneration(o)]
         ELSE Opened[o]
  BY <1>8 DEF Refreshed
<1>14. \A o \in Ended : Refreshed[o] \in ObligationRows
         /\ Refreshed[o].engagement = "CLOSED" /\ Refreshed[o].state = Opened[o].state
         /\ Refreshed[o].generation = Opened[o].generation
  <2>1. \A row \in ObligationRows :
          LET new == [row EXCEPT !.engagement = "CLOSED"] IN
          /\ new \in ObligationRows /\ new.engagement = "CLOSED"
          /\ new.state = row.state /\ new.generation = row.generation
    BY DEF ObligationRows
  <2> SUFFICES ASSUME NEW o \in Ended
               PROVE  /\ Refreshed[o] \in ObligationRows
                      /\ Refreshed[o].engagement = "CLOSED"
                      /\ Refreshed[o].state = Opened[o].state
                      /\ Refreshed[o].generation = Opened[o].generation
    OBVIOUS
  <2>2. o \in DOMAIN Opened /\ Opened[o] \in ObligationRows
    BY <1>2, <1>8, <1>12
  <2>3. Refreshed[o] = [Opened[o] EXCEPT !.engagement = "CLOSED"]
    BY <2>2, <1>13
  <2> QED BY <2>1, <2>2, <2>3
<1>15. \A o \in Replanned : Refreshed[o] \in ObligationRows
         /\ Refreshed[o].engagement = Opened[o].engagement
         /\ Refreshed[o].state = Opened[o].state
         /\ Refreshed[o].generation = obligations[o].generation + 1
  <2>1. \A row \in ObligationRows, g \in Nat :
          LET new == [row EXCEPT !.generation = g] IN
          /\ new \in ObligationRows /\ new.engagement = row.engagement
          /\ new.state = row.state /\ new.generation = g
    BY DEF ObligationRows
  <2> SUFFICES ASSUME NEW o \in Replanned
               PROVE  /\ Refreshed[o] \in ObligationRows
                      /\ Refreshed[o].engagement = Opened[o].engagement
                      /\ Refreshed[o].state = Opened[o].state
                      /\ Refreshed[o].generation = obligations[o].generation + 1
    OBVIOUS
  <2>2. o \in DOMAIN Opened /\ o \notin Ended /\ Opened[o] \in ObligationRows
    BY <1>2, <1>8, <1>12
  <2>3. Refreshed[o] = [Opened[o] EXCEPT !.generation = NextGeneration(o)]
    BY <2>2, <1>13
  <2> QED BY <1>11, <2>1, <2>2, <2>3
<1>16. \A o \in DOMAIN Opened : o \notin Ended /\ o \notin Replanned => Refreshed[o] = Opened[o]
  BY <1>13
<1>17. DOMAIN Refreshed = DOMAIN Opened
  BY DEF Refreshed
<1>18. Refreshed \in Seq(ObligationRows) /\ Len(Refreshed) = Len(Opened)
  <2>1. Len(Opened) \in Nat
    BY <1>2, LenProperties
  <2>2. Refreshed \in [1 .. Len(Opened) -> ObligationRows]
    BY <1>2, <1>12, <1>14, <1>15, <1>16 DEF Refreshed
  <2>3. Refreshed \in Seq(ObligationRows)
    BY <2>1, <2>2, SeqDef
  <2>4. DOMAIN Refreshed = 1 .. Len(Refreshed) /\ Len(Refreshed) \in Nat
    BY <2>3, LenProperties
  <2> QED BY <1>2, <1>17, <2>1, <2>3, <2>4, SameInterval
\* Only the current obligation is open, and none but it is pursued.
<1>19. \A o \in DOMAIN Refreshed :
         /\ Refreshed[o].state = "OPEN" => o = Len(Refreshed)
         /\ Refreshed[o].engagement = "ACTIVE" => Refreshed[o].state = "OPEN"
         /\ Refreshed[o].engagement = "NONE" => Refreshed[o].generation = 0
  <2> SUFFICES ASSUME NEW o \in DOMAIN Refreshed
               PROVE  /\ Refreshed[o].state = "OPEN" => o = Len(Refreshed)
                      /\ Refreshed[o].engagement = "ACTIVE" => Refreshed[o].state = "OPEN"
                      /\ Refreshed[o].engagement = "NONE" => Refreshed[o].generation = 0
    OBVIOUS
  <2>1. Refreshed[o].state = Opened[o].state
    BY <1>14, <1>15, <1>16, <1>17
  <2>2. CASE o \in 1 .. n
    <3>1. Opened[o].state = "OPEN" => o = CurrentOpen /\ Reuse /\ o = n /\ ~Opens
      BY <1>3, <1>4, <1>7, <2>2 DEF Opens
    <3>2. Opened[o].state = "OPEN" => o = Len(Refreshed)
      BY <1>2, <1>18, <3>1
    <3>3. o \in Ended \/ (o \notin Ended /\ (Live(o) => o = Current))
      BY <2>2, <1>1 DEF Ended
    <3>4. o \notin Ended /\ Live(o) => Reuse /\ o = CurrentOpen
      BY <3>3, <2>2, <1>1, <1>3, <1>4 DEF Opens, NoObligation
    <3>5. o \notin Ended /\ Live(o) => Opened[o].state = "OPEN"
      BY <3>4, <2>2, <1>3, <1>5, <1>7, <1>10
    <3>6. Refreshed[o].engagement = "ACTIVE" => o \notin Ended /\ Live(o)
      BY <2>2, <1>7, <1>10, <1>9, <1>14, <1>15, <1>16, <1>17
    <3>7. Refreshed[o].engagement = "NONE" => Refreshed[o].generation = 0
      BY <2>2, <1>6, <1>7, <1>9, <1>10, <1>14, <1>15, <1>16, <1>17
    <3> QED BY <2>1, <3>2, <3>5, <3>6, <3>7
  <2>3. CASE o \notin 1 .. n
    <3>1. Opens /\ o = n + 1 /\ o \notin Ended /\ o \notin Replanned
      BY <2>3, <1>1, <1>2, <1>8, <1>17
    <3>2. Refreshed[o] = [state |-> "OPEN", policy |-> policy.revision,
                          engagement |-> "NONE", generation |-> 0]
      BY <3>1, <1>2, <1>16, <1>17
    <3> QED BY <3>1, <3>2, <1>2, <1>18
  <2> QED BY <2>2, <2>3
<1>20. ObligationsInv(Refreshed)
  BY <1>18, <1>19 DEF ObligationsInv
<1>21. \A o \in 1 .. n :
         /\ o \in DOMAIN Refreshed
         /\ obligations[o].generation <= Refreshed[o].generation
         /\ Live(o) /\ o \notin Ended => Refreshed[o].engagement = "ACTIVE"
  BY <1>1, <1>2, <1>7, <1>10, <1>14, <1>15, <1>16, <1>17
<1>22. \A o \in Replanned : Refreshed[o].engagement = "ACTIVE"
                             /\ Refreshed[o].generation = NextGeneration(o)
  BY <1>8, <1>9, <1>11, <1>15, <1>21
<1>23. Current # NoObligation =>
         Current \in DOMAIN Refreshed /\ Refreshed[Current].state = "OPEN"
  <2>1. CASE Opens
    <3>1. Current = n + 1 /\ Current \in DOMAIN Opened
      BY <2>1, <1>1, <1>2, <1>4 DEF Opens
    <3>2. Current \notin Ended /\ Current \notin Replanned
      BY <3>1, <1>1, <1>8
    <3> QED BY <3>1, <3>2, <2>1, <1>2, <1>16, <1>17
  <2>2. CASE ~Opens
    <3>1. Current # NoObligation => Reuse /\ Current = CurrentOpen /\ CurrentOpen # NoObligation
      BY <2>2, <1>4 DEF Opens
    <3>2. Current # NoObligation => Current \in 1 .. n /\ Opened[Current].state = "OPEN"
      BY <3>1, <1>3, <1>7
    <3>3. \A o \in 1 .. n : Refreshed[o].state = Opened[o].state
      BY <1>14, <1>15, <1>16, <1>17, <1>2
    <3> QED BY <3>2, <3>3, <1>21
  <2> QED BY <2>1, <2>2
<1> QED BY <1>1, <1>8, <1>17, <1>20, <1>21, <1>22, <1>23

-----------------------------------------------------------------------------
(* The stages after an assessment *)

\* Generations only grow, and what is pending stays with an active engagement.
LEMMA MovedInv ==
  ASSUME NEW obs, NEW now, NEW ss, StagesInv(obs, ss),
         ObligationsInv(obs), ObligationsInv(now),
         \A o \in DOMAIN obs : o \in DOMAIN now /\ obs[o].generation <= now[o].generation,
         \A s \in ss : s.state = "READY" => now[s.obligation].engagement = "ACTIVE"
  PROVE  StagesInv(now, ss)
<1>1. /\ ss \subseteq StageRows /\ (\A s \in ss : StageInv(obs, s))
      /\ Unrepeated(ss) /\ Asked(ss) /\ Unbroken(ss)
  BY DEF StagesInv
<1>2. \A s \in ss : StageInv(now, s)
  <2> SUFFICES ASSUME NEW s \in ss PROVE StageInv(now, s)
    OBVIOUS
  <2>1. /\ s.obligation \in DOMAIN obs /\ s.plan \in Plans
        /\ 1 <= s.generation /\ s.generation <= obs[s.obligation].generation
        /\ s.state = "CAPTURED" => s.mode = "CAPTURE"
    BY <1>1 DEF StageInv
  <2>2. s.generation \in Nat
    BY <1>1 DEF StageRows
  <2>3. obs[s.obligation].generation \in Nat /\ now[s.obligation].generation \in Nat
    BY <2>1, ObligationTypes
  <2> QED BY <2>1, <2>2, <2>3 DEF StageInv
<1> QED BY <1>1, <1>2 DEF StagesInv

LEMMA RowUpdated ==
  ASSUME NEW obs, ObligationsInv(obs), NEW o \in DOMAIN obs, obs[o].state = "OPEN",
         NEW row \in ObligationRows, row.state = "OPEN", row.engagement = "ACTIVE"
  PROVE  /\ ObligationsInv([obs EXCEPT ![o] = row])
         /\ DOMAIN [obs EXCEPT ![o] = row] = DOMAIN obs
         /\ \A q \in DOMAIN obs :
              [obs EXCEPT ![o] = row][q] = IF q = o THEN row ELSE obs[q]
<1>1. obs \in Seq(ObligationRows) /\ DOMAIN obs = 1 .. Len(obs)
  BY ObligationTypes DEF ObligationsInv
<1>2. /\ [obs EXCEPT ![o] = row] \in Seq(ObligationRows)
      /\ Len([obs EXCEPT ![o] = row]) = Len(obs)
      /\ \A q \in DOMAIN obs : [obs EXCEPT ![o] = row][q] = IF q = o THEN row ELSE obs[q]
  BY <1>1, ExceptSeq
<1>3. DOMAIN [obs EXCEPT ![o] = row] = DOMAIN obs
  OBVIOUS
<1> QED BY <1>2, <1>3 DEF ObligationsInv

\* createEngagement and beginCaptureGeneration plan a whole chain.
Chained(obs, ss, o, row, mode) ==
  /\ ObligationsInv([obs EXCEPT ![o] = row])
  /\ StagesInv([obs EXCEPT ![o] = row],
               ss \cup {NewStage(o, row.generation, p, mode) : p \in Planned})

LEMMA ChainInv ==
  ASSUME Settings, NEW obs, NEW ss, ObligationsInv(obs), StagesInv(obs, ss),
         NEW o \in DOMAIN obs, obs[o].state = "OPEN",
         NEW row \in ObligationRows, row.state = "OPEN", row.engagement = "ACTIVE",
         obs[o].generation < row.generation, NEW mode \in {"SHADOW", "CAPTURE"},
         \A s \in ss : s.obligation = o => s.state # "READY"
  PROVE  Chained(obs, ss, o, row, mode)
<1> DEFINE now == [obs EXCEPT ![o] = row]
<1> DEFINE new == {NewStage(o, row.generation, p, mode) : p \in Planned}
<1>1. /\ ObligationsInv(now) /\ DOMAIN now = DOMAIN obs
      /\ \A q \in DOMAIN obs : now[q] = IF q = o THEN row ELSE obs[q]
  BY RowUpdated
<1> HIDE DEF now
<1>2. o \in Nat /\ row.generation \in Nat /\ obs[o].generation \in Nat /\ 1 <= row.generation
  <2>1. o \in Nat /\ obs[o].generation \in Nat
    BY ObligationTypes
  <2>2. row.generation \in Nat
    BY DEF ObligationRows
  <2> QED BY <2>1, <2>2
<1>3. \A s \in ss : s \in StageRows /\ StageInv(obs, s)
  BY DEF StagesInv
<1>4. StagesInv(now, ss)
  <2>1. \A q \in DOMAIN obs : q \in DOMAIN now /\ obs[q].generation <= now[q].generation
    BY <1>1, <1>2, ObligationTypes
  <2>2. \A s \in ss : s.state = "READY" => now[s.obligation].engagement = "ACTIVE"
    BY <1>1, <1>3 DEF StageInv
  <2> QED BY <1>1, <2>1, <2>2, MovedInv
<1>5. \A p \in Planned : LET s == NewStage(o, row.generation, p, mode) IN
        /\ s \in StageRows /\ s.obligation = o /\ s.generation = row.generation
        /\ s.plan = p /\ s.mode = mode /\ s.state = "READY"
  BY <1>2, PlanTypes, NewStageTypes
<1>6. /\ new \subseteq StageRows
      /\ \A n \in new : n.obligation = o /\ n.generation = row.generation /\ n.plan \in Plans
      /\ \A n \in new : n.state = "READY"
      /\ \A m, n \in new : m.plan = n.plan => m = n
      /\ \E n \in new : n.plan = Request
  BY <1>5, PlanTypes
<1> HIDE DEF new
<1>7. \A s \in ss : s.obligation = o => s.generation < row.generation
  <2>1. \A s \in ss : s.generation \in Nat
    BY <1>3 DEF StageRows
  <2> QED BY <1>2, <1>3, <2>1 DEF StageInv
<1>8. StagesInv(now, ss \cup new)
  BY <1>1, <1>2, <1>4, <1>6, <1>7, AddedInv
<1> QED BY <1>1, <1>8 DEF now, new, Chained

Withdrawn ==
  (UNION {Pending(stages, o) : o \in Ended}) \cup (UNION {Replaced(o) : o \in Replanned})

LEMMA SuspendedEvolves ==
  ASSUME stages \subseteq StageRows
  PROVE  /\ Evolved(stages, Suspended)
         /\ \A t \in Suspended : t.state = "READY" => t \in stages \ Withdrawn
<1>1. \A o : Replaced(o) \subseteq Pending(stages, o)
  BY DEF Replaced
<1>2. \A o : Pending(stages, o) \subseteq stages /\ \A s \in Pending(stages, o) : s.state = "READY"
  BY DEF Pending
<1>3. \A s \in Withdrawn : \E o : s \in Pending(stages, o)
  BY <1>1 DEF Withdrawn
<1>4. Withdrawn \subseteq stages /\ \A s \in Withdrawn : s.state = "READY"
  BY <1>2, <1>3
<1>5. Suspended = Suppressed(stages, Withdrawn)
  BY DEF Suspended, Withdrawn
<1> QED BY <1>4, <1>5, SuppressedEvolves

LEMMA ReplacementsTypes ==
  ASSUME Settings, ObligationsInv(obligations), StagesInv(obligations, stages),
         NEW o \in Replanned
  PROVE  /\ NextGeneration(o) \in Nat /\ 1 <= NextGeneration(o)
         /\ Replacements(o) \subseteq StageRows
         /\ \A n \in Replacements(o) :
              /\ n.obligation = o /\ n.generation = NextGeneration(o)
              /\ n.plan \in Planned /\ n.state = "READY"
         /\ \A m, n \in Replacements(o) : m.plan = n.plan => m = n
         /\ (\E n \in Replacements(o) : n.mode = "CAPTURE")
              => \E n \in Replacements(o) : n.plan = Request
<1> DEFINE g == NextGeneration(o)
<1>1. o \in DOMAIN obligations
  BY DEF Replanned
<1>2. o \in Nat /\ g \in Nat /\ 1 <= g
  BY <1>1, ObligationTypes DEF NextGeneration
<1> HIDE DEF g
<1>3. \A s \in Replaced(o) :
        /\ s \in stages /\ s.obligation = o /\ s.state = "READY"
        /\ s.plan \in Planned /\ s.mode \in {"SHADOW", "CAPTURE"}
  <2>1. \A s \in Replaced(o) :
          s \in stages /\ s.obligation = o /\ s.state = "READY" /\ s.plan \in Planned
    BY DEF Replaced, Pending
  <2>2. \A s \in stages : s.mode \in {"SHADOW", "CAPTURE"}
    BY DEF StagesInv, StageRows
  <2> QED BY <2>1, <2>2
<1>4. \A s, t \in Replaced(o) : s.plan = t.plan => s = t
  BY <1>3 DEF StagesInv, Unrepeated
<1>5. \A p \in Planned, mode \in {"SHADOW", "CAPTURE"} :
        LET s == NewStage(o, g, p, mode) IN
        /\ s \in StageRows /\ s.obligation = o /\ s.generation = g
        /\ s.plan = p /\ s.mode = mode /\ s.state = "READY"
  BY <1>2, PlanTypes, NewStageTypes
<1>6. Replacements(o) = {NewStage(o, g, s.plan, s.mode) : s \in Replaced(o)} \cup FreshRequest(o)
  BY DEF Replacements, g
<1>7. FreshRequest(o) =
        IF (\E s \in Replaced(o) : s.mode = "CAPTURE") /\ (\A s \in Replaced(o) : s.plan # Request)
          THEN {NewStage(o, g, Request, "CAPTURE")} ELSE {}
  BY DEF FreshRequest, g
<1>8. Request \in Planned
  BY PlanTypes
<1>9. \A n \in Replacements(o) :
        /\ n \in StageRows /\ n.obligation = o /\ n.generation = g /\ n.plan \in Planned
        /\ n.state = "READY"
        /\ \/ \E s \in Replaced(o) : n = NewStage(o, g, s.plan, s.mode) /\ n.plan = s.plan
                                       /\ n.mode = s.mode
           \/ /\ n = NewStage(o, g, Request, "CAPTURE") /\ n.plan = Request
              /\ \A s \in Replaced(o) : s.plan # Request
  BY <1>3, <1>5, <1>6, <1>7, <1>8
<1>10. \A m, n \in Replacements(o) : m.plan = n.plan => m = n
  BY <1>4, <1>9
<1>11. (\E n \in Replacements(o) : n.mode = "CAPTURE")
         => \E n \in Replacements(o) : n.plan = Request
  <2> SUFFICES ASSUME NEW n \in Replacements(o), n.mode = "CAPTURE"
               PROVE  \E r \in Replacements(o) : r.plan = Request
    OBVIOUS
  <2>1. CASE \E s \in Replaced(o) : s.plan = Request
    <3>1. PICK s \in Replaced(o) : s.plan = Request
      BY <2>1
    <3>2. NewStage(o, g, s.plan, s.mode) \in Replacements(o)
      BY <1>6
    <3> QED BY <1>3, <1>5, <3>1, <3>2
  <2>2. CASE \A s \in Replaced(o) : s.plan # Request
    <3>1. n.plan = Request \/ \E s \in Replaced(o) : s.mode = "CAPTURE"
      BY <1>9
    <3>2. CASE \E s \in Replaced(o) : s.mode = "CAPTURE"
      <4>1. NewStage(o, g, Request, "CAPTURE") \in Replacements(o)
        BY <1>6, <1>7, <2>2, <3>2
      <4> QED BY <1>5, <1>8, <4>1
    <3> QED BY <3>1, <3>2
  <2> QED BY <2>1, <2>2
<1> QED BY <1>2, <1>9, <1>10, <1>11 DEF g

LEMMA RefreshedInv ==
  ASSUME Settings, ObligationsInv(obligations), StagesInv(obligations, stages)
  PROVE  StagesInv(Refreshed, RefreshedStages)
<1>1. stages \subseteq StageRows /\ (\A s \in stages : StageInv(obligations, s))
  BY DEF StagesInv
<1>2. /\ Evolved(stages, Suspended)
      /\ \A t \in Suspended : t.state = "READY" => t \in stages /\ t \notin Withdrawn
  BY <1>1, SuspendedEvolves
<1>3. StagesInv(obligations, Suspended)
  BY <1>2, EvolvedInv
<1>4. StagesInv(Refreshed, Suspended)
  <2>1. \A s \in Suspended : s.state = "READY" => Refreshed[s.obligation].engagement = "ACTIVE"
    <3> SUFFICES ASSUME NEW s \in Suspended, s.state = "READY"
                 PROVE  Refreshed[s.obligation].engagement = "ACTIVE"
      OBVIOUS
    <3>1. s \in stages /\ s \notin Withdrawn
      BY <1>2
    <3>2. s.obligation \in DOMAIN obligations /\ Live(s.obligation)
      BY <1>1, <3>1 DEF StageInv, Live
    <3>3. s \in Pending(stages, s.obligation)
      BY <3>1 DEF Pending
    <3>4. s.obligation \notin Ended
      BY <3>1, <3>3 DEF Withdrawn
    <3> QED BY <3>2, <3>4, RefreshedRows
  <2>2. ObligationsInv(Refreshed) /\ \A o \in DOMAIN obligations :
          o \in DOMAIN Refreshed /\ obligations[o].generation <= Refreshed[o].generation
    BY RefreshedRows
  <2> QED BY <1>3, <2>1, <2>2, MovedInv
<1>5. CASE Replanned = {}
  <2>1. RefreshedStages = Suspended
    BY <1>5 DEF RefreshedStages
  <2> QED BY <1>4, <2>1
<1>6. CASE Replanned # {}
  <2>1. PICK o \in Replanned : TRUE
    BY <1>6
  <2>2. Replanned = {o}
    BY <2>1 DEF Replanned
  <2>3. RefreshedStages = Suspended \cup Replacements(o)
    BY <2>2 DEF RefreshedStages
  <2>4. /\ o \in DOMAIN Refreshed /\ Refreshed[o].engagement = "ACTIVE"
        /\ Refreshed[o].generation = NextGeneration(o) /\ o \in DOMAIN obligations
    BY RefreshedRows
  <2>5. \A s \in Suspended : s.obligation = o => s.generation < NextGeneration(o)
    <3>1. \A s \in Suspended : s \in StageRows /\ StageInv(obligations, s)
      BY <1>3 DEF StagesInv
    <3>2. \A s \in Suspended : s.generation \in Nat
      BY <3>1 DEF StageRows
    <3>3. obligations[o].generation \in Nat
      BY <2>4, ObligationTypes
    <3> QED BY <3>1, <3>2, <3>3 DEF StageInv, NextGeneration
\* What is still pending has no plan, the replacements have one.
  <2>6. \A s \in Suspended : s.obligation = o /\ s.state = "READY" => s.plan \notin Planned
    <3> SUFFICES ASSUME NEW s \in Suspended, s.obligation = o, s.state = "READY"
                 PROVE  s.plan \notin Planned
      OBVIOUS
    <3>1. s \in stages /\ s \notin Withdrawn
      BY <1>2
    <3>2. s \in Pending(stages, o) /\ s \notin Replaced(o)
      BY <2>2, <3>1 DEF Pending, Withdrawn
    <3>3. Changed(o) # {}
      BY <2>1 DEF Replanned, Replaced
    <3> QED BY <3>2, <3>3 DEF Replaced
  <2>7. /\ NextGeneration(o) \in Nat /\ 1 <= NextGeneration(o)
        /\ Replacements(o) \subseteq StageRows
        /\ \A n \in Replacements(o) :
             /\ n.obligation = o /\ n.generation = NextGeneration(o)
             /\ n.plan \in Planned /\ n.state = "READY"
        /\ \A m, n \in Replacements(o) : m.plan = n.plan => m = n
        /\ (\E n \in Replacements(o) : n.mode = "CAPTURE")
             => \E n \in Replacements(o) : n.plan = Request
    BY ReplacementsTypes
  <2>8. \A n \in Replacements(o) : n.plan \in Plans
    BY <2>7, PlanTypes
  <2>9. StagesInv(Refreshed, Suspended \cup Replacements(o))
    BY <1>4, <2>4, <2>5, <2>6, <2>7, <2>8, AddedInv
  <2> QED BY <2>3, <2>9
<1> QED BY <1>5, <1>6

-----------------------------------------------------------------------------
(* The whole assessment *)

CreatedRow == [Refreshed[Current] EXCEPT !.engagement = "ACTIVE", !.generation = 1]

LEMMA CreatedRows ==
  ASSUME NEW create \in BOOLEAN, Settings, ObligationsInv(obligations), Creates(create)
  PROVE  /\ Current \in DOMAIN Refreshed /\ Refreshed[Current].state = "OPEN"
         /\ Refreshed[Current].generation = 0
         /\ CreatedRow \in ObligationRows /\ CreatedRow.state = "OPEN"
         /\ CreatedRow.engagement = "ACTIVE" /\ CreatedRow.generation = 1
         /\ Assessed(create) = [Refreshed EXCEPT ![Current] = CreatedRow]
<1>1. Current # NoObligation /\ Refreshed[Current].engagement = "NONE"
  BY DEF Creates
<1>2. /\ Current \in DOMAIN Refreshed /\ Refreshed[Current].state = "OPEN"
      /\ ObligationsInv(Refreshed)
  BY <1>1, RefreshedRows
<1>3. Refreshed[Current].generation = 0 /\ Refreshed[Current] \in ObligationRows
  BY <1>1, <1>2, ObligationTypes DEF ObligationsInv
<1>4. \A row \in ObligationRows :
        LET new == [row EXCEPT !.engagement = "ACTIVE", !.generation = 1] IN
        /\ new \in ObligationRows /\ new.state = row.state
        /\ new.engagement = "ACTIVE" /\ new.generation = 1
  BY DEF ObligationRows
<1>5. /\ CreatedRow \in ObligationRows /\ CreatedRow.state = "OPEN"
      /\ CreatedRow.engagement = "ACTIVE" /\ CreatedRow.generation = 1
  BY <1>2, <1>3, <1>4 DEF CreatedRow
<1>6. Assessed(create) =
        [Refreshed EXCEPT ![Current].engagement = "ACTIVE", ![Current].generation = 1]
  BY DEF Assessed
<1>7. Assessed(create) = [Refreshed EXCEPT ![Current] = CreatedRow]
  BY <1>2, <1>6 DEF CreatedRow
<1> QED BY <1>2, <1>3, <1>5, <1>7

LEMMA AssessedInv ==
  ASSUME NEW create \in BOOLEAN, Settings, ObligationsInv(obligations),
         StagesInv(obligations, stages)
  PROVE  /\ ObligationsInv(Assessed(create))
         /\ StagesInv(Assessed(create), AssessedStages(create))
         /\ Suspended \subseteq AssessedStages(create)
         /\ Current # NoObligation =>
              /\ Current \in DOMAIN Assessed(create)
              /\ Assessed(create)[Current].state = "OPEN"
<1>1. Suspended \subseteq AssessedStages(create)
  BY DEF AssessedStages, RefreshedStages
<1>2. ObligationsInv(Refreshed) /\ StagesInv(Refreshed, RefreshedStages)
  BY RefreshedRows, RefreshedInv
<1>3. CASE ~Creates(create)
  <2>1. Assessed(create) = Refreshed /\ AssessedStages(create) = RefreshedStages
    BY <1>3 DEF Assessed, AssessedStages
  <2> QED BY <1>1, <1>2, <2>1, RefreshedRows
<1>4. CASE Creates(create)
  <2> DEFINE now == [Refreshed EXCEPT ![Current] = CreatedRow]
  <2>1. /\ Current \in DOMAIN Refreshed /\ Refreshed[Current].state = "OPEN"
        /\ Refreshed[Current].generation = 0
        /\ CreatedRow \in ObligationRows /\ CreatedRow.state = "OPEN"
        /\ CreatedRow.engagement = "ACTIVE" /\ CreatedRow.generation = 1
        /\ Assessed(create) = now
    BY <1>4, CreatedRows
  <2>2. \A s \in RefreshedStages : s.obligation = Current => s.state # "READY"
    <3>1. Refreshed[Current].engagement = "NONE"
      BY <1>4 DEF Creates
    <3> QED BY <1>2, <3>1 DEF StagesInv, StageInv
  <2>3. CaptureMode \in {"SHADOW", "CAPTURE"}
    BY DEF CaptureMode
  <2>4. AssessedStages(create) =
          RefreshedStages \cup
            {NewStage(Current, CreatedRow.generation, p, CaptureMode) : p \in Planned}
    BY <1>4, <2>1 DEF AssessedStages
  <2>5. /\ ObligationsInv(now)
        /\ StagesInv(now, RefreshedStages \cup
             {NewStage(Current, CreatedRow.generation, p, CaptureMode) : p \in Planned})
    <3>1. Refreshed[Current].generation < CreatedRow.generation
      BY <2>1
    <3>2. Chained(Refreshed, RefreshedStages, Current, CreatedRow, CaptureMode)
      BY <1>2, <2>1, <2>2, <2>3, <3>1, ChainInv
    <3> QED BY <3>2 DEF Chained
  <2>6. DOMAIN now = DOMAIN Refreshed /\ now[Current] = CreatedRow
    BY <2>1
  <2> QED BY <1>1, <2>1, <2>4, <2>5, <2>6
<1> QED BY <1>3, <1>4

-----------------------------------------------------------------------------
(* What a transaction keeps *)

Kept(ss, tt) ==
  \A s \in ss : \E t \in tt :
    /\ [s EXCEPT !.state = t.state, !.epoch = t.epoch, !.elapsed = t.elapsed] = t
    /\ s.state # "READY" => (t.state = s.state /\ t.epoch = s.epoch)

LEMMA KeptSame ==
  ASSUME NEW ss, ss \subseteq StageRows
  PROVE  Kept(ss, ss)
<1>1. \A s \in StageRows :
        [s EXCEPT !.state = s.state, !.epoch = s.epoch, !.elapsed = s.elapsed] = s
  BY DEF StageRows
<1> QED BY <1>1 DEF Kept

LEMMA EvolvedKept ==
  ASSUME NEW ss, NEW tt, Evolved(ss, tt)
  PROVE  Kept(ss, tt)
<1>1. PICK f \in [ss -> StageRows] : tt = {f[s] : s \in ss} /\ \A s \in ss : Same(s, f[s])
  BY DEF Evolved
<1> QED BY <1>1 DEF Kept, Same

LEMMA KeptTwice ==
  ASSUME NEW ss, NEW tt, NEW uu, ss \subseteq StageRows, tt \subseteq StageRows,
         Kept(ss, tt), Kept(tt, uu)
  PROVE  Kept(ss, uu)
<1> SUFFICES ASSUME NEW s \in ss
             PROVE  \E u \in uu :
               /\ [s EXCEPT !.state = u.state, !.epoch = u.epoch, !.elapsed = u.elapsed] = u
               /\ s.state # "READY" => (u.state = s.state /\ u.epoch = s.epoch)
  BY DEF Kept
<1>1. PICK t \in tt :
        /\ [s EXCEPT !.state = t.state, !.epoch = t.epoch, !.elapsed = t.elapsed] = t
        /\ s.state # "READY" => (t.state = s.state /\ t.epoch = s.epoch)
  BY DEF Kept
<1>2. PICK u \in uu :
        /\ [t EXCEPT !.state = u.state, !.epoch = u.epoch, !.elapsed = u.elapsed] = u
        /\ t.state # "READY" => (u.state = t.state /\ u.epoch = t.epoch)
  BY DEF Kept
<1>3. s \in StageRows
  OBVIOUS
<1>4. [s EXCEPT !.state = u.state, !.epoch = u.epoch, !.elapsed = u.elapsed]
        = [t EXCEPT !.state = u.state, !.epoch = u.epoch, !.elapsed = u.elapsed]
  <2> DEFINE st == t.state
  <2> DEFINE ep == t.epoch
  <2> DEFINE el == t.elapsed
  <2>1. t = [s EXCEPT !.state = st, !.epoch = ep, !.elapsed = el]
    BY <1>1
  <2> HIDE DEF st, ep, el
  <2> QED BY <1>3, <2>1 DEF StageRows
<1> QED BY <1>1, <1>2, <1>4

-----------------------------------------------------------------------------
(* The steps that write stages *)

\* What a step owes: the rows stay consistent and no receipt is lost.
Owed(obs, ss) == ObligationsInv(obs) /\ StagesInv(obs, ss) /\ Kept(stages, ss)

LEMMA AssessedOwed ==
  ASSUME IInv, NEW create \in BOOLEAN
  PROVE  Owed(Assessed(create), AssessedStages(create))
<1>1. Settings /\ ObligationsInv(obligations) /\ StagesInv(obligations, stages)
  BY DEF IInv
<1>2. /\ ObligationsInv(Assessed(create))
      /\ StagesInv(Assessed(create), AssessedStages(create))
      /\ Suspended \subseteq AssessedStages(create)
  BY <1>1, AssessedInv
<1>3. Kept(stages, Suspended)
  BY <1>1, SuspendedEvolves, EvolvedKept DEF StagesInv
<1>4. Kept(stages, AssessedStages(create))
  BY <1>2, <1>3 DEF Kept
<1> QED BY <1>2, <1>4 DEF Owed

LEMMA CarriesForwardBoolean == CarriesForward \in BOOLEAN
BY DEF CarriesForward

LEMMA CapturedGeneration ==
  ASSUME IInv, BeginCaptureGeneration
  PROVE  Owed(obligations', stages')
<1> DEFINE now == Assessed(CarriesForward)
<1> DEFINE ss == AssessedStages(CarriesForward)
<1> DEFINE row == [now[Current] EXCEPT !.generation = now[Current].generation + 1]
<1> DEFINE kept == Suppressed(ss, Pending(ss, Current))
<1>1. Settings /\ StagesInv(obligations, stages) /\ ObligationsInv(obligations)
  BY DEF IInv
<1>2. /\ ObligationsInv(now) /\ StagesInv(now, ss) /\ Kept(stages, ss)
  BY AssessedOwed, CarriesForwardBoolean DEF Owed
<1>3. /\ Current # NoObligation /\ now[Current].engagement = "ACTIVE"
      /\ obligations' = [now EXCEPT ![Current].generation = now[Current].generation + 1]
      /\ stages' = kept \cup
           {NewStage(Current, now[Current].generation + 1, p, "CAPTURE") : p \in Planned}
  BY DEF BeginCaptureGeneration
<1>4. Current \in DOMAIN now /\ now[Current].state = "OPEN"
  BY <1>1, <1>3, AssessedInv, CarriesForwardBoolean
<1> HIDE DEF now, ss
<1>5. now[Current] \in ObligationRows /\ now[Current].generation \in Nat
  BY <1>2, <1>4, ObligationTypes
<1>6. /\ row \in ObligationRows /\ row.state = "OPEN" /\ row.engagement = "ACTIVE"
      /\ row.generation = now[Current].generation + 1
  <2>1. \A r \in ObligationRows, g \in Nat :
          LET new == [r EXCEPT !.generation = g] IN
          /\ new \in ObligationRows /\ new.state = r.state
          /\ new.engagement = r.engagement /\ new.generation = g
    BY DEF ObligationRows
  <2>2. now[Current].generation + 1 \in Nat
    BY <1>5
  <2> QED BY <1>3, <1>4, <1>5, <2>1, <2>2
<1>7. now[Current].generation < row.generation
  BY <1>5, <1>6
<1>8. /\ ss \subseteq StageRows /\ Pending(ss, Current) \subseteq ss
      /\ \A s \in Pending(ss, Current) : s.state = "READY"
  BY <1>2 DEF StagesInv, Pending
<1>9. /\ Evolved(ss, kept)
      /\ \A t \in kept : t.state = "READY" => t \in ss \ Pending(ss, Current)
  BY <1>8, SuppressedEvolves
<1> HIDE DEF kept
<1>10. StagesInv(now, kept)
  BY <1>2, <1>9, EvolvedInv
<1>11. \A s \in kept : s.obligation = Current => s.state # "READY"
  BY <1>9 DEF Pending
<1>12. obligations' = [now EXCEPT ![Current] = row]
  BY <1>3, <1>4
<1> HIDE DEF row
<1>13. Chained(now, kept, Current, row, "CAPTURE")
  BY <1>1, <1>2, <1>4, <1>6, <1>7, <1>10, <1>11, ChainInv
<1>14. ObligationsInv(obligations') /\ StagesInv(obligations', stages')
  <2>1. stages' = kept \cup
          {NewStage(Current, row.generation, p, "CAPTURE") : p \in Planned}
    <3>1. row.generation = now[Current].generation + 1
      BY <1>6
    <3> QED BY <1>3, <3>1
  <2> QED BY <1>12, <1>13, <2>1 DEF Chained
<1>15. Kept(stages, kept)
  <2>1. kept \subseteq StageRows /\ stages \subseteq StageRows
    BY <1>1, <1>10 DEF StagesInv
  <2>2. Kept(ss, kept)
    BY <1>9, EvolvedKept
  <2> QED BY <1>2, <1>8, <2>1, <2>2, KeptTwice
<1>16. Kept(stages, stages')
  BY <1>3, <1>15 DEF Kept
<1> QED BY <1>14, <1>16 DEF Owed

LEMMA ProcessedProject ==
  ASSUME IInv, ProcessProject
  PROVE  Owed(obligations', stages')
<1> DEFINE now == Assessed(CarriesForward)
<1> DEFINE ss == AssessedStages(CarriesForward)
<1>1. Settings /\ stages \subseteq StageRows
  BY DEF IInv, StagesInv
<1>2. /\ ObligationsInv(now) /\ StagesInv(now, ss) /\ Kept(stages, ss)
  BY AssessedOwed, CarriesForwardBoolean DEF Owed
<1>3. PICK withheld : obligations' = now /\ stages' = Settled(ss, withheld)
  BY DEF ProcessProject
<1> HIDE DEF now, ss
<1>4. ss \subseteq StageRows
  BY <1>2 DEF StagesInv
<1>5. Evolved(ss, Settled(ss, withheld))
  BY <1>1, <1>4, SettledEvolves
<1>6. StagesInv(now, Settled(ss, withheld)) /\ Kept(ss, Settled(ss, withheld))
  BY <1>2, <1>5, EvolvedInv, EvolvedKept
<1>7. Kept(stages, Settled(ss, withheld))
  BY <1>1, <1>2, <1>4, <1>6, KeptTwice DEF StagesInv
<1> QED BY <1>2, <1>3, <1>6, <1>7 DEF Owed

LEMMA ElapsedStage ==
  ASSUME IInv, NEW s \in stages, StageElapses(s)
  PROVE  Owed(obligations', stages')
<1> DEFINE elapsed == [s EXCEPT !.elapsed = TRUE]
<1> DEFINE f == [t \in stages |-> IF t = s THEN elapsed ELSE t]
<1>1. StagesInv(obligations, stages) /\ ObligationsInv(obligations) /\ stages \subseteq StageRows
  BY DEF IInv, StagesInv
<1>2. obligations' = obligations /\ stages' = (stages \ {s}) \cup {elapsed}
  BY DEF StageElapses
<1>3. /\ Same(s, elapsed) /\ InOrder(stages, s, elapsed)
      /\ \A t \in stages : Same(t, t) /\ InOrder(stages, t, t)
  BY <1>1 DEF Same, InOrder, StageRows
<1> HIDE DEF elapsed
<1>4. \A t \in stages : Same(t, f[t]) /\ InOrder(stages, t, f[t])
  BY <1>3
<1>5. f \in [stages -> StageRows]
  BY <1>4 DEF Same
<1>6. stages' = {f[t] : t \in stages}
  BY <1>2
<1>7. Evolved(stages, stages')
  BY <1>4, <1>5, <1>6 DEF Evolved
<1>8. StagesInv(obligations, stages') /\ Kept(stages, stages')
  BY <1>1, <1>7, EvolvedInv, EvolvedKept
<1> QED BY <1>1, <1>2, <1>8 DEF Owed

LEMMA UnchangedRows ==
  ASSUME IInv, UNCHANGED rows
  PROVE  Owed(obligations', stages')
<1>1. obligations' = obligations /\ stages' = stages
  BY DEF rows
<1>2. stages \subseteq StageRows
  BY DEF IInv, StagesInv
<1> QED BY <1>1, <1>2, KeptSame DEF Owed, IInv

LEMMA RowsStep ==
  ASSUME IInv, [Next]_vars
  PROVE  Owed(obligations', stages')
<1>1. CASE Assess
  <2>1. obligations' = Assessed(CarriesForward) /\ stages' = AssessedStages(CarriesForward)
    BY <1>1 DEF Assess
  <2> QED BY <2>1, AssessedOwed, CarriesForwardBoolean
<1>2. CASE ActivateEngagement
  <2>1. obligations' = Assessed(TRUE) /\ stages' = AssessedStages(TRUE)
    BY <1>2 DEF ActivateEngagement
  <2> QED BY <2>1, AssessedOwed
<1>3. CASE BeginCaptureGeneration
  BY <1>3, CapturedGeneration
<1>4. CASE ProcessProject
  BY <1>4, ProcessedProject
<1>5. CASE \E s \in stages : StageElapses(s)
  BY <1>5, ElapsedStage
<1>6. CASE \/ PickProject \/ ProcessFails \/ BecomesEligible
           \/ SourceChanges \/ ProjectAges \/ SetPolicy \/ AccessChanges \/ ZoneChanges
           \/ Deploy \/ ChangeIssuance \/ UNCHANGED vars
  <2>1. UNCHANGED rows
    BY <1>6 DEF PickProject, ProcessFails, BecomesEligible, SourceChanges, ProjectAges,
       SetPolicy, AccessChanges, ZoneChanges, Deploy, ChangeIssuance, vars, rows
  <2> QED BY <2>1, UnchangedRows
<1> QED BY <1>1, <1>2, <1>3, <1>4, <1>5, <1>6 DEF Next

-----------------------------------------------------------------------------
(* The settings *)

LEMMA SettingsStep ==
  ASSUME IInv, [Next]_vars
  PROVE  Settings'
<1> USE DEF Settings
<1>1. Settings /\ MaxChanges \in Nat
  BY EngagementAssumption DEF IInv
<1>2. CASE Assess \/ ActivateEngagement \/ BeginCaptureGeneration
  <2>1. UNCHANGED <<sources, settings, worker, eligible, changes>> /\ moved' = CycleMoved
    BY <1>2 DEF Assess, ActivateEngagement, BeginCaptureGeneration
  <2>2. CycleMoved \in BOOLEAN
    BY DEF CycleMoved
  <2> QED BY <1>1, <2>1, <2>2 DEF sources, settings
<1>3. CASE PickProject
  BY <1>1, <1>3 DEF PickProject, sources, settings
<1>4. CASE ProcessProject
  <2>1. UNCHANGED <<sources, settings, eligible, changes>>
          /\ moved' = CycleMoved /\ worker' = "idle"
    BY <1>4 DEF ProcessProject
  <2>2. CycleMoved \in BOOLEAN
    BY DEF CycleMoved
  <2> QED BY <1>1, <2>1, <2>2 DEF sources, settings
<1>5. CASE ProcessFails
  <2>1. changes' = changes \/ (changes < MaxChanges /\ changes' = changes + 1)
    BY <1>5 DEF ProcessFails
  <2>2. changes' \in 0 .. MaxChanges
    BY <1>1, <2>1
  <2>3. UNCHANGED <<sources, moved, settings, eligible>> /\ worker' = "idle"
    BY <1>5 DEF ProcessFails
  <2> QED BY <1>1, <2>2, <2>3 DEF sources, settings
<1>6. CASE BecomesEligible
  BY <1>1, <1>6 DEF BecomesEligible, sources, settings
<1>7. CASE \E s \in stages : StageElapses(s)
  BY <1>1, <1>7 DEF StageElapses, sources, settings
<1>8. \A kind : Change(kind) => changes' \in 0 .. MaxChanges
  BY <1>1 DEF Change
<1>9. CASE SourceChanges
  <2>1. facts' \in [FactTypes -> SourceStates]
    BY <1>1, <1>9 DEF SourceChanges
  <2>2. moved' \in BOOLEAN
    BY <1>9 DEF SourceChanges
  <2> QED BY <1>1, <1>8, <1>9, <2>1, <2>2 DEF SourceChanges, settings
<1>10. CASE ProjectAges
  BY <1>1, <1>10 DEF ProjectAges, settings
<1>11. CASE SetPolicy
  <2>1. policy' \in [revision : Nat, scheduled : BOOLEAN]
    <3>1. policy \in [revision : Nat, scheduled : BOOLEAN] /\ policy.revision + 1 \in Nat
      BY <1>1
    <3>2. \A n \in Nat, b \in BOOLEAN :
            /\ [policy EXCEPT !.revision = n] \in [revision : Nat, scheduled : BOOLEAN]
            /\ [revision |-> n, scheduled |-> b] \in [revision : Nat, scheduled : BOOLEAN]
      BY <3>1
    <3>3. (~policy.scheduled) \in BOOLEAN
      OBVIOUS
    <3>4. \/ policy' = [policy EXCEPT !.revision = policy.revision + 1]
          \/ policy' = [revision |-> policy.revision + 1, scheduled |-> ~policy.scheduled]
      BY <1>11 DEF SetPolicy
    <3>5. CASE policy' = [policy EXCEPT !.revision = policy.revision + 1]
      BY <3>1, <3>2, <3>5
    <3>6. CASE policy' = [revision |-> policy.revision + 1, scheduled |-> ~policy.scheduled]
      <4>1. PICK b \in BOOLEAN : policy' = [revision |-> policy.revision + 1, scheduled |-> b]
        BY <3>3, <3>6, Zenon
      <4> QED BY <3>1, <3>2, <4>1
    <3> QED BY <3>4, <3>5, <3>6
  <2>2. changes' \in 0 .. MaxChanges
    BY <1>8, <1>11 DEF SetPolicy
  <2> QED BY <1>1, <1>11, <2>1, <2>2 DEF SetPolicy
<1>12. CASE AccessChanges
  <2>1. granted' \subseteq Roles
    BY <1>1, <1>12 DEF AccessChanges, Roles
  <2>2. changes' \in 0 .. MaxChanges
    BY <1>8, <1>12 DEF AccessChanges
  <2> QED BY <1>1, <1>12, <2>1, <2>2 DEF AccessChanges, sources
<1>13. CASE ZoneChanges
  <2>1. zone' \in [Roles -> BOOLEAN]
    BY <1>1, <1>13 DEF ZoneChanges
  <2>2. changes' \in 0 .. MaxChanges
    BY <1>8, <1>13 DEF ZoneChanges
  <2> QED BY <1>1, <1>13, <2>1, <2>2 DEF ZoneChanges, sources
<1>14. CASE Deploy
  <2>1. deployment' \in [shadow : BOOLEAN, epoch : Nat]
    <3> DEFINE T == [shadow : BOOLEAN, epoch : Nat]
    <3>1. deployment \in T /\ gate.epoch \in Nat
      BY <1>1
    <3>2. \A n \in Nat, b \in BOOLEAN :
            [deployment EXCEPT !.epoch = n] \in T /\ [deployment EXCEPT !.shadow = b] \in T
      BY <3>1
    <3>3. (~deployment.shadow) \in BOOLEAN
      OBVIOUS
    <3> HIDE DEF T
    <3>4. \/ \E e \in Nat : deployment' = [deployment EXCEPT !.epoch = e]
          \/ deployment' = [deployment EXCEPT !.shadow = ~deployment.shadow]
      BY <1>14, <3>1 DEF Deploy
    <3>5. CASE \E e \in Nat : deployment' = [deployment EXCEPT !.epoch = e]
      BY <3>2, <3>5 DEF T
    <3>6. CASE deployment' = [deployment EXCEPT !.shadow = ~deployment.shadow]
      <4>1. PICK b \in BOOLEAN : deployment' = [deployment EXCEPT !.shadow = b]
        BY <3>3, <3>6, Zenon
      <4> QED BY <3>2, <4>1 DEF T
    <3> QED BY <3>4, <3>5, <3>6
  <2>2. changes' \in 0 .. MaxChanges
    BY <1>8, <1>14 DEF Deploy
  <2> QED BY <1>1, <1>14, <2>1, <2>2 DEF Deploy, sources
<1>15. CASE ChangeIssuance
  <2>1. gate' \in [enabled : BOOLEAN, epoch : Nat]
    <3>1. gate \in [enabled : BOOLEAN, epoch : Nat] /\ gate.epoch + 1 \in Nat
      BY <1>1
    <3>2. \A n \in Nat :
            /\ [gate EXCEPT !.enabled = TRUE] \in [enabled : BOOLEAN, epoch : Nat]
            /\ [enabled |-> FALSE, epoch |-> n] \in [enabled : BOOLEAN, epoch : Nat]
      BY <3>1
    <3>3. \/ gate' = [gate EXCEPT !.enabled = TRUE]
          \/ gate' = [enabled |-> FALSE, epoch |-> gate.epoch + 1]
      BY <1>15 DEF ChangeIssuance
    <3> QED BY <3>1, <3>2, <3>3
  <2>2. changes' \in 0 .. MaxChanges
    BY <1>8, <1>15 DEF ChangeIssuance
  <2> QED BY <1>1, <1>15, <2>1, <2>2 DEF ChangeIssuance, sources
<1>16. CASE UNCHANGED vars
  BY <1>1, <1>16 DEF vars
<1> QED BY <1>2, <1>3, <1>4, <1>5, <1>6, <1>7, <1>9, <1>10, <1>11, <1>12, <1>13, <1>14,
           <1>15, <1>16 DEF Next

-----------------------------------------------------------------------------
(* The theorems *)

LEMMA InitInv == Init => IInv
<1> SUFFICES ASSUME Init PROVE IInv
  OBVIOUS
<1>1. Settings
  <2>1. MaxChanges \in Nat
    BY EngagementAssumption
  <2>2. facts \in [FactTypes -> SourceStates]
    BY DEF Init
  <2>3. policy \in [revision : Nat, scheduled : BOOLEAN]
    BY DEF Init
  <2>4. granted \subseteq Roles /\ zone \in [Roles -> BOOLEAN]
    BY DEF Init
  <2>5. \A on \in BOOLEAN, e \in Nat :
          /\ [shadow |-> on, epoch |-> e] \in [shadow : BOOLEAN, epoch : Nat]
          /\ [enabled |-> on, epoch |-> e] \in [enabled : BOOLEAN, epoch : Nat]
    OBVIOUS
  <2>6. deployment \in [shadow : BOOLEAN, epoch : Nat]
    BY <2>5 DEF Init
  <2>7. gate \in [enabled : BOOLEAN, epoch : Nat]
    <3>1. PICK mode \in Modes : gate = [enabled |-> mode = "CAPTURE", epoch |-> 1]
      BY DEF Init
    <3>2. (mode = "CAPTURE") \in BOOLEAN
      OBVIOUS
    <3>3. PICK on \in BOOLEAN : gate = [enabled |-> on, epoch |-> 1]
      BY <3>1, <3>2, Zenon
    <3> QED BY <2>5, <3>3
  <2>8. worker \in {"idle", "picked"} /\ eligible \in BOOLEAN /\ changes \in 0 .. MaxChanges
    BY <2>1 DEF Init
  <2> QED BY <2>2, <2>3, <2>4, <2>6, <2>7, <2>8 DEF Init, Settings
<1>2. ObligationsInv(obligations)
  <2>1. obligations = << >>
    BY DEF Init
  <2> QED BY <2>1 DEF ObligationsInv
<1>3. StagesInv(obligations, stages)
  <2>1. stages = {}
    BY DEF Init
  <2> QED BY <2>1 DEF StagesInv, Unrepeated, Asked, Unbroken
<1> QED BY <1>1, <1>2, <1>3 DEF IInv

LEMMA StepInv == IInv /\ [Next]_vars => IInv' /\ Kept(stages, stages')
<1> SUFFICES ASSUME IInv, [Next]_vars PROVE IInv' /\ Kept(stages, stages')
  OBVIOUS
<1>1. Owed(obligations', stages')
  BY RowsStep
<1>2. Settings'
  BY SettingsStep
<1>3. ObligationsInv(obligations)' /\ StagesInv(obligations, stages)'
  BY <1>1 DEF Owed
<1> QED BY <1>1, <1>2, <1>3 DEF IInv, Owed

LEMMA InvariantHolds == Spec => []IInv
BY InitInv, StepInv, PTL DEF Spec

\* Every row a transaction writes is one the schema admits.
THEOREM TypeCorrect == Spec => []TypeOK
<1>1. IInv => TypeOK
  BY DEF IInv, Settings, ObligationsInv, StagesInv, TypeOK
<1> QED BY <1>1, InvariantHolds, PTL

\* However assessments, batches and changes of policy, access and source
\* interleave: at most the newest obligation is open, only the open one has an
\* active engagement, and only that engagement has pending intents.
THEOREM CyclesExclude == Spec => []OneCycle
<1>1. IInv => OneCycle
  BY DEF IInv, ObligationsInv, StagesInv, StageInv, OneCycle, Live
<1> QED BY <1>1, InvariantHolds, PTL

\* No transaction writes an intent that exists, so the unique key over
\* engagement, generation, kind and ordinal never fails one.
THEOREM IntentsStayUnique == Spec => []IntentsUnique
<1>1. IInv => IntentsUnique
  BY DEF IInv, StagesInv, Unrepeated, IntentsUnique
<1> QED BY <1>1, InvariantHolds, PTL

\* A generation that captures has a request of its own, also when only
\* follow-ups were replanned into it.
THEOREM EveryGenerationIsAsked == Spec => []EveryGenerationAsks
<1>1. IInv => EveryGenerationAsks
  BY DEF IInv, StagesInv, Asked, EveryGenerationAsks
<1> QED BY <1>1, InvariantHolds, PTL

\* Nobody is escalated who was not asked: whatever is replanned, revoked or
\* deployed between two captures, a captured follow-up has a captured stage for
\* every plan before it, of its own epoch and after the newest request.
THEOREM ChainStaysUnbroken == Spec => []UnbrokenChain
<1>1. IInv => UnbrokenChain
  BY DEF IInv, StagesInv, Unbroken, Follows, UnbrokenChain
<1> QED BY <1>1, InvariantHolds, PTL

\* No transaction rewrites the snapshot of a stage, or the outcome of one that
\* was captured or suppressed.
THEOREM ReceiptsStayFinal == Spec => ReceiptsAreFinal
<1>1. IInv /\ [Next]_vars =>
        [\A s \in stages : \E t \in stages' :
          /\ [s EXCEPT !.state = t.state, !.epoch = t.epoch, !.elapsed = t.elapsed] = t
          /\ s.state # "READY" => (t.state = s.state /\ t.epoch = s.epoch)]_vars
  <2>1. IInv /\ [Next]_vars => Kept(stages, stages')
    BY StepInv
  <2> QED BY <2>1 DEF Kept
<1> QED BY <1>1, InvariantHolds, PTL DEF Spec, ReceiptsAreFinal
=============================================================================
