-------------------------- MODULE UpdateBatchProofs --------------------------
(***************************************************************************)
(* Theorems about what a batch of the engagement worker captures, on top   *)
(* of the invariant of UpdateEngagementProofs: the database accepts it,    *)
(* and it asks for what is missing.                                        *)
(***************************************************************************)
EXTENDS UpdateEngagementProofs

-----------------------------------------------------------------------------
(* Pending stages of an earlier generation *)

\* The stage before s in the generation of s.
Precedes(t, s) ==
  t.obligation = s.obligation /\ t.generation = s.generation /\ t.plan = s.plan - 1

Lags(obs, s) == s.state = "READY" /\ s.generation # obs[s.obligation].generation

\* A generation moves on without a pending stage only when that is the escalation
\* to a manager who is not authorized; the stage it waits for was replaced then,
\* so it is never captured, not even when the manager is authorized again.
Lagging(obs, ss) ==
  \A s \in ss : Lags(obs, s) =>
    /\ s.plan = ManagerEscalation
    /\ s.mode = "CAPTURE" => \A t \in ss : Precedes(t, s) => t.state = "SUPPRESSED"

LEMMA EvolvedLagging ==
  ASSUME NEW obs, NEW ss, NEW tt, ss \subseteq StageRows, Evolved(ss, tt), Lagging(obs, ss)
  PROVE  Lagging(obs, tt)
<1>1. PICK f \in [ss -> StageRows] :
        tt = {f[s] : s \in ss} /\ \A s \in ss : Same(s, f[s]) /\ InOrder(ss, s, f[s])
  BY DEF Evolved
<1>2. \A s \in ss :
        /\ f[s].obligation = s.obligation /\ f[s].generation = s.generation
        /\ f[s].plan = s.plan /\ f[s].mode = s.mode
        /\ f[s].state = "READY" => s.state = "READY"
        /\ s.state = "SUPPRESSED" => f[s].state = "SUPPRESSED"
  <2> SUFFICES ASSUME NEW s \in ss
               PROVE  /\ f[s].obligation = s.obligation /\ f[s].generation = s.generation
                      /\ f[s].plan = s.plan /\ f[s].mode = s.mode
                      /\ f[s].state = "READY" => s.state = "READY"
                      /\ s.state = "SUPPRESSED" => f[s].state = "SUPPRESSED"
    OBVIOUS
  <2>1. s \in StageRows /\ Same(s, f[s])
    BY <1>1
  <2>2. s.state = "SUPPRESSED" => f[s].state = "SUPPRESSED"
    BY <2>1 DEF Same
  <2> QED BY <2>1, <2>2, SameFields
<1> SUFFICES ASSUME NEW s \in ss, Lags(obs, f[s])
             PROVE  /\ f[s].plan = ManagerEscalation
                    /\ f[s].mode = "CAPTURE" =>
                         \A t \in ss : Precedes(f[t], f[s]) => f[t].state = "SUPPRESSED"
  BY <1>1 DEF Lagging
<1>3. Lags(obs, s)
  BY <1>2 DEF Lags
<1>4. \A t \in ss : Precedes(f[t], f[s]) => Precedes(t, s)
  BY <1>2 DEF Precedes
<1> QED BY <1>2, <1>3, <1>4 DEF Lagging

\* Only the generation of obligation o moves on, nothing of it is pending, and the
\* new stages are of the generation it moves to.
Succeeds(obs, now, ss, new, o) ==
  /\ \A s \in ss : s.obligation # o =>
       now[s.obligation].generation = obs[s.obligation].generation
  /\ \A s \in ss : s.obligation = o => s.state # "READY"
  /\ \A n \in new : n.obligation = o /\ n.generation = now[o].generation

LEMMA AddedLagging ==
  ASSUME NEW obs, NEW now, NEW ss, NEW new, NEW o, Lagging(obs, ss),
         Succeeds(obs, now, ss, new, o)
  PROVE  Lagging(now, ss \cup new)
<1> SUFFICES ASSUME NEW s \in ss \cup new, Lags(now, s)
             PROVE  /\ s.plan = ManagerEscalation
                    /\ s.mode = "CAPTURE" =>
                         \A t \in ss \cup new : Precedes(t, s) => t.state = "SUPPRESSED"
  BY DEF Lagging
<1>1. s \in ss /\ s.obligation # o
  BY DEF Lags, Succeeds
<1>2. Lags(obs, s)
  BY <1>1 DEF Lags, Succeeds
<1>3. \A t \in new : ~Precedes(t, s)
  BY <1>1 DEF Precedes, Succeeds
<1> QED BY <1>1, <1>2, <1>3 DEF Lagging

-----------------------------------------------------------------------------
(* The lineage an assessment leaves *)

LEMMA RefreshedLineage ==
  ASSUME ObligationsInv(obligations), Settings
  PROVE  /\ \A o \in DOMAIN obligations \ Replanned :
              Refreshed[o].generation = obligations[o].generation
         /\ \A o \in DOMAIN Refreshed : Refreshed[o].engagement = "ACTIVE" => o = Current
         /\ Current # NoObligation => Refreshed[Current].policy = policy.revision
<1> DEFINE n == Len(obligations)
<1>1. /\ n \in Nat /\ DOMAIN obligations = 1 .. n
      /\ \A o \in 1 .. n : obligations[o] \in ObligationRows /\ o \in Nat /\ o # 0
  BY ObligationTypes
<1>2. /\ Opened \in Seq(ObligationRows)
      /\ Len(Opened) = IF Opens THEN n + 1 ELSE n
      /\ DOMAIN Opened = 1 .. Len(Opened)
      /\ \A o \in 1 .. n : o \in DOMAIN Opened /\ Opened[o] = Superseded[o]
      /\ Opens => Opened[n + 1] =
           [state |-> "OPEN", policy |-> policy.revision, engagement |-> "NONE",
            generation |-> 0]
  BY <1>1, OpenedRows
<1>3. CurrentOpen # NoObligation => CurrentOpen \in 1 .. n
  BY <1>1, OneOpenRow
<1>4. /\ Current = IF ~Stale THEN NoObligation
                   ELSE IF Opens THEN n + 1 ELSE CurrentOpen
      /\ Reuse => Stale /\ CurrentOpen # NoObligation
  BY CurrentTypes
<1>5. \A o \in 1 .. n :
        /\ Opened[o].engagement = obligations[o].engagement
        /\ Opened[o].generation = obligations[o].generation
        /\ Opened[o].policy = obligations[o].policy
  BY <1>1, <1>2 DEF Superseded, ObligationRows
<1>6. \A o \in DOMAIN Opened : Opened[o] \in ObligationRows
  BY <1>2, ElementOfSeq
<1>7. DOMAIN Refreshed = DOMAIN Opened
  BY DEF Refreshed
<1>8. \A row \in ObligationRows : \A g :
        /\ [row EXCEPT !.engagement = "CLOSED"].generation = row.generation
        /\ [row EXCEPT !.engagement = "CLOSED"].policy = row.policy
        /\ [row EXCEPT !.engagement = "CLOSED"].engagement = "CLOSED"
        /\ [row EXCEPT !.generation = g].policy = row.policy
        /\ [row EXCEPT !.generation = g].engagement = row.engagement
  BY DEF ObligationRows
<1>9. \A o \in DOMAIN Opened : Refreshed[o] \in
        {Opened[o], [Opened[o] EXCEPT !.engagement = "CLOSED"],
         [Opened[o] EXCEPT !.generation = NextGeneration(o)]}
  BY DEF Refreshed
<1>10. \A o \in DOMAIN Opened :
         /\ Refreshed[o].policy = Opened[o].policy
         /\ o \in Ended => Refreshed[o].engagement = "CLOSED"
         /\ Refreshed[o].engagement = "ACTIVE" => Opened[o].engagement = "ACTIVE"
         /\ o \notin Replanned => Refreshed[o].generation = Opened[o].generation
  <2> SUFFICES ASSUME NEW o \in DOMAIN Opened
               PROVE  /\ Refreshed[o].policy = Opened[o].policy
                      /\ o \in Ended => Refreshed[o].engagement = "CLOSED"
                      /\ Refreshed[o].engagement = "ACTIVE" => Opened[o].engagement = "ACTIVE"
                      /\ o \notin Replanned => Refreshed[o].generation = Opened[o].generation
    OBVIOUS
  <2>1. CASE o \in Ended
    <3>1. Refreshed[o] = [Opened[o] EXCEPT !.engagement = "CLOSED"]
      BY <2>1 DEF Refreshed, Replanned, Ended
    <3> QED BY <2>1, <3>1, <1>6, <1>8
  <2>2. CASE o \notin Ended /\ o \notin Replanned
    <3>1. Refreshed[o] = Opened[o]
      BY <2>2 DEF Refreshed
    <3> QED BY <2>2, <3>1
  <2>3. CASE o \notin Ended /\ o \in Replanned
    <3>1. Refreshed[o] = [Opened[o] EXCEPT !.generation = NextGeneration(o)]
      BY <2>3 DEF Refreshed
    <3> QED BY <2>3, <3>1, <1>6, <1>8
  <2> QED BY <2>1, <2>2, <2>3
<1>11. \A o \in DOMAIN obligations \ Replanned :
         Refreshed[o].generation = obligations[o].generation
  BY <1>1, <1>2, <1>5, <1>10
<1>12. ASSUME NEW o \in DOMAIN Refreshed, Refreshed[o].engagement = "ACTIVE"
       PROVE  o = Current
  <2>1. Opened[o].engagement = "ACTIVE" /\ o \notin Ended
    BY <1>7, <1>10, <1>12
  <2>2. o \in 1 .. n
    <3>1. (Opens /\ o = n + 1) \/ o \in 1 .. n
      BY <1>1, <1>2, <1>7
    <3> QED BY <1>2, <2>1, <3>1
  <2>3. Live(o)
    BY <1>1, <1>5, <2>1, <2>2 DEF Live
  <2> QED BY <1>1, <2>1, <2>2, <2>3 DEF Ended
<1>13. ASSUME Current # NoObligation
       PROVE  Refreshed[Current].policy = policy.revision
  <2>1. CASE Opens
    <3>1. Current = n + 1 /\ Current \in DOMAIN Opened
      BY <1>1, <1>2, <1>4, <2>1 DEF Opens
    <3> QED BY <1>2, <1>10, <2>1, <3>1
  <2>2. CASE ~Opens
    <3>1. Reuse /\ Current = CurrentOpen /\ CurrentOpen # NoObligation
      BY <1>4, <1>13, <2>2 DEF Opens
    <3>2. obligations[CurrentOpen].policy = policy.revision /\ CurrentOpen \in 1 .. n
      BY <1>3, <3>1 DEF Reuse, SamePolicy
    <3> QED BY <1>2, <1>5, <1>10, <3>1, <3>2
  <2> QED BY <2>1, <2>2
<1> QED BY <1>11, <1>12, <1>13

\* The stages that stay pending when the chain of obligation o is replanned belong
\* to a manager who is not authorized, and what they wait for is gone: a stage of
\* the owner was pending and is replaced, so none after it can have been captured.
LEMMA RetainedLagging ==
  ASSUME IInv, Lagging(obligations, stages), NEW o \in Replanned,
         NEW s \in stages, s.state = "READY", s.obligation = o, s \notin Replaced(o)
  PROVE  /\ s.plan = ManagerEscalation
         /\ s.mode = "CAPTURE" =>
              \A t \in stages : Precedes(t, s) => t.state = "SUPPRESSED" \/ t \in Replaced(o)
<1>1. /\ stages \subseteq StageRows /\ (\A u \in stages : StageInv(obligations, u))
      /\ Unrepeated(stages) /\ Asked(stages) /\ Unbroken(stages)
  BY DEF IInv, StagesInv
<1>2. s \in Pending(stages, o) /\ Changed(o) # {}
  BY DEF Pending, Replanned, Replaced
<1>3. s.plan \notin Planned /\ s.plan \in Plans
  BY <1>1, <1>2 DEF Replaced, StageInv
<1>4. s.plan = ManagerEscalation /\ "PROJECT_MANAGER" \notin granted
  BY <1>3 DEF Planned
<1>5. PICK c \in Changed(o) : TRUE
  BY <1>2
<1>6. /\ c \in stages /\ c.state = "READY" /\ c.obligation = o /\ Role(c.plan) \in granted
      /\ c.plan \in Plans
  BY <1>1, <1>5 DEF Changed, Pending, StageInv
<1>7. c.plan # ManagerEscalation
  BY <1>4, <1>6 DEF Role
<1>8. c.generation = obligations[o].generation
  BY <1>6, <1>7 DEF Lagging, Lags
<1> SUFFICES ASSUME s.mode = "CAPTURE", NEW t \in stages, Precedes(t, s),
                    t.state # "SUPPRESSED", t \notin Replaced(o)
             PROVE  FALSE
  BY <1>4
<1>9. t.state \in {"READY", "CAPTURED"} /\ t.plan \in Plans /\ t.obligation = o
      /\ t.plan = OwnerEscalation /\ t.generation = s.generation
  <2>1. t \in StageRows /\ StageInv(obligations, t)
    BY <1>1
  <2>2. t.plan = OwnerEscalation
    BY <1>4, EngagementAssumption DEF Precedes, ManagerEscalation, OwnerEscalation
  <2> QED BY <2>1, <2>2 DEF StageRows, StageInv, Precedes
<1>10. OwnerEscalation # ManagerEscalation
  BY EngagementAssumption DEF ManagerEscalation, OwnerEscalation
<1>11. t.state = "CAPTURED"
  <2>1. t.plan \in Planned
    BY <1>9, <1>10 DEF Planned
  <2>2. t.state = "READY" => t \in Replaced(o)
    BY <1>2, <1>9, <2>1 DEF Replaced, Pending
  <2> QED BY <1>9, <2>2
<1>12. s.generation = obligations[o].generation
  BY <1>11 DEF Lagging, Lags
<1>13. t.generation = c.generation
  BY <1>8, <1>9, <1>12
<1>14. c.plan # OwnerEscalation
  BY <1>1, <1>6, <1>9, <1>11, <1>13 DEF Unrepeated
<1>15. c.plan \in Request .. t.plan - 1
  <2>1. LastPlan \in {ManagerEscalation, Reminders} /\ Reminders \in Nat
    BY EngagementAssumption DEF LastPlan
  <2>2. c.plan \in 0 .. LastPlan
    BY <1>6 DEF Plans, Request
  <2> QED BY <1>7, <1>9, <1>14, <2>1, <2>2 DEF Request, OwnerEscalation, ManagerEscalation
<1>16. PICK u \in stages : Follows(stages, t, c.plan, u)
  BY <1>1, <1>11, <1>15 DEF Unbroken
<1>17. t.generation \in RequestGenerations(stages, t)
  <2>1. t.mode = "CAPTURE"
    BY <1>1, <1>11 DEF StageInv
  <2>2. PICK r \in stages : r.obligation = t.obligation /\ r.generation = t.generation
                              /\ r.plan = Request
    BY <1>1, <2>1 DEF Asked
  <2>3. t.generation \in Nat
    BY <1>1 DEF StageRows
  <2> QED BY <2>2, <2>3 DEF RequestGenerations
<1>18. u.generation = t.generation
  <2>1. u.generation \in Nat /\ t.generation \in Nat
    BY <1>1 DEF StageRows
  <2> QED BY <1>16, <1>17, <2>1 DEF Follows
<1>19. u = c
  BY <1>1, <1>6, <1>9, <1>13, <1>16, <1>18 DEF Follows, Unrepeated
<1> QED BY <1>6, <1>16, <1>19 DEF Follows

LEMMA RefreshedLagging ==
  ASSUME IInv, Lagging(obligations, stages)
  PROVE  Lagging(Refreshed, RefreshedStages)
<1>1. /\ Settings /\ ObligationsInv(obligations) /\ StagesInv(obligations, stages)
      /\ stages \subseteq StageRows /\ \A s \in stages : StageInv(obligations, s)
  BY DEF IInv, StagesInv
<1>2. /\ Evolved(stages, Suspended)
      /\ \A t \in Suspended : t.state = "READY" => t \in stages /\ t \notin Withdrawn
  BY <1>1, SuspendedEvolves
<1>3. Lagging(obligations, Suspended) /\ StagesInv(obligations, Suspended)
  BY <1>1, <1>2, EvolvedLagging, EvolvedInv
<1>4. \A s \in Suspended : s.obligation \in DOMAIN obligations
  BY <1>3 DEF StagesInv, StageInv
<1>5. \A o \in DOMAIN obligations \ Replanned :
        Refreshed[o].generation = obligations[o].generation
  BY <1>1, RefreshedLineage
<1>6. CASE Replanned = {}
  <2>1. RefreshedStages = Suspended
    BY <1>6 DEF RefreshedStages
  <2>2. \A s \in Suspended : Lags(Refreshed, s) => Lags(obligations, s)
    BY <1>4, <1>5, <1>6 DEF Lags
  <2> QED BY <1>3, <2>1, <2>2 DEF Lagging
<1>7. CASE Replanned # {}
  <2>1. PICK o \in Replanned : TRUE
    BY <1>7
  <2>2. Replanned = {o}
    BY <2>1 DEF Replanned
  <2>3. RefreshedStages = Suspended \cup Replacements(o)
    BY <2>2 DEF RefreshedStages
  <2>4. Refreshed[o].generation = NextGeneration(o) /\ o \in DOMAIN obligations
    BY <1>1, RefreshedRows
  <2>5. \A n \in Replacements(o) : n.obligation = o /\ n.generation = NextGeneration(o)
    BY <1>1, ReplacementsTypes
  <2>6. \A s \in Suspended : s.obligation = o => s.generation # NextGeneration(o)
    <3>1. \A s \in Suspended : s \in StageRows /\ StageInv(obligations, s)
      BY <1>3 DEF StagesInv
    <3>2. \A s \in Suspended : s.generation \in Nat
      BY <3>1 DEF StageRows
    <3>3. obligations[o].generation \in Nat
      BY <1>1, <2>4, ObligationTypes
    <3> QED BY <3>1, <3>2, <3>3 DEF StageInv, NextGeneration
  <2> SUFFICES ASSUME NEW s \in RefreshedStages, Lags(Refreshed, s)
               PROVE  /\ s.plan = ManagerEscalation
                      /\ s.mode = "CAPTURE" =>
                           \A t \in RefreshedStages : Precedes(t, s) => t.state = "SUPPRESSED"
    BY DEF Lagging
  <2>7. s \in Suspended /\ s.state = "READY"
    BY <2>3, <2>4, <2>5 DEF Lags
  <2>8. \A t \in RefreshedStages : Precedes(t, s) => t \in Suspended
    <3>1. \A t \in Replacements(o) : ~Precedes(t, s)
      BY <2>5, <2>6, <2>7 DEF Precedes
    <3> QED BY <2>3, <3>1
  <2>9. CASE s.obligation # o
    <3>1. Lags(obligations, s)
      BY <1>4, <1>5, <2>2, <2>7, <2>9 DEF Lags
    <3> QED BY <1>3, <2>7, <2>8, <3>1 DEF Lagging
  <2>10. CASE s.obligation = o
    <3>1. s \in stages /\ s \notin Withdrawn
      BY <1>2, <2>7
    <3>2. s \notin Replaced(o)
      BY <2>2, <3>1 DEF Withdrawn
    <3>3. /\ s.plan = ManagerEscalation
          /\ s.mode = "CAPTURE" =>
               \A t \in stages : Precedes(t, s) => t.state = "SUPPRESSED" \/ t \in Replaced(o)
      BY <2>1, <2>7, <2>10, <3>1, <3>2, RetainedLagging
    <3> SUFFICES ASSUME s.mode = "CAPTURE", NEW t \in Suspended, Precedes(t, s)
                 PROVE  t.state = "SUPPRESSED"
      BY <2>8, <3>3
    <3>4. CASE t \in stages \ Withdrawn
      BY <2>2, <3>3, <3>4 DEF Withdrawn
    <3>5. CASE t \notin stages \ Withdrawn
      <4>1. Suspended = Suppressed(stages, Withdrawn)
        BY DEF Suspended, Withdrawn
      <4>2. PICK w \in Withdrawn : t = [w EXCEPT !.state = "SUPPRESSED", !.elapsed = FALSE]
        BY <3>5, <4>1 DEF Suppressed
      <4>3. w \in StageRows
        BY <1>1 DEF Withdrawn, Replaced, Pending
      <4> QED BY <4>2, <4>3 DEF StageRows
    <3> QED BY <3>4, <3>5
  <2> QED BY <2>9, <2>10
<1> QED BY <1>6, <1>7

LEMMA AssessedLagging ==
  ASSUME IInv, Lagging(obligations, stages), NEW create \in BOOLEAN
  PROVE  Lagging(Assessed(create), AssessedStages(create))
<1>1. Settings /\ ObligationsInv(obligations) /\ StagesInv(obligations, stages)
  BY DEF IInv
<1>2. Lagging(Refreshed, RefreshedStages)
  BY RefreshedLagging
<1>3. CASE ~Creates(create)
  BY <1>2, <1>3 DEF Assessed, AssessedStages
<1>4. CASE Creates(create)
  <2> DEFINE new == {NewStage(Current, 1, p, CaptureMode) : p \in Planned}
  <2>1. /\ Current \in DOMAIN Refreshed /\ CreatedRow.generation = 1
        /\ Assessed(create) = [Refreshed EXCEPT ![Current] = CreatedRow]
    BY <1>1, <1>4, CreatedRows
  <2>2. AssessedStages(create) = RefreshedStages \cup new
    BY <1>4 DEF AssessedStages
  <2>3. \A s \in RefreshedStages : StageInv(Refreshed, s)
    BY <1>1, RefreshedInv DEF StagesInv
  <2>4. \A s \in RefreshedStages : s.obligation = Current => s.state # "READY"
    BY <1>4, <2>3 DEF Creates, StageInv
  <2>5. \A s \in RefreshedStages : s.obligation # Current =>
          Assessed(create)[s.obligation].generation = Refreshed[s.obligation].generation
    BY <2>1, <2>3 DEF StageInv
  <2>6. Assessed(create)[Current].generation = 1
    BY <2>1
  <2>7. \A n \in new : n.obligation = Current
                        /\ n.generation = Assessed(create)[Current].generation
    BY <2>6 DEF NewStage
  <2> HIDE DEF new
  <2>8. Succeeds(Refreshed, Assessed(create), RefreshedStages, new, Current)
    BY <2>4, <2>5, <2>7 DEF Succeeds
  <2>9. Lagging(Assessed(create), RefreshedStages \cup new)
    BY <1>2, <2>8, AddedLagging
  <2> QED BY <2>2, <2>9
<1> QED BY <1>3, <1>4

LEMMA BegunLagging ==
  ASSUME IInv, Lagging(obligations, stages), BeginCaptureGeneration
  PROVE  Lagging(obligations', stages')
<1> DEFINE now == Assessed(CarriesForward)
<1> DEFINE ss == AssessedStages(CarriesForward)
<1> DEFINE kept == Suppressed(ss, Pending(ss, Current))
<1> DEFINE generation == now[Current].generation + 1
<1> DEFINE new == {NewStage(Current, generation, p, "CAPTURE") : p \in Planned}
<1>1. Lagging(now, ss)
  BY AssessedLagging, CarriesForwardBoolean
<1>2. ObligationsInv(now) /\ StagesInv(now, ss)
  BY AssessedOwed, CarriesForwardBoolean DEF Owed
<1>3. /\ Current # NoObligation
      /\ obligations' = [now EXCEPT ![Current].generation = generation]
      /\ stages' = kept \cup new
  BY DEF BeginCaptureGeneration
<1>4. Current \in DOMAIN now
  BY <1>3, AssessedInv, CarriesForwardBoolean DEF IInv
<1>5. \A n \in new : n.obligation = Current /\ n.generation = generation
  BY DEF NewStage
<1> HIDE DEF now, ss
<1>6. obligations'[Current].generation = generation
  <2>1. now[Current] \in ObligationRows
    BY <1>2, <1>4, ObligationTypes
  <2>2. \A row \in ObligationRows : \A g : [row EXCEPT !.generation = g].generation = g
    BY DEF ObligationRows
  <2> HIDE DEF generation
  <2> QED BY <1>3, <1>4, <2>1, <2>2
<1>7. /\ ss \subseteq StageRows /\ Pending(ss, Current) \subseteq ss
      /\ \A s \in Pending(ss, Current) : s.state = "READY"
  BY <1>2 DEF StagesInv, Pending
<1>8. /\ Evolved(ss, kept)
      /\ \A t \in kept : t.state = "READY" => t \in ss \ Pending(ss, Current)
  BY <1>7, SuppressedEvolves
<1> HIDE DEF kept
<1>9. Lagging(now, kept) /\ StagesInv(now, kept)
  BY <1>1, <1>2, <1>7, <1>8, EvolvedLagging, EvolvedInv
<1>10. \A s \in kept : s.obligation = Current => s.state # "READY"
  BY <1>8 DEF Pending
<1>11. \A s \in kept : s.obligation # Current =>
         obligations'[s.obligation].generation = now[s.obligation].generation
  <2>1. \A s \in kept : s.obligation \in DOMAIN now
    BY <1>9 DEF StagesInv, StageInv
  <2> QED BY <1>3, <2>1
<1> HIDE DEF new, generation
<1>12. \A n \in new : n.obligation = Current /\ n.generation = obligations'[Current].generation
  BY <1>5, <1>6
<1>13. Succeeds(now, obligations', kept, new, Current)
  BY <1>10, <1>11, <1>12 DEF Succeeds
<1>14. Lagging(obligations', kept \cup new)
  BY <1>9, <1>13, AddedLagging
<1> QED BY <1>3, <1>14

LEMMA ProcessedLagging ==
  ASSUME IInv, Lagging(obligations, stages), ProcessProject
  PROVE  Lagging(obligations', stages')
<1> DEFINE now == Assessed(CarriesForward)
<1> DEFINE ss == AssessedStages(CarriesForward)
<1>1. Lagging(now, ss)
  BY AssessedLagging, CarriesForwardBoolean
<1>2. ss \subseteq StageRows /\ Settings
  BY AssessedOwed, CarriesForwardBoolean DEF Owed, StagesInv, IInv
<1>3. PICK withheld : obligations' = now /\ stages' = Settled(ss, withheld)
  BY DEF ProcessProject
<1> HIDE DEF now, ss
<1> QED BY <1>1, <1>2, <1>3, SettledEvolves, EvolvedLagging

LEMMA ElapsedLagging ==
  ASSUME IInv, Lagging(obligations, stages), NEW s \in stages, StageElapses(s)
  PROVE  Lagging(obligations', stages')
<1> DEFINE elapsed == [s EXCEPT !.elapsed = TRUE]
<1>1. obligations' = obligations /\ stages' = (stages \ {s}) \cup {elapsed}
  BY DEF StageElapses
<1>2. /\ elapsed.obligation = s.obligation /\ elapsed.generation = s.generation
      /\ elapsed.plan = s.plan /\ elapsed.mode = s.mode /\ elapsed.state = s.state
  BY DEF IInv, StagesInv, StageRows
<1> HIDE DEF elapsed
<1> DEFINE Before(t) == IF t = elapsed THEN s ELSE t
<1>3. \A t \in stages' :
        /\ Before(t) \in stages /\ Before(t).obligation = t.obligation
        /\ Before(t).generation = t.generation /\ Before(t).plan = t.plan
        /\ Before(t).mode = t.mode /\ Before(t).state = t.state
  BY <1>1, <1>2
<1> HIDE DEF Before
<1> SUFFICES ASSUME NEW u \in stages', Lags(obligations, u)
             PROVE  /\ u.plan = ManagerEscalation
                    /\ u.mode = "CAPTURE" =>
                         \A t \in stages' : Precedes(t, u) => t.state = "SUPPRESSED"
  BY <1>1 DEF Lagging
<1>4. Lags(obligations, Before(u))
  BY <1>3 DEF Lags
<1>5. \A t \in stages' : Precedes(t, u) => Precedes(Before(t), Before(u))
  BY <1>3 DEF Precedes
<1> QED BY <1>3, <1>4, <1>5 DEF Lagging

LEMMA LaggingStep ==
  ASSUME IInv, Lagging(obligations, stages), [Next]_vars
  PROVE  Lagging(obligations', stages')
<1>1. CASE Assess
  BY <1>1, AssessedLagging, CarriesForwardBoolean DEF Assess
<1>2. CASE ActivateEngagement
  BY <1>2, AssessedLagging DEF ActivateEngagement
<1>3. CASE BeginCaptureGeneration
  BY <1>3, BegunLagging
<1>4. CASE ProcessProject
  BY <1>4, ProcessedLagging
<1>5. CASE \E s \in stages : StageElapses(s)
  BY <1>5, ElapsedLagging
<1>6. CASE \/ PickProject \/ ProcessFails \/ BecomesEligible
           \/ SourceChanges \/ ProjectAges \/ SetPolicy \/ AccessChanges \/ ZoneChanges
           \/ Deploy \/ ChangeIssuance \/ UNCHANGED vars
  <2>1. UNCHANGED rows
    BY <1>6 DEF PickProject, ProcessFails, BecomesEligible, SourceChanges, ProjectAges,
       SetPolicy, AccessChanges, ZoneChanges, Deploy, ChangeIssuance, vars, rows
  <2> QED BY <2>1 DEF rows
<1> QED BY <1>1, <1>2, <1>3, <1>4, <1>5, <1>6 DEF Next

BatchInv == IInv /\ Lagging(obligations, stages)

LEMMA BatchInvHolds == Spec => []BatchInv
<1>1. Init => BatchInv
  BY InitInv DEF Init, BatchInv, Lagging
<1>2. BatchInv /\ [Next]_vars => BatchInv'
  BY StepInv, LaggingStep DEF BatchInv
<1> QED BY <1>1, <1>2, PTL DEF Spec

-----------------------------------------------------------------------------
(* What a batch captures *)

\* A captured stage is of the generation its engagement is in: one that lags
\* behind finds no captured stage before it.
LEMMA CaptureCurrent ==
  ASSUME NEW obs, NEW ss, NEW withheld, StagesInv(obs, ss), Lagging(obs, ss),
         NEW s \in Captures(ss, withheld)
  PROVE  s.generation = obs[s.obligation].generation
<1> SUFFICES ASSUME s.generation # obs[s.obligation].generation PROVE FALSE
  OBVIOUS
<1>1. /\ s \in ss /\ s.state = "READY" /\ InSequence(ss, s) /\ s.mode # "SHADOW"
  BY DEF Captures, Due, Silent
<1>2. /\ \A t \in ss : t \in StageRows
      /\ Asked(ss)
  BY DEF StagesInv
<1>3. s.mode = "CAPTURE" /\ s.generation \in Nat
  BY <1>1, <1>2 DEF StageRows
<1>4. /\ s.plan = ManagerEscalation
      /\ \A t \in ss : Precedes(t, s) => t.state = "SUPPRESSED"
  BY <1>1, <1>3 DEF Lagging, Lags
<1>5. s.plan # Request
  BY <1>4, EngagementAssumption DEF ManagerEscalation, Request
<1>6. PICK t \in Predecessors(ss, s) : t.state = "CAPTURED"
  BY <1>1, <1>5 DEF InSequence
<1>7. PICK r \in ss : r.obligation = s.obligation /\ r.generation = s.generation
                        /\ r.plan = Request
  BY <1>1, <1>2, <1>3 DEF Asked
<1>8. s.generation \in RequestGenerations(ss, s)
  BY <1>3, <1>7 DEF RequestGenerations
<1>9. t \in ss /\ t.generation \in Nat /\ t.generation = s.generation
  <2>1. t \in ss /\ t.generation <= s.generation /\ s.generation <= t.generation
    BY <1>8 DEF Predecessors
  <2>2. t.generation \in Nat
    BY <1>2, <2>1 DEF StageRows
  <2> QED BY <1>3, <2>1, <2>2
<1>10. Precedes(t, s)
  BY <1>9 DEF Predecessors, Precedes
<1> QED BY <1>4, <1>6, <1>9, <1>10

\* Whatever the batch and everything before it did, the database's guard over the
\* birth of a captured request accepts each capture the batch decides on.
THEOREM BatchesAreAccepted == Spec => []NoPoisonedBatch
<1>1. BatchInv => NoPoisonedBatch
  <2> SUFFICES ASSUME BatchInv,
                      NEW s \in Captures(AssessedStages(CarriesForward), {})
               PROVE  BirthAccepted(Assessed(CarriesForward), s)
    BY DEF NoPoisonedBatch
  <2> DEFINE now == Assessed(CarriesForward)
  <2> DEFINE ss == AssessedStages(CarriesForward)
  <2>1. IInv /\ Settings /\ ObligationsInv(obligations) /\ StagesInv(obligations, stages)
    BY DEF BatchInv, IInv
  <2>2. ObligationsInv(now) /\ StagesInv(now, ss) /\ Lagging(now, ss)
    BY <2>1, AssessedInv, AssessedLagging, CarriesForwardBoolean DEF BatchInv
  <2>3. /\ \A o \in DOMAIN Refreshed : Refreshed[o].engagement = "ACTIVE" => o = Current
        /\ Current # NoObligation => Refreshed[Current].policy = policy.revision
    BY <2>1, RefreshedLineage
  <2>4. /\ DOMAIN now = DOMAIN Refreshed
        /\ \A o \in DOMAIN now : now[o].engagement = "ACTIVE" => o = Current
        /\ Current # NoObligation => now[Current].policy = policy.revision
    <3>1. CASE ~Creates(CarriesForward)
      BY <2>3, <3>1 DEF Assessed
    <3>2. CASE Creates(CarriesForward)
      <4>1. /\ Current \in DOMAIN Refreshed
            /\ now = [Refreshed EXCEPT ![Current] = CreatedRow]
        BY <2>1, <3>2, CreatedRows, CarriesForwardBoolean
      <4>2. Refreshed[Current] \in ObligationRows
        BY <2>1, <4>1, RefreshedRows, ObligationTypes
      <4>3. \A row \in ObligationRows :
              [row EXCEPT !.engagement = "ACTIVE", !.generation = 1].policy = row.policy
        BY DEF ObligationRows
      <4>4. CreatedRow.policy = Refreshed[Current].policy
        BY <4>2, <4>3 DEF CreatedRow
      <4> HIDE DEF now
      <4> QED BY <2>3, <4>1, <4>4
    <3> QED BY <3>1, <3>2
  <2> HIDE DEF now, ss
  <2>5. s \in ss /\ s.state = "READY" /\ GateOpen
    BY DEF Captures, Due, ss
  <2>6. StageInv(now, s)
    BY <2>2, <2>5 DEF StagesInv
  <2>7. s.obligation \in DOMAIN now /\ now[s.obligation].engagement = "ACTIVE"
    BY <2>5, <2>6 DEF StageInv
  <2>8. now[s.obligation].state = "OPEN"
    BY <2>2, <2>7 DEF ObligationsInv
  <2>9. s.obligation = Current /\ Current # NoObligation
    BY <2>2, <2>4, <2>7, ObligationTypes DEF NoObligation
  <2>10. now[s.obligation].policy = policy.revision
    BY <2>4, <2>9
  <2>11. s.generation = now[s.obligation].generation
    BY <2>2, CaptureCurrent DEF ss
  <2>12. BirthAccepted(now, s)
    BY <2>5, <2>7, <2>8, <2>10, <2>11 DEF BirthAccepted, GateOpen
  <2> QED BY <2>12 DEF now
<1> QED BY <1>1, BatchInvHolds, PTL

\* A stage is captured with the facts that are missing when it is, and for the
\* recipient's time zone then: one planned earlier was replaced by the assessment
\* the batch begins with.
THEOREM CapturesAskForWhatIsMissing == Spec => AsksForWhatIsMissing
<1>1. IInv /\ [Next]_vars =>
        [ProcessProject =>
           \A s \in Newly : s.facts = Remaining /\ s.zone = zone[Role(s.plan)]]_vars
  <2> SUFFICES ASSUME IInv, ProcessProject, NEW s \in Newly
               PROVE  s.facts = Remaining /\ s.zone = zone[Role(s.plan)]
    OBVIOUS
  <2> DEFINE ss == AssessedStages(CarriesForward)
  <2>1. Settings /\ ObligationsInv(obligations) /\ StagesInv(obligations, stages)
        /\ stages \subseteq StageRows
    BY DEF IInv, StagesInv
  <2>2. StagesInv(Assessed(CarriesForward), ss) /\ ss \subseteq StageRows
    BY <2>1, AssessedInv, CarriesForwardBoolean DEF StagesInv
  <2>3. PICK withheld : stages' = Settled(ss, withheld)
    BY DEF ProcessProject
\* What is new since the transaction began is pending.
  <2>4. \A t \in ss : t \in stages \/ t.state = "SUPPRESSED" \/ (t.state = "READY" /\ ~t.elapsed)
    <3>1. \A t \in Suspended : t \in stages \/ t.state = "SUPPRESSED"
      <4>1. \A w \in Withdrawn : w \in StageRows
        BY <2>1 DEF Withdrawn, Replaced, Pending
      <4>2. Suspended = Suppressed(stages, Withdrawn)
        BY DEF Suspended, Withdrawn
      <4>3. \A w \in StageRows :
              [w EXCEPT !.state = "SUPPRESSED", !.elapsed = FALSE].state = "SUPPRESSED"
        BY DEF StageRows
      <4> QED BY <4>1, <4>2, <4>3 DEF Suppressed
    <3>2. \A t \in ss : t \in Suspended \/ \E o, g, p, mode : t = NewStage(o, g, p, mode)
      BY DEF AssessedStages, RefreshedStages, Replacements, FreshRequest
    <3>3. \A o, g, p, mode :
            NewStage(o, g, p, mode).state = "READY" /\ ~NewStage(o, g, p, mode).elapsed
      BY DEF NewStage
    <3> QED BY <3>1, <3>2, <3>3
  <2> HIDE DEF ss
  <2>5. s \in stages' /\ s.state = "CAPTURED" /\ s \notin stages
    BY DEF Newly
  <2>6. PICK u \in Captures(ss, withheld) : s = Captured(u)
    <3>1. s \notin ss \ Due(ss)
      BY <2>4, <2>5
    <3>2. \A t \in ss : t.state = "READY" =>
            /\ Deferred(t).state # "CAPTURED"
            /\ [t EXCEPT !.state = "SUPPRESSED", !.elapsed = FALSE].state # "CAPTURED"
      BY <2>2 DEF Deferred, StageRows
    <3>3. PICK u \in Due(ss) :
            s = CASE u \in Captures(ss, withheld) -> Captured(u)
                  [] Served(u, withheld) /\ Silent(u) ->
                       [u EXCEPT !.state = "SUPPRESSED", !.elapsed = FALSE]
                  [] OTHER -> Deferred(u)
      BY <2>3, <2>5, <3>1 DEF Settled
    <3>4. u \in ss /\ u.state = "READY"
      BY DEF Due
    <3>5. \/ u \in Captures(ss, withheld) /\ s = Captured(u)
          \/ s = Deferred(u)
          \/ s = [u EXCEPT !.state = "SUPPRESSED", !.elapsed = FALSE]
      BY <3>3
    <3> QED BY <2>5, <3>2, <3>4, <3>5
  <2>7. /\ u \in ss /\ u.state = "READY" /\ u.elapsed /\ Role(u.plan) \in granted
    BY DEF Captures, Due, Served, Authorized
  <2>8. u \in StageRows /\ u \in stages /\ s.facts = u.facts /\ s.zone = u.zone /\ s.plan = u.plan
    BY <2>2, <2>4, <2>6, <2>7 DEF Captured, StageRows
  <2>9. StageInv(obligations, u) /\ Unrepeated(stages)
    BY <2>1, <2>8 DEF StagesInv
  <2> DEFINE o == u.obligation
  <2>10. u \in Pending(stages, o) /\ Live(o) /\ u.plan \in Planned
    BY <2>7, <2>8, <2>9 DEF Pending, StageInv, Live, Planned, Role
  <2>11. u \notin Withdrawn
    <3>1. /\ Evolved(stages, Suspended)
          /\ \A t \in Suspended : t.state = "READY" => t \in stages \ Withdrawn
      BY <2>1, SuspendedEvolves
    <3>2. u \in Suspended
      <4>1. ss = Suspended \cup (ss \ Suspended)
        BY DEF ss, AssessedStages, RefreshedStages
      <4>2. \A t \in ss \ Suspended : \E p, g, q, mode : t = NewStage(p, g, q, mode)
        BY DEF ss, AssessedStages, RefreshedStages, Replacements, FreshRequest
      <4>3. \A p, g, q, mode : ~NewStage(p, g, q, mode).elapsed
        BY DEF NewStage
      <4> QED BY <2>7, <4>1, <4>2, <4>3
    <3> QED BY <2>7, <3>1, <3>2
  <2>12. o = Current
    <3>1. o \in DOMAIN obligations
      BY <2>10 DEF Live
    <3>2. o \notin Ended
      BY <2>10, <2>11 DEF Withdrawn
    <3> QED BY <2>10, <3>1, <3>2 DEF Ended
  <2>13. u \notin Changed(o)
    <3> SUFFICES ASSUME u \in Changed(o) PROVE FALSE
      OBVIOUS
    <3>1. u \in Replaced(o)
      BY <2>10 DEF Replaced
    <3>2. o \in Replanned
      BY <2>9, <2>10, <2>12, <3>1 DEF Replanned, StageInv
    <3> QED BY <2>11, <3>1, <3>2 DEF Withdrawn
  <2>14. u.facts = Remaining /\ u.zone = zone[Role(u.plan)]
    BY <2>7, <2>10, <2>13 DEF Changed
  <2> QED BY <2>8, <2>14
<1> QED BY <1>1, InvariantHolds, PTL DEF Spec, AsksForWhatIsMissing
=============================================================================
