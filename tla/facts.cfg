CONSTANTS
  ann = ann
  bob = bob
  Subjects = {ann, bob}
  Values = {v1, v2}
  Definitions <- Ruled
  ReaderLists <- Lists
  InitialGrants <- Granted
  Changeable <- Movable
  EffectiveTimes = {1}
  ValidUntil <- Expiring
  ClockErrors <- Ahead
  HistoryLimit = 3
  ConflictLimit = 2
  MaxTime = 2
  MaxVersions = 4
  MaxRevisions = 4
  Managers = {bob}
SPECIFICATION Spec
SYMMETRY Symmetric
INVARIANTS TypeOK AssessmentsSeal ContributorsRetained OneRequestPerCase
PROPERTIES ConflictsStand ResolutionsHold
