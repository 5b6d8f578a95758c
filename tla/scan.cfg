CONSTANTS
  Projects = {p1}
  MaxCauses = 1
  Scanners = {s1, s2}
  Generations = {1, 2, 3, 4, 5}
  MaxConfig = 2
  MaxRecovery = 1
  Contended = {p1}
  Budget = 2
  BatchSize = 1
  LeaseTicks = 1
  PeriodTicks = 1
  RetryTicks = 1
  ContentionTicks = 1
SPECIFICATION Spec
SYMMETRY Symmetric
INVARIANTS TypeOK CohortIntact OneLiveClaim
PROPERTIES RowGuardAccepts ImplementsOutbox
