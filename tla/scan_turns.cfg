CONSTANTS
  Projects = {p1, p2}
  MaxCauses = 1
  Scanners = {s1}
  Generations = {1, 2, 3, 4, 5}
  MaxConfig = 2
  MaxRecovery = 1
  Contended = {p1}
  Budget = 2
  BatchSize = 1
  LeaseTicks = 1
  PeriodTicks = 0
  RetryTicks = 0
  ContentionTicks = 1
SPECIFICATION FairSpec
PROPERTIES CausesSettle
