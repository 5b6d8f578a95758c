CONSTANTS
  MaxJobs = 3
  Events = {e1}
  MaxConfig = 2
  MaxSlots = 0
  MaxCredential = 1
  Aging = FALSE
  PageCount = 2
  LeaseTicks = 1
  RotationTicks = 1
  Backoff = 1
  RetryBudget = 2
  AttemptLimit = 3
  Requests = {r1}
  Answers = {"TEMPORARILY_UNAVAILABLE"}
  Waits = {}
  ClockSkew = FALSE
SPECIFICATION Spec
INVARIANTS ResetReceiptsValid
CHECK_DEADLOCK FALSE
