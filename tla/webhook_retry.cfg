CONSTANTS
  MaxJobs = 3
  Events = {e1, e2}
  MaxConfig = 1
  MaxSlots = 0
  MaxCredential = 1
  Aging = FALSE
  PageCount = 2
  LeaseTicks = 1
  RotationTicks = 1
  Backoff = 1
  RetryBudget = 2
  AttemptLimit = 3
  Requests = {r1}
  Answers = {"RATE_LIMITED"}
  Waits = {2}
  ClockSkew = FALSE
SPECIFICATION Spec
PROPERTIES RetryAfterHonoured
CHECK_DEADLOCK FALSE
