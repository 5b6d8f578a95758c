CONSTANTS
  MaxJobs = 3
  Events = {e1, e2}
  MaxConfig = 1
  MaxSlots = 0
  MaxCredential = 3
  Aging = FALSE
  PageCount = 1
  LeaseTicks = 1
  RotationTicks = 1
  Backoff = 1
  RetryBudget = 3
  AttemptLimit = 3
  Requests = {r1}
  Answers = {"RATE_LIMITED"}
  Waits = {}
  ClockSkew = FALSE
SPECIFICATION Spec
PROPERTIES RateLimitReleasesRotation
CHECK_DEADLOCK FALSE
