CONSTANTS
  MaxJobs = 2
  Events = {}
  MaxConfig = 1
  MaxSlots = 1
  MaxCredential = 5
  Aging = TRUE
  PageCount = 1
  LeaseTicks = 1
  RotationTicks = 1
  Backoff = 1
  RetryBudget = 2
  AttemptLimit = 2
  Requests = {r1, r2}
  Answers = {"RATE_LIMITED", "TEMPORARILY_UNAVAILABLE", "EXPIRED_CREDENTIALS"}
  Waits = {2}
  ClockSkew = FALSE
SPECIFICATION Spec
SYMMETRY Symmetric
INVARIANTS CredentialUsable SingleRefresh
PROPERTIES RetryAfterHonoured
CHECK_DEADLOCK FALSE
