CONSTANTS
  MaxJobs = 3
  Events = {e1}
  MaxConfig = 2
  MaxSlots = 0
  MaxCredential = 1
  Aging = FALSE
  PageCount = 2
  LeaseTicks = 1
  RotationTicks = 1
  Backoff = 1
  RetryBudget = 2
  AttemptLimit = 2
  Requests = {r1, r2}
  Answers = {"TEMPORARILY_UNAVAILABLE"}
  Waits = {}
  ClockSkew = TRUE
SPECIFICATION FairSpec
INVARIANTS TypeOK SingleRunning PagesContiguous WebhookRestarts
PROPERTIES JobsSettle OnlyClaimMovesCursor ImplementsTraversal
CHECK_DEADLOCK FALSE
