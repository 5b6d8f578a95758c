CONSTANTS
  FactTypes = {f1}
  SourceStates = {"FRESH", "MISSING"}
  Reminders = 0
  Escalates = TRUE
  Modes = {"CAPTURE"}
  Withholds = TRUE
  Kinds = {"manager", "zone", "deploy", "gate", "shadow"}
  MaxChanges = 2
  HistoryLimit = 20
  MaxResponses = 1
  MaxAges = 1
  MaxEvents = 3
SPECIFICATION ResponsesSpec
INVARIANTS ResponsesTypeOK EveryGenerationAsks NoPoisonedBatch AskedPerChange UnbrokenChain
           EscalationExplained OpenInvitationsUsable
CHECK_DEADLOCK FALSE
