CONSTANTS
  FactTypes = {f1, f2}
  SourceStates = {"FRESH", "MISSING"}
  Reminders = 2
  Escalates = FALSE
  Modes = {"CAPTURE"}
  Withholds = FALSE
  Kinds = {"source", "owner", "schedule", "shadow", "fault"}
  MaxChanges = 2
  HistoryLimit = 20
  MaxResponses = 0
  MaxAges = 0
  MaxEvents = 2
SPECIFICATION FairResponsesSpec
INVARIANT OneCycle
PROPERTIES StagesSettle AsksForWhatIsMissing
CHECK_DEADLOCK FALSE
