CONSTANTS
  FactTypes = {f1, f2}
  SourceStates = {"FRESH", "STALE"}
  Reminders = 0
  Escalates = TRUE
  Modes = {"CAPTURE"}
  Withholds = FALSE
  Kinds = {"source"}
  MaxChanges = 3
SPECIFICATION Spec
SYMMETRY Symmetric
INVARIANTS NoStageStranded
CHECK_DEADLOCK FALSE
