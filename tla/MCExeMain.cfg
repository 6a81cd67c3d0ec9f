SPECIFICATION Spec
CONSTANTS
  ExitCodes = {0, 1, 2, 3, 256}
  Faults = {"memory", "config", "package"}
  MaxReplace = 2
INVARIANTS TypeOK StatusTellsOutcome  OwnPathFirst
CHECK_DEADLOCK FALSE
