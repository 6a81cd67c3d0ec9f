CONSTANTS
  p1 = p1
  p2 = p2
  Processes = {p1, p2}
  Faults = {"coarse"}
  MaxVersion = 2
  SyntaxErrors = {}
  Buffers = 2
  MaxRuns = 5
  NoFile = NoFile
  Hole = Hole
SPECIFICATION Spec
INVARIANTS PyeWhole OneSucceeds
CHECK_DEADLOCK FALSE
