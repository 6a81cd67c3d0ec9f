CONSTANTS
  p1 = p1
  p2 = p2
  Processes = {p1}
  Faults = {}
  MaxVersion = 1
  SyntaxErrors = {1}
  Buffers = 2
  MaxRuns = 1
  NoFile = NoFile
  Hole = Hole
SPECIFICATION Spec
PROPERTIES SourceKept
CHECK_DEADLOCK FALSE
