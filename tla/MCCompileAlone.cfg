CONSTANTS
  p1 = p1
  p2 = p2
  Processes = {p1}
  Faults = {"crash", "full"}
  MaxVersion = 3
  SyntaxErrors = {}
  Buffers = 2
  MaxRuns = 4
  NoFile = NoFile
  Hole = Hole
SPECIFICATION Spec
INVARIANTS TypeOK
PROPERTIES SourceKept OutputFresh
CHECK_DEADLOCK FALSE
