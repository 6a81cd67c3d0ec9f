SPECIFICATION Spec
CONSTANTS
  main = main a = a b = b pkg = pkg git = git h = h tmp = tmp src = src app = app
  NoFile = NoFile Partial = Partial OldArchive = OldArchive TornArchive = TornArchive
  Modules <- MCModules
  Main <- MCMain
  SourceRoot <- MCSourceRoot
  WorkRoot <- MCWorkRoot
  IGNORE_FILES <- MCIgnoreFiles
  IgnoreLists <- MCIgnoreLists
  StartTrees <- MCStartTrees
  SyntaxErrors <- MCSyntaxErrors
  MaxVersion = 2
  MaxRuns = 2
  Faults = {"crash", "full"}
INVARIANTS TypeOK ReadableIsCurrent OthersPackedAsFound PyzCanStart
PROPERTIES UserTreeKept
CHECK_DEADLOCK FALSE
