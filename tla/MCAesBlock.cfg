CONSTANTS
  Byte <- Field
  Add <- XorByte
  Mul <- GfMul
  Sub <- SubByte
  InvSub <- InvSubByte
  Keys <- ExpandedKeys
  Inputs <- SomeBlocks
  Plus <- FieldSum
  Product <- FieldProduct
  SBox <- FieldSBox
SPECIFICATION Spec
INVARIANTS TypeOK DecryptsToInput RoundsAreFips ScheduleIsFips
CHECK_DEADLOCK FALSE
