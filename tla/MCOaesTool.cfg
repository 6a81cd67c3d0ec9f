CONSTANTS
  Block = 3
  KeyLens = {1, 2}
  Cipher <- ToyCipher
  Decipher <- ToyDecipher
  XorByte <- ToyXor
  Slots = 2
  EncLen <- MCEncLen
  DecLen <- MCDecLen
  Inputs <- MCInputs
  Keys <- MCKeys
  IVs <- MCIVs
  Faults = {"kill", "start", "memory"}
  MaxRuns = 5
  MaxFaults = 2
  Missing = Missing
  Unset = Unset
SPECIFICATION FairSpec
INVARIANTS TypeOK RoundTrip OutputIsPrefix
PROPERTIES SlotKept CommandsEnd
CHECK_DEADLOCK FALSE
