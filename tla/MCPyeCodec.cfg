CONSTANTS
  BlockSize = 2
  Bytes <- ToyBytes
  Enc <- ToyEnc
  Dec <- ToyDec
  Faults = {}
  MaxSize = 5
  MaxBlocks = 0
  Unset = Unset
SPECIFICATION FairSpec
INVARIANTS TypeOK WritesFormat RoundTrip TailFits
PROPERTIES Terminates
