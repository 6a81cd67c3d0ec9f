CONSTANTS
  a1 = a1 a2 = a2 a3 = a3 a4 = a4 a5 = a5 a6 = a6
  NULL = NULL
  Heap <- MCHeap
  Byte <- SomeByte
  ByteXor <- XorByte
  KeyLen = 3
  Digest <- MCDigest
  PassphraseSum = 128
  MaxCalls = 3
SPECIFICATION Spec
INVARIANTS TypeOK OnlyTheKeyOfTheBuild UnencryptedExplained LeaksExplained
CHECK_DEADLOCK FALSE
