----------------------------- MODULE MCPyeCodec -----------------------------
EXTENDS PyeCodec

\* A cipher small enough to compute: every byte is shifted and the block is
\* turned round.
Shift(b, n)  == [i \in Offsets |-> (b[BlockSize - 1 - i] + n) % (BlockSize + 2)]
ToyEnc(b)    == Shift(b, 1)
ToyDec(b)    == Shift(b, BlockSize + 1)
ToyBytes     == 0..BlockSize + 1
=============================================================================
