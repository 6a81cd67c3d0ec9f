----------------------------- MODULE MCAesBlock -----------------------------
(* The block cipher with the tables and the key expansion of the code: keys *)
(* of all three sizes, and blocks that use every entry of the tables.       *)
EXTENDS AesStandard, AesTables, FipsField

\* The key of FIPS 197, appendix A.1, and keys of all sizes with bytes that
\* ascend by s from b.
FipsKey == <<43, 126, 21, 22, 40, 174, 210, 166, 171, 247, 21, 136, 9, 207, 79, 60>>

Ascending(n, b, s) == [j \in 1..n |-> (b + s * (j - 1)) % 256]

ExpandedKeys ==
  {ExpandKey(k) : k \in {FipsKey, Ascending(16, 0, 0), Ascending(16, 0, 1),
                         Ascending(24, 0, 1), Ascending(32, 0, 1)}}

\* The first round key of a key of zeros is zero, so that these blocks take
\* every byte through the tables of the first round.
SomeBlocks == {[j \in Offsets |-> 16 * b + j] : b \in 0..15}

\* The laws the proof rests on hold of the tables of the code.  Every byte
\* is a sum of these powers of two, so that they stand for all.
ASSUME SumLaws /\ Associates({1, 2, 4, 8, 16, 32, 64, 128}) /\ SubLaws /\ MulLaws

\* They are those of the standard, and so are the keys.
ASSUME StandardLaws /\ KeysAreExpanded
=============================================================================
