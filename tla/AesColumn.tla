------------------------------ MODULE AesColumn ------------------------------
(***************************************************************************)
(* oaes_mix_cols and oaes_inv_mix_cols of                                  *)
(* src/pyconcrete_ext/openaes/src/oaes_lib.c on one column of the state,   *)
(* over any bytes, sum and multiplication.                                 *)
(***************************************************************************)
EXTENDS Naturals

CONSTANTS
  Byte,      \* values of a byte
  Add(_,_),  \* ^
  Mul(_,_)   \* oaes_gf_mul

Word == [0..3 -> Byte]

Sum4(a, b, c, d) == Add(Add(Add(a, b), c), d)

Column(a, b, c, d) == [i \in 0..3 |-> CASE i = 0 -> a [] i = 1 -> b [] i = 2 -> c [] i = 3 -> d]

MixCols(word) ==
  Column(Sum4(Mul(word[0], 2), Mul(word[1], 3), word[2], word[3]),
         Sum4(word[0], Mul(word[1], 2), Mul(word[2], 3), word[3]),
         Sum4(word[0], word[1], Mul(word[2], 2), Mul(word[3], 3)),
         Sum4(Mul(word[0], 3), word[1], word[2], Mul(word[3], 2)))

\* Mutant: the coefficients of the third row stand in the wrong order.
InvMixColsWrongRow(word) ==
  Column(Sum4(Mul(word[0], 14), Mul(word[1], 11), Mul(word[2], 13), Mul(word[3], 9)),
         Sum4(Mul(word[0], 9), Mul(word[1], 14), Mul(word[2], 11), Mul(word[3], 13)),
         Sum4(Mul(word[0], 13), Mul(word[1], 9), Mul(word[2], 11), Mul(word[3], 14)),
         Sum4(Mul(word[0], 11), Mul(word[1], 13), Mul(word[2], 9), Mul(word[3], 14)))

InvMixCols(word) ==
  Column(Sum4(Mul(word[0], 14), Mul(word[1], 11), Mul(word[2], 13), Mul(word[3], 9)),
         Sum4(Mul(word[0], 9), Mul(word[1], 14), Mul(word[2], 11), Mul(word[3], 13)),
         Sum4(Mul(word[0], 13), Mul(word[1], 9), Mul(word[2], 14), Mul(word[3], 11)),
         Sum4(Mul(word[0], 11), Mul(word[1], 13), Mul(word[2], 9), Mul(word[3], 14)))
=============================================================================
