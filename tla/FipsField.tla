------------------------------ MODULE FipsField ------------------------------
(***************************************************************************)
(* The bytes of FIPS 197: arithmetic in the field of 256 elements, and the *)
(* S-box as an affine transformation of the inverse.  Nothing here is      *)
(* translated from the code.                                               *)
(***************************************************************************)
EXTENDS Naturals, Sequences, FiniteSetsExt, Bitwise

Field  == 0..255
Bit(b, i) == (b \div 2^i) % 2

FieldSum(a, b) == a ^^ b

\* Multiplication by x, modulo x^8 + x^4 + x^3 + x + 1.
Double(a) == IF a < 128 THEN 2 * a ELSE (2 * a) ^^ 283

Times(a, b) ==
  LET power[i \in 0..7] == IF i = 0 THEN a ELSE Double(power[i - 1])
  IN FoldSet(LAMBDA i, sum : sum ^^ power[i], 0, {i \in 0..7 : Bit(b, i) = 1})

\* The values of f for 0 .. 255: a sequence, which TLC computes once.
Table(f(_)) == SubSeq([n \in 1..256 |-> f(n - 1)], 1, 256)

MultipleTable == SubSeq([k \in 1..14 |-> Table(LAMBDA a : Times(a, k))], 1, 14)
FieldProduct(c, a) == MultipleTable[c][a + 1]

Affine(b) ==
  LET sum(i) == (Bit(b, i) + Bit(b, (i + 4) % 8) + Bit(b, (i + 5) % 8) + Bit(b, (i + 6) % 8)
                   + Bit(b, (i + 7) % 8) + Bit(99, i)) % 2
  IN FoldSet(LAMBDA i, byte : byte + sum(i) * 2^i, 0, 0..7)

Reciprocal(a) == IF a = 0 THEN 0 ELSE CHOOSE b \in Field : Times(a, b) = 1
SBoxTable == Table(LAMBDA a : Affine(Reciprocal(a)))
FieldSBox(a) == SBoxTable[a + 1]
=============================================================================
