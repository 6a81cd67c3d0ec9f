--------------------------- MODULE AesBlock_proofs ---------------------------
(***************************************************************************)
(* Decryption inverts encryption (AesBlock), for every key schedule, every *)
(* number of rounds and all tables that satisfy the laws of the field; and *)
(* rounds and key schedule are those of FIPS 197 (AesStandard), if bytes,  *)
(* S-box and coefficients are.                                             *)
(***************************************************************************)
EXTENDS AesStandard, SequenceTheorems, WellFoundedInduction, TLAPS

Laws == SumLaws /\ Associates(Byte) /\ SubLaws /\ MulLaws

-----------------------------------------------------------------------------
(* Sums of four bytes.                                                      *)

LEMMA AddInByte ==
  ASSUME SumLaws, NEW a \in Byte, NEW b \in Byte
  PROVE  Add(a, b) \in Byte /\ Add(a, b) = Add(b, a)
BY DEF SumLaws

LEMMA AddAssoc ==
  ASSUME Associates(Byte), NEW a \in Byte, NEW b \in Byte, NEW d \in Byte
  PROVE  Add(Add(a, b), d) = Add(a, Add(b, d))
BY DEF Associates

\* The two inner terms of a sum of two sums may change places.
LEMMA Exchange ==
  ASSUME Laws, NEW a \in Byte, NEW b \in Byte, NEW d \in Byte, NEW e \in Byte
  PROVE  Add(Add(a, b), Add(d, e)) = Add(Add(a, d), Add(b, e))
<1>0. SumLaws /\ Associates(Byte)  BY DEF Laws
<1>1. Add(b, d) \in Byte /\ Add(d, e) \in Byte /\ Add(b, e) \in Byte /\ Add(d, b) \in Byte
  BY <1>0, AddInByte
<1>2. Add(Add(a, b), Add(d, e)) = Add(a, Add(b, Add(d, e)))  BY <1>0, <1>1, AddAssoc
<1>3. Add(b, Add(d, e)) = Add(Add(b, d), e)  BY <1>0, AddAssoc
<1>4. Add(b, d) = Add(d, b)  BY <1>0, AddInByte
<1>5. Add(Add(d, b), e) = Add(d, Add(b, e))  BY <1>0, AddAssoc
<1>6. Add(a, Add(d, Add(b, e))) = Add(Add(a, d), Add(b, e))  BY <1>0, <1>1, AddAssoc
<1>7. QED  BY <1>2, <1>3, <1>4, <1>5, <1>6

LEMMA Sum4Pairs ==
  ASSUME Laws, NEW a \in Byte, NEW b \in Byte, NEW d \in Byte, NEW e \in Byte
  PROVE  Sum4(a, b, d, e) = Add(Add(a, b), Add(d, e)) /\ Sum4(a, b, d, e) \in Byte
<1>0. SumLaws /\ Associates(Byte)  BY DEF Laws
<1>1. Add(a, b) \in Byte /\ Add(d, e) \in Byte  BY <1>0, AddInByte
<1>2. Add(Add(Add(a, b), d), e) = Add(Add(a, b), Add(d, e))  BY <1>0, <1>1, AddAssoc
<1>3. Add(Add(a, b), Add(d, e)) \in Byte  BY <1>0, <1>1, AddInByte
<1>4. QED  BY <1>2, <1>3 DEF Sum4

LEMMA Sum4Rotates ==
  ASSUME Laws, NEW a \in Byte, NEW b \in Byte, NEW d \in Byte, NEW e \in Byte
  PROVE  Sum4(a, b, d, e) = Sum4(b, d, e, a)
<1>0. SumLaws  BY DEF Laws
<1>1. Sum4(a, b, d, e) = Add(Add(a, b), Add(d, e))  BY Sum4Pairs
<1>2. Sum4(b, d, e, a) = Add(Add(b, d), Add(e, a))  BY Sum4Pairs
<1>3. Add(a, b) = Add(b, a) /\ Add(d, e) = Add(e, d) /\ Add(e, a) = Add(a, e)  BY <1>0, AddInByte
<1>4. Add(Add(b, a), Add(d, e)) = Add(Add(b, d), Add(a, e))  BY Exchange
<1>5. QED  BY <1>1, <1>2, <1>3, <1>4

-----------------------------------------------------------------------------
(* The sum of the bytes of a word, and sums of words.                        *)

SumOf(w) == Sum4(w[0], w[1], w[2], w[3])

AddWord(v, w) == [j \in 0..3 |-> Add(v[j], w[j])]

\* A column has the bytes it is made of.
LEMMA ColumnAt ==
  ASSUME NEW a, NEW b, NEW d, NEW e
  PROVE  /\ Column(a, b, d, e)[0] = a /\ Column(a, b, d, e)[1] = b
         /\ Column(a, b, d, e)[2] = d /\ Column(a, b, d, e)[3] = e
BY DEF Column

LEMMA ColumnInWord ==
  ASSUME NEW a \in Byte, NEW b \in Byte, NEW d \in Byte, NEW e \in Byte
  PROVE  Column(a, b, d, e) \in Word
<1> SUFFICES ASSUME NEW j \in 0..3  PROVE Column(a, b, d, e)[j] \in Byte
  BY DEF Column, Word
<1>1. j = 0 \/ j = 1 \/ j = 2 \/ j = 3  OBVIOUS
<1>2. QED  BY <1>1, ColumnAt

LEMMA WordBytes ==
  ASSUME NEW w \in Word
  PROVE  w[0] \in Byte /\ w[1] \in Byte /\ w[2] \in Byte /\ w[3] \in Byte
BY DEF Word

LEMMA AddWordInWord ==
  ASSUME Laws, NEW v \in Word, NEW w \in Word
  PROVE  AddWord(v, w) \in Word
<1>0. SumLaws  BY DEF Laws
<1>1. ASSUME NEW j \in 0..3  PROVE Add(v[j], w[j]) \in Byte
  <2>1. v[j] \in Byte /\ w[j] \in Byte  BY DEF Word
  <2>2. QED  BY <1>0, <2>1, AddInByte
<1>2. QED  BY <1>1 DEF AddWord, Word

LEMMA SumInPairs ==
  ASSUME Laws, NEW w \in Word
  PROVE  SumOf(w) = Add(Add(w[0], w[1]), Add(w[2], w[3]))
<1> DEFINE a == w[0]  b == w[1]  d == w[2]  e == w[3]
<1>1. a \in Byte /\ b \in Byte /\ d \in Byte /\ e \in Byte  BY WordBytes
<1> HIDE DEF a, b, d, e
<1>2. Sum4(a, b, d, e) = Add(Add(a, b), Add(d, e))  BY <1>1, Sum4Pairs
<1>3. QED  BY <1>2 DEF SumOf, a, b, d, e

LEMMA SumsAdd ==
  ASSUME Laws, NEW v \in Word, NEW w \in Word
  PROVE  Add(SumOf(v), SumOf(w)) = SumOf(AddWord(v, w))
<1> DEFINE vl == Add(v[0], v[1])  vr == Add(v[2], v[3])
           wl == Add(w[0], w[1])  wr == Add(w[2], w[3])
           s == AddWord(v, w)
<1>0. SumLaws  BY DEF Laws
<1>1. vl \in Byte /\ vr \in Byte /\ wl \in Byte /\ wr \in Byte
  BY <1>0, WordBytes, AddInByte
<1>2. SumOf(v) = Add(vl, vr)  BY SumInPairs
<1>3. SumOf(w) = Add(wl, wr)  BY SumInPairs
<1>4. SumOf(s) = Add(Add(s[0], s[1]), Add(s[2], s[3]))  BY AddWordInWord, SumInPairs
<1>5. s[0] = Add(v[0], w[0]) /\ s[1] = Add(v[1], w[1]) /\ s[2] = Add(v[2], w[2]) /\ s[3] = Add(v[3], w[3])
  BY DEF AddWord
<1>6. Add(vl, wl) = Add(s[0], s[1])
  <2>1. Add(vl, wl) = Add(Add(v[0], w[0]), Add(v[1], w[1]))  BY WordBytes, Exchange
  <2>2. QED  BY <2>1, <1>5
<1>7. Add(vr, wr) = Add(s[2], s[3])
  <2>1. Add(vr, wr) = Add(Add(v[2], w[2]), Add(v[3], w[3]))  BY WordBytes, Exchange
  <2>2. QED  BY <2>1, <1>5
<1> HIDE DEF vl, vr, wl, wr, s
<1>8. Add(Add(vl, vr), Add(wl, wr)) = Add(Add(vl, wl), Add(vr, wr))  BY <1>1, Exchange
<1>9. SumOf(s) = Add(SumOf(v), SumOf(w))  BY <1>2, <1>3, <1>4, <1>6, <1>7, <1>8
<1>10. QED  BY <1>9 DEF s

LEMMA SumInByte ==
  ASSUME Laws, NEW w \in Word
  PROVE  SumOf(w) \in Byte
BY WordBytes, Sum4Pairs DEF SumOf

\* The sum of the rows of a square of bytes is the sum of its columns.
LEMMA SumsTranspose ==
  ASSUME Laws, NEW p \in Word, NEW q \in Word, NEW v \in Word, NEW w \in Word
  PROVE  Sum4(SumOf(p), SumOf(q), SumOf(v), SumOf(w))
           = Sum4(Sum4(p[0], q[0], v[0], w[0]), Sum4(p[1], q[1], v[1], w[1]),
                  Sum4(p[2], q[2], v[2], w[2]), Sum4(p[3], q[3], v[3], w[3]))
<1> DEFINE top == AddWord(p, q)  bottom == AddWord(v, w)  all == AddWord(top, bottom)
<1>1. top \in Word /\ bottom \in Word  BY AddWordInWord
<1>2. Sum4(SumOf(p), SumOf(q), SumOf(v), SumOf(w)) = Add(Add(SumOf(p), SumOf(q)), Add(SumOf(v), SumOf(w)))
  BY SumInByte, Sum4Pairs
<1>3. Add(SumOf(p), SumOf(q)) = SumOf(top)  BY SumsAdd
<1>4. Add(SumOf(v), SumOf(w)) = SumOf(bottom)  BY SumsAdd
<1>5. Add(SumOf(top), SumOf(bottom)) = SumOf(all)  BY <1>1, SumsAdd
<1>6. ASSUME NEW j \in 0..3  PROVE all[j] = Sum4(p[j], q[j], v[j], w[j])
  <2> DEFINE a == p[j]  b == q[j]  d == v[j]  e == w[j]
  <2>1. a \in Byte /\ b \in Byte /\ d \in Byte /\ e \in Byte  BY DEF Word
  <2> HIDE DEF a, b, d, e
  <2>2. Sum4(a, b, d, e) = Add(Add(a, b), Add(d, e))  BY <2>1, Sum4Pairs
  <2>3. QED  BY <2>2 DEF AddWord, a, b, d, e
<1>7. all[0] = Sum4(p[0], q[0], v[0], w[0]) /\ all[1] = Sum4(p[1], q[1], v[1], w[1])
  BY <1>6
<1>8. all[2] = Sum4(p[2], q[2], v[2], w[2]) /\ all[3] = Sum4(p[3], q[3], v[3], w[3])
  BY <1>6
<1> HIDE DEF top, bottom, all
<1>9. SumOf(all) = Sum4(all[0], all[1], all[2], all[3])  BY DEF SumOf
<1>10. QED  BY <1>2, <1>3, <1>4, <1>5, <1>7, <1>8, <1>9

-----------------------------------------------------------------------------
(* The column transformations.                                               *)

Scaled(w, k) == [j \in 0..3 |-> Mul(w[j], k)]

LEMMA MulInByte ==
  ASSUME MulLaws, NEW a \in Byte, NEW k \in Factors
  PROVE  Mul(a, k) \in Byte
BY DEF MulLaws

LEMMA MulAdds ==
  ASSUME MulLaws, NEW a \in Byte, NEW b \in Byte, NEW k \in Factors
  PROVE  Mul(Add(a, b), k) = Add(Mul(a, k), Mul(b, k))
BY DEF MulLaws

LEMMA MulOfSum ==
  ASSUME Laws, NEW w \in Word, NEW k \in Factors
  PROVE  Scaled(w, k) \in Word /\ Mul(SumOf(w), k) = SumOf(Scaled(w, k))
<1> DEFINE l == Add(w[0], w[1])  ll == Add(l, w[2])
<1>0. SumLaws /\ MulLaws  BY DEF Laws
<1>1. w[0] \in Byte /\ w[1] \in Byte /\ w[2] \in Byte /\ w[3] \in Byte  BY WordBytes
<1>2. l \in Byte  BY <1>0, <1>1, AddInByte
<1>3. ll \in Byte  BY <1>0, <1>1, <1>2, AddInByte
<1>4. Mul(l, k) = Add(Mul(w[0], k), Mul(w[1], k))  BY <1>0, <1>1, MulAdds
<1>5. SumOf(w) = Add(ll, w[3])  BY DEF SumOf, Sum4
<1>6. SumOf(Scaled(w, k)) = Add(Add(Add(Mul(w[0], k), Mul(w[1], k)), Mul(w[2], k)), Mul(w[3], k))
  BY DEF SumOf, Sum4, Scaled
<1>7. Scaled(w, k) \in Word
  <2>1. \A j \in 0..3 : Mul(w[j], k) \in Byte  BY <1>0, MulInByte DEF Word
  <2>2. QED  BY <2>1 DEF Scaled, Word
<1> HIDE DEF l
<1>8. Mul(ll, k) = Add(Mul(l, k), Mul(w[2], k))  BY <1>0, <1>1, <1>2, MulAdds
<1> HIDE DEF ll
<1>9. Mul(Add(ll, w[3]), k) = Add(Mul(ll, k), Mul(w[3], k))  BY <1>0, <1>1, <1>3, MulAdds
<1>10. QED  BY <1>4, <1>5, <1>6, <1>7, <1>8, <1>9

LEMMA SumWithZeros ==
  ASSUME Laws, NEW a \in Byte
  PROVE  Sum4(a, 0, 0, 0) = a
BY DEF Laws, SumLaws, Sum4

\* The rows of the column that oaes_mix_cols makes of a column.
MixedRow0(w) == Column(Mul(w[0], 2), Mul(w[1], 3), w[2], w[3])
MixedRow1(w) == Column(w[0], Mul(w[1], 2), Mul(w[2], 3), w[3])
MixedRow2(w) == Column(w[0], w[1], Mul(w[2], 2), Mul(w[3], 3))
MixedRow3(w) == Column(Mul(w[0], 3), w[1], w[2], Mul(w[3], 2))

LEMMA MixedRowsInWord ==
  ASSUME Laws, NEW w \in Word
  PROVE  /\ MixedRow0(w) \in Word /\ MixedRow1(w) \in Word
         /\ MixedRow2(w) \in Word /\ MixedRow3(w) \in Word
<1>0. MulLaws /\ 2 \in Factors /\ 3 \in Factors  BY DEF Laws, Factors
<1>1. w[0] \in Byte /\ w[1] \in Byte /\ w[2] \in Byte /\ w[3] \in Byte  BY WordBytes
<1>2. Mul(w[0], 2) \in Byte /\ Mul(w[1], 2) \in Byte /\ Mul(w[2], 2) \in Byte /\ Mul(w[3], 2) \in Byte
  BY <1>0, <1>1, MulInByte
<1>3. Mul(w[0], 3) \in Byte /\ Mul(w[1], 3) \in Byte /\ Mul(w[2], 3) \in Byte /\ Mul(w[3], 3) \in Byte
  BY <1>0, <1>1, MulInByte
<1>4. MixedRow0(w) \in Word  BY <1>1, <1>2, <1>3, ColumnInWord DEF MixedRow0
<1>5. MixedRow1(w) \in Word  BY <1>1, <1>2, <1>3, ColumnInWord DEF MixedRow1
<1>6. MixedRow2(w) \in Word  BY <1>1, <1>2, <1>3, ColumnInWord DEF MixedRow2
<1>7. MixedRow3(w) \in Word  BY <1>1, <1>2, <1>3, ColumnInWord DEF MixedRow3
<1>8. QED  BY <1>4, <1>5, <1>6, <1>7

LEMMA MixColsRows ==
  ASSUME Laws, NEW w \in Word
  PROVE  /\ MixCols(w)[0] = SumOf(MixedRow0(w)) /\ MixCols(w)[1] = SumOf(MixedRow1(w))
         /\ MixCols(w)[2] = SumOf(MixedRow2(w)) /\ MixCols(w)[3] = SumOf(MixedRow3(w))
<1>1. MixCols(w)[0] = SumOf(MixedRow0(w))  BY ColumnAt DEF MixCols, SumOf, MixedRow0
<1>2. MixCols(w)[1] = SumOf(MixedRow1(w))  BY ColumnAt DEF MixCols, SumOf, MixedRow1
<1>3. MixCols(w)[2] = SumOf(MixedRow2(w))  BY ColumnAt DEF MixCols, SumOf, MixedRow2
<1>4. MixCols(w)[3] = SumOf(MixedRow3(w))  BY ColumnAt DEF MixCols, SumOf, MixedRow3
<1>5. QED  BY <1>1, <1>2, <1>3, <1>4

LEMMA MixColsInWord ==
  ASSUME Laws, NEW w \in Word
  PROVE  MixCols(w) \in Word
<1>1. /\ SumOf(MixedRow0(w)) \in Byte /\ SumOf(MixedRow1(w)) \in Byte
      /\ SumOf(MixedRow2(w)) \in Byte /\ SumOf(MixedRow3(w)) \in Byte
  BY MixedRowsInWord, SumInByte
<1>2. MixCols(w) = Column(MixCols(w)[0], MixCols(w)[1], MixCols(w)[2], MixCols(w)[3])
  BY DEF MixCols, Column
<1>3. QED  BY <1>1, <1>2, MixColsRows, ColumnInWord

\* A multiple of a byte of a mixed column is the sum of the multiples of its row.
LEMMA ScaledRows ==
  ASSUME Laws, NEW w \in Word, NEW k \in Factors
  PROVE  /\ Scaled(MixedRow0(w), k) \in Word /\ Mul(MixCols(w)[0], k) = SumOf(Scaled(MixedRow0(w), k))
         /\ Scaled(MixedRow1(w), k) \in Word /\ Mul(MixCols(w)[1], k) = SumOf(Scaled(MixedRow1(w), k))
         /\ Scaled(MixedRow2(w), k) \in Word /\ Mul(MixCols(w)[2], k) = SumOf(Scaled(MixedRow2(w), k))
         /\ Scaled(MixedRow3(w), k) \in Word /\ Mul(MixCols(w)[3], k) = SumOf(Scaled(MixedRow3(w), k))
<1>1. \A v \in Word : Scaled(v, k) \in Word /\ Mul(SumOf(v), k) = SumOf(Scaled(v, k))  BY MulOfSum
<1>2. /\ MixedRow0(w) \in Word /\ MixedRow1(w) \in Word
      /\ MixedRow2(w) \in Word /\ MixedRow3(w) \in Word
  BY MixedRowsInWord
<1>3. QED  BY <1>1, <1>2, MixColsRows

\* The first byte of a column comes back: the products of the first row of
\* the one matrix with the columns of the other are 1, 0, 0 and 0.
LEMMA FirstByteReturns ==
  ASSUME Laws, NEW w \in Word
  PROVE  InvMixCols(MixCols(w))[0] = w[0]
<1> DEFINE m == MixCols(w)
           p == Scaled(MixedRow0(w), 14)  q == Scaled(MixedRow1(w), 11)
           u == Scaled(MixedRow2(w), 13)  v == Scaled(MixedRow3(w), 9)
<1>0. MulLaws /\ 9 \in Factors /\ 11 \in Factors /\ 13 \in Factors /\ 14 \in Factors
  BY DEF Laws, Factors
<1>1. w[0] \in Byte /\ w[1] \in Byte /\ w[2] \in Byte /\ w[3] \in Byte  BY WordBytes
<1>2. p \in Word /\ Mul(m[0], 14) = SumOf(p)  BY <1>0, ScaledRows
<1>3. q \in Word /\ Mul(m[1], 11) = SumOf(q)  BY <1>0, ScaledRows
<1>4. u \in Word /\ Mul(m[2], 13) = SumOf(u)  BY <1>0, ScaledRows
<1>5. v \in Word /\ Mul(m[3], 9) = SumOf(v)  BY <1>0, ScaledRows
<1>6. Sum4(p[0], q[0], u[0], v[0]) = w[0]
  <2>1. p[0] = Mul(Mul(w[0], 2), 14) /\ q[0] = Mul(w[0], 11)
    BY ColumnAt DEF Scaled, MixedRow0, MixedRow1
  <2>2. u[0] = Mul(w[0], 13) /\ v[0] = Mul(Mul(w[0], 3), 9)
    BY ColumnAt DEF Scaled, MixedRow2, MixedRow3
  <2>3. Sum4(Mul(Mul(w[0], 2), 14), Mul(w[0], 11), Mul(w[0], 13), Mul(Mul(w[0], 3), 9)) = w[0]
    BY <1>0, <1>1 DEF MulLaws
  <2>4. QED  BY <2>1, <2>2, <2>3
<1>7. Sum4(p[1], q[1], u[1], v[1]) = 0
  <2>1. p[1] = Mul(Mul(w[1], 3), 14) /\ q[1] = Mul(Mul(w[1], 2), 11)
    BY ColumnAt DEF Scaled, MixedRow0, MixedRow1
  <2>2. u[1] = Mul(w[1], 13) /\ v[1] = Mul(w[1], 9)
    BY ColumnAt DEF Scaled, MixedRow2, MixedRow3
  <2>3. Sum4(Mul(Mul(w[1], 3), 14), Mul(Mul(w[1], 2), 11), Mul(w[1], 13), Mul(w[1], 9)) = 0
    BY <1>0, <1>1 DEF MulLaws
  <2>4. QED  BY <2>1, <2>2, <2>3
<1>8. Sum4(p[2], q[2], u[2], v[2]) = 0
  <2>1. p[2] = Mul(w[2], 14) /\ q[2] = Mul(Mul(w[2], 3), 11)
    BY ColumnAt DEF Scaled, MixedRow0, MixedRow1
  <2>2. u[2] = Mul(Mul(w[2], 2), 13) /\ v[2] = Mul(w[2], 9)
    BY ColumnAt DEF Scaled, MixedRow2, MixedRow3
  <2>3. Sum4(Mul(w[2], 14), Mul(Mul(w[2], 3), 11), Mul(Mul(w[2], 2), 13), Mul(w[2], 9)) = 0
    BY <1>0, <1>1 DEF MulLaws
  <2>4. QED  BY <2>1, <2>2, <2>3
<1>9. Sum4(p[3], q[3], u[3], v[3]) = 0
  <2>1. p[3] = Mul(w[3], 14) /\ q[3] = Mul(w[3], 11)
    BY ColumnAt DEF Scaled, MixedRow0, MixedRow1
  <2>2. u[3] = Mul(Mul(w[3], 3), 13) /\ v[3] = Mul(Mul(w[3], 2), 9)
    BY ColumnAt DEF Scaled, MixedRow2, MixedRow3
  <2>3. Sum4(Mul(w[3], 14), Mul(w[3], 11), Mul(Mul(w[3], 3), 13), Mul(Mul(w[3], 2), 9)) = 0
    BY <1>0, <1>1 DEF MulLaws
  <2>4. QED  BY <2>1, <2>2, <2>3
<1>10. InvMixCols(m)[0] = Sum4(Mul(m[0], 14), Mul(m[1], 11), Mul(m[2], 13), Mul(m[3], 9))
  BY ColumnAt DEF InvMixCols
<1> HIDE DEF m, p, q, u, v
<1>11. Sum4(SumOf(p), SumOf(q), SumOf(u), SumOf(v))
         = Sum4(Sum4(p[0], q[0], u[0], v[0]), Sum4(p[1], q[1], u[1], v[1]),
                Sum4(p[2], q[2], u[2], v[2]), Sum4(p[3], q[3], u[3], v[3]))
  BY <1>2, <1>3, <1>4, <1>5, SumsTranspose
<1>12. Sum4(w[0], 0, 0, 0) = w[0]  BY <1>1, SumWithZeros
<1>13. InvMixCols(m)[0] = w[0]
  BY <1>2, <1>3, <1>4, <1>5, <1>6, <1>7, <1>8, <1>9, <1>10, <1>11, <1>12
<1>14. QED  BY <1>13 DEF m

-----------------------------------------------------------------------------
(* Both transformations commute with the rotation of a column, so that what  *)
(* holds of the first byte holds of all.                                     *)

Rotated(w) == Column(w[1], w[2], w[3], w[0])

LEMMA RotatedInWord ==
  ASSUME NEW w \in Word
  PROVE  Rotated(w) \in Word
BY WordBytes, ColumnInWord DEF Rotated

LEMMA WordIsColumn ==
  ASSUME NEW w \in Word, NEW a, NEW b, NEW d, NEW e,
         w[0] = a, w[1] = b, w[2] = d, w[3] = e
  PROVE  w = Column(a, b, d, e)
<1>1. \A j \in 0..3 : w[j] = Column(a, b, d, e)[j]
  <2>1. \A j \in 0..3 : j = 0 \/ j = 1 \/ j = 2 \/ j = 3  OBVIOUS
  <2>2. QED  BY <2>1, ColumnAt
<1>2. w = [j \in 0..3 |-> w[j]]  BY DEF Word
<1>3. Column(a, b, d, e) = [j \in 0..3 |-> Column(a, b, d, e)[j]]  BY DEF Column
<1>4. [j \in 0..3 |-> w[j]] = [j \in 0..3 |-> Column(a, b, d, e)[j]]  BY <1>1
<1>5. QED  BY <1>2, <1>3, <1>4

LEMMA MixColsRotates ==
  ASSUME Laws, NEW w \in Word
  PROVE  MixCols(Rotated(w)) = Rotated(MixCols(w))
<1> DEFINE m == MixCols(w)  r == Rotated(w)
<1>0. MulLaws /\ 2 \in Factors /\ 3 \in Factors  BY DEF Laws, Factors
<1>1. w[0] \in Byte /\ w[1] \in Byte /\ w[2] \in Byte /\ w[3] \in Byte  BY WordBytes
<1>2. \A a \in Byte : Mul(a, 2) \in Byte /\ Mul(a, 3) \in Byte  BY <1>0, MulInByte
<1>3. r[0] = w[1] /\ r[1] = w[2] /\ r[2] = w[3] /\ r[3] = w[0]  BY ColumnAt DEF Rotated
<1>4. MixCols(r)[0] = m[1]
  <2>1. Sum4(w[0], Mul(w[1], 2), Mul(w[2], 3), w[3]) = Sum4(Mul(w[1], 2), Mul(w[2], 3), w[3], w[0])
    BY <1>1, <1>2, Sum4Rotates
  <2>2. QED  BY <1>3, <2>1, ColumnAt DEF MixCols
<1>5. MixCols(r)[1] = m[2]
  <2>1. Sum4(w[0], w[1], Mul(w[2], 2), Mul(w[3], 3)) = Sum4(w[1], Mul(w[2], 2), Mul(w[3], 3), w[0])
    BY <1>1, <1>2, Sum4Rotates
  <2>2. QED  BY <1>3, <2>1, ColumnAt DEF MixCols
<1>6. MixCols(r)[2] = m[3]
  <2>1. Sum4(Mul(w[0], 3), w[1], w[2], Mul(w[3], 2)) = Sum4(w[1], w[2], Mul(w[3], 2), Mul(w[0], 3))
    BY <1>1, <1>2, Sum4Rotates
  <2>2. QED  BY <1>3, <2>1, ColumnAt DEF MixCols
<1>7. MixCols(r)[3] = m[0]
  <2>1. Sum4(Mul(w[0], 2), Mul(w[1], 3), w[2], w[3]) = Sum4(Mul(w[1], 3), w[2], w[3], Mul(w[0], 2))
    BY <1>1, <1>2, Sum4Rotates
  <2>2. QED  BY <1>3, <2>1, ColumnAt DEF MixCols
<1>8. MixCols(r) \in Word  BY RotatedInWord, MixColsInWord
<1> HIDE DEF m, r
<1>9. MixCols(r) = Column(m[1], m[2], m[3], m[0])  BY <1>4, <1>5, <1>6, <1>7, <1>8, WordIsColumn
<1>10. QED  BY <1>9 DEF m, r, Rotated

\* The byte after a given one, of the inverse, is the given one of the
\* inverse of the rotated column.
LEMMA InvMixColsRotates ==
  ASSUME Laws, NEW w \in Word
  PROVE  /\ InvMixCols(w)[1] = InvMixCols(Rotated(w))[0]
         /\ InvMixCols(w)[2] = InvMixCols(Rotated(w))[1]
         /\ InvMixCols(w)[3] = InvMixCols(Rotated(w))[2]
<1> DEFINE r == Rotated(w)
<1>0. MulLaws /\ 9 \in Factors /\ 11 \in Factors /\ 13 \in Factors /\ 14 \in Factors
  BY DEF Laws, Factors
<1>1. w[0] \in Byte /\ w[1] \in Byte /\ w[2] \in Byte /\ w[3] \in Byte  BY WordBytes
<1>2. \A a \in Byte : Mul(a, 9) \in Byte /\ Mul(a, 11) \in Byte /\ Mul(a, 13) \in Byte /\ Mul(a, 14) \in Byte
  BY <1>0, MulInByte
<1>3. r[0] = w[1] /\ r[1] = w[2] /\ r[2] = w[3] /\ r[3] = w[0]  BY ColumnAt DEF Rotated
<1>4. InvMixCols(w)[1] = InvMixCols(r)[0]
  <2>1. Sum4(Mul(w[0], 9), Mul(w[1], 14), Mul(w[2], 11), Mul(w[3], 13))
          = Sum4(Mul(w[1], 14), Mul(w[2], 11), Mul(w[3], 13), Mul(w[0], 9))
    BY <1>1, <1>2, Sum4Rotates
  <2>2. QED  BY <1>3, <2>1, ColumnAt DEF InvMixCols
<1>5. InvMixCols(w)[2] = InvMixCols(r)[1]
  <2>1. Sum4(Mul(w[0], 13), Mul(w[1], 9), Mul(w[2], 14), Mul(w[3], 11))
          = Sum4(Mul(w[1], 9), Mul(w[2], 14), Mul(w[3], 11), Mul(w[0], 13))
    BY <1>1, <1>2, Sum4Rotates
  <2>2. QED  BY <1>3, <2>1, ColumnAt DEF InvMixCols
<1>6. InvMixCols(w)[3] = InvMixCols(r)[2]
  <2>1. Sum4(Mul(w[0], 11), Mul(w[1], 13), Mul(w[2], 9), Mul(w[3], 14))
          = Sum4(Mul(w[1], 13), Mul(w[2], 9), Mul(w[3], 14), Mul(w[0], 11))
    BY <1>1, <1>2, Sum4Rotates
  <2>2. QED  BY <1>3, <2>1, ColumnAt DEF InvMixCols
<1>7. QED  BY <1>4, <1>5, <1>6

\* oaes_inv_mix_cols undoes oaes_mix_cols.
LEMMA ColumnReturns ==
  ASSUME Laws, NEW w \in Word
  PROVE  /\ InvMixCols(MixCols(w))[0] = w[0] /\ InvMixCols(MixCols(w))[1] = w[1]
         /\ InvMixCols(MixCols(w))[2] = w[2] /\ InvMixCols(MixCols(w))[3] = w[3]
<1> DEFINE r == Rotated(w)  rr == Rotated(r)  rrr == Rotated(rr)
<1>1. r \in Word /\ r[0] = w[1] /\ r[1] = w[2] /\ r[2] = w[3]
  BY RotatedInWord, ColumnAt DEF Rotated
<1> HIDE DEF r
<1>2. rr \in Word /\ rr[0] = r[1] /\ rr[1] = r[2]
  BY <1>1, RotatedInWord, ColumnAt DEF Rotated
<1> HIDE DEF rr
<1>3. rrr \in Word /\ rrr[0] = rr[1]
  BY <1>2, RotatedInWord, ColumnAt DEF Rotated
<1> HIDE DEF rrr
<1>4. \A v \in Word : /\ InvMixCols(MixCols(v))[1] = InvMixCols(MixCols(Rotated(v)))[0]
                      /\ InvMixCols(MixCols(v))[2] = InvMixCols(MixCols(Rotated(v)))[1]
                      /\ InvMixCols(MixCols(v))[3] = InvMixCols(MixCols(Rotated(v)))[2]
  <2> TAKE v \in Word
  <2>1. MixCols(v) \in Word /\ MixCols(Rotated(v)) = Rotated(MixCols(v))
    BY MixColsInWord, MixColsRotates
  <2>2. QED  BY <2>1, InvMixColsRotates
<1>5. InvMixCols(MixCols(w))[0] = w[0]  BY FirstByteReturns
<1>6. InvMixCols(MixCols(w))[1] = w[1]
  <2>1. InvMixCols(MixCols(r))[0] = r[0]  BY <1>1, FirstByteReturns
  <2>2. QED  BY <1>1, <1>4, <2>1 DEF r
<1>7. InvMixCols(MixCols(w))[2] = w[2]
  <2>1. InvMixCols(MixCols(rr))[0] = rr[0]  BY <1>2, FirstByteReturns
  <2>2. InvMixCols(MixCols(r))[1] = InvMixCols(MixCols(rr))[0]  BY <1>1, <1>4 DEF rr
  <2>3. InvMixCols(MixCols(w))[2] = InvMixCols(MixCols(r))[1]  BY <1>4 DEF r
  <2>4. QED  BY <1>1, <1>2, <2>1, <2>2, <2>3
<1>8. InvMixCols(MixCols(w))[3] = w[3]
  <2>1. InvMixCols(MixCols(rrr))[0] = rrr[0]  BY <1>3, FirstByteReturns
  <2>2. InvMixCols(MixCols(rr))[1] = InvMixCols(MixCols(rrr))[0]  BY <1>2, <1>4 DEF rrr
  <2>3. InvMixCols(MixCols(r))[2] = InvMixCols(MixCols(rr))[1]  BY <1>1, <1>4 DEF rr
  <2>4. InvMixCols(MixCols(w))[3] = InvMixCols(MixCols(r))[2]  BY <1>4 DEF r
  <2>5. QED  BY <1>1, <1>2, <1>3, <2>1, <2>2, <2>3, <2>4
<1>9. QED  BY <1>5, <1>6, <1>7, <1>8

-----------------------------------------------------------------------------
(* The transformations of a block.                                           *)

LEMMA SubReturns ==
  ASSUME Laws, NEW b \in Block
  PROVE  SubAll(b) \in Block /\ InvSubAll(SubAll(b)) = b
<1>0. SubLaws  BY DEF Laws
<1>1. \A j \in Offsets : b[j] \in Byte  BY DEF Block
<1>2. \A j \in Offsets : Sub(b[j]) \in Byte /\ InvSub(Sub(b[j])) = b[j]  BY <1>0, <1>1 DEF SubLaws
<1>3. SubAll(b) \in Block  BY <1>2 DEF SubAll, Block
<1>4. b = [j \in Offsets |-> b[j]]  BY DEF Block
<1>5. InvSubAll(SubAll(b)) = [j \in Offsets |-> InvSub(Sub(b[j]))]  BY DEF InvSubAll, SubAll
<1>6. QED  BY <1>2, <1>3, <1>4, <1>5

LEMMA ShiftReturns ==
  ASSUME NEW b \in Block
  PROVE  ShiftRows(b) \in Block /\ InvShiftRows(ShiftRows(b)) = b
<1>1. \A j \in Offsets : b[j] \in Byte  BY DEF Block
<1>2. ShiftRows(b) \in Block
  <2>1. ASSUME NEW j \in Offsets  PROVE ShiftRows(b)[j] \in Byte
    <3>1. \/ j = 0 \/ j = 1 \/ j = 2 \/ j = 3 \/ j = 4 \/ j = 5 \/ j = 6 \/ j = 7
          \/ j = 8 \/ j = 9 \/ j = 10 \/ j = 11 \/ j = 12 \/ j = 13 \/ j = 14 \/ j = 15
      BY DEF Offsets
    <3>2. QED  BY <1>1, <3>1 DEF ShiftRows, Offsets
  <2>2. ShiftRows(b) = [j \in Offsets |-> ShiftRows(b)[j]]  BY DEF ShiftRows
  <2>3. QED  BY <2>1, <2>2 DEF Block
<1>3. ASSUME NEW j \in Offsets  PROVE InvShiftRows(ShiftRows(b))[j] = b[j]
  <2>1. \/ j = 0 \/ j = 1 \/ j = 2 \/ j = 3 \/ j = 4 \/ j = 5 \/ j = 6 \/ j = 7
        \/ j = 8 \/ j = 9 \/ j = 10 \/ j = 11 \/ j = 12 \/ j = 13 \/ j = 14 \/ j = 15
    BY DEF Offsets
  <2>2. QED  BY <2>1 DEF ShiftRows, InvShiftRows, Offsets
<1>4. InvShiftRows(ShiftRows(b)) = [j \in Offsets |-> InvShiftRows(ShiftRows(b))[j]]
  BY DEF InvShiftRows
<1>5. b = [j \in Offsets |-> b[j]]  BY DEF Block
<1>6. [j \in Offsets |-> InvShiftRows(ShiftRows(b))[j]] = [j \in Offsets |-> b[j]]  BY <1>3
<1>7. QED  BY <1>2, <1>4, <1>5, <1>6

\* The place of a byte: its column and its row.
LEMMA Places ==
  ASSUME NEW j \in Offsets
  PROVE  j \div 4 \in 0..3 /\ j % 4 \in 0..3 /\ 4 * (j \div 4) + (j % 4) = j
BY DEF Offsets

LEMMA PlaceOf ==
  ASSUME NEW k \in 0..3, NEW j \in 0..3
  PROVE  4 * k + j \in Offsets /\ (4 * k + j) \div 4 = k /\ (4 * k + j) % 4 = j
BY DEF Offsets

LEMMA MixReturns ==
  ASSUME Laws, NEW b \in Block
  PROVE  MixColumns(b) \in Block /\ InvMixColumns(MixColumns(b)) = b
<1>1. ASSUME NEW k \in 0..3  PROVE ColumnOf(b, k) \in Word
  <2>1. \A j \in 0..3 : b[4 * k + j] \in Byte  BY PlaceOf DEF Block
  <2>2. QED  BY <2>1 DEF ColumnOf, Word
<1>2. ASSUME NEW k \in 0..3  PROVE MixCols(ColumnOf(b, k)) \in Word
  BY <1>1, MixColsInWord
<1>3. MixColumns(b) \in Block
  <2>1. ASSUME NEW j \in Offsets  PROVE MixCols(ColumnOf(b, j \div 4))[j % 4] \in Byte
    BY <1>2, Places DEF Word
  <2>2. QED  BY <2>1 DEF MixColumns, Block
<1>4. ASSUME NEW k \in 0..3  PROVE ColumnOf(MixColumns(b), k) = MixCols(ColumnOf(b, k))
  <2>1. ASSUME NEW j \in 0..3  PROVE MixColumns(b)[4 * k + j] = MixCols(ColumnOf(b, k))[j]
    BY PlaceOf DEF MixColumns
  <2>2. MixCols(ColumnOf(b, k)) = [j \in 0..3 |-> MixCols(ColumnOf(b, k))[j]]  BY <1>2 DEF Word
  <2>3. QED  BY <2>1, <2>2 DEF ColumnOf
<1>5. ASSUME NEW k \in 0..3, NEW j \in 0..3
      PROVE  InvMixCols(MixCols(ColumnOf(b, k)))[j] = ColumnOf(b, k)[j]
  <2>1. j = 0 \/ j = 1 \/ j = 2 \/ j = 3  OBVIOUS
  <2>2. QED  BY <1>1, <2>1, ColumnReturns
<1>6. ASSUME NEW j \in Offsets  PROVE InvMixColumns(MixColumns(b))[j] = b[j]
  <2>1. InvMixColumns(MixColumns(b))[j] = InvMixCols(ColumnOf(MixColumns(b), j \div 4))[j % 4]
    BY DEF InvMixColumns
  <2>2. j \div 4 \in 0..3 /\ j % 4 \in 0..3  BY Places
  <2>3. InvMixCols(ColumnOf(MixColumns(b), j \div 4))[j % 4] = ColumnOf(b, j \div 4)[j % 4]
    BY <1>4, <1>5, <2>2
  <2>4. ColumnOf(b, j \div 4)[j % 4] = b[4 * (j \div 4) + (j % 4)]  BY <2>2 DEF ColumnOf
  <2>5. QED  BY <2>1, <2>3, <2>4, Places
<1>7. InvMixColumns(MixColumns(b)) = [j \in Offsets |-> InvMixColumns(MixColumns(b))[j]]
  BY DEF InvMixColumns
<1>8. b = [j \in Offsets |-> b[j]]  BY DEF Block
<1>9. [j \in Offsets |-> InvMixColumns(MixColumns(b))[j]] = [j \in Offsets |-> b[j]]  BY <1>6
<1>10. QED  BY <1>3, <1>7, <1>8, <1>9

LEMMA Rounds ==
  ASSUME key \in Keys
  PROVE  /\ LastRound \in Nat /\ LastRound >= 1
         /\ \A r \in 0..LastRound : key.exp[r] \in Block
BY KeysAssumption DEF LastRound

\* Adding a block of the key twice gives back the first block.
LEMMA XorKeyTwice ==
  ASSUME Laws, NEW b \in Block, NEW w \in Block
  PROVE  XorKey(b, w) \in Block /\ XorKey(XorKey(b, w), w) = b
<1>0. SumLaws /\ Associates(Byte)  BY DEF Laws
<1>1. ASSUME NEW j \in Offsets
      PROVE  Add(b[j], w[j]) \in Byte /\ Add(Add(b[j], w[j]), w[j]) = b[j]
  <2>1. b[j] \in Byte /\ w[j] \in Byte  BY DEF Block
  <2>2. Add(b[j], w[j]) \in Byte  BY <1>0, <2>1, AddInByte
  <2>3. Add(Add(b[j], w[j]), w[j]) = Add(b[j], Add(w[j], w[j]))  BY <1>0, <2>1, AddAssoc
  <2>4. Add(w[j], w[j]) = 0 /\ Add(b[j], 0) = b[j]  BY <1>0, <2>1 DEF SumLaws
  <2>5. QED  BY <2>2, <2>3, <2>4
<1>2. XorKey(b, w) \in Block  BY <1>1 DEF XorKey, Block
<1>3. XorKey(XorKey(b, w), w) = [j \in Offsets |-> Add(Add(b[j], w[j]), w[j])]  BY DEF XorKey
<1>4. b = [j \in Offsets |-> b[j]]  BY DEF Block
<1>5. QED  BY <1>1, <1>2, <1>3, <1>4

LEMMA KeyReturns ==
  ASSUME Laws, key \in Keys, NEW b \in Block, NEW r \in 0..LastRound
  PROVE  AddKey(b, r) \in Block /\ AddKey(AddKey(b, r), r) = b
BY Rounds, XorKeyTwice DEF AddKey

-----------------------------------------------------------------------------
(* The inductive invariant: the trail of the rounds that are done follows    *)
(* the round keys, and the block stands, at each step of the decryption,     *)
(* where the encryption had it at the opposite step.                         *)

\* The block of round r before the round key is added.
Before(r) == IF r < LastRound THEN MixColumns(ShiftRows(SubAll(trail[r - 1])))
             ELSE ShiftRows(SubAll(trail[r - 1]))

Done(r) == step \notin EncSteps \/ r < i

History ==
  /\ Done(0) => trail[0] = AddKey(input, 0)
  /\ \A r \in 1..LastRound : Done(r) => trail[r] = AddKey(Before(r), r)

AtEncryption ==
  /\ step = "addFirst" => i = 0 /\ c = input
  /\ step = "sub" => i >= 1 /\ c = trail[i - 1]
  /\ step = "shift" => i >= 1 /\ c = SubAll(trail[i - 1])
  /\ step = "mix" => i >= 1 /\ i < LastRound /\ c = ShiftRows(SubAll(trail[i - 1]))
  /\ step = "add" => i >= 1 /\ c = Before(i)

AtDecryption ==
  /\ step = "encrypted" => i = LastRound /\ c = trail[LastRound]
  /\ step = "invShift" => i < LastRound /\ c = ShiftRows(SubAll(trail[i]))
  /\ step = "invSub" => i < LastRound /\ c = SubAll(trail[i])
  /\ step = "invAdd" => i < LastRound /\ c = trail[i]
  /\ step = "invMix" => i >= 1 /\ i < LastRound /\ c = MixColumns(ShiftRows(SubAll(trail[i - 1])))
  /\ step = "decrypted" => c = input

BlockInv == TypeOK /\ History /\ AtEncryption /\ AtDecryption

-----------------------------------------------------------------------------
\* What holds of a block of the trail on its way through a round.
LEMMA RoundInBlock ==
  ASSUME Laws, NEW b \in Block
  PROVE  /\ SubAll(b) \in Block
         /\ ShiftRows(SubAll(b)) \in Block
         /\ MixColumns(ShiftRows(SubAll(b))) \in Block
<1>1. SubAll(b) \in Block  BY SubReturns
<1>2. ShiftRows(SubAll(b)) \in Block  BY <1>1, ShiftReturns
<1>3. QED  BY <1>1, <1>2, MixReturns

LEMMA BeforeInBlock ==
  ASSUME Laws, TypeOK, NEW r \in 1..LastRound
  PROVE  Before(r) \in Block
<1>1. LastRound \in Nat  BY Rounds DEF TypeOK
<1>2. r - 1 \in 0..LastRound  BY <1>1
<1>3. trail[r - 1] \in Block  BY <1>2 DEF TypeOK
<1>4. QED  BY <1>3, RoundInBlock DEF Before

\* What holds of the key is not changed by a step that leaves it alone.
LEMMA SameKey ==
  ASSUME key' = key
  PROVE  LastRound' = LastRound /\ \A b, r : AddKey(b, r)' = AddKey(b, r)
BY DEF LastRound, AddKey, XorKey

LEMMA SameTrail ==
  ASSUME key' = key, trail' = trail
  PROVE  \A r : Before(r)' = Before(r)
BY DEF Before, LastRound

LEMMA BlockInvAtStart ==
  ASSUME Init
  PROVE  BlockInv
<1>1. key \in Keys  BY DEF Init
<1>2. LastRound \in Nat /\ LastRound >= 1  BY <1>1, Rounds
<1>3. TypeOK  BY <1>2, InputsAssumption DEF Init, TypeOK, Steps, EncSteps
<1>4. History  BY <1>2 DEF Init, History, Done, EncSteps
<1>5. AtEncryption  BY DEF Init, AtEncryption
<1>6. AtDecryption  BY DEF Init, AtDecryption
<1>7. QED  BY <1>3, <1>4, <1>5, <1>6 DEF BlockInv

LEMMA AddFirstKeeps ==
  ASSUME Laws, BlockInv, AddFirst
  PROVE  BlockInv'
<1>1. TypeOK /\ LastRound \in Nat /\ LastRound >= 1  BY Rounds DEF BlockInv, TypeOK
<1>2. key' = key /\ LastRound' = LastRound  BY SameKey DEF AddFirst
<1>3. c = input /\ c \in Block  BY <1>1 DEF BlockInv, AtEncryption, AddFirst, TypeOK
<1>4. AddKey(c, 0) \in Block  BY <1>1, <1>3, KeyReturns DEF TypeOK
<1>5. TypeOK'  BY <1>1, <1>2, <1>4 DEF AddFirst, Become, TypeOK, Steps, EncSteps
<1>6. trail'[0] = c' /\ c' = AddKey(input, 0) /\ i' = 1 /\ step' = "sub" /\ input' = input
  BY <1>1, <1>3 DEF AddFirst, Become, TypeOK
<1>7. History'
  <2>1. \A r \in 1..LastRound : ~ Done(r)'  BY <1>6 DEF Done, EncSteps
  <2>2. QED  BY <1>2, <1>6, <2>1 DEF History, AddKey, XorKey
<1>8. AtEncryption'  BY <1>6 DEF AtEncryption
<1>9. AtDecryption'  BY <1>6 DEF AtDecryption
<1>10. QED  BY <1>5, <1>7, <1>8, <1>9 DEF BlockInv

\* A step that leaves the trail alone and ends no round keeps the history.
LEMMA HistoryStays ==
  ASSUME History, key' = key, input' = input, trail' = trail, \A r \in Nat : Done(r)' => Done(r),
         LastRound \in Nat
  PROVE  History'
<1>1. LastRound' = LastRound  BY SameKey
<1>2. Done(0)' => trail'[0] = AddKey(input, 0)'  BY DEF History, AddKey, XorKey
<1>3. ASSUME NEW r \in 1..LastRound, Done(r)'  PROVE trail'[r] = AddKey(Before(r), r)'
  <2>1. trail[r] = AddKey(Before(r), r)  BY <1>3 DEF History
  <2>2. Before(r)' = Before(r)  BY SameTrail
  <2>3. QED  BY <2>1, <2>2 DEF AddKey, XorKey
<1>4. QED  BY <1>1, <1>2, <1>3 DEF History

LEMMA SubBytesKeeps ==
  ASSUME Laws, BlockInv, SubBytes
  PROVE  BlockInv'
<1>1. TypeOK /\ LastRound \in Nat /\ LastRound >= 1  BY Rounds DEF BlockInv, TypeOK
<1>2. key' = key /\ LastRound' = LastRound /\ trail' = trail /\ i' = i /\ input' = input
  BY SameKey DEF SubBytes
<1>3. step = "sub" /\ step' = "shift" /\ c' = SubAll(c) /\ c \in Block
  BY <1>1 DEF SubBytes, Become, TypeOK
<1>4. i >= 1 /\ c = trail[i - 1]  BY <1>3 DEF BlockInv, AtEncryption
<1>5. c' \in Block  BY <1>3, SubReturns
<1>6. TypeOK'  BY <1>1, <1>2, <1>3, <1>5 DEF TypeOK, Steps, EncSteps
<1>7. History'
  <2>1. \A r \in Nat : Done(r)' => Done(r)  BY <1>2, <1>3 DEF Done, EncSteps
  <2>2. QED  BY <1>1, <1>2, <2>1, HistoryStays DEF BlockInv
<1>8. AtEncryption'  BY <1>2, <1>3, <1>4 DEF AtEncryption, SubAll
<1>9. AtDecryption'  BY <1>3 DEF AtDecryption
<1>10. QED  BY <1>6, <1>7, <1>8, <1>9 DEF BlockInv

LEMMA ShiftKeeps ==
  ASSUME Laws, BlockInv, Shift
  PROVE  BlockInv'
<1>1. TypeOK /\ LastRound \in Nat /\ LastRound >= 1  BY Rounds DEF BlockInv, TypeOK
<1>2. key' = key /\ LastRound' = LastRound /\ trail' = trail /\ i' = i /\ input' = input
  BY SameKey DEF Shift
<1>3. step = "shift" /\ c' = ShiftRows(c) /\ c \in Block /\ i \in 0..LastRound
  BY <1>1 DEF Shift, Become, TypeOK
<1>4. i >= 1 /\ c = SubAll(trail[i - 1])  BY <1>3 DEF BlockInv, AtEncryption
<1>5. step' = (IF i < LastRound THEN "mix" ELSE "add")  BY DEF Shift, Become
<1>6. c' \in Block  BY <1>3, ShiftReturns
<1>7. TypeOK'  BY <1>1, <1>2, <1>3, <1>5, <1>6 DEF TypeOK, Steps, EncSteps
<1>8. History'
  <2>1. \A r \in Nat : Done(r)' => Done(r)  BY <1>2, <1>3, <1>5 DEF Done, EncSteps
  <2>2. QED  BY <1>1, <1>2, <2>1, HistoryStays DEF BlockInv
<1>9. c' = ShiftRows(SubAll(trail[i - 1]))  BY <1>3, <1>4
<1>10. ASSUME ~ i < LastRound  PROVE c' = Before(i)
  BY <1>9, <1>10 DEF Before
<1>11. Before(i)' = Before(i)  BY <1>2 DEF Before
<1>12. AtEncryption'
  <2>1. CASE i < LastRound
    <3>1. step' = "mix"  BY <1>5, <2>1
    <3>2. ShiftRows(SubAll(trail[i - 1]))' = ShiftRows(SubAll(trail[i - 1]))  BY <1>2
    <3>3. QED  BY <1>2, <1>4, <1>9, <2>1, <3>1, <3>2 DEF AtEncryption
  <2>2. CASE ~ i < LastRound
    <3>1. step' = "add"  BY <1>5, <2>2
    <3>2. QED  BY <1>2, <1>4, <1>10, <1>11, <2>2, <3>1 DEF AtEncryption
  <2>3. QED  BY <2>1, <2>2
<1>13. AtDecryption'  BY <1>5 DEF AtDecryption
<1>14. QED  BY <1>7, <1>8, <1>12, <1>13 DEF BlockInv

LEMMA MixKeeps ==
  ASSUME Laws, BlockInv, Mix
  PROVE  BlockInv'
<1>1. TypeOK /\ LastRound \in Nat /\ LastRound >= 1  BY Rounds DEF BlockInv, TypeOK
<1>2. key' = key /\ LastRound' = LastRound /\ trail' = trail /\ i' = i /\ input' = input
  BY SameKey DEF Mix
<1>3. step = "mix" /\ step' = "add" /\ c' = MixColumns(c) /\ c \in Block
  BY <1>1 DEF Mix, Become, TypeOK
<1>4. i >= 1 /\ i < LastRound /\ c = ShiftRows(SubAll(trail[i - 1]))
  BY <1>3 DEF BlockInv, AtEncryption
<1>5. c' \in Block  BY <1>3, MixReturns
<1>6. TypeOK'  BY <1>1, <1>2, <1>3, <1>5 DEF TypeOK, Steps, EncSteps
<1>7. History'
  <2>1. \A r \in Nat : Done(r)' => Done(r)  BY <1>2, <1>3 DEF Done, EncSteps
  <2>2. QED  BY <1>1, <1>2, <2>1, HistoryStays DEF BlockInv
<1>8. c' = Before(i)  BY <1>3, <1>4 DEF Before
<1>9. Before(i)' = Before(i)  BY <1>2 DEF Before
<1>10. AtEncryption'  BY <1>2, <1>3, <1>4, <1>8, <1>9 DEF AtEncryption
<1>11. AtDecryption'  BY <1>3 DEF AtDecryption
<1>12. QED  BY <1>6, <1>7, <1>10, <1>11 DEF BlockInv

LEMMA AddRoundKeyKeeps ==
  ASSUME Laws, BlockInv, AddRoundKey
  PROVE  BlockInv'
<1>1. TypeOK /\ LastRound \in Nat /\ LastRound >= 1  BY Rounds DEF BlockInv, TypeOK
<1>2. key' = key /\ LastRound' = LastRound /\ input' = input  BY SameKey DEF AddRoundKey
<1>3. step = "add" /\ c' = AddKey(c, i) /\ c \in Block /\ i \in 0..LastRound
  BY <1>1 DEF AddRoundKey, Become, TypeOK
<1>4. i >= 1 /\ c = Before(i)  BY <1>3 DEF BlockInv, AtEncryption
<1>5. c' \in Block  BY <1>1, <1>3, KeyReturns DEF TypeOK
<1>6. /\ step' = (IF i < LastRound THEN "sub" ELSE "encrypted")
      /\ i' = IF i < LastRound THEN i + 1 ELSE i
  BY DEF AddRoundKey, Become
<1>7. trail' = [trail EXCEPT ![i] = c'] /\ trail \in [0..LastRound -> Block]
  BY <1>1 DEF AddRoundKey, TypeOK
<1>8. trail'[i] = c' /\ \A r \in 0..LastRound : r # i => trail'[r] = trail[r]
  BY <1>3, <1>7
<1>9. TypeOK'
  <2>1. trail' \in [0..LastRound -> Block]  BY <1>5, <1>7
  <2>2. i' \in 0..LastRound  BY <1>1, <1>3, <1>6
  <2>3. step' \in Steps  BY <1>6 DEF Steps, EncSteps, DecSteps
  <2>4. QED  BY <1>1, <1>2, <1>5, <2>1, <2>2, <2>3 DEF TypeOK
<1>10. ASSUME NEW r \in 1..LastRound, r - 1 # i  PROVE Before(r)' = Before(r)
  <2>1. r - 1 \in 0..LastRound  BY <1>1
  <2>2. trail'[r - 1] = trail[r - 1]  BY <1>8, <1>10, <2>1
  <2>3. QED  BY <1>2, <2>2 DEF Before
<1>11. History'
  <2>1. trail'[0] = AddKey(input, 0)'
    <3>1. Done(0)  BY <1>1, <1>3, <1>4 DEF Done
    <3>2. trail'[0] = trail[0]  BY <1>1, <1>4, <1>8
    <3>3. trail[0] = AddKey(input, 0)  BY <3>1 DEF BlockInv, History
    <3>4. QED  BY <1>2, <3>2, <3>3 DEF AddKey, XorKey
  <2>2. ASSUME NEW r \in 1..LastRound, Done(r)'  PROVE trail'[r] = AddKey(Before(r), r)'
    <3>1. r <= i  BY <1>1, <1>3, <1>6, <2>2 DEF Done, EncSteps
    <3>2. Before(r)' = Before(r)  BY <1>3, <1>10, <3>1
    <3>3. CASE r = i
      <4>1. trail'[r] = AddKey(Before(r), r)  BY <1>3, <1>4, <1>8, <3>3
      <4>2. QED  BY <1>2, <3>2, <4>1 DEF AddKey, XorKey
    <3>4. CASE r # i
      <4>1. Done(r)  BY <1>3, <3>1, <3>4 DEF Done
      <4>2. trail[r] = AddKey(Before(r), r)  BY <4>1 DEF BlockInv, History
      <4>3. trail'[r] = trail[r]  BY <1>1, <1>8, <3>4
      <4>4. QED  BY <1>2, <3>2, <4>2, <4>3 DEF AddKey, XorKey
    <3>5. QED  BY <3>3, <3>4
  <2>3. QED  BY <1>2, <2>1, <2>2 DEF History
<1>12. AtEncryption' /\ AtDecryption'
  <2>1. CASE i < LastRound
    <3>1. step' = "sub" /\ i' = i + 1 /\ i' - 1 = i /\ i' >= 1  BY <1>3, <1>6, <2>1
    <3>2. c' = trail'[i' - 1]  BY <1>8, <3>1
    <3>3. QED  BY <3>1, <3>2 DEF AtEncryption, AtDecryption
  <2>2. CASE ~ i < LastRound
    <3>1. step' = "encrypted" /\ i' = i /\ i = LastRound  BY <1>1, <1>3, <1>6, <2>2
    <3>2. QED  BY <1>2, <1>8, <3>1 DEF AtEncryption, AtDecryption
  <2>3. QED  BY <2>1, <2>2
<1>13. QED  BY <1>9, <1>11, <1>12 DEF BlockInv

-----------------------------------------------------------------------------
(* The steps of the decryption leave the key and the trail alone.            *)

LEMMA DecryptionKeepsHistory ==
  ASSUME BlockInv, AddLast \/ InvShift \/ InvSubBytes \/ InvAdd \/ InvMix
  PROVE  /\ key' = key /\ trail' = trail /\ input' = input
         /\ LastRound' = LastRound /\ LastRound \in Nat /\ LastRound >= 1
         /\ History'
         /\ \A r \in 0..LastRound : Done(r)
<1>1. TypeOK /\ LastRound \in Nat /\ LastRound >= 1  BY Rounds DEF BlockInv, TypeOK
<1>2. key' = key /\ trail' = trail /\ input' = input
  BY DEF AddLast, InvShift, InvSubBytes, InvAdd, InvMix
<1>3. LastRound' = LastRound  BY <1>2, SameKey
<1>4. step \notin EncSteps
  BY DEF AddLast, InvShift, InvSubBytes, InvAdd, InvMix, EncSteps
<1>5. \A r : Done(r)  BY <1>4 DEF Done
<1>6. History'  BY <1>1, <1>2, <1>5, HistoryStays DEF BlockInv
<1>7. QED  BY <1>1, <1>2, <1>3, <1>5, <1>6

\* Taking the round key away leads back to before it was added.
LEMMA KeyTakenAway ==
  ASSUME Laws, BlockInv, step \notin EncSteps, NEW r \in 1..LastRound
  PROVE  AddKey(trail[r], r) = Before(r) /\ Before(r) \in Block
<1>1. TypeOK /\ LastRound \in Nat /\ key \in Keys  BY Rounds DEF BlockInv, TypeOK
<1>2. Before(r) \in Block  BY <1>1, BeforeInBlock
<1>3. trail[r] = AddKey(Before(r), r)  BY DEF BlockInv, History, Done
<1>4. r \in 0..LastRound  BY <1>1
<1>5. AddKey(AddKey(Before(r), r), r) = Before(r)  BY <1>1, <1>2, <1>4, KeyReturns
<1>6. QED  BY <1>2, <1>3, <1>5

LEMMA FirstKeyTakenAway ==
  ASSUME Laws, BlockInv, step \notin EncSteps
  PROVE  AddKey(trail[0], 0) = input /\ input \in Block
<1>1. TypeOK /\ LastRound \in Nat /\ key \in Keys  BY Rounds DEF BlockInv, TypeOK
<1>2. input \in Block  BY <1>1, InputsAssumption DEF TypeOK
<1>3. trail[0] = AddKey(input, 0)  BY DEF BlockInv, History, Done
<1>4. 0 \in 0..LastRound  BY <1>1
<1>5. AddKey(AddKey(input, 0), 0) = input  BY <1>1, <1>2, <1>4, KeyReturns
<1>6. QED  BY <1>2, <1>3, <1>5

LEMMA AddLastKeeps ==
  ASSUME Laws, BlockInv, AddLast
  PROVE  BlockInv'
<1>1. TypeOK  BY DEF BlockInv
<1>2. /\ key' = key /\ trail' = trail /\ input' = input /\ LastRound' = LastRound
      /\ LastRound \in Nat /\ LastRound >= 1 /\ History'
  BY DecryptionKeepsHistory
<1>3. step = "encrypted" /\ step' = "invShift" /\ c' = AddKey(c, LastRound) /\ i' = LastRound - 1
  BY DEF AddLast, Become
<1>4. c = trail[LastRound]  BY <1>3 DEF BlockInv, AtDecryption
<1>5. c' = Before(LastRound) /\ c' \in Block
  <2>1. step \notin EncSteps  BY <1>3 DEF EncSteps
  <2>2. LastRound \in 1..LastRound  BY <1>2
  <2>3. QED  BY <1>3, <1>4, <2>1, <2>2, KeyTakenAway
<1>6. c' = ShiftRows(SubAll(trail[LastRound - 1]))  BY <1>2, <1>5 DEF Before
<1>7. i' \in 0..LastRound /\ i' < LastRound  BY <1>2, <1>3
<1>8. TypeOK'  BY <1>1, <1>2, <1>3, <1>5, <1>7 DEF TypeOK, Steps, DecSteps
<1>9. AtEncryption'  BY <1>3 DEF AtEncryption
<1>10. c' = ShiftRows(SubAll(trail[i]))'  BY <1>2, <1>3, <1>6
<1>11. AtDecryption'  BY <1>2, <1>3, <1>7, <1>10 DEF AtDecryption
<1>12. QED  BY <1>2, <1>8, <1>9, <1>11 DEF BlockInv

LEMMA InvShiftKeeps ==
  ASSUME Laws, BlockInv, InvShift
  PROVE  BlockInv'
<1>1. TypeOK  BY DEF BlockInv
<1>2. /\ key' = key /\ trail' = trail /\ input' = input /\ LastRound' = LastRound
      /\ LastRound \in Nat /\ LastRound >= 1 /\ History'
  BY DecryptionKeepsHistory
<1>3. step = "invShift" /\ step' = "invSub" /\ c' = InvShiftRows(c) /\ i' = i /\ i \in 0..LastRound
  BY <1>1 DEF InvShift, Become, TypeOK
<1>4. i < LastRound /\ c = ShiftRows(SubAll(trail[i]))  BY <1>3 DEF BlockInv, AtDecryption
<1>5. trail[i] \in Block  BY <1>1, <1>3 DEF TypeOK
<1>6. c' = SubAll(trail[i]) /\ c' \in Block  BY <1>3, <1>4, <1>5, SubReturns, ShiftReturns
<1>7. TypeOK'  BY <1>1, <1>2, <1>3, <1>6 DEF TypeOK, Steps, DecSteps
<1>8. AtEncryption'  BY <1>3 DEF AtEncryption
<1>9. c' = SubAll(trail[i])'  BY <1>2, <1>3, <1>6
<1>10. AtDecryption'  BY <1>2, <1>3, <1>4, <1>9 DEF AtDecryption
<1>11. QED  BY <1>2, <1>7, <1>8, <1>10 DEF BlockInv

LEMMA InvSubBytesKeeps ==
  ASSUME Laws, BlockInv, InvSubBytes
  PROVE  BlockInv'
<1>1. TypeOK  BY DEF BlockInv
<1>2. /\ key' = key /\ trail' = trail /\ input' = input /\ LastRound' = LastRound
      /\ LastRound \in Nat /\ LastRound >= 1 /\ History'
  BY DecryptionKeepsHistory
<1>3. step = "invSub" /\ step' = "invAdd" /\ c' = InvSubAll(c) /\ i' = i /\ i \in 0..LastRound
  BY <1>1 DEF InvSubBytes, Become, TypeOK
<1>4. i < LastRound /\ c = SubAll(trail[i])  BY <1>3 DEF BlockInv, AtDecryption
<1>5. trail[i] \in Block  BY <1>1, <1>3 DEF TypeOK
<1>6. c' = trail[i] /\ c' \in Block  BY <1>3, <1>4, <1>5, SubReturns
<1>7. TypeOK'  BY <1>1, <1>2, <1>3, <1>6 DEF TypeOK, Steps, DecSteps
<1>8. AtEncryption'  BY <1>3 DEF AtEncryption
<1>9. AtDecryption'  BY <1>2, <1>3, <1>4, <1>6 DEF AtDecryption
<1>10. QED  BY <1>2, <1>7, <1>8, <1>9 DEF BlockInv

LEMMA InvAddKeeps ==
  ASSUME Laws, BlockInv, InvAdd
  PROVE  BlockInv'
<1>1. TypeOK  BY DEF BlockInv
<1>2. /\ key' = key /\ trail' = trail /\ input' = input /\ LastRound' = LastRound
      /\ LastRound \in Nat /\ LastRound >= 1 /\ History'
  BY DecryptionKeepsHistory
<1>3. /\ step = "invAdd" /\ step' = (IF i > 0 THEN "invMix" ELSE "decrypted")
      /\ c' = AddKey(c, i) /\ i' = i /\ i \in 0..LastRound
  BY <1>1 DEF InvAdd, Become, TypeOK
<1>4. i < LastRound /\ c = trail[i]  BY <1>3 DEF BlockInv, AtDecryption
<1>5. step \notin EncSteps  BY <1>3 DEF EncSteps
<1>6. AtEncryption'  BY <1>3 DEF AtEncryption
<1>7. CASE i > 0
  <2>1. i \in 1..LastRound  BY <1>2, <1>3, <1>7
  <2>2. c' = Before(i) /\ c' \in Block  BY <1>3, <1>4, <1>5, <2>1, KeyTakenAway
  <2>3. c' = MixColumns(ShiftRows(SubAll(trail[i - 1])))  BY <1>4, <2>2 DEF Before
  <2>4. step' = "invMix"  BY <1>3, <1>7
  <2>5. TypeOK'  BY <1>1, <1>2, <1>3, <2>2, <2>4 DEF TypeOK, Steps, DecSteps
  <2>6. c' = MixColumns(ShiftRows(SubAll(trail[i - 1])))'  BY <1>2, <1>3, <2>3
  <2>7. i' >= 1 /\ i' < LastRound'  BY <1>2, <1>3, <1>4, <1>7
  <2>8. AtDecryption'  BY <2>4, <2>6, <2>7 DEF AtDecryption
  <2>9. QED  BY <1>2, <1>6, <2>5, <2>8 DEF BlockInv
<1>8. CASE ~ i > 0
  <2>1. i = 0 /\ step' = "decrypted"  BY <1>2, <1>3, <1>8
  <2>2. c' = input /\ c' \in Block  BY <1>3, <1>4, <1>5, <2>1, FirstKeyTakenAway
  <2>3. TypeOK'  BY <1>1, <1>2, <1>3, <2>1, <2>2 DEF TypeOK, Steps
  <2>4. AtDecryption'  BY <1>2, <2>1, <2>2 DEF AtDecryption
  <2>5. QED  BY <1>2, <1>6, <2>3, <2>4 DEF BlockInv
<1>9. QED  BY <1>7, <1>8

LEMMA InvMixKeeps ==
  ASSUME Laws, BlockInv, InvMix
  PROVE  BlockInv'
<1>1. TypeOK  BY DEF BlockInv
<1>2. /\ key' = key /\ trail' = trail /\ input' = input /\ LastRound' = LastRound
      /\ LastRound \in Nat /\ LastRound >= 1 /\ History'
  BY DecryptionKeepsHistory
<1>3. step = "invMix" /\ step' = "invShift" /\ c' = InvMixColumns(c) /\ i' = i - 1 /\ i \in 0..LastRound
  BY <1>1 DEF InvMix, Become, TypeOK
<1>4. i >= 1 /\ i < LastRound /\ c = MixColumns(ShiftRows(SubAll(trail[i - 1])))
  BY <1>3 DEF BlockInv, AtDecryption
<1>5. i - 1 \in 0..LastRound /\ i - 1 < LastRound  BY <1>2, <1>3, <1>4
<1>6. trail[i - 1] \in Block  BY <1>1, <1>5 DEF TypeOK
<1>7. ShiftRows(SubAll(trail[i - 1])) \in Block  BY <1>6, RoundInBlock
<1>8. c' = ShiftRows(SubAll(trail[i - 1])) /\ c' \in Block  BY <1>3, <1>4, <1>7, MixReturns
<1>9. TypeOK'  BY <1>1, <1>2, <1>3, <1>5, <1>8 DEF TypeOK, Steps, DecSteps
<1>10. AtEncryption'  BY <1>3 DEF AtEncryption
<1>11. c' = ShiftRows(SubAll(trail[i]))'  BY <1>2, <1>3, <1>8
<1>12. AtDecryption'  BY <1>2, <1>3, <1>5, <1>11 DEF AtDecryption
<1>13. QED  BY <1>2, <1>9, <1>10, <1>12 DEF BlockInv

-----------------------------------------------------------------------------
LEMMA BlockInvStutters ==
  ASSUME BlockInv, UNCHANGED vars
  PROVE  BlockInv'
<1>1. key' = key /\ c' = c /\ i' = i /\ step' = step /\ input' = input /\ trail' = trail  BY DEF vars
<1>2. LastRound' = LastRound /\ TypeOK /\ LastRound \in Nat  BY <1>1, SameKey, Rounds DEF BlockInv, TypeOK
<1>3. TypeOK'  BY <1>1, <1>2 DEF TypeOK
<1>4. History'
  <2>1. \A r \in Nat : Done(r)' => Done(r)  BY <1>1 DEF Done
  <2>2. QED  BY <1>1, <1>2, <2>1, HistoryStays DEF BlockInv
<1>5. Before(i)' = Before(i)  BY <1>1, <1>2 DEF Before
<1>6. AtEncryption'  BY <1>1, <1>2, <1>5 DEF BlockInv, AtEncryption
<1>7. AtDecryption'  BY <1>1, <1>2 DEF BlockInv, AtDecryption
<1>8. QED  BY <1>3, <1>4, <1>6, <1>7 DEF BlockInv

LEMMA BlockInvIsInvariant ==
  ASSUME Laws
  PROVE  Spec => []BlockInv
<1>1. Init => BlockInv  BY BlockInvAtStart
<1>2. BlockInv /\ [Next]_vars => BlockInv'
  <2> SUFFICES ASSUME BlockInv, [Next]_vars  PROVE BlockInv'
    OBVIOUS
  <2>1. CASE AddFirst     BY <2>1, AddFirstKeeps
  <2>2. CASE SubBytes     BY <2>2, SubBytesKeeps
  <2>3. CASE Shift        BY <2>3, ShiftKeeps
  <2>4. CASE Mix          BY <2>4, MixKeeps
  <2>5. CASE AddRoundKey  BY <2>5, AddRoundKeyKeeps
  <2>6. CASE AddLast      BY <2>6, AddLastKeeps
  <2>7. CASE InvShift     BY <2>7, InvShiftKeeps
  <2>8. CASE InvSubBytes  BY <2>8, InvSubBytesKeeps
  <2>9. CASE InvAdd       BY <2>9, InvAddKeeps
  <2>10. CASE InvMix      BY <2>10, InvMixKeeps
  <2>11. CASE UNCHANGED vars  BY <2>11, BlockInvStutters
  <2>12. QED  BY <2>1, <2>2, <2>3, <2>4, <2>5, <2>6, <2>7, <2>8, <2>9, <2>10, <2>11 DEF Next
<1>3. QED  BY <1>1, <1>2, PTL DEF Spec

\* Block, round and position keep their types: in particular the rounds never
\* leave the round keys, on the way in or on the way out.
THEOREM TypeCorrect ==
  ASSUME Laws
  PROVE  Spec => []TypeOK
<1>1. BlockInv => TypeOK  BY DEF BlockInv
<1>2. QED  BY <1>1, BlockInvIsInvariant, PTL

\* oaes_decrypt_block gives back the block that oaes_encrypt_block encrypted,
\* for every expanded key, every number of rounds and every block, over all
\* bytes and tables that satisfy the laws.
THEOREM DecryptionInverts ==
  ASSUME Laws
  PROVE  Spec => []DecryptsToInput
<1>1. BlockInv => DecryptsToInput  BY DEF BlockInv, AtDecryption, DecryptsToInput
<1>2. QED  BY <1>1, BlockInvIsInvariant, PTL

-----------------------------------------------------------------------------
(* The rounds against the standard.                                          *)

\* oaes_shift_rows takes every byte from where the standard takes it.
LEMMA ShiftedBytes ==
  ASSUME NEW b \in Block, NEW n \in 0..3, NEW k \in 0..3
  PROVE  /\ ShiftedFrom(k, n) \in Offsets
         /\ ShiftRows(SubAll(b))[4 * n + k] = Sub(b[ShiftedFrom(k, n)])
<1> DEFINE from == <<0, 5, 10, 15, 4, 9, 14, 3, 8, 13, 2, 7, 12, 1, 6, 11>>
<1>1. ShiftedFrom(k, n) \in Offsets /\ from[4 * n + k + 1] = ShiftedFrom(k, n)
  <2>1. k = 0 \/ k = 1 \/ k = 2 \/ k = 3  OBVIOUS
  <2>2. CASE n = 0  BY <2>1, <2>2 DEF ShiftedFrom, Offsets
  <2>3. CASE n = 1  BY <2>1, <2>3 DEF ShiftedFrom, Offsets
  <2>4. CASE n = 2  BY <2>1, <2>4 DEF ShiftedFrom, Offsets
  <2>5. CASE n = 3  BY <2>1, <2>5 DEF ShiftedFrom, Offsets
  <2>6. QED  BY <2>2, <2>3, <2>4, <2>5
<1>2. 4 * n + k \in Offsets  BY PlaceOf
<1> HIDE DEF from
<1>3. ShiftRows(SubAll(b))[4 * n + k] = SubAll(b)[from[4 * n + k + 1]]  BY <1>2 DEF ShiftRows, from
<1>4. QED  BY <1>1, <1>3 DEF SubAll

\* A row of oaes_mix_cols is a row of the matrix of the standard.
LEMMA StandardRow ==
  ASSUME Laws, StandardLaws, NEW w \in Word, NEW r \in 0..3
  PROVE  SumOf4(LAMBDA k : Product(MixRow[((4 + k - r) % 4) + 1], w[k])) = MixCols(w)[r]
<1> DEFINE T(k) == Product(MixRow[((4 + k - r) % 4) + 1], w[k])
           S == Plus(Plus(T(0), T(1)), Plus(T(2), T(3)))
<1>0. SumLaws /\ MulLaws /\ 2 \in Factors /\ 3 \in Factors  BY DEF Laws, Factors
<1>1. w[0] \in Byte /\ w[1] \in Byte /\ w[2] \in Byte /\ w[3] \in Byte  BY WordBytes
<1>2. \A a \in Byte : /\ Product(1, a) = a /\ Product(2, a) = Mul(a, 2) /\ Product(3, a) = Mul(a, 3)
                      /\ Mul(a, 2) \in Byte /\ Mul(a, 3) \in Byte
  BY <1>0, MulInByte DEF StandardLaws
<1>3. MixRow[1] = 2 /\ MixRow[2] = 3 /\ MixRow[3] = 1 /\ MixRow[4] = 1  BY DEF MixRow
<1>4. ASSUME NEW v \in Word, v[0] = T(0), v[1] = T(1), v[2] = T(2), v[3] = T(3)
      PROVE  S = SumOf(v)
  <2>1. v[0] \in Byte /\ v[1] \in Byte /\ v[2] \in Byte /\ v[3] \in Byte  BY WordBytes
  <2>2. Add(v[0], v[1]) \in Byte /\ Add(v[2], v[3]) \in Byte  BY <1>0, <2>1, AddInByte
  <2>3. \A a, b \in Byte : Plus(a, b) = Add(a, b)  BY DEF StandardLaws
  <2>4. SumOf(v) = Plus(Plus(v[0], v[1]), Plus(v[2], v[3]))  BY <2>1, <2>2, <2>3, SumInPairs
  <2> HIDE DEF T
  <2>5. QED  BY <1>4, <2>4
<1>5. ASSUME r = 0  PROVE S = MixCols(w)[r]
  <2>1. T(0) = Mul(w[0], 2) /\ T(1) = Mul(w[1], 3) /\ T(2) = w[2] /\ T(3) = w[3]
    <3>1. (4 + 0 - r) % 4 = 0 /\ (4 + 1 - r) % 4 = 1 /\ (4 + 2 - r) % 4 = 2 /\ (4 + 3 - r) % 4 = 3
      BY <1>5
    <3>2. QED  BY <1>1, <1>2, <1>3, <3>1
  <2> HIDE DEF T, S
  <2>2. S = SumOf(MixedRow0(w))  BY <1>4, <2>1, MixedRowsInWord, ColumnAt DEF MixedRow0
  <2>3. QED  BY <1>5, <2>2, MixColsRows
<1>6. ASSUME r = 1  PROVE S = MixCols(w)[r]
  <2>1. T(0) = w[0] /\ T(1) = Mul(w[1], 2) /\ T(2) = Mul(w[2], 3) /\ T(3) = w[3]
    <3>1. (4 + 0 - r) % 4 = 3 /\ (4 + 1 - r) % 4 = 0 /\ (4 + 2 - r) % 4 = 1 /\ (4 + 3 - r) % 4 = 2
      BY <1>6
    <3>2. QED  BY <1>1, <1>2, <1>3, <3>1
  <2> HIDE DEF T, S
  <2>2. S = SumOf(MixedRow1(w))  BY <1>4, <2>1, MixedRowsInWord, ColumnAt DEF MixedRow1
  <2>3. QED  BY <1>6, <2>2, MixColsRows
<1>7. ASSUME r = 2  PROVE S = MixCols(w)[r]
  <2>1. T(0) = w[0] /\ T(1) = w[1] /\ T(2) = Mul(w[2], 2) /\ T(3) = Mul(w[3], 3)
    <3>1. (4 + 0 - r) % 4 = 2 /\ (4 + 1 - r) % 4 = 3 /\ (4 + 2 - r) % 4 = 0 /\ (4 + 3 - r) % 4 = 1
      BY <1>7
    <3>2. QED  BY <1>1, <1>2, <1>3, <3>1
  <2> HIDE DEF T, S
  <2>2. S = SumOf(MixedRow2(w))  BY <1>4, <2>1, MixedRowsInWord, ColumnAt DEF MixedRow2
  <2>3. QED  BY <1>7, <2>2, MixColsRows
<1>8. ASSUME r = 3  PROVE S = MixCols(w)[r]
  <2>1. T(0) = Mul(w[0], 3) /\ T(1) = w[1] /\ T(2) = w[2] /\ T(3) = Mul(w[3], 2)
    <3>1. (4 + 0 - r) % 4 = 1 /\ (4 + 1 - r) % 4 = 2 /\ (4 + 2 - r) % 4 = 3 /\ (4 + 3 - r) % 4 = 0
      BY <1>8
    <3>2. QED  BY <1>1, <1>2, <1>3, <3>1
  <2> HIDE DEF T, S
  <2>2. S = SumOf(MixedRow3(w))  BY <1>4, <2>1, MixedRowsInWord, ColumnAt DEF MixedRow3
  <2>3. QED  BY <1>8, <2>2, MixColsRows
<1>9. r = 0 \/ r = 1 \/ r = 2 \/ r = 3  OBVIOUS
<1>10. S = MixCols(w)[r]  BY <1>5, <1>6, <1>7, <1>8, <1>9
<1>11. SumOf4(LAMBDA k : Product(MixRow[((4 + k - r) % 4) + 1], w[k])) = S  BY DEF SumOf4
<1>12. QED  BY <1>10, <1>11

\* A round without its key.
LEMMA StandardMix ==
  ASSUME Laws, StandardLaws, NEW b \in Block, NEW n \in Offsets
  PROVE  /\ SumOf4(LAMBDA k : Product(MixRow[((4 + k - (n % 4)) % 4) + 1], SBox(b[ShiftedFrom(k, n \div 4)])))
              = MixColumns(ShiftRows(SubAll(b)))[n]
         /\ SBox(b[ShiftedFrom(n % 4, n \div 4)]) = ShiftRows(SubAll(b))[n]
<1> DEFINE m == n \div 4
           r == n % 4
           w == ColumnOf(ShiftRows(SubAll(b)), m)
<1>1. m \in 0..3 /\ r \in 0..3 /\ 4 * m + r = n  BY Places
<1>2. ASSUME NEW k \in 0..3  PROVE SBox(b[ShiftedFrom(k, m)]) = w[k]
  <2>1. ShiftedFrom(k, m) \in Offsets  BY <1>1, ShiftedBytes
  <2>2. b[ShiftedFrom(k, m)] \in Byte  BY <2>1 DEF Block
  <2>3. SBox(b[ShiftedFrom(k, m)]) = Sub(b[ShiftedFrom(k, m)])  BY <2>2 DEF StandardLaws
  <2>4. w[k] = ShiftRows(SubAll(b))[4 * m + k]  BY DEF ColumnOf
  <2>5. QED  BY <1>1, <2>3, <2>4, ShiftedBytes
<1>3. w \in Word
  <2>1. ShiftRows(SubAll(b)) \in Block  BY SubReturns, ShiftReturns
  <2>2. \A j \in 0..3 : ShiftRows(SubAll(b))[4 * m + j] \in Byte  BY <1>1, <2>1, PlaceOf DEF Block
  <2>3. QED  BY <2>2 DEF ColumnOf, Word
<1>4. SBox(b[ShiftedFrom(r, m)]) = ShiftRows(SubAll(b))[n]
  <2>1. w[r] = ShiftRows(SubAll(b))[4 * m + r]  BY <1>1 DEF ColumnOf
  <2>2. SBox(b[ShiftedFrom(r, m)]) = w[r]  BY <1>1, <1>2
  <2>3. QED  BY <1>1, <2>1, <2>2
<1>5. MixColumns(ShiftRows(SubAll(b)))[n] = MixCols(w)[r]  BY DEF MixColumns
<1> HIDE DEF m, r, w
<1>6. SumOf4(LAMBDA k : Product(MixRow[((4 + k - r) % 4) + 1], SBox(b[ShiftedFrom(k, m)]))) = MixCols(w)[r]
  <2>1. SumOf4(LAMBDA k : Product(MixRow[((4 + k - r) % 4) + 1], w[k])) = MixCols(w)[r]
    BY <1>1, <1>3, StandardRow
  <2>2. /\ SBox(b[ShiftedFrom(0, m)]) = w[0] /\ SBox(b[ShiftedFrom(1, m)]) = w[1]
        /\ SBox(b[ShiftedFrom(2, m)]) = w[2] /\ SBox(b[ShiftedFrom(3, m)]) = w[3]
    BY <1>2
  <2>3. QED  BY <2>1, <2>2 DEF SumOf4
<1>7. QED  BY <1>4, <1>5, <1>6 DEF m, r

\* A round of the code is a round of the standard.
LEMMA StandardRound ==
  ASSUME Laws, StandardLaws, NEW b \in Block, NEW w \in Block
  PROVE  /\ FipsRound(b, w) = [j \in Offsets |-> Add(MixColumns(ShiftRows(SubAll(b)))[j], w[j])]
         /\ FipsLastRound(b, w) = [j \in Offsets |-> Add(ShiftRows(SubAll(b))[j], w[j])]
<1>1. ShiftRows(SubAll(b)) \in Block /\ MixColumns(ShiftRows(SubAll(b))) \in Block
  BY SubReturns, ShiftReturns, MixReturns
<1>2. ASSUME NEW n \in Offsets
      PROVE  /\ FipsRound(b, w)[n] = Add(MixColumns(ShiftRows(SubAll(b)))[n], w[n])
             /\ FipsLastRound(b, w)[n] = Add(ShiftRows(SubAll(b))[n], w[n])
  <2>1. n \in 0..15  BY DEF Offsets
  <2>2. FipsRound(b, w)[n]
          = Plus(SumOf4(LAMBDA k : Product(MixRow[((4 + k - (n % 4)) % 4) + 1],
                                           SBox(b[ShiftedFrom(k, n \div 4)]))), w[n])
    BY <2>1 DEF FipsRound
  <2>3. FipsRound(b, w)[n] = Plus(MixColumns(ShiftRows(SubAll(b)))[n], w[n])
    BY <2>2, StandardMix
  <2>4. FipsLastRound(b, w)[n] = Plus(ShiftRows(SubAll(b))[n], w[n])
    BY <2>1, StandardMix DEF FipsLastRound
  <2>5. w[n] \in Byte /\ ShiftRows(SubAll(b))[n] \in Byte /\ MixColumns(ShiftRows(SubAll(b)))[n] \in Byte
    BY <1>1 DEF Block
  <2>6. QED  BY <2>3, <2>4, <2>5 DEF StandardLaws
<1>3. /\ FipsRound(b, w) = [j \in Offsets |-> FipsRound(b, w)[j]]
      /\ FipsLastRound(b, w) = [j \in Offsets |-> FipsLastRound(b, w)[j]]
  BY DEF FipsRound, FipsLastRound, Offsets
<1>4. [j \in Offsets |-> FipsRound(b, w)[j]]
        = [j \in Offsets |-> Add(MixColumns(ShiftRows(SubAll(b)))[j], w[j])]
  BY <1>2
<1>5. [j \in Offsets |-> FipsLastRound(b, w)[j]] = [j \in Offsets |-> Add(ShiftRows(SubAll(b))[j], w[j])]
  BY <1>2
<1>6. QED  BY <1>3, <1>4, <1>5

\* oaes_encrypt_block is the cipher of FIPS 197: every round it makes is the
\* standard's with the standard's round key, for every expanded key, number of
\* rounds and block, if the bytes are those of the standard.
THEOREM RoundsAreStandard ==
  ASSUME Laws, StandardLaws
  PROVE  Spec => []RoundsAreFips
<1>1. BlockInv => RoundsAreFips
  <2> SUFFICES ASSUME BlockInv, step = "encrypted"
               PROVE  /\ trail[0] = [j \in Offsets |-> Plus(input[j], key.exp[0][j])]
                      /\ \A r \in 1..LastRound - 1 : trail[r] = FipsRound(trail[r - 1], key.exp[r])
                      /\ c = FipsLastRound(trail[LastRound - 1], key.exp[LastRound])
    BY DEF RoundsAreFips
  <2>1. /\ LastRound \in Nat /\ LastRound >= 1 /\ \A r \in 0..LastRound : key.exp[r] \in Block
        /\ input \in Block /\ trail \in [0..LastRound -> Block] /\ c = trail[LastRound]
    BY Rounds, InputsAssumption DEF BlockInv, TypeOK, AtDecryption
  <2>2. trail[0] = AddKey(input, 0) /\ \A r \in 1..LastRound : trail[r] = AddKey(Before(r), r)
    BY DEF BlockInv, History, Done, EncSteps
  <2>3. trail[0] = [j \in Offsets |-> Plus(input[j], key.exp[0][j])]
    <3>1. \A j \in Offsets : input[j] \in Byte /\ key.exp[0][j] \in Byte
      BY <2>1 DEF Block
    <3>2. \A j \in Offsets : Add(input[j], key.exp[0][j]) = Plus(input[j], key.exp[0][j])
      BY <3>1 DEF StandardLaws
    <3>3. QED  BY <2>2, <3>2 DEF AddKey, XorKey
  <2>4. ASSUME NEW r \in 1..LastRound - 1  PROVE trail[r] = FipsRound(trail[r - 1], key.exp[r])
    <3>1. r \in 1..LastRound /\ r < LastRound /\ r - 1 \in 0..LastRound /\ r \in 0..LastRound
      BY <2>1
    <3>2. trail[r] = [j \in Offsets |-> Add(MixColumns(ShiftRows(SubAll(trail[r - 1])))[j], key.exp[r][j])]
      BY <2>2, <3>1 DEF Before, AddKey, XorKey
    <3>3. trail[r - 1] \in Block /\ key.exp[r] \in Block  BY <2>1, <3>1
    <3>4. QED  BY <3>2, <3>3, StandardRound
  <2>5. c = FipsLastRound(trail[LastRound - 1], key.exp[LastRound])
    <3>1. LastRound \in 1..LastRound /\ LastRound - 1 \in 0..LastRound /\ LastRound \in 0..LastRound
      BY <2>1
    <3>2. c = [j \in Offsets |-> Add(ShiftRows(SubAll(trail[LastRound - 1]))[j], key.exp[LastRound][j])]
      <4>1. trail[LastRound] = AddKey(Before(LastRound), LastRound)  BY <2>2, <3>1
      <4>2. Before(LastRound) = ShiftRows(SubAll(trail[LastRound - 1]))  BY <2>1 DEF Before
      <4>3. QED  BY <2>1, <4>1, <4>2 DEF AddKey, XorKey
    <3>3. trail[LastRound - 1] \in Block /\ key.exp[LastRound] \in Block  BY <2>1, <3>1
    <3>4. QED  BY <3>2, <3>3, StandardRound
  <2>6. QED  BY <2>3, <2>4, <2>5
<1>2. QED  BY <1>1, BlockInvIsInvariant, PTL

-----------------------------------------------------------------------------
(* Induction.                                                                *)

\* A set of naturals that is not empty has a least element.
LEMMA LeastNat == ASSUME NEW T \in SUBSET Nat, T # {} PROVE \E x \in T : \A y \in T : x <= y
<1> DEFINE R == OpToRel(<, Nat)
<1>1. IsWellFoundedOn(R, Nat)  BY NatLessThanWellFounded
<1>2. PICK x \in T : \A y \in T : ~ (<<y, x>> \in R)
  <2> HIDE DEF R
  <2>1. QED  BY <1>1, WFMin
<1>3. \A y, z \in Nat : y < z => <<y, z>> \in R  BY Zenon DEF OpToRel
<1> HIDE DEF R
<1>4. \A y \in T : ~(y < x)  BY <1>2, <1>3
<1>5. QED  BY <1>4

\* A set that has 0 and the successors of its elements has every natural.
LEMMA NatInductive == ASSUME NEW T, 0 \in T, \A n \in Nat : n \in T => n + 1 \in T PROVE Nat \subseteq T
<1> SUFFICES ASSUME Nat \ T # {} PROVE FALSE  OBVIOUS
<1>1. PICK x \in Nat \ T : \A y \in Nat \ T : x <= y  BY LeastNat
<1>2. x # 0 /\ x - 1 \in Nat /\ x - 1 + 1 = x  BY <1>1
<1>3. QED  BY <1>1, <1>2

\* A function defined by recursion exists.
Recursive(S, s0, next, N) == s0 \in S /\ N \in Nat /\ next \in [1..N -> [S -> S]]
Solution(f, S, s0, next, N) ==
  f \in [0..N -> S] /\ f[0] = s0 /\ \A n \in 1..N : f[n] = next[n][f[n - 1]]

\* It is built value by value.
LEMMA Recursion ==
  ASSUME NEW S, NEW s0, NEW next, NEW N, Recursive(S, s0, next, N)
  PROVE  \E f : Solution(f, S, s0, next, N)
<1> USE DEF Recursive, Solution
<1> DEFINE Upto(m) == \E f \in [0..m -> S] : f[0] = s0 /\ \A n \in 1..m : f[n] = next[n][f[n - 1]]
           T == {m \in Nat : m <= N => Upto(m)}
<1>1. Upto(0)
  <2>1. /\ [n \in 0..0 |-> s0] \in [0..0 -> S] /\ [n \in 0..0 |-> s0][0] = s0
    OBVIOUS
  <2>2. 1..0 = {}
    OBVIOUS
  <2> QED
    BY <2>1, <2>2
<1>2. ASSUME NEW m \in Nat, m + 1 <= N, Upto(m) PROVE Upto(m + 1)
  <2>1. PICK f \in [0..m -> S] : f[0] = s0 /\ \A n \in 1..m : f[n] = next[n][f[n - 1]]
    BY <1>2
  <2> DEFINE g == [n \in 0..(m + 1) |-> IF n = m + 1 THEN next[m + 1][f[m]] ELSE f[n]]
  <2>2. m + 1 \in 1..N /\ f[m] \in S
    BY <1>2
  <2>3. g \in [0..(m + 1) -> S]
    BY <2>2
  <2>4. g[0] = s0
    BY <2>1
  <2>5. ASSUME NEW n \in 1..(m + 1) PROVE g[n] = next[n][g[n - 1]]
    <3>1. CASE n = m + 1
      BY <3>1
    <3>2. CASE n # m + 1
      <4>1. n \in 1..m /\ n - 1 \in 0..m /\ n - 1 # m + 1 /\ n - 1 \in 0..(m + 1)
        BY <3>2
      <4> QED
        BY <2>1, <3>2, <4>1
    <3> QED
      BY <3>1, <3>2
  <2> HIDE DEF g
  <2> QED
    BY <2>3, <2>4, <2>5
<1>3. Nat \subseteq T
  <2> HIDE DEF Upto
  <2>1. 0 \in T /\ \A n \in Nat : n \in T => n + 1 \in T
    BY <1>1, <1>2
  <2> HIDE DEF T
  <2> QED
    BY <2>1, NatInductive
<1> QED
  BY <1>3

\* A function that follows the recursion as long as it has a value in S has
\* one everywhere.
LEMMA Unrolled ==
  ASSUME NEW S, NEW s0, NEW next, NEW N, Recursive(S, s0, next, N),
         NEW f, f = [n \in 0..N |-> f[n]], f[0] = s0,
         \A n \in 1..N : f[n - 1] \in S => f[n] = next[n][f[n - 1]]
  PROVE  Solution(f, S, s0, next, N)
<1> DEFINE T == {n \in Nat : n <= N => f[n] \in S}
<1>1. s0 \in S /\ N \in Nat /\ \A n \in 1..N : \A v \in S : next[n][v] \in S  BY DEF Recursive
<1>2. 0 \in T  BY <1>1
<1>3. ASSUME NEW n \in Nat, n \in T  PROVE n + 1 \in T
  <2> SUFFICES ASSUME n + 1 <= N  PROVE f[n + 1] \in S  OBVIOUS
  <2>1. n + 1 \in 1..N /\ (n + 1) - 1 = n /\ f[n] \in S  BY <1>1, <1>3
  <2>2. f[n + 1] = next[n + 1][f[n]]  BY <2>1
  <2>3. QED  BY <1>1, <2>1, <2>2
<1>4. \A n \in 0..N : f[n] \in S
  <2> HIDE DEF T
  <2>1. Nat \subseteq T  BY <1>2, <1>3, NatInductive
  <2>2. QED  BY <1>1, <2>1 DEF T
<1>5. \A n \in 1..N : f[n] = next[n][f[n - 1]]
  <2>1. \A n \in 1..N : n - 1 \in 0..N  BY <1>1
  <2>2. QED  BY <1>4, <2>1
<1>6. QED  BY <1>4, <1>5 DEF Solution

-----------------------------------------------------------------------------
(* The columns of an expanded key.                                           *)

FourBytes == {w \in Seq(Byte) : Len(w) = 4}

\* The bytes of a column.
LEMMA BytesOfFour ==
  ASSUME NEW w \in FourBytes
  PROVE  w[1] \in Byte /\ w[2] \in Byte /\ w[3] \in Byte /\ w[4] \in Byte
<1>1. w \in Seq(Byte) /\ Len(w) = 4  BY DEF FourBytes
<1>2. \A n \in 1..4 : w[n] \in Byte  BY <1>1
<1>3. QED  BY <1>2

\* Four bytes are a column.
LEMMA FourOf ==
  ASSUME NEW a \in Byte, NEW b \in Byte, NEW d \in Byte, NEW e \in Byte
  PROVE  <<a, b, d, e>> \in FourBytes
BY DEF FourBytes

\* The sum of two columns, byte by byte.
LEMMA XorWordBytes ==
  ASSUME SumLaws, NEW v \in FourBytes, NEW w \in FourBytes
  PROVE  /\ XorWord(v, w) \in FourBytes
         /\ \A j \in 0..3 : XorWord(v, w)[j + 1] = Add(v[j + 1], w[j + 1])
<1>1. /\ Add(v[1], w[1]) \in Byte /\ Add(v[2], w[2]) \in Byte
      /\ Add(v[3], w[3]) \in Byte /\ Add(v[4], w[4]) \in Byte
  BY BytesOfFour, AddInByte
<1>2. XorWord(v, w) \in FourBytes  BY <1>1, FourOf DEF XorWord
<1>3. ASSUME NEW j \in 0..3  PROVE XorWord(v, w)[j + 1] = Add(v[j + 1], w[j + 1])
  <2>1. j = 0 \/ j = 1 \/ j = 2 \/ j = 3  OBVIOUS
  <2>2. /\ XorWord(v, w)[1] = Add(v[1], w[1]) /\ XorWord(v, w)[2] = Add(v[2], w[2])
        /\ XorWord(v, w)[3] = Add(v[3], w[3]) /\ XorWord(v, w)[4] = Add(v[4], w[4])
    BY DEF XorWord
  <2>3. QED  BY <2>1, <2>2
<1>4. QED  BY <1>2, <1>3

\* A column n of the expanded key of a key of base columns, after the key.
Placed(n, base) == n \in Nat /\ base \in {4, 6, 8} /\ base <= n /\ n < 4 * (base + 7)

\* gf_8 is never read past its end.
LEMMA RconIndex ==
  ASSUME NEW n, NEW base, Placed(n, base)
  PROVE  n % base \in 0..base - 1 /\ (n % base = 0 => n \div base \in 1..10)
<1> USE DEF Placed
<1>1. CASE base = 4  BY <1>1
<1>2. CASE base = 6  BY <1>2
<1>3. CASE base = 8  BY <1>3
<1>4. QED  BY <1>1, <1>2, <1>3

\* Transform, byte by byte.
LEMMA TransformBytes ==
  ASSUME Laws, StandardLaws, NEW w \in FourBytes, NEW n, NEW base, Placed(n, base)
  PROVE  /\ Transform(w, n, base) \in FourBytes
         /\ \A j \in 0..3 :
              Transform(w, n, base)[j + 1]
                = IF n % base = 0
                    THEN Add(Sub(w[((j + 1) % 4) + 1]), IF j = 0 THEN gf_8[n \div base] ELSE 0)
                  ELSE IF base = 8 /\ n % base = 4 THEN Sub(w[j + 1])
                  ELSE w[j + 1]
<1>0. SumLaws /\ 0 \in Byte  BY DEF Laws, SumLaws
<1>1. w[1] \in Byte /\ w[2] \in Byte /\ w[3] \in Byte /\ w[4] \in Byte  BY BytesOfFour
<1>2. \A a \in Byte : Sub(a) \in Byte  BY DEF Laws, SubLaws
<1>3. SubWord(w) \in FourBytes /\ SubWord(RotLeft(w)) \in FourBytes
  <2>1. Sub(w[1]) \in Byte /\ Sub(w[2]) \in Byte /\ Sub(w[3]) \in Byte /\ Sub(w[4]) \in Byte
    BY <1>1, <1>2
  <2>2. SubWord(RotLeft(w)) = <<Sub(w[2]), Sub(w[3]), Sub(w[4]), Sub(w[1])>>
    BY DEF SubWord, RotLeft
  <2>3. SubWord(w) = <<Sub(w[1]), Sub(w[2]), Sub(w[3]), Sub(w[4])>>
    BY DEF SubWord
  <2>4. QED  BY <2>1, <2>2, <2>3, FourOf
<1>4. \A j \in 0..3 : /\ SubWord(w)[j + 1] = Sub(w[j + 1])
                      /\ SubWord(RotLeft(w))[j + 1] = Sub(w[((j + 1) % 4) + 1])
  <2>1. SUFFICES ASSUME NEW j \in 0..3
                 PROVE  /\ SubWord(w)[j + 1] = Sub(w[j + 1])
                        /\ SubWord(RotLeft(w))[j + 1] = Sub(w[((j + 1) % 4) + 1])
    OBVIOUS
  <2>2. j = 0 \/ j = 1 \/ j = 2 \/ j = 3  OBVIOUS
  <2>3. /\ SubWord(w)[1] = Sub(w[1]) /\ SubWord(w)[2] = Sub(w[2])
        /\ SubWord(w)[3] = Sub(w[3]) /\ SubWord(w)[4] = Sub(w[4])
    BY DEF SubWord
  <2>4. /\ SubWord(RotLeft(w))[1] = Sub(w[2]) /\ SubWord(RotLeft(w))[2] = Sub(w[3])
        /\ SubWord(RotLeft(w))[3] = Sub(w[4]) /\ SubWord(RotLeft(w))[4] = Sub(w[1])
    BY DEF SubWord, RotLeft
  <2>5. /\ (0 + 1) % 4 = 1 /\ (1 + 1) % 4 = 2 /\ (2 + 1) % 4 = 3 /\ (3 + 1) % 4 = 0
    OBVIOUS
  <2>6. QED  BY <2>2, <2>3, <2>4, <2>5
<1>5. CASE n % base = 0
  <2> DEFINE g == gf_8[n \div base]
             rcon == <<g, 0, 0, 0>>
  <2>1. g \in Byte  BY <1>5, RconIndex DEF StandardLaws
  <2>2. Transform(w, n, base) = XorWord(SubWord(RotLeft(w)), rcon)  BY <1>5 DEF Transform
  <2>3. \A j \in 0..3 : rcon[j + 1] = IF j = 0 THEN g ELSE 0
    <3> HIDE DEF g
    <3>1. rcon[1] = g /\ rcon[2] = 0 /\ rcon[3] = 0 /\ rcon[4] = 0  OBVIOUS
    <3>2. \A j \in 0..3 : j = 0 \/ j = 1 \/ j = 2 \/ j = 3  OBVIOUS
    <3> HIDE DEF rcon
    <3>3. QED  BY <3>1, <3>2
  <2> HIDE DEF g
  <2>4. rcon \in FourBytes  BY <1>0, <2>1, FourOf
  <2> HIDE DEF rcon
  <2>5. /\ Transform(w, n, base) \in FourBytes
        /\ \A j \in 0..3 : Transform(w, n, base)[j + 1] = Add(SubWord(RotLeft(w))[j + 1], rcon[j + 1])
    BY <1>0, <1>3, <2>2, <2>4, XorWordBytes
  <2>6. \A j \in 0..3 : Transform(w, n, base)[j + 1]
                          = Add(Sub(w[((j + 1) % 4) + 1]), IF j = 0 THEN g ELSE 0)
    BY <1>4, <2>3, <2>5
  <2>7. QED  BY <1>5, <2>5, <2>6 DEF g
<1>6. CASE n % base # 0 /\ base = 8 /\ n % base = 4
  <2>1. Transform(w, n, base) = SubWord(w)  BY <1>6 DEF Transform
  <2>2. QED  BY <1>3, <1>4, <1>6, <2>1
<1>7. CASE n % base # 0 /\ ~(base = 8 /\ n % base = 4)
  <2>1. Transform(w, n, base) = w  BY <1>7 DEF Transform, Placed
  <2>2. QED  BY <1>7, <2>1
<1>8. QED  BY <1>5, <1>6, <1>7

\* The n columns that a key of base columns expands to.
KeyOf(data, base) == base \in {4, 6, 8} /\ data \in Seq(Byte) /\ Len(data) = 4 * base

Expanded(s, n, data, base) ==
  /\ s \in Seq(FourBytes) /\ Len(s) = n
  /\ \A m \in 1..base : \A j \in 1..4 : s[m][j] = data[4 * (m - 1) + j]
  /\ \A m \in base..n - 1 : s[m + 1] = XorWord(s[m - base + 1], Transform(s[m], m, base))

\* The key itself is expanded as far as it goes.
LEMMA KeyExpanded ==
  ASSUME NEW data, NEW base, KeyOf(data, base)
  PROVE  KeyBase(data) = base /\ Expanded(FirstColumns(data), base, data, base)
<1> USE DEF KeyOf
<1>1. KeyBase(data) = base  BY DEF KeyBase
<1>2. ASSUME NEW m \in 1..base
      PROVE  /\ SubSeq(data, 4 * m - 3, 4 * m) \in FourBytes
             /\ \A j \in 1..4 : SubSeq(data, 4 * m - 3, 4 * m)[j] = data[4 * (m - 1) + j]
  <2> DEFINE a == 4 * m - 3
             z == 4 * m
  <2>1. a \in 1..Len(data) /\ z \in 1..Len(data) /\ z - a + 1 = 4 /\ a <= z
    BY <1>2
  <2>2. \A j \in 1..4 : a + j - 1 = 4 * (m - 1) + j  BY <1>2
  <2> HIDE DEF a, z
  <2>3. /\ SubSeq(data, a, z) \in Seq(Byte) /\ Len(SubSeq(data, a, z)) = 4
        /\ \A j \in 1..4 : SubSeq(data, a, z)[j] = data[a + j - 1]
    BY <2>1, SubSeqProperties
  <2>4. QED  BY <2>2, <2>3 DEF FourBytes, a, z
<1>3. FirstColumns(data) = [n \in 1..base |-> SubSeq(data, 4 * n - 3, 4 * n)]
  BY <1>1 DEF FirstColumns
<1>4. FirstColumns(data) \in Seq(FourBytes) /\ Len(FirstColumns(data)) = base
  BY <1>2, <1>3
<1>5. \A m \in 1..base : \A j \in 1..4 : FirstColumns(data)[m][j] = data[4 * (m - 1) + j]
  BY <1>2, <1>3, ZenonT(60)
<1>6. \A m \in base..base - 1 : FALSE  OBVIOUS
<1>7. QED  BY <1>1, <1>4, <1>5, <1>6 DEF Expanded

\* AppendColumn expands it by one column.
LEMMA ColumnAppended ==
  ASSUME Laws, StandardLaws, NEW data, NEW base, KeyOf(data, base),
         NEW n, Placed(n, base), NEW s, Expanded(s, n, data, base)
  PROVE  Expanded(AppendColumn(s, base), n + 1, data, base)
<1>1. /\ s \in Seq(FourBytes) /\ Len(s) = n /\ n \in Nat /\ base \in {4, 6, 8} /\ base <= n
  BY DEF Expanded, Placed
<1> DEFINE w == XorWord(s[n - base + 1], Transform(s[n], n, base))
           t == Append(s, w)
<1>2. AppendColumn(s, base) = t  BY <1>1 DEF AppendColumn
<1>3. w \in FourBytes
  <2>1. n - base + 1 \in 1..Len(s) /\ n \in 1..Len(s)  BY <1>1
  <2>2. s[n - base + 1] \in FourBytes /\ s[n] \in FourBytes  BY <1>1, <2>1
  <2>3. Transform(s[n], n, base) \in FourBytes  BY <2>2, TransformBytes
  <2>4. QED  BY <2>2, <2>3, XorWordBytes DEF Laws
<1> HIDE DEF w
<1>4. /\ t \in Seq(FourBytes) /\ Len(t) = n + 1 /\ t[n + 1] = w
      /\ \A m \in 1..n : t[m] = s[m]
  BY <1>1, <1>3, AppendProperties
<1> HIDE DEF t
<1>5. \A m \in 1..base : \A j \in 1..4 : t[m][j] = data[4 * (m - 1) + j]
  <2>1. \A m \in 1..base : \A j \in 1..4 : s[m][j] = data[4 * (m - 1) + j]  BY DEF Expanded
  <2>2. \A m \in 1..base : t[m] = s[m]  BY <1>1, <1>4
  <2>3. QED  BY <2>1, <2>2
<1>6. ASSUME NEW m \in base..n
      PROVE  t[m + 1] = XorWord(t[m - base + 1], Transform(t[m], m, base))
  <2>1. m \in 1..n /\ m - base + 1 \in 1..n  BY <1>1
  <2>2. t[m] = s[m] /\ t[m - base + 1] = s[m - base + 1]  BY <1>4, <2>1
  <2>3. CASE m = n  BY <1>4, <2>2, <2>3 DEF w
  <2>4. CASE m # n
    <3>1. m \in base..n - 1 /\ m + 1 \in 1..n  BY <1>1, <2>4
    <3>2. t[m + 1] = s[m + 1]  BY <1>4, <3>1
    <3>3. s[m + 1] = XorWord(s[m - base + 1], Transform(s[m], m, base))  BY <3>1 DEF Expanded
    <3>4. QED  BY <2>2, <3>2, <3>3
  <2>5. QED  BY <2>3, <2>4
<1>7. \A m \in base..(n + 1) - 1 : t[m + 1] = XorWord(t[m - base + 1], Transform(t[m], m, base))
  BY <1>1, <1>6
<1>8. QED  BY <1>2, <1>4, <1>5, <1>7 DEF Expanded

\* The function that Columns defines by recursion exists.
Loop(f, first, base, total) ==
  f = [n \in base..total |-> IF n = base THEN first ELSE AppendColumn(f[n - 1], base)]

\* It is built column by column.
LEMMA LoopExists ==
  ASSUME NEW base \in Nat, NEW first, NEW total \in Nat, base <= total
  PROVE  \E f : Loop(f, first, base, total)
<1> DEFINE T == {m \in Nat : \E f : Loop(f, first, base, base + m)}
<1>1. 0 \in T
  <2> DEFINE f == [n \in base..base + 0 |-> first]
  <2>1. f = [n \in base..base + 0 |-> IF n = base THEN first ELSE AppendColumn(f[n - 1], base)]
    OBVIOUS
  <2> HIDE DEF f
  <2>2. QED  BY <2>1 DEF Loop
<1>2. ASSUME NEW m \in Nat, m \in T  PROVE m + 1 \in T
  <2>1. PICK f : Loop(f, first, base, base + m)  BY <1>2
  <2>2. \A n \in base..base + m : f[n] = IF n = base THEN first ELSE AppendColumn(f[n - 1], base)
    BY <2>1 DEF Loop
  <2> DEFINE last == base + (m + 1)
             g == [n \in base..last |-> IF n = last THEN AppendColumn(f[last - 1], base) ELSE f[n]]
  <2>3. ASSUME NEW n \in base..last
        PROVE  g[n] = IF n = base THEN first ELSE AppendColumn(g[n - 1], base)
    <3>1. CASE n = last
      <4>1. n # base /\ n - 1 \in base..last /\ n - 1 # last  BY <3>1
      <4>2. g[n - 1] = f[n - 1] /\ g[n] = AppendColumn(f[n - 1], base)  BY <3>1, <4>1
      <4>3. QED  BY <4>1, <4>2
    <3>2. CASE n # last /\ n # base
      <4>1. n \in base..base + m /\ n - 1 \in base..last /\ n - 1 # last  BY <3>2
      <4>2. g[n - 1] = f[n - 1] /\ g[n] = f[n]  BY <3>2, <4>1
      <4>3. QED  BY <2>2, <3>2, <4>1, <4>2
    <3>3. CASE n = base
      <4>1. n # last /\ n \in base..base + m  BY <3>3
      <4>2. g[n] = f[n]  BY <4>1
      <4>3. QED  BY <2>2, <3>3, <4>1, <4>2
    <3>4. QED  BY <3>1, <3>2, <3>3
  <2>4. g = [n \in base..last |-> g[n]]  OBVIOUS
  <2> HIDE DEF g
  <2>5. g = [n \in base..last |-> IF n = base THEN first ELSE AppendColumn(g[n - 1], base)]
    BY <2>3, <2>4
  <2>6. Loop(g, first, base, last)  BY <2>5 DEF Loop
  <2>7. QED  BY <2>6
<1>3. Nat \subseteq T
  <2> HIDE DEF T
  <2>1. QED  BY <1>1, <1>2, NatInductive
<1>4. total - base \in Nat /\ base + (total - base) = total  OBVIOUS
<1>5. QED  BY <1>3, <1>4

\* The loop of oaes_key_expand expands the key to so many columns.
LEMMA ColumnsExpand ==
  ASSUME Laws, StandardLaws, NEW data, NEW base, KeyOf(data, base)
  PROVE  Expanded(Columns(data, 4 * (base + 7)), 4 * (base + 7), data, base)
<1> DEFINE total == 4 * (base + 7)
           first == FirstColumns(data)
           f == CHOOSE g : g = [n \in KeyBase(data)..total |->
                                  IF n = KeyBase(data) THEN FirstColumns(data)
                                  ELSE AppendColumn(g[n - 1], KeyBase(data))]
           T == {m \in Nat : base + m <= total => Expanded(f[base + m], base + m, data, base)}
<1>1. base \in Nat /\ total \in Nat /\ base <= total /\ base \in {4, 6, 8}  BY DEF KeyOf
<1>2. Columns(data, total) = f[total]  BY DEF Columns
<1>3. Loop(f, first, base, total)
  <2>1. \E g : Loop(g, first, base, total)
    <3> HIDE DEF first, total
    <3>1. QED  BY <1>1, LoopExists
  <2>2. KeyBase(data) = base  BY KeyExpanded
  <2>3. \E g : g = [n \in KeyBase(data)..total |->
                    IF n = KeyBase(data) THEN FirstColumns(data)
                    ELSE AppendColumn(g[n - 1], KeyBase(data))]
    BY <2>1, <2>2 DEF Loop
  <2>4. f = [n \in KeyBase(data)..total |->
               IF n = KeyBase(data) THEN FirstColumns(data) ELSE AppendColumn(f[n - 1], KeyBase(data))]
    <3> HIDE DEF total
    <3>1. QED  BY <2>3
  <2> HIDE DEF f
  <2>5. QED  BY <2>2, <2>4 DEF Loop
<1> HIDE DEF f, first
<1>4. \A n \in base..total : f[n] = IF n = base THEN first ELSE AppendColumn(f[n - 1], base)
  BY <1>3 DEF Loop
<1>5. 0 \in T
  <2>1. base \in base..total /\ base + 0 = base  BY <1>1
  <2>2. f[base] = first  BY <1>4, <2>1
  <2>3. QED  BY <2>1, <2>2, KeyExpanded DEF first
<1>6. ASSUME NEW m \in Nat, m \in T  PROVE m + 1 \in T
  <2> SUFFICES ASSUME base + (m + 1) <= total
               PROVE  Expanded(f[base + (m + 1)], base + (m + 1), data, base)
    OBVIOUS
  <2>1. /\ base + m <= total /\ base + (m + 1) \in base..total /\ base + (m + 1) # base
        /\ (base + (m + 1)) - 1 = base + m /\ (base + m) + 1 = base + (m + 1)
    BY <1>1
  <2>2. Placed(base + m, base)  BY <1>1 DEF Placed
  <2>3. Expanded(f[base + m], base + m, data, base)  BY <1>6, <2>1
  <2>4. f[base + (m + 1)] = AppendColumn(f[base + m], base)  BY <1>4, <2>1
  <2>5. Expanded(AppendColumn(f[base + m], base), (base + m) + 1, data, base)
    BY <2>2, <2>3, ColumnAppended
  <2>6. QED  BY <2>1, <2>4, <2>5
<1>7. Nat \subseteq T
  <2> HIDE DEF T
  <2>1. QED  BY <1>5, <1>6, NatInductive
<1>8. total - base \in Nat /\ base + (total - base) = total  BY <1>1
<1>9. Expanded(f[total], total, data, base)
  <2>1. \A m \in T : base + m <= total => Expanded(f[base + m], base + m, data, base)  OBVIOUS
  <2> HIDE DEF T, total
  <2>2. \A m \in Nat : base + m <= total => Expanded(f[base + m], base + m, data, base)
    BY <1>7, <2>1
  <2>3. total <= total  BY <1>1
  <2>4. QED  BY <1>8, <2>2, <2>3
<1>10. QED  BY <1>2, <1>9

-----------------------------------------------------------------------------
(* The columns against the standard.                                         *)

\* gf_8 has the powers of x that the standard uses.
LEMMA StandardRcon == ASSUME StandardLaws, NEW n \in 1..10 PROVE Rcon(n) = gf_8[n]
<1> DEFINE power == CHOOSE g : g = [m \in 1..10 |-> IF m = 1 THEN 1 ELSE Product(2, g[m - 1])]
           f == [m \in 1..10 |-> gf_8[m]]
<1>1. Rcon(n) = power[n]  BY DEF Rcon
<1>2. gf_8[1] = 1 /\ \A m \in 1..9 : gf_8[m + 1] = Product(2, gf_8[m])  BY DEF StandardLaws
<1>3. \A m \in 1..10 : f[m] = IF m = 1 THEN 1 ELSE Product(2, f[m - 1])
  <2>1. SUFFICES ASSUME NEW m \in 1..10  PROVE f[m] = IF m = 1 THEN 1 ELSE Product(2, f[m - 1])
    OBVIOUS
  <2>2. CASE m = 1  BY <1>2, <2>2
  <2>3. CASE m # 1
    <3>1. m - 1 \in 1..9 /\ m - 1 \in 1..10 /\ (m - 1) + 1 = m  BY <2>3
    <3>2. gf_8[m] = Product(2, gf_8[m - 1])  BY <1>2, <3>1
    <3>3. QED  BY <2>3, <3>1, <3>2
  <2>4. QED  BY <2>2, <2>3
<1>4. \E g : g = [m \in 1..10 |-> IF m = 1 THEN 1 ELSE Product(2, g[m - 1])]
  <2>1. f = [m \in 1..10 |-> f[m]]  OBVIOUS
  <2> HIDE DEF f
  <2>2. f = [m \in 1..10 |-> IF m = 1 THEN 1 ELSE Product(2, f[m - 1])]  BY <1>3, <2>1
  <2>3. QED  BY <2>2
<1>5. power = [m \in 1..10 |-> IF m = 1 THEN 1 ELSE Product(2, power[m - 1])]  BY <1>4
<1> HIDE DEF power
<1> DEFINE T == {m \in Nat : m + 1 <= 10 => power[m + 1] = gf_8[m + 1]}
<1>6. \A m \in 1..10 : power[m] = IF m = 1 THEN 1 ELSE Product(2, power[m - 1])  BY <1>5
<1>7. 0 \in T
  <2>1. power[1] = 1  BY <1>6
  <2>2. 0 + 1 = 1  OBVIOUS
  <2>3. QED  BY <1>2, <2>1, <2>2
<1>8. ASSUME NEW m \in Nat, m \in T  PROVE m + 1 \in T
  <2> SUFFICES ASSUME (m + 1) + 1 <= 10  PROVE power[(m + 1) + 1] = gf_8[(m + 1) + 1]  OBVIOUS
  <2>1. m + 1 \in 1..9 /\ (m + 1) + 1 \in 1..10 /\ (m + 1) + 1 # 1 /\ ((m + 1) + 1) - 1 = m + 1
    OBVIOUS
  <2>2. power[m + 1] = gf_8[m + 1]  BY <1>8, <2>1
  <2>3. power[(m + 1) + 1] = Product(2, power[m + 1])  BY <1>6, <2>1
  <2>4. gf_8[(m + 1) + 1] = Product(2, gf_8[m + 1])  BY <1>2, <2>1
  <2>5. QED  BY <2>2, <2>3, <2>4
<1>9. Nat \subseteq T
  <2> HIDE DEF T
  <2>1. QED  BY <1>7, <1>8, NatInductive
<1>10. n - 1 \in Nat /\ (n - 1) + 1 = n /\ (n - 1) + 1 <= 10  OBVIOUS
<1>11. \A m \in Nat : m + 1 <= 10 => power[m + 1] = gf_8[m + 1]  BY <1>9
<1>12. QED  BY <1>1, <1>10, <1>11

\* The columns as blocks have them.
Standing(s, n) == [j \in 0..3 |-> s[n + 1][j + 1]]

\* A column after the key is that of the standard.
LEMMA StandardColumn ==
  ASSUME Laws, StandardLaws, NEW data, NEW base, NEW s,
         Expanded(s, 4 * (base + 7), data, base), NEW n, Placed(n, base)
  PROVE  Standing(s, n) = FipsColumn(Standing(s, n - base), Standing(s, n - 1), n, base)
<1>0. SumLaws /\ 0 \in Byte /\ (\A a \in Byte : Sub(a) \in Byte)  BY DEF Laws, SumLaws, SubLaws
<1>1. n \in Nat /\ base \in {4, 6, 8} /\ base <= n /\ n < 4 * (base + 7)  BY DEF Placed
<1> DEFINE v == s[n - base + 1]
           w == s[n]
<1>2. v \in FourBytes /\ w \in FourBytes
  <2>1. n - base + 1 \in 1..4 * (base + 7) /\ n \in 1..4 * (base + 7)  BY <1>1
  <2>2. s \in Seq(FourBytes) /\ Len(s) = 4 * (base + 7)  BY DEF Expanded
  <2>3. QED  BY <2>1, <2>2
<1>3. s[n + 1] = XorWord(v, Transform(w, n, base))
  <2>1. n \in base..4 * (base + 7) - 1  BY <1>1
  <2>2. QED  BY <2>1 DEF Expanded
<1>4. (n - base) + 1 = n - base + 1 /\ (n - 1) + 1 = n  BY <1>1
<1>5. /\ \A j \in 0..3 : Standing(s, n - base)[j] = v[j + 1] /\ v[j + 1] \in Byte
      /\ \A j \in 0..3 : Standing(s, n - 1)[j] = w[j + 1] /\ w[j + 1] \in Byte
  <2>1. \A j \in 0..3 : j = 0 \/ j = 1 \/ j = 2 \/ j = 3  OBVIOUS
  <2>2. /\ \A j \in 0..3 : Standing(s, n - base)[j] = v[j + 1]
        /\ \A j \in 0..3 : Standing(s, n - 1)[j] = w[j + 1]
    BY <1>4 DEF Standing
  <2>3. /\ v[0 + 1] \in Byte /\ v[1 + 1] \in Byte /\ v[2 + 1] \in Byte /\ v[3 + 1] \in Byte
        /\ w[0 + 1] \in Byte /\ w[1 + 1] \in Byte /\ w[2 + 1] \in Byte /\ w[3 + 1] \in Byte
    BY <1>2, BytesOfFour
  <2> HIDE DEF v, w
  <2>4. QED  BY <2>1, <2>2, <2>3
<1> HIDE DEF v, w
<1> DEFINE old == Standing(s, n - base)
           prev == Standing(s, n - 1)
           t == Transform(w, n, base)
           Term(j) == IF n % base = 0
                        THEN Plus(SBox(prev[(j + 1) % 4]), IF j = 0 THEN Rcon(n \div base) ELSE 0)
                      ELSE IF base = 8 /\ n % base = 4 THEN SBox(prev[j])
                      ELSE prev[j]
<1>6. ASSUME NEW j \in 0..3  PROVE t[j + 1] \in Byte /\ Term(j) = t[j + 1]
  <2>1. (j + 1) % 4 \in 0..3  OBVIOUS
  <2> DEFINE a == prev[j]
             b == prev[(j + 1) % 4]
             g == IF j = 0 THEN gf_8[n \div base] ELSE 0
  <2>2. a = w[j + 1] /\ a \in Byte /\ b = w[((j + 1) % 4) + 1] /\ b \in Byte  BY <1>5, <2>1
  <2>3. t[j + 1] = IF n % base = 0 THEN Add(Sub(b), g)
                   ELSE IF base = 8 /\ n % base = 4 THEN Sub(a)
                   ELSE a
    BY <1>2, <2>2, TransformBytes
  <2>4. SBox(a) = Sub(a) /\ SBox(b) = Sub(b) /\ Sub(a) \in Byte /\ Sub(b) \in Byte
    BY <1>0, <2>2 DEF StandardLaws
  <2>5. CASE n % base = 0
    <3>1. n \div base \in 1..10  BY <2>5, RconIndex
    <3>2. g \in Byte /\ g = IF j = 0 THEN Rcon(n \div base) ELSE 0
      BY <1>0, <3>1, StandardRcon DEF StandardLaws
    <3>3. Term(j) = Plus(SBox(b), g)  BY <2>5, <3>2
    <3> HIDE DEF a, b, g
    <3>4. Plus(SBox(b), g) = Add(Sub(b), g) /\ Add(Sub(b), g) \in Byte
      <4>1. Add(Sub(b), g) \in Byte  BY <1>0, <2>4, <3>2, AddInByte
      <4>2. Plus(Sub(b), g) = Add(Sub(b), g)  BY <2>4, <3>2 DEF StandardLaws
      <4>3. QED  BY <2>4, <4>1, <4>2
    <3>5. QED  BY <2>3, <2>5, <3>3, <3>4
  <2>6. CASE n % base # 0 /\ base = 8 /\ n % base = 4
    <3>1. Term(j) = SBox(a)  BY <2>6
    <3> HIDE DEF a, b, g
    <3>2. QED  BY <2>3, <2>4, <2>6, <3>1
  <2>7. CASE n % base # 0 /\ ~(base = 8 /\ n % base = 4)
    <3>1. Term(j) = a  BY <2>7
    <3> HIDE DEF a, b, g
    <3>2. QED  BY <2>2, <2>3, <2>7, <3>1
  <2>8. QED  BY <2>5, <2>6, <2>7
<1>7. t \in FourBytes  BY <1>2, TransformBytes
<1>8. \A j \in 0..3 : s[n + 1][j + 1] = Add(v[j + 1], t[j + 1])
  <2> HIDE DEF t
  <2>1. QED  BY <1>0, <1>2, <1>3, <1>7, XorWordBytes DEF t
<1>9. FipsColumn(old, prev, n, base) = [j \in 0..3 |-> Plus(old[j], Term(j))]
  BY DEF FipsColumn
<1>10. \A j \in 0..3 : s[n + 1][j + 1] = Plus(old[j], Term(j))
  <2> HIDE DEF old, Term, t
  <2>1. \A j \in 0..3 : Plus(v[j + 1], t[j + 1]) = Add(v[j + 1], t[j + 1])
    BY <1>5, <1>6 DEF StandardLaws
  <2>2. \A j \in 0..3 : old[j] = v[j + 1]  BY <1>5 DEF old
  <2>3. QED  BY <1>6, <1>8, <2>1, <2>2
<1> HIDE DEF old, prev, Term
<1>11. Standing(s, n) = [j \in 0..3 |-> Plus(old[j], Term(j))]  BY <1>10 DEF Standing
<1>12. QED  BY <1>9, <1>11 DEF old, prev

\* An expanded key holds the columns, four to a round key.
Holds(e, s, base) ==
  /\ base \in {4, 6, 8}
  /\ e = [r \in 0..(base + 7) - 1 |-> [j \in Offsets |-> s[4 * r + (j \div 4) + 1][(j % 4) + 1]]]

LEMMA ColumnStands ==
  ASSUME NEW e, NEW s, NEW base, Holds(e, s, base), NEW n \in 0..4 * (base + 7) - 1
  PROVE  ColumnOf(e[n \div 4], n % 4) = Standing(s, n)
<1>1. n \div 4 \in 0..(base + 7) - 1 /\ n % 4 \in 0..3 /\ 4 * (n \div 4) + (n % 4) = n
  <2>1. n \in Nat /\ n < 4 * (base + 7) /\ base \in {4, 6, 8}  BY DEF Holds
  <2> DEFINE r == n \div 4
             k == n % 4
  <2>2. r \in Nat /\ k \in 0..3 /\ 4 * r + k = n  BY <2>1
  <2> HIDE DEF r, k
  <2>3. r < base + 7  BY <2>1, <2>2
  <2>4. r \in 0..(base + 7) - 1 /\ k \in 0..3 /\ 4 * r + k = n  BY <2>1, <2>2, <2>3
  <2>5. QED  BY <2>4 DEF r, k
<1>2. ASSUME NEW j \in 0..3  PROVE e[n \div 4][4 * (n % 4) + j] = s[n + 1][j + 1]
  <2> DEFINE r == n \div 4
             k == n % 4
  <2>1. r \in 0..(base + 7) - 1 /\ k \in 0..3 /\ 4 * r + k = n  BY <1>1
  <2> HIDE DEF r, k
  <2>2. 4 * k + j \in Offsets /\ (4 * k + j) \div 4 = k /\ (4 * k + j) % 4 = j  BY <2>1, PlaceOf
  <2>3. e[r][4 * k + j] = s[4 * r + ((4 * k + j) \div 4) + 1][((4 * k + j) % 4) + 1]
    BY <2>1, <2>2 DEF Holds
  <2>4. e[r][4 * k + j] = s[n + 1][j + 1]  BY <2>1, <2>2, <2>3
  <2>5. QED  BY <2>4 DEF r, k
<1>3. QED  BY <1>2 DEF ColumnOf, Standing

\* oaes_key_expand is the key expansion of FIPS 197, for every key of 16, 24
\* or 32 bytes, if the bytes are those of the standard: the first columns are
\* the key, and the others follow from two earlier ones as there.
THEOREM ScheduleIsStandard ==
  ASSUME Laws, StandardLaws, KeysAreExpanded
  PROVE  Spec => []ScheduleIsFips
<1>1. TypeOK => ScheduleIsFips
  <2> SUFFICES ASSUME TypeOK  PROVE ScheduleIsFips  OBVIOUS
  <2> DEFINE data == key.data
             base == Len(data) \div 4
             s == Columns(data, 4 * (base + 7))
  <2>1. data \in Seq(Byte) /\ Len(data) \in {16, 24, 32} /\ key = ExpandKey(data)
    BY DEF TypeOK, KeysAreExpanded
  <2>2. base \in {4, 6, 8} /\ KeyOf(data, base) /\ KeyBase(data) = base /\ NumKeys(data) = base + 7
    <3>1. 16 \div 4 = 4 /\ 24 \div 4 = 6 /\ 32 \div 4 = 8  OBVIOUS
    <3>2. base \in {4, 6, 8} /\ Len(data) = 4 * base
      <4> HIDE DEF data
      <4>1. CASE Len(data) = 16  BY <3>1, <4>1
      <4>2. CASE Len(data) = 24  BY <3>1, <4>2
      <4>3. CASE Len(data) = 32  BY <3>1, <4>3
      <4>4. QED  BY <2>1, <4>1, <4>2, <4>3
    <3>3. KeyBase(data) = base /\ NumKeys(data) = base + 7  BY DEF KeyBase, NumKeys
    <3> HIDE DEF data, base
    <3>4. QED  BY <2>1, <3>2, <3>3 DEF KeyOf
  <2>3. ExpandKey(data).num_keys = base + 7
    BY <2>2 DEF ExpandKey
  <2>4. ExpandKey(data).exp = [r \in 0..(base + 7) - 1 |->
                                 [j \in Offsets |-> s[4 * r + (j \div 4) + 1][(j % 4) + 1]]]
    BY <2>2 DEF ExpandKey
  <2> HIDE DEF data, base, s
  <2>5. Expanded(s, 4 * (base + 7), data, base)  BY <2>2, ColumnsExpand DEF s
  <2>6. \A n \in 0..4 * (base + 7) - 1 : ColumnOf(key.exp[n \div 4], n % 4) = Standing(s, n)
    <3> DEFINE e == key.exp
    <3>1. e = [r \in 0..(base + 7) - 1 |->
                 [j \in Offsets |-> s[4 * r + (j \div 4) + 1][(j % 4) + 1]]]
      BY <2>1, <2>4
    <3> HIDE DEF e
    <3>2. Holds(e, s, base)  BY <2>2, <3>1 DEF Holds
    <3>3. \A n \in 0..4 * (base + 7) - 1 : ColumnOf(e[n \div 4], n % 4) = Standing(s, n)
      BY <3>2, ColumnStands
    <3>5. QED  BY <3>3 DEF e
  <2>7. ASSUME NEW n \in 0..base - 1
        PROVE  ColumnOf(key.exp[n \div 4], n % 4) = [j \in 0..3 |-> data[4 * n + j + 1]]
    <3>1. n \in 0..4 * (base + 7) - 1 /\ n + 1 \in 1..base /\ (n + 1) - 1 = n  BY <2>2
    <3>2. \A j \in 1..4 : s[n + 1][j] = data[4 * n + j]  BY <2>5, <3>1 DEF Expanded
    <3>3. \A j \in 0..3 : j + 1 \in 1..4 /\ 4 * n + (j + 1) = 4 * n + j + 1  BY <2>2
    <3>4. \A j \in 0..3 : s[n + 1][j + 1] = data[4 * n + j + 1]  BY <3>2, <3>3
    <3>5. Standing(s, n) = [j \in 0..3 |-> data[4 * n + j + 1]]  BY <3>4 DEF Standing
    <3>6. QED  BY <2>6, <3>1, <3>5
  <2>8. ASSUME NEW n \in base..4 * (base + 7) - 1
        PROVE  ColumnOf(key.exp[n \div 4], n % 4)
                 = FipsColumn(ColumnOf(key.exp[(n - base) \div 4], (n - base) % 4),
                              ColumnOf(key.exp[(n - 1) \div 4], (n - 1) % 4), n, base)
    <3>1. /\ Placed(n, base) /\ n \in 0..4 * (base + 7) - 1
          /\ n - base \in 0..4 * (base + 7) - 1 /\ n - 1 \in 0..4 * (base + 7) - 1
      BY <2>2 DEF Placed
    <3>2. Standing(s, n) = FipsColumn(Standing(s, n - base), Standing(s, n - 1), n, base)
      BY <2>5, <3>1, StandardColumn
    <3>3. QED  BY <2>6, <3>1, <3>2
  <2>9. key.num_keys = base + 7  BY <2>1, <2>3
  <2>10. QED  BY <2>7, <2>8, <2>9 DEF ScheduleIsFips, base, data
<1>2. QED  BY <1>1, TypeCorrect, PTL

-----------------------------------------------------------------------------
(* The transformations that decrypt keep any block a block.                  *)

LEMMA AnySum ==
  ASSUME Laws, NEW a \in Byte, NEW b \in Byte, NEW d \in Byte, NEW e \in Byte,
         NEW m \in Factors, NEW n \in Factors, NEW p \in Factors, NEW q \in Factors
  PROVE  Sum4(Mul(a, m), Mul(b, n), Mul(d, p), Mul(e, q)) \in Byte
<1>0. MulLaws  BY DEF Laws
<1>1. Mul(a, m) \in Byte /\ Mul(b, n) \in Byte /\ Mul(d, p) \in Byte /\ Mul(e, q) \in Byte
  BY <1>0, MulInByte
<1>2. QED  BY <1>1, Sum4Pairs

LEMMA InvMixColsInWord ==
  ASSUME Laws, NEW w \in Word
  PROVE  InvMixCols(w) \in Word
<1>1. w[0] \in Byte /\ w[1] \in Byte /\ w[2] \in Byte /\ w[3] \in Byte  BY WordBytes
<1>2. 9 \in Factors /\ 11 \in Factors /\ 13 \in Factors /\ 14 \in Factors  BY DEF Factors
<1>3. Sum4(Mul(w[0], 14), Mul(w[1], 11), Mul(w[2], 13), Mul(w[3], 9)) \in Byte  BY <1>1, <1>2, AnySum
<1>4. Sum4(Mul(w[0], 9), Mul(w[1], 14), Mul(w[2], 11), Mul(w[3], 13)) \in Byte  BY <1>1, <1>2, AnySum
<1>5. Sum4(Mul(w[0], 13), Mul(w[1], 9), Mul(w[2], 14), Mul(w[3], 11)) \in Byte  BY <1>1, <1>2, AnySum
<1>6. Sum4(Mul(w[0], 11), Mul(w[1], 13), Mul(w[2], 9), Mul(w[3], 14)) \in Byte  BY <1>1, <1>2, AnySum
<1>7. QED  BY <1>3, <1>4, <1>5, <1>6, ColumnInWord DEF InvMixCols

LEMMA InverseInBlock ==
  ASSUME Laws, NEW b \in Block
  PROVE  InvShiftRows(b) \in Block /\ InvSubAll(b) \in Block /\ InvMixColumns(b) \in Block
<1>1. \A j \in Offsets : b[j] \in Byte  BY DEF Block
<1>2. InvShiftRows(b) \in Block
  <2>1. ASSUME NEW j \in Offsets  PROVE InvShiftRows(b)[j] \in Byte
    <3>1. \/ j = 0 \/ j = 1 \/ j = 2 \/ j = 3 \/ j = 4 \/ j = 5 \/ j = 6 \/ j = 7
          \/ j = 8 \/ j = 9 \/ j = 10 \/ j = 11 \/ j = 12 \/ j = 13 \/ j = 14 \/ j = 15
      BY DEF Offsets
    <3>2. QED  BY <1>1, <3>1 DEF InvShiftRows, Offsets
  <2>2. InvShiftRows(b) = [j \in Offsets |-> InvShiftRows(b)[j]]  BY DEF InvShiftRows
  <2>3. QED  BY <2>1, <2>2 DEF Block
<1>3. InvSubAll(b) \in Block
  <2>1. \A a \in Byte : InvSub(a) \in Byte  BY DEF Laws, SubLaws
  <2>2. QED  BY <1>1, <2>1 DEF InvSubAll, Block
<1>4. InvMixColumns(b) \in Block
  <2>1. ASSUME NEW k \in 0..3  PROVE InvMixCols(ColumnOf(b, k)) \in Word
    <3>1. \A j \in 0..3 : b[4 * k + j] \in Byte  BY <1>1, PlaceOf
    <3>2. ColumnOf(b, k) \in Word  BY <3>1 DEF ColumnOf, Word
    <3>3. QED  BY <3>2, InvMixColsInWord
  <2>2. ASSUME NEW j \in Offsets  PROVE InvMixCols(ColumnOf(b, j \div 4))[j % 4] \in Byte
    BY <2>1, Places DEF Word
  <2>3. QED  BY <2>2 DEF InvMixColumns, Block
<1>5. QED  BY <1>2, <1>3, <1>4

-----------------------------------------------------------------------------
(* The block cipher as two functions.                                        *)

LastOf(k) == k.num_keys - 1

LEMMA KeyBlocks ==
  ASSUME NEW k \in Keys
  PROVE  LastOf(k) \in Nat /\ LastOf(k) >= 1 /\ \A r \in 0..LastOf(k) : k.exp[r] \in Block
BY KeysAssumption DEF LastOf

\* A round keeps a block a block.
LEMMA RoundsKeepBlocks ==
  ASSUME Laws, NEW k \in Keys, NEW b \in Block, NEW r \in 0..LastOf(k)
  PROVE  EncRound(k, b, r) \in Block /\ DecRound(k, b, r) \in Block
<1>1. k.exp[r] \in Block  BY KeyBlocks
<1>2. EncRound(k, b, r) \in Block
  <2> DEFINE v == IF r < k.num_keys - 1 THEN MixColumns(ShiftRows(SubAll(b))) ELSE ShiftRows(SubAll(b))
  <2>1. v \in Block  BY RoundInBlock
  <2>2. EncRound(k, b, r) = XorKey(v, k.exp[r])  BY DEF EncRound
  <2> HIDE DEF v
  <2>3. QED  BY <1>1, <2>1, <2>2, XorKeyTwice
<1>3. DecRound(k, b, r) \in Block
  <2> DEFINE v == IF r < k.num_keys - 2 THEN InvMixColumns(b) ELSE b
  <2>1. v \in Block  BY InverseInBlock
  <2>2. DecRound(k, b, r) = XorKey(InvSubAll(InvShiftRows(v)), k.exp[r])  BY DEF DecRound
  <2> HIDE DEF v
  <2>3. InvSubAll(InvShiftRows(v)) \in Block  BY <2>1, InverseInBlock
  <2>4. QED  BY <1>1, <2>2, <2>3, XorKeyTwice
<1>4. QED  BY <1>2, <1>3

\* A round of the decryption takes back what is before the sum of a round of
\* the encryption, if the next round key has been taken away.
LEMMA RoundTakenBack ==
  ASSUME Laws, NEW k \in Keys, NEW b \in Block, NEW r \in 1..LastOf(k)
  PROVE  LET v == XorKey(EncRound(k, b, r), k.exp[r])
         IN  DecRound(k, v, r - 1) = XorKey(b, k.exp[r - 1])
<1> DEFINE s == ShiftRows(SubAll(b))
           u == IF r < k.num_keys - 1 THEN MixColumns(s) ELSE s
           v == XorKey(EncRound(k, b, r), k.exp[r])
<1>1. LastOf(k) \in Nat /\ r \in 0..LastOf(k) /\ k.exp[r] \in Block  BY KeyBlocks
<1>2. s \in Block /\ u \in Block  BY RoundInBlock
<1>3. EncRound(k, b, r) = XorKey(u, k.exp[r])  BY DEF EncRound
<1>4. v = u
  <2> HIDE DEF u
  <2>1. QED  BY <1>1, <1>2, <1>3, XorKeyTwice
<1>5. r - 1 < k.num_keys - 2 <=> r < k.num_keys - 1
  <2>1. k.num_keys \in Nat  BY KeysAssumption
  <2>2. QED  BY <1>1, <2>1
<1>6. (IF r - 1 < k.num_keys - 2 THEN InvMixColumns(u) ELSE u) = s
  <2>1. InvMixColumns(MixColumns(s)) = s
    <3> HIDE DEF s
    <3>1. QED  BY <1>2, MixReturns
  <2>2. QED  BY <1>5, <2>1
<1>7. InvSubAll(InvShiftRows(s)) = b
  <2>1. SubAll(b) \in Block  BY SubReturns
  <2>2. QED  BY <2>1, SubReturns, ShiftReturns
<1> HIDE DEF s, u, v
<1>8. DecRound(k, u, r - 1) = XorKey(InvSubAll(InvShiftRows(s)), k.exp[r - 1])
  BY <1>6 DEF DecRound
<1>9. DecRound(k, v, r - 1) = XorKey(b, k.exp[r - 1])  BY <1>4, <1>7, <1>8
<1>10. QED  BY <1>9 DEF v

\* The blocks that a call of oaes_encrypt_block makes, round by round, and those
\* of a call of oaes_decrypt_block.
Enciphering(k, b, f) ==
  /\ f \in [0..LastOf(k) -> Block]
  /\ f[0] = XorKey(b, k.exp[0])
  /\ \A r \in 1..LastOf(k) : f[r] = EncRound(k, f[r - 1], r)

Deciphering(k, b, f) ==
  /\ f \in [0..LastOf(k) -> Block]
  /\ f[0] = XorKey(b, k.exp[LastOf(k)])
  /\ \A n \in 1..LastOf(k) : f[n] = DecRound(k, f[n - 1], LastOf(k) - n)

\* The functions are the last of these blocks.
LEMMA EncipheredIs ==
  ASSUME Laws, NEW k \in Keys, NEW b \in Block
  PROVE  \E f : Enciphering(k, b, f) /\ Enciphered(k, b) = f[LastOf(k)]
<1> DEFINE last == LastOf(k)
           first == XorKey(b, k.exp[0])
           next == [r \in 1..last |-> [v \in Block |-> EncRound(k, v, r)]]
           Defines(g) == g = [r \in 0..last |-> IF r = 0 THEN first ELSE EncRound(k, g[r - 1], r)]
           f == CHOOSE g : Defines(g)
<1>1. last \in Nat /\ first \in Block
  BY KeyBlocks, XorKeyTwice
<1>2. Enciphered(k, b) = f[last]  BY DEF Enciphered, LastOf
<1>3. \A r \in 1..last : \A v \in Block : EncRound(k, v, r) \in Block
  <2>1. \A r \in 1..last : r \in 0..last  OBVIOUS
  <2>2. QED  BY <2>1, RoundsKeepBlocks
<1> HIDE DEF last, first
<1>4. Recursive(Block, first, next, last)  BY <1>1, <1>3 DEF Recursive
<1>5. Defines(f)
  <2>1. PICK g : Solution(g, Block, first, next, last)
    <3> HIDE DEF next
    <3>1. QED  BY <1>4, Recursion
  <2>2. g = [r \in 0..last |-> g[r]] /\ g[0] = first  BY <2>1 DEF Solution
  <2>3. ASSUME NEW r \in 1..last  PROVE g[r] = EncRound(k, g[r - 1], r)
    <3>1. r - 1 \in 0..last  BY <1>1
    <3>2. g[r - 1] \in Block /\ g[r] = next[r][g[r - 1]]  BY <2>1, <3>1 DEF Solution
    <3>3. QED  BY <3>2
  <2>4. ASSUME NEW r \in 0..last  PROVE g[r] = IF r = 0 THEN first ELSE EncRound(k, g[r - 1], r)
    <3>1. CASE r = 0  BY <2>2, <3>1
    <3>2. CASE r # 0
      <4>1. r \in 1..last  BY <1>1, <3>2
      <4>2. QED  BY <2>3, <3>2, <4>1
    <3>3. QED  BY <3>1, <3>2
  <2>5. Defines(g)  BY <2>2, <2>4
  <2>6. QED  BY <2>5
<1> HIDE DEF f
<1>6. \A r \in 0..last : f[r] = IF r = 0 THEN first ELSE EncRound(k, f[r - 1], r)  BY <1>5
<1>7. f[0] = first /\ \A r \in 1..last : f[r] = EncRound(k, f[r - 1], r)  BY <1>1, <1>6
<1>8. Solution(f, Block, first, next, last)
  <2>1. f = [r \in 0..last |-> f[r]]  BY <1>5
  <2>2. \A r \in 1..last : f[r - 1] \in Block => f[r] = next[r][f[r - 1]]  BY <1>7
  <2> HIDE DEF next, Defines
  <2>3. QED  BY <1>4, <1>7, <2>1, <2>2, Unrolled
<1>9. f \in [0..last -> Block]  BY <1>8 DEF Solution
<1> HIDE DEF next, Defines
<1>10. QED  BY <1>2, <1>7, <1>9 DEF Enciphering, last, first

LEMMA DecipheredIs ==
  ASSUME Laws, NEW k \in Keys, NEW b \in Block
  PROVE  \E f : Deciphering(k, b, f) /\ Deciphered(k, b) = f[LastOf(k)]
<1> DEFINE last == LastOf(k)
           first == XorKey(b, k.exp[last])
           next == [n \in 1..last |-> [v \in Block |-> DecRound(k, v, last - n)]]
           Defines(g) == g = [n \in 0..last |-> IF n = 0 THEN first ELSE DecRound(k, g[n - 1], last - n)]
           f == CHOOSE g : Defines(g)
<1>1. last \in Nat /\ first \in Block
  <2>1. last \in Nat /\ last \in 0..last  BY KeyBlocks
  <2>2. QED  BY <2>1, KeyBlocks, XorKeyTwice
<1>2. Deciphered(k, b) = f[last]  BY DEF Deciphered, LastOf
<1>3. \A n \in 1..last : \A v \in Block : DecRound(k, v, last - n) \in Block
  <2>1. \A n \in 1..last : last - n \in 0..last  BY <1>1
  <2>2. QED  BY <2>1, RoundsKeepBlocks
<1> HIDE DEF last, first
<1>4. Recursive(Block, first, next, last)  BY <1>1, <1>3 DEF Recursive
<1>5. Defines(f)
  <2>1. PICK g : Solution(g, Block, first, next, last)
    <3> HIDE DEF next
    <3>1. QED  BY <1>4, Recursion
  <2>2. g = [n \in 0..last |-> g[n]] /\ g[0] = first  BY <2>1 DEF Solution
  <2>3. ASSUME NEW n \in 1..last  PROVE g[n] = DecRound(k, g[n - 1], last - n)
    <3>1. n - 1 \in 0..last  BY <1>1
    <3>2. g[n - 1] \in Block /\ g[n] = next[n][g[n - 1]]  BY <2>1, <3>1 DEF Solution
    <3>3. QED  BY <3>2
  <2>4. ASSUME NEW n \in 0..last  PROVE g[n] = IF n = 0 THEN first ELSE DecRound(k, g[n - 1], last - n)
    <3>1. CASE n = 0  BY <2>2, <3>1
    <3>2. CASE n # 0
      <4>1. n \in 1..last  BY <1>1, <3>2
      <4>2. QED  BY <2>3, <3>2, <4>1
    <3>3. QED  BY <3>1, <3>2
  <2>5. Defines(g)  BY <2>2, <2>4
  <2>6. QED  BY <2>5
<1> HIDE DEF f
<1>6. \A n \in 0..last : f[n] = IF n = 0 THEN first ELSE DecRound(k, f[n - 1], last - n)  BY <1>5
<1>7. f[0] = first /\ \A n \in 1..last : f[n] = DecRound(k, f[n - 1], last - n)  BY <1>1, <1>6
<1>8. Solution(f, Block, first, next, last)
  <2>1. f = [n \in 0..last |-> f[n]]  BY <1>5
  <2>2. \A n \in 1..last : f[n - 1] \in Block => f[n] = next[n][f[n - 1]]  BY <1>7
  <2> HIDE DEF next, Defines
  <2>3. QED  BY <1>4, <1>7, <2>1, <2>2, Unrolled
<1>9. f \in [0..last -> Block]  BY <1>8 DEF Solution
<1> HIDE DEF next, Defines
<1>10. QED  BY <1>2, <1>7, <1>9 DEF Deciphering, last, first

-----------------------------------------------------------------------------
(* The cipher is undone.                                                     *)

\* The decryption stands, after n rounds, where the encryption stood n rounds
\* before its end, less the round key.
LEMMA Mirrored ==
  ASSUME Laws, NEW k \in Keys, NEW b \in Block, NEW f, NEW g,
         Enciphering(k, b, f), Deciphering(k, f[LastOf(k)], g),
         NEW n \in 0..LastOf(k)
  PROVE  g[n] = XorKey(f[LastOf(k) - n], k.exp[LastOf(k) - n])
<1> DEFINE last == LastOf(k)
           At(m) == g[m] = XorKey(f[last - m], k.exp[last - m])
           T == {m \in Nat : m <= last => At(m)}
<1>1. last \in Nat  BY KeyBlocks
<1>2. /\ f \in [0..last -> Block]
      /\ \A r \in 1..last : f[r] = EncRound(k, f[r - 1], r)
  BY DEF Enciphering
<1>3. /\ g[0] = XorKey(f[last], k.exp[last])
      /\ \A m \in 1..last : g[m] = DecRound(k, g[m - 1], last - m)
  BY DEF Deciphering
<1>4. \A r \in 1..last : \A v \in Block :
        DecRound(k, XorKey(EncRound(k, v, r), k.exp[r]), r - 1) = XorKey(v, k.exp[r - 1])
  BY RoundTakenBack
<1> HIDE DEF last
<1>5. At(0)
  <2>1. last - 0 = last  BY <1>1
  <2>2. QED  BY <1>3, <2>1
<1>6. ASSUME NEW m \in Nat, m + 1 <= last, At(m)  PROVE At(m + 1)
  <2> DEFINE r == last - m
  <2>1. r \in 1..last /\ r - 1 \in 0..last /\ last - (m + 1) = r - 1 /\ m + 1 \in 1..last /\ (m + 1) - 1 = m
    BY <1>1, <1>6
  <2>2. g[m] = XorKey(f[r], k.exp[r])  BY <1>6
  <2> HIDE DEF r
  <2>3. f[r] = EncRound(k, f[r - 1], r) /\ f[r - 1] \in Block  BY <1>2, <2>1
  <2>4. DecRound(k, g[m], r - 1) = XorKey(f[r - 1], k.exp[r - 1])  BY <1>4, <2>1, <2>2, <2>3
  <2>5. g[m + 1] = DecRound(k, g[m], r - 1)
    <3>1. g[m + 1] = DecRound(k, g[(m + 1) - 1], last - (m + 1))  BY <1>3, <2>1
    <3>2. QED  BY <2>1, <3>1
  <2>6. QED  BY <2>1, <2>4, <2>5
<1>7. Nat \subseteq T
  <2> HIDE DEF At
  <2>1. 0 \in T /\ \A m \in Nat : m \in T => m + 1 \in T
    <3>1. \A m \in Nat : m + 1 <= last => m <= last  BY <1>1
    <3>2. QED  BY <1>5, <1>6, <3>1
  <2> HIDE DEF T
  <2>2. QED  BY <2>1, NatInductive
<1>8. n \in Nat /\ n <= last  BY <1>1 DEF last
<1>9. At(n)  BY <1>7, <1>8
<1>10. QED  BY <1>9 DEF last

\* A block enciphered and deciphered with the same expanded key is the block
\* again, whatever the number of rounds.  With Enciphered(k, _) for Enc and
\* Deciphered(k, _) for Dec this is CipherAssumption of PyeCodec; with the two
\* for Cipher and Decipher, and the bytes of a block counted from 1, it is
\* CipherLaws of OaesMessage.
THEOREM CipherIsUndone ==
  ASSUME Laws, NEW k \in Keys, NEW b \in Block
  PROVE  /\ Enciphered(k, b) \in Block
         /\ Deciphered(k, b) \in Block
         /\ Deciphered(k, Enciphered(k, b)) = b
<1> DEFINE last == LastOf(k)
<1>1. last \in Nat /\ last \in 0..last /\ 0 \in 0..last /\ last - last = 0 /\ k.exp[0] \in Block
  BY KeyBlocks
<1>2. PICK f : Enciphering(k, b, f) /\ Enciphered(k, b) = f[last]  BY EncipheredIs
<1>3. f[last] \in Block /\ f[0] = XorKey(b, k.exp[0])  BY <1>1, <1>2 DEF Enciphering
<1>4. PICK g : Deciphering(k, f[last], g) /\ Deciphered(k, f[last]) = g[last]
  BY <1>3, DecipheredIs
<1>5. g[last] = XorKey(f[last - last], k.exp[last - last])  BY <1>1, <1>2, <1>4, Mirrored
<1>6. g[last] = XorKey(XorKey(b, k.exp[0]), k.exp[0])  BY <1>1, <1>3, <1>5
<1>7. Deciphered(k, b) \in Block
  <2>1. PICK h : Deciphering(k, b, h) /\ Deciphered(k, b) = h[last]  BY DecipheredIs
  <2>2. QED  BY <1>1, <2>1 DEF Deciphering
<1>8. XorKey(XorKey(b, k.exp[0]), k.exp[0]) = b  BY <1>1, XorKeyTwice
<1>9. QED  BY <1>2, <1>3, <1>4, <1>6, <1>7, <1>8

\* There is but one way for the blocks of an encryption.
LEMMA OneEnciphering ==
  ASSUME NEW k \in Keys, NEW b, NEW f, NEW g, Enciphering(k, b, f), Enciphering(k, b, g)
  PROVE  f[LastOf(k)] = g[LastOf(k)]
<1> DEFINE last == LastOf(k)
           T == {m \in Nat : m <= last => f[m] = g[m]}
<1>1. last \in Nat  BY KeyBlocks
<1>2. f[0] = g[0]  BY DEF Enciphering
<1>3. /\ \A r \in 1..last : f[r] = EncRound(k, f[r - 1], r)
      /\ \A r \in 1..last : g[r] = EncRound(k, g[r - 1], r)
  BY DEF Enciphering
<1> HIDE DEF last
<1>4. ASSUME NEW m \in Nat, m + 1 <= last, f[m] = g[m]  PROVE f[m + 1] = g[m + 1]
  <2>1. m + 1 \in 1..last /\ (m + 1) - 1 = m  BY <1>1, <1>4
  <2>2. f[m + 1] = EncRound(k, f[m], m + 1)
    <3>1. f[m + 1] = EncRound(k, f[(m + 1) - 1], m + 1)  BY <1>3, <2>1
    <3>2. QED  BY <2>1, <3>1
  <2>3. g[m + 1] = EncRound(k, g[m], m + 1)
    <3>1. g[m + 1] = EncRound(k, g[(m + 1) - 1], m + 1)  BY <1>3, <2>1
    <3>2. QED  BY <2>1, <3>1
  <2>4. QED  BY <1>4, <2>2, <2>3
<1>5. 0 \in T /\ \A m \in Nat : m \in T => m + 1 \in T
  <2>1. \A m \in Nat : m + 1 <= last => m <= last  BY <1>1
  <2>2. QED  BY <1>2, <1>4, <2>1
<1>6. Nat \subseteq T
  <2> HIDE DEF T
  <2>1. QED  BY <1>5, NatInductive
<1>7. f[last] = g[last]  BY <1>1, <1>6
<1>8. QED  BY <1>7 DEF last

\* The blocks of the trail are those of the function once the call is over.
LEMMA TrailEnciphers ==
  ASSUME BlockInv, step \notin EncSteps
  PROVE  key \in Keys /\ input \in Block /\ Enciphering(key, input, trail)
<1>1. key \in Keys /\ input \in Block /\ trail \in [0..LastRound -> Block]
  BY InputsAssumption DEF BlockInv, TypeOK
<1>2. LastOf(key) = LastRound  BY DEF LastOf, LastRound
<1>3. trail[0] = XorKey(input, key.exp[0])  BY DEF BlockInv, History, Done, AddKey
<1>4. ASSUME NEW r \in 1..LastRound  PROVE trail[r] = EncRound(key, trail[r - 1], r)
  <2>1. trail[r] = XorKey(Before(r), key.exp[r])  BY DEF BlockInv, History, Done, AddKey
  <2>2. QED  BY <2>1 DEF Before, EncRound, LastRound
<1>5. QED  BY <1>1, <1>2, <1>3, <1>4 DEF Enciphering

\* A call of oaes_encrypt_block leaves Enciphered of its key and block, and
\* the call of oaes_decrypt_block after it Deciphered of that: nothing else
\* enters the result.
THEOREM CallsComputeTheCipher ==
  ASSUME Laws
  PROVE  Spec => []CallsAreFunctions
<1>1. BlockInv => CallsAreFunctions
  <2> SUFFICES ASSUME BlockInv PROVE CallsAreFunctions  OBVIOUS
  <2>1. ASSUME step = "encrypted"  PROVE c = Enciphered(key, input)
    <3>1. step \notin EncSteps  BY <2>1 DEF EncSteps
    <3>2. key \in Keys /\ input \in Block /\ Enciphering(key, input, trail)
      BY <3>1, TrailEnciphers
    <3>3. PICK f : Enciphering(key, input, f) /\ Enciphered(key, input) = f[LastOf(key)]
      BY <3>2, EncipheredIs
    <3>4. trail[LastOf(key)] = f[LastOf(key)]  BY <3>2, <3>3, OneEnciphering
    <3>5. c = trail[LastOf(key)]  BY <2>1 DEF BlockInv, AtDecryption, LastRound, LastOf
    <3>6. QED  BY <3>3, <3>4, <3>5
  <2>2. ASSUME step = "decrypted"  PROVE c = Deciphered(key, Enciphered(key, input))
    <3>1. key \in Keys /\ input \in Block  BY InputsAssumption DEF BlockInv, TypeOK
    <3>2. c = input  BY <2>2 DEF BlockInv, AtDecryption
    <3>3. QED  BY <3>1, <3>2, CipherIsUndone
  <2>3. QED  BY <2>1, <2>2 DEF CallsAreFunctions
<1>2. Spec => []BlockInv  BY BlockInvIsInvariant
<1>3. QED  BY <1>1, <1>2, PTL

=============================================================================
