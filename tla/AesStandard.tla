----------------------------- MODULE AesStandard -----------------------------
(***************************************************************************)
(* The block cipher and the key expansion of oaes_lib.c against FIPS 197.  *)
(***************************************************************************)
EXTENDS KeyExpansion, Fips197

\* What the code takes from the standard byte by byte: the sum, the S-box, the
\* products by the coefficients of MixColumns, and the round constants.
StandardLaws ==
  /\ \A a, b \in Byte : Plus(a, b) = Add(a, b)
  /\ \A a \in Byte : /\ SBox(a) = Sub(a)
                     /\ Product(1, a) = a /\ Product(2, a) = Mul(a, 2) /\ Product(3, a) = Mul(a, 3)
  /\ gf_8[1] = 1 /\ \A n \in 1..9 : gf_8[n + 1] = Product(2, gf_8[n])
  /\ \A n \in 1..10 : gf_8[n] \in Byte

\* The expanded keys come from keys of the three sizes.
KeysAreExpanded ==
  \A k \in Keys : k.data \in Seq(Byte) /\ Len(k.data) \in {16, 24, 32} /\ k = ExpandKey(k.data)

\* Every round of the encryption is the round of the standard, with the
\* round key the standard uses for it.
RoundsAreFips ==
  step = "encrypted"
    => /\ trail[0] = [j \in Offsets |-> Plus(input[j], key.exp[0][j])]
       /\ \A r \in 1..LastRound - 1 : trail[r] = FipsRound(trail[r - 1], key.exp[r])
       /\ c = FipsLastRound(trail[LastRound - 1], key.exp[LastRound])

\* The expanded key is that of the standard: it begins with the key, and
\* every further column follows from two earlier ones.
ScheduleIsFips ==
  LET nk == Len(key.data) \div 4
      column(n) == ColumnOf(key.exp[n \div 4], n % 4)
  IN step = "addFirst"
       => /\ key.num_keys = nk + 7
          /\ \A n \in 0..nk - 1 : column(n) = [j \in 0..3 |-> key.data[4 * n + j + 1]]
          /\ \A n \in nk..4 * (nk + 7) - 1 :
               column(n) = FipsColumn(column(n - nk), column(n - 1), n, nk)
=============================================================================
