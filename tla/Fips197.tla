------------------------------- MODULE Fips197 -------------------------------
(***************************************************************************)
(* What the loops of oaes_lib.c should compute, defined as in FIPS 197,    *)
(* byte by byte: a round, the last round, and a column of the key          *)
(* schedule.  The field and the S-box are parameters; FipsField has those  *)
(* of the standard.  Nothing here is translated from the code.             *)
(***************************************************************************)
EXTENDS Naturals, Sequences

CONSTANTS
  Plus(_, _), Product(_, _),  \* of the field
  SBox(_)

SumOf4(term(_)) == Plus(Plus(term(0), term(1)), Plus(term(2), term(3)))

-----------------------------------------------------------------------------
(* MixColumns multiplies a column by a circulant matrix, given by its first *)
(* row.                                                                     *)

MixRow == <<2, 3, 1, 1>>

-----------------------------------------------------------------------------
(* Byte r + 4c of a block is row r, column c of the state.  ShiftRows takes *)
(* row r of column c from column c + r.                                     *)

ShiftedFrom(r, c) == r + 4 * ((c + r) % 4)

FipsRound(state, key) ==
  [i \in 0..15 |->
     LET mixed == SumOf4(LAMBDA k : Product(MixRow[((4 + k - (i % 4)) % 4) + 1],
                                            SBox(state[ShiftedFrom(k, i \div 4)])))
     IN Plus(mixed, key[i])]

FipsLastRound(state, key) ==
  [i \in 0..15 |-> Plus(SBox(state[ShiftedFrom(i % 4, i \div 4)]), key[i])]

\* The constant of the n-th round key: a power of x.
Rcon(n) ==
  LET power[m \in 1..10] == IF m = 1 THEN 1 ELSE Product(2, power[m - 1])
  IN power[n]

\* Column i of an expanded key in terms of columns i - 1 and i - nk.
FipsColumn(old, prev, i, nk) ==
  [j \in 0..3 |->
     Plus(old[j],
          IF i % nk = 0 THEN Plus(SBox(prev[(j + 1) % 4]), IF j = 0 THEN Rcon(i \div nk) ELSE 0)
          ELSE IF nk = 8 /\ i % nk = 4 THEN SBox(prev[j])
          ELSE prev[j])]
=============================================================================
