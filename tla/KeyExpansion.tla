----------------------------- MODULE KeyExpansion -----------------------------
(***************************************************************************)
(* oaes_key_expand of src/pyconcrete_ext/openaes/src/oaes_lib.c, over the  *)
(* bytes, sum and table of AesBlock.  A key is the sequence of its bytes,  *)
(* an expanded key a sequence of columns, a column a sequence of four      *)
(* bytes.                                                                  *)
(***************************************************************************)
EXTENDS AesBlock, Sequences

gf_8 == <<1, 2, 4, 8, 16, 32, 64, 128, 27, 54>>

KeyBase(data) == Len(data) \div 4
NumKeys(data) == KeyBase(data) + 7

RotLeft(word) == <<word[2], word[3], word[4], word[1]>>
SubWord(word) == <<Sub(word[1]), Sub(word[2]), Sub(word[3]), Sub(word[4])>>
XorWord(v, w) == <<Add(v[1], w[1]), Add(v[2], w[2]), Add(v[3], w[3]), Add(v[4], w[4])>>

\* Mutant: columns in the middle of a long key are not substituted.
TransformOnce(word, n, base) ==
  IF n % base = 0 THEN XorWord(SubWord(RotLeft(word)), <<gf_8[n \div base], 0, 0, 0>>) ELSE word

\* What is done to column n - 1 before it is added to column n - base.
Transform(word, n, base) ==
  IF n % base = 0 THEN XorWord(SubWord(RotLeft(word)), <<gf_8[n \div base], 0, 0, 0>>)
  ELSE IF base > 6 /\ n % base = 4 THEN SubWord(word)
  ELSE word

\* The columns 0 .. n - 1 are there, and the next is n.
AppendColumn(columns, base) ==
  LET n == Len(columns)
  IN Append(columns, XorWord(columns[n - base + 1], Transform(columns[n], n, base)))

\* The first columns are the key.
FirstColumns(data) == [n \in 1..KeyBase(data) |-> SubSeq(data, 4 * n - 3, 4 * n)]

\* The loop: so many columns, from those of the key on.
Columns(data, total) ==
  LET base == KeyBase(data)
      columns[n \in base..total] ==
        IF n = base THEN FirstColumns(data) ELSE AppendColumn(columns[n - 1], base)
  IN columns[total]

\* exp_data, as num_keys round keys of 16 bytes.
ExpandKey(data) ==
  LET columns == Columns(data, 4 * NumKeys(data))
  IN [num_keys |-> NumKeys(data), data |-> data,
      exp |-> [r \in 0..NumKeys(data) - 1 |->
                 [j \in Offsets |-> columns[4 * r + (j \div 4) + 1][(j % 4) + 1]]]]
=============================================================================
