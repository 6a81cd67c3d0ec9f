----------------------------- MODULE OaesMessage -----------------------------
(***************************************************************************)
(* The formats of OpenAES, as functions on sequences of bytes: messages    *)
(* (oaes_encrypt and oaes_decrypt of openaes/src/oaes_lib.c), key files    *)
(* (oaes_key_export, oaes_key_import), and base64                          *)
(* (openaes/src/oaes_base64.c).                                            *)
(*                                                                         *)
(* A message is a header of one block, the initialisation vector, and the  *)
(* data in whole blocks.  Of the header only options and flags count, its  *)
(* first bytes here; the rest is random there and zero here.               *)
(***************************************************************************)
EXTENDS Naturals, Sequences, SequencesExt

CONSTANTS
  Block,                         \* OAES_BLOCK_SIZE
  KeyLens,                       \* 16, 24 and 32
  Cipher(_, _), Decipher(_, _),  \* oaes_encrypt_block, oaes_decrypt_block
  XorByte(_, _)

ASSUME BlockAssumption == Block \in 2..256

Byte   == 0..255
Blocks == [1..Block -> Byte]

\* What the formats rely on: exclusive or undoes itself, and so does the cipher
\* with the keys K, here on the blocks B.
XorLaws ==
  \A x, y \in Byte : XorByte(x, y) \in Byte /\ XorByte(XorByte(x, y), y) = x
CipherLaws(K, B) ==
  \A k \in K, b \in B :
    Cipher(k, b) \in Blocks /\ Decipher(k, b) \in Blocks /\ Decipher(k, Cipher(k, b)) = b

ECB == 1       \* OAES_OPTION_ECB
CBC == 2       \* OAES_OPTION_CBC
PAD == 1       \* OAES_FLAG_PAD

Zeros(n)       == [j \in 1..n |-> 0]
BlockOf(s, i)  == SubSeq(s, (i - 1) * Block + 1, i * Block)
XorBlock(s, t) == [j \in 1..Block |-> XorByte(s[j], t[j])]

\* The bytes 1, 2, ... fill the last block; a full one needs none.
Padding(m) ==
  IF Len(m) % Block = 0 THEN <<>> ELSE [j \in 1..(Block - (Len(m) % Block)) |-> j]

\* Options, flags and the initialisation vector.
Header(options, iv, m) ==
  <<options, IF Padding(m) = <<>> THEN 0 ELSE PAD>> \o Zeros(Block - 2) \o iv

\* In CBC each block is first combined with the one before it.
oaes_encrypt(options, iv, key, m) ==
  LET data == m \o Padding(m)
      n == Len(data) \div Block
      c[i \in 0..n] ==
        IF i = 0 THEN iv
        ELSE Cipher(key, IF options = CBC THEN XorBlock(BlockOf(data, i), c[i - 1])
                         ELSE BlockOf(data, i))
  IN  Header(options, iv, m) \o FlattenSeq([i \in 1..n |-> c[i]])

\* The padding that ends m, judged by its last byte: 0 if there is none.
PaddingIn(m) ==
  LET n == m[Len(m)]
  IN  IF n \in 1..(Block - 1) /\ \A j \in 1..n : m[Len(m) - n + j] = j
      THEN n ELSE 0

\* What the caller finds in its buffer.  A length that is wrong in itself
\* leaves it without one; an error in the header leaves the zeros of its
\* calloc; padding that is none leaves all of the data.  (With the flag and
\* no data the byte before the buffer is read as the last one: the high byte
\* of the size of a small heap block, 0, which is no padding.)
oaes_decrypt(key, c) ==
  LET n == (Len(c) \div Block) - 2
      options == c[1]
      flags == c[2]
      m == FlattenSeq([i \in 1..n |->
             LET b == Decipher(key, BlockOf(c, i + 2))
             IN  IF options = CBC THEN XorBlock(b, BlockOf(c, i + 1)) ELSE b])
  IN  IF Len(c) % Block # 0 \/ Len(c) < 2 * Block THEN <<>>
      ELSE IF options \notin {ECB, CBC} \/ flags \notin {0, PAD} THEN Zeros(n * Block)
      ELSE IF flags = PAD /\ m # <<>> THEN SubSeq(m, 1, Len(m) - PaddingIn(m))
      ELSE m

-----------------------------------------------------------------------------
(* Key files: of the header, the parts that oaes_key_import looks at.       *)

NoKey == <<>>

oaes_key_export(key) == <<"OAES", "version 1", "key", Len(key)>> \o key

oaes_key_import(data) ==
  IF /\ Len(data) - 4 \in KeyLens
     /\ SubSeq(data, 1, 3) = <<"OAES", "version 1", "key">>
     /\ data[4] \in KeyLens /\ data[4] = Len(data) - 4
  THEN SubSeq(data, 5, Len(data)) ELSE NoKey

-----------------------------------------------------------------------------
(* Base64.  A character is its place in the table; 64 is the zero byte that *)
(* ends the table, 65 the sign '='.                                         *)

EndOfTable == 64
EqualsSign == 65

\* The four characters for three bytes, and back.
Characters(b) ==
  <<b[1] \div 4, (b[1] % 4) * 16 + (b[2] \div 16),
    (b[2] % 16) * 4 + (b[3] \div 64), b[3] % 64>>
Bytes(s) ==
  <<(s[1] * 4 + ((s[2] \div 16) % 4)) % 256, (s[2] % 16) * 16 + ((s[3] \div 4) % 16),
    ((s[3] % 4) * 64 + s[4]) % 256>>

\* f applied to every whole group of n elements of s, and what is left over.
Grouped(f(_), s, n) ==
  FlattenSeq([i \in 1..(Len(s) \div n) |-> f(SubSeq(s, (i - 1) * n + 1, i * n))])
Remainder(s, n) == SubSeq(s, Len(s) - (Len(s) % n) + 1, Len(s))

oaes_base64_encode(in) ==
  LET rest == Remainder(in, 3)
      r == Len(rest)
  IN  Grouped(Characters, in, 3)
        \o IF r = 0 THEN <<>>
           ELSE SubSeq(Characters(rest \o Zeros(3 - r)), 1, r + 1)
                  \o [j \in 1..(3 - r) |-> EqualsSign]

\* Decoding stops at the first character that strchr does not find in the
\* table; it finds a zero byte at the table's end.  An incomplete group is
\* filled with such zero bytes.
oaes_base64_decode(in) ==
  LET stops == {i \in 1..Len(in) : in[i] > EndOfTable}
      s == IF stops = {} THEN in
           ELSE SubSeq(in, 1, (CHOOSE i \in stops : \A j \in stops : i <= j) - 1)
      rest == Remainder(s, 4)
      r == Len(rest)
  IN  Grouped(Bytes, s, 4)
        \o IF r = 0 THEN <<>>
           ELSE SubSeq(Bytes(rest \o [j \in 1..(4 - r) |-> EndOfTable]), 1, r - 1)
=============================================================================
