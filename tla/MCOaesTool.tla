----------------------------- MODULE MCOaesTool ------------------------------
(* Blocks of three bytes and a ring of two slots: the longest input fills   *)
(* the ring of aes-enc once, and that of base64-enc twice, and goes on.     *)
EXTENDS OaesTool, Bitwise

\* A permutation of the blocks for every key, and its inverse.
ToyCipher(k, b)   == <<(b[2] + k[1]) % 256, (b[3] + 3 * b[2] + Len(k)) % 256,
                       (b[1] + k[Len(k)]) % 256>>
ToyDecipher(k, b) ==
  LET b2 == (b[1] + 256 - k[1]) % 256
  IN  <<(b[3] + 256 - k[Len(k)]) % 256, b2, (b[2] + 1024 - 3 * b2 - Len(k)) % 256>>

\* Exclusive or, by a table for half bytes.
HalfXor      == [n \in 0..255 |-> (n \div 16) ^^ (n % 16)]
ToyXor(x, y) == 16 * HalfXor[16 * (x \div 16) + (y \div 16)]
                  + HalfXor[16 * (x % 16) + (y % 16)]

MCEncLen(f) == IF f = "aes" THEN 6 ELSE 3
MCDecLen(f) == IF f = "aes" THEN 12 ELSE 4

\* Whole and incomplete blocks, and data that looks like padding.
MCInputs == {<<>>, <<2>>, <<1, 0, 255, 200, 1, 2>>, <<7, 7, 7, 7, 7, 7, 7, 1>>,
             <<9, 8, 9, 8, 9, 8, 9, 8, 9, 8, 9, 8, 130>>}
MCKeys == {<<5>>, <<5, 9>>}
MCIVs  == {<<0, 17, 3>>, <<250, 1, 1>>}

\* The formats have the laws the proofs assume, for every piece of an input.
ASSUME LawsAssumption == ChunkLaws

\* And so do the toys, the cipher for some of its blocks.
ASSUME ToysAssumption == XorLaws /\ CipherLaws(MCKeys, [1..3 -> {0, 1, 2, 127, 128, 254, 255}])
=============================================================================
