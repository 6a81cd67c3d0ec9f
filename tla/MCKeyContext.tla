---------------------------- MODULE MCKeyContext ----------------------------
(* Room for one call and a half: four blocks that are lost leave too little. *)
EXTENDS KeyContext, Bitwise

CONSTANTS a1, a2, a3, a4, a5, a6

MCHeap == {a1, a2, a3, a4, a5, a6}
SomeByte == 0..255
XorByte(a, b) == a ^^ b

\* Three bytes of a key, with the smallest factor hash_key makes.
MCDigest == [j \in 0..2 |-> <<0, 255, 17>>[j + 1]]
=============================================================================
