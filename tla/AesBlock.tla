------------------------------- MODULE AesBlock -------------------------------
(***************************************************************************)
(* One block's way through oaes_encrypt_block and oaes_decrypt_block of    *)
(* src/pyconcrete_ext/openaes/src/oaes_lib.c with one expanded key, a step *)
(* per transformation of the block.  Bytes, their sum, the tables and the  *)
(* keys are parameters; the loops, the order of the transformations, the   *)
(* round keys they use and the columns and rows are the code's.            *)
(***************************************************************************)
EXTENDS AesColumn

CONSTANTS
  Sub(_), InvSub(_),  \* oaes_sub_byte, oaes_inv_sub_byte
  Keys,               \* expanded keys
  Inputs              \* blocks to encrypt

Offsets == 0..15    \* OAES_BLOCK_SIZE
Block   == [Offsets -> Byte]

ASSUME KeysAssumption ==
  \A k \in Keys : /\ k.num_keys \in Nat /\ k.num_keys >= 2
                  /\ \A r \in 0..k.num_keys - 1 : k.exp[r] \in Block
ASSUME InputsAssumption == \A b \in Inputs : b \in Block

VARIABLES
  key,    \* ctx->key
  c,      \* the block
  i,      \* _i, the round
  step,   \* what is done to the block next
  input,  \* history: the block before encryption
  trail   \* history: the block after each round of the encryption

vars == <<key, c, i, step, input, trail>>

EncSteps == {"addFirst", "sub", "shift", "mix", "add"}
DecSteps == {"encrypted", "invShift", "invSub", "invAdd", "invMix"}
Steps    == EncSteps \union DecSteps \union {"decrypted"}

\* The last round key, num_keys - 1.
LastRound == key.num_keys - 1

Init ==
  /\ key \in Keys /\ input \in Inputs
  /\ c = input
  /\ i = 0
  /\ step = "addFirst"
  /\ trail = [r \in 0..LastRound |-> input]

XorKey(b, w) == [j \in Offsets |-> Add(b[j], w[j])]
AddKey(b, r) == XorKey(b, key.exp[r])

\* Mutant: the rows are shifted the other way.
ShiftRowsRight(b) ==
  LET from == <<0, 13, 10, 7, 4, 1, 14, 11, 8, 5, 2, 15, 12, 9, 6, 3>>
  IN [j \in Offsets |-> b[from[j + 1]]]

ShiftRows(b) ==
  LET from == <<0, 5, 10, 15, 4, 9, 14, 3, 8, 13, 2, 7, 12, 1, 6, 11>>
  IN [j \in Offsets |-> b[from[j + 1]]]

InvShiftRows(b) ==
  LET from == <<0, 13, 10, 7, 4, 1, 14, 11, 8, 5, 2, 15, 12, 9, 6, 3>>
  IN [j \in Offsets |-> b[from[j + 1]]]

\* c + 4 * k as a column.
ColumnOf(b, k) == [j \in 0..3 |-> b[4 * k + j]]
MixColumns(b)    == [j \in Offsets |-> MixCols(ColumnOf(b, j \div 4))[j % 4]]
InvMixColumns(b) == [j \in Offsets |-> InvMixCols(ColumnOf(b, j \div 4))[j % 4]]

SubAll(b)    == [j \in Offsets |-> Sub(b[j])]
InvSubAll(b) == [j \in Offsets |-> InvSub(b[j])]

Become(block, next) == c' = block /\ step' = next

-----------------------------------------------------------------------------
(* oaes_encrypt_block.                                                      *)

AddFirst ==
  /\ step = "addFirst"
  /\ Become(AddKey(c, 0), "sub")
  /\ trail' = [trail EXCEPT ![0] = c']
  /\ i' = 1
  /\ UNCHANGED <<key, input>>

SubBytes ==
  /\ step = "sub"
  /\ Become(SubAll(c), "shift")
  /\ UNCHANGED <<key, i, input, trail>>

\* The round after the loop has no MixColumns.
Shift ==
  /\ step = "shift"
  /\ Become(ShiftRows(c), IF i < LastRound THEN "mix" ELSE "add")
  /\ UNCHANGED <<key, i, input, trail>>

Mix ==
  /\ step = "mix"
  /\ Become(MixColumns(c), "add")
  /\ UNCHANGED <<key, i, input, trail>>

AddRoundKey ==
  /\ step = "add"
  /\ Become(AddKey(c, i), IF i < LastRound THEN "sub" ELSE "encrypted")
  /\ trail' = [trail EXCEPT ![i] = c']
  /\ i' = IF i < LastRound THEN i + 1 ELSE i
  /\ UNCHANGED <<key, input>>

-----------------------------------------------------------------------------
(* oaes_decrypt_block on what was encrypted.                                *)

AddLast ==
  /\ step = "encrypted"
  /\ Become(AddKey(c, LastRound), "invShift")
  /\ i' = LastRound - 1
  /\ UNCHANGED <<key, input, trail>>

InvShift ==
  /\ step = "invShift"
  /\ Become(InvShiftRows(c), "invSub")
  /\ UNCHANGED <<key, i, input, trail>>

InvSubBytes ==
  /\ step = "invSub"
  /\ Become(InvSubAll(c), "invAdd")
  /\ UNCHANGED <<key, i, input, trail>>

\* Mutant: the loop runs one round too far.
InvAddAlwaysMix ==
  /\ step = "invAdd"
  /\ Become(AddKey(c, i), "invMix")
  /\ UNCHANGED <<key, i, input, trail>>

\* The round after the loop, with the first round key, ends the decryption.
InvAdd ==
  /\ step = "invAdd"
  /\ Become(AddKey(c, i), IF i > 0 THEN "invMix" ELSE "decrypted")
  /\ UNCHANGED <<key, i, input, trail>>

InvMix ==
  /\ step = "invMix"
  /\ Become(InvMixColumns(c), "invShift")
  /\ i' = i - 1
  /\ UNCHANGED <<key, input, trail>>

Next ==
  \/ AddFirst \/ SubBytes \/ Shift \/ Mix \/ AddRoundKey
  \/ AddLast \/ InvShift \/ InvSubBytes \/ InvAdd \/ InvMix

Spec == Init /\ [][Next]_vars

-----------------------------------------------------------------------------
(* Both as functions of an expanded key and a block, round by round.        *)

EncRound(k, b, r) ==
  LET shifted == ShiftRows(SubAll(b))
  IN XorKey(IF r < k.num_keys - 1 THEN MixColumns(shifted) ELSE shifted, k.exp[r])

Enciphered(k, b) ==
  LET last == k.num_keys - 1
      after[r \in 0..last] ==
        IF r = 0 THEN XorKey(b, k.exp[0]) ELSE EncRound(k, after[r - 1], r)
  IN after[last]

\* The round with key r, which begins with the end of the round before.
DecRound(k, b, r) ==
  LET unmixed == IF r < k.num_keys - 2 THEN InvMixColumns(b) ELSE b
  IN XorKey(InvSubAll(InvShiftRows(unmixed)), k.exp[r])

Deciphered(k, b) ==
  LET last == k.num_keys - 1
      after[n \in 0..last] ==
        IF n = 0 THEN XorKey(b, k.exp[last]) ELSE DecRound(k, after[n - 1], last - n)
  IN after[last]

-----------------------------------------------------------------------------
TypeOK ==
  /\ key \in Keys /\ input \in Inputs
  /\ c \in Block
  /\ i \in 0..LastRound
  /\ step \in Steps
  /\ trail \in [0..LastRound -> Block]

-----------------------------------------------------------------------------
(* What decryption relies on: the sum of bytes forms a group in which every *)
(* byte is its own inverse, multiplication distributes over it, the second  *)
(* table undoes the first, and the two matrices of the column               *)
(* transformations are inverse, coefficient by coefficient.                 *)

SumLaws ==
  /\ 0 \in Byte
  /\ \A a, b \in Byte : Add(a, b) \in Byte /\ Add(a, b) = Add(b, a)
  /\ \A a \in Byte : Add(a, 0) = a /\ Add(a, a) = 0

Associates(S) == \A a, b \in Byte, d \in S : Add(Add(a, b), d) = Add(a, Add(b, d))

SubLaws == \A a \in Byte : Sub(a) \in Byte /\ InvSub(a) \in Byte /\ InvSub(Sub(a)) = a

Factors == {2, 3, 9, 11, 13, 14}

MulLaws ==
  /\ \A a \in Byte, k \in Factors : Mul(a, k) \in Byte
  /\ \A a, b \in Byte, k \in Factors : Mul(Add(a, b), k) = Add(Mul(a, k), Mul(b, k))
  /\ \A a \in Byte :
       /\ Sum4(Mul(Mul(a, 2), 14), Mul(a, 11), Mul(a, 13), Mul(Mul(a, 3), 9)) = a
       /\ Sum4(Mul(Mul(a, 3), 14), Mul(Mul(a, 2), 11), Mul(a, 13), Mul(a, 9)) = 0
       /\ Sum4(Mul(a, 14), Mul(Mul(a, 3), 11), Mul(Mul(a, 2), 13), Mul(a, 9)) = 0
       /\ Sum4(Mul(a, 14), Mul(a, 11), Mul(Mul(a, 3), 13), Mul(Mul(a, 2), 9)) = 0

\* Decryption gives back the block that was encrypted, for every number of
\* rounds.
DecryptsToInput == step = "decrypted" => c = input

\* The calls depend on nothing but key and block: they are functions that the
\* codec and the messages can take as their cipher.
CallsAreFunctions ==
  /\ step = "encrypted" => c = Enciphered(key, input)
  /\ step = "decrypted" => c = Deciphered(key, Enciphered(key, input))
=============================================================================
