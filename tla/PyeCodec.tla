------------------------------ MODULE PyeCodec ------------------------------
(***************************************************************************)
(* The .pye file format: fnEncryptFile turns a .pyc into blocks of the     *)
(* cipher with padding at the end, fnDecryptBuffer turns them back         *)
(* (src/pyconcrete_ext/pyconcrete.c).  The model is one file's way through *)
(* both, a step per library call that reads or writes data.  The loops are *)
(* driven by what stdio reports: feof() is true only after a read came up  *)
(* short because the file had ended.                                       *)
(*                                                                         *)
(* The cipher is a pair of constant operators: the key is fixed at build   *)
(* time and every block is encrypted by itself.                            *)
(***************************************************************************)
EXTENDS Naturals, Sequences

CONSTANTS
  BlockSize,        \* AES_BLOCK_SIZE
  Bytes,            \* values of a byte
  Enc(_), Dec(_),   \* oaes_encrypt_block and oaes_decrypt_block
  Faults,           \* what may go wrong, a subset of {"read"}: fread() fails
  MaxSize,          \* bound: size of the source
  MaxBlocks,        \* bound: blocks written while reads fail
  Unset             \* a byte of the result that has not been written

Offsets == 0..BlockSize - 1
Block   == [Offsets -> Bytes]

ASSUME SizeAssumption ==
  /\ BlockSize \in Nat \ {0} /\ MaxSize \in Nat /\ MaxBlocks \in Nat
  /\ 0..BlockSize \subseteq Bytes /\ Bytes \subseteq Nat /\ Unset \notin Bytes
ASSUME CipherAssumption ==
  \A b \in Block : Enc(b) \in Block /\ Dec(b) \in Block /\ Dec(Enc(b)) = b

VARIABLES
  size, src,      \* the source file: its size and its bytes
  phase,          \* what is done next
  pos, eof,       \* the stream's position and its end-of-file indicator
  got,            \* s: what the last fread() returned
  buf,            \* buf
  fragment,       \* is_last_block_fragment
  dest,           \* the blocks of the .pye
  last, padding,  \* last_block and padding_size
  plainSize, plain,  \* plain_buf_size and plain_buf
  proc, cur       \* proc_size, and the block cur_cipher points at

encVars == <<pos, eof, got, buf, fragment, dest>>
decVars == <<last, padding, plainSize, plain, proc, cur>>
vars == <<size, src, phase, pos, eof, got, buf, fragment, dest, last, padding,
          plainSize, plain, proc, cur>>

Zeros  == [i \in Offsets |-> 0]
Phases == {"read", "encrypt", "encrypted", "decrypt", "done"}

Init ==
  /\ size \in 0..MaxSize
  /\ src \in [0..size - 1 -> Bytes]
  /\ phase = "read"
  /\ pos = 0 /\ eof = FALSE /\ got = 0
  /\ buf = Zeros
  /\ fragment = FALSE
  /\ dest = <<>>
  /\ last = Zeros /\ padding = 0
  /\ plainSize = 0 /\ plain = [i \in {} |-> Unset]
  /\ proc = 0 /\ cur = 1

-----------------------------------------------------------------------------
(* fnEncryptFile.                                                           *)

\* fread() of one block.  It returns less than a block at the end of the
\* file, or, without the end-of-file indicator, when reading fails.
FRead ==
  /\ phase = "read" /\ ~eof
  /\ \E n \in 0..BlockSize :
       /\ pos + n <= size
       /\ \/ n = BlockSize /\ eof' = FALSE
          \/ n < BlockSize /\ pos + n = size /\ eof' = TRUE
          \/ "read" \in Faults /\ Len(dest) < MaxBlocks /\ n < BlockSize /\ eof' = FALSE
       /\ got' = n
       /\ buf' = [i \in Offsets |-> IF i < n THEN src[pos + i] ELSE buf[i]]
       /\ pos' = pos + n
  /\ phase' = "encrypt"
  /\ UNCHANGED <<size, src, fragment, dest, decVars>>

\* Mutant: a short block is filled up with the number of bytes it has.
PadWithCount ==
  LET padded == [i \in Offsets |-> IF i < got THEN buf[i] ELSE got] IN
  /\ phase = "encrypt"
  /\ buf' = Enc(padded)
  /\ dest' = Append(dest, Enc(padded))
  /\ fragment' = (fragment \/ got # BlockSize)
  /\ phase' = "read"
  /\ UNCHANGED <<size, src, pos, eof, got, decVars>>

\* A short block is filled up with the number of bytes that are missing.
EncryptBlock ==
  LET padded == [i \in Offsets |-> IF i < got THEN buf[i] ELSE BlockSize - got] IN
  /\ phase = "encrypt"
  /\ buf' = Enc(padded)
  /\ dest' = Append(dest, Enc(padded))
  /\ fragment' = (fragment \/ got # BlockSize)
  /\ phase' = "read"
  /\ UNCHANGED <<size, src, pos, eof, got, decVars>>

\* After the loop: a whole block of padding unless one block was short.
CloseFile ==
  /\ phase = "read" /\ eof
  /\ dest' = IF fragment THEN dest ELSE Append(dest, Enc([i \in Offsets |-> BlockSize]))
  /\ phase' = "encrypted"
  /\ UNCHANGED <<size, src, pos, eof, got, buf, fragment, decVars>>

-----------------------------------------------------------------------------
(* fnDecryptBuffer on the blocks that were written, a whole number of them. *)

\* Mutant: the size of the padding is taken from the first byte.
PaddingFromFirst ==
  /\ phase = "encrypted"
  /\ last' = Dec(dest[Len(dest)])
  /\ padding' = last'[0]
  /\ plainSize' = BlockSize * Len(dest) - padding'
  /\ plain' = [i \in 0..plainSize' - 1 |-> Unset]
  /\ proc' = 0 /\ cur' = 1
  /\ phase' = "decrypt"
  /\ UNCHANGED <<size, src, encVars>>

\* The last block comes first: its last byte is the size of the padding.
DecryptLast ==
  /\ phase = "encrypted"
  /\ last' = Dec(dest[Len(dest)])
  /\ padding' = last'[BlockSize - 1]
  /\ plainSize' = BlockSize * Len(dest) - padding'
  /\ plain' = [i \in 0..plainSize' - 1 |-> Unset]
  /\ proc' = 0 /\ cur' = 1
  /\ phase' = "decrypt"
  /\ UNCHANGED <<size, src, encVars>>

\* Mutant: the ciphertext pointer stays behind.
SameCipherBlock ==
  /\ phase = "decrypt"
  /\ proc + BlockSize <= plainSize
  /\ plain' = [i \in 0..plainSize - 1 |->
                 IF i \in proc..proc + BlockSize - 1 THEN Dec(dest[cur])[i - proc]
                                                     ELSE plain[i]]
  /\ proc' = proc + BlockSize /\ cur' = cur
  /\ UNCHANGED <<size, src, phase, encVars, last, padding, plainSize>>

\* Mutant: the loop does not count the bytes it has processed.
NoProgress ==
  /\ phase = "decrypt"
  /\ proc + BlockSize <= plainSize
  /\ plain' = [i \in 0..plainSize - 1 |->
                 IF i \in proc..proc + BlockSize - 1 THEN Dec(dest[cur])[i - proc]
                                                     ELSE plain[i]]
  /\ UNCHANGED <<size, src, phase, encVars, last, padding, plainSize, proc, cur>>

\* One block, as long as a whole one fits into the result.
DecryptBlock ==
  /\ phase = "decrypt"
  /\ proc + BlockSize <= plainSize
  /\ plain' = [i \in 0..plainSize - 1 |->
                 IF i \in proc..proc + BlockSize - 1 THEN Dec(dest[cur])[i - proc]
                                                     ELSE plain[i]]
  /\ proc' = proc + BlockSize /\ cur' = cur + 1
  /\ UNCHANGED <<size, src, phase, encVars, last, padding, plainSize>>

\* The rest of the last block.
DecryptTail ==
  /\ phase = "decrypt"
  /\ proc + BlockSize > plainSize
  /\ plain' = [i \in 0..plainSize - 1 |->
                 IF padding < BlockSize /\ i \in proc..proc + (BlockSize - padding) - 1
                   THEN last[i - proc] ELSE plain[i]]
  /\ phase' = "done"
  /\ UNCHANGED <<size, src, encVars, last, padding, plainSize, proc, cur>>

Encrypt == FRead \/ EncryptBlock \/ CloseFile
Decrypt == DecryptLast \/ DecryptBlock \/ DecryptTail

Done == phase = "done" /\ UNCHANGED vars

Next == Encrypt \/ Decrypt \/ Done

Spec == Init /\ [][Next]_vars

\* Nothing but the calls' own results decides whether the functions go on.
FairSpec == Spec /\ WF_vars(Encrypt \/ Decrypt)

-----------------------------------------------------------------------------
TypeOK ==
  /\ size \in 0..MaxSize /\ src \in [0..size - 1 -> Bytes]
  /\ phase \in Phases
  /\ pos \in 0..size /\ eof \in BOOLEAN /\ got \in 0..BlockSize
  /\ buf \in Block /\ fragment \in BOOLEAN
  /\ dest \in Seq(Block)
  /\ last \in Block /\ padding \in Bytes
  /\ plainSize \in Nat /\ plain \in [0..plainSize - 1 -> Bytes \union {Unset}]
  /\ proc \in Nat /\ cur \in Nat

\* The format, defined from the source at once: every block of it, the last
\* one filled up with the number of missing bytes, which is never zero.
Padded(k) ==
  [i \in Offsets |->
     IF BlockSize * (k - 1) + i < size THEN src[BlockSize * (k - 1) + i]
                                       ELSE BlockSize - (size % BlockSize)]

Reference == [k \in 1..(size \div BlockSize) + 1 |-> Enc(Padded(k))]

\* The loop over fread() writes the format: it writes the padding once,
\* also when the source ends at the end of a block.
WritesFormat == phase \in {"encrypted", "decrypt", "done"} => dest = Reference

\* pyconcrete_module.c 30: "Encrypt whole file".  What was encrypted comes
\* back: the same bytes, and as many of them.
RoundTrip == phase = "done" => plainSize = size /\ plain = src

\* The rest of the last block ends where the result ends: nothing of the
\* result is left unset and nothing is written behind it.
TailFits ==
  phase = "decrypt" /\ proc + BlockSize > plainSize
    => proc + (BlockSize - padding) = plainSize

\* Both loops end.
Terminates == <>(phase = "done")
=============================================================================
