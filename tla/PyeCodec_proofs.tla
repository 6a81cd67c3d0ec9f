-------------------------- MODULE PyeCodec_proofs --------------------------
(***************************************************************************)
(* Proofs about PyeCodec, for every block size, every file and every       *)
(* cipher whose decryption inverts its encryption.                         *)
(*                                                                         *)
(* LoopInv, which needs no assumption about the reads, bounds the loops:   *)
(* the padding is between 1 and a block, and the result and the number of  *)
(* bytes processed keep step with the blocks.  ContentInv adds what the    *)
(* blocks hold when no read fails.                                         *)
(***************************************************************************)
EXTENDS PyeCodec, Integers, TLAPS

USE SizeAssumption DEF SizeAssumption

-----------------------------------------------------------------------------
(* Arithmetic of blocks.                                                    *)

\* A block more is BlockSize bytes more.
LEMMA NextBlock ==
  ASSUME NEW B \in Nat \ {0}, NEW k \in Nat
  PROVE  B * (k + 1) = B * k + B /\ B * k \in Nat
  BY SMT

\* Blocks do not overlap.
LEMMA BlocksApart ==
  ASSUME NEW B \in Nat \ {0}, NEW k \in Nat, NEW n \in Nat, k < n
  PROVE  B * k + B <= B * n
  BY SMT

\* Division with remainder is what its name says.
LEMMA Divided ==
  ASSUME NEW B \in Nat \ {0}, NEW s \in Nat
  PROVE  s \div B \in Nat /\ s % B \in 0..B - 1 /\ s = B * (s \div B) + (s % B)
  BY SMT

\* ... and there is only one.
LEMMA DivisionUnique ==
  ASSUME NEW B \in Nat \ {0}, NEW n \in Nat, NEW r \in 0..B - 1, NEW s \in Nat,
         s = B * n + r
  PROVE  s \div B = n /\ s % B = r
<1>1. s \div B = n
  BY SMT
<1>2. B * n = B * (s \div B) /\ B * n \in Nat
  BY <1>1, SMT
<1>3. s % B \in 0..B - 1 /\ s = B * (s \div B) + (s % B)
  BY Divided
<1> QED
  BY <1>1, <1>2, <1>3, SMT

\* The same for blocks of the cipher.
LEMMA LastBlock ==
  ASSUME NEW n \in Nat, NEW r \in 0..BlockSize - 1, NEW s \in Nat,
         s = BlockSize * n + r
  PROVE  s \div BlockSize = n /\ s % BlockSize = r
<1>1. BlockSize \in Nat \ {0}
  OBVIOUS
<1> QED
  BY <1>1, DivisionUnique, SMT

-----------------------------------------------------------------------------
(* Types and loops.                                                         *)

\* The last block that was written ends with the size of the padding.
Closed == Len(dest) > 0 /\ Dec(dest[Len(dest)])[BlockSize - 1] \in 1..BlockSize

LoopInv ==
  /\ TypeOK
  /\ phase = "encrypt" /\ eof => got < BlockSize
  /\ phase = "read" /\ eof => fragment /\ Closed
  /\ phase = "encrypted" => Closed
  /\ phase = "decrypt" =>
       /\ padding \in 1..BlockSize
       /\ plainSize = BlockSize * Len(dest) - padding
       /\ cur \in 1..Len(dest)
       /\ proc = BlockSize * (cur - 1)

LEMMA LoopInit == Init => LoopInv
<1> SUFFICES ASSUME Init PROVE LoopInv
  OBVIOUS
<1>1. Zeros \in Block
  BY DEF Zeros, Block, Offsets
<1>2. plain \in [0..plainSize - 1 -> Bytes \union {Unset}]
  BY DEF Init
<1>3. dest \in Seq(Block)
  BY DEF Init
<1>4. 0 \in Bytes
  OBVIOUS
<1>5. TypeOK
  <2>1. size \in 0..MaxSize /\ src \in [0..size - 1 -> Bytes] /\ pos \in 0..size
    BY DEF Init
  <2>2. eof \in BOOLEAN
    BY DEF Init
  <2>3. fragment \in BOOLEAN
    BY DEF Init
  <2> QED
    BY <1>1, <1>2, <1>3, <1>4, <2>1, <2>2, <2>3 DEF Init, TypeOK, Phases
<1> QED
  BY <1>5 DEF Init, LoopInv

LEMMA LoopStep == LoopInv /\ [Next]_vars => LoopInv'
<1> SUFFICES ASSUME LoopInv, [Next]_vars PROVE LoopInv'
  OBVIOUS
<1> USE DEF LoopInv, TypeOK, Closed, Phases, encVars, decVars
<1>1. CASE FRead
  <2>1. src \in [0..size - 1 -> Bytes] /\ size \in Nat /\ pos \in Nat /\ got' \in 0..BlockSize
    BY <1>1 DEF FRead
  <2>2. buf' \in Block
    BY <1>1, <2>1 DEF FRead, Block, Offsets
  <2>3. pos' \in 0..size
    BY <1>1, <2>1 DEF FRead
  <2>6. eof' \in BOOLEAN
    BY <1>1 DEF FRead
  <2>7. eof' => got' < BlockSize
    BY <1>1, <2>1 DEF FRead
  <2>4. phase' = "encrypt" /\ UNCHANGED <<size, src, fragment, dest, last, padding,
                                          plainSize, plain, proc, cur>>
    BY <1>1 DEF FRead
  <2>5. TypeOK'
    BY <2>1, <2>2, <2>3, <2>4, <2>6
  <2> QED
    BY <2>4, <2>5, <2>7
<1>2. CASE EncryptBlock
  <2> DEFINE padded == [i \in Offsets |-> IF i < got THEN buf[i] ELSE BlockSize - got]
  <2>1. padded \in Block
    <3>1. got \in 0..BlockSize /\ buf \in [Offsets -> Bytes]
      BY DEF Block
    <3>2. \A i \in Offsets : (IF i < got THEN buf[i] ELSE BlockSize - got) \in Bytes
      BY <3>1 DEF Offsets
    <3> QED
      BY <3>2 DEF Block
  <2>2. Enc(padded) \in Block /\ Dec(Enc(padded)) = padded
    BY <2>1, CipherAssumption DEF CipherAssumption
  <2>3. buf' = Enc(padded) /\ dest' = Append(dest, Enc(padded))
    BY <1>2 DEF EncryptBlock
  <2>4. dest' \in Seq(Block) /\ Len(dest') = Len(dest) + 1 /\ dest'[Len(dest')] = Enc(padded)
    BY <2>2, <2>3
  <2>5. got < BlockSize => padded[BlockSize - 1] \in 1..BlockSize
    BY DEF Offsets
  <2> HIDE DEF padded
  <2>6. /\ phase = "encrypt" /\ phase' = "read" /\ fragment' = (fragment \/ got # BlockSize)
        /\ UNCHANGED <<size, src, pos, eof, got, last, padding, plainSize, plain, proc, cur>>
    BY <1>2 DEF EncryptBlock
  <2>7. eof' => fragment' /\ Closed'
    <3> SUFFICES ASSUME eof' PROVE fragment' /\ Closed'
      OBVIOUS
    <3>1. got < BlockSize
      BY <2>6
    <3>2. fragment'
      <4>1. got # BlockSize
        BY <3>1
      <4> QED
        BY <2>6, <4>1, Zenon
    <3> QED
      BY <2>2, <2>4, <2>5, <3>1, <3>2
  <2>9. fragment' \in BOOLEAN
    BY <2>6
  <2>8. TypeOK'
    BY <2>2, <2>3, <2>4, <2>6, <2>9
  <2> QED
    BY <2>6, <2>7, <2>8
<1>3. CASE CloseFile
  BY <1>3 DEF CloseFile
<1>4. CASE DecryptLast
  <2>1. last' = Dec(dest[Len(dest)]) /\ last' \in Block /\ padding' = last'[BlockSize - 1]
    BY <1>4, CipherAssumption DEF DecryptLast, CipherAssumption
  <2>2. padding' \in 1..BlockSize /\ padding' \in Bytes
    BY <1>4, <2>1 DEF DecryptLast
  <2>3. BlockSize * Len(dest) >= BlockSize
    <3>1. Len(dest) \in Nat /\ 0 < Len(dest)
      BY <1>4 DEF DecryptLast
    <3>2. BlockSize * 0 + BlockSize <= BlockSize * Len(dest)
      BY <3>1, BlocksApart
    <3> QED
      BY <3>1, <3>2, NextBlock
  <2>4. plainSize' \in Nat /\ plain' \in [0..plainSize' - 1 -> Bytes \union {Unset}]
    BY <1>4, <2>2, <2>3, SMTT(60) DEF DecryptLast
  <2> QED
    BY <1>4, <2>1, <2>2, <2>4 DEF DecryptLast
<1>5. CASE DecryptBlock
  <2>1. dest[cur] \in Block /\ Dec(dest[cur]) \in Block
    BY <1>5, CipherAssumption, SMTT(60) DEF DecryptBlock, CipherAssumption
  <2>2. plain' \in [0..plainSize - 1 -> Bytes \union {Unset}]
    <3>1. proc \in Nat /\ plain \in [0..plainSize - 1 -> Bytes \union {Unset}]
      BY <1>5 DEF DecryptBlock
    <3>2. ASSUME NEW i \in proc..proc + BlockSize - 1
          PROVE  Dec(dest[cur])[i - proc] \in Bytes
      BY <2>1, <3>1 DEF Block, Offsets
    <3> QED
      BY <1>5, <3>1, <3>2 DEF DecryptBlock
  <2>3. BlockSize * cur = proc + BlockSize
    BY <1>5, NextBlock, SMT DEF DecryptBlock
  <2>4. cur < Len(dest)
    <3>1. SUFFICES ASSUME cur = Len(dest) PROVE FALSE
      BY <1>5 DEF DecryptBlock
    <3> QED
      BY <1>5, <2>3, <3>1 DEF DecryptBlock
  <2>5. proc' = BlockSize * (cur' - 1) /\ proc' \in Nat /\ cur' \in 1..Len(dest)
    BY <1>5, <2>3, <2>4 DEF DecryptBlock
  <2>6. UNCHANGED <<size, src, phase, pos, eof, got, buf, fragment, dest, last, padding, plainSize>>
    BY <1>5 DEF DecryptBlock
  <2>8. eof' \in BOOLEAN /\ fragment' \in BOOLEAN
    BY <2>6
  <2>7. TypeOK'
    <3>1. plain' \in [0..plainSize' - 1 -> Bytes \union {Unset}]
      BY <2>2, <2>6
    <3>2. cur' \in Nat /\ proc' \in Nat
      <4>1. \A n : 1..n \subseteq Nat
        OBVIOUS
      <4> HIDE DEF LoopInv
      <4> QED
        BY <2>5, <4>1
    <3> QED
      BY <2>6, <2>8, <3>1, <3>2
  <2> QED
    BY <1>5, <2>5, <2>6, <2>7 DEF DecryptBlock
<1>6. CASE DecryptTail
  <2>1. plain' \in [0..plainSize - 1 -> Bytes \union {Unset}]
    BY <1>6 DEF DecryptTail, Block, Offsets
  <2> QED
    BY <1>6, <2>1 DEF DecryptTail
<1>7. CASE UNCHANGED vars
  BY <1>7 DEF vars
<1> QED
  BY <1>1, <1>2, <1>3, <1>4, <1>5, <1>6, <1>7 DEF Next, Encrypt, Decrypt, Done

LEMMA LoopAlways == Spec => []LoopInv
  BY LoopInit, LoopStep, PTL DEF Spec

\* Every variable of the two functions keeps its type, also when reads fail.
THEOREM TypeCorrect == Spec => []TypeOK
<1>1. LoopInv => TypeOK
  BY DEF LoopInv
<1> QED
  BY <1>1, LoopAlways, PTL

\* What is left after the loop is what the last block has besides padding.
LEMMA LoopFits == LoopInv => TailFits
<1> SUFFICES ASSUME LoopInv, phase = "decrypt", proc + BlockSize > plainSize
             PROVE  proc + (BlockSize - padding) = plainSize
  BY DEF TailFits
<1>1. BlockSize * cur = proc + BlockSize /\ BlockSize * cur \in Nat /\ proc \in Nat
  BY NextBlock, SMT DEF LoopInv, TypeOK
<1>2. cur = Len(dest)
  <2>1. SUFFICES ASSUME cur < Len(dest) PROVE FALSE
    BY DEF LoopInv, TypeOK
  <2>2. cur \in Nat /\ Len(dest) \in Nat
    BY DEF LoopInv, TypeOK
  <2>3. BlockSize * cur + BlockSize <= BlockSize * Len(dest) /\ BlockSize * Len(dest) \in Nat
    BY <2>1, <2>2, BlocksApart, NextBlock
  <2> QED
    BY <1>1, <2>3 DEF LoopInv, TypeOK
<1> QED
  BY <1>1, <1>2 DEF LoopInv, TypeOK

\* fnDecryptBuffer's last copy fits: it ends where the result ends, for
\* every file that fnEncryptFile writes, whatever its reads returned.
THEOREM TailAlwaysFits == Spec => []TailFits
  BY LoopFits, LoopAlways, PTL

-----------------------------------------------------------------------------
(* Content, when no read fails.                                             *)

Intact == "read" \notin Faults

Blocks == (size \div BlockSize) + 1

\* What the blocks and the result hold, phase by phase.
ContentInv ==
  /\ \A k \in 1..Len(dest) : dest[k] = Enc(Padded(k))
  /\ phase = "read" /\ ~eof => pos = BlockSize * Len(dest)
  /\ phase = "encrypt" =>
       /\ pos = BlockSize * Len(dest) + got
       /\ \A i \in 0..got - 1 : buf[i] = src[BlockSize * Len(dest) + i]
       /\ got = BlockSize \/ pos = size
       /\ ~eof => got = BlockSize
  /\ phase = "read" /\ eof => fragment
  /\ (phase = "read" /\ eof) \/ phase \in {"encrypted", "decrypt", "done"}
       => Len(dest) = Blocks
  /\ phase \in {"decrypt", "done"} =>
       /\ last = Padded(Blocks)
       /\ padding = BlockSize - (size % BlockSize)
       /\ plainSize = size
  /\ phase = "decrypt" => \A i \in 0..proc - 1 : i < size => plain[i] = src[i]
  /\ phase = "done" => plain = src

\* A block before the last holds bytes of the source only, the last one the
\* rest of it.
LEMMA PaddedBlock ==
  ASSUME LoopInv, NEW k \in 1..Blocks
  PROVE  /\ Padded(k) \in Block /\ Dec(Enc(Padded(k))) = Padded(k)
         /\ Padded(Blocks)[BlockSize - 1] = BlockSize - (size % BlockSize)
<1>0. size \in Nat /\ src \in [0..size - 1 -> Bytes]
  BY DEF LoopInv, TypeOK
<1>1. size \div BlockSize \in Nat /\ size % BlockSize \in 0..BlockSize - 1
      /\ size = BlockSize * (size \div BlockSize) + (size % BlockSize)
  BY <1>0, Divided
<1>2. BlockSize * (k - 1) \in Nat
  BY <1>1, NextBlock DEF Blocks
<1>3. \A i \in Offsets : (IF BlockSize * (k - 1) + i < size
                            THEN src[BlockSize * (k - 1) + i]
                            ELSE BlockSize - (size % BlockSize)) \in Bytes
  BY <1>0, <1>1, <1>2 DEF Offsets
<1>4. Padded(k) \in Block
  BY <1>3 DEF Padded, Block
<1>5. Padded(Blocks)[BlockSize - 1] = BlockSize - (size % BlockSize)
  <2>1. BlockSize - 1 \in Offsets
    BY DEF Offsets
  <2>2. ~(BlockSize * (Blocks - 1) + (BlockSize - 1) < size)
    <3>1. Blocks - 1 = size \div BlockSize
      BY <1>1 DEF Blocks
    <3>2. BlockSize * (size \div BlockSize) \in Nat
      BY <1>1, NextBlock
    <3> QED
      BY <1>0, <1>1, <3>1, <3>2
  <2> QED
    BY <2>1, <2>2 DEF Padded
<1> QED
  BY <1>4, <1>5, CipherAssumption DEF CipherAssumption

LEMMA ContentInit == Init => ContentInv
<1> SUFFICES ASSUME Init PROVE ContentInv
  OBVIOUS
<1>1. phase = "read" /\ dest = <<>> /\ pos = 0 /\ ~eof
  BY DEF Init
<1>2. Len(dest) = 0
  BY <1>1
<1>3. pos = BlockSize * Len(dest)
  BY <1>1, <1>2
<1> QED
  BY <1>1, <1>2, <1>3 DEF ContentInv

LEMMA ContentStep ==
  Intact /\ LoopInv /\ LoopInv' /\ ContentInv /\ [Next]_vars => ContentInv'
<1> SUFFICES ASSUME Intact, LoopInv, LoopInv', ContentInv, [Next]_vars
             PROVE  ContentInv'
  OBVIOUS
<1>0. /\ size \in Nat /\ src \in [0..size - 1 -> Bytes] /\ Len(dest) \in Nat
      /\ dest \in Seq(Block)
      /\ BlockSize * Len(dest) \in Nat /\ Blocks \in Nat
  <2>1. size \in Nat /\ src \in [0..size - 1 -> Bytes] /\ dest \in Seq(Block)
        /\ Len(dest) \in Nat
    BY SMTT(60) DEF LoopInv, TypeOK
  <2>2. BlockSize * Len(dest) \in Nat
    BY <2>1, NextBlock
  <2>3. size \div BlockSize \in Nat
    BY <2>1, Divided
  <2> QED
    BY <2>1, <2>2, <2>3 DEF Blocks
<1>1. CASE FRead
  <2>1. /\ phase = "read" /\ phase' = "encrypt" /\ ~eof
        /\ UNCHANGED <<size, src, dest>>
    BY <1>1 DEF FRead
  <2>2. /\ got' \in 0..BlockSize /\ pos' = pos + got' /\ pos \in Nat /\ pos' <= size
        /\ buf' = [i \in Offsets |-> IF i < got' THEN src[pos + i] ELSE buf[i]]
    BY <1>1 DEF FRead, LoopInv, TypeOK
  <2>3. got' = BlockSize \/ pos' = size
    BY <1>1 DEF FRead, Intact
  <2>4. ~eof' => got' = BlockSize
    BY <1>1 DEF FRead, Intact
  <2>5. pos = BlockSize * Len(dest)
    BY <2>1 DEF ContentInv
  <2>6. \A i \in 0..got' - 1 : buf'[i] = src[BlockSize * Len(dest) + i]
    BY <2>2, <2>5 DEF Offsets
  <2>7. \A k \in 1..Len(dest') : dest'[k] = Enc(Padded(k)')
    BY <2>1 DEF ContentInv, Padded
  <2> QED
    BY <2>1, <2>2, <2>3, <2>4, <2>5, <2>6, <2>7 DEF ContentInv
<1>2. CASE EncryptBlock
  <2> DEFINE padded == [i \in Offsets |-> IF i < got THEN buf[i] ELSE BlockSize - got]
  <2>1. /\ phase = "encrypt" /\ phase' = "read"
        /\ dest' = Append(dest, Enc(padded))
        /\ UNCHANGED <<size, src, pos, eof, got>>
    BY <1>2 DEF EncryptBlock
  <2>2. /\ got \in 0..BlockSize /\ pos \in 0..size /\ pos = BlockSize * Len(dest) + got
        /\ \A i \in 0..got - 1 : buf[i] = src[BlockSize * Len(dest) + i]
        /\ got = BlockSize \/ pos = size
    BY <2>1 DEF ContentInv, LoopInv, TypeOK
  <2>10. got < BlockSize => size \div BlockSize = Len(dest) /\ size % BlockSize = got
    <3> SUFFICES ASSUME got < BlockSize
                 PROVE  size \div BlockSize = Len(dest) /\ size % BlockSize = got
      OBVIOUS
    <3>1. got \in 0..BlockSize - 1 /\ size \in Nat /\ Len(dest) \in Nat
      BY <1>0, <2>2
    <3>2. size = BlockSize * Len(dest) + got
      BY <2>2
    <3> HIDE DEF padded
    <3> QED
      BY <3>1, <3>2, LastBlock
  <2>3. padded = Padded(Len(dest) + 1)
    <3>1. ASSUME NEW i \in Offsets
          PROVE  padded[i] = IF BlockSize * Len(dest) + i < size
                               THEN src[BlockSize * Len(dest) + i]
                               ELSE BlockSize - (size % BlockSize)
      <4>1. CASE i < got
        BY <1>0, <2>2, <4>1 DEF Offsets
      <4>2. CASE ~(i < got)
        <5>1. got < BlockSize /\ size = BlockSize * Len(dest) + got
          BY <2>2, <4>2 DEF Offsets
        <5>2. size % BlockSize = got
          BY <2>10, <5>1
        <5>3. ~(BlockSize * Len(dest) + i < size)
          BY <1>0, <2>2, <4>2, <5>1 DEF Offsets
        <5> QED
          BY <4>2, <5>2, <5>3
      <4> QED
        BY <4>1, <4>2
    <3>2. (Len(dest) + 1) - 1 = Len(dest)
      BY <1>0
    <3> QED
      BY <3>1, <3>2 DEF Padded
  <2> HIDE DEF padded
  <2>4. Len(dest') = Len(dest) + 1 /\ dest'[Len(dest) + 1] = Enc(padded)
        /\ \A k \in 1..Len(dest) : dest'[k] = dest[k]
    <3>1. Enc(padded) \in Block
      <4>1. padded \in Block
        <5>1. got \in 0..BlockSize /\ buf \in [Offsets -> Bytes]
          BY DEF LoopInv, TypeOK, Block
        <5>2. \A i \in Offsets : (IF i < got THEN buf[i] ELSE BlockSize - got) \in Bytes
          BY <5>1 DEF Offsets
        <5> QED
          BY <5>2 DEF padded, Block
      <4> QED
        BY <4>1, CipherAssumption DEF CipherAssumption
    <3> QED
      BY <1>0, <2>1, <3>1
  <2>5. \A k \in 1..Len(dest') : dest'[k] = Enc(Padded(k)')
    <3>1. ASSUME NEW k \in 1..Len(dest') PROVE dest'[k] = Enc(Padded(k))
      <4>1. CASE k = Len(dest) + 1
        BY <2>3, <2>4, <4>1
      <4>2. CASE k # Len(dest) + 1
        <5>1. k \in 1..Len(dest)
          BY <1>0, <2>4, <4>2
        <5> QED
          BY <2>4, <5>1 DEF ContentInv
      <4> QED
        BY <4>1, <4>2
    <3>2. \A k : Padded(k)' = Padded(k)
      BY <2>1 DEF Padded
    <3> QED
      BY <3>1, <3>2
  <2>6. ~eof => pos = BlockSize * Len(dest')
    <3>1. ~eof => got = BlockSize
      BY <2>1 DEF ContentInv
    <3> QED
      BY <1>0, <2>2, <2>4, <3>1, NextBlock
  <2>7. eof => fragment' /\ Len(dest') = Blocks
    <3> SUFFICES ASSUME eof PROVE fragment' /\ Len(dest') = Blocks
      OBVIOUS
    <3>1. got < BlockSize /\ size = BlockSize * Len(dest) + got
      BY <2>1, <2>2 DEF LoopInv
    <3>2. size \div BlockSize = Len(dest)
      BY <2>10, <3>1
    <3>3. fragment'
      BY <2>1 DEF LoopInv, Closed
    <3> QED
      BY <2>4, <3>2, <3>3 DEF Blocks
  <2> QED
    BY <2>1, <2>5, <2>6, <2>7 DEF ContentInv, Blocks
<1>3. CASE CloseFile
  <2>1. /\ phase = "read" /\ eof /\ phase' = "encrypted"
        /\ dest' = IF fragment THEN dest ELSE Append(dest, Enc([i \in Offsets |-> BlockSize]))
        /\ UNCHANGED <<size, src, pos, eof>>
    BY <1>3 DEF CloseFile
  <2>2. dest' = dest
    BY <2>1 DEF ContentInv
  <2> QED
    BY <2>1, <2>2 DEF ContentInv, Blocks, Padded
<1>4. CASE DecryptLast
  <2>1. /\ phase = "encrypted" /\ phase' = "decrypt"
        /\ last' = Dec(dest[Len(dest)]) /\ padding' = last'[BlockSize - 1]
        /\ plainSize' = BlockSize * Len(dest) - padding'
        /\ proc' = 0
        /\ UNCHANGED <<size, src, dest>>
    BY <1>4 DEF DecryptLast, encVars
  <2>2. Len(dest) = Blocks
    BY <2>1 DEF ContentInv
  <2>3. Blocks \in 1..Blocks /\ Blocks - 1 = size \div BlockSize
        /\ size = BlockSize * (size \div BlockSize) + (size % BlockSize)
        /\ size \div BlockSize \in Nat /\ size % BlockSize \in 0..BlockSize - 1
    BY <1>0, Divided DEF Blocks
  <2>4. dest[Len(dest)] = Enc(Padded(Blocks))
    BY <2>2, <2>3 DEF ContentInv
  <2>5. last' = Padded(Blocks) /\ padding' = BlockSize - (size % BlockSize)
    BY <2>1, <2>3, <2>4, PaddedBlock
  <2>6. plainSize' = size
    <3>1. BlockSize * Blocks = BlockSize * (size \div BlockSize) + BlockSize
          /\ BlockSize * (size \div BlockSize) \in Nat
      BY <2>3, NextBlock DEF Blocks
    <3> QED
      BY <1>0, <2>1, <2>2, <2>3, <2>5, <3>1
  <2>7. \A k \in 1..Len(dest') : dest'[k] = Enc(Padded(k)')
    BY <2>1 DEF ContentInv, Padded
  <2>8. Padded(Blocks)' = Padded(Blocks) /\ Blocks' = Blocks
    BY <2>1 DEF Padded, Blocks
  <2> QED
    BY <2>1, <2>2, <2>5, <2>6, <2>7, <2>8 DEF ContentInv, Blocks
<1>5. CASE DecryptBlock
  <2>1. /\ phase = "decrypt" /\ phase' = "decrypt"
        /\ proc + BlockSize <= plainSize /\ proc' = proc + BlockSize
        /\ plain' = [i \in 0..plainSize - 1 |->
                       IF i \in proc..proc + BlockSize - 1 THEN Dec(dest[cur])[i - proc]
                                                           ELSE plain[i]]
        /\ UNCHANGED <<size, src, dest, last, padding, plainSize>>
    BY <1>5 DEF DecryptBlock, encVars
  <2>2. /\ plainSize = size /\ Len(dest) = Blocks
        /\ proc \in Nat /\ cur \in 1..Len(dest) /\ proc = BlockSize * (cur - 1)
    BY <2>1 DEF ContentInv, LoopInv, TypeOK
  <2>3. Dec(dest[cur]) = Padded(cur)
    BY <2>2, PaddedBlock DEF ContentInv
  <2>4. ASSUME NEW i \in 0..proc' - 1, i < size
        PROVE  plain'[i] = src[i]
    <3>1. CASE i < proc
      BY <1>0, <2>1, <2>2, <3>1 DEF ContentInv
    <3>2. CASE ~(i < proc)
      <4>1. i - proc \in Offsets /\ i \in proc..proc + BlockSize - 1 /\ i \in 0..plainSize - 1
        BY <1>0, <2>1, <2>2, <2>4, <3>2 DEF Offsets
      <4>2. proc + (i - proc) = i
        BY <2>1, <2>2
      <4>3. Padded(cur)[i - proc] = src[i]
        BY <2>2, <2>4, <4>1, <4>2 DEF Padded
      <4> QED
        BY <2>1, <2>3, <4>1, <4>3
    <3> QED
      BY <3>1, <3>2
  <2>5. \A k \in 1..Len(dest') : dest'[k] = Enc(Padded(k)')
    BY <2>1 DEF ContentInv, Padded
  <2>6. Padded(Blocks)' = Padded(Blocks) /\ Blocks' = Blocks
    BY <2>1 DEF Padded, Blocks
  <2> QED
    BY <2>1, <2>2, <2>4, <2>5, <2>6 DEF ContentInv
<1>6. CASE DecryptTail
  <2>1. /\ phase = "decrypt" /\ phase' = "done"
        /\ proc + BlockSize > plainSize
        /\ plain' = [i \in 0..plainSize - 1 |->
                       IF padding < BlockSize /\ i \in proc..proc + (BlockSize - padding) - 1
                         THEN last[i - proc] ELSE plain[i]]
        /\ UNCHANGED <<size, src, dest, last, padding, plainSize>>
    BY <1>6 DEF DecryptTail, encVars
  <2>2. /\ plainSize = size /\ Len(dest) = Blocks /\ last = Padded(Blocks)
        /\ padding \in 1..BlockSize /\ padding = BlockSize - (size % BlockSize)
        /\ proc \in Nat /\ cur \in 1..Len(dest) /\ proc = BlockSize * (cur - 1)
    BY <2>1 DEF ContentInv, LoopInv, TypeOK
  <2>3. proc + (BlockSize - padding) = size
    BY <2>1, <2>2, LoopFits DEF TailFits
  <2>4. proc = BlockSize * (Blocks - 1)
    <3>1. /\ size \div BlockSize \in Nat /\ size % BlockSize \in 0..BlockSize - 1
          /\ size = BlockSize * (size \div BlockSize) + (size % BlockSize)
      BY <1>0, Divided
    <3>2. BlockSize * (size \div BlockSize) \in Nat /\ Blocks - 1 = size \div BlockSize
      BY <3>1, NextBlock DEF Blocks
    <3> QED
      BY <1>0, <2>2, <2>3, <3>1, <3>2, SMTT(60)
  <2>5. ASSUME NEW i \in 0..size - 1
        PROVE  plain'[i] = src[i]
    <3>1. CASE i < proc
      BY <1>0, <2>1, <2>2, <3>1 DEF ContentInv
    <3>2. CASE ~(i < proc)
      <4>1. i - proc \in Offsets /\ i \in proc..proc + (BlockSize - padding) - 1
            /\ padding < BlockSize
        BY <1>0, <2>2, <2>3, <3>2 DEF Offsets
      <4>2. proc + (i - proc) = i
        BY <2>2
      <4>3. Padded(Blocks)[i - proc] = src[i]
        BY <1>0, <2>4, <4>1, <4>2 DEF Padded
      <4> QED
        BY <2>1, <2>2, <4>1, <4>3
    <3> QED
      BY <3>1, <3>2
  <2>6. plain' = src
    BY <1>0, <2>1, <2>2, <2>5
  <2>7. \A k \in 1..Len(dest') : dest'[k] = Enc(Padded(k)')
    BY <2>1 DEF ContentInv, Padded
  <2>8. Padded(Blocks)' = Padded(Blocks) /\ Blocks' = Blocks
    BY <2>1 DEF Padded, Blocks
  <2> QED
    BY <2>1, <2>2, <2>6, <2>7, <2>8 DEF ContentInv
<1>7. CASE UNCHANGED vars
  BY <1>7 DEF vars, ContentInv, Blocks, Padded
<1> QED
  BY <1>1, <1>2, <1>3, <1>4, <1>5, <1>6, <1>7 DEF Next, Encrypt, Decrypt, Done

LEMMA ContentAlways ==
  ASSUME Intact
  PROVE  Spec => []ContentInv
<1>1. LoopInv /\ LoopInv' /\ ContentInv /\ [Next]_vars => ContentInv'
  BY ContentStep
<1> QED
  BY <1>1, LoopAlways, ContentInit, PTL DEF Spec

\* fnEncryptFile writes the format: the blocks of the source, and the padding
\* once, whatever the size of the file.
THEOREM FormatIsWritten ==
  ASSUME Intact
  PROVE  Spec => []WritesFormat
<1>1. LoopInv /\ ContentInv => WritesFormat
  <2> SUFFICES ASSUME LoopInv, ContentInv, phase \in {"encrypted", "decrypt", "done"}
               PROVE  dest = Reference
    BY DEF WritesFormat
  <2>1. dest \in Seq(Block) /\ Len(dest) = Blocks
    BY DEF LoopInv, TypeOK, ContentInv
  <2>2. dest = [k \in 1..Len(dest) |-> dest[k]]
    BY <2>1
  <2> QED
    BY <2>1, <2>2 DEF ContentInv, Reference, Blocks
<1>2. Spec => []ContentInv
  BY ContentAlways
<1> QED
  BY <1>1, <1>2, LoopAlways, PTL

\* fnDecryptBuffer gives back what fnEncryptFile was given.
THEOREM DecryptionInverts ==
  ASSUME Intact
  PROVE  Spec => []RoundTrip
<1>1. ContentInv => RoundTrip
  BY DEF ContentInv, RoundTrip
<1>2. Spec => []ContentInv
  BY ContentAlways
<1> QED
  BY <1>1, <1>2, PTL
=============================================================================
