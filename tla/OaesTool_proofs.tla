-------------------------- MODULE OaesTool_proofs --------------------------
(***************************************************************************)
(* Proofs about the formats of OaesMessage and the ring of OaesTool, for   *)
(* any block size, number of slots, input, cipher and faults.              *)
(*                                                                         *)
(* RingInv says which slots can hold a thread or its result: while main    *)
(* reads, those before i; while it writes a full ring, those from j; and   *)
(* while it writes the last ring, those from j up to i.                    *)
(***************************************************************************)
EXTENDS OaesTool, SequenceTheorems, WellFoundedInduction, TLAPS

-----------------------------------------------------------------------------
(* Induction.                                                               *)

\* A set of naturals that is not empty has a least element.
LEMMA LeastNat == ASSUME NEW T \in SUBSET Nat, T # {} PROVE \E x \in T : \A y \in T : x <= y
<1> DEFINE R == OpToRel(<, Nat)
<1>1. IsWellFoundedOn(R, Nat)
  BY NatLessThanWellFounded
<1>2. PICK x \in T : \A y \in T : ~ (<<y, x>> \in R)
  <2> HIDE DEF R
  <2> QED
    BY <1>1, WFMin
<1>3. \A y, z \in Nat : y < z => <<y, z>> \in R
  BY Zenon DEF OpToRel
<1> HIDE DEF R
<1>4. \A y \in T : ~(y < x)
  BY <1>2, <1>3
<1> QED
  BY <1>4

\* A set that has 0 and the successors of its elements has every natural.
LEMMA NatInductive == ASSUME NEW S, 0 \in S, \A n \in Nat : n \in S => n + 1 \in S PROVE Nat \subseteq S
<1> SUFFICES ASSUME Nat \ S # {} PROVE FALSE
  OBVIOUS
<1>1. PICK x \in Nat \ S : \A y \in Nat \ S : x <= y
  BY LeastNat
<1>2. x # 0 /\ x - 1 \in Nat /\ x - 1 + 1 = x
  BY <1>1
<1> QED
  BY <1>1, <1>2

\* A function defined by recursion exists.
Recursive(S, s0, step, N) == s0 \in S /\ N \in Nat /\ step \in [1..N -> [S -> S]]
Solution(f, S, s0, step, N) ==
  f \in [0..N -> S] /\ f[0] = s0 /\ \A n \in 1..N : f[n] = step[n][f[n - 1]]

\* It is built value by value.
LEMMA Recursion ==
  ASSUME NEW S, NEW s0, NEW step, NEW N, Recursive(S, s0, step, N)
  PROVE  \E f : Solution(f, S, s0, step, N)
<1> USE DEF Recursive, Solution
<1> DEFINE Upto(m) == \E f \in [0..m -> S] : f[0] = s0 /\ \A n \in 1..m : f[n] = step[n][f[n - 1]]
           T == {m \in Nat : m <= N => Upto(m)}
<1>1. Upto(0)
  <2>1. /\ [n \in 0..0 |-> s0] \in [0..0 -> S] /\ [n \in 0..0 |-> s0][0] = s0
    OBVIOUS
  <2>2. 1..0 = {}
    OBVIOUS
  <2> QED
    BY <2>1, <2>2
<1>2. ASSUME NEW m \in Nat, m + 1 <= N, Upto(m) PROVE Upto(m + 1)
  <2>1. PICK f \in [0..m -> S] : f[0] = s0 /\ \A n \in 1..m : f[n] = step[n][f[n - 1]]
    BY <1>2
  <2> DEFINE g == [n \in 0..(m + 1) |-> IF n = m + 1 THEN step[m + 1][f[m]] ELSE f[n]]
  <2>2. m + 1 \in 1..N /\ f[m] \in S
    BY <1>2
  <2>3. g \in [0..(m + 1) -> S]
    BY <2>2
  <2>4. g[0] = s0
    BY <2>1
  <2>5. ASSUME NEW n \in 1..(m + 1) PROVE g[n] = step[n][g[n - 1]]
    <3>1. CASE n = m + 1
      BY <3>1
    <3>2. CASE n # m + 1
      <4>1. n \in 1..m /\ n - 1 \in 0..m /\ n - 1 # m + 1 /\ n - 1 \in 0..(m + 1)
        BY <3>2
      <4> QED
        BY <2>1, <3>2, <4>1
    <3> QED
      BY <3>1, <3>2
  <2> HIDE DEF g
  <2> QED
    BY <2>3, <2>4, <2>5
<1>3. Nat \subseteq T
  <2> HIDE DEF Upto
  <2>1. 0 \in T /\ \A n \in Nat : n \in T => n + 1 \in T
    BY <1>1, <1>2
  <2> HIDE DEF T
  <2> QED
    BY <2>1, NatInductive
<1> QED
  BY <1>3

-----------------------------------------------------------------------------
(* Groups of k.                                                             *)

\* Where groups of k begin and end.
LEMMA Multiples ==
  ASSUME NEW k \in Nat \ {0}
  PROVE  /\ \A n \in Nat : n * k \in Nat /\ (n + 1) * k = n * k + k
         /\ \A n \in Nat \ {0} : (n - 1) * k \in Nat /\ (n - 1) * k + k = n * k
         /\ \A m, n \in Nat : m < n => m * k + k <= n * k
<1>1. \A n \in Nat : n * k \in Nat /\ (n + 1) * k = n * k + k
  OBVIOUS
<1>2. \A n \in Nat \ {0} : (n - 1) * k \in Nat /\ (n - 1) * k + k = n * k
  OBVIOUS
<1>3. ASSUME NEW m \in Nat, NEW n \in Nat, m < n PROVE m * k + k <= n * k
  <2>1. (m + 1) * k <= n * k
    BY <1>3
  <2> QED
    BY <1>1, <2>1
<1> QED
  BY <1>1, <1>2, <1>3

\* Every place is in a group.
LEMMA Place ==
  ASSUME NEW n \in Nat, NEW k \in Nat \ {0}, NEW x \in 1..n * k
  PROVE  \E I \in 1..n, J \in 1..k : x = (I - 1) * k + J
<1> DEFINE T == {m \in Nat : \A y \in 1..m * k : \E I \in 1..m, J \in 1..k : y = (I - 1) * k + J}
<1>1. 0 \in T
  BY Multiples
<1>2. ASSUME NEW m \in Nat, m \in T PROVE m + 1 \in T
  <2>1. ASSUME NEW y \in 1..(m + 1) * k
        PROVE  \E I \in 1..(m + 1), J \in 1..k : y = (I - 1) * k + J
    <3>1. (m + 1) * k = m * k + k /\ m * k \in Nat
      BY Multiples
    <3>2. CASE y <= m * k
      <4>2. y \in 1..m * k
        BY <3>1, <3>2
      <4>1. PICK I \in 1..m, J \in 1..k : y = (I - 1) * k + J
        BY <1>2, <4>2
      <4> QED
        BY <4>1
    <3>3. CASE ~(y <= m * k)
      <4>1. y - m * k \in 1..k /\ y = ((m + 1) - 1) * k + (y - m * k) /\ m + 1 \in 1..(m + 1)
        BY <3>1, <3>3
      <4> QED
        BY <4>1
    <3> QED
      BY <3>2, <3>3
  <2> QED
    BY <2>1
<1> HIDE DEF T
<1>3. n \in T
  BY <1>1, <1>2, NatInductive
<1> QED
  BY <1>3 DEF T

\* Blocks of one length, one after the other.
Equal(S, n, k, b) ==
  n \in Nat /\ k \in Nat \ {0} /\ b \in [1..n -> Seq(S)] /\ \A I \in 1..n : Len(b[I]) = k

\* Sequences of one length k, one after the other: element J of the I-th.
LEMMA Flattened ==
  ASSUME NEW S, NEW n, NEW k, NEW b, Equal(S, n, k, b)
  PROVE  /\ FlattenSeq(b) \in Seq(S) /\ Len(FlattenSeq(b)) = n * k
         /\ \A I \in 1..n, J \in 1..k : FlattenSeq(b)[(I - 1) * k + J] = b[I][J]
<1> USE DEF Equal
<1>1. b \in Seq(Seq(S)) /\ Len(b) = n
  OBVIOUS
<1>2. CASE n = 0
  <2>1. FlattenSeq(b) = b /\ b = <<>>
    BY <1>1, <1>2, EmptySeq DEF FlattenSeq
  <2> QED
    BY <1>2, <2>1, EmptySeq
<1>3. CASE n # 0
  <2> DEFINE Defines(f) == f = [I \in 1..n |-> IF I = 1 THEN b[I] ELSE f[I - 1] \o b[I]]
             flat == CHOOSE f : Defines(f)
             step == [I \in 1..n |-> [v \in Seq(S) |-> v \o b[I]]]
  <2>1. \E f : Defines(f)
    <3>1. \A I \in 1..n : \A v \in Seq(S) : step[I][v] \in Seq(S) /\ step[I][v] = v \o b[I]
      BY ConcatProperties
    <3>6. <<>> \in Seq(S)
      BY EmptySeq
    <3>2. PICK f \in [0..n -> Seq(S)] : f[0] = <<>> /\ \A I \in 1..n : f[I] = step[I][f[I - 1]]
      <4> DEFINE U == Seq(S)
      <4>1. Recursive(U, <<>>, step, n)
        BY <3>1, <3>6 DEF Recursive
      <4> HIDE DEF step, U
      <4>2. \E f : Solution(f, U, <<>>, step, n)
        BY <4>1, Recursion
      <4> QED
        BY <4>2 DEF U, Solution
    <3>3. ASSUME NEW I \in 1..n PROVE f[I] = f[I - 1] \o b[I] /\ f[I - 1] \in Seq(S)
      <4>1. I - 1 \in 0..n
        OBVIOUS
      <4> QED
        BY <3>1, <3>2, <4>1
    <3> DEFINE g == [I \in 1..n |-> f[I]]
    <3>4. ASSUME NEW I \in 1..n PROVE g[I] = IF I = 1 THEN b[I] ELSE g[I - 1] \o b[I]
      <4>1. CASE I = 1
        <5>2. 1 \in 1..n /\ 1 - 1 = 0
          BY <1>3
        <5>1. f[1] = <<>> \o b[1] /\ b[1] \in Seq(S)
          BY <3>2, <3>3, <5>2
        <5> QED
          BY <4>1, <5>1, ConcatEmptySeq
      <4>2. CASE I # 1
        <5>1. I - 1 \in 1..n
          BY <4>2
        <5> QED
          BY <3>3, <4>2, <5>1
      <4> QED
        BY <4>1, <4>2
    <3>5. Defines(g)
      BY <3>4
    <3> QED
      BY <3>5
  <2>2. Defines(flat)
    BY <2>1
  <2>3. FlattenSeq(b) = flat[n]
    BY <1>1, <1>3 DEF FlattenSeq
  <2> HIDE DEF flat
  <2>4. \A I \in 1..n : flat[I] = IF I = 1 THEN b[I] ELSE flat[I - 1] \o b[I]
    BY <2>2
  <2> DEFINE Right(m) == /\ flat[m] \in Seq(S) /\ Len(flat[m]) = m * k
                         /\ \A I \in 1..m, J \in 1..k : flat[m][(I - 1) * k + J] = b[I][J]
             T == {m \in Nat : m + 1 <= n => Right(m + 1)}
  <2>5. Right(1)
    <3>1. flat[1] = b[1] /\ 1 * k = k
      BY <1>3, <2>4
    <3>2. \A J \in 1..k : (1 - 1) * k + J = J
      OBVIOUS
    <3>3. 1 \in 1..n /\ \A I \in 1..1 : I = 1
      BY <1>3
    <3>4. b[1] \in Seq(S) /\ Len(b[1]) = k
      BY <3>3
    <3> QED
      BY <3>1, <3>2, <3>3, <3>4
  <2>6. ASSUME NEW m \in Nat \ {0}, m + 1 <= n, Right(m) PROVE Right(m + 1)
    <3>1. m + 1 \in 1..n /\ m + 1 # 1 /\ (m + 1) - 1 = m /\ m \in 1..n
      BY <2>6
    <3>2. flat[m + 1] = flat[m] \o b[m + 1]
      BY <2>4, <3>1
    <3>3. b[m + 1] \in Seq(S) /\ Len(b[m + 1]) = k /\ flat[m] \in Seq(S) /\ Len(flat[m]) = m * k
      BY <2>6, <3>1
    <3>4. /\ flat[m + 1] \in Seq(S) /\ Len(flat[m + 1]) = m * k + k
          /\ \A x \in 1..m * k + k :
               flat[m + 1][x] = IF x <= m * k THEN flat[m][x] ELSE b[m + 1][x - m * k]
      <4> DEFINE u == flat[m]
                 v == b[m + 1]
      <4>1. u \in Seq(S) /\ v \in Seq(S) /\ Len(u) = m * k /\ Len(v) = k
        BY <3>3
      <4> HIDE DEF u, v
      <4>2. /\ u \o v \in Seq(S) /\ Len(u \o v) = m * k + k
            /\ \A x \in 1..m * k + k : (u \o v)[x] = IF x <= m * k THEN u[x] ELSE v[x - m * k]
        <5>1. /\ u \o v \in Seq(S) /\ Len(u \o v) = Len(u) + Len(v)
              /\ \A x \in 1..Len(u) + Len(v) : (u \o v)[x] = IF x <= Len(u) THEN u[x] ELSE v[x - Len(u)]
          BY <4>1, ConcatProperties
        <5> QED
          BY <4>1, <5>1
      <4> QED
        BY <3>2, <4>2 DEF u, v
    <3>5. (m + 1) * k = m * k + k /\ m * k \in Nat
      BY Multiples
    <3>6. ASSUME NEW I \in 1..(m + 1), NEW J \in 1..k
          PROVE  flat[m + 1][(I - 1) * k + J] = b[I][J]
      <4>1. CASE I = m + 1
        <5>1. (I - 1) * k + J = m * k + J
          BY <4>1
        <5>2. m * k + J \in 1..m * k + k /\ ~(m * k + J <= m * k) /\ (m * k + J) - m * k = J
          BY <3>5
        <5> QED
          BY <3>4, <4>1, <5>1, <5>2
      <4>2. CASE I # m + 1
        <5>1. I \in 1..m /\ I \in Nat \ {0} /\ I - 1 \in Nat /\ I - 1 < m
          BY <4>2
        <5>2. (I - 1) * k + k <= m * k /\ (I - 1) * k \in Nat
          BY <5>1, Multiples
        <5>3. (I - 1) * k + J \in 1..m * k + k /\ (I - 1) * k + J <= m * k
          BY <3>5, <5>2
        <5> QED
          BY <2>6, <3>4, <5>1, <5>3
      <4> QED
        BY <4>1, <4>2
    <3> QED
      BY <3>4, <3>5, <3>6
  <2>7. Nat \subseteq T
    <3> HIDE DEF Right
    <3>1. 0 \in T
      BY <2>5
    <3>2. ASSUME NEW m \in Nat, m \in T PROVE m + 1 \in T
      BY <2>6, <3>2
    <3> HIDE DEF T
    <3> QED
      BY <3>1, <3>2, NatInductive
  <2>8. Right(n)
    <3> HIDE DEF Right
    <3> QED
      BY <1>3, <2>7
  <2> QED
    BY <2>3, <2>8
<1> QED
  BY <1>2, <1>3

-----------------------------------------------------------------------------
(* Base64.                                                                  *)

\* The l elements of s behind the first a.
Part(s, a, l) == SubSeq(s, a + 1, a + l)

Within(S, s, a, l) == s \in Seq(S) /\ a \in Nat /\ l \in Nat /\ a + l <= Len(s)

\* Part is the l elements after the first a.
LEMMA PartProperties ==
  ASSUME NEW S, NEW s, NEW a, NEW l, Within(S, s, a, l)
  PROVE  /\ Part(s, a, l) \in Seq(S) /\ Len(Part(s, a, l)) = l
         /\ \A x \in 1..l : Part(s, a, l)[x] = s[a + x]
<1> USE DEF Within
<1>1. Len(s) \in Nat /\ \A x \in a + 1..a + l : s[x] \in S
  BY ElementOfSeq
<1>2. a + 1 \in Int /\ a + l \in Int /\ ((a + l) - (a + 1)) + 1 = l
  OBVIOUS
<1>3. /\ Part(s, a, l) \in Seq(S)
      /\ Len(Part(s, a, l)) = IF a + 1 <= a + l THEN ((a + l) - (a + 1)) + 1 ELSE 0
      /\ \A x \in 1..((a + l) - (a + 1)) + 1 : Part(s, a, l)[x] = s[((a + 1) + x) - 1]
  BY <1>1, <1>2, SubSeqProperties DEF Part
<1>4. \A x \in 1..l : ((a + 1) + x) - 1 = a + x
  OBVIOUS
<1> QED
  BY <1>2, <1>3, <1>4

\* The appended parts of a concatenation.
Both(S, s, t) == s \in Seq(S) /\ t \in Seq(S)

\* A concatenation has the elements of both its parts.
LEMMA Joined ==
  ASSUME NEW S, NEW s, NEW t, Both(S, s, t)
  PROVE  /\ s \o t \in Seq(S) /\ Len(s) \in Nat /\ Len(t) \in Nat /\ Len(s \o t) = Len(s) + Len(t)
         /\ \A x \in 1..Len(s) : (s \o t)[x] = s[x]
         /\ \A x \in 1..Len(t) : (s \o t)[Len(s) + x] = t[x]
<1> USE DEF Both
<1>1. /\ s \o t \in Seq(S) /\ Len(s) \in Nat /\ Len(t) \in Nat /\ Len(s \o t) = Len(s) + Len(t)
      /\ \A x \in 1..Len(s) + Len(t) : (s \o t)[x] = IF x <= Len(s) THEN s[x] ELSE t[x - Len(s)]
  BY ConcatProperties
<1>2. \A x \in 1..Len(s) : (s \o t)[x] = s[x]
  BY <1>1
<1>3. ASSUME NEW x \in 1..Len(t) PROVE (s \o t)[Len(s) + x] = t[x]
  <2>1. Len(s) + x \in 1..Len(s) + Len(t) /\ ~(Len(s) + x <= Len(s)) /\ (Len(s) + x) - Len(s) = x
    BY <1>1
  <2> QED
    BY <1>1, <2>1
<1> QED
  BY <1>1, <1>2, <1>3

\* Three bytes make four characters of the table.
LEMMA CharacterRange ==
  ASSUME NEW b, \A x \in 1..3 : b[x] \in Byte
  PROVE  Characters(b) \in Seq(0..63) /\ Len(Characters(b)) = 4
<1>1. b[1] \in 0..255 /\ b[2] \in 0..255 /\ b[3] \in 0..255
  BY DEF Byte
<1>2. /\ b[1] \div 4 \in 0..63 /\ (b[1] % 4) * 16 + (b[2] \div 16) \in 0..63
      /\ (b[2] % 16) * 4 + (b[3] \div 64) \in 0..63 /\ b[3] % 64 \in 0..63
  BY <1>1
<1> QED
  BY <1>2 DEF Characters

\* Four characters make three bytes.
LEMMA ByteRange ==
  ASSUME NEW s, \A x \in 1..4 : s[x] \in 0..EndOfTable
  PROVE  Bytes(s) \in Seq(Byte) /\ Len(Bytes(s)) = 3
<1>1. s[1] \in 0..64 /\ s[2] \in 0..64 /\ s[3] \in 0..64 /\ s[4] \in 0..64
  BY DEF EndOfTable
<1>2. \A a \in Nat : a % 256 \in 0..255
  OBVIOUS
<1>3. \A a \in 0..64 : a % 16 \in 0..15 /\ (a \div 16) % 4 \in 0..3 /\ (a \div 4) % 16 \in 0..15 /\ a % 4 \in 0..3
  OBVIOUS
<1>4. (s[1] * 4 + ((s[2] \div 16) % 4)) % 256 \in 0..255
  <2>1. s[1] * 4 + ((s[2] \div 16) % 4) \in Nat
    BY <1>1, <1>3
  <2> QED
    BY <1>2, <2>1
<1>5. (s[2] % 16) * 16 + ((s[3] \div 4) % 16) \in 0..255
  <2>1. s[2] % 16 \in 0..15 /\ (s[3] \div 4) % 16 \in 0..15
    BY <1>1, <1>3
  <2>2. \A x, y \in 0..15 : x * 16 + y \in 0..255
    OBVIOUS
  <2> QED
    BY <2>1, <2>2
<1>6. ((s[3] % 4) * 64 + s[4]) % 256 \in 0..255
  <2>1. (s[3] % 4) * 64 + s[4] \in Nat
    BY <1>1, <1>3
  <2> QED
    BY <1>2, <2>1
<1> QED
  BY <1>4, <1>5, <1>6 DEF Bytes, Byte

\* A byte can be read off two of the characters.
LEMMA BytesOfCharacters ==
  ASSUME NEW b, \A x \in 1..3 : b[x] \in Byte, NEW s, NEW J \in 1..3,
         s[J] = Characters(b)[J], s[J + 1] = Characters(b)[J + 1]
  PROVE  Bytes(s)[J] = b[J]
<1>1. b[1] \in 0..255 /\ b[2] \in 0..255 /\ b[3] \in 0..255
  BY DEF Byte
<1>2. CASE J = 1
  <2>1. s[1] = b[1] \div 4 /\ s[2] = (b[1] % 4) * 16 + (b[2] \div 16)
    BY <1>2 DEF Characters
  <2>2. (s[1] * 4 + ((s[2] \div 16) % 4)) % 256 = b[1]
    BY <1>1, <2>1
  <2> QED
    BY <1>2, <2>2 DEF Bytes
<1>3. CASE J = 2
  <2>1. s[2] = (b[1] % 4) * 16 + (b[2] \div 16) /\ s[3] = (b[2] % 16) * 4 + (b[3] \div 64)
    BY <1>3 DEF Characters
  <2>2. (s[2] % 16) * 16 + ((s[3] \div 4) % 16) = b[2]
    BY <1>1, <2>1
  <2> QED
    BY <1>3, <2>2 DEF Bytes
<1>4. CASE J = 3
  <2>1. s[3] = (b[2] % 16) * 4 + (b[3] \div 64) /\ s[4] = b[3] % 64
    BY <1>4 DEF Characters
  <2>2. ((s[3] % 4) * 64 + s[4]) % 256 = b[3]
    BY <1>1, <2>1
  <2> QED
    BY <1>4, <2>2 DEF Bytes
<1> QED
  BY <1>2, <1>3, <1>4

\* The groups of the text and of the code, the last one filled up.
Triple(s, I) == [J \in 1..3 |-> IF (I - 1) * 3 + J <= Len(s) THEN s[(I - 1) * 3 + J] ELSE 0]
Four(s, I)   == [J \in 1..4 |-> IF (I - 1) * 4 + J <= Len(s) THEN s[(I - 1) * 4 + J] ELSE EndOfTable]

\* How many characters carry the bytes of s, and bytes the characters.
CharactersOf(s) == 4 * (Len(s) \div 3) + IF Len(s) % 3 = 0 THEN 0 ELSE (Len(s) % 3) + 1
BytesOf(s)      == 3 * (Len(s) \div 4) + IF Len(s) % 4 = 0 THEN 0 ELSE (Len(s) % 4) - 1

\* The bytes of a group, the missing ones as zeros.
LEMMA TripleRange ==
  ASSUME NEW s \in Seq(Byte), NEW I \in Nat \ {0} PROVE \A J \in 1..3 : Triple(s, I)[J] \in Byte
<1> TAKE J \in 1..3
<1>1. CASE (I - 1) * 3 + J <= Len(s)
  <2>1. (I - 1) * 3 + J \in 1..Len(s)
    BY <1>1
  <2>2. s[(I - 1) * 3 + J] \in Byte
    BY <2>1, ElementOfSeq
  <2> QED
    BY <1>1, <2>2 DEF Triple
<1>2. CASE ~((I - 1) * 3 + J <= Len(s))
  BY <1>2 DEF Triple, Byte
<1> QED
  BY <1>1, <1>2

\* The characters of a group, the missing ones as zeros.
LEMMA FourRange ==
  ASSUME NEW s \in Seq(0..EndOfTable), NEW I \in Nat \ {0}
  PROVE  \A J \in 1..4 : Four(s, I)[J] \in 0..EndOfTable
<1> TAKE J \in 1..4
<1>1. CASE (I - 1) * 4 + J <= Len(s)
  <2>1. (I - 1) * 4 + J \in 1..Len(s)
    BY <1>1
  <2>2. s[(I - 1) * 4 + J] \in 0..EndOfTable
    BY <2>1, ElementOfSeq
  <2> QED
    BY <1>1, <2>2 DEF Four
<1>2. CASE ~((I - 1) * 4 + J <= Len(s))
  BY <1>2 DEF Four, EndOfTable
<1> QED
  BY <1>1, <1>2

\* What oaes_base64_encode returns, group by group, with the = signs.
LEMMA Encoding ==
  ASSUME NEW s \in Seq(Byte)
  PROVE  LET n == Len(s) \div 3
             e == oaes_base64_encode(s)
         IN  /\ e \in Seq(0..EqualsSign)
             /\ Len(e) = 4 * n + IF Len(s) % 3 = 0 THEN 0 ELSE 4
             /\ \A I \in 1..n + 1, J \in 1..4 :
                  (I - 1) * 4 + J <= CharactersOf(s) => e[(I - 1) * 4 + J] = Characters(Triple(s, I))[J]
             /\ \A x \in CharactersOf(s) + 1..Len(e) : e[x] = EqualsSign
<1> DEFINE n == Len(s) \div 3
           r == Len(s) % 3
           b == [I \in 1..n |-> Characters(SubSeq(s, (I - 1) * 3 + 1, I * 3))]
           G == FlattenSeq(b)
           rest == Remainder(s, 3)
           code == Characters(rest \o Zeros(3 - Len(rest)))
           u == SubSeq(code, 1, Len(rest) + 1)
           v == [J \in 1..(3 - Len(rest)) |-> EqualsSign]
           t == IF Len(rest) = 0 THEN <<>> ELSE u \o v
           Chars == 0..63
           Codes == 0..EqualsSign
<1>1. Len(s) \in Nat /\ n \in Nat /\ r \in 0..2 /\ Len(s) = 3 * n + r
  OBVIOUS
<1>2. oaes_base64_encode(s) = G \o t
  BY DEF oaes_base64_encode, Grouped
<1> HIDE DEF n, r
<1>3. ASSUME NEW I \in 1..n
      PROVE  b[I] = Characters(Triple(s, I)) /\ b[I] \in Seq(Codes) /\ Len(b[I]) = 4
  <2> DEFINE g == SubSeq(s, (I - 1) * 3 + 1, I * 3)
  <2>1. (I - 1) * 3 \in Nat /\ (I - 1) * 3 + 3 = I * 3 /\ (I - 1) * 3 + 3 <= Len(s)
    BY <1>1
  <2>2. \A x \in 1..3 : g[x] = s[(I - 1) * 3 + x]
    <3>1. \A x \in 1..3 : Part(s, (I - 1) * 3, 3)[x] = s[(I - 1) * 3 + x]
      BY <2>1, PartProperties, SMTT(60) DEF Within
    <3> QED
      BY <2>1, <3>1 DEF Part
  <2>3. \A x \in 1..3 : g[x] = Triple(s, I)[x]
    BY <2>1, <2>2 DEF Triple
  <2>4. Characters(g) = Characters(Triple(s, I))
    <3>1. g[1] = Triple(s, I)[1] /\ g[2] = Triple(s, I)[2] /\ g[3] = Triple(s, I)[3]
      BY <2>3
    <3> HIDE DEF g
    <3> QED
      BY <3>1 DEF Characters
  <2>5. Characters(Triple(s, I)) \in Seq(Chars) /\ Len(Characters(Triple(s, I))) = 4
    <3>1. \A x \in 1..3 : Triple(s, I)[x] \in Byte
      BY <1>1, TripleRange
    <3> QED
      BY <3>1, CharacterRange
  <2>6. Chars \subseteq Codes
    BY DEF EqualsSign
  <2> QED
    BY <2>4, <2>5, <2>6, SeqMonotonic
<1>4. /\ G \in Seq(Codes) /\ Len(G) = n * 4
      /\ \A I \in 1..n, J \in 1..4 : G[(I - 1) * 4 + J] = b[I][J]
  <2>1. Equal(Codes, n, 4, b)
    <3>1. \A I \in 1..n : b[I] \in Seq(Codes) /\ Len(b[I]) = 4
      BY <1>3
    <3>2. b = [I \in 1..n |-> b[I]]
      OBVIOUS
    <3> HIDE DEF b, Codes
    <3> QED
      BY <1>1, <3>1, <3>2 DEF Equal
  <2> HIDE DEF b, Codes
  <2>2. FlattenSeq(b) \in Seq(Codes)
    BY <1>1, <2>1, Flattened, ZenonT(60) DEF Equal
  <2>3. Len(FlattenSeq(b)) = n * 4
    BY <2>1, Flattened
  <2>4. ASSUME NEW I \in 1..n, NEW J \in 1..4 PROVE FlattenSeq(b)[(I - 1) * 4 + J] = b[I][J]
    <3>1. \A k : Equal(Codes, n, k, b) => \A x \in 1..n, y \in 1..k : FlattenSeq(b)[(x - 1) * k + y] = b[x][y]
      BY Flattened
    <3>2. \A x \in 1..n, y \in 1..4 : FlattenSeq(b)[(x - 1) * 4 + y] = b[x][y]
      BY <2>1, <3>1
    <3> QED
      BY <3>2
  <2> QED
    BY <2>2, <2>3, <2>4
<1>5. rest \in Seq(Byte) /\ Len(rest) = r /\ \A x \in 1..r : rest[x] = s[3 * n + x]
  <2>1. rest = Part(s, 3 * n, r)
    <3>1. Len(s) - (Len(s) % 3) + 1 = 3 * n + 1 /\ Len(s) = 3 * n + r
      BY <1>1 DEF r
    <3> QED
      BY <3>1 DEF Remainder, Part
  <2> QED
    BY <1>1, <2>1, PartProperties, 3 * n \in Nat, SMTT(60) DEF Within
<1>6. CASE r = 0
  <2>1. t = <<>> /\ G \o <<>> = G /\ CharactersOf(s) = 4 * n
    BY <1>4, <1>5, <1>6, ConcatEmptySeq DEF CharactersOf, n, r
  <2>2. ASSUME NEW I \in 1..n + 1, NEW J \in 1..4, (I - 1) * 4 + J <= 4 * n
        PROVE  I \in 1..n
    BY <1>1, <2>2
  <2> HIDE DEF G, t
  <2>3. oaes_base64_encode(s) = G /\ Len(G) = 4 * n
    BY <1>1, <1>2, <1>4, <2>1
  <2>4. \A I \in 1..n + 1, J \in 1..4 :
          (I - 1) * 4 + J <= CharactersOf(s) => G[(I - 1) * 4 + J] = Characters(Triple(s, I))[J]
    BY <1>3, <1>4, <2>1, <2>2, ZenonT(60)
  <2>5. CharactersOf(s) + 1..Len(G) = {}
    BY <1>1, <2>1, <2>3
  <2> QED
    BY <1>1, <1>4, <1>6, <2>3, <2>4, <2>5 DEF n, r
<1>7. CASE r # 0
  <2>1. CharactersOf(s) = 4 * n + (r + 1) /\ r \in 1..2
    BY <1>1, <1>7 DEF CharactersOf, n, r
  <2> DEFINE w == rest \o Zeros(3 - Len(rest))
  <2>2. \A x \in 1..3 : w[x] = Triple(s, n + 1)[x]
    <3>1. Zeros(3 - r) \in Seq(Byte) /\ Len(Zeros(3 - r)) = 3 - r /\ \A x \in 1..3 - r : Zeros(3 - r)[x] = 0
      BY <2>1 DEF Zeros, Byte
    <3>2. /\ \A x \in 1..r : w[x] = rest[x]
          /\ \A x \in 1..3 - r : w[r + x] = 0
      <4>1. Both(Byte, rest, Zeros(3 - Len(rest))) /\ Len(rest) = r
        BY <1>5, <3>1 DEF Both
      <4> HIDE DEF rest
      <4> QED
        BY <3>1, <4>1, Joined
    <3> HIDE DEF w, rest
    <3> TAKE x \in 1..3
    <3>5. Triple(s, n + 1)[x] = IF 3 * n + x <= Len(s) THEN s[3 * n + x] ELSE 0
      <4>1. ((n + 1) - 1) * 3 + x = 3 * n + x
        BY <1>1
      <4> QED
        BY <4>1 DEF Triple
    <3>3. CASE x <= r
      BY <1>1, <1>5, <3>2, <3>3, <3>5
    <3>4. CASE ~(x <= r)
      <4>1. x - r \in 1..3 - r /\ r + (x - r) = x
        BY <2>1, <3>4
      <4>2. w[x] = 0
        BY <3>2, <4>1
      <4> QED
        BY <1>1, <3>4, <3>5, <4>2
    <3> QED
      BY <3>3, <3>4
  <2>3. code = Characters(Triple(s, n + 1))
    <3> HIDE DEF w
    <3>1. w[1] = Triple(s, n + 1)[1] /\ w[2] = Triple(s, n + 1)[2] /\ w[3] = Triple(s, n + 1)[3]
      BY <2>2
    <3>2. Characters(w) = Characters(Triple(s, n + 1))
      BY <3>1 DEF Characters
    <3> QED
      BY <3>2 DEF w
  <2>4. code \in Seq(Codes) /\ Len(code) = 4
    <3>1. \A x \in 1..3 : Triple(s, n + 1)[x] \in Byte
      BY <1>1, TripleRange
    <3>2. code \in Seq(Chars) /\ Len(code) = 4
      BY <2>3, <3>1, CharacterRange
    <3>3. Chars \subseteq Codes
      BY DEF EqualsSign
    <3> QED
      BY <3>2, <3>3, SeqMonotonic
  <2> HIDE DEF code, Codes
  <2>5. u \in Seq(Codes) /\ Len(u) = r + 1 /\ \A x \in 1..r + 1 : u[x] = code[x]
    <3>1. /\ Part(code, 0, r + 1) \in Seq(Codes) /\ Len(Part(code, 0, r + 1)) = r + 1
          /\ \A x \in 1..r + 1 : Part(code, 0, r + 1)[x] = code[0 + x]
      <4>1. Within(Codes, code, 0, r + 1)
        BY <2>1, <2>4 DEF Within
      <4> QED
        BY <4>1, PartProperties
    <3>2. 0 + 1 = 1 /\ 0 + (r + 1) = Len(rest) + 1 /\ \A x \in 1..r + 1 : 0 + x = x
      BY <1>1, <1>5
    <3> QED
      BY <3>1, <3>2 DEF Part
  <2>6. v \in Seq(Codes) /\ Len(v) = 3 - r /\ \A x \in 1..3 - r : v[x] = EqualsSign
    BY <1>5, <2>1 DEF Codes, EqualsSign
  <2> HIDE DEF u, v
  <2>7. t = u \o v
    BY <1>5, <1>7
  <2>8. /\ t \in Seq(Codes) /\ Len(t) = 4
        /\ \A x \in 1..r + 1 : t[x] = code[x]
        /\ \A x \in 1..3 - r : t[(r + 1) + x] = EqualsSign
    <3>1. Both(Codes, u, v)
      BY <2>5, <2>6 DEF Both
    <3> QED
      BY <2>1, <2>5, <2>6, <2>7, <3>1, Joined
  <2> DEFINE e == G \o t
  <2> HIDE DEF G, t
  <2>9. /\ e \in Seq(Codes) /\ Len(e) = n * 4 + 4
        /\ \A x \in 1..n * 4 : e[x] = G[x]
        /\ \A x \in 1..4 : e[n * 4 + x] = t[x]
    <3>1. /\ e \in Seq(Codes) /\ Len(e) = Len(G) + Len(t)
          /\ \A x \in 1..Len(G) : e[x] = G[x]
          /\ \A x \in 1..Len(t) : e[Len(G) + x] = t[x]
      <4>1. Both(Codes, G, t)
        BY <1>4, <2>8 DEF Both
      <4> QED
        BY <4>1, Joined
    <3> HIDE DEF e
    <3> QED
      BY <1>4, <2>8, <3>1
  <2> HIDE DEF e
  <2>10. ASSUME NEW I \in 1..n + 1, NEW J \in 1..4, (I - 1) * 4 + J <= CharactersOf(s)
         PROVE  e[(I - 1) * 4 + J] = Characters(Triple(s, I))[J]
    <3>1. CASE I = n + 1
      <4>1. (I - 1) * 4 + J = n * 4 + J /\ J \in 1..r + 1
        BY <1>1, <2>1, <2>10, <3>1
      <4> QED
        BY <2>3, <2>8, <2>9, <3>1, <4>1
    <3>2. CASE I # n + 1
      <4>1. I \in 1..n /\ (I - 1) * 4 + J \in 1..n * 4
        BY <1>1, <3>2
      <4> QED
        BY <1>3, <1>4, <2>9, <4>1, ZenonT(60)
    <3> QED
      BY <3>1, <3>2
  <2>11. ASSUME NEW x \in CharactersOf(s) + 1..Len(e) PROVE e[x] = EqualsSign
    <3> DEFINE y == x - (n * 4 + (r + 1))
    <3>1. y \in 1..3 - r /\ (r + 1) + y \in 1..4 /\ n * 4 + ((r + 1) + y) = x
      BY <1>1, <2>1, <2>9
    <3>2. t[(r + 1) + y] = EqualsSign
      BY <2>8, <3>1
    <3> QED
      BY <2>9, <3>1, <3>2
  <2>12. oaes_base64_encode(s) = e
    BY <1>2 DEF e
  <2> QED
    BY <1>1, <1>7, <2>9, <2>10, <2>11, <2>12 DEF n, r, Codes
<1> QED
  BY <1>1, <1>6, <1>7

\* Decoding stops behind the first x characters.
Stopped(c, x) ==
  /\ x \in 0..Len(c)
  /\ \A y \in 1..x : c[y] \in 0..EndOfTable
  /\ x < Len(c) => c[x + 1] > EndOfTable

\* The decoder stops somewhere, at the end of its input at the latest.
LEMMA StopExists == ASSUME NEW c \in Seq(Nat) PROVE \E x : Stopped(c, x)
<1> DEFINE stops == {y \in 1..Len(c) : c[y] > EndOfTable}
<1>1. Len(c) \in Nat /\ \A y \in 1..Len(c) : c[y] \in Nat
  BY ElementOfSeq
<1>2. ASSUME NEW y \in 1..Len(c), y \notin stops PROVE c[y] \in 0..EndOfTable
  <2>1. c[y] \in Nat /\ ~(c[y] > EndOfTable)
    BY <1>1, <1>2
  <2>2. \A a \in Nat : ~(a > EndOfTable) => a \in 0..EndOfTable
    BY DEF EndOfTable
  <2> HIDE DEF stops
  <2> QED
    BY <2>1, <2>2
<1>3. CASE stops = {}
  <2>1. Stopped(c, Len(c))
    BY <1>1, <1>2, <1>3 DEF Stopped
  <2> QED
    BY <2>1
<1>4. CASE stops # {}
  <2>0. stops \in SUBSET Nat
    BY <1>1
  <2>1. PICK x \in stops : \A y \in stops : x <= y
    <3> HIDE DEF stops
    <3> QED
      BY <1>4, <2>0, LeastNat
  <2>2. x \in 1..Len(c) /\ c[x] > EndOfTable /\ x - 1 \in 0..Len(c) /\ (x - 1) + 1 = x
    BY <1>1
  <2>3. \A y \in 1..x - 1 : c[y] \in 0..EndOfTable
    BY <1>1, <1>2, <2>1, <2>2
  <2> HIDE DEF stops
  <2>4. Stopped(c, x - 1)
    BY <2>2, <2>3 DEF Stopped
  <2> QED
    BY <2>4
<1> QED
  BY <1>3, <1>4

\* What oaes_base64_decode returns, group by group.
LEMMA Decoding ==
  ASSUME NEW c \in Seq(Nat), NEW x, Stopped(c, x)
  PROVE  LET s == SubSeq(c, 1, x)
             d == oaes_base64_decode(c)
         IN  /\ s \in Seq(0..EndOfTable) /\ Len(s) = x /\ \A y \in 1..x : s[y] = c[y]
             /\ d \in Seq(Byte) /\ Len(d) = BytesOf(s)
             /\ \A I \in Nat \ {0}, J \in 1..3 :
                  (I - 1) * 3 + J <= Len(d) => d[(I - 1) * 3 + J] = Bytes(Four(s, I))[J]
<1> DEFINE stops == {y \in 1..Len(c) : c[y] > EndOfTable}
           s == SubSeq(c, 1, x)
           n == Len(s) \div 4
           r == Len(s) % 4
           b == [I \in 1..n |-> Bytes(SubSeq(s, (I - 1) * 4 + 1, I * 4))]
           G == FlattenSeq(b)
           rest == Remainder(s, 4)
           fill == [J \in 1..(4 - Len(rest)) |-> EndOfTable]
           bytes == Bytes(rest \o fill)
           t == IF Len(rest) = 0 THEN <<>> ELSE SubSeq(bytes, 1, Len(rest) - 1)
           Chars == 0..EndOfTable
<1>1. /\ s \in Seq(Chars) /\ Len(s) = x /\ \A y \in 1..x : s[y] = c[y]
  <2>1. x \in Nat /\ x <= Len(c) /\ Len(c) \in Nat /\ \A y \in 1..x : c[y] \in Chars
    BY DEF Stopped
  <2> HIDE DEF Chars
  <2>2. /\ SubSeq(c, 1, x) \in Seq(Chars)
        /\ Len(SubSeq(c, 1, x)) = IF 1 <= x THEN (x - 1) + 1 ELSE 0
        /\ \A y \in 1..(x - 1) + 1 : SubSeq(c, 1, x)[y] = c[(1 + y) - 1]
    BY <2>1, SubSeqProperties
  <2>3. \A y \in 1..x : (1 + y) - 1 = y
    BY <2>1
  <2> QED
    BY <2>1, <2>2, <2>3
<1>0. \A y \in 1..x : ~(c[y] > EndOfTable)
  <2>1. \A a \in 0..EndOfTable : ~(a > EndOfTable)
    BY DEF EndOfTable
  <2> QED
    BY <2>1 DEF Stopped
<1>2. s = IF stops = {} THEN c
          ELSE SubSeq(c, 1, (CHOOSE I \in stops : \A J \in stops : I <= J) - 1)
  <2>1. x \in Nat /\ Len(c) \in Nat /\ x <= Len(c)
    BY DEF Stopped
  <2>2. CASE x = Len(c)
    <3>1. stops = {}
      BY <1>0, <2>2
    <3>2. SubSeq(c, 1, Len(c)) = c
      BY SubSeqFull
    <3> HIDE DEF stops
    <3> QED
      BY <2>2, <3>1, <3>2
  <2>3. CASE x # Len(c)
    <3>0. x + 1 \in stops
      BY <2>1, <2>3 DEF Stopped
    <3>1. x + 1 \in stops /\ \A y \in stops : x + 1 <= y
      BY <1>0, <2>1, <3>0
    <3>2. \A I \in stops : I \in Nat
      BY <2>1
    <3> HIDE DEF stops
    <3> DEFINE first == CHOOSE I \in stops : \A J \in stops : I <= J
    <3>3. first \in stops /\ \A J \in stops : first <= J
      BY <3>1
    <3> HIDE DEF first
    <3>4. first = x + 1
      BY <2>1, <3>1, <3>2, <3>3
    <3>5. first - 1 = x /\ stops # {}
      BY <2>1, <3>1, <3>4
    <3>6. s = SubSeq(c, 1, first - 1)
      BY <3>5
    <3>7. stops # {}
      BY <3>5
    <3> HIDE DEF s
    <3>8. s = IF stops = {} THEN c ELSE SubSeq(c, 1, first - 1)
      BY <3>6, <3>7
    <3> QED
      BY <3>8 DEF first
  <2> QED
    BY <2>2, <2>3
<1>3. oaes_base64_decode(c) = G \o t
  <2> DEFINE Dec(z) ==
               Grouped(Bytes, z, 4)
                 \o IF Len(Remainder(z, 4)) = 0 THEN <<>>
                    ELSE SubSeq(Bytes(Remainder(z, 4) \o [J \in 1..(4 - Len(Remainder(z, 4))) |-> EndOfTable]),
                                1, Len(Remainder(z, 4)) - 1)
  <2>1. oaes_base64_decode(c) =
          Dec(IF stops = {} THEN c
              ELSE SubSeq(c, 1, (CHOOSE I \in stops : \A J \in stops : I <= J) - 1))
    BY Zenon DEF oaes_base64_decode
  <2>2. oaes_base64_decode(c) = Dec(s)
    <3> HIDE DEF Dec, s, stops
    <3> QED
      BY <1>2, <2>1
  <2>3. Dec(s) = G \o t
    <3> HIDE DEF s
    <3> QED
      BY Zenon DEF Grouped
  <2> HIDE DEF Dec, G, t
  <2> QED
    BY <2>2, <2>3
<1>4. n \in Nat /\ r \in 0..3 /\ x \in Nat /\ Len(s) = 4 * n + r
      /\ BytesOf(s) = 3 * n + IF r = 0 THEN 0 ELSE r - 1
  <2>1. Len(s) \in Nat
    BY <1>1 DEF Stopped
  <2> HIDE DEF s
  <2>2. \A l \in Nat : l \div 4 \in Nat /\ l % 4 \in 0..3 /\ l = 4 * (l \div 4) + (l % 4)
    OBVIOUS
  <2>3. x = Len(s)
    BY <1>1
  <2>4. n \in Nat /\ r \in 0..3 /\ Len(s) = 4 * n + r
    BY <2>1, <2>2
  <2> QED
    BY <2>1, <2>3, <2>4 DEF BytesOf
<1> HIDE DEF stops, s, n, r
<1>5. ASSUME NEW I \in 1..n
      PROVE  b[I] = Bytes(Four(s, I)) /\ b[I] \in Seq(Byte) /\ Len(b[I]) = 3
  <2> DEFINE g == SubSeq(s, (I - 1) * 4 + 1, I * 4)
  <2>1. (I - 1) * 4 \in Nat /\ (I - 1) * 4 + 4 = I * 4 /\ (I - 1) * 4 + 4 <= Len(s)
    BY <1>4
  <2>2. \A y \in 1..4 : g[y] = s[(I - 1) * 4 + y]
    <3>1. \A y \in 1..4 : Part(s, (I - 1) * 4, 4)[y] = s[(I - 1) * 4 + y]
      <4>1. Within(Chars, s, (I - 1) * 4, 4)
        BY <1>1, <2>1 DEF Within
      <4> HIDE DEF Chars
      <4>2. \A a : Within(Chars, s, a, 4) => \A y \in 1..4 : Part(s, a, 4)[y] = s[a + y]
        BY PartProperties
      <4> QED
        BY <4>1, <4>2
    <3> QED
      BY <2>1, <3>1 DEF Part
  <2>3. \A y \in 1..4 : g[y] = Four(s, I)[y]
    BY <2>1, <2>2 DEF Four
  <2>4. Bytes(g) = Bytes(Four(s, I))
    <3>1. g[1] = Four(s, I)[1] /\ g[2] = Four(s, I)[2] /\ g[3] = Four(s, I)[3] /\ g[4] = Four(s, I)[4]
      BY <2>3
    <3> HIDE DEF g
    <3> QED
      BY <3>1 DEF Bytes
  <2>5. Bytes(Four(s, I)) \in Seq(Byte) /\ Len(Bytes(Four(s, I))) = 3
    <3>1. \A y \in 1..4 : Four(s, I)[y] \in 0..EndOfTable
      BY <1>1, <1>4, FourRange
    <3> QED
      BY <3>1, ByteRange
  <2> QED
    BY <2>4, <2>5
<1>6. /\ G \in Seq(Byte) /\ Len(G) = n * 3
      /\ \A I \in 1..n, J \in 1..3 : G[(I - 1) * 3 + J] = b[I][J]
  <2>1. Equal(Byte, n, 3, b)
    <3>1. \A I \in 1..n : b[I] \in Seq(Byte) /\ Len(b[I]) = 3
      BY <1>5
    <3>2. b = [I \in 1..n |-> b[I]]
      OBVIOUS
    <3> HIDE DEF b
    <3> QED
      BY <1>4, <3>1, <3>2 DEF Equal
  <2> HIDE DEF b
  <2>2. FlattenSeq(b) \in Seq(Byte)
    BY <2>1, Flattened
  <2>3. Len(FlattenSeq(b)) = n * 3
    BY <2>1, Flattened
  <2>4. ASSUME NEW I \in 1..n, NEW J \in 1..3 PROVE FlattenSeq(b)[(I - 1) * 3 + J] = b[I][J]
    <3>1. \A k : Equal(Byte, n, k, b) => \A y \in 1..n, z \in 1..k : FlattenSeq(b)[(y - 1) * k + z] = b[y][z]
      BY Flattened
    <3>2. \A y \in 1..n, z \in 1..3 : FlattenSeq(b)[(y - 1) * 3 + z] = b[y][z]
      BY <2>1, <3>1
    <3> QED
      BY <3>2
  <2> QED
    BY <2>2, <2>3, <2>4
<1>7. rest \in Seq(Chars) /\ Len(rest) = r /\ \A y \in 1..r : rest[y] = s[4 * n + y]
  <2>1. rest = Part(s, 4 * n, r)
    <3>1. Len(s) - (Len(s) % 4) + 1 = 4 * n + 1 /\ Len(s) = 4 * n + r
      BY <1>4 DEF r
    <3> QED
      BY <3>1 DEF Remainder, Part
  <2> QED
    <3>1. Within(Chars, s, 4 * n, r)
      BY <1>1, <1>4 DEF Within
    <3> HIDE DEF Chars, rest
    <3> QED
      BY <2>1, <3>1, PartProperties
<1>8. CASE r = 0
  <2>1. t = <<>> /\ G \o <<>> = G
    BY <1>6, <1>7, <1>8, ConcatEmptySeq
  <2> HIDE DEF G, t
  <2>2. oaes_base64_decode(c) = G /\ Len(G) = BytesOf(s)
    BY <1>3, <1>4, <1>6, <1>8, <2>1
  <2>3. ASSUME NEW I \in Nat \ {0}, NEW J \in 1..3, (I - 1) * 3 + J <= Len(G)
        PROVE  G[(I - 1) * 3 + J] = Bytes(Four(s, I))[J]
    <3>1. I \in 1..n
      BY <1>4, <1>6, <2>3
    <3> QED
      BY <1>5, <1>6, <3>1, ZenonT(60)
  <2> QED
    BY <1>1, <1>6, <2>2, <2>3 DEF s
<1>9. CASE r # 0
  <2> DEFINE w == rest \o fill
  <2>0. r \in 1..3
    BY <1>4, <1>9
  <2>2. \A y \in 1..4 : w[y] = Four(s, n + 1)[y]
    <3>1. fill \in Seq(Chars) /\ Len(fill) = 4 - r /\ \A y \in 1..4 - r : fill[y] = EndOfTable
      BY <1>7, <2>0 DEF EndOfTable
    <3>2. /\ \A y \in 1..r : w[y] = rest[y]
          /\ \A y \in 1..4 - r : w[r + y] = EndOfTable
      <4>1. Both(Chars, rest, fill) /\ Len(rest) = r
        BY <1>7, <3>1 DEF Both
      <4> HIDE DEF rest, fill, Chars
      <4> QED
        BY <3>1, <4>1, Joined
    <3> HIDE DEF w, rest
    <3> TAKE y \in 1..4
    <3>5. Four(s, n + 1)[y] = IF 4 * n + y <= Len(s) THEN s[4 * n + y] ELSE EndOfTable
      <4>1. ((n + 1) - 1) * 4 + y = 4 * n + y
        BY <1>4
      <4> QED
        BY <4>1 DEF Four
    <3>3. CASE y <= r
      <4>1. y \in 1..r /\ 4 * n + y <= Len(s)
        BY <1>4, <3>3
      <4>2. w[y] = s[4 * n + y]
        BY <1>7, <3>2, <4>1
      <4> QED
        BY <3>5, <4>1, <4>2
    <3>4. CASE ~(y <= r)
      <4>1. y - r \in 1..4 - r /\ r + (y - r) = y
        BY <2>0, <3>4
      <4>2. w[y] = EndOfTable
        BY <3>2, <4>1
      <4> QED
        BY <1>4, <3>4, <3>5, <4>2
    <3> QED
      BY <3>3, <3>4
  <2>3. bytes = Bytes(Four(s, n + 1))
    <3> HIDE DEF w
    <3>1. w[1] = Four(s, n + 1)[1] /\ w[2] = Four(s, n + 1)[2] /\ w[3] = Four(s, n + 1)[3]
          /\ w[4] = Four(s, n + 1)[4]
      BY <2>2
    <3>2. Bytes(w) = Bytes(Four(s, n + 1))
      BY <3>1 DEF Bytes
    <3> QED
      BY <3>2 DEF w
  <2>4. bytes \in Seq(Byte) /\ Len(bytes) = 3
    <3>1. \A y \in 1..4 : Four(s, n + 1)[y] \in 0..EndOfTable
      BY <1>1, <1>4, FourRange
    <3> QED
      BY <2>3, <3>1, ByteRange
  <2> HIDE DEF bytes
  <2>5. t \in Seq(Byte) /\ Len(t) = r - 1 /\ \A y \in 1..r - 1 : t[y] = bytes[y]
    <3>1. /\ Part(bytes, 0, r - 1) \in Seq(Byte) /\ Len(Part(bytes, 0, r - 1)) = r - 1
          /\ \A y \in 1..r - 1 : Part(bytes, 0, r - 1)[y] = bytes[0 + y]
      <4>1. Within(Byte, bytes, 0, r - 1)
        BY <2>0, <2>4 DEF Within
      <4> QED
        BY <4>1, PartProperties
    <3>2. 0 + 1 = 1 /\ 0 + (r - 1) = Len(rest) - 1 /\ \A y \in 1..r - 1 : 0 + y = y
      BY <1>4, <1>7
    <3>3. t = Part(bytes, 0, r - 1)
      BY <1>7, <1>9, <3>2 DEF Part
    <3> HIDE DEF t
    <3> QED
      BY <3>1, <3>2, <3>3
  <2> DEFINE d == G \o t
  <2> HIDE DEF G, t
  <2>9. /\ d \in Seq(Byte) /\ Len(d) = n * 3 + (r - 1)
        /\ \A y \in 1..n * 3 : d[y] = G[y]
        /\ \A y \in 1..r - 1 : d[n * 3 + y] = t[y]
    <3>1. /\ d \in Seq(Byte) /\ Len(d) = Len(G) + Len(t)
          /\ \A y \in 1..Len(G) : d[y] = G[y]
          /\ \A y \in 1..Len(t) : d[Len(G) + y] = t[y]
      <4>1. Both(Byte, G, t)
        BY <1>6, <2>5 DEF Both
      <4> QED
        BY <4>1, Joined
    <3> HIDE DEF d
    <3> QED
      BY <1>6, <2>5, <3>1
  <2> HIDE DEF d
  <2>10. ASSUME NEW I \in Nat \ {0}, NEW J \in 1..3, (I - 1) * 3 + J <= Len(d)
         PROVE  d[(I - 1) * 3 + J] = Bytes(Four(s, I))[J]
    <3>1. CASE I = n + 1
      <4>1. (I - 1) * 3 + J = n * 3 + J /\ J \in 1..r - 1
        BY <1>4, <2>0, <2>9, <2>10, <3>1
      <4> QED
        BY <2>3, <2>5, <2>9, <3>1, <4>1
    <3>2. CASE I # n + 1
      <4>1. I \in 1..n /\ (I - 1) * 3 + J \in 1..n * 3
        BY <1>4, <2>0, <2>9, <2>10, <3>2
      <4>2. b[I] = Bytes(Four(s, I))
        BY <1>5, <4>1
      <4> HIDE DEF b
      <4>3. d[(I - 1) * 3 + J] = G[(I - 1) * 3 + J]
        BY <2>9, <4>1
      <4>4. G[(I - 1) * 3 + J] = b[I][J]
        BY <1>6, <4>1
      <4> QED
        BY <4>2, <4>3, <4>4
    <3> QED
      BY <3>1, <3>2
  <2>12. oaes_base64_decode(c) = d /\ Len(d) = BytesOf(s)
    BY <1>3, <1>4, <1>9, <2>9 DEF d
  <2> QED
    BY <1>1, <2>9, <2>10, <2>12 DEF s
<1> QED
  BY <1>4, <1>8, <1>9

\* A beginning of a sequence.
LEMMA StartProperties ==
  ASSUME NEW s \in Seq(Nat), NEW n \in 0..Len(s)
  PROVE  /\ SubSeq(s, 1, n) \in Seq(Nat) /\ Len(SubSeq(s, 1, n)) = n
         /\ \A x \in 1..n : SubSeq(s, 1, n)[x] = s[x]
<1>1. Len(s) \in Nat /\ n \in Nat /\ \A x \in 1..n : s[x] \in Nat
  BY ElementOfSeq
<1>2. /\ SubSeq(s, 1, n) \in Seq(Nat)
      /\ Len(SubSeq(s, 1, n)) = IF 1 <= n THEN (n - 1) + 1 ELSE 0
      /\ \A x \in 1..(n - 1) + 1 : SubSeq(s, 1, n)[x] = s[(1 + x) - 1]
  BY <1>1, SubSeqProperties
<1>3. \A x \in 1..n : (1 + x) - 1 = x
  BY <1>1
<1> QED
  BY <1>1, <1>2, <1>3

\* All of a sequence.
LEMMA StartIsAll == ASSUME NEW s \in Seq(Nat) PROVE SubSeq(s, 1, Len(s)) = s
<1>1. Len(s) \in Nat /\ Len(s) \in 0..Len(s)
  OBVIOUS
<1>2. /\ SubSeq(s, 1, Len(s)) \in Seq(Nat) /\ Len(SubSeq(s, 1, Len(s))) = Len(s)
      /\ \A x \in 1..Len(s) : SubSeq(s, 1, Len(s))[x] = s[x]
  BY <1>1, StartProperties
<1> QED
  BY <1>2, SeqEqual

\* How many characters and bytes there are to a text of l bytes.
LEMMA CharactersToBytes ==
  ASSUME NEW p \in Seq(Byte), NEW s \in Seq(0..EndOfTable), Len(s) <= CharactersOf(p)
  PROVE  /\ BytesOf(s) \in 0..Len(p)
         /\ Len(s) = CharactersOf(p) => BytesOf(s) = Len(p)
         /\ \A I \in Nat \ {0}, J \in 1..3 :
              (I - 1) * 3 + J <= BytesOf(s) =>
                I \in 1..(Len(p) \div 3) + 1 /\ (I - 1) * 4 + J + 1 <= Len(s)
<1> DEFINE n == Len(p) \div 3
           r == Len(p) % 3
           m == Len(s) \div 4
           q == Len(s) % 4
<1>1. n \in Nat /\ r \in 0..2 /\ Len(p) = 3 * n + r /\ CharactersOf(p) = 4 * n + IF r = 0 THEN 0 ELSE r + 1
  <2>1. \A l \in Nat : l \div 3 \in Nat /\ l % 3 \in 0..2 /\ l = 3 * (l \div 3) + (l % 3)
    OBVIOUS
  <2>2. Len(p) \in Nat
    OBVIOUS
  <2>3. n \in Nat /\ r \in 0..2 /\ Len(p) = 3 * n + r
    BY <2>1, <2>2
  <2> QED
    BY <2>3 DEF CharactersOf
<1>2. m \in Nat /\ q \in 0..3 /\ Len(s) = 4 * m + q /\ BytesOf(s) = 3 * m + IF q = 0 THEN 0 ELSE q - 1
  <2>1. \A l \in Nat : l \div 4 \in Nat /\ l % 4 \in 0..3 /\ l = 4 * (l \div 4) + (l % 4)
    OBVIOUS
  <2>2. Len(s) \in Nat
    OBVIOUS
  <2>3. m \in Nat /\ q \in 0..3 /\ Len(s) = 4 * m + q
    BY <2>1, <2>2
  <2> QED
    BY <2>3 DEF BytesOf
<1>6. Len(p) \div 3 = n
  OBVIOUS
<1> HIDE DEF n, r, m, q
<1>3. BytesOf(s) \in 0..Len(p)
  BY <1>1, <1>2
<1>4. Len(s) = CharactersOf(p) => BytesOf(s) = Len(p)
  BY <1>1, <1>2
<1>5. ASSUME NEW I \in Nat \ {0}, NEW J \in 1..3, (I - 1) * 3 + J <= BytesOf(s)
      PROVE  I \in 1..n + 1 /\ (I - 1) * 4 + J + 1 <= Len(s)
  BY <1>1, <1>2, <1>5
<1> QED
  BY <1>3, <1>4, <1>5, <1>6

Grid(n, k, x) == n \in Nat /\ k \in Nat \ {0} /\ x \in 1..n * k

\* Every place in n groups of k has a group and a place in it.
LEMMA PlaceInGrid ==
  ASSUME NEW n, NEW k, NEW x, Grid(n, k, x)
  PROVE  \E I \in 1..n, J \in 1..k : x = (I - 1) * k + J
  BY Place DEF Grid

\* A beginning of the code of p decodes to a beginning of p.
LEMMA Base64Start ==
  ASSUME NEW p \in Seq(Byte), NEW n \in 0..Len(oaes_base64_encode(p))
  PROVE  LET e == oaes_base64_encode(p)
         IN  \E l \in 0..Len(p) : /\ oaes_base64_decode(SubSeq(e, 1, n)) = SubSeq(p, 1, l)
                                  /\ n = Len(e) => l = Len(p)
<1> DEFINE e == oaes_base64_encode(p)
           C == CharactersOf(p)
           K == (Len(p) \div 3) + 1
           c == SubSeq(e, 1, n)
           x == IF n <= C THEN n ELSE C
           s == SubSeq(c, 1, x)
           d == oaes_base64_decode(c)
           l == BytesOf(s)
<1>1. /\ e \in Seq(0..EqualsSign)
      /\ Len(e) = 4 * (Len(p) \div 3) + IF Len(p) % 3 = 0 THEN 0 ELSE 4
      /\ \A I \in 1..K, J \in 1..4 :
           (I - 1) * 4 + J <= C => e[(I - 1) * 4 + J] = Characters(Triple(p, I))[J]
      /\ \A y \in C + 1..Len(e) : e[y] = EqualsSign
  BY Encoding
<1>2. /\ C \in Nat /\ C <= Len(e) /\ C <= K * 4 /\ K \in Nat
      /\ Len(p) \in Nat /\ Len(e) \in Nat /\ n \in Nat /\ n <= Len(e)
  <2> DEFINE N == Len(p) \div 3
             R == Len(p) % 3
  <2>1. \A a \in Nat : a \div 3 \in Nat /\ a % 3 \in 0..2
    OBVIOUS
  <2>2. Len(p) \in Nat /\ Len(e) \in Nat
    BY <1>1, LenProperties
  <2>3. N \in Nat /\ R \in 0..2
    BY <2>1, <2>2
  <2>4. n \in Nat /\ n <= Len(e)
    <3> HIDE DEF e
    <3> QED
      BY <2>2 DEF e
  <2>5. C = 4 * N + (IF R = 0 THEN 0 ELSE R + 1) /\ Len(e) = 4 * N + (IF R = 0 THEN 0 ELSE 4) /\ K = N + 1
    BY <1>1 DEF CharactersOf
  <2> HIDE DEF N, R, e, C, K
  <2> QED
    BY <2>2, <2>3, <2>4, <2>5
<1>3. e \in Seq(Nat)
  <2>1. 0..EqualsSign \subseteq Nat
    BY DEF EqualsSign
  <2> HIDE DEF e
  <2> QED
    BY <1>1, <2>1, SeqMonotonic
<1>4. c \in Seq(Nat) /\ Len(c) = n /\ \A y \in 1..n : c[y] = e[y]
  <2>1. n \in 0..Len(e)
    OBVIOUS
  <2> HIDE DEF e
  <2> QED
    BY <1>3, <2>1, StartProperties
<1> HIDE DEF e, c, C, K
<1>5. x \in 0..n /\ x <= C /\ x \in Nat
  BY <1>2
<1>6. Stopped(c, x)
  <2>1. ASSUME NEW y \in 1..x PROVE c[y] \in 0..EndOfTable
    <3>0. Grid(K, 4, y)
      BY <1>2, <1>5 DEF Grid
    <3>1. PICK I \in 1..K, J \in 1..4 : y = (I - 1) * 4 + J
      BY <3>0, PlaceInGrid
    <3>2. e[y] = Characters(Triple(p, I))[J]
      <4>1. (I - 1) * 4 + J <= C => e[(I - 1) * 4 + J] = Characters(Triple(p, I))[J]
        BY <1>1
      <4>2. y <= C
        BY <1>2, <1>5
      <4> QED
        BY <3>1, <4>1, <4>2
    <3>3. \A z \in 1..3 : Triple(p, I)[z] \in Byte
      BY <1>2, TripleRange
    <3>4. Characters(Triple(p, I)) \in Seq(0..63) /\ Len(Characters(Triple(p, I))) = 4
      BY <3>3, CharacterRange
    <3>5. Characters(Triple(p, I))[J] \in 0..63
      BY <3>4, ElementOfSeq
    <3>6. y \in 1..n
      BY <1>5
    <3>7. c[y] \in 0..63
      BY <1>4, <3>2, <3>5, <3>6
    <3>8. 0..63 \subseteq 0..EndOfTable
      BY DEF EndOfTable
    <3> QED
      BY <3>7, <3>8
  <2>2. ASSUME x < Len(c) PROVE c[x + 1] > EndOfTable
    <3>1. x = C /\ x + 1 \in 1..n /\ x + 1 \in C + 1..Len(e)
      BY <1>2, <1>4, <1>5, <2>2
    <3>2. c[x + 1] = EqualsSign
      BY <1>1, <1>4, <3>1
    <3> QED
      BY <3>2 DEF EqualsSign, EndOfTable
  <2> QED
    BY <1>4, <1>5, <2>1, <2>2 DEF Stopped
<1> HIDE DEF x
<1>7. /\ s \in Seq(0..EndOfTable) /\ Len(s) = x /\ \A y \in 1..x : s[y] = c[y]
      /\ d \in Seq(Byte) /\ Len(d) = l
      /\ \A I \in Nat \ {0}, J \in 1..3 :
           (I - 1) * 3 + J <= l => d[(I - 1) * 3 + J] = Bytes(Four(s, I))[J]
  BY <1>4, <1>6, Decoding, ZenonT(60)
<1> HIDE DEF s, d, l
<1>8. /\ l \in 0..Len(p)
      /\ x = C => l = Len(p)
      /\ \A I \in Nat \ {0}, J \in 1..3 :
           (I - 1) * 3 + J <= l => I \in 1..K /\ (I - 1) * 4 + J + 1 <= x
  <2>1. Len(s) <= CharactersOf(p) /\ CharactersOf(p) = C
    BY <1>5, <1>7 DEF C
  <2>2. /\ BytesOf(s) \in 0..Len(p)
        /\ Len(s) = CharactersOf(p) => BytesOf(s) = Len(p)
        /\ \A I \in Nat \ {0}, J \in 1..3 :
             (I - 1) * 3 + J <= BytesOf(s) =>
               I \in 1..(Len(p) \div 3) + 1 /\ (I - 1) * 4 + J + 1 <= Len(s)
    BY <1>7, <2>1, CharactersToBytes
  <2> QED
    BY <1>7, <2>1, <2>2 DEF l, K
<1>9. ASSUME NEW y \in 1..l PROVE d[y] = p[y]
  <2>1. PICK I \in Nat \ {0}, J \in 1..3 : y = (I - 1) * 3 + J
    <3>1. Grid(l, 3, y)
      BY <1>8 DEF Grid
    <3>2. \E I \in 1..l, J \in 1..3 : y = (I - 1) * 3 + J
      BY <3>1, PlaceInGrid
    <3> QED
      BY <1>8, <3>2
  <2>2. I \in 1..K /\ (I - 1) * 4 + J + 1 <= x /\ y <= l
    <3>1. (I - 1) * 3 + J <= l => I \in 1..K /\ (I - 1) * 4 + J + 1 <= x
      BY <1>8
    <3>2. y <= l
      BY <1>8
    <3> QED
      BY <2>1, <3>1, <3>2
  <2>3. ASSUME NEW z \in {J, J + 1} PROVE Four(s, I)[z] = Characters(Triple(p, I))[z]
    <3>1. z \in 1..4 /\ (I - 1) * 4 + z \in 1..x /\ (I - 1) * 4 + z \in 1..n /\ (I - 1) * 4 + z <= C
      <4>1. (I - 1) * 4 \in Nat /\ J \in 1..3 /\ z \in 1..4 /\ (I - 1) * 4 + z <= x /\ (I - 1) * 4 + z >= 1
        BY <1>2, <1>5, <2>2
      <4> HIDE DEF K
      <4> QED
        BY <1>2, <1>5, <4>1
    <3>2. Four(s, I)[z] = s[(I - 1) * 4 + z]
      BY <1>7, <3>1 DEF Four
    <3>3. s[(I - 1) * 4 + z] = e[(I - 1) * 4 + z]
      BY <1>4, <1>7, <3>1
    <3>4. e[(I - 1) * 4 + z] = Characters(Triple(p, I))[z]
      BY <1>1, <2>2, <3>1
    <3> QED
      BY <3>2, <3>3, <3>4
  <2>4. Bytes(Four(s, I))[J] = Triple(p, I)[J]
    <3>1. \A z \in 1..3 : Triple(p, I)[z] \in Byte
      BY <2>1, TripleRange
    <3> QED
      BY <2>3, <3>1, BytesOfCharacters
  <2>5. Triple(p, I)[J] = p[y]
    BY <1>8, <2>1, <2>2 DEF Triple
  <2>6. d[y] = Bytes(Four(s, I))[J]
    BY <1>7, <2>1, <2>2
  <2> QED
    BY <2>4, <2>5, <2>6
<1>10. d = SubSeq(p, 1, l)
  <2>1. p \in Seq(Nat)
    <3>1. Byte \subseteq Nat
      BY DEF Byte
    <3> QED
      BY <3>1, SeqMonotonic
  <2>2. SubSeq(p, 1, l) \in Seq(Nat) /\ Len(SubSeq(p, 1, l)) = l /\ \A y \in 1..l : SubSeq(p, 1, l)[y] = p[y]
    BY <1>8, <2>1, StartProperties
  <2>3. d \in Seq(Nat)
    <3>1. Byte \subseteq Nat
      BY DEF Byte
    <3> QED
      BY <1>7, <3>1, SeqMonotonic
  <2> QED
    BY <1>7, <1>9, <2>2, <2>3, SeqEqual
<1>11. n = Len(e) => l = Len(p)
  BY <1>2, <1>8 DEF x
<1> QED
  BY <1>8, <1>10, <1>11 DEF d, c, e

-----------------------------------------------------------------------------
(* Messages.                                                                *)

\* Division by the block size.
LEMMA BlockDivision ==
  /\ \A l \in Nat : /\ l \div Block \in Nat /\ l % Block \in 0..Block - 1
                    /\ l = (l \div Block) * Block + (l % Block)
  /\ \A n \in Nat, q \in 0..Block - 1 : (n * Block + q) \div Block = n /\ (n * Block + q) % Block = q
<1>1. Block \in Nat /\ Block >= 2
  BY BlockAssumption
<1>2. ASSUME NEW l \in Nat
      PROVE  /\ l \div Block \in Nat /\ l % Block \in 0..Block - 1
             /\ l = (l \div Block) * Block + (l % Block)
  BY <1>1
<1>3. ASSUME NEW n \in Nat, NEW q \in 0..Block - 1
      PROVE  (n * Block + q) \div Block = n /\ (n * Block + q) % Block = q
  BY <1>1
<1> QED
  BY <1>2, <1>3

HasBlock(s, I) == s \in Seq(Byte) /\ I \in Nat \ {0} /\ I * Block <= Len(s)

\* A block that is all there is a block.
LEMMA BlockProperties ==
  ASSUME NEW s, NEW I, HasBlock(s, I)
  PROVE  BlockOf(s, I) \in Blocks /\ \A J \in 1..Block : BlockOf(s, I)[J] = s[(I - 1) * Block + J]
<1> USE DEF HasBlock
<1>1. Block \in Nat \ {0} /\ (I - 1) * Block \in Nat /\ (I - 1) * Block + Block = I * Block
  BY BlockAssumption, Multiples
<1>2. Within(Byte, s, (I - 1) * Block, Block)
  BY <1>1 DEF Within
<1>3. BlockOf(s, I) = Part(s, (I - 1) * Block, Block)
  BY <1>1 DEF BlockOf, Part
<1>4. /\ BlockOf(s, I) \in Seq(Byte) /\ Len(BlockOf(s, I)) = Block
      /\ \A x \in 1..Block : BlockOf(s, I)[x] = s[(I - 1) * Block + x]
  BY <1>2, <1>3, PartProperties
<1> QED
  BY <1>4, LenProperties DEF Blocks

\* The exclusive or with the same block twice gives back the first block.
LEMMA XorTwice ==
  ASSUME XorLaws, NEW b \in Blocks, NEW c \in Blocks
  PROVE  XorBlock(b, c) \in Blocks /\ XorBlock(XorBlock(b, c), c) = b
<1>1. \A J \in 1..Block : b[J] \in Byte /\ c[J] \in Byte
  BY DEF Blocks
<1>2. \A J \in 1..Block : XorBlock(b, c)[J] = XorByte(b[J], c[J])
  BY DEF XorBlock
<1>3. XorBlock(b, c) \in Blocks
  BY <1>1 DEF XorBlock, XorLaws, Blocks
<1>4. XorBlock(XorBlock(b, c), c) = [J \in 1..Block |-> XorByte(XorBlock(b, c)[J], c[J])]
  BY DEF XorBlock
<1>5. \A J \in 1..Block : XorByte(XorBlock(b, c)[J], c[J]) = b[J]
  BY <1>1, <1>2 DEF XorLaws
<1>6. b = [J \in 1..Block |-> b[J]]
  BY DEF Blocks
<1> HIDE DEF XorBlock
<1> QED
  BY <1>3, <1>4, <1>5, <1>6

\* Blocks with the same bytes are equal.
LEMMA BlocksEqual ==
  ASSUME NEW b \in Blocks, NEW c \in Blocks, \A J \in 1..Block : b[J] = c[J] PROVE b = c
<1>1. b = [J \in 1..Block |-> b[J]] /\ c = [J \in 1..Block |-> c[J]]
  BY DEF Blocks
<1> QED
  BY <1>1

\* Sequences are made of their blocks.
Whole(s, n) == s \in Seq(Byte) /\ n \in Nat /\ Len(s) = n * Block

\* All its blocks are there.
LEMMA WholeBlocks ==
  ASSUME NEW s, NEW n, Whole(s, n)
  PROVE  \A I \in 1..n : HasBlock(s, I)
<1> USE DEF Whole
<1>1. \A I \in 1..n : I * Block <= n * Block
  <2>1. Block \in Nat
    BY BlockAssumption
  <2> QED
    BY <2>1
<1> QED
  BY <1>1 DEF HasBlock

SameBlocks(s, t, n) == Whole(s, n) /\ Whole(t, n) /\ \A I \in 1..n : BlockOf(s, I) = BlockOf(t, I)

\* Sequences with the same blocks are equal.
LEMMA EqualBlocks == ASSUME NEW s, NEW t, NEW n, SameBlocks(s, t, n) PROVE s = t
<1>1. Whole(s, n) /\ Whole(t, n) /\ \A I \in 1..n : BlockOf(s, I) = BlockOf(t, I)
  BY DEF SameBlocks
<1>2. ASSUME NEW x \in 1..n * Block PROVE s[x] = t[x]
  <2>1. Grid(n, Block, x)
    BY <1>1, BlockAssumption DEF Grid, Whole
  <2>2. PICK I \in 1..n, J \in 1..Block : x = (I - 1) * Block + J
    BY <2>1, PlaceInGrid
  <2>3. HasBlock(s, I) /\ HasBlock(t, I)
    BY <1>1, WholeBlocks
  <2>4. BlockOf(s, I)[J] = s[(I - 1) * Block + J]
    BY <2>3, BlockProperties
  <2>5. BlockOf(t, I)[J] = t[(I - 1) * Block + J]
    BY <2>3, BlockProperties
  <2> QED
    BY <1>1, <2>2, <2>4, <2>5
<1>3. s \in Seq(Byte) /\ t \in Seq(Byte) /\ Len(s) = n * Block /\ Len(t) = n * Block
  BY <1>1 DEF Whole
<1> QED
  BY <1>2, <1>3, SeqEqual

\* Blocks one after the other.
LEMMA Blockwise ==
  ASSUME NEW n \in Nat, NEW b, b \in [1..n -> Blocks]
  PROVE  Whole(FlattenSeq(b), n) /\ \A I \in 1..n : BlockOf(FlattenSeq(b), I) = b[I]
<1>1. Block \in Nat \ {0}
  BY BlockAssumption
<1>2. ASSUME NEW v \in Blocks PROVE v \in Seq(Byte) /\ Len(v) = Block
  BY <1>1 DEF Blocks
<1>3. Equal(Byte, n, Block, b)
  BY <1>1, <1>2 DEF Equal
<1> DEFINE f == FlattenSeq(b)
<1>4. /\ f \in Seq(Byte) /\ Len(f) = n * Block
      /\ \A I \in 1..n, J \in 1..Block : f[(I - 1) * Block + J] = b[I][J]
  BY <1>3, Flattened
<1> HIDE DEF f
<1>5. Whole(f, n)
  BY <1>4 DEF Whole
<1>6. ASSUME NEW I \in 1..n PROVE BlockOf(f, I) = b[I]
  <2>1. HasBlock(f, I)
    BY <1>5, WholeBlocks
  <2>2. BlockOf(f, I) \in Blocks /\ \A J \in 1..Block : BlockOf(f, I)[J] = f[(I - 1) * Block + J]
    BY <2>1, BlockProperties
  <2>3. b[I] \in Blocks /\ \A J \in 1..Block : BlockOf(f, I)[J] = b[I][J]
    BY <1>4, <2>2
  <2> QED
    BY <2>2, <2>3, BlocksEqual
<1> QED
  BY <1>5, <1>6 DEF f

\* The data of a message: n blocks, of which m is all but the padding.
Blocked(m) == m \o Padding(m)
BlocksIn(m) == Len(Blocked(m)) \div Block
PadLen(m) == Len(Padding(m))

\* The padding fills up the last block of a message, byte x of it being x.
LEMMA Padded ==
  ASSUME NEW m \in Seq(Byte)
  PROVE  /\ Whole(Blocked(m), BlocksIn(m)) /\ Len(m) \in Nat /\ PadLen(m) \in 0..Block - 1
         /\ Len(m) + PadLen(m) = BlocksIn(m) * Block
         /\ Padding(m) = <<>> <=> PadLen(m) = 0
         /\ \A x \in 1..Len(m) : Blocked(m)[x] = m[x]
         /\ \A x \in 1..PadLen(m) : Blocked(m)[Len(m) + x] = x
<1> DEFINE q == Len(m) % Block
           z == Len(m) \div Block
<1>1. /\ Block \in Nat /\ Block >= 2 /\ Block <= 256 /\ Len(m) \in Nat
      /\ z \in Nat /\ q \in 0..Block - 1 /\ Len(m) = z * Block + q
  <2>1. Block \in Nat /\ Block >= 2 /\ Block <= 256 /\ Len(m) \in Nat
    BY BlockAssumption
  <2> QED
    BY <2>1, BlockDivision
<1> HIDE DEF q, z
<1>2. /\ Padding(m) \in Seq(Byte) /\ PadLen(m) = IF q = 0 THEN 0 ELSE Block - q
      /\ \A x \in 1..PadLen(m) : Padding(m)[x] = x
      /\ Padding(m) = <<>> <=> PadLen(m) = 0
  <2>1. CASE q = 0
    <3>1. Padding(m) = <<>>
      BY <2>1 DEF Padding, q
    <3> QED
      BY <2>1, <3>1, EmptySeq DEF PadLen
  <2>2. CASE q # 0
    <3> DEFINE k == Block - q
    <3>1. k \in 1..Block - 1 /\ k \in 1..255
      BY <1>1, <2>2
    <3>2. Padding(m) = [x \in 1..k |-> x]
      BY <2>2 DEF Padding, q
    <3>3. PadLen(m) = k
      <4> HIDE DEF k
      <4> QED
        BY <3>1, <3>2 DEF PadLen
    <3> HIDE DEF k
    <3>4. Padding(m) \in Seq(Byte) /\ \A x \in 1..k : Padding(m)[x] = x
      BY <3>1, <3>2 DEF Byte
    <3>5. Padding(m) # <<>>
      BY <3>1, <3>3, EmptySeq DEF PadLen
    <3> QED
      BY <2>2, <3>1, <3>3, <3>4, <3>5 DEF k
  <2> QED
    BY <2>1, <2>2
<1>3. /\ Blocked(m) \in Seq(Byte) /\ Len(Blocked(m)) = Len(m) + PadLen(m)
      /\ \A x \in 1..Len(m) : Blocked(m)[x] = m[x]
      /\ \A x \in 1..PadLen(m) : Blocked(m)[Len(m) + x] = x
  <2>1. Both(Byte, m, Padding(m))
    BY <1>2 DEF Both
  <2> QED
    BY <1>2, <2>1, Joined DEF Blocked, PadLen
<1>4. PadLen(m) \in 0..Block - 1 /\ Len(m) + PadLen(m) = BlocksIn(m) * Block /\ BlocksIn(m) \in Nat
  <2>1. PICK k \in Nat : Len(m) + PadLen(m) = k * Block
    <3>1. CASE q = 0
      BY <1>1, <1>2, <3>1
    <3>2. CASE q # 0
      <4>1. (z + 1) * Block = z * Block + Block /\ z + 1 \in Nat /\ z * Block \in Nat
        BY <1>1
      <4>2. Len(m) + PadLen(m) = (z + 1) * Block
        BY <1>1, <1>2, <3>2, <4>1
      <4> QED
        BY <4>1, <4>2
    <3> QED
      BY <3>1, <3>2
  <2>2. (k * Block + 0) \div Block = k /\ k * Block + 0 = k * Block
    <3>1. 0 \in 0..Block - 1 /\ k * Block \in Nat
      BY <1>1
    <3> QED
      BY <3>1, BlockDivision
  <2>3. BlocksIn(m) = k
    BY <1>3, <2>1, <2>2 DEF BlocksIn
  <2> QED
    BY <1>1, <1>2, <2>1, <2>3
<1> QED
  BY <1>1, <1>2, <1>3, <1>4 DEF Whole

\* What oaes_encrypt returns, block by block.
Fits(K, key, iv, m) == key \in K /\ iv \in Blocks /\ m \in Seq(Byte)

LEMMA Encrypting ==
  ASSUME XorLaws, NEW K, CipherLaws(K, Blocks), NEW options \in {ECB, CBC}, NEW key, NEW iv, NEW m,
         Fits(K, key, iv, m)
  PROVE  LET n == BlocksIn(m)
             e == oaes_encrypt(options, iv, key, m)
         IN  /\ Whole(e, n + 2)
             /\ e[1] = options /\ e[2] = IF PadLen(m) = 0 THEN 0 ELSE PAD
             /\ \A I \in 1..n :
                  BlockOf(e, I + 2) =
                    Cipher(key, IF options = CBC THEN XorBlock(BlockOf(Blocked(m), I), BlockOf(e, I + 1))
                                ELSE BlockOf(Blocked(m), I))
<1> DEFINE data == Blocked(m)
           n == BlocksIn(m)
           Mixed(I, v) == IF options = CBC THEN XorBlock(BlockOf(data, I), v) ELSE BlockOf(data, I)
           Defines(f) == f = [I \in 0..n |-> IF I = 0 THEN iv ELSE Cipher(key, Mixed(I, f[I - 1]))]
           c == CHOOSE f : Defines(f)
           H == Header(options, iv, m)
           b == [I \in 1..n |-> c[I]]
           e == oaes_encrypt(options, iv, key, m)
<1>1. e = H \o FlattenSeq(b)
  BY DEF oaes_encrypt, Blocked, BlocksIn
<1>2. key \in K /\ iv \in Blocks /\ m \in Seq(Byte)
  BY DEF Fits
<1>3. Whole(data, n) /\ n \in Nat /\ (Padding(m) = <<>> <=> PadLen(m) = 0)
  BY <1>2, Padded DEF Whole
<1> HIDE DEF data, n, e
<1>4. ASSUME NEW I \in 1..n, NEW v \in Blocks PROVE Cipher(key, Mixed(I, v)) \in Blocks
  <2>1. HasBlock(data, I)
    BY <1>3, WholeBlocks
  <2>2. BlockOf(data, I) \in Blocks
    BY <2>1, BlockProperties
  <2>3. XorBlock(BlockOf(data, I), v) \in Blocks
    BY <2>2, XorTwice
  <2>4. Mixed(I, v) \in Blocks
    BY <2>2, <2>3
  <2> HIDE DEF Mixed
  <2> QED
    BY <1>2, <2>4 DEF CipherLaws
<1>5. c \in [0..n -> Blocks] /\ c[0] = iv /\ \A I \in 1..n : c[I] = Cipher(key, Mixed(I, c[I - 1]))
  <2> DEFINE step == [I \in 1..n |-> [v \in Blocks |-> Cipher(key, Mixed(I, v))]]
  <2> HIDE DEF Mixed
  <2>1. Recursive(Blocks, iv, step, n)
    BY <1>2, <1>3, <1>4 DEF Recursive
  <2>2. PICK f : Solution(f, Blocks, iv, step, n)
    <3> HIDE DEF step
    <3> QED
      BY <2>1, Recursion
  <2>3. /\ f \in [0..n -> Blocks] /\ f[0] = iv
        /\ \A I \in 1..n : f[I] = Cipher(key, Mixed(I, f[I - 1]))
    <3>1. f \in [0..n -> Blocks] /\ f[0] = iv /\ \A I \in 1..n : f[I] = step[I][f[I - 1]]
      BY <2>2 DEF Solution
    <3>2. ASSUME NEW I \in 1..n PROVE f[I] = Cipher(key, Mixed(I, f[I - 1]))
      <4>1. I - 1 \in 0..n
        BY <1>3
      <4>2. f[I - 1] \in Blocks
        BY <3>1, <4>1
      <4> QED
        BY <3>1, <4>2
    <3> QED
      BY <3>1, <3>2
  <2>4. Defines(f)
    <3>1. \A I \in 0..n : f[I] = IF I = 0 THEN iv ELSE Cipher(key, Mixed(I, f[I - 1]))
      BY <1>3, <2>3
    <3>2. f = [I \in 0..n |-> f[I]]
      BY <2>3
    <3> QED
      BY <3>1, <3>2
  <2>5. Defines(c)
    BY <2>4
  <2> HIDE DEF c
  <2> DEFINE Typed == {I \in Nat : I <= n => c[I] \in Blocks}
  <2>6. c[0] = iv /\ \A I \in 1..n : c[I] = Cipher(key, Mixed(I, c[I - 1]))
    <3>1. \A I \in 0..n : c[I] = IF I = 0 THEN iv ELSE Cipher(key, Mixed(I, c[I - 1]))
      BY <2>5
    <3> QED
      BY <1>3, <3>1
  <2>7. 0 \in Typed
    BY <1>2, <2>6
  <2>8. ASSUME NEW I \in Nat, I \in Typed PROVE I + 1 \in Typed
    <3>1. SUFFICES ASSUME I + 1 <= n PROVE c[I + 1] \in Blocks
      OBVIOUS
    <3>2. I + 1 \in 1..n /\ (I + 1) - 1 = I /\ c[I] \in Blocks
      BY <1>3, <2>8, <3>1
    <3> QED
      BY <1>4, <2>6, <3>2
  <2>9. \A I \in 0..n : c[I] \in Blocks
    <3> HIDE DEF Typed
    <3>1. Nat \subseteq Typed
      BY <2>7, <2>8, NatInductive
    <3> QED
      BY <1>3, <3>1 DEF Typed
  <2>10. c = [I \in 0..n |-> c[I]]
    BY <2>5
  <2>11. c \in [0..n -> Blocks]
    BY <2>9, <2>10
  <2> QED
    BY <2>6, <2>11
<1> HIDE DEF c, Mixed
<1> DEFINE F == FlattenSeq(b)
<1>6. Whole(F, n) /\ \A I \in 1..n : BlockOf(F, I) = c[I]
  <2>1. b \in [1..n -> Blocks] /\ \A I \in 1..n : b[I] = c[I]
    BY <1>3, <1>5
  <2> HIDE DEF b
  <2> QED
    BY <1>3, <2>1, Blockwise
<1>7. /\ Whole(H, 2) /\ BlockOf(H, 2) = iv
      /\ H[1] = options /\ H[2] = IF PadLen(m) = 0 THEN 0 ELSE PAD
  <2> DEFINE flag == IF Padding(m) = <<>> THEN 0 ELSE PAD
             u == <<options, flag>>
             z == Zeros(Block - 2)
             h == u \o z
  <2>0. Block \in Nat /\ Block >= 2
    BY BlockAssumption
  <2>1. u \in Seq(Byte) /\ Len(u) = 2 /\ u[1] = options /\ u[2] = flag
    BY DEF ECB, CBC, PAD, Byte
  <2>2. z \in Seq(Byte) /\ Len(z) = Block - 2
    BY <2>0 DEF Zeros, Byte
  <2>3. iv \in Seq(Byte) /\ Len(iv) = Block
    BY <1>2, <2>0 DEF Blocks
  <2>4. H = h \o iv
    BY DEF Header
  <2> HIDE DEF u, z, H
  <2>5. h \in Seq(Byte) /\ Len(h) = Block /\ h[1] = options /\ h[2] = flag
    <3>1. Both(Byte, u, z)
      BY <2>1, <2>2 DEF Both
    <3>2. /\ u \o z \in Seq(Byte) /\ Len(u \o z) = Len(u) + Len(z)
          /\ \A x \in 1..Len(u) : (u \o z)[x] = u[x]
      BY <3>1, Joined
    <3> QED
      BY <2>0, <2>1, <2>2, <3>2
  <2> HIDE DEF h
  <2>6. /\ H \in Seq(Byte) /\ Len(H) = Block + Block
        /\ \A x \in 1..Block : H[x] = h[x]
        /\ \A x \in 1..Block : H[Block + x] = iv[x]
    <3>1. Both(Byte, h, iv)
      BY <2>3, <2>5 DEF Both
    <3>2. /\ h \o iv \in Seq(Byte) /\ Len(h \o iv) = Len(h) + Len(iv)
          /\ \A x \in 1..Len(h) : (h \o iv)[x] = h[x]
          /\ \A x \in 1..Len(iv) : (h \o iv)[Len(h) + x] = iv[x]
      BY <3>1, Joined
    <3> QED
      BY <2>3, <2>4, <2>5, <3>2
  <2>7. 2 * Block = Block + Block /\ (2 - 1) * Block = Block
    BY <2>0
  <2>8. Whole(H, 2)
    BY <2>6, <2>7 DEF Whole
  <2>9. HasBlock(H, 2)
    BY <2>6, <2>7, <2>0 DEF HasBlock
  <2>10. BlockOf(H, 2) \in Blocks /\ \A x \in 1..Block : BlockOf(H, 2)[x] = H[(2 - 1) * Block + x]
    BY <2>9, BlockProperties
  <2>11. BlockOf(H, 2) = iv
    BY <1>2, <2>6, <2>7, <2>10, BlocksEqual
  <2>12. H[1] = options /\ H[2] = flag
    BY <2>0, <2>5, <2>6
  <2> QED
    BY <1>3, <2>8, <2>11, <2>12
<1> HIDE DEF H, F, b
<1>8. /\ Whole(e, n + 2) /\ e[1] = H[1] /\ e[2] = H[2] /\ BlockOf(e, 2) = BlockOf(H, 2)
      /\ \A I \in 1..n : BlockOf(e, I + 2) = BlockOf(F, I)
  <2>0. Block \in Nat /\ Block >= 2 /\ 2 * Block = Block + Block
        /\ \A I \in Nat : (I + 2) * Block = I * Block + 2 * Block /\ I * Block \in Nat
    BY BlockAssumption
  <2>1. H \in Seq(Byte) /\ Len(H) = 2 * Block /\ F \in Seq(Byte) /\ Len(F) = n * Block
    BY <1>6, <1>7 DEF Whole
  <2>2. /\ e \in Seq(Byte) /\ Len(e) = 2 * Block + n * Block
        /\ \A x \in 1..2 * Block : e[x] = H[x]
        /\ \A x \in 1..n * Block : e[2 * Block + x] = F[x]
    <3>1. Both(Byte, H, F)
      BY <2>1 DEF Both
    <3>2. /\ H \o F \in Seq(Byte) /\ Len(H \o F) = Len(H) + Len(F)
          /\ \A x \in 1..Len(H) : (H \o F)[x] = H[x]
          /\ \A x \in 1..Len(F) : (H \o F)[Len(H) + x] = F[x]
      BY <3>1, Joined
    <3>3. e = H \o F
      BY <1>1 DEF F
    <3> QED
      BY <2>1, <3>2, <3>3
  <2>3. Whole(e, n + 2)
    BY <1>3, <2>0, <2>2 DEF Whole
  <2>4. e[1] = H[1] /\ e[2] = H[2]
    <3>1. 1 \in 1..2 * Block /\ 2 \in 1..2 * Block
      BY <2>0
    <3> QED
      BY <2>2, <3>1
  <2>5. BlockOf(e, 2) = BlockOf(H, 2)
    <3>1. HasBlock(e, 2) /\ HasBlock(H, 2)
      BY <1>3, <1>7, <2>3, WholeBlocks
    <3>2. BlockOf(e, 2) \in Blocks /\ \A x \in 1..Block : BlockOf(e, 2)[x] = e[(2 - 1) * Block + x]
      BY <3>1, BlockProperties
    <3>3. BlockOf(H, 2) \in Blocks /\ \A x \in 1..Block : BlockOf(H, 2)[x] = H[(2 - 1) * Block + x]
      BY <3>1, BlockProperties
    <3>4. \A x \in 1..Block : (2 - 1) * Block + x \in 1..2 * Block
      BY <2>0
    <3>5. \A x \in 1..Block : BlockOf(e, 2)[x] = BlockOf(H, 2)[x]
      BY <2>2, <3>2, <3>3, <3>4
    <3> QED
      BY <3>2, <3>3, <3>5, BlocksEqual
  <2>6. ASSUME NEW I \in 1..n PROVE BlockOf(e, I + 2) = BlockOf(F, I)
    <3>0. I + 2 \in 1..n + 2 /\ I \in Nat \ {0} /\ I - 1 \in Nat /\ (I + 2) - 1 = (I - 1) + 2
      BY <1>3
    <3>1. HasBlock(e, I + 2) /\ HasBlock(F, I)
      BY <1>6, <2>3, <3>0, WholeBlocks
    <3>2. BlockOf(e, I + 2) \in Blocks /\ \A x \in 1..Block : BlockOf(e, I + 2)[x] = e[((I + 2) - 1) * Block + x]
      BY <3>1, BlockProperties
    <3>3. BlockOf(F, I) \in Blocks /\ \A x \in 1..Block : BlockOf(F, I)[x] = F[(I - 1) * Block + x]
      BY <3>1, BlockProperties
    <3>4. ((I + 2) - 1) * Block = (I - 1) * Block + 2 * Block /\ (I - 1) * Block \in Nat
      BY <2>0, <3>0
    <3>6. (I - 1) * Block + Block <= n * Block
      <4>1. (I - 1) < n /\ Block \in Nat \ {0}
        BY <1>3, <2>0, <3>0
      <4> QED
        BY <1>3, <3>0, <4>1, Multiples
    <3>5. ASSUME NEW x \in 1..Block PROVE BlockOf(e, I + 2)[x] = BlockOf(F, I)[x]
      <4>1. (I - 1) * Block + x \in 1..n * Block
        <5>1. \A a, z \in Nat : a + Block <= z => a + x \in 1..z
          BY <2>0
        <5>2. n * Block \in Nat
          BY <1>3, <2>0
        <5> QED
          BY <3>4, <3>6, <5>1, <5>2
      <4>2. ((I + 2) - 1) * Block + x = 2 * Block + ((I - 1) * Block + x)
        BY <2>0, <3>4
      <4>3. e[2 * Block + ((I - 1) * Block + x)] = F[(I - 1) * Block + x]
        BY <2>2, <4>1
      <4> QED
        BY <3>2, <3>3, <4>2, <4>3
    <3> QED
      BY <3>2, <3>3, <3>5, BlocksEqual
  <2> QED
    BY <2>3, <2>4, <2>5, <2>6
<1>9. ASSUME NEW I \in 1..n PROVE BlockOf(e, I + 2) = Cipher(key, Mixed(I, BlockOf(e, I + 1)))
  <2>1. BlockOf(e, I + 1) = c[I - 1]
    <3>1. CASE I = 1
      BY <1>5, <1>7, <1>8, <3>1
    <3>2. CASE I # 1
      <4>1. I - 1 \in 1..n /\ (I - 1) + 2 = I + 1
        BY <1>3, <3>2
      <4> QED
        BY <1>6, <1>8, <4>1
    <3> QED
      BY <3>1, <3>2
  <2> QED
    BY <1>5, <1>6, <1>8, <2>1
<1> QED
  BY <1>7, <1>8, <1>9 DEF e, n, data, Mixed

\* Beginnings of a sequence of bytes.
Begins(s, l) == s \in Seq(Byte) /\ l \in 0..Len(s)

\* A beginning has the same bytes.
LEMMA BeginProperties ==
  ASSUME NEW s, NEW l, Begins(s, l)
  PROVE  /\ SubSeq(s, 1, l) \in Seq(Byte) /\ Len(SubSeq(s, 1, l)) = l
         /\ \A x \in 1..l : SubSeq(s, 1, l)[x] = s[x]
<1>1. s \in Seq(Byte) /\ l \in Nat /\ Len(s) \in Nat /\ l <= Len(s)
  BY DEF Begins
<1>2. \A x \in 1..l : s[x] \in Byte
  BY <1>1, ElementOfSeq
<1>3. /\ SubSeq(s, 1, l) \in Seq(Byte)
      /\ Len(SubSeq(s, 1, l)) = IF 1 <= l THEN (l - 1) + 1 ELSE 0
      /\ \A x \in 1..(l - 1) + 1 : SubSeq(s, 1, l)[x] = s[(1 + x) - 1]
  BY <1>1, <1>2, SubSeqProperties
<1>4. \A x \in 1..l : (1 + x) - 1 = x
  BY <1>1
<1> QED
  BY <1>1, <1>3, <1>4

SameBegin(s, t, l) == Begins(s, l) /\ Begins(t, l) /\ \A x \in 1..l : s[x] = t[x]

\* Beginnings with the same bytes are equal.
LEMMA EqualBegins ==
  ASSUME NEW s, NEW t, NEW l, SameBegin(s, t, l)
  PROVE  SubSeq(s, 1, l) = SubSeq(t, 1, l)
<1>1. Begins(s, l) /\ Begins(t, l) /\ \A x \in 1..l : s[x] = t[x]
  BY DEF SameBegin
<1> DEFINE u == SubSeq(s, 1, l)
           v == SubSeq(t, 1, l)
<1>2. u \in Seq(Byte) /\ Len(u) = l /\ \A x \in 1..l : u[x] = s[x]
  BY <1>1, BeginProperties
<1>3. v \in Seq(Byte) /\ Len(v) = l /\ \A x \in 1..l : v[x] = t[x]
  BY <1>1, BeginProperties
<1> HIDE DEF u, v
<1>4. u = v
  BY <1>1, <1>2, <1>3, SeqEqual
<1> QED
  BY <1>4 DEF u, v

\* What is deciphered, before the padding is taken off.
Opened(key, c, I) ==
  LET b == Decipher(key, BlockOf(c, I + 2))
  IN  IF c[1] = CBC THEN XorBlock(b, BlockOf(c, I + 1)) ELSE b
Raw(key, c) == FlattenSeq([I \in 1..(Len(c) \div Block) - 2 |-> Opened(key, c, I)])

Sealed(K, key, c) == key \in K /\ c \in Seq(Byte)

\* What oaes_decrypt returns: nothing if the length is wrong, and otherwise
\* the opened blocks, without the padding or cleared as the header has it.
LEMMA Decrypting ==
  ASSUME XorLaws, NEW K, CipherLaws(K, Blocks), NEW key, NEW c, Sealed(K, key, c)
  PROVE  \/ oaes_decrypt(key, c) = <<>> /\ \A n \in Nat : Len(c) # (n + 2) * Block
         \/ \E n \in Nat :
              /\ Whole(c, n + 2) /\ Whole(Raw(key, c), n)
              /\ \A I \in 1..n : BlockOf(Raw(key, c), I) = Opened(key, c, I)
              /\ oaes_decrypt(key, c) =
                   IF c[1] \notin {ECB, CBC} \/ c[2] \notin {0, PAD} THEN Zeros(n * Block)
                   ELSE IF c[2] = PAD /\ Raw(key, c) # <<>>
                        THEN SubSeq(Raw(key, c), 1, Len(Raw(key, c)) - PaddingIn(Raw(key, c)))
                        ELSE Raw(key, c)
<1> DEFINE n == (Len(c) \div Block) - 2
           d == oaes_decrypt(key, c)
           R == Raw(key, c)
<1>1. key \in K /\ c \in Seq(Byte) /\ Len(c) \in Nat
  BY DEF Sealed
<1>2. /\ Block \in Nat /\ Block >= 2
      /\ Len(c) \div Block \in Nat /\ Len(c) % Block \in 0..Block - 1
      /\ Len(c) = (Len(c) \div Block) * Block + (Len(c) % Block)
  <2>1. Block \in Nat /\ Block >= 2
    BY BlockAssumption
  <2> QED
    BY <1>1, <2>1, BlockDivision
<1>3. d = IF Len(c) % Block # 0 \/ Len(c) < 2 * Block THEN <<>>
          ELSE IF c[1] \notin {ECB, CBC} \/ c[2] \notin {0, PAD} THEN Zeros(n * Block)
          ELSE IF c[2] = PAD /\ R # <<>> THEN SubSeq(R, 1, Len(R) - PaddingIn(R))
          ELSE R
  BY Zenon DEF oaes_decrypt, Raw, Opened
<1> HIDE DEF d
<1>4. CASE Len(c) % Block # 0 \/ Len(c) < 2 * Block
  <2>1. ASSUME NEW k \in Nat, Len(c) = (k + 2) * Block PROVE FALSE
    <3>1. k + 2 \in Nat /\ (k + 2) * Block = k * Block + 2 * Block /\ k * Block \in Nat
      BY <1>2
    <3>2. ((k + 2) * Block + 0) % Block = 0 /\ (k + 2) * Block + 0 = (k + 2) * Block
      <4>1. 0 \in 0..Block - 1 /\ (k + 2) * Block \in Nat
        BY <1>2, <3>1
      <4> QED
        BY <3>1, <4>1, BlockDivision
    <3>3. Len(c) % Block = 0
      BY <2>1, <3>2
    <3>4. ~(Len(c) < 2 * Block)
      BY <1>2, <2>1, <3>1
    <3> QED
      BY <1>4, <3>3, <3>4
  <2>2. d = <<>>
    BY <1>3, <1>4
  <2> QED
    BY <2>1, <2>2 DEF d
<1>5. CASE ~(Len(c) % Block # 0 \/ Len(c) < 2 * Block)
  <2> DEFINE w == Len(c) \div Block
             b == [I \in 1..n |-> Opened(key, c, I)]
  <2>1. w \in Nat /\ Len(c) = w * Block /\ Len(c) >= 2 * Block
    BY <1>1, <1>2, <1>5
  <2>2. n \in Nat /\ n + 2 = w
    <3> HIDE DEF w
    <3>1. w >= 2
      <4>1. ~(w <= 1)
        BY <1>2, <2>1
      <4> QED
        BY <2>1, <4>1
    <3>2. n = w - 2
      BY DEF w
    <3> QED
      BY <2>1, <3>1, <3>2
  <2>3. Whole(c, n + 2)
    <3> HIDE DEF n, w
    <3> QED
      BY <1>1, <2>1, <2>2 DEF Whole
  <2> HIDE DEF n, w
  <2>4. ASSUME NEW I \in 1..n PROVE Opened(key, c, I) \in Blocks
    <3>1. I + 2 \in 1..n + 2 /\ I + 1 \in 1..n + 2
      BY <2>2
    <3>2. HasBlock(c, I + 2) /\ HasBlock(c, I + 1)
      BY <2>3, <3>1, WholeBlocks
    <3>3. BlockOf(c, I + 2) \in Blocks
      BY <3>2, BlockProperties
    <3>4. BlockOf(c, I + 1) \in Blocks
      BY <3>2, BlockProperties
    <3>5. Decipher(key, BlockOf(c, I + 2)) \in Blocks
      BY <1>1, <3>3 DEF CipherLaws
    <3>6. XorBlock(Decipher(key, BlockOf(c, I + 2)), BlockOf(c, I + 1)) \in Blocks
      BY <3>4, <3>5, XorTwice
    <3> QED
      BY <3>5, <3>6 DEF Opened
  <2>5. Whole(R, n) /\ \A I \in 1..n : BlockOf(R, I) = Opened(key, c, I)
    <3>1. b \in [1..n -> Blocks] /\ \A I \in 1..n : b[I] = Opened(key, c, I)
      BY <2>4
    <3>2. R = FlattenSeq(b)
      BY DEF Raw, n
    <3> HIDE DEF b, R
    <3>3. Whole(FlattenSeq(b), n) /\ \A I \in 1..n : BlockOf(FlattenSeq(b), I) = b[I]
      BY <2>2, <3>1, Blockwise
    <3> QED
      BY <3>1, <3>2, <3>3
  <2> HIDE DEF R
  <2>6. d = IF c[1] \notin {ECB, CBC} \/ c[2] \notin {0, PAD} THEN Zeros(n * Block)
            ELSE IF c[2] = PAD /\ R # <<>> THEN SubSeq(R, 1, Len(R) - PaddingIn(R)) ELSE R
    BY <1>3, <1>5
  <2> QED
    BY <2>2, <2>3, <2>5, <2>6 DEF d, R
<1> QED
  BY <1>4, <1>5

\* No more padding is found than there are data, and what was added is found.
LEMMA PaddingRange ==
  ASSUME NEW m, NEW n, Whole(m, n), n # 0
  PROVE  PaddingIn(m) \in 0..Block - 1 /\ PaddingIn(m) \in 0..Len(m) /\ Len(m) - PaddingIn(m) \in 0..Len(m)
<1>1. Block \in Nat /\ Block >= 2 /\ n \in Nat /\ Len(m) = n * Block
  BY BlockAssumption DEF Whole
<1>2. Len(m) >= Block /\ Len(m) \in Nat
  BY <1>1
<1>3. PaddingIn(m) \in 0..Block - 1
  BY <1>1 DEF PaddingIn
<1> HIDE DEF PaddingIn
<1> QED
  BY <1>1, <1>2, <1>3

\* oaes_decrypt finds the padding that oaes_encrypt made.
LEMMA PaddingFound ==
  ASSUME NEW m \in Seq(Byte), PadLen(m) # 0 PROVE PaddingIn(Blocked(m)) = PadLen(m)
<1> DEFINE data == Blocked(m)
           q == PadLen(m)
<1>1. /\ Whole(data, BlocksIn(m)) /\ Len(m) \in Nat /\ q \in 1..Block - 1
      /\ Len(m) + q = BlocksIn(m) * Block
      /\ \A x \in 1..q : data[Len(m) + x] = x
  <2>1. Block \in Nat
    BY BlockAssumption
  <2> QED
    BY <2>1, Padded
<1>2. Len(data) = Len(m) + q /\ q \in Nat /\ q >= 1
  BY <1>1 DEF Whole
<1> HIDE DEF data, q
<1>3. data[Len(data)] = q
  BY <1>1, <1>2
<1>4. \A x \in 1..q : data[(Len(data) - q) + x] = x
  <2>1. \A x \in 1..q : (Len(data) - q) + x = Len(m) + x
    BY <1>1, <1>2
  <2> QED
    BY <1>1, <2>1
<1>5. PaddingIn(data) = q
  BY <1>1, <1>3, <1>4 DEF PaddingIn
<1> QED
  BY <1>5 DEF data, q

\* A beginning of a message for p decrypts to a beginning of p.
LEMMA AesStart ==
  ASSUME XorLaws, NEW K, CipherLaws(K, Blocks), NEW options \in {ECB, CBC}, NEW key, NEW iv, NEW p,
         Fits(K, key, iv, p), NEW z \in 0..Len(oaes_encrypt(options, iv, key, p))
  PROVE  LET e == oaes_encrypt(options, iv, key, p)
         IN  \E l \in 0..Len(p) : /\ oaes_decrypt(key, SubSeq(e, 1, z)) = SubSeq(p, 1, l)
                                  /\ z = Len(e) => l = Len(p)
<1> DEFINE e == oaes_encrypt(options, iv, key, p)
           c == SubSeq(e, 1, z)
           N == BlocksIn(p)
           q == PadLen(p)
           data == Blocked(p)
           d == oaes_decrypt(key, c)
           R == Raw(key, c)
<1>1. /\ key \in K /\ p \in Seq(Byte) /\ Len(p) \in Nat
      /\ Block \in Nat /\ Block >= 2
  BY BlockAssumption DEF Fits
<1>2. /\ Whole(data, N) /\ q \in 0..Block - 1 /\ Len(p) + q = N * Block /\ N \in Nat
      /\ \A x \in 1..Len(p) : data[x] = p[x]
  BY <1>1, Padded DEF Whole
<1>3. /\ Whole(e, N + 2) /\ e[1] = options /\ e[2] = IF q = 0 THEN 0 ELSE PAD
      /\ \A I \in 1..N :
           BlockOf(e, I + 2) =
             Cipher(key, IF options = CBC THEN XorBlock(BlockOf(data, I), BlockOf(e, I + 1))
                         ELSE BlockOf(data, I))
  BY Encrypting
<1>0. z \in 0..Len(e)
  OBVIOUS
<1> HIDE DEF e, q, data, N
<1>4. c \in Seq(Byte) /\ Len(c) = z /\ \A x \in 1..z : c[x] = e[x]
  <2>1. Begins(e, z)
    BY <1>0, <1>3 DEF Begins, Whole
  <2> QED
    BY <2>1, BeginProperties
<1> HIDE DEF c
<1>5. e \in Seq(Byte) /\ Len(e) = (N + 2) * Block /\ data \in Seq(Byte) /\ Len(data) = N * Block
      /\ z \in Nat /\ z <= Len(e) /\ Len(e) \in Nat
  <2>1. e \in Seq(Byte) /\ Len(e) = (N + 2) * Block /\ data \in Seq(Byte) /\ Len(data) = N * Block
    BY <1>2, <1>3 DEF Whole
  <2>2. Len(e) \in Nat
    BY <2>1, LenProperties
  <2> QED
    BY <1>0, <2>1, <2>2
<1>6. ASSUME d = <<>>, z = Len(e) => Len(p) = 0
      PROVE  \E l \in 0..Len(p) : d = SubSeq(p, 1, l) /\ (z = Len(e) => l = Len(p))
  <2>1. SubSeq(p, 1, 0) = <<>>
    BY SubSeqEmpty
  <2>2. 0 \in 0..Len(p)
    BY <1>1
  <2> HIDE DEF d
  <2> QED
    BY <1>6, <2>1, <2>2
<1>7. Sealed(K, key, c)
  BY <1>1, <1>4 DEF Sealed
<1>8. ASSUME NEW n \in Nat,
             Whole(c, n + 2), Whole(R, n), \A I \in 1..n : BlockOf(R, I) = Opened(key, c, I),
             d = IF c[1] \notin {ECB, CBC} \/ c[2] \notin {0, PAD} THEN Zeros(n * Block)
                 ELSE IF c[2] = PAD /\ R # <<>> THEN SubSeq(R, 1, Len(R) - PaddingIn(R)) ELSE R
      PROVE  \E l \in 0..Len(p) : d = SubSeq(p, 1, l) /\ (z = Len(e) => l = Len(p))
  <2> HIDE DEF d, R
  <2>1. z = (n + 2) * Block /\ n * Block \in Nat /\ (n + 2) * Block = n * Block + 2 * Block
    BY <1>1, <1>4, <1>8 DEF Whole
  <2>2. n <= N /\ (z = Len(e) => n = N) /\ n * Block <= N * Block /\ N * Block \in Nat
    <3>1. \A a, b \in Nat : a < b => a * Block + Block <= b * Block
      <4>1. Block \in Nat \ {0}
        BY <1>1
      <4> QED
        BY <4>1, Multiples
    <3>2. (N + 2) * Block = N * Block + 2 * Block /\ N * Block \in Nat
      BY <1>1, <1>2
    <3>3. n * Block <= N * Block /\ (z = Len(e) => n * Block = N * Block)
      BY <1>1, <1>5, <2>1, <3>2
    <3>4. ~(N < n)
      BY <1>1, <1>2, <2>1, <3>1, <3>2, <3>3
    <3>5. n < N => n * Block # N * Block
      BY <1>1, <1>2, <2>1, <3>1, <3>2
    <3> QED
      BY <1>2, <3>2, <3>3, <3>4, <3>5
  <2>3. c[1] = options /\ c[2] = IF q = 0 THEN 0 ELSE PAD
    <3>1. 1 \in 1..z /\ 2 \in 1..z
      BY <1>1, <2>1
    <3> QED
      BY <1>3, <1>4, <3>1
  <2>4. \A I \in 1..n + 2 : BlockOf(c, I) = BlockOf(e, I)
    <3> TAKE I \in 1..n + 2
    <3>1. HasBlock(c, I)
      BY <1>8, WholeBlocks
    <3>2. I \in 1..N + 2
      BY <1>2, <2>2
    <3>3. HasBlock(e, I)
      BY <1>3, <3>2, WholeBlocks
    <3>4. BlockOf(c, I) \in Blocks /\ \A J \in 1..Block : BlockOf(c, I)[J] = c[(I - 1) * Block + J]
      BY <3>1, BlockProperties
    <3>5. BlockOf(e, I) \in Blocks /\ \A J \in 1..Block : BlockOf(e, I)[J] = e[(I - 1) * Block + J]
      BY <3>3, BlockProperties
    <3>6. ASSUME NEW J \in 1..Block PROVE (I - 1) * Block + J \in 1..z
      <4>1. (I - 1) * Block \in Nat /\ (I - 1) * Block + Block <= z
        <5>1. I * Block <= z /\ I \in Nat \ {0}
          BY <1>4, <3>1 DEF HasBlock
        <5>2. (I - 1) * Block \in Nat /\ (I - 1) * Block + Block = I * Block
          BY <1>1, <5>1
        <5> QED
          BY <5>1, <5>2
      <4>2. \A a \in Nat : a + Block <= z => a + J \in 1..z
        BY <1>1, <1>5
      <4> QED
        BY <4>1, <4>2
    <3>7. \A J \in 1..Block : BlockOf(c, I)[J] = BlockOf(e, I)[J]
      BY <1>4, <3>4, <3>5, <3>6
    <3> QED
      BY <3>4, <3>5, <3>7, BlocksEqual
  <2>5. ASSUME NEW I \in 1..n PROVE BlockOf(R, I) = BlockOf(data, I)
    <3>1. I \in 1..N /\ I + 2 \in 1..n + 2 /\ I + 1 \in 1..n + 2 /\ I + 1 \in 1..N + 2
      BY <1>2, <2>2
    <3> DEFINE B == BlockOf(data, I)
               P == BlockOf(e, I + 1)
    <3>2. HasBlock(data, I) /\ HasBlock(e, I + 1)
      BY <1>2, <1>3, <3>1, WholeBlocks
    <3>3. B \in Blocks
      BY <3>2, BlockProperties
    <3>4. P \in Blocks
      BY <3>2, BlockProperties
    <3>5. XorBlock(B, P) \in Blocks /\ XorBlock(XorBlock(B, P), P) = B
      BY <3>3, <3>4, XorTwice
    <3>6. BlockOf(c, I + 2) = Cipher(key, IF options = CBC THEN XorBlock(B, P) ELSE B)
      BY <1>3, <2>4, <3>1
    <3>7. BlockOf(c, I + 1) = P
      BY <2>4, <3>1
    <3>8. BlockOf(R, I) = LET b == Decipher(key, BlockOf(c, I + 2))
                          IN  IF options = CBC THEN XorBlock(b, BlockOf(c, I + 1)) ELSE b
      BY <1>8, <2>3 DEF Opened
    <3> HIDE DEF B, P
    <3>9. Decipher(key, BlockOf(c, I + 2)) = IF options = CBC THEN XorBlock(B, P) ELSE B
      BY <1>1, <3>3, <3>5, <3>6 DEF CipherLaws
    <3>10. BlockOf(R, I) = B
      BY <3>5, <3>7, <3>8, <3>9
    <3> QED
      BY <3>10 DEF B
  <2>6. R \in Seq(Byte) /\ Len(R) = n * Block /\ \A x \in 1..n * Block : R[x] = data[x]
    <3> DEFINE D == SubSeq(data, 1, n * Block)
    <3>1. D \in Seq(Byte) /\ Len(D) = n * Block /\ \A x \in 1..n * Block : D[x] = data[x]
      <4>1. Begins(data, n * Block)
        BY <1>5, <2>1, <2>2 DEF Begins
      <4> QED
        BY <4>1, BeginProperties
    <3> HIDE DEF D
    <3>2. Whole(D, n)
      BY <3>1 DEF Whole
    <3>3. ASSUME NEW I \in 1..n PROVE BlockOf(R, I) = BlockOf(D, I)
      <4>1. HasBlock(D, I)
        BY <3>2, WholeBlocks
      <4>2. I \in 1..N
        BY <1>2, <2>2
      <4>3. HasBlock(data, I)
        BY <1>2, <4>2, WholeBlocks
      <4>4. BlockOf(D, I) \in Blocks /\ \A J \in 1..Block : BlockOf(D, I)[J] = D[(I - 1) * Block + J]
        BY <4>1, BlockProperties
      <4>5. BlockOf(data, I) \in Blocks /\ \A J \in 1..Block : BlockOf(data, I)[J] = data[(I - 1) * Block + J]
        BY <4>3, BlockProperties
      <4>6. ASSUME NEW J \in 1..Block PROVE (I - 1) * Block + J \in 1..n * Block
        <5>1. I * Block <= n * Block /\ I \in Nat \ {0}
          BY <3>1, <4>1 DEF HasBlock
        <5>2. (I - 1) * Block \in Nat /\ (I - 1) * Block + Block = I * Block
          BY <1>1, <5>1
        <5>3. \A a, b \in Nat : a + Block <= b => a + J \in 1..b
          BY <1>1
        <5>4. (I - 1) * Block + Block <= n * Block
          BY <5>1, <5>2
        <5> QED
          BY <2>1, <5>2, <5>3, <5>4
      <4>7. \A J \in 1..Block : BlockOf(D, I)[J] = BlockOf(data, I)[J]
        BY <3>1, <4>4, <4>5, <4>6
      <4>8. BlockOf(D, I) = BlockOf(data, I)
        BY <4>4, <4>5, <4>7, BlocksEqual
      <4> QED
        BY <2>5, <4>8
    <3>4. SameBlocks(R, D, n)
      BY <1>8, <3>2, <3>3 DEF SameBlocks
    <3>5. R = D
      BY <3>4, EqualBlocks
    <3> QED
      BY <3>1, <3>5
  <2>7. options \in {ECB, CBC} /\ (IF q = 0 THEN 0 ELSE PAD) \in {0, PAD}
    OBVIOUS
  <2>8. ASSUME NEW l \in 0..Len(p), l <= n * Block PROVE SubSeq(R, 1, l) = SubSeq(p, 1, l)
    <3>1. Begins(R, l) /\ Begins(p, l)
      <4>1. l \in Nat /\ l <= Len(R) /\ l <= Len(p)
        BY <1>1, <2>6, <2>8
      <4> QED
        BY <1>1, <2>6, <4>1 DEF Begins
    <3>2. ASSUME NEW x \in 1..l PROVE R[x] = p[x]
      <4>1. x \in 1..Len(p) /\ x \in 1..n * Block
        BY <1>1, <2>1, <2>8
      <4> QED
        BY <1>2, <2>6, <4>1
    <3> QED
      BY <3>1, <3>2, EqualBegins DEF SameBegin
  <2>9. CASE q = 0
    <3>1. d = R
      BY <1>8, <2>3, <2>7, <2>9 DEF PAD
    <3>2. n * Block \in 0..Len(p) /\ (z = Len(e) => n * Block = Len(p))
      BY <1>1, <1>2, <2>1, <2>2, <2>9
    <3>3. SubSeq(R, 1, n * Block) = R
      BY <2>6, SubSeqFull
    <3>4. SubSeq(R, 1, n * Block) = SubSeq(p, 1, n * Block)
      BY <2>1, <2>8, <3>2
    <3> QED
      BY <3>1, <3>2, <3>3, <3>4
  <2>10. CASE q # 0 /\ n = 0
    <3>1. R = <<>>
      <4>1. Len(R) = 0
        BY <1>1, <2>6, <2>10
      <4>2. \A s \in Seq(Byte) : s # <<>> => Len(s) # 0
        BY EmptySeq
      <4> QED
        BY <2>6, <4>1, <4>2
    <3>2. d = <<>>
      BY <1>8, <2>3, <2>7, <2>10, <3>1
    <3>3. z # Len(e)
      BY <1>1, <1>2, <2>2, <2>10
    <3> QED
      BY <1>6, <3>2, <3>3
  <2>11. CASE q # 0 /\ n # 0
    <3> DEFINE l == Len(R) - PaddingIn(R)
    <3>1. PaddingIn(R) \in 0..Block - 1 /\ PaddingIn(R) \in 0..Len(R) /\ l \in 0..Len(R)
      BY <1>8, <2>11, PaddingRange
    <3>2. R # <<>>
      <4>1. n * Block # 0
        BY <1>1, <2>11
      <4> QED
        BY <2>6, <4>1, EmptySeq
    <3>3. d = SubSeq(R, 1, l)
      <4>1. c[1] \in {ECB, CBC} /\ c[2] = PAD
        BY <2>3, <2>11
      <4> HIDE DEF l
      <4> QED
        BY <1>8, <3>2, <4>1 DEF l
    <3>4. l \in 0..Len(p) /\ l <= n * Block
      <4>1. CASE n = N
        <5>1. R = data
          <6>1. Len(R) = Len(data) /\ \A x \in 1..Len(R) : R[x] = data[x]
            BY <1>5, <2>6, <4>1
          <6> QED
            BY <1>5, <2>6, <6>1, SeqEqual
        <5>2. PaddingIn(R) = q
          BY <1>1, <2>11, <5>1, PaddingFound DEF q, data
        <5> HIDE DEF R
        <5> QED
          BY <1>1, <1>2, <2>1, <2>6, <4>1, <5>2
      <4>2. CASE n # N
        <5>1. n * Block + Block <= N * Block
          <6>1. Block \in Nat \ {0} /\ n < N
            BY <1>1, <1>2, <2>2, <4>2
          <6> QED
            BY <1>2, <6>1, Multiples
        <5>2. l \in Nat /\ l <= n * Block
          BY <2>1, <2>6, <3>1
        <5> HIDE DEF l
        <5> QED
          BY <1>1, <1>2, <2>1, <2>2, <5>1, <5>2
      <4> QED
        BY <4>1, <4>2
    <3>5. z = Len(e) => l = Len(p)
      <4>1. SUFFICES ASSUME z = Len(e) PROVE l = Len(p)
        OBVIOUS
      <4>2. n = N
        BY <2>2, <4>1
      <4>3. R = data
        <5>1. Len(R) = Len(data) /\ \A x \in 1..Len(R) : R[x] = data[x]
          BY <1>5, <2>6, <4>2
        <5> QED
          BY <1>5, <2>6, <5>1, SeqEqual
      <4>4. PaddingIn(R) = q
        BY <1>1, <2>11, <4>3, PaddingFound DEF q, data
      <4> QED
        BY <1>1, <1>2, <2>1, <2>6, <4>2, <4>4
    <3> HIDE DEF l
    <3> QED
      BY <2>8, <3>3, <3>4, <3>5
  <2> QED
    BY <2>9, <2>10, <2>11
<1>9. \E l \in 0..Len(p) : d = SubSeq(p, 1, l) /\ (z = Len(e) => l = Len(p))
  <2>1. \/ d = <<>> /\ \A n \in Nat : Len(c) # (n + 2) * Block
        \/ \E n \in Nat :
              /\ Whole(c, n + 2) /\ Whole(R, n)
              /\ \A I \in 1..n : BlockOf(R, I) = Opened(key, c, I)
              /\ d = IF c[1] \notin {ECB, CBC} \/ c[2] \notin {0, PAD} THEN Zeros(n * Block)
                     ELSE IF c[2] = PAD /\ R # <<>> THEN SubSeq(R, 1, Len(R) - PaddingIn(R)) ELSE R
    BY <1>7, Decrypting
  <2> HIDE DEF d, R
  <2>2. CASE d = <<>> /\ \A n \in Nat : Len(c) # (n + 2) * Block
    <3>1. z # Len(e)
      BY <1>2, <1>4, <1>5, <2>2
    <3> QED
      BY <1>6, <2>2, <3>1
  <2> QED
    BY <1>8, <2>1, <2>2
<1> QED
  BY <1>9 DEF d, c, e

\* A code is right if its beginnings decode to beginnings of the chunk.
StartsRight(f, k, p, c) ==
  \A z \in 0..Len(c) :
    \E l \in 0..Len(p) : Decoded(f, k, SubSeq(c, 1, z)) = SubSeq(p, 1, l) /\ (z = Len(c) => l = Len(p))

\* A code all of whose beginnings decode to beginnings satisfies the law of
\* chunks.
LEMMA LawFromStarts ==
  ASSUME NEW f, NEW k, NEW p \in Seq(Byte), NEW c \in Seq(Byte),
         Len(c) \in 1..DecLen(f), Len(p) = EncLen(f) => Len(c) = DecLen(f), StartsRight(f, k, p, c)
  PROVE  ChunkLaw(f, k, p, c)
<1>0. Unset \notin Seq(Nat)
  BY FormatAssumption DEF FormatAssumption
<1>1. Byte \subseteq Nat
  BY DEF Byte
<1>2. c \in Seq(Nat) /\ p \in Seq(Nat) /\ c # Unset
  <2>1. c \in Seq(Nat)
    BY <1>1, SeqMonotonic
  <2>2. p \in Seq(Nat)
    BY <1>1, SeqMonotonic
  <2> QED
    BY <1>0, <2>1, <2>2
<1>3. Len(c) \in Nat /\ SubSeq(c, 1, Len(c)) = c /\ SubSeq(p, 1, Len(p)) = p
  BY SubSeqFull
<1>4. Decoded(f, k, c) = p
  <2>1. Len(c) \in 0..Len(c)
    BY <1>3
  <2>2. \E l \in 0..Len(p) : Decoded(f, k, SubSeq(c, 1, Len(c))) = SubSeq(p, 1, l) /\ l = Len(p)
    BY <2>1 DEF StartsRight
  <2> QED
    BY <1>3, <2>2
<1>5. ASSUME NEW n \in 1..Len(c)
      PROVE  LET d == Decoded(f, k, SubSeq(c, 1, n))
             IN  d # Unset /\ \E l \in 0..Len(p) : d = SubSeq(p, 1, l)
  <2>1. n \in 0..Len(c)
    BY <1>3
  <2>2. PICK l \in 0..Len(p) : Decoded(f, k, SubSeq(c, 1, n)) = SubSeq(p, 1, l)
    BY <2>1 DEF StartsRight
  <2>3. SubSeq(p, 1, l) \in Seq(Byte)
    BY BeginProperties DEF Begins
  <2>4. SubSeq(p, 1, l) \in Seq(Nat)
    BY <1>1, <2>3, SeqMonotonic
  <2> QED
    BY <1>0, <2>2, <2>4
<1> QED
  BY <1>2, <1>4, <1>5 DEF ChunkLaw

\* Base64 satisfies it.
LEMMA Base64Law ==
  ASSUME NEW k, NEW p \in Seq(Byte), Len(p) \in 1..EncLen("base64")
  PROVE  ChunkLaw("base64", k, p, oaes_base64_encode(p))
<1> DEFINE c == oaes_base64_encode(p)
           n == Len(p) \div 3
           r == Len(p) % 3
<1>1. c \in Seq(0..EqualsSign) /\ Len(c) = 4 * n + IF r = 0 THEN 0 ELSE 4
  BY Encoding
<1>2. n \in Nat /\ r \in 0..2 /\ Len(p) = 3 * n + r
  BY EmptySeq
<1>3. PICK h \in Nat : EncLen("base64") = 3 * h /\ DecLen("base64") = 4 * h
  <2>0. EncLen("base64") \in Nat /\ DecLen("base64") \in Nat
        /\ EncLen("base64") % 3 = 0 /\ 3 * DecLen("base64") = 4 * EncLen("base64")
    BY FormatAssumption DEF FormatAssumption
  <2>1. \A l \in Nat : l % 3 = 0 => l \div 3 \in Nat /\ l = 3 * (l \div 3)
    OBVIOUS
  <2>2. PICK h \in Nat : EncLen("base64") = 3 * h
    BY <2>0, <2>1
  <2> QED
    BY <2>0, <2>2
<1> HIDE DEF c, n, r
<1>4. Len(c) \in 1..DecLen("base64") /\ (Len(p) = EncLen("base64") => Len(c) = DecLen("base64"))
  BY <1>1, <1>2, <1>3
<1>5. c \in Seq(Byte)
  <2>1. 0..EqualsSign \subseteq Byte
    BY DEF EqualsSign, Byte
  <2> QED
    BY <1>1, <2>1, SeqMonotonic
<1>6. StartsRight("base64", k, p, c)
  BY Base64Start DEF StartsRight, Decoded, c
<1>7. ChunkLaw("base64", k, p, c)
  BY <1>4, <1>5, <1>6, LawFromStarts
<1> QED
  BY <1>7 DEF c

\* So do the messages of OpenAES, under the laws of the cipher and of the
\* exclusive or.
LEMMA AesLaw ==
  ASSUME XorLaws, CipherLaws(Keys, Blocks), NEW options \in {ECB, CBC}, NEW k, NEW iv, NEW p,
         Fits(Keys, k, iv, p), Len(p) \in 1..EncLen("aes")
  PROVE  ChunkLaw("aes", k, p, oaes_encrypt(options, iv, k, p))
<1> DEFINE c == oaes_encrypt(options, iv, k, p)
           N == BlocksIn(p)
           q == PadLen(p)
           L == EncLen("aes")
<1>1. p \in Seq(Byte) /\ Block \in Nat \ {0} /\ Block \in Nat
  BY BlockAssumption DEF Fits
<1>2. Whole(c, N + 2)
  BY Encrypting
<1>3. q \in 0..Block - 1 /\ Len(p) + q = N * Block /\ N \in Nat /\ Len(p) \in Nat
  BY <1>1, Padded DEF Whole
<1>4. L \in Nat \ {0} /\ L % Block = 0 /\ DecLen("aes") = L + 2 * Block
  BY <1>1, FormatAssumption, ToolAssumption DEF FormatAssumption, ToolAssumption
<1>5. PICK h \in Nat : L = h * Block
  <2>1. L \in Nat
    BY <1>4
  <2>2. L \div Block \in Nat /\ L = (L \div Block) * Block + (L % Block)
    BY <2>1, BlockDivision
  <2>3. (L \div Block) * Block \in Nat
    BY <1>1, <2>2
  <2> HIDE DEF L
  <2> QED
    BY <1>4, <2>2, <2>3
<1>6. \A a, b \in Nat : a < b => a * Block + Block <= b * Block
  BY <1>1, Multiples
<1> HIDE DEF c, N, q, L
<1>7. c \in Seq(Byte) /\ Len(c) = N * Block + 2 * Block /\ N * Block \in Nat
  <2>1. (N + 2) * Block = N * Block + 2 * Block /\ N * Block \in Nat
    BY <1>1, <1>3
  <2> QED
    BY <1>2, <2>1 DEF Whole
<1>8. N <= h /\ (Len(p) = L => N = h)
  <2>1. h * Block \in Nat /\ Len(p) <= h * Block
    BY <1>1, <1>5 DEF L
  <2>2. ~(h < N)
    BY <1>1, <1>3, <1>6, <2>1
  <2>3. Len(p) = L => ~(N < h)
    BY <1>1, <1>3, <1>5, <1>6, <1>7, <2>1
  <2> QED
    BY <1>3, <2>2, <2>3
<1>9. Len(c) \in 1..DecLen("aes") /\ (Len(p) = EncLen("aes") => Len(c) = DecLen("aes"))
  <2>1. N * Block <= h * Block /\ h * Block \in Nat
    <3>1. CASE N = h
      BY <1>7, <3>1
    <3>2. CASE N # h
      <4>1. N * Block + Block <= h * Block
        BY <1>3, <1>6, <1>8, <3>2
      <4>2. h * Block \in Nat
        BY <1>1
      <4> QED
        BY <1>1, <1>7, <4>1, <4>2
    <3> QED
      BY <3>1, <3>2
  <2>2. 2 * Block \in Nat /\ 2 * Block >= 1
    BY <1>1
  <2>3. Len(c) <= DecLen("aes") /\ Len(c) >= 1 /\ Len(c) \in Nat /\ DecLen("aes") \in Nat
    BY <1>4, <1>5, <1>7, <2>1, <2>2
  <2>4. Len(p) = L => Len(c) = DecLen("aes")
    BY <1>4, <1>5, <1>7, <1>8
  <2> QED
    BY <2>3, <2>4 DEF L
<1>10. StartsRight("aes", k, p, c)
  BY AesStart DEF StartsRight, Decoded, c
<1>11. ChunkLaw("aes", k, p, c)
  BY <1>1, <1>7, <1>9, <1>10, LawFromStarts
<1> QED
  BY <1>11 DEF c

\* A chunk of an input is bytes, and is not empty before the end.
LEMMA PieceOfBytes ==
  ASSUME NEW s \in Seq(Byte), NEW n \in Nat \ {0}, NEW a \in 0..Len(s)
  PROVE  Piece(s, n, a) \in Seq(Byte) /\ (a < Len(s) => Len(Piece(s, n, a)) \in 1..n)
<1> DEFINE l == IF Len(s) < a + n THEN Len(s) - a ELSE n
<1>1. Len(s) \in Nat /\ a \in Nat
  OBVIOUS
<1>2. /\ l \in Nat /\ a + l <= Len(s) /\ (a < Len(s) => l \in 1..n)
      /\ a + l = IF Len(s) < a + n THEN Len(s) ELSE a + n
  BY <1>1
<1> HIDE DEF l
<1>3. Piece(s, n, a) = Part(s, a, l)
  BY <1>2 DEF Piece, Part
<1>4. Within(Byte, s, a, l)
  BY <1>1, <1>2 DEF Within
<1>5. Part(s, a, l) \in Seq(Byte) /\ Len(Part(s, a, l)) = l
  BY <1>4, PartProperties
<1> QED
  BY <1>2, <1>3, <1>5

\* The formats are right for any cipher and exclusive or that can be undone:
\* whatever a thread makes of a chunk decodes to the chunk, and whatever is
\* left of it to a beginning of the chunk.
THEOREM FormatsAreRight == ASSUME XorLaws, CipherLaws(Keys, Blocks) PROVE ChunkLaws
<1>1. \A f \in {"aes", "base64"} : EncLen(f) \in Nat \ {0} /\ DecLen(f) \in Nat \ {0}
  <2>0. Block \in Nat
    BY BlockAssumption
  <2>1. EncLen("aes") \in Nat \ {0} /\ EncLen("base64") \in Nat \ {0}
        /\ DecLen("aes") \in Nat /\ DecLen("base64") \in Nat
        /\ EncLen("aes") = DecLen("aes") - 2 * Block /\ 3 * DecLen("base64") = 4 * EncLen("base64")
    BY FormatAssumption, ToolAssumption DEF FormatAssumption, ToolAssumption
  <2>2. DecLen("aes") # 0 /\ DecLen("base64") # 0
    BY <2>0, <2>1
  <2> QED
    BY <2>1, <2>2
<1>2. ASSUME NEW f \in {"aes", "base64"}, NEW m \in Inputs, NEW a \in 0..Len(m) - 1,
             NEW ecb \in BOOLEAN, NEW iv \in IVs \union {Zeros(Block)}, NEW k \in KeysOf(f)
      PROVE  LET p == Piece(m, EncLen(f), a)
             IN  ChunkLaw(f, k, p, Encoded(f, ecb, iv, k, p))
  <2> DEFINE p == Piece(m, EncLen(f), a)
  <2>1. p \in Seq(Byte) /\ Len(p) \in 1..EncLen(f)
    <3>1. m \in Seq(Byte) /\ EncLen(f) \in Nat \ {0}
      BY <1>1, FormatAssumption DEF FormatAssumption
    <3>2. a \in 0..Len(m) /\ a < Len(m)
      BY <3>1
    <3> QED
      BY <3>1, <3>2, PieceOfBytes
  <2> HIDE DEF p
  <2>2. CASE f = "base64"
    <3>1. ChunkLaw("base64", k, p, oaes_base64_encode(p))
      BY <2>1, <2>2, Base64Law
    <3> QED
      BY <2>2, <3>1 DEF Encoded, p
  <2>3. CASE f = "aes"
    <3>1. iv \in Blocks
      <4>1. Zeros(Block) \in Blocks
        BY DEF Zeros, Blocks, Byte
      <4> QED
        BY <4>1, FormatAssumption DEF FormatAssumption
    <3>2. k \in Keys
      BY <2>3 DEF KeysOf
    <3>3. Fits(Keys, k, iv, p)
      BY <2>1, <3>1, <3>2 DEF Fits
    <3> DEFINE o == IF ecb THEN ECB ELSE CBC
    <3>4. o \in {ECB, CBC}
      OBVIOUS
    <3> HIDE DEF o
    <3>5. ChunkLaw("aes", k, p, oaes_encrypt(o, iv, k, p))
      BY <2>1, <2>3, <3>3, <3>4, AesLaw
    <3> QED
      BY <2>3, <3>5 DEF Encoded, o, p
  <2> QED
    BY <2>2, <2>3
<1> QED
  BY <1>1, <1>2 DEF ChunkLaws

\* Decoding bytes, whatever they are, gives bytes.
LEMMA Base64Bytes == ASSUME NEW c \in Seq(Byte) PROVE oaes_base64_decode(c) \in Seq(Byte)
<1>1. c \in Seq(Nat)
  <2>1. Byte \subseteq Nat
    BY DEF Byte
  <2> QED
    BY <2>1, SeqMonotonic
<1>2. PICK x : Stopped(c, x)
  BY <1>1, StopExists
<1> QED
  BY <1>1, <1>2, Decoding

\* oaes_decrypt returns bytes whatever it is given.
LEMMA AesBytes ==
  ASSUME XorLaws, NEW K, CipherLaws(K, Blocks), NEW key, NEW c, Sealed(K, key, c)
  PROVE  oaes_decrypt(key, c) \in Seq(Byte)
<1> DEFINE d == oaes_decrypt(key, c)
           R == Raw(key, c)
<1>1. \/ d = <<>> /\ \A n \in Nat : Len(c) # (n + 2) * Block
      \/ \E n \in Nat :
           /\ Whole(c, n + 2) /\ Whole(R, n)
           /\ \A I \in 1..n : BlockOf(R, I) = Opened(key, c, I)
           /\ d = IF c[1] \notin {ECB, CBC} \/ c[2] \notin {0, PAD} THEN Zeros(n * Block)
                  ELSE IF c[2] = PAD /\ R # <<>> THEN SubSeq(R, 1, Len(R) - PaddingIn(R)) ELSE R
  BY Decrypting
<1> HIDE DEF d, R
<1>2. <<>> \in Seq(Byte)
  BY EmptySeq
<1>3. ASSUME NEW n \in Nat, Whole(R, n),
             d = Zeros(n * Block) \/ d = R \/ (R # <<>> /\ d = SubSeq(R, 1, Len(R) - PaddingIn(R)))
      PROVE  d \in Seq(Byte)
  <2>1. R \in Seq(Byte) /\ Len(R) = n * Block /\ n * Block \in Nat
    <3>1. Block \in Nat
      BY BlockAssumption
    <3> QED
      BY <1>3, <3>1 DEF Whole
  <2>2. CASE d = R
    BY <2>1, <2>2
  <2>3. CASE d = Zeros(n * Block)
    <3>1. \A k \in Nat : Zeros(k) \in Seq(Byte)
      BY DEF Zeros, Byte
    <3> QED
      BY <2>1, <2>3, <3>1
  <2>4. CASE R # <<>> /\ d = SubSeq(R, 1, Len(R) - PaddingIn(R))
    <3>1. n # 0
      <4>1. \A s \in Seq(Byte) : s # <<>> => Len(s) # 0
        BY EmptySeq
      <4>2. Block \in Nat
        BY BlockAssumption
      <4> QED
        BY <2>1, <2>4, <4>1, <4>2
    <3>2. Len(R) - PaddingIn(R) \in 0..Len(R)
      BY <1>3, <3>1, PaddingRange
    <3>3. Begins(R, Len(R) - PaddingIn(R))
      BY <2>1, <3>2 DEF Begins
    <3> QED
      BY <2>4, <3>3, BeginProperties
  <2> QED
    BY <1>3, <2>2, <2>3, <2>4
<1>4. CASE d = <<>>
  BY <1>2, <1>4 DEF d
<1>5. CASE d # <<>>
  <2>1. PICK n \in Nat :
          /\ Whole(R, n)
          /\ d = IF c[1] \notin {ECB, CBC} \/ c[2] \notin {0, PAD} THEN Zeros(n * Block)
                 ELSE IF c[2] = PAD /\ R # <<>> THEN SubSeq(R, 1, Len(R) - PaddingIn(R)) ELSE R
    BY <1>1, <1>5
  <2>2. d = Zeros(n * Block) \/ d = R \/ (R # <<>> /\ d = SubSeq(R, 1, Len(R) - PaddingIn(R)))
    BY <2>1
  <2>3. d \in Seq(Byte)
    BY <1>3, <2>1, <2>2
  <2> QED
    BY <2>3 DEF d
<1> QED
  BY <1>4, <1>5

\* A chunk is bytes wherever it begins.
LEMMA PieceBytes ==
  ASSUME NEW s \in Seq(Byte), NEW n \in Nat, NEW a \in Nat PROVE Piece(s, n, a) \in Seq(Byte)
<1> DEFINE e == IF Len(s) < a + n THEN Len(s) ELSE a + n
<1>1. Len(s) \in Nat /\ e \in Int /\ a + 1 \in Int /\ a + 1 >= 1 /\ e <= Len(s)
  OBVIOUS
<1> HIDE DEF e
<1>2. \A x \in a + 1..e : x \in 1..Len(s)
  BY <1>1
<1>3. \A x \in a + 1..e : s[x] \in Byte
  BY <1>2, ElementOfSeq
<1>4. SubSeq(s, a + 1, e) \in Seq(Byte)
  BY <1>1, <1>3, SubSeqProperties
<1> QED
  BY <1>4 DEF Piece, e

-----------------------------------------------------------------------------
(* The ring.                                                                *)

USE ToolAssumption DEF ToolAssumption

Ids == {"none", "running", "done", "dangling"}

\* Every slot has its three fields.
Shaped ==
  /\ slots = [s \in Ring |-> slots[s]]
  /\ \A s \in Ring : slots[s] = [id |-> slots[s].id, in |-> slots[s].in, out |-> slots[s].out]
  /\ \A s \in Ring : slots[s].id \in Ids

Free(s) == slots[s].id = "none"

RingInv ==
  /\ Shaped
  /\ pc \in {"idle", "key", "read", "join", "drain"}
  /\ i \in Ring /\ j \in 0..Slots
  /\ pc \in {"idle", "key"} => \A s \in Ring : Free(s)
  /\ pc = "read" => \A s \in Ring : s >= i => Free(s)
  /\ pc = "join" => i = 0 /\ \A s \in Ring : s < j => Free(s)
  /\ pc = "drain" => \A s \in Ring : s < j \/ s >= i => Free(s)

\* The step from one slot to the next.
LEMMA NextInRing ==
  ASSUME NEW n \in Ring
  PROVE  /\ (n + 1) % Slots \in Ring
         /\ n = Slots - 1 => (n + 1) % Slots = 0
         /\ n # Slots - 1 => (n + 1) % Slots = n + 1
<1>1. CASE n = Slots - 1
  <2>1. n + 1 = Slots
    BY <1>1 DEF Ring
  <2>2. Slots % Slots = 0
    BY SMT
  <2> QED
    BY <1>1, <2>1, <2>2 DEF Ring
<1>2. CASE n # Slots - 1
  <2>1. n + 1 \in Nat /\ n + 1 < Slots
    BY <1>2 DEF Ring
  <2>2. (n + 1) % Slots = n + 1
    BY <2>1, SMT
  <2> QED
    BY <1>2, <2>1, <2>2 DEF Ring
<1> QED
  BY <1>1, <1>2

\* The slots of a process that has not begun.
LEMMA FreshShaped ==
  ASSUME slots' = Fresh
  PROVE  Shaped' /\ \A s \in Ring : slots'[s].id = "none"
  BY DEF Fresh, Shaped, Ids
-----------------------------------------------------------------------------
\* What SlotKept says of a step.
SlotStep ==
  \A s \in Ring : pc # "idle" /\ pc' # "idle" =>
    /\ slots[s].id = "running" => slots'[s].in = slots[s].in
    /\ slots[s].id = "done" /\ slots'[s].id # "done" => j' = s + 1 /\ Joining

\* A slot that holds nothing is filled.
LEMMA ReadStep == RingInv /\ Read => RingInv' /\ SlotStep
<1> SUFFICES ASSUME RingInv, Read PROVE RingInv' /\ SlotStep
  OBVIOUS
<1>1. /\ pc = "read" /\ i \in Ring /\ Free(i) /\ Shaped
      /\ \A s \in Ring : s >= i => Free(s)
  BY DEF RingInv, Read, Fill, Ring
<1>2. /\ Shaped' /\ \A s \in Ring : s # i => slots'[s] = slots[s]
  <2>1. PICK d \in {"running", "none", "dangling"}, c \in {Chunk} :
          slots' = [slots EXCEPT ![i].in = c, ![i].id = d]
    <3> HIDE DEF Chunk
    <3>1. \E d \in {"running", "none", "dangling"} :
            slots' = [slots EXCEPT ![i].in = Chunk, ![i].id = d]
      BY DEF Read, Fill
    <3> QED
      BY <3>1
  <2>2. /\ DOMAIN slots = Ring
        /\ slots[i] = [id |-> slots[i].id, in |-> slots[i].in, out |-> slots[i].out]
    BY <1>1 DEF Shaped
  <2>3. slots' = [s \in Ring |-> slots'[s]]
    BY <2>1, <2>2
  <2>4. \A s \in Ring : s # i => slots'[s] = slots[s]
    BY <1>1, <2>1, <2>2
  <2>5. PICK y : slots'[i] = [id |-> d, in |-> c, out |-> y]
    BY <1>1, <2>1, <2>2
  <2>6. slots'[i].id = d
    BY <2>5
  <2>7. slots'[i] = [id |-> slots'[i].id, in |-> slots'[i].in, out |-> slots'[i].out]
    BY <2>5
  <2> QED
    BY <1>1, <2>3, <2>4, <2>6, <2>7 DEF Shaped, Ids
<1>3. i' = (i + 1) % Slots /\ j' = 0 /\ pc' = IF i = Slots - 1 THEN "join" ELSE "read"
  BY DEF Read, Fill, NextSlot
<1>4. RingInv'
  <2>1. i' \in Ring /\ j' \in 0..Slots
    BY <1>1, <1>3, NextInRing
  <2>2. CASE i = Slots - 1
    <3>1. i' = 0 /\ j' = 0 /\ pc' = "join"
      BY <1>1, <1>3, <2>2, NextInRing
    <3>2. \A s \in Ring : ~(s < 0)
      BY DEF Ring
    <3> QED
      BY <1>2, <2>1, <3>1, <3>2 DEF RingInv
  <2>3. CASE i # Slots - 1
    <3>1. i' = i + 1 /\ pc' = "read"
      BY <1>1, <1>3, <2>3, NextInRing
    <3>2. \A s \in Ring : s >= i' => s # i /\ s >= i
      BY <1>1, <3>1 DEF Ring
    <3>3. \A s \in Ring : s >= i' => slots'[s].id = "none"
      BY <1>1, <1>2, <3>2 DEF Free
    <3> QED
      BY <1>2, <2>1, <3>1, <3>3 DEF RingInv, Free
  <2> QED
    BY <2>2, <2>3
<1>5. SlotStep
  BY <1>1, <1>2 DEF SlotStep, Free
<1> QED
  BY <1>4, <1>5

\* The slot after the last chunk is empty.
LEMMA EndOfInputStep == RingInv /\ EndOfInput => RingInv' /\ SlotStep
<1> SUFFICES ASSUME RingInv, EndOfInput PROVE RingInv' /\ SlotStep
  OBVIOUS
<1>1. /\ pc = "read" /\ i \in Ring /\ Free(i) /\ Shaped
      /\ \A s \in Ring : s >= i => Free(s)
  BY DEF RingInv, EndOfInput, Ring
<1>2. /\ Shaped' /\ slots'[i].id = "none"
      /\ \A s \in Ring : s # i => slots'[s] = slots[s]
  <2>1. /\ DOMAIN slots = Ring
        /\ slots[i] = [id |-> slots[i].id, in |-> slots[i].in, out |-> slots[i].out]
    BY <1>1 DEF Shaped
  <2>2. slots' = [slots EXCEPT ![i].in = <<>>]
    BY DEF EndOfInput
  <2>3. slots' = [s \in Ring |-> slots'[s]]
    BY <2>1, <2>2
  <2>4. \A s \in Ring : s # i => slots'[s] = slots[s]
    BY <1>1, <2>1, <2>2
  <2>5. PICK y : slots'[i] = [id |-> "none", in |-> <<>>, out |-> y]
    BY <1>1, <2>1, <2>2 DEF Free
  <2>6. slots'[i].id = "none"
    BY <2>5
  <2>7. slots'[i] = [id |-> slots'[i].id, in |-> slots'[i].in, out |-> slots'[i].out]
    BY <2>5
  <2> QED
    BY <1>1, <2>3, <2>4, <2>6, <2>7 DEF Shaped, Ids
<1>3. pc' = "drain" /\ i' = i /\ j' = 0
  BY DEF EndOfInput
<1>4. RingInv'
  <2>1. \A s \in Ring : s >= i => slots'[s].id = "none"
    BY <1>1, <1>2 DEF Free
  <2>2. \A s \in Ring : ~(s < 0)
    BY DEF Ring
  <2> QED
    BY <1>1, <1>2, <1>3, <2>1, <2>2 DEF RingInv, Free
<1>5. SlotStep
  BY <1>1, <1>2 DEF SlotStep, Free
<1> QED
  BY <1>4, <1>5

\* A thread ends: what it worked on was not free and is not now.
LEMMA WorkStep == ASSUME RingInv, NEW k \in Ring, Work(k) PROVE RingInv' /\ SlotStep
<1>1. Shaped /\ slots[k].id = "running"
  BY DEF RingInv, Work
<1>2. pc' = pc /\ i' = i /\ j' = j
  BY DEF Work
<1>3. /\ Shaped' /\ slots'[k].id = "done" /\ slots'[k].in = slots[k].in
      /\ \A s \in Ring : s # k => slots'[s] = slots[s]
  <2>1. PICK y : slots' = [slots EXCEPT ![k].id = "done", ![k].out = y]
    <3> HIDE DEF Converted, FreshIVs
    <3>1. CASE \E y : slots' = [slots EXCEPT ![k].id = "done", ![k].out = y]
      BY <3>1
    <3>2. CASE slots' = [slots EXCEPT ![k].id = "done"]
      <4>1. /\ DOMAIN slots = Ring
            /\ slots[k] = [id |-> slots[k].id, in |-> slots[k].in, out |-> slots[k].out]
        BY <1>1 DEF Shaped
      <4>2. slots' = [slots EXCEPT ![k].id = "done", ![k].out = slots[k].out]
        BY <3>2, <4>1
      <4> QED
        BY <4>2
    <3> QED
      BY <3>1, <3>2 DEF Work
  <2>2. /\ DOMAIN slots = Ring
        /\ slots[k] = [id |-> slots[k].id, in |-> slots[k].in, out |-> slots[k].out]
    BY <1>1 DEF Shaped
  <2>3. slots' = [s \in Ring |-> slots'[s]]
    BY <2>1, <2>2
  <2>4. \A s \in Ring : s # k => slots'[s] = slots[s]
    BY <2>1, <2>2
  <2>5. slots'[k] = [id |-> "done", in |-> slots[k].in, out |-> y]
    BY <2>1, <2>2
  <2>6. slots'[k].id = "done" /\ slots'[k].in = slots[k].in
    BY <2>5
  <2>7. slots'[k] = [id |-> slots'[k].id, in |-> slots'[k].in, out |-> slots'[k].out]
    BY <2>5
  <2> QED
    BY <1>1, <2>3, <2>4, <2>6, <2>7 DEF Shaped, Ids
<1>4. \A s \in Ring : Free(s) => slots'[s].id = "none"
  BY <1>1, <1>3 DEF Free
<1>5. RingInv'
  BY <1>2, <1>3, <1>4 DEF RingInv, Free
<1>6. SlotStep
  BY <1>1, <1>3 DEF SlotStep
<1> QED
  BY <1>5, <1>6

\* Slot j is written and freed.
LEMMA JoinStep == RingInv /\ Join => RingInv' /\ SlotStep
<1> SUFFICES ASSUME RingInv, Join PROVE RingInv' /\ SlotStep
  OBVIOUS
<1>1. /\ Shaped /\ Joining /\ slots[j].id # "running"
      /\ pc \in {"join", "drain"} /\ i \in Ring
      /\ j \in Ring /\ j + 1 \in 0..Slots
  BY DEF RingInv, Join, Write, Joining, Ring
<1>2. j' = j + 1 /\ pc' = pc /\ i' = i
  BY DEF Join, Write
<1>3. /\ Shaped' /\ slots'[j].id = "none"
      /\ \A s \in Ring : s # j => slots'[s] = slots[s]
  <2>1. CASE slots[j].id = "none"
    <3>1. slots' = slots
      BY <2>1 DEF Join, Write
    <3> QED
      BY <1>1, <2>1, <3>1 DEF Shaped
  <2>2. CASE slots[j].id # "none"
    <3>1. PICK y : slots' = [slots EXCEPT ![j].id = "none", ![j].out = y]
      BY <2>2 DEF Join, Write
    <3>2. /\ DOMAIN slots = Ring
          /\ slots[j] = [id |-> slots[j].id, in |-> slots[j].in, out |-> slots[j].out]
      BY <1>1 DEF Shaped
    <3>3. slots' = [s \in Ring |-> slots'[s]]
      BY <3>1, <3>2
    <3>4. \A s \in Ring : s # j => slots'[s] = slots[s]
      BY <1>1, <3>1, <3>2
    <3>5. PICK c : slots'[j] = [id |-> "none", in |-> c, out |-> y]
      BY <1>1, <3>1, <3>2
    <3>6. slots'[j].id = "none"
      BY <3>5
    <3>7. slots'[j] = [id |-> slots'[j].id, in |-> slots'[j].in, out |-> slots'[j].out]
      BY <3>5
    <3> QED
      BY <1>1, <3>3, <3>4, <3>6, <3>7 DEF Shaped, Ids
  <2> QED
    BY <2>1, <2>2
<1>4. \A s \in Ring : Free(s) \/ s = j => slots'[s].id = "none"
  BY <1>3 DEF Free
<1>5. \A s \in Ring : s < j + 1 => s < j \/ s = j
  BY <1>1 DEF Ring
<1>6. RingInv'
  <2>1. pc = "join" => i = 0 /\ \A s \in Ring : s < j + 1 => slots'[s].id = "none"
    BY <1>4, <1>5 DEF RingInv
  <2>2. pc = "drain" => \A s \in Ring : s < j + 1 \/ s >= i => slots'[s].id = "none"
    BY <1>4, <1>5 DEF RingInv
  <2> QED
    BY <1>1, <1>2, <1>3, <2>1, <2>2 DEF RingInv, Free
<1>7. SlotStep
  BY <1>1, <1>2, <1>3 DEF SlotStep
<1> QED
  BY <1>6, <1>7

\* The slots of a process that has not begun, or has ended.
LEMMA FreshStep ==
  ASSUME slots' = Fresh, i' = 0, j' = 0, pc' \in {"idle", "read"}, pc = "idle" \/ pc' = "idle"
  PROVE  RingInv' /\ SlotStep
<1>1. Shaped' /\ \A s \in Ring : slots'[s].id = "none"
  BY FreshShaped
<1>2. 0 \in Ring /\ 0 \in 0..Slots
  BY DEF Ring
<1> QED
  BY <1>1, <1>2 DEF RingInv, SlotStep, Free

\* Every step keeps RingInv, and is one that SlotKept allows.
LEMMA RingStep == RingInv /\ [Next]_vars => RingInv' /\ SlotStep
<1> SUFFICES ASSUME RingInv, [Next]_vars PROVE RingInv' /\ SlotStep
  OBVIOUS
<1>1. CASE Read
  BY <1>1, ReadStep
<1>2. CASE EndOfInput
  BY <1>2, EndOfInputStep
<1>3. CASE \E s \in Ring : Work(s)
  BY <1>3, WorkStep
<1>4. CASE Join
  BY <1>4, JoinStep
<1>5. CASE \E o \in Coding, ecb \in BOOLEAN : Start(o, ecb)
  <2>1. slots' = Fresh /\ i' = 0 /\ j' = 0 /\ pc = "idle" /\ pc' = "read"
    BY <1>5 DEF Start
  <2> QED
    BY <2>1, FreshStep
<1>6. CASE Finish \/ Kill \/ Crash
  <2>1. slots' = Fresh /\ i' = 0 /\ j' = 0 /\ pc' = "idle"
    BY <1>6 DEF Finish, Kill, Crash, Die
  <2> QED
    BY <2>1, FreshStep
<1>7. CASE RingWritten
  <2>1. /\ slots' = slots /\ i' = i /\ j' = j /\ pc = "join" /\ pc' = "read"
        /\ j = Slots
    BY <1>7 DEF RingWritten
  <2>2. \A s \in Ring : s < Slots
    BY DEF Ring
  <2> QED
    BY <2>1, <2>2 DEF RingInv, Shaped, Free, SlotStep
<1>8. CASE WriteKey \/ GenerateKey
  <2>1. /\ slots' = slots /\ i' = i /\ j' = j
        /\ pc \in {"idle", "key"} /\ pc' \in {"idle", "key"}
    BY <1>8 DEF WriteKey, GenerateKey
  <2> QED
    BY <2>1 DEF RingInv, Shaped, Free, SlotStep
<1>9. CASE UNCHANGED vars \/ \E f \in {"key", "coded", "back"} : Discard(f)
  <2>1. slots' = slots /\ i' = i /\ j' = j /\ pc' = pc
    BY <1>9 DEF vars, Discard
  <2> QED
    BY <2>1 DEF RingInv, Shaped, Free, SlotStep
<1> QED
  BY <1>1, <1>2, <1>3, <1>4, <1>5, <1>6, <1>7, <1>8, <1>9 DEF Next, Step

\* A process starts with free slots.
LEMMA RingInit == Init => RingInv
<1> SUFFICES ASSUME Init PROVE RingInv
  OBVIOUS
<1>1. slots = Fresh /\ i = 0 /\ j = 0 /\ pc = "idle"
  BY DEF Init
<1>2. Shaped /\ \A s \in Ring : slots[s].id = "none"
  BY <1>1 DEF Fresh, Shaped, Ids
<1>3. 0 \in Ring /\ 0 \in 0..Slots
  BY DEF Ring
<1> QED
  BY <1>1, <1>2, <1>3 DEF RingInv, Free

\* oaes.c's main waits for the threads in order and starts them in the same
\* order, so what is before i while it reads, and from j on while it writes,
\* is all that can hold a thread.
THEOREM ThreadsWithinTheRing == Spec => []RingInv
<1>1. Init => RingInv
  BY RingInit
<1>2. RingInv /\ [Next]_vars => RingInv'
  BY RingStep
<1> QED
  BY <1>1, <1>2, PTL DEF Spec

\* main never reads a chunk into the slot of a thread that runs, nor fills a
\* slot whose output it has not taken, with any number of slots.
THEOREM SlotsAreKept == Spec => SlotKept
<1>1. RingInv /\ [Next]_vars => [SlotStep]_vars
  BY RingStep
<1>2. SlotStep => \A s \in Ring : pc # "idle" /\ pc' # "idle" =>
       /\ slots[s].id = "running" => slots'[s].in = slots[s].in
       /\ slots[s].id = "done" /\ slots'[s].id # "done" => j' = s + 1 /\ Joining
  BY DEF SlotStep
<1> QED
  BY <1>1, <1>2, ThreadsWithinTheRing, PTL DEF Spec, SlotKept

-----------------------------------------------------------------------------
(* Chunks of a sequence.                                                    *)

Lesser(a, b) == IF a < b THEN a ELSE b

\* Where chunk k begins.
Off(k, n) == k * n

\* Chunks follow each other without a gap.
LEMMA OffLaws ==
  ASSUME NEW n \in Nat \ {0}
  PROVE  /\ Off(0, n) = 0
         /\ \A k \in Nat : Off(k, n) \in Nat /\ Off(k + 1, n) = Off(k, n) + n
         /\ \A k, l \in Nat : k < l => Off(k, n) + n <= Off(l, n)
<1>1. Off(0, n) = 0
  BY DEF Off
<1>2. ASSUME NEW k \in Nat PROVE Off(k, n) \in Nat /\ Off(k + 1, n) = Off(k, n) + n
  BY DEF Off
<1>3. ASSUME NEW k \in Nat, NEW l \in Nat, k < l PROVE Off(k, n) + n <= Off(l, n)
  <2>1. PICK d \in Nat : l = (k + 1) + d
    <3>1. l - (k + 1) \in Nat /\ l = (k + 1) + (l - (k + 1))
      BY <1>3
    <3> QED
      BY <3>1
  <2>2. PICK e \in Nat : e = d * n
    OBVIOUS
  <2>3. Off(l, n) = Off(k + 1, n) + e
    BY <2>1, <2>2 DEF Off
  <2>4. Off(k, n) \in Nat /\ Off(k + 1, n) = Off(k, n) + n
    BY <1>2
  <2> QED
    BY <2>3, <2>4
<1> QED
  BY <1>1, <1>2, <1>3

\* A chunk is what is left of the input, up to the size of a chunk.
LEMMA PieceProperties ==
  ASSUME NEW s \in Seq(Nat), NEW n \in Nat \ {0}, NEW a \in 0..Len(s)
  PROVE  /\ Piece(s, n, a) \in Seq(Nat)
         /\ Len(s) \in Nat /\ Len(Piece(s, n, a)) = Lesser(Len(s) - a, n)
         /\ \A x \in 1..Lesser(Len(s) - a, n) : Piece(s, n, a)[x] = s[a + x]
<1> DEFINE e == IF Len(s) < a + n THEN Len(s) ELSE a + n
<1>1. Len(s) \in Nat /\ a \in Nat /\ e \in a..Len(s) /\ e - a = Lesser(Len(s) - a, n)
  BY DEF Lesser
<1>2. \A x \in a + 1..e : s[x] \in Nat
  BY <1>1, ElementOfSeq
<1> HIDE DEF e
<1>3. /\ SubSeq(s, a + 1, e) \in Seq(Nat)
      /\ Len(SubSeq(s, a + 1, e)) = e - a
      /\ \A x \in 1..e - a : SubSeq(s, a + 1, e)[x] = s[a + x]
  <2>1. a + 1 \in Int /\ e \in Int /\ (e - (a + 1)) + 1 = e - a
        /\ (a + 1 <= e \/ e - a = 0)
    BY <1>1
  <2>2. /\ SubSeq(s, a + 1, e) \in Seq(Nat)
        /\ Len(SubSeq(s, a + 1, e)) = IF a + 1 <= e THEN (e - (a + 1)) + 1 ELSE 0
        /\ \A x \in 1..(e - (a + 1)) + 1 : SubSeq(s, a + 1, e)[x] = s[(a + 1 + x) - 1]
    BY <1>2, <2>1, SubSeqProperties
  <2>3. \A x \in 1..e - a : (a + 1 + x) - 1 = a + x
    BY <1>1
  <2> QED
    BY <1>1, <2>1, <2>2, <2>3
<1> QED
  BY <1>1, <1>3 DEF Piece, e

\* What is appended leaves the chunks before it alone, and is itself the next.
LEMMA PieceOfConcat ==
  ASSUME NEW s \in Seq(Nat), NEW t \in Seq(Nat), NEW n \in Nat \ {0}
  PROVE  /\ \A a \in Nat : a + n <= Len(s) => Piece(s \o t, n, a) = Piece(s, n, a)
         /\ Len(t) <= n => Piece(s \o t, n, Len(s)) = t
<1> DEFINE c == s \o t
<1>1. /\ c \in Seq(Nat) /\ Len(c) = Len(s) + Len(t) /\ Len(s) \in Nat /\ Len(t) \in Nat
      /\ \A x \in 1..Len(s) + Len(t) :
           c[x] = IF x <= Len(s) THEN s[x] ELSE t[x - Len(s)]
  BY ConcatProperties
<1>0. c \in Seq(Nat)
  BY <1>1
<1> HIDE DEF c
<1>2. ASSUME NEW a \in Nat, a + n <= Len(s) PROVE Piece(c, n, a) = Piece(s, n, a)
  <2>1. a \in 0..Len(s) /\ a \in 0..Len(c)
        /\ Lesser(Len(s) - a, n) = n /\ Lesser(Len(c) - a, n) = n
    BY <1>1, <1>2 DEF Lesser
  <2>2. /\ Piece(s, n, a) \in Seq(Nat) /\ Len(Piece(s, n, a)) = n
        /\ \A x \in 1..n : Piece(s, n, a)[x] = s[a + x]
    BY <2>1, PieceProperties
  <2>3. /\ Piece(c, n, a) \in Seq(Nat) /\ Len(Piece(c, n, a)) = n
        /\ \A x \in 1..n : Piece(c, n, a)[x] = c[a + x]
    BY <1>0, <2>1, PieceProperties, SMTT(60)
  <2>4. ASSUME NEW x \in 1..n PROVE c[a + x] = s[a + x]
    <3>1. a + x \in 1..Len(s) + Len(t) /\ a + x <= Len(s)
      BY <1>1, <1>2
    <3> QED
      BY <1>1, <3>1
  <2>5. \A x \in 1..n : Piece(c, n, a)[x] = Piece(s, n, a)[x]
    BY <2>2, <2>3, <2>4
  <2> QED
    BY <2>2, <2>3, <2>5, SeqEqual
<1>3. ASSUME Len(t) <= n PROVE Piece(c, n, Len(s)) = t
  <2>1. Len(s) \in 0..Len(c) /\ Lesser(Len(c) - Len(s), n) = Len(t)
    BY <1>1, <1>3 DEF Lesser
  <2>2. /\ Piece(c, n, Len(s)) \in Seq(Nat) /\ Len(Piece(c, n, Len(s))) = Len(t)
        /\ \A x \in 1..Len(t) : Piece(c, n, Len(s))[x] = c[Len(s) + x]
    <3>1. \A a \in 0..Len(c) :
            /\ Piece(c, n, a) \in Seq(Nat) /\ Len(Piece(c, n, a)) = Lesser(Len(c) - a, n)
            /\ \A x \in 1..Lesser(Len(c) - a, n) : Piece(c, n, a)[x] = c[a + x]
      BY <1>0, PieceProperties
    <3> QED
      BY <2>1, <3>1
  <2>3. ASSUME NEW x \in 1..Len(t) PROVE c[Len(s) + x] = t[x]
    <3>1. Len(s) + x \in 1..Len(s) + Len(t) /\ ~(Len(s) + x <= Len(s)) /\ (Len(s) + x) - Len(s) = x
      BY <1>1
    <3> QED
      BY <1>1, <3>1
  <2>4. \A x \in 1..Len(t) : Piece(c, n, Len(s))[x] = t[x]
    BY <2>2, <2>3
  <2> QED
    BY <2>2, <2>4, SeqEqual
<1> QED
  BY <1>2, <1>3 DEF c

\* A chunk of a beginning of a sequence is a beginning of its chunk.
LEMMA PieceOfStart ==
  ASSUME NEW s \in Seq(Nat), NEW n \in Nat \ {0}, NEW m \in 0..Len(s), NEW a \in 0..m
  PROVE  Piece(SubSeq(s, 1, m), n, a) = SubSeq(Piece(s, n, a), 1, Lesser(m - a, n))
<1> DEFINE c == SubSeq(s, 1, m)
           p == Piece(s, n, a)
           l == Lesser(m - a, n)
<1>1. c \in Seq(Nat) /\ Len(c) = m /\ \A x \in 1..m : c[x] = s[x]
  BY StartProperties
<1>2. a \in 0..Len(s) /\ Len(s) \in Nat /\ a \in Nat /\ m \in Nat
  OBVIOUS
<1>3. /\ p \in Seq(Nat) /\ Len(p) = Lesser(Len(s) - a, n)
      /\ \A x \in 1..Lesser(Len(s) - a, n) : p[x] = s[a + x]
  BY <1>2, PieceProperties
<1>4. l \in 0..Len(p) /\ l \in Nat /\ a + l <= m
  BY <1>2, <1>3 DEF Lesser
<1> HIDE DEF c, p
<1>5. /\ Piece(c, n, a) \in Seq(Nat) /\ Len(Piece(c, n, a)) = l
      /\ \A x \in 1..l : Piece(c, n, a)[x] = c[a + x]
  BY <1>1, PieceProperties, ZenonT(60)
<1> HIDE DEF l
<1>6. /\ SubSeq(p, 1, l) \in Seq(Nat) /\ Len(SubSeq(p, 1, l)) = l
      /\ \A x \in 1..l : SubSeq(p, 1, l)[x] = p[x]
  BY <1>3, <1>4, StartProperties
<1>7. ASSUME NEW x \in 1..l PROVE Piece(c, n, a)[x] = SubSeq(p, 1, l)[x]
  <2>1. Len(p) \in Nat
    BY <1>3
  <2>2. a + x \in 1..m /\ x \in 1..Len(p)
    BY <1>2, <1>4, <2>1
  <2>3. c[a + x] = s[a + x] /\ p[x] = s[a + x]
    BY <1>1, <1>3, <2>2
  <2> QED
    BY <1>5, <1>6, <2>3
<1>8. Piece(c, n, a) = SubSeq(p, 1, l)
  BY <1>5, <1>6, <1>7, SeqEqual
<1> QED
  BY <1>8 DEF c, p, l

\* A beginning that ends with a chunk goes on with what the chunk begins with.
LEMMA StartGrows ==
  ASSUME NEW s \in Seq(Nat), NEW n \in Nat \ {0}, NEW a \in 0..Len(s),
         NEW l \in 0..Lesser(Len(s) - a, n)
  PROVE  SubSeq(s, 1, a) \o SubSeq(Piece(s, n, a), 1, l) = SubSeq(s, 1, a + l)
<1> DEFINE p == Piece(s, n, a)
           u == SubSeq(s, 1, a)
           v == SubSeq(p, 1, l)
           w == SubSeq(s, 1, a + l)
<1>1. /\ p \in Seq(Nat) /\ Len(p) = Lesser(Len(s) - a, n)
      /\ \A x \in 1..Lesser(Len(s) - a, n) : p[x] = s[a + x]
  BY PieceProperties
<1>2. Len(s) \in Nat /\ l \in Nat /\ a \in Nat /\ l \in 0..Len(p) /\ a + l \in 0..Len(s)
  BY <1>1 DEF Lesser
<1>3. u \in Seq(Nat) /\ Len(u) = a /\ \A x \in 1..a : u[x] = s[x]
  BY StartProperties
<1>4. w \in Seq(Nat) /\ Len(w) = a + l /\ \A x \in 1..a + l : w[x] = s[x]
  BY <1>2, StartProperties
<1> HIDE DEF p
<1>5. v \in Seq(Nat) /\ Len(v) = l /\ \A x \in 1..l : v[x] = p[x]
  BY <1>1, <1>2, StartProperties
<1> HIDE DEF u, v, w
<1>6. /\ u \o v \in Seq(Nat) /\ Len(u \o v) = a + l
      /\ \A x \in 1..a + l : (u \o v)[x] = IF x <= a THEN u[x] ELSE v[x - a]
  <2>1. /\ u \o v \in Seq(Nat) /\ Len(u \o v) = Len(u) + Len(v)
        /\ \A x \in 1..Len(u) + Len(v) : (u \o v)[x] = IF x <= Len(u) THEN u[x] ELSE v[x - Len(u)]
    BY <1>3, <1>5, ConcatProperties, ZenonT(60)
  <2> QED
    BY <1>3, <1>5, <2>1
<1>7. ASSUME NEW x \in 1..a + l PROVE (u \o v)[x] = w[x]
  <2>0. x \in Nat /\ x >= 1 /\ x <= a + l
    BY <1>2
  <2>1. CASE x <= a
    <3>1. x \in 1..a
      BY <1>2, <2>0, <2>1
    <3> QED
      BY <1>3, <1>4, <1>6, <2>1, <3>1
  <2>2. CASE x > a
    <3>1. x - a \in 1..l /\ a + (x - a) = x /\ ~(x <= a)
      BY <1>2, <2>0, <2>2
    <3>2. (u \o v)[x] = v[x - a]
      BY <1>6, <3>1
    <3>3. v[x - a] = p[x - a]
      BY <1>5, <3>1
    <3>4. x - a \in 1..Lesser(Len(s) - a, n)
      BY <1>1, <1>2, <3>1
    <3>5. p[x - a] = s[x]
      BY <1>1, <3>1, <3>4
    <3> QED
      BY <1>4, <3>2, <3>3, <3>5
  <2>3. x <= a \/ x > a
    BY <1>2, <2>0
  <2> QED
    BY <2>1, <2>2, <2>3
<1>8. u \o v = w
  BY <1>4, <1>6, <1>7, SeqEqual
<1> QED
  BY <1>8 DEF p, u, v, w

\* A beginning of a beginning.
LEMMA StartOfStart ==
  ASSUME NEW s \in Seq(Nat), NEW m \in 0..Len(s), NEW n \in 0..m
  PROVE  SubSeq(SubSeq(s, 1, m), 1, n) = SubSeq(s, 1, n)
<1> DEFINE c == SubSeq(s, 1, m)
<1>1. c \in Seq(Nat) /\ Len(c) = m /\ \A x \in 1..m : c[x] = s[x]
  BY StartProperties
<1>2. n \in 0..Len(s) /\ m \in Nat /\ n \in Nat /\ n <= m
  OBVIOUS
<1> HIDE DEF c
<1>3. /\ SubSeq(c, 1, n) \in Seq(Nat) /\ Len(SubSeq(c, 1, n)) = n
      /\ \A x \in 1..n : SubSeq(c, 1, n)[x] = c[x]
  BY <1>1, <1>2, StartProperties
<1>4. /\ SubSeq(s, 1, n) \in Seq(Nat) /\ Len(SubSeq(s, 1, n)) = n
      /\ \A x \in 1..n : SubSeq(s, 1, n)[x] = s[x]
  BY <1>2, StartProperties
<1>5. \A x \in 1..n : x \in 1..m
  BY <1>2
<1>6. SubSeq(c, 1, n) = SubSeq(s, 1, n)
  BY <1>1, <1>3, <1>4, <1>5, SeqEqual
<1> QED
  BY <1>6 DEF c

\* Of two chunks the later one begins where the other has ended.
LEMMA OffOrder ==
  ASSUME NEW n \in Nat \ {0}, NEW g \in Nat, NEW h \in Nat, Off(h, n) < Off(g, n)
  PROVE  h < g
<1> SUFFICES ASSUME ~(h < g) PROVE FALSE
  OBVIOUS
<1>1. g = h \/ g < h
  OBVIOUS
<1>2. Off(g, n) \in Nat /\ Off(h, n) \in Nat
  BY OffLaws
<1>3. CASE g = h
  BY <1>2, <1>3
<1>4. CASE g < h
  <2>1. Off(g, n) + n <= Off(h, n)
    BY <1>4, OffLaws
  <2> QED
    BY <1>2, <2>1
<1> QED
  BY <1>1, <1>3, <1>4
-----------------------------------------------------------------------------
(* What the chunks of one file are in another.  f is the family, k the     *)
(* key, P the original, C its code, T the input of a command, w whether    *)
(* that is whole, and O the output.                                        *)

InLen(f, o) == IF o = "enc" THEN EncLen(f) ELSE DecLen(f)

Plain(f, P, g) == Piece(P, EncLen(f), Off(g, EncLen(f)))
Coded(f, C, g) == Piece(C, DecLen(f), Off(g, DecLen(f)))

CodesOf(f, k, p) == {Encoded(f, ecb, iv, k, p) : ecb \in BOOLEAN, iv \in IVs \union {Zeros(Block)}}
ResultsOf(f, o, k, p) == IF o = "enc" THEN CodesOf(f, k, p) ELSE {Decoded(f, k, p)}

\* Every chunk of C is the code of the chunk of P, or begins it.
IsCut(f, k, P, C) ==
  /\ C \in Seq(Nat)
  /\ \A g \in Nat : Off(g, DecLen(f)) < Len(C) =>
       /\ Off(g, EncLen(f)) < Len(P)
       /\ \E c \in CodesOf(f, k, Plain(f, P, g)) :
          \E n \in 1..Len(c) : Coded(f, C, g) = SubSeq(c, 1, n)

\* Every chunk of P has its whole code in C.
IsCode(f, k, P, C) ==
  \A g \in Nat : Off(g, EncLen(f)) < Len(P) =>
    Off(g, DecLen(f)) < Len(C) /\ Coded(f, C, g) \in CodesOf(f, k, Plain(f, P, g))

\* C is the code of the first g chunks of P.
Written(f, k, P, C, g) ==
  /\ C \in Seq(Nat) /\ Len(C) <= Off(g, DecLen(f))
  /\ Off(g, EncLen(f)) <= Len(P) => Len(C) = Off(g, DecLen(f))
  /\ \A h \in Nat : h < g =>
       /\ Off(h, EncLen(f)) < Len(P) /\ Off(h, DecLen(f)) < Len(C)
       /\ Coded(f, C, h) \in CodesOf(f, k, Plain(f, P, h))

\* O is what the first g chunks of C are decoded to.
Restored(f, P, C, w, O, g) ==
  \E l \in 0..Len(P) :
    /\ O = SubSeq(P, 1, l)
    /\ w \/ Off(g, DecLen(f)) <= Len(C) => l = Lesser(Off(g, EncLen(f)), Len(P))

\* The input of a command, its output after g chunks, and what an output is
\* when it is cut anywhere, and when it is whole.
Feeds(f, o, k, P, T, w) ==
  IF o = "enc" THEN T = P ELSE IsCut(f, k, P, T) /\ (w => IsCode(f, k, P, T))
Good(f, o, k, P, T, w, O, g) ==
  IF o = "enc" THEN Written(f, k, P, O, g) ELSE Restored(f, P, T, w, O, g)
Kept(f, o, k, P, O) ==
  IF o = "enc" THEN IsCut(f, k, P, O) ELSE \E l \in 0..Len(P) : O = SubSeq(P, 1, l)
Done(f, o, k, P, O) == IF o = "enc" THEN IsCode(f, k, P, O) ELSE O = P

\* The slots from fst up to lst hold the chunks from e + fst on, and a bytes
\* of T are read.
InFlight(f, o, k, T, S, fst, lst, a, e) ==
  /\ a = Lesser(Off(e + lst, InLen(f, o)), Len(T))
  /\ \A s \in Ring : fst <= s /\ s < lst =>
       /\ Off(e + s, InLen(f, o)) < Len(T)
       /\ S[s].in = Piece(T, InLen(f, o), Off(e + s, InLen(f, o)))
       /\ \/ S[s].id = "running"
          \/ S[s].id = "done" /\ S[s].out \in ResultsOf(f, o, k, S[s].in)

-----------------------------------------------------------------------------
(* What a command makes of its chunks.                                      *)

\* The laws, of a chunk and its code.
LEMMA CodeLaws ==
  ASSUME ChunkLaws, NEW f \in {"aes", "base64"}, NEW P \in Inputs, NEW k \in KeysOf(f),
         NEW g \in Nat, Off(g, EncLen(f)) < Len(P), NEW c \in CodesOf(f, k, Plain(f, P, g))
  PROVE  ChunkLaw(f, k, Plain(f, P, g), c)
<1>1. EncLen(f) \in Nat \ {0}
  BY DEF ChunkLaws
<1>2. Off(g, EncLen(f)) \in 0..(Len(P) - 1)
  <2>1. Off(g, EncLen(f)) \in Nat
    BY <1>1, OffLaws
  <2>2. Len(P) \in Nat
    BY DEF ToolAssumption
  <2> QED
    BY <2>1, <2>2
<1>3. PICK ecb \in BOOLEAN, iv \in IVs \union {Zeros(Block)} : c = Encoded(f, ecb, iv, k, Plain(f, P, g))
  BY DEF CodesOf
<1>4. \A a \in 0..(Len(P) - 1) :
        ChunkLaw(f, k, Piece(P, EncLen(f), a), Encoded(f, ecb, iv, k, Piece(P, EncLen(f), a)))
  BY DEF ChunkLaws
<1> QED
  BY <1>2, <1>3, <1>4 DEF Plain

\* No chunk size is zero.
LEMMA ChunkSizes ==
  ASSUME ChunkLaws, NEW f \in {"aes", "base64"}
  PROVE  EncLen(f) \in Nat \ {0} /\ DecLen(f) \in Nat \ {0}
  BY DEF ChunkLaws

\* Nothing is written: the output of no chunk.
LEMMA GoodStart ==
  ASSUME ChunkLaws, NEW f \in {"aes", "base64"}, NEW o, NEW P \in Inputs, NEW k, NEW T, NEW w
  PROVE  Good(f, o, k, P, T, w, <<>>, 0) /\ Kept(f, o, k, P, <<>>)
<1>1. EncLen(f) \in Nat \ {0} /\ DecLen(f) \in Nat \ {0}
  BY ChunkSizes
<1>2. Off(0, EncLen(f)) = 0 /\ Off(0, DecLen(f)) = 0 /\ \A g \in Nat : Off(g, DecLen(f)) \in Nat
  BY <1>1, OffLaws
<1>3. <<>> \in Seq(Nat) /\ Len(<<>>) = 0
  OBVIOUS
<1>4. Len(P) \in Nat /\ P \in Seq(Nat)
  OBVIOUS
<1>5. Written(f, k, P, <<>>, 0)
  BY <1>2, <1>3 DEF Written
<1>6. IsCut(f, k, P, <<>>)
  BY <1>2, <1>3 DEF IsCut
<1>7. SubSeq(P, 1, 0) = <<>>
  <2>1. SubSeq(P, 1, 0) \in Seq(Nat) /\ Len(SubSeq(P, 1, 0)) = 0
    BY <1>4, StartProperties
  <2> QED
    BY <2>1, EmptySeq
<1>8. 0 \in 0..Len(P) /\ Lesser(0, Len(P)) = 0
  BY <1>4 DEF Lesser
<1>9. Restored(f, P, T, w, <<>>, 0)
  BY <1>2, <1>7, <1>8 DEF Restored
<1> QED
  BY <1>5, <1>6, <1>7, <1>8, <1>9 DEF Good, Kept

\* The code of the next chunk is written.
LEMMA WrittenGrows ==
  ASSUME ChunkLaws, NEW f \in {"aes", "base64"}, NEW P \in Inputs, NEW k \in KeysOf(f),
         NEW C, NEW g \in Nat, Written(f, k, P, C, g),
         Off(g, EncLen(f)) < Len(P), NEW c \in CodesOf(f, k, Plain(f, P, g))
  PROVE  Written(f, k, P, C \o c, g + 1)
<1> DEFINE n1 == EncLen(f)
           n2 == DecLen(f)
           D == C \o c
<1>1. n1 \in Nat \ {0} /\ n2 \in Nat \ {0} /\ P \in Seq(Nat) /\ Len(P) \in Nat
  BY ChunkSizes
<1>2. c \in Seq(Nat) /\ Len(c) \in 1..n2 /\ (Len(Plain(f, P, g)) = n1 => Len(c) = n2)
  BY CodeLaws DEF ChunkLaw
<1>3. /\ C \in Seq(Nat) /\ Len(C) \in Nat
      /\ Off(g, n1) <= Len(P) => Len(C) = Off(g, n2)
      /\ \A h \in Nat : h < g =>
           /\ Off(h, n1) < Len(P) /\ Off(h, n2) < Len(C)
           /\ Coded(f, C, h) \in CodesOf(f, k, Plain(f, P, h))
  BY DEF Written
<1> HIDE DEF n1, n2
<1>4. /\ Off(g, n1) \in Nat /\ Off(g + 1, n1) = Off(g, n1) + n1
      /\ Off(g, n2) \in Nat /\ Off(g + 1, n2) = Off(g, n2) + n2
  BY <1>1, OffLaws
<1>5. Off(g, n1) < Len(P)
  BY DEF n1
<1>6. Len(C) = Off(g, n2)
  BY <1>1, <1>3, <1>4, <1>5
<1>7. D \in Seq(Nat) /\ Len(D) = Off(g, n2) + Len(c) /\ Len(c) \in Nat
  <2>1. D \in Seq(Nat) /\ Len(D) = Len(C) + Len(c)
    BY <1>2, <1>3, ConcatProperties
  <2> QED
    BY <1>2, <1>6, <2>1
<1>8. /\ \A a \in Nat : a + n2 <= Off(g, n2) => Piece(D, n2, a) = Piece(C, n2, a)
      /\ Piece(D, n2, Off(g, n2)) = c
  <2>1. Len(c) <= n2
    BY <1>1, <1>2
  <2> QED
    BY <1>1, <1>2, <1>3, <1>6, <2>1, PieceOfConcat
<1> HIDE DEF D
<1>9. Len(D) <= Off(g + 1, n2)
  BY <1>1, <1>2, <1>4, <1>7
<1>10. ASSUME Off(g + 1, n1) <= Len(P) PROVE Len(D) = Off(g + 1, n2)
  <2>1. Lesser(Len(P) - Off(g, n1), n1) = n1 /\ Off(g, n1) \in 0..Len(P)
    BY <1>1, <1>4, <1>5, <1>10 DEF Lesser
  <2>2. Len(Plain(f, P, g)) = n1
    BY <1>1, <2>1, PieceProperties DEF Plain, n1
  <2> QED
    BY <1>2, <1>4, <1>7, <2>2
<1>11. ASSUME NEW h \in Nat, h < g + 1
       PROVE  /\ Off(h, n1) < Len(P) /\ Off(h, n2) < Len(D)
              /\ Coded(f, D, h) \in CodesOf(f, k, Plain(f, P, h))
  <2>1. CASE h < g
    <3>1. Off(h, n2) + n2 <= Off(g, n2) /\ Off(h, n2) \in Nat
      BY <1>1, <2>1, OffLaws
    <3>2. Coded(f, D, h) = Coded(f, C, h)
      BY <1>8, <3>1 DEF Coded, n2
    <3>3. Off(h, n2) < Len(D)
      BY <1>1, <1>4, <1>7, <3>1
    <3> QED
      BY <1>3, <2>1, <3>2, <3>3
  <2>2. CASE h = g
    <3>1. Coded(f, D, g) = c
      BY <1>8 DEF Coded, n2
    <3>2. Off(g, n2) < Len(D)
      BY <1>1, <1>2, <1>4, <1>7
    <3> QED
      BY <1>5, <2>2, <3>1, <3>2
  <2>3. h < g \/ h = g
    BY <1>11
  <2> QED
    BY <2>1, <2>2, <2>3
<1> QED
  BY <1>7, <1>9, <1>10, <1>11 DEF Written, D, n1, n2

\* The next chunk of the code, or what is left of it, is decoded.
LEMMA RestoredGrows ==
  ASSUME ChunkLaws, NEW f \in {"aes", "base64"}, NEW P \in Inputs, NEW k \in KeysOf(f),
         NEW T, NEW w, NEW R, NEW g \in Nat, IsCut(f, k, P, T), w => IsCode(f, k, P, T),
         Restored(f, P, T, w, R, g), Off(g, DecLen(f)) < Len(T)
  PROVE  /\ Decoded(f, k, Coded(f, T, g)) # Unset
         /\ Restored(f, P, T, w, R \o Decoded(f, k, Coded(f, T, g)), g + 1)
<1> DEFINE n1 == EncLen(f)
           n2 == DecLen(f)
           q == Plain(f, P, g)
           d == Decoded(f, k, Coded(f, T, g))
<1>1. n1 \in Nat \ {0} /\ n2 \in Nat \ {0} /\ P \in Seq(Nat) /\ Len(P) \in Nat
  BY ChunkSizes
<1>2. T \in Seq(Nat) /\ Len(T) \in Nat
  BY DEF IsCut
<1>3. /\ Off(g, n1) < Len(P)
      /\ \E c \in CodesOf(f, k, q) : \E n \in 1..Len(c) : Coded(f, T, g) = SubSeq(c, 1, n)
  BY DEF IsCut
<1>4. PICK c \in CodesOf(f, k, q) : \E n \in 1..Len(c) : Coded(f, T, g) = SubSeq(c, 1, n)
  BY <1>3
<1>5. PICK n \in 1..Len(c) : Coded(f, T, g) = SubSeq(c, 1, n)
  BY <1>4
<1>6. ChunkLaw(f, k, q, c)
  BY <1>3, <1>4, CodeLaws
<1>7. PICK l \in 0..Len(q) : d = SubSeq(q, 1, l)
  BY <1>5, <1>6 DEF ChunkLaw
<1>8. d # Unset /\ c \in Seq(Nat) /\ Len(c) \in 1..n2 /\ Decoded(f, k, c) = q
  BY <1>5, <1>6 DEF ChunkLaw
<1>9. /\ Off(g, n1) \in Nat /\ Off(g + 1, n1) = Off(g, n1) + n1
      /\ Off(g, n2) \in Nat /\ Off(g + 1, n2) = Off(g, n2) + n2
  BY <1>1, OffLaws
<1>10. R = SubSeq(P, 1, Off(g, n1))
  <2>1. Lesser(Off(g, n1), Len(P)) = Off(g, n1)
    BY <1>1, <1>3, <1>9 DEF Lesser
  <2>2. Off(g, n2) <= Len(T)
    BY <1>2, <1>9
  <2> QED
    BY <2>1, <2>2 DEF Restored
<1> DEFINE m == Lesser(Len(P) - Off(g, n1), n1)
<1>11. m \in Nat /\ Len(q) = m /\ q \in Seq(Nat) /\ Off(g, n1) \in 0..Len(P)
  <2>1. Off(g, n1) \in 0..Len(P)
    BY <1>1, <1>3, <1>9
  <2>2. m \in Nat
    BY <1>1, <2>1 DEF Lesser
  <2> QED
    BY <1>1, <2>1, <2>2, PieceProperties DEF Plain
<1>12. l \in 0..m /\ l \in Nat
  BY <1>11
<1>13. R \o d = SubSeq(P, 1, Off(g, n1) + l)
  <2>1. q = Piece(P, n1, Off(g, n1))
    BY DEF Plain
  <2>2. SubSeq(P, 1, Off(g, n1)) \o SubSeq(Piece(P, n1, Off(g, n1)), 1, l) = SubSeq(P, 1, Off(g, n1) + l)
    BY <1>1, <1>11, <1>12, StartGrows, ZenonT(60)
  <2> QED
    BY <1>7, <1>10, <2>1, <2>2
<1>14. Off(g, n1) + l \in 0..Len(P)
  <2>1. m <= Len(P) - Off(g, n1)
    BY <1>1, <1>9 DEF Lesser
  <2> HIDE DEF m
  <2> QED
    BY <1>1, <1>9, <1>11, <1>12, <2>1
<1>15. Off(g, n1) + m = Lesser(Off(g + 1, n1), Len(P))
  BY <1>1, <1>9 DEF Lesser
<1>16. ASSUME Coded(f, T, g) = c \/ Coded(f, T, g) \in CodesOf(f, k, q) PROVE d = q
  <2>1. CASE Coded(f, T, g) = c
    BY <1>8, <2>1
  <2>2. CASE Coded(f, T, g) \in CodesOf(f, k, q)
    <3>1. ChunkLaw(f, k, q, Coded(f, T, g))
      BY <1>3, <2>2, CodeLaws
    <3> QED
      BY <3>1 DEF ChunkLaw
  <2> QED
    BY <1>16, <2>1, <2>2
<1>17. ASSUME d = q PROVE l = m
  <2>1. Len(SubSeq(q, 1, l)) = l
    BY <1>11, StartProperties
  <2> QED
    BY <1>7, <1>11, <1>17, <2>1
<1>18. ASSUME w PROVE l = m
  BY <1>3, <1>16, <1>17, <1>18 DEF IsCode
<1>19. ASSUME Off(g + 1, n2) <= Len(T) PROVE l = m
  <2>1. Len(Coded(f, T, g)) = n2
    <3>1. Off(g, n2) \in 0..Len(T) /\ Lesser(Len(T) - Off(g, n2), n2) = n2
      BY <1>1, <1>2, <1>9, <1>19 DEF Lesser
    <3> QED
      BY <1>1, <1>2, <3>1, PieceProperties DEF Coded
  <2>2. n \in 0..Len(c) /\ Len(c) \in Nat /\ n \in Nat
    BY <1>8
  <2>3. Len(SubSeq(c, 1, n)) = n
    BY <1>8, <2>2, StartProperties
  <2>4. n = Len(c)
    BY <1>1, <1>5, <1>8, <2>1, <2>2, <2>3
  <2>5. Coded(f, T, g) = c
    BY <1>5, <1>8, <2>4, StartIsAll
  <2> QED
    BY <1>16, <1>17, <2>5
<1> HIDE DEF m, d, q
<1>20. Restored(f, P, T, w, R \o d, g + 1)
  <2>1. w \/ Off(g + 1, n2) <= Len(T) => Off(g, n1) + l = Lesser(Off(g + 1, n1), Len(P))
    BY <1>15, <1>18, <1>19
  <2> QED
    BY <1>13, <1>14, <2>1 DEF Restored
<1> QED
  BY <1>8, <1>20 DEF d

\* A command writes the next chunk.
LEMMA GoodGrows ==
  ASSUME ChunkLaws, NEW f \in {"aes", "base64"}, NEW o \in Coding, NEW P \in Inputs, NEW k \in KeysOf(f),
         NEW T, NEW w, NEW O, NEW g \in Nat, Feeds(f, o, k, P, T, w), Good(f, o, k, P, T, w, O, g),
         Off(g, InLen(f, o)) < Len(T),
         NEW c \in ResultsOf(f, o, k, Piece(T, InLen(f, o), Off(g, InLen(f, o))))
  PROVE  c # Unset /\ Good(f, o, k, P, T, w, O \o c, g + 1)
<1>1. CASE o = "enc"
  <2>1. /\ T = P /\ Written(f, k, P, O, g) /\ Off(g, EncLen(f)) < Len(P)
        /\ c \in CodesOf(f, k, Plain(f, P, g))
    BY <1>1 DEF Feeds, Good, InLen, ResultsOf, Plain
  <2>2. c # Unset
    BY <2>1, CodeLaws DEF ChunkLaw
  <2>3. Written(f, k, P, O \o c, g + 1)
    BY <2>1, WrittenGrows
  <2> QED
    BY <1>1, <2>2, <2>3 DEF Good
<1>2. CASE o = "dec"
  <2>1. /\ IsCut(f, k, P, T) /\ (w => IsCode(f, k, P, T)) /\ Restored(f, P, T, w, O, g)
        /\ Off(g, DecLen(f)) < Len(T) /\ c = Decoded(f, k, Coded(f, T, g))
    BY <1>2 DEF Feeds, Good, InLen, ResultsOf, Coded
  <2>2. c # Unset /\ Restored(f, P, T, w, O \o c, g + 1)
    BY <2>1, RestoredGrows
  <2> QED
    BY <1>2, <2>2 DEF Good
<1> QED
  BY <1>1, <1>2 DEF Coding

\* What is written so far may be kept.
LEMMA GoodIsKept ==
  ASSUME ChunkLaws, NEW f \in {"aes", "base64"}, NEW o \in Coding, NEW P \in Inputs, NEW k \in KeysOf(f),
         NEW T, NEW w, NEW O, NEW g \in Nat, Good(f, o, k, P, T, w, O, g)
  PROVE  Kept(f, o, k, P, O)
<1>1. CASE o = "enc"
  <2>1. EncLen(f) \in Nat \ {0} /\ DecLen(f) \in Nat \ {0}
    BY ChunkSizes
  <2>2. /\ O \in Seq(Nat) /\ Len(O) \in Nat /\ Len(O) <= Off(g, DecLen(f))
        /\ \A h \in Nat : h < g =>
             /\ Off(h, EncLen(f)) < Len(P) /\ Off(h, DecLen(f)) < Len(O)
             /\ Coded(f, O, h) \in CodesOf(f, k, Plain(f, P, h))
    BY <1>1 DEF Good, Written
  <2>3. ASSUME NEW h \in Nat, Off(h, DecLen(f)) < Len(O)
        PROVE  /\ Off(h, EncLen(f)) < Len(P)
               /\ \E c \in CodesOf(f, k, Plain(f, P, h)) :
                  \E n \in 1..Len(c) : Coded(f, O, h) = SubSeq(c, 1, n)
    <3>1. Off(h, DecLen(f)) < Off(g, DecLen(f))
      <4>1. Off(h, DecLen(f)) \in Nat /\ Off(g, DecLen(f)) \in Nat
        BY <2>1, OffLaws
      <4> QED
        BY <2>2, <2>3, <4>1
    <3>2. h < g
      BY <2>1, <3>1, OffOrder
    <3>3. Off(h, EncLen(f)) < Len(P) /\ Coded(f, O, h) \in CodesOf(f, k, Plain(f, P, h))
      BY <2>2, <3>2
    <3>4. PICK c \in CodesOf(f, k, Plain(f, P, h)) : c = Coded(f, O, h)
      BY <3>3
    <3>5. c \in Seq(Nat) /\ Len(c) \in 1..DecLen(f)
      BY <3>3, CodeLaws DEF ChunkLaw
    <3>6. Len(c) \in 1..Len(c) /\ SubSeq(c, 1, Len(c)) = c
      BY <2>1, <3>5, StartIsAll
    <3> QED
      BY <3>3, <3>4, <3>6
  <2>4. IsCut(f, k, P, O)
    BY <2>2, <2>3 DEF IsCut
  <2> QED
    BY <1>1, <2>4 DEF Kept
<1>2. CASE o = "dec"
  BY <1>2 DEF Good, Kept, Restored
<1> QED
  BY <1>1, <1>2 DEF Coding

\* A kill leaves a beginning of what was written.
LEMMA KeptIsCut ==
  ASSUME ChunkLaws, NEW f \in {"aes", "base64"}, NEW o \in Coding, NEW P \in Inputs, NEW k \in KeysOf(f),
         NEW O, Kept(f, o, k, P, O), NEW m \in 0..Len(O)
  PROVE  Kept(f, o, k, P, SubSeq(O, 1, m))
<1>1. CASE o = "enc"
  <2> DEFINE D == SubSeq(O, 1, m)
  <2>1. EncLen(f) \in Nat \ {0} /\ DecLen(f) \in Nat \ {0}
    BY ChunkSizes
  <2>2. /\ O \in Seq(Nat) /\ Len(O) \in Nat
        /\ \A g \in Nat : Off(g, DecLen(f)) < Len(O) =>
             /\ Off(g, EncLen(f)) < Len(P)
             /\ \E c \in CodesOf(f, k, Plain(f, P, g)) :
                \E n \in 1..Len(c) : Coded(f, O, g) = SubSeq(c, 1, n)
    BY <1>1 DEF Kept, IsCut
  <2>3. D \in Seq(Nat) /\ Len(D) = m /\ m \in Nat /\ m <= Len(O)
    BY <2>2, StartProperties
  <2>4. ASSUME NEW g \in Nat, Off(g, DecLen(f)) < m
        PROVE  /\ Off(g, EncLen(f)) < Len(P)
               /\ \E c \in CodesOf(f, k, Plain(f, P, g)) :
                  \E n \in 1..Len(c) : Coded(f, D, g) = SubSeq(c, 1, n)
    <3> DEFINE a == Off(g, DecLen(f))
               l == Lesser(m - a, DecLen(f))
    <3>1. a \in Nat /\ a < m /\ a < Len(O)
      <4>1. a \in Nat
        BY <2>1, OffLaws
      <4> QED
        BY <2>2, <2>3, <2>4, <4>1
    <3>2. PICK c \in CodesOf(f, k, Plain(f, P, g)) : \E n \in 1..Len(c) : Coded(f, O, g) = SubSeq(c, 1, n)
      BY <2>2, <3>1
    <3>3. PICK n \in 1..Len(c) : Coded(f, O, g) = SubSeq(c, 1, n)
      BY <3>2
    <3>4. Off(g, EncLen(f)) < Len(P)
      BY <2>2, <3>1
    <3>5. c \in Seq(Nat) /\ Len(c) \in Nat
      BY <3>4, CodeLaws DEF ChunkLaw
    <3>6. n \in 0..Len(c) /\ n \in Nat
      BY <3>5
    <3>7. Len(SubSeq(c, 1, n)) = n
      BY <3>5, <3>6, StartProperties
    <3>8. Len(Coded(f, O, g)) = Lesser(Len(O) - a, DecLen(f))
      <4>1. a \in 0..Len(O)
        BY <2>2, <3>1
      <4> QED
        BY <2>1, <2>2, <4>1, PieceProperties DEF Coded
    <3>9. l \in Nat /\ l >= 1 /\ l <= n
      <4>1. n = Lesser(Len(O) - a, DecLen(f))
        BY <3>3, <3>7, <3>8
      <4>2. m - a \in Nat /\ m - a >= 1 /\ m - a <= Len(O) - a /\ Len(O) - a \in Nat
        BY <2>2, <2>3, <3>1
      <4>3. \A x, y \in Nat, z \in Nat \ {0} :
              x >= 1 /\ x <= y => /\ Lesser(x, z) \in Nat /\ Lesser(x, z) >= 1
                                 /\ Lesser(x, z) <= Lesser(y, z)
        BY DEF Lesser
      <4> HIDE DEF a
      <4> QED
        BY <2>1, <4>1, <4>2, <4>3
    <3>10. Coded(f, D, g) = SubSeq(Coded(f, O, g), 1, l)
      <4>1. a \in 0..m
        BY <2>3, <3>1
      <4> QED
        BY <2>1, <2>2, <4>1, PieceOfStart, ZenonT(60) DEF Coded
    <3> HIDE DEF l
    <3>11. SubSeq(SubSeq(c, 1, n), 1, l) = SubSeq(c, 1, l)
      <4>1. l \in 0..n
        BY <3>6, <3>9
      <4> QED
        BY <3>5, <3>6, <4>1, StartOfStart
    <3>12. l \in 1..Len(c)
      BY <3>5, <3>6, <3>9
    <3> QED
      BY <3>3, <3>4, <3>10, <3>11, <3>12
  <2> HIDE DEF D
  <2>5. IsCut(f, k, P, D)
    BY <2>3, <2>4 DEF IsCut
  <2> QED
    BY <1>1, <2>5 DEF Kept, D
<1>2. CASE o = "dec"
  <2>1. PICK l \in 0..Len(P) : O = SubSeq(P, 1, l)
    BY <1>2 DEF Kept
  <2>2. P \in Seq(Nat) /\ Len(P) \in Nat /\ l \in Nat
    OBVIOUS
  <2>3. Len(O) = l
    BY <2>1, <2>2, StartProperties
  <2>4. m \in 0..l /\ m \in 0..Len(P)
    BY <2>2, <2>3
  <2>5. SubSeq(SubSeq(P, 1, l), 1, m) = SubSeq(P, 1, m)
    BY <2>2, <2>4, StartOfStart
  <2> QED
    BY <1>2, <2>1, <2>4, <2>5 DEF Kept
<1> QED
  BY <1>1, <1>2 DEF Coding

\* All of a whole input is written.
LEMMA GoodIsDone ==
  ASSUME ChunkLaws, NEW f \in {"aes", "base64"}, NEW o \in Coding, NEW P \in Inputs, NEW k \in KeysOf(f),
         NEW T, NEW O, NEW g \in Nat, Feeds(f, o, k, P, T, TRUE), Good(f, o, k, P, T, TRUE, O, g),
         Len(T) <= Off(g, InLen(f, o))
  PROVE  Done(f, o, k, P, O)
<1>1. /\ EncLen(f) \in Nat \ {0} /\ DecLen(f) \in Nat \ {0}
      /\ P \in Seq(Nat) /\ Len(P) \in Nat
  BY ChunkSizes
<1>2. /\ \A h \in Nat : Off(h, EncLen(f)) \in Nat
      /\ \A h \in Nat : Off(h, DecLen(f)) \in Nat
  BY <1>1, OffLaws
<1>3. CASE o = "enc"
  <2>1. /\ T = P /\ Len(P) <= Off(g, EncLen(f))
        /\ \A h \in Nat : h < g =>
             Off(h, DecLen(f)) < Len(O) /\ Coded(f, O, h) \in CodesOf(f, k, Plain(f, P, h))
    BY <1>3 DEF Feeds, Good, Written, InLen
  <2>2. ASSUME NEW h \in Nat, Off(h, EncLen(f)) < Len(P) PROVE h < g
    <3>1. Off(h, EncLen(f)) < Off(g, EncLen(f))
      BY <1>1, <1>2, <2>1, <2>2
    <3> QED
      BY <1>1, <3>1, OffOrder
  <2>3. IsCode(f, k, P, O)
    BY <2>1, <2>2 DEF IsCode
  <2> QED
    BY <1>3, <2>3 DEF Done
<1>4. CASE o = "dec"
  <2>1. /\ IsCut(f, k, P, T) /\ IsCode(f, k, P, T) /\ Restored(f, P, T, TRUE, O, g)
        /\ Len(T) <= Off(g, DecLen(f))
    BY <1>4 DEF Feeds, Good, InLen
  <2>2. Len(T) \in Nat
    BY <2>1 DEF IsCut
  <2>3. ~(Off(g, DecLen(f)) < Len(T))
    BY <1>2, <2>1, <2>2
  <2>4. Lesser(Off(g, EncLen(f)), Len(P)) = Len(P)
    <3>1. ~(Off(g, EncLen(f)) < Len(P))
      BY <2>1, <2>3 DEF IsCode
    <3> QED
      BY <3>1 DEF Lesser
  <2>5. O = SubSeq(P, 1, Len(P))
    BY <2>1, <2>4 DEF Restored
  <2>6. O = P
    BY <1>1, <2>5, StartIsAll
  <2> QED
    BY <1>4, <2>6 DEF Done
<1> QED
  BY <1>3, <1>4 DEF Coding

-----------------------------------------------------------------------------
(* The chunks on their way through the ring.                                *)

\* O is what is written, and the slots S from fst up to lst hold what follows;
\* e is the chunk of slot 0.
Flow(f, o, k, P, T, w, O, S, fst, lst, a) ==
  \E e \in Nat :
    Good(f, o, k, P, T, w, O, e + fst) /\ InFlight(f, o, k, T, S, fst, lst, a, e)

\* The input of the tool is a sequence of numbers, and is cut into chunks
\* that are not empty.
LEMMA FeedsType ==
  ASSUME ChunkLaws, NEW f \in {"aes", "base64"}, NEW o \in Coding, NEW P \in Inputs,
         NEW k, NEW T, NEW w, Feeds(f, o, k, P, T, w)
  PROVE  T \in Seq(Nat) /\ Len(T) \in Nat /\ InLen(f, o) \in Nat \ {0}
<1>1. InLen(f, o) \in Nat \ {0}
  BY ChunkSizes DEF InLen
<1>2. T \in Seq(Nat)
  BY DEF Feeds, IsCut
<1> QED
  BY <1>1, <1>2

\* Of a chunk that is read: whether it is the end of the input, and how far
\* main has then read.
LEMMA NextChunk ==
  ASSUME NEW T \in Seq(Nat), NEW n \in Nat \ {0}, NEW a \in 0..Len(T)
  PROVE  /\ Piece(T, n, a) = <<>> <=> a = Len(T)
         /\ a + n < Len(T) => a + Len(Piece(T, n, a)) = a + n
         /\ ~(a + n < Len(T)) => a + Len(Piece(T, n, a)) = Len(T)
<1>1. a \in Nat /\ Len(T) \in Nat
  OBVIOUS
<1>2. Piece(T, n, a) \in Seq(Nat) /\ Len(Piece(T, n, a)) = Lesser(Len(T) - a, n)
  BY PieceProperties
<1>3. Piece(T, n, a) = <<>> <=> Lesser(Len(T) - a, n) = 0
  BY <1>2, EmptySeq
<1>4. Lesser(Len(T) - a, n) = 0 <=> a = Len(T)
  BY <1>1 DEF Lesser
<1>5. /\ a + n < Len(T) => a + Lesser(Len(T) - a, n) = a + n
      /\ ~(a + n < Len(T)) => a + Lesser(Len(T) - a, n) = Len(T)
  <2>1. PICK m \in Nat : m = Len(T)
    BY <1>1
  <2>2. /\ a + n < m => a + Lesser(m - a, n) = a + n
        /\ ~(a + n < m) => a + Lesser(m - a, n) = m
    BY <2>1 DEF Lesser
  <2> QED
    BY <2>1, <2>2
<1> QED
  BY <1>2, <1>3, <1>4, <1>5

\* A command that begins.
LEMMA FlowStarts ==
  ASSUME ChunkLaws, NEW f \in {"aes", "base64"}, NEW o \in Coding, NEW P \in Inputs,
         NEW k \in KeysOf(f), NEW T, NEW w, NEW O, NEW S, NEW a,
         Feeds(f, o, k, P, T, w)
  PROVE  Flow(f, o, k, P, T, w, <<>>, S, 0, 0, 0)
<1>1. T \in Seq(Nat) /\ Len(T) \in Nat /\ InLen(f, o) \in Nat \ {0}
  BY FeedsType
<1>2. Off(0, InLen(f, o)) = 0
  BY <1>1, OffLaws
<1>3. Lesser(0, Len(T)) = 0 /\ 0 + 0 = 0 /\ 0 \in Nat
  BY <1>1 DEF Lesser
<1>4. InFlight(f, o, k, T, S, 0, 0, 0, 0)
  BY <1>2, <1>3 DEF InFlight, Ring
<1>5. Good(f, o, k, P, T, w, <<>>, 0)
  BY GoodStart
<1> QED
  BY <1>3, <1>4, <1>5 DEF Flow

\* What changes outside of the slots that count.
LEMMA FlowStays ==
  ASSUME ChunkLaws, NEW f \in {"aes", "base64"}, NEW o \in Coding, NEW P \in Inputs,
         NEW k \in KeysOf(f), NEW T, NEW w, NEW O, NEW S, NEW a,
         Feeds(f, o, k, P, T, w),
         NEW fst, NEW lst, Flow(f, o, k, P, T, w, O, S, fst, lst, a),
         NEW Z, \A s \in Ring : fst <= s /\ s < lst => Z[s] = S[s]
  PROVE  Flow(f, o, k, P, T, w, O, Z, fst, lst, a)
<1>1. PICK e \in Nat : Good(f, o, k, P, T, w, O, e + fst) /\ InFlight(f, o, k, T, S, fst, lst, a, e)
  BY DEF Flow
<1>2. InFlight(f, o, k, T, Z, fst, lst, a, e)
  BY <1>1 DEF InFlight
<1> QED
  BY <1>1, <1>2 DEF Flow

\* A chunk is read.
LEMMA FlowReads ==
  ASSUME ChunkLaws, NEW f \in {"aes", "base64"}, NEW o \in Coding, NEW P \in Inputs,
         NEW k \in KeysOf(f), NEW T, NEW w, NEW O, NEW S, NEW a,
         Feeds(f, o, k, P, T, w),
         NEW n \in Ring, Flow(f, o, k, P, T, w, O, S, 0, n, a),
         NEW c, c = Piece(T, InLen(f, o), a), c # <<>>,
         NEW Z, \A s \in Ring : s # n => Z[s] = S[s],
         Z[n].id = "running", Z[n].in = c
  PROVE  Flow(f, o, k, P, T, w, O, Z, 0, n + 1, a + Len(c))
<1>1. T \in Seq(Nat) /\ Len(T) \in Nat /\ InLen(f, o) \in Nat \ {0} /\ n \in Nat
  BY FeedsType DEF Ring
<1>2. PICK e \in Nat : Good(f, o, k, P, T, w, O, e + 0) /\ InFlight(f, o, k, T, S, 0, n, a, e)
  BY DEF Flow
<1> DEFINE x == Off(e + n, InLen(f, o))
<1>3. x \in Nat /\ Off(e + (n + 1), InLen(f, o)) = x + InLen(f, o)
  <2>1. e + n \in Nat /\ e + (n + 1) = (e + n) + 1
    BY <1>1, <1>2
  <2>2. Off(e + n, InLen(f, o)) \in Nat /\ Off((e + n) + 1, InLen(f, o)) = Off(e + n, InLen(f, o)) + InLen(f, o)
    BY <1>1, <2>1, OffLaws
  <2> QED
    BY <2>1, <2>2
<1>4. a = Lesser(x, Len(T))
  BY <1>2 DEF InFlight
<1> HIDE DEF x
<1>5. x < Len(T) /\ a = x /\ a + Len(c) = Lesser(x + InLen(f, o), Len(T))
  <2>1. a \in 0..Len(T)
    BY <1>1, <1>3, <1>4 DEF Lesser
  <2>2. /\ a # Len(T)
        /\ a + InLen(f, o) < Len(T) => a + Len(c) = a + InLen(f, o)
        /\ ~(a + InLen(f, o) < Len(T)) => a + Len(c) = Len(T)
    <3>1. \A m \in Nat \ {0} :
            /\ Piece(T, m, a) = <<>> <=> a = Len(T)
            /\ a + m < Len(T) => a + Len(Piece(T, m, a)) = a + m
            /\ ~(a + m < Len(T)) => a + Len(Piece(T, m, a)) = Len(T)
      BY <1>1, <2>1, NextChunk
    <3> QED
      BY <1>1, <3>1
  <2>3. x < Len(T) /\ a = x
    BY <1>1, <1>3, <1>4, <2>2 DEF Lesser
  <2> QED
    BY <2>2, <2>3 DEF Lesser
<1>6. a + Len(c) = Lesser(Off(e + (n + 1), InLen(f, o)), Len(T))
  BY <1>3, <1>5
<1>7. ASSUME NEW s \in Ring, 0 <= s, s < n + 1
      PROVE  /\ Off(e + s, InLen(f, o)) < Len(T)
             /\ Z[s].in = Piece(T, InLen(f, o), Off(e + s, InLen(f, o)))
             /\ \/ Z[s].id = "running"
                \/ Z[s].id = "done" /\ Z[s].out \in ResultsOf(f, o, k, Z[s].in)
  <2>1. CASE s = n
    BY <1>5, <2>1 DEF x
  <2>2. CASE s # n
    <3>1. s < n /\ Z[s] = S[s]
      BY <1>1, <1>7, <2>2 DEF Ring
    <3> QED
      BY <1>2, <1>7, <3>1 DEF InFlight
  <2> QED
    BY <2>1, <2>2
<1>8. InFlight(f, o, k, T, Z, 0, n + 1, a + Len(c), e)
  BY <1>6, <1>7 DEF InFlight
<1> QED
  BY <1>2, <1>8 DEF Flow

\* A thread ends.
LEMMA FlowWorks ==
  ASSUME ChunkLaws, NEW f \in {"aes", "base64"}, NEW o \in Coding, NEW P \in Inputs,
         NEW k \in KeysOf(f), NEW T, NEW w, NEW O, NEW S, NEW a,
         Feeds(f, o, k, P, T, w),
         NEW fst, NEW lst, Flow(f, o, k, P, T, w, O, S, fst, lst, a),
         NEW Z,
         \A s \in Ring :
           \/ Z[s] = S[s]
           \/ Z[s].id = "done" /\ Z[s].in = S[s].in /\ Z[s].out \in ResultsOf(f, o, k, S[s].in)
  PROVE  Flow(f, o, k, P, T, w, O, Z, fst, lst, a)
<1>1. PICK e \in Nat : Good(f, o, k, P, T, w, O, e + fst) /\ InFlight(f, o, k, T, S, fst, lst, a, e)
  BY DEF Flow
<1>2. ASSUME NEW s \in Ring, fst <= s, s < lst
      PROVE  /\ Off(e + s, InLen(f, o)) < Len(T)
             /\ Z[s].in = Piece(T, InLen(f, o), Off(e + s, InLen(f, o)))
             /\ \/ Z[s].id = "running"
                \/ Z[s].id = "done" /\ Z[s].out \in ResultsOf(f, o, k, Z[s].in)
  <2>1. /\ Off(e + s, InLen(f, o)) < Len(T)
        /\ S[s].in = Piece(T, InLen(f, o), Off(e + s, InLen(f, o)))
        /\ \/ S[s].id = "running"
           \/ S[s].id = "done" /\ S[s].out \in ResultsOf(f, o, k, S[s].in)
    BY <1>1, <1>2 DEF InFlight
  <2>2. CASE Z[s] = S[s]
    BY <2>1, <2>2
  <2>3. CASE Z[s].id = "done" /\ Z[s].in = S[s].in /\ Z[s].out \in ResultsOf(f, o, k, S[s].in)
    BY <2>1, <2>3
  <2> QED
    BY <2>2, <2>3
<1>3. InFlight(f, o, k, T, Z, fst, lst, a, e)
  BY <1>1, <1>2 DEF InFlight
<1> QED
  BY <1>1, <1>3 DEF Flow

\* A slot is written.
LEMMA FlowJoins ==
  ASSUME ChunkLaws, NEW f \in {"aes", "base64"}, NEW o \in Coding, NEW P \in Inputs,
         NEW k \in KeysOf(f), NEW T, NEW w, NEW O, NEW S, NEW a,
         Feeds(f, o, k, P, T, w),
         NEW fst \in Ring, NEW lst \in Nat, fst < lst, Flow(f, o, k, P, T, w, O, S, fst, lst, a),
         S[fst].id # "running", NEW Z, \A s \in Ring : s # fst => Z[s] = S[s]
  PROVE  /\ S[fst].id = "done" /\ S[fst].out # Unset
         /\ Flow(f, o, k, P, T, w, O \o S[fst].out, Z, fst + 1, lst, a)
<1>1. T \in Seq(Nat) /\ Len(T) \in Nat /\ InLen(f, o) \in Nat \ {0} /\ fst \in Nat
  BY FeedsType DEF Ring
<1>2. PICK e \in Nat : Good(f, o, k, P, T, w, O, e + fst) /\ InFlight(f, o, k, T, S, fst, lst, a, e)
  BY DEF Flow
<1>3. /\ Off(e + fst, InLen(f, o)) < Len(T) /\ S[fst].id = "done"
      /\ S[fst].out \in ResultsOf(f, o, k, Piece(T, InLen(f, o), Off(e + fst, InLen(f, o))))
  <2>1. fst <= fst
    BY <1>1
  <2> QED
    BY <1>2, <2>1 DEF InFlight
<1>4. e + fst \in Nat /\ (e + fst) + 1 = e + (fst + 1)
  BY <1>1, <1>2
<1>5. S[fst].out # Unset /\ Good(f, o, k, P, T, w, O \o S[fst].out, e + (fst + 1))
  <2>1. S[fst].out # Unset /\ Good(f, o, k, P, T, w, O \o S[fst].out, (e + fst) + 1)
    BY <1>2, <1>3, <1>4, GoodGrows
  <2> QED
    BY <1>4, <2>1
<1>6. InFlight(f, o, k, T, Z, fst + 1, lst, a, e)
  <2>1. \A s \in Ring : fst + 1 <= s => s # fst /\ fst <= s
    BY <1>1 DEF Ring
  <2> QED
    BY <1>2, <2>1 DEF InFlight
<1> QED
  BY <1>2, <1>3, <1>5, <1>6 DEF Flow

\* The ring is written and is filled again.
LEMMA FlowGoesRound ==
  ASSUME ChunkLaws, NEW f \in {"aes", "base64"}, NEW o \in Coding, NEW P \in Inputs,
         NEW k \in KeysOf(f), NEW T, NEW w, NEW O, NEW S, NEW a,
         Feeds(f, o, k, P, T, w),
         Flow(f, o, k, P, T, w, O, S, Slots, Slots, a)
  PROVE  Flow(f, o, k, P, T, w, O, S, 0, 0, a)
<1>1. PICK e \in Nat : Good(f, o, k, P, T, w, O, e + Slots) /\ InFlight(f, o, k, T, S, Slots, Slots, a, e)
  BY DEF Flow
<1>2. e + Slots \in Nat /\ (e + Slots) + 0 = e + Slots
  BY <1>1
<1>3. InFlight(f, o, k, T, S, 0, 0, a, e + Slots)
  <2>1. \A s \in Ring : ~(0 <= s /\ s < 0)
    BY DEF Ring
  <2> QED
    BY <1>1, <1>2, <2>1 DEF InFlight
<1> QED
  BY <1>1, <1>2, <1>3 DEF Flow

\* What is written so far, and when nothing follows.
LEMMA FlowIsKept ==
  ASSUME ChunkLaws, NEW f \in {"aes", "base64"}, NEW o \in Coding, NEW P \in Inputs,
         NEW k \in KeysOf(f), NEW T, NEW w, NEW O, NEW S, NEW a,
         Feeds(f, o, k, P, T, w),
         NEW fst \in Nat, NEW lst, Flow(f, o, k, P, T, w, O, S, fst, lst, a)
  PROVE  /\ Kept(f, o, k, P, O)
         /\ w = TRUE /\ lst = fst /\ a = Len(T) => Done(f, o, k, P, O)
<1>1. T \in Seq(Nat) /\ Len(T) \in Nat /\ InLen(f, o) \in Nat \ {0}
  BY FeedsType
<1>2. PICK e \in Nat : Good(f, o, k, P, T, w, O, e + fst) /\ InFlight(f, o, k, T, S, fst, lst, a, e)
  BY DEF Flow
<1>3. e + fst \in Nat
  BY <1>2
<1>4. Kept(f, o, k, P, O)
  BY <1>2, <1>3, GoodIsKept
<1>5. ASSUME w = TRUE, lst = fst, a = Len(T) PROVE Done(f, o, k, P, O)
  <2>1. Len(T) = Lesser(Off(e + fst, InLen(f, o)), Len(T))
    BY <1>2, <1>5 DEF InFlight
  <2>2. Off(e + fst, InLen(f, o)) \in Nat
    BY <1>1, <1>3, OffLaws
  <2>3. Len(T) <= Off(e + fst, InLen(f, o))
    BY <1>1, <2>1, <2>2 DEF Lesser
  <2>4. Feeds(f, o, k, P, T, TRUE) /\ Good(f, o, k, P, T, TRUE, O, e + fst)
    BY <1>2, <1>5
  <2> QED
    BY <1>3, <2>3, <2>4, GoodIsDone
<1> QED
  BY <1>4, <1>5

-----------------------------------------------------------------------------
(* The invariant of the files.                                              *)

Names == {"plain", "key", "coded", "back"}

\* The key that a command finds in the file K.
KeyIn(f, K) == IF f = "aes" /\ K # Missing THEN oaes_key_import(K) ELSE NoKey
TheKey == KeyIn(family, files["key"])

\* An output with no hole is a beginning of what it has to be, and a whole one
\* is all of it; there is none before there is a key.
Right(f, o, k, P, O, m) ==
  O # Missing =>
    /\ k \in KeysOf(f)
    /\ m # "holed" => Kept(f, o, k, P, O)
    /\ m = "whole" => Done(f, o, k, P, O)

FileInv ==
  /\ files = [f \in Names |-> files[f]] /\ mark = [f \in Names |-> mark[f]]
  /\ files["plain"] \in Inputs /\ mark["plain"] = "whole"
  /\ family \in {"aes", "base64"} /\ op \in {"gen", "enc", "dec"} /\ isEcb \in BOOLEAN
  /\ \A o \in Coding : Right(family, o, TheKey, files["plain"], files[Out(o)], mark[Out(o)])

\* The key file is empty until it is written, once and whole.
KeyInv ==
  /\ \/ files["key"] \in {Missing, <<>>}
     \/ mark["key"] = "whole" /\ \E k \in Keys : files["key"] = oaes_key_export(k)
  /\ pc = "key" => files["key"] = <<>> /\ keyData \in Keys /\ family = "aes" /\ op = "gen"

From == IF pc = "read" THEN 0 ELSE j
Upto == IF pc = "join" THEN Slots ELSE i
Running == pc \in {"read", "join", "drain"}

\* While a command runs and has lost nothing, its output is that of the chunks
\* written, and the ring holds those that follow.
PipeInv ==
  Running =>
    /\ op \in Coding /\ keyData = TheKey /\ TheKey \in KeysOf(family)
    /\ mark[Out(op)] \in {"cut", "holed"}
    /\ mark[Out(op)] # "holed" =>
         /\ Feeds(family, op, TheKey, files["plain"], files[In(op)], mark[In(op)] = "whole")
         /\ pc = "drain" => at = Len(files[In(op)])
         /\ Flow(family, op, TheKey, files["plain"], files[In(op)], mark[In(op)] = "whole",
                 files[Out(op)], slots, From, Upto, at)

ToolInv == RingInv /\ FileInv /\ KeyInv /\ PipeInv

\* The four files are four.
LEMMA FileNames ==
  /\ \A o \in Coding : In(o) \in Names /\ Out(o) \in Names /\ In(o) # Out(o)
                       /\ Out(o) # "plain" /\ Out(o) # "key" /\ In(o) # "key"
  /\ \A o, q \in Coding : Out(o) = Out(q) => o = q
  /\ Out("gen") = "key" /\ In("enc") = "plain" /\ In("dec") = Out("enc")
  /\ "plain" \in Names /\ "key" \in Names
  BY DEF Coding, In, Out, Names

-----------------------------------------------------------------------------
(* Key files.                                                               *)

\* An empty key is none.
LEMMA NoKeyIsNone == NoKey \notin Keys
<1>1. Len(<<>>) = 0 /\ 0 \notin KeyLens
  OBVIOUS
<1> QED
  BY <1>1 DEF NoKey

\* The file of a key, read again.
LEMMA ImportOfExport == ASSUME NEW k \in Keys PROVE oaes_key_import(oaes_key_export(k)) = k
<1> DEFINE A == {"OAES", "version 1", "key"} \union Nat
           h == <<"OAES", "version 1", "key", Len(k)>>
           r == <<"OAES", "version 1", "key">>
           c == h \o k
<1>1. k \in Seq(Nat) /\ Len(k) \in Nat /\ Len(k) \in KeyLens
  OBVIOUS
<1>2. h \in Seq(A) /\ Len(h) = 4 /\ h[1] = "OAES" /\ h[2] = "version 1" /\ h[3] = "key" /\ h[4] = Len(k)
  <2>1. Len(k) \in A /\ "OAES" \in A /\ "version 1" \in A /\ "key" \in A
    BY <1>1
  <2> HIDE DEF A
  <2>2. ASSUME NEW y \in A PROVE <<"OAES", "version 1", "key", y>> \in Seq(A)
    <3>1. \A u, v, w, z \in A : <<u, v, w, z>> \in Seq(A)
      OBVIOUS
    <3> QED
      BY <2>1, <3>1
  <2>3. h \in Seq(A)
    BY <2>1, <2>2
  <2>4. Len(h) = 4
    OBVIOUS
  <2>5. h[1] = "OAES"
    OBVIOUS
  <2>6. h[2] = "version 1"
    OBVIOUS
  <2>7. h[3] = "key"
    OBVIOUS
  <2>8. h[4] = Len(k)
    OBVIOUS
  <2> QED
    BY <2>3, <2>4, <2>5, <2>6, <2>7, <2>8
<1>3. k \in Seq(A)
  <2>1. \A x \in 1..Len(k) : k[x] \in A
    BY <1>1, ElementOfSeq
  <2>2. k = [x \in 1..Len(k) |-> k[x]]
    BY <1>1
  <2> HIDE DEF A
  <2>3. k \in [1..Len(k) -> A]
    BY <2>1, <2>2
  <2> QED
    BY <1>1, <2>3
<1>4. r \in Seq(A) /\ Len(r) = 3 /\ r[1] = "OAES" /\ r[2] = "version 1" /\ r[3] = "key"
  OBVIOUS
<1> HIDE DEF A, h, r
<1>5. /\ c \in Seq(A) /\ Len(c) = 4 + Len(k)
      /\ \A x \in 1..4 + Len(k) : c[x] = IF x <= 4 THEN h[x] ELSE k[x - 4]
  <2>1. /\ c \in Seq(A) /\ Len(c) = Len(h) + Len(k)
        /\ \A x \in 1..Len(h) + Len(k) : c[x] = IF x <= Len(h) THEN h[x] ELSE k[x - Len(h)]
    BY <1>2, <1>3, ConcatProperties, ZenonT(60)
  <2> QED
    BY <1>2, <2>1
<1> HIDE DEF c
<1>6. \A x \in 1..4 + Len(k) : c[x] \in A
  BY <1>5, ElementOfSeq
<1>7. SubSeq(c, 1, 3) = r
  <2>1. /\ SubSeq(c, 1, 3) \in Seq(A) /\ Len(SubSeq(c, 1, 3)) = 3
        /\ \A x \in 1..3 : SubSeq(c, 1, 3)[x] = c[x]
    <3>1. \A x \in 1..3 : c[x] \in A
      BY <1>1, <1>6
    <3>2. /\ SubSeq(c, 1, 3) \in Seq(A) /\ Len(SubSeq(c, 1, 3)) = IF 1 <= 3 THEN (3 - 1) + 1 ELSE 0
          /\ \A x \in 1..(3 - 1) + 1 : SubSeq(c, 1, 3)[x] = c[(1 + x) - 1]
      BY <3>1, SubSeqProperties
    <3>3. \A x \in 1..3 : (1 + x) - 1 = x
      OBVIOUS
    <3> QED
      BY <3>2, <3>3
  <2>2. c[1] = "OAES" /\ c[2] = "version 1" /\ c[3] = "key"
    <3>1. \A x \in 1..3 : x \in 1..4 + Len(k) /\ x <= 4
      BY <1>1
    <3>2. \A x \in 1..3 : c[x] = h[x]
      BY <1>5, <3>1
    <3>3. 1 \in 1..3 /\ 2 \in 1..3 /\ 3 \in 1..3
      OBVIOUS
    <3> QED
      BY <1>2, <3>2, <3>3
  <2>3. \A x \in 1..3 : x = 1 \/ x = 2 \/ x = 3
    OBVIOUS
  <2>4. \A x \in 1..3 : SubSeq(c, 1, 3)[x] = r[x]
    BY <1>4, <2>1, <2>2, <2>3
  <2> QED
    BY <1>4, <2>1, <2>4, SeqEqual, ZenonT(60)
<1>8. SubSeq(c, 5, Len(c)) = k
  <2>1. \A x \in 5..4 + Len(k) : c[x] \in A
    BY <1>1, <1>6
  <2>2. /\ SubSeq(c, 5, 4 + Len(k)) \in Seq(A)
        /\ Len(SubSeq(c, 5, 4 + Len(k))) = IF 5 <= 4 + Len(k) THEN ((4 + Len(k)) - 5) + 1 ELSE 0
        /\ \A x \in 1..((4 + Len(k)) - 5) + 1 : SubSeq(c, 5, 4 + Len(k))[x] = c[(5 + x) - 1]
    BY <1>1, <2>1, SubSeqProperties
  <2>3. ((4 + Len(k)) - 5) + 1 = Len(k) /\ (IF 5 <= 4 + Len(k) THEN ((4 + Len(k)) - 5) + 1 ELSE 0) = Len(k)
    BY <1>1
  <2>4. ASSUME NEW x \in 1..Len(k) PROVE c[(5 + x) - 1] = k[x]
    <3>1. (5 + x) - 1 \in 1..4 + Len(k) /\ ~((5 + x) - 1 <= 4) /\ ((5 + x) - 1) - 4 = x
      BY <1>1
    <3> QED
      BY <1>5, <3>1
  <2> QED
    BY <1>3, <1>5, <2>2, <2>3, <2>4, SeqEqual
<1>9. c[4] = Len(k) /\ Len(c) - 4 = Len(k)
  <2>1. 4 \in 1..4 + Len(k) /\ 4 <= 4 /\ (4 + Len(k)) - 4 = Len(k)
    BY <1>1
  <2>2. c[4] = h[4]
    BY <1>5, <2>1
  <2> QED
    BY <1>2, <1>5, <2>1, <2>2
<1>10. oaes_key_import(c) = k
  BY <1>1, <1>7, <1>8, <1>9 DEF oaes_key_import, r
<1> QED
  BY <1>10 DEF oaes_key_export, c, h

\* What the commands find as the key.
LEMMA KeyFiles ==
  ASSUME NEW f
  PROVE  /\ KeyIn(f, Missing) = NoKey
         /\ KeyIn(f, <<>>) = NoKey
         /\ f # "aes" => \A K : KeyIn(f, K) = NoKey
         /\ \A k \in Keys : KeyIn("aes", oaes_key_export(k)) \in Keys \union {NoKey}
<1>1. oaes_key_import(<<>>) = NoKey
  <2>1. Len(<<>>) - 4 \notin KeyLens
    OBVIOUS
  <2> QED
    BY <2>1 DEF oaes_key_import
<1> QED
  BY <1>1, ImportOfExport DEF KeyIn

-----------------------------------------------------------------------------
(* Steps of the files.                                                      *)

\* Before the key is written there is no output.
LEMMA NoOutputYet ==
  ASSUME FileInv, family = "aes", files["key"] \in {Missing, <<>>}
  PROVE  TheKey = NoKey /\ \A o \in Coding : files[Out(o)] = Missing
<1>1. TheKey = NoKey
  BY KeyFiles DEF TheKey
<1>2. TheKey \notin KeysOf(family)
  BY <1>1, NoKeyIsNone DEF KeysOf
<1> QED
  BY <1>1, <1>2 DEF FileInv, Right

\* An output is changed.
LEMMA OutputStep ==
  ASSUME FileInv, NEW o \in Coding,
         files' = [f \in Names |-> files'[f]], mark' = [f \in Names |-> mark'[f]],
         \A f \in Names : f # Out(o) => files'[f] = files[f] /\ mark'[f] = mark[f],
         family' = family, op' \in {"gen", "enc", "dec"}, isEcb' \in BOOLEAN,
         Right(family, o, TheKey, files["plain"], files'[Out(o)], mark'[Out(o)])
  PROVE  FileInv' /\ TheKey' = TheKey
<1>1. /\ files = [f \in Names |-> files[f]] /\ mark = [f \in Names |-> mark[f]]
      /\ files["plain"] \in Inputs /\ mark["plain"] = "whole" /\ family \in {"aes", "base64"}
      /\ \A q \in Coding : Right(family, q, TheKey, files["plain"], files[Out(q)], mark[Out(q)])
  BY DEF FileInv
<1>2. Out(o) \in Names /\ Out(o) # "plain" /\ Out(o) # "key" /\ "plain" \in Names /\ "key" \in Names
  BY FileNames
<1>3. files'["plain"] = files["plain"] /\ files'["key"] = files["key"] /\ mark'["plain"] = "whole"
  BY <1>1, <1>2
<1>4. TheKey' = TheKey
  BY <1>3 DEF TheKey
<1>5. ASSUME NEW q \in Coding
      PROVE  Right(family, q, TheKey, files["plain"], files'[Out(q)], mark'[Out(q)])
  <2>1. CASE q = o
    BY <2>1
  <2>2. CASE q # o
    <3>1. Out(q) # Out(o) /\ Out(q) \in Names
      BY <2>2, FileNames
    <3> QED
      BY <1>1, <3>1
  <2> QED
    BY <2>1, <2>2
<1>6. FileInv'
  BY <1>1, <1>3, <1>4, <1>5 DEF FileInv
<1> QED
  BY <1>4, <1>6

\* The key file is changed.
LEMMA KeyFileStep ==
  ASSUME FileInv,
         files' = [f \in Names |-> files'[f]], mark' = [f \in Names |-> mark'[f]],
         \A f \in Names : f # "key" => files'[f] = files[f] /\ mark'[f] = mark[f],
         family' = family, op' \in {"gen", "enc", "dec"}, isEcb' \in BOOLEAN,
         TheKey' = TheKey \/ \A o \in Coding : files[Out(o)] = Missing
  PROVE  FileInv'
<1>1. /\ files = [f \in Names |-> files[f]] /\ mark = [f \in Names |-> mark[f]]
      /\ files["plain"] \in Inputs /\ mark["plain"] = "whole" /\ family \in {"aes", "base64"}
      /\ \A q \in Coding : Right(family, q, TheKey, files["plain"], files[Out(q)], mark[Out(q)])
  BY DEF FileInv
<1>2. files'["plain"] = files["plain"] /\ mark'["plain"] = "whole"
  BY <1>1, FileNames
<1>3. ASSUME NEW q \in Coding
      PROVE  Right(family, q, TheKey', files["plain"], files'[Out(q)], mark'[Out(q)])
  <2>1. files'[Out(q)] = files[Out(q)] /\ mark'[Out(q)] = mark[Out(q)]
    BY FileNames
  <2>2. CASE TheKey' = TheKey
    BY <1>1, <2>1, <2>2
  <2>3. CASE files[Out(q)] = Missing
    BY <2>1, <2>3 DEF Right
  <2> QED
    BY <2>2, <2>3
<1> QED
  BY <1>1, <1>2, <1>3 DEF FileInv

\* What a step of a command keeps that has started.
LEMMA PipeStep ==
  ASSUME PipeInv, Running, family' = family, op' = op, keyData' = keyData, TheKey' = TheKey,
         files'["plain"] = files["plain"],
         files'[In(op)] = files[In(op)], mark'[In(op)] = mark[In(op)],
         mark'[Out(op)] \in {"cut", "holed"},
         mark'[Out(op)] # "holed" =>
           /\ mark[Out(op)] # "holed"
           /\ pc' = "drain" => at' = Len(files[In(op)])
           /\ Flow(family, op, TheKey, files["plain"], files[In(op)], mark[In(op)] = "whole",
                   files'[Out(op)], slots', From', Upto', at')
  PROVE  PipeInv'
<1>1. /\ op \in Coding /\ keyData = TheKey /\ TheKey \in KeysOf(family)
      /\ mark[Out(op)] # "holed" =>
           Feeds(family, op, TheKey, files["plain"], files[In(op)], mark[In(op)] = "whole")
  BY DEF PipeInv
<1> HIDE DEF Flow, From, Upto
<1> QED
  BY <1>1 DEF PipeInv

\* A step that changes no file, except that a chunk may be lost.
LEMMA NoFileStep ==
  ASSUME FileInv, KeyInv, PipeInv, Running, family' = family, op' = op, isEcb' = isEcb,
         files' = files, mark' = mark \/ LoseChunk, pc' # "key"
  PROVE  /\ FileInv' /\ KeyInv' /\ TheKey' = TheKey
         /\ mark'[In(op)] = mark[In(op)] /\ mark'[Out(op)] \in {"cut", "holed"}
         /\ mark' = mark \/ mark'[Out(op)] = "holed"
<1>1. op \in Coding /\ TheKey \in KeysOf(family) /\ mark[Out(op)] \in {"cut", "holed"}
  BY DEF PipeInv
<1>2. TheKey' = TheKey
  BY DEF TheKey
<1>3. CASE mark' = mark
  BY <1>1, <1>2, <1>3 DEF FileInv, KeyInv
<1>4. CASE LoseChunk
  <2>1. /\ mark' = [f \in Names |-> mark'[f]] /\ mark'[Out(op)] = "holed"
        /\ \A f \in Names : f # Out(op) => mark'[f] = mark[f]
    BY <1>1, <1>4, FileNames DEF LoseChunk, FileInv
  <2>2. files' = [f \in Names |-> files'[f]]
    BY DEF FileInv
  <2>3. Right(family, op, TheKey, files["plain"], files'[Out(op)], mark'[Out(op)])
    BY <1>1, <2>1 DEF Right
  <2>4. op' \in {"gen", "enc", "dec"} /\ isEcb' \in BOOLEAN
    BY DEF FileInv
  <2>5. FileInv'
    BY <1>1, <2>1, <2>2, <2>3, <2>4, OutputStep
  <2>6. mark'[In(op)] = mark[In(op)] /\ mark'["key"] = mark["key"]
    BY <1>1, <2>1, FileNames
  <2>7. KeyInv'
    BY <2>6 DEF KeyInv
  <2> QED
    BY <1>2, <2>1, <2>5, <2>6, <2>7
<1> QED
  BY <1>3, <1>4

-----------------------------------------------------------------------------
(* Every step keeps what is right about the files.                          *)

\* What a command that runs and has lost nothing has to show.
LEMMA PipeFacts ==
  ASSUME ChunkLaws, FileInv, PipeInv, Running
  PROVE  /\ family \in {"aes", "base64"} /\ op \in Coding /\ TheKey \in KeysOf(family)
         /\ files["plain"] \in Inputs
         /\ mark[Out(op)] \in {"cut", "holed"}
         /\ mark[Out(op)] # "holed" =>
              /\ Feeds(family, op, TheKey, files["plain"], files[In(op)], mark[In(op)] = "whole")
              /\ pc = "drain" => at = Len(files[In(op)])
              /\ Flow(family, op, TheKey, files["plain"], files[In(op)], mark[In(op)] = "whole",
                      files[Out(op)], slots, From, Upto, at)
  BY DEF FileInv, PipeInv

\* main reads a chunk into a slot.
LEMMA ReadIsRight ==
  ASSUME ChunkLaws, ToolInv, Read
  PROVE  FileInv' /\ KeyInv' /\ PipeInv'
<1>1. /\ pc = "read" /\ Running /\ From = 0 /\ Upto = i /\ i \in Ring /\ Shaped
      /\ FileInv /\ KeyInv /\ PipeInv
  BY DEF ToolInv, RingInv, Read, Fill, Running, From, Upto
<1>2. /\ family' = family /\ op' = op /\ isEcb' = isEcb /\ keyData' = keyData /\ files' = files
      /\ Chunk # <<>> /\ at' = at + Len(Chunk) /\ i' = (i + 1) % Slots /\ j' = 0
      /\ pc' = IF i = Slots - 1 THEN "join" ELSE "read"
  BY DEF Read, Fill, main, NextSlot
<1>3. pc' # "key" /\ pc' # "drain" /\ Running' /\ From' = 0
  BY <1>2 DEF Running, From
<1>4. Upto' = i + 1
  <2>1. CASE i = Slots - 1
    <3>1. pc' = "join" /\ Slots = i + 1
      BY <1>1, <1>2, <2>1 DEF Ring
    <3> QED
      BY <3>1 DEF Upto
  <2>2. CASE i # Slots - 1
    <3>1. pc' = "read" /\ i' = i + 1
      BY <1>1, <1>2, <2>2, NextInRing
    <3> QED
      BY <3>1 DEF Upto
  <2> QED
    BY <2>1, <2>2
<1>5. mark' = mark \/ LoseChunk
  BY DEF Read, Fill
<1>6. /\ FileInv' /\ KeyInv' /\ TheKey' = TheKey
      /\ mark'[In(op)] = mark[In(op)] /\ mark'[Out(op)] \in {"cut", "holed"}
      /\ mark' = mark \/ mark'[Out(op)] = "holed"
  BY <1>1, <1>2, <1>3, <1>5, NoFileStep
<1>7. ASSUME mark'[Out(op)] # "holed"
      PROVE  /\ mark[Out(op)] # "holed"
             /\ Flow(family, op, TheKey, files["plain"], files[In(op)], mark[In(op)] = "whole",
                     files'[Out(op)], slots', From', Upto', at')
  <2>1. mark' = mark /\ mark[Out(op)] # "holed"
    BY <1>6, <1>7
  <2>2. slots' = [slots EXCEPT ![i].in = Chunk, ![i].id = "running"]
    <3>1. ~LoseChunk
      BY <1>1, <1>7, FileNames, PipeFacts DEF LoseChunk, FileInv
    <3> QED
      BY <3>1 DEF Read, Fill
  <2> DEFINE c == Chunk
             Z == slots'
  <2>3. /\ DOMAIN slots = Ring
        /\ slots[i] = [id |-> slots[i].id, in |-> slots[i].in, out |-> slots[i].out]
    BY <1>1 DEF Shaped
  <2>4. c = Piece(files[In(op)], InLen(family, op), at) /\ c # <<>>
    BY <1>2 DEF Chunk, ReadLen, InLen
  <2> HIDE DEF c
  <2>5. \A s \in Ring : s # i => Z[s] = slots[s]
    BY <2>2, <2>3
  <2>6. slots'[i] = [id |-> "running", in |-> Chunk, out |-> slots[i].out]
    <3> HIDE DEF Chunk
    <3> QED
      BY <1>1, <2>2, <2>3
  <2>7. Z[i].id = "running" /\ Z[i].in = c
    BY <2>6 DEF c
  <2>8. /\ family \in {"aes", "base64"} /\ op \in Coding /\ TheKey \in KeysOf(family)
        /\ files["plain"] \in Inputs
        /\ Feeds(family, op, TheKey, files["plain"], files[In(op)], mark[In(op)] = "whole")
        /\ Flow(family, op, TheKey, files["plain"], files[In(op)], mark[In(op)] = "whole",
                files[Out(op)], slots, 0, i, at)
    BY <1>1, <2>1, PipeFacts
  <2> HIDE DEF Z
  <2>9. Flow(family, op, TheKey, files["plain"], files[In(op)], mark[In(op)] = "whole",
             files[Out(op)], Z, 0, i + 1, at + Len(c))
    BY <1>1, <2>4, <2>5, <2>7, <2>8, FlowReads
  <2>10. at' = at + Len(c)
    BY <1>2 DEF c
  <2> QED
    BY <1>2, <1>3, <1>4, <2>1, <2>9, <2>10 DEF Z
<1>8. PipeInv'
  BY <1>1, <1>2, <1>3, <1>6, <1>7, PipeStep
<1> QED
  BY <1>6, <1>8

\* main finds the end of its input.
LEMMA EndOfInputIsRight ==
  ASSUME ChunkLaws, ToolInv, EndOfInput
  PROVE  FileInv' /\ KeyInv' /\ PipeInv'
<1>1. /\ pc = "read" /\ Running /\ From = 0 /\ Upto = i /\ i \in Ring /\ Shaped
      /\ FileInv /\ KeyInv /\ PipeInv
  BY DEF ToolInv, RingInv, EndOfInput, Running, From, Upto
<1>2. /\ family' = family /\ op' = op /\ isEcb' = isEcb /\ keyData' = keyData /\ files' = files
      /\ mark' = mark /\ Chunk = <<>> /\ at' = at /\ i' = i /\ j' = 0 /\ pc' = "drain"
      /\ slots' = [slots EXCEPT ![i].in = <<>>]
  BY DEF EndOfInput, main
<1>3. pc' # "key" /\ Running' /\ From' = 0 /\ Upto' = i
  BY <1>2 DEF Running, From, Upto
<1>4. /\ FileInv' /\ KeyInv' /\ TheKey' = TheKey
      /\ mark'[In(op)] = mark[In(op)] /\ mark'[Out(op)] \in {"cut", "holed"}
  BY <1>1, <1>2, <1>3, NoFileStep
<1>5. ASSUME mark'[Out(op)] # "holed"
      PROVE  /\ mark[Out(op)] # "holed" /\ at' = Len(files[In(op)])
             /\ Flow(family, op, TheKey, files["plain"], files[In(op)], mark[In(op)] = "whole",
                     files'[Out(op)], slots', From', Upto', at')
  <2> DEFINE T == files[In(op)]
             Z == slots'
  <2>1. /\ family \in {"aes", "base64"} /\ op \in Coding /\ TheKey \in KeysOf(family)
        /\ files["plain"] \in Inputs
        /\ Feeds(family, op, TheKey, files["plain"], T, mark[In(op)] = "whole")
        /\ Flow(family, op, TheKey, files["plain"], T, mark[In(op)] = "whole",
                files[Out(op)], slots, 0, i, at)
    BY <1>1, <1>2, <1>5, PipeFacts
  <2>2. \A s \in Ring : 0 <= s /\ s < i => Z[s] = slots[s]
    <3>1. DOMAIN slots = Ring
      BY <1>1 DEF Shaped
    <3>2. \A s \in Ring : s < i => s # i
      BY <1>1 DEF Ring
    <3> QED
      BY <1>2, <3>1, <3>2
  <2>3. at = Len(T)
    <3>1. T \in Seq(Nat) /\ Len(T) \in Nat /\ InLen(family, op) \in Nat \ {0}
      BY <2>1, FeedsType
    <3>2. at \in 0..Len(T)
      <4>1. PICK e \in Nat : at = Lesser(Off(e + i, InLen(family, op)), Len(T))
        BY <2>1 DEF Flow, InFlight
      <4>2. e + i \in Nat
        BY <1>1, <4>1 DEF Ring
      <4>3. Off(e + i, InLen(family, op)) \in Nat
        BY <3>1, <4>2, OffLaws
      <4> QED
        BY <3>1, <4>1, <4>3 DEF Lesser
    <3>3. Piece(T, InLen(family, op), at) = <<>>
      BY <1>2 DEF Chunk, ReadLen, InLen
    <3> HIDE DEF T
    <3> QED
      BY <3>1, <3>2, <3>3, NextChunk
  <2> HIDE DEF T, Z
  <2>4. Flow(family, op, TheKey, files["plain"], T, mark[In(op)] = "whole",
             files[Out(op)], Z, 0, i, at)
    BY <2>1, <2>2, FlowStays
  <2> QED
    BY <1>2, <1>3, <1>5, <2>3, <2>4 DEF T, Z
<1>6. PipeInv'
  BY <1>1, <1>2, <1>3, <1>4, <1>5, PipeStep
<1> QED
  BY <1>4, <1>6

\* A thread converts its chunk.
LEMMA WorkIsRight ==
  ASSUME ChunkLaws, ToolInv, NEW n \in Ring, Work(n)
  PROVE  FileInv' /\ KeyInv' /\ PipeInv'
<1>1. /\ slots[n].id = "running" /\ Running /\ Shaped /\ FileInv /\ KeyInv /\ PipeInv
  <2>1. pc \notin {"idle", "key"}
    BY DEF ToolInv, RingInv, Work, Free
  <2> QED
    BY <2>1 DEF ToolInv, RingInv, Work, Running
<1>2. /\ family' = family /\ op' = op /\ isEcb' = isEcb /\ keyData' = keyData /\ files' = files
      /\ at' = at /\ i' = i /\ j' = j /\ pc' = pc
  BY DEF Work, main
<1>3. pc' # "key" /\ Running' /\ From' = From /\ Upto' = Upto
  BY <1>1, <1>2 DEF Running, From, Upto
<1>4. mark' = mark \/ LoseChunk
  BY DEF Work
<1>5. /\ FileInv' /\ KeyInv' /\ TheKey' = TheKey
      /\ mark'[In(op)] = mark[In(op)] /\ mark'[Out(op)] \in {"cut", "holed"}
      /\ mark' = mark \/ mark'[Out(op)] = "holed"
  BY <1>1, <1>2, <1>3, <1>4, NoFileStep
<1>6. ASSUME mark'[Out(op)] # "holed"
      PROVE  /\ mark[Out(op)] # "holed"
             /\ pc = "drain" => at = Len(files[In(op)])
             /\ Flow(family, op, TheKey, files["plain"], files[In(op)], mark[In(op)] = "whole",
                     files'[Out(op)], slots', From', Upto', at')
  <2> DEFINE Z == slots'
  <2>1. mark[Out(op)] # "holed"
    BY <1>5, <1>6
  <2>2. /\ family \in {"aes", "base64"} /\ op \in Coding /\ TheKey \in KeysOf(family)
        /\ files["plain"] \in Inputs /\ (pc = "drain" => at = Len(files[In(op)]))
        /\ Feeds(family, op, TheKey, files["plain"], files[In(op)], mark[In(op)] = "whole")
        /\ Flow(family, op, TheKey, files["plain"], files[In(op)], mark[In(op)] = "whole",
                files[Out(op)], slots, From, Upto, at)
    BY <1>1, <2>1, PipeFacts
  <2>3. PICK iv \in FreshIVs : slots' = [slots EXCEPT ![n].id = "done",
                                                  ![n].out = Converted(slots[n].in, iv)]
    <3>1. ~LoseChunk
      BY <1>1, <1>6, <2>2, FileNames DEF LoseChunk, FileInv
    <3> QED
      BY <3>1 DEF Work
  <2> DEFINE y == Converted(slots[n].in, iv)
  <2>4. y \in ResultsOf(family, op, TheKey, slots[n].in)
    <3>1. iv \in IVs \union {Zeros(Block)} /\ isEcb \in BOOLEAN /\ keyData = TheKey
      <4>1. (CHOOSE x \in IVs : TRUE) \in IVs
        OBVIOUS
      <4> QED
        BY <1>1, <4>1 DEF FreshIVs, FileInv, PipeInv
    <3>2. CASE op = "enc"
      BY <3>1, <3>2 DEF Converted, ResultsOf, CodesOf
    <3>3. CASE op # "enc"
      BY <3>1, <3>3 DEF Converted, ResultsOf
    <3> QED
      BY <3>2, <3>3
  <2> HIDE DEF y
  <2>5. /\ DOMAIN slots = Ring
        /\ slots[n] = [id |-> slots[n].id, in |-> slots[n].in, out |-> slots[n].out]
        /\ slots' = [slots EXCEPT ![n].id = "done", ![n].out = y]
    BY <1>1, <2>3 DEF Shaped, y
  <2>6. \A s \in Ring : s # n => Z[s] = slots[s]
    BY <2>5
  <2>7. slots'[n] = [id |-> "done", in |-> slots[n].in, out |-> y]
    BY <2>5
  <2>8. Z[n].id = "done" /\ Z[n].in = slots[n].in /\ Z[n].out = y
    BY <2>7
  <2> HIDE DEF Z
  <2>9. Z[n].out \in ResultsOf(family, op, TheKey, slots[n].in)
    BY <2>4, <2>8
  <2>10. Flow(family, op, TheKey, files["plain"], files[In(op)], mark[In(op)] = "whole",
              files[Out(op)], Z, From, Upto, at)
    <3>1. \A s \in Ring :
            \/ Z[s] = slots[s]
            \/ /\ Z[s].id = "done" /\ Z[s].in = slots[s].in
               /\ Z[s].out \in ResultsOf(family, op, TheKey, slots[s].in)
      BY <2>6, <2>8, <2>9
    <3> QED
      BY <2>2, <3>1, FlowWorks
  <2> QED
    BY <1>2, <1>3, <2>1, <2>2, <2>10 DEF Z
<1>7. PipeInv'
  BY <1>1, <1>2, <1>3, <1>5, <1>6, PipeStep
<1> QED
  BY <1>5, <1>7

\* main has written a full ring.
LEMMA RingWrittenIsRight ==
  ASSUME ChunkLaws, ToolInv, RingWritten
  PROVE  FileInv' /\ KeyInv' /\ PipeInv'
<1>1. /\ pc = "join" /\ j = Slots /\ i = 0 /\ Running /\ From = Slots /\ Upto = Slots
      /\ FileInv /\ KeyInv /\ PipeInv
  BY DEF ToolInv, RingInv, RingWritten, Running, From, Upto
<1>2. /\ family' = family /\ op' = op /\ isEcb' = isEcb /\ keyData' = keyData /\ files' = files
      /\ mark' = mark /\ at' = at /\ i' = i /\ slots' = slots /\ pc' = "read"
  BY DEF RingWritten, main
<1>3. pc' # "key" /\ Running' /\ From' = 0 /\ Upto' = 0
  BY <1>1, <1>2 DEF Running, From, Upto
<1>4. /\ FileInv' /\ KeyInv' /\ TheKey' = TheKey
      /\ mark'[In(op)] = mark[In(op)] /\ mark'[Out(op)] \in {"cut", "holed"}
  BY <1>1, <1>2, <1>3, NoFileStep
<1>5. ASSUME mark'[Out(op)] # "holed"
      PROVE  /\ mark[Out(op)] # "holed"
             /\ Flow(family, op, TheKey, files["plain"], files[In(op)], mark[In(op)] = "whole",
                     files'[Out(op)], slots', From', Upto', at')
  <2>1. /\ family \in {"aes", "base64"} /\ op \in Coding /\ TheKey \in KeysOf(family)
        /\ files["plain"] \in Inputs
        /\ Feeds(family, op, TheKey, files["plain"], files[In(op)], mark[In(op)] = "whole")
        /\ Flow(family, op, TheKey, files["plain"], files[In(op)], mark[In(op)] = "whole",
                files[Out(op)], slots, Slots, Slots, at)
    BY <1>1, <1>2, <1>5, PipeFacts
  <2>2. Flow(family, op, TheKey, files["plain"], files[In(op)], mark[In(op)] = "whole",
             files[Out(op)], slots, 0, 0, at)
    BY <2>1, FlowGoesRound
  <2> QED
    BY <1>2, <1>3, <1>5, <2>2
<1>6. PipeInv'
  BY <1>1, <1>2, <1>3, <1>4, <1>5, PipeStep
<1> QED
  BY <1>4, <1>6

\* main joins a thread and writes what it made.
LEMMA JoinIsRight ==
  ASSUME ChunkLaws, ToolInv, Join
  PROVE  FileInv' /\ KeyInv' /\ PipeInv'
<1>1. /\ pc \in {"join", "drain"} /\ Running /\ From = j /\ j \in Ring /\ j < Upto /\ Upto \in Nat
      /\ Shaped /\ FileInv /\ KeyInv /\ PipeInv /\ slots[j].id # "running"
  <2>1. Joining /\ i \in Ring /\ j \in 0..Slots
    BY DEF ToolInv, RingInv, Join, Write
  <2>2. CASE pc = "join" /\ j < Slots
    BY <2>1, <2>2 DEF ToolInv, RingInv, Join, Write, Running, From, Upto, Ring
  <2>3. CASE pc = "drain" /\ j < i
    BY <2>1, <2>3 DEF ToolInv, RingInv, Join, Write, Running, From, Upto, Ring
  <2> QED
    BY <2>1, <2>2, <2>3 DEF Joining
<1>2. /\ family' = family /\ op' = op /\ isEcb' = isEcb /\ keyData' = keyData
      /\ mark' = mark /\ at' = at /\ i' = i /\ j' = j + 1 /\ pc' = pc
  BY DEF Join, Write, main
<1>3. pc' # "key" /\ Running' /\ From' = j + 1 /\ Upto' = Upto
  BY <1>1, <1>2 DEF Running, From, Upto
<1>4. /\ family \in {"aes", "base64"} /\ op \in Coding /\ TheKey \in KeysOf(family)
      /\ files["plain"] \in Inputs /\ mark[Out(op)] \in {"cut", "holed"}
      /\ files = [f \in Names |-> files[f]] /\ mark = [f \in Names |-> mark[f]]
  BY <1>1, PipeFacts DEF FileInv
<1>5. /\ files' = [f \in Names |-> files'[f]]
      /\ \A f \in Names : f # Out(op) => files'[f] = files[f]
  BY <1>4, FileNames DEF Join, Write
<1>6. ASSUME mark[Out(op)] # "holed"
      PROVE  /\ Flow(family, op, TheKey, files["plain"], files[In(op)], mark[In(op)] = "whole",
                     files'[Out(op)], slots', From', Upto', at')
             /\ Kept(family, op, TheKey, files["plain"], files'[Out(op)])
  <2> DEFINE Z == slots'
             T == files[In(op)]
             O == files[Out(op)]
  <2>1. /\ Feeds(family, op, TheKey, files["plain"], T, mark[In(op)] = "whole")
        /\ Flow(family, op, TheKey, files["plain"], T, mark[In(op)] = "whole", O, slots, j, Upto, at)
    BY <1>1, <1>6, PipeFacts
  <2>2. \A s \in Ring : s # j => Z[s] = slots[s]
    BY <1>1 DEF Join, Write, Shaped
  <2> HIDE DEF Z, T
  <2>3. /\ slots[j].id = "done" /\ slots[j].out # Unset
        /\ Flow(family, op, TheKey, files["plain"], T, mark[In(op)] = "whole",
                O \o slots[j].out, Z, j + 1, Upto, at)
    BY <1>1, <1>4, <2>1, <2>2, FlowJoins, SMTT(60)
  <2>4. files' = [files EXCEPT ![Out(op)] = @ \o slots[j].out]
    BY <2>3 DEF Join, Write
  <2>5. files'[Out(op)] = O \o slots[j].out
    BY <1>4, <2>4, FileNames
  <2> HIDE DEF O
  <2>6. j + 1 \in Nat
    BY <1>1 DEF Ring
  <2>7. Kept(family, op, TheKey, files["plain"], O \o slots[j].out)
    BY <1>4, <2>1, <2>3, <2>6, FlowIsKept
  <2> QED
    BY <1>2, <1>3, <2>3, <2>5, <2>7 DEF T, Z
<1>7. FileInv' /\ TheKey' = TheKey
  <2>1. Right(family, op, TheKey, files["plain"], files'[Out(op)], mark'[Out(op)])
    BY <1>2, <1>4, <1>6 DEF Right
  <2>2. op' \in {"gen", "enc", "dec"} /\ isEcb' \in BOOLEAN
    BY <1>1, <1>2 DEF FileInv
  <2> QED
    BY <1>1, <1>2, <1>4, <1>5, <2>1, <2>2, OutputStep
<1>8. /\ files'["plain"] = files["plain"] /\ files'["key"] = files["key"]
      /\ files'[In(op)] = files[In(op)]
  BY <1>4, <1>5, FileNames
<1>9. KeyInv'
  BY <1>1, <1>2, <1>3, <1>8 DEF KeyInv
<1>10. pc' = "drain" => (mark[Out(op)] # "holed" => at' = Len(files[In(op)]))
  BY <1>1, <1>2, PipeFacts
<1>11. PipeInv'
  BY <1>1, <1>2, <1>3, <1>4, <1>6, <1>7, <1>8, <1>10, PipeStep
<1> QED
  BY <1>7, <1>9, <1>11

\* The tool is run once more.
LEMMA StartIsRight ==
  ASSUME ChunkLaws, ToolInv, NEW o \in Coding, NEW ecb \in BOOLEAN, Start(o, ecb)
  PROVE  FileInv' /\ KeyInv' /\ PipeInv'
<1>1. /\ pc = "idle" /\ FileInv /\ KeyInv
      /\ family \in {"aes", "base64"} /\ files["plain"] \in Inputs
      /\ files = [f \in Names |-> files[f]] /\ mark = [f \in Names |-> mark[f]]
      /\ \A q \in Coding : Right(family, q, TheKey, files["plain"], files[Out(q)], mark[Out(q)])
      /\ mark["plain"] = "whole"
  BY DEF ToolInv, FileInv, Start
<1>2. /\ family' = family /\ op' = o /\ isEcb' = ecb /\ at' = 0 /\ i' = 0 /\ j' = 0 /\ pc' = "read"
      /\ files[In(o)] # Missing
      /\ keyData' = IF family = "aes" THEN ImportedKey ELSE NoKey
      /\ files' = [files EXCEPT ![Out(o)] = <<>>]
      /\ mark' = [mark EXCEPT ![Out(o)] = IF mark[In(o)] = "holed" THEN "holed" ELSE "cut"]
  BY DEF Start
<1>3. /\ files' = [f \in Names |-> files'[f]] /\ mark' = [f \in Names |-> mark'[f]]
      /\ files'[Out(o)] = <<>>
      /\ mark'[Out(o)] = IF mark[In(o)] = "holed" THEN "holed" ELSE "cut"
      /\ \A f \in Names : f # Out(o) => files'[f] = files[f] /\ mark'[f] = mark[f]
  BY <1>1, <1>2, FileNames
<1>4. keyData' = TheKey
  BY <1>2 DEF TheKey, KeyIn, ImportedKey
<1>5. TheKey \in KeysOf(family)
  <2>1. CASE family = "aes"
    <3>1. TheKey # NoKey
      BY <2>1 DEF Start, TheKey, KeyIn, ImportedKey
    <3>2. files["key"] \notin {Missing, <<>>}
      BY <1>1, <2>1, <3>1, NoOutputYet
    <3>3. PICK k \in Keys : files["key"] = oaes_key_export(k)
      BY <1>1, <3>2 DEF KeyInv
    <3>4. TheKey \in Keys \union {NoKey}
      BY <2>1, <3>3, KeyFiles DEF TheKey
    <3> QED
      BY <2>1, <3>1, <3>4 DEF KeysOf
  <2>2. CASE family # "aes"
    BY <2>2, KeyFiles DEF TheKey, KeysOf
  <2> QED
    BY <2>1, <2>2
<1>6. Kept(family, o, TheKey, files["plain"], <<>>)
  BY <1>1, <1>5, GoodStart
<1>7. FileInv' /\ TheKey' = TheKey
  <2>1. Right(family, o, TheKey, files["plain"], files'[Out(o)], mark'[Out(o)])
    BY <1>3, <1>5, <1>6 DEF Right
  <2>2. op' \in {"gen", "enc", "dec"} /\ isEcb' \in BOOLEAN
    BY <1>2 DEF Coding
  <2> QED
    BY <1>1, <1>2, <1>3, <2>1, <2>2, OutputStep
<1>8. /\ files'["key"] = files["key"] /\ mark'["key"] = mark["key"]
      /\ files'["plain"] = files["plain"]
      /\ files'[In(o)] = files[In(o)] /\ mark'[In(o)] = mark[In(o)]
  BY <1>3, FileNames
<1>9. KeyInv'
  BY <1>1, <1>2, <1>8 DEF KeyInv
<1>10. ASSUME mark'[Out(o)] # "holed"
       PROVE  /\ Feeds(family, o, TheKey, files["plain"], files[In(o)], mark[In(o)] = "whole")
              /\ Flow(family, o, TheKey, files["plain"], files[In(o)], mark[In(o)] = "whole",
                      <<>>, slots', 0, 0, 0)
  <2>1. mark[In(o)] # "holed"
    BY <1>3, <1>10
  <2>2. Feeds(family, o, TheKey, files["plain"], files[In(o)], mark[In(o)] = "whole")
    <3>1. CASE o = "enc"
      BY <3>1, FileNames DEF Feeds
    <3>2. CASE o = "dec"
      <4>1. In(o) = Out("enc") /\ "enc" \in Coding
        BY <3>2, FileNames DEF Coding
      <4>2. Right(family, "enc", TheKey, files["plain"], files[In(o)], mark[In(o)])
        BY <1>1, <4>1
      <4> QED
        BY <1>2, <2>1, <3>2, <4>2 DEF Right, Kept, Done, Feeds
    <3> QED
      BY <3>1, <3>2 DEF Coding
  <2> DEFINE Z == slots'
  <2> HIDE DEF Z
  <2>3. Flow(family, o, TheKey, files["plain"], files[In(o)], mark[In(o)] = "whole", <<>>, Z, 0, 0, 0)
    BY <1>1, <1>5, <2>2, FlowStarts
  <2> QED
    BY <2>2, <2>3 DEF Z
<1>11. From' = 0 /\ Upto' = 0
  BY <1>2 DEF From, Upto
<1>12. mark'[Out(o)] \in {"cut", "holed"}
  BY <1>3
<1>13. PipeInv'
  <2> HIDE DEF Flow, From, Upto
  <2> QED
    BY <1>2, <1>3, <1>4, <1>5, <1>7, <1>8, <1>10, <1>11, <1>12 DEF PipeInv
<1> QED
  BY <1>7, <1>9, <1>13

\* main ends.
LEMMA FinishIsRight ==
  ASSUME ChunkLaws, ToolInv, Finish
  PROVE  FileInv' /\ KeyInv' /\ PipeInv'
<1>1. /\ pc = "drain" /\ j = i /\ Running /\ From = i /\ Upto = i /\ i \in Nat
      /\ FileInv /\ KeyInv /\ PipeInv
  BY DEF ToolInv, RingInv, Finish, Running, From, Upto, Ring
<1>2. /\ family' = family /\ op' = op /\ isEcb' = FALSE /\ pc' = "idle" /\ files' = files
      /\ mark' = [mark EXCEPT ![Out(op)] =
                    IF @ = "cut" /\ mark[In(op)] = "whole" THEN "whole" ELSE @]
  BY DEF Finish
<1>3. /\ family \in {"aes", "base64"} /\ op \in Coding /\ TheKey \in KeysOf(family)
      /\ files["plain"] \in Inputs /\ mark[Out(op)] \in {"cut", "holed"}
      /\ files = [f \in Names |-> files[f]] /\ mark = [f \in Names |-> mark[f]]
  BY <1>1, PipeFacts DEF FileInv
<1>4. /\ mark' = [f \in Names |-> mark'[f]]
      /\ mark'[Out(op)] = IF mark[Out(op)] = "cut" /\ mark[In(op)] = "whole"
                          THEN "whole" ELSE mark[Out(op)]
      /\ \A f \in Names : f # Out(op) => mark'[f] = mark[f]
  BY <1>2, <1>3, FileNames
<1>5. ASSUME mark[Out(op)] # "holed"
      PROVE  /\ Kept(family, op, TheKey, files["plain"], files[Out(op)])
             /\ mark[In(op)] = "whole" => Done(family, op, TheKey, files["plain"], files[Out(op)])
  <2> DEFINE T == files[In(op)]
             w == mark[In(op)] = "whole"
  <2>1. /\ Feeds(family, op, TheKey, files["plain"], T, w) /\ at = Len(T)
        /\ Flow(family, op, TheKey, files["plain"], T, w, files[Out(op)], slots, i, i, at)
    BY <1>1, <1>5, PipeFacts
  <2> HIDE DEF T, w
  <2>2. /\ Kept(family, op, TheKey, files["plain"], files[Out(op)])
        /\ w = TRUE => Done(family, op, TheKey, files["plain"], files[Out(op)])
    BY <1>1, <1>3, <2>1, FlowIsKept
  <2> QED
    BY <2>2 DEF w
<1>6. FileInv' /\ TheKey' = TheKey
  <2>1. Right(family, op, TheKey, files["plain"], files'[Out(op)], mark'[Out(op)])
    BY <1>2, <1>3, <1>4, <1>5 DEF Right
  <2>2. op' \in {"gen", "enc", "dec"} /\ isEcb' \in BOOLEAN
    BY <1>1, <1>2 DEF FileInv
  <2>3. files' = [f \in Names |-> files'[f]]
    BY <1>2, <1>3
  <2>4. \A f \in Names : f # Out(op) => files'[f] = files[f] /\ mark'[f] = mark[f]
    BY <1>2, <1>4
  <2> QED
    BY <1>1, <1>2, <1>3, <1>4, <2>1, <2>2, <2>3, <2>4, OutputStep
<1>7. KeyInv'
  <2>1. mark'["key"] = mark["key"]
    BY <1>3, <1>4, FileNames
  <2> QED
    BY <1>1, <1>2, <2>1 DEF KeyInv
<1>8. PipeInv'
  BY <1>2 DEF PipeInv, Running
<1> QED
  BY <1>6, <1>7, <1>8

\* A process ends early: gen-key before it has written anything, or a command
\* with a part of its output.
LEMMA DieIsRight ==
  ASSUME ChunkLaws, ToolInv, pc # "idle", Die
  PROVE  FileInv' /\ KeyInv' /\ PipeInv'
<1>1. /\ FileInv /\ KeyInv /\ PipeInv /\ (pc = "key" \/ Running)
      /\ files = [f \in Names |-> files[f]] /\ mark = [f \in Names |-> mark[f]]
      /\ family \in {"aes", "base64"} /\ op \in {"gen", "enc", "dec"} /\ files["plain"] \in Inputs
  BY DEF ToolInv, RingInv, Running, FileInv
<1>2. /\ family' = family /\ op' = op /\ isEcb' = FALSE /\ pc' = "idle" /\ mark' = mark
  BY DEF Die
<1>3. PICK n \in 0..Len(files[Out(op)]) : files' = [files EXCEPT ![Out(op)] = SubSeq(@, 1, n)]
  BY DEF Die
<1>4. PipeInv'
  BY <1>2 DEF PipeInv, Running
<1>5. CASE pc = "key"
  <2>1. Out(op) = "key" /\ files["key"] = <<>>
    BY <1>1, <1>5, FileNames DEF KeyInv
  <2>2. SubSeq(<<>>, 1, 0) = <<>> /\ n = 0
    BY <1>3, <2>1
  <2>3. files' = [files EXCEPT !["key"] = <<>>]
    BY <1>3, <2>1, <2>2
  <2>4. files' = files
    BY <1>1, <2>1, <2>3, FileNames
  <2>5. TheKey' = TheKey
    BY <1>2, <2>4 DEF TheKey
  <2> QED
    BY <1>1, <1>2, <1>4, <2>4, <2>5 DEF FileInv, KeyInv
<1>6. CASE Running
  <2>1. op \in Coding /\ TheKey \in KeysOf(family) /\ mark[Out(op)] \in {"cut", "holed"}
    BY <1>1, <1>6, PipeFacts
  <2>2. /\ files' = [f \in Names |-> files'[f]] /\ files'[Out(op)] = SubSeq(files[Out(op)], 1, n)
        /\ \A f \in Names : f # Out(op) => files'[f] = files[f]
    BY <1>1, <1>3, <2>1, FileNames
  <2>3. ASSUME mark[Out(op)] # "holed"
        PROVE  Kept(family, op, TheKey, files["plain"], SubSeq(files[Out(op)], 1, n))
    <3> DEFINE T == files[In(op)]
               w == mark[In(op)] = "whole"
               O == files[Out(op)]
    <3>1. /\ Feeds(family, op, TheKey, files["plain"], T, w)
          /\ Flow(family, op, TheKey, files["plain"], T, w, O, slots, From, Upto, at)
      BY <1>1, <1>6, <2>3, PipeFacts
    <3>2. From \in Nat /\ n \in 0..Len(O)
      BY <1>3 DEF From, ToolInv, RingInv
    <3> HIDE DEF T, w, O
    <3>3. Kept(family, op, TheKey, files["plain"], O)
      BY <1>1, <2>1, <3>1, <3>2, FlowIsKept
    <3>4. Kept(family, op, TheKey, files["plain"], SubSeq(O, 1, n))
      BY <1>1, <2>1, <3>2, <3>3, KeptIsCut
    <3> QED
      BY <3>4 DEF O
  <2>4. FileInv' /\ TheKey' = TheKey
    <3>1. Right(family, op, TheKey, files["plain"], files'[Out(op)], mark'[Out(op)])
      BY <1>2, <2>1, <2>2, <2>3 DEF Right
    <3>2. op' \in {"gen", "enc", "dec"} /\ isEcb' \in BOOLEAN
      BY <1>1, <1>2
    <3>3. mark' = [f \in Names |-> mark'[f]]
      BY <1>1, <1>2
    <3>4. \A f \in Names : f # Out(op) => files'[f] = files[f] /\ mark'[f] = mark[f]
      BY <1>2, <2>2
    <3> QED
      BY <1>1, <1>2, <2>1, <2>2, <3>1, <3>2, <3>3, <3>4, OutputStep
  <2>5. KeyInv'
    <3>1. files'["key"] = files["key"]
      BY <2>1, <2>2, FileNames
    <3> QED
      BY <1>1, <1>2, <3>1 DEF KeyInv
  <2> QED
    BY <1>4, <2>4, <2>5
<1> QED
  BY <1>1, <1>5, <1>6

\* gen-key: an empty file, and then the key.
LEMMA KeyIsRight ==
  ASSUME ToolInv, GenerateKey \/ WriteKey
  PROVE  FileInv' /\ KeyInv' /\ PipeInv'
<1>1. /\ FileInv /\ KeyInv /\ files = [f \in Names |-> files[f]] /\ mark = [f \in Names |-> mark[f]]
      /\ op \in {"gen", "enc", "dec"} /\ isEcb \in BOOLEAN
  BY DEF ToolInv, FileInv
<1>2. /\ family' = family /\ family = "aes" /\ isEcb' = isEcb /\ op' = "gen" /\ pc' \in {"idle", "key"}
      /\ files["key"] \in {Missing, <<>>}
  <2>1. CASE GenerateKey
    BY <2>1 DEF GenerateKey, Writable
  <2>2. CASE WriteKey
    BY <1>1, <2>2 DEF WriteKey, KeyInv
  <2> QED
    BY <2>1, <2>2
<1>3. \A o \in Coding : files[Out(o)] = Missing
  BY <1>1, <1>2, NoOutputYet
<1>4. PipeInv'
  BY <1>2 DEF PipeInv, Running
<1>5. PICK X, m : files' = [files EXCEPT !["key"] = X] /\ mark' = [mark EXCEPT !["key"] = m]
  BY DEF GenerateKey, WriteKey
<1>6. /\ files' = [f \in Names |-> files'[f]] /\ mark' = [f \in Names |-> mark'[f]]
      /\ \A f \in Names : f # "key" => files'[f] = files[f] /\ mark'[f] = mark[f]
      /\ files'["key"] = X /\ mark'["key"] = m
  BY <1>1, <1>5, FileNames
<1>7. FileInv'
  <2>1. op' \in {"gen", "enc", "dec"} /\ isEcb' \in BOOLEAN
    BY <1>1, <1>2
  <2> QED
    BY <1>1, <1>2, <1>3, <1>6, <2>1, KeyFileStep
<1>8. CASE GenerateKey
  <2>1. files'["key"] = <<>> /\ keyData' \in Keys
    BY <1>1, <1>8, FileNames DEF GenerateKey
  <2> QED
    BY <1>2, <1>4, <1>7, <2>1 DEF KeyInv
<1>9. CASE WriteKey
  <2>1. files'["key"] = oaes_key_export(keyData) /\ mark'["key"] = "whole" /\ pc' = "idle"
    BY <1>1, <1>9, FileNames DEF WriteKey
  <2>2. keyData \in Keys
    BY <1>1, <1>9 DEF WriteKey, KeyInv
  <2>3. KeyInv'
    BY <2>1, <2>2 DEF KeyInv
  <2> QED
    BY <1>4, <1>7, <2>3
<1> QED
  BY <1>8, <1>9

\* The user removes a file that is not whole.
LEMMA DiscardIsRight ==
  ASSUME ToolInv, NEW d \in {"key", "coded", "back"}, Discard(d)
  PROVE  FileInv' /\ KeyInv' /\ PipeInv'
<1>1. /\ FileInv /\ KeyInv /\ files = [f \in Names |-> files[f]] /\ mark = [f \in Names |-> mark[f]]
      /\ op \in {"gen", "enc", "dec"} /\ isEcb \in BOOLEAN
  BY DEF ToolInv, FileInv
<1>2. /\ pc = "idle" /\ pc' = "idle" /\ family' = family /\ op' = op /\ isEcb' = isEcb
      /\ files[d] # Missing /\ mark[d] # "whole"
      /\ files' = [files EXCEPT ![d] = Missing] /\ mark' = [mark EXCEPT ![d] = "whole"]
  BY DEF Discard
<1>3. /\ files' = [f \in Names |-> files'[f]] /\ mark' = [f \in Names |-> mark'[f]]
      /\ \A f \in Names : f # d => files'[f] = files[f] /\ mark'[f] = mark[f]
      /\ files'[d] = Missing
  BY <1>1, <1>2 DEF Names
<1>4. PipeInv'
  BY <1>2 DEF PipeInv, Running
<1>5. op' \in {"gen", "enc", "dec"} /\ isEcb' \in BOOLEAN
  BY <1>1, <1>2
<1>6. CASE d = "key"
  <2>1. files["key"] = <<>>
    BY <1>1, <1>2, <1>6 DEF KeyInv
  <2>2. TheKey' = TheKey
    BY <1>2, <1>3, <1>6, <2>1, KeyFiles DEF TheKey
  <2>3. FileInv'
    BY <1>1, <1>2, <1>3, <1>5, <1>6, <2>2, KeyFileStep
  <2>4. KeyInv'
    BY <1>2, <1>3, <1>6 DEF KeyInv
  <2> QED
    BY <1>4, <2>3, <2>4
<1>7. CASE d # "key"
  <2>1. PICK o \in Coding : d = Out(o)
    <3>1. Out("enc") = "coded" /\ Out("dec") = "back" /\ "enc" \in Coding /\ "dec" \in Coding
      BY DEF Out, Coding
    <3> QED
      BY <1>7, <3>1
  <2>2. Right(family, o, TheKey, files["plain"], files'[Out(o)], mark'[Out(o)])
    BY <1>3, <2>1 DEF Right
  <2>3. FileInv'
    BY <1>1, <1>2, <1>3, <1>5, <2>1, <2>2, OutputStep
  <2>4. files'["key"] = files["key"] /\ mark'["key"] = mark["key"]
    BY <1>3, <1>7, FileNames
  <2>5. KeyInv'
    BY <1>1, <1>2, <2>4 DEF KeyInv
  <2> QED
    BY <1>4, <2>3, <2>5
<1> QED
  BY <1>6, <1>7

\* A step that changes nothing.
LEMMA StutterIsRight ==
  ASSUME ToolInv, UNCHANGED vars
  PROVE  FileInv' /\ KeyInv' /\ PipeInv'
<1>1. /\ files' = files /\ mark' = mark /\ family' = family /\ op' = op /\ pc' = pc
      /\ isEcb' = isEcb /\ keyData' = keyData /\ at' = at /\ i' = i /\ j' = j /\ slots' = slots
  BY DEF vars
<1>2. TheKey' = TheKey /\ From' = From /\ Upto' = Upto
  BY <1>1 DEF TheKey, From, Upto
<1>3. FileInv' /\ KeyInv'
  BY <1>1, <1>2 DEF ToolInv, FileInv, KeyInv
<1>4. PipeInv'
  <2> HIDE DEF Flow, From, Upto
  <2> QED
    BY <1>1, <1>2 DEF ToolInv, PipeInv, Running
<1> QED
  BY <1>3, <1>4

-----------------------------------------------------------------------------
\* The invariant holds before the first run.
LEMMA ToolInit == Init => ToolInv
<1> SUFFICES ASSUME Init PROVE ToolInv
  OBVIOUS
<1>1. PICK P \in Inputs : files = [f \in Names |-> IF f = "plain" THEN P ELSE Missing]
  BY DEF Init, Names
<1>2. /\ mark = [f \in Names |-> "whole"] /\ family \in {"aes", "base64"} /\ op = "gen"
      /\ pc = "idle" /\ isEcb = FALSE
  BY DEF Init, Names
<1>3. /\ files = [f \in Names |-> files[f]] /\ mark = [f \in Names |-> mark[f]]
      /\ files["plain"] \in Inputs /\ mark["plain"] = "whole"
      /\ files["key"] = Missing /\ \A o \in Coding : files[Out(o)] = Missing
  BY <1>1, <1>2, FileNames
<1>4. FileInv
  BY <1>2, <1>3 DEF FileInv, Right
<1>5. KeyInv /\ PipeInv
  BY <1>2, <1>3 DEF KeyInv, PipeInv, Running
<1> QED
  BY <1>4, <1>5, RingInit DEF ToolInv

\* Every step keeps the invariant, if the codecs have their laws.
LEMMA ToolStep == ASSUME ChunkLaws, ToolInv, [Next]_vars PROVE ToolInv'
<1>1. RingInv'
  BY RingStep DEF ToolInv
<1>2. FileInv' /\ KeyInv' /\ PipeInv'
  <2>1. CASE GenerateKey \/ WriteKey
    BY <2>1, KeyIsRight
  <2>2. CASE \E o \in Coding, ecb \in BOOLEAN : Start(o, ecb)
    BY <2>2, StartIsRight
  <2>3. CASE Read
    BY <2>3, ReadIsRight
  <2>4. CASE EndOfInput
    BY <2>4, EndOfInputIsRight
  <2>5. CASE Join
    BY <2>5, JoinIsRight
  <2>6. CASE RingWritten
    BY <2>6, RingWrittenIsRight
  <2>7. CASE Finish
    BY <2>7, FinishIsRight
  <2>8. CASE \E s \in Ring : Work(s)
    BY <2>8, WorkIsRight
  <2>9. CASE Kill
    BY <2>9, DieIsRight DEF Kill
  <2>10. CASE Crash
    BY <2>10, DieIsRight DEF Crash, Joining
  <2>11. CASE \E f \in {"key", "coded", "back"} : Discard(f)
    BY <2>11, DiscardIsRight
  <2>12. CASE UNCHANGED vars
    BY <2>12, StutterIsRight
  <2> QED
    BY <2>1, <2>2, <2>3, <2>4, <2>5, <2>6, <2>7, <2>8, <2>9, <2>10, <2>11, <2>12 DEF Next, Step
<1> QED
  BY <1>1, <1>2 DEF ToolInv

\* The files and the ring fit together, whatever the number of slots, the
\* input, the key and the faults, for any cipher and exclusive or that can be
\* undone.
THEOREM FilesAreRight == ASSUME XorLaws, CipherLaws(Keys, Blocks) PROVE Spec => []ToolInv
<1>1. Init => ToolInv
  BY ToolInit
<1>2. ToolInv /\ [Next]_vars => ToolInv'
  BY FormatsAreRight, ToolStep
<1> QED
  BY <1>1, <1>2, PTL DEF Spec

\* What is decoded of a file that lost no chunk is a beginning of the
\* original, wherever either run was killed: with any number of slots, any
\* input, in base64 and with any cipher that can be undone.
THEOREM DecodedIsPrefix == ASSUME XorLaws, CipherLaws(Keys, Blocks) PROVE Spec => []OutputIsPrefix
<1>1. ToolInv => OutputIsPrefix
  <2> SUFFICES ASSUME ToolInv, files["back"] # Missing, mark["back"] # "holed"
               PROVE  IsPrefix(files["back"], files["plain"])
    BY DEF OutputIsPrefix
  <2>1. Kept(family, "dec", TheKey, files["plain"], files["back"]) /\ files["plain"] \in Inputs
    BY DEF ToolInv, FileInv, Right, Out, Coding
  <2>2. PICK l \in 0..Len(files["plain"]) : files["back"] = SubSeq(files["plain"], 1, l)
    BY <2>1 DEF Kept
  <2>3. files["back"] \in Seq(Nat) /\ Len(files["back"]) = l /\ l <= Len(files["plain"])
    <3>1. files["plain"] \in Seq(Nat)
      BY <2>1
    <3> QED
      BY <2>2, <3>1, StartProperties
  <2>4. SubSeq(files["back"], 1, l) = files["back"]
    BY <2>3, StartIsAll
  <2> QED
    BY <2>2, <2>3, <2>4 DEF IsPrefix
<1> QED
  BY <1>1, FilesAreRight, PTL

\* Decoding what was encoded with no fault gives all of it back, over any
\* number of rings, in base64 and, with --ecb or without, with any cipher that
\* can be undone.
THEOREM DecodedIsTheOriginal == ASSUME XorLaws, CipherLaws(Keys, Blocks) PROVE Spec => []RoundTrip
<1>1. ToolInv => RoundTrip
  BY DEF ToolInv, FileInv, Right, Out, Coding, Done, RoundTrip
<1> QED
  BY <1>1, FilesAreRight, PTL

-----------------------------------------------------------------------------
(* The types.                                                               *)

Marks == {"whole", "cut", "holed"}

Counted ==
  /\ at \in Nat /\ runs \in 0..MaxRuns /\ faults \in 0..MaxFaults
  /\ \A f \in Names : mark[f] \in Marks

\* An output is bytes from the time it is opened; a command ends without a key.
Filled ==
  /\ \A o \in Coding : files[Out(o)] \in Seq(Byte) \union {Missing}
  /\ Running => files[In(op)] \in Seq(Byte) /\ files[Out(op)] \in Seq(Byte)
  /\ pc = "idle" => keyData = NoKey

\* The slots carry bytes.
Carried == \A s \in Ring : slots[s].in \in Seq(Byte) /\ slots[s].out \in Seq(Byte) \union {Unset}

TypeInv == Counted /\ Filled /\ Carried

\* The empty sequence is one of bytes.
LEMMA NoBytes == <<>> \in Seq(Byte)
  BY EmptySeq

\* The size of a result is a natural number, and zeros are bytes.
LEMMA ZeroBytes == ASSUME NEW m \in Seq(Byte) PROVE Zeros(Size(m)) \in Seq(Byte)
<1>1. Size(m) \in Nat
  <2>1. Block \in Nat /\ Block >= 2 /\ Len(m) \in Nat
    BY BlockAssumption
  <2>2. Len(Padding(m)) \in Nat
    <3>1. CASE Len(m) % Block = 0
      BY <3>1 DEF Padding
    <3>2. CASE Len(m) % Block # 0
      <4>0. Block - (Len(m) % Block) \in Nat
        BY <2>1
      <4>1. PICK p \in Nat : p = Block - (Len(m) % Block)
        BY <4>0
      <4>2. Padding(m) = [x \in 1..p |-> x]
        BY <3>2, <4>1 DEF Padding
      <4>3. Padding(m) \in Seq(Nat)
        BY <4>1, <4>2
      <4> HIDE DEF Padding
      <4> QED
        BY <4>3
    <3> QED
      BY <3>1, <3>2
  <2> HIDE DEF Padding
  <2> QED
    BY <2>1, <2>2 DEF Size
<1> HIDE DEF Size
<1> QED
  BY <1>1 DEF Zeros, Byte

\* A key file is a sequence: oaes_key_export puts four fields before the key.
LEMMA ExportIsSequence == ASSUME NEW k \in Keys PROVE Len(oaes_key_export(k)) \in Nat
<1> DEFINE A == {"OAES", "version 1", "key"} \union Nat
           h == <<"OAES", "version 1", "key", Len(k)>>
<1>1. k \in Seq(Nat) /\ Len(k) \in Nat
  OBVIOUS
<1>2. h \in Seq(A)
  <2>1. Len(k) \in A /\ "OAES" \in A /\ "version 1" \in A /\ "key" \in A
    BY <1>1
  <2> HIDE DEF A
  <2>2. \A u, v, w, z \in A : <<u, v, w, z>> \in Seq(A)
    OBVIOUS
  <2> QED
    BY <2>1, <2>2
<1>3. k \in Seq(A)
  <2>1. Nat \subseteq A
    OBVIOUS
  <2> HIDE DEF A
  <2> QED
    BY <1>1, <2>1, SeqMonotonic
<1> HIDE DEF A, h
<1>4. h \o k \in Seq(A)
  BY <1>2, <1>3, ConcatProperties
<1>5. Len(h \o k) \in Nat
  BY <1>4, LenProperties
<1> QED
  BY <1>5 DEF oaes_key_export, h

\* What fread returns while a command runs.
LEMMA ChunkBytes == ASSUME ToolInv, Counted, Filled, Running PROVE Chunk \in Seq(Byte)
<1>1. files[In(op)] \in Seq(Byte) /\ at \in Nat
  BY DEF Counted, Filled
<1>2. ReadLen \in Nat
  BY FormatAssumption DEF FormatAssumption, ReadLen, ToolInv, FileInv
<1> HIDE DEF ReadLen
<1> QED
  BY <1>1, <1>2, PieceBytes DEF Chunk

\* What one of the four threads makes of its chunk.
LEMMA ConvertedBytes ==
  ASSUME XorLaws, CipherLaws(Keys, Blocks), ToolInv, Running, NEW m \in Seq(Byte), NEW iv \in FreshIVs
  PROVE  Converted(m, iv) \in Seq(Byte)
<1>1. family \in {"aes", "base64"} /\ isEcb \in BOOLEAN /\ keyData \in KeysOf(family)
  BY DEF ToolInv, FileInv, PipeInv
<1>2. iv \in Blocks
  <2>1. Zeros(Block) \in Blocks
    BY DEF Zeros, Blocks, Byte
  <2>2. IVs \subseteq Blocks /\ IVs # {}
    BY FormatAssumption DEF FormatAssumption
  <2>3. (CHOOSE v \in IVs : TRUE) \in IVs
    BY <2>2
  <2> HIDE DEF Blocks, Zeros
  <2> QED
    BY <2>1, <2>2, <2>3 DEF FreshIVs
<1>3. CASE family = "base64"
  <2>1. oaes_base64_encode(m) \in Seq(Byte)
    <3>1. oaes_base64_encode(m) \in Seq(0..EqualsSign)
      BY Encoding
    <3>2. 0..EqualsSign \subseteq Byte
      BY DEF EqualsSign, Byte
    <3> QED
      BY <3>1, <3>2, SeqMonotonic
  <2>2. oaes_base64_decode(m) \in Seq(Byte)
    BY Base64Bytes
  <2> QED
    BY <1>3, <2>1, <2>2 DEF Converted, Encoded, Decoded
<1>4. CASE family = "aes"
  <2>1. keyData \in Keys
    BY <1>1, <1>4 DEF KeysOf
  <2> DEFINE o == IF isEcb THEN ECB ELSE CBC
  <2>2. o \in {ECB, CBC}
    OBVIOUS
  <2>3. Fits(Keys, keyData, iv, m) /\ Sealed(Keys, keyData, m)
    BY <1>2, <2>1 DEF Fits, Sealed
  <2> HIDE DEF o
  <2>4. oaes_encrypt(o, iv, keyData, m) \in Seq(Byte)
    <3>1. Whole(oaes_encrypt(o, iv, keyData, m), BlocksIn(m) + 2)
      BY <2>2, <2>3, Encrypting
    <3> QED
      BY <3>1 DEF Whole
  <2>5. oaes_decrypt(keyData, m) \in Seq(Byte)
    BY <2>3, AesBytes
  <2> QED
    BY <1>4, <2>4, <2>5 DEF Converted, Encoded, Decoded, o
<1> QED
  BY <1>1, <1>3, <1>4

\* One mark is changed.
LEMMA MarkStep ==
  ASSUME FileInv, Counted, NEW f, NEW m \in Marks, mark' = [mark EXCEPT ![f] = m]
  PROVE  \A g \in Names : mark'[g] \in Marks
<1>1. mark = [g \in Names |-> mark[g]] /\ \A g \in Names : mark[g] \in Marks
  BY DEF FileInv, Counted
<1> QED
  BY <1>1

\* The counters, the position in the input, and the marks.
LEMMA CountedStep == ASSUME ToolInv, Counted, Filled, [Next]_vars PROVE Counted'
<1>1. /\ at \in Nat /\ runs \in 0..MaxRuns /\ faults \in 0..MaxFaults /\ FileInv
      /\ MaxRuns \in Nat /\ MaxFaults \in Nat
      /\ \A f \in Names : mark[f] \in Marks
  BY FormatAssumption DEF Counted, ToolInv, FormatAssumption
<1>2. ASSUME NEW f, Fault(f) PROVE faults' \in 0..MaxFaults
  BY <1>1, <1>2 DEF Fault
<1>3. ASSUME mark' = mark \/ LoseChunk PROVE \A f \in Names : mark'[f] \in Marks
  <2>1. CASE mark' = mark
    BY <1>1, <2>1
  <2>2. CASE LoseChunk
    BY <1>1, <2>2, MarkStep DEF LoseChunk, Marks
  <2> QED
    BY <1>3, <2>1, <2>2
<1>4. CASE GenerateKey
  <2>1. \A f \in Names : mark'[f] \in Marks
    BY <1>1, <1>4, MarkStep DEF GenerateKey, Marks
  <2> QED
    BY <1>1, <1>4, <2>1 DEF GenerateKey, Counted
<1>5. CASE WriteKey
  <2>1. \A f \in Names : mark'[f] \in Marks
    BY <1>1, <1>5, MarkStep DEF WriteKey, Marks
  <2> QED
    BY <1>1, <1>5, <2>1 DEF WriteKey, Counted
<1>6. ASSUME NEW o \in Coding, NEW ecb \in BOOLEAN, Start(o, ecb) PROVE Counted'
  <2>1. \A f \in Names : mark'[f] \in Marks
    <3>1. (IF mark[In(o)] = "holed" THEN "holed" ELSE "cut") \in Marks
      BY DEF Marks
    <3> QED
      BY <1>1, <1>6, <3>1, MarkStep DEF Start
  <2> QED
    BY <1>1, <1>6, <2>1 DEF Start, Counted
<1>7. CASE Read
  <2>1. Len(Chunk) \in Nat
    <3>1. Running
      BY <1>7 DEF Read, Fill, Running
    <3>2. Chunk \in Seq(Byte)
      BY <3>1, ChunkBytes
    <3> HIDE DEF Chunk
    <3> QED
      BY <3>2
  <2> HIDE DEF Chunk
  <2>2. at' = at + Len(Chunk) /\ runs' = runs /\ (mark' = mark \/ LoseChunk)
        /\ (faults' = faults \/ Fault("start"))
    BY <1>7 DEF Read, Fill, main
  <2> QED
    BY <1>1, <1>2, <1>3, <2>1, <2>2 DEF Counted
<1>8. CASE EndOfInput
  BY <1>1, <1>8 DEF EndOfInput, Counted, main
<1>9. CASE Join
  BY <1>1, <1>9 DEF Join, Write, Counted, main
<1>10. CASE RingWritten
  BY <1>1, <1>10 DEF RingWritten, Counted, main
<1>11. CASE Finish
  <2>1. \A f \in Names : mark'[f] \in Marks
    <3>1. op \in {"gen", "enc", "dec"} /\ mark = [f \in Names |-> mark[f]]
      BY <1>1 DEF FileInv
    <3>2. Out(op) \in Names
      BY <3>1 DEF Out, Names
    <3> DEFINE m == IF mark[Out(op)] = "cut" /\ mark[In(op)] = "whole" THEN "whole" ELSE mark[Out(op)]
    <3>3. m \in Marks
      BY <1>1, <3>2 DEF Marks
    <3>4. mark' = [mark EXCEPT ![Out(op)] = m]
      BY <1>11, <3>1, <3>2 DEF Finish
    <3> QED
      BY <1>1, <3>3, <3>4, MarkStep
  <2> QED
    BY <1>1, <1>11, <2>1 DEF Finish, Counted
<1>12. ASSUME NEW s \in Ring, Work(s) PROVE Counted'
  <2>1. at' = at /\ runs' = runs /\ (mark' = mark \/ LoseChunk) /\ (faults' = faults \/ Fault("memory"))
    BY <1>12 DEF Work, main
  <2> QED
    BY <1>1, <1>2, <1>3, <2>1 DEF Counted
<1>13. CASE Kill
  <2>1. faults' \in 0..MaxFaults
    BY <1>2, <1>13 DEF Kill
  <2> QED
    BY <1>1, <1>13, <2>1 DEF Kill, Die, Counted
<1>14. CASE Crash
  BY <1>1, <1>14 DEF Crash, Die, Counted
<1>15. ASSUME NEW f \in {"key", "coded", "back"}, Discard(f) PROVE Counted'
  <2>1. \A g \in Names : mark'[g] \in Marks
    BY <1>1, <1>15, MarkStep DEF Discard, Marks
  <2> QED
    BY <1>1, <1>15, <2>1 DEF Discard, Counted
<1>16. CASE UNCHANGED vars
  BY <1>1, <1>16 DEF vars, Counted
<1> QED
  BY <1>4, <1>5, <1>6, <1>7, <1>8, <1>9, <1>10, <1>11, <1>12, <1>13, <1>14, <1>15, <1>16 DEF Next, Step

\* The files: opened empty, written to with what the threads leave, cut.
LEMMA FilledStep == ASSUME ToolInv, Filled, Carried, [Next]_vars PROVE Filled'
<1>1. /\ files = [f \in Names |-> files[f]] /\ files["plain"] \in Seq(Byte) /\ FileInv
      /\ \A o \in Coding : files[Out(o)] \in Seq(Byte) \union {Missing}
      /\ Running => files[In(op)] \in Seq(Byte) /\ files[Out(op)] \in Seq(Byte) /\ op \in Coding
      /\ pc = "idle" => keyData = NoKey
      /\ op \in {"gen", "enc", "dec"}
  BY FormatAssumption DEF FormatAssumption, ToolInv, FileInv, PipeInv, Filled
\* The files and the command stay as they are.
<1>2. ASSUME files' = files, op' = op, Running' => Running, pc' # "idle" \/ keyData' = NoKey PROVE Filled'
  BY <1>1, <1>2 DEF Filled
<1>3. CASE GenerateKey
  <2>1. \A f \in Names : f # "key" => files'[f] = files[f]
    BY <1>1, <1>3 DEF GenerateKey
  <2>2. \A o \in Coding : files'[Out(o)] = files[Out(o)]
    BY <2>1, FileNames
  <2> QED
    BY <1>1, <1>3, <2>2 DEF GenerateKey, Filled, Running
<1>4. CASE WriteKey
  <2>1. \A f \in Names : f # "key" => files'[f] = files[f]
    BY <1>1, <1>4 DEF WriteKey
  <2>2. \A o \in Coding : files'[Out(o)] = files[Out(o)]
    BY <2>1, FileNames
  <2> QED
    BY <1>1, <1>4, <2>2 DEF WriteKey, Filled, Running
<1>5. ASSUME NEW o \in Coding, NEW ecb \in BOOLEAN, Start(o, ecb) PROVE Filled'
  <2>1. /\ files'[Out(o)] = <<>> /\ op' = o /\ pc' = "read" /\ files[In(o)] # Missing
        /\ \A f \in Names : f # Out(o) => files'[f] = files[f]
    BY <1>1, <1>5, FileNames DEF Start
  <2>2. files'[Out(o)] \in Seq(Byte)
    BY <2>1, NoBytes
  <2>3. \A q \in Coding : files'[Out(q)] \in Seq(Byte) \union {Missing}
    <3>1. ASSUME NEW q \in Coding, Out(q) # Out(o) PROVE files'[Out(q)] = files[Out(q)]
      BY <2>1, <3>1, FileNames
    <3> QED
      BY <1>1, <2>2, <3>1
  <2>4. files'[In(o)] \in Seq(Byte)
    <3>1. files'[In(o)] = files[In(o)]
      BY <2>1, FileNames
    <3>2. In(o) = "plain" \/ In(o) = Out("enc")
      BY DEF In, Out
    <3> QED
      BY <1>1, <2>1, <3>1, <3>2 DEF Coding
  <2> QED
    BY <2>1, <2>2, <2>3, <2>4 DEF Filled
\* An output is written to, or cut.
<1>6. ASSUME Running, op' = op, pc' # "idle" \/ keyData' = NoKey,
             NEW b \in Seq(Byte), files' = [files EXCEPT ![Out(op)] = b]
      PROVE  Filled'
  <2>1. files'[Out(op)] = b /\ \A f \in Names : f # Out(op) => files'[f] = files[f]
    BY <1>1, <1>6, FileNames
  <2>2. \A q \in Coding : files'[Out(q)] \in Seq(Byte) \union {Missing}
    <3>1. ASSUME NEW q \in Coding, Out(q) # Out(op) PROVE files'[Out(q)] = files[Out(q)]
      BY <2>1, <3>1, FileNames
    <3> QED
      BY <1>1, <1>6, <2>1, <3>1
  <2>3. files'[In(op)] = files[In(op)]
    BY <1>1, <1>6, <2>1, FileNames
  <2> QED
    BY <1>1, <1>6, <2>1, <2>2, <2>3 DEF Filled
<1>7. CASE Read \/ EndOfInput \/ RingWritten
  BY <1>2, <1>7 DEF Read, Fill, EndOfInput, RingWritten, main, Running
<1>8. CASE Join
  <2>1. Running /\ op' = op /\ pc' = pc /\ pc # "idle" /\ j \in Ring
    <3>1. i \in Ring /\ j \in 0..Slots
      BY DEF ToolInv, RingInv
    <3> QED
      BY <1>8, <3>1 DEF Join, Write, Joining, Running, main, Ring
  <2>2. \/ files' = files
        \/ slots[j].out # Unset /\ files' = [files EXCEPT ![Out(op)] = @ \o slots[j].out]
    BY <1>8 DEF Join, Write
  <2>3. CASE files' = files
    BY <1>2, <2>1, <2>3
  <2>4. CASE slots[j].out # Unset /\ files' = [files EXCEPT ![Out(op)] = @ \o slots[j].out]
    <3>1. slots[j].out \in Seq(Byte) /\ files[Out(op)] \in Seq(Byte)
      BY <1>1, <2>1, <2>4 DEF Carried
    <3>2. files[Out(op)] \o slots[j].out \in Seq(Byte)
      BY <3>1, ConcatProperties
    <3>3. files' = [files EXCEPT ![Out(op)] = files[Out(op)] \o slots[j].out]
      BY <1>1, <2>1, <2>4, FileNames
    <3> QED
      BY <1>6, <2>1, <3>2, <3>3
  <2> QED
    BY <2>2, <2>3, <2>4
<1>9. CASE Finish
  BY <1>2, <1>9 DEF Finish, Running
<1>10. ASSUME NEW s \in Ring, Work(s) PROVE Filled'
  <2>1. files' = files /\ op' = op /\ pc' = pc /\ keyData' = keyData
    BY <1>10 DEF Work, main
  <2> QED
    BY <1>1, <2>1 DEF Filled, Running
<1>11. CASE Kill \/ Crash
  <2>1. /\ op' = op /\ pc' = "idle" /\ keyData' = NoKey /\ pc # "idle"
        /\ \E n \in 0..Len(files[Out(op)]) : files' = [files EXCEPT ![Out(op)] = SubSeq(@, 1, n)]
    BY <1>11 DEF Kill, Crash, Joining, Die
  <2>2. PICK n \in 0..Len(files[Out(op)]) : files' = [files EXCEPT ![Out(op)] = SubSeq(files[Out(op)], 1, n)]
    <3>1. Out(op) \in Names
      BY <1>1 DEF Out, Names
    <3> QED
      BY <1>1, <2>1, <3>1
  <2>3. CASE Running
    <3>1. Begins(files[Out(op)], n)
      BY <1>1, <2>3 DEF Begins
    <3>2. SubSeq(files[Out(op)], 1, n) \in Seq(Byte)
      BY <3>1, BeginProperties
    <3> QED
      BY <1>6, <2>1, <2>2, <2>3, <3>2
  <2>4. CASE pc = "key"
    <3>1. op = "gen"
      BY <2>4 DEF ToolInv, KeyInv
    <3>2. \A f \in Names : f # "key" => files'[f] = files[f]
      BY <1>1, <2>2, <3>1, FileNames
    <3>3. \A o \in Coding : files'[Out(o)] = files[Out(o)]
      BY <3>2, FileNames
    <3> QED
      BY <1>1, <2>1, <3>3 DEF Filled, Running
  <2> QED
    BY <2>1, <2>3, <2>4 DEF ToolInv, RingInv, Running
<1>12. ASSUME NEW d \in {"key", "coded", "back"}, Discard(d) PROVE Filled'
  <2>1. files'[d] = Missing /\ pc' = "idle" /\ keyData' = keyData /\ pc = "idle"
        /\ \A f \in Names : f # d => files'[f] = files[f]
    BY <1>1, <1>12 DEF Discard, Names
  <2>2. \A q \in Coding : files'[Out(q)] \in Seq(Byte) \union {Missing}
    BY <1>1, <2>1, FileNames
  <2> QED
    BY <1>1, <2>1, <2>2 DEF Filled, Running
<1>13. CASE UNCHANGED vars
  BY <1>1, <1>13 DEF vars, Filled, Running
<1> QED
  BY <1>3, <1>4, <1>5, <1>7, <1>8, <1>9, <1>10, <1>11, <1>12, <1>13 DEF Next, Step

\* The slots: filled with what is read, and with what is made of it.
LEMMA CarriedStep ==
  ASSUME XorLaws, CipherLaws(Keys, Blocks), ToolInv, Counted, Filled, Carried, [Next]_vars
  PROVE  Carried'
<1>1. /\ DOMAIN slots = Ring
      /\ \A s \in Ring : slots[s] = [id |-> slots[s].id, in |-> slots[s].in, out |-> slots[s].out]
      /\ \A s \in Ring : slots[s].in \in Seq(Byte) /\ slots[s].out \in Seq(Byte) \union {Unset}
      /\ i \in Ring /\ j \in 0..Slots
  BY DEF ToolInv, RingInv, Shaped, Carried
<1>2. CASE slots' = slots
  BY <1>1, <1>2 DEF Carried
<1>3. CASE slots' = Fresh
  <2>1. \A s \in Ring : slots'[s].in = <<>> /\ slots'[s].out = Unset
    BY <1>3 DEF Fresh
  <2> QED
    BY <2>1, NoBytes DEF Carried
<1>4. ASSUME NEW c \in Seq(Byte), NEW d,
             \/ slots' = [slots EXCEPT ![i].in = c, ![i].id = d]
             \/ slots' = [slots EXCEPT ![i].in = c]
      PROVE  Carried'
  <2>1. \A s \in Ring : s # i => slots'[s] = slots[s]
    BY <1>1, <1>4
  <2>2. slots'[i].in = c /\ slots'[i].out = slots[i].out
    BY <1>1, <1>4
  <2> QED
    BY <1>1, <2>1, <2>2 DEF Carried
<1>5. ASSUME NEW s \in Ring, NEW c \in Seq(Byte) \union {Unset}, NEW d,
             slots' = [slots EXCEPT ![s].id = d, ![s].out = c]
      PROVE  Carried'
  <2>1. \A t \in Ring : t # s => slots'[t] = slots[t]
    BY <1>1, <1>5
  <2>2. slots'[s].in = slots[s].in /\ slots'[s].out = c
    BY <1>1, <1>5
  <2> QED
    BY <1>1, <2>1, <2>2 DEF Carried
<1>6. CASE Read
  <2>1. Chunk \in Seq(Byte)
    BY <1>6, ChunkBytes DEF Read, Fill, Running
  <2>2. PICK d : slots' = [slots EXCEPT ![i].in = Chunk, ![i].id = d]
    <3> HIDE DEF Chunk
    <3> QED
      BY <1>6 DEF Read, Fill
  <2> HIDE DEF Chunk
  <2> QED
    BY <1>4, <2>1, <2>2
<1>7. CASE EndOfInput
  BY <1>4, <1>7, NoBytes DEF EndOfInput
<1>8. ASSUME NEW s \in Ring, Work(s) PROVE Carried'
  <2>1. Running
    BY <1>8 DEF ToolInv, RingInv, Work, Free, Running
  <2>2. CASE \E iv \in FreshIVs : slots' = [slots EXCEPT ![s].id = "done",
                                                        ![s].out = Converted(slots[s].in, iv)]
    <3>1. PICK iv \in FreshIVs : slots' = [slots EXCEPT ![s].id = "done",
                                                       ![s].out = Converted(slots[s].in, iv)]
      BY <2>2
    <3> DEFINE y == Converted(slots[s].in, iv)
    <3>2. y \in Seq(Byte)
      BY <1>1, <2>1, ConvertedBytes
    <3>3. slots' = [slots EXCEPT ![s].id = "done", ![s].out = y]
      BY <3>1
    <3> HIDE DEF y
    <3> QED
      BY <1>5, <3>2, <3>3
  <2>3. CASE slots' = [slots EXCEPT ![s].id = "done", ![s].out = <<>>]
    BY <1>5, <2>3, NoBytes
  <2>5. CASE slots' = [slots EXCEPT ![s].id = "done", ![s].out = Zeros(Size(slots[s].in))]
    <3>1. Zeros(Size(slots[s].in)) \in Seq(Byte)
      BY <1>1, ZeroBytes
    <3> HIDE DEF Zeros, Size
    <3> QED
      BY <1>5, <2>5, <3>1
  <2>4. CASE slots' = [slots EXCEPT ![s].id = "done"]
    <3>1. \A t \in Ring : slots'[t].in = slots[t].in /\ slots'[t].out = slots[t].out
      BY <1>1, <2>4
    <3> QED
      BY <1>1, <3>1 DEF Carried
  <2> QED
    <3> HIDE DEF Converted, FreshIVs, Size, Zeros
    <3> QED
      BY <1>8, <2>2, <2>3, <2>4, <2>5 DEF Work
<1>9. CASE Join
  <2>1. j \in Ring
    BY <1>1, <1>9 DEF Join, Write, Joining, Ring
  <2>2. CASE slots[j].id = "none"
    BY <1>2, <1>9, <2>2 DEF Join, Write
  <2>3. CASE slots[j].id # "none"
    <3> DEFINE c == IF slots[j].out = Unset THEN Unset ELSE <<>>
    <3>1. c \in Seq(Byte) \union {Unset}
      BY NoBytes
    <3>2. slots' = [slots EXCEPT ![j].id = "none", ![j].out = c]
      BY <1>1, <1>9, <2>1, <2>3 DEF Join, Write
    <3> HIDE DEF c
    <3> QED
      BY <1>5, <2>1, <3>1, <3>2
  <2> QED
    BY <2>2, <2>3
<1>10. CASE GenerateKey \/ WriteKey \/ RingWritten \/ UNCHANGED vars
  BY <1>2, <1>10 DEF GenerateKey, WriteKey, RingWritten, vars
<1>11. CASE Finish \/ Kill \/ Crash
  BY <1>3, <1>11 DEF Finish, Kill, Crash, Die
<1>12. ASSUME NEW o \in Coding, NEW ecb \in BOOLEAN, Start(o, ecb) PROVE Carried'
  BY <1>3, <1>12 DEF Start
<1>13. ASSUME NEW f \in {"key", "coded", "back"}, Discard(f) PROVE Carried'
  BY <1>2, <1>13 DEF Discard
<1> QED
  BY <1>6, <1>7, <1>8, <1>9, <1>10, <1>11, <1>12, <1>13 DEF Next, Step

\* No command has been given.
LEMMA TypeInit == Init => TypeInv
<1> SUFFICES ASSUME Init PROVE TypeInv
  OBVIOUS
<1>1. Counted
  BY FormatAssumption DEF FormatAssumption, Init, Counted, Marks, Names
<1>2. Filled
  <2>1. \A o \in Coding : files[Out(o)] = Missing
    BY FileNames DEF Init, Names
  <2> QED
    BY <2>1 DEF Init, Filled, Running
<1>3. Carried
  <2>1. \A s \in Ring : slots[s].in = <<>> /\ slots[s].out = Unset
    BY DEF Init, Fresh
  <2> QED
    BY <2>1, NoBytes DEF Carried
<1> QED
  BY <1>1, <1>2, <1>3 DEF TypeInv

\* The types that TypeOK states, of what the invariants say.
LEMMA TypesFollow == ToolInv /\ TypeInv => TypeOK
<1> SUFFICES ASSUME ToolInv, TypeInv PROVE TypeOK
  OBVIOUS
<1>1. /\ files = [f \in Names |-> files[f]] /\ mark = [f \in Names |-> mark[f]]
      /\ files["plain"] \in Seq(Byte)
      /\ family \in {"aes", "base64"} /\ op \in {"gen", "enc", "dec"} /\ isEcb \in BOOLEAN
  BY FormatAssumption DEF FormatAssumption, ToolInv, FileInv
<1>2. \A f \in DOMAIN files : files[f] = Missing \/ Len(files[f]) \in Nat
  <2>1. ASSUME NEW o \in Coding PROVE files[Out(o)] = Missing \/ Len(files[Out(o)]) \in Nat
    BY DEF TypeInv, Filled
  <2>2. files["key"] = Missing \/ Len(files["key"]) \in Nat
    <3>1. Len(<<>>) \in Nat
      OBVIOUS
    <3> QED
      BY <3>1, ExportIsSequence DEF ToolInv, KeyInv
  <2>3. Len(files["plain"]) \in Nat
    BY <1>1
  <2>4. DOMAIN files = {"plain", "key", "coded", "back"} /\ Out("enc") = "coded" /\ Out("dec") = "back"
    BY <1>1 DEF Names, Out
  <2> QED
    BY <2>1, <2>2, <2>3, <2>4 DEF Coding
<1>3. mark \in [{"plain", "key", "coded", "back"} -> {"whole", "cut", "holed"}]
  <2>1. \A f \in Names : mark[f] \in Marks
    BY DEF TypeInv, Counted
  <2> QED
    BY <1>1, <2>1 DEF Names, Marks
<1>4. keyData \in Keys \union {NoKey}
  <2>1. CASE pc = "idle"
    BY <2>1 DEF TypeInv, Filled
  <2>2. CASE pc = "key"
    BY <2>2 DEF ToolInv, KeyInv
  <2>3. CASE Running
    BY <2>3 DEF ToolInv, PipeInv, KeysOf
  <2> QED
    BY <2>1, <2>2, <2>3 DEF ToolInv, RingInv, Running
<1>5. /\ pc \in {"idle", "key", "read", "join", "drain"} /\ i \in Ring /\ j \in 0..Slots
      /\ \A s \in Ring : slots[s].id \in {"none", "running", "done", "dangling"}
  BY DEF ToolInv, RingInv, Shaped, Ids
<1>6. at \in Nat /\ runs \in 0..MaxRuns /\ faults \in 0..MaxFaults
  BY DEF TypeInv, Counted
<1> QED
  BY <1>1, <1>2, <1>3, <1>4, <1>5, <1>6 DEF TypeOK

\* The indices of main stay within the ring, the key that a command works with
\* is one of the keys or none, and every file is a sequence that can be read
\* on from any place, whatever the input, the keys, the slots and the faults.
THEOREM IndicesInRange == ASSUME XorLaws, CipherLaws(Keys, Blocks) PROVE Spec => []TypeOK
<1>1. Init => TypeInv
  BY TypeInit
<1>2. ToolInv /\ TypeInv /\ [Next]_vars => TypeInv'
  BY CountedStep, FilledStep, CarriedStep DEF TypeInv
<1>3. ToolInv /\ TypeInv => TypeOK
  BY TypesFollow
<1> QED
  BY <1>1, <1>2, <1>3, FilesAreRight, PTL DEF Spec

=============================================================================
