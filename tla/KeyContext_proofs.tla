-------------------------- MODULE KeyContext_proofs --------------------------
(***************************************************************************)
(* Proofs about KeyContext, for any heap, any key and any number of calls. *)
(*                                                                         *)
(* HeapInv says at each place of a call what its context looks like        *)
(* (AtPlace): no key, a key with data or one that is expanded, and which   *)
(* bytes these hold.                                                       *)
(***************************************************************************)
EXTENDS KeyContext, TLAPS

Random == [of |-> "random"]
Build  == [of |-> "secret", bytes |-> Digest]

\* The shapes of the context.
Bare == mem[key] = Ctx(NULL)
WithKey == \E k \in Heap : mem[key] = Ctx(k) /\ mem[k] = Key(NULL, NULL)
WithData(c) ==
  \E k, d \in Heap : mem[key] = Ctx(k) /\ mem[k] = Key(d, NULL) /\ mem[d] = Data(c)
Complete(c) ==
  \E k, d, e \in Heap :
     mem[key] = Ctx(k) /\ mem[k] = Key(d, e) /\ mem[d] = Data(c) /\ mem[e] = Expanded(c)

AtPlace ==
  /\ step = "idle" => key = NULL
  /\ step = "gen" => IF key = NULL THEN short ELSE Bare
  /\ step = "genData" => key # NULL /\ Bare /\ generated # NULL /\ mem[generated] = Key(NULL, NULL)
  /\ step = "genExpand" => key # NULL /\ WithData(Random)
  /\ step = "import" => IF key = NULL THEN short ELSE Bare \/ Complete(Random)
  /\ step = "importData" => key # NULL /\ WithKey
  /\ step = "importExpand" => key # NULL /\ WithData(Build)
  /\ step \in {"ready", "done"} => IF key = NULL THEN short ELSE (Bare /\ short) \/ Complete(Build)
  /\ generated # NULL => step = "genData"

\* GetSecretKey uncovers the key once.
SecretKnown ==
  /\ secret = IF is_encrypt THEN Masked(Digest) ELSE Digest
  /\ step = "importData" => ~is_encrypt

HeapInv ==
  /\ DOMAIN mem = Heap /\ key \in Pointer /\ generated \in Pointer
  /\ step \in Steps /\ calls \in 0..MaxCalls /\ is_encrypt \in BOOLEAN /\ short \in BOOLEAN
  /\ lost \subseteq Heap /\ used \in {Nothing, AsItIs, Build}
  /\ AtPlace /\ SecretKnown /\ UnencryptedExplained /\ LeaksExplained

USE HeapAssumption DEF HeapAssumption

-----------------------------------------------------------------------------
\* Blocks of different kinds differ, and have the fields of their kind.
LEMMA Kinds ==
  ASSUME NEW k, NEW e, NEW c
  PROVE  /\ Unused.kind = "free"
         /\ Ctx(k).kind = "ctx" /\ Ctx(k).key = k
         /\ Key(k, e).kind = "key" /\ Key(k, e).data = k /\ Key(k, e).exp_data = e
         /\ Data(c).kind = "data" /\ Data(c).holds = c
         /\ Expanded(c).kind = "exp_data" /\ Expanded(c).holds = c
  BY DEF Unused, Ctx, Key, Data, Expanded

\* What blocks can go through differs.
LEMMA UsesDiffer == Nothing # AsItIs /\ Nothing # Build /\ AsItIs # Build
<1>1. Nothing.of = "nothing" /\ AsItIs.of = "none" /\ Build.of = "secret"
  BY DEF Nothing, AsItIs, Build
<1> QED
  BY <1>1

\* oaes_key_destroy leaves a context without a key, and only what was lost.
LEMMA Destroyed ==
  ASSUME HeapInv, key # NULL
  PROVE  /\ DOMAIN KeyDestroyed = Heap /\ key \in Heap
         /\ KeyDestroyed[key] = Ctx(NULL)
         /\ \A b \in Heap : b # key => KeyDestroyed[b] \in {mem[b], Unused}
         /\ \A b \in Heap : KeyDestroyed[b] # Unused => b \in {key, generated} \union lost
<1> DEFINE blocks == KeyBlocks(mem[key].key)
<1>1. key \in Heap /\ LeaksExplained
  BY DEF HeapInv, Pointer
<1>2. CtxBlocks(key) = {key} \union blocks
  BY DEF CtxBlocks
<1> HIDE DEF blocks
<1>3. KeyDestroyed = [[b \in Heap |-> IF b \in blocks THEN Unused ELSE mem[b]] EXCEPT ![key] = Ctx(NULL)]
  BY DEF KeyDestroyed, Released, blocks
<1>4. /\ DOMAIN KeyDestroyed = Heap /\ KeyDestroyed[key] = Ctx(NULL)
      /\ \A b \in Heap : b # key => KeyDestroyed[b] = IF b \in blocks THEN Unused ELSE mem[b]
  BY <1>1, <1>3
<1>5. ASSUME NEW b \in Heap, KeyDestroyed[b] # Unused PROVE b \in {key, generated} \union lost
  BY <1>1, <1>2, <1>4, <1>5 DEF LeaksExplained
<1> QED
  BY <1>1, <1>4, <1>5

\* The key of the build is what masking twice gives back.
LEMMA MaskedTwice ==
  /\ Masked(Digest) \in [0..KeyLen - 1 -> Byte]
  /\ Masked(Masked(Digest)) = Digest
  /\ Digest \in [0..KeyLen - 1 -> Byte]
<1> USE KeyAssumption DEF KeyAssumption
<1>1. factor \in 16..127
  <2> DEFINE f == PassphraseSum % 128
  <2>1. f \in 0..127
    OBVIOUS
  <2> HIDE DEF f
  <2>2. factor = IF f < 16 THEN f + 16 ELSE f
    BY DEF factor, f
  <2> QED
    BY <2>1, <2>2
<1>2. ASSUME NEW n \in 0..KeyLen - 1 PROVE factor - n \in 1..127
  BY <1>1
<1>3. ASSUME NEW n \in 0..KeyLen - 1
      PROVE  /\ ByteXor(Digest[n], factor - n) \in Byte
             /\ ByteXor(ByteXor(Digest[n], factor - n), factor - n) = Digest[n]
  <2>1. Digest[n] \in Byte /\ factor - n \in 1..127
    BY <1>2
  <2> QED
    BY <2>1, XorAssumption DEF XorAssumption
<1>4. Masked(Digest) \in [0..KeyLen - 1 -> Byte]
  BY <1>3 DEF Masked
<1>5. \A n \in 0..KeyLen - 1 : Masked(Masked(Digest))[n] = Digest[n]
  BY <1>3 DEF Masked
<1>6. Masked(Masked(Digest)) = Digest
  BY <1>5 DEF Masked
<1> QED
  BY <1>4, <1>6

LEMMA HeapInit == Init => HeapInv
<1> SUFFICES ASSUME Init PROVE HeapInv
  OBVIOUS
<1>1. AtPlace /\ SecretKnown /\ UnencryptedExplained
  BY UsesDiffer DEF Init, AtPlace, SecretKnown, UnencryptedExplained
<1>2. LeaksExplained
  BY DEF Init, LeaksExplained
<1>3. 0 \in 0..MaxCalls /\ TRUE \in BOOLEAN /\ FALSE \in BOOLEAN
  BY KeyAssumption DEF KeyAssumption
<1>4. DOMAIN mem = Heap
  BY DEF Init
<1> QED
  BY <1>1, <1>2, <1>3, <1>4 DEF Init, HeapInv, Pointer, Steps

\* oaes_alloc.
LEMMA AllocCtxStep == HeapInv /\ AllocCtx => HeapInv'
<1> SUFFICES ASSUME HeapInv, AllocCtx PROVE HeapInv'
  OBVIOUS
<1>1. PICK a \in Calloc :
        /\ key' = a
        /\ mem' = IF a = NULL THEN mem ELSE [mem EXCEPT ![a] = Ctx(NULL)]
        /\ short' = (a = NULL)
  BY DEF AllocCtx
<1>2. /\ step = "idle" /\ key = NULL /\ generated = NULL /\ DOMAIN mem = Heap
      /\ step' = "gen" /\ calls' \in 0..MaxCalls /\ used' = Nothing
      /\ UNCHANGED <<generated, secret, is_encrypt, lost>>
  BY KeyAssumption DEF AllocCtx, HeapInv, AtPlace, KeyAssumption
<1>3. a \in Pointer /\ DOMAIN mem' = Heap
  BY <1>1, <1>2 DEF Calloc, Free, Pointer
<1>4. short' \in BOOLEAN /\ (a = NULL => short')
  BY <1>1
<1>5. a # NULL => mem'[a] = Ctx(NULL) /\ \A b \in Heap : b # a => mem'[b] = mem[b]
  BY <1>1, <1>2, <1>3 DEF Pointer
<1>6. AtPlace'
  BY <1>1, <1>2, <1>4, <1>5 DEF AtPlace, Bare
<1>7. SecretKnown' /\ UnencryptedExplained'
  BY <1>2, UsesDiffer DEF HeapInv, SecretKnown, UnencryptedExplained
<1>8. LeaksExplained'
  <2>1. \A b \in Heap : mem[b] # Unused => b \in lost
    BY <1>2 DEF HeapInv, LeaksExplained, CtxBlocks
  <2>2. a # NULL => a \in CtxBlocks(key)'
    BY <1>1 DEF CtxBlocks
  <2>3. \A b \in Heap : mem'[b] # Unused => b \in lost \/ (a # NULL /\ b = a)
    BY <1>1, <1>5, <2>1
  <2> QED
    BY <1>2, <2>2, <2>3 DEF LeaksExplained
<1> QED
  BY <1>1, <1>2, <1>3, <1>4, <1>6, <1>7, <1>8 DEF HeapInv, Steps

\* Nothing is allocated or released.
LEMMA SameHeap ==
  ASSUME HeapInv, UNCHANGED <<mem, key, generated, lost>>
  PROVE  /\ LeaksExplained'
         /\ Bare' = Bare /\ \A c : Complete(c)' = Complete(c)
  BY DEF HeapInv, LeaksExplained, CtxBlocks, KeyBlocks, Bare, Complete

\* oaes_key_gen without a context.
LEMMA GenWithoutCtxStep == HeapInv /\ GenWithoutCtx => HeapInv'
<1> SUFFICES ASSUME HeapInv, GenWithoutCtx PROVE HeapInv'
  OBVIOUS
<1>1. /\ step = "gen" /\ key = NULL /\ step' = "import" /\ short
      /\ UNCHANGED <<mem, key, generated, secret, is_encrypt, calls, used, short, lost>>
  BY DEF GenWithoutCtx, HeapInv, AtPlace
<1>2. LeaksExplained'
  BY <1>1, SameHeap
<1>3. AtPlace' /\ SecretKnown' /\ UnencryptedExplained'
  BY <1>1 DEF HeapInv, AtPlace, SecretKnown, UnencryptedExplained
<1> QED
  BY <1>1, <1>2, <1>3 DEF HeapInv, Steps

\* oaes_key_gen up to its first calloc.
LEMMA GenKeyStep == HeapInv /\ GenKey => HeapInv'
<1> SUFFICES ASSUME HeapInv, GenKey PROVE HeapInv'
  OBVIOUS
<1>1. /\ step = "gen" /\ key # NULL /\ Bare /\ generated = NULL
      /\ UNCHANGED <<key, secret, is_encrypt, calls, used, lost>>
  BY DEF GenKey, HeapInv, AtPlace
<1>2. PICK a \in Calloc :
       /\ short' = (short \/ a = NULL)
       /\ IF a = NULL THEN step' = "import" /\ UNCHANGED <<mem, generated>>
          ELSE /\ step' = "genData"
               /\ generated' = a
               /\ mem' = [KeyDestroyed EXCEPT ![a] = Key(NULL, NULL)]
  BY DEF GenKey, Allocated
<1>3. short' \in BOOLEAN /\ (short => short')
  BY <1>2 DEF HeapInv
<1>4. SecretKnown' /\ UnencryptedExplained'
  BY <1>1, <1>2, <1>3 DEF HeapInv, SecretKnown, UnencryptedExplained
<1>5. CASE a = NULL
  <2>1. step' = "import" /\ UNCHANGED <<mem, key, generated, lost>>
    BY <1>1, <1>2, <1>5
  <2>2. LeaksExplained' /\ Bare'
    BY <1>1, <2>1, SameHeap
  <2>3. AtPlace'
    BY <1>1, <2>1, <2>2 DEF AtPlace
  <2> QED
    BY <1>1, <1>3, <1>4, <2>1, <2>2, <2>3 DEF HeapInv, Steps
<1>6. CASE a # NULL
  <2>1. a \in Heap /\ mem[a] = Unused
    BY <1>6 DEF Calloc, Free
  <2>2. a # key
    BY <1>1, <2>1, Kinds DEF Bare
  <2>3. /\ DOMAIN mem' = Heap /\ mem'[a] = Key(NULL, NULL)
        /\ \A b \in Heap : b # a => mem'[b] = KeyDestroyed[b]
    BY <1>1, <1>2, <1>6, <2>1, Destroyed
  <2>4. step' = "genData" /\ generated' = a /\ key' = key /\ key \in Heap
    BY <1>1, <1>2, <1>6, Destroyed
  <2>5. Bare'
    BY <1>1, <2>2, <2>3, <2>4, Destroyed DEF Bare
  <2>6. AtPlace'
    BY <1>1, <1>6, <2>3, <2>4, <2>5 DEF AtPlace
  <2>7. LeaksExplained'
    <3>1. key \in CtxBlocks(key)'
      BY <1>1 DEF CtxBlocks
    <3>2. \A b \in Heap : KeyDestroyed[b] # Unused => b \in {key} \union lost
      BY <1>1, Destroyed
    <3>3. \A b \in Heap : mem'[b] # Unused => b = a \/ b \in {key} \union lost
      BY <2>3, <3>2
    <3> QED
      BY <1>1, <2>4, <3>1, <3>3 DEF LeaksExplained
  <2> QED
    BY <1>1, <1>3, <1>4, <2>1, <2>3, <2>4, <2>6, <2>7 DEF HeapInv, Steps, Pointer
<1> QED
  BY <1>5, <1>6

\* oaes_key_gen makes the key of the context, or loses it.
LEMMA GenDataStep == HeapInv /\ GenData => HeapInv'
<1> SUFFICES ASSUME HeapInv, GenData PROVE HeapInv'
  OBVIOUS
<1>1. /\ step = "genData" /\ key # NULL /\ Bare /\ generated # NULL
      /\ mem[generated] = Key(NULL, NULL) /\ key \in Heap /\ generated \in Heap
      /\ generated' = NULL
      /\ UNCHANGED <<key, secret, is_encrypt, calls, used>>
  BY DEF GenData, HeapInv, AtPlace, Pointer
<1>2. PICK a \in Calloc :
       /\ short' = (short \/ a = NULL)
       /\ IF a = NULL THEN step' = "import" /\ lost' = lost \union {generated} /\ UNCHANGED mem
          ELSE /\ step' = "genExpand"
               /\ mem' = [mem EXCEPT ![a] = Data(Random), ![generated] = Key(a, NULL),
                                     ![key] = Ctx(generated)]
               /\ UNCHANGED lost
  BY DEF GenData, Allocated, Random
<1>3. short' \in BOOLEAN /\ (short => short')
  BY <1>2 DEF HeapInv
<1>4. SecretKnown' /\ UnencryptedExplained'
  BY <1>1, <1>2, <1>3 DEF HeapInv, SecretKnown, UnencryptedExplained
<1>5. CASE a = NULL
  <2>1. step' = "import" /\ lost' = lost \union {generated} /\ mem' = mem
    BY <1>2, <1>5
  <2>2. Bare'
    BY <1>1, <2>1 DEF Bare
  <2>3. AtPlace'
    BY <1>1, <2>1, <2>2 DEF AtPlace
  <2>4. LeaksExplained'
    BY <1>1, <2>1 DEF HeapInv, LeaksExplained, CtxBlocks, KeyBlocks
  <2>5. lost' \subseteq Heap
    BY <1>1, <2>1 DEF HeapInv
  <2> QED
    BY <1>1, <1>3, <1>4, <2>1, <2>3, <2>4, <2>5 DEF HeapInv, Steps, Pointer
<1>6. CASE a # NULL
  <2>1. a \in Heap /\ mem[a] = Unused
    BY <1>6 DEF Calloc, Free
  <2>2. a # key /\ a # generated /\ key # generated
    BY <1>1, <2>1, Kinds DEF Bare
  <2>3. step' = "genExpand" /\ lost' = lost
        /\ mem' = [mem EXCEPT ![a] = Data(Random), ![generated] = Key(a, NULL),
                              ![key] = Ctx(generated)]
    BY <1>2, <1>6
  <2>4. /\ DOMAIN mem' = Heap /\ mem'[a] = Data(Random) /\ mem'[generated] = Key(a, NULL)
        /\ mem'[key] = Ctx(generated)
        /\ \A b \in Heap : b \notin {a, generated, key} => mem'[b] = mem[b]
    BY <1>1, <2>1, <2>2, <2>3 DEF HeapInv
  <2>5. WithData(Random)'
    BY <1>1, <2>1, <2>4 DEF WithData
  <2>6. AtPlace'
    BY <1>1, <2>3, <2>5 DEF AtPlace
  <2>7. LeaksExplained'
    <3>1. {key, generated, a} \subseteq CtxBlocks(key)'
      BY <1>1, <1>6, <2>4, Kinds DEF CtxBlocks, KeyBlocks
    <3>2. \A b \in Heap : mem[b] # Unused => b \in {key, generated} \union lost
      BY <1>1, Kinds DEF HeapInv, LeaksExplained, CtxBlocks, KeyBlocks, Bare
    <3>3. \A b \in Heap : mem'[b] # Unused => b \in {key, generated, a} \union lost
      BY <2>4, <3>2
    <3> QED
      BY <2>3, <3>1, <3>3 DEF LeaksExplained
  <2> QED
    BY <1>1, <1>3, <1>4, <2>3, <2>4, <2>6, <2>7 DEF HeapInv, Steps, Pointer
<1> QED
  BY <1>5, <1>6

\* oaes_key_expand: the key is complete, or it is destroyed and an allocation
\* has failed.
LEMMA Expanding ==
  ASSUME HeapInv, key # NULL, generated = NULL, NEW c, WithData(c), NEW next, Expand(next)
  PROVE  /\ DOMAIN mem' = Heap /\ LeaksExplained'
         /\ short' \in BOOLEAN /\ (short => short')
         /\ (Bare' /\ short') \/ Complete(c)'
         /\ step' = next
         /\ UNCHANGED <<key, generated, secret, is_encrypt, calls, used, lost>>
<1>1. PICK k \in Heap, d \in Heap : mem[key] = Ctx(k) /\ mem[k] = Key(d, NULL) /\ mem[d] = Data(c)
  BY DEF WithData
<1>2. mem[key].key = k /\ mem[k].data = d /\ mem[d].holds = c /\ k # NULL /\ d # NULL
  BY <1>1, Kinds
<1>3. /\ key \in Heap /\ DOMAIN mem = Heap /\ k # d /\ k # key /\ d # key
  BY <1>1, Kinds DEF HeapInv, Pointer
<1>4. PICK a \in Calloc :
        /\ short' = (short \/ a = NULL)
        /\ mem' = IF a = NULL THEN KeyDestroyed
                  ELSE [mem EXCEPT ![a] = Expanded(c), ![k] = Key(d, a)]
  BY <1>2 DEF Expand, Allocated
<1>5. UNCHANGED <<key, generated, secret, is_encrypt, calls, used, lost>> /\ step' = next
  BY DEF Expand
<1>6. short' \in BOOLEAN /\ (short => short') /\ (a = NULL => short')
  BY <1>4 DEF HeapInv
<1>7. CASE a = NULL
  <2>1. mem' = KeyDestroyed
    BY <1>4, <1>7
  <2>2. DOMAIN mem' = Heap /\ Bare'
    BY <1>5, <2>1, Destroyed DEF Bare
  <2>3. LeaksExplained'
    <3>1. key \in CtxBlocks(key)'
      BY <1>5 DEF CtxBlocks
    <3> QED
      BY <1>5, <2>1, <3>1, Destroyed DEF LeaksExplained
  <2> QED
    BY <1>5, <1>6, <1>7, <2>2, <2>3
<1>8. CASE a # NULL
  <2>1. a \in Heap /\ mem[a] = Unused
    BY <1>8 DEF Calloc, Free
  <2>2. a # key /\ a # k /\ a # d
    BY <1>1, <2>1, Kinds
  <2>3. mem' = [mem EXCEPT ![a] = Expanded(c), ![k] = Key(d, a)]
    BY <1>4, <1>8
  <2>4. /\ DOMAIN mem' = Heap /\ mem'[a] = Expanded(c) /\ mem'[k] = Key(d, a)
        /\ \A b \in Heap : b \notin {a, k} => mem'[b] = mem[b]
    BY <1>1, <1>3, <2>1, <2>2, <2>3
  <2>5. mem'[key] = Ctx(k) /\ mem'[d] = Data(c)
    BY <1>1, <1>3, <2>2, <2>4
  <2>6. Complete(c)'
    BY <1>1, <1>5, <2>1, <2>4, <2>5 DEF Complete
  <2>7. LeaksExplained'
    <3>1. {key, k, d, a} \subseteq CtxBlocks(key)'
      BY <1>2, <1>5, <1>8, <2>4, <2>5, Kinds DEF CtxBlocks, KeyBlocks
    <3>2. \A b \in Heap : mem[b] # Unused => b \in {key, k, d} \union lost
      BY <1>1, Kinds DEF HeapInv, LeaksExplained, CtxBlocks, KeyBlocks
    <3>3. \A b \in Heap : mem'[b] # Unused => b \in {key, k, d, a} \union lost
      BY <2>4, <3>2
    <3> QED
      BY <1>5, <3>1, <3>3 DEF LeaksExplained
  <2> QED
    BY <1>5, <1>6, <2>4, <2>6, <2>7
<1> QED
  BY <1>7, <1>8

LEMMA GenExpandStep == HeapInv /\ GenExpand => HeapInv'
<1> SUFFICES ASSUME HeapInv, GenExpand PROVE HeapInv'
  OBVIOUS
<1>1. /\ step = "genExpand" /\ key # NULL /\ generated = NULL /\ WithData(Random)
      /\ Expand("import")
  BY DEF GenExpand, HeapInv, AtPlace
<1>2. /\ DOMAIN mem' = Heap /\ LeaksExplained'
      /\ short' \in BOOLEAN /\ (short => short')
      /\ Bare' \/ Complete(Random)'
      /\ step' = "import"
      /\ UNCHANGED <<key, generated, secret, is_encrypt, calls, used, lost>>
  BY <1>1, Expanding
<1>3. AtPlace' /\ SecretKnown' /\ UnencryptedExplained'
  BY <1>1, <1>2 DEF HeapInv, AtPlace, SecretKnown, UnencryptedExplained
<1> QED
  BY <1>2, <1>3 DEF HeapInv, Steps

\* The bytes are uncovered at the first call and stay so.
LEMMA Uncovered ==
  ASSUME HeapInv, GetSecretKey
  PROVE  secret' = Digest /\ is_encrypt' = FALSE
  BY MaskedTwice DEF HeapInv, SecretKnown, GetSecretKey

LEMMA ImportWithoutCtxStep == HeapInv /\ ImportWithoutCtx => HeapInv'
<1> SUFFICES ASSUME HeapInv, ImportWithoutCtx PROVE HeapInv'
  OBVIOUS
<1>1. /\ step = "import" /\ key = NULL /\ step' = "ready" /\ short /\ GetSecretKey
      /\ generated = NULL
      /\ UNCHANGED <<mem, key, generated, calls, used, short, lost>>
  BY DEF ImportWithoutCtx, HeapInv, AtPlace
<1>2. LeaksExplained'
  BY <1>1, SameHeap
<1>3. secret' = Digest /\ is_encrypt' = FALSE
  BY <1>1, Uncovered
<1>4. AtPlace' /\ SecretKnown' /\ UnencryptedExplained'
  BY <1>1, <1>3 DEF HeapInv, AtPlace, SecretKnown, UnencryptedExplained
<1> QED
  BY <1>1, <1>2, <1>3, <1>4 DEF HeapInv, Steps

\* oaes_key_import_data destroys the random key first.
LEMMA ImportKeyStep == HeapInv /\ ImportKey => HeapInv'
<1> SUFFICES ASSUME HeapInv, ImportKey PROVE HeapInv'
  OBVIOUS
<1>1. /\ step = "import" /\ key # NULL /\ GetSecretKey /\ generated = NULL
      /\ UNCHANGED <<key, generated, calls, used, lost>>
  BY DEF ImportKey, HeapInv, AtPlace
<1>2. PICK a \in {b \in Heap : KeyDestroyed[b] = Unused} \union {NULL} :
        /\ short' = (short \/ a = NULL)
        /\ mem' = IF a = NULL THEN KeyDestroyed
                  ELSE [KeyDestroyed EXCEPT ![a] = Key(NULL, NULL), ![key] = Ctx(a)]
        /\ step' = IF a = NULL THEN "ready" ELSE "importData"
  BY DEF ImportKey, Allocated
<1>3. short' \in BOOLEAN /\ (short => short') /\ (a = NULL => short')
  BY <1>2 DEF HeapInv
<1>4. secret' = Digest /\ is_encrypt' = FALSE
  BY <1>1, Uncovered
<1>5. SecretKnown' /\ UnencryptedExplained'
  BY <1>1, <1>3, <1>4 DEF HeapInv, SecretKnown, UnencryptedExplained
<1>6. CASE a = NULL
  <2>1. mem' = KeyDestroyed /\ step' = "ready"
    BY <1>2, <1>6
  <2>2. DOMAIN mem' = Heap /\ Bare'
    BY <1>1, <2>1, Destroyed DEF Bare
  <2>3. LeaksExplained'
    <3>1. key \in CtxBlocks(key)'
      BY <1>1 DEF CtxBlocks
    <3> QED
      BY <1>1, <2>1, <3>1, Destroyed DEF LeaksExplained
  <2>4. AtPlace'
    BY <1>1, <1>3, <1>6, <2>1, <2>2 DEF AtPlace
  <2> QED
    BY <1>1, <1>3, <1>4, <1>5, <2>1, <2>2, <2>3, <2>4 DEF HeapInv, Steps
<1>7. CASE a # NULL
  <2>1. a \in Heap /\ KeyDestroyed[a] = Unused /\ key \in Heap /\ KeyDestroyed[key] = Ctx(NULL)
    BY <1>1, <1>7, Destroyed
  <2>2. a # key
    BY <2>1, Kinds
  <2>3. mem' = [KeyDestroyed EXCEPT ![a] = Key(NULL, NULL), ![key] = Ctx(a)] /\ step' = "importData"
    BY <1>2, <1>7
  <2>4. /\ DOMAIN mem' = Heap /\ mem'[a] = Key(NULL, NULL) /\ mem'[key] = Ctx(a)
        /\ \A b \in Heap : b \notin {a, key} => mem'[b] = KeyDestroyed[b]
    BY <1>1, <2>1, <2>2, <2>3, Destroyed
  <2>5. AtPlace'
    BY <1>1, <2>1, <2>3, <2>4 DEF AtPlace, WithKey
  <2>6. LeaksExplained'
    <3>1. {key, a} \subseteq CtxBlocks(key)'
      BY <1>1, <1>7, <2>4, Kinds DEF CtxBlocks, KeyBlocks
    <3>2. \A b \in Heap : KeyDestroyed[b] # Unused => b \in {key} \union lost
      BY <1>1, Destroyed
    <3>3. \A b \in Heap : mem'[b] # Unused => b \in {key, a} \union lost
      BY <2>4, <3>2
    <3> QED
      BY <1>1, <3>1, <3>3 DEF LeaksExplained
  <2> QED
    BY <1>1, <1>3, <1>4, <1>5, <2>3, <2>4, <2>5, <2>6 DEF HeapInv, Steps
<1> QED
  BY <1>6, <1>7

LEMMA ImportDataStep == HeapInv /\ ImportData => HeapInv'
<1> SUFFICES ASSUME HeapInv, ImportData PROVE HeapInv'
  OBVIOUS
<1>1. /\ step = "importData" /\ key # NULL /\ generated = NULL /\ ~is_encrypt /\ secret = Digest
      /\ key \in Heap /\ DOMAIN mem = Heap
      /\ UNCHANGED <<key, generated, secret, is_encrypt, calls, used, lost>>
  BY DEF ImportData, HeapInv, AtPlace, SecretKnown, Pointer
<1>2. PICK k \in Heap : mem[key] = Ctx(k) /\ mem[k] = Key(NULL, NULL)
  BY <1>1 DEF HeapInv, AtPlace, WithKey
<1>3. mem[key].key = k /\ k # NULL /\ k # key
  BY <1>2, Kinds
<1>4. PICK a \in Calloc :
        /\ short' = (short \/ a = NULL)
        /\ mem' = IF a = NULL THEN KeyDestroyed
                  ELSE [mem EXCEPT ![a] = Data(Build), ![k] = Key(a, NULL)]
        /\ step' = IF a = NULL THEN "ready" ELSE "importExpand"
  BY <1>1, <1>3 DEF ImportData, Allocated, Build
<1>5. short' \in BOOLEAN /\ (short => short') /\ (a = NULL => short')
  BY <1>4 DEF HeapInv
<1>6. step' # "importData" /\ SecretKnown' /\ UnencryptedExplained'
  BY <1>1, <1>4, <1>5 DEF HeapInv, SecretKnown, UnencryptedExplained
<1>7. CASE a = NULL
  <2>1. mem' = KeyDestroyed /\ step' = "ready"
    BY <1>4, <1>7
  <2>2. DOMAIN mem' = Heap /\ Bare'
    BY <1>1, <2>1, Destroyed DEF Bare
  <2>3. LeaksExplained'
    <3>1. key \in CtxBlocks(key)'
      BY <1>1 DEF CtxBlocks
    <3> QED
      BY <1>1, <2>1, <3>1, Destroyed DEF LeaksExplained
  <2>4. AtPlace'
    BY <1>1, <1>5, <1>7, <2>1, <2>2 DEF AtPlace
  <2> QED
    BY <1>1, <1>5, <1>6, <2>1, <2>2, <2>3, <2>4 DEF HeapInv, Steps
<1>8. CASE a # NULL
  <2>1. a \in Heap /\ mem[a] = Unused
    BY <1>8 DEF Calloc, Free
  <2>2. a # key /\ a # k
    BY <1>2, <2>1, Kinds
  <2>3. mem' = [mem EXCEPT ![a] = Data(Build), ![k] = Key(a, NULL)] /\ step' = "importExpand"
    BY <1>4, <1>8
  <2>4. /\ DOMAIN mem' = Heap /\ mem'[a] = Data(Build) /\ mem'[k] = Key(a, NULL)
        /\ \A b \in Heap : b \notin {a, k} => mem'[b] = mem[b]
    BY <1>1, <2>1, <2>2, <2>3
  <2>5. mem'[key] = Ctx(k)
    BY <1>1, <1>2, <1>3, <2>2, <2>4
  <2>6. AtPlace'
    BY <1>1, <2>1, <2>3, <2>4, <2>5 DEF AtPlace, WithData
  <2>7. LeaksExplained'
    <3>1. {key, k, a} \subseteq CtxBlocks(key)'
      BY <1>1, <1>3, <1>8, <2>4, <2>5, Kinds DEF CtxBlocks, KeyBlocks
    <3>2. \A b \in Heap : mem[b] # Unused => b \in {key, k} \union lost
      BY <1>1, <1>2, Kinds DEF HeapInv, LeaksExplained, CtxBlocks, KeyBlocks
    <3>3. \A b \in Heap : mem'[b] # Unused => b \in {key, k, a} \union lost
      BY <2>4, <3>2
    <3> QED
      BY <1>1, <3>1, <3>3 DEF LeaksExplained
  <2> QED
    BY <1>1, <1>5, <1>6, <2>3, <2>4, <2>6, <2>7 DEF HeapInv, Steps
<1> QED
  BY <1>7, <1>8

LEMMA ImportExpandStep == HeapInv /\ ImportExpand => HeapInv'
<1> SUFFICES ASSUME HeapInv, ImportExpand PROVE HeapInv'
  OBVIOUS
<1>1. /\ step = "importExpand" /\ key # NULL /\ generated = NULL /\ WithData(Build)
      /\ Expand("ready")
  BY DEF ImportExpand, HeapInv, AtPlace
<1>2. /\ DOMAIN mem' = Heap /\ LeaksExplained'
      /\ short' \in BOOLEAN /\ (short => short')
      /\ (Bare' /\ short') \/ Complete(Build)'
      /\ step' = "ready"
      /\ UNCHANGED <<key, generated, secret, is_encrypt, calls, used, lost>>
  BY <1>1, Expanding
<1>3. AtPlace' /\ SecretKnown' /\ UnencryptedExplained'
  BY <1>1, <1>2 DEF HeapInv, AtPlace, SecretKnown, UnencryptedExplained
<1> QED
  BY <1>2, <1>3 DEF HeapInv, Steps

\* fnEncryptFile returns without releasing anything.
LEMMA OpenFailsStep == HeapInv /\ OpenFails => HeapInv'
<1> SUFFICES ASSUME HeapInv, OpenFails PROVE HeapInv'
  OBVIOUS
<1>1. /\ step = "ready" /\ step' = "idle" /\ key' = NULL /\ lost' = lost \union CtxBlocks(key)
      /\ generated = NULL
      /\ UNCHANGED <<mem, generated, secret, is_encrypt, calls, used, short>>
  BY DEF OpenFails, HeapInv, AtPlace
<1>2. CtxBlocks(key) \subseteq Heap
  <2>1. CASE key = NULL
    BY <2>1 DEF CtxBlocks
  <2>2. CASE key # NULL /\ Bare
    BY <2>2, Kinds DEF CtxBlocks, KeyBlocks, Bare, HeapInv, Pointer
  <2>3. CASE key # NULL /\ Complete(Build)
    BY <2>3, Kinds DEF CtxBlocks, KeyBlocks, Complete, HeapInv, Pointer
  <2> QED
    BY <1>1, <2>1, <2>2, <2>3 DEF HeapInv, AtPlace
<1>3. LeaksExplained'
  BY <1>1 DEF HeapInv, LeaksExplained
<1>4. AtPlace' /\ SecretKnown' /\ UnencryptedExplained'
  BY <1>1 DEF HeapInv, AtPlace, SecretKnown, UnencryptedExplained
<1> QED
  BY <1>1, <1>2, <1>3, <1>4 DEF HeapInv, Steps, Pointer

\* The blocks go through the key of the build, or an allocation has failed.
LEMMA ProcessBlocksStep == HeapInv /\ ProcessBlocks => HeapInv'
<1> SUFFICES ASSUME HeapInv, ProcessBlocks PROVE HeapInv'
  OBVIOUS
<1>1. /\ step = "ready" /\ step' = "done" /\ generated = NULL
      /\ used' = IF key = NULL THEN AsItIs
                 ELSE IF mem[key].key = NULL THEN AsItIs
                 ELSE mem[mem[mem[key].key].exp_data].holds
      /\ UNCHANGED <<mem, key, generated, secret, is_encrypt, calls, short, lost>>
  BY DEF ProcessBlocks, HeapInv, AtPlace
<1>2. IF key = NULL THEN short ELSE (Bare /\ short) \/ Complete(Build)
  BY <1>1 DEF HeapInv, AtPlace
<1>3. LeaksExplained' /\ Bare' = Bare /\ Complete(Build)' = Complete(Build)
  BY <1>1, SameHeap
<1>4. used' \in {AsItIs, Build} /\ (used' = AsItIs => short')
  <2>1. CASE key = NULL \/ (Bare /\ short)
    <3>1. used' = AsItIs /\ short'
      BY <1>1, <1>2, <2>1, Kinds DEF Bare
    <3> QED
      BY <3>1
  <2>2. CASE key # NULL /\ Complete(Build)
    <3>1. PICK k \in Heap, d \in Heap, e \in Heap :
            mem[key] = Ctx(k) /\ mem[k] = Key(d, e) /\ mem[e] = Expanded(Build)
      BY <2>2 DEF Complete
    <3>2. mem[key].key = k /\ k # NULL /\ mem[k].exp_data = e /\ mem[e].holds = Build
      BY <3>1, Kinds
    <3> QED
      BY <1>1, <2>2, <3>2, UsesDiffer
  <2> QED
    BY <1>2, <2>1, <2>2
<1>5. AtPlace' /\ SecretKnown' /\ UnencryptedExplained'
  BY <1>1, <1>2, <1>3, <1>4 DEF HeapInv, AtPlace, SecretKnown, UnencryptedExplained
<1> QED
  BY <1>1, <1>3, <1>4, <1>5 DEF HeapInv, Steps

\* oaes_free releases every block of the call.
LEMMA KeyDestroyStep == HeapInv /\ KeyDestroy => HeapInv'
<1> SUFFICES ASSUME HeapInv, KeyDestroy PROVE HeapInv'
  OBVIOUS
<1>1. /\ step = "done" /\ step' = "idle" /\ key' = NULL /\ mem' = Released(CtxBlocks(key))
      /\ generated = NULL
      /\ UNCHANGED <<generated, secret, is_encrypt, calls, used, short, lost>>
  BY DEF KeyDestroy, HeapInv, AtPlace
<1>2. DOMAIN mem' = Heap /\ \A b \in Heap : mem'[b] # Unused => b \notin CtxBlocks(key) /\ mem[b] # Unused
  BY <1>1 DEF Released
<1>3. LeaksExplained'
  BY <1>1, <1>2 DEF HeapInv, LeaksExplained
<1>4. AtPlace' /\ SecretKnown' /\ UnencryptedExplained'
  BY <1>1 DEF HeapInv, AtPlace, SecretKnown, UnencryptedExplained
<1> QED
  BY <1>1, <1>2, <1>3, <1>4 DEF HeapInv, Steps, Pointer

LEMMA HeapStep == HeapInv /\ [Next]_vars => HeapInv'
<1> SUFFICES ASSUME HeapInv, [Next]_vars PROVE HeapInv'
  OBVIOUS
<1>1. CASE Next
  BY <1>1, AllocCtxStep, GenWithoutCtxStep, GenKeyStep, GenDataStep, GenExpandStep,
     ImportWithoutCtxStep, ImportKeyStep, ImportDataStep, ImportExpandStep,
     OpenFailsStep, ProcessBlocksStep, KeyDestroyStep DEF Next
<1>2. CASE UNCHANGED vars
  <2>1. LeaksExplained'
    BY <1>2, SameHeap DEF vars
  <2>2. AtPlace' /\ SecretKnown' /\ UnencryptedExplained'
    BY <1>2 DEF vars, HeapInv, AtPlace, Bare, WithKey, WithData, Complete, SecretKnown,
                UnencryptedExplained
  <2> QED
    BY <1>2, <2>1, <2>2 DEF vars, HeapInv
<1> QED
  BY <1>1, <1>2

LEMMA HeapIsKept == Spec => []HeapInv
  BY HeapInit, HeapStep, PTL DEF Spec

\* A context that is complete, or on its way, has only live pointers.
LEMMA HeapTyped == HeapInv => TypeOK
<1> SUFFICES ASSUME HeapInv PROVE TypeOK
  OBVIOUS
<1>1. key # NULL => /\ key \in Heap
                    /\ \/ Bare \/ WithKey
                       \/ \E c \in {Random, Build} : WithData(c) \/ Complete(c)
  BY DEF HeapInv, AtPlace, Pointer, Steps
<1>2. ASSUME NEW k \in Pointer, k # NULL,
             \/ mem[k] = Key(NULL, NULL)
             \/ \E d \in Heap, c \in {Random, Build} :
                  /\ mem[d] = Data(c)
                  /\ mem[k] = Key(d, NULL) \/ \E e \in Heap : mem[k] = Key(d, e) /\ mem[e] = Expanded(c)
      PROVE  IsKey(k)
  BY <1>2, Kinds DEF IsKey
<1>3. key # NULL => mem[key].kind = "ctx"
  BY <1>1, Kinds DEF Bare, WithKey, WithData, Complete
<1>4. key # NULL /\ mem[key].key # NULL => IsKey(mem[key].key)
  <2> SUFFICES ASSUME key # NULL, mem[key].key # NULL PROVE IsKey(mem[key].key)
    OBVIOUS
  <2>1. ~Bare
    BY Kinds DEF Bare
  <2>2. CASE WithKey
    <3>1. PICK k \in Heap : mem[key] = Ctx(k) /\ mem[k] = Key(NULL, NULL)
      BY <2>2 DEF WithKey
    <3>2. mem[key].key = k /\ k # NULL /\ k \in Pointer
      BY <3>1, Kinds DEF Pointer
    <3>3. IsKey(k)
      BY <1>2, <3>1, <3>2
    <3> QED
      BY <3>2, <3>3
  <2>3. ASSUME NEW c \in {Random, Build}, WithData(c) PROVE IsKey(mem[key].key)
    <3>1. PICK k \in Heap, d \in Heap : mem[key] = Ctx(k) /\ mem[k] = Key(d, NULL) /\ mem[d] = Data(c)
      BY <2>3 DEF WithData
    <3>2. mem[key].key = k /\ k # NULL /\ k \in Pointer
      BY <3>1, Kinds DEF Pointer
    <3>3. IsKey(k)
      BY <1>2, <3>1, <3>2
    <3> QED
      BY <3>2, <3>3
  <2>4. ASSUME NEW c \in {Random, Build}, Complete(c) PROVE IsKey(mem[key].key)
    <3>1. PICK k \in Heap, d \in Heap, e \in Heap :
            mem[key] = Ctx(k) /\ mem[k] = Key(d, e) /\ mem[d] = Data(c) /\ mem[e] = Expanded(c)
      BY <2>4 DEF Complete
    <3>2. mem[key].key = k /\ k # NULL /\ k \in Pointer
      BY <3>1, Kinds DEF Pointer
    <3>3. IsKey(k)
      BY <1>2, <3>1, <3>2
    <3> QED
      BY <3>2, <3>3
  <2> QED
    BY <1>1, <2>1, <2>2, <2>3, <2>4
<1>5. generated # NULL => IsKey(generated)
  BY <1>2 DEF HeapInv, AtPlace
<1>6. secret \in [0..KeyLen - 1 -> Byte]
  BY MaskedTwice DEF HeapInv, SecretKnown
<1>7. used \in Contents \union {Nothing, AsItIs}
  BY MaskedTwice DEF HeapInv, Contents, Build
<1>8. key # NULL => /\ key \in Heap /\ mem[key].kind = "ctx"
                    /\ mem[key].key # NULL => IsKey(mem[key].key)
  <2>1. key # NULL => key \in Heap
    BY DEF HeapInv, Pointer
  <2>2. ASSUME key # NULL
        PROVE  key \in Heap /\ mem[key].kind = "ctx" /\ (mem[key].key # NULL => IsKey(mem[key].key))
    BY ONLY <1>3, <1>4, <2>1, <2>2
  <2> QED
    BY ONLY <2>2
<1> QED
  BY <1>5, <1>6, <1>7, <1>8 DEF HeapInv, TypeOK
-----------------------------------------------------------------------------
\* oaes_lib.c: whichever calloc fails, every pointer that is still used points
\* to a live block of its kind.
THEOREM PointersAreLive == Spec => []TypeOK
  BY HeapIsKept, HeapTyped, PTL

\* KeyAlloc makes a random key, destroys it and imports the key of the build,
\* and looks at no result: no block goes through any other key.
THEOREM NoOtherKey == Spec => []OnlyTheKeyOfTheBuild
<1>1. HeapInv => OnlyTheKeyOfTheBuild
  BY DEF HeapInv, OnlyTheKeyOfTheBuild, Build
<1> QED
  BY <1>1, HeapIsKept, PTL

\* fnEncryptFile and fnDecryptBuffer leave the blocks as they are only if an
\* allocation of this call failed.
THEOREM PlainBlocksExplained == Spec => []UnencryptedExplained
<1>1. HeapInv => UnencryptedExplained
  BY DEF HeapInv
<1> QED
  BY <1>1, HeapIsKept, PTL

\* Nothing is leaked but what the two error returns drop.
THEOREM LeaksAreTheKnownOnes == Spec => []LeaksExplained
<1>1. HeapInv => LeaksExplained
  BY DEF HeapInv
<1> QED
  BY <1>1, HeapIsKept, PTL
=============================================================================
