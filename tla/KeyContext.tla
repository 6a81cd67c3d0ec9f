------------------------------ MODULE KeyContext ------------------------------
(***************************************************************************)
(* The AES key of one call of fnEncryptFile or fnDecryptBuffer, from        *)
(* KeyAlloc to KeyDestroy (src/pyconcrete_ext/pyconcrete.c), with the heap  *)
(* blocks that oaes_lib.c allocates and frees for it, a step per calloc.    *)
(* The blocks of data themselves are PyeCodec's.                            *)
(***************************************************************************)
EXTENDS Integers, FiniteSets

CONSTANTS
  Heap, NULL,     \* addresses of heap blocks; no block
  Byte, ByteXor(_,_),
  KeyLen,         \* SECRET_KEY_LEN
  Digest,         \* k of hash_key, the bytes of the key
  PassphraseSum,  \* the sum of the bytes of the passphrase
  MaxCalls        \* bound: calls of the extension module

ASSUME HeapAssumption == NULL \notin Heap
ASSUME KeyAssumption ==
  /\ KeyLen \in 0..16 /\ Digest \in [0..KeyLen - 1 -> Byte]
  /\ PassphraseSum \in Nat /\ MaxCalls \in Nat
ASSUME XorAssumption ==
  \A a \in Byte, b \in 1..127 : ByteXor(a, b) \in Byte /\ ByteXor(ByteXor(a, b), b) = a

VARIABLES
  mem,         \* the heap
  key,         \* key of the call, an oaes_ctx
  generated,   \* _key of oaes_key_gen
  secret,      \* key[] of GetSecretKey
  is_encrypt,  \* is_encrypt of GetSecretKey
  step,        \* where the call is
  calls,
  used,        \* history: what the blocks of the call went through
  short,       \* history: an allocation of this call has failed
  lost         \* history: blocks that error returns dropped

vars == <<mem, key, generated, secret, is_encrypt, step, calls, used, short, lost>>

-----------------------------------------------------------------------------
(* The heap.  A block is free, an oaes_ctx, an oaes_key or some bytes.       *)

Pointer  == Heap \union {NULL}
Contents == {[of |-> "random"]} \union [of : {"secret"}, bytes : [0..KeyLen - 1 -> Byte]]

Unused   == [kind |-> "free"]
Ctx(k)       == [kind |-> "ctx", key |-> k]
Key(d, e)    == [kind |-> "key", data |-> d, exp_data |-> e]
Data(c)      == [kind |-> "data", holds |-> c]
Expanded(c)  == [kind |-> "exp_data", holds |-> c]

Free == {a \in Heap : mem[a] = Unused}

\* calloc may fail at any time, and fails when there is no room.
Calloc == Free \union {NULL}

KeyBlocks(k) == IF k = NULL THEN {} ELSE {k, mem[k].data, mem[k].exp_data} \ {NULL}
CtxBlocks(p) == IF p = NULL THEN {} ELSE {p} \union KeyBlocks(mem[p].key)

Released(blocks) == [a \in Heap |-> IF a \in blocks THEN Unused ELSE mem[a]]

\* Mutant: the pointer to the key is left in the context.
KeyDestroyedKept == Released(KeyBlocks(mem[key].key))

\* oaes_key_destroy of the key of the context.
KeyDestroyed == [Released(KeyBlocks(mem[key].key)) EXCEPT ![key] = Ctx(NULL)]

-----------------------------------------------------------------------------
(* The key of the build: hash_key and create_secret_key_header hide it,      *)
(* GetSecretKey uncovers it in place.                                        *)

factor == LET f == PassphraseSum % 128 IN IF f < 16 THEN f + 16 ELSE f

Masked(bytes) == [j \in 0..KeyLen - 1 |-> ByteXor(bytes[j], factor - j)]

\* Mutant: the flag is not reset.
GetSecretKeyAgain ==
  /\ secret' = IF is_encrypt THEN Masked(secret) ELSE secret
  /\ UNCHANGED is_encrypt

GetSecretKey ==
  /\ secret' = IF is_encrypt THEN Masked(secret) ELSE secret
  /\ is_encrypt' = FALSE

-----------------------------------------------------------------------------
Nothing == [of |-> "nothing"]
AsItIs  == [of |-> "none"]

Init ==
  /\ mem = [a \in Heap |-> Unused]
  /\ key = NULL /\ generated = NULL
  /\ secret = Masked(Digest) /\ is_encrypt = TRUE
  /\ step = "idle" /\ calls = 0
  /\ used = Nothing /\ short = FALSE /\ lost = {}

Allocated(a) == short' = (short \/ a = NULL)

\* oaes_alloc.
AllocCtx ==
  /\ step = "idle" /\ calls < MaxCalls
  /\ \E a \in Calloc :
       /\ key' = a
       /\ mem' = IF a = NULL THEN mem ELSE [mem EXCEPT ![a] = Ctx(NULL)]
       /\ short' = (a = NULL)
  /\ step' = "gen" /\ calls' = calls + 1 /\ used' = Nothing
  /\ UNCHANGED <<generated, secret, is_encrypt, lost>>

\* oaes_key_gen, whose result KeyAlloc does not look at.
GenWithoutCtx ==
  /\ step = "gen" /\ key = NULL
  /\ step' = "import"
  /\ UNCHANGED <<mem, key, generated, secret, is_encrypt, calls, used, short, lost>>

GenKey ==
  /\ step = "gen" /\ key # NULL
  /\ \E a \in Calloc :
       /\ Allocated(a)
       /\ IF a = NULL THEN step' = "import" /\ UNCHANGED <<mem, generated>>
          ELSE /\ step' = "genData"
               /\ generated' = a
               /\ mem' = [KeyDestroyed EXCEPT ![a] = Key(NULL, NULL)]
  /\ UNCHANGED <<key, secret, is_encrypt, calls, used, lost>>

\* Without room for the data the new key is dropped: it is not yet the key of
\* the context.
GenData ==
  /\ step = "genData"
  /\ \E a \in Calloc :
       /\ Allocated(a)
       /\ IF a = NULL THEN step' = "import" /\ lost' = lost \union {generated} /\ UNCHANGED mem
          ELSE /\ step' = "genExpand"
               /\ mem' = [mem EXCEPT ![a] = Data([of |-> "random"]), ![generated] = Key(a, NULL),
                                     ![key] = Ctx(generated)]
               /\ UNCHANGED lost
  /\ generated' = NULL
  /\ UNCHANGED <<key, secret, is_encrypt, calls, used>>

\* oaes_key_expand of the key of the context, which is destroyed if that fails.
Expand(next) ==
  LET k == mem[key].key IN
  /\ \E a \in Calloc :
       /\ Allocated(a)
       /\ mem' = IF a = NULL THEN KeyDestroyed
                 ELSE [mem EXCEPT ![a] = Expanded(mem[mem[k].data].holds),
                                  ![k] = Key(mem[k].data, a)]
  /\ step' = next
  /\ UNCHANGED <<key, generated, secret, is_encrypt, calls, used, lost>>

GenExpand == step = "genExpand" /\ Expand("import")

-----------------------------------------------------------------------------
\* oaes_key_import_data; its argument GetSecretKey() is called in any case.
ImportWithoutCtx ==
  /\ step = "import" /\ key = NULL
  /\ GetSecretKey
  /\ step' = "ready"
  /\ UNCHANGED <<mem, key, generated, calls, used, short, lost>>

ImportKey ==
  /\ step = "import" /\ key # NULL
  /\ GetSecretKey
  /\ \E a \in {b \in Heap : KeyDestroyed[b] = Unused} \union {NULL} :
       /\ Allocated(a)
       /\ mem' = IF a = NULL THEN KeyDestroyed
                 ELSE [KeyDestroyed EXCEPT ![a] = Key(NULL, NULL), ![key] = Ctx(a)]
       /\ step' = IF a = NULL THEN "ready" ELSE "importData"
  /\ UNCHANGED <<key, generated, calls, used, lost>>

ImportData ==
  /\ step = "importData"
  /\ \E a \in Calloc :
       /\ Allocated(a)
       /\ mem' = IF a = NULL THEN KeyDestroyed
                 ELSE [mem EXCEPT ![a] = Data([of |-> "secret", bytes |-> secret]),
                                  ![mem[key].key] = Key(a, NULL)]
       /\ step' = IF a = NULL THEN "ready" ELSE "importExpand"
  /\ UNCHANGED <<key, generated, secret, is_encrypt, calls, used, lost>>

\* Mutant: an expansion that succeeds is taken for one that failed.
ImportExpandInverted ==
  /\ step = "importExpand"
  /\ step' = "ready" /\ mem' = KeyDestroyed
  /\ UNCHANGED <<key, generated, secret, is_encrypt, calls, used, short, lost>>

ImportExpand == step = "importExpand" /\ Expand("ready")

-----------------------------------------------------------------------------
\* fnEncryptFile returns at once when a file cannot be opened.
OpenFails ==
  /\ step = "ready"
  /\ step' = "idle"
  /\ key' = NULL /\ lost' = lost \union CtxBlocks(key)
  /\ UNCHANGED <<mem, generated, secret, is_encrypt, calls, used, short>>

\* oaes_encrypt_block or oaes_decrypt_block on every block, whose result is
\* not looked at: without a key they leave the block as it is.
ProcessBlocks ==
  /\ step = "ready"
  /\ step' = "done"
  /\ used' = IF key = NULL THEN AsItIs
             ELSE IF mem[key].key = NULL THEN AsItIs
             ELSE mem[mem[mem[key].key].exp_data].holds
  /\ UNCHANGED <<mem, key, generated, secret, is_encrypt, calls, short, lost>>

\* Mutant: the context is freed without its key.
KeyDestroyCtxOnly ==
  /\ step = "done"
  /\ step' = "idle"
  /\ mem' = Released({key}) /\ key' = NULL
  /\ UNCHANGED <<generated, secret, is_encrypt, calls, used, short, lost>>

\* oaes_free.
KeyDestroy ==
  /\ step = "done"
  /\ step' = "idle"
  /\ mem' = Released(CtxBlocks(key)) /\ key' = NULL
  /\ UNCHANGED <<generated, secret, is_encrypt, calls, used, short, lost>>

Next ==
  \/ AllocCtx
  \/ GenWithoutCtx \/ GenKey \/ GenData \/ GenExpand
  \/ ImportWithoutCtx \/ ImportKey \/ ImportData \/ ImportExpand
  \/ OpenFails \/ ProcessBlocks \/ KeyDestroy

Spec == Init /\ [][Next]_vars

-----------------------------------------------------------------------------
Steps == {"idle", "gen", "genData", "genExpand", "import", "importData", "importExpand",
          "ready", "done"}

IsKey(k) ==
  /\ mem[k].kind = "key"
  /\ mem[k].data # NULL => mem[mem[k].data].kind = "data"
  /\ mem[k].exp_data # NULL => mem[mem[k].exp_data].kind = "exp_data"

\* Every pointer that is still used points to a live block of its kind.
TypeOK ==
  /\ DOMAIN mem = Heap
  /\ key # NULL => /\ key \in Heap /\ mem[key].kind = "ctx"
                   /\ mem[key].key # NULL => IsKey(mem[key].key)
  /\ generated # NULL => IsKey(generated)
  /\ secret \in [0..KeyLen - 1 -> Byte] /\ is_encrypt \in BOOLEAN
  /\ step \in Steps /\ calls \in 0..MaxCalls
  /\ used \in Contents \union {Nothing, AsItIs}
  /\ short \in BOOLEAN /\ lost \subseteq Heap

\* Blocks go through the key of the build or through none: never through the
\* random key oaes_key_gen made before it, a masked one or one of an earlier
\* call.
OnlyTheKeyOfTheBuild ==
  used \in {Nothing, AsItIs} \/ used = [of |-> "secret", bytes |-> Digest]

\* Blocks stay as they are only when an allocation of this very call failed.
UnencryptedExplained == used = AsItIs => short

\* What is allocated belongs to the call that runs, or was dropped by an
\* error return: every other way releases it, also when allocations fail.
LeaksExplained ==
  \A a \in Heap : mem[a] # Unused => a \in CtxBlocks(key) \union {generated} \union lost
=============================================================================
