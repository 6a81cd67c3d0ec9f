------------------------------ MODULE OaesTool -------------------------------
(***************************************************************************)
(* The command line tool of OpenAES (openaes/src/oaes.c): gen-key,         *)
(* aes-enc and aes-dec with --key-file, base64-enc and base64-dec.         *)
(*                                                                         *)
(* main reads the input in chunks into a ring of slots and starts a thread *)
(* on each.  When the ring is full, and at the end of the input, it waits  *)
(* for the threads in the order of the slots and writes what they left.    *)
(*                                                                         *)
(* The user encodes "plain" to "coded" and decodes that to "back", in as   *)
(* many runs as it takes.  A command that is refused (no input, no valid   *)
(* key file, an output that exists) changes nothing and is no step.        *)
(***************************************************************************)
EXTENDS OaesMessage, FiniteSets

CONSTANTS
  Slots,         \* OAES_THREADS
  EncLen(_),     \* bytes read at a time to encode; _ is "aes" or "base64"
  DecLen(_),     \* and to decode
  Inputs,        \* contents of "plain"
  Keys,          \* what oaes_key_gen draws
  IVs,           \* initialisation vectors of a fresh context, in CBC
  Faults,        \* subset of {"kill", "start", "memory"}
  MaxRuns,       \* bound: commands given
  MaxFaults,     \* bound: faults
  Missing,       \* contents of a file that does not exist
  Unset          \* out of a slot that was never set

ASSUME ToolAssumption ==
  /\ Slots \in Nat \ {0}
  /\ EncLen("aes") = DecLen("aes") - 2 * Block
  /\ KeyLens \subseteq Nat \ {0}
  /\ Keys \subseteq Seq(Nat) /\ \A k \in Keys : Len(k) \in KeyLens
  /\ Inputs \subseteq Seq(Nat) /\ IVs # {}
  /\ Missing \notin Inputs /\ Unset # <<>>

\* OAES_AES_LEN_ENC is a number of blocks, OAES_BASE64_LEN_ENC one of groups.
ASSUME FormatAssumption ==
  /\ \A f \in {"aes", "base64"} : EncLen(f) \in Nat \ {0} /\ DecLen(f) \in Nat
  /\ EncLen("aes") % Block = 0 /\ EncLen("base64") % 3 = 0
  /\ 3 * DecLen("base64") = 4 * EncLen("base64")
  /\ Inputs \subseteq Seq(Byte) /\ IVs \subseteq Blocks
  /\ Unset \notin Seq(Nat) /\ MaxRuns \in Nat /\ MaxFaults \in Nat

-----------------------------------------------------------------------------
(* What the threads compute of one chunk.                                   *)

\* At most n bytes of s, from offset a on: what fread returns.
Piece(s, n, a) == SubSeq(s, a + 1, IF Len(s) < a + n THEN Len(s) ELSE a + n)

\* f is the family of the command, see below.
Encoded(f, ecb, iv, key, m) ==
  IF f = "base64" THEN oaes_base64_encode(m)
  ELSE oaes_encrypt(IF ecb THEN ECB ELSE CBC, iv, key, m)
Decoded(f, key, c) == IF f = "base64" THEN oaes_base64_decode(c) ELSE oaes_decrypt(key, c)

KeysOf(f) == IF f = "aes" THEN Keys ELSE {NoKey}

\* c is right as the code of the chunk p: a whole chunk fills one of the decoder,
\* no code is longer, decoding it gives p back, and decoding a beginning of it
\* a beginning of p.
ChunkLaw(f, k, p, c) ==
  /\ c \in Seq(Nat) /\ c # Unset
  /\ Len(c) \in 1..DecLen(f)
  /\ Len(p) = EncLen(f) => Len(c) = DecLen(f)
  /\ Decoded(f, k, c) = p
  /\ \A n \in 1..Len(c) :
       LET d == Decoded(f, k, SubSeq(c, 1, n))
       IN  d # Unset /\ \E l \in 0..Len(p) : d = SubSeq(p, 1, l)

\* What main relies on: every code of every chunk of an input is right.
ChunkLaws ==
  \A f \in {"aes", "base64"} :
    /\ EncLen(f) \in Nat \ {0} /\ DecLen(f) \in Nat \ {0}
    /\ \A m \in Inputs : \A a \in 0..(Len(m) - 1) :
       \A ecb \in BOOLEAN, iv \in IVs \union {Zeros(Block)}, k \in KeysOf(f) :
         LET p == Piece(m, EncLen(f), a)
         IN  ChunkLaw(f, k, p, Encoded(f, ecb, iv, k, p))

VARIABLES
  files,       \* contents of the four files
  mark,        \* is it the result of all its input: "whole", "cut", or "holed"
  family,      \* which commands the user uses: "aes" or "base64"
  op,          \* the command being run: "gen", "enc", "dec"
  pc,          \* where main is: "idle" (no process), "key", "read", "join", "drain"
  isEcb,       \* _is_ecb
  keyData,     \* _key_data
  at,          \* how much of the input is read
  i, j,        \* _i and _j
  slots,       \* _b
  runs, faults

vars == <<files, mark, family, op, pc, isEcb, keyData, at, i, j, slots, runs, faults>>
main == <<family, op, isEcb, keyData, runs>>

Ring == 0..(Slots - 1)
Coding == {"enc", "dec"}
In(o)  == IF o = "enc" THEN "plain" ELSE "coded"
Out(o) == CASE o = "gen" -> "key" [] o = "enc" -> "coded" [] OTHER -> "back"

\* Mutant: the decoder reads chunks of the size the encoder reads.
OneReadLen == EncLen(family)

ReadLen == IF op = "enc" THEN EncLen(family) ELSE DecLen(family)

Fresh == [s \in Ring |-> [id |-> "none", in |-> <<>>, out |-> Unset]]

Init ==
  /\ \E m \in Inputs :
       files = [f \in {"plain", "key", "coded", "back"} |-> IF f = "plain" THEN m ELSE Missing]
  /\ mark = [f \in {"plain", "key", "coded", "back"} |-> "whole"]
  /\ family \in {"aes", "base64"}
  /\ op = "gen" /\ pc = "idle" /\ isEcb = FALSE /\ keyData = NoKey
  /\ at = 0 /\ i = 0 /\ j = 0 /\ slots = Fresh
  /\ runs = 0 /\ faults = 0

-----------------------------------------------------------------------------
(* Starting a command.                                                      *)

\* Mutant: an existing file is written over.
WriteOver(f) == TRUE

\* access(f, 00) fails.
Writable(f) == files[f] = Missing

\* gen-key up to fopen: the key is written when the file is closed.
GenerateKey ==
  /\ pc = "idle" /\ runs < MaxRuns /\ family = "aes"
  /\ Writable("key")
  /\ \E k \in Keys : keyData' = k
  /\ files' = [files EXCEPT !["key"] = <<>>]
  /\ mark' = [mark EXCEPT !["key"] = "cut"]
  /\ op' = "gen" /\ pc' = "key" /\ runs' = runs + 1
  /\ UNCHANGED <<family, isEcb, at, i, j, slots, faults>>

WriteKey ==
  /\ pc = "key"
  /\ files' = [files EXCEPT !["key"] = oaes_key_export(keyData)]
  /\ mark' = [mark EXCEPT !["key"] = "whole"]
  /\ keyData' = NoKey /\ pc' = "idle"
  /\ UNCHANGED <<family, op, isEcb, at, i, j, slots, runs, faults>>

\* --key-file: the data of the key, NoKey if the file is none.
ImportedKey ==
  IF files["key"] = Missing THEN NoKey ELSE oaes_key_import(files["key"])

\* The options are read, the key file imported, the files opened.  An output
\* that is not finished counts as cut.
Start(o, ecb) ==
  /\ pc = "idle" /\ runs < MaxRuns
  /\ files[In(o)] # Missing
  /\ family = "aes" => ImportedKey # NoKey
  /\ ecb => family = "aes"
  /\ Writable(Out(o))
  /\ keyData' = IF family = "aes" THEN ImportedKey ELSE NoKey
  /\ isEcb' = ecb
  /\ files' = [files EXCEPT ![Out(o)] = <<>>]
  /\ mark' = [mark EXCEPT ![Out(o)] = IF mark[In(o)] = "holed" THEN "holed" ELSE "cut"]
  /\ op' = o /\ pc' = "read" /\ at' = 0 /\ i' = 0 /\ j' = 0 /\ slots' = Fresh
  /\ runs' = runs + 1
  /\ UNCHANGED <<family, faults>>

-----------------------------------------------------------------------------
(* The ring.                                                                *)

Fault(f) == f \in Faults /\ faults < MaxFaults /\ faults' = faults + 1
LoseChunk == mark' = [mark EXCEPT ![Out(op)] = "holed"]

Chunk == Piece(files[In(op)], ReadLen, at)

\* Mutant: the ring has no end.
NextUnbounded == i + 1

NextSlot == (i + 1) % Slots

\* The next chunk goes to slot i.  A thread that cannot be started leaves its
\* slot without one, or with whatever pthread_create has put there, and main
\* goes on.
Fill(full) ==
  /\ pc = "read" /\ Chunk # <<>>
  /\ \/ /\ slots' = [slots EXCEPT ![i].in = Chunk, ![i].id = "running"]
        /\ UNCHANGED <<mark, faults>>
     \/ /\ Fault("start") /\ LoseChunk
        /\ \E id \in {"none", "dangling"} :
             slots' = [slots EXCEPT ![i].in = Chunk, ![i].id = id]
  /\ at' = at + Len(Chunk)
  /\ i' = NextSlot
  /\ j' = 0
  /\ pc' = IF i = full THEN "join" ELSE "read"
  /\ UNCHANGED <<main, files>>

\* Mutant: the ring is never taken for full.
ReadOn == Fill(Slots)

Read == Fill(Slots - 1)

EndOfInput ==
  /\ pc = "read" /\ Chunk = <<>>
  /\ slots' = [slots EXCEPT ![i].in = <<>>]
  /\ pc' = "drain" /\ j' = 0
  /\ UNCHANGED <<main, files, mark, at, i, faults>>

\* What a thread leaves in out; <<>> also stands for NULL.
Converted(m, iv) ==
  IF op = "enc" THEN Encoded(family, isEcb, iv, keyData, m) ELSE Decoded(family, keyData, m)

\* oaes_set_option clears the vector of a fresh context for --ecb.
FreshIVs == IF isEcb THEN {Zeros(Block)}
            ELSE IF family = "aes" /\ op = "enc" THEN IVs ELSE {CHOOSE iv \in IVs : TRUE}

\* What the first call of oaes_encrypt or oaes_decrypt says of the size of out.
Size(m) ==
  IF op = "enc" THEN 2 * Block + Len(m) + Len(Padding(m))
  ELSE IF Len(m) % Block = 0 /\ Len(m) >= 2 * Block THEN Len(m) - 2 * Block ELSE 0

\* One of _do_base64_encode, _do_base64_decode, _do_aes_encrypt and
\* _do_aes_decrypt.  Without memory for the key, which nobody asks about, the
\* second call leaves the zeros of the calloc; without memory for the context
\* out is not even set.
Work(s) ==
  /\ slots[s].id = "running"
  /\ \/ /\ \E iv \in FreshIVs : slots' = [slots EXCEPT ![s].id = "done",
                                                      ![s].out = Converted(slots[s].in, iv)]
        /\ UNCHANGED <<mark, faults>>
     \/ /\ Fault("memory") /\ LoseChunk
        /\ \/ slots' = [slots EXCEPT ![s].id = "done", ![s].out = <<>>]
           \/ /\ family = "aes"
              /\ slots' = [slots EXCEPT ![s].id = "done", ![s].out = Zeros(Size(slots[s].in))]
           \/ family = "aes" /\ slots' = [slots EXCEPT ![s].id = "done"]
  /\ UNCHANGED <<main, files, pc, at, i, j>>

Joining == \/ pc = "join" /\ j < Slots
           \/ pc = "drain" /\ j < i

\* Slot j is written if a thread was started on it.  Unset is whatever the
\* stack holds: NULL, which is skipped, or an address (see Crash).
Write(ready) ==
  /\ Joining /\ ready
  /\ files' = IF slots[j].id = "none" \/ slots[j].out = Unset THEN files
              ELSE [files EXCEPT ![Out(op)] = @ \o slots[j].out]
  /\ slots' = IF slots[j].id = "none" THEN slots
              ELSE [slots EXCEPT ![j].id = "none",
                                 ![j].out = IF @ = Unset THEN Unset ELSE <<>>]
  /\ j' = j + 1
  /\ UNCHANGED <<main, mark, pc, at, i, faults>>

\* Mutants: main does not wait for the thread, or waits for one that was
\* never started.
JoinAtOnce  == Write(TRUE)
JoinNothing == Write(slots[j].id = "done")

Join == Write(slots[j].id # "running")

RingWritten ==
  /\ pc = "join" /\ j = Slots
  /\ pc' = "read"
  /\ UNCHANGED <<main, files, mark, at, i, j, slots, faults>>

\* Files closed, exit status 0, whatever the threads met.
Finish ==
  /\ pc = "drain" /\ j = i
  /\ mark' = [mark EXCEPT ![Out(op)] =
                IF @ = "cut" /\ mark[In(op)] = "whole" THEN "whole" ELSE @]
  /\ pc' = "idle" /\ keyData' = NoKey /\ isEcb' = FALSE
  /\ at' = 0 /\ i' = 0 /\ j' = 0 /\ slots' = Fresh
  /\ UNCHANGED <<files, family, op, runs, faults>>

-----------------------------------------------------------------------------
(* What ends a process early, and what the user does about it.              *)

\* Some of what was written has reached the disk.
Die ==
  /\ \E n \in 0..Len(files[Out(op)]) : files' = [files EXCEPT ![Out(op)] = SubSeq(@, 1, n)]
  /\ pc' = "idle" /\ keyData' = NoKey /\ isEcb' = FALSE
  /\ at' = 0 /\ i' = 0 /\ j' = 0 /\ slots' = Fresh
  /\ UNCHANGED <<mark, family, op, runs>>

Kill == pc # "idle" /\ Fault("kill") /\ Die

\* main joins a thread that is none, or writes and frees what an unset out
\* points to.
Crash ==
  /\ Joining
  /\ slots[j].id = "dangling" \/ (slots[j].id = "done" /\ slots[j].out = Unset)
  /\ Die /\ UNCHANGED faults

\* The user removes an output that is not whole.
Discard(f) ==
  /\ pc = "idle" /\ files[f] # Missing /\ mark[f] # "whole"
  /\ files' = [files EXCEPT ![f] = Missing]
  /\ mark' = [mark EXCEPT ![f] = "whole"]
  /\ UNCHANGED <<family, op, pc, isEcb, keyData, at, i, j, slots, runs, faults>>

Step == Read \/ EndOfInput \/ Join \/ RingWritten \/ Finish \/ WriteKey

Next ==
  \/ GenerateKey
  \/ \E o \in Coding, ecb \in BOOLEAN : Start(o, ecb)
  \/ Step
  \/ \E s \in Ring : Work(s)
  \/ Kill \/ Crash
  \/ \E f \in {"key", "coded", "back"} : Discard(f)

Spec == Init /\ [][Next]_vars

\* main and the threads run on.
FairSpec == Spec /\ WF_vars(Step) /\ \A s \in Ring : WF_vars(Work(s))

-----------------------------------------------------------------------------
\* Every variable has its type; oaes.c's indices stay within the ring.
TypeOK ==
  /\ \A f \in DOMAIN files : files[f] = Missing \/ Len(files[f]) \in Nat
  /\ mark \in [{"plain", "key", "coded", "back"} -> {"whole", "cut", "holed"}]
  /\ family \in {"aes", "base64"} /\ op \in {"gen", "enc", "dec"}
  /\ pc \in {"idle", "key", "read", "join", "drain"}
  /\ isEcb \in BOOLEAN /\ keyData \in Keys \union {NoKey}
  /\ at \in Nat /\ i \in Ring /\ j \in 0..Slots
  /\ \A s \in Ring : slots[s].id \in {"none", "running", "done", "dangling"}
  /\ runs \in 0..MaxRuns /\ faults \in 0..MaxFaults

\* Decoding a file that was encoded with no fault gives the file back, with
\* or without --ecb, over any number of rings, with the key of gen-key that
\* was never replaced.
RoundTrip ==
  files["back"] # Missing /\ mark["back"] = "whole" => files["back"] = files["plain"]

\* As long as no thread failed, what the tool has decoded so far is the
\* beginning of the original, even from an encoded file cut anywhere.
OutputIsPrefix ==
  files["back"] # Missing /\ mark["back"] # "holed" => IsPrefix(files["back"], files["plain"])

\* main does not touch the slot of a thread that runs (fread reads straight
\* into it); it takes the output before it fills the slot again.
SlotKept ==
  [][\A s \in Ring : pc # "idle" /\ pc' # "idle" =>
       /\ slots[s].id = "running" => slots'[s].in = slots[s].in
       /\ slots[s].id = "done" /\ slots'[s].id # "done" => j' = s + 1 /\ Joining]_vars

\* A command ends: main waits for no thread that was not started.
CommandsEnd == pc # "idle" ~> pc = "idle"
=============================================================================
