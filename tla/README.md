# Formal model of pyconcrete

pyconcrete encrypts compiled Python modules (`.pyc` -> `.pye`), and lets an
embedded interpreter import and run them, from directories and from zip
archives. This directory holds TLA+ models of its core logic, the TLC
configurations that check them on small instances, and TLAPS proofs of the
properties that matter most. Source paths below are relative to the
repository.

- [The system](#the-system): components, interactions, what is hard
- [The modules](#the-modules): which module models what, action by action
- [The runs](#the-runs): what TLC checks, the bounds, the fairness
- [Where code and documents disagree](#where-code-and-documents-disagree)
- [The proofs](#the-proofs): what TLAPS proves, from what, and how
- [Limits](#limits): what is only model-checked, what is not modelled
- [Plan](#plan)

## The system

| component | source | state | operations |
|---|---|---|---|
| import hook for archives | `src/pyconcrete/__init__.py`, `PyeZipImporter` | `_zip_directory_cache`, `_negative_cache`, `_cache_lock` (shared by all threads); `sys.path_importer_cache` of the import system | `__init__`, `find_spec`, `create_module`, `exec_module`, `invalidate_caches` |
| `pyecli compile` | `src/pyecli/pyecli.py` | the `.py`, `.pyc`, `.pye` files and their time stamps | `compile`, `_compile_pyc_file`, `_compile_pye_file` |
| `.pye` codec | `src/pyconcrete_ext/pyconcrete.c` | buffers, stream position, loop variables | `fnEncryptFile`, `fnDecryptBuffer` |
| AES | `src/pyconcrete_ext/openaes/src/oaes_lib.c` | block, round, expanded key | `oaes_encrypt_block`, `oaes_decrypt_block`, `oaes_key_expand` |
| key context | `pyconcrete.c`, `oaes_lib.c` | the context, its key and its buffers on the heap | `KeyAlloc`, `KeyDestroy`, `oaes_alloc`, `oaes_key_gen_128`, `oaes_key_import_data`, `oaes_key_expand`, `oaes_free` |
| secret key | `meson_utility/gen_secret_key.py` | key bytes of the generated header, `is_encrypt` | `create_secret_key_header`, `GetSecretKey` |
| `pyecli build-zip` | `src/pyecli/pyecli.py` | a source tree, a working copy, the `.pyz` | `build_zip`, directory walk, ignore patterns |
| loader and entry points | `src/pyconcrete/__init__.py` | none | `PyeLoader`, `run_pye`, `run_pyz`, `install` |
| OpenAES tool and formats | `openaes/src/oaes.c`, `oaes_lib.c`, `oaes_base64.c` | a ring of slots shared with threads, key file, input and output | `gen-key`, `aes-enc`, `aes-dec`, `base64-enc`, `base64-dec` |
| launcher | `src/pyconcrete_exe/pyconcrete_exe.c`, `src/pyecli/pyecli_wrap.c` | interpreter state, pending exception, exit code | `main`, `runFile`, `runPyzFile`, `isZipFile` |

### How the components interact

- The import system calls `PyeZipImporter(path)` through `sys.path_hooks`
  when `sys.path_importer_cache` knows no finder for a path item, keeps the
  finder there, and asks it for modules (`find_spec`, then `exec_module`).
  `importlib.invalidate_caches()` calls `invalidate_caches` of every finder it
  has kept. An `ImportError` of the constructor sends the import system on to
  `zipimport.zipimporter`, which knows no `.pye`.
- All threads share the three class attributes of `PyeZipImporter`. Other
  programs rewrite the archives meanwhile.
- `pyecli compile` and `build-zip` call `encrypt_file`, which is
  `fnEncryptFile`; the loaders call `decrypt_buffer`, which is
  `fnDecryptBuffer`. Both make a key context with `KeyAlloc`, pass every block
  through `oaes_encrypt_block` or `oaes_decrypt_block`, and give the context
  back with `KeyDestroy`.
- `KeyAlloc` takes the key from `GetSecretKey`, which the header generated by
  `gen_secret_key.py` defines.
- The launcher starts an interpreter, calls `install`, and runs one file with
  `run_pye` or `run_pyz`. `pyecli` is an executable of the same kind that runs
  its own script.
- `build-zip` calls `compile` on a working copy of the tree and packs what has
  the extension `.pye`; the archive is what the launcher runs, or what the import
  hook reads.
- The OpenAES tool comes with the vendored library and shares its blocks and
  keys, not its users: pyconcrete does not call it.

### What is hard, and what makes each component correct

**Import hook.** The cache of listings is checked without the lock and again
under it, filled under it, cleared under it; the negative cache is written
without it; a finder outlives the listing it depends on; `find_spec` and
`exec_module` look the member up separately; the archive changes on disk at any
moment. Correct means: the lock is held exactly where it should be, a cached
listing is not older than the last invalidation, no archive is read twice,
imports agree with the archive as long as nothing disturbs them, and an import
that fails in `exec_module` was really disturbed.

**`pyecli compile`.** A run is a series of file operations decided by time
stamps, and any of them can be the last one. It may remove the source, so that
the worst outcome is the loss of the user's work. Correct means: a source that
is removed is, all of it and in this version, in the output; a run that ends
well has compiled the source it began with; two processes leave a whole file. On
a full disk the output lacks what the disk did not take in that very run, and
nothing else; with equal time stamps an old `.pyc` may be used.

**Codec.** The loop is driven by `feof()`, padding is added by two different
branches, and the decryption walks two pointers and copies a rest whose size
is computed from the padding. Correct means: the format is the same for every
size, decryption gives the source back, and no copy leaves its buffer.

**AES.** Eight tables of constants and loops with unsigned counters. Correct
means: the rounds and the key expansion are those of FIPS 197, and decryption
inverts encryption.

**Key context.** Every `calloc` may fail, `KeyAlloc` looks at no result, error
returns drop memory, and the context holds a random key before it holds the
right one. Correct means: blocks never go through a wrong key, stay unencrypted
only when memory was short, and nothing leaks but what error returns drop.

**`build-zip`.** The tree is copied file by file while the user edits it, may hold
outputs of earlier versions, and is filtered by patterns that see the full path
of the copy; every file is compiled in the steps above, in the user's tree or in
the copy, and a write that is lost goes unnoticed; the old archive is gone before
the new one is written. Correct means: an archive that can be read holds every
module that was not left out, in the version of the build or later, or cut short
by a lost write, or the build has said that it failed; `build-zip` leaves the
user's tree alone, and a walk in place takes a source away only for its output.

**Executables.** Two functions print exceptions and one leaves them to its caller,
results are not looked at, and the file is opened twice. Correct means: every
failure that the process survives gives one message and a failing exit status,
`sys.exit` its own status, a program finds its own modules first, and nothing but
a path or an argument that cannot be converted ends the launcher without a word.

**OpenAES tool.** `main` fills the slots of a ring that threads work on, and takes
their results in order; threads may fail to start or find no memory, and a kill
leaves half an output. Correct means: decoding gives the file back, or as much of
it as there was, busy slots are left alone, and `main` waits for no thread that
does not run.

PROJECT.json lists all hazards, each at its line, with the properties that
would show them going wrong.

## The modules

```
ListingCache  <--implements--  PyeZipImporter  <-- MCPyeZipImporter
                               PyeZipImporter_proofs
PyeCompile  <-- MCPyeCompile,  PyeCompile_proofs
PyeCodec    <-- MCPyeCodec,    PyeCodec_proofs
AesColumn <-- AesBlock <-- KeyExpansion <-- AesStandard --> Fips197 (the standard)
AesStandard <-- AesBlock_proofs
            <-- MCAesBlock --> AesTables (of the code), FipsField (of the standard)
KeyContext  <-- MCKeyContext,  KeyContext_proofs
BuildZip    <-- MCBuildZip,    BuildZip_proofs
ExeMain     <-- MCExeMain,     ExeMain_proofs
OaesMessage <-- OaesTool <-- MCOaesTool,  OaesTool_proofs
```

Bounds, faults and data are CONSTANTS with named assumptions. History
variables and bounds are marked as such where they are declared. A definition
that follows the comment `\* Mutant:` is a broken variant of the definition
next to it and no part of the specification; PROJECT.json says which property
each of them violates.

### PyeZipImporter and ListingCache

One step is one statement that reads or writes shared state, since CPython may
switch threads between two of them; statements on locals belong to the step
before or after. `pc` names the place of a thread:

| code | actions |
|---|---|
| `PathFinder` looks into `sys.path_importer_cache` (external) | `Import` |
| `__init__`: negative cache, `_split_zip_path`, `_negative_cache.add` | `CheckNegative`, `SplitZipPath`, `AddNegative` |
| `zipimport.zipimporter(path)` as fallback | `MakeFallback` |
| `if zip_path not in _zip_directory_cache`, `with _cache_lock`, the second check | `CheckListing`, `Acquire`, `RecheckListing` |
| `ZipFile(...).namelist()`, the store, the end of the `with` block | `ScanArchive` (also the exception, which releases the lock), `StoreListing`, `Release` |
| next hook, `sys.path_importer_cache[path] = finder` (external) | `StdHook`, `PublishPye`, `PublishOther` |
| `find_spec`, `exec_module` | `FindSpec`; `ExecModule`, `ReadMember` |
| `importlib.invalidate_caches()` (external) and the class method | `Invalidate`, `Visit`, `Invalidated`; `ClearAcquire`, `ClearListings`, `ClearNegative` |
| other programs | `Write` |

A member of an archive is a pair of a path item and a module name, which is
what `_make_path` computes; a file is an archive (its set of members), `Absent`
or `Broken`. Packages and plain modules are found in the same way and are not
told apart. A module name is looked for through one path item at a time: the
walk over `sys.path` is the import system's.

`ListingCache` is what the cache promises without threads: a slot is filled
while it is empty, with a listing the file had at some moment since the last
invalidation, and an invalidation empties all slots at once. `PyeZipImporter`
implements it with `listing <- dirCache`.

### PyeCompile

`pyecli compile` on one file, a step per system call: `Begin` (`compile`),
`StatPyc`, `CheckPyc`, `Compile`, `WritePyc` (`_compile_pyc_file` and
`py_compile`), `CheckPye`, `OpenPyc`, `TruncatePye`, `WriteBuffer`
(`_compile_pye_file`, with the two `fopen` and the writes of `fnEncryptFile`),
`RemovePyc`, `RemovePy`. An exception that is not caught ends the run (`Fail`).
`Edit`, `Kill` and `Tick` are the user, the operating system and the clock.

The content of a file is the version of the source it was made from, per
buffer for the `.pye`. The code compares time stamps for equality only, so the
model keeps which files have the stamp of the source (`same`) and which were
written in the current tick (`fresh`). Faults are chosen per run: `crash`,
`full` (the disk: the `.pyc` or the `.pye` cannot be made, which is an exception,
or a write of the `.pye` is lost, which nobody notices), `edit` (an edit during a
run) and `coarse` (files written in one tick of the clock have equal stamps).
`unnoticed` is a history variable: whether the `.pye` has lost a write since it was
opened (`"write"`), and whether an old `.pyc` was ever taken for current (`"stamp"`).

### PyeCodec

One file through both functions, a step per library call that moves data:
`FRead`, `EncryptBlock`, `CloseFile` for `fnEncryptFile`; `DecryptLast`,
`DecryptBlock`, `DecryptTail` for `fnDecryptBuffer`. `feof()` becomes true only
when a read came up short, so that a source of full blocks needs a read that
returns nothing. The cipher is a pair of operators with
`Dec(Enc(b)) = b` (`CipherAssumption`), the block size is a parameter.

### AesBlock, AesColumn, KeyExpansion, AesTables, AesStandard

`AesBlock` has one step per transformation of the block, with the loops of
`oaes_encrypt_block` and `oaes_decrypt_block`; `AesColumn` has the two column
transformations, and `KeyExpansion` `oaes_key_expand`. All three leave bytes, sum,
multiplication and substitution open, so that the proofs need not compute with
tables; `AesTables` has the tables as they stand in the code with their
lookups, and `MCAesBlock` puts them in.

`AesBlock` also has each of the two calls as a function of an expanded key and a
block (`Enciphered`, `Deciphered`), one equation per round. `CallsAreFunctions`
says that the steps compute these functions, which is what the codec and the
messages take for granted when they treat the cipher as an operator.

`Fips197` translates no code: it defines a round and a column of the key
schedule as the standard does, byte by byte, over a field and an S-box that are
parameters, and `FipsField` defines those. `AesStandard` compares: `RoundsAreFips`
and `ScheduleIsFips` are about the loops, `StandardLaws` about single bytes.
`MCAesBlock` makes TLC evaluate `StandardLaws` for all bytes of the tables, and
`KeysAreExpanded`, that its keys are results of `oaes_key_expand`.

### KeyContext

One call of the extension module from `KeyAlloc` to `KeyDestroy`, a step per
`calloc`: `AllocCtx` (`oaes_alloc`), `GenKey`, `GenData`, `GenExpand`
(`oaes_key_gen`), `ImportKey`, `ImportData`, `ImportExpand`
(`oaes_key_import_data`), `OpenFails` and `ProcessBlocks` (the functions
themselves), `KeyDestroy` (`oaes_free`). The heap maps addresses to blocks with
their pointers; any `calloc` may return `NULL`, and does when the heap is full.
The masked key of the generated header and its recovery in place at the first
call (`Masked`, `GetSecretKey`) are part of it.

### BuildZip

`pyecli compile` over a directory and `build-zip`. A module is the path of its
source, a sequence of names; the state is the user's tree, the working copy, the
archive, and what the process still has to do (`todo`).

| code | actions |
|---|---|
| the checks of `compile` and `build_zip` | `Compile`, `Build` |
| `shutil.copytree`, file by file | `CopyFile`, `CopyFails` |
| `generate_main_py` | `generate_main_py` |
| `compile_dir` | `CompileFile` begins with each file of `compile_dir(root, tree, patterns)`, in any order; `CompileEnds` |
| `_compile_pyc_file`, `_compile_pye_file`, `fnEncryptFile` | `CompilePyc`, `OpenPye`, `WritePye`, `RemovePyc`, `RemovePy` |
| `_get_ignore_patterns`, `fnmatch` | `fnmatch`, `Ignored` |
| `zipfile.ZipFile`, `write`, the end of the `with` block | `OpenArchive`, `PackFile`, `CloseArchive`; `PackFails` |
| the user, the system | `Edit`, `Kill` |

A file is compiled in the steps of `PyeCompile`, with edits, kills and a full disk
between and in them, but without its clock: time stamps tell versions apart, so
that an output that is kept is one that would come out again, and the `.pye` is
written in one step, whole or with a write lost (`Partial`). A source that does
not compile keeps its old `.pyc`, which is then encrypted. `read` and `torn` are
history variables: the version `py_compile` has read of the file at hand, and the
files whose `.pye` has lost a write in this run; so is `made`: the command of the
archive, the tree it began with, its torn files, and how it ended.

### ExeMain

Both executables from `main` to the exit status, one step per function: arguments,
`PyImport_AppendInittab`, `initPython`, `createAndInitPyconcreteModule`,
`isZipFile`, `prependSysPath0` and `prependSysPath0ForPyz`, `runFile`,
`runPyzFile`, and for pyecli its script. A file is what its first bytes say it is
and what becomes of running it: which check of `run_pye` or `run_pyz` fails, or how
its program ends. `Replace` is another program that replaces the file between its
two readings. Where the code uses variables that have no value, or the -1 of
`mbstowcs` (`undecodable`), the process may die (`Crash`) or go on. Where no full
path can be made of the file's name (`nopath`), `getFullPath` leaves its exception
set, the next `PyImport_ImportModule` returns `NULL`, and the process dies of the
attribute it takes of that (`NullModule`): in `prependSysPath0` or `runFile`, or,
for an archive, in `runPyzFile`.

### OaesMessage and OaesTool

`OaesMessage` has the formats as functions: messages (`oaes_encrypt`,
`oaes_decrypt`, with ECB and CBC, flags and padding), key files
(`oaes_key_export`, `oaes_key_import`) and base64. Block size, key sizes, cipher and
exclusive or are parameters. `OaesTool` is `main` of `oaes.c`:

| code | actions |
|---|---|
| `gen-key`, up to `fopen` and up to `fclose` | `GenerateKey`, `WriteKey` |
| options, key file, input and output | `Start` |
| `fread` into slot `_i`, `start_thread` | `Read`, `EndOfInput` |
| `_do_base64_encode` ... `_do_aes_decrypt`, in a thread | `Work` |
| `join_thread`, `fwrite`, slot by slot, when the ring is full and at the end | `Join`, `RingWritten`, `Finish` |
| the system, the user | `Kill`, `Crash`, `Discard` |

The user encodes "plain" to "coded" and decodes that to "back". `mark` is a history
variable: whether a file is the whole result of its input, a beginning of it
("cut": the process was killed, or is not done), or may have gaps ("holed": a
thread failed, which the exit status does not tell). What `pthread_create` leaves
in `id` when it fails is undefined, and so is `out` of a slot that was never used
when `oaes_alloc` fails: `main` may skip the slot or die. When there is no memory
for the key, which nobody asks about, the slot is left with zeros.

`main` knows nothing of what the threads compute; what it relies on is
`ChunkLaws`: every code of a chunk is at most as long as what the decoder reads at a
time, and that long if the chunk is a full one; decoding it gives the chunk back,
and decoding a beginning of it gives a beginning of the chunk. This is why the two
commands may read with different sizes and still meet at the same borders.
`ChunkLaws` are proved of the formats of `OaesMessage`, of which they need `XorLaws`
and `CipherLaws`: exclusive or undoes itself, and the cipher is undone. The toy
cipher of `MCOaesTool` satisfies both, by an `ASSUME` that TLC evaluates.

## The runs

| run | question | bounds |
|---|---|---|
| `zip_imports` | safety of the import hook, and refinement of `ListingCache` | 2 importing threads, 1 invalidating, 2 path items in 1 archive with 2 versions, 1 rewrite, 1 invalidation; 1.1 million states |
| `imports_end` | every operation returns | 2 importing threads, 1 path item, 1 rewrite, 2 invalidations |
| `compile_alone` | `SourceKept` and `OutputFresh` for one process at a time | 4 runs, 3 versions, kills at any step, a full disk, 2 buffers |
| `compile_together` | `PyeWhole` and `OneSucceeds` for two processes | 2 processes, 5 runs, 2 versions, edits between runs, coarse clock; 8.7 million states |
| `codec` | format, way back, bounds of the copies, end of the loops | blocks of 2 bytes, sources of 0 to 5 bytes |
| `aes_block` | rounds and key schedule are those of FIPS 197; decryption inverts | 5 keys of 16, 24 and 32 bytes, 16 blocks |
| `key_context` | right key or none, unencrypted only when short of memory, leaks | 6 heap blocks, 3 calls, 3 key bytes |
| `build_zip` | what is in an archive that can be read; what becomes of the user's tree | 4 modules (one below `.git`, one in a package), 2 versions, one that does not compile, 3 lists of patterns, 2 trees, 2 runs, kills and full disks; 5.0 million states |
| `launcher` | exit status, messages and `sys.path` | every kind of file and fate, 5 exit codes, 2 replacements, every fault; 4.2 million states |
| `oaes_tool` | round trip, prefixes, slots, end of commands | a ring of 2, blocks of 3 bytes, files of 0 to 13 bytes, 2 keys, 2 vectors, 5 commands, 2 faults; 0.6 million states |

Two more runs show where code and documents disagree; they are described
below.

**Why the bounds are enough.** *Import hook:* the races are between two threads
that fill one slot, one that clears it and one change of the file; two path
items in one archive are the least at which importers share a listing without
sharing a finder. The theorems hold for any number of each. *Compile:* a killed
run, a run that meets what it left, an edit and a last run are four runs; two
buffers are the least at which a file can be half written. For a `.pye` of two
versions one process has to be writing while the other removes the `.pyc`,
compiles again and writes too: with the run that left the `.pyc` that is four runs,
and `compile_together` has five. *Codec:* with blocks
of two bytes, sizes 0 to 5 are the empty source, one that is less than a block,
whole blocks, and whole blocks with a rest; the theorems hold for every size.
*AES:* the first round key of the zero key is zero, so the 16 blocks take every
byte through both S-boxes, and the laws assumed of the tables are evaluated for
every entry. *Key context:* a call needs four blocks; with six, one leak is
enough to starve the next call. *Build:* the second run meets what the first
left, and an edit falls between any two of its steps, those of one file included;
one file that is edited, with outputs of an earlier version or a `.pye` that a kill
cut short beside it, and a `.pye` without a source are what a walk can meet; each
kind of pattern matches one of the 4 modules, and one pattern meets the name of
the working copy.
*Executables:* nothing is cut off but the number of replacements, and the file is
read twice. *OpenAES tool:* 13 bytes are 3 chunks of `aes-enc`, so that the ring
is written once and begun again, and 5 of `base64-enc`, two rings and a half; with
blocks of 3 bytes there is padding of one and of two, and two of the files end
in what looks like it. Each command may have to be repeated after a kill.

**Deadlock** is checked except where the system may stop: when the bounded runs
or calls are used up (`PyeCompile`, `KeyContext`, `BuildZip`, `OaesTool`), at the end of a
block's way (`AesBlock`) and of a process (`ExeMain`).

**Fairness.** `imports_end` assumes weak fairness of `Step(t)` for every thread:
the interpreter keeps running threads that have begun something. Nobody has to
begin an import, an invalidation or a rewrite. No fairness of the lock is
assumed: it is taken only by an invalidation and by a constructor that finds no
listing, and once the bounded invalidations are over every path item has a
finder and constructors no longer run, so that a waiting thread is not passed
forever. `codec`
assumes weak fairness of the two functions' own steps: nothing but the results
of their own calls decides whether they go on. `oaes_tool` assumes weak fairness of
`main` and of every thread that was started; kills, faults and new commands need
not happen. No other run states fairness.

**What a property would miss.** `OneSucceeds` says nothing of one process killed
by the other's removals: that one of two may end in `FileNotFoundError` is what
the code does. `FailuresExplained` and `UnencryptedExplained` do not call the
failures right; they say that nothing else causes them. `LeaksExplained` names
the blocks error returns drop, and says there are no others.

## Where code and documents disagree

| run | what TLC shows |
|---|---|
| `import_after_invalidation` | `invalidate_caches` empties `_zip_directory_cache`, while `sys.path_importer_cache` keeps the `PyeZipImporter`: no constructor runs again, `_get_namelist` finds no listing, and every module of the archive that is not yet loaded is reported missing. README.md:160 says archives on `sys.path` are importable. |
| `compile_syntax_error` | `py_compile.compile` without `doraise` prints a syntax error and returns; with `--remove-py` the source is removed, in `pyc` mode at once, in `pye` mode after an old `.pyc` was encrypted. pyecli.py:79 says the source is removed "after compile pye". |

The models show more that nothing in the repository contradicts, and that is
therefore no run:

- A path that was searched before its archive existed is in `_negative_cache`
  (`AddNegative`); `importlib.invalidate_caches()` clears that set through a
  `PyeZipImporter` only (`ClearNegative`), and there may be none. The archive then
  goes to `zipimport`, which finds no `.pye`.
- `fnEncryptFile` looks neither at what `fwrite` returns (pyconcrete.c:104 and 109)
  nor at `fclose` (line 120) and answers `True` after a write was lost. With
  `--remove-py` the source is then removed although the `.pye` has holes
  (`"write" \in unnoticed` in `OutputFrom`; without that excuse `SourceKept` and
  `OutputFresh` fail with `Faults = {"full"}`), and `build-zip` packs such a `.pye` and
  reports success: the archive can be read, and the module in it cannot be loaded
  (`torn` in `ReadableIsCurrent` and `PyzCanStart`).
- The loop of `fnEncryptFile` asks `feof()` only. A read that fails is padded as if
  the file had ended, and the loop goes on: with `Faults = {"read"}` `RoundTrip` of
  `PyeCodec` fails.
- With `coarse` time stamps a source that is edited in the tick its `.pye` was
  written counts as compiled, and `--remove-py` then removes the edit
  (`SourceKept` and `OutputFresh` fail with `Faults = {"crash", "coarse"}`); an
  edit during a run is lost in the same way (`"edit"`). In a walk in place that is
  all that can be lost of a source that compiles while the disk takes the writes
  (`UserTreeKept`).
- With `coarse` time stamps and four runs two processes can leave a `.pye` of two
  versions (`"stamp" \in unnoticed` in `PyeWhole`, which fails without that excuse). One
  process leaves a `.pyc` of version 1 that, after an edit in the same tick, counts
  as that of version 2, opens it in its next run and writes the first buffer; the
  other removes the `.pyc`, compiles again and writes the `.pye` as version 2; then
  the first writes its last buffer, and the `.pye` is `<<2, 1>>`.
- A path that is not UTF-8, or a relative one without a working directory, ends the
  launcher by a signal and without a message (`NullModule` in `ExeMain`), where
  `fopen` would have failed or the file been run.
- `build-zip` packs a `.pye` that lay in the source directory without its source,
  of whatever version (`OthersPackedAsFound` says that there is nothing else),
  and a pattern that meets the name of the working copy leaves out everything.
- The error path of `createAndInitPyconcreteModule` releases `imported_module`,
  which may have no value; `initPython` clears a config it has jumped over; it and
  both `main` functions write before a string when `mbstowcs` returns -1
  (`Crash` in `ExeMain`).
- An archive without members begins with `PK\5\6`: `isZipFile` takes it for a
  `.pye`.
- The OpenAES tool leaves out the chunk of a thread that failed, or writes zeros for
  it, and exits with status 0; a killed `gen-key` leaves an empty key file that `gen-key` refuses to
  replace.

## The proofs

TLAPS checks 12743 obligations in eight modules. The theorems hold for all values
of the constants that satisfy the assumptions the modules name.

| module | theorem | property | further assumptions |
|---|---|---|---|
| `PyeZipImporter_proofs` | `TypeCorrect`, `MutualExclusion`, `ListingsAreCurrent`, `NoArchiveIsRescanned`, `ListingCacheImplemented`, `LoadFailuresExplained`, `ConcurrentImportsAgree` | `TypeOK`, `LockHeld`, `ListingCurrent`, `NoRescan`, `ImplementsListingCache`, `FailuresExplained`, `ImportsAgreeWithArchive` | none |
| `PyeCompile_proofs` | `TypeCorrect` | `TypeOK` | none |
| | `SourceIsKept`, `OutputIsFresh` | `SourceKept`, `OutputFresh` | `Alone(p)`: one process, no faults but `crash` and `full`, no syntax errors |
| | `PyeIsWhole` | `PyeWhole` | `Together`: any number of processes, no fault but `coarse`, no syntax errors |
| | `OneGetsThrough` | `OneSucceeds` | `Unharmed`: at least one process, no kills, no full disk, no syntax errors |
| `PyeCodec_proofs` | `TypeCorrect`, `TailAlwaysFits` | `TypeOK`, `TailFits` | none: reads may fail |
| | `FormatIsWritten`, `DecryptionInverts` | `WritesFormat`, `RoundTrip` | `Intact`: reads do not fail |
| `AesBlock_proofs` | `TypeCorrect`, `DecryptionInverts` | `TypeOK`, `DecryptsToInput` | `Laws` of the byte operations |
| | `CallsComputeTheCipher`, `CipherIsUndone` | `CallsAreFunctions`; that the cipher is undone, which the codec and the messages assume | `Laws` |
| | `RoundsAreStandard` | `RoundsAreFips` | `Laws`, `StandardLaws` |
| | `ScheduleIsStandard` | `ScheduleIsFips` | `Laws`, `StandardLaws`, `KeysAreExpanded` |
| `KeyContext_proofs` | `PointersAreLive`, `NoOtherKey`, `PlainBlocksExplained`, `LeaksAreTheKnownOnes` | `TypeOK`, `OnlyTheKeyOfTheBuild`, `UnencryptedExplained`, `LeaksExplained` | none: any `calloc` may fail |
| `BuildZip_proofs` | `TypeCorrect`, `ArchiveIsCurrent`, `LeftOutIsNotCompiled`, `PyzHasEntryPoint`, `OnlyTheUserEdits` | `TypeOK`, `ReadableIsCurrent`, `OthersPackedAsFound`, `PyzCanStart`, `UserTreeKept` | none: with edits, kills and full disks |
| `ExeMain_proofs` | `TypeCorrect`, `StatusIsThePrograms`, `FailuresAreReportedOnce`, `OwnPathIsFirst` | `TypeOK`, `StatusTellsOutcome`, `OneReport`, `OwnPathFirst` | none |
| `OaesTool_proofs` | `ThreadsWithinTheRing`, `SlotsAreKept` | `SlotKept` | none |
| | `FormatsAreRight` | `ChunkLaws`, for any input and any length of chunks | `XorLaws`, `CipherLaws` |
| | `FilesAreRight`, `DecodedIsPrefix`, `DecodedIsTheOriginal`, `IndicesInRange` | `OutputIsPrefix`, `RoundTrip`, `TypeOK` | `XorLaws`, `CipherLaws` |

**Import hook.** `LockHeld` is inductive. `ListingCurrent` is not: a store writes
what an earlier scan read. `CacheInv` adds that a scanned listing is one the
file had since the last invalidation (`ScannedCurrent`), that its slot is still
empty (`NoRescan`), and that the file itself counts (`DiskCurrent`); the lock
excludes another thread's store and clear in between. The refinement follows:
the store is `Fill`, `ClearListings` is `Clear`, `Write` is `Write`, all else
stutters. `FailuresExplained` needs `CalmInv`: while an undisturbed import is
between `find_spec` and `exec_module` its module stays listed, since a store
never replaces a listing. `ImportsAgreeWithArchive` needs `AgreeInv`, which says
of every place of the constructor what it has established about an archive
nobody touched, and of every kept finder that it is the right one for its path.

**Compile.** `AloneInv(p)` says at each place of the program what the files hold:
from `checkPye` on the `.pyc` is the source's, while writing the buffers up to
the current one are, at the removals the output is complete. A kill leads to
`idle`, where nothing is asked of the outputs: with distinct time stamps they
are made again. A write that is lost leaves a hole where `TruncatePye` has put one
(`Written`): on a full disk too nothing old is left, and the `.pye` is complete
unless this run has lost a write. For several processes `PyeWhole` is not inductive:
a process that truncates takes away what another has written. `PyeInv` says that
while somebody writes, each buffer is either written or still ahead of some writer
(`OnTheWay`), and that otherwise the file is whole; it rests on all of them
writing the same version (`TogetherInv`), until an old `.pyc` passes for that of the
source, which `unnoticed` does not forget (`StampStays`). `OneSucceeds` speaks of the end of all
processes; the invariant names one that has not failed and needs no file that is
not there (`GetsThrough`). Another process can harm it only by removing the
`.pyc` or the source, and is then past the places where it needs them, so that
it is the one instead. This holds with coarse time stamps and edits.

**Codec.** `LoopInv` bounds the padding and ties `proc`, `cur` and `plainSize`
together; this holds even when reads fail, since the last block written always
ends with the size of its padding (`Closed`). `ContentInv` says which block of
the format each block written is, and which part of the result has been filled.

**AES.** `BlockInv` remembers the block after every round (`History`); during
encryption the current block is the last one of `trail` with the
transformations of this round applied, and during decryption it is the one of
the mirrored round (`AtEncryption`, `AtDecryption`). Each transformation is then
undone by its inverse: rows by their permutation, the sum with the round key by
itself, bytes by `SubLaws`, and a column by `MulLaws`, one coefficient of the
product of the two matrices after the other; three of its four bytes follow
from the first by rotating the column. `Laws` are stated, not proved: they are
finitely many facts about the tables, and TLC evaluates them on the tables of
the code (an `ASSUME` of `MCAesBlock`), associativity of the sum only where the
third byte is a power of two, since every byte is the sum of such powers.

`RoundsAreStandard` reads the rounds off `History`. A byte of FIPS 197 is a row of a
circulant matrix times bytes taken from shifted places, the code shifts all
rows and then sums four products in an order of its own: `ShiftedBytes` says where each
byte comes from, `StandardRow` and `StandardMix` bring the sums together. For
`ScheduleIsStandard` the loop of `oaes_key_expand` is a recursive function; that it
has a value at all is `Recursion`, and `ColumnsExpand` says by induction over the
columns what each of them is. The standard counts bytes of a block, the code
columns of a sequence (`ColumnStands`). With 24 and 32 bytes the last round constants
are never reached, and with 16 the tenth is the last: `RconIndex`.

`CallsComputeTheCipher` and `CipherIsUndone` take the block cipher out of its steps:
`trail` solves the equations of `Enciphered`, which have one solution
(`OneEnciphering`), and `Mirrored` follows the decryption round by round. What comes
out is, word for word, `CipherAssumption` of `PyeCodec` with `Enciphered(k, _)` and
`Deciphered(k, _)` for its cipher, and `CipherLaws` of `OaesMessage`, which counts the
bytes of a block from 1.

**Induction.** The library states induction with an operator as parameter. Where a
proof needs it, the values for which a statement holds are made a set instead,
and a set of numbers that is not empty has a least element (`LeastNat`, from
`WFMin` and `NatLessThanWellFounded`): `NatInductive` follows, and `Recursion`, which
gives a recursive function on `0..N` its value, from that.

**Key context.** `HeapInv` gives at each place of a call the shape of its context on
the heap: without a key (`Bare`), with an empty key, with a key that holds data,
with one that is expanded; and whether the data is the random key or the build's
(`AtPlace`). Every allocation takes a block that is unused, which no pointer of
the context leads to, so that the shape can only grow. A call that has no key, or
none that is expanded, when it comes to its blocks has had a `calloc` fail
(`short`). That the header's key is uncovered exactly once (`SecretKnown`), and
that masking twice gives it back, is why a second call finds the key and not
its mask. `LeaksExplained` is part of the invariant: `oaes_free` and the
destruction of the random key release what the shape says is there.

**`build-zip`.** `ReadableIsCurrent` compares an archive with the tree the build began
with. `ZipInv` follows a source from one to the other: what is copied is the
file of the beginning or an edit of it (`Later`); `--main` adds the one source
that was not there (`Source`); the walk leaves a file as it was, if it skips it
or there is no source, or with a `.pye` made of its source or, after a syntax
error, of its old `.pyc`, or one that has lost a write (`MadeOf`, `Settled`); the
file at hand is on its way there, and each of its steps knows what the step before
has left (`Progress`). `WhatIsPacked` reads off what this means for
each `.pye`. A lemma of its own (`SkippedIsLeftOut`) shows that the walk, which
tests every directory on the way with its full path, leaves out exactly what the
user can have meant and what meets the name of the working copy, for paths of
any length. `PyzCanStart` needs the check of the entry point, which was made on
the user's tree, to hold of the copy: an edit never takes a source away.
`UserTreeKept` is about the same steps in the user's own tree, where edits come
between them: `InPlaceInv` says that from the compilation to the removal the version
that was read is in the `.pyc` or the `.pye`, or did not compile, or lost a write
(`ReadIsSaved`), and that the source is that version or an edit of it.

**Executables.** `LaunchInv` says at each place of `main` what is known there: before
anything was tried nothing is reported, and nothing set while paths can be made
(`Untried`); from then on an error
is either still set, and `main` will print it, or has been printed and is in
`ret`, never both (`ErrorKnown`, `Accounted`), which is `OneReport` at the end; where
a path cannot be made, no step but `NullModule` is left (`NullModuleStep`). For
the exit status the place also knows that the file was seen as what it is,
unless it was replaced (`SeenAsItIs`), and so that a file that is refused really
cannot be run (`Refused`). `OwnPathFirst` rests on what `prependSysPath0` has
done for the kind that `isZipFile` saw (`OwnFirst`): a file that has changed its
kind since is refused.

**OpenAES tool.** `SlotKept` speaks of single steps; what makes it true is `RingInv`,
which says at each place of `main` which slots hold no thread and no output: while
it reads, those from `i` on, so that `fread` meets a free slot; while it writes a
full ring, those before `j`, which makes all of them free when it reads again;
and while it writes the last ring, those before `j` and from `i` on. It holds
whatever the threads do, with threads that do not start and outputs that were never set.

`RoundTrip` and `OutputIsPrefix` compare files of different runs, with kills between
and within them. `ToolInv` adds three parts to `RingInv`. `PipeInv` is about a run that
has lost no chunk: the slots between the last one written and the next one to fill
hold consecutive chunks, the output is that of all chunks before them, and a
thread that is done has left the code of its chunk, or what it decodes to
(`Flow`). `FileInv` is what remains of this between runs: an output without a hole
is a beginning of what it should be, and all of it if marked whole (`Right`); a
coded file is a sequence of codes, each with an initialisation vector of its own,
the last of them perhaps cut. `KeyInv` makes the key of the decoder the
one of the encoder: the key file is empty until it is written, once and
whole, and an empty one is refused. TLC checked `ToolInv` on the bounds of
`MCOaesTool` before it was proved.

That a cut code still decodes to a beginning, and that no chunk of the decoder
crosses the border of two codes, are the facts taken from `ChunkLaws`, and
`FormatsAreRight` proves them. For messages, a block of the code depends on the block
of the text and the code before it (`Encrypting`), so that the decoder, which needs
no more than these two, gives every whole block back (`Decrypting`); of a cut code it
finds whole blocks and takes padding off that may be none, which leaves a
beginning either way; and for a whole code the padding found is the padding
added (`Padded`, `PaddingFound`), which is looked for only if the header says that
there is some.
For base64, `CharactersToBytes` takes four characters back to three bytes;
`Stopped` is where the decoder stops in a code that is cut (`Base64Start`).

`TypeOK` needs that what is decoded is bytes even if the file has holes, when neither
its blocks nor its key need fit; `TypeInv` says that every file and every slot
holds bytes (`Filled`, `Carried`), which `oaes_decrypt` and `oaes_base64_decode` keep for
any argument (`AesBytes`, `Base64Bytes`).

## Limits

**Only model-checked.** `OperationsEnd`, `Terminates` and `CommandsEnd`, which are
liveness under fairness. All other properties of the runs are theorems. `Laws` and
`StandardLaws`, which the theorems on AES assume, are facts about the tables: TLC
evaluates them for the tables of the code, byte by byte.

**Only proved.** `CallsAreFunctions` and `CipherIsUndone`: `Enciphered` nests its rounds
as functions of functions, which TLC evaluates anew for every byte. `XorLaws`
and `CipherLaws` are evaluated for the toys of `MCOaesTool` only; that the block
cipher has the second is `CipherIsUndone`.

**Abstracted.** Names, paths and code are model values; what `exec` of a loaded
module does is not modelled. `PyeZipImporter` does not distinguish packages from
modules and has no nested archives (the code has none either). `PyeCompile` has
one source file, no directories. Headers and the magic number of a `.pyc` are
not looked into. The random key of `oaes_key_gen` is one value, different from
the build's. md5 in `hash_key` is a parameter. `BuildZip` knows the files of a
tree by their modules; other files are neither compiled nor packed. `ExeMain`
does not count references. In `OaesTool` one command runs at a time, a thread
does its whole work in one step, since it shares nothing but its slot, and the
random part of a message's header is zero, which nobody reads.

**Not modelled.**

- `PyeLoader` and `install`: the first reads one file as `run_pye` does and keeps no
  state, the second extends the lists of the import system once.
- The method table of the extension module: no state after the import.
- Keys given to the OpenAES tool as text (`--key`, the prompt), its `usage`, and
  ISAAC, whose numbers are nondeterministic choices where they are used.
- Input that is no `.pye`: `fnDecryptBuffer` gets what `fnEncryptFile` wrote.
- Build configuration, packaging, tests and the example.

## Plan

A composition of `PyeZipImporter`'s contents with what `BuildZip` packs, and one of
`PyeCodec` with the file operations of `PyeCompile`, so that what a `.pye` holds and
when it is there are one property.
