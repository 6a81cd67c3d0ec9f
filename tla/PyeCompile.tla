----------------------------- MODULE PyeCompile -----------------------------
(***************************************************************************)
(* `pyecli compile` on one source file: compile, _compile_pyc_file and     *)
(* _compile_pye_file of src/pyecli/pyecli.py, with the part of             *)
(* fnEncryptFile (src/pyconcrete_ext/pyconcrete.c) that touches files.     *)
(* Several pyecli processes may work on the file, one may be killed, the   *)
(* disk may be full, and the user edits the source.                        *)
(*                                                                         *)
(* The content of a file is the version of the source it was made from; a  *)
(* .pye is written buffer by buffer, so it has a version per buffer.  Time *)
(* stamps are compared for equality only: `same` says which files have the *)
(* time stamp of the source, and `fresh` which were written in the current *)
(* tick of the file system's clock.                                        *)
(***************************************************************************)
EXTENDS Naturals, FiniteSets

CONSTANTS
  Processes,     \* pyecli processes
  Faults,        \* what may go wrong, a subset of AllFaults
  MaxVersion,    \* bound: versions the user gives the source
  SyntaxErrors,  \* the versions that do not compile
  Buffers,       \* number of writes that make a .pye
  MaxRuns,       \* bound: runs of pyecli
  NoFile,        \* the file does not exist
  Hole           \* a buffer of the .pye that has not been written

AllFaults == {"crash",   \* a process is killed
              "full",    \* the disk takes no more: a file cannot be made, or a
                        \* write to the .pye does not reach it
              "edit",    \* the source is edited while pyecli runs
              "coarse"}  \* files written in one clock tick have equal time stamps

Versions == 1..MaxVersion
Stale    == 0            \* left by an earlier version of the source
Contents == Versions \union {Stale}
Built    == [1..Buffers -> Contents \union {Hole}]

ASSUME FaultsAssumption == Faults \subseteq AllFaults
ASSUME BoundsAssumption ==
  /\ MaxVersion \in Nat \ {0} /\ SyntaxErrors \subseteq Versions
  /\ Buffers \in Nat \ {0} /\ MaxRuns \in Nat
ASSUME MarksAssumption == NoFile \notin Contents \union Built /\ Hole \notin Contents

VARIABLES
  py, pyc, pye,   \* content of the source and of the files made from it
  version,        \* the last version the user wrote
  same, fresh,    \* time stamps, see above
  pc,             \* where each process is
  args,           \* its command line
  pycExists,      \* its local pyc_exists
  src,            \* the version it has read
  buffer,         \* the next buffer of the .pye it writes
  wanted,         \* history: the source when it began
  unnoticed,      \* history: "write", when the .pye has lost a write since it was
                  \* opened, and "stamp", once an old .pyc was taken for current
  result,         \* how its last run ended
  runs            \* counter of the bound

files == <<py, pyc, pye, version, same, fresh, unnoticed>>
vars  == <<files, pc, args, pycExists, src, buffer, wanted, result, runs>>

Complete(v) == [b \in 1..Buffers |-> v]
Truncated   == Complete(Hole)
Args        == [mode : {"pye", "pyc"}, removePy : BOOLEAN, removePyc : BOOLEAN]
Locations   == {"idle", "statPyc", "checkPyc", "compile", "writePyc", "checkPye",
                "open", "truncate", "write", "removePyc", "removePy"}
Results     == {"none", "ok", "failed", "killed", "nothing"}

Init ==
  /\ py = 1 /\ version = 1
  /\ pyc \in {NoFile, Stale}
  /\ pye \in {NoFile, Complete(Stale)}
  /\ same = {} /\ fresh = {}
  /\ pc = [p \in Processes |-> "idle"]
  /\ args = [p \in Processes |-> [mode |-> "pye", removePy |-> FALSE, removePyc |-> FALSE]]
  /\ pycExists = [p \in Processes |-> FALSE]
  /\ src = [p \in Processes |-> Stale]
  /\ buffer = [p \in Processes |-> 1]
  /\ wanted = [p \in Processes |-> Stale]
  /\ unnoticed = {}
  /\ result = [p \in Processes |-> "none"]
  /\ runs = 0

\* A file is written: it gets the time stamp of the current tick.
Stamp(file) ==
  /\ fresh' = IF "coarse" \in Faults THEN fresh \union {file} ELSE {}
  /\ same' = IF file = "py" THEN fresh \ {"py"}
             ELSE IF "py" \in fresh THEN same \union {file} ELSE same \ {file}

Goto(p, place) == pc' = [pc EXCEPT ![p] = place]

End(p, how) == Goto(p, "idle") /\ result' = [result EXCEPT ![p] = how]

\* An exception nobody catches: traceback, exit status 1.
Fail(p) == End(p, "failed")

-----------------------------------------------------------------------------
(* compile(): a source that is not a file is passed over in silence.        *)

Begin(p, a) ==
  /\ pc[p] = "idle" /\ runs < MaxRuns
  /\ runs' = runs + 1
  /\ args' = [args EXCEPT ![p] = a]
  /\ wanted' = [wanted EXCEPT ![p] = IF py = NoFile THEN Stale ELSE py]
  /\ \/ py = NoFile /\ End(p, "nothing")
     \/ py # NoFile /\ Goto(p, "statPyc") /\ result' = [result EXCEPT ![p] = "none"]
  /\ UNCHANGED <<files, pycExists, src, buffer>>

StatPyc(p) ==
  /\ pc[p] = "statPyc"
  /\ pycExists' = [pycExists EXCEPT ![p] = pyc # NoFile]
  /\ Goto(p, "checkPyc")
  /\ UNCHANGED <<files, args, src, buffer, wanted, result, runs>>

\* When the .pyc needs no compilation: what comes next.
PycDone(p) ==
  \/ args[p].mode = "pye" /\ Goto(p, "checkPye") /\ UNCHANGED result
  \/ args[p].mode = "pyc" /\ args[p].removePy /\ Goto(p, "removePy") /\ UNCHANGED result
  \/ args[p].mode = "pyc" /\ ~args[p].removePy /\ End(p, "ok")

\* `not pyc_exists or os.stat(py).st_mtime != os.stat(pyc).st_mtime`: a stat
\* of a file that is gone raises FileNotFoundError.
CheckPyc(p) ==
  /\ pc[p] = "checkPyc"
  /\ \/ ~pycExists[p] /\ Goto(p, "compile") /\ UNCHANGED <<result, unnoticed>>
     \/ pycExists[p] /\ NoFile \in {py, pyc} /\ Fail(p) /\ UNCHANGED unnoticed
     \/ /\ pycExists[p] /\ NoFile \notin {py, pyc}
        /\ \/ "pyc" \notin same /\ Goto(p, "compile") /\ UNCHANGED <<result, unnoticed>>
           \/ /\ "pyc" \in same /\ PycDone(p)
              /\ unnoticed' = unnoticed \union (IF pyc = py THEN {} ELSE {"stamp"})
  /\ UNCHANGED <<py, pyc, pye, version, same, fresh, args, pycExists, src, buffer, wanted,
                 runs>>

\* py_compile.compile without doraise: a syntax error is printed and the
\* function returns as if it had compiled.
Compile(p) ==
  /\ pc[p] = "compile"
  /\ \/ py = NoFile /\ Fail(p) /\ UNCHANGED src
     \/ py \in SyntaxErrors /\ PycDone(p) /\ UNCHANGED src
     \/ /\ py # NoFile /\ py \notin SyntaxErrors
        /\ src' = [src EXCEPT ![p] = py]
        /\ Goto(p, "writePyc") /\ UNCHANGED result
  /\ UNCHANGED <<files, args, pycExists, buffer, wanted, runs>>

\* The .pyc is written to a temporary file and renamed; if that cannot be
\* written, py_compile removes it and its OSError ends the run.
WritePyc(p) ==
  /\ pc[p] = "writePyc"
  /\ \/ pyc' = src[p] /\ Stamp("pyc") /\ PycDone(p)
     \/ "full" \in Faults /\ Fail(p) /\ UNCHANGED <<pyc, same, fresh>>
  /\ UNCHANGED <<py, pye, version, unnoticed, args, pycExists, src, buffer, wanted, runs>>

-----------------------------------------------------------------------------
(* The .pye.                                                                *)

\* The .pyc goes unless it was there and is wanted, then the source.
PyeDone(p) ==
  LET pycGoes == ~pycExists[p] \/ args[p].removePyc IN
  \/ pycGoes /\ Goto(p, "removePyc") /\ UNCHANGED result
  \/ ~pycGoes /\ args[p].removePy /\ Goto(p, "removePy") /\ UNCHANGED result
  \/ ~pycGoes /\ ~args[p].removePy /\ End(p, "ok")

\* Mutant: an existing .pye is taken to be up to date.
CheckPyeExists(p) ==
  /\ pc[p] = "checkPye"
  /\ \/ pye = NoFile /\ Goto(p, "open") /\ UNCHANGED result
     \/ pye # NoFile /\ PyeDone(p)
  /\ UNCHANGED <<files, args, pycExists, src, buffer, wanted, runs>>

CheckPye(p) ==
  /\ pc[p] = "checkPye"
  /\ \/ pye = NoFile /\ Goto(p, "open") /\ UNCHANGED result
     \/ pye # NoFile /\ py = NoFile /\ Fail(p)
     \/ /\ NoFile \notin {py, pye}
        /\ \/ "pye" \notin same /\ Goto(p, "open") /\ UNCHANGED result
           \/ "pye" \in same /\ PyeDone(p)
  /\ UNCHANGED <<files, args, pycExists, src, buffer, wanted, runs>>

\* fopen(src, "rb"): later renames over the .pyc do not change what is read.
OpenPyc(p) ==
  /\ pc[p] = "open"
  /\ \/ pyc = NoFile /\ Fail(p) /\ UNCHANGED src
     \/ /\ pyc # NoFile
        /\ src' = [src EXCEPT ![p] = pyc]
        /\ Goto(p, "truncate") /\ UNCHANGED result
  /\ UNCHANGED <<files, args, pycExists, buffer, wanted, runs>>

\* Mutant: the destination must not exist, fopen(dest, "wbx").
TruncateExclusive(p) ==
  /\ pc[p] = "truncate"
  /\ \/ pye # NoFile /\ Fail(p) /\ UNCHANGED <<pye, same, fresh, buffer>>
     \/ /\ pye = NoFile
        /\ pye' = Truncated
        /\ Stamp("pye")
        /\ buffer' = [buffer EXCEPT ![p] = 1]
        /\ Goto(p, "write") /\ UNCHANGED result
  /\ UNCHANGED <<py, pyc, version, unnoticed, args, pycExists, src, wanted, runs>>

\* fopen(dest, "wb"); a file that cannot be made is a PyConcreteError.
TruncatePye(p) ==
  /\ pc[p] = "truncate"
  /\ \/ /\ pye' = Truncated
        /\ Stamp("pye") /\ unnoticed' = unnoticed \ {"write"}
        /\ buffer' = [buffer EXCEPT ![p] = 1]
        /\ Goto(p, "write") /\ UNCHANGED result
     \/ "full" \in Faults /\ Fail(p) /\ UNCHANGED <<pye, same, fresh, unnoticed, buffer>>
  /\ UNCHANGED <<py, pyc, version, args, pycExists, src, wanted, runs>>

\* Mutant: the loop stops at the last, partly filled buffer.
WriteAllButLast(p) ==
  /\ pc[p] = "write"
  /\ \/ buffer[p] < Buffers /\ pye' = [pye EXCEPT ![buffer[p]] = src[p]] /\ Stamp("pye")
        /\ UNCHANGED <<pc, result>>
     \/ buffer[p] = Buffers /\ UNCHANGED <<pye, same, fresh>> /\ PyeDone(p)
  /\ buffer' = [buffer EXCEPT ![p] = @ + 1]
  /\ UNCHANGED <<py, pyc, version, unnoticed, args, pycExists, src, wanted, runs>>

\* Mutant: the loop tests for the end one buffer too late.
WriteOneMore(p) ==
  /\ pc[p] = "write"
  /\ pye' = [pye EXCEPT ![buffer[p]] = src[p]] /\ Stamp("pye")
  /\ buffer' = [buffer EXCEPT ![p] = @ + 1]
  /\ \/ buffer[p] <= Buffers /\ UNCHANGED <<pc, result>>
     \/ buffer[p] > Buffers /\ PyeDone(p)
  /\ UNCHANGED <<py, pyc, version, unnoticed, args, pycExists, src, wanted, runs>>

\* One buffer of the .pye; what fwrite and fclose return is not looked at.
WriteBuffer(p) ==
  /\ pc[p] = "write"
  /\ \/ pye' = [pye EXCEPT ![buffer[p]] = src[p]] /\ Stamp("pye") /\ UNCHANGED unnoticed
     \/ /\ "full" \in Faults /\ UNCHANGED <<pye, same, fresh>>
        /\ unnoticed' = unnoticed \union {"write"}
  /\ buffer' = [buffer EXCEPT ![p] = @ + 1]
  /\ \/ buffer[p] < Buffers /\ UNCHANGED <<pc, result>>
     \/ buffer[p] = Buffers /\ PyeDone(p)
  /\ UNCHANGED <<py, pyc, version, args, pycExists, src, wanted, runs>>

\* os.remove raises FileNotFoundError when another process was faster.
RemovePyc(p) ==
  /\ pc[p] = "removePyc"
  /\ \/ pyc = NoFile /\ Fail(p) /\ UNCHANGED <<pyc, same, fresh>>
     \/ /\ pyc # NoFile
        /\ pyc' = NoFile
        /\ same' = same \ {"pyc"} /\ fresh' = fresh \ {"pyc"}
        /\ \/ args[p].removePy /\ Goto(p, "removePy") /\ UNCHANGED result
           \/ ~args[p].removePy /\ End(p, "ok")
  /\ UNCHANGED <<py, pye, version, unnoticed, args, pycExists, src, buffer, wanted, runs>>

RemovePy(p) ==
  /\ pc[p] = "removePy"
  /\ \/ py = NoFile /\ Fail(p) /\ UNCHANGED <<py, same, fresh>>
     \/ /\ py # NoFile
        /\ py' = NoFile
        /\ same' = {} /\ fresh' = fresh \ {"py"}
        /\ End(p, "ok")
  /\ UNCHANGED <<pyc, pye, version, unnoticed, args, pycExists, src, buffer, wanted, runs>>

-----------------------------------------------------------------------------
(* The user, the operating system and the clock.                            *)

Edit ==
  /\ version < MaxVersion
  /\ "edit" \in Faults \/ \A p \in Processes : pc[p] = "idle"
  /\ version' = version + 1
  /\ py' = version'
  /\ Stamp("py")
  /\ UNCHANGED <<pyc, pye, unnoticed, pc, args, pycExists, src, buffer, wanted, result, runs>>

Kill(p) ==
  /\ "crash" \in Faults
  /\ pc[p] # "idle"
  /\ End(p, "killed")
  /\ UNCHANGED <<files, args, pycExists, src, buffer, wanted, runs>>

Tick ==
  /\ fresh # {}
  /\ fresh' = {}
  /\ UNCHANGED <<py, pyc, pye, version, same, unnoticed, pc, args, pycExists, src, buffer,
                 wanted, result, runs>>

Step(p) ==
  \/ StatPyc(p) \/ CheckPyc(p) \/ Compile(p) \/ WritePyc(p)
  \/ CheckPye(p) \/ OpenPyc(p) \/ TruncatePye(p) \/ WriteBuffer(p)
  \/ RemovePyc(p) \/ RemovePy(p)

Next ==
  \/ \E p \in Processes : Step(p) \/ Kill(p)
  \/ \E p \in Processes, a \in Args : Begin(p, a)
  \/ Edit \/ Tick

Spec == Init /\ [][Next]_vars

-----------------------------------------------------------------------------
TypeOK ==
  /\ py \in Versions \union {NoFile}
  /\ pyc \in Contents \union {NoFile}
  /\ pye \in Built \union {NoFile}
  /\ version \in Versions
  /\ same \subseteq {"pyc", "pye"} /\ fresh \subseteq {"py", "pyc", "pye"}
  /\ pc \in [Processes -> Locations]
  /\ args \in [Processes -> Args]
  /\ pycExists \in [Processes -> BOOLEAN]
  /\ src \in [Processes -> Contents]
  /\ buffer \in [Processes -> 1..Buffers + 1]
  /\ wanted \in [Processes -> Contents] /\ unnoticed \subseteq {"write", "stamp"}
  /\ result \in [Processes -> Results]
  /\ runs \in 0..MaxRuns

\* The output of a process was made from version v; of a .pye that has lost a
\* write, that goes for the rest.
OutputFrom(p, v) ==
  \/ args[p].mode = "pyc" /\ pyc = v
  \/ args[p].mode = "pye" /\ pye = Complete(v)
  \/ /\ args[p].mode = "pye" /\ "write" \in unnoticed /\ pye # NoFile
     /\ \A b \in 1..Buffers : pye[b] \in {v, Hole}

RemovalKeepsSource ==
  \A p \in Processes :
     pc[p] = "removePy" /\ py # NoFile /\ py' = NoFile => OutputFrom(p, py)

SuccessIsFresh ==
  \A p \in Processes :
     pc[p] # "idle" /\ pc'[p] = "idle" /\ result'[p] = "ok" => OutputFrom(p, wanted[p])'

\* pyecli.py 79: "remove .py after compile pye".  The source a process
\* removes is in the output of its run, all of it and in this version, so
\* that nothing the user wrote is lost; only a .pye that the full disk has
\* cut short since this run opened it, and not one an earlier run was killed
\* on, may lack a part.
SourceKept == [][RemovalKeepsSource]_vars

\* A run that ends well has made its output from the source it was started
\* on, whatever earlier runs, killed ones and those on a full disk included,
\* have left behind: its own lost writes leave holes, but nothing old.
OutputFresh == [][SuccessIsFresh]_vars

\* Whoever finds the .pye while nobody writes it finds a whole file of one
\* version.  fnEncryptFile takes no lock, so this rests on processes that
\* write it at the same time having the same bytes to write: each compiles
\* before it opens the .pyc, or finds it up to date.  That holds while no run
\* is disturbed, unless an old .pyc with the time stamp of the source was
\* taken for current: then one process may write from it and another from a
\* new one.
PyeWhole ==
  \/ pye = NoFile
  \/ \E v \in Contents : pye = Complete(v)
  \/ \E p \in Processes : pc[p] = "write"
  \/ "stamp" \in unnoticed

\* Two processes given the same file disturb each other (a .pyc or the
\* source vanishes between two steps), but not both: one gets through.
OneSucceeds ==
  (\A p \in Processes : pc[p] = "idle" /\ result[p] # "none")
    => \E p \in Processes : result[p] \in {"ok", "nothing"}
=============================================================================
