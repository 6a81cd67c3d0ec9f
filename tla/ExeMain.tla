------------------------------- MODULE ExeMain -------------------------------
(***************************************************************************)
(* The two executables, from main to the exit status: the launcher         *)
(* pyconcrete (src/pyconcrete_exe/pyconcrete_exe.c) with run_pye and       *)
(* run_pyz of src/pyconcrete/__init__.py, and pyecli                       *)
(* (src/pyecli/pyecli_wrap.c).  Both embed an interpreter and the          *)
(* pyconcrete package; the launcher runs the file it is given, pyecli its  *)
(* own script.  Other programs may replace the file meanwhile.             *)
(*                                                                         *)
(* A file is [kind, fate]: what its first bytes say it is, and what comes  *)
(* of running it as such, the first check that fails or the end of the     *)
(* program in it.                                                          *)
(***************************************************************************)
EXTENDS Integers, FiniteSets, Sequences

CONSTANTS
  ExitCodes,    \* arguments of sys.exit in the programs
  Faults,       \* what may fail in starting the interpreter, see AllFaults
  MaxReplace    \* bound: how often the file is replaced

AllFaults == {"memory",    \* an allocation of the interpreter fails
              "config",    \* PyConfig refuses the command line
              "package"}   \* the source of the package raises an exception

Running == -1
Crash   == -2     \* killed by a signal

Exit(n) == [type |-> "exit", code |-> n]      \* SystemExit
None    == [type |-> "none", code |-> 0]
Error   == [type |-> "error", code |-> 0]     \* any other exception
Ends    == {None, Error} \union {Exit(n) : n \in ExitCodes}   \* of a program

\* "empty" is an archive without members: it begins with PK\5\6, not PK\3\4.
Checks(names) == {[type |-> n, code |-> 0] : n \in names}
BadPye == Checks({"decrypt", "version", "marshal"})
BadZip == Checks({"damaged", "noMain"}) \union BadPye
Files  == [kind : {"absent", "empty"}, fate : {Error}]
            \union [kind : {"pye"}, fate : BadPye \union Ends]
            \union [kind : {"zip"}, fate : BadZip \union Ends]

ASSUME ExeAssumption ==
  /\ ExitCodes \subseteq Nat /\ MaxReplace \in Nat /\ Faults \subseteq AllFaults

VARIABLES
  exe, legacy,   \* which executable; SETUP_ARGV_BY_LEGACY
  argc, arg1,    \* the command line: "-v" or "--version", or a path
  undecodable,   \* an argument is no text of the locale
  nopath,        \* no full path can be made of arg1: it is not UTF-8, or it is
                 \* relative and there is no working directory
  file,          \* the file arg1 names
  pc, zip,       \* the place in main; what isZipFile has answered
  path,          \* what has been put before the standard sys.path
  pending,       \* the exception that is set
  ret, reports,  \* main's ret; messages about a failure on stderr
  started,       \* the interpreter is up with the package in it
  status,        \* the exit status, Running or Crash
  ran, seen      \* history: the program run, with its sys.path; contents of the file

line == <<exe, legacy, argc, arg1, undecodable, nopath>>
vars == <<exe, legacy, argc, arg1, undecodable, nopath, file, pc, zip, path, pending, ret,
          reports, started, status, ran, seen>>

NotRun == [end |-> None, kind |-> "none", path |-> <<>>]

Init ==
  /\ exe \in {"pyconcrete", "pyecli"}
  /\ legacy \in BOOLEAN /\ (exe = "pyecli" => legacy)
  /\ argc \in 1..3 /\ arg1 \in {"version", "path"}
  /\ undecodable \in BOOLEAN
  /\ nopath \in BOOLEAN /\ (exe = "pyecli" => ~nopath)   \* pyecli makes none
  /\ file \in Files /\ seen = {file}
  /\ pc = (IF exe = "pyecli" THEN "convert" ELSE "inittab") /\ zip = FALSE /\ path = <<>>
  /\ pending = None /\ ret = 0 /\ reports = 0
  /\ started = FALSE /\ status = Running /\ ran = NotRun

Quit(s) == pc' = "ended" /\ status' = s

Goto(place) == pc' = place /\ UNCHANGED status

-----------------------------------------------------------------------------
(* Up to the interpreter with the package in it.                            *)

\* main of pyecli converts its arguments with mbstowcs, whose failure, -1, it
\* takes for a length, and writes the terminator before the string.  The
\* locale is still "C", which has no other characters than ASCII.
ConvertArguments ==
  /\ pc = "convert"
  /\ \/ Goto("inittab")
     \/ undecodable /\ Quit(Crash)
  /\ UNCHANGED <<line, file, zip, path, pending, ret, reports, started, ran, seen>>

\* PyImport_AppendInittab("_pyconcrete", ...)
AppendInittab ==
  /\ pc = "inittab"
  /\ \/ Goto("init") /\ UNCHANGED reports
     \/ "memory" \in Faults /\ reports' = reports + 1 /\ Quit(1)
  /\ UNCHANGED <<line, file, zip, path, pending, ret, started, ran, seen>>

\* initPython, Py_Initialize.  The legacy way converts argv[0] as main of pyecli
\* does.  On the other a failed preinitialisation jumps over
\* PyConfig_InitPythonConfig to the PyConfig_Clear of a config that has no
\* value: the process dies or goes on to the message, as chance will have it.
initPython ==
  /\ pc = "init"
  /\ \/ Goto("package") /\ UNCHANGED reports
     \/ Faults \intersect {"memory", "config"} # {} /\ reports' = reports + 1 /\ Quit(1)
     \/ "memory" \in Faults /\ exe = "pyconcrete" /\ ~legacy /\ Quit(Crash) /\ UNCHANGED reports
     \/ undecodable /\ exe = "pyconcrete" /\ legacy /\ Quit(Crash) /\ UNCHANGED reports
  /\ UNCHANGED <<line, file, zip, path, pending, ret, started, ran, seen>>

\* It increments the exception type without looking whether there is one.
PyInit__pyconcrete == "memory" \in Faults /\ Quit(Crash) /\ UNCHANGED <<reports, started>>

\* The package is run and imported, and with it the extension.  A failure is
\* reported; then the references are released, imported_module among them,
\* which has no value yet.
createAndInitPyconcreteModule ==
  /\ pc = "package"
  /\ \/ Goto("args") /\ started' = TRUE /\ UNCHANGED reports
     \/ PyInit__pyconcrete
     \/ "package" \in Faults /\ reports' = reports + 2 /\ Quit(1) /\ UNCHANGED started
     \/ "package" \in Faults /\ reports' = reports + 1 /\ Quit(Crash) /\ UNCHANGED started
  /\ UNCHANGED <<line, file, zip, path, pending, ret, ran, seen>>

\* The version is printed only if there is nothing else on the line.
NothingToRun == argc = 1 \/ (argc = 2 /\ arg1 = "version")

\* The launcher converts the others only here, for PySys_SetArgv, in the
\* locale of the user, and as carelessly.
Arguments ==
  /\ pc = "args"
  /\ \/ NothingToRun /\ Goto("finish") /\ UNCHANGED path
     \/ /\ ~NothingToRun
        /\ Goto(IF exe = "pyecli" THEN "script" ELSE "isZip")
        /\ path' = IF legacy THEN <<"dir">> ELSE <<>>   \* PySys_SetArgv
     \/ /\ ~NothingToRun /\ exe = "pyconcrete" /\ legacy /\ undecodable
        /\ Quit(Crash) /\ UNCHANGED path
  /\ UNCHANGED <<line, file, zip, pending, ret, reports, started, ran, seen>>

-----------------------------------------------------------------------------
(* The launcher.                                                            *)

isZipFile ==
  /\ pc = "isZip"
  /\ zip' = (file.kind = "zip")
  /\ Goto("prepend")
  /\ UNCHANGED <<line, file, path, pending, ret, reports, started, ran, seen>>

\* Nobody looks at what getFullPath returns.  A path that cannot be made leaves
\* its exception set; the next PyImport_ImportModule then returns NULL, and the
\* next call takes an attribute of that: the process dies without a word.
NullModule == nopath /\ Quit(Crash) /\ UNCHANGED <<path, pending, ret, reports, ran>>

\* PyList_Insert.
Prepend(item) ==
  path' = <<item>> \o path /\ Goto("run") /\ UNCHANGED <<pending, ret, reports, ran>>

\* The directory of a script; PySys_SetArgv has done it already.
prependSysPath0 ==
  /\ pc = "prepend" /\ ~zip
  /\ \/ ~legacy /\ NullModule
     \/ ~legacy /\ ~nopath /\ Prepend("dir")
     \/ legacy /\ Goto("run") /\ UNCHANGED <<path, pending, ret, reports, ran>>
  /\ UNCHANGED <<line, file, zip, started, seen>>

\* The archive itself.  PyList_Insert refuses a NULL with an exception of its own.
PrependForPyz(item) ==
  /\ pc = "prepend" /\ zip
  /\ \/ ~nopath /\ Prepend(item)
     \/ nopath /\ pending' = Error /\ Goto("run") /\ UNCHANGED <<path, ret, reports, ran>>
  /\ UNCHANGED <<line, file, zip, started, seen>>

\* Mutant: the directory of the archive is put on the path, as for a script.
PrependDirectory == PrependForPyz("dir")

prependSysPath0ForPyz == PrependForPyz("archive")

\* run_pye and run_pyz read the file anew and raise an exception unless it is
\* what isZipFile has seen and passes every check.
Passes(f) == f.kind = (IF zip THEN "zip" ELSE "pye") /\ f.fate \in Ends
Raised(f) == IF Passes(f) THEN f.fate ELSE Error
Program(f) == IF Passes(f) THEN [end |-> f.fate, kind |-> f.kind, path |-> path] ELSE NotRun

\* runFile leaves an exception for main.
runFile ==
  /\ pc = "run" /\ ~zip
  /\ \/ NullModule
     \/ /\ ~nopath /\ Goto("finish")
        /\ ran' = Program(file)
        /\ pending' = Raised(file)
        /\ ret' = IF Raised(file) = None THEN 0 ELSE 1
        /\ UNCHANGED <<path, reports>>
  /\ UNCHANGED <<line, file, zip, started, seen>>

\* PyErr_Print: SystemExit ends the process with its code, any other
\* exception is reported and gone.
PyErr_Print(exc) ==
  \/ exc.type = "exit" /\ Quit(exc.code % 256) /\ UNCHANGED <<reports, pending>>
  \/ exc.type = "error" /\ Goto("finish") /\ reports' = reports + 1 /\ pending' = None

\* run_pyz has come to its end.
RanPyz ==
  /\ ~nopath /\ ran' = Program(file) /\ UNCHANGED path
  /\ Raised(file) = None /\ Goto("finish") /\ UNCHANGED <<pending, ret, reports>>

\* Mutant: runPyzFile prints the exception and leaves it set.
RunPyzFileKeeps ==
  /\ pc = "run" /\ zip
  /\ \/ NullModule \/ RanPyz
     \/ /\ ~nopath /\ ran' = Program(file) /\ UNCHANGED path
        /\ Raised(file) # None /\ ret' = 1
        /\ Goto("finish") /\ reports' = reports + 1 /\ pending' = Raised(file)
  /\ UNCHANGED <<line, file, zip, started, seen>>

\* Mutant: runPyzFile does not tell main of the exception it has printed.
RunPyzFileForgets ==
  /\ pc = "run" /\ zip
  /\ \/ NullModule \/ RanPyz
     \/ /\ ~nopath /\ ran' = Program(file) /\ UNCHANGED path
        /\ UNCHANGED ret /\ PyErr_Print(Raised(file))
  /\ UNCHANGED <<line, file, zip, started, seen>>

\* runPyzFile prints the exception itself.
runPyzFile ==
  /\ pc = "run" /\ zip
  /\ \/ NullModule \/ RanPyz
     \/ /\ ~nopath /\ ran' = Program(file) /\ UNCHANGED path
        /\ ret' = 1 /\ PyErr_Print(Raised(file))
  /\ UNCHANGED <<line, file, zip, started, seen>>

-----------------------------------------------------------------------------
(* pyecli, and the end of both.                                             *)

\* PyRun_SimpleString prints an exception itself and returns -1.  The script
\* turns a PyConcreteError into sys.exit(1); argparse calls
\* sys.exit(0) after --help and sys.exit(2).
RunScript ==
  /\ pc = "script"
  /\ \E end \in {None, Error, Exit(0), Exit(1), Exit(2)} :
        /\ ran' = [end |-> end, kind |-> "script", path |-> path]
        /\ \/ end = None /\ Goto("finish") /\ UNCHANGED <<reports, pending, ret>>
           \/ ret' = -1 /\ PyErr_Print(end)
  /\ UNCHANGED <<line, file, zip, path, started, seen>>

\* Mutant: the exit status is not cut to eight bits.
FinishUncut ==
  /\ pc = "finish"
  /\ \/ pending = None /\ Quit(ret % 256) /\ UNCHANGED reports
     \/ pending.type = "exit" /\ Quit(pending.code) /\ UNCHANGED reports
     \/ pending = Error /\ Quit(1) /\ reports' = reports + 1
  /\ UNCHANGED <<line, file, zip, path, pending, ret, started, ran, seen>>

\* The exception that is still set, Py_Finalize and `return ret`.
Finish ==
  /\ pc = "finish"
  /\ \/ pending = None /\ Quit(ret % 256) /\ UNCHANGED reports
     \/ pending.type = "exit" /\ Quit(pending.code % 256) /\ UNCHANGED reports
     \/ pending = Error /\ Quit(1) /\ reports' = reports + 1
  /\ UNCHANGED <<line, file, zip, path, pending, ret, started, ran, seen>>

\* Another program replaces the file.
Replace ==
  /\ exe = "pyconcrete" /\ pc # "ended" /\ Cardinality(seen) <= MaxReplace
  /\ file' \in Files \ seen /\ seen' = seen \union {file'}
  /\ UNCHANGED <<line, pc, zip, path, pending, ret, reports, started, status, ran>>

Next ==
  \/ ConvertArguments \/ AppendInittab \/ initPython \/ createAndInitPyconcreteModule \/ Arguments
  \/ isZipFile \/ prependSysPath0 \/ prependSysPath0ForPyz \/ runFile \/ runPyzFile \/ RunScript \/ Finish
  \/ Replace

Spec == Init /\ [][Next]_vars

-----------------------------------------------------------------------------
TypeOK ==
  /\ file \in seen /\ seen \subseteq Files
  /\ pc \in {"convert", "inittab", "init", "package", "args", "isZip", "prepend", "run",
             "script", "finish", "ended"}
  /\ zip \in BOOLEAN /\ started \in BOOLEAN
  /\ path \in Seq({"dir", "archive"})
  /\ pending \in Ends
  /\ ret \in {0, 1, -1} /\ reports \in 0..2
  /\ status \in {Running, Crash} \union 0..255
  /\ pc = "ended" <=> status # Running

Runnable(f) == f.kind \in {"pye", "zip"} /\ f.fate \in Ends

\* The exit status is that of the program: 0 only if it came to its end, or
\* there was none to run, the code of sys.exit, and a failure otherwise.  A
\* file that nobody replaced and that is in order has been run.
StatusTellsOutcome ==
  status \in 0..255 =>
    /\ ran = NotRun =>
         /\ status = IF started /\ NothingToRun THEN 0 ELSE 1
         /\ started /\ ~NothingToRun =>
              \E f \in seen : ~Runnable(f) \/ seen # {f}
    /\ ran # NotRun =>
         status = CASE ran.end = None -> 0
                    [] ran.end.type = "exit" -> ran.end.code % 256
                    [] ran.end = Error -> IF exe = "pyecli" THEN 255 ELSE 1

\* Exactly one message tells of an exception, whichever of runFile,
\* runPyzFile and main has to print it, and none of sys.exit.  A failure before
\* the package is there has one or two.  Once it is there, the launcher dies
\* without a word in two cases only: of a path that cannot be made, and of
\* arguments that PySys_SetArgv must have and that cannot be decoded.
OneReport ==
  /\ status \in 0..255 =>
       IF started
       THEN reports = IF NothingToRun \/ (ran # NotRun /\ ran.end # Error) THEN 0 ELSE 1
       ELSE reports \in {1, 2}
  /\ status = Crash /\ started =>
       /\ exe = "pyconcrete" /\ ~NothingToRun /\ (nopath \/ (undecodable /\ legacy))
       /\ reports = 0 /\ ran = NotRun

\* tests/test_exe_pyz.py 169: "sys.path[0] is the .pyz file itself".  What a
\* program can import comes from its own archive, or the directory of its
\* file, before anything else, although nobody looks whether the path could
\* be set, and the file may have changed from one kind to the other.
OwnPathFirst ==
  ran # NotRun => Head(ran.path) = IF ran.kind = "zip" THEN "archive" ELSE "dir"
=============================================================================
