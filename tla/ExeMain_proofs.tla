--------------------------- MODULE ExeMain_proofs ---------------------------
(***************************************************************************)
(* Proofs about ExeMain, for any exit codes and faults and any number of   *)
(* replacements of the file.                                               *)
(*                                                                         *)
(* LaunchInv says at each place of main what is known there: until a       *)
(* program has been tried nothing is reported, and nothing set but by a    *)
(* path that could not be made (Untried); from then on an exception is     *)
(* either set or has been reported, never both (Accounted).                *)
(***************************************************************************)
EXTENDS ExeMain, SequenceTheorems, TLAPS

Early == {"convert", "inittab", "init", "package"}

Untried == ran = NotRun /\ ret = 0 /\ reports = 0

\* If the file was never replaced, isZipFile has looked at what is run.
SeenAsItIs == \A f \in seen : seen = {f} => (zip <=> f.kind = "zip")

\* What is the first entry of sys.path.
OwnFirst == path # <<>> /\ Head(path) = IF zip THEN "archive" ELSE "dir"

\* No program was run although the command line names one.
Refused == \A f \in seen : seen = {f} => ~Runnable(f)

\* An exception that is neither SystemExit nor of the kind that main is told of
\* by ret alone.
ErrorKnown ==
  \/ pending = Error /\ reports = 0 /\ exe = "pyconcrete"
  \/ pending = None /\ reports = 1 /\ ret = IF exe = "pyecli" THEN -1 ELSE 1

Accounted ==
  IF NothingToRun THEN Untried /\ pending = None
  ELSE IF ran = NotRun THEN Refused /\ ErrorKnown /\ exe = "pyconcrete"
  ELSE \/ ran.end = None /\ pending = None /\ ret = 0 /\ reports = 0
       \/ ran.end.type = "exit" /\ pending = ran.end /\ reports = 0
       \/ ran.end = Error /\ ErrorKnown

AtPlace ==
  /\ pc \in Early => ~started /\ Untried /\ pending = None /\ path = <<>>
  /\ pc \in {"args", "isZip", "prepend", "run", "script", "finish"} => started
  /\ pc \in {"args", "isZip", "prepend", "script"} => Untried /\ pending = None
  /\ pc = "args" => path = <<>>
  /\ pc \in {"isZip", "prepend", "run", "script"} =>
       /\ ~NothingToRun
       /\ exe = IF pc = "script" THEN "pyecli" ELSE "pyconcrete"
  /\ pc \in {"isZip", "prepend", "script"} => path = IF legacy THEN <<"dir">> ELSE <<>>
  /\ pc \in {"prepend", "run"} => SeenAsItIs
  /\ pc = "run" => Untried /\ (~nopath => OwnFirst /\ pending = None)
  /\ pc = "finish" => Accounted

\* A path that cannot be made, or arguments that cannot be decoded, on the way
\* from the package to the program.
Silenced ==
  /\ exe = "pyconcrete" /\ ~NothingToRun /\ (nopath \/ (undecodable /\ legacy))
  /\ reports = 0 /\ ran = NotRun

LaunchInv ==
  /\ TypeOK
  /\ exe \in {"pyconcrete", "pyecli"} /\ (exe = "pyecli" => legacy)
  /\ AtPlace
  /\ StatusTellsOutcome /\ OneReport /\ OwnPathFirst

USE ExeAssumption DEF ExeAssumption

-----------------------------------------------------------------------------
\* The values the variables are compared with differ.
LEMMA ValuesDiffer ==
  /\ None # Error /\ None \in Ends /\ Error \in Ends
  /\ None.type = "none" /\ Error.type = "error"
  /\ \A e \in Ends : \/ e = None \/ e = Error
                     \/ e.type = "exit" /\ e.code \in Nat /\ e = [type |-> "exit", code |-> e.code]
  /\ \A e \in Ends : e.type = "exit" => e # None /\ e # Error
  /\ \A e \in Ends : e.type = "error" <=> e = Error
  /\ NotRun.end = None /\ NotRun.kind = "none"
  BY DEF None, Error, Ends, Exit, NotRun

\* What the status -1 of PyRun_SimpleString becomes.
LEMMA CutToEightBits == 0 % 256 = 0 /\ 1 % 256 = 1 /\ (-1) % 256 = 255
<1>1. ASSUME NEW x \in Int, x + 1 = 0 PROVE x % 256 = 255
  BY <1>1
<1>2. -1 \in Int /\ -1 + 1 = 0
  OBVIOUS
<1>3. (-1) % 256 = 255
  BY <1>1, <1>2
<1> QED
  BY <1>3

\* A process that runs, or was killed, has no exit status.
LEMMA NotEnded ==
  /\ LaunchInv /\ pc # "ended" => status = Running
  /\ Running \notin 0..255 /\ Crash \notin 0..255
  BY DEF LaunchInv, TypeOK, Running, Crash

LEMMA LaunchInit == Init => LaunchInv
<1> SUFFICES ASSUME Init PROVE LaunchInv
  OBVIOUS
<1>1. TypeOK
  <2>1. path \in Seq({"dir", "archive"})
    BY DEF Init
  <2>2. pending \in Ends /\ file \in seen /\ seen \subseteq Files
    BY ValuesDiffer DEF Init
  <2>3. status \in {Running, Crash} \union 0..255 /\ (pc = "ended" <=> status # Running)
    BY DEF Init, Running, Crash
  <2>4. zip \in BOOLEAN /\ started \in BOOLEAN
    BY DEF Init
  <2> QED
    BY <2>1, <2>2, <2>3, <2>4 DEF Init, TypeOK
<1>2. AtPlace
  BY DEF Init, AtPlace, Early, Untried
<1>3. StatusTellsOutcome /\ OneReport /\ OwnPathFirst
  BY DEF Init, StatusTellsOutcome, OneReport, OwnPathFirst, Running
<1> QED
  BY <1>1, <1>2, <1>3 DEF LaunchInv, Init

LEMMA ConvertArgumentsStep == LaunchInv /\ ConvertArguments => LaunchInv'
<1> SUFFICES ASSUME LaunchInv, ConvertArguments PROVE LaunchInv'
  OBVIOUS
<1> USE DEF LaunchInv, ConvertArguments, line, Goto, Quit
<1>1. TypeOK'
  BY DEF TypeOK, Running, Crash
<1>2. AtPlace'
  BY DEF AtPlace, Early, Untried
<1>3. status' \notin 0..255 /\ ran' = NotRun /\ ~started'
  BY NotEnded DEF AtPlace, Early, Untried
<1>4. StatusTellsOutcome' /\ OneReport' /\ OwnPathFirst'
  BY <1>3 DEF StatusTellsOutcome, OneReport, OwnPathFirst
<1> QED
  BY <1>1, <1>2, <1>4

LEMMA AppendInittabStep == LaunchInv /\ AppendInittab => LaunchInv'
<1> SUFFICES ASSUME LaunchInv, AppendInittab PROVE LaunchInv'
  OBVIOUS
<1>1. pc = "inittab" /\ status = Running /\ ~started /\ reports = 0 /\ ran = NotRun
  BY NotEnded DEF AppendInittab, LaunchInv, AtPlace, Early, Untried
<1>2. \/ status' = Running /\ reports' = 0 /\ pc' # "ended"
      \/ status' = Crash /\ reports' \in {0, 1} /\ started' = started /\ pc' = "ended"
      \/ status' = 1 /\ reports' \in {1, 2} /\ started' = started /\ pc' = "ended"
  BY <1>1 DEF AppendInittab, Goto, Quit
<1>3. /\ started' \in BOOLEAN
      /\ UNCHANGED <<line, file, zip, path, pending, ret, ran, seen>>
  BY DEF AppendInittab, Goto, Quit, LaunchInv, TypeOK
<1>4. TypeOK'
  <2>1. status' \in {Running, Crash} \union 0..255 /\ (pc' = "ended" <=> status' # Running)
    BY <1>2 DEF Running, Crash
  <2>2. reports' \in 0..2
    BY <1>2
  <2> QED
    BY <1>3, <2>1, <2>2 DEF AppendInittab, Goto, Quit, LaunchInv, TypeOK
<1>5. AtPlace'
  BY DEF AppendInittab, Goto, Quit, LaunchInv, line, AtPlace, Early, Untried
<1>6. /\ status' \in 0..255 => status' = 1 /\ ~started' /\ reports' \in {1, 2}
      /\ status' = Crash => ~started'
  BY <1>1, <1>2, NotEnded DEF Running, Crash
<1>7. StatusTellsOutcome' /\ OneReport' /\ OwnPathFirst'
  BY <1>1, <1>3, <1>6 DEF StatusTellsOutcome, OneReport, OwnPathFirst
<1> QED
  BY <1>3, <1>4, <1>5, <1>7 DEF LaunchInv, line

LEMMA initPythonStep == LaunchInv /\ initPython => LaunchInv'
<1> SUFFICES ASSUME LaunchInv, initPython PROVE LaunchInv'
  OBVIOUS
<1>1. pc = "init" /\ status = Running /\ ~started /\ reports = 0 /\ ran = NotRun
  BY NotEnded DEF initPython, LaunchInv, AtPlace, Early, Untried
<1>2. \/ status' = Running /\ reports' = 0 /\ pc' # "ended"
      \/ status' = Crash /\ reports' \in {0, 1} /\ started' = started /\ pc' = "ended"
      \/ status' = 1 /\ reports' \in {1, 2} /\ started' = started /\ pc' = "ended"
  BY <1>1 DEF initPython, Goto, Quit
<1>3. /\ started' \in BOOLEAN
      /\ UNCHANGED <<line, file, zip, path, pending, ret, ran, seen>>
  BY DEF initPython, Goto, Quit, LaunchInv, TypeOK
<1>4. TypeOK'
  <2>1. status' \in {Running, Crash} \union 0..255 /\ (pc' = "ended" <=> status' # Running)
    BY <1>2 DEF Running, Crash
  <2>2. reports' \in 0..2
    BY <1>2
  <2> QED
    BY <1>3, <2>1, <2>2 DEF initPython, Goto, Quit, LaunchInv, TypeOK
<1>5. AtPlace'
  BY DEF initPython, Goto, Quit, LaunchInv, line, AtPlace, Early, Untried
<1>6. /\ status' \in 0..255 => status' = 1 /\ ~started' /\ reports' \in {1, 2}
      /\ status' = Crash => ~started'
  BY <1>1, <1>2, NotEnded DEF Running, Crash
<1>7. StatusTellsOutcome' /\ OneReport' /\ OwnPathFirst'
  BY <1>1, <1>3, <1>6 DEF StatusTellsOutcome, OneReport, OwnPathFirst
<1> QED
  BY <1>3, <1>4, <1>5, <1>7 DEF LaunchInv, line

LEMMA createAndInitPyconcreteModuleStep == LaunchInv /\ createAndInitPyconcreteModule => LaunchInv'
<1> SUFFICES ASSUME LaunchInv, createAndInitPyconcreteModule PROVE LaunchInv'
  OBVIOUS
<1>1. pc = "package" /\ status = Running /\ ~started /\ reports = 0 /\ ran = NotRun
  BY NotEnded DEF createAndInitPyconcreteModule, LaunchInv, AtPlace, Early, Untried
<1>2. \/ status' = Running /\ reports' = 0 /\ pc' # "ended"
      \/ status' = Crash /\ reports' \in {0, 1} /\ started' = started /\ pc' = "ended"
      \/ status' = 1 /\ reports' \in {1, 2} /\ started' = started /\ pc' = "ended"
  BY <1>1 DEF createAndInitPyconcreteModule, Goto, Quit, PyInit__pyconcrete
<1>3. /\ started' \in BOOLEAN
      /\ UNCHANGED <<line, file, zip, path, pending, ret, ran, seen>>
  BY DEF createAndInitPyconcreteModule, Goto, Quit, LaunchInv, TypeOK, PyInit__pyconcrete
<1>4. TypeOK'
  <2>1. status' \in {Running, Crash} \union 0..255 /\ (pc' = "ended" <=> status' # Running)
    BY <1>2 DEF Running, Crash
  <2>2. reports' \in 0..2
    BY <1>2
  <2> QED
    BY <1>3, <2>1, <2>2 DEF createAndInitPyconcreteModule, Goto, Quit, LaunchInv, TypeOK, PyInit__pyconcrete
<1>5. AtPlace'
  BY DEF createAndInitPyconcreteModule, Goto, Quit, LaunchInv, line, AtPlace, Early, Untried, PyInit__pyconcrete
<1>6. /\ status' \in 0..255 => status' = 1 /\ ~started' /\ reports' \in {1, 2}
      /\ status' = Crash => ~started'
  BY <1>1, <1>2, NotEnded DEF Running, Crash
<1>7. StatusTellsOutcome' /\ OneReport' /\ OwnPathFirst'
  BY <1>1, <1>3, <1>6 DEF StatusTellsOutcome, OneReport, OwnPathFirst
<1> QED
  BY <1>3, <1>4, <1>5, <1>7 DEF LaunchInv, line

\* The command line may name nothing to run.
LEMMA ArgumentsStep == LaunchInv /\ Arguments => LaunchInv'
<1> SUFFICES ASSUME LaunchInv, Arguments PROVE LaunchInv'
  OBVIOUS
<1> USE DEF LaunchInv, Arguments, line, Goto, Quit
<1>1. path' \in Seq({"dir", "archive"})
  <2>1. path \in Seq({"dir", "archive"})
    BY DEF TypeOK
  <2>2. path' = path \/ path' = <<"dir">> \/ path' = <<>>
    OBVIOUS
  <2>3. <<"dir">> \in Seq({"dir", "archive"}) /\ <<>> \in Seq({"dir", "archive"})
    OBVIOUS
  <2> QED
    BY <2>1, <2>2, <2>3
<1>2. TypeOK'
  BY <1>1 DEF TypeOK, Running, Crash
<1>3. AtPlace'
  BY DEF AtPlace, Early, Untried, Accounted, NothingToRun
<1>4. status' \notin 0..255 /\ ran' = NotRun /\ (status' = Crash => Silenced')
  <2>1. status = Running /\ Untried /\ Running # Crash
    BY NotEnded DEF AtPlace, Running, Crash
  <2> QED
    BY <2>1, NotEnded DEF Untried, Silenced, NothingToRun
<1>5. StatusTellsOutcome' /\ OneReport' /\ OwnPathFirst'
  BY <1>4 DEF StatusTellsOutcome, OneReport, OwnPathFirst, Silenced
<1> QED
  BY <1>2, <1>3, <1>5

\* What the launcher sees is the file, if it is never replaced.
LEMMA isZipFileStep == LaunchInv /\ isZipFile => LaunchInv'
<1> SUFFICES ASSUME LaunchInv, isZipFile PROVE LaunchInv'
  OBVIOUS
<1> USE DEF LaunchInv, isZipFile, line, Goto
<1>1. zip' \in BOOLEAN /\ (zip' <=> file.kind = "zip")
  OBVIOUS
<1>2. TypeOK'
  BY <1>1 DEF TypeOK, Running, Crash
<1>3. SeenAsItIs'
  BY <1>1 DEF SeenAsItIs, TypeOK
<1>4. AtPlace'
  BY <1>3 DEF AtPlace, Early, Untried, NothingToRun
<1>5. status' = Running /\ status' \notin {Crash} \union 0..255 /\ ran' = NotRun
  <2>1. status = Running /\ Untried
    BY NotEnded DEF AtPlace
  <2> QED
    BY <2>1 DEF Untried, Running, Crash
<1>6. StatusTellsOutcome' /\ OneReport' /\ OwnPathFirst'
  BY <1>5 DEF StatusTellsOutcome, OneReport, OwnPathFirst
<1> QED
  BY <1>2, <1>4, <1>6

\* Where the launcher uses what getFullPath returns.
LEMMA NullModuleStep ==
  ASSUME LaunchInv, pc \in {"prepend", "run"}, NullModule,
         UNCHANGED <<line, file, zip, started, seen>>
  PROVE  LaunchInv'
<1> USE DEF NullModule, Quit, line
<1>1. TypeOK'
  BY DEF LaunchInv, TypeOK, Running, Crash
<1>2. AtPlace'
  BY DEF AtPlace, Early
<1>3. status' \notin 0..255 /\ ran' = NotRun /\ Silenced'
  BY NotEnded DEF LaunchInv, AtPlace, Untried, Silenced, NothingToRun
<1>4. StatusTellsOutcome' /\ OneReport' /\ OwnPathFirst'
  BY <1>3 DEF StatusTellsOutcome, OneReport, OwnPathFirst, Silenced
<1> QED
  BY <1>1, <1>2, <1>4 DEF LaunchInv

\* The path of the program comes first, whoever has put it there.
LEMMA PrependStep == LaunchInv /\ (prependSysPath0 \/ prependSysPath0ForPyz) => LaunchInv'
<1> SUFFICES ASSUME LaunchInv, prependSysPath0 \/ prependSysPath0ForPyz PROVE LaunchInv'
  OBVIOUS
<1>1. pc = "prepend" /\ UNCHANGED <<line, file, zip, started, seen>>
  BY DEF prependSysPath0, prependSysPath0ForPyz, PrependForPyz
<1>2. CASE NullModule
  BY <1>1, <1>2, NullModuleStep
<1>3. CASE ~NullModule
  <2>1. /\ pc' = "run" /\ status' = Running /\ UNCHANGED <<ret, reports, ran>>
        /\ path = IF legacy THEN <<"dir">> ELSE <<>>
        /\ path \in Seq({"dir", "archive"}) /\ pending = None
    BY <1>1, <1>3, NotEnded
       DEF LaunchInv, TypeOK, AtPlace, prependSysPath0, prependSysPath0ForPyz, PrependForPyz, Prepend, Goto
  <2>2. \/ path' = path /\ UNCHANGED pending /\ ~zip /\ legacy
        \/ path' = <<"dir">> \o path /\ UNCHANGED pending /\ ~zip
        \/ path' = <<"archive">> \o path /\ UNCHANGED pending /\ zip
        \/ path' = path /\ pending' = Error /\ nopath
    BY <1>3 DEF prependSysPath0, prependSysPath0ForPyz, PrependForPyz, Prepend
  <2>3. path' \in Seq({"dir", "archive"})
    <3>1. <<"dir">> \in Seq({"dir", "archive"}) /\ <<"archive">> \in Seq({"dir", "archive"})
      OBVIOUS
    <3> QED
      BY <2>1, <2>2, <3>1, ConcatProperties
  <2>4. ~nopath => OwnFirst' /\ pending' = None
    <3> SUFFICES ASSUME ~nopath PROVE OwnFirst' /\ pending' = None
      OBVIOUS
    <3>1. path' # <<>> /\ Head(path') = IF zip THEN "archive" ELSE "dir"
      <4>1. CASE legacy
        BY <2>1, <2>2, <4>1
      <4>2. CASE ~legacy
        BY <2>1, <2>2, <4>2
      <4> QED
        BY <4>1, <4>2
    <3> QED
      BY <1>1, <2>1, <2>2, <3>1 DEF OwnFirst
  <2>5. TypeOK'
    <3>1. pending' \in Ends
      BY <2>1, <2>2, ValuesDiffer
    <3> QED
      BY <1>1, <2>1, <2>3, <3>1 DEF LaunchInv, TypeOK
  <2>6. AtPlace'
    BY <1>1, <2>1, <2>4 DEF LaunchInv, AtPlace, Early, Untried, NothingToRun, SeenAsItIs, line
  <2>7. status' \notin {Crash} \union 0..255 /\ ran' = NotRun
    BY <1>1, <2>1, NotEnded DEF LaunchInv, AtPlace, Untried, Running, Crash
  <2>8. StatusTellsOutcome' /\ OneReport' /\ OwnPathFirst'
    BY <2>7 DEF StatusTellsOutcome, OneReport, OwnPathFirst
  <2> QED
    BY <1>1, <2>5, <2>6, <2>8 DEF LaunchInv, line
<1> QED
  BY <1>2, <1>3

\* Whatever the checks of run_pye and run_pyz say, a program is run or an
\* exception raised, and a file nobody replaced is refused for a reason.
LEMMA ProgramFacts ==
  ASSUME LaunchInv, pc = "run", ~nopath
  PROVE  /\ Raised(file) \in Ends
         /\ Program(file) = NotRun =>
              /\ Raised(file) = Error
              /\ Refused
         /\ Program(file) # NotRun =>
              /\ Program(file).end = Raised(file)
              /\ Head(Program(file).path) = IF Program(file).kind = "zip" THEN "archive" ELSE "dir"
<1>1. file \in seen /\ SeenAsItIs /\ OwnFirst
  BY DEF LaunchInv, TypeOK, AtPlace
<1>2. CASE Passes(file)
  <2>1. Raised(file) = file.fate /\ file.fate \in Ends
    BY <1>2 DEF Passes, Raised
  <2>2. Program(file) = [end |-> file.fate, kind |-> file.kind, path |-> path]
    BY <1>2 DEF Program
  <2>3. file.kind = (IF zip THEN "zip" ELSE "pye")
    BY <1>2 DEF Passes
  <2>4. Program(file).kind \in {"zip", "pye"}
    BY <2>2, <2>3
  <2>5. Program(file) # NotRun
    BY <2>4, ValuesDiffer
  <2>6. Head(path) = IF file.kind = "zip" THEN "archive" ELSE "dir"
    BY <1>1, <2>3 DEF OwnFirst
  <2> QED
    BY <2>1, <2>2, <2>5, <2>6
<1>3. CASE ~Passes(file)
  <2>1. Raised(file) = Error /\ Program(file) = NotRun
    BY <1>3 DEF Raised, Program
  <2>2. Refused
    <3> SUFFICES ASSUME NEW f \in seen, seen = {f} PROVE ~Runnable(f)
      BY DEF Refused
    <3>1. f = file /\ (zip <=> f.kind = "zip")
      BY <1>1 DEF SeenAsItIs
    <3> QED
      BY <1>3, <3>1 DEF Passes, Runnable
  <2> QED
    BY <2>1, <2>2, ValuesDiffer
<1> QED
  BY <1>2, <1>3

\* runFile leaves the exception to main.
LEMMA runFileStep == LaunchInv /\ runFile => LaunchInv'
<1>0. LaunchInv /\ runFile /\ NullModule => LaunchInv'
  BY NullModuleStep DEF runFile
<1> SUFFICES ASSUME LaunchInv, runFile, ~NullModule PROVE LaunchInv'
  BY <1>0
<1> HIDE DEF Raised, Program
<1>1. /\ pc = "run" /\ pc' = "finish" /\ status' = status /\ ~nopath
      /\ ran' = Program(file) /\ pending' = Raised(file)
      /\ ret' = IF Raised(file) = None THEN 0 ELSE 1
      /\ UNCHANGED <<line, file, zip, path, reports, started, seen>>
  BY DEF runFile, Goto
<1>2. /\ exe = "pyconcrete" /\ ~NothingToRun /\ started /\ reports = 0 /\ status = Running
  BY <1>1, NotEnded DEF LaunchInv, AtPlace, Untried
<1>3. TypeOK'
  BY <1>1, ProgramFacts DEF LaunchInv, TypeOK, Running, Crash
<1>4. Accounted'
  <2>1. NothingToRun' = NothingToRun /\ exe' = exe
    BY <1>1 DEF NothingToRun, line
  <2>2. CASE Program(file) = NotRun
    <3>1. Refused' /\ Raised(file) = Error
      BY <1>1, <2>2, ProgramFacts DEF Refused, line
    <3>2. ErrorKnown'
      BY <1>1, <1>2, <2>1, <3>1 DEF ErrorKnown
    <3> QED
      BY <1>1, <1>2, <2>1, <2>2, <3>1, <3>2 DEF Accounted
  <2>3. CASE Program(file) # NotRun
    <3>1. ran'.end = Raised(file) /\ Raised(file) \in Ends
      BY <1>1, <2>3, ProgramFacts
    <3>2. CASE Raised(file) = None
      BY <1>1, <1>2, <2>1, <2>3, <3>1, <3>2 DEF Accounted
    <3>3. CASE Raised(file) = Error
      <4>1. ErrorKnown'
        BY <1>1, <1>2, <2>1, <3>3 DEF ErrorKnown
      <4> QED
        BY <1>1, <1>2, <2>1, <2>3, <3>1, <3>3, <4>1 DEF Accounted
    <3>4. CASE Raised(file).type = "exit"
      BY <1>1, <1>2, <2>1, <2>3, <3>1, <3>4 DEF Accounted
    <3> QED
      BY <3>1, <3>2, <3>3, <3>4, ValuesDiffer
  <2> QED
    BY <2>2, <2>3
<1>5. AtPlace'
  BY <1>1, <1>2, <1>4 DEF AtPlace, Early
<1>6. OwnPathFirst'
  BY <1>1, ProgramFacts DEF OwnPathFirst
<1>7. StatusTellsOutcome' /\ OneReport'
  BY <1>1, <1>2, NotEnded DEF StatusTellsOutcome, OneReport, Running, Crash
<1> QED
  BY <1>1, <1>3, <1>5, <1>6, <1>7 DEF LaunchInv, line

\* runPyzFile prints the exception; sys.exit ends the process there.
LEMMA runPyzFileStep == LaunchInv /\ runPyzFile => LaunchInv'
<1>0. LaunchInv /\ runPyzFile /\ NullModule => LaunchInv'
  BY NullModuleStep DEF runPyzFile
<1> SUFFICES ASSUME LaunchInv, runPyzFile, ~NullModule PROVE LaunchInv'
  BY <1>0
<1> HIDE DEF Raised, Program
<1>1. /\ pc = "run" /\ ran' = Program(file) /\ ~nopath
      /\ UNCHANGED <<line, file, zip, path, started, seen>>
  BY DEF runPyzFile, RanPyz
<1>2. /\ exe = "pyconcrete" /\ ~NothingToRun /\ started /\ reports = 0 /\ status = Running /\ ret = 0
      /\ pending = None
  BY <1>1, NotEnded DEF LaunchInv, AtPlace, Untried
<1>3. /\ Raised(file) \in Ends
      /\ \/ /\ Raised(file) = None /\ pc' = "finish" /\ status' = status /\ pending' = None
            /\ ret' = 0 /\ reports' = 0
         \/ /\ Raised(file).type = "exit" /\ pc' = "ended" /\ status' = Raised(file).code % 256
            /\ ret' = 1 /\ pending' = pending /\ reports' = 0
         \/ /\ Raised(file) = Error /\ pc' = "finish" /\ status' = status /\ pending' = None
            /\ ret' = 1 /\ reports' = 1
  BY <1>1, <1>2, ProgramFacts, ValuesDiffer DEF runPyzFile, RanPyz, PyErr_Print, Goto, Quit
<1>4. Raised(file).type = "exit" => Raised(file).code % 256 \in 0..255 /\ Raised(file) # None /\ Raised(file) # Error
  <2> SUFFICES ASSUME Raised(file).type = "exit"
               PROVE  Raised(file).code % 256 \in 0..255 /\ Raised(file) # None /\ Raised(file) # Error
    OBVIOUS
  <2>1. Raised(file).code \in Nat /\ Raised(file) # None /\ Raised(file) # Error
    BY <1>3, ValuesDiffer
  <2> QED
    BY <2>1
<1>5. TypeOK'
  <2>1. pending' \in Ends
    BY <1>3, ValuesDiffer DEF LaunchInv, TypeOK
  <2>2. status' \in {Running, Crash} \union 0..255 /\ (pc' = "ended" <=> status' # Running)
    BY <1>2, <1>3, <1>4 DEF Running
  <2>3. ret' \in {0, 1, -1} /\ reports' \in 0..2
        /\ pc' \in {"finish", "ended"}
    BY <1>3
  <2> QED
    BY <1>1, <2>1, <2>2, <2>3 DEF LaunchInv, TypeOK
<1>6. NothingToRun' = NothingToRun /\ exe' = exe
  BY <1>1 DEF NothingToRun, line
<1>7. Program(file) = NotRun => Refused' /\ Raised(file) = Error
  BY <1>1, ProgramFacts DEF Refused, line
<1>8. Program(file) # NotRun => ran'.end = Raised(file)
  BY <1>1, ProgramFacts
<1>9. pc' = "finish" => Accounted'
  <2>1. CASE pc' = "finish" /\ Raised(file) = Error
    <3>1. ErrorKnown'
      BY <1>2, <1>3, <1>6, <2>1, ValuesDiffer DEF ErrorKnown
    <3> QED
      BY <1>1, <1>2, <1>3, <1>6, <1>7, <1>8, <2>1, <3>1 DEF Accounted
  <2>2. CASE pc' = "finish" /\ Raised(file) = None
    <3>1. Program(file) # NotRun /\ ran'.end = None
      BY <1>7, <1>8, <2>2, ValuesDiffer
    <3> QED
      BY <1>1, <1>2, <1>3, <1>6, <2>2, <3>1, ValuesDiffer DEF Accounted
  <2> QED
    BY <1>3, <2>1, <2>2
<1>10. AtPlace'
  BY <1>1, <1>2, <1>3, <1>9 DEF AtPlace, Early
<1>11. OwnPathFirst'
  BY <1>1, ProgramFacts DEF OwnPathFirst
<1>12. status' \in 0..255 =>
         /\ ran' # NotRun /\ ran'.end = Raised(file) /\ Raised(file).type = "exit"
         /\ status' = Raised(file).code % 256 /\ reports' = 0
  BY <1>1, <1>2, <1>3, <1>4, <1>7, <1>8, NotEnded
<1>13. status' # Crash
  BY <1>2, <1>3, <1>4 DEF Running, Crash
<1>14. StatusTellsOutcome' /\ OneReport'
  <2>1. CASE status' \in 0..255
    BY <1>1, <1>2, <1>4, <1>6, <1>12, <1>13, <2>1 DEF StatusTellsOutcome, OneReport
  <2>2. CASE status' \notin 0..255
    BY <1>13, <2>2 DEF StatusTellsOutcome, OneReport
  <2> QED
    BY <2>1, <2>2
<1> QED
  BY <1>1, <1>5, <1>10, <1>11, <1>14 DEF LaunchInv, line

\* PyRun_SimpleString prints the exception of the script.
LEMMA RunScriptStep == LaunchInv /\ RunScript => LaunchInv'
<1> SUFFICES ASSUME LaunchInv, RunScript PROVE LaunchInv'
  OBVIOUS
<1>1. /\ pc = "script"
      /\ UNCHANGED <<line, file, zip, path, started, seen>>
  BY DEF RunScript
<1>2. /\ exe = "pyecli" /\ ~NothingToRun /\ started /\ reports = 0 /\ status = Running /\ ret = 0
      /\ path = <<"dir">> /\ pending = None
  BY <1>1, NotEnded DEF LaunchInv, AtPlace, Untried
<1>3. PICK end \in {None, Error, Exit(0), Exit(1), Exit(2)} :
        /\ ran' = [end |-> end, kind |-> "script", path |-> path]
        /\ \/ end = None /\ Goto("finish") /\ UNCHANGED <<reports, pending, ret>>
           \/ ret' = -1 /\ PyErr_Print(end)
  BY DEF RunScript
<1>4. \A n \in 0..2 : Exit(n).type = "exit" /\ Exit(n).code = n
  BY DEF Exit
<1>5. /\ ran'.end = end /\ ran'.kind = "script" /\ Head(ran'.path) = "dir" /\ ran' # NotRun
  BY <1>2, <1>3, ValuesDiffer
<1>6. \/ /\ end = None /\ pc' = "finish" /\ status' = Running /\ pending' = None
         /\ ret' = 0 /\ reports' = 0
      \/ /\ end.type = "exit" /\ end # None /\ end # Error /\ pc' = "ended" /\ end.code % 256 \in 0..2
         /\ status' = end.code % 256 /\ ret' = -1 /\ pending' = None /\ reports' = 0
      \/ /\ end = Error /\ pc' = "finish" /\ status' = Running /\ pending' = None
         /\ ret' = -1 /\ reports' = 1
  <2>1. CASE end = None
    BY <1>2, <1>3, <2>1, ValuesDiffer DEF PyErr_Print, Goto, Quit
  <2>2. CASE end = Error
    BY <1>2, <1>3, <2>2, ValuesDiffer DEF PyErr_Print, Goto, Quit
  <2>3. CASE end \in {Exit(0), Exit(1), Exit(2)}
    <3>1. end.type = "exit" /\ end.code \in 0..2 /\ end # None /\ end # Error
      BY <1>4, <2>3, ValuesDiffer
    <3>2. end.code % 256 \in 0..2
      BY <3>1
    <3>3. ret' = -1 /\ pc' = "ended" /\ status' = end.code % 256 /\ UNCHANGED <<reports, pending>>
      BY <1>3, <3>1 DEF PyErr_Print, Quit
    <3> QED
      BY <1>2, <3>1, <3>2, <3>3
  <2> QED
    BY <1>3, <2>1, <2>2, <2>3
<1>7. TypeOK'
  <2>1. status' \in {Running, Crash} \union 0..255 /\ (pc' = "ended" <=> status' # Running)
    BY <1>6 DEF Running
  <2>2. /\ ret' \in {0, 1, -1} /\ reports' \in 0..2 /\ pending' \in Ends
        /\ pc' \in {"finish", "ended"}
    BY <1>6, ValuesDiffer
  <2> QED
    BY <1>1, <2>1, <2>2 DEF LaunchInv, TypeOK
<1>8. NothingToRun' = NothingToRun /\ exe' = exe
  BY <1>1 DEF NothingToRun, line
<1>9. pc' = "finish" => Accounted'
  BY <1>2, <1>5, <1>6, <1>8 DEF Accounted, ErrorKnown
<1>10. AtPlace'
  BY <1>1, <1>2, <1>6, <1>9 DEF AtPlace, Early
<1>11. OwnPathFirst'
  BY <1>5 DEF OwnPathFirst
<1>12. status' # Crash
  BY <1>6 DEF Running, Crash
<1>13. StatusTellsOutcome' /\ OneReport'
  BY <1>1, <1>2, <1>5, <1>6, <1>8, <1>12, NotEnded DEF StatusTellsOutcome, OneReport
<1> QED
  BY <1>1, <1>7, <1>10, <1>11, <1>13 DEF LaunchInv, line

\* main reports the exception that is still set, and only that.
LEMMA FinishStep == LaunchInv /\ Finish => LaunchInv'
<1> SUFFICES ASSUME LaunchInv, Finish PROVE LaunchInv'
  OBVIOUS
<1>1. /\ pc = "finish" /\ pc' = "ended" /\ Accounted /\ started
      /\ UNCHANGED <<line, file, zip, path, pending, ret, started, ran, seen>>
  BY DEF Finish, Quit, LaunchInv, AtPlace
<1>2. /\ ret \in {0, 1, -1} /\ reports \in 0..2 /\ pending \in Ends /\ exe \in {"pyconcrete", "pyecli"}
  BY DEF LaunchInv, TypeOK
<1>3. \/ pending = None /\ status' = ret % 256 /\ reports' = reports
      \/ pending.type = "exit" /\ status' = pending.code % 256 /\ reports' = reports
         /\ pending # None /\ pending # Error /\ pending.code \in Nat
      \/ pending = Error /\ status' = 1 /\ reports' = reports + 1
  BY <1>2, ValuesDiffer DEF Finish, Quit
<1>4. 0 % 256 = 0 /\ 1 % 256 = 1 /\ (-1) % 256 = 255
  BY CutToEightBits
<1>5. status' \in 0..255 /\ status' # Crash
  BY <1>2, <1>3, <1>4 DEF Crash
<1>6. NothingToRun' = NothingToRun /\ exe' = exe
  BY <1>1 DEF NothingToRun, line
<1>7. StatusTellsOutcome' /\ OneReport' /\ OwnPathFirst' /\ reports' \in {0, 1}
  <2>1. CASE NothingToRun
    <3>1. status' = 0 /\ reports' = 0 /\ ran' = NotRun
      BY <1>1, <1>3, <1>4, <2>1, ValuesDiffer DEF Accounted, Untried
    <3>2. StatusTellsOutcome' /\ OneReport' /\ OwnPathFirst'
      BY <1>1, <1>5, <1>6, <2>1, <3>1 DEF StatusTellsOutcome, OneReport, OwnPathFirst
    <3> QED
      BY <3>1, <3>2
  <2>2. CASE ~NothingToRun /\ ran = NotRun
    <3>1. Refused /\ status' = 1 /\ reports' = 1 /\ ran' = NotRun
      BY <1>1, <1>3, <1>4, <2>2, ValuesDiffer DEF Accounted, ErrorKnown
    <3>2. \E f \in seen : ~Runnable(f) \/ seen # {f}
      <4>1. file \in seen
        BY DEF LaunchInv, TypeOK
      <4> QED
        BY <3>1, <4>1 DEF Refused
    <3>3. \E f \in seen' : ~Runnable(f) \/ seen' # {f}
      BY <1>1, <3>2 DEF line
    <3>4. StatusTellsOutcome' /\ OneReport' /\ OwnPathFirst'
      BY <1>1, <1>5, <1>6, <2>2, <3>1, <3>3 DEF StatusTellsOutcome, OneReport, OwnPathFirst
    <3> QED
      BY <3>1, <3>4
  <2>3. CASE ~NothingToRun /\ ran # NotRun
    <3>1. \/ ran.end = None /\ status' = 0 /\ reports' = 0
          \/ /\ ran.end.type = "exit" /\ ran.end # None /\ ran.end # Error
             /\ status' = ran.end.code % 256 /\ reports' = 0
          \/ ran.end = Error /\ status' = (IF exe = "pyecli" THEN 255 ELSE 1) /\ reports' = 1
      BY <1>1, <1>2, <1>3, <1>4, <2>3, ValuesDiffer DEF Accounted, ErrorKnown
    <3>2. OwnPathFirst'
      BY <1>1 DEF LaunchInv, OwnPathFirst
    <3>3. StatusTellsOutcome' /\ OneReport'
      BY <1>1, <1>5, <1>6, <2>3, <3>1, ValuesDiffer DEF StatusTellsOutcome, OneReport
    <3>4. reports' \in {0, 1}
      BY <3>1
    <3> QED
      BY <3>2, <3>3, <3>4
  <2> QED
    BY <2>1, <2>2, <2>3
<1>8. TypeOK'
  BY <1>1, <1>5, <1>7 DEF LaunchInv, TypeOK, Running
<1>9. AtPlace'
  BY <1>1 DEF AtPlace, Early
<1> QED
  BY <1>1, <1>7, <1>8, <1>9 DEF LaunchInv, line

\* After a replacement nothing is promised of the file.
LEMMA ReplaceStep == LaunchInv /\ Replace => LaunchInv'
<1> SUFFICES ASSUME LaunchInv, Replace PROVE LaunchInv'
  OBVIOUS
<1>1. /\ file' \in Files /\ file' \notin seen /\ seen' = seen \union {file'} /\ file \in seen
      /\ pc # "ended" /\ status = Running
      /\ UNCHANGED <<line, pc, zip, path, pending, ret, reports, started, status, ran>>
  BY NotEnded DEF Replace, LaunchInv, TypeOK
<1>2. \A f : seen' # {f}
  BY <1>1
<1>3. TypeOK'
  BY <1>1 DEF LaunchInv, TypeOK
<1>4. AtPlace'
  BY <1>1, <1>2 DEF LaunchInv, AtPlace, Early, Untried, SeenAsItIs, OwnFirst, Accounted, Refused,
                    ErrorKnown, NothingToRun, line
<1>5. StatusTellsOutcome' /\ OneReport' /\ OwnPathFirst'
  BY <1>1, NotEnded DEF LaunchInv, StatusTellsOutcome, OneReport, OwnPathFirst, Running, Crash
<1> QED
  BY <1>1, <1>3, <1>4, <1>5 DEF LaunchInv, line

LEMMA LaunchStep == LaunchInv /\ [Next]_vars => LaunchInv'
<1> SUFFICES ASSUME LaunchInv, [Next]_vars PROVE LaunchInv'
  OBVIOUS
<1>1. CASE Next
  BY <1>1, ConvertArgumentsStep, AppendInittabStep, initPythonStep,
     createAndInitPyconcreteModuleStep, ArgumentsStep, isZipFileStep, PrependStep, runFileStep,
     runPyzFileStep, RunScriptStep, FinishStep, ReplaceStep DEF Next
<1>2. CASE UNCHANGED vars
  <2> USE <1>2 DEF vars, line
  <2>1. TypeOK'
    BY DEF LaunchInv, TypeOK
  <2>2. Accounted => Accounted'
    BY DEF Accounted, Untried, Refused, ErrorKnown, NothingToRun
  <2>3. AtPlace'
    BY <2>2 DEF LaunchInv, AtPlace, Early, Untried, SeenAsItIs, OwnFirst, NothingToRun
  <2>4. StatusTellsOutcome' /\ OneReport' /\ OwnPathFirst'
    BY ZenonT(60) DEF LaunchInv, StatusTellsOutcome, OneReport, OwnPathFirst, NothingToRun
  <2> QED
    BY <2>1, <2>3, <2>4 DEF LaunchInv
<1> QED
  BY <1>1, <1>2

LEMMA Launch == Spec => []LaunchInv
  BY LaunchInit, LaunchStep, PTL DEF Spec
-----------------------------------------------------------------------------
\* main of both executables: every variable keeps its type, and the process
\* has an exit status exactly when it has ended.
THEOREM TypeCorrect == Spec => []TypeOK
<1>1. LaunchInv => TypeOK
  BY DEF LaunchInv
<1> QED
  BY <1>1, Launch, PTL

\* pyconcrete_exe.c and pyecli_wrap.c: the exit status is that of the program,
\* and a sound file that nobody replaced is run, for any codes and faults.
THEOREM StatusIsThePrograms == Spec => []StatusTellsOutcome
<1>1. LaunchInv => StatusTellsOutcome
  BY DEF LaunchInv
<1> QED
  BY <1>1, Launch, PTL

\* runFile, runPyzFile and main print an exception once between them, and no
\* launcher dies in silence but of a path or of arguments it cannot convert.
THEOREM FailuresAreReportedOnce == Spec => []OneReport
<1>1. LaunchInv => OneReport
  BY DEF LaunchInv
<1> QED
  BY <1>1, Launch, PTL

\* prependSysPath0, prependSysPath0ForPyz and PySys_SetArgv: a program that is
\* run finds its own archive or directory first on sys.path.
THEOREM OwnPathIsFirst == Spec => []OwnPathFirst
<1>1. LaunchInv => OwnPathFirst
  BY DEF LaunchInv
<1> QED
  BY <1>1, Launch, PTL
=============================================================================
