------------------------------ MODULE BuildZip ------------------------------
(***************************************************************************)
(* The commands of pyecli that work on a directory                         *)
(* (src/pyecli/pyecli.py): `compile --source=<dir>`, which walks the tree  *)
(* and compiles in place, and `build-zip`, which copies the tree, compiles *)
(* the copy and packs what has the extension .pye.  The user edits the     *)
(* tree meanwhile, the process may be killed and the disk may be full.     *)
(*                                                                         *)
(* A module is the path of its source below the source directory.  The     *)
(* content of a file is the version of the source it was made from.        *)
(* A file is compiled in the steps of PyeCompile, with the writes of its   *)
(* .pye taken together; no time stamps are equal, so that everything is    *)
(* made again.                                                             *)
(***************************************************************************)
EXTENDS Naturals, Sequences

CONSTANTS
  Modules,        \* paths: sequences of names
  Main,           \* the path of __main__.py
  SourceRoot,     \* the path given as --source
  WorkRoot,       \* the path of the working copy: a temporary directory, "src"
  IGNORE_FILES,   \* names of directories the walk leaves out
  IgnoreLists,    \* values of --ignore-file-list: sets of patterns
  StartTrees,     \* what the user's tree may be at first
  MaxVersion,     \* bound: versions the user gives a source
  SyntaxErrors,   \* pairs of a module and a version that does not compile
  Faults,         \* what may go wrong, a subset of AllFaults
  MaxRuns,        \* bound: runs of pyecli
  NoFile, Partial,        \* a file that is not there; a .pye or member cut short
  OldArchive, TornArchive \* the archive of an earlier build; one without a directory

AllFaults == {"crash", "full"}
Versions  == 1..MaxVersion
Generated == MaxVersion + 1     \* the __main__.py of --main
Stale     == 0                  \* made from an earlier version
Contents  == 0..Generated \union {NoFile}
File      == [py : Contents, pyc : Contents, pye : Contents \union {Partial}]
NoTree    == [m \in Modules |-> [py |-> NoFile, pyc |-> NoFile, pye |-> NoFile]]
Names     == UNION {{m[i] : i \in 1..Len(m)} : m \in Modules \union {SourceRoot, WorkRoot}}

BuildArgs   == [command : {"build-zip"}, pyz : BOOLEAN, main : {"none", "ok", "invalid"},
                ignore : IgnoreLists]
CompileArgs == [command : {"compile"}, mode : {"pye", "pyc"}, removePy : BOOLEAN,
                removePyc : BOOLEAN, ignore : IgnoreLists]

NoArgs      == [command |-> "none"]
NoModule    == <<>>

\* What build_zip passes to compile, lines 264-273.
BuildOptions == [mode |-> "pye", removePy |-> TRUE, removePyc |-> TRUE]

ASSUME BuildAssumption ==
  /\ MaxVersion \in Nat /\ MaxRuns \in Nat /\ Faults \subseteq AllFaults
  /\ NoFile \notin Nat /\ Partial \notin Nat \union {NoFile}
  /\ Main \in Modules /\ Modules \subseteq Seq(Names) \ {<<>>}
  /\ SourceRoot \in Seq(Names) /\ WorkRoot \in Seq(Names)
  /\ StartTrees \subseteq [Modules -> File]
  /\ SyntaxErrors \subseteq Modules \X Versions
  /\ IgnoreLists \subseteq SUBSET [kind : {"name", "below", "within"}, name : Names]

VARIABLES
  user, work,   \* the user's tree and the working copy
  archive,      \* the output: members and their content
  pc, args,
  todo,         \* the files the current loop has still to come to
  py_file, pyc_exists,  \* of the file that is compiled
  read,         \* history: the version of it that py_compile has read
  torn,         \* history: the files whose .pye has lost a write in this run
  began,        \* history: the user's tree when the run began
  made,         \* history: of which run the archive is, and how that ended
  runs          \* counter of the bound

file == <<py_file, pyc_exists, read>>
vars == <<user, work, archive, pc, args, todo, py_file, pyc_exists, read, torn, began, made,
          runs>>

Init ==
  /\ user \in StartTrees /\ work = NoTree
  /\ archive = OldArchive
  /\ pc = "idle" /\ todo = {} /\ args = NoArgs /\ runs = 0
  /\ py_file = NoModule /\ pyc_exists = FALSE /\ read = NoFile /\ torn = {}
  /\ began = NoTree /\ made = [how |-> "none"]

-----------------------------------------------------------------------------
(* Which files the walk leaves out.                                         *)

\* _get_ignore_patterns and fnmatch.  "n" becomes "*/n" and names a file or
\* directory; "n/*" becomes "*/n/*" and matches all that is below an n;
\* "*n*" stays as it is.  The path is the full one, `*` spans separators.
fnmatch(path, patterns) ==
  \E p \in patterns :
     CASE p.kind = "name"   -> path[Len(path)] = p.name
       [] p.kind = "below"  -> \E i \in 1..Len(path) - 1 : path[i] = p.name
       [] p.kind = "within" -> \E i \in 1..Len(path) : path[i] = p.name

\* Mutant: the names and patterns are tested for files only, not for the
\* directories on the way to them.
FileIgnored(root, m, patterns) == fnmatch(root \o m, patterns)

\* The walk comes to a module unless it leaves out its file or a directory on
\* the way.  (A file "x.py" has none of the names in IGNORE_FILES.)
Ignored(root, m, patterns) ==
  \E i \in 1..Len(m) :
     \/ i < Len(m) /\ m[i] \in IGNORE_FILES
     \/ fnmatch(root \o SubSeq(m, 1, i), patterns)

\* The sources compile_dir comes to in a tree.
compile_dir(root, tree, patterns) ==
  {m \in Modules : tree[m].py # NoFile /\ ~Ignored(root, m, patterns)}

\* The process ends; its working copy is removed, or nobody's any more.
End(how) ==
  /\ pc' = "idle" /\ todo' = {} /\ args' = NoArgs /\ work' = NoTree /\ began' = NoTree
  /\ py_file' = NoModule /\ pyc_exists' = FALSE /\ read' = NoFile /\ torn' = {}
  /\ made' = IF pc = "pack" THEN [made EXCEPT !.how = how] ELSE made

-----------------------------------------------------------------------------
(* compile, for a directory.                                                *)

Begin ==
  /\ pc = "idle" /\ runs < MaxRuns
  /\ runs' = runs + 1

Compile(a) ==
  /\ Begin
  /\ pc' = "walk" /\ args' = a /\ began' = user
  /\ todo' = compile_dir(SourceRoot, user, a.ignore)
  /\ UNCHANGED <<user, work, archive, file, torn, made>>

\* The tree that is walked, and the options for its files.
inPlace == args.command = "compile"
tree    == IF inPlace THEN user ELSE work
opt     == IF inPlace THEN args ELSE BuildOptions

\* The files of the module that is compiled become f.
Put(f) ==
  /\ user' = IF inPlace THEN [user EXCEPT ![py_file] = f] ELSE user
  /\ work' = IF inPlace THEN work ELSE [work EXCEPT ![py_file] = f]

\* On to the next step for this file; "walk" when nothing is left to do.
Goto(place, version) ==
  /\ pc' = place
  /\ py_file' = IF place = "walk" THEN NoModule ELSE py_file
  /\ pyc_exists' = (place # "walk" /\ pyc_exists)
  /\ read' = IF place = "walk" THEN NoFile ELSE version
  /\ UNCHANGED <<args, todo, began, made>>

LastStep == IF opt.removePy THEN "removePy" ELSE "walk"
AfterPyc == IF opt.mode = "pye" THEN "open" ELSE LastStep
AfterPye == IF ~pyc_exists \/ opt.removePyc THEN "removePyc" ELSE LastStep

\* The files come in the order of os.listdir, which is any.
CompileFile(m) ==
  /\ pc = "walk" /\ m \in todo
  /\ todo' = todo \ {m} /\ pc' = "compile"
  /\ py_file' = m /\ pyc_exists' = (tree[m].pyc # NoFile)
  /\ UNCHANGED <<user, work, archive, args, read, torn, began, made, runs>>

\* The .pyc after py_compile.compile: a syntax error leaves it as it was.
PycOf(m, f) == IF <<m, f.py>> \in SyntaxErrors THEN f.pyc ELSE f.py

\* py_compile.compile, which replaces the .pyc or, when the disk is full,
\* leaves it and raises OSError.
CompilePyc ==
  LET f == tree[py_file] IN
  /\ pc = "compile"
  /\ \/ /\ Put([f EXCEPT !.pyc = PycOf(py_file, f)])
        /\ Goto(AfterPyc, f.py) /\ UNCHANGED torn
     \/ "full" \in Faults /\ <<py_file, f.py>> \notin SyntaxErrors /\ End("failed") /\ UNCHANGED user
  /\ UNCHANGED <<archive, runs>>

\* Mutant: an existing .pye is taken to be up to date.
OpenPyeOnce ==
  LET f == tree[py_file] IN
  /\ pc = "open"
  /\ \/ f.pyc = NoFile /\ End("failed") /\ UNCHANGED user
     \/ /\ f.pyc # NoFile /\ f.pye = NoFile
        /\ Put([f EXCEPT !.pye = Partial]) /\ Goto("write", read) /\ UNCHANGED torn
     \/ /\ f.pyc # NoFile /\ f.pye # NoFile
        /\ Put(f) /\ Goto(AfterPye, read) /\ UNCHANGED torn
  /\ UNCHANGED <<archive, runs>>

\* encrypt_file opens the .pyc and empties the .pye; either may fail, the
\* first when a syntax error has left no .pyc.
OpenPye ==
  LET f == tree[py_file] IN
  /\ pc = "open"
  /\ \/ /\ f.pyc = NoFile \/ "full" \in Faults
        /\ End("failed") /\ UNCHANGED user
     \/ /\ f.pyc # NoFile
        /\ Put([f EXCEPT !.pye = Partial]) /\ Goto("write", read) /\ UNCHANGED torn
  /\ UNCHANGED <<archive, runs>>

\* The .pye is written.  encrypt_file does not notice a lost write.
WritePye ==
  LET f == tree[py_file] IN
  /\ pc = "write"
  /\ \/ Put([f EXCEPT !.pye = f.pyc]) /\ UNCHANGED torn
     \/ "full" \in Faults /\ Put(f) /\ torn' = torn \union {py_file}
  /\ Goto(AfterPye, read)
  /\ UNCHANGED <<archive, runs>>

RemovePyc ==
  /\ pc = "removePyc"
  /\ Put([tree[py_file] EXCEPT !.pyc = NoFile])
  /\ Goto(LastStep, read)
  /\ UNCHANGED <<archive, torn, runs>>

RemovePy ==
  /\ pc = "removePy"
  /\ Put([tree[py_file] EXCEPT !.py = NoFile])
  /\ Goto("walk", read)
  /\ UNCHANGED <<archive, torn, runs>>

CompileEnds ==
  /\ pc = "walk" /\ todo = {} /\ args.command = "compile"
  /\ End("ok")
  /\ UNCHANGED <<user, archive, runs>>

-----------------------------------------------------------------------------
(* build_zip.                                                               *)

\* Mutant: a .pyz is accepted without an entry point.
BuildAny(a) ==
  /\ Begin
  /\ pc' = "copy" /\ args' = a /\ todo' = Modules /\ began' = user
  /\ UNCHANGED <<user, work, archive, file, torn, made>>

\* A .pyz needs a __main__.py or --main.
Build(a) ==
  /\ Begin
  /\ \/ a.pyz /\ a.main = "none" /\ user[Main].py = NoFile /\ UNCHANGED <<pc, args, todo, began>>
     \/ /\ ~a.pyz \/ a.main # "none" \/ user[Main].py # NoFile
        /\ pc' = "copy" /\ args' = a /\ todo' = Modules /\ began' = user
  /\ UNCHANGED <<user, work, archive, file, torn, made>>

\* shutil.copytree takes one file after the other, with its time stamp.
CopyFile(m) ==
  /\ pc = "copy" /\ m \in todo
  /\ work' = [work EXCEPT ![m] = user[m]]
  /\ todo' = todo \ {m}
  /\ UNCHANGED <<user, archive, pc, args, file, torn, began, made, runs>>

\* generate_main_py, which fails on a conflict or a full disk; then the walk
\* of the working copy begins.
generate_main_py ==
  LET conflict == args.main = "invalid" \/ (args.main = "ok" /\ work[Main].py # NoFile)
      copy == IF args.main = "ok" THEN [work EXCEPT ![Main].py = Generated] ELSE work
  IN  /\ pc = "copy" /\ todo = {}
      /\ \/ /\ conflict \/ (args.main = "ok" /\ "full" \in Faults)
            /\ End("failed")
         \/ /\ ~conflict
            /\ work' = copy
            /\ pc' = "walk" /\ todo' = compile_dir(WorkRoot, copy, args.ignore)
            /\ UNCHANGED <<args, file, torn, began, made>>
      /\ UNCHANGED <<user, archive, runs>>

PyeFiles == {m \in Modules : work[m].pye # NoFile}
Packed   == [m \in PyeFiles \ todo |-> work[m].pye]

\* Mutant: the output is opened with 'a', what is in it stays.
OpenToAppend ==
  /\ pc = "walk" /\ todo = {} /\ args.command = "build-zip"
  /\ made' = [how |-> "running", tree |-> began, args |-> args, torn |-> torn]
  /\ pc' = "pack" /\ todo' = PyeFiles
  /\ UNCHANGED <<user, work, archive, args, file, torn, began, runs>>

\* zipfile.ZipFile(output, 'w') empties the output.
OpenArchive ==
  /\ pc = "walk" /\ todo = {} /\ args.command = "build-zip"
  /\ archive' = TornArchive
  /\ made' = [how |-> "running", tree |-> began, args |-> args, torn |-> torn]
  /\ pc' = "pack" /\ todo' = PyeFiles
  /\ UNCHANGED <<user, work, args, file, torn, began, runs>>

PackFile(m) ==
  /\ pc = "pack" /\ m \in todo
  /\ todo' = todo \ {m}
  /\ UNCHANGED <<user, work, archive, pc, args, file, torn, began, made, runs>>

\* The end of the `with` block writes the directory of the archive.
CloseArchive ==
  /\ pc = "pack" /\ todo = {}
  /\ archive' = Packed
  /\ End("ok")
  /\ UNCHANGED <<user, runs>>

\* Mutant: only a disk that takes no directory either ends in an exception,
\* any other failure is passed over.
PackFailsQuietly ==
  /\ "full" \in Faults /\ pc = "pack"
  /\ \/ archive' = TornArchive /\ End("failed")
     \/ archive' = Packed /\ End("ok")
  /\ UNCHANGED <<user, runs>>

\* An exception in the `with` block closes the archive all the same: it gets
\* a directory of what is in it, the member that was being written perhaps
\* cut short; unless that cannot be written either.
PackFails ==
  /\ "full" \in Faults /\ pc = "pack"
  /\ \/ archive' \in {TornArchive, Packed}
     \/ \E m \in todo :
           archive' = [n \in DOMAIN Packed \union {m} |-> IF n = m THEN Partial ELSE Packed[n]]
  /\ End("failed")
  /\ UNCHANGED <<user, runs>>

-----------------------------------------------------------------------------
(* Faults and the user.                                                     *)

CopyFails ==
  /\ "full" \in Faults /\ pc = "copy"
  /\ End("failed")
  /\ UNCHANGED <<user, archive, runs>>

\* The working copy stays behind where nobody looks for it.
Kill ==
  /\ "crash" \in Faults /\ pc # "idle"
  /\ End("killed")
  /\ UNCHANGED <<user, archive, runs>>

Edit(m) ==
  /\ user[m].py \in 1..MaxVersion - 1
  /\ user' = [user EXCEPT ![m].py = @ + 1]
  /\ UNCHANGED <<work, archive, pc, args, todo, file, torn, began, made, runs>>

Next ==
  \/ \E a \in CompileArgs : Compile(a)
  \/ \E a \in BuildArgs : Build(a)
  \/ \E m \in Modules : CompileFile(m) \/ CopyFile(m) \/ PackFile(m) \/ Edit(m)
  \/ CompilePyc \/ OpenPye \/ WritePye \/ RemovePyc \/ RemovePy
  \/ CompileEnds \/ generate_main_py \/ OpenArchive \/ CloseArchive
  \/ PackFails \/ CopyFails \/ Kill

Spec == Init /\ [][Next]_vars

-----------------------------------------------------------------------------
\* The places where a file is compiled.
Busy     == {"compile", "open", "write", "removePyc", "removePy"}
Readable == archive \notin {OldArchive, TornArchive}

TypeOK ==
  /\ user \in [Modules -> File] /\ work \in [Modules -> File]
  /\ archive \in {OldArchive, TornArchive}
       \union UNION {[S -> 0..Generated \union {Partial}] : S \in SUBSET Modules}
  /\ pc \in {"idle", "walk", "copy", "pack"} \union Busy
  /\ args \in BuildArgs \union CompileArgs \union {NoArgs}
  /\ todo \subseteq Modules /\ torn \subseteq Modules /\ runs \in 0..MaxRuns
  /\ pyc_exists \in BOOLEAN /\ read \in Contents
  /\ IF pc \in Busy THEN py_file \in Modules ELSE file = <<NoModule, FALSE, NoFile>>
  /\ made.how \in {"none", "running", "ok", "failed", "killed"}
  /\ pc = "idle" => todo = {} /\ torn = {} /\ args = NoArgs /\ work = NoTree
  /\ pc = "pack" => archive = TornArchive /\ made.how = "running"

\* What the user can mean by a pattern: a part of the module's own path.  A
\* pattern for all that is below a directory, or within a path, also meets
\* the names of the working copy.
MeantBy(m, p) ==
  \/ p.kind = "below" /\ p.name \in {m[i] : i \in 1..Len(m) - 1}
  \/ p.kind # "below" /\ p.name \in {m[i] : i \in 1..Len(m)}
MeetsWorkRoot(p) == p.kind # "name" /\ p.name \in {WorkRoot[i] : i \in 1..Len(WorkRoot)}

LeftOut(m) ==
  \/ \E i \in 1..Len(m) - 1 : m[i] \in IGNORE_FILES
  \/ \E p \in made.args.ignore : MeantBy(m, p) \/ MeetsWorkRoot(p)

HasSource(m) == made.tree[m].py # NoFile \/ (m = Main /\ made.args.main = "ok")

\* A member that is at least as new as the source was when the build began,
\* or the old .pyc that stands in for a source that does not compile.
Current(m) ==
  \/ /\ archive[m] # Partial
     /\ IF made.tree[m].py = NoFile THEN archive[m] = Generated ELSE archive[m] >= made.tree[m].py
  \/ \E v \in Versions : <<m, v>> \in SyntaxErrors /\ archive[m] = made.tree[m].pyc

\* Whoever can read the archive, while it is built or after, finds in it every
\* module the source directory had when the build began, in that version or a
\* later one, unless it was left out on purpose or met the name of the working
\* copy; or the build has reported its failure.  Two things are reported as a
\* success all the same: an old .pyc stands in for a source that does not
\* compile, and a .pye that has lost a write is packed as it is.  A killed
\* build leaves nothing readable.
ReadableIsCurrent ==
  Readable /\ made.how # "failed" =>
    /\ made.how = "ok"
    /\ \A m \in Modules : HasSource(m) /\ ~LeftOut(m) =>
         /\ m \in DOMAIN archive
         /\ IF m \in made.torn THEN archive[m] = Partial ELSE Current(m)

\* What was left out is not compiled: it is packed only as the .pye that lay
\* in the source directory, of whatever version, and so is a .pye without
\* a source.
OthersPackedAsFound ==
  Readable => \A m \in DOMAIN archive :
    \/ archive[m] = Partial /\ made.how = "failed"
    \/ HasSource(m) /\ ~LeftOut(m)
    \/ archive[m] = made.tree[m].pye

\* pyecli.py 250: a .pyz "requires __main__.py in source directory or --main
\* entry point".  A .pyz that was built has a whole entry point, unless its
\* __main__.py was left out or has lost a write.
PyzCanStart ==
  Readable /\ made.how = "ok" /\ made.args.pyz =>
    \/ LeftOut(Main) \/ Main \in made.torn
    \/ Main \in DOMAIN archive /\ archive[Main] # Partial

\* What py_compile has read of the file is in one of its outputs; a source
\* that does not compile, or whose .pye has lost a write, is not.
ReadIsSaved ==
  \/ read \in {user[py_file].pyc, user[py_file].pye}
  \/ <<py_file, read>> \in SyntaxErrors
  \/ py_file \in torn

\* pyecli.py 255: "copy source to temp dir to avoid destroying original .py
\* files".  Only the user changes the tree while build-zip runs.  A walk in
\* place touches the file it compiles, and takes its source away only when
\* what it has read of it is in the output; what can go with it is an edit
\* made since it was read.
UserTreeKept ==
  [][\A m \in Modules : user'[m] # user[m] =>
       \/ \E v \in Versions : v > user[m].py /\ user'[m] = [user[m] EXCEPT !.py = v]
       \/ /\ args.command = "compile" /\ m = py_file
          /\ user'[m].py # user[m].py =>
               user'[m].py = NoFile /\ user[m].py >= read /\ ReadIsSaved]_vars
=============================================================================
