--------------------------- MODULE BuildZip_proofs ---------------------------
(***************************************************************************)
(* Proofs about BuildZip, for any modules, patterns, trees, versions and   *)
(* syntax errors and any number of runs.                                   *)
(*                                                                         *)
(* ZipInv follows a source from the user's tree to the archive: the copy   *)
(* has the version the build began with or a later one (Later), each step  *)
(* of a compilation has made something of that (Progress), and after the   *)
(* walk every file is settled: left as it was found, because it was        *)
(* skipped or is not there, or replaced by what was made from its source.  *)
(***************************************************************************)
EXTENDS BuildZip, SequenceTheorems, TLAPS

\* File f is g, or g edited since.
Later(f, g) ==
  \/ f = g
  \/ /\ g.py \in Versions /\ f.py \in Versions /\ f.py >= g.py
     /\ f.pyc = g.pyc /\ f.pye = g.pye

\* What compile may find of module m in the working copy.
Source(f, m) ==
  IF m = Main /\ args.main = "ok"
  THEN began[m].py = NoFile /\ f = [began[m] EXCEPT !.py = Generated]
  ELSE Later(f, began[m])

Skipped(m) == Ignored(WorkRoot, m, args.ignore)

\* The content a .pye is given, with t the modules that have lost a write.
MadeOf(m, pye, t) ==
  /\ pye # NoFile
  /\ \E f \in File : /\ Source(f, m) /\ f.py # NoFile
                    /\ pye = IF m \in t THEN Partial ELSE PycOf(m, f)

\* What the walk leaves.
Settled(m) ==
  \/ Source(work[m], m) /\ (Skipped(m) \/ work[m].py = NoFile)
  \/ ~Skipped(m) /\ MadeOf(m, work[m].pye, torn)

\* What the walk has still to come to.
Waiting(m) ==
  Source(work[m], m) /\ work[m].py # NoFile /\ ~Skipped(m) /\ m \notin torn

\* What is known of the files f of module m when its compilation is at place.
Progress(place, m, f, t) ==
  /\ place = "compile" => Source(f, m) /\ f.py # NoFile
  /\ place \in {"open", "write"} =>
       \E g \in File : Source(g, m) /\ g.py # NoFile /\ f.pyc = PycOf(m, g)
  /\ place = "write" => f.pyc # NoFile /\ f.pye = Partial
  /\ place \in {"compile", "open", "write"} => m \notin t
  /\ place \in {"removePyc", "removePy"} => MadeOf(m, f.pye, t)

Walking == Busy \union {"walk"}

Building ==
  /\ began \in [Modules -> File]
  /\ \A m \in Modules : Later(user[m], began[m])
  /\ args.pyz => args.main # "none" \/ began[Main].py # NoFile
  /\ pc = "copy" => torn = {} /\ \A m \in Modules \ todo : Later(work[m], began[m])
  /\ pc \in Walking => /\ args.main # "invalid"
                       /\ \A m \in Modules \ (todo \union {py_file}) : Settled(m)
                       /\ \A m \in todo : Waiting(m)
  /\ pc \in Busy => /\ py_file \notin todo /\ ~Skipped(py_file)
                    /\ Progress(pc, py_file, work[py_file], torn)
  /\ pc = "pack" => /\ args.main # "invalid"
                    /\ \A m \in Modules : Settled(m)
                    /\ made = [how |-> "running", tree |-> began, args |-> args, torn |-> torn]

ZipInv ==
  /\ TypeOK
  /\ pc \in {"copy", "pack"} => args \in BuildArgs
  /\ pc \in Walking => args \in BuildArgs \union CompileArgs
  /\ args \in BuildArgs => Building
  /\ ReadableIsCurrent /\ OthersPackedAsFound /\ PyzCanStart

USE BuildAssumption DEF BuildAssumption

-----------------------------------------------------------------------------
(* Which modules a pattern meets.                                           *)

\* A pattern and one path, as in fnmatch.
Meets(path, p) ==
  CASE p.kind = "name"   -> path[Len(path)] = p.name
    [] p.kind = "below"  -> \E n \in 1..Len(path) - 1 : path[n] = p.name
    [] p.kind = "within" -> \E n \in 1..Len(path) : path[n] = p.name

\* The path of a module, or of a directory on the way to it, in a tree.
LEMMA PathBelow ==
  ASSUME NEW root \in Seq(Names), NEW m \in Modules, NEW l \in 1..Len(m)
  PROVE  /\ Len(root) \in Nat /\ Len(m) \in Nat
         /\ Len(root \o SubSeq(m, 1, l)) = Len(root) + l
         /\ \A n \in 1..Len(root) : (root \o SubSeq(m, 1, l))[n] = root[n]
         /\ \A n \in 1..l : (root \o SubSeq(m, 1, l))[Len(root) + n] = m[n]
<1>1. m \in Seq(Names) /\ Len(m) \in Nat /\ Len(root) \in Nat
  OBVIOUS
<1> DEFINE t == SubSeq(m, 1, l)
<1>2. t \in Seq(Names) /\ Len(t) = l /\ \A n \in 1..l : t[n] = m[n]
  BY <1>1, SubSeqProperties
<1> HIDE DEF t
<1>3. /\ Len(root \o t) = Len(root) + Len(t)
      /\ \A n \in 1..Len(root) + Len(t) :
           (root \o t)[n] = IF n <= Len(root) THEN root[n] ELSE t[n - Len(root)]
  BY <1>1, <1>2, ConcatProperties, ZenonT(60)
<1>4. \A n \in 1..Len(root) : (root \o t)[n] = root[n]
  BY <1>1, <1>2, <1>3
<1>5. ASSUME NEW n \in 1..l PROVE (root \o t)[Len(root) + n] = m[n]
  <2>1. Len(root) + n \in 1..Len(root) + Len(t) /\ ~(Len(root) + n <= Len(root))
        /\ (Len(root) + n) - Len(root) = n
    BY <1>1, <1>2
  <2> QED
    BY <1>2, <1>3, <2>1
<1> QED
  BY <1>1, <1>2, <1>3, <1>4, <1>5 DEF t

\* A name is tested at every part of the way, the other patterns also meet
\* the names of the root.
LEMMA MeetsOnTheWay ==
  ASSUME NEW m \in Modules, NEW l \in 1..Len(m), NEW p,
         p.kind \in {"name", "below", "within"}
  PROVE  Meets(WorkRoot \o SubSeq(m, 1, l), p) <=>
           \/ p.kind = "name" /\ m[l] = p.name
           \/ p.kind = "below" /\ \E n \in 1..l - 1 : m[n] = p.name
           \/ p.kind = "within" /\ \E n \in 1..l : m[n] = p.name
           \/ MeetsWorkRoot(p)
<1> DEFINE path == WorkRoot \o SubSeq(m, 1, l)
           R == Len(WorkRoot)
<1>1. /\ R \in Nat /\ Len(m) \in Nat /\ Len(path) = R + l /\ l \in 1..Len(m)
      /\ \A n \in 1..R : path[n] = WorkRoot[n]
      /\ \A n \in 1..l : path[R + n] = m[n]
  BY PathBelow
<1> HIDE DEF path, R
<1>2. MeetsWorkRoot(p) <=> p.kind # "name" /\ \E n \in 1..R : WorkRoot[n] = p.name
  BY DEF MeetsWorkRoot, R
<1>3. ASSUME NEW k \in 0..l
      PROVE  (\E n \in 1..R + k : path[n] = p.name) <=>
               (\E n \in 1..R : WorkRoot[n] = p.name) \/ \E n \in 1..k : m[n] = p.name
  <2>1. ASSUME NEW n \in 1..R + k, path[n] = p.name
        PROVE  (\E h \in 1..R : WorkRoot[h] = p.name) \/ \E h \in 1..k : m[h] = p.name
    <3>1. CASE n <= R
      BY <1>1, <2>1, <3>1
    <3>2. CASE n > R
      <4>1. n - R \in 1..k /\ n - R \in 1..l /\ R + (n - R) = n
        BY <1>1, <3>2
      <4> QED
        BY <1>1, <2>1, <4>1
    <3> QED
      BY <1>1, <3>1, <3>2
  <2>2. ASSUME NEW n \in 1..R, WorkRoot[n] = p.name
        PROVE  \E h \in 1..R + k : path[h] = p.name
    <3>1. n \in 1..R + k
      BY <1>1
    <3> QED
      BY <1>1, <2>2, <3>1
  <2>3. ASSUME NEW n \in 1..k, m[n] = p.name
        PROVE  \E h \in 1..R + k : path[h] = p.name
    <3>1. R + n \in 1..R + k /\ n \in 1..l
      BY <1>1
    <3> QED
      BY <1>1, <2>3, <3>1
  <2> QED
    BY <2>1, <2>2, <2>3
<1>4. CASE p.kind = "name"
  <2>1. Meets(path, p) <=> path[R + l] = p.name
    BY <1>1, <1>4 DEF Meets
  <2> QED
    BY <1>1, <1>2, <1>4, <2>1 DEF path
<1>5. CASE p.kind = "below"
  <2>1. Meets(path, p) <=> \E n \in 1..R + (l - 1) : path[n] = p.name
    <3>1. Len(path) - 1 = R + (l - 1)
      BY <1>1
    <3> QED
      BY <1>5, <3>1 DEF Meets
  <2>2. l - 1 \in 0..l
    BY <1>1
  <2> QED
    BY <1>2, <1>3, <1>5, <2>1, <2>2 DEF path
<1>6. CASE p.kind = "within"
  <2>1. Meets(path, p) <=> \E n \in 1..R + l : path[n] = p.name
    BY <1>1, <1>6 DEF Meets
  <2>2. l \in 0..l
    BY <1>1
  <2> QED
    BY <1>2, <1>3, <1>6, <2>1, <2>2 DEF path
<1> QED
  BY <1>4, <1>5, <1>6

\* The walk leaves out what the user can mean, and what meets the working copy.
LeftOutBy(m, patterns) ==
  \/ \E n \in 1..Len(m) - 1 : m[n] \in IGNORE_FILES
  \/ \E p \in patterns : MeantBy(m, p) \/ MeetsWorkRoot(p)

LEMMA SkippedIsLeftOut ==
  ASSUME NEW m \in Modules, NEW patterns \in IgnoreLists
  PROVE  Ignored(WorkRoot, m, patterns) <=> LeftOutBy(m, patterns)
<1>1. /\ m \in Seq(Names) /\ Len(m) \in Nat /\ Len(m) >= 1
      /\ \A p \in patterns : p.kind \in {"name", "below", "within"}
  BY EmptySeq
<1>2. Ignored(WorkRoot, m, patterns) <=>
        \E l \in 1..Len(m) :
           \/ l < Len(m) /\ m[l] \in IGNORE_FILES
           \/ \E p \in patterns : Meets(WorkRoot \o SubSeq(m, 1, l), p)
  BY DEF Ignored, fnmatch, Meets
<1>3. (\E l \in 1..Len(m) : l < Len(m) /\ m[l] \in IGNORE_FILES) <=>
      \E l \in 1..Len(m) - 1 : m[l] \in IGNORE_FILES
  BY <1>1
<1>4. ASSUME NEW p \in patterns
      PROVE  (\E l \in 1..Len(m) : Meets(WorkRoot \o SubSeq(m, 1, l), p)) <=>
               MeantBy(m, p) \/ MeetsWorkRoot(p)
  <2> DEFINE Part(l) == \/ p.kind = "name" /\ m[l] = p.name
                        \/ p.kind = "below" /\ \E n \in 1..l - 1 : m[n] = p.name
                        \/ p.kind = "within" /\ \E n \in 1..l : m[n] = p.name
  <2>1. \A l \in 1..Len(m) : Meets(WorkRoot \o SubSeq(m, 1, l), p) <=> Part(l) \/ MeetsWorkRoot(p)
    BY <1>1, MeetsOnTheWay
  <2>2. (\E l \in 1..Len(m) : Part(l)) <=> MeantBy(m, p)
    <3>1. ASSUME NEW l \in 1..Len(m), Part(l) PROVE MeantBy(m, p)
      <4>1. l - 1 \in 0..Len(m) - 1 /\ 1..l - 1 \subseteq 1..Len(m) - 1 /\ 1..l \subseteq 1..Len(m)
        BY <1>1
      <4> QED
        BY <3>1, <4>1 DEF MeantBy
    <3>2. ASSUME MeantBy(m, p) PROVE \E l \in 1..Len(m) : Part(l)
      <4>1. Len(m) \in 1..Len(m)
        BY <1>1
      <4>2. CASE p.kind = "name"
        BY <3>2, <4>2 DEF MeantBy
      <4>3. CASE p.kind # "name"
        <5>1. Part(Len(m))
          BY <1>1, <3>2, <4>3 DEF MeantBy
        <5> QED
          BY <4>1, <5>1
      <4> QED
        BY <4>2, <4>3
    <3> QED
      BY <3>1, <3>2
  <2>3. 1 \in 1..Len(m)
    BY <1>1
  <2> HIDE DEF Part
  <2> QED
    BY <2>1, <2>2, <2>3
<1> QED
  BY <1>2, <1>3, <1>4 DEF LeftOutBy

-----------------------------------------------------------------------------
(* One run after the other.                                                 *)

ArchiveType ==
  {OldArchive, TornArchive}
    \union UNION {[S -> 0..Generated \union {Partial}] : S \in SUBSET Modules}

LEMMA ArgsDiffer ==
  /\ \A a \in BuildArgs : /\ a.command = "build-zip" /\ a.pyz \in BOOLEAN
                          /\ a.main \in {"none", "ok", "invalid"} /\ a.ignore \in IgnoreLists
  /\ \A a \in CompileArgs : a.command = "compile" /\ a.mode \in {"pye", "pyc"}
  /\ NoArgs.command = "none"
  /\ NoArgs \notin BuildArgs /\ NoArgs \notin CompileArgs /\ BuildArgs \intersect CompileArgs = {}
<1>1. \A a \in BuildArgs : /\ a.command = "build-zip" /\ a.pyz \in BOOLEAN
                           /\ a.main \in {"none", "ok", "invalid"} /\ a.ignore \in IgnoreLists
  BY DEF BuildArgs
<1>2. \A a \in CompileArgs : a.command = "compile" /\ a.mode \in {"pye", "pyc"}
  BY DEF CompileArgs
<1>3. NoArgs.command = "none"
  BY DEF NoArgs
<1> QED
  BY <1>1, <1>2, <1>3

LEMMA NoTreeTyped == NoTree \in [Modules -> File]
<1>1. [py |-> NoFile, pyc |-> NoFile, pye |-> NoFile] \in File
  BY DEF File, Contents
<1> QED
  BY <1>1 DEF NoTree

\* The empty path is no module.
LEMMA NoModuleIsNone == NoModule \notin Modules /\ NoFile \in Contents
BY DEF NoModule, Contents

\* Nobody can read an archive that is not closed.
LEMMA NotReadable ==
  ASSUME archive' = TornArchive
  PROVE  ReadableIsCurrent' /\ OthersPackedAsFound' /\ PyzCanStart'
  BY DEF Readable, ReadableIsCurrent, OthersPackedAsFound, PyzCanStart

\* What was found in an archive stays true of it.
LEMMA SameArchive ==
  ASSUME ZipInv, UNCHANGED <<archive, made>>
  PROVE  ReadableIsCurrent' /\ OthersPackedAsFound' /\ PyzCanStart'
<1>1. /\ Readable' = Readable
      /\ \A m \in Modules : /\ LeftOut(m)' = LeftOut(m) /\ HasSource(m)' = HasSource(m)
                           /\ Current(m)' = Current(m)
  BY DEF Readable, LeftOut, HasSource, Current
<1>2. ReadableIsCurrent'
  BY <1>1 DEF ZipInv, ReadableIsCurrent
<1>3. OthersPackedAsFound'
  BY DEF ZipInv, OthersPackedAsFound, Readable, LeftOut, HasSource
<1>4. PyzCanStart'
  BY DEF ZipInv, PyzCanStart, Readable, LeftOut
<1> QED
  BY <1>2, <1>3, <1>4

\* The end of a run.
LEMMA EndStep ==
  ASSUME ZipInv, NEW how \in {"ok", "failed", "killed"}, End(how), UNCHANGED <<user, runs>>,
         archive' \in ArchiveType,
         ReadableIsCurrent', OthersPackedAsFound', PyzCanStart'
  PROVE  ZipInv'
<1>1. /\ pc' = "idle" /\ todo' = {} /\ args' = NoArgs /\ work' = NoTree
      /\ py_file' = NoModule /\ pyc_exists' = FALSE /\ read' = NoFile /\ torn' = {}
      /\ made' = IF pc = "pack" THEN [made EXCEPT !.how = how] ELSE made
  BY DEF End
<1>2. made'.how \in {"none", "running", "ok", "failed", "killed"}
  <2>1. CASE pc = "pack"
    <3>1. made = [how |-> "running", tree |-> began, args |-> args, torn |-> torn]
      BY <2>1, ArgsDiffer DEF ZipInv, Building
    <3>2. made'.how = how
      BY <1>1, <2>1, <3>1
    <3> QED
      BY <3>2
  <2>2. CASE pc # "pack"
    BY <1>1, <2>2 DEF ZipInv, TypeOK
  <2> QED
    BY <2>1, <2>2
<1>3. user' \in [Modules -> File] /\ runs' \in 0..MaxRuns
  BY DEF ZipInv, TypeOK
<1>4. TypeOK'
  BY <1>1, <1>2, <1>3, NoTreeTyped, NoModuleIsNone DEF TypeOK, ArchiveType, Busy, file
<1> QED
  BY <1>1, <1>4, ArgsDiffer DEF ZipInv, Busy, Walking

\* A run that ends without touching the archive.
LEMMA EndElsewhere ==
  ASSUME ZipInv, NEW how \in {"ok", "failed", "killed"}, End(how), UNCHANGED <<user, archive, runs>>
  PROVE  ZipInv'
<1>1. archive' \in ArchiveType
  BY DEF ZipInv, TypeOK, ArchiveType
<1>2. ReadableIsCurrent' /\ OthersPackedAsFound' /\ PyzCanStart'
  <2>1. CASE pc = "pack"
    BY <2>1, NotReadable DEF ZipInv, TypeOK
  <2>2. CASE pc # "pack"
    BY <2>2, SameArchive DEF End
  <2> QED
    BY <2>1, <2>2
<1> QED
  BY <1>1, <1>2, EndStep

LEMMA ZipInit == Init => ZipInv
<1> SUFFICES ASSUME Init PROVE ZipInv
  OBVIOUS
<1>1. user \in [Modules -> File] /\ work \in [Modules -> File] /\ runs \in 0..MaxRuns
  BY NoTreeTyped DEF Init
<1>2. made.how = "none"
  BY DEF Init
<1>3. TypeOK
  BY <1>1, <1>2, NoModuleIsNone DEF Init, TypeOK, Busy, file
<1>4. ReadableIsCurrent /\ OthersPackedAsFound /\ PyzCanStart
  BY DEF Init, Readable, ReadableIsCurrent, OthersPackedAsFound, PyzCanStart
<1> QED
  BY <1>3, <1>4, ArgsDiffer DEF Init, ZipInv, Busy, Walking

LEMMA CompileStep == ASSUME ZipInv, NEW a \in CompileArgs, Compile(a) PROVE ZipInv'
<1>1. /\ pc' = "walk" /\ args' = a /\ todo' \subseteq Modules /\ runs' \in 0..MaxRuns
      /\ UNCHANGED <<user, work, archive, py_file, pyc_exists, read, torn, made>>
      /\ pc = "idle"
  BY DEF Compile, Begin, compile_dir, ZipInv, TypeOK, file
<1>2. TypeOK'
  BY <1>1 DEF ZipInv, TypeOK, Busy, file
<1>3. ReadableIsCurrent' /\ OthersPackedAsFound' /\ PyzCanStart'
  BY <1>1, SameArchive
<1> QED
  BY <1>1, <1>2, <1>3, ArgsDiffer DEF ZipInv

\* A build begins with the tree as it is.
LEMMA BuildStep == ASSUME ZipInv, NEW a \in BuildArgs, Build(a) PROVE ZipInv'
<1>1. /\ runs' \in 0..MaxRuns /\ pc = "idle"
      /\ UNCHANGED <<user, work, archive, py_file, pyc_exists, read, torn, made>>
  BY DEF Build, Begin, ZipInv, TypeOK, file
<1>2. ReadableIsCurrent' /\ OthersPackedAsFound' /\ PyzCanStart'
  BY <1>1, SameArchive
<1>3. CASE UNCHANGED <<pc, args, todo, began>>
  <2>1. TypeOK'
    BY <1>1, <1>3 DEF ZipInv, TypeOK, file
  <2>2. pc = "idle" /\ args = NoArgs
    BY DEF Build, Begin, ZipInv, TypeOK
  <2> QED
    BY <1>2, <1>3, <2>1, <2>2, ArgsDiffer DEF ZipInv, Busy, Walking
<1>4. CASE /\ ~a.pyz \/ a.main # "none" \/ user[Main].py # NoFile
           /\ pc' = "copy" /\ args' = a /\ todo' = Modules /\ began' = user
  <2>1. TypeOK'
    BY <1>1, <1>4 DEF ZipInv, TypeOK, Busy, file
  <2>2. Building'
    BY <1>1, <1>4 DEF ZipInv, TypeOK, Building, Later, Busy, Walking
  <2> QED
    BY <1>2, <1>4, <2>1, <2>2 DEF ZipInv, Busy, Walking
<1> QED
  BY <1>3, <1>4 DEF Build

LEMMA CopyFileStep == ASSUME ZipInv, NEW k \in Modules, CopyFile(k) PROVE ZipInv'
<1>1. /\ pc = "copy" /\ k \in todo /\ work' = [work EXCEPT ![k] = user[k]] /\ todo' = todo \ {k}
      /\ UNCHANGED <<user, archive, pc, args, py_file, pyc_exists, read, torn, began, made, runs>>
  BY DEF CopyFile, file
<1>2. /\ work' \in [Modules -> File] /\ work'[k] = user[k]
      /\ \A m \in Modules : m # k => work'[m] = work[m]
  BY <1>1 DEF ZipInv, TypeOK
<1>3. TypeOK'
  BY <1>1, <1>2 DEF ZipInv, TypeOK, file
<1>4. Building'
  BY <1>1, <1>2 DEF ZipInv, Building, Busy, Walking
<1>5. ReadableIsCurrent' /\ OthersPackedAsFound' /\ PyzCanStart'
  BY <1>1, SameArchive
<1> QED
  BY <1>1, <1>3, <1>4, <1>5 DEF ZipInv, Busy, Walking

\* The copy is complete; with --main it gets the entry point it has not.
LEMMA GenerateStep == ZipInv /\ generate_main_py => ZipInv'
<1> SUFFICES ASSUME ZipInv, generate_main_py PROVE ZipInv'
  OBVIOUS
<1>1. /\ pc = "copy" /\ todo = {} /\ UNCHANGED <<user, archive, runs>>
      /\ args \in BuildArgs /\ began \in [Modules -> File] /\ work \in [Modules -> File]
      /\ \A m \in Modules : Later(work[m], began[m])
      /\ torn = {}
  BY DEF generate_main_py, ZipInv, TypeOK, Building
<1>2. CASE End("failed")
  BY <1>1, <1>2, EndElsewhere
<1> DEFINE copy == IF args.main = "ok" THEN [work EXCEPT ![Main].py = Generated] ELSE work
<1>3. CASE /\ args.main # "invalid" /\ (args.main = "ok" => work[Main].py = NoFile)
           /\ work' = copy
           /\ pc' = "walk" /\ todo' = compile_dir(WorkRoot, copy, args.ignore)
           /\ UNCHANGED <<args, py_file, pyc_exists, read, torn, began, made>>
  <2>1. copy \in [Modules -> File]
    <3>1. work[Main] \in File /\ Generated \in Contents
      BY <1>1 DEF Contents, Generated
    <3>2. [work[Main] EXCEPT !.py = Generated] \in File
      BY <3>1 DEF File
    <3> QED
      BY <1>1, <3>2
  <2>2. ASSUME NEW m \in Modules PROVE Source(copy[m], m)
    <3>1. CASE m = Main /\ args.main = "ok"
      <4>1. work[Main].py = NoFile /\ NoFile \notin Versions
        BY <1>3, <3>1 DEF Versions
      <4>2. work[Main] = began[Main]
        BY <1>1, <4>1 DEF Later
      <4>3. copy[Main] = [work[Main] EXCEPT !.py = Generated]
        BY <1>1, <3>1
      <4> QED
        BY <3>1, <4>1, <4>2, <4>3 DEF Source
    <3>2. CASE ~(m = Main /\ args.main = "ok")
      <4>1. copy[m] = work[m]
        BY <1>1, <3>2
      <4> QED
        BY <1>1, <3>2, <4>1 DEF Source
    <3> QED
      BY <3>1, <3>2
  <2> HIDE DEF copy
  <2>3. todo' \subseteq Modules
        /\ \A m \in Modules : m \in todo' <=> copy[m].py # NoFile /\ ~Skipped(m)
    BY <1>3 DEF compile_dir, Skipped
  <2>4. TypeOK'
    BY <1>1, <1>3, <2>1, <2>3 DEF ZipInv, TypeOK, Busy, file
  <2>5. \A m \in Modules : Source(work[m], m)' /\ (Skipped(m)' <=> Skipped(m))
    BY <1>3, <2>2 DEF Source, Skipped
  <2>6. Building'
    <3>1. \A m \in Modules \ todo' : Settled(m)'
      BY <1>3, <2>3, <2>5 DEF Settled
    <3>2. \A m \in todo' : Waiting(m)'
      BY <1>1, <1>3, <2>3, <2>5 DEF Waiting
    <3>3. \A m \in Modules : Later(user[m], began[m])'
      BY <1>1, <1>3 DEF ZipInv, Building
    <3>4. args'.pyz => args'.main # "none" \/ began'[Main].py # NoFile
      BY <1>1, <1>3 DEF ZipInv, Building
    <3> QED
      BY <1>1, <1>3, <3>1, <3>2, <3>3, <3>4 DEF Building, Busy, Walking
  <2>7. ReadableIsCurrent' /\ OthersPackedAsFound' /\ PyzCanStart'
    BY <1>1, <1>3, SameArchive
  <2> QED
    BY <1>1, <1>3, <2>4, <2>6, <2>7 DEF ZipInv, Busy, Walking
<1> QED
  BY <1>2, <1>3 DEF generate_main_py, file

-----------------------------------------------------------------------------
(* The compilation of one file.                                             *)

LEMMA CompileFileStep == ASSUME ZipInv, NEW k \in Modules, CompileFile(k) PROVE ZipInv'
<1>1. /\ pc = "walk" /\ k \in todo /\ todo' = todo \ {k} /\ pc' = "compile" /\ py_file' = k
      /\ pyc_exists' \in BOOLEAN
      /\ UNCHANGED <<user, work, archive, args, read, torn, began, made, runs>>
  BY DEF CompileFile
<1>2. TypeOK'
  BY <1>1, NoModuleIsNone DEF ZipInv, TypeOK, Busy, file
<1>3. ASSUME args \in BuildArgs PROVE Building'
  <2>1. Building /\ py_file = NoModule
    BY <1>1, <1>3 DEF ZipInv, TypeOK, Busy, file
  <2>2. \A m : (Settled(m)' <=> Settled(m)) /\ (Waiting(m)' <=> Waiting(m))
    BY <1>1 DEF Settled, Waiting, Source, Skipped, MadeOf
  <2>3. \A m \in Modules \ (todo' \union {py_file'}) : Settled(m)'
    BY <1>1, <2>1, <2>2, NoModuleIsNone DEF Building, Walking
  <2>4. Waiting(k) /\ \A m \in todo' : Waiting(m)'
    BY <1>1, <2>1, <2>2 DEF Building, Walking
  <2>5. ~Skipped(py_file)' /\ Progress(pc, py_file, work[py_file], torn)'
    BY <1>1, <2>4 DEF Waiting, Skipped, Source, Progress
  <2> QED
    BY <1>1, <2>1, <2>3, <2>4, <2>5 DEF Building, Walking, Busy
<1>4. ReadableIsCurrent' /\ OthersPackedAsFound' /\ PyzCanStart'
  BY <1>1, SameArchive
<1> QED
  BY <1>1, <1>2, <1>3, <1>4 DEF ZipInv, Walking, Busy

\* Which tree a step changes.
LEMMA PutStep ==
  ASSUME TypeOK, pc \in Busy, NEW f \in File, Put(f)
  PROVE  /\ user' \in [Modules -> File] /\ work' \in [Modules -> File]
         /\ args \in BuildArgs =>
              /\ user' = user /\ work'[py_file] = f
              /\ \A m \in Modules : m # py_file => work'[m] = work[m]
         /\ args \in CompileArgs =>
              /\ work' = work /\ user'[py_file] = f
              /\ \A m \in Modules : m # py_file => user'[m] = user[m]
<1>1. user \in [Modules -> File] /\ work \in [Modules -> File] /\ py_file \in Modules
  BY DEF TypeOK
<1>2. CASE inPlace
  <2>1. user' = [user EXCEPT ![py_file] = f] /\ work' = work
    BY <1>2 DEF Put
  <2>2. args \notin BuildArgs
    BY <1>2, ArgsDiffer DEF inPlace
  <2> QED
    BY <1>1, <2>1, <2>2
<1>3. CASE ~inPlace
  <2>1. work' = [work EXCEPT ![py_file] = f] /\ user' = user
    BY <1>3 DEF Put
  <2>2. args \notin CompileArgs
    BY <1>3, ArgsDiffer DEF inPlace
  <2> QED
    BY <1>1, <2>1, <2>2
<1> QED
  BY <1>2, <1>3

\* The files of the module that is compiled, in the tree of the run.
LEMMA TreeFile ==
  ASSUME ZipInv, pc \in Busy
  PROVE  /\ py_file \in Modules /\ tree[py_file] \in File
         /\ args \in BuildArgs => tree = work /\ opt = BuildOptions
         /\ args \in CompileArgs => tree = user /\ opt = args
         /\ args \in BuildArgs \/ args \in CompileArgs
<1>1. args \in BuildArgs \/ args \in CompileArgs
  BY DEF ZipInv, Walking
<1> QED
  BY <1>1, ArgsDiffer DEF ZipInv, TypeOK, tree, opt, inPlace

\* A step on the way, which leaves the files f of the module.
LEMMA OnTheWay ==
  ASSUME ZipInv, pc \in Busy, NEW f \in File, Put(f),
         NEW place \in {"open", "write", "removePyc", "removePy", "walk"},
         NEW v \in Contents, Goto(place, v),
         torn' = torn \/ torn' = torn \union {py_file}, UNCHANGED <<archive, runs>>,
         args \in BuildArgs =>
           Progress(IF place = "walk" THEN "removePy" ELSE place, py_file, f, torn')
  PROVE  ZipInv'
<1>1. /\ pc' = place /\ UNCHANGED <<args, todo, began, made>>
      /\ py_file' = IF place = "walk" THEN NoModule ELSE py_file
      /\ pyc_exists' \in BOOLEAN /\ (place = "walk" => pyc_exists' = FALSE)
      /\ read' = IF place = "walk" THEN NoFile ELSE v
  BY DEF Goto, ZipInv, TypeOK
<1>2. /\ user' \in [Modules -> File] /\ work' \in [Modules -> File] /\ py_file \in Modules
      /\ torn' \subseteq Modules /\ todo \subseteq Modules
  BY PutStep DEF ZipInv, TypeOK
<1>3. TypeOK'
  <2>1. read' \in Contents /\ pc' \in Walking /\ pc # "pack" /\ pc # "idle"
    BY <1>1, NoModuleIsNone DEF Walking, Busy
  <2>2. IF pc' \in Busy THEN py_file' \in Modules ELSE file' = <<NoModule, FALSE, NoFile>>
    BY <1>1, <1>2 DEF Busy, file
  <2> QED
    BY <1>1, <1>2, <2>1, <2>2 DEF ZipInv, TypeOK, Walking, Busy
<1>4. ASSUME args \in BuildArgs PROVE Building'
  <2>1. Building /\ user' = user /\ work'[py_file] = f
        /\ \A m \in Modules : m # py_file => work'[m] = work[m]
    BY <1>4, PutStep DEF ZipInv
  <2>2. ~Skipped(py_file) /\ py_file \notin todo
    BY <2>1 DEF Building
  <2>3. \A m \in Modules : /\ Skipped(m)' <=> Skipped(m)
                           /\ \A g : Source(g, m)' <=> Source(g, m)
    BY <1>1 DEF Skipped, Source
  <2>4. ASSUME NEW m \in Modules, m # py_file
        PROVE  (Settled(m)' <=> Settled(m)) /\ (Waiting(m)' <=> Waiting(m))
    <3>1. m \in torn' <=> m \in torn
      BY <2>4
    <3>2. work'[m] = work[m]
      BY <2>1, <2>4
    <3> QED
      BY <1>1, <3>1, <3>2 DEF Settled, Waiting, MadeOf, Source, Skipped
  <2>5. CASE place = "walk"
    <3>1. MadeOf(py_file, f.pye, torn')
      BY <1>4, <2>5 DEF Progress
    <3>2. ASSUME NEW m \in Modules, m = py_file PROVE Settled(m)'
      <4>1. MadeOf(m, f.pye, torn)'
        BY <1>1, <3>1, <3>2 DEF MadeOf, Source
      <4> QED
        BY <2>1, <2>2, <2>3, <3>2, <4>1 DEF Settled
    <3>3. \A m \in Modules \ (todo' \union {py_file'}) : Settled(m)'
      BY <1>1, <2>1, <2>4, <3>2 DEF Building, Walking
    <3>4. \A m \in todo' : Waiting(m)'
      BY <1>1, <1>2, <2>1, <2>2, <2>4 DEF Building, Walking
    <3> QED
      BY <1>1, <2>1, <2>5, <3>3, <3>4 DEF Building, Walking, Busy
  <2>6. CASE place # "walk"
    <3>1. Progress(place, py_file, f, torn')
      BY <1>4, <2>6
    <3>2. Progress(pc, py_file, work[py_file], torn)'
      BY <1>1, <2>1, <2>6, <3>1 DEF Progress, MadeOf, Source
    <3>3. \A m \in Modules \ (todo' \union {py_file'}) : Settled(m)'
      BY <1>1, <2>1, <2>4, <2>6 DEF Building, Walking
    <3>4. \A m \in todo' : Waiting(m)'
      BY <1>1, <1>2, <2>1, <2>2, <2>4 DEF Building, Walking
    <3>5. py_file' \notin todo' /\ ~Skipped(py_file)'
      BY <1>1, <1>2, <2>2, <2>6 DEF Skipped
    <3> QED
      BY <1>1, <2>1, <2>6, <3>2, <3>3, <3>4, <3>5 DEF Building, Walking, Busy
  <2> QED
    BY <2>5, <2>6
<1>5. ReadableIsCurrent' /\ OthersPackedAsFound' /\ PyzCanStart'
  BY <1>1, SameArchive
<1>6. pc' \in Walking /\ pc' \notin {"copy", "pack"}
  BY <1>1 DEF Walking, Busy
<1> QED
  BY <1>1, <1>3, <1>4, <1>5, <1>6 DEF ZipInv, Walking

LEMMA CompilePycStep == ZipInv /\ CompilePyc => ZipInv'
<1> SUFFICES ASSUME ZipInv, CompilePyc PROVE ZipInv'
  OBVIOUS
<1>1. pc = "compile" /\ pc \in Busy /\ UNCHANGED <<archive, runs>>
  BY DEF CompilePyc, Busy
<1>2. CASE End("failed") /\ UNCHANGED user
  BY <1>1, <1>2, EndElsewhere
<1> DEFINE f == tree[py_file]
           new == [f EXCEPT !.pyc = PycOf(py_file, f)]
<1>3. CASE Put(new) /\ Goto(AfterPyc, f.py) /\ UNCHANGED torn
  <2>1. f \in File
    BY <1>1, TreeFile
  <2>2. /\ new \in File /\ f.py \in Contents
        /\ new.py = f.py /\ new.pyc = PycOf(py_file, f)
    <3> HIDE DEF f
    <3>1. PycOf(py_file, f) \in Contents /\ f.py \in Contents
      BY <2>1 DEF PycOf, File
    <3> QED
      BY <2>1, <3>1 DEF File
  <2>3. AfterPyc \in {"open", "write", "removePyc", "removePy", "walk"}
    BY DEF AfterPyc, LastStep
  <2>4. args \in BuildArgs =>
          Progress(IF AfterPyc = "walk" THEN "removePy" ELSE AfterPyc, py_file, new, torn')
    <3> SUFFICES ASSUME args \in BuildArgs
                 PROVE  Progress(IF AfterPyc = "walk" THEN "removePy" ELSE AfterPyc, py_file, new, torn')
      OBVIOUS
    <3>1. AfterPyc = "open" /\ f = work[py_file]
      BY <1>1, TreeFile DEF AfterPyc, BuildOptions
    <3>2. Source(f, py_file) /\ f.py # NoFile /\ py_file \notin torn'
      BY <1>1, <1>3, <3>1 DEF ZipInv, Building, Progress
    <3> HIDE DEF f, new
    <3> QED
      BY <2>1, <2>2, <3>1, <3>2 DEF Progress
  <2> HIDE DEF f, new
  <2> QED
    BY <1>1, <1>3, <2>2, <2>3, <2>4, OnTheWay
<1> QED
  BY <1>2, <1>3 DEF CompilePyc

LEMMA OpenPyeStep == ZipInv /\ OpenPye => ZipInv'
<1> SUFFICES ASSUME ZipInv, OpenPye PROVE ZipInv'
  OBVIOUS
<1>1. pc = "open" /\ pc \in Busy /\ UNCHANGED <<archive, runs>>
  BY DEF OpenPye, Busy
<1>2. CASE End("failed") /\ UNCHANGED user
  BY <1>1, <1>2, EndElsewhere
<1> DEFINE f == tree[py_file]
           new == [f EXCEPT !.pye = Partial]
<1>3. CASE f.pyc # NoFile /\ Put(new) /\ Goto("write", read) /\ UNCHANGED torn
  <2>1. f \in File
    BY <1>1, TreeFile
  <2>2. new \in File /\ new.pyc = f.pyc /\ new.pye = Partial
    <3> HIDE DEF f
    <3> QED
      BY <2>1 DEF File
  <2>3. args \in BuildArgs => Progress("write", py_file, new, torn')
    <3>1. args \in BuildArgs => f = work[py_file] /\ Progress("open", py_file, f, torn)
      BY <1>1, TreeFile DEF ZipInv, Building
    <3> HIDE DEF f, new
    <3> QED
      BY <1>3, <2>2, <3>1 DEF Progress
  <2>4. read \in Contents
    BY DEF ZipInv, TypeOK
  <2> HIDE DEF f, new
  <2>5. args \in BuildArgs => Progress(IF "write" = "walk" THEN "removePy" ELSE "write", py_file, new, torn')
    BY <2>3
  <2> QED
    BY <1>1, <1>3, <2>2, <2>4, <2>5, OnTheWay
<1> QED
  BY <1>2, <1>3 DEF OpenPye

\* The .pye is written, whole or not.
LEMMA WritePyeStep == ZipInv /\ WritePye => ZipInv'
<1> SUFFICES ASSUME ZipInv, WritePye PROVE ZipInv'
  OBVIOUS
<1> DEFINE f == tree[py_file]
           new == [f EXCEPT !.pye = f.pyc]
<1>1. /\ pc = "write" /\ pc \in Busy /\ UNCHANGED <<archive, runs>> /\ Goto(AfterPye, read)
      /\ read \in Contents /\ f \in File
  BY TreeFile DEF WritePye, Busy, ZipInv, TypeOK
<1>2. AfterPye \in {"removePyc", "removePy", "walk"}
  BY DEF AfterPye, LastStep
<1>3. args \in BuildArgs =>
        /\ f.pyc # NoFile /\ f.pye = Partial /\ py_file \notin torn
        /\ \E g \in File : Source(g, py_file) /\ g.py # NoFile /\ f.pyc = PycOf(py_file, g)
  BY <1>1, TreeFile DEF ZipInv, Building, Progress
<1>4. new \in File /\ new.pye = f.pyc
  <2> HIDE DEF f
  <2> QED
    BY <1>1 DEF File
<1>5. (Put(new) /\ UNCHANGED torn) \/ (Put(f) /\ torn' = torn \union {py_file})
  BY DEF WritePye
<1> HIDE DEF f, new
<1>6. ASSUME NEW h \in File, NEW t, args \in BuildArgs => MadeOf(py_file, h.pye, t)
      PROVE  args \in BuildArgs =>
               Progress(IF AfterPye = "walk" THEN "removePy" ELSE AfterPye, py_file, h, t)
  BY <1>2, <1>6 DEF Progress
<1>7. CASE Put(new) /\ UNCHANGED torn
  <2>1. args \in BuildArgs => MadeOf(py_file, new.pye, torn')
    BY <1>3, <1>4, <1>7 DEF MadeOf
  <2> QED
    BY <1>1, <1>2, <1>4, <1>6, <1>7, <2>1, OnTheWay
<1>8. CASE Put(f) /\ torn' = torn \union {py_file}
  <2>1. args \in BuildArgs => MadeOf(py_file, f.pye, torn')
    BY <1>3, <1>8 DEF MadeOf
  <2> QED
    BY <1>1, <1>2, <1>6, <1>8, <2>1, OnTheWay
<1> QED
  BY <1>5, <1>7, <1>8

\* A file of the module is removed, not its .pye.
LEMMA RemoveStep ==
  ASSUME ZipInv, pc \in {"removePyc", "removePy"}, NEW f \in File, Put(f),
         f.pye = tree[py_file].pye,
         NEW place \in {"removePy", "walk"}, Goto(place, read), UNCHANGED <<archive, torn, runs>>
  PROVE  ZipInv'
<1>1. pc \in Busy /\ read \in Contents
  BY DEF Busy, ZipInv, TypeOK
<1>2. args \in BuildArgs => MadeOf(py_file, f.pye, torn)
  BY <1>1, TreeFile DEF ZipInv, Building, Progress
<1>3. args \in BuildArgs =>
        Progress(IF place = "walk" THEN "removePy" ELSE place, py_file, f, torn')
  BY <1>2 DEF Progress
<1> QED
  BY <1>1, <1>3, OnTheWay

LEMMA RemovePycStep == ZipInv /\ RemovePyc => ZipInv'
<1> SUFFICES ASSUME ZipInv, RemovePyc PROVE ZipInv'
  OBVIOUS
<1> DEFINE f == tree[py_file]
           new == [f EXCEPT !.pyc = NoFile]
<1>1. /\ pc \in {"removePyc", "removePy"} /\ Put(new) /\ Goto(LastStep, read)
      /\ UNCHANGED <<archive, torn, runs>> /\ LastStep \in {"removePy", "walk"}
  BY DEF RemovePyc, LastStep
<1>2. f \in File
  BY <1>1, TreeFile DEF Busy
<1>3. new \in File /\ new.pye = f.pye
  <2> HIDE DEF f
  <2> QED
    BY <1>2, NoModuleIsNone DEF File
<1> HIDE DEF new
<1> QED
  BY <1>1, <1>3, RemoveStep

LEMMA RemovePyStep == ZipInv /\ RemovePy => ZipInv'
<1> SUFFICES ASSUME ZipInv, RemovePy PROVE ZipInv'
  OBVIOUS
<1> DEFINE f == tree[py_file]
           new == [f EXCEPT !.py = NoFile]
<1>1. /\ pc \in {"removePyc", "removePy"} /\ Put(new) /\ Goto("walk", read)
      /\ UNCHANGED <<archive, torn, runs>>
  BY DEF RemovePy
<1>2. f \in File
  BY <1>1, TreeFile DEF Busy
<1>3. new \in File /\ new.pye = f.pye
  <2> HIDE DEF f
  <2> QED
    BY <1>2, NoModuleIsNone DEF File
<1> HIDE DEF new
<1> QED
  BY <1>1, <1>3, RemoveStep

LEMMA OpenArchiveStep == ZipInv /\ OpenArchive => ZipInv'
<1> SUFFICES ASSUME ZipInv, OpenArchive PROVE ZipInv'
  OBVIOUS
<1>1. /\ pc = "walk" /\ todo = {} /\ args.command = "build-zip" /\ archive' = TornArchive
      /\ made' = [how |-> "running", tree |-> began, args |-> args, torn |-> torn]
      /\ pc' = "pack" /\ todo' = PyeFiles
      /\ UNCHANGED <<user, work, args, py_file, pyc_exists, read, torn, began, runs>>
  BY DEF OpenArchive, file
<1>2. args \in BuildArgs /\ Building
  BY <1>1, ArgsDiffer DEF ZipInv, Walking
<1>3. made'.how = "running" /\ todo' \subseteq Modules
  BY <1>1 DEF PyeFiles
<1>4. TypeOK'
  BY <1>1, <1>3 DEF ZipInv, TypeOK, Busy, file
<1>5. \A m \in Modules : Settled(m)'
  <2>1. \A m \in Modules : Settled(m)
    BY <1>1, <1>2, NoModuleIsNone DEF Building, ZipInv, TypeOK, Busy, Walking, file
  <2> QED
    BY <1>1, <2>1 DEF Settled, Source, Skipped, MadeOf
<1>6. Building'
  BY <1>1, <1>2, <1>5 DEF Building, Busy, Walking
<1> QED
  BY <1>1, <1>2, <1>4, <1>6, NotReadable DEF ZipInv, Busy, Walking

LEMMA PackFileStep == ASSUME ZipInv, NEW k \in Modules, PackFile(k) PROVE ZipInv'
<1>1. /\ pc = "pack" /\ todo' = todo \ {k}
      /\ UNCHANGED <<user, work, archive, pc, args, py_file, pyc_exists, read, torn, began, made,
                     runs>>
  BY DEF PackFile, file
<1>2. args \in BuildArgs /\ Building
  BY <1>1 DEF ZipInv
<1>3. TypeOK'
  BY <1>1 DEF ZipInv, TypeOK, file
<1>4. \A m \in Modules : Settled(m)'
  BY <1>1, <1>2 DEF Building, Settled, Source, Skipped, MadeOf
<1>5. Building'
  BY <1>1, <1>2, <1>4 DEF Building, Busy, Walking
<1>6. ReadableIsCurrent' /\ OthersPackedAsFound' /\ PyzCanStart'
  BY <1>1, SameArchive
<1> QED
  BY <1>1, <1>2, <1>3, <1>5, <1>6 DEF ZipInv, Busy, Walking

\* The user edits a source.
LEMMA EditStep == ASSUME ZipInv, NEW k \in Modules, Edit(k) PROVE ZipInv'
<1>1. /\ user[k].py \in 1..MaxVersion - 1 /\ user' = [user EXCEPT ![k].py = user[k].py + 1]
      /\ user \in [Modules -> File]
      /\ UNCHANGED <<work, archive, pc, args, todo, py_file, pyc_exists, read, torn, began, made,
                     runs>>
  BY DEF Edit, ZipInv, TypeOK, file
<1> DEFINE new == [user[k] EXCEPT !.py = user[k].py + 1]
<1>2. /\ new \in File /\ new.py = user[k].py + 1 /\ new.pyc = user[k].pyc /\ new.pye = user[k].pye
      /\ user[k].py \in Versions /\ new.py \in Versions
  <2>1. user[k] \in File /\ user[k].py + 1 \in Contents
    BY <1>1 DEF Contents, Generated
  <2>2. user[k].py \in Versions /\ user[k].py + 1 \in Versions
    BY <1>1 DEF Versions
  <2> DEFINE f == user[k]
  <2>3. new = [py |-> f.py + 1, pyc |-> f.pyc, pye |-> f.pye]
        /\ f.pyc \in Contents /\ f.pye \in Contents \union {Partial}
    <3>1. f \in [py : Contents, pyc : Contents, pye : Contents \union {Partial}]
      BY <2>1 DEF File
    <3> HIDE DEF f
    <3>2. /\ [f EXCEPT !.py = f.py + 1] = [py |-> f.py + 1, pyc |-> f.pyc, pye |-> f.pye]
          /\ f.pyc \in Contents /\ f.pye \in Contents \union {Partial}
      BY <3>1
    <3> QED
      BY <3>2 DEF f
  <2> HIDE DEF new
  <2>4. new \in File
    BY <2>1, <2>3 DEF File
  <2> QED
    BY <2>2, <2>3, <2>4
<1>3. user' = [user EXCEPT ![k] = new]
  BY <1>1
<1> HIDE DEF new
<1>4. /\ user' \in [Modules -> File] /\ user'[k] = new
      /\ \A m \in Modules : m # k => user'[m] = user[m]
  BY <1>1, <1>2, <1>3
<1>5. TypeOK'
  BY <1>1, <1>4 DEF ZipInv, TypeOK, file
<1>6. ASSUME args \in BuildArgs PROVE Building'
  <2>1. Building
    BY <1>6 DEF ZipInv
  <2>2. Later(user[k], began[k])'
    <3>1. Later(user[k], began[k])
      BY <2>1 DEF Building
    <3>2. user[k].py \in Nat /\ began[k].py <= user[k].py => began[k].py <= user[k].py + 1
      BY <1>2, <3>1 DEF Versions, Later
    <3> QED
      BY <1>1, <1>2, <1>4, <3>1, <3>2 DEF Later, Versions
  <2>3. \A m \in Modules : Later(user[m], began[m])'
    BY <1>1, <1>4, <2>1, <2>2 DEF Building
  <2>4. \A m : (Settled(m)' <=> Settled(m)) /\ (Waiting(m)' <=> Waiting(m))
    BY <1>1 DEF Settled, Waiting, Source, Skipped, MadeOf
  <2>5. (Skipped(py_file)' <=> Skipped(py_file))
        /\ (Progress(pc, py_file, work[py_file], torn)' <=> Progress(pc, py_file, work[py_file], torn))
    BY <1>1 DEF Progress, Source, Skipped, MadeOf
  <2> QED
    BY <1>1, <2>1, <2>3, <2>4, <2>5 DEF Building
<1>7. ReadableIsCurrent' /\ OthersPackedAsFound' /\ PyzCanStart'
  BY <1>1, SameArchive
<1> QED
  BY <1>1, <1>5, <1>6, <1>7 DEF ZipInv

\* As in Current, with the content of the member; and it is a whole one.
UpToDate(m, content) ==
  /\ content # Partial
  /\ \/ IF made.tree[m].py = NoFile THEN content = Generated ELSE content >= made.tree[m].py
     \/ \E v \in Versions : <<m, v>> \in SyntaxErrors /\ content = made.tree[m].pyc

\* When the files are packed, a source that was not left out has its .pye, made
\* from its version or a later one; any other .pye is the one that was found.
LEMMA WhatIsPacked ==
  ASSUME ZipInv, pc = "pack", NEW m \in Modules
  PROVE  /\ HasSource(m) /\ ~LeftOut(m) =>
              m \in PyeFiles /\ IF m \in made.torn THEN work[m].pye = Partial
                                                  ELSE UpToDate(m, work[m].pye)
         /\ m \in PyeFiles => \/ HasSource(m) /\ ~LeftOut(m)
                              \/ work[m].pye = made.tree[m].pye
<1>1. /\ args \in BuildArgs /\ Building /\ Settled(m)
      /\ made.tree = began /\ made.args = args /\ made.torn = torn /\ began[m] \in File
  BY DEF ZipInv, Building
<1>2. Skipped(m) <=> LeftOut(m)
  BY <1>1, SkippedIsLeftOut, ArgsDiffer DEF Skipped, LeftOut, LeftOutBy
<1>3. HasSource(m) <=> began[m].py # NoFile \/ (m = Main /\ args.main = "ok")
  BY <1>1 DEF HasSource
<1>4. NoFile \notin Versions /\ NoFile # Generated /\ began[m].py \in Contents
  BY <1>1 DEF Versions, Generated, File
<1>5. ASSUME NEW f, Source(f, m)
      PROVE  /\ f.pyc = began[m].pyc /\ f.pye = began[m].pye
             /\ f.py # NoFile <=> HasSource(m)
             /\ HasSource(m) => IF began[m].py = NoFile THEN f.py = Generated
                                                       ELSE f.py >= began[m].py
  <2>1. CASE m = Main /\ args.main = "ok"
    <3>1. f = [began[m] EXCEPT !.py = Generated] /\ began[m].py = NoFile
      BY <1>5, <2>1 DEF Source
    <3>2. f.py = Generated /\ f.pyc = began[m].pyc /\ f.pye = began[m].pye
      BY <1>1, <3>1 DEF File
    <3> QED
      BY <1>3, <1>4, <2>1, <3>1, <3>2
  <2>2. CASE ~(m = Main /\ args.main = "ok")
    <3>1. Later(f, began[m])
      BY <1>5, <2>2 DEF Source
    <3>2. CASE f = began[m]
      <4>1. began[m].py # NoFile => began[m].py \in Nat
        BY <1>4 DEF Contents, Generated
      <4> QED
        BY <1>3, <2>2, <3>2, <4>1
    <3>3. CASE f # began[m]
      BY <1>3, <1>4, <2>2, <3>1, <3>3 DEF Later
    <3> QED
      BY <3>2, <3>3
  <2> QED
    BY <2>1, <2>2
<1>6. CASE Source(work[m], m) /\ (Skipped(m) \/ work[m].py = NoFile)
  BY <1>1, <1>2, <1>5, <1>6
<1>7. CASE ~Skipped(m) /\ MadeOf(m, work[m].pye, torn)
  <2>1. PICK f \in File : /\ Source(f, m) /\ f.py # NoFile
                         /\ work[m].pye = IF m \in torn THEN Partial ELSE PycOf(m, f)
    BY <1>7 DEF MadeOf
  <2>2. HasSource(m) /\ ~LeftOut(m) /\ m \in PyeFiles
    BY <1>2, <1>5, <1>7, <2>1 DEF PyeFiles, MadeOf
  <2>3. CASE m \in torn
    BY <1>1, <2>1, <2>2, <2>3
  <2>4. CASE m \notin torn /\ <<m, f.py>> \in SyntaxErrors
    <3>1. f.py \in Versions /\ work[m].pye = began[m].pyc
      BY <1>5, <2>1, <2>4 DEF PycOf
    <3>2. work[m].pye # Partial
      BY <1>1, <3>1 DEF File, Contents
    <3> QED
      BY <1>1, <2>2, <2>4, <3>1, <3>2 DEF UpToDate
  <2>5. CASE m \notin torn /\ <<m, f.py>> \notin SyntaxErrors
    <3>1. work[m].pye = f.py /\ f.py # Partial
      BY <2>1, <2>5 DEF PycOf, File, Contents
    <3> QED
      BY <1>1, <1>5, <2>1, <2>2, <2>5, <3>1 DEF UpToDate
  <2> QED
    BY <2>3, <2>4, <2>5
<1> QED
  BY <1>1, <1>6, <1>7 DEF Settled

\* The members of an archive that was closed.
LEMMA ClosedTyped ==
  ASSUME NEW S, S \subseteq Modules, NEW a \in [S -> 0..Generated \union {Partial}]
  PROVE  a \in ArchiveType
<1>1. S \in SUBSET Modules
  OBVIOUS
<1>2. a \in UNION {[T -> 0..Generated \union {Partial}] : T \in SUBSET Modules}
  BY ONLY <1>1, a \in [S -> 0..Generated \union {Partial}], Zenon
<1> QED
  BY <1>2 DEF ArchiveType

LEMMA PackedTyped ==
  ASSUME ZipInv
  PROVE  /\ PyeFiles \subseteq Modules /\ DOMAIN Packed = PyeFiles \ todo
         /\ \A m \in PyeFiles : work[m].pye \in 0..Generated \union {Partial}
         /\ \A m \in PyeFiles \ todo : Packed[m] = work[m].pye
         /\ Packed \in ArchiveType
<1>1. \A m \in PyeFiles : m \in Modules /\ work[m].pye \in 0..Generated \union {Partial}
  BY DEF PyeFiles, ZipInv, TypeOK, File, Contents
<1>2. Packed \in [PyeFiles \ todo -> 0..Generated \union {Partial}]
  BY <1>1 DEF Packed
<1>3. Packed \in ArchiveType
  BY <1>1, <1>2, ClosedTyped
<1> QED
  BY <1>1, <1>3 DEF Packed

LEMMA CloseArchiveStep == ZipInv /\ CloseArchive => ZipInv'
<1> SUFFICES ASSUME ZipInv, CloseArchive PROVE ZipInv'
  OBVIOUS
<1>1. /\ pc = "pack" /\ todo = {} /\ archive' = Packed /\ End("ok") /\ UNCHANGED <<user, runs>>
  BY DEF CloseArchive
<1>2. /\ args \in BuildArgs /\ Building
      /\ made = [how |-> "running", tree |-> began, args |-> args, torn |-> torn]
  BY <1>1 DEF ZipInv, Building
<1>3. made'.how = "ok" /\ made'.tree = made.tree /\ made'.args = made.args
      /\ made'.torn = made.torn
      /\ made.tree = began /\ made.args = args
  BY <1>1, <1>2 DEF End
<1>4. \A m \in Modules : (HasSource(m)' <=> HasSource(m)) /\ (LeftOut(m)' <=> LeftOut(m))
  BY <1>3 DEF HasSource, LeftOut
<1>5. /\ archive' \in ArchiveType /\ DOMAIN archive' = PyeFiles /\ PyeFiles \subseteq Modules
      /\ \A m \in PyeFiles : archive'[m] = work[m].pye
  BY <1>1, PackedTyped
<1>6. ReadableIsCurrent'
  <2>1. ASSUME NEW m \in Modules, HasSource(m), ~LeftOut(m)
        PROVE  m \in DOMAIN archive' /\ IF m \in made'.torn THEN archive'[m] = Partial
                                                             ELSE Current(m)'
    <3>1. m \in PyeFiles /\ IF m \in made.torn THEN work[m].pye = Partial
                                               ELSE UpToDate(m, work[m].pye)
      BY <1>1, <2>1, WhatIsPacked
    <3>2. m \in DOMAIN archive' /\ archive'[m] = work[m].pye
      BY <1>5, <3>1
    <3> QED
      BY <1>3, <3>1, <3>2 DEF UpToDate, Current
  <2> QED
    BY <1>3, <1>4, <2>1 DEF ReadableIsCurrent
<1>7. OthersPackedAsFound'
  <2>1. ASSUME NEW m \in DOMAIN archive'
        PROVE  (HasSource(m)' /\ ~LeftOut(m)') \/ archive'[m] = made'.tree[m].pye
    <3>1. m \in Modules /\ m \in PyeFiles
      BY <1>5
    <3> QED
      BY <1>1, <1>3, <1>4, <1>5, <3>1, WhatIsPacked
  <2> QED
    BY <2>1 DEF OthersPackedAsFound
<1>8. PyzCanStart'
  <2>1. ASSUME args.pyz PROVE HasSource(Main)
    <3>1. args.main # "invalid" /\ (args.main # "none" \/ began[Main].py # NoFile)
      BY <1>1, <1>2, <2>1 DEF Building
    <3>2. args.main \in {"none", "ok", "invalid"}
      BY <1>2, ArgsDiffer
    <3> QED
      BY <1>3, <3>1, <3>2 DEF HasSource
  <2>2. args.pyz => \/ LeftOut(Main) \/ Main \in made.torn
                    \/ Main \in DOMAIN archive' /\ archive'[Main] # Partial
    BY <1>1, <1>5, <2>1, WhatIsPacked DEF UpToDate
  <2> QED
    BY <1>3, <1>4, <2>2 DEF PyzCanStart
<1> QED
  BY <1>1, <1>5, <1>6, <1>7, <1>8, EndStep

LEMMA PackFailsStep == ZipInv /\ PackFails => ZipInv'
<1> SUFFICES ASSUME ZipInv, PackFails PROVE ZipInv'
  OBVIOUS
<1>1. pc = "pack" /\ End("failed") /\ UNCHANGED <<user, runs>> /\ todo \subseteq Modules
  BY DEF PackFails, ZipInv, TypeOK
<1>2. made = [how |-> "running", tree |-> began, args |-> args, torn |-> torn]
  BY <1>1 DEF ZipInv, Building
<1>3. made'.how = "failed" /\ made'.tree = made.tree /\ made'.args = made.args
  BY <1>1, <1>2 DEF End
<1>4. \A m \in Modules : (HasSource(m)' <=> HasSource(m)) /\ (LeftOut(m)' <=> LeftOut(m))
  BY <1>3 DEF HasSource, LeftOut
<1>5. CASE archive' = TornArchive
  BY <1>1, <1>5, NotReadable, EndStep DEF ArchiveType
<1>6. ASSUME /\ archive' \in ArchiveType
             /\ \A m \in DOMAIN archive' : \/ archive'[m] = Partial
                                           \/ m \in PyeFiles /\ archive'[m] = work[m].pye
      PROVE  ZipInv'
  <2>1. ReadableIsCurrent' /\ PyzCanStart'
    BY <1>3 DEF ReadableIsCurrent, PyzCanStart
  <2>2. ASSUME NEW m \in DOMAIN archive', archive'[m] # Partial
        PROVE  (HasSource(m)' /\ ~LeftOut(m)') \/ archive'[m] = made'.tree[m].pye
    <3>1. m \in Modules /\ m \in PyeFiles /\ archive'[m] = work[m].pye
      BY <1>6, <2>2 DEF PyeFiles
    <3> QED
      BY <1>1, <1>3, <1>4, <3>1, WhatIsPacked
  <2>3. OthersPackedAsFound'
    BY <1>3, <2>2 DEF OthersPackedAsFound
  <2> QED
    BY <1>1, <1>6, <2>1, <2>3, EndStep
<1>7. CASE archive' = Packed
  <2>1. \A m \in DOMAIN archive' : m \in PyeFiles /\ archive'[m] = work[m].pye
    BY <1>7, PackedTyped
  <2>2. archive' \in ArchiveType
    BY <1>7, PackedTyped
  <2> QED
    BY <1>6, <2>1, <2>2
<1>8. ASSUME NEW k \in todo,
             archive' = [m \in DOMAIN Packed \union {k} |-> IF m = k THEN Partial ELSE Packed[m]]
      PROVE  ZipInv'
  <2>1. DOMAIN Packed \union {k} \subseteq Modules
    BY <1>1, PackedTyped
  <2>2. \A m \in DOMAIN Packed : m \in PyeFiles /\ Packed[m] = work[m].pye /\ Packed[m] \in 0..Generated \union {Partial}
    BY PackedTyped
  <2>3. archive' \in [DOMAIN Packed \union {k} -> 0..Generated \union {Partial}]
    BY <1>8, <2>2
  <2>4. archive' \in ArchiveType
    BY <2>1, <2>3, ClosedTyped
  <2>5. \A m \in DOMAIN archive' : \/ archive'[m] = Partial
                                   \/ m \in PyeFiles /\ archive'[m] = work[m].pye
    BY <1>8, <2>2
  <2> QED
    BY <1>6, <2>4, <2>5
<1> QED
  BY <1>5, <1>7, <1>8 DEF PackFails

-----------------------------------------------------------------------------
LEMMA ZipStep == ZipInv /\ [Next]_vars => ZipInv'
<1> SUFFICES ASSUME ZipInv, [Next]_vars PROVE ZipInv'
  OBVIOUS
<1>1. CASE UNCHANGED vars
  <2>1. UNCHANGED <<user, work, archive, pc, args, todo, py_file, pyc_exists, read, torn, began,
                    made, runs>>
    BY <1>1 DEF vars
  <2>2. TypeOK'
    BY <2>1 DEF ZipInv, TypeOK, file
  <2>3. \A m : (Settled(m)' <=> Settled(m)) /\ (Waiting(m)' <=> Waiting(m))
    BY <2>1 DEF Settled, Waiting, Source, Skipped, MadeOf
  <2>4. (Skipped(py_file)' <=> Skipped(py_file))
        /\ (Progress(pc, py_file, work[py_file], torn)' <=> Progress(pc, py_file, work[py_file], torn))
    BY <2>1 DEF Progress, Source, Skipped, MadeOf
  <2>5. Building => Building'
    BY <2>1, <2>3, <2>4 DEF Building
  <2>6. ReadableIsCurrent' /\ OthersPackedAsFound' /\ PyzCanStart'
    BY <2>1, SameArchive
  <2> QED
    BY <2>1, <2>2, <2>5, <2>6 DEF ZipInv
<1>2. CASE \E a \in CompileArgs : Compile(a)
  BY <1>2, CompileStep
<1>3. CASE \E a \in BuildArgs : Build(a)
  BY <1>3, BuildStep
<1>4. CASE \E m \in Modules : CompileFile(m) \/ CopyFile(m) \/ PackFile(m) \/ Edit(m)
  BY <1>4, CompileFileStep, CopyFileStep, PackFileStep, EditStep
<1>5. CASE CompilePyc \/ OpenPye \/ WritePye \/ RemovePyc \/ RemovePy
  BY <1>5, CompilePycStep, OpenPyeStep, WritePyeStep, RemovePycStep, RemovePyStep
<1>6. CASE CompileEnds
  BY <1>6, EndElsewhere DEF CompileEnds
<1>7. CASE generate_main_py \/ OpenArchive
  BY <1>7, GenerateStep, OpenArchiveStep
<1>8. CASE CloseArchive \/ PackFails
  BY <1>8, CloseArchiveStep, PackFailsStep
<1>9. CASE CopyFails
  BY <1>9, EndElsewhere DEF CopyFails
<1>10. CASE Kill
  BY <1>10, EndElsewhere DEF Kill
<1> QED
  BY <1>1, <1>2, <1>3, <1>4, <1>5, <1>6, <1>7, <1>8, <1>9, <1>10 DEF Next

LEMMA ZipInvariant == Spec => []ZipInv
BY ZipInit, ZipStep, PTL DEF Spec

\* No working copy and no arguments outlast a run, and the archive has no
\* directory as long as it is packed.
THEOREM TypeCorrect == Spec => []TypeOK
<1>1. ZipInv => TypeOK
  BY DEF ZipInv
<1> QED
  BY <1>1, ZipInvariant, PTL

\* Whatever can be read was reported as failed, or has every source the
\* directory had when the build began, in that version or a later one, or cut
\* short because a write was lost unnoticed.
THEOREM ArchiveIsCurrent == Spec => []ReadableIsCurrent
<1>1. ZipInv => ReadableIsCurrent
  BY DEF ZipInv
<1> QED
  BY <1>1, ZipInvariant, PTL

\* A module that was left out, or has no source, is packed only as the .pye
\* that lay in the source directory.
THEOREM LeftOutIsNotCompiled == Spec => []OthersPackedAsFound
<1>1. ZipInv => OthersPackedAsFound
  BY DEF ZipInv
<1> QED
  BY <1>1, ZipInvariant, PTL

\* The check for an entry point, made on the user's tree before the copy, still
\* holds of the archive.
THEOREM PyzHasEntryPoint == Spec => []PyzCanStart
<1>1. ZipInv => PyzCanStart
  BY DEF ZipInv
<1> QED
  BY <1>1, ZipInvariant, PTL

-----------------------------------------------------------------------------
(* The user's tree.                                                         *)

\* What a walk in place has made of the source it has read.
Saved(content) == content = read \/ <<py_file, read>> \in SyntaxErrors

InPlaceInv ==
  args \in CompileArgs =>
    /\ \A m \in todo : user[m].py # NoFile
    /\ pc \in Busy => user[py_file].py # NoFile /\ py_file \notin todo
    /\ pc \in {"open", "write", "removePyc", "removePy"} =>
         read \in Nat /\ user[py_file].py >= read
    /\ pc \in {"open", "write"} => args.mode = "pye" /\ Saved(user[py_file].pyc)
    /\ pc = "removePyc" => args.mode = "pye" /\ (Saved(user[py_file].pye) \/ py_file \in torn)
    /\ pc = "removePy" => ReadIsSaved

UserStep ==
  \A m \in Modules : user'[m] # user[m] =>
     \/ \E v \in Versions : v > user[m].py /\ user'[m] = [user[m] EXCEPT !.py = v]
     \/ /\ args.command = "compile" /\ m = py_file
        /\ user'[m].py # user[m].py =>
             user'[m].py = NoFile /\ user[m].py >= read /\ ReadIsSaved

\* The contents of sources are numbers.
LEMMA SourceIsNat == ASSUME NEW f \in File, f.py # NoFile PROVE f.py \in Nat
BY DEF File, Contents, Generated

\* What an edit does to a source.
LEMMA EditKeeps ==
  ASSUME ZipInv, InPlaceInv, NEW k \in Modules, Edit(k)
  PROVE  UserStep /\ InPlaceInv'
<1>1. /\ user \in [Modules -> File] /\ user[k].py \in 1..MaxVersion - 1
      /\ user' = [user EXCEPT ![k] = [user[k] EXCEPT !.py = user[k].py + 1]]
      /\ UNCHANGED <<pc, args, todo, py_file, read, torn>>
  BY DEF Edit, ZipInv, TypeOK, file
<1>2. user[k].py + 1 \in Versions /\ user[k].py + 1 > user[k].py /\ user[k].py + 1 # NoFile
      /\ user[k].py \in Nat
  BY <1>1 DEF Versions
<1>3. user'[k] = [user[k] EXCEPT !.py = user[k].py + 1]
  BY <1>1
<1>4. \A m \in Modules : m # k => user'[m] = user[m]
  BY <1>1
<1>5. UserStep
  BY <1>2, <1>3, <1>4 DEF UserStep
<1>6. /\ user'[k].py = user[k].py + 1 /\ user'[k].pyc = user[k].pyc /\ user'[k].pye = user[k].pye
  <2> DEFINE f == user[k]
  <2>1. f \in File
    BY <1>1
  <2> HIDE DEF f
  <2>2. LET g == [f EXCEPT !.py = f.py + 1] IN g.py = f.py + 1 /\ g.pyc = f.pyc /\ g.pye = f.pye
    BY <2>1 DEF File
  <2> QED
    BY <1>3, <2>2 DEF f
<1>7. \A m \in Modules : /\ user'[m].pyc = user[m].pyc /\ user'[m].pye = user[m].pye
                         /\ user[m].py # NoFile => user'[m].py # NoFile
                         /\ \A v \in Nat : user[m].py # NoFile /\ user[m].py >= v => user'[m].py >= v
  <2> SUFFICES ASSUME NEW m \in Modules
               PROVE  /\ user'[m].pyc = user[m].pyc /\ user'[m].pye = user[m].pye
                      /\ user[m].py # NoFile => user'[m].py # NoFile
                      /\ \A v \in Nat : user[m].py # NoFile /\ user[m].py >= v => user'[m].py >= v
    OBVIOUS
  <2>1. CASE m = k
    BY <1>2, <1>6, <2>1
  <2>2. CASE m # k
    BY <1>4, <2>2
  <2> QED
    BY <2>1, <2>2
<1>8. todo \subseteq Modules /\ (pc \in Busy => py_file \in Modules)
  BY DEF ZipInv, TypeOK
<1>9. InPlaceInv'
  <2> SUFFICES ASSUME args \in CompileArgs PROVE InPlaceInv'
    BY <1>1 DEF InPlaceInv
  <2>1. \A m \in todo' : user'[m].py # NoFile
    BY <1>1, <1>7, <1>8 DEF InPlaceInv
  <2>2. CASE pc \notin Busy
    BY <1>1, <2>1, <2>2 DEF InPlaceInv, Busy
  <2>3. CASE pc \in Busy
    <3>1. /\ user'[py_file].pyc = user[py_file].pyc /\ user'[py_file].pye = user[py_file].pye
          /\ user'[py_file].py # NoFile
          /\ \A v \in Nat : user[py_file].py >= v => user'[py_file].py >= v
      BY <1>7, <1>8, <2>3 DEF InPlaceInv
    <3> QED
      BY <1>1, <2>1, <2>3, <3>1 DEF InPlaceInv, Busy, Saved, ReadIsSaved
  <2> QED
    BY <2>2, <2>3
<1> QED
  BY <1>5, <1>9

\* A step of a walk in place, which leaves the files f of the module.
LEMMA InPlaceStep ==
  ASSUME ZipInv, InPlaceInv, pc \in Busy, NEW f \in File, Put(f),
         NEW place \in {"open", "write", "removePyc", "removePy", "walk"}, NEW v, Goto(place, v),
         args \in CompileArgs =>
           /\ f.py # user[py_file].py =>
                f.py = NoFile /\ place = "walk" /\ user[py_file].py >= read /\ ReadIsSaved
           /\ place # "walk" => v \in Nat /\ f.py >= v
           /\ place \in {"open", "write"} =>
                args.mode = "pye" /\ (f.pyc = v \/ <<py_file, v>> \in SyntaxErrors)
           /\ place = "removePyc" =>
                /\ args.mode = "pye"
                /\ f.pye = v \/ <<py_file, v>> \in SyntaxErrors \/ py_file \in torn'
           /\ place = "removePy" => \/ v \in {f.pyc, f.pye}
                                    \/ <<py_file, v>> \in SyntaxErrors \/ py_file \in torn'
  PROVE  UserStep /\ InPlaceInv'
<1>1. /\ pc' = place /\ UNCHANGED <<args, todo>>
      /\ place # "walk" => py_file' = py_file /\ read' = v
  BY DEF Goto
<1>2. todo \subseteq Modules /\ py_file \in Modules /\ (args \in BuildArgs \/ args \in CompileArgs)
  BY DEF ZipInv, TypeOK, Walking
<1>3. CASE args \in BuildArgs
  <2>1. user' = user
    BY <1>3, PutStep DEF ZipInv
  <2> QED
    BY <1>1, <1>3, <2>1, ArgsDiffer DEF UserStep, InPlaceInv
<1>4. CASE args \in CompileArgs
  <2>1. user'[py_file] = f /\ \A m \in Modules : m # py_file => user'[m] = user[m]
    BY <1>4, PutStep DEF ZipInv
  <2>2. UserStep
    BY <1>4, <2>1, ArgsDiffer DEF UserStep
  <2>3. user[py_file].py # NoFile /\ py_file \notin todo /\ \A m \in todo : user[m].py # NoFile
    BY <1>4 DEF InPlaceInv
  <2>4. \A m \in todo' : user'[m].py # NoFile
    BY <1>1, <1>2, <2>1, <2>3
  <2>5. CASE place = "walk"
    <3>1. pc' \notin Busy
      BY <1>1, <2>5 DEF Busy
    <3>2. pc' \notin {"open", "write", "removePyc", "removePy"}
      BY <1>1, <2>5
    <3> QED
      BY <2>2, <2>4, <3>1, <3>2 DEF InPlaceInv
  <2>6. CASE place # "walk"
    <3>1. f.py # NoFile
      BY <1>4, <2>3, <2>6
    <3>2. /\ user'[py_file'].py # NoFile /\ py_file' \notin todo'
          /\ read' \in Nat /\ user'[py_file'].py >= read'
      BY <1>1, <1>4, <2>1, <2>3, <2>6, <3>1
    <3>3. place \in {"open", "write"} => args'.mode = "pye" /\ Saved(user[py_file].pyc)'
      BY <1>1, <1>4, <2>1, <2>6 DEF Saved
    <3>4. place = "removePyc" =>
            args'.mode = "pye" /\ (Saved(user[py_file].pye)' \/ (py_file \in torn)')
      BY <1>1, <1>4, <2>1, <2>6 DEF Saved
    <3>5. place = "removePy" => ReadIsSaved'
      BY <1>1, <1>4, <2>1, <2>6 DEF ReadIsSaved
    <3> QED
      BY <1>1, <2>2, <2>4, <3>2, <3>3, <3>4, <3>5 DEF InPlaceInv
  <2> QED
    BY <2>2, <2>5, <2>6
<1> QED
  BY <1>2, <1>3, <1>4

LEMMA CompilePycKeeps ==
  ASSUME ZipInv, InPlaceInv, NEW f \in File, f = tree[py_file], pc = "compile",
         Put([f EXCEPT !.pyc = PycOf(py_file, f)]), Goto(AfterPyc, f.py)
  PROVE  UserStep /\ InPlaceInv'
<1> DEFINE new == [f EXCEPT !.pyc = PycOf(py_file, f)]
<1>1. new \in File /\ new.py = f.py /\ new.pyc = PycOf(py_file, f)
  <2>1. PycOf(py_file, f) \in Contents /\ f.py \in Contents
    BY DEF PycOf, File
  <2> QED
    BY <2>1 DEF File
<1>2. pc \in Busy /\ AfterPyc \in {"open", "write", "removePyc", "removePy", "walk"}
  BY DEF AfterPyc, LastStep, Busy
<1> HIDE DEF new
<1>3. ASSUME args \in CompileArgs
      PROVE  /\ f = user[py_file] /\ f.py \in Nat /\ f.py >= f.py
             /\ AfterPyc \notin {"write", "removePyc"}
             /\ AfterPyc = "open" => args.mode = "pye"
             /\ new.pyc = f.py \/ <<py_file, f.py>> \in SyntaxErrors
  <2>1. f = user[py_file] /\ opt = args
    BY <1>2, <1>3, TreeFile
  <2>2. f.py \in Nat
    BY <1>2, <1>3, <2>1, SourceIsNat DEF InPlaceInv
  <2>3. AfterPyc \notin {"write", "removePyc"} /\ (AfterPyc = "open" => args.mode = "pye")
    BY <2>1 DEF AfterPyc, LastStep
  <2> QED
    BY <1>1, <2>1, <2>2, <2>3 DEF PycOf
<1>4. Put(new) /\ Goto(AfterPyc, f.py)
  BY DEF new
<1> QED
  BY <1>1, <1>2, <1>3, <1>4, InPlaceStep

LEMMA OpenPyeKeeps ==
  ASSUME ZipInv, InPlaceInv, NEW f \in File, f = tree[py_file], pc = "open",
         Put([f EXCEPT !.pye = Partial]), Goto("write", read)
  PROVE  UserStep /\ InPlaceInv'
<1> DEFINE new == [f EXCEPT !.pye = Partial]
<1>1. new \in File /\ new.py = f.py /\ new.pyc = f.pyc
  BY DEF File
<1>2. pc \in Busy /\ Put(new)
  BY DEF Busy
<1> HIDE DEF new
<1>3. ASSUME args \in CompileArgs
      PROVE  /\ f = user[py_file] /\ read \in Nat /\ f.py >= read /\ args.mode = "pye"
             /\ f.pyc = read \/ <<py_file, read>> \in SyntaxErrors
  BY <1>2, <1>3, TreeFile DEF InPlaceInv, Saved
<1> QED
  BY <1>1, <1>2, <1>3, InPlaceStep

LEMMA WritePyeKeeps ==
  ASSUME ZipInv, InPlaceInv, NEW f \in File, f = tree[py_file], pc = "write",
         \/ Put([f EXCEPT !.pye = f.pyc])
         \/ Put(f) /\ py_file \in torn',
         Goto(AfterPye, read)
  PROVE  UserStep /\ InPlaceInv'
<1> DEFINE new == [f EXCEPT !.pye = f.pyc]
<1>1. new \in File /\ new.py = f.py /\ new.pye = f.pyc
  BY DEF File
<1>2. pc \in Busy /\ AfterPye \in {"removePyc", "removePy", "walk"}
  BY DEF AfterPye, LastStep, Busy
<1>3. Put(new) \/ (Put(f) /\ py_file \in torn')
  OBVIOUS
<1> HIDE DEF new
<1>4. ASSUME args \in CompileArgs
      PROVE  /\ f = user[py_file] /\ read \in Nat /\ f.py >= read /\ args.mode = "pye"
             /\ f.pyc = read \/ <<py_file, read>> \in SyntaxErrors
  BY <1>2, <1>4, TreeFile DEF InPlaceInv, Saved
<1>5. CASE Put(new)
  BY <1>1, <1>2, <1>4, <1>5, InPlaceStep
<1>6. CASE Put(f) /\ py_file \in torn'
  BY <1>2, <1>4, <1>6, InPlaceStep
<1> QED
  BY <1>3, <1>5, <1>6

LEMMA RemovePycKeeps ==
  ASSUME ZipInv, InPlaceInv, NEW f \in File, f = tree[py_file], pc = "removePyc",
         Put([f EXCEPT !.pyc = NoFile]), Goto(LastStep, read), torn' = torn
  PROVE  UserStep /\ InPlaceInv'
<1> DEFINE new == [f EXCEPT !.pyc = NoFile]
<1>1. new \in File /\ new.py = f.py /\ new.pye = f.pye
  BY NoModuleIsNone DEF File
<1>2. pc \in Busy /\ Put(new) /\ LastStep \in {"removePy", "walk"}
  BY DEF Busy, LastStep
<1> HIDE DEF new
<1>3. ASSUME args \in CompileArgs
      PROVE  /\ f = user[py_file] /\ read \in Nat /\ f.py >= read
             /\ f.pye = read \/ <<py_file, read>> \in SyntaxErrors \/ py_file \in torn
  BY <1>2, <1>3, TreeFile DEF InPlaceInv, Saved
<1> QED
  BY <1>1, <1>2, <1>3, InPlaceStep

LEMMA RemovePyKeeps ==
  ASSUME ZipInv, InPlaceInv, NEW f \in File, f = tree[py_file], pc = "removePy",
         Put([f EXCEPT !.py = NoFile]), Goto("walk", read)
  PROVE  UserStep /\ InPlaceInv'
<1> DEFINE new == [f EXCEPT !.py = NoFile]
<1>1. new \in File /\ new.py = NoFile
  BY NoModuleIsNone DEF File
<1>2. pc \in Busy /\ Put(new)
  BY DEF Busy
<1> HIDE DEF new
<1>3. args \in CompileArgs => user[py_file].py >= read /\ ReadIsSaved
  BY DEF InPlaceInv
<1> QED
  BY <1>1, <1>2, <1>3, InPlaceStep

\* A run that begins, goes to its next file, or ends.
LEMMA OtherKeeps ==
  ASSUME ZipInv, InPlaceInv, user' = user,
         \/ \E how : End(how)
         \/ \E a \in CompileArgs : Compile(a)
         \/ \E a \in BuildArgs : Build(a)
         \/ \E m \in Modules : CompileFile(m) \/ CopyFile(m) \/ PackFile(m)
         \/ generate_main_py \/ OpenArchive
         \/ UNCHANGED vars
  PROVE  UserStep /\ InPlaceInv'
<1>1. UserStep
  BY DEF UserStep
<1>2. CASE args' \notin CompileArgs
  BY <1>1, <1>2 DEF InPlaceInv
<1>3. ASSUME NEW a \in CompileArgs, Compile(a) PROVE InPlaceInv'
  BY <1>3 DEF Compile, compile_dir, InPlaceInv, Busy
<1>4. ASSUME NEW k \in Modules, CompileFile(k) PROVE InPlaceInv'
  BY <1>4 DEF CompileFile, InPlaceInv, Busy
<1>5. CASE \E how : End(how)
  BY <1>2, <1>5, ArgsDiffer DEF End
<1>6. ASSUME NEW a \in BuildArgs, Build(a) PROVE args' \notin CompileArgs
  BY <1>6, ArgsDiffer DEF Build, Begin, ZipInv, TypeOK
<1>7. ASSUME NEW m \in Modules, CopyFile(m) \/ PackFile(m) PROVE args' \notin CompileArgs
  BY <1>7, ArgsDiffer DEF CopyFile, PackFile, ZipInv
<1>8. CASE generate_main_py
  BY <1>2, <1>5, <1>8, ArgsDiffer DEF generate_main_py, ZipInv
<1>9. CASE OpenArchive
  BY <1>2, <1>9, ArgsDiffer DEF OpenArchive, ZipInv, Walking
<1>10. CASE UNCHANGED vars
  BY <1>1, <1>10 DEF vars, InPlaceInv, Saved, ReadIsSaved
<1> QED
  BY <1>1, <1>2, <1>3, <1>4, <1>5, <1>6, <1>7, <1>8, <1>9, <1>10

LEMMA UserTree ==
  ASSUME ZipInv, InPlaceInv, [Next]_vars
  PROVE  UserStep /\ InPlaceInv'
<1>1. pc \in Busy => tree[py_file] \in File
  BY TreeFile
<1>2. CASE \E m \in Modules : Edit(m)
  BY <1>2, EditKeeps
<1>3. CASE CompilePyc \/ OpenPye \/ WritePye \/ RemovePyc \/ RemovePy
  <2>1. CASE CompilePyc
    BY <1>1, <2>1, CompilePycKeeps, OtherKeeps DEF CompilePyc, Busy
  <2>2. CASE OpenPye
    BY <1>1, <2>2, OpenPyeKeeps, OtherKeeps DEF OpenPye, Busy
  <2>3. CASE WritePye
    BY <1>1, <2>3, WritePyeKeeps DEF WritePye, Busy
  <2>4. CASE RemovePyc
    BY <1>1, <2>4, RemovePycKeeps DEF RemovePyc, Busy
  <2>5. CASE RemovePy
    BY <1>1, <2>5, RemovePyKeeps DEF RemovePy, Busy
  <2> QED
    BY <1>3, <2>1, <2>2, <2>3, <2>4, <2>5
<1>4. CASE CompileEnds \/ CloseArchive \/ PackFails \/ CopyFails \/ Kill
  BY <1>4, OtherKeeps DEF CompileEnds, CloseArchive, PackFails, CopyFails, Kill
<1>5. CASE \/ \E a \in CompileArgs : Compile(a)
           \/ \E a \in BuildArgs : Build(a)
           \/ \E m \in Modules : CompileFile(m) \/ CopyFile(m) \/ PackFile(m)
           \/ generate_main_py \/ OpenArchive
           \/ UNCHANGED vars
  <2>1. user' = user
    BY <1>5 DEF Compile, Build, CompileFile, CopyFile, PackFile, generate_main_py, OpenArchive, vars
  <2> QED
    BY <1>5, <2>1, OtherKeeps
<1> QED
  BY <1>2, <1>3, <1>4, <1>5 DEF Next

\* build-zip leaves the user's tree to the user, and a walk in place takes a
\* source away only when what it has read of it is in the output, or did not
\* compile, or was lost by a write nobody noticed.
THEOREM OnlyTheUserEdits == Spec => UserTreeKept
<1>1. Init => InPlaceInv
  BY ArgsDiffer DEF Init, InPlaceInv
<1>2. ZipInv /\ InPlaceInv /\ [Next]_vars => [UserStep]_vars /\ InPlaceInv'
  BY UserTree
<1> QED
  BY <1>1, <1>2, ZipInvariant, PTL DEF Spec, UserTreeKept, UserStep

=============================================================================
