----------------------------- MODULE MCBuildZip -----------------------------
EXTENDS BuildZip
CONSTANTS main, a, b, pkg, git, h, tmp, src, app

MCMain == <<main>>
A      == <<a>>
B      == <<pkg, b>>
Hook   == <<git, h>>      \* below .git
MCModules == {MCMain, A, B, Hook}

MCSourceRoot == <<app>>
MCWorkRoot   == <<tmp, src>>
MCIgnoreFiles == {git}

Pattern(k, n) == [kind |-> k, name |-> n]
\* Nothing; the entry point and the package; all with "a" in the path and
\* all below a "src", which the working copy is.
MCIgnoreLists ==
  {{}, {Pattern("name", main), Pattern("name", pkg)},
   {Pattern("within", a), Pattern("below", src)}}

Src(pyc, pye) == [py |-> 1, pyc |-> pyc, pye |-> pye]
Final         == [py |-> 2, pyc |-> NoFile, pye |-> NoFile]
OnlyPye       == [py |-> NoFile, pyc |-> NoFile, pye |-> Stale]
Nothing       == [py |-> NoFile, pyc |-> NoFile, pye |-> NoFile]

Tree(atMain, atA, atB) ==
  [m \in MCModules |-> CASE m = MCMain -> atMain [] m = A -> atA [] m = B -> atB
                         [] m = Hook -> Final]

\* With __main__.py, a built from an earlier version; and without, a killed
\* run's .pye beside a, and a .pye whose source is not there.  Only a is
\* edited.
MCStartTrees ==
  {Tree(Final, Src(Stale, Stale), Final), Tree(Nothing, Src(NoFile, Partial), OnlyPye)}

\* The second version of module a does not compile.
MCSyntaxErrors == {<<A, 2>>}
=============================================================================
