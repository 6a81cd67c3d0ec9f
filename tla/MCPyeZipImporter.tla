-------------------------- MODULE MCPyeZipImporter --------------------------
(* One archive and two path items in it, its root (an item of sys.path) and *)
(* a package's __path__; a member of the package may disappear when the     *)
(* archive is rewritten.                                                    *)
EXTENDS PyeZipImporter

CONSTANTS t1, t2, t3, root, pkg, z1, m1

InOneZip    == [p \in {root, pkg} |-> z1]
TwoVersions == {{<<root, m1>>, <<pkg, m1>>}, {<<root, m1>>}}

OnePath     == [p \in {root} |-> z1]
OneVersion  == {{<<root, m1>>}}
=============================================================================
