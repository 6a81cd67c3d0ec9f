--------------------------- MODULE PyeZipImporter ---------------------------
(***************************************************************************)
(* The import hook for .pye modules in zip archives: the class             *)
(* PyeZipImporter of src/pyconcrete/__init__.py, used by several threads   *)
(* through the import system (sys.path_importer_cache, sys.path_hooks and  *)
(* importlib.invalidate_caches, modelled from how the class plugs into     *)
(* them) while other programs rewrite the archives.                        *)
(*                                                                         *)
(* A thread's statement that reads or writes shared state is one step:     *)
(* CPython may switch threads between any two of them.  An import request  *)
(* is a pair <<path, module>>: the path item being searched and the module *)
(* looked for there.  The members of an archive are such pairs too, which  *)
(* is what _make_path computes.  An archive holds only .pye members, as    *)
(* pyecli build-zip writes them, so that zipimport finds nothing in it.    *)
(***************************************************************************)
EXTENDS Naturals

CONSTANTS
  Importers,         \* threads that import
  Invalidators,      \* threads that call importlib.invalidate_caches()
  Paths,             \* path items (of sys.path or of a package's __path__)
  Modules,           \* module names
  Zips,              \* files that may be zip archives
  ZipOf,             \* the file of Zips that a path item lies in
  Archives,          \* the sets of members an archive may have
  Absent, Broken,    \* contents that are not an archive: no file, no zip file
  NoListing,         \* no cached listing
  NoThread,          \* the lock is free
  MaxWrites,         \* bound: archives are rewritten so many times
  MaxInvalidations   \* bound: calls of importlib.invalidate_caches()

Threads  == Importers \union Invalidators
Requests == Paths \X Modules
Contents == Archives \union {Absent, Broken}

\* zipfile.is_zipfile(), and zipfile.ZipFile() succeeds on the file.
Archive(c) == c \in Archives

ASSUME PathsAssumption == Paths # {} /\ Modules # {} /\ ZipOf \in [Paths -> Zips]
ASSUME ArchivesAssumption ==
  /\ Archives \subseteq SUBSET Requests
  /\ Absent \notin Archives /\ Broken \notin Archives /\ NoListing \notin Archives
ASSUME ThreadsAssumption == NoThread \notin Threads
ASSUME BoundsAssumption == MaxWrites \in Nat /\ MaxInvalidations \in Nat

VARIABLES
  disk,           \* content of each file of Zips
  dirCache,       \* _zip_directory_cache
  negCache,       \* _negative_cache
  lock,           \* _cache_lock: its holder or NoThread
  importerCache,  \* sys.path_importer_cache: the finder of each path item
  stdCache,       \* archives zipimport holds a directory of
  pc, req,        \* where a thread is, and the request it works on
  names,          \* listing a thread has read and not stored yet
  todo,           \* finders an invalidation still has to visit
  outcome,        \* how a thread's last import ended
  writes, invalidations,  \* counters of the bounds
  since,          \* history: contents of each file since dirCache was cleared
  calm            \* history: a thread's import saw no change (see Import)

fileVars  == <<disk, writes>>
cacheVars == <<dirCache, negCache, lock, since>>
externVars == <<importerCache, stdCache>>
vars == <<disk, dirCache, negCache, lock, importerCache, stdCache, pc, req,
          names, todo, outcome, writes, invalidations, since, calm>>

\* The finder sys.path_importer_cache holds for a path item: none looked for
\* yet, None (no hook took the path), PyeZipImporter or zipimport.zipimporter.
Finders == {"missing", "none", "pye", "std"}

Outcomes == {"pending", "loaded", "notFound", "unhandled",
             "cannotFind", "keyError", "badZip"}

Constructing == {"negative", "split", "addNegative", "fallback", "check",
                 "acquire", "recheck", "scan", "store", "release",
                 "stdHook", "publishPye", "publishStd", "publishNone"}
Loading      == {"find", "exec", "open"}
Invalidating == {"visit", "clearAcquire", "clearListings", "clearNegative"}
Locations    == {"idle"} \union Constructing \union Loading \union Invalidating

\* Where a thread holds _cache_lock.
Critical == {"recheck", "scan", "store", "release", "clearListings", "clearNegative"}

PathOf(t) == req[t][1]
Zip(t)    == ZipOf[PathOf(t)]

Init ==
  /\ disk \in [Zips -> Contents]
  /\ dirCache = [z \in Zips |-> NoListing]
  /\ negCache = {}
  /\ lock = NoThread
  /\ importerCache = [p \in Paths |-> "missing"]
  /\ stdCache = {}
  /\ pc = [t \in Threads |-> "idle"]
  /\ req = [t \in Threads |-> CHOOSE r \in Requests : TRUE]
  /\ names = [t \in Threads |-> NoListing]
  /\ todo = [t \in Threads |-> {}]
  /\ outcome = [t \in Threads |-> "pending"]
  /\ writes = 0 /\ invalidations = 0
  /\ since = [z \in Zips |-> {disk[z]}]
  /\ calm = [t \in Threads |-> FALSE]

Goto(t, from, to) == pc[t] = from /\ pc' = [pc EXCEPT ![t] = to]

Finish(t, result) ==
  /\ pc' = [pc EXCEPT ![t] = "idle"]
  /\ outcome' = [outcome EXCEPT ![t] = result]

-----------------------------------------------------------------------------
(* The import system asks the finder of a path item for a module.  History: *)
(* the import is calm as long as the archive on disk is the one of the last *)
(* invalidation and neither is touched until the import ends.               *)

\* PathFinder: take the path item's finder, or run the hooks to make one.
Import(t, r) ==
  LET finder == importerCache[r[1]] IN
  /\ pc[t] = "idle"
  /\ req' = [req EXCEPT ![t] = r]
  /\ calm' = [calm EXCEPT ![t] = since[ZipOf[r[1]]] = {disk[ZipOf[r[1]]]}]
  /\ \/ /\ finder \in {"none", "std"}
        /\ Finish(t, "unhandled")
     \/ /\ finder = "pye"
        /\ pc' = [pc EXCEPT ![t] = "find"]
        /\ outcome' = [outcome EXCEPT ![t] = "pending"]
     \/ /\ finder = "missing"
        /\ pc' = [pc EXCEPT ![t] = "negative"]
        /\ outcome' = [outcome EXCEPT ![t] = "pending"]
  /\ UNCHANGED <<fileVars, cacheVars, externVars, names, todo, invalidations>>

-----------------------------------------------------------------------------
(* PyeZipImporter.__init__, one action per access to shared state.  A path  *)
(* item that is a directory never gets here: FileFinder's hook takes it.    *)
(* An ImportError sends the import system to the next hook, zipimporter.    *)

CheckNegative(t) ==
  /\ \/ PathOf(t) \in negCache /\ Goto(t, "negative", "stdHook")
     \/ PathOf(t) \notin negCache /\ Goto(t, "negative", "split")
  /\ UNCHANGED <<fileVars, cacheVars, externVars, req, names, todo, outcome, invalidations, calm>>

SplitZipPath(t) ==
  /\ \/ Archive(disk[Zip(t)]) /\ Goto(t, "split", "fallback")
     \/ ~Archive(disk[Zip(t)]) /\ Goto(t, "split", "addNegative")
  /\ UNCHANGED <<fileVars, cacheVars, externVars, req, names, todo, outcome, invalidations, calm>>

\* The write to _negative_cache does not take the lock.
AddNegative(t) ==
  /\ Goto(t, "addNegative", "stdHook")
  /\ negCache' = negCache \union {PathOf(t)}
  /\ UNCHANGED <<fileVars, dirCache, lock, since, externVars, req, names, todo, outcome,
                 invalidations, calm>>

\* zipimport.zipimporter(path): the file exists, and its directory is
\* cached or can be read now.
StdImporterWorks(z) ==
  disk[z] # Absent /\ (z \in stdCache \/ Archive(disk[z]))

MakeFallback(t) ==
  /\ \/ /\ StdImporterWorks(Zip(t))
        /\ Goto(t, "fallback", "check")
        /\ stdCache' = stdCache \union {Zip(t)}
     \/ /\ ~StdImporterWorks(Zip(t))
        /\ Goto(t, "fallback", "stdHook")
        /\ UNCHANGED stdCache
  /\ UNCHANGED <<fileVars, cacheVars, importerCache, req, names, todo, outcome, invalidations, calm>>

CheckListing(t) ==
  /\ \/ dirCache[Zip(t)] # NoListing /\ Goto(t, "check", "publishPye")
     \/ dirCache[Zip(t)] = NoListing /\ Goto(t, "check", "acquire")
  /\ UNCHANGED <<fileVars, cacheVars, externVars, req, names, todo, outcome, invalidations, calm>>

Acquire(t) ==
  /\ lock = NoThread
  /\ lock' = t
  /\ Goto(t, "acquire", "recheck")
  /\ UNCHANGED <<fileVars, dirCache, negCache, since, externVars, req, names, todo, outcome,
                 invalidations, calm>>

\* Mutant: the check is not repeated under the lock.
RecheckSkipped(t) ==
  /\ Goto(t, "recheck", "scan")
  /\ UNCHANGED <<fileVars, cacheVars, externVars, req, names, todo, outcome, invalidations, calm>>

\* Mutant: the slot is created empty and filled later.
RecheckReservesSlot(t) ==
  /\ \/ dirCache[Zip(t)] # NoListing /\ Goto(t, "recheck", "release") /\ UNCHANGED dirCache
     \/ /\ dirCache[Zip(t)] = NoListing
        /\ Goto(t, "recheck", "scan")
        /\ dirCache' = [dirCache EXCEPT ![Zip(t)] = {}]
  /\ UNCHANGED <<fileVars, negCache, lock, since, externVars, req, names, todo, outcome,
                 invalidations, calm>>

RecheckListing(t) ==
  /\ \/ dirCache[Zip(t)] # NoListing /\ Goto(t, "recheck", "release")
     \/ dirCache[Zip(t)] = NoListing /\ Goto(t, "recheck", "scan")
  /\ UNCHANGED <<fileVars, cacheVars, externVars, req, names, todo, outcome, invalidations, calm>>

\* Mutant: acquire() and release() without a with block.
ScanLeaksLock(t) ==
  /\ \/ /\ Archive(disk[Zip(t)])
        /\ Goto(t, "scan", "store")
        /\ names' = [names EXCEPT ![t] = disk[Zip(t)]]
     \/ /\ ~Archive(disk[Zip(t)])
        /\ Goto(t, "scan", "stdHook")
        /\ UNCHANGED names
  /\ UNCHANGED <<fileVars, cacheVars, externVars, req, todo, outcome, invalidations, calm>>

\* zipfile.ZipFile(...) reads the central directory; when it cannot, the
\* exception leaves the with block, which releases the lock.
ScanArchive(t) ==
  /\ \/ /\ Archive(disk[Zip(t)])
        /\ Goto(t, "scan", "store")
        /\ names' = [names EXCEPT ![t] = disk[Zip(t)]]
        /\ UNCHANGED lock
     \/ /\ ~Archive(disk[Zip(t)])
        /\ Goto(t, "scan", "stdHook")
        /\ lock' = NoThread
        /\ UNCHANGED names
  /\ UNCHANGED <<fileVars, dirCache, negCache, since, externVars, req, todo, outcome,
                 invalidations, calm>>

StoreListing(t) ==
  /\ Goto(t, "store", "release")
  /\ dirCache' = [dirCache EXCEPT ![Zip(t)] = names[t]]
  /\ names' = [names EXCEPT ![t] = NoListing]
  /\ UNCHANGED <<fileVars, negCache, lock, since, externVars, req, todo, outcome,
                 invalidations, calm>>

Release(t) ==
  /\ Goto(t, "release", "publishPye")
  /\ lock' = NoThread
  /\ UNCHANGED <<fileVars, dirCache, negCache, since, externVars, req, names, todo, outcome,
                 invalidations, calm>>

-----------------------------------------------------------------------------
(* The import system again: the next hook, and the finder is remembered.    *)

StdHook(t) ==
  /\ \/ /\ StdImporterWorks(Zip(t))
        /\ Goto(t, "stdHook", "publishStd")
        /\ stdCache' = stdCache \union {Zip(t)}
     \/ /\ ~StdImporterWorks(Zip(t))
        /\ Goto(t, "stdHook", "publishNone")
        /\ UNCHANGED stdCache
  /\ UNCHANGED <<fileVars, cacheVars, importerCache, req, names, todo, outcome, invalidations, calm>>

Remember(t, finder) == importerCache' = [importerCache EXCEPT ![PathOf(t)] = finder]

PublishPye(t) ==
  /\ Goto(t, "publishPye", "find")
  /\ Remember(t, "pye")
  /\ UNCHANGED <<fileVars, cacheVars, stdCache, req, names, todo, outcome, invalidations, calm>>

\* Neither finder knows .pye members: the import goes on without the path.
PublishOther(t) ==
  /\ \/ pc[t] = "publishStd" /\ Remember(t, "std")
     \/ pc[t] = "publishNone" /\ Remember(t, "none")
  /\ Finish(t, "unhandled")
  /\ UNCHANGED <<fileVars, cacheVars, stdCache, req, names, todo, invalidations, calm>>

-----------------------------------------------------------------------------
(* find_spec and exec_module.  Each looks the member up in the cache again. *)

\* Mutant: the prefix of the path item is left out of the member's name.
ListedAnywhere(t) ==
  /\ dirCache[Zip(t)] # NoListing
  /\ \E member \in dirCache[Zip(t)] : member[2] = req[t][2]

\* _find_pye on _get_namelist(): no listing is the same as an empty one.
Listed(t) == dirCache[Zip(t)] # NoListing /\ req[t] \in dirCache[Zip(t)]

FindSpec(t) ==
  /\ pc[t] = "find"
  /\ \/ Listed(t) /\ Goto(t, "find", "exec") /\ UNCHANGED outcome
     \/ ~Listed(t) /\ Finish(t, "notFound")
  /\ UNCHANGED <<fileVars, cacheVars, externVars, req, names, todo, invalidations, calm>>

ExecModule(t) ==
  /\ pc[t] = "exec"
  /\ \/ Listed(t) /\ Goto(t, "exec", "open") /\ UNCHANGED outcome
     \/ ~Listed(t) /\ Finish(t, "cannotFind")
  /\ UNCHANGED <<fileVars, cacheVars, externVars, req, names, todo, invalidations, calm>>

\* zipfile.ZipFile(...).read(member), then the code runs.
ReadMember(t) ==
  LET content == disk[Zip(t)] IN
  /\ pc[t] = "open"
  /\ \/ ~Archive(content) /\ Finish(t, "badZip")
     \/ Archive(content) /\ req[t] \notin content /\ Finish(t, "keyError")
     \/ Archive(content) /\ req[t] \in content /\ Finish(t, "loaded")
  /\ UNCHANGED <<fileVars, cacheVars, externVars, req, names, todo, invalidations, calm>>

-----------------------------------------------------------------------------
(* importlib.invalidate_caches(): PathFinder drops the None entries of      *)
(* sys.path_importer_cache and calls invalidate_caches of the others.  It   *)
(* works on a copy of the items.                                            *)

Invalidate(t) ==
  /\ Goto(t, "idle", "visit")
  /\ invalidations < MaxInvalidations
  /\ invalidations' = invalidations + 1
  /\ todo' = [todo EXCEPT ![t] =
                {item \in Paths \X Finders : item[2] = importerCache[item[1]]
                                             /\ item[2] # "missing"}]
  /\ UNCHANGED <<fileVars, cacheVars, externVars, req, names, outcome, calm>>

\* A None entry goes; a zipimporter reads its directory again; a
\* PyeZipImporter's class method takes the lock.
Visit(t, item) ==
  LET z == ZipOf[item[1]] IN
  /\ pc[t] = "visit"
  /\ item \in todo[t]
  /\ todo' = [todo EXCEPT ![t] = @ \ {item}]
  /\ \/ /\ item[2] = "none"
        /\ importerCache' = [importerCache EXCEPT ![item[1]] = "missing"]
        /\ UNCHANGED <<pc, stdCache>>
     \/ /\ item[2] = "std"
        /\ stdCache' = IF Archive(disk[z]) THEN stdCache \union {z} ELSE stdCache \ {z}
        /\ UNCHANGED <<pc, importerCache>>
     \/ /\ item[2] = "pye"
        /\ pc' = [pc EXCEPT ![t] = "clearAcquire"]
        /\ UNCHANGED externVars
  /\ UNCHANGED <<fileVars, cacheVars, req, names, outcome, invalidations, calm>>

\* Mutant: invalidate_caches does not take the lock.
ClearUnlocked(t) ==
  /\ Goto(t, "clearAcquire", "clearListings")
  /\ UNCHANGED <<fileVars, cacheVars, externVars, req, names, todo, outcome, invalidations, calm>>

ClearAcquire(t) ==
  /\ lock = NoThread
  /\ lock' = t
  /\ Goto(t, "clearAcquire", "clearListings")
  /\ UNCHANGED <<fileVars, dirCache, negCache, since, externVars, req, names, todo, outcome,
                 invalidations, calm>>

\* The whole dict, whatever archive the importer serves.
ClearListings(t) ==
  /\ Goto(t, "clearListings", "clearNegative")
  /\ dirCache' = [z \in Zips |-> NoListing]
  /\ since' = [z \in Zips |-> {disk[z]}]
  /\ calm' = [u \in Threads |-> calm[u] /\ pc[u] = "idle"]
  /\ UNCHANGED <<fileVars, negCache, lock, externVars, req, names, todo, outcome, invalidations>>

ClearNegative(t) ==
  /\ Goto(t, "clearNegative", "visit")
  /\ negCache' = {}
  /\ lock' = NoThread
  /\ UNCHANGED <<fileVars, dirCache, since, externVars, req, names, todo, outcome,
                 invalidations, calm>>

Invalidated(t) ==
  /\ todo[t] = {}
  /\ Goto(t, "visit", "idle")
  /\ UNCHANGED <<fileVars, cacheVars, externVars, req, names, todo, outcome, invalidations, calm>>

-----------------------------------------------------------------------------
(* Other programs create, replace, truncate and delete the archives.        *)

Write(z, c) ==
  /\ writes < MaxWrites
  /\ writes' = writes + 1
  /\ c # disk[z]
  /\ disk' = [disk EXCEPT ![z] = c]
  /\ since' = [since EXCEPT ![z] = @ \union {c}]
  /\ calm' = [u \in Threads |-> calm[u] /\ (pc[u] = "idle" \/ Zip(u) # z)]
  /\ UNCHANGED <<dirCache, negCache, lock, externVars, pc, req, names, todo, outcome,
                 invalidations>>

-----------------------------------------------------------------------------
Construct(t) ==
  \/ CheckNegative(t) \/ SplitZipPath(t) \/ AddNegative(t) \/ MakeFallback(t)
  \/ CheckListing(t) \/ Acquire(t) \/ RecheckListing(t) \/ ScanArchive(t)
  \/ StoreListing(t) \/ Release(t)
  \/ StdHook(t) \/ PublishPye(t) \/ PublishOther(t)

Load(t) == FindSpec(t) \/ ExecModule(t) \/ ReadMember(t)

Refresh(t) ==
  \/ \E item \in Paths \X Finders : Visit(t, item)
  \/ ClearAcquire(t) \/ ClearListings(t) \/ ClearNegative(t) \/ Invalidated(t)

\* What a thread does once it has begun an import or an invalidation.
Step(t) == Construct(t) \/ Load(t) \/ Refresh(t)

Next ==
  \/ \E t \in Threads : Step(t)
  \/ \E t \in Importers, r \in Requests : Import(t, r)
  \/ \E t \in Invalidators : Invalidate(t)
  \/ \E z \in Zips, c \in Contents : Write(z, c)

Spec == Init /\ [][Next]_vars

\* The interpreter keeps running every thread that has begun something;
\* nobody has to begin an import, an invalidation or a write.
FairSpec == Spec /\ \A t \in Threads : WF_vars(Step(t))

-----------------------------------------------------------------------------
TypeOK ==
  /\ disk \in [Zips -> Contents]
  /\ dirCache \in [Zips -> Archives \union {NoListing}]
  /\ negCache \subseteq Paths
  /\ lock \in Threads \union {NoThread}
  /\ importerCache \in [Paths -> Finders]
  /\ stdCache \subseteq Zips
  /\ pc \in [Threads -> Locations]
  /\ req \in [Threads -> Requests]
  /\ names \in [Threads -> Archives \union {NoListing}]
  /\ todo \in [Threads -> SUBSET (Paths \X Finders)]
  /\ outcome \in [Threads -> Outcomes]
  /\ writes \in 0..MaxWrites /\ invalidations \in 0..MaxInvalidations
  /\ since \in [Zips -> SUBSET Contents]
  /\ calm \in [Threads -> BOOLEAN]

\* _cache_lock is held by exactly the thread that is between an acquisition
\* and its release, on every way out of the with block, the exception of a
\* failing scan included: no two threads fill or clear the cache at once.
LockHeld == \A t \in Threads : pc[t] \in Critical <=> lock = t

\* A cached listing was read from the disk after the last invalidation: an
\* invalidation cannot slip between a scan and the store of its result.
ListingCurrent == \A z \in Zips : dirCache[z] # NoListing => dirCache[z] \in since[z]

\* The check made under the lock: no archive is scanned whose listing
\* another thread has cached in the meantime.
NoRescan == \A t \in Threads : pc[t] \in {"scan", "store"} => dirCache[Zip(t)] = NoListing

\* The archive is the one of the last invalidation.
Untouched(z) == since[z] = {disk[z]}

\* How an import should end, given what is on disk.
Agrees(t) ==
  IF Archive(disk[Zip(t)]) /\ req[t] \in disk[Zip(t)]
    THEN outcome[t] = "loaded"
    ELSE outcome[t] \in {"notFound", "unhandled"}

\* As long as nobody rewrote the archive and nobody invalidated the caches,
\* concurrent imports agree with the archive, whatever their interleaving:
\* a member loads, anything else is not found, and nothing is raised.
ImportsAgreeWithArchive ==
  \A t \in Threads :
     invalidations = 0 /\ Untouched(Zip(t)) /\ outcome[t] # "pending" => Agrees(t)

\* exec_module fails on a module find_spec has just found (ImportError
\* "cannot find", KeyError, BadZipFile) only when the archive was rewritten
\* after the last invalidation, or the caches were cleared meanwhile.
FailuresExplained ==
  \A t \in Threads : outcome[t] \in {"cannotFind", "keyError", "badZip"} => ~calm[t]

\* Every import and every invalidation comes to an end.
OperationsEnd == \A t \in Threads : pc[t] # "idle" ~> pc[t] = "idle"

\* README.md 160: "Zip archives placed on sys.path are importable".  An
\* import that nothing disturbs does not report a member of the archive as
\* missing.
MemberImportable ==
  [][\A t \in Threads :
       /\ pc[t] = "find" /\ pc'[t] = "idle" /\ calm[t]
       /\ \A u \in Threads : pc[u] \notin Invalidating
          => ~(Archive(disk[Zip(t)]) /\ req[t] \in disk[Zip(t)])]_vars

\* The listings are kept as ListingCache promises.
Listings == INSTANCE ListingCache WITH listing <- dirCache
ImplementsListingCache == Listings!Spec
=============================================================================
