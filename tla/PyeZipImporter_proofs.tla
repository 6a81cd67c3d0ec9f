------------------------ MODULE PyeZipImporter_proofs ------------------------
(* Proofs about PyeZipImporter for any number of threads, path items,       *)
(* modules and archives, and any bound on writes and invalidations.         *)
EXTENDS PyeZipImporter, TLAPS

USE PathsAssumption, ArchivesAssumption, ThreadsAssumption, BoundsAssumption
    DEF PathsAssumption, ArchivesAssumption, ThreadsAssumption, BoundsAssumption

\* There is a request: the initial value of req is one.
LEMMA SomeRequest == (CHOOSE r \in Requests : TRUE) \in Requests
  <1>1. PICK p \in Paths, m \in Modules : TRUE
    OBVIOUS
  <1>2. <<p, m>> \in Requests
    BY DEF Requests
  <1>3. QED
    BY <1>2

\* The path item and the archive a thread works on.
LEMMA RequestType ==
  ASSUME TypeOK, NEW t \in Threads
  PROVE  /\ PathOf(t) \in Paths
         /\ Zip(t) \in Zips
         /\ req[t] \in Requests
  BY DEF TypeOK, Requests, PathOf, Zip

\* Every variable keeps its type.
THEOREM TypeCorrect == Spec => []TypeOK
  <1>1. Init => TypeOK
    BY SomeRequest DEF Init, TypeOK, Locations, Finders, Outcomes
  <1>2. TypeOK /\ [Next]_vars => TypeOK'
    <2> SUFFICES ASSUME TypeOK, [Next]_vars PROVE TypeOK'
      OBVIOUS
    <2> USE DEF TypeOK, fileVars, cacheVars, externVars, Goto, Finish, Remember,
                Locations, Constructing, Loading, Invalidating, Finders, Outcomes
    <2>1. ASSUME NEW t \in Importers, NEW r \in Requests, Import(t, r) PROVE TypeOK'
      BY <2>1 DEF Import, Threads
    <2>2. ASSUME NEW t \in Threads, CheckNegative(t) PROVE TypeOK'
      BY <2>2 DEF CheckNegative
    <2>3. ASSUME NEW t \in Threads, SplitZipPath(t) PROVE TypeOK'
      BY <2>3 DEF SplitZipPath
    <2>4. ASSUME NEW t \in Threads, AddNegative(t) PROVE TypeOK'
      BY <2>4, RequestType DEF AddNegative
    <2>5. ASSUME NEW t \in Threads, MakeFallback(t) PROVE TypeOK'
      BY <2>5, RequestType DEF MakeFallback
    <2>6. ASSUME NEW t \in Threads, CheckListing(t) PROVE TypeOK'
      BY <2>6 DEF CheckListing
    <2>7. ASSUME NEW t \in Threads, Acquire(t) PROVE TypeOK'
      BY <2>7 DEF Acquire
    <2>8. ASSUME NEW t \in Threads, RecheckListing(t) PROVE TypeOK'
      BY <2>8 DEF RecheckListing
    <2>9. ASSUME NEW t \in Threads, ScanArchive(t) PROVE TypeOK'
      BY <2>9 DEF ScanArchive, Archive
    <2>10. ASSUME NEW t \in Threads, StoreListing(t) PROVE TypeOK'
      BY <2>10 DEF StoreListing
    <2>11. ASSUME NEW t \in Threads, Release(t) PROVE TypeOK'
      BY <2>11 DEF Release
    <2>12. ASSUME NEW t \in Threads, StdHook(t) PROVE TypeOK'
      BY <2>12, RequestType DEF StdHook
    <2>13. ASSUME NEW t \in Threads, PublishPye(t) PROVE TypeOK'
      BY <2>13 DEF PublishPye
    <2>14. ASSUME NEW t \in Threads, PublishOther(t) PROVE TypeOK'
      BY <2>14 DEF PublishOther
    <2>15. ASSUME NEW t \in Threads, Load(t) PROVE TypeOK'
      BY <2>15 DEF Load, FindSpec, ExecModule, ReadMember
    <2>16. ASSUME NEW t \in Invalidators, Invalidate(t) PROVE TypeOK'
      BY <2>16 DEF Invalidate, Threads
    <2>17. ASSUME NEW t \in Threads, NEW item \in Paths \X Finders, Visit(t, item)
           PROVE  TypeOK'
      BY <2>17 DEF Visit
    <2>18. ASSUME NEW t \in Threads, ClearAcquire(t) PROVE TypeOK'
      BY <2>18 DEF ClearAcquire
    <2>19. ASSUME NEW t \in Threads, ClearListings(t) PROVE TypeOK'
      BY <2>19 DEF ClearListings
    <2>20. ASSUME NEW t \in Threads, ClearNegative(t) PROVE TypeOK'
      BY <2>20 DEF ClearNegative
    <2>21. ASSUME NEW t \in Threads, Invalidated(t) PROVE TypeOK'
      BY <2>21 DEF Invalidated
    <2>22. ASSUME NEW z \in Zips, NEW c \in Contents, Write(z, c) PROVE TypeOK'
      BY <2>22 DEF Write
    <2>23. CASE UNCHANGED vars
      BY <2>23 DEF vars
    <2>24. QED
      BY <2>1, <2>2, <2>3, <2>4, <2>5, <2>6, <2>7, <2>8, <2>9, <2>10, <2>11, <2>12, <2>13,
         <2>14, <2>15, <2>16, <2>17, <2>18, <2>19, <2>20, <2>21, <2>22, <2>23
         DEF Next, Step, Construct, Refresh
  <1>3. QED
    BY <1>1, <1>2, PTL DEF Spec

-----------------------------------------------------------------------------
(* The lock.  Every location of Critical is entered by taking the free lock *)
(* or from another one, and left by freeing it.                             *)

\* No two threads are inside the with blocks of _cache_lock at once.
THEOREM MutualExclusion == Spec => []LockHeld
  <1>1. Init => LockHeld
    BY DEF Init, LockHeld, Critical
  <1>2. TypeOK /\ LockHeld /\ [Next]_vars => LockHeld'
    <2> SUFFICES ASSUME TypeOK, LockHeld, [Next]_vars PROVE LockHeld'
      OBVIOUS
    <2> USE DEF LockHeld, Critical, TypeOK, fileVars, cacheVars, externVars, Goto, Finish
    <2>1. ASSUME NEW t \in Importers, NEW r \in Requests, Import(t, r) PROVE LockHeld'
      BY <2>1 DEF Import, Threads
    <2>2. ASSUME NEW t \in Threads, Construct(t) PROVE LockHeld'
      <3>1. CASE Acquire(t)
        BY <3>1 DEF Acquire
      <3>2. CASE RecheckListing(t)
        BY <3>2 DEF RecheckListing
      <3>3. CASE ScanArchive(t)
        BY <3>3 DEF ScanArchive
      <3>4. CASE StoreListing(t)
        BY <3>4 DEF StoreListing
      <3>5. CASE Release(t)
        BY <3>5 DEF Release
      <3>6. CASE CheckNegative(t) \/ SplitZipPath(t) \/ AddNegative(t) \/ MakeFallback(t)
        BY <3>6 DEF CheckNegative, SplitZipPath, AddNegative, MakeFallback
      <3>7. CASE CheckListing(t) \/ StdHook(t) \/ PublishPye(t) \/ PublishOther(t)
        BY <3>7 DEF CheckListing, StdHook, PublishPye, PublishOther
      <3>8. QED
        BY <2>2, <3>1, <3>2, <3>3, <3>4, <3>5, <3>6, <3>7 DEF Construct
    <2>3. ASSUME NEW t \in Threads, Load(t) PROVE LockHeld'
      BY <2>3 DEF Load, FindSpec, ExecModule, ReadMember
    <2>4. ASSUME NEW t \in Threads, NEW item \in Paths \X Finders, Visit(t, item)
          PROVE  LockHeld'
      BY <2>4 DEF Visit
    <2>5. ASSUME NEW t \in Threads, ClearAcquire(t) PROVE LockHeld'
      BY <2>5 DEF ClearAcquire
    <2>6. ASSUME NEW t \in Threads, ClearListings(t) PROVE LockHeld'
      BY <2>6 DEF ClearListings
    <2>7. ASSUME NEW t \in Threads, ClearNegative(t) PROVE LockHeld'
      BY <2>7 DEF ClearNegative
    <2>8. ASSUME NEW t \in Threads, Invalidated(t) PROVE LockHeld'
      BY <2>8 DEF Invalidated
    <2>9. ASSUME NEW t \in Invalidators, Invalidate(t) PROVE LockHeld'
      BY <2>9 DEF Invalidate, Threads
    <2>10. ASSUME NEW z \in Zips, NEW c \in Contents, Write(z, c) PROVE LockHeld'
      BY <2>10 DEF Write
    <2>11. CASE UNCHANGED vars
      BY <2>11 DEF vars
    <2>12. QED
      BY <2>1, <2>2, <2>3, <2>4, <2>5, <2>6, <2>7, <2>8, <2>9, <2>10, <2>11
         DEF Next, Step, Refresh
  <1>3. QED
    BY <1>1, <1>2, TypeCorrect, PTL DEF Spec

-----------------------------------------------------------------------------
(* The cache of listings.  ListingCurrent is not inductive: what a thread   *)
(* stores is what it scanned a while ago, so the invariant also says that   *)
(* the scanned listing is one of since and its slot is empty until it is    *)
(* stored, which the lock guarantees.                                       *)

ScannedCurrent ==
  \A t \in Threads : pc[t] = "store" => names[t] \in Archives /\ names[t] \in since[Zip(t)]

DiskCurrent == \A z \in Zips : disk[z] \in since[z]

CacheInv == ListingCurrent /\ NoRescan /\ ScannedCurrent /\ DiskCurrent

\* A step that touches neither the cache nor the disk, and takes its thread
\* to a place outside the scan, preserves CacheInv.
LEMMA CacheUntouched ==
  ASSUME TypeOK, CacheInv, NEW t \in Threads,
         UNCHANGED <<disk, dirCache, since, names>>,
         \A u \in Threads \ {t} : pc'[u] = pc[u] /\ req'[u] = req[u],
         pc'[t] \notin {"scan", "store"}
  PROVE  CacheInv'
  <1>1. \A u \in Threads : pc'[u] \in {"scan", "store"} =>
           pc'[u] = pc[u] /\ Zip(u)' = Zip(u)
    BY DEF Zip, PathOf
  <1>2. QED
    BY <1>1 DEF CacheInv, ListingCurrent, NoRescan, ScannedCurrent, DiskCurrent

LEMMA CacheInvInit == Init => CacheInv
  BY DEF Init, CacheInv, ListingCurrent, NoRescan, ScannedCurrent, DiskCurrent

LEMMA CacheInvStep == TypeOK /\ LockHeld /\ CacheInv /\ [Next]_vars => CacheInv'
  <1> SUFFICES ASSUME TypeOK, LockHeld, CacheInv, [Next]_vars PROVE CacheInv'
    OBVIOUS
  <1> USE DEF fileVars, cacheVars, externVars, Goto, Finish
  <1>1. ASSUME NEW t \in Importers, NEW r \in Requests, Import(t, r) PROVE CacheInv'
    <2>1. t \in Threads
      BY DEF Threads
    <2>2. QED
      BY <1>1, <2>1, CacheUntouched DEF Import, TypeOK
  <1>2. ASSUME NEW t \in Threads, Construct(t) PROVE CacheInv'
    <2>1. CASE CheckNegative(t) \/ SplitZipPath(t) \/ AddNegative(t) \/ MakeFallback(t)
      BY <2>1, CacheUntouched DEF CheckNegative, SplitZipPath, AddNegative, MakeFallback, TypeOK
    <2>2. CASE CheckListing(t) \/ Acquire(t) \/ Release(t)
      BY <2>2, CacheUntouched DEF CheckListing, Acquire, Release, TypeOK
    <2>3. CASE StdHook(t) \/ PublishPye(t) \/ PublishOther(t)
      BY <2>3, CacheUntouched DEF StdHook, PublishPye, PublishOther, TypeOK
    <2>4. CASE RecheckListing(t)
      BY <2>4 DEF RecheckListing, TypeOK, CacheInv, ListingCurrent, NoRescan, ScannedCurrent,
                  DiskCurrent, Zip, PathOf
    <2>5. CASE ScanArchive(t)
      BY <2>5, RequestType DEF ScanArchive, Archive, TypeOK, CacheInv, ListingCurrent, NoRescan,
                  ScannedCurrent, DiskCurrent, Zip, PathOf
    <2>6. CASE StoreListing(t)
      \* No other thread scans: the lock is this thread's.
      <3>1. \A u \in Threads \ {t} : pc[u] \notin {"scan", "store"}
        BY <2>6 DEF StoreListing, LockHeld, Critical
      <3>2. Zip(t) \in Zips /\ names[t] \in since[Zip(t)]
        BY <2>6, RequestType DEF StoreListing, CacheInv, ScannedCurrent
      <3>3. \A u \in Threads : pc'[u] \notin {"scan", "store"}
        BY <2>6, <3>1 DEF StoreListing, TypeOK
      <3>4. QED
        BY <2>6, <3>2, <3>3 DEF StoreListing, TypeOK, CacheInv, ListingCurrent, NoRescan,
                                ScannedCurrent, DiskCurrent
    <2>7. QED
      BY <1>2, <2>1, <2>2, <2>3, <2>4, <2>5, <2>6 DEF Construct
  <1>3. ASSUME NEW t \in Threads, Load(t) PROVE CacheInv'
    BY <1>3, CacheUntouched DEF Load, FindSpec, ExecModule, ReadMember, TypeOK
  <1>4. ASSUME NEW t \in Threads, NEW item \in Paths \X Finders, Visit(t, item)
        PROVE  CacheInv'
    BY <1>4, CacheUntouched DEF Visit, TypeOK
  <1>5. ASSUME NEW t \in Threads, ClearListings(t) PROVE CacheInv'
    <2>1. \A u \in Threads : pc'[u] \notin {"scan", "store"}
      BY <1>5 DEF ClearListings, LockHeld, Critical, TypeOK
    <2>2. QED
      BY <1>5, <2>1 DEF ClearListings, TypeOK, CacheInv, ListingCurrent, NoRescan,
                        ScannedCurrent, DiskCurrent
  <1>6. ASSUME NEW t \in Threads, ClearAcquire(t) \/ ClearNegative(t) \/ Invalidated(t)
        PROVE  CacheInv'
    BY <1>6, CacheUntouched DEF ClearAcquire, ClearNegative, Invalidated, TypeOK
  <1>7. ASSUME NEW t \in Invalidators, Invalidate(t) PROVE CacheInv'
    <2>1. t \in Threads
      BY DEF Threads
    <2>2. QED
      BY <1>7, <2>1, CacheUntouched DEF Invalidate, TypeOK
  <1>8. ASSUME NEW z \in Zips, NEW c \in Contents, Write(z, c) PROVE CacheInv'
    BY <1>8, RequestType DEF Write, TypeOK, CacheInv, ListingCurrent, NoRescan, ScannedCurrent,
                DiskCurrent, Zip, PathOf
  <1>9. CASE UNCHANGED vars
    BY <1>9 DEF vars, CacheInv, ListingCurrent, NoRescan, ScannedCurrent, DiskCurrent, Zip, PathOf
  <1>10. QED
    BY <1>1, <1>2, <1>3, <1>4, <1>5, <1>6, <1>7, <1>8, <1>9 DEF Next, Step, Refresh

LEMMA CacheInvariant == Spec => []CacheInv
  BY CacheInvInit, CacheInvStep, TypeCorrect, MutualExclusion, PTL DEF Spec

\* A cached listing was on disk after the last invalidation.
THEOREM ListingsAreCurrent == Spec => []ListingCurrent
  BY CacheInvariant, PTL DEF CacheInv

\* An archive is not scanned while its listing is cached.
THEOREM NoArchiveIsRescanned == Spec => []NoRescan
  BY CacheInvariant, PTL DEF CacheInv

-----------------------------------------------------------------------------
(* ListingCache is implemented: a store is the abstract fill, the clearing  *)
(* of the dict the abstract clear, a rewritten archive the abstract write.  *)

\* The importers' work on their dict of listings is that of one shared cache.
THEOREM ListingCacheImplemented == Spec => ImplementsListingCache
  <1> USE DEF Listings!cacheVars
  <1>1. Init => Listings!Init
    BY DEF Init, Listings!Init
  <1>2. TypeOK /\ CacheInv /\ [Next]_vars => [Listings!Next]_Listings!cacheVars
    <2> SUFFICES ASSUME TypeOK, CacheInv, [Next]_vars
                 PROVE  [Listings!Next]_Listings!cacheVars
      OBVIOUS
    <2> USE DEF fileVars, cacheVars
    <2>1. ASSUME NEW t \in Threads, StoreListing(t) PROVE Listings!Next
      <3>1. Zip(t) \in Zips /\ dirCache[Zip(t)] = NoListing
        BY <2>1, RequestType DEF StoreListing, Goto, CacheInv, NoRescan
      <3>2. names[t] \in since[Zip(t)] /\ Archive(names[t])
        BY <2>1 DEF StoreListing, Goto, CacheInv, ScannedCurrent, Archive
      <3>3. Listings!Fill(Zip(t))
        BY <2>1, <3>1, <3>2 DEF StoreListing, Listings!Fill
      <3>4. QED
        BY <3>1, <3>3 DEF Listings!Next
    <2>2. ASSUME NEW t \in Threads, ClearListings(t) PROVE Listings!Next
      BY <2>2 DEF ClearListings, Listings!Next, Listings!Clear
    <2>3. ASSUME NEW z \in Zips, NEW c \in Contents, Write(z, c) PROVE Listings!Next
      BY <2>3 DEF Write, Listings!Next, Listings!Write
    <2>4. ASSUME NEW t \in Threads, Construct(t), ~StoreListing(t)
          PROVE  UNCHANGED Listings!cacheVars
      BY <2>4 DEF Construct, CheckNegative, SplitZipPath, AddNegative, MakeFallback,
           CheckListing, Acquire, RecheckListing, ScanArchive, Release, StdHook, PublishPye,
           PublishOther
    <2>5. ASSUME NEW t \in Threads, Load(t) PROVE UNCHANGED Listings!cacheVars
      BY <2>5 DEF Load, FindSpec, ExecModule, ReadMember
    <2>6. ASSUME NEW t \in Threads, Refresh(t), ~ClearListings(t)
          PROVE  UNCHANGED Listings!cacheVars
      BY <2>6 DEF Refresh, Visit, ClearAcquire, ClearNegative, Invalidated
    <2>7. ASSUME NEW t \in Importers, NEW r \in Requests, Import(t, r)
          PROVE  UNCHANGED Listings!cacheVars
      BY <2>7 DEF Import
    <2>8. ASSUME NEW t \in Invalidators, Invalidate(t) PROVE UNCHANGED Listings!cacheVars
      BY <2>8 DEF Invalidate
    <2>9. CASE UNCHANGED vars
      BY <2>9 DEF vars
    <2>10. QED
      BY <2>1, <2>2, <2>3, <2>4, <2>5, <2>6, <2>7, <2>8, <2>9 DEF Next, Step
  <1>3. QED
    BY <1>1, <1>2, TypeCorrect, CacheInvariant, PTL
       DEF Spec, ImplementsListingCache, Listings!Spec

-----------------------------------------------------------------------------
(* A calm import.  Between find_spec and the read of the member, its        *)
(* archive is the one the cached listing was read from, and the member is   *)
(* listed: only another thread's store could change the listing, and a      *)
(* store never replaces one (NoRescan).                                     *)

CalmInv ==
  \A t \in Threads :
     /\ calm[t] /\ pc[t] \in Constructing \union Loading => since[Zip(t)] = {disk[Zip(t)]}
     /\ calm[t] /\ pc[t] \in {"exec", "open"} => Listed(t)

ExplainedInv == CalmInv /\ FailuresExplained

LEMMA ExplainedInit == Init => ExplainedInv
  BY DEF Init, ExplainedInv, CalmInv, FailuresExplained

\* A step of one thread that leaves the disk and the cache alone.
LEMMA ExplainedUntouched ==
  ASSUME TypeOK, ExplainedInv, NEW t \in Threads,
         UNCHANGED <<disk, dirCache, since, req, calm>>,
         \A u \in Threads \ {t} : pc'[u] = pc[u] /\ outcome'[u] = outcome[u],
         pc'[t] \in Constructing \union Loading => pc[t] \in Constructing \union Loading,
         pc'[t] \notin {"exec", "open"},
         outcome'[t] \in {"cannotFind", "keyError", "badZip"} => outcome'[t] = outcome[t]
  PROVE  ExplainedInv'
  BY DEF ExplainedInv, CalmInv, FailuresExplained, Listed, Zip, PathOf

LEMMA ExplainedStep == TypeOK /\ CacheInv /\ ExplainedInv /\ [Next]_vars => ExplainedInv'
  <1> SUFFICES ASSUME TypeOK, CacheInv, ExplainedInv, [Next]_vars PROVE ExplainedInv'
    OBVIOUS
  <1> USE DEF fileVars, cacheVars, externVars, Goto, Finish
  <1>1. ASSUME NEW t \in Importers, NEW r \in Requests, Import(t, r) PROVE ExplainedInv'
    <2>1. t \in Threads
      BY DEF Threads
    <2>2. QED
      BY <1>1, <2>1, ZenonT(60) DEF Import, TypeOK, ExplainedInv, CalmInv, FailuresExplained, Listed, Zip,
                        PathOf, Constructing, Loading
  <1>2. ASSUME NEW t \in Threads, Construct(t), ~StoreListing(t) PROVE ExplainedInv'
    <2> USE ExplainedUntouched DEF Constructing, Loading, TypeOK
    <2>1. CASE CheckNegative(t) \/ SplitZipPath(t) \/ AddNegative(t) \/ MakeFallback(t)
      BY <2>1 DEF CheckNegative, SplitZipPath, AddNegative, MakeFallback
    <2>2. CASE CheckListing(t) \/ Acquire(t) \/ Release(t)
      BY <2>2 DEF CheckListing, Acquire, Release
    <2>3. CASE RecheckListing(t) \/ ScanArchive(t)
      BY <2>3 DEF RecheckListing, ScanArchive
    <2>4. CASE StdHook(t) \/ PublishPye(t)
      BY <2>4 DEF StdHook, PublishPye
    <2>5. CASE PublishOther(t)
      BY <2>5 DEF PublishOther
    <2>6. QED
      BY <1>2, <2>1, <2>2, <2>3, <2>4, <2>5 DEF Construct
  <1>3. ASSUME NEW t \in Threads, StoreListing(t) PROVE ExplainedInv'
    \* A listing that is there stays there.
    <2>1. \A u \in Threads : Listed(u) => Listed(u)'
      BY <1>3, RequestType DEF StoreListing, TypeOK, CacheInv, NoRescan, Listed, Zip, PathOf
    <2>2. QED
      BY <1>3, <2>1 DEF StoreListing, TypeOK, ExplainedInv, CalmInv, FailuresExplained, Zip,
                        PathOf, Constructing, Loading
  <1>4. ASSUME NEW t \in Threads, FindSpec(t) \/ ExecModule(t) PROVE ExplainedInv'
    BY <1>4, ZenonT(60) DEF FindSpec, ExecModule, TypeOK, ExplainedInv, CalmInv, FailuresExplained, Listed,
                Zip, PathOf, Constructing, Loading
  <1>5. ASSUME NEW t \in Threads, ReadMember(t) PROVE ExplainedInv'
    <2>1. calm[t] => Archive(disk[Zip(t)]) /\ req[t] \in disk[Zip(t)]
      <3> SUFFICES ASSUME calm[t] PROVE Archive(disk[Zip(t)]) /\ req[t] \in disk[Zip(t)]
        OBVIOUS
      <3>1. Listed(t) /\ since[Zip(t)] = {disk[Zip(t)]}
        BY <1>5 DEF ReadMember, ExplainedInv, CalmInv, Constructing, Loading
      <3>2. Zip(t) \in Zips
        BY RequestType
      <3>3. dirCache[Zip(t)] = disk[Zip(t)]
        BY <3>1, <3>2 DEF Listed, CacheInv, ListingCurrent
      <3>4. QED
        BY <3>1, <3>2, <3>3 DEF Listed, Archive, TypeOK
    <2>2. QED
      BY <1>5, <2>1 DEF ReadMember, TypeOK, ExplainedInv, CalmInv, FailuresExplained, Listed,
                        Zip, PathOf, Constructing, Loading
  <1>6. ASSUME NEW t \in Threads, NEW item \in Paths \X Finders, Visit(t, item)
        PROVE  ExplainedInv'
    BY <1>6, ExplainedUntouched DEF Visit, TypeOK, Constructing, Loading
  <1>7. ASSUME NEW t \in Threads, ClearListings(t) PROVE ExplainedInv'
    BY <1>7 DEF ClearListings, TypeOK, ExplainedInv, CalmInv, FailuresExplained, Constructing,
                Loading
  <1>8. ASSUME NEW t \in Threads, ClearAcquire(t) \/ ClearNegative(t) \/ Invalidated(t)
        PROVE  ExplainedInv'
    BY <1>8, ExplainedUntouched DEF ClearAcquire, ClearNegative, Invalidated, TypeOK,
                                    Constructing, Loading
  <1>9. ASSUME NEW t \in Invalidators, Invalidate(t) PROVE ExplainedInv'
    <2>1. t \in Threads
      BY DEF Threads
    <2>2. QED
      BY <1>9, <2>1, ExplainedUntouched DEF Invalidate, TypeOK, Constructing, Loading
  <1>10. ASSUME NEW z \in Zips, NEW c \in Contents, Write(z, c) PROVE ExplainedInv'
    \* The import of the archive that is rewritten is not calm any more.
    <2>1. \A u \in Threads : calm'[u] => calm[u] /\ (pc[u] = "idle" \/ Zip(u) # z)
      BY <1>10 DEF Write, TypeOK
    <2>2. \A u \in Threads : Zip(u) # z => disk'[Zip(u)] = disk[Zip(u)]
                                           /\ since'[Zip(u)] = since[Zip(u)]
      BY <1>10, RequestType DEF Write, TypeOK
    <2>3. \A u \in Threads : Zip(u)' = Zip(u) /\ (Listed(u) <=> Listed(u)')
      BY <1>10 DEF Write, Listed, Zip, PathOf
    <2>4. CalmInv'
      BY <1>10, <2>1, <2>2, <2>3 DEF Write, ExplainedInv, CalmInv, Constructing, Loading
    <2>5. FailuresExplained'
      BY <1>10, <2>1 DEF Write, ExplainedInv, FailuresExplained
    <2>6. QED
      BY <2>4, <2>5 DEF ExplainedInv
  <1>11. CASE UNCHANGED vars
    BY <1>11 DEF vars, ExplainedInv, CalmInv, FailuresExplained, Listed, Zip, PathOf
  <1>12. QED
    BY <1>1, <1>2, <1>3, <1>4, <1>5, <1>6, <1>7, <1>8, <1>9, <1>10, <1>11
       DEF Next, Step, Load, Refresh

\* exec_module fails on what find_spec found only if the archive or the
\* caches were touched.
THEOREM LoadFailuresExplained == Spec => []FailuresExplained
  <1>1. ExplainedInv => FailuresExplained
    BY DEF ExplainedInv
  <1>2. QED
    BY <1>1, ExplainedInit, ExplainedStep, TypeCorrect, CacheInvariant, PTL DEF Spec

-----------------------------------------------------------------------------
(* Concurrent imports before the first invalidation.  For an archive that   *)
(* nobody rewrites, the invariant follows an import from the hook to its    *)
(* end: the finders and the negative cache agree with the disk, and once a  *)
(* PyeZipImporter exists its listing is there and stays.                    *)

PathAgrees(p) ==
  Untouched(ZipOf[p]) =>
    /\ importerCache[p] = "pye" => dirCache[ZipOf[p]] # NoListing
    /\ importerCache[p] \in {"none", "std"} => ~Archive(disk[ZipOf[p]])
    /\ p \in negCache => ~Archive(disk[ZipOf[p]])

ThreadAgrees(t) ==
  Untouched(Zip(t)) =>
    /\ pc[t] \in {"fallback", "check", "acquire", "recheck", "scan", "store", "release",
                  "publishPye"} => Archive(disk[Zip(t)])
    /\ pc[t] \in {"addNegative", "stdHook", "publishStd", "publishNone"}
         => ~Archive(disk[Zip(t)])
    /\ pc[t] \in {"release", "publishPye", "find"} => dirCache[Zip(t)] # NoListing
    /\ pc[t] \in {"exec", "open"} => Listed(t)
    /\ outcome[t] # "pending" => Agrees(t)

NobodyInvalidates == \A t \in Threads : pc[t] \notin Invalidating

AgreeInv ==
  invalidations = 0 =>
    /\ NobodyInvalidates
    /\ \A p \in Paths : PathAgrees(p)
    /\ \A t \in Threads : ThreadAgrees(t)

LEMMA AgreeInit == Init => AgreeInv
  BY DEF Init, AgreeInv, NobodyInvalidates, Invalidating, PathAgrees, ThreadAgrees

\* What a step that keeps the disk and every cached listing does not touch
\* still agrees after it.
LEMMA AgreeFrame ==
  ASSUME UNCHANGED <<disk, since>>, TypeOK,
         \A z \in Zips : dirCache[z] # NoListing => dirCache'[z] = dirCache[z]
  PROVE  /\ \A p \in Paths : PathAgrees(p) /\ importerCache'[p] = importerCache[p]
              /\ (p \in negCache' => p \in negCache) => PathAgrees(p)'
         /\ \A t \in Threads : ThreadAgrees(t) /\ pc'[t] = pc[t] /\ req'[t] = req[t]
              /\ outcome'[t] = outcome[t] => ThreadAgrees(t)'
  <1>1. \A p \in Paths : ZipOf[p] \in Zips
    OBVIOUS
  <1>2. \A t \in Threads : Zip(t) \in Zips
    BY RequestType
  <1>3. ASSUME NEW p \in Paths, PathAgrees(p), importerCache'[p] = importerCache[p],
               p \in negCache' => p \in negCache
        PROVE  PathAgrees(p)'
    BY <1>1, <1>3 DEF PathAgrees, Untouched, Archive
  <1>4. ASSUME NEW t \in Threads, ThreadAgrees(t), pc'[t] = pc[t], req'[t] = req[t],
               outcome'[t] = outcome[t]
        PROVE  ThreadAgrees(t)'
    <2>1. Zip(t)' = Zip(t) /\ Zip(t) \in Zips
      BY <1>2, <1>4 DEF Zip, PathOf
    <2>2. Listed(t) => Listed(t)'
      BY <1>4, <2>1 DEF Listed
    <2>3. QED
      BY <1>4, <2>1, <2>2 DEF ThreadAgrees, Untouched, Agrees, Archive
  <1>5. QED
    BY <1>3, <1>4

\* The step of a thread between the beginning and the end of its import: it
\* is enough that the thread, and its path item, agree afterwards.
LEMMA AgreeThreadStep ==
  ASSUME TypeOK, AgreeInv, NEW t \in Threads,
         UNCHANGED <<disk, since, req, invalidations>>,
         \A z \in Zips : dirCache[z] # NoListing => dirCache'[z] = dirCache[z],
         \A u \in Threads \ {t} : pc'[u] = pc[u] /\ outcome'[u] = outcome[u],
         pc'[t] \notin Invalidating,
         \A p \in Paths \ {PathOf(t)} :
            importerCache'[p] = importerCache[p] /\ (p \in negCache' => p \in negCache),
         invalidations = 0 => PathAgrees(PathOf(t))' /\ ThreadAgrees(t)'
  PROVE  AgreeInv'
  <1> SUFFICES ASSUME invalidations = 0 PROVE AgreeInv'
    BY DEF AgreeInv
  <1>1. NobodyInvalidates'
    BY DEF AgreeInv, NobodyInvalidates
  <1>2. \A u \in Threads : ThreadAgrees(u)'
    BY AgreeFrame DEF AgreeInv
  <1>3. PathOf(t)' = PathOf(t)
    BY DEF PathOf
  <1>4. \A p \in Paths : PathAgrees(p)'
    <2>1. TAKE p \in Paths
    <2>2. CASE p = PathOf(t)
      BY <1>3, <2>2 DEF PathAgrees, Untouched
    <2>3. CASE p # PathOf(t)
      BY <2>3, AgreeFrame DEF AgreeInv
    <2>4. QED
      BY <2>2, <2>3
  <1>5. QED
    BY <1>1, <1>2, <1>4 DEF AgreeInv

LEMMA AgreeConstruct ==
  ASSUME TypeOK, CacheInv, AgreeInv, NEW t \in Threads, Construct(t)
  PROVE  AgreeInv'
  <1> DEFINE z == Zip(t)
  <1> DEFINE p == PathOf(t)
  <1> USE DEF fileVars, cacheVars, externVars, Goto, Finish
  <1>1. z \in Zips /\ p \in Paths /\ z = ZipOf[p] /\ req[t] \in Requests
    BY RequestType DEF Zip
  <1>2. invalidations = 0 => PathAgrees(p) /\ ThreadAgrees(t)
    BY <1>1 DEF AgreeInv
  <1>3. CASE CheckNegative(t)
    BY <1>1, <1>2, <1>3, AgreeThreadStep
       DEF CheckNegative, TypeOK, PathAgrees, ThreadAgrees, Untouched, Agrees, Zip, PathOf,
           Invalidating
  <1>4. CASE SplitZipPath(t)
    BY <1>1, <1>2, <1>4, AgreeThreadStep
       DEF SplitZipPath, TypeOK, PathAgrees, ThreadAgrees, Untouched, Agrees, Zip, PathOf,
           Invalidating
  <1>5. CASE AddNegative(t)
    BY <1>1, <1>2, <1>5, AgreeThreadStep
       DEF AddNegative, TypeOK, PathAgrees, ThreadAgrees, Untouched, Agrees, Zip, PathOf,
           Invalidating
  <1>6. CASE MakeFallback(t)
    BY <1>1, <1>2, <1>6, AgreeThreadStep
       DEF MakeFallback, StdImporterWorks, Archive, TypeOK, PathAgrees, ThreadAgrees, Untouched,
           Agrees, Zip, PathOf, Invalidating
  <1>7. CASE CheckListing(t)
    BY <1>1, <1>2, <1>7, AgreeThreadStep
       DEF CheckListing, TypeOK, PathAgrees, ThreadAgrees, Untouched, Agrees, Zip, PathOf,
           Invalidating
  <1>8. CASE Acquire(t)
    BY <1>1, <1>2, <1>8, AgreeThreadStep
       DEF Acquire, TypeOK, PathAgrees, ThreadAgrees, Untouched, Agrees, Zip, PathOf,
           Invalidating
  <1>9. CASE RecheckListing(t)
    BY <1>1, <1>2, <1>9, AgreeThreadStep
       DEF RecheckListing, TypeOK, PathAgrees, ThreadAgrees, Untouched, Agrees, Zip, PathOf,
           Invalidating
  <1>10. CASE ScanArchive(t)
    BY <1>1, <1>2, <1>10, AgreeThreadStep
       DEF ScanArchive, TypeOK, PathAgrees, ThreadAgrees, Untouched, Agrees, Zip, PathOf,
           Invalidating
  <1>11. CASE StoreListing(t)
    <2>1. dirCache[z] = NoListing /\ names[t] # NoListing
      BY <1>11 DEF StoreListing, CacheInv, NoRescan, ScannedCurrent
    <2>2. dirCache'[z] # NoListing
      BY <1>1, <1>11, <2>1 DEF StoreListing, TypeOK
    <2>3. \A x \in Zips : dirCache[x] # NoListing => dirCache'[x] = dirCache[x]
      BY <1>11, <2>1 DEF StoreListing, TypeOK
    <2>4. invalidations = 0 => PathAgrees(p)' /\ ThreadAgrees(t)'
      BY <1>1, <1>2, <1>11, <2>2
         DEF StoreListing, TypeOK, PathAgrees, ThreadAgrees, Untouched, Agrees, Zip, PathOf
    <2>5. QED
      BY <1>11, <2>3, <2>4, AgreeThreadStep DEF StoreListing, TypeOK, Invalidating
  <1>12. CASE Release(t)
    BY <1>1, <1>2, <1>12, AgreeThreadStep
       DEF Release, TypeOK, PathAgrees, ThreadAgrees, Untouched, Agrees, Zip, PathOf,
           Invalidating
  <1>13. CASE StdHook(t)
    BY <1>1, <1>2, <1>13, AgreeThreadStep
       DEF StdHook, TypeOK, PathAgrees, ThreadAgrees, Untouched, Agrees, Zip, PathOf,
           Invalidating
  <1>14. CASE PublishPye(t)
    BY <1>1, <1>2, <1>14, AgreeThreadStep
       DEF PublishPye, Remember, TypeOK, PathAgrees, ThreadAgrees, Untouched, Agrees, Zip,
           PathOf, Invalidating
  <1>15. CASE PublishOther(t)
    BY <1>1, <1>2, <1>15, AgreeThreadStep
       DEF PublishOther, Remember, TypeOK, PathAgrees, ThreadAgrees, Untouched, Agrees, Zip,
           PathOf, Invalidating
  <1>16. QED
    BY <1>3, <1>4, <1>5, <1>6, <1>7, <1>8, <1>9, <1>10, <1>11, <1>12, <1>13, <1>14, <1>15
       DEF Construct

LEMMA AgreeLoad ==
  ASSUME TypeOK, CacheInv, AgreeInv, NEW t \in Threads, Load(t)
  PROVE  AgreeInv'
  <1> USE DEF fileVars, cacheVars, externVars, Goto, Finish
  <1>1. Zip(t) \in Zips /\ PathOf(t) \in Paths /\ Zip(t) = ZipOf[PathOf(t)]
    BY RequestType DEF Zip
  <1>2. invalidations = 0 => PathAgrees(PathOf(t)) /\ ThreadAgrees(t)
    BY <1>1 DEF AgreeInv
  \* The listing of an untouched archive is what is on disk.
  <1>3. Untouched(Zip(t)) /\ dirCache[Zip(t)] # NoListing
          => dirCache[Zip(t)] = disk[Zip(t)] /\ Archive(disk[Zip(t)])
    BY <1>1 DEF Untouched, CacheInv, ListingCurrent, TypeOK, Archive
  <1>4. CASE FindSpec(t)
    BY <1>1, <1>2, <1>3, <1>4, AgreeThreadStep, ZenonT(60)
       DEF FindSpec, Listed, TypeOK, PathAgrees, ThreadAgrees, Untouched, Agrees, Zip, PathOf,
           Invalidating
  <1>5. CASE ExecModule(t)
    BY <1>1, <1>2, <1>3, <1>5, AgreeThreadStep, ZenonT(60)
       DEF ExecModule, Listed, TypeOK, PathAgrees, ThreadAgrees, Untouched, Agrees, Zip, PathOf,
           Invalidating
  <1>6. CASE ReadMember(t)
    BY <1>1, <1>2, <1>3, <1>6, AgreeThreadStep
       DEF ReadMember, Listed, TypeOK, PathAgrees, ThreadAgrees, Untouched, Agrees, Zip, PathOf,
           Invalidating
  <1>7. QED
    BY <1>4, <1>5, <1>6 DEF Load

LEMMA AgreeStep == TypeOK /\ CacheInv /\ AgreeInv /\ [Next]_vars => AgreeInv'
  <1> SUFFICES ASSUME TypeOK, CacheInv, AgreeInv, [Next]_vars PROVE AgreeInv'
    OBVIOUS
  <1> USE DEF fileVars, cacheVars, externVars, Goto, Finish
  <1>1. ASSUME NEW t \in Importers, NEW r \in Requests, Import(t, r) PROVE AgreeInv'
    <2> SUFFICES ASSUME invalidations = 0 PROVE AgreeInv'
      BY <1>1 DEF Import, AgreeInv
    <2>1. t \in Threads /\ r[1] \in Paths
      BY DEF Threads, Requests
    <2>2. req'[t] = r /\ Zip(t)' = ZipOf[r[1]]
      BY <1>1, <2>1 DEF Import, TypeOK, Zip, PathOf
    <2>3. PathAgrees(r[1])
      BY <2>1 DEF AgreeInv
    <2>4. ThreadAgrees(t)'
      BY <1>1, <2>1, <2>2, <2>3
         DEF Import, TypeOK, PathAgrees, ThreadAgrees, Untouched, Agrees, Archive
    <2>5. \A u \in Threads \ {t} : pc'[u] = pc[u] /\ req'[u] = req[u] /\ outcome'[u] = outcome[u]
      BY <1>1 DEF Import, TypeOK
    <2>6. /\ \A u \in Threads \ {t} : ThreadAgrees(u)'
          /\ \A p \in Paths : PathAgrees(p)'
      BY <1>1, <2>5, AgreeFrame DEF Import, AgreeInv
    <2>7. NobodyInvalidates'
      BY <1>1, <2>1 DEF Import, TypeOK, AgreeInv, NobodyInvalidates, Invalidating
    <2>8. QED
      BY <2>4, <2>6, <2>7 DEF AgreeInv
  <1>2. ASSUME NEW t \in Threads, Construct(t) PROVE AgreeInv'
    BY <1>2, AgreeConstruct
  <1>3. ASSUME NEW t \in Threads, Load(t) PROVE AgreeInv'
    BY <1>3, AgreeLoad
  <1>4. ASSUME NEW t \in Threads, Refresh(t) PROVE AgreeInv'
    \* Somebody invalidates, so the counter is not zero any more.
    <2>1. invalidations # 0
      BY <1>4 DEF Refresh, Visit, ClearAcquire, ClearListings, ClearNegative, Invalidated,
                  AgreeInv, NobodyInvalidates, Invalidating
    <2>2. invalidations' = invalidations
      BY <1>4 DEF Refresh, Visit, ClearAcquire, ClearListings, ClearNegative, Invalidated
    <2>3. QED
      BY <2>1, <2>2 DEF AgreeInv
  <1>5. ASSUME NEW t \in Invalidators, Invalidate(t) PROVE AgreeInv'
    BY <1>5 DEF Invalidate, AgreeInv, TypeOK
  <1>6. ASSUME NEW z \in Zips, NEW c \in Contents, Write(z, c) PROVE AgreeInv'
    <2> SUFFICES ASSUME invalidations = 0 PROVE AgreeInv'
      BY <1>6 DEF Write, AgreeInv
    \* An archive that is rewritten is not untouched, the others do not change.
    <2>1. ~Untouched(z)'
      BY <1>6 DEF Write, TypeOK, CacheInv, DiskCurrent, Untouched
    <2>2. \A x \in Zips \ {z} : disk'[x] = disk[x] /\ since'[x] = since[x]
      BY <1>6 DEF Write, TypeOK
    <2>3. ASSUME NEW p \in Paths PROVE PathAgrees(p)'
      <3>1. PathAgrees(p) /\ ZipOf[p] \in Zips
        BY DEF AgreeInv
      <3>2. QED
        BY <1>6, <2>1, <2>2, <3>1 DEF Write, PathAgrees, Untouched, Archive
    <2>4. ASSUME NEW t \in Threads PROVE ThreadAgrees(t)'
      <3>1. ThreadAgrees(t) /\ Zip(t) \in Zips /\ Zip(t)' = Zip(t)
        BY <1>6, RequestType DEF AgreeInv, Write, Zip, PathOf
      <3>2. QED
        BY <1>6, <2>1, <2>2, <3>1 DEF Write, ThreadAgrees, Untouched, Archive, Agrees, Listed
    <2>5. NobodyInvalidates'
      BY <1>6 DEF Write, AgreeInv, NobodyInvalidates
    <2>6. QED
      BY <2>3, <2>4, <2>5 DEF AgreeInv
  <1>7. CASE UNCHANGED vars
    BY <1>7 DEF vars, AgreeInv, NobodyInvalidates, PathAgrees, ThreadAgrees, Untouched, Agrees,
                Listed, Zip, PathOf
  <1>8. QED
    BY <1>1, <1>2, <1>3, <1>4, <1>5, <1>6, <1>7 DEF Next, Step

\* Concurrent imports agree with an archive that nobody rewrites, before
\* the first invalidation.
THEOREM ConcurrentImportsAgree == Spec => []ImportsAgreeWithArchive
  <1>1. AgreeInv => ImportsAgreeWithArchive
    BY DEF AgreeInv, ThreadAgrees, ImportsAgreeWithArchive
  <1>2. QED
    BY <1>1, AgreeInit, AgreeStep, TypeCorrect, CacheInvariant, PTL DEF Spec
=============================================================================
