CONSTANTS
  t1 = t1
  t2 = t2
  t3 = t3
  root = root
  pkg = pkg
  z1 = z1
  m1 = m1
  Importers = {t1, t2}
  Invalidators = {t3}
  Paths = {root, pkg}
  Modules = {m1}
  Zips = {z1}
  ZipOf <- InOneZip
  Archives <- TwoVersions
  Absent = Absent
  Broken = Broken
  NoListing = NoListing
  NoThread = NoThread
  MaxWrites = 1
  MaxInvalidations = 1
SPECIFICATION Spec
INVARIANTS TypeOK LockHeld ListingCurrent NoRescan ImportsAgreeWithArchive FailuresExplained
PROPERTIES ImplementsListingCache
