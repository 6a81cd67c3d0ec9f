CONSTANTS
  t1 = t1
  t2 = t2
  t3 = t3
  root = root
  pkg = pkg
  z1 = z1
  m1 = m1
  Importers = {t1}
  Invalidators = {t3}
  Paths = {root}
  Modules = {m1}
  Zips = {z1}
  ZipOf <- OnePath
  Archives <- OneVersion
  Absent = Absent
  Broken = Broken
  NoListing = NoListing
  NoThread = NoThread
  MaxWrites = 0
  MaxInvalidations = 1
SPECIFICATION Spec
PROPERTIES MemberImportable
