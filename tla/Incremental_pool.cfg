SPECIFICATION FairSpec
CONSTANTS
  w1 = w1
  w2 = w2
  f1 = f1
  f2 = f2
  f3 = f3
  f4 = f4
  None = None
  NoFile = NoFile
  Files = {f1, f2, f3, f4}
  Contents <- SomeContents
  Size <- Sizes
  Workers = {w1, w2}
  PatchSizes = {1, 2}
  require_verbatim = {f1}
  prohibit_verbatim = {f2}
  Percent = 95
INVARIANTS
  IInv
  NothingLeft
  PackageRebuildsTarget
PROPERTIES
  BatchSpec
  PoolEnds
CHECK_DEADLOCK FALSE
