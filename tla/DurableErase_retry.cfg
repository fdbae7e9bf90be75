SPECIFICATION FairEraseSpec
CONSTANTS
  h1 = h1
  h2 = h2
  pathA = pathA
  pathB = pathB
  pqc = pqc
  classical = classical
  Handle <- Handles
  Obj = {o1, o2}
  Alg <- Algorithms
  Approved <- PqcOnly
  Required = TRUE
  MaxRefs = 2
  NULL = NULL
  Raw = Raw
  Path <- BothPaths
  PathOf <- Apart
  Slashed <- BothPaths
  Inode = {i1, i2, i3}
  NoFile = NoFile
  SyncCommitsEntry = TRUE
  MaxFaults = 1
  MaxCrashes = 0
PROPERTY DestroyedIsMarked
