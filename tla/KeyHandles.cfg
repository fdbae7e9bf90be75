SPECIFICATION Spec
CONSTANTS
  Handle = {h1, h2, h3}
  Obj = {o1, o2, o3}
  pqc = pqc
  classical = classical
  Alg <- Algs
  Approved <- PqcOnly
  Required = TRUE
  MaxRefs = 4
  NULL = NULL
  Raw = Raw
SYMMETRY Symmetry
INVARIANTS TypeOK EveryOwnerCounted
PROPERTIES LeaksOnlyByOverwrite ImplementsOwners
