SPECIFICATION Spec
CONSTANTS
  Handle = {h1, h2}
  Obj = {o1, o2}
  pqc = pqc
  classical = classical
  Alg <- Algs
  Approved <- PqcOnly
  Required = TRUE
  MaxRefs = 4
  NULL = NULL
  Raw = Raw

PROPERTY RegenerationDoesNotLeak
