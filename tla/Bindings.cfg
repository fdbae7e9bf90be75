SPECIFICATION FairBindSpec
CONSTANTS
  pair1 = pair1
  pair2 = pair2
  priv1 = priv1
  pub1 = pub1
  priv2 = priv2
  pub2 = pub2
  pqc = pqc
  classical = classical
  Pair <- TwoPairs
  PrivOf <- TwoPrivs
  PubOf <- TwoPubs
  Handle <- TwoHandles
  Language = {"go", "rust", "python"}
  Freed <- FreesAll
  Thread = {t1, t2}
  Obj = {o1, o2}
  NoHandle = NoHandle
  Alg <- Algs
  Approved <- PqcOnly
  Required = TRUE
  MaxRefs = 2
  NULL = NULL
  Raw = Raw
INVARIANTS BindTypeOK KeyAliveDuringCall NoKeyLeaks NothingLeftBehind
PROPERTY DroppedKeysAreFreed
