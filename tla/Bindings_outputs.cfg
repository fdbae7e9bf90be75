SPECIFICATION BindSpec
CONSTANTS
  pair1 = pair1
  pair2 = pair2
  priv1 = priv1
  pub1 = pub1
  priv2 = priv2
  pub2 = pub2
  pqc = pqc
  classical = classical
  Pair <- OnePair
  PrivOf <- OnePriv
  PubOf <- OnePub
  Handle <- OneHandles
  Language = {"rust", "python"}
  Freed <- FreesNone
  Thread = {t1}
  Obj = {o1}
  NoHandle = NoHandle
  Alg <- Algs
  Approved <- PqcOnly
  Required = TRUE
  MaxRefs = 2
  NULL = NULL
  Raw = Raw
INVARIANT OutputsAgree
