SPECIFICATION SnapshotSpec
CONSTANTS
  Snapshot = {p1}
  Region = {g1, g2}
CHECK_DEADLOCK FALSE
INVARIANT VerifiedHasRegions
