SPECIFICATION MigrationSpec
CONSTANTS
  Key = {k1}
  FirstCapacity = 1
  MaxRecords = 2
  MaxLog = 5
  MaxCrashes = 1
  MaxDamages = 0
CHECK_DEADLOCK FALSE
INVARIANT KeyRemains
