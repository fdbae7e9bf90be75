SPECIFICATION NodeSpec
CONSTANTS
  Part = {"rounds", "ledger", "utxo", "governance", "gateway", "snapshots", "migration", "domains", "codec", "bridge"}
  Validator <- Four
  Faulty <- LastFaulty
  View <- TwoViews
  Value = {v1, v2}
  Account = {a1, a2}
  Top = 7
  CountTop = 3
  SameAccount = FALSE
  Spender = {t1, t2}
  Count = 2
  MaxCalls = 2
  Voter = {s1, s2, s3}
  Stakes = {1, 2, 7, 1200}
  VoteTop = 2047
  Letter = {"G", "P", " ", "/", "h"}
  BufferSize = 5
  ScanLimit = 4
  GetVerb <- Get
  PostVerb <- Post
  Route <- MigrationRoute
  HttpVer <- Http
  Upstream <- Descriptors
  Snapshot = {p1, p2}
  Region = {g1, g2}
  Key = {k1, k2}
  FirstCapacity = 1
  MaxRecords = 2
  MaxLog = 5
  MaxCrashes = 2
  MaxDamages = 1
  Char <- SomeChars
  MaxHex = 5
  OutMax = {1, 2}
  Sample <- OneRecord
  Error <- SmallErrors
  Written <- FewRecords
  BridgeTag <- BridgeDomain
  Chain = {1, 2}
  Address <- SomeAddresses
  AddressMax = 2
  Amount = {1, 65537}
  Timelock = {0, 256}
  Digest <- Hashes
  Height = {0, 1, 256}
  Confirmations = {0, 16777216}
  MaxIds = 2
  Prefix <- ShortPrefix
  DomMax = 2
  MsgMax = 2
  Domain <- AllArguments
  Message <- ShortMessages
  NULL = NULL
  MaxSigned = 2
CHECK_DEADLOCK FALSE
INVARIANTS NodeTypeOK Agreement RoundCanFinish SupplyConserved FeesSaturate SpentOnce TalliesAreStakes AcceptedByMajority VerdictFromReceived WellFormed PqcOnlyMeansErased RecoveryRestores OnlyRollbackLoses RecordsFit HexDecodes CrcDetects RecordsTold IdsIdentify LocksIdentify NoCrossDomainAcceptance
