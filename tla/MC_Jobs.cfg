SPECIFICATION JobsSpec
CONSTANTS
  CompactTransactions = 2
  CompactFailures = 2
  CompactDeaths = 1
  PublishInserts = 2
  PublishTries = 2
  PublishNights = 2
  WatchDays = 4
  WatchSla = 30
  FlipOutages = 2
  FlipBlips = 2
  FlipFaults = 2
  FlipActs = 2
  VaultTables <- MCTables
  VaultExtra = {"gbc.csv"}
  VaultSeed = {"gbc.csv"}
  VaultDays = 3
  VaultFaults = 1
  VaultApi = {1}
  CopyKeep = 1
  CopyKeepOff = 2
  CopyRoom = 4
  CopyDays = 5
  CopyFaults = 3
  CallNames = {"a", "b"}
  CallDays <- MCCallDays
  CallFlush = 1
  CallGrace = 2
  CallBack = 3
  CallTolerance = 0
  CallLastDay = 4
  CallFaults = 1
  ReadCap = 1
  ReadKeep = 1
  ReadSnapshots = 3
  ReadFaults = 1
  ReportDays = {{"evening", "watchdog"}, {"evening", "relock"}, {"nightly", "backfill"}}
  ReportNow = 5
  renames = renames
  names = names
  adds = adds
  Code = {"R1", "R3"}
  Seeded = {"R1"}
  Catalogued = {"R1"}
  Ddl = {renames, names}
  Breaks <- MCBreaks
  Renamed = {names}
  Unique = {renames, names}
  Swaps = {renames}
  FailClosed = TRUE
  c1 = c1
  c2 = c2
  Caller = {c1, c2}
  MinCount = 1
  MaxVersions = 2
  MaxProposals = 1
  MaxNumber = 4
  MaxRequests = 2
  Change = {adds, names, renames}
  Destructive = {renames}
  Blocked = {names}
  MaxPushes = 1
  MaxMarks = 1
  Domain = {"a.co", "b.co"}
  Zone = {"surbl"}
  Blacklisted <- MCBlacklisted
  Bought = {"b.co", "c.co"}
  Noting = {"mx"}
  Silent = {"spf"}
  SweepFlush = 1
  SweepNights = 2
  Name = {"a.co", "b.co", "c.co"}
  Limit = 2
  Table = {"t1", "t2"}
  File = {"bare", "mend"}
  Adds <- MCAdds
  GateFaults = 2
SYMMETRY Callers
INVARIANTS
  TypesOK
  NothingForgotten
  ReadersAreFresh
  OutagesAreAnswered
  
  MergesAreAgreed
  SweepsAreHonest
CHECK_DEADLOCK FALSE
