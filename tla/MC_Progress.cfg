SPECIFICATION JobsSpec
CONSTANTS
  first = first
  edited = edited
  NoDdl = NoDdl
  NoName = NoName
  Batches = 5
  Table = {"campaigns", "reply_data"}
  Key = {"k1", "k2"}
  Dirs <- MCDirs
  TableOf <- MCTableOf
  DirOf <- MCDirOf
  KeysOf <- MCKeysOf
  Upserted = {"campaigns"}
  Dim = "campaigns"
  Fact = "reply_data"
  Broken = {2}
  Wide = {4}
  MaxFaults = 2
INVARIANTS
  TypesOK
  ReadersKeepAWholeCopy
  BatchesKeepOrder
PROPERTIES
  RollbackSticks
  SnapshotReachesReaders
  SoundBatchesLand
  RowsSettle
CHECK_DEADLOCK FALSE
