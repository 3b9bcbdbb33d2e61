SPECIFICATION StorageSpec
CONSTANTS
  Readers = {r1}
  Writers = {w1, w2}
  Ops = {"save", "batch", "update", "delete"}
  MaxWrites = 2
  CbThreshold = 2
  Requests <- MCRequests
  Lookups <- MCLookups
  Found <- MCFound
  MaxIDs = 2
  MaxVersions = 3
  CacheKeys = {k1, k2, k3}
  Sizes = {0, 1, 2, 4}
  Lifetimes = {1, 2}
  MaxKeys = 2
  MaxBytes = 3
  MaxBody = 4
  ShedCooldown = 2
  CacheEnd = 4
  RowsOf <- MCRowsOf
  MaxSources = 2
  Callers = {g1, g2}
  Operations = {"find", "overwrite", "backup"}
  Folders = 2
  Accounts = 1
  MaxErrors = 2
  MaxFiles = 2
  PageOf <- MCPages
  SyncWorkers = {sw1, sw2}
  QueueCap = 1
  MaxAccountsInFile = 2
SYMMETRY MCSymmetry
INVARIANTS
  UndisturbedWriteIsSeen
  OwnKeysAgree
  CacheAccounted
  MergedIsKept
  IndexedWhenDone
  OverwriteLeavesOne
  SearchesAreFresh
  FullPassIsComplete
  SavedIsRead
CHECK_DEADLOCK FALSE
