SPECIFICATION SyncSpec
CONSTANTS
  PageOf <- MCPages
  SyncWorkers = {w1}
  QueueCap = 1
PROPERTIES InterruptEnds
CHECK_DEADLOCK FALSE
