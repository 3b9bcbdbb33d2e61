SPECIFICATION RowsSpec
CONSTANTS
  Requests <- MCRequests
  Lookups <- MCLookups
  Found <- MCFound
  MaxIDs = 2
  MaxVersions = 3
INVARIANTS NoHiddenRow
CHECK_DEADLOCK FALSE
