SPECIFICATION ServerSpec
CONSTANTS
  Conns = {c1, c2}
  RuleKinds <- MCRuleKinds
  Ips = {"ip1", "ip2", "ip3"}
  ShardOf <- MCShard
  Guard <- MCGuard
  MaxRate = 2
  RateWindow = 2
  MaxConc = 1
  GateEnd = 5
  Attempts = {a1, a2}
  Addresses = {i1, i2}
  Tokens <- MCTokens
  Secrets = TRUE
  Strikes = 2
  Minute = 2
  TrackLimit = 1
  AuthEnd = 4
  Submitters = {s1, s2}
  Fetchers = {f1}
  Payloads <- MCPayloads
  OnDrive <- MCOnDrive
  AcceptVandal = FALSE
  Faults = TRUE
  MaxRequests = 2
  MaxDumps = 2
  MaxAccounts = 3
  MaxRetries = 1
  Users = {u1, u2, u3}
  MaxTokens = 3
  CoolTime = 2
SYMMETRY MCSymmetry
INVARIANTS
  InflightExact
  SpanBounded
  LockoutHolds
  StoreAgreesWithDrive
  ShutdownWaitsForUploads
  EndsInOrder
  GivesUpAfterAll
  AbsentWasAnswered
  CancelIsBlamedBriefly
PROPERTIES
  FirstSubmissionStays
  GoodTokenKept
CHECK_DEADLOCK FALSE
