CONSTANTS
  DEVICE_RAM = 32
  MAX_ALLOC = 12
  MAX_TASKS = 3
  ClientIds = {1, 2}
  SpawnIds = {1, 2}
  Quotas = {25}
  Requests <- MCTaskRequests
  Strategies = {1}
  MaxNesting = 2
SPECIFICATION LSpec
INVARIANT TypeOK
INVARIANT LedgerExact
INVARIANT PeakWithinQuota
PROPERTY IdleEntriesFrozen
PROPERTY ImplementsCore
