CONSTANTS
  DEVICE_RAM = 36
  MAX_ALLOC = 28
  MAX_TASKS = 2
  ClientIds = {1}
  SpawnIds = {}
  Quotas = {}
  Requests <- MCHeapRequests
  Strategies = {0, 1, 2}
  MaxNesting = 0
SPECIFICATION LSpec
INVARIANT LivePointersFreeable
