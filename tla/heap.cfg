CONSTANTS
  DEVICE_RAM = 76
  MAX_ALLOC = 28
  MAX_TASKS = 2
  ClientIds = {1}
  SpawnIds = {}
  Quotas = {}
  Requests <- MCHeapRequests
  Strategies = {0, 1, 2}
  MaxNesting = 0
SPECIFICATION LSpec
INVARIANT HeapTiled
INVARIANT HeapCoalesced
INVARIANT StatsAccountForRam
PROPERTY ImplementsRegionStore
