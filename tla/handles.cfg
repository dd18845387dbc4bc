CONSTANTS
  DEVICE_RAM = 36
  MAX_ALLOC = 20
  MAX_TASKS = 2
  MAX_HANDLES = 3
  ClientIds = {0, 1}
  SpawnIds = {1}
  Quotas = {33}
  Requests <- MCRequests
  Strategies = {}
  MaxNesting = 1
SPECIFICATION HFairSpec
INVARIANT HandleTypeOK
INVARIANT HandlesNameBlocks
INVARIANT HeapSound
PROPERTY CompactionConsolidates
PROPERTY ImplementsHandleStore
PROPERTY CompactedRetryServed
PROPERTY CallsReturn
