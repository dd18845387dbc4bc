CONSTANTS
  DEVICE_RAM = 36
  MAX_ALLOC = 20
  MAX_TASKS = 3
  MAX_HANDLES = 3
  ClientIds = {1, 2}
  SpawnIds = {1, 2}
  Quotas = {33}
  Requests <- MCRequests
  Strategies = {}
  MaxNesting = 2
SPECIFICATION HSpec
PROPERTY EvictsLargestIdle
