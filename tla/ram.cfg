CONSTANTS
  DEVICE_RAM = 36
  MAX_ALLOC = 12
  MAX_HANDLES = 3
  Writers = {0, 1}
  TaskIds = {1}
  Requests <- MCRamRequests
SPECIFICATION Spec
INVARIANT TypeOK
INVARIANT HeadersIntact
INVARIANT DataKept
PROPERTY ImplementsHandles
