CONSTANTS
  DEVICE_RAM = 48
  MAX_ALLOC = 12
  MAX_HANDLES = 3
  Writers = {}
  TaskIds = {1}
  Requests = {4}
SPECIFICATION Spec
INVARIANT OnlyLivePointersAccepted
