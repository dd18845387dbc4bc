CONSTANTS
  DEVICE_RAM = 64
  MAX_ALLOC = 20
  TaskIds = {1}
  Requests <- MCWalkRequests
  Strategies = {0, 1, 2}
SPECIFICATION Spec
INVARIANT TypeOK
INVARIANT WalkOnHeaders
INVARIANT CopyIsFresh
INVARIANT SweptBehind
INVARIANT SearchExact
INVARIANT StatsExact
PROPERTY ImplementsCore
PROPERTY CallsReturn
