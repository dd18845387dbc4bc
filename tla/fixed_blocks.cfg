CONSTANTS
  N_BLOCKS = 7
  MAX_ALLOC = 192
  Requests <- MCRequests
  Pointers <- MCPointers
  Words <- MCWords
SPECIFICATION Spec
INVARIANT TypeOK
INVARIANT RunsTile
INVARIANT ScanExact
PROPERTY ImplementsRegionStore
