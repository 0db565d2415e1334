CONSTANTS
  HEAP_SIZE = 12
  STRING_POOL_SLOTS = 2
  HEADER_SIZE = 2
  RC_MAX = 2
  MaxRefs = 2
  Lens <- MC_Lens
SPECIFICATION Spec
INVARIANTS TypeOK Tiling HeldBlocksLive RollbackExact
PROPERTY KeepsPromise
CHECK_DEADLOCK FALSE
