CONSTANTS
  MIN_ORD <- MC_MIN_ORD
  MAX_ORD <- MC_MAX_ORD
  LOG_BITS <- MC_LOG_BITS
  NBLK <- MC_NBLK
  NULL = NULL
SPECIFICATION Spec
INVARIANTS
  TypeOK
  AllocatorNeverPanics
  FreeListsWellFormed
  HeapPartition
  BuddiesCoalesced
PROPERTY
  KmallocContractSpec
