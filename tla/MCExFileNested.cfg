\* A write inside acquire_mmap/release_mmap that must grow the file never returns.
CONSTANTS
  Threads = {t1, t2}
  NoThread = NoThread
  NULL = NULL
  MAP_FAILED = MAP_FAILED
  PSIZE = 2
  OFF_T_MAX = 5
  MUL <- MCMul
  MAXOFF = 4
  WRITABLE = TRUE
  RSPOLICY = "default"
  FAULTS = {}
  MAX_FAULTS = 1
  InitSizes = {2}
  IoReqs <- NestIoReqs
  TruncSizes <- NestTruncSizes
  EnsureSizes <- NestEnsureSizes
  MmapReqs <- NestMmapReqs
  SlotOffs <- NestSlotOffs
  CopyReqs <- NestCopyReqs
SPECIFICATION NestedSpec
PROPERTIES CallsReturn
CHECK_DEADLOCK FALSE
