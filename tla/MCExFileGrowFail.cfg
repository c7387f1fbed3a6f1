\* A growing truncate whose mmap fails returns an error with fsize already changed.
CONSTANTS
  Threads = {t1, t2}
  NoThread = NoThread
  NULL = NULL
  MAP_FAILED = MAP_FAILED
  PSIZE = 2
  OFF_T_MAX = 5
  MUL <- MCMul
  MAXOFF = 4
  WRITABLE = TRUE
  RSPOLICY = "default"
  FAULTS = {"mmap"}
  MAX_FAULTS = 1
  InitSizes = {2}
  IoReqs <- MCIoReqs
  TruncSizes <- MCTruncSizes
  EnsureSizes <- MCEnsureSizes
  MmapReqs <- MCMmapReqs
  SlotOffs <- MCSlotOffs
  CopyReqs <- MCCopyReqs
SPECIFICATION Spec
CONSTRAINT MapsBound
PROPERTY FailedTruncateKeepsSize
