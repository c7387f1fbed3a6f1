\* _exfile_copy bounds only the destination by the slot length.
CONSTANTS
  Threads = {t1, t2}
  NoThread = NoThread
  NULL = NULL
  MAP_FAILED = MAP_FAILED
  PSIZE = 2
  OFF_T_MAX = 5
  MUL <- MCMul
  MAXOFF = 4
  WRITABLE = TRUE
  RSPOLICY = "default"
  FAULTS = {"ftruncate"}
  MAX_FAULTS = 1
  InitSizes = {2}
  IoReqs <- MCIoReqs
  TruncSizes <- MCTruncSizes
  EnsureSizes <- MCEnsureSizes
  MmapReqs <- MCMmapReqs
  SlotOffs <- MCSlotOffs
  CopyReqs <- MCCopyReqs
SPECIFICATION Spec
CONSTRAINT MapsBound
INVARIANT CopySafe
