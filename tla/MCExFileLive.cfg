\* Calls return: the lock protocol under the fairness of Spec.
CONSTANTS
  Threads = {t1, t2}
  NoThread = NoThread
  NULL = NULL
  MAP_FAILED = MAP_FAILED
  PSIZE = 2
  OFF_T_MAX = 5
  MUL <- MCMul
  MAXOFF = 4
  WRITABLE = TRUE
  RSPOLICY = "default"
  FAULTS = {"ftruncate"}
  MAX_FAULTS = 1
  InitSizes = {2}
  IoReqs <- MCIoReqs
  TruncSizes <- MCTruncSizes
  EnsureSizes <- MCEnsureSizes
  MmapReqs <- LiveMmapReqs
  SlotOffs <- LiveSlotOffs
  CopyReqs <- MCCopyReqs
SPECIFICATION Spec
CONSTRAINT MapsBound
PROPERTIES CallsReturn
