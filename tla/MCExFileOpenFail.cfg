\* iwfs_exfile_open when fstat or the backend state() fails.
CONSTANTS
  Threads = {t1, t2}
  NoThread = NoThread
  NULL = NULL
  MAP_FAILED = MAP_FAILED
  PSIZE = 2
  OFF_T_MAX = 7
  MUL <- LifeMul
  MAXOFF = 6
  WRITABLE = TRUE
  RSPOLICY = "default"
  FAULTS = {"ftruncate"}
  MAX_FAULTS = 1
  InitSizes = {0}
  DiskSizes = {0, 2}
  OpenSizes = {0, 3}
  OpenFaults = {"fstat", "state"}
  IoReqs <- LifeIoReqs
  TruncSizes <- LifeTruncSizes
  EnsureSizes <- LifeEnsureSizes
  MmapReqs <- LifeMmapReqs
  SlotOffs <- LifeSlotOffs
  CopyReqs <- LifeCopyReqs
INIT LifeInit
NEXT LifeNext
CONSTRAINT LifeMapsBound
INVARIANT OpenAllOrNothing
