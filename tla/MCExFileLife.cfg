\* Open, close and reopen around the calls: an opened file is consistent, a failed open or a close leaves no backend file, close unmaps every slot, the Fibonacci policy answers acceptably.
CONSTANTS
  Threads = {t1, t2}
  NoThread = NoThread
  NULL = NULL
  MAP_FAILED = MAP_FAILED
  PSIZE = 2
  OFF_T_MAX = 7
  MUL <- LifeMul
  MAXOFF = 6
  WRITABLE = TRUE
  RSPOLICY = "fibo"
  FAULTS = {"calloc", "munmap"}
  MAX_FAULTS = 1
  InitSizes = {0}
  DiskSizes = {0, 2}
  OpenSizes = {0, 3}
  OpenFaults = {"init", "initlocks", "file_open"}
  IoReqs <- LifeIoReqs
  TruncSizes <- LifeTruncSizes
  EnsureSizes <- LifeEnsureSizes
  MmapReqs <- LifeMmapReqs
  SlotOffs <- LifeSlotOffs
  CopyReqs <- LifeCopyReqs
INIT LifeInit
NEXT LifeNext
CONSTRAINT LifeMapsBound
INVARIANTS OpenSizeConsistent SlotListConsistent
PROPERTIES CloseUnmapsSlots
