\* iw_exfile_szpolicy_mul divides before it multiplies: with n = dn = 2 an odd request is answered short.
CONSTANTS
  Threads = {t1, t2}
  NoThread = NoThread
  NULL = NULL
  MAP_FAILED = MAP_FAILED
  PSIZE = 2
  OFF_T_MAX = 5
  MUL <- MCMulEven
  MAXOFF = 4
  WRITABLE = TRUE
  RSPOLICY = "mul"
  FAULTS = {"ftruncate"}
  MAX_FAULTS = 1
  InitSizes = {2}
  IoReqs <- MCIoReqs
  TruncSizes <- MCTruncSizes
  EnsureSizes <- MCEnsureSizes
  MmapReqs <- MCMmapReqs
  SlotOffs <- MCSlotOffs
  CopyReqs <- MCCopyReqs
SPECIFICATION Spec
CONSTRAINT MapsBound
INVARIANT PolicyHonoured
