\* All kinds, one thread, both queues; four commands and the free.
CONSTANTS
  Kinds = {"mem", "svm", "usm"}
  Queues = {"in", "ooo"}
  Threads = {t1}
  MaxCmds = 4
  CrossQueue = FALSE
  LoosePending = FALSE
  HastyReseed = FALSE
SPECIFICATION Spec
CHECK_DEADLOCK FALSE
INVARIANTS ViewIsQuiet FreeIsLast DeviceAlone UnmapAfterMap
