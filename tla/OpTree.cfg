\* All tame graphs of two to four operations.  The faults of a profile, which lose
\* a buffer, are in OpTreeProfile.cfg.
CONSTANTS
  Slots = {"a", "b"}
  None = None
  New = New
  Trees <- TameTrees
  MayRebind <- OneCb
  Faults = {"none", "create", "finalize", "enqueue_cb", "enqueue", "record", "decline", "reject",
            "join", "queue"}
SPECIFICATION Spec
CHECK_DEADLOCK FALSE
INVARIANTS Ordered RunsOnce OnTheBuffersBound Covered Rearmed
