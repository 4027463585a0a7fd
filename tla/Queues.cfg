\* Two threads on a Context of two devices, whose chains fail in run() or later.
SPECIFICATION QSpec
CONSTANTS
  Devices = {"cpu", "gpu"}
  Main = "cpu"
  Threads = {"t1", "t2"}
  Fails = {"early", "late"}
  MaxQueues = 5
INVARIANTS Balanced Stable FreshAfterEarly
CHECK_DEADLOCK FALSE
