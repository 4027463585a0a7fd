\* A chain whose sync() fails.
SPECIFICATION QSpec
CONSTANTS
  Devices = {"cpu"}
  Main = "cpu"
  Threads = {"t1"}
  Fails = {"sync"}
  MaxQueues = 2
INVARIANT FreshAfterFailure
CHECK_DEADLOCK FALSE
