\* Both terminals on one graph; bounds: a command fails on the device only under
\* sync, a map or an unmap is refused only under run.
CONSTANTS
  N = 5
  Seams <- JoinSeams
  Preds <- JoinPreds
  Ungated = {2}
  Outputs = {5}
  Terminals = {"sync", "run"}
  DeviceFails = {"sync"}
  SetupFails = {"run"}
SPECIFICATION Spec
CHECK_DEADLOCK FALSE
INVARIANTS SuccessIsReal FaultIsReported HostAlone NothingBeforeStart FailureRearms
PROPERTY Returns
