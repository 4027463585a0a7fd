\* run when a command fails on the device.
CONSTANTS
  N = 2
  Seams <- PairSeams
  Preds <- PairPreds
  Ungated = {}
  Outputs = {2}
  Terminals = {"run"}
  DeviceFails = {"run"}
  SetupFails = {}
SPECIFICATION Spec
CHECK_DEADLOCK FALSE
INVARIANT SuccessIsReal
