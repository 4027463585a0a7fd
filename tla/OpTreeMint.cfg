\* A buffer minted by each run, then two kernels in a command buffer.
CONSTANTS
  Slots = {"a", "b"}
  None = None
  New = New
  Trees <- MintTrees
  MayRebind <- Never
  Faults = {"none"}
SPECIFICATION Spec
CHECK_DEADLOCK FALSE
INVARIANT OnTheBuffersBound
