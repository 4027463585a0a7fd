\* A handle that a closure keeps past another fill.
CONSTANTS
  Slots = {"a", "b"}
  None = None
  New = New
  Trees <- FarTrees
  MayRebind <- Never
  Faults = {"none"}
SPECIFICATION Spec
CHECK_DEADLOCK FALSE
INVARIANT Ordered
