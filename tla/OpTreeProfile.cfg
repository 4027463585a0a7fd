\* A profiled kernel, whose marker or callback may be refused.
CONSTANTS
  Slots = {"a", "b"}
  None = None
  New = New
  Trees <- ProfileTrees
  MayRebind <- Never
  Faults = {"none", "profile", "callback"}
SPECIFICATION Spec
CHECK_DEADLOCK FALSE
INVARIANT Rearmed
