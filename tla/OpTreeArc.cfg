\* A chain that goes on after its span has closed, inside an Arc.
CONSTANTS
  Slots = {"a", "b"}
  None = None
  New = New
  Trees <- ArcTrees
  MayRebind <- Never
  Faults = {"none"}
SPECIFICATION Spec
CHECK_DEADLOCK FALSE
INVARIANT RunsOnce
