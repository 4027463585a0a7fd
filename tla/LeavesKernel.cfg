\* A kernel with one output, whose launch the driver may refuse.
CONSTANTS
  Programs <- OneOutput
  MaxRuns = 2
  MayRefuse = TRUE
SPECIFICATION Spec
CHECK_DEADLOCK FALSE
INVARIANTS Rearmed
