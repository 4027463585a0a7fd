\* Every graph of two steps, and of three that start with a buffer of the run, each
\* run twice; anything may be refused.
CONSTANTS
  Programs <- AllGraphs
  MaxRuns = 2
  MayRefuse = TRUE
SPECIFICATION Spec
CHECK_DEADLOCK FALSE
INVARIANTS Ordered BorrowOver SeedsHold Rearmed Replays
PROPERTY SyncCovers
