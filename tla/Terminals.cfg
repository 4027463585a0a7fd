\* Every terminal on every graph of three leaves.
CONSTANTS
  Graphs <- Triples
  Terms = {"submit", "value", "pending", "unchecked", "run", "launch"}
  Hasty = FALSE
SPECIFICATION Spec
CHECK_DEADLOCK FALSE
INVARIANTS NeverFreedEarly BorrowEnds ResolvedIsOver
PROPERTY FutureResolves
