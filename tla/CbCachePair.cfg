\* Two regions side by side, sharing a scalar tag; two queues.
CONSTANTS
  b1 = b1
  b2 = b2
  k1 = k1
  k2 = k2
  Unbound = Unbound
  Severed = Severed
  None = None
  Cells = {"a", "f1", "f2"}
  Tags = {"A", "F"}
  FanOut = {"F"}
  TagOf <- PairTagOf
  Pos <- PairPos
  ValuesOf <- PairValuesOf
  Own <- PairOwn
  Through <- PairThrough
  Delivered = {"a"}
  NR = 2
  Single = {}
  Queues = {"q1", "q2"}
  Cap = 2
SPECIFICATION Spec
INVARIANTS CurrentIsFaithful NoTwins
