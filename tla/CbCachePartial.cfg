\* A move-only tag at two sites, the first of them checked out.
CONSTANTS
  b1 = b1
  b2 = b2
  k1 = k1
  k2 = k2
  Unbound = Unbound
  Severed = Severed
  None = None
  Cells = {"a1", "a2"}
  Tags = {"A"}
  FanOut = {}
  TagOf <- TwoSiteTagOf
  Pos <- TwoSitePos
  ValuesOf <- TwoSiteValuesOf
  Own <- TwoSiteOwn
  Through <- TwoSiteThrough
  Delivered = {"a1"}
  NR = 1
  Single = {}
  Queues = {"q1"}
  Cap = 2
SPECIFICATION Spec
INVARIANT CurrentIsFaithful
