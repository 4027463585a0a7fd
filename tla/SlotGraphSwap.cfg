\* Two slots of one bundle, and a second graph that takes a lent Checkout.
CONSTANTS
  b1 = b1
  b2 = b2
  b3 = b3
  None = None
  Buffers = {b1, b2, b3}
  Graphs = {"g", "h"}
  Slots = {"a", "b"}
  Concretes = {}
  PipeHeads = {"h"}
  Inlets = {"in"}
  Tags = {"A", "B"}
  GraphOf <- SwapGraphOf
  Pos <- SwapPos
  TagOf <- SwapTagOf
  HeadOf <- SwapHeadOf
  Delivered = {"a", "b", "h"}
  FeedSources <- NoFeeds
  FeedOverLent = FALSE
  EnqueueMayFail = FALSE
SPECIFICATION Spec
SYMMETRY BufferSymmetry
INVARIANTS HomeInvariant QuietAtHome
PROPERTY KeepsCustody
