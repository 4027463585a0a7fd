\* A driver that refuses an enqueue, with an earlier leaf in flight.
CONSTANTS
  b1 = b1
  b2 = b2
  b3 = b3
  None = None
  Buffers = {b1, b2}
  Graphs = {"g"}
  Slots = {"a"}
  Concretes = {"c"}
  PipeHeads = {}
  Inlets = {}
  Tags = {"A"}
  GraphOf <- MixGraphOf
  Pos <- MixPos
  TagOf <- MixTagOf
  HeadOf <- NoHeads
  Delivered = {"a", "c"}
  FeedSources <- NoFeeds
  FeedOverLent = FALSE
  EnqueueMayFail = TRUE
SPECIFICATION Spec
SYMMETRY BufferSymmetry
INVARIANTS QuietAtHome
