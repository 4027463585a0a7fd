\* One tag at two sites, a slot fed by an upstream pipe, and a graph over a concrete
\* buffer; enqueues may fail.  The system may stop: every buffer in a poisoned
\* graph, and the caller left with none.
CONSTANTS
  b1 = b1
  b2 = b2
  b3 = b3
  None = None
  Buffers = {b1, b2, b3}
  Graphs = {"g", "k"}
  Slots = {"a1", "a2", "b", "c"}
  Concretes = {"k"}
  PipeHeads = {}
  Inlets = {}
  Tags = {"A", "B", "C"}
  GraphOf <- TwinGraphOf
  Pos <- TwinPos
  TagOf <- TwinTagOf
  HeadOf <- NoHeads
  Delivered = {"a1", "a2", "c", "k"}
  FeedSources <- TwinFeeds
  FeedOverLent = FALSE
  EnqueueMayFail = TRUE
SPECIFICATION FairSpec
INVARIANTS NoStranding SyncIsAtomic
PROPERTIES MutateCallAllOrNothing RunsReturn
CHECK_DEADLOCK FALSE
