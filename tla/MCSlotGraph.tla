---------------------------- MODULE MCSlotGraph ----------------------------
(* Instances of SlotGraph for TLC.  Sites are strings, so that the shape of *)
(* the graphs can be written down; buffers are interchangeable.             *)
EXTENDS SlotGraph, TLC

CONSTANTS b1, b2, b3

BufferSymmetry == Permutations(Buffers)

\* "g" is bundle!(leaf(slot!(A)), leaf(slot!(B))); "h" reads a lent Checkout.
SwapGraphOf == ("a" :> "g") @@ ("b" :> "g") @@ ("h" :> "h") @@ ("in" :> "h")
SwapPos == ("a" :> 1) @@ ("b" :> 2) @@ ("h" :> 1)
SwapTagOf == ("a" :> "A") @@ ("b" :> "B")
SwapHeadOf == ("h" :> "in")

NoFeeds == [t \in Tags |-> {}]
NoHeads == [s \in {} |-> None]

\* Two graphs.  "g" is leaf(slot!(B)).and_then(|p| bundle!(x, y, z.call((C(p),))))
\* with tag A in x and y, curried before they were composed: C is fed by the
\* pipe of "b", or bound.  "k" reads a concrete buffer.
TwinGraphOf == ("a1" :> "g") @@ ("a2" :> "g") @@ ("b" :> "g") @@ ("c" :> "g") @@ ("k" :> "k")
TwinPos == ("b" :> 1) @@ ("a1" :> 2) @@ ("a2" :> 3) @@ ("c" :> 4) @@ ("k" :> 1)
TwinTagOf == ("a1" :> "A") @@ ("a2" :> "A") @@ ("b" :> "B") @@ ("c" :> "C")
TwinFeeds == ("A" :> {}) @@ ("B" :> {}) @@ ("C" :> {"b"})

\* "g" is bundle!(leaf(slot!(A)), leaf(buffer)).
MixGraphOf == [s \in {"a", "c"} |-> "g"]
MixPos == ("a" :> 1) @@ ("c" :> 2)
MixTagOf == "a" :> "A"
=============================================================================
