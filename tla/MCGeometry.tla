----------------------------- MODULE MCGeometry -----------------------------
(***************************************************************************)
(* Programs with one tensor, of every small layout that slicing reaches,   *)
(* those that overlap themselves or leave their buffer among them; with    *)
(* two tensors, whose tiles may be mixed up; and with launches alone.      *)
(***************************************************************************)
EXTENDS Geometry

CONSTANTS a, b

Shapes(ext, strides) ==
  {[offset |-> 0, ext |-> ext, stride |-> stride] : stride \in [DOMAIN ext -> strides]}

\* No product of the extents wraps; two reaches do.
SmallShapes ==
  Shapes(<<4>>, 0..3) \cup Shapes(<<3, 2>>, 0..4) \cup Shapes(<<2, 3>>, 0..4)
    \cup Shapes(<<2, 2, 2>>, {1, 2, 4}) \cup {[offset |-> 0, ext |-> <<2, 3, 1>>, stride |-> <<6, 2, 1>>]}
    \cup Shapes(<<2>>, {127}) \cup Shapes(<<3, 2>>, {1, 64})
TwoShapes == Shapes(<<3>>, 1..2)

SmallViews ==
  {<<>>} \cup {[t \in {a} |-> s] : s \in SmallShapes} \cup {[t \in {a, b} |-> s] : s \in TwoShapes}

SmallGrids == UNION {[1..R -> 0..3] : R \in 1..2} \cup {<<2, 1, 2>>, <<2, 2, 2>>, <<1, 3, 1>>, <<4, 3>>}
SmallPads == {<<1, 0, 0>>, <<1, 1, 0>>, <<0, 0, 1>>}

=============================================================================
