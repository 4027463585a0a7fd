----------------------------- MODULE MCCbCache -----------------------------
(* Instances of CbCache for TLC.  Cells, tags and queues are strings; the   *)
(* values are model values.                                                 *)
EXTENDS CbCache, TLC

CONSTANTS b1, b2, k1, k2

\* Two regions side by side that share a scalar tag; the first has more binding
\* states than the cache holds CBs.
PairTagOf == ("a" :> "A") @@ ("f1" :> "F") @@ ("f2" :> "F")
PairPos == ("a" :> 1) @@ ("f1" :> 2) @@ ("f2" :> 3)
PairValuesOf == ("A" :> {b1, b2}) @@ ("F" :> {k1, k2})
PairOwn == <<{"a", "f1"}, {"f2"}>>
PairThrough == <<{}, {}>>

\* One region with a move-only tag at two sites; the buffer of a1 is handed out,
\* that of a2 is not.
TwoSiteTagOf == [c \in {"a1", "a2"} |-> "A"]
TwoSitePos == ("a1" :> 1) @@ ("a2" :> 2)
TwoSiteValuesOf == "A" :> {b1, b2, k1}
TwoSiteOwn == <<{"a1", "a2"}>>
TwoSiteThrough == <<{}>>
=============================================================================
