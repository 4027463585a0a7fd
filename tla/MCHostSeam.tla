----------------------------- MODULE MCHostSeam -----------------------------
(* Shapes of graphs for HostSeam: nodes in walk order, what each consumes.  *)
EXTENDS HostSeam, TLC

\* A seam whose output is discarded, a seam on a value that no start event gates,
\* a kernel, a seam that joins the two, and a kernel after it.
JoinSeams == {1, 2, 4}
JoinPreds == <<{}, {}, {}, {2, 3}, {4}>>

\* A kernel, then a seam.
PairSeams == {2}
PairPreds == <<{}, {1}>>
=============================================================================
