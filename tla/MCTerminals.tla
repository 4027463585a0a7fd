---------------------------- MODULE MCTerminals ----------------------------
(* Graphs for Terminals.                                                    *)
EXTENDS Terminals, TLC

\* A single kernel, and every graph of three leaves with at most one seam.
Triples == {<<"buf">>} \cup
  {g \in [1..3 -> {"buf", "vec", "slice", "seam"}] :
     Cardinality({k \in 1..3 : g[k] = "seam"}) <= 1}
=============================================================================
