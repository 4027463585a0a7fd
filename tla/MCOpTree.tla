----------------------------- MODULE MCOpTree ------------------------------
(* Graphs for OpTree.                                                       *)
EXTENDS OpTree

\* A graph is written as the sequence of its operations over the buffers "a"
\* and "b": <<kind, buffers>>, a wrapper of what is before it such as <<"host">>,
\* or <<"bundle", l, r>> whose branches
\* are sequences of kinds over "a" and over "b".
AB == {"a", "b"}

\* A part of a graph: its nodes, the first of which is number b + 1 of the graph,
\* the cells of its handle, and those that hold the buffers once it has run.
Part(b, nodes, out, cells) ==
  LET on == Last(nodes).on IN
  [nodes |-> nodes, out |-> out, top |-> b + Len(nodes), on |-> on,
   cells |-> [x \in AB |-> IF \E p \in DOMAIN on : on[p] = x
                           THEN <<"cell", out[CHOOSE p \in DOMAIN on : on[p] = x]>> ELSE cells[x]]]
Ports(n, on) == [p \in DOMAIN on |-> <<n, p>>]

Leaf(b, step, cells) ==
  LET ins == IF step[1] \in {"mint", "upload"} THEN <<>>
             ELSE [i \in DOMAIN step[2] |-> cells[step[2][i]]]
      slot == ins # <<>> /\ ins[1][1] = "slot"
      k == CASE step[1] = "pass" /\ slot -> "lift"
             [] step[1] = "pass" /\ ~slot -> "forward"
             [] OTHER -> step[1]
  IN Part(b, <<[k |-> k, in |-> ins, on |-> step[2], kids |-> <<>>]>>,
          IF k = "pipe" THEN <<ins[1][2]>> ELSE Ports(b + 1, step[2]), cells)
Over1(b, k, l) ==
  Part(b, Append(l.nodes, [k |-> k, in |-> <<>>, on |-> l.on, kids |-> <<l.top>>]),
       Ports(l.top + 1, l.on), l.cells)
Over2(b, k, l, r, out, on) ==
  Part(b, Append(l.nodes \o r.nodes, [k |-> k, in |-> <<>>, on |-> on, kids |-> <<l.top, r.top>>]),
       out, r.cells)
Chain(b, l, r) == Over2(b, "then", l, r, r.out, r.on)

\* A branch of a bundle: its operations over x, in a row.
RECURSIVE Branch(_, _, _, _)
Branch(b, kinds, x, cells) ==
  LET n == Len(kinds)
      l == Branch(b, SubSeq(kinds, 1, n - 1), x, cells)
  IN IF n = 1 THEN Leaf(b, <<kinds[1], <<x>>>>, cells)
     ELSE Chain(b, l, Leaf(l.top, <<kinds[n], <<x>>>>, l.cells))

\* The parts that are steps i..j.
RECURSIVE Segments(_, _, _, _, _)
Segments(b, steps, i, j, cells) ==
  LET step == steps[j]
      left == Branch(b, step[2], "a", cells)
      right == Branch(left.top, step[3], "b", left.cells)
      one == IF step[1] = "bundle"
             THEN Over2(b, "bundle", left, right, left.out \o right.out, <<"a", "b">>)
             ELSE Leaf(b, step, cells)
  IN (IF step[1] \notin Wrappers \/ i = j THEN {}
      ELSE {Over1(b, step[1], l) : l \in Segments(b, steps, i, j - 1, cells)})
     \cup
     (IF i = j THEN IF step[1] \in Wrappers THEN {} ELSE {one}
      ELSE UNION {UNION {{Chain(b, l, r) : r \in Segments(l.top, steps, k + 1, j, l.cells)} :
                         l \in Segments(b, steps, i, k, cells)} : k \in i..(j - 1)})

Build(steps) == {p.nodes : p \in Segments(0, steps, 1, Len(steps), [x \in AB |-> <<"slot", x>>])}

Fill(x) == <<"fill", <<x>>>>
WriteTo(x) == <<"write", <<x>>>>
Through(x) == <<"pass", <<x>>>>
Copy == <<"copy", <<"a", "b">>>>
Host == <<"host">>
Both(l, r) == <<"bundle", l, r>>

MintTo(x) == <<"mint", <<x>>>>
UploadTo(x) == <<"upload", <<x>>>>
ReadBack(x) == <<"download", <<x>>>>
Arc == <<"arced">>
Reroute == <<"route">>
Profile == <<"profiled">>
IsWrapper(step) == step[1] \in Wrappers

Recordable(step) ==
  CASE step[1] = "bundle" -> "write" \notin Range(step[2]) \cup Range(step[3])
    [] OTHER -> step[1] \in {"fill", "copy", "pass"}

\* The buffers step k hands on.
RECURSIVE Hands(_, _)
Hands(steps, k) ==
  CASE IsWrapper(steps[k]) -> IF k = 1 THEN {} ELSE Hands(steps, k - 1)
    [] steps[k][1] = "bundle" -> AB
    [] OTHER -> Range(steps[k][2])
Before(steps, k) == UNION {Hands(steps, i) : i \in 1..(k - 1)}

\* A wrapper wraps one buffer, which is made before it is used and not used
\* after it has been read; a cell is used as an operation only if it has been
\* filled.
Legal(steps) ==
  \A k \in DOMAIN steps :
    /\ IsWrapper(steps[k]) => k > 1
    /\ steps[k][1] \in {"arced", "route", "profiled"} => Cardinality(Hands(steps, k)) = 1
    /\ steps[k][1] \in {"mint", "upload"} => Hands(steps, k) \cap Before(steps, k) = {}
    /\ \A i \in 1..(k - 1) : steps[i][1] = "download" =>
         steps[k][1] \in Wrappers \ {"host"} \/ Hands(steps, i) \cap Hands(steps, k) = {}
    /\ steps[k][1] = "bundle" /\ "pipe" \in Range(steps[k][2]) => "a" \in Before(steps, k)

\* Bounds, on the graphs that are not one command buffer: an operation reads
\* slots and what the operation right before it hands on (Near), a value is
\* passed on only right after a command (NoBarePass), and no cell is an
\* operation (NoPipes).
Whole(steps) == \A k \in DOMAIN steps : Recordable(steps[k])
Near(steps) ==
  \A k \in 2..Len(steps) : Hands(steps, k) \cap Before(steps, k) \subseteq Hands(steps, k - 1)
NoBarePass(steps) ==
  \A k \in DOMAIN steps : steps[k][1] = "pass" => k > 1 /\ steps[k - 1][1] \in {"fill", "copy"}
NoPipes(steps) == \A k \in DOMAIN steps : steps[k][1] = "bundle" => "pipe" \notin Range(steps[k][2])
Tame(steps) ==
  Legal(steps) /\ (Whole(steps) \/ (Near(steps) /\ NoBarePass(steps) /\ NoPipes(steps)))

\* Bounds on trees: a graph that mints a buffer makes no command buffer
\* (NoBakedMint); no command buffer ends inside an Arc, where the code loses the
\* commands behind its end (OpTreeArc.cfg), or their order (NoSplitArced); and
\* nothing is discarded inside a wrapper (NoWrappedDiscard).
NoBakedMint(t) == Has(t, "mint") => Weight(t)[Root(t)] < 2
NoSplitArced(t) ==
  \A n \in DOMAIN t : t[n].k = "arced" /\ SpineHead(t)[n] => Addable(t)[n]
NoWrappedDiscard(t) ==
  \A w \in {n \in DOMAIN t : t[n].k \in Wrappers \ {"host"}} :
    \A n \in Under(t, w) : Range(t[n].on) \subseteq Range(t[w].on)
Contained(t) == NoBakedMint(t) /\ NoSplitArced(t) /\ NoWrappedDiscard(t)

Plain == {Fill("a"), Fill("b"), WriteTo("a"), Through("a"), Copy, Host}
Forked == {Fill("a"), WriteTo("a"), Copy, Host,
           Both(<<"fill">>, <<"fill">>), Both(<<"pipe">>, <<"fill", "fill">>),
           Both(<<"fill", "write">>, <<"fill", "fill">>)}
Sources == {MintTo("b"), UploadTo("b"), Fill("b"), WriteTo("b"), Fill("a"), Copy, ReadBack("b"),
            Arc, Reroute, Profile, Host}
Graphs(n, steps) ==
  {t \in UNION {Build(s) : s \in {q \in [1..n -> steps] : Tame(q)}} : Contained(t)}

TameTrees ==
  UNION {Graphs(2, steps) \cup Graphs(3, steps) : steps \in {Plain, Forked, Sources}} \cup
  Graphs(4, {Fill("a"), WriteTo("a")}) \cup Graphs(4, {Fill("a"), Host})
OneCb(t) == Addable(t)[Root(t)]

\* A fill whose handle is used after another one: fill(a), fill(b), write(a).
FarTrees == Build(<<Fill("a"), Fill("b"), WriteTo("a")>>)
\* A buffer made by alloc_zero and two kernels on it.
MintTrees == Build(<<MintTo("b"), Fill("b"), Fill("b")>>)
\* A kernel, a write and a kernel, shared as an Arc with a copy.
ArcTrees == Build(<<Fill("a"), WriteTo("a"), Fill("a"), Arc, Copy>>)
\* A profiled kernel, for OpTreeProfile.cfg.
ProfileTrees == Build(<<Fill("a"), Profile>>)
Never(t) == FALSE
=============================================================================
