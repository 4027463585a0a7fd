--------------------------- MODULE OpTree_proofs ---------------------------
(***************************************************************************)
(* A sync of any graph leaves it ready to run again, whatever fails in it; *)
(* if it succeeds, it has run each command once.                           *)
(*                                                                         *)
(* The walk is a fold over the operations, each of which asks its kids to  *)
(* execute or to gather.  So the proof is by induction over the graph, of  *)
(* a contract that each operation keeps if its kids do (Obeys): no slot is *)
(* emptied that the operation does not read; what it fills outside of its  *)
(* output is a cell it reclaims on failure, or holds a buffer that went by *)
(* value; and a slot that was full, or had its value in a cell, still has  *)
(* it in the slot, in a cell or in what is handed on.  Reclaiming what was *)
(* not delivered and dropping the output then fill every slot again.       *)
(*                                                                         *)
(* The order: graphs, their cells and their spans; the steps that move no  *)
(* value; the contract; the leaves; pairs; wrappers; boundaries; the walk  *)
(* of a whole graph; the invariant and the theorem.                        *)
(*                                                                         *)
(* Then the tally of one command m in the log: what a walk enqueues and    *)
(* what it records in a frame, by the same induction (Tallies); the frames *)
(* that close early, are sealed, or are replayed; the other theorem.       *)
(***************************************************************************)
EXTENDS OpTreeContracts, FiniteSetTheorems, WellFoundedInduction, SequenceTheorems, TLAPS

-----------------------------------------------------------------------------
(* Induction over the nodes of a graph                                     *)

\* A nonempty set of numbers has a least one.
LEMMA LeastOf ==
  ASSUME NEW T \in SUBSET Nat, T # {}
  PROVE  \E n \in T : \A m \in T : n <= m
<1>1. PICK n \in T : \A m \in T : <<m, n>> \notin OpToRel(<, Nat)
  BY NatLessThanWellFounded, WFMin
<1>2. \A m \in T : ~ (m < n)
  BY <1>1 DEF OpToRel
<1> QED  BY <1>2

\* What is true of a number if it is true of those below, is true of all.
LEMMA FromBelow ==
  ASSUME NEW N \in Nat, NEW T, \A n \in 1..N : (\A k \in 1..(n - 1) : k \in T) => n \in T
  PROVE  \A n \in 1..N : n \in T
<1> DEFINE Bad == {n \in 1..N : n \notin T}
<1>1. SUFFICES ASSUME Bad # {} PROVE FALSE
  OBVIOUS
<1>2. Bad \in SUBSET Nat
  OBVIOUS
<1>3. PICK n \in Bad : \A m \in Bad : n <= m
  <2> HIDE DEF Bad
  <2> QED  BY <1>1, <1>2, LeastOf
<1>4. \A k \in 1..(n - 1) : k \in T
  <2> SUFFICES ASSUME NEW k \in 1..(n - 1), k \notin T PROVE FALSE
    OBVIOUS
  <2>1. k \in Bad /\ k < n
    OBVIOUS
  <2> QED  BY <2>1, <1>3
<1> QED  BY <1>4

\* Steps of one lead from 0 to any number.
LEMMA Climb ==
  ASSUME NEW N \in Nat, NEW T, 0 \in T, \A m \in 1..N : m - 1 \in T => m \in T
  PROVE  N \in T
<1> DEFINE B == {m \in 0..N : m \notin T}
<1>1. SUFFICES ASSUME B # {} PROVE FALSE
  OBVIOUS
<1>2. B \in SUBSET Nat
  OBVIOUS
<1>3. PICK m \in B : \A k \in B : m <= k
  <2> HIDE DEF B
  <2> QED  BY <1>1, <1>2, LeastOf
<1>4. m # 0 /\ m \in 1..N /\ m - 1 \in 0..N /\ m \notin T
  BY <1>3
<1>5. m - 1 \in B
  BY <1>4
<1> HIDE DEF B
<1> QED  BY <1>3, <1>4, <1>5

-----------------------------------------------------------------------------
(* The shape of a graph                                                    *)

\* The first node under a node.
LEMMA FirstIs ==
  ASSUME NEW t, Graph(t)
  PROVE  First(t) = [n \in DOMAIN t |->
             IF t[n].kids = <<>> THEN n ELSE First(t)[t[n].kids[1]]]
<1> DEFINE N == Len(t)
           Body(n, f) ==
             IF t[n].kids = <<>> THEN n ELSE f[t[n].kids[1]]
           Upto(m, f) == f = [n \in 1..m |-> Body(n, f)]
           T == {m \in 0..N : \E f : Upto(m, f)}
<1>0. N \in Nat /\ DOMAIN t = 1..N /\ \A n \in 1..N : Kids(t, n) \subseteq 1..(n - 1)
  BY DEF Graph, Shaped
<1>1. ASSUME NEW n \in 1..N, NEW f, NEW h, \A k \in 1..(n - 1) : f[k] = h[k]
      PROVE  Body(n, f) = Body(n, h)
  <2>0. t[n] \in Nodes
    BY <1>0 DEF Graph
  <2>1. t[n].kids \in Seq(Nat)
    BY <2>0 DEF Nodes
  <2>2. CASE t[n].kids = <<>>
    BY <2>2
  <2>3. CASE t[n].kids # <<>>
    <3>1. 1 \in DOMAIN t[n].kids
      BY <2>1, <2>3
    <3>2. t[n].kids[1] \in 1..(n - 1)
      BY <3>1, <1>0 DEF Kids, Range
    <3> QED  BY <3>2, <1>1
  <2> QED  BY <2>2, <2>3
<1> HIDE DEF Body
<1>2. 0 \in T
  <2>1. Upto(0, [n \in 1..0 |-> 0])
    OBVIOUS
  <2>2. \E f : Upto(0, f)
    BY <2>1
  <2> HIDE DEF Upto
  <2> QED  BY <1>0, <2>2
<1>3. ASSUME NEW m \in 1..N, m - 1 \in T PROVE m \in T
  <2>1. PICK f : Upto(m - 1, f)
    BY <1>3
  <2> DEFINE h == [n \in 1..m |-> IF n = m THEN Body(m, f) ELSE f[n]]
  <2>2. m \in Nat /\ m >= 1 /\ \A n \in 1..m : n # m => n \in 1..(m - 1)
    BY <1>0
  <2>3. \A k \in 1..(m - 1) : h[k] = f[k] /\ f[k] = Body(k, f)
    BY <2>1, <2>2
  <2>4. ASSUME NEW n \in 1..m PROVE h[n] = Body(n, h)
    <3>1. n \in 1..N /\ \A k \in 1..(n - 1) : f[k] = h[k]
      BY <2>2, <2>3, <1>0
    <3>2. Body(n, f) = Body(n, h)
      BY <3>1, <1>1
    <3>3. h[n] = Body(n, f)
      <4> HIDE DEF Upto
      <4> QED  BY <2>2, <2>3
    <3> QED  BY <3>2, <3>3
  <2>5. h = [n \in 1..m |-> h[n]]
    OBVIOUS
  <2> HIDE DEF h
  <2>6. Upto(m, h)
    BY <2>4, <2>5
  <2>7. m \in 0..N /\ \E g : Upto(m, g)
    BY <2>6, <1>0
  <2> HIDE DEF Upto
  <2> QED  BY <2>7
<1>4. N \in T
  <2> HIDE DEF T
  <2> QED  BY <1>0, <1>2, <1>3, Climb
<1>5. \E f : f = [n \in DOMAIN t |-> Body(n, f)]
  <2>1. PICK f : Upto(N, f)
    BY <1>4
  <2> QED  BY <2>1, <1>0
<1>6. First(t) = CHOOSE first : first = [n \in DOMAIN t |-> Body(n, first)]
  BY DEF First, Body
<1>7. First(t) = [n \in DOMAIN t |-> Body(n, First(t))]
  BY <1>5, <1>6
<1> QED  BY <1>7 DEF Body

\* The kids of a node of a graph.
LEMMA NodesOf ==
  ASSUME NEW t, Graph(t), NEW n \in DOMAIN t
  PROVE  /\ Len(t) \in Nat /\ Len(t) > 0 /\ DOMAIN t = 1..Len(t) /\ t[n] \in Nodes
         /\ t[n].k \in Leaves \/ t[n].k \in Wrappers \/ t[n].k \in {"then", "bundle"}
         /\ t[n].k \in Leaves => t[n].kids = <<>>
         /\ t[n].k \in Wrappers => /\ t[n].kids = <<n - 1>> /\ n - 1 \in 1..(n - 1) /\ n - 1 \in DOMAIN t
                                   /\ Source(t, n) = n - 1
         /\ t[n].k \in {"then", "bundle"} =>
              /\ t[n].kids = <<First(t)[n - 1] - 1, n - 1>>
              /\ Source(t, n) = First(t)[n - 1] - 1 /\ Follow(t, n) = n - 1
              /\ Source(t, n) \in 1..(n - 1) /\ Follow(t, n) \in 1..(n - 1)
              /\ Source(t, n) \in DOMAIN t /\ Follow(t, n) \in DOMAIN t
<1>1. t \in Seq(Nodes) /\ t # <<>> /\ Shaped(t, n)
  BY DEF Graph
<1>2. Len(t) \in Nat /\ Len(t) > 0 /\ DOMAIN t = 1..Len(t) /\ t[n] \in Nodes
  BY <1>1
<1>3. t[n].k \in Leaves => t[n].kids = <<>>
  BY <1>1 DEF Shaped
<1>4. ASSUME t[n].k \in Wrappers
      PROVE  /\ t[n].kids = <<n - 1>> /\ n - 1 \in 1..(n - 1) /\ n - 1 \in DOMAIN t
             /\ Source(t, n) = n - 1
  <2>2. t[n].kids = <<n - 1>>
    BY <1>1, <1>4 DEF Shaped
  <2>3. n - 1 \in Kids(t, n)
    BY <2>2 DEF Kids, Range
  <2>4. n - 1 \in 1..(n - 1)
    BY <2>3, <1>1 DEF Shaped
  <2> QED  BY <2>2, <2>4, <1>2 DEF Source
<1>5. ASSUME t[n].k \in {"then", "bundle"}
      PROVE  /\ t[n].kids = <<First(t)[n - 1] - 1, n - 1>>
             /\ Source(t, n) = First(t)[n - 1] - 1 /\ Follow(t, n) = n - 1
             /\ Source(t, n) \in 1..(n - 1) /\ Follow(t, n) \in 1..(n - 1)
             /\ Source(t, n) \in DOMAIN t /\ Follow(t, n) \in DOMAIN t
  <2>2. t[n].kids = <<First(t)[n - 1] - 1, n - 1>>
    BY <1>1, <1>5 DEF Shaped
  <2>3. Source(t, n) = First(t)[n - 1] - 1 /\ Follow(t, n) = n - 1
    BY <2>2 DEF Source, Follow
  <2>4. Source(t, n) \in Kids(t, n) /\ Follow(t, n) \in Kids(t, n)
    BY <2>2 DEF Source, Follow, Kids, Range
  <2>5. Source(t, n) \in 1..(n - 1) /\ Follow(t, n) \in 1..(n - 1)
    BY <2>4, <1>1 DEF Shaped
  <2> QED  BY <2>2, <2>3, <2>5, <1>2
<1>6. t[n].k \in Leaves \/ t[n].k \in Wrappers \/ t[n].k \in {"then", "bundle"}
  BY <1>2 DEF Nodes
<1> QED  BY <1>2, <1>3, <1>4, <1>5, <1>6

\* The cells of a handle, from those of the kids.
LEMMA OutCellsIs ==
  ASSUME NEW t, Graph(t)
  PROVE  OutCells(t) = [n \in DOMAIN t |->
             IF t[n].k \in Leaves THEN Outlets(t, n)
             ELSE IF t[n].k \in Wrappers THEN Own(t, n)
             ELSE IF t[n].k = "then" THEN OutCells(t)[t[n].kids[2]]
             ELSE OutCells(t)[t[n].kids[1]] \o OutCells(t)[t[n].kids[2]]]
<1> DEFINE N == Len(t)
           Body(n, f) ==
             IF t[n].k \in Leaves THEN Outlets(t, n)
             ELSE IF t[n].k \in Wrappers THEN Own(t, n)
             ELSE IF t[n].k = "then" THEN f[t[n].kids[2]]
             ELSE f[t[n].kids[1]] \o f[t[n].kids[2]]
           Upto(m, f) == f = [n \in 1..m |-> Body(n, f)]
           T == {m \in 0..N : \E f : Upto(m, f)}
<1>0. N \in Nat /\ DOMAIN t = 1..N /\ \A n \in 1..N : Kids(t, n) \subseteq 1..(n - 1)
  BY DEF Graph, Shaped
<1>1. ASSUME NEW n \in 1..N, NEW f, NEW h, \A k \in 1..(n - 1) : f[k] = h[k]
      PROVE  Body(n, f) = Body(n, h)
  <2>0. n \in DOMAIN t
    BY <1>0
  <2>1. CASE t[n].k \in Leaves
    BY <2>1 DEF Leaves, Wrappers
  <2>2. CASE t[n].k \in Wrappers
    <3>1. t[n].kids[1] \in 1..(n - 1)
      BY <2>0, <2>2, NodesOf
    <3> QED  BY <3>1, <2>2, <1>1 DEF Leaves, Wrappers
  <2>3. CASE t[n].k \in {"then", "bundle"}
    <3>1. t[n].kids[1] \in 1..(n - 1) /\ t[n].kids[2] \in 1..(n - 1)
      BY <2>0, <2>3, NodesOf
    <3>2. f[t[n].kids[1]] = h[t[n].kids[1]] /\ f[t[n].kids[2]] = h[t[n].kids[2]]
      BY <3>1, <1>1
    <3>3. t[n].k \notin Leaves /\ t[n].k \notin Wrappers
      BY <2>3 DEF Leaves, Wrappers
    <3>4. CASE t[n].k = "then"
      BY <3>2, <3>3, <3>4
    <3>5. CASE t[n].k = "bundle"
      BY <3>2, <3>3, <3>5
    <3> QED  BY <2>3, <3>4, <3>5
  <2>4. t[n].k \in Leaves \/ t[n].k \in Wrappers \/ t[n].k \in {"then", "bundle"}
    BY <2>0, NodesOf
  <2> HIDE DEF Body
  <2> QED  BY <2>1, <2>2, <2>3, <2>4
<1> HIDE DEF Body
<1>2. 0 \in T
  <2>1. Upto(0, [n \in 1..0 |-> 0])
    OBVIOUS
  <2>2. \E f : Upto(0, f)
    BY <2>1
  <2> HIDE DEF Upto
  <2> QED  BY <1>0, <2>2
<1>3. ASSUME NEW m \in 1..N, m - 1 \in T PROVE m \in T
  <2>1. PICK f : Upto(m - 1, f)
    BY <1>3
  <2> DEFINE h == [n \in 1..m |-> IF n = m THEN Body(m, f) ELSE f[n]]
  <2>2. m \in Nat /\ m >= 1 /\ \A n \in 1..m : n # m => n \in 1..(m - 1)
    BY <1>0
  <2>3. \A k \in 1..(m - 1) : h[k] = f[k] /\ f[k] = Body(k, f)
    BY <2>1, <2>2
  <2>4. ASSUME NEW n \in 1..m PROVE h[n] = Body(n, h)
    <3>1. n \in 1..N /\ \A k \in 1..(n - 1) : f[k] = h[k]
      BY <2>2, <2>3, <1>0
    <3>2. Body(n, f) = Body(n, h)
      BY <3>1, <1>1
    <3>3. h[n] = Body(n, f)
      <4> HIDE DEF Upto
      <4> QED  BY <2>2, <2>3
    <3> QED  BY <3>2, <3>3
  <2>5. h = [n \in 1..m |-> h[n]]
    OBVIOUS
  <2> HIDE DEF h
  <2>6. Upto(m, h)
    BY <2>4, <2>5
  <2>7. m \in 0..N /\ \E g : Upto(m, g)
    BY <2>6, <1>0
  <2> HIDE DEF Upto
  <2> QED  BY <2>7
<1>4. N \in T
  <2> HIDE DEF T
  <2> QED  BY <1>0, <1>2, <1>3, Climb
<1>5. \E f : f = [n \in DOMAIN t |-> Body(n, f)]
  <2>1. PICK f : Upto(N, f)
    BY <1>4
  <2> QED  BY <2>1, <1>0
<1>6. OutCells(t) = CHOOSE g : g = [n \in DOMAIN t |-> Body(n, g)]
  BY DEF OutCells, Body
<1>7. OutCells(t) = [n \in DOMAIN t |-> Body(n, OutCells(t))]
  BY <1>5, <1>6
<1> QED  BY <1>7 DEF Body

\* What a node takes and leaves, from what its kids do.
LEMMA FlowIs ==
  ASSUME NEW t, Graph(t)
  PROVE  Flow(t) = [n \in DOMAIN t |->
             IF t[n].k \in Leaves THEN [uses |-> Inlets(t, n), gives |-> Range(Outlets(t, n))]
             ELSE IF t[n].k \in Wrappers
             THEN [uses |-> Flow(t)[t[n].kids[1]].uses,
                   gives |-> (Flow(t)[t[n].kids[1]].gives \ Range(OutCells(t)[t[n].kids[1]]))
                             \cup Range(Own(t, n))]
             ELSE [uses |-> Flow(t)[t[n].kids[1]].uses
                            \cup (Flow(t)[t[n].kids[2]].uses \ AsInputs(Flow(t)[t[n].kids[1]].gives)),
                   gives |-> {c \in Flow(t)[t[n].kids[1]].gives : <<"cell", c>> \notin Flow(t)[t[n].kids[2]].uses}
                             \cup Flow(t)[t[n].kids[2]].gives]]
<1> DEFINE N == Len(t)
           Body(n, f) ==
             IF t[n].k \in Leaves THEN [uses |-> Inlets(t, n), gives |-> Range(Outlets(t, n))]
             ELSE IF t[n].k \in Wrappers
             THEN [uses |-> f[t[n].kids[1]].uses,
                   gives |-> (f[t[n].kids[1]].gives \ Range(OutCells(t)[t[n].kids[1]]))
                             \cup Range(Own(t, n))]
             ELSE [uses |-> f[t[n].kids[1]].uses
                            \cup (f[t[n].kids[2]].uses \ AsInputs(f[t[n].kids[1]].gives)),
                   gives |-> {c \in f[t[n].kids[1]].gives : <<"cell", c>> \notin f[t[n].kids[2]].uses}
                             \cup f[t[n].kids[2]].gives]
           Upto(m, f) == f = [n \in 1..m |-> Body(n, f)]
           T == {m \in 0..N : \E f : Upto(m, f)}
<1>0. N \in Nat /\ DOMAIN t = 1..N /\ \A n \in 1..N : Kids(t, n) \subseteq 1..(n - 1)
  BY DEF Graph, Shaped
<1>1. ASSUME NEW n \in 1..N, NEW f, NEW h, \A k \in 1..(n - 1) : f[k] = h[k]
      PROVE  Body(n, f) = Body(n, h)
  <2>0. n \in DOMAIN t
    BY <1>0
  <2>1. CASE t[n].k \in Leaves
    BY <2>1 DEF Leaves, Wrappers
  <2>2. CASE t[n].k \in Wrappers
    <3>1. t[n].kids[1] \in 1..(n - 1)
      BY <2>0, <2>2, NodesOf
    <3> QED  BY <3>1, <2>2, <1>1 DEF Leaves, Wrappers
  <2>3. CASE t[n].k \in {"then", "bundle"}
    <3>1. t[n].kids[1] \in 1..(n - 1) /\ t[n].kids[2] \in 1..(n - 1)
      BY <2>0, <2>3, NodesOf
    <3>2. f[t[n].kids[1]] = h[t[n].kids[1]] /\ f[t[n].kids[2]] = h[t[n].kids[2]]
      BY <3>1, <1>1
    <3>3. t[n].k \notin Leaves /\ t[n].k \notin Wrappers
      BY <2>3 DEF Leaves, Wrappers
    <3>4. CASE t[n].k = "then"
      BY <3>2, <3>3, <3>4
    <3>5. CASE t[n].k = "bundle"
      BY <3>2, <3>3, <3>5
    <3> QED  BY <2>3, <3>4, <3>5
  <2>4. t[n].k \in Leaves \/ t[n].k \in Wrappers \/ t[n].k \in {"then", "bundle"}
    BY <2>0, NodesOf
  <2> HIDE DEF Body
  <2> QED  BY <2>1, <2>2, <2>3, <2>4
<1> HIDE DEF Body
<1>2. 0 \in T
  <2>1. Upto(0, [n \in 1..0 |-> 0])
    OBVIOUS
  <2>2. \E f : Upto(0, f)
    BY <2>1
  <2> HIDE DEF Upto
  <2> QED  BY <1>0, <2>2
<1>3. ASSUME NEW m \in 1..N, m - 1 \in T PROVE m \in T
  <2>1. PICK f : Upto(m - 1, f)
    BY <1>3
  <2> DEFINE h == [n \in 1..m |-> IF n = m THEN Body(m, f) ELSE f[n]]
  <2>2. m \in Nat /\ m >= 1 /\ \A n \in 1..m : n # m => n \in 1..(m - 1)
    BY <1>0
  <2>3. \A k \in 1..(m - 1) : h[k] = f[k] /\ f[k] = Body(k, f)
    BY <2>1, <2>2
  <2>4. ASSUME NEW n \in 1..m PROVE h[n] = Body(n, h)
    <3>1. n \in 1..N /\ \A k \in 1..(n - 1) : f[k] = h[k]
      BY <2>2, <2>3, <1>0
    <3>2. Body(n, f) = Body(n, h)
      BY <3>1, <1>1
    <3>3. h[n] = Body(n, f)
      <4> HIDE DEF Upto
      <4> QED  BY <2>2, <2>3
    <3> QED  BY <3>2, <3>3
  <2>5. h = [n \in 1..m |-> h[n]]
    OBVIOUS
  <2> HIDE DEF h
  <2>6. Upto(m, h)
    BY <2>4, <2>5
  <2>7. m \in 0..N /\ \E g : Upto(m, g)
    BY <2>6, <1>0
  <2> HIDE DEF Upto
  <2> QED  BY <2>7
<1>4. N \in T
  <2> HIDE DEF T
  <2> QED  BY <1>0, <1>2, <1>3, Climb
<1>5. \E f : f = [n \in DOMAIN t |-> Body(n, f)]
  <2>1. PICK f : Upto(N, f)
    BY <1>4
  <2> QED  BY <2>1, <1>0
<1>6. Flow(t) = CHOOSE flow : flow = [n \in DOMAIN t |-> Body(n, flow)]
  BY DEF Flow, Body
<1>7. Flow(t) = [n \in DOMAIN t |-> Body(n, Flow(t))]
  BY <1>5, <1>6
<1> QED  BY <1>7 DEF Body

\* What is reclaimed under a node, from what is under its kids.
LEMMA UndeliveredIs ==
  ASSUME NEW t, Graph(t)
  PROVE  Undelivered(t) = [n \in DOMAIN t |->
             IF t[n].k \in {"then", "bundle"} THEN Undelivered(t)[t[n].kids[1]] \cup Undelivered(t)[t[n].kids[2]]
             ELSE IF t[n].k = "host" THEN Range(Own(t, n)) \cup Undelivered(t)[t[n].kids[1]]
             ELSE Range(OutCells(t)[n])]
<1> DEFINE N == Len(t)
           Body(n, f) ==
             IF t[n].k \in {"then", "bundle"} THEN f[t[n].kids[1]] \cup f[t[n].kids[2]]
             ELSE IF t[n].k = "host" THEN Range(Own(t, n)) \cup f[t[n].kids[1]]
             ELSE Range(OutCells(t)[n])
           Upto(m, f) == f = [n \in 1..m |-> Body(n, f)]
           T == {m \in 0..N : \E f : Upto(m, f)}
<1>0. N \in Nat /\ DOMAIN t = 1..N /\ \A n \in 1..N : Kids(t, n) \subseteq 1..(n - 1)
  BY DEF Graph, Shaped
<1>1. ASSUME NEW n \in 1..N, NEW f, NEW h, \A k \in 1..(n - 1) : f[k] = h[k]
      PROVE  Body(n, f) = Body(n, h)
  <2>0. n \in DOMAIN t
    BY <1>0
  <2>1. CASE t[n].k \in Leaves
    BY <2>1 DEF Leaves, Wrappers, Source
  <2>2. CASE t[n].k \in Wrappers
    <3>1. t[n].kids[1] \in 1..(n - 1)
      BY <2>0, <2>2, NodesOf
    <3>2. f[t[n].kids[1]] = h[t[n].kids[1]]
      BY <3>1, <1>1
    <3>3. CASE t[n].k = "host"
      BY <3>2, <3>3 DEF Leaves, Source
    <3>4. CASE t[n].k \in {"arced", "route", "profiled"}
      BY <3>4
    <3> QED  BY <2>2, <3>3, <3>4 DEF Wrappers
  <2>3. CASE t[n].k \in {"then", "bundle"}
    <3>1. t[n].kids[1] \in 1..(n - 1) /\ t[n].kids[2] \in 1..(n - 1)
      BY <2>0, <2>3, NodesOf
    <3>2. f[t[n].kids[1]] = h[t[n].kids[1]] /\ f[t[n].kids[2]] = h[t[n].kids[2]]
      BY <3>1, <1>1
    <3>3. t[n].k \notin Leaves /\ t[n].k \notin Wrappers
      BY <2>3 DEF Leaves, Wrappers
    <3>4. CASE t[n].k = "then"
      BY <3>2, <3>3, <3>4
    <3>5. CASE t[n].k = "bundle"
      BY <3>2, <3>3, <3>5
    <3> QED  BY <2>3, <3>4, <3>5
  <2>4. t[n].k \in Leaves \/ t[n].k \in Wrappers \/ t[n].k \in {"then", "bundle"}
    BY <2>0, NodesOf
  <2> HIDE DEF Body
  <2> QED  BY <2>1, <2>2, <2>3, <2>4
<1> HIDE DEF Body
<1>2. 0 \in T
  <2>1. Upto(0, [n \in 1..0 |-> 0])
    OBVIOUS
  <2>2. \E f : Upto(0, f)
    BY <2>1
  <2> HIDE DEF Upto
  <2> QED  BY <1>0, <2>2
<1>3. ASSUME NEW m \in 1..N, m - 1 \in T PROVE m \in T
  <2>1. PICK f : Upto(m - 1, f)
    BY <1>3
  <2> DEFINE h == [n \in 1..m |-> IF n = m THEN Body(m, f) ELSE f[n]]
  <2>2. m \in Nat /\ m >= 1 /\ \A n \in 1..m : n # m => n \in 1..(m - 1)
    BY <1>0
  <2>3. \A k \in 1..(m - 1) : h[k] = f[k] /\ f[k] = Body(k, f)
    BY <2>1, <2>2
  <2>4. ASSUME NEW n \in 1..m PROVE h[n] = Body(n, h)
    <3>1. n \in 1..N /\ \A k \in 1..(n - 1) : f[k] = h[k]
      BY <2>2, <2>3, <1>0
    <3>2. Body(n, f) = Body(n, h)
      BY <3>1, <1>1
    <3>3. h[n] = Body(n, f)
      <4> HIDE DEF Upto
      <4> QED  BY <2>2, <2>3
    <3> QED  BY <3>2, <3>3
  <2>5. h = [n \in 1..m |-> h[n]]
    OBVIOUS
  <2> HIDE DEF h
  <2>6. Upto(m, h)
    BY <2>4, <2>5
  <2>7. m \in 0..N /\ \E g : Upto(m, g)
    BY <2>6, <1>0
  <2> HIDE DEF Upto
  <2> QED  BY <2>7
<1>4. N \in T
  <2> HIDE DEF T
  <2> QED  BY <1>0, <1>2, <1>3, Climb
<1>5. \E f : f = [n \in DOMAIN t |-> Body(n, f)]
  <2>1. PICK f : Upto(N, f)
    BY <1>4
  <2> QED  BY <2>1, <1>0
<1>6. Undelivered(t) = CHOOSE und : und = [n \in DOMAIN t |-> Body(n, und)]
  BY DEF Undelivered, Body
<1>7. Undelivered(t) = [n \in DOMAIN t |-> Body(n, Undelivered(t))]
  BY <1>5, <1>6
<1> QED  BY <1>7 DEF Body

\* The nodes under a node come in one stretch, and those under its kids are apart.
LEMMA UnderOf ==
  ASSUME NEW t, Graph(t), NEW n \in DOMAIN t
  PROVE  /\ First(t)[n] \in 1..n /\ n \in Under(t, n) /\ Under(t, n) \subseteq DOMAIN t
         /\ t[n].k \in Leaves => Under(t, n) = {n}
         /\ t[n].k \in Wrappers => /\ Under(t, n) = Under(t, Source(t, n)) \cup {n}
                                   /\ n \notin Under(t, Source(t, n))
         /\ t[n].k \in {"then", "bundle"} =>
              /\ Under(t, n) = Under(t, Source(t, n)) \cup Under(t, Follow(t, n)) \cup {n}
              /\ Under(t, Source(t, n)) \cap Under(t, Follow(t, n)) = {}
              /\ n \notin Under(t, Source(t, n)) /\ n \notin Under(t, Follow(t, n))
<1> DEFINE N == Len(t)
           T == {m \in 1..N : First(t)[m] \in 1..m}
           At(m) == IF t[m].kids = <<>> THEN m ELSE First(t)[t[m].kids[1]]
<1>0. N \in Nat /\ DOMAIN t = 1..N
  BY NodesOf
<1>1. \A m \in 1..N : First(t)[m] = At(m)
  <2>1. First(t) = [m \in DOMAIN t |-> At(m)]
    BY FirstIs
  <2> HIDE DEF At
  <2> QED  BY <2>1, <1>0
<1>2. ASSUME NEW m \in 1..N, t[m].k \in Leaves
      PROVE  First(t)[m] = m
  BY <1>0, <1>1, <1>2, NodesOf
<1>3. ASSUME NEW m \in 1..N, t[m].k \in Wrappers
      PROVE  First(t)[m] = First(t)[m - 1] /\ m - 1 \in 1..N
  <2>1. t[m].kids = <<m - 1>> /\ m - 1 \in 1..N
    BY <1>0, <1>3, NodesOf
  <2>2. t[m].kids # <<>> /\ (t[m].kids)[1] = m - 1
    BY <2>1
  <2>3. At(m) = First(t)[m - 1]
    BY <2>2
  <2> QED  BY <1>1, <2>1, <2>3
<1>4. ASSUME NEW m \in 1..N, t[m].k \in {"then", "bundle"}
      PROVE  /\ First(t)[m] = First(t)[Source(t, m)] /\ Source(t, m) \in 1..(m - 1) /\ m - 1 \in 1..N
             /\ Source(t, m) = First(t)[m - 1] - 1
  <2>1. /\ t[m].kids = <<First(t)[m - 1] - 1, m - 1>> /\ Source(t, m) = First(t)[m - 1] - 1
        /\ Source(t, m) \in 1..(m - 1) /\ m - 1 \in 1..N
    BY <1>0, <1>4, NodesOf
  <2>2. t[m].kids # <<>> /\ t[m].kids[1] = Source(t, m)
    BY <2>1
  <2> QED  BY <1>1, <2>1, <2>2
<1>5. \A m \in 1..N : m \in T
  <2>1. ASSUME NEW m \in 1..N, \A k \in 1..(m - 1) : k \in T
        PROVE  m \in T
    <3>1. CASE t[m].k \in Leaves
      BY <1>2, <3>1
    <3>2. CASE t[m].k \in Wrappers
      <4>1. First(t)[m] = First(t)[m - 1] /\ m - 1 \in 1..(m - 1)
        BY <1>0, <1>3, <3>2
      <4>2. m - 1 \in T
        BY <4>1, <2>1
      <4> QED  BY <4>1, <4>2, <1>0
    <3>3. CASE t[m].k \in {"then", "bundle"}
      <4>1. First(t)[m] = First(t)[Source(t, m)] /\ Source(t, m) \in 1..(m - 1)
        BY <1>4, <3>3
      <4>2. Source(t, m) \in T
        BY <4>1, <2>1
      <4> QED  BY <4>1, <4>2, <1>0
    <3> QED  BY <1>0, <3>1, <3>2, <3>3, NodesOf
  <2> HIDE DEF T
  <2> QED  BY <1>0, <2>1, FromBelow
<1>6. First(t)[n] \in 1..n /\ n \in 1..N
  BY <1>0, <1>5
<1>7. ASSUME t[n].k \in Wrappers
      PROVE  Under(t, n) = Under(t, Source(t, n)) \cup {n} /\ n \notin Under(t, Source(t, n))
  <2>1. First(t)[n] = First(t)[n - 1] /\ n - 1 \in 1..N /\ Source(t, n) = n - 1
    BY <1>0, <1>3, <1>7, NodesOf
  <2>2. First(t)[n - 1] \in 1..(n - 1)
    BY <1>5, <2>1
  <2> QED  BY <1>6, <2>1, <2>2 DEF Under
<1>8. ASSUME t[n].k \in {"then", "bundle"}
      PROVE  /\ Under(t, n) = Under(t, Source(t, n)) \cup Under(t, Follow(t, n)) \cup {n}
             /\ Under(t, Source(t, n)) \cap Under(t, Follow(t, n)) = {}
             /\ n \notin Under(t, Source(t, n)) /\ n \notin Under(t, Follow(t, n))
  <2>1. /\ First(t)[n] = First(t)[Source(t, n)] /\ Source(t, n) \in 1..N /\ n - 1 \in 1..N
        /\ Source(t, n) = First(t)[n - 1] - 1 /\ Follow(t, n) = n - 1
    BY <1>0, <1>4, <1>6, <1>8, NodesOf
  <2>2. First(t)[n - 1] \in 1..(n - 1) /\ First(t)[Source(t, n)] \in 1..Source(t, n)
    BY <1>5, <2>1
  <2> QED  BY <1>6, <2>1, <2>2 DEF Under
<1>9. t[n].k \in Leaves => Under(t, n) = {n}
  BY <1>2, <1>6 DEF Under
<1> QED  BY <1>0, <1>6, <1>7, <1>8, <1>9 DEF Under

-----------------------------------------------------------------------------
(* What a node takes and leaves                                            *)

\* A cell is a node and a port of it.
LEMMA CellsOf ==
  ASSUME NEW t, Graph(t)
  PROVE  /\ \A c \in Cells(t) : /\ c[1] \in DOMAIN t /\ c[2] \in DOMAIN t[c[1]].on
                                /\ c = <<c[1], c[2]>> /\ Letter(t, c) \in Slots
         /\ \A n \in DOMAIN t : \A p \in DOMAIN t[n].on : <<n, p>> \in Cells(t)
<1>1. ASSUME NEW c \in Cells(t)
      PROVE  /\ c[1] \in DOMAIN t /\ c[2] \in DOMAIN t[c[1]].on
             /\ c = <<c[1], c[2]>> /\ Letter(t, c) \in Slots
  <2>1. PICK n \in DOMAIN t : c \in {n} \X DOMAIN t[n].on
    BY <1>1 DEF Cells
  <2>2. c[1] = n /\ c[2] \in DOMAIN t[n].on /\ c = <<c[1], c[2]>>
    BY <2>1
  <2>3. t[n].on \in Seq(Slots)
    BY NodesOf DEF Nodes
  <2> QED  BY <2>2, <2>3 DEF Letter
<1>2. ASSUME NEW n \in DOMAIN t, NEW p \in DOMAIN t[n].on
      PROVE  <<n, p>> \in Cells(t)
  BY DEF Cells
<1> QED  BY <1>1, <1>2

\* The cells of a node's handle, in order.
LEMMA OwnOf ==
  ASSUME NEW t, Graph(t), NEW n \in DOMAIN t
  PROVE  /\ t[n].on \in Seq(Slots) /\ Len(t[n].on) \in Nat /\ DOMAIN t[n].on = 1..Len(t[n].on)
         /\ Own(t, n) \in Seq(Cells(t)) /\ Len(Own(t, n)) = Len(t[n].on)
         /\ \A p \in 1..Len(t[n].on) : Own(t, n)[p] = <<n, p>> /\ Letter(t, <<n, p>>) = t[n].on[p]
         /\ Range(Own(t, n)) = OwnCells(t, n)
<1>1. t[n].on \in Seq(Slots) /\ Len(t[n].on) \in Nat /\ DOMAIN t[n].on = 1..Len(t[n].on)
  BY NodesOf DEF Nodes
<1>2. Own(t, n) = [p \in 1..Len(t[n].on) |-> <<n, p>>]
  BY <1>1 DEF Own
<1>3. \A p \in 1..Len(t[n].on) : <<n, p>> \in Cells(t)
  BY <1>1, CellsOf
<1>4. Own(t, n) \in Seq(Cells(t)) /\ Len(Own(t, n)) = Len(t[n].on)
  BY <1>1, <1>2, <1>3
<1>5. Range(Own(t, n)) \subseteq OwnCells(t, n)
  BY <1>2, <1>3 DEF Range, OwnCells
<1>6. ASSUME NEW c \in OwnCells(t, n) PROVE c \in Range(Own(t, n))
  <2>1. c[2] \in 1..Len(t[n].on) /\ c = <<n, c[2]>>
    BY <1>1, CellsOf DEF OwnCells
  <2>2. Own(t, n)[c[2]] = c /\ c[2] \in DOMAIN Own(t, n)
    BY <1>2, <2>1
  <2> QED  BY <2>2 DEF Range
<1>7. \A p \in 1..Len(t[n].on) : Own(t, n)[p] = <<n, p>> /\ Letter(t, <<n, p>>) = t[n].on[p]
  BY <1>2 DEF Letter
<1> QED  BY <1>1, <1>4, <1>5, <1>6, <1>7

\* The inputs of a leaf.
LEMMA InletsOf ==
  ASSUME NEW t, Graph(t), NEW n \in DOMAIN t, t[n].k \in Leaves
  PROVE  /\ Inlets(t, n) \subseteq ({"slot"} \X Slots) \cup ({"cell"} \X Cells(t))
         /\ t[n].k = "pipe" => t[n].in[1][2] \in Cells(t) /\ t[n].in = <<<<"cell", t[n].in[1][2]>>>>
         /\ t[n].k \in {"mint", "upload"} => t[n].in = <<>> /\ Len(t[n].on) = 1
         /\ t[n].k \notin {"mint", "upload"} =>
              /\ t[n].in \in Seq(Inputs) /\ Len(t[n].in) = Len(t[n].on) /\ Inlets(t, n) = Range(t[n].in)
              /\ \A i \in 1..Len(t[n].on) :
                   \/ t[n].in[i] = <<"slot", t[n].on[i]>>
                   \/ /\ t[n].in[i] = <<"cell", t[n].in[i][2]>> /\ t[n].in[i][2] \in Cells(t)
                      /\ Letter(t, t[n].in[i][2]) = t[n].on[i]
<1>0. Wired(t, n) /\ t[n].in \in Seq(Inputs)
  BY NodesOf DEF Graph, Nodes
<1>1. CASE t[n].k \in {"mint", "upload"}
  <2>1. t[n].in = <<>> /\ Len(t[n].on) = 1
    BY <1>0, <1>1 DEF Wired
  <2>2. t[n].on[1] \in Slots
    BY <2>1, OwnOf
  <2> QED  BY <1>1, <2>1, <2>2 DEF Inlets
<1>2. CASE t[n].k \notin {"mint", "upload"}
  <2>1. /\ Len(t[n].in) = Len(t[n].on) /\ \A i \in DOMAIN t[n].in : Fits(t, n, i)
        /\ t[n].k = "pipe" => Len(t[n].in) = 1 /\ t[n].in[1][1] = "cell"
    BY <1>0, <1>2 DEF Wired
  <2>2. Inlets(t, n) = Range(t[n].in)
    BY <1>2 DEF Inlets
  <2>3. ASSUME NEW i \in 1..Len(t[n].on)
        PROVE  \/ t[n].in[i] = <<"slot", t[n].on[i]>>
               \/ /\ t[n].in[i] = <<"cell", t[n].in[i][2]>> /\ t[n].in[i][2] \in Cells(t)
                  /\ Letter(t, t[n].in[i][2]) = t[n].on[i]
    <3>1. t[n].in[i] \in Inputs /\ Fits(t, n, i)
      BY <1>0, <2>1
    <3>2. CASE t[n].in[i][1] = "slot"
      BY <3>1, <3>2 DEF Fits, Inputs
    <3>3. CASE t[n].in[i][1] = "cell"
      BY <3>1, <3>3 DEF Fits, Inputs
    <3> QED  BY <3>1, <3>2, <3>3 DEF Inputs
  <2>4. Inlets(t, n) \subseteq ({"slot"} \X Slots) \cup ({"cell"} \X Cells(t))
    <3> SUFFICES ASSUME NEW i \in 1..Len(t[n].on)
                 PROVE  t[n].in[i] \in ({"slot"} \X Slots) \cup ({"cell"} \X Cells(t))
      BY <1>0, <2>1, <2>2 DEF Range
    <3>1. t[n].on[i] \in Slots
      BY OwnOf
    <3>2. CASE t[n].in[i] = <<"slot", t[n].on[i]>>
      BY <3>1, <3>2
    <3>3. CASE t[n].in[i] = <<"cell", t[n].in[i][2]>> /\ t[n].in[i][2] \in Cells(t)
      <4>1. PICK c \in Cells(t) : t[n].in[i] = <<"cell", c>>
        BY <3>3
      <4> QED  BY <4>1
    <3> QED  BY <2>3, <3>2, <3>3
  <2>5. ASSUME t[n].k = "pipe"
        PROVE  t[n].in[1][2] \in Cells(t) /\ t[n].in = <<<<"cell", t[n].in[1][2]>>>>
    <3>1. Len(t[n].in) = 1 /\ t[n].in[1][1] = "cell"
      BY <2>1, <2>5
    <3>2. t[n].in[1] = <<"cell", t[n].in[1][2]>> /\ t[n].in[1][2] \in Cells(t)
      BY <2>1, <2>3, <3>1
    <3> DEFINE in == t[n].in
    <3>3. in \in Seq(Inputs) /\ Len(in) = 1
      BY <1>0, <3>1
    <3> HIDE DEF in
    <3>4. in = <<in[1]>>
      BY <3>3
    <3> QED  BY <3>2, <3>4 DEF in
  <2> QED  BY <1>0, <1>2, <2>1, <2>2, <2>3, <2>4, <2>5
<1> QED  BY <1>1, <1>2

\* The cells of an output, kind by kind.
LEMMA OutCellsOf ==
  ASSUME NEW t, Graph(t), NEW n \in DOMAIN t
  PROVE  /\ OutCells(t)[n] \in Seq(Cells(t)) /\ Len(OutCells(t)[n]) \in Nat
         /\ DOMAIN OutCells(t)[n] = 1..Len(OutCells(t)[n])
         /\ t[n].k \in Leaves => OutCells(t)[n] = Outlets(t, n)
         /\ t[n].k \in Wrappers => OutCells(t)[n] = Own(t, n)
         /\ t[n].k = "then" => OutCells(t)[n] = OutCells(t)[Follow(t, n)]
         /\ t[n].k = "bundle" => OutCells(t)[n] = OutCells(t)[Source(t, n)] \o OutCells(t)[Follow(t, n)]
<1> DEFINE N == Len(t)
           T == {m \in 1..N : OutCells(t)[m] \in Seq(Cells(t))}
           At(m) == IF t[m].k \in Leaves THEN Outlets(t, m)
                    ELSE IF t[m].k \in Wrappers THEN Own(t, m)
                    ELSE IF t[m].k = "then" THEN OutCells(t)[t[m].kids[2]]
                    ELSE OutCells(t)[t[m].kids[1]] \o OutCells(t)[t[m].kids[2]]
<1>0. N \in Nat /\ DOMAIN t = 1..N
  BY NodesOf
<1>1. \A m \in 1..N : OutCells(t)[m] = At(m)
  <2>1. OutCells(t) = [m \in DOMAIN t |-> At(m)]
    BY OutCellsIs
  <2> HIDE DEF At
  <2>2. \A m \in DOMAIN t : OutCells(t)[m] = At(m)
    BY <2>1
  <2> QED  BY <2>2, <1>0
<1>2. ASSUME NEW m \in 1..N
      PROVE  /\ t[m].k \in Leaves => OutCells(t)[m] = Outlets(t, m)
             /\ t[m].k \in Wrappers => OutCells(t)[m] = Own(t, m)
             /\ t[m].k = "then" => OutCells(t)[m] = OutCells(t)[Follow(t, m)]
             /\ t[m].k = "bundle" =>
                  OutCells(t)[m] = OutCells(t)[Source(t, m)] \o OutCells(t)[Follow(t, m)]
  <2>1. t[m].k \in Leaves => OutCells(t)[m] = Outlets(t, m)
    BY <1>1
  <2>2. t[m].k \in Wrappers => OutCells(t)[m] = Own(t, m)
    BY <1>1 DEF Leaves, Wrappers
  <2>3. t[m].k = "then" => OutCells(t)[m] = OutCells(t)[t[m].kids[2]]
    BY <1>1 DEF Leaves, Wrappers
  <2>4. t[m].k = "bundle" => OutCells(t)[m] = OutCells(t)[t[m].kids[1]] \o OutCells(t)[t[m].kids[2]]
    BY <1>1 DEF Leaves, Wrappers
  <2> QED  BY <2>1, <2>2, <2>3, <2>4 DEF Source, Follow
<1>3. \A m \in 1..N : m \in T
  <2>1. ASSUME NEW m \in 1..N, \A k \in 1..(m - 1) : k \in T
        PROVE  m \in T
    <3>1. CASE t[m].k \in Leaves
      <4>1. OutCells(t)[m] = Outlets(t, m)
        BY <1>2, <3>1
      <4>2. CASE t[m].k = "pipe"
        <5>1. t[m].in[1][2] \in Cells(t)
          BY <1>0, <3>1, <4>2, InletsOf
        <5> QED  BY <4>1, <4>2, <5>1 DEF Outlets
      <4>3. CASE t[m].k # "pipe"
        BY <1>0, <4>1, <4>3, OwnOf DEF Outlets
      <4> QED  BY <4>2, <4>3
    <3>2. CASE t[m].k \in Wrappers
      <4>1. Own(t, m) \in Seq(Cells(t))
        BY <1>0, OwnOf
      <4> QED  BY <1>2, <3>2, <4>1
    <3>3. CASE t[m].k \in {"then", "bundle"}
      <4>1. Source(t, m) \in 1..(m - 1) /\ Follow(t, m) \in 1..(m - 1)
        BY <1>0, <3>3, NodesOf
      <4>2. Source(t, m) \in T /\ Follow(t, m) \in T
        BY <4>1, <2>1
      <4>3. OutCells(t)[Source(t, m)] \in Seq(Cells(t)) /\ OutCells(t)[Follow(t, m)] \in Seq(Cells(t))
        BY <4>2
      <4>4. OutCells(t)[Source(t, m)] \o OutCells(t)[Follow(t, m)] \in Seq(Cells(t))
        BY <4>3, ConcatProperties
      <4> QED  BY <1>2, <3>3, <4>3, <4>4
    <3> QED  BY <1>0, <3>1, <3>2, <3>3, NodesOf
  <2> HIDE DEF T
  <2> QED  BY <1>0, <2>1, FromBelow
<1>4. n \in 1..N /\ OutCells(t)[n] \in Seq(Cells(t))
  BY <1>0, <1>3
<1>5. Len(OutCells(t)[n]) \in Nat /\ DOMAIN OutCells(t)[n] = 1..Len(OutCells(t)[n])
  BY <1>4
<1> QED  BY <1>2, <1>4, <1>5

\* What a node takes and leaves, kind by kind.
LEMMA FlowOf ==
  ASSUME NEW t, Graph(t), NEW n \in DOMAIN t
  PROVE  /\ Uses(t, n) \subseteq ({"slot"} \X Slots) \cup ({"cell"} \X Cells(t))
         /\ Gives(t, n) \subseteq Cells(t)
         /\ t[n].k \in Leaves => Uses(t, n) = Inlets(t, n) /\ Gives(t, n) = Range(OutCells(t)[n])
         /\ t[n].k \in Wrappers =>
              /\ Uses(t, n) = Uses(t, Source(t, n))
              /\ Gives(t, n) = (Gives(t, Source(t, n)) \ Range(OutCells(t)[Source(t, n)])) \cup OwnCells(t, n)
         /\ t[n].k \in {"then", "bundle"} =>
              /\ Uses(t, n) = Uses(t, Source(t, n)) \cup
                              (Uses(t, Follow(t, n)) \ AsInputs(Gives(t, Source(t, n))))
              /\ Gives(t, n) = {c \in Gives(t, Source(t, n)) : <<"cell", c>> \notin Uses(t, Follow(t, n))}
                               \cup Gives(t, Follow(t, n))
<1> DEFINE N == Len(t)
           Ins == ({"slot"} \X Slots) \cup ({"cell"} \X Cells(t))
           T == {m \in 1..N : Uses(t, m) \subseteq Ins /\ Gives(t, m) \subseteq Cells(t)}
           At(m) == IF t[m].k \in Leaves THEN [uses |-> Inlets(t, m), gives |-> Range(Outlets(t, m))]
                    ELSE IF t[m].k \in Wrappers
                    THEN [uses |-> Flow(t)[t[m].kids[1]].uses,
                          gives |-> (Flow(t)[t[m].kids[1]].gives \ Range(OutCells(t)[t[m].kids[1]]))
                                    \cup Range(Own(t, m))]
                    ELSE [uses |-> Flow(t)[t[m].kids[1]].uses
                                   \cup (Flow(t)[t[m].kids[2]].uses \ AsInputs(Flow(t)[t[m].kids[1]].gives)),
                          gives |-> {c \in Flow(t)[t[m].kids[1]].gives :
                                       <<"cell", c>> \notin Flow(t)[t[m].kids[2]].uses}
                                    \cup Flow(t)[t[m].kids[2]].gives]
<1>0. N \in Nat /\ DOMAIN t = 1..N
  BY NodesOf
<1>1. \A m \in 1..N : Flow(t)[m] = At(m)
  <2>1. Flow(t) = [m \in DOMAIN t |-> At(m)]
    BY FlowIs
  <2> HIDE DEF At
  <2>2. \A m \in DOMAIN t : Flow(t)[m] = At(m)
    BY <2>1
  <2> QED  BY <2>2, <1>0
<1>2. ASSUME NEW m \in 1..N, t[m].k \in Leaves
      PROVE  Uses(t, m) = Inlets(t, m) /\ Gives(t, m) = Range(OutCells(t)[m])
  <2>1. Flow(t)[m] = [uses |-> Inlets(t, m), gives |-> Range(Outlets(t, m))]
    BY <1>1, <1>2
  <2>2. OutCells(t)[m] = Outlets(t, m)
    BY <1>0, <1>2, OutCellsOf
  <2> QED  BY <2>1, <2>2 DEF Uses, Gives
<1>3. ASSUME NEW m \in 1..N, t[m].k \in Wrappers
      PROVE  /\ Uses(t, m) = Uses(t, Source(t, m))
             /\ Gives(t, m) = (Gives(t, Source(t, m)) \ Range(OutCells(t)[Source(t, m)])) \cup OwnCells(t, m)
  <2>1. t[m].k \notin Leaves
    BY <1>3 DEF Leaves, Wrappers
  <2>2. Flow(t)[m] = [uses |-> Flow(t)[t[m].kids[1]].uses,
                      gives |-> (Flow(t)[t[m].kids[1]].gives \ Range(OutCells(t)[t[m].kids[1]]))
                                \cup Range(Own(t, m))]
    BY <1>1, <1>3, <2>1
  <2>3. Range(Own(t, m)) = OwnCells(t, m)
    BY <1>0, OwnOf
  <2> QED  BY <2>2, <2>3 DEF Uses, Gives, Source
<1>4. ASSUME NEW m \in 1..N, t[m].k \in {"then", "bundle"}
      PROVE  /\ Uses(t, m) = Uses(t, Source(t, m)) \cup
                              (Uses(t, Follow(t, m)) \ AsInputs(Gives(t, Source(t, m))))
             /\ Gives(t, m) = {c \in Gives(t, Source(t, m)) : <<"cell", c>> \notin Uses(t, Follow(t, m))}
                              \cup Gives(t, Follow(t, m))
  <2>1. t[m].k \notin Leaves /\ t[m].k \notin Wrappers
    BY <1>4 DEF Leaves, Wrappers
  <2>2. Flow(t)[m] = [uses |-> Flow(t)[t[m].kids[1]].uses
                               \cup (Flow(t)[t[m].kids[2]].uses \ AsInputs(Flow(t)[t[m].kids[1]].gives)),
                      gives |-> {c \in Flow(t)[t[m].kids[1]].gives :
                                   <<"cell", c>> \notin Flow(t)[t[m].kids[2]].uses}
                                \cup Flow(t)[t[m].kids[2]].gives]
    BY <1>1, <2>1
  <2> QED  BY <2>2 DEF Uses, Gives, Source, Follow
<1>5. \A m \in 1..N : m \in T
  <2>1. ASSUME NEW m \in 1..N, \A k \in 1..(m - 1) : k \in T
        PROVE  m \in T
    <3>1. CASE t[m].k \in Leaves
      <4>1. Inlets(t, m) \subseteq Ins
        BY <1>0, <3>1, InletsOf
      <4>2. OutCells(t)[m] \in Seq(Cells(t))
        BY <1>0, OutCellsOf
      <4>3. Range(OutCells(t)[m]) \subseteq Cells(t)
        BY <4>2 DEF Range
      <4> QED  BY <1>2, <3>1, <4>1, <4>3
    <3>2. CASE t[m].k \in Wrappers
      <4>1. Source(t, m) \in 1..(m - 1)
        BY <1>0, <3>2, NodesOf
      <4>2. Uses(t, Source(t, m)) \subseteq Ins /\ Gives(t, Source(t, m)) \subseteq Cells(t)
        BY <4>1, <2>1
      <4>3. OwnCells(t, m) \subseteq Cells(t)
        BY DEF OwnCells
      <4> QED  BY <1>3, <3>2, <4>2, <4>3
    <3>3. CASE t[m].k \in {"then", "bundle"}
      <4>1. Source(t, m) \in 1..(m - 1) /\ Follow(t, m) \in 1..(m - 1)
        BY <1>0, <3>3, NodesOf
      <4>2. /\ Uses(t, Source(t, m)) \subseteq Ins /\ Gives(t, Source(t, m)) \subseteq Cells(t)
            /\ Uses(t, Follow(t, m)) \subseteq Ins /\ Gives(t, Follow(t, m)) \subseteq Cells(t)
        BY <4>1, <2>1
      <4> HIDE DEF Ins
      <4> QED  BY <1>4, <3>3, <4>2
    <3> QED  BY <1>0, <3>1, <3>2, <3>3, NodesOf
  <2> HIDE DEF T
  <2> QED  BY <1>0, <2>1, FromBelow
<1>6. n \in 1..N /\ Uses(t, n) \subseteq Ins /\ Gives(t, n) \subseteq Cells(t)
  BY <1>0, <1>5
<1> QED  BY <1>2, <1>3, <1>4, <1>6

\* The flow between the kids of a chain or a bundle, in cells and slots.
LEMMA FlowBetween ==
  ASSUME NEW t, Graph(t), NEW n \in DOMAIN t, t[n].k \in {"then", "bundle"}
  PROVE  LET a == Source(t, n)
             b == Follow(t, n)
         IN /\ UsedCells(t, n) = UsedCells(t, a) \cup (UsedCells(t, b) \ Gives(t, a))
            /\ UsedSlots(t, n) = UsedSlots(t, a) \cup UsedSlots(t, b)
            /\ Gives(t, n) = (Gives(t, a) \ UsedCells(t, b)) \cup Gives(t, b)
            /\ UsedCells(t, a) \cap UsedCells(t, b) \subseteq Gives(t, a)
            /\ UsedSlots(t, a) \cap UsedSlots(t, b) = {}
            /\ t[n].k = "bundle" => Gives(t, a) \cap UsedCells(t, b) = {}
<1> DEFINE a == Source(t, n)
           b == Follow(t, n)
<1>1. a \in DOMAIN t /\ b \in DOMAIN t
  BY NodesOf
<1>2. /\ Uses(t, n) = Uses(t, a) \cup (Uses(t, b) \ AsInputs(Gives(t, a)))
      /\ Gives(t, n) = {c \in Gives(t, a) : <<"cell", c>> \notin Uses(t, b)} \cup Gives(t, b)
  BY FlowOf
<1>3. Gives(t, a) \subseteq Cells(t) /\ Gives(t, b) \subseteq Cells(t)
  BY <1>1, FlowOf
<1>4. /\ Uses(t, a) \cap Uses(t, b) \subseteq AsInputs(Gives(t, a))
      /\ t[n].k = "bundle" => AsInputs(Gives(t, a)) \cap Uses(t, b) = {}
  BY DEF Graph, Wired
<1> HIDE DEF a, b
<1>5. /\ \A c : <<"cell", c>> \in AsInputs(Gives(t, a)) <=> c \in Gives(t, a)
      /\ \A x : <<"slot", x>> \notin AsInputs(Gives(t, a))
  BY DEF AsInputs
<1>6. UsedCells(t, n) = UsedCells(t, a) \cup (UsedCells(t, b) \ Gives(t, a))
  BY <1>2, <1>5 DEF UsedCells
<1>7. UsedSlots(t, n) = UsedSlots(t, a) \cup UsedSlots(t, b)
  BY <1>2, <1>5 DEF UsedSlots
<1>8. Gives(t, n) = (Gives(t, a) \ UsedCells(t, b)) \cup Gives(t, b)
  BY <1>2, <1>3 DEF UsedCells
<1>9. UsedCells(t, a) \cap UsedCells(t, b) \subseteq Gives(t, a) /\ UsedSlots(t, a) \cap UsedSlots(t, b) = {}
  BY <1>4, <1>5 DEF UsedCells, UsedSlots
<1>10. t[n].k = "bundle" => Gives(t, a) \cap UsedCells(t, b) = {}
  BY <1>4, <1>5 DEF UsedCells
<1> QED  BY <1>6, <1>7, <1>8, <1>9, <1>10 DEF a, b

\* What a node leaves full was under it or was full before; its output is full.
LEMMA GivesWithin ==
  ASSUME NEW t, Graph(t), NEW n \in DOMAIN t
  PROVE  /\ Gives(t, n) \subseteq CellsUnder(t, n) \cup UsedCells(t, n)
         /\ Range(OutCells(t)[n]) \subseteq Gives(t, n)
<1> DEFINE N == Len(t)
           T == {m \in 1..N : /\ Gives(t, m) \subseteq CellsUnder(t, m) \cup UsedCells(t, m)
                              /\ Range(OutCells(t)[m]) \subseteq Gives(t, m)}
<1>0. N \in Nat /\ DOMAIN t = 1..N
  BY NodesOf
<1>1. ASSUME NEW m \in 1..N, \A k \in 1..(m - 1) : k \in T
      PROVE  m \in T
  <2>0. m \in DOMAIN t /\ m \in Under(t, m)
    BY <1>0, UnderOf
  <2>1. CASE t[m].k \in Leaves
    <3>1. Uses(t, m) = Inlets(t, m) /\ Gives(t, m) = Range(OutCells(t)[m]) /\ OutCells(t)[m] = Outlets(t, m)
      BY <2>0, <2>1, FlowOf, OutCellsOf
    <3>2. CASE t[m].k = "pipe"
      <4>1. t[m].in[1][2] \in Cells(t) /\ t[m].in = <<<<"cell", t[m].in[1][2]>>>>
        BY <2>0, <2>1, <3>2, InletsOf
      <4>2. Inlets(t, m) = Range(t[m].in)
        BY <3>2 DEF Inlets
      <4>3. <<"cell", t[m].in[1][2]>> \in Inlets(t, m)
        BY <4>1, <4>2 DEF Range
      <4>4. Gives(t, m) = {t[m].in[1][2]}
        BY <3>1, <3>2 DEF Outlets, Range
      <4> QED  BY <3>1, <4>1, <4>3, <4>4 DEF UsedCells
    <3>3. CASE t[m].k # "pipe"
      <4>1. Gives(t, m) = OwnCells(t, m)
        BY <2>0, <3>1, <3>3, OwnOf DEF Outlets
      <4> QED  BY <2>0, <3>1, <4>1 DEF OwnCells, CellsUnder
    <3> QED  BY <3>2, <3>3
  <2>2. CASE t[m].k \in Wrappers
    <3>1. Source(t, m) \in 1..(m - 1)
      BY <2>0, <2>2, NodesOf
    <3>2. Gives(t, Source(t, m)) \subseteq CellsUnder(t, Source(t, m)) \cup UsedCells(t, Source(t, m))
      BY <3>1, <1>1
    <3>3. /\ Uses(t, m) = Uses(t, Source(t, m)) /\ OutCells(t)[m] = Own(t, m)
          /\ Gives(t, m) = (Gives(t, Source(t, m)) \ Range(OutCells(t)[Source(t, m)])) \cup OwnCells(t, m)
      BY <2>0, <2>2, FlowOf, OutCellsOf
    <3>4. Under(t, m) = Under(t, Source(t, m)) \cup {m}
      BY <2>0, <2>2, UnderOf
    <3>5. OwnCells(t, m) \subseteq CellsUnder(t, m) /\ CellsUnder(t, Source(t, m)) \subseteq CellsUnder(t, m)
      BY <2>0, <3>4 DEF OwnCells, CellsUnder
    <3>6. UsedCells(t, m) = UsedCells(t, Source(t, m))
      BY <3>3 DEF UsedCells
    <3>7. Range(OutCells(t)[m]) = OwnCells(t, m)
      BY <2>0, <3>3, OwnOf
    <3> QED  BY <3>2, <3>3, <3>5, <3>6, <3>7
  <2>3. CASE t[m].k \in {"then", "bundle"}
    <3> DEFINE a == Source(t, m)
               b == Follow(t, m)
    <3>1. a \in 1..(m - 1) /\ b \in 1..(m - 1)
      BY <2>0, <2>3, NodesOf
    <3>2. /\ Gives(t, a) \subseteq CellsUnder(t, a) \cup UsedCells(t, a) /\ Range(OutCells(t)[a]) \subseteq Gives(t, a)
          /\ Gives(t, b) \subseteq CellsUnder(t, b) \cup UsedCells(t, b) /\ Range(OutCells(t)[b]) \subseteq Gives(t, b)
      BY <3>1, <1>1
    <3>3. /\ UsedCells(t, m) = UsedCells(t, a) \cup (UsedCells(t, b) \ Gives(t, a))
          /\ Gives(t, m) = (Gives(t, a) \ UsedCells(t, b)) \cup Gives(t, b)
          /\ t[m].k = "bundle" => Gives(t, a) \cap UsedCells(t, b) = {}
      BY <2>0, <2>3, FlowBetween
    <3>4. Under(t, m) = Under(t, a) \cup Under(t, b) \cup {m}
      BY <2>0, <2>3, UnderOf
    <3>5. CellsUnder(t, m) = CellsUnder(t, a) \cup CellsUnder(t, b) \cup OwnCells(t, m)
      BY <3>4 DEF CellsUnder, OwnCells
    <3>6. Range(OutCells(t)[m]) \subseteq Gives(t, m)
      <4>1. CASE t[m].k = "then"
        <5>1. OutCells(t)[m] = OutCells(t)[b]
          BY <2>0, <4>1, OutCellsOf
        <5> QED  BY <5>1, <3>2, <3>3
      <4>2. CASE t[m].k = "bundle"
        <5>1. /\ OutCells(t)[m] = OutCells(t)[a] \o OutCells(t)[b]
              /\ OutCells(t)[a] \in Seq(Cells(t)) /\ OutCells(t)[b] \in Seq(Cells(t))
          <6>1. a \in DOMAIN t /\ b \in DOMAIN t
            BY <1>0, <3>1
          <6> QED  BY <2>0, <4>2, <6>1, OutCellsOf
        <5>2. Range(OutCells(t)[m]) \subseteq Range(OutCells(t)[a]) \cup Range(OutCells(t)[b])
          <6> DEFINE p == OutCells(t)[a]
                     q == OutCells(t)[b]
          <6>1. p \in Seq(Cells(t)) /\ q \in Seq(Cells(t)) /\ OutCells(t)[m] = p \o q
            BY <5>1
          <6> HIDE DEF p, q
          <6>2. Range(p \o q) \subseteq Range(p) \cup Range(q)
            BY <6>1 DEF Range
          <6> QED  BY <6>1, <6>2 DEF p, q
        <5> QED  BY <5>2, <3>2, <3>3, <4>2
      <4> QED  BY <2>3, <4>1, <4>2
    <3> HIDE DEF a, b
    <3>7. Gives(t, m) \subseteq CellsUnder(t, m) \cup UsedCells(t, m)
      BY <3>2, <3>3, <3>5
    <3> QED  BY <3>6, <3>7
  <2> QED  BY <2>0, <2>1, <2>2, <2>3, NodesOf
<1>2. \A m \in 1..N : m \in T
  <2> HIDE DEF T
  <2> QED  BY <1>0, <1>1, FromBelow
<1> QED  BY <1>0, <1>2

-----------------------------------------------------------------------------
(* States of a walk                                                        *)

\* The fields of a state.
LEMMA StateOf ==
  ASSUME NEW s \in States(tree)
  PROVE  /\ s.ok \in BOOLEAN /\ s.fault \in Faults \X Nat /\ s.log \in Seq(Entries)
         /\ s.slots \in [Slots -> Contents] /\ s.cbs \in [Heads(tree) -> {None} \cup Baked]
         /\ s.off \in BOOLEAN /\ s.pipe \in [Cells(tree) -> {None} \cup Held]
         /\ s.reach \in [Cells(tree) -> SUBSET Slots]
         /\ s.sp \in [Heads(tree) -> [Cells(tree) -> SUBSET Nat]]
         /\ s.fr \in [Heads(tree) -> Frames] /\ s.waited \in SUBSET Nat /\ s.gate \in SUBSET Nat
BY DEF States

\* A state with one field changed.
LEMMA SetOk ==
  ASSUME NEW s \in States(tree), NEW u, u = [s EXCEPT !.ok = FALSE]
  PROVE  u \in States(tree) /\ u.slots = s.slots /\ u.cbs = s.cbs /\ u.pipe = s.pipe /\ u.ok = FALSE
BY DEF States

LEMMA SetLog ==
  ASSUME NEW s \in States(tree), NEW log \in Seq(Entries)
  PROVE  LET u == [s EXCEPT !.log = log] IN
         /\ u \in States(tree) /\ u.slots = s.slots /\ u.cbs = s.cbs /\ u.pipe = s.pipe /\ u.ok = s.ok
         /\ u.fr = s.fr /\ u.log = log
BY DEF States

LEMMA SetFr ==
  ASSUME NEW s \in States(tree), NEW fr \in [Heads(tree) -> Frames]
  PROVE  LET u == [s EXCEPT !.fr = fr] IN
         /\ u \in States(tree) /\ u.slots = s.slots /\ u.cbs = s.cbs /\ u.pipe = s.pipe /\ u.ok = s.ok
         /\ u.fr = fr /\ u.log = s.log
BY DEF States

LEMMA SetPipe ==
  ASSUME NEW s \in States(tree), NEW pipe \in [Cells(tree) -> {None} \cup Held]
  PROVE  LET u == [s EXCEPT !.pipe = pipe] IN
         /\ u \in States(tree) /\ u.slots = s.slots /\ u.cbs = s.cbs /\ u.pipe = pipe /\ u.ok = s.ok
         /\ u.fr = s.fr /\ u.log = s.log
BY DEF States

\* A frame with one field changed.
LEMMA SetFrame ==
  ASSUME NEW s \in States(tree), NEW f \in Heads(tree), NEW g \in Frames
  PROVE  [s.fr EXCEPT ![f] = g] \in [Heads(tree) -> Frames]
BY StateOf

LEMMA SetExt ==
  ASSUME NEW s \in States(tree), NEW f \in Heads(tree), NEW d \in SUBSET Nat
  PROVE  LET u == [s EXCEPT !.fr[f].ext = @ \cup d] IN
         /\ u \in States(tree) /\ u.slots = s.slots /\ u.cbs = s.cbs /\ u.pipe = s.pipe /\ u.ok = s.ok
<1> DEFINE g == [s.fr[f] EXCEPT !.ext = @ \cup d]
           fr == [s.fr EXCEPT ![f] = g]
<1>1. s.fr[f] \in Frames
  BY StateOf
<1>2. g \in Frames
  BY <1>1 DEF Frames
<1>3. [s EXCEPT !.fr[f].ext = @ \cup d] = [s EXCEPT !.fr = fr]
  OBVIOUS
<1> HIDE DEF g
<1>4. fr \in [Heads(tree) -> Frames]
  BY <1>2, SetFrame
<1> HIDE DEF fr
<1> QED  BY <1>3, <1>4, SetFr

LEMMA SetSealed ==
  ASSUME NEW s \in States(tree), NEW f \in Heads(tree)
  PROVE  LET u == [s EXCEPT !.fr[f].sealed = TRUE] IN
         /\ u \in States(tree) /\ u.slots = s.slots /\ u.cbs = s.cbs /\ u.pipe = s.pipe /\ u.ok = s.ok
         /\ u.fr[f].ext = s.fr[f].ext /\ u.fr[f].rec = s.fr[f].rec
<1> DEFINE g == [s.fr[f] EXCEPT !.sealed = TRUE]
           fr == [s.fr EXCEPT ![f] = g]
           u == [s EXCEPT !.fr = fr]
<1>1. s.fr[f] \in Frames /\ s.fr \in [Heads(tree) -> Frames]
  BY StateOf
<1>2. g \in Frames /\ g.ext = s.fr[f].ext /\ g.rec = s.fr[f].rec
  BY <1>1 DEF Frames
<1>3. [s EXCEPT !.fr[f].sealed = TRUE] = u
  OBVIOUS
<1> HIDE DEF g
<1>4. fr \in [Heads(tree) -> Frames] /\ fr[f] = g
  BY <1>1, <1>2, SetFrame
<1> HIDE DEF fr
<1>5. /\ u \in States(tree) /\ u.slots = s.slots /\ u.cbs = s.cbs /\ u.pipe = s.pipe /\ u.ok = s.ok
      /\ u.fr = fr
  BY <1>4, SetFr
<1> QED  BY <1>2, <1>3, <1>4, <1>5

LEMMA SetClosed ==
  ASSUME NEW s \in States(tree), NEW f \in Heads(tree)
  PROVE  LET u == [s EXCEPT !.fr[f].closed = TRUE] IN
         u \in States(tree) /\ u.slots = s.slots /\ u.cbs = s.cbs /\ u.pipe = s.pipe /\ u.ok = s.ok
<1> DEFINE g == [s.fr[f] EXCEPT !.closed = TRUE]
           fr == [s.fr EXCEPT ![f] = g]
<1>1. s.fr[f] \in Frames
  BY StateOf
<1>2. g \in Frames
  BY <1>1 DEF Frames
<1>3. [s EXCEPT !.fr[f].closed = TRUE] = [s EXCEPT !.fr = fr]
  OBVIOUS
<1> HIDE DEF g
<1>4. fr \in [Heads(tree) -> Frames]
  BY <1>2, SetFrame
<1> HIDE DEF fr
<1> QED  BY <1>3, <1>4, SetFr

LEMMA SetCb ==
  ASSUME NEW s \in States(tree), NEW f \in Heads(tree), NEW b \in Baked
  PROVE  LET u == [s EXCEPT !.cbs[f] = b] IN
         /\ u \in States(tree) /\ u.slots = s.slots /\ u.pipe = s.pipe /\ u.ok = s.ok
         /\ \A g \in Heads(tree) : s.cbs[g] # None => u.cbs[g] # None
<1> DEFINE cs == [s.cbs EXCEPT ![f] = b]
           u == [s EXCEPT !.cbs = cs]
<1>1. s.cbs \in [Heads(tree) -> {None} \cup Baked]
  BY StateOf
<1>2. cs \in [Heads(tree) -> {None} \cup Baked] /\ cs[f] = b
      /\ \A g \in Heads(tree) : g # f => cs[g] = s.cbs[g]
  BY <1>1
<1>3. [s EXCEPT !.cbs[f] = b] = u
  OBVIOUS
<1> HIDE DEF cs
<1>4. u \in States(tree) /\ u.slots = s.slots /\ u.pipe = s.pipe /\ u.ok = s.ok /\ u.cbs = cs
  BY <1>2 DEF States
<1>5. b # None
  BY NamesAssumption
<1> QED  BY <1>2, <1>3, <1>4, <1>5

LEMMA SetReach ==
  ASSUME NEW s \in States(tree), NEW reach \in [Cells(tree) -> SUBSET Slots]
  PROVE  LET u == [s EXCEPT !.reach = reach] IN
         /\ u \in States(tree) /\ u.slots = s.slots /\ u.cbs = s.cbs /\ u.pipe = s.pipe /\ u.ok = s.ok
         /\ u.sp = s.sp /\ u.fr = s.fr
BY DEF States

LEMMA SetSp ==
  ASSUME NEW s \in States(tree), NEW sp \in [Heads(tree) -> [Cells(tree) -> SUBSET Nat]]
  PROVE  LET u == [s EXCEPT !.sp = sp] IN
         u \in States(tree) /\ u.slots = s.slots /\ u.cbs = s.cbs /\ u.pipe = s.pipe /\ u.ok = s.ok
BY DEF States

LEMMA SetSlots ==
  ASSUME NEW s \in States(tree), NEW at \in [Slots -> Contents]
  PROVE  LET u == [s EXCEPT !.slots = at] IN
         u \in States(tree) /\ u.slots = at /\ u.cbs = s.cbs /\ u.pipe = s.pipe /\ u.ok = s.ok
BY DEF States

LEMMA SetWaited ==
  ASSUME NEW s \in States(tree), NEW D \in SUBSET Nat
  PROVE  LET u == [s EXCEPT !.waited = D] IN
         u \in States(tree) /\ u.slots = s.slots /\ u.cbs = s.cbs /\ u.pipe = s.pipe /\ u.ok = s.ok
BY DEF States

-----------------------------------------------------------------------------
(* Steps that move no value                                                *)

\* A step that leaves the slots, the cells and the command buffers alone is calm.
LEMMA CalmIs ==
  ASSUME NEW s, NEW u \in States(tree), u.slots = s.slots, u.ok => s.ok, u.cbs = s.cbs, u.pipe = s.pipe
  PROVE  Calm(s, u)
BY DEF Calm

\* Calm steps in a row are calm.
LEMMA CalmTrans ==
  ASSUME NEW s, NEW u, NEW v, Calm(s, u), Calm(u, v)
  PROVE  Calm(s, v)
BY DEF Calm

LEMMA OverOf ==
  ASSUME NEW s \in States(tree), NEW D \in SUBSET Nat
  PROVE  Over(s, D) \in SUBSET Nat
<1>1. s.log \in Seq(Entries) /\ s.waited \in SUBSET Nat
  BY StateOf
<1>2. ASSUME NEW d \in D \cap DOMAIN s.log PROVE s.log[d].before \in SUBSET Nat
  <2>1. s.log[d] \in Entries
    BY <1>1
  <2> QED  BY <2>1 DEF Entries
<1> QED  BY <1>1, <1>2 DEF Over

\* Enqueueing a command moves no value.
LEMMA EnqueueOf ==
  ASSUME NEW s \in States(tree), NEW n \in Nat, NEW on \in SUBSET Contents, NEW D \in SUBSET Nat
  PROVE  LET u == Enqueue(s, n, on, D) IN
         u \in States(tree) /\ u.slots = s.slots /\ u.cbs = s.cbs /\ u.pipe = s.pipe /\ u.ok = s.ok
<1> DEFINE e == [n |-> n, on |-> on, before |-> Over(s, D)]
<1>1. e \in Entries
  BY OverOf DEF Entries
<1> HIDE DEF e
<1>2. Append(s.log, e) \in Seq(Entries)
  BY <1>1, StateOf
<1> DEFINE log == Append(s.log, e)
<1>3. Enqueue(s, n, on, D) = [s EXCEPT !.log = log]
  BY DEF Enqueue, e
<1>4. log \in Seq(Entries)
  BY <1>2
<1> HIDE DEF log
<1> QED  BY <1>3, <1>4, SetLog

LEMMA NewestOf ==
  ASSUME NEW s \in States(tree)
  PROVE  Newest(s) \in Nat
BY StateOf DEF Newest

LEMMA WaitForOf ==
  ASSUME NEW s \in States(tree), NEW D \in SUBSET Nat
  PROVE  LET u == WaitFor(s, D) IN
         u \in States(tree) /\ u.slots = s.slots /\ u.cbs = s.cbs /\ u.pipe = s.pipe /\ u.ok = s.ok
BY OverOf, SetWaited DEF WaitFor

\* A failure changes nothing else.
LEMMA FailedOf ==
  ASSUME NEW s \in States(tree)
  PROVE  LET u == Failed(s) IN
         u \in States(tree) /\ u.slots = s.slots /\ u.cbs = s.cbs /\ u.pipe = s.pipe /\ u.ok = FALSE
BY SetOk DEF Failed

LEMMA JoinOf ==
  ASSUME NEW s \in States(tree), NEW D \in SUBSET Nat
  PROVE  LET u == Join(s, D) IN
         u \in States(tree) /\ u.slots = s.slots /\ u.cbs = s.cbs /\ u.pipe = s.pipe /\ u.ok = s.ok
<1> DEFINE E == IF D = {} THEN 1..Newest(s) ELSE D
<1>1. E \in SUBSET Nat
  BY NewestOf
<1>2. Join(s, D) = Enqueue(s, 0, {}, E)
  BY DEF Join
<1> HIDE DEF E
<1> QED  BY <1>1, <1>2, EnqueueOf

LEMMA ExtendOf ==
  ASSUME NEW s \in States(tree), NEW c \in Cells(tree), NEW origins \in SUBSET Slots
  PROVE  LET u == Extend(s, c, origins) IN
         /\ u \in States(tree) /\ u.slots = s.slots /\ u.cbs = s.cbs /\ u.pipe = s.pipe /\ u.ok = s.ok
         /\ u.sp = s.sp
<1> DEFINE reach == [s.reach EXCEPT ![c] = @ \cup origins]
<1>1. reach \in [Cells(tree) -> SUBSET Slots]
  BY StateOf
<1>2. Extend(s, c, origins) = [s EXCEPT !.reach = reach]
  BY DEF Extend
<1> HIDE DEF reach
<1> QED  BY <1>1, <1>2, SetReach

LEMMA SetPoints ==
  ASSUME NEW s \in States(tree), NEW f \in Heads(tree), NEW c \in Cells(tree), NEW D \in SUBSET Nat
  PROVE  LET u == [s EXCEPT !.sp[f][c] = D] IN
         u \in States(tree) /\ u.slots = s.slots /\ u.cbs = s.cbs /\ u.pipe = s.pipe /\ u.ok = s.ok
<1> DEFINE sp == [s.sp EXCEPT ![f][c] = D]
<1>1. sp \in [Heads(tree) -> [Cells(tree) -> SUBSET Nat]]
  BY StateOf
<1>2. [s EXCEPT !.sp[f][c] = D] = [s EXCEPT !.sp = sp]
  OBVIOUS
<1> HIDE DEF sp
<1> QED  BY <1>1, <1>2, SetSp

\* What is over when the commands of a command buffer start.
LEMMA AfterOf ==
  ASSUME NEW cmds \in Seq(Recorded), NEW first \in Nat
  PROVE  After(cmds, first) \in [0..Len(cmds) -> SUBSET Nat]
<1> DEFINE N == Len(cmds)
           Body(i, f) == IF i = 0 THEN {}
                         ELSE UNION {{first + w} \cup f[w] : w \in cmds[i].waits \cap 1..(i - 1)}
           Upto(m, f) == f \in [0..m -> SUBSET Nat] /\ \A i \in 0..m : f[i] = Body(i, f)
           T == {m \in 0..N : \E f : Upto(m, f)}
<1>0. N \in Nat /\ \A i \in 1..N : cmds[i].waits \in SUBSET Nat
  <2>1. N \in Nat /\ \A i \in 1..N : cmds[i] \in Recorded
    OBVIOUS
  <2> QED  BY <2>1 DEF Recorded
<1>1. ASSUME NEW i \in 0..N, NEW f, NEW h, \A k \in 0..(i - 1) : f[k] = h[k]
      PROVE  Body(i, f) = Body(i, h)
  <2>1. CASE i = 0
    BY <2>1
  <2>2. CASE i # 0
    <3> DEFINE W == cmds[i].waits \cap 1..(i - 1)
    <3>1. \A w \in W : f[w] = h[w]
      BY <1>0, <1>1, <2>2
    <3> HIDE DEF W
    <3>2. {{first + w} \cup f[w] : w \in W} = {{first + w} \cup h[w] : w \in W}
      BY <3>1
    <3> QED  BY <2>2, <3>2 DEF W
  <2> QED  BY <2>1, <2>2
<1>2. 0 \in T
  <2>1. Upto(0, [i \in 0..0 |-> {}])
    OBVIOUS
  <2>2. \E f : Upto(0, f)
    BY <2>1
  <2> HIDE DEF Upto
  <2> QED  BY <1>0, <2>2
<1>3. ASSUME NEW m \in 1..N, m - 1 \in T PROVE m \in T
  <2>1. PICK f : Upto(m - 1, f)
    BY <1>3
  <2> DEFINE h == [i \in 0..m |-> IF i = m THEN Body(m, f) ELSE f[i]]
  <2>2. m \in Nat /\ m >= 1 /\ \A i \in 0..m : i # m => i \in 0..(m - 1)
    BY <1>0
  <2>3. \A k \in 0..(m - 1) : h[k] = f[k] /\ f[k] = Body(k, f) /\ f[k] \in SUBSET Nat
    <3> HIDE DEF Body
    <3> QED  BY <2>1, <2>2
  <2>4. Body(m, f) \in SUBSET Nat
    <3>1. \A w \in cmds[m].waits \cap 1..(m - 1) : f[w] \in SUBSET Nat /\ first + w \in Nat
      <4>1. cmds[m].waits \in SUBSET Nat
        BY <1>0
      <4>2. \A w \in cmds[m].waits \cap 1..(m - 1) : w \in Nat /\ w \in 0..(m - 1)
        BY <4>1, <2>2
      <4>3. \A k \in 0..(m - 1) : f[k] \in SUBSET Nat
        BY <2>3
      <4>4. \A w \in Nat : first + w \in Nat
        OBVIOUS
      <4> HIDE DEF Body, h, Upto, T
      <4> QED  BY <4>2, <4>3, <4>4
    <3> QED  BY <3>1, <2>2
  <2> HIDE DEF Body
  <2>5. ASSUME NEW i \in 0..m PROVE h[i] = Body(i, h) /\ h[i] \in SUBSET Nat
    <3>1. i \in 0..N /\ \A k \in 0..(i - 1) : f[k] = h[k]
      BY <2>2, <2>3, <1>0
    <3>2. Body(i, f) = Body(i, h)
      BY <3>1, <1>1
    <3>3. h[i] = Body(i, f) /\ h[i] \in SUBSET Nat
      <4> HIDE DEF Upto
      <4> QED  BY <2>2, <2>3, <2>4
    <3> QED  BY <3>2, <3>3
  <2>6. h = [i \in 0..m |-> h[i]]
    OBVIOUS
  <2> HIDE DEF h
  <2>7. Upto(m, h)
    BY <2>5, <2>6
  <2>8. m \in 0..N /\ \E g : Upto(m, g)
    BY <2>7, <1>0
  <2> HIDE DEF Upto
  <2> QED  BY <2>8
<1>4. N \in T
  <2> HIDE DEF T
  <2> QED  BY <1>0, <1>2, <1>3, Climb
<1> HIDE DEF Body
<1>5. PICK f : f \in [0..N -> SUBSET Nat] /\ f = [i \in 0..N |-> Body(i, f)]
  BY <1>4
<1>6. After(cmds, first) = CHOOSE g : g = [i \in 0..N |-> Body(i, g)]
  BY DEF After, Body
<1>7. After(cmds, first) = [i \in 0..N |-> Body(i, After(cmds, first))]
  BY <1>5, <1>6
<1>8. \A i \in 0..N : After(cmds, first)[i] = f[i]
  <2> DEFINE A == After(cmds, first)
             S == {i \in 0..N : A[i] = f[i]}
             B == {m \in 0..N : \A i \in 0..m : A[i] = f[i]}
  <2> HIDE DEF A
  <2>1. ASSUME NEW i \in 0..N, \A k \in 0..(i - 1) : A[k] = f[k] PROVE A[i] = f[i]
    <3>1. Body(i, A) = Body(i, f)
      BY <2>1, <1>1
    <3>2. A[i] = Body(i, A) /\ f[i] = Body(i, f)
      BY <1>5, <1>7 DEF A
    <3> QED  BY <3>1, <3>2
  <2>2. 0 \in B
    BY <1>0, <2>1
  <2>3. \A m \in 1..N : m - 1 \in B => m \in B
    BY <1>0, <2>1
  <2>4. N \in B
    <3> HIDE DEF B
    <3> QED  BY <1>0, <2>2, <2>3, Climb
  <2> QED  BY <2>4 DEF A
<1> QED  BY <1>5, <1>7, <1>8

\* Enqueueing a command buffer moves no value.
LEMMA EnqueueCbOf ==
  ASSUME NEW s \in States(tree), NEW cmds \in Seq(Recorded), NEW ext \in SUBSET Nat
  PROVE  LET u == EnqueueCb(s, cmds, ext) IN
         u \in States(tree) /\ u.slots = s.slots /\ u.cbs = s.cbs /\ u.pipe = s.pipe /\ (u.ok => s.ok)
<1> DEFINE base == Over(s, ext)
           first == Newest(s)
           after == After(cmds, first)
           all == [i \in DOMAIN cmds |->
                     [n |-> cmds[i].n, on |-> cmds[i].on, before |-> base \cup after[i]]]
           done == [n |-> 0, on |-> {}, before |-> base \cup {first + i : i \in DOMAIN cmds}]
<1>1. first \in Nat /\ base \in SUBSET Nat /\ after \in [0..Len(cmds) -> SUBSET Nat]
  BY NewestOf, OverOf, AfterOf
<1>2. EnqueueCb(s, cmds, ext) =
        IF s.fault[1] = "enqueue_cb" THEN Failed(s) ELSE [s EXCEPT !.log = @ \o Append(all, done)]
  BY DEF EnqueueCb
<1> HIDE DEF base, first, after
<1>3. all \in Seq(Entries)
  <2>1. Len(cmds) \in Nat /\ DOMAIN cmds = 1..Len(cmds)
    OBVIOUS
  <2>2. \A i \in 1..Len(cmds) : /\ cmds[i] \in Recorded /\ after[i] \in SUBSET Nat
    BY <1>1
  <2>3. \A i \in 1..Len(cmds) : all[i] \in Entries
    BY <2>1, <2>2, <1>1 DEF Recorded, Entries
  <2>4. all = [i \in 1..Len(cmds) |-> all[i]]
    BY <2>1
  <2> HIDE DEF all
  <2> QED  BY <2>1, <2>3, <2>4
<1>4. done \in Entries
  <2>1. {first + i : i \in DOMAIN cmds} \in SUBSET Nat
    BY <1>1
  <2> QED  BY <1>1, <2>1 DEF Entries
<1> HIDE DEF all, done
<1>5. s.log \o Append(all, done) \in Seq(Entries)
  BY <1>3, <1>4, StateOf
<1>6. CASE s.fault[1] = "enqueue_cb"
  BY <1>2, <1>6, FailedOf
<1>7. CASE s.fault[1] # "enqueue_cb"
  <2> DEFINE log == s.log \o Append(all, done)
  <2>1. EnqueueCb(s, cmds, ext) = [s EXCEPT !.log = log] /\ log \in Seq(Entries)
    BY <1>2, <1>5, <1>7
  <2> HIDE DEF log
  <2> QED  BY <2>1, SetLog
<1> QED  BY <1>6, <1>7

LEMMA SetOff ==
  ASSUME NEW s \in States(tree), NEW b \in BOOLEAN
  PROVE  LET u == [s EXCEPT !.off = b] IN
         /\ u \in States(tree) /\ u.slots = s.slots /\ u.cbs = s.cbs /\ u.pipe = s.pipe /\ u.ok = s.ok
         /\ u.fr = s.fr
BY DEF States

LEMMA SetDriver ==
  ASSUME NEW s \in States(tree), NEW f \in Heads(tree), NEW b \in BOOLEAN
  PROVE  LET u == [s EXCEPT !.fr[f].driver = b] IN
         u \in States(tree) /\ u.slots = s.slots /\ u.cbs = s.cbs /\ u.pipe = s.pipe /\ u.ok = s.ok
<1> DEFINE g == [s.fr[f] EXCEPT !.driver = b]
           fr == [s.fr EXCEPT ![f] = g]
<1>1. s.fr[f] \in Frames
  BY StateOf
<1>2. g \in Frames
  BY <1>1 DEF Frames
<1>3. [s EXCEPT !.fr[f].driver = b] = [s EXCEPT !.fr = fr]
  OBVIOUS
<1> HIDE DEF g
<1>4. fr \in [Heads(tree) -> Frames]
  BY <1>2, SetFrame
<1> HIDE DEF fr
<1> QED  BY <1>3, <1>4, SetFr

\* A replay goes through the commands, each of which leaves the values where they are.
WaitsOf(s, f, c) == s.fr[f].ext \cup {Newest(s) + w : w \in c.waits}
ReplayStep(s, f, u, c) ==
  IF ~u.ok THEN u ELSE IF Refused(u, c.n) THEN Failed(u) ELSE Enqueue(u, c.n, c.on, WaitsOf(s, f, c))
Replays(s, f, g) ==
  /\ g[0] = s
  /\ \A i \in 1..Len(s.fr[f].rec) : g[i] = ReplayStep(s, f, g[i - 1], s.fr[f].rec[i])
  /\ \A i \in 0..Len(s.fr[f].rec) : /\ g[i] \in States(tree) /\ g[i].slots = s.slots /\ g[i].cbs = s.cbs
                                    /\ g[i].pipe = s.pipe /\ (g[i].ok => s.ok)
LEMMA ReplayedIs ==
  ASSUME NEW s \in States(tree), NEW f \in Heads(tree)
  PROVE  LET cmds == s.fr[f].rec IN
         /\ cmds \in Seq(Recorded)
         /\ \A i \in 1..Len(cmds) :
              cmds[i].n \in Nat /\ cmds[i].on \in SUBSET Contents /\ WaitsOf(s, f, cmds[i]) \in SUBSET Nat
         /\ \E g : Replays(s, f, g) /\ Replayed(s, f) = g[Len(cmds)]
<1> DEFINE cmds == s.fr[f].rec
           N == Len(cmds)
           D(c) == s.fr[f].ext \cup {Newest(s) + w : w \in c.waits}
           one(u, c) == IF ~u.ok THEN u ELSE IF Refused(u, c.n) THEN Failed(u)
                        ELSE Enqueue(u, c.n, c.on, D(c))
           Body(i, g) == IF i = 0 THEN s ELSE one(g[i - 1], cmds[i])
           Alike == {u \in States(tree) : /\ u.slots = s.slots /\ u.cbs = s.cbs /\ u.pipe = s.pipe
                                          /\ (u.ok => s.ok)}
           Upto(m, g) == g \in [0..m -> Alike] /\ \A i \in 0..m : g[i] = Body(i, g)
           T == {m \in 0..N : \E g : Upto(m, g)}
<1>0. /\ cmds \in Seq(Recorded) /\ N \in Nat /\ s.fr[f].ext \in SUBSET Nat /\ Newest(s) \in Nat
      /\ \A i \in 1..N : cmds[i].n \in Nat /\ cmds[i].on \in SUBSET Contents /\ D(cmds[i]) \in SUBSET Nat
  <2>1. s.fr[f] \in Frames /\ Newest(s) \in Nat
    BY StateOf, NewestOf
  <2>2. cmds \in Seq(Recorded) /\ s.fr[f].ext \in SUBSET Nat
    BY <2>1 DEF Frames
  <2> HIDE DEF cmds
  <2>3. \A i \in 1..N : cmds[i] \in Recorded
    BY <2>2
  <2>4. ASSUME NEW i \in 1..N PROVE D(cmds[i]) \in SUBSET Nat
    <3>1. cmds[i].waits \in SUBSET Nat
      BY <2>3 DEF Recorded
    <3>2. {Newest(s) + w : w \in cmds[i].waits} \in SUBSET Nat
      BY <3>1, <2>1
    <3> QED  BY <2>2, <3>2
  <2> HIDE DEF D
  <2> QED  BY <2>1, <2>2, <2>3, <2>4 DEF Recorded
<1> HIDE DEF cmds, D
<1>1. ASSUME NEW i \in 1..N, NEW u \in Alike PROVE one(u, cmds[i]) \in Alike
  <2>1. CASE ~u.ok
    BY <2>1
  <2>2. CASE u.ok /\ Refused(u, cmds[i].n)
    <3>1. one(u, cmds[i]) = Failed(u)
      BY <2>2
    <3> QED  BY <3>1, FailedOf
  <2>3. CASE u.ok /\ ~Refused(u, cmds[i].n)
    <3>1. one(u, cmds[i]) = Enqueue(u, cmds[i].n, cmds[i].on, D(cmds[i]))
      BY <2>3
    <3>2. /\ one(u, cmds[i]) \in States(tree) /\ one(u, cmds[i]).slots = u.slots
          /\ one(u, cmds[i]).cbs = u.cbs /\ one(u, cmds[i]).pipe = u.pipe /\ one(u, cmds[i]).ok = u.ok
      <4>1. u \in States(tree) /\ cmds[i].n \in Nat /\ cmds[i].on \in SUBSET Contents /\ D(cmds[i]) \in SUBSET Nat
        BY <1>0
      <4> HIDE DEF one, Alike
      <4> QED  BY <3>1, <4>1, EnqueueOf
    <3> HIDE DEF one
    <3> QED  BY <3>2
  <2> QED  BY <2>1, <2>2, <2>3
<1> HIDE DEF one
<1>2. s \in Alike
  OBVIOUS
<1> HIDE DEF Alike
<1>3. 0 \in T
  <2>1. Upto(0, [i \in 0..0 |-> s])
    BY <1>2
  <2>2. \E g : Upto(0, g)
    BY <2>1
  <2> HIDE DEF Upto
  <2> QED  BY <1>0, <2>2
<1>4. ASSUME NEW m \in 1..N, m - 1 \in T PROVE m \in T
  <2>1. PICK g : Upto(m - 1, g)
    BY <1>4
  <2> DEFINE h == [i \in 0..m |-> IF i = m THEN one(g[m - 1], cmds[m]) ELSE g[i]]
  <2>2. m \in Nat /\ m >= 1 /\ m \in 0..N /\ \A i \in 0..m : i # m => i \in 0..(m - 1)
    BY <1>0
  <2>3. \A k \in 0..(m - 1) : h[k] = g[k] /\ g[k] \in Alike /\ g[k] = Body(k, g)
    <3> HIDE DEF Body
    <3> QED  BY <2>1, <2>2
  <2>4. h[m] = one(h[m - 1], cmds[m]) /\ h[m] \in Alike
    <3>1. m - 1 \in 0..(m - 1) /\ m \in 0..m
      BY <2>2
    <3>2. h[m - 1] = g[m - 1] /\ g[m - 1] \in Alike
      BY <3>1, <2>3
    <3>3. h[m] = one(g[m - 1], cmds[m])
      BY <3>1
    <3> HIDE DEF h
    <3> QED  BY <3>2, <3>3, <1>1
  <2>5. h = [i \in 0..m |-> h[i]]
    OBVIOUS
  <2> HIDE DEF h
  <2>6. ASSUME NEW i \in 0..m PROVE h[i] \in Alike /\ h[i] = Body(i, h)
    <3>1. CASE i = m
      BY <3>1, <2>4, <2>2
    <3>2. CASE i # m /\ i = 0
      BY <3>2, <2>2, <2>3
    <3>3. CASE i # m /\ i # 0
      <4>1. i \in 0..(m - 1) /\ i - 1 \in 0..(m - 1)
        BY <3>3, <2>2
      <4> QED  BY <4>1, <3>3, <2>3
    <3> QED  BY <3>1, <3>2, <3>3
  <2> HIDE DEF Body
  <2>7. Upto(m, h)
    BY <2>5, <2>6
  <2>8. \E d : Upto(m, d)
    BY <2>7
  <2> HIDE DEF Upto
  <2> QED  BY <2>2, <2>8
<1>5. N \in T
  <2> HIDE DEF T
  <2> QED  BY <1>0, <1>3, <1>4, Climb
<1> DEFINE R == CHOOSE g : g = [i \in 0..N |-> Body(i, g)]
<1>6. Replayed(s, f) = R[N]
  BY DEF Replayed, one, cmds, D
<1> HIDE DEF Body
<1>7. PICK g : g \in [0..N -> Alike] /\ g = [i \in 0..N |-> Body(i, g)]
  BY <1>5
<1>8. R = [i \in 0..N |-> Body(i, R)]
  BY <1>7
<1> HIDE DEF R
<1>9. \A i \in 1..N : R[i] = one(R[i - 1], cmds[i])
  BY <1>0, <1>8 DEF Body
<1>10. R[0] = s
  BY <1>0, <1>8 DEF Body
<1>11. \A i \in 0..N : R[i] \in Alike
  <2> DEFINE B == {m \in 0..N : \A k \in 0..m : R[k] \in Alike}
  <2>1. 0 \in B
    BY <1>0, <1>2, <1>10
  <2>2. ASSUME NEW m \in 1..N, m - 1 \in B PROVE m \in B
    <3>1. R[m] \in Alike
      <4>1. m - 1 \in 0..(m - 1)
        OBVIOUS
      <4>2. R[m - 1] \in Alike
        BY <2>2, <4>1
      <4>3. R[m] = one(R[m - 1], cmds[m])
        BY <1>9
      <4> QED  BY <1>1, <4>2, <4>3
    <3>2. \A k \in 0..m : k # m => k \in 0..(m - 1)
      OBVIOUS
    <3>3. m \in 0..N
      OBVIOUS
    <3> QED  BY <2>2, <3>1, <3>2, <3>3
  <2>3. N \in B
    <3> HIDE DEF B
    <3> QED  BY <1>0, <2>1, <2>2, Climb
  <2> QED  BY <2>3
<1>12. Replays(s, f, R)
  BY <1>9, <1>10, <1>11 DEF Alike, one, cmds, D, Replays, ReplayStep, WaitsOf
<1> QED  BY <1>0, <1>6, <1>12 DEF cmds, D, WaitsOf

LEMMA ReplayedOf ==
  ASSUME NEW s \in States(tree), NEW f \in Heads(tree)
  PROVE  LET u == Replayed(s, f) IN
         u \in States(tree) /\ u.slots = s.slots /\ u.cbs = s.cbs /\ u.pipe = s.pipe /\ (u.ok => s.ok)
<1> DEFINE N == Len(s.fr[f].rec)
<1>1. s.fr[f].rec \in Seq(Recorded)
  BY ReplayedIs
<1>2. N \in 0..N
  BY <1>1
<1>3. PICK g : Replays(s, f, g) /\ Replayed(s, f) = g[N]
  BY ReplayedIs
<1> QED  BY <1>2, <1>3 DEF Replays

\* A replay in software moves no value.
LEMMA ReplayOf ==
  ASSUME NEW s \in States(tree), NEW f \in Heads(tree)
  PROVE  LET u == Replay(s, f) IN
         u \in States(tree) /\ u.slots = s.slots /\ u.cbs = s.cbs /\ u.pipe = s.pipe /\ (u.ok => s.ok)
<1> DEFINE b == s.off \/ s.fr[f].driver
           v == [s EXCEPT !.off = b]
           w == [v EXCEPT !.fr[f].sealed = TRUE]
           t == Replayed(w, f)
           E == {Newest(s) + i : i \in DOMAIN s.fr[f].rec}
<1>1. b \in BOOLEAN
  OBVIOUS
<1>2. Replay(s, f) = IF t.ok THEN Enqueue(t, 0, {}, E) ELSE t
  <2>1. [s EXCEPT !.off = b, !.fr[f].sealed = TRUE] = w
    OBVIOUS
  <2> HIDE DEF w
  <2> QED  BY <2>1 DEF Replay
<1>3. E \in SUBSET Nat
  <2>1. s.fr[f] \in Frames /\ Newest(s) \in Nat
    BY StateOf, NewestOf
  <2>2. s.fr[f].rec \in Seq(Recorded)
    BY <2>1 DEF Frames
  <2>3. DOMAIN s.fr[f].rec \subseteq Nat
    BY <2>2
  <2> QED  BY <2>1, <2>3
<1> HIDE DEF b, E
<1>4. v \in States(tree) /\ v.slots = s.slots /\ v.cbs = s.cbs /\ v.pipe = s.pipe /\ v.ok = s.ok
  BY <1>1, SetOff
<1> HIDE DEF v
<1>5. w \in States(tree) /\ w.slots = s.slots /\ w.cbs = s.cbs /\ w.pipe = s.pipe /\ w.ok = s.ok
  BY <1>4, SetSealed
<1> HIDE DEF w
<1>6. t \in States(tree) /\ t.slots = s.slots /\ t.cbs = s.cbs /\ t.pipe = s.pipe /\ (t.ok => s.ok)
  BY <1>5, ReplayedOf
<1> HIDE DEF t
<1>7. CASE t.ok
  <2>1. Replay(s, f) = Enqueue(t, 0, {}, E)
    BY <1>2, <1>7
  <2> QED  BY <1>3, <1>6, <2>1, EnqueueOf
<1>8. CASE ~t.ok
  BY <1>2, <1>6, <1>8
<1> QED  BY <1>7, <1>8

\* Sealing a command buffer moves no value and drops none that was baked.
LEMMA SealOf ==
  ASSUME NEW s \in States(tree), NEW f \in Heads(tree)
  PROVE  LET u == Seal(s, f) IN
         /\ u \in States(tree) /\ u.slots = s.slots /\ u.pipe = s.pipe /\ (u.ok => s.ok)
         /\ \A g \in Heads(tree) : s.cbs[g] # None => u.cbs[g] # None
<1> DEFINE fr == s.fr[f]
           refused == s.fault[1] = "finalize"
           baked == [rec |-> fr.rec, slots |-> fr.slots]
           v == [s EXCEPT !.fr[f].sealed = TRUE]
           w == [v EXCEPT !.cbs[f] = baked]
           b == fr.driver \/ (fr.eligible /\ refused)
           d == [s EXCEPT !.fr[f].driver = b]
<1>1. fr \in Frames
  BY StateOf
<1>2. fr.rec \in Seq(Recorded) /\ fr.ext \in SUBSET Nat /\ baked \in Baked /\ b \in BOOLEAN
  BY <1>1 DEF Frames, Baked
<1>3. Seal(s, f) = IF fr.eligible /\ ~refused THEN EnqueueCb(w, fr.rec, fr.ext) ELSE Replay(d, f)
  <2>1. [s EXCEPT !.fr[f].sealed = TRUE, !.cbs[f] = baked] = w
    OBVIOUS
  <2> HIDE DEF w
  <2> QED  BY <2>1 DEF Seal
<1>4. /\ w \in States(tree) /\ w.slots = s.slots /\ w.pipe = s.pipe /\ w.ok = s.ok
      /\ \A g \in Heads(tree) : s.cbs[g] # None => w.cbs[g] # None
  <2>1. v \in States(tree) /\ v.slots = s.slots /\ v.cbs = s.cbs /\ v.pipe = s.pipe /\ v.ok = s.ok
    BY SetSealed
  <2> HIDE DEF v, baked
  <2> QED  BY <1>2, <2>1, SetCb
<1>5. d \in States(tree) /\ d.slots = s.slots /\ d.cbs = s.cbs /\ d.pipe = s.pipe /\ d.ok = s.ok
  <2> HIDE DEF b
  <2> QED  BY <1>2, SetDriver
<1> HIDE DEF w, d, fr
<1>6. CASE fr.eligible /\ ~refused
  <2>1. Seal(s, f) = EnqueueCb(w, fr.rec, fr.ext)
    BY <1>3, <1>6
  <2> HIDE DEF refused
  <2> QED  BY <1>2, <1>4, <2>1, EnqueueCbOf
<1>7. CASE ~(fr.eligible /\ ~refused)
  <2>1. Seal(s, f) = Replay(d, f)
    BY <1>3, <1>7
  <2> HIDE DEF refused
  <2> QED  BY <1>5, <2>1, ReplayOf
<1> QED  BY <1>6, <1>7

\* So is stamping the events of what a span covers,
LEMMA RestampOf ==
  ASSUME NEW s \in States(tree), NEW n, NEW D \in SUBSET Nat
  PROVE  Calm(s, Restamp(s, n, D)) /\ Restamp(s, n, D).ok = s.ok
<1> DEFINE C == Range(OutCells(tree)[n])
           pipe == [c \in Cells(tree) |-> IF c \in C /\ s.pipe[c] # None THEN [s.pipe[c] EXCEPT !.deps = D]
                                          ELSE s.pipe[c]]
           u == [s EXCEPT !.pipe = pipe]
<1>1. s.pipe \in [Cells(tree) -> {None} \cup Held]
  BY StateOf
<1>2. Restamp(s, n, D) = u
  BY <1>1 DEF Restamp
<1>3. ASSUME NEW c \in Cells(tree)
      PROVE  /\ pipe[c] \in {None} \cup Held /\ (pipe[c] = None <=> s.pipe[c] = None)
             /\ s.pipe[c] # None => pipe[c].v = s.pipe[c].v /\ pipe[c].home = s.pipe[c].home
  <2> HIDE DEF C
  <2>1. CASE c \in C /\ s.pipe[c] # None
    <3>1. s.pipe[c] \in Held
      BY <1>1, <2>1
    <3>2. pipe[c] = [s.pipe[c] EXCEPT !.deps = D]
      BY <2>1
    <3>3. pipe[c] \in Held /\ pipe[c].v = s.pipe[c].v /\ pipe[c].home = s.pipe[c].home
      BY <3>1, <3>2 DEF Held
    <3> QED  BY <2>1, <3>3, NamesAssumption
  <2>2. CASE ~(c \in C /\ s.pipe[c] # None)
    <3>1. pipe[c] = s.pipe[c]
      BY <2>2
    <3> QED  BY <1>1, <3>1
  <2> QED  BY <2>1, <2>2
<1>4. pipe \in [Cells(tree) -> {None} \cup Held]
  <2>1. pipe = [c \in Cells(tree) |-> pipe[c]]
    OBVIOUS
  <2> HIDE DEF pipe
  <2> QED  BY <1>3, <2>1
<1> HIDE DEF pipe
<1>5. u \in States(tree) /\ u.slots = s.slots /\ u.cbs = s.cbs /\ u.pipe = pipe /\ u.ok = s.ok
  BY <1>4, SetPipe
<1> HIDE DEF u
<1> QED  BY <1>2, <1>3, <1>5 DEF Calm

\* and what is stamped keeps its value and its home.
LEMMA StampedOf ==
  ASSUME NEW s \in States(tree), NEW n
  PROVE  Calm(s, Stamped(s, n))
<1>1. CASE s.ok
  <2>1. Stamped(s, n) = Restamp(s, n, {Newest(s)}) /\ {Newest(s)} \in SUBSET Nat
    BY <1>1, NewestOf DEF Stamped
  <2> QED  BY <2>1, RestampOf
<1>2. CASE ~s.ok
  BY <1>2, CalmIs DEF Stamped
<1> QED  BY <1>1, <1>2

\* A command buffer is enqueued, or sealed first.
LEMMA CalmCb ==
  ASSUME NEW s \in States(tree), NEW f \in Heads(tree), s.cbs[f] # None
  PROVE  Calm(s, EnqueueCb(s, s.cbs[f].rec, s.fr[f].ext))
<1>1. s.cbs[f] \in Baked /\ s.fr[f] \in Frames
  BY StateOf
<1>2. s.cbs[f].rec \in Seq(Recorded) /\ s.fr[f].ext \in SUBSET Nat
  BY <1>1 DEF Baked, Frames
<1> QED  BY <1>2, EnqueueCbOf, CalmIs

LEMMA CalmSeal ==
  ASSUME NEW s \in States(tree), NEW f \in Heads(tree)
  PROVE  Calm(s, Seal(s, f))
BY SealOf DEF Calm

\* Closing a span is calm.
LEMMA CloseSpanOf ==
  ASSUME NEW s \in States(tree), NEW ec, ec.f \in Heads(tree), ec.cb \in {"build", "lend"},
         ec.cb = "lend" => s.cbs[ec.f] # None, NEW source
  PROVE  Calm(s, CloseSpan(source, ec, s))
<1> DEFINE f == ec.f
           t == [s EXCEPT !.fr[f].closed = TRUE]
           ext == s.fr[f].ext
           e == EnqueueCb(t, s.cbs[f].rec, ext)
<1>1. t \in States(tree) /\ t.slots = s.slots /\ t.cbs = s.cbs /\ t.pipe = s.pipe /\ t.ok = s.ok
  BY SetClosed
<1>2. CloseSpan(source, ec, s) =
        IF s.fr[f].closed THEN s
        ELSE IF ec.cb = "lend" THEN Stamped(e, source)
        ELSE IF s.fr[f].rec = <<>> THEN t
        ELSE Stamped(Seal(t, f), source)
  BY DEF CloseSpan
<1>3. Calm(s, t)
  BY <1>1, CalmIs
<1> HIDE DEF t
<1>4. ASSUME ec.cb = "lend" PROVE Calm(s, Stamped(e, source))
  <2>1. s.cbs[f] \in Baked /\ s.fr[f] \in Frames
    BY <1>4, StateOf
  <2>2. s.cbs[f].rec \in Seq(Recorded) /\ ext \in SUBSET Nat
    BY <2>1 DEF Baked, Frames
  <2> HIDE DEF ext
  <2>3. Calm(t, e) /\ e \in States(tree)
    BY <1>1, <2>2, EnqueueCbOf, CalmIs
  <2> HIDE DEF e
  <2> QED  BY <1>3, <2>3, StampedOf, CalmTrans
<1>5. Calm(s, Stamped(Seal(t, f), source))
  <2>1. Calm(t, Seal(t, f)) /\ Seal(t, f) \in States(tree)
    BY <1>1, CalmSeal, SealOf
  <2> QED  BY <1>3, <2>1, StampedOf, CalmTrans
<1>6. Calm(s, s)
  BY CalmIs
<1> HIDE DEF e
<1> QED  BY <1>2, <1>3, <1>4, <1>5, <1>6

LEMMA EndsOf ==
  ASSUME NEW s \in States(tree), NEW n \in Heads(tree), NEW ec, ec.cb = "lend" => s.cbs[n] # None
  PROVE  Calm(s, Ends(n, ec, s)) /\ Ends(n, ec, s) \in States(tree)
<1>1. Calm(s, Ends(n, ec, s))
  BY CalmCb, CalmSeal DEF Ends
<1> QED  BY <1>1 DEF Calm

\* The end of a walk is calm.
LEMMA EndExecOf ==
  ASSUME NEW s \in States(tree), NEW n \in Heads(tree), NEW ec, ec.cb = "lend" => s.cbs[n] # None
  PROVE  Calm(s, EndExec(n, ec, s))
<1>1. Calm(s, s)
  BY CalmIs
<1>2. Calm(s, Stamped(Ends(n, ec, s), n))
  BY EndsOf, StampedOf, CalmTrans
<1>3. Calm(s, Restamp(s, n, s.fr[n].ext))
  <2>1. s.fr[n] \in Frames
    BY StateOf
  <2>2. s.fr[n].ext \in SUBSET Nat
    BY <2>1 DEF Frames
  <2> QED  BY <2>2, RestampOf
<1> QED  BY <1>1, <1>2, <1>3 DEF EndExec

\* Marking what a cell reaches moves no value.
LEMMA ReachesOf ==
  ASSUME Graph(tree), NEW s \in States(tree), NEW n \in DOMAIN tree, NEW from \in Seq(Cells(tree)),
         Len(tree[n].on) = Len(from)
  PROVE  LET u == Reaches(s, n, from) IN
         u \in States(tree) /\ u.slots = s.slots /\ u.cbs = s.cbs /\ u.pipe = s.pipe /\ u.ok = s.ok
<1>1. CASE Len(from) = 1
  <2>1. <<n, 1>> \in Cells(tree) /\ from[1] \in Cells(tree)
    BY <1>1, OwnOf, CellsOf
  <2>2. s.reach[from[1]] \in SUBSET Slots
    BY <2>1, StateOf
  <2> QED  BY <1>1, <2>1, <2>2, ExtendOf DEF Reaches
<1>2. CASE Len(from) # 1
  BY <1>2 DEF Reaches
<1> QED  BY <1>1, <1>2

\* Nor does letting a cell stand for another.
LEMMA AliasedOf ==
  ASSUME NEW s \in States(tree), NEW n \in Nat, NEW ec, ec.f \in Heads(tree),
         <<n, 1>> \in Cells(tree), NEW from \in Cells(tree)
  PROVE  LET u == Aliased(s, n, ec, from) IN
         u \in States(tree) /\ u.slots = s.slots /\ u.cbs = s.cbs /\ u.pipe = s.pipe /\ u.ok = s.ok
<1> DEFINE c == <<n, 1>>
           v == Extend(s, c, s.reach[from])
           D == v.sp[ec.f][c] \cup s.sp[ec.f][from]
<1>0. c \in Cells(tree)
  OBVIOUS
<1>4. Aliased(s, n, ec, from) = [v EXCEPT !.sp[ec.f][c] = D]
  BY DEF Aliased
<1> HIDE DEF c
<1>1. s.reach[from] \in SUBSET Slots /\ s.sp[ec.f][c] \in SUBSET Nat /\ s.sp[ec.f][from] \in SUBSET Nat
  <2>1. s.reach \in [Cells(tree) -> SUBSET Slots] /\ s.sp \in [Heads(tree) -> [Cells(tree) -> SUBSET Nat]]
    BY StateOf
  <2>2. s.sp[ec.f] \in [Cells(tree) -> SUBSET Nat]
    BY <2>1
  <2> QED  BY <1>0, <2>1, <2>2
<1>2. /\ v \in States(tree) /\ v.slots = s.slots /\ v.cbs = s.cbs /\ v.pipe = s.pipe /\ v.ok = s.ok
      /\ v.sp = s.sp
  BY <1>0, <1>1, ExtendOf
<1>3. D \in SUBSET Nat
  BY <1>1, <1>2
<1> HIDE DEF D, v
<1> DEFINE f == ec.f
           u == [v EXCEPT !.sp[f][c] = D]
<1>5. f \in Heads(tree)
  OBVIOUS
<1>6. Aliased(s, n, ec, from) = u
  BY <1>4
<1> HIDE DEF f
<1>7. u \in States(tree) /\ u.slots = v.slots /\ u.cbs = v.cbs /\ u.pipe = v.pipe /\ u.ok = v.ok
  BY <1>0, <1>2, <1>3, <1>5, SetPoints
<1> HIDE DEF u
<1> QED  BY <1>2, <1>6, <1>7

\* What comes from outside a frame.
LEMMA ExternalOf ==
  ASSUME NEW s \in States(tree), NEW ec, ec.f \in Heads(tree), NEW D \in SUBSET Nat
  PROVE  LET u == External(s, ec, D) IN
         u \in States(tree) /\ u.slots = s.slots /\ u.cbs = s.cbs /\ u.pipe = s.pipe /\ u.ok = s.ok
BY SetExt DEF External

-----------------------------------------------------------------------------
(* Steps that move values                                                  *)

\* Sending values home leaves the slots with contents, and fills those they are for.
LEMMA HomesOf ==
  ASSUME NEW at \in [Slots -> Contents], NEW V, V \subseteq Held, \A v \in V : Sound(v)
  PROVE  /\ Rehomed(at, V) \in [Slots -> Contents]
         /\ \A x \in Slots : at[x] # None \/ (\E v \in V : v.home = x) => Rehomed(at, V)[x] # None
<1> DEFINE At(x) == IF \E v \in V : v.home = x THEN (CHOOSE v \in V : v.home = x).v ELSE at[x]
<1>1. ASSUME NEW x \in Slots
      PROVE  /\ At(x) \in Contents
             /\ at[x] # None \/ (\E v \in V : v.home = x) => At(x) # None
  <2>1. CASE \E v \in V : v.home = x
    <3>1. PICK w : w = (CHOOSE v \in V : v.home = x)
      OBVIOUS
    <3>2. w \in V /\ w.home = x
      BY <2>1, <3>1
    <3>3. w \in Held /\ w.v # None
      BY <3>2, NamesAssumption DEF Sound
    <3>4. At(x) = w.v
      BY <2>1, <3>1
    <3> HIDE DEF At
    <3> QED  BY <3>3, <3>4 DEF Held
  <2>2. CASE ~ \E v \in V : v.home = x
    BY <2>2
  <2> QED  BY <2>1, <2>2
<1>2. Rehomed(at, V) = [x \in Slots |-> At(x)]
  BY DEF Rehomed
<1> HIDE DEF At
<1> QED  BY <1>1, <1>2

\* Values sent home fill their slots and nothing else.
LEMMA RehomeAllOf ==
  ASSUME NEW s \in States(tree), NEW vs, Range(vs) \subseteq Held, \A v \in Range(vs) : Sound(v)
  PROVE  LET u == RehomeAll(s, vs) IN
         /\ u \in States(tree) /\ u.cbs = s.cbs /\ u.pipe = s.pipe /\ u.ok = s.ok
         /\ \A x \in Slots : s.slots[x] # None \/ (\E v \in Range(vs) : v.home = x) => u.slots[x] # None
<1> DEFINE at == Rehomed(s.slots, Range(vs))
<1>1. s.slots \in [Slots -> Contents]
  BY StateOf
<1>2. /\ at \in [Slots -> Contents]
      /\ \A x \in Slots : s.slots[x] # None \/ (\E v \in Range(vs) : v.home = x) => at[x] # None
  BY <1>1, HomesOf
<1>3. RehomeAll(s, vs) = [s EXCEPT !.slots = at]
  BY DEF RehomeAll
<1> HIDE DEF at
<1> QED  BY <1>2, <1>3, SetSlots

\* A value put in a cell is in it, and in no other cell.
LEMMA PutOf ==
  ASSUME NEW s \in States(tree), NEW c \in Cells(tree), NEW D \in SUBSET Nat,
         NEW v, v.v \in Contents, v.home \in Slots \cup {Nowhere}
  PROVE  LET u == Put(s, c, v, D) IN
         /\ u \in States(tree) /\ u.slots = s.slots /\ u.cbs = s.cbs /\ u.ok = s.ok
         /\ u.pipe[c] # None /\ u.pipe[c].v = v.v /\ u.pipe[c].home = v.home
         /\ \A d \in Cells(tree) : d # c => u.pipe[d] = s.pipe[d]
<1> DEFINE h == [v |-> v.v, home |-> v.home, deps |-> D]
           pipe == [s.pipe EXCEPT ![c] = h]
<1>1. h \in Held /\ h.v = v.v /\ h.home = v.home /\ h # None
  <2>1. h \in Held
    BY DEF Held
  <2> QED  BY <2>1, NamesAssumption
<1>2. Put(s, c, v, D) = [s EXCEPT !.pipe = pipe]
  BY DEF Put
<1> HIDE DEF h
<1>3. pipe \in [Cells(tree) -> {None} \cup Held] /\ pipe[c] = h
      /\ \A d \in Cells(tree) : d # c => pipe[d] = s.pipe[d]
  BY <1>1, StateOf
<1> HIDE DEF pipe
<1> QED  BY <1>1, <1>2, <1>3, SetPipe

\* It moves no slot and no command buffer.
LEMMA PutKeeps ==
  ASSUME NEW s \in States(tree), NEW c \in Cells(tree), NEW D \in SUBSET Nat,
         NEW v, v.v \in Contents, v.home \in Slots \cup {Nowhere}
  PROVE  LET u == Put(s, c, v, D) IN
         u \in States(tree) /\ u.slots = s.slots /\ u.cbs = s.cbs /\ u.ok = s.ok
<1> DEFINE h == [v |-> v.v, home |-> v.home, deps |-> D]
           pipe == [s.pipe EXCEPT ![c] = h]
<1>1. pipe \in [Cells(tree) -> {None} \cup Held]
  <2>1. h \in Held
    BY DEF Held
  <2> QED  BY <2>1, StateOf
<1>2. Put(s, c, v, D) = [s EXCEPT !.pipe = pipe]
  BY DEF Put
<1> HIDE DEF pipe
<1> QED  BY <1>1, <1>2, SetPipe

\* Values put in a row of cells.
LEMMA PutAllOf ==
  ASSUME Graph(tree), NEW s \in States(tree), NEW n \in DOMAIN tree, NEW D \in SUBSET Nat,
         NEW vs \in Seq(Held), Len(vs) = Len(tree[n].on)
  PROVE  LET u == PutAll(s, n, vs, D) IN
         /\ u \in States(tree) /\ u.slots = s.slots /\ u.cbs = s.cbs /\ u.ok = s.ok
         /\ \A c \in Cells(tree) :
              /\ c[1] = n => u.pipe[c] # None /\ u.pipe[c].v = vs[c[2]].v /\ u.pipe[c].home = vs[c[2]].home
              /\ c[1] # n => u.pipe[c] = s.pipe[c]
<1> DEFINE h(c) == [v |-> vs[c[2]].v, home |-> vs[c[2]].home, deps |-> D]
           pipe == [c \in Cells(tree) |-> IF c[1] = n THEN h(c) ELSE s.pipe[c]]
<1>1. s.pipe \in [Cells(tree) -> {None} \cup Held]
  BY StateOf
<1>2. PutAll(s, n, vs, D) = [s EXCEPT !.pipe = pipe]
  BY <1>1 DEF PutAll
<1>3. ASSUME NEW c \in Cells(tree), c[1] = n
      PROVE  h(c) \in Held /\ h(c) # None /\ h(c).v = vs[c[2]].v /\ h(c).home = vs[c[2]].home
  <2>1. c[2] \in DOMAIN tree[n].on
    BY <1>3, CellsOf
  <2>2. c[2] \in 1..Len(vs)
    BY <2>1, OwnOf
  <2>3. vs[c[2]] \in Held
    BY <2>2
  <2>4. vs[c[2]].v \in Contents /\ vs[c[2]].home \in Slots \cup {Nowhere}
    BY <2>3 DEF Held
  <2>5. h(c) \in Held
    BY <2>4 DEF Held
  <2> QED  BY <2>5, NamesAssumption
<1> HIDE DEF h
<1>4. pipe \in [Cells(tree) -> {None} \cup Held]
  BY <1>1, <1>3
<1>5. \A c \in Cells(tree) : pipe[c] = IF c[1] = n THEN h(c) ELSE s.pipe[c]
  OBVIOUS
<1> HIDE DEF pipe
<1> DEFINE u == PutAll(s, n, vs, D)
<1>6. /\ u \in States(tree) /\ u.slots = s.slots /\ u.cbs = s.cbs /\ u.ok = s.ok /\ u.pipe = pipe
  BY <1>2, <1>4, SetPipe
<1> HIDE DEF u
<1>7. \A c \in Cells(tree) :
        /\ c[1] = n => u.pipe[c] # None /\ u.pipe[c].v = vs[c[2]].v /\ u.pipe[c].home = vs[c[2]].home
        /\ c[1] # n => u.pipe[c] = s.pipe[c]
  BY <1>3, <1>5, <1>6
<1> QED  BY <1>6, <1>7 DEF u

-----------------------------------------------------------------------------
(* The contract of a node                                                  *)

\* A step that moves no value keeps what the contract is about.
LEMMA CalmSame ==
  ASSUME NEW s, NEW u, Calm(s, u)
  PROVE  /\ u \in States(tree) /\ u.slots = s.slots /\ (u.ok => s.ok)
         /\ Full(u) = Full(s) /\ (Sane(s) => Sane(u)) /\ \A x : Owned(s, x) <=> Owned(u, x)
<1>1. Full(u) = Full(s)
  BY DEF Calm, Full
<1>2. \A c \in Full(s) : u.pipe[c].v = s.pipe[c].v /\ u.pipe[c].home = s.pipe[c].home
  BY DEF Calm, Full
<1>3. u.slots = s.slots
  BY DEF Calm
<1> QED  BY <1>1, <1>2, <1>3 DEF Calm, Sane, Sound, Owned

\* What a node is asked of, it may be asked of after calm steps.
LEMMA CalmAsked ==
  ASSUME NEW s, NEW u, NEW n, NEW ec, Calm(s, u), u.ok, Asked(n, ec, s)
  PROVE  Asked(n, ec, u)
<1>1. /\ u \in States(tree) /\ u.slots = s.slots /\ Full(u) = Full(s) /\ Sane(u)
  BY CalmSame DEF Asked
<1>2. \A f \in Heads(tree) : s.cbs[f] # None => u.cbs[f] # None
  BY DEF Calm
<1> QED  BY <1>1, <1>2 DEF Asked

\* Calm steps after the walk of a node undo nothing it has kept.
LEMMA CalmKept ==
  ASSUME NEW s, NEW u, NEW v, NEW n, Calm(u, v), Kept(n, s, u)
  PROVE  Kept(n, s, v)
<1>1. v \in States(tree) /\ v.slots = u.slots /\ Full(v) = Full(u) /\ Sane(v)
  BY CalmSame DEF Kept
<1>2. \A f \in Heads(tree) : u.cbs[f] # None => v.cbs[f] # None
  BY DEF Calm
<1> QED  BY <1>1, <1>2 DEF Kept

\* An execution followed by calm steps is an execution.
LEMMA CalmExecutes ==
  ASSUME NEW s, NEW u, NEW v, NEW n, Calm(u, v), Executes(n, s, u)
  PROVE  Executes(n, s, v)
<1>1. Kept(n, s, v) /\ Full(v) = Full(u) /\ (v.ok => u.ok) /\ \A x : Owned(u, x) <=> Owned(v, x)
  BY CalmKept, CalmSame DEF Executes
<1> QED  BY <1>1 DEF Executes

-----------------------------------------------------------------------------
(* Leaves                                                                  *)

\* The inputs of a leaf, as it finds them.
LEMMA ValuesOf ==
  ASSUME Graph(tree), NEW n \in DOMAIN tree, tree[n].k \in Takers, NEW ec, NEW s, Asked(n, ec, s)
  PROVE  /\ Values(s, n) \in Seq(Held) /\ Len(Values(s, n)) = Len(tree[n].on)
         /\ \A i \in 1..Len(tree[n].on) :
              LET v == Values(s, n)[i] IN
              /\ v = Value(s, In(n)[i])
              /\ v.home \in {Nowhere, tree[n].on[i]} /\ Sound(v)
         /\ DepsOf(Values(s, n)) \in SUBSET Nat /\ Bufs(Values(s, n)) \in SUBSET Contents
<1> DEFINE L == Len(tree[n].on)
           vs == Values(s, n)
<1>0. tree[n].k \in Leaves /\ tree[n].k \notin {"mint", "upload"} /\ L \in Nat /\ s \in States(tree)
  BY OwnOf DEF Takers, Asked
<1>1. /\ In(n) \in Seq(Inputs) /\ Len(In(n)) = L /\ Inlets(tree, n) = Range(In(n))
      /\ \A i \in 1..L :
           \/ In(n)[i] = <<"slot", tree[n].on[i]>>
           \/ /\ In(n)[i] = <<"cell", In(n)[i][2]>> /\ In(n)[i][2] \in Cells(tree)
              /\ Letter(tree, In(n)[i][2]) = tree[n].on[i]
  BY <1>0, InletsOf DEF In
<1>2. Uses(tree, n) = Range(In(n))
  BY <1>0, <1>1, FlowOf
<1>3. vs = [i \in 1..L |-> Value(s, In(n)[i])]
  BY <1>0, <1>1 DEF Values
<1>4. ASSUME NEW i \in 1..L
      PROVE  LET v == Value(s, In(n)[i]) IN v \in Held /\ v.home \in {Nowhere, tree[n].on[i]} /\ Sound(v)
  <2>1. In(n)[i] \in Uses(tree, n) /\ tree[n].on[i] \in Slots
    BY <1>0, <1>1, <1>2, OwnOf DEF Range
  <2>2. CASE In(n)[i] = <<"slot", tree[n].on[i]>>
    <3> DEFINE x == tree[n].on[i]
               v == [v |-> s.slots[x], home |-> x, deps |-> s.gate]
    <3>1. x \in UsedSlots(tree, n)
      BY <2>1, <2>2 DEF UsedSlots
    <3>2. s.slots[x] # None /\ s.slots[x] \in Contents /\ s.gate \in SUBSET Nat
      BY <3>1, <2>1, <1>0, StateOf DEF Asked
    <3>3. Value(s, In(n)[i]) = v
      BY <2>2 DEF Value
    <3>4. v \in Held /\ Sound(v)
      BY <2>1, <3>2 DEF Held, Sound
    <3> QED  BY <3>3, <3>4
  <2>3. CASE /\ In(n)[i] = <<"cell", In(n)[i][2]>> /\ In(n)[i][2] \in Cells(tree)
             /\ Letter(tree, In(n)[i][2]) = tree[n].on[i]
    <3>1. PICK c \in Cells(tree) : In(n)[i] = <<"cell", c>> /\ Letter(tree, c) = tree[n].on[i]
      BY <2>3
    <3>2. c \in UsedCells(tree, n)
      BY <2>1, <3>1 DEF UsedCells
    <3>3. c \in Full(s) /\ Sane(s)
      BY <3>2 DEF Asked
    <3>4. s.pipe[c] \in Held
      BY <3>3, <1>0, StateOf DEF Full
    <3>5. Value(s, In(n)[i]) = s.pipe[c]
      BY <3>1 DEF Value
    <3> QED  BY <3>1, <3>3, <3>4, <3>5 DEF Sane
  <2> QED  BY <1>1, <2>2, <2>3
<1>5. vs \in Seq(Held) /\ Len(vs) = L /\ DOMAIN vs = 1..L
  BY <1>0, <1>3, <1>4
<1>6. ASSUME NEW i \in 1..L PROVE vs[i].deps \in SUBSET Nat /\ vs[i].v \in Contents
  <2>1. vs[i] \in Held
    BY <1>3, <1>4
  <2> QED  BY <2>1 DEF Held
<1>7. DepsOf(vs) \in SUBSET Nat /\ Bufs(vs) \in SUBSET Contents
  <2> HIDE DEF vs
  <2> QED  BY <1>5, <1>6 DEF DepsOf, Bufs
<1>8. \A i \in 1..L : vs[i] = Value(s, In(n)[i])
  BY <1>3
<1> HIDE DEF vs
<1> QED  BY <1>4, <1>5, <1>7, <1>8 DEF vs

\* What is left when they are taken.
LEMMA LentOf ==
  ASSUME Graph(tree), NEW n \in DOMAIN tree, tree[n].k \in Takers, NEW s \in States(tree)
  PROVE  LET u == LentAll(s, n) IN
         /\ u \in States(tree) /\ u.cbs = s.cbs /\ u.ok = s.ok
         /\ \A x \in Slots : u.slots[x] = IF x \in UsedSlots(tree, n) THEN None ELSE s.slots[x]
         /\ \A c \in Cells(tree) : u.pipe[c] = IF c \in UsedCells(tree, n) THEN None ELSE s.pipe[c]
<1> DEFINE at == [x \in Slots |-> IF x \in UsedSlots(tree, n) THEN None ELSE s.slots[x]]
           pipe == [c \in Cells(tree) |-> IF c \in UsedCells(tree, n) THEN None ELSE s.pipe[c]]
           t == [s EXCEPT !.slots = at]
           u == [t EXCEPT !.pipe = pipe]
<1>0. tree[n].k \in Leaves /\ tree[n].k \notin {"mint", "upload"}
  BY DEF Takers
<1>1. Uses(tree, n) = Range(In(n))
  BY <1>0, InletsOf, FlowOf DEF In
<1>2. /\ \A x \in Slots : Takes(n, "slot", x) <=> x \in UsedSlots(tree, n)
      /\ \A c \in Cells(tree) : Takes(n, "cell", c) <=> c \in UsedCells(tree, n)
  BY <1>1 DEF Takes, Range, UsedSlots, UsedCells
<1>3. s.slots \in [Slots -> Contents] /\ s.pipe \in [Cells(tree) -> {None} \cup Held] /\ None \in Contents
  BY StateOf DEF Contents
<1>4. LentAll(s, n) = u
  <2>1. at = [x \in DOMAIN s.slots |-> IF Takes(n, "slot", x) THEN None ELSE s.slots[x]]
    BY <1>2, <1>3
  <2>2. pipe = [c \in DOMAIN s.pipe |-> IF Takes(n, "cell", c) THEN None ELSE s.pipe[c]]
    BY <1>2, <1>3
  <2>3. LentAll(s, n) = [s EXCEPT !.slots = at, !.pipe = pipe]
    BY <2>1, <2>2 DEF LentAll
  <2> HIDE DEF at, pipe
  <2> QED  BY <2>3
<1>5. at \in [Slots -> Contents] /\ pipe \in [Cells(tree) -> {None} \cup Held]
  BY <1>3
<1>6. /\ \A x \in Slots : at[x] = IF x \in UsedSlots(tree, n) THEN None ELSE s.slots[x]
      /\ \A c \in Cells(tree) : pipe[c] = IF c \in UsedCells(tree, n) THEN None ELSE s.pipe[c]
  OBVIOUS
<1> HIDE DEF at, pipe
<1>7. t \in States(tree) /\ t.slots = at /\ t.cbs = s.cbs /\ t.ok = s.ok
  BY <1>5, SetSlots
<1> HIDE DEF t
<1>8. u \in States(tree) /\ u.slots = at /\ u.pipe = pipe /\ u.cbs = s.cbs /\ u.ok = s.ok
  BY <1>5, <1>7, SetPipe
<1> HIDE DEF u
<1> QED  BY <1>4, <1>6, <1>8

\* The cells of a leaf that has cells of its own.
LEMMA LeafCells ==
  ASSUME Graph(tree), NEW n \in DOMAIN tree, tree[n].k \in Leaves \ {"pipe"}
  PROVE  /\ CellsUnder(tree, n) = OwnCells(tree, n) /\ Gives(tree, n) = OwnCells(tree, n)
         /\ Undelivered(tree)[n] = OwnCells(tree, n) /\ Range(OutCells(tree)[n]) = OwnCells(tree, n)
         /\ OutCells(tree)[n] = Own(tree, n)
         /\ \A c \in OwnCells(tree, n) : /\ c[2] \in 1..Len(tree[n].on) /\ c = <<n, c[2]>>
                                         /\ Letter(tree, c) = tree[n].on[c[2]]
         /\ \A i \in 1..Len(tree[n].on) : <<n, i>> \in OwnCells(tree, n)
<1>0. tree[n].k \in Leaves /\ tree[n].k # "pipe" /\ tree[n].k \notin {"then", "bundle"} /\ tree[n].k # "host"
  BY DEF Leaves
<1>1. OutCells(tree)[n] = Own(tree, n) /\ Range(Own(tree, n)) = OwnCells(tree, n)
  BY <1>0, OutCellsOf, OwnOf DEF Outlets
<1>2. Gives(tree, n) = OwnCells(tree, n)
  BY <1>0, <1>1, FlowOf
<1>3. CellsUnder(tree, n) = OwnCells(tree, n)
  <2>1. Under(tree, n) = {n}
    BY <1>0, UnderOf
  <2> QED  BY <2>1 DEF CellsUnder, OwnCells
<1>4. Undelivered(tree)[n] = OwnCells(tree, n)
  <2>1. Undelivered(tree)[n] = Range(OutCells(tree)[n])
    BY <1>0, UndeliveredIs
  <2> QED  BY <2>1, <1>1
<1>5. \A c \in OwnCells(tree, n) : /\ c[2] \in 1..Len(tree[n].on) /\ c = <<n, c[2]>>
                                   /\ Letter(tree, c) = tree[n].on[c[2]]
  BY CellsOf, OwnOf DEF OwnCells, Letter
<1>6. \A i \in 1..Len(tree[n].on) : <<n, i>> \in OwnCells(tree, n)
  BY CellsOf, OwnOf DEF OwnCells
<1> QED  BY <1>1, <1>2, <1>3, <1>4, <1>5, <1>6

\* A leaf that takes its inputs executes, if they end up in its cells or at home.
LEMMA MovedLeaf ==
  ASSUME Graph(tree), NEW n \in DOMAIN tree, tree[n].k \in Takers, NEW ec, NEW s, Asked(n, ec, s),
         NEW u \in States(tree), u.cbs = s.cbs,
         \A c \in Cells(tree) :
           c[1] # n => u.pipe[c] = IF c \in UsedCells(tree, n) THEN None ELSE s.pipe[c],
         \/ u.ok /\ \A c \in OwnCells(tree, n) :
              u.pipe[c] # None /\ u.pipe[c].home \in {Nowhere, Letter(tree, c)} /\ Sound(u.pipe[c])
         \/ u.ok = FALSE /\ \A c \in OwnCells(tree, n) : u.pipe[c] = None,
         \A x \in Slots : x \notin UsedSlots(tree, n) /\ s.slots[x] # None => u.slots[x] # None,
         \A i \in 1..Len(tree[n].on) : \A x \in Slots :
           Values(s, n)[i].home = x =>
             \/ u.slots[x] # None
             \/ \E c \in OwnCells(tree, n) : u.pipe[c] # None /\ u.pipe[c].home = x
  PROVE  Neat(n, s, u)
<1> DEFINE own == OwnCells(tree, n)
           used == UsedCells(tree, n)
<1>0. tree[n].k \in Leaves \ {"pipe"} /\ tree[n].k \notin {"mint", "upload"}
  BY DEF Takers
<1>1. /\ CellsUnder(tree, n) = own /\ Gives(tree, n) = own /\ Undelivered(tree)[n] = own
      /\ own \subseteq Cells(tree) /\ \A c \in Cells(tree) : c \in own <=> c[1] = n
  BY <1>0, LeafCells DEF OwnCells
<1>2. used \subseteq Full(s) /\ Full(s) \cap own = {} /\ Sane(s) /\ s \in States(tree)
  BY <1>1 DEF Asked
<1>3. \A c \in Cells(tree) \ own : u.pipe[c] = IF c \in used THEN None ELSE s.pipe[c]
  BY <1>1
<1>4. Full(u) \ own = Full(s) \ used
  BY <1>1, <1>2, <1>3 DEF Full
<1>5. (u.ok /\ own \subseteq Full(u)) \/ (u.ok = FALSE /\ Full(u) \cap own = {})
  BY <1>1 DEF Full
<1>6. Sane(u)
  <2> SUFFICES ASSUME NEW c \in Full(u)
               PROVE  u.pipe[c].home \in {Nowhere, Letter(tree, c)} /\ Sound(u.pipe[c])
    BY DEF Sane
  <2>1. CASE c \in own
    BY <2>1, <1>5 DEF Full
  <2>2. CASE c \notin own
    <3>1. c \in Full(s) /\ u.pipe[c] = s.pipe[c]
      BY <1>3, <1>4, <2>2 DEF Full
    <3> QED  BY <3>1, <1>2 DEF Sane
  <2> QED  BY <2>1, <2>2
<1>7. Kept(n, s, u)
  BY <1>1, <1>4, <1>6 DEF Kept
<1>8. u.ok => Full(u) = Filled(n, s)
  BY <1>1, <1>2, <1>4, <1>5 DEF Filled
<1>9. ASSUME NEW x \in Slots, Owned(s, x) PROVE Owned(u, x)
  <2>1. ASSUME NEW i \in 1..Len(tree[n].on), Values(s, n)[i].home = x
        PROVE  Owned(u, x)
    <3>1. u.slots[x] # None \/ \E c \in own : u.pipe[c] # None /\ u.pipe[c].home = x
      BY <2>1
    <3> QED  BY <3>1, <1>1 DEF Owned, Full
  <2>2. /\ Len(In(n)) = Len(tree[n].on) /\ In(n) \in Seq(Inputs) /\ Uses(tree, n) = Range(In(n))
        /\ Len(tree[n].on) \in Nat
    BY <1>0, InletsOf, FlowOf, OwnOf DEF In
  <2>3. \A in \in Uses(tree, n) : \E i \in 1..Len(tree[n].on) : In(n)[i] = in /\ Values(s, n)[i] = Value(s, in)
    BY <2>2, ValuesOf DEF Range
  <2>4. CASE s.slots[x] # None /\ x \notin UsedSlots(tree, n)
    BY <2>4 DEF Owned
  <2>5. CASE x \in UsedSlots(tree, n)
    <3>1. PICK i \in 1..Len(tree[n].on) : Values(s, n)[i] = Value(s, <<"slot", x>>)
      BY <2>3, <2>5 DEF UsedSlots
    <3>2. Value(s, <<"slot", x>>).home = x
      BY DEF Value
    <3> QED  BY <3>1, <3>2, <2>1
  <2>6. ASSUME NEW c \in Full(s), s.pipe[c].home = x PROVE Owned(u, x)
    <3>1. CASE c \in used
      <4>1. PICK i \in 1..Len(tree[n].on) : Values(s, n)[i] = Value(s, <<"cell", c>>)
        BY <2>3, <3>1 DEF UsedCells
      <4>2. Value(s, <<"cell", c>>) = s.pipe[c]
        BY DEF Value
      <4> QED  BY <4>1, <4>2, <2>1, <2>6
    <3>2. CASE c \notin used
      <4>1. c \in Full(u) /\ u.pipe[c] = s.pipe[c]
        BY <3>2, <1>2, <1>3, <1>4 DEF Full
      <4> QED  BY <4>1, <2>6 DEF Owned
    <3> QED  BY <3>1, <3>2
  <2> QED  BY <1>9, <2>4, <2>5, <2>6 DEF Owned
<1>10. Executes(n, s, u)
  BY <1>7, <1>8, <1>9 DEF Executes
<1> HIDE DEF own, used
<1>11. u.ok \/ Full(u) \subseteq Full(s)
  BY <1>4, <1>5
<1> QED  BY <1>10, <1>11 DEF Neat

\* A leaf that has put its inputs, in order, into its cells.
LEMMA FilledLeaf ==
  ASSUME Graph(tree), NEW n \in DOMAIN tree, tree[n].k \in Takers, NEW ec, NEW s, Asked(n, ec, s),
         NEW u \in States(tree), u.slots = LentAll(s, n).slots, u.cbs = s.cbs, u.ok,
         \A c \in Cells(tree) :
           /\ c[1] = n => /\ u.pipe[c] # None /\ u.pipe[c].v = Values(s, n)[c[2]].v
                          /\ u.pipe[c].home = Values(s, n)[c[2]].home
           /\ c[1] # n => u.pipe[c] = LentAll(s, n).pipe[c]
  PROVE  Neat(n, s, u)
<1> DEFINE vs == Values(s, n)
           w == LentAll(s, n)
<1>0. tree[n].k \in Leaves \ {"pipe"} /\ s \in States(tree)
  BY DEF Takers, Asked
<1>1. /\ vs \in Seq(Held) /\ Len(vs) = Len(tree[n].on)
      /\ \A i \in 1..Len(tree[n].on) : vs[i].home \in {Nowhere, tree[n].on[i]} /\ Sound(vs[i])
  BY ValuesOf
<1>3. \A c \in Cells(tree) :
        /\ c[1] = n => u.pipe[c] # None /\ u.pipe[c].v = vs[c[2]].v /\ u.pipe[c].home = vs[c[2]].home
        /\ c[1] # n => u.pipe[c] = w.pipe[c]
  OBVIOUS
<1> HIDE DEF vs
<1>2. /\ \A x \in Slots : w.slots[x] = IF x \in UsedSlots(tree, n) THEN None ELSE s.slots[x]
      /\ \A c \in Cells(tree) : w.pipe[c] = IF c \in UsedCells(tree, n) THEN None ELSE s.pipe[c]
  BY <1>0, LentOf
<1> HIDE DEF w
<1>4. ASSUME NEW c \in OwnCells(tree, n)
      PROVE  /\ u.pipe[c] # None /\ u.pipe[c].home \in {Nowhere, Letter(tree, c)} /\ Sound(u.pipe[c])
  <2>1. c[1] = n /\ c \in Cells(tree) /\ c[2] \in 1..Len(tree[n].on) /\ Letter(tree, c) = tree[n].on[c[2]]
    BY <1>0, LeafCells DEF OwnCells
  <2>2. u.pipe[c] # None /\ u.pipe[c].v = vs[c[2]].v /\ u.pipe[c].home = vs[c[2]].home
    BY <1>3, <2>1
  <2> QED  BY <1>1, <2>1, <2>2 DEF Sound
<1>5. ASSUME NEW i \in 1..Len(tree[n].on), NEW x \in Slots, Values(s, n)[i].home = x
      PROVE  \E c \in OwnCells(tree, n) : u.pipe[c] # None /\ u.pipe[c].home = x
  <2>1. <<n, i>> \in OwnCells(tree, n) /\ <<n, i>> \in Cells(tree) /\ <<n, i>>[1] = n /\ <<n, i>>[2] = i
    BY <1>0, LeafCells DEF OwnCells
  <2>2. vs[i].home = x
    BY <1>5 DEF vs
  <2> QED  BY <1>3, <2>1, <2>2
<1>6. \A c \in Cells(tree) : c[1] # n => u.pipe[c] = IF c \in UsedCells(tree, n) THEN None ELSE s.pipe[c]
  BY <1>2, <1>3
<1>7. \A x \in Slots : x \notin UsedSlots(tree, n) /\ s.slots[x] # None => u.slots[x] # None
  BY <1>2 DEF w
<1>8. u.ok /\ \A c \in OwnCells(tree, n) :
        u.pipe[c] # None /\ u.pipe[c].home \in {Nowhere, Letter(tree, c)} /\ Sound(u.pipe[c])
  BY <1>4
<1>9. \A i \in 1..Len(tree[n].on) : \A x \in Slots :
        Values(s, n)[i].home = x =>
          \/ u.slots[x] # None
          \/ \E c \in OwnCells(tree, n) : u.pipe[c] # None /\ u.pipe[c].home = x
  BY <1>5
<1> QED  BY <1>6, <1>7, <1>8, <1>9, MovedLeaf

\* And with one call for all of them, or for the one there is.
LEMMA PutAllLeaf ==
  ASSUME Graph(tree), NEW n \in DOMAIN tree, tree[n].k \in Takers, NEW ec, NEW s, Asked(n, ec, s),
         NEW t \in States(tree), t.slots = LentAll(s, n).slots, t.cbs = s.cbs, t.pipe = LentAll(s, n).pipe,
         t.ok, NEW D \in SUBSET Nat
  PROVE  Neat(n, s, PutAll(t, n, Values(s, n), D))
<1> DEFINE vs == Values(s, n)
           u == PutAll(t, n, vs, D)
<1>1. vs \in Seq(Held) /\ Len(vs) = Len(tree[n].on)
  BY ValuesOf
<1> HIDE DEF vs
<1>2. /\ u \in States(tree) /\ u.slots = t.slots /\ u.cbs = t.cbs /\ u.ok = t.ok
      /\ \A c \in Cells(tree) :
           /\ c[1] = n => u.pipe[c] # None /\ u.pipe[c].v = vs[c[2]].v /\ u.pipe[c].home = vs[c[2]].home
           /\ c[1] # n => u.pipe[c] = t.pipe[c]
  BY <1>1, PutAllOf
<1> HIDE DEF u
<1>3. \A c \in Cells(tree) :
        /\ c[1] = n => /\ u.pipe[c] # None /\ u.pipe[c].v = Values(s, n)[c[2]].v
                       /\ u.pipe[c].home = Values(s, n)[c[2]].home
        /\ c[1] # n => u.pipe[c] = LentAll(s, n).pipe[c]
  BY <1>2 DEF vs
<1>4. u \in States(tree) /\ u.slots = LentAll(s, n).slots /\ u.cbs = s.cbs /\ u.ok
  BY <1>2
<1>5. Neat(n, s, u)
  BY <1>3, <1>4, FilledLeaf
<1> QED  BY <1>5 DEF u, vs

\* A leaf that takes one value and delivers it is neat.
LEMMA PutLeaf ==
  ASSUME Graph(tree), NEW n \in DOMAIN tree, tree[n].k \in Takers, NEW ec, NEW s, Asked(n, ec, s),
         Len(tree[n].on) = 1,
         NEW t \in States(tree), t.slots = LentAll(s, n).slots, t.cbs = s.cbs, t.pipe = LentAll(s, n).pipe,
         t.ok, NEW D \in SUBSET Nat
  PROVE  Neat(n, s, Put(t, <<n, 1>>, Value(s, In(n)[1]), D))
<1> DEFINE v == Value(s, In(n)[1])
           c0 == <<n, 1>>
           u == Put(t, c0, v, D)
<1>0. tree[n].k \in Leaves \ {"pipe"}
  BY DEF Takers
<1>1. Values(s, n) \in Seq(Held) /\ Len(Values(s, n)) = 1 /\ Values(s, n)[1] = v
  BY ValuesOf
<1>2. v \in Held
  BY <1>1, ElementOfSeq
<1>3. v.v \in Contents /\ v.home \in Slots \cup {Nowhere}
  BY <1>2 DEF Held
<1>c. c0 \in Cells(tree)
  BY <1>0, LeafCells DEF OwnCells
<1>4. \A c \in Cells(tree) : c[1] = n => c = c0 /\ c[2] = 1
  BY <1>0, LeafCells DEF OwnCells
<1> HIDE DEF c0, v
<1>5. /\ u \in States(tree) /\ u.slots = t.slots /\ u.cbs = t.cbs /\ u.ok = t.ok
      /\ u.pipe[c0] # None /\ u.pipe[c0].v = v.v /\ u.pipe[c0].home = v.home
      /\ \A d \in Cells(tree) : d # c0 => u.pipe[d] = t.pipe[d]
  <2>1. u \in States(tree)
    BY <1>3, <1>c, PutOf
  <2>2. u.slots = t.slots /\ u.cbs = t.cbs /\ u.ok = t.ok
    BY <1>3, <1>c, PutOf
  <2>3. u.pipe[c0] # None /\ u.pipe[c0].v = v.v /\ u.pipe[c0].home = v.home
    BY <1>3, <1>c, PutOf
  <2>4. \A d \in Cells(tree) : d # c0 => u.pipe[d] = t.pipe[d]
    BY <1>3, <1>c, PutOf
  <2> QED  BY <2>1, <2>2, <2>3, <2>4
<1> HIDE DEF u
<1>6. \A c \in Cells(tree) :
        /\ c[1] = n => /\ u.pipe[c] # None /\ u.pipe[c].v = Values(s, n)[c[2]].v
                       /\ u.pipe[c].home = Values(s, n)[c[2]].home
        /\ c[1] # n => u.pipe[c] = LentAll(s, n).pipe[c]
  <2> TAKE c \in Cells(tree)
  <2>1. CASE c[1] = n
    BY <2>1, <1>1, <1>4, <1>5
  <2>2. CASE c[1] # n
    <3>1. c # c0
      BY <2>2 DEF c0
    <3> QED  BY <2>2, <3>1, <1>5
  <2> QED  BY <2>1, <2>2
<1>7. u \in States(tree) /\ u.slots = LentAll(s, n).slots /\ u.cbs = s.cbs /\ u.ok
  BY <1>5
<1>8. Neat(n, s, u)
  BY <1>6, <1>7, FilledLeaf
<1> QED  BY <1>8 DEF u, c0, v

\* A leaf that is refused, and has brought its inputs home.
LEMMA RefusedLeaf ==
  ASSUME Graph(tree), NEW n \in DOMAIN tree, tree[n].k \in Takers, NEW ec, NEW s, Asked(n, ec, s),
         NEW u, u = Failed(RehomeAll(LentAll(s, n), Values(s, n)))
  PROVE  Neat(n, s, u)
<1> DEFINE vs == Values(s, n)
           w == LentAll(s, n)
           t == RehomeAll(w, vs)
<1>0. tree[n].k \in Leaves \ {"pipe"} /\ s \in States(tree) /\ Len(tree[n].on) \in Nat
  BY OwnOf DEF Takers, Asked
<1>1. /\ vs \in Seq(Held) /\ Len(vs) = Len(tree[n].on)
      /\ \A i \in 1..Len(tree[n].on) : Sound(vs[i])
  BY ValuesOf
<1> HIDE DEF vs
<1>2. /\ w \in States(tree) /\ w.cbs = s.cbs
      /\ \A x \in Slots : w.slots[x] = IF x \in UsedSlots(tree, n) THEN None ELSE s.slots[x]
      /\ \A c \in Cells(tree) : w.pipe[c] = IF c \in UsedCells(tree, n) THEN None ELSE s.pipe[c]
  BY <1>0, LentOf
<1> HIDE DEF w
<1>3. Range(vs) \subseteq Held /\ (\A v \in Range(vs) : Sound(v)) /\ \A i \in 1..Len(tree[n].on) : vs[i] \in Range(vs)
  BY <1>0, <1>1 DEF Range
<1>4. /\ t \in States(tree) /\ t.cbs = w.cbs /\ t.pipe = w.pipe
      /\ \A x \in Slots : w.slots[x] # None \/ (\E v \in Range(vs) : v.home = x) => t.slots[x] # None
  BY <1>2, <1>3, RehomeAllOf
<1> HIDE DEF t
<1>5. u \in States(tree) /\ u.slots = t.slots /\ u.cbs = t.cbs /\ u.pipe = t.pipe /\ u.ok = FALSE
  BY <1>4, FailedOf DEF t, w, vs
<1>6. \A c \in OwnCells(tree, n) : u.pipe[c] = None
  <2>1. ASSUME NEW c \in OwnCells(tree, n) PROVE s.pipe[c] = None
    <3>1. c \in CellsUnder(tree, n) /\ c \in Cells(tree)
      BY <1>0, LeafCells DEF OwnCells
    <3> QED  BY <3>1 DEF Asked, Full
  <2> QED  BY <2>1, <1>2, <1>4, <1>5 DEF OwnCells
<1>7. \A c \in Cells(tree) : c[1] # n => u.pipe[c] = IF c \in UsedCells(tree, n) THEN None ELSE s.pipe[c]
  BY <1>2, <1>4, <1>5
<1>8. \A x \in Slots : x \notin UsedSlots(tree, n) /\ s.slots[x] # None => u.slots[x] # None
  BY <1>2, <1>4, <1>5
<1>9. \A i \in 1..Len(tree[n].on) : \A x \in Slots : vs[i].home = x => u.slots[x] # None
  BY <1>3, <1>4, <1>5
<1>10. u.cbs = s.cbs
  BY <1>2, <1>4, <1>5
<1>11. \A i \in 1..Len(tree[n].on) : \A x \in Slots :
         Values(s, n)[i].home = x =>
           \/ u.slots[x] # None
           \/ \E c \in OwnCells(tree, n) : u.pipe[c] # None /\ u.pipe[c].home = x
  BY <1>9 DEF vs
<1>12. u \in States(tree) /\ u.ok = FALSE
  BY <1>5
<1> HIDE DEF t
<1>13. Neat(n, s, u)
  BY <1>6, <1>7, <1>8, <1>10, <1>11, <1>12, MovedLeaf
<1> QED  BY <1>13 DEF t, vs, w

\* A leaf that works on one buffer.
LEMMA SingleOf ==
  ASSUME Graph(tree), NEW n \in DOMAIN tree,
         tree[n].k \in {"lift", "forward", "download", "mint", "upload"}
  PROVE  Len(tree[n].on) = 1
<1>1. Wired(tree, n)
  BY DEF Graph
<1> QED  BY <1>1 DEF Wired, Leaves

\* The sync points and the traced slots of an input.
LEMMA PointsOf ==
  ASSUME Graph(tree), NEW n \in DOMAIN tree, tree[n].k \in Takers, NEW ec, ec.f \in Heads(tree),
         NEW s \in States(tree), NEW i \in 1..Len(tree[n].on)
  PROVE  Points(s, ec, In(n)[i]) \in SUBSET Nat /\ Origins(s, In(n)[i]) \in SUBSET Slots
<1> DEFINE in == In(n)[i]
           f == ec.f
<1>0. s.reach \in [Cells(tree) -> SUBSET Slots] /\ s.sp[f] \in [Cells(tree) -> SUBSET Nat]
  <2>1. s.sp \in [Heads(tree) -> [Cells(tree) -> SUBSET Nat]]
    BY StateOf
  <2> QED  BY <2>1, StateOf
<1>1. \/ in = <<"slot", tree[n].on[i]>> /\ tree[n].on[i] \in Slots
      \/ in = <<"cell", in[2]>> /\ in[2] \in Cells(tree)
  BY InletsOf, OwnOf DEF Takers, In
<1> HIDE DEF in
<1>2. CASE in = <<"slot", tree[n].on[i]>> /\ tree[n].on[i] \in Slots
  BY <1>2 DEF Points, Origins, in
<1>3. CASE in = <<"cell", in[2]>> /\ in[2] \in Cells(tree)
  <2>1. PICK c \in Cells(tree) : in = <<"cell", c>>
    BY <1>3
  <2>2. Points(s, ec, in) = s.sp[f][c] /\ Origins(s, in) = s.reach[c]
    BY <2>1 DEF Points, Origins
  <2> QED  BY <2>2, <1>0 DEF in
<1> QED  BY <1>1, <1>2, <1>3

\* What is recorded of a leaf.
LEMMA RecordOf ==
  ASSUME Graph(tree), NEW n \in DOMAIN tree, tree[n].k \in Takers, NEW ec, ec.f \in Heads(tree),
         NEW s \in States(tree), NEW vs, Bufs(vs) \in SUBSET Contents
  PROVE  LET u == Record(s, ec, n, vs) IN
         u \in States(tree) /\ u.slots = s.slots /\ u.cbs = s.cbs /\ u.pipe = s.pipe /\ u.ok = s.ok
<1> DEFINE ins == In(n)
           L == Len(tree[n].on)
           f == ec.f
           waits == UNION {Points(s, ec, ins[i]) : i \in DOMAIN ins}
           origins == UNION {Origins(s, ins[i]) : i \in DOMAIN ins}
           e == Len(s.fr[f].rec) + 1
           cmd == [n |-> n, on |-> Bufs(vs), waits |-> waits]
           able == s.fault \notin {"record", "decline", "reject"} \X {n}
           driven == Meets(s, "record", n)
           g == [s.fr[f] EXCEPT !.rec = Append(@, cmd), !.slots = @ \cup origins,
                                !.eligible = @ /\ able, !.driver = @ \/ driven]
           fr == [s.fr EXCEPT ![f] = g]
           reach == [c \in DOMAIN s.reach |-> IF c[1] = n THEN s.reach[c] \cup Origins(s, ins[c[2]]) ELSE s.reach[c]]
           row == [c \in DOMAIN s.sp[f] |-> IF c[1] = n THEN {e} ELSE s.sp[f][c]]
           sp == [s.sp EXCEPT ![f] = row]
<1>0. /\ s.reach \in [Cells(tree) -> SUBSET Slots] /\ s.sp \in [Heads(tree) -> [Cells(tree) -> SUBSET Nat]]
      /\ s.fr \in [Heads(tree) -> Frames] /\ f \in Heads(tree)
      /\ s.sp[f] \in [Cells(tree) -> SUBSET Nat] /\ s.fr[f] \in Frames /\ n \in Nat /\ L \in Nat
  <2>1. n \in Nat
    BY NodesOf
  <2> QED  BY <2>1, StateOf, OwnOf
<1>1. ins \in Seq(Inputs) /\ Len(ins) = L
  BY InletsOf DEF Takers, In
<1>3. ASSUME NEW i \in 1..L
      PROVE  Points(s, ec, ins[i]) \in SUBSET Nat /\ Origins(s, ins[i]) \in SUBSET Slots
  BY PointsOf
<1>4. DOMAIN ins = 1..L
  BY <1>0, <1>1
<1>5. Record(s, ec, n, vs) = [[[s EXCEPT !.fr = fr] EXCEPT !.reach = reach] EXCEPT !.sp = sp]
  <2> DEFINE at(c) == Origins(s, ins[c[2]])
             a == [s EXCEPT !.fr[f] = g]
             b == [a EXCEPT !.reach = reach]
  <2>1. Record(s, ec, n, vs) = [s EXCEPT !.fr[f] = g, !.reach = reach, !.sp[f] = row]
    BY DEF Record
  <2> HIDE DEF f, g, reach, row
  <2>2. a = [s EXCEPT !.fr = fr]
    OBVIOUS
  <2>3. b.sp = s.sp /\ Record(s, ec, n, vs) = [b EXCEPT !.sp[f] = row]
    BY <2>1
  <2>4. [b EXCEPT !.sp[f] = row] = [b EXCEPT !.sp = [b.sp EXCEPT ![f] = row]]
    OBVIOUS
  <2> QED  BY <2>2, <2>3, <2>4
<1> HIDE DEF ins
<1>6. waits \in SUBSET Nat /\ origins \in SUBSET Slots
  BY <1>3, <1>4
<1> HIDE DEF waits, origins
<1>7. s.fr[f].rec \in Seq(Recorded) /\ cmd \in Recorded /\ e \in Nat 
      /\ s.fr[f].slots \in SUBSET Slots /\ s.fr[f].eligible \in BOOLEAN /\ s.fr[f].driver \in BOOLEAN
  BY <1>0, <1>6 DEF Frames, Recorded
<1> HIDE DEF cmd, e, able, driven
<1>8. g \in Frames
  <2>1. Append(s.fr[f].rec, cmd) \in Seq(Recorded) /\ s.fr[f].slots \cup origins \in SUBSET Slots
    BY <1>6, <1>7
  <2> QED  BY <2>1, <1>0, <1>7 DEF Frames
<1> HIDE DEF g
<1>9. fr \in [Heads(tree) -> Frames]
  BY <1>0, <1>8
<1>10. reach \in [Cells(tree) -> SUBSET Slots]
  <2>1. ASSUME NEW c \in Cells(tree), c[1] = n
        PROVE  s.reach[c] \cup Origins(s, ins[c[2]]) \in SUBSET Slots
    <3>1. c[2] \in 1..L
      BY <2>1, CellsOf, OwnOf
    <3> QED  BY <3>1, <1>0, <1>3
  <2> QED  BY <2>1, <1>0
<1>11. sp \in [Heads(tree) -> [Cells(tree) -> SUBSET Nat]]
  <2>1. row \in [Cells(tree) -> SUBSET Nat]
    BY <1>0, <1>7
  <2> HIDE DEF row
  <2> QED  BY <2>1, <1>0
<1> HIDE DEF fr, reach, sp
<1> DEFINE a == [s EXCEPT !.fr = fr]
           b == [a EXCEPT !.reach = reach]
<1>12. a \in States(tree) /\ a.slots = s.slots /\ a.cbs = s.cbs /\ a.pipe = s.pipe /\ a.ok = s.ok
  BY <1>9, SetFr
<1>13. Record(s, ec, n, vs) = [b EXCEPT !.sp = sp]
  BY <1>5
<1> HIDE DEF a
<1>14. b \in States(tree) /\ b.slots = s.slots /\ b.cbs = s.cbs /\ b.pipe = s.pipe /\ b.ok = s.ok
  BY <1>10, <1>12, SetReach
<1> HIDE DEF b
<1> QED  BY <1>11, <1>13, <1>14, SetSp

\* A fill or a copy: recorded, then replayed or enqueued.
LEMMA AddablesLeaf ==
  ASSUME Graph(tree), NEW n \in DOMAIN tree, tree[n].k \in {"fill", "copy"}, NEW ec, NEW mode, NEW s,
         Asked(n, ec, s)
  PROVE  Neat(n, s, Addables(n, ec, mode, s))
<1> DEFINE vs == Values(s, n)
           t == LentAll(s, n)
           D == DepsOf(vs)
           B == Bufs(vs)
<1>0. tree[n].k \in Takers /\ s \in States(tree) /\ s.ok /\ n \in Nat /\ ec.cb \in {"off", "build", "lend"}
  BY NodesOf DEF Takers, Leaves, Asked, Contexts
<1>1. D \in SUBSET Nat /\ B \in SUBSET Contents
  BY <1>0, ValuesOf
<1>2. t \in States(tree) /\ t.cbs = s.cbs /\ t.ok
  BY <1>0, LentOf
<1>3. ASSUME NEW w \in States(tree), w.slots = t.slots, w.cbs = t.cbs, w.pipe = t.pipe, w.ok = t.ok,
             NEW E \in SUBSET Nat
      PROVE  Neat(n, s, PutAll(w, n, vs, E))
  <2>1. w.slots = LentAll(s, n).slots /\ w.cbs = s.cbs /\ w.pipe = LentAll(s, n).pipe /\ w.ok
    BY <1>2, <1>3
  <2> QED  BY <1>0, <2>1, PutAllLeaf
<1>4. CASE ec.cb = "build"
  <2> DEFINE r == Record(t, ec, n, vs)
             w == External(r, ec, D)
  <2>1. ec.f \in Heads(tree)
    BY <1>4 DEF Asked
  <2>2. Addables(n, ec, mode, s) = PutAll(w, n, vs, {})
    BY <1>4 DEF Addables
  <2> HIDE DEF t, vs
  <2>3. /\ r \in States(tree) /\ r.slots = t.slots /\ r.cbs = t.cbs /\ r.pipe = t.pipe /\ r.ok = t.ok
    BY <1>0, <1>1, <1>2, <2>1, RecordOf
  <2> HIDE DEF D, r
  <2>4. w \in States(tree) /\ w.slots = t.slots /\ w.cbs = t.cbs /\ w.pipe = t.pipe /\ w.ok = t.ok
    BY <1>1, <2>1, <2>3, ExternalOf DEF r
  <2> HIDE DEF w
  <2> QED  BY <1>3, <2>2, <2>4
<1>5. CASE ec.cb = "lend"
  <2> DEFINE w == External(t, ec, D)
  <2>1. ec.f \in Heads(tree)
    BY <1>5 DEF Asked
  <2>2. Addables(n, ec, mode, s) = PutAll(w, n, vs, {})
    BY <1>5 DEF Addables
  <2> HIDE DEF t, vs, D
  <2>4. w \in States(tree) /\ w.slots = t.slots /\ w.cbs = t.cbs /\ w.pipe = t.pipe /\ w.ok = t.ok
    BY <1>1, <1>2, <2>1, ExternalOf
  <2> HIDE DEF w
  <2> QED  BY <1>3, <2>2, <2>4
<1>6. CASE ec.cb = "off" /\ Refused(s, n)
  <2>1. Addables(n, ec, mode, s) = Failed(RehomeAll(t, vs))
    BY <1>6 DEF Addables
  <2> QED  BY <1>0, <2>1, RefusedLeaf
<1>7. CASE ec.cb = "off" /\ ~Refused(s, n)
  <2> DEFINE e == Newest(s) + 1
             u == Enqueue(t, n, B, D)
             z == WaitFor(u, {e})
  <2>1. \/ Addables(n, ec, mode, s) = PutAll(z, n, vs, {})
        \/ Addables(n, ec, mode, s) = PutAll(u, n, vs, {e})
    BY <1>7 DEF Addables
  <2>2. e \in Nat
    BY <1>0, NewestOf
  <2> HIDE DEF t, vs, B, D
  <2>3. u \in States(tree) /\ u.slots = t.slots /\ u.cbs = t.cbs /\ u.pipe = t.pipe /\ u.ok = t.ok
    BY <1>0, <1>1, <1>2, EnqueueOf
  <2> HIDE DEF u, e
  <2>4. z \in States(tree) /\ z.slots = t.slots /\ z.cbs = t.cbs /\ z.pipe = t.pipe /\ z.ok = t.ok
    BY <2>2, <2>3, WaitForOf
  <2> HIDE DEF z
  <2>5. Neat(n, s, PutAll(z, n, vs, {})) /\ Neat(n, s, PutAll(u, n, vs, {e}))
    BY <1>3, <2>2, <2>3, <2>4
  <2> QED  BY <2>1, <2>5
<1> QED  BY <1>0, <1>4, <1>5, <1>6, <1>7

\* A write: its value goes behind an event of its own.
LEMMA WriteLeaf ==
  ASSUME Graph(tree), NEW n \in DOMAIN tree, tree[n].k = "write", NEW ec, NEW mode, NEW s,
         Asked(n, ec, s)
  PROVE  Neat(n, s, Write(n, mode, s))
<1> DEFINE vs == Values(s, n)
           t == LentAll(s, n)
           D == DepsOf(vs)
           B == Bufs(vs)
           u == Enqueue(t, n, B, D)
           e == Newest(u)
           z == WaitFor(u, {e})
<1>0. tree[n].k \in Takers /\ s \in States(tree) /\ s.ok /\ n \in Nat
  BY NodesOf DEF Takers, Leaves, Asked
<1>1. D \in SUBSET Nat /\ B \in SUBSET Contents
  BY <1>0, ValuesOf
<1>2. t \in States(tree) /\ t.cbs = s.cbs /\ t.ok
  BY <1>0, LentOf
<1>3. ASSUME NEW w \in States(tree), w.slots = t.slots, w.cbs = t.cbs, w.pipe = t.pipe, w.ok = t.ok,
             NEW E \in SUBSET Nat
      PROVE  Neat(n, s, PutAll(w, n, vs, E))
  <2>1. w.slots = LentAll(s, n).slots /\ w.cbs = s.cbs /\ w.pipe = LentAll(s, n).pipe /\ w.ok
    BY <1>2, <1>3
  <2> QED  BY <1>0, <2>1, PutAllLeaf
<1>4. \/ Write(n, mode, s) = Failed(RehomeAll(t, vs))
      \/ Write(n, mode, s) = PutAll(z, n, vs, {})
      \/ Write(n, mode, s) = PutAll(u, n, vs, {e})
  BY DEF Write
<1>5. Neat(n, s, Failed(RehomeAll(t, vs)))
  BY <1>0, RefusedLeaf
<1> HIDE DEF t, vs, B, D
<1>6. u \in States(tree) /\ u.slots = t.slots /\ u.cbs = t.cbs /\ u.pipe = t.pipe /\ u.ok = t.ok
  BY <1>0, <1>1, <1>2, EnqueueOf
<1> HIDE DEF u
<1>7. e \in Nat
  BY <1>6, NewestOf
<1> HIDE DEF e
<1>8. z \in States(tree) /\ z.slots = t.slots /\ z.cbs = t.cbs /\ z.pipe = t.pipe /\ z.ok = t.ok
  BY <1>6, <1>7, WaitForOf
<1> HIDE DEF z
<1>9. Neat(n, s, PutAll(z, n, vs, {})) /\ Neat(n, s, PutAll(u, n, vs, {e}))
  BY <1>3, <1>6, <1>7, <1>8
<1> QED  BY <1>4, <1>5, <1>9

\* The one input of a leaf.
LEMMA InputOf ==
  ASSUME Graph(tree), NEW n \in DOMAIN tree, tree[n].k \in {"lift", "forward", "download"}, NEW ec, NEW s,
         Asked(n, ec, s)
  PROVE  /\ tree[n].k \in Takers /\ s \in States(tree) /\ Len(tree[n].on) = 1 /\ n \in Nat
         /\ <<n, 1>> \in Cells(tree)
         /\ Value(s, In(n)[1]) \in Held /\ Sound(Value(s, In(n)[1])) /\ Value(s, In(n)[1]).deps \in SUBSET Nat
         /\ Value(s, In(n)[1]).v \in Contents /\ Value(s, In(n)[1]).home \in Slots \cup {Nowhere}
         /\ Values(s, n) = <<Value(s, In(n)[1])>>
<1>0. tree[n].k \in Takers /\ s \in States(tree) /\ Len(tree[n].on) = 1 /\ n \in Nat
  BY NodesOf, SingleOf DEF Takers, Leaves, Asked
<1> DEFINE v == Value(s, In(n)[1])
           vs == Values(s, n)
<1>1. vs \in Seq(Held) /\ Len(vs) = 1 /\ vs[1] = v /\ Sound(v)
  BY <1>0, ValuesOf
<1>2. <<n, 1>> \in Cells(tree)
  BY <1>0, LeafCells DEF Takers, OwnCells
<1> HIDE DEF v, vs
<1>3. v \in Held
  BY <1>1, ElementOfSeq
<1>4. v.v \in Contents /\ v.home \in Slots \cup {Nowhere} /\ v.deps \in SUBSET Nat
  BY <1>3 DEF Held
<1>5. vs = <<v>>
  BY <1>1
<1> QED  BY <1>0, <1>1, <1>2, <1>3, <1>4, <1>5 DEF v, vs

\* A slot lifted, or a cell handed on: the value moves with its home.
LEMMA PassLeaf ==
  ASSUME Graph(tree), NEW n \in DOMAIN tree, tree[n].k \in {"lift", "forward"}, NEW ec, NEW s,
         Asked(n, ec, s)
  PROVE  Neat(n, s, Pass(n, ec, s))
<1> DEFINE in == In(n)[1]
           v == Value(s, in)
           t == LentAll(s, n)
           c == <<n, 1>>
           D == v.deps
<1>0. /\ tree[n].k \in Takers /\ s \in States(tree) /\ Len(tree[n].on) = 1 /\ c \in Cells(tree)
      /\ D \in SUBSET Nat /\ s.ok /\ ec.cb \in {"off", "build", "lend"} /\ n \in Nat
  BY InputOf DEF Asked, Contexts
<1>2. t \in States(tree) /\ t.cbs = s.cbs /\ t.ok
  BY <1>0, LentOf DEF Asked
<1>3. ASSUME NEW w \in States(tree), w.slots = t.slots, w.cbs = t.cbs, w.pipe = t.pipe, w.ok = t.ok,
             NEW E \in SUBSET Nat
      PROVE  Neat(n, s, Put(w, c, v, E))
  <2>1. w.slots = LentAll(s, n).slots /\ w.cbs = s.cbs /\ w.pipe = LentAll(s, n).pipe /\ w.ok
    BY <1>2, <1>3
  <2> QED  BY <1>0, <2>1, PutLeaf
<1>4. CASE ec.cb = "off"
  <2>1. Pass(n, ec, s) = Put(t, c, v, D)
    BY <1>4 DEF Pass
  <2> HIDE DEF t, c, v, D
  <2> QED  BY <1>0, <1>2, <1>3, <2>1
<1> DEFINE x == External(t, ec, D)
<1>5. ASSUME ec.f \in Heads(tree)
      PROVE  x \in States(tree) /\ x.slots = t.slots /\ x.cbs = t.cbs /\ x.pipe = t.pipe /\ x.ok = t.ok
  <2> HIDE DEF t, c, v, D
  <2> QED  BY <1>0, <1>2, <1>5, ExternalOf
<1>6. CASE ec.cb = "lend"
  <2>1. Pass(n, ec, s) = Put(x, c, v, {}) /\ ec.f \in Heads(tree)
    BY <1>6 DEF Pass, Asked
  <2> HIDE DEF x, t, c, v, D
  <2> QED  BY <1>3, <1>5, <2>1
<1>7. CASE ec.cb = "build"
  <2> DEFINE f == ec.f
             y == Extend(x, c, Origins(s, in))
             P == Points(s, ec, in)
             z == [y EXCEPT !.sp[f][c] = P]
  <2>1. Pass(n, ec, s) = Put(z, c, v, {}) /\ f \in Heads(tree)
    BY <1>7 DEF Pass, Asked
  <2>2. P \in SUBSET Nat /\ Origins(s, in) \in SUBSET Slots
    BY <1>0, <2>1, PointsOf
  <2>3. x \in States(tree) /\ x.slots = t.slots /\ x.cbs = t.cbs /\ x.pipe = t.pipe /\ x.ok = t.ok
    BY <1>5, <2>1
  <2> HIDE DEF x, t, c, v, D, P
  <2>4. y \in States(tree) /\ y.slots = t.slots /\ y.cbs = t.cbs /\ y.pipe = t.pipe /\ y.ok = t.ok
    BY <1>0, <2>2, <2>3, ExtendOf
  <2> HIDE DEF y, f
  <2>5. z \in States(tree) /\ z.slots = t.slots /\ z.cbs = t.cbs /\ z.pipe = t.pipe /\ z.ok = t.ok
    BY <1>0, <2>1, <2>2, <2>4, SetPoints
  <2> HIDE DEF z
  <2> QED  BY <1>3, <2>1, <2>5
<1> QED  BY <1>0, <1>4, <1>6, <1>7

\* A cell used as an operation takes nothing and delivers nothing.
LEMMA PipeLeaf ==
  ASSUME Graph(tree), NEW n \in DOMAIN tree, tree[n].k = "pipe", NEW ec, NEW s, Asked(n, ec, s)
  PROVE  Neat(n, s, s)
<1>1. tree[n].k \in Leaves /\ tree[n].k \notin {"mint", "upload"}
  BY DEF Leaves
<1> DEFINE c == tree[n].in[1][2]
<1>2. c \in Cells(tree) /\ tree[n].in = <<<<"cell", c>>>>
  BY <1>1, InletsOf
<1> HIDE DEF c
<1>3. Uses(tree, n) = {<<"cell", c>>}
  <2>1. Uses(tree, n) = Range(tree[n].in)
    BY <1>1, InletsOf, FlowOf
  <2> QED  BY <1>2, <2>1 DEF Range
<1>4. Gives(tree, n) = {c}
  <2>1. Gives(tree, n) = Range(Outlets(tree, n)) /\ Outlets(tree, n) = <<c>>
    <3>1. Outlets(tree, n) = <<c>>
      BY DEF Outlets, c
    <3>2. OutCells(tree)[n] = Outlets(tree, n)
      BY <1>1, OutCellsOf
    <3>3. Gives(tree, n) = Range(OutCells(tree)[n])
      BY <1>1, FlowOf
    <3> QED  BY <3>1, <3>2, <3>3
  <2> QED  BY <2>1 DEF Range
<1>5. UsedCells(tree, n) = {c}
  BY <1>2, <1>3 DEF UsedCells
<1>6. s \in States(tree) /\ s.ok /\ Sane(s) /\ c \in Full(s)
  BY <1>5 DEF Asked
<1>7. Full(s) = Filled(n, s)
  BY <1>4, <1>5, <1>6 DEF Filled
<1>8. Kept(n, s, s)
  BY <1>6 DEF Kept
<1> QED  BY <1>6, <1>7, <1>8 DEF Neat, Executes

\* A leaf that takes nothing from a cell, and leaves a value in its own.
LEMMA MadeLeaf ==
  ASSUME Graph(tree), NEW n \in DOMAIN tree, tree[n].k \in {"mint", "upload"}, NEW ec, NEW s,
         Asked(n, ec, s),
         NEW u \in States(tree), u.cbs = s.cbs, u.ok,
         \A c \in Cells(tree) : c # <<n, 1>> => u.pipe[c] = s.pipe[c],
         u.pipe[<<n, 1>>] # None, Sound(u.pipe[<<n, 1>>]),
         \/ u.pipe[<<n, 1>>].home = Nowhere /\ u.slots = s.slots
         \/ /\ u.pipe[<<n, 1>>].home = tree[n].on[1]
            /\ \A x \in Slots : x # tree[n].on[1] => u.slots[x] = s.slots[x]
  PROVE  Neat(n, s, u)
<1> DEFINE c0 == <<n, 1>>
           x0 == tree[n].on[1]
<1>0. tree[n].k \in Leaves \ {"pipe"} /\ s \in States(tree) /\ Sane(s) /\ Len(tree[n].on) = 1
  BY SingleOf DEF Leaves, Asked
<1>1. /\ CellsUnder(tree, n) = {c0} /\ Gives(tree, n) = {c0} /\ Undelivered(tree)[n] = {c0}
      /\ c0 \in Cells(tree) /\ Letter(tree, c0) = x0
  <2>1. OwnCells(tree, n) = {c0}
    BY <1>0, LeafCells
  <2>2. c0 \in Cells(tree) /\ Letter(tree, c0) = x0
    BY <1>0, <2>1, LeafCells DEF OwnCells
  <2> QED  BY <1>0, <2>1, <2>2, LeafCells
<1>2. Uses(tree, n) = {<<"slot", x0>>}
  BY <1>0, FlowOf DEF Inlets
<1>3. UsedCells(tree, n) = {} /\ UsedSlots(tree, n) = {x0} \cap Slots
  BY <1>2 DEF UsedCells, UsedSlots
<1>4. c0 \notin Full(s)
  BY <1>1 DEF Asked
<1>h. /\ \A c \in Cells(tree) : c # c0 => u.pipe[c] = s.pipe[c]
      /\ u.pipe[c0] # None /\ Sound(u.pipe[c0])
      /\ \/ u.pipe[c0].home = Nowhere /\ u.slots = s.slots
         \/ u.pipe[c0].home = x0 /\ \A x \in Slots : x # x0 => u.slots[x] = s.slots[x]
  OBVIOUS
<1> HIDE DEF c0, x0
<1>5. Full(u) = Full(s) \cup {c0}
  BY <1>1, <1>h DEF Full
<1>6. Sane(u)
  <2> SUFFICES ASSUME NEW c \in Full(u)
               PROVE  u.pipe[c].home \in {Nowhere, Letter(tree, c)} /\ Sound(u.pipe[c])
    BY DEF Sane
  <2>1. CASE c = c0
    BY <2>1, <1>1, <1>h
  <2>2. CASE c # c0
    BY <2>2, <1>0, <1>5, <1>h DEF Sane, Full
  <2> QED  BY <2>1, <2>2
<1>7. Kept(n, s, u)
  BY <1>1, <1>3, <1>5, <1>6, <1>h DEF Kept
<1>8. Full(u) = Filled(n, s)
  BY <1>1, <1>3, <1>5 DEF Filled
<1>9. ASSUME NEW x \in Slots, Owned(s, x) PROVE Owned(u, x)
  <2>1. CASE x = x0 /\ u.pipe[c0].home = x0
    BY <2>1, <1>5 DEF Owned
  <2>2. CASE s.slots[x] # None /\ u.slots[x] = s.slots[x]
    BY <2>2 DEF Owned
  <2>3. CASE \E c \in Full(s) : s.pipe[c].home = x
    <3>1. PICK c \in Full(s) : s.pipe[c].home = x
      BY <2>3
    <3>2. c \in Full(u) /\ u.pipe[c] = s.pipe[c]
      BY <1>4, <1>5, <1>h DEF Full
    <3> QED  BY <3>1, <3>2 DEF Owned
  <2> QED  BY <1>9, <1>h, <2>1, <2>2, <2>3 DEF Owned
<1>10. Executes(n, s, u)
  BY <1>7, <1>8, <1>9 DEF Executes
<1> QED  BY <1>10 DEF Neat

\* A leaf that only fails.
LEMMA StoppedLeaf ==
  ASSUME NEW n, NEW ec, NEW s, Asked(n, ec, s), NEW u \in States(tree),
         u.slots = s.slots, u.cbs = s.cbs, u.pipe = s.pipe, u.ok = FALSE
  PROVE  Neat(n, s, u)
<1>1. Full(u) = Full(s) /\ Sane(u)
  BY DEF Full, Sane, Asked
<1>2. Kept(n, s, u)
  BY <1>1 DEF Kept
<1>3. \A x \in Slots : Owned(s, x) => Owned(u, x)
  BY <1>1 DEF Owned
<1>4. Executes(n, s, u)
  BY <1>2, <1>3 DEF Executes
<1> QED  BY <1>1, <1>4 DEF Neat

\* A buffer made by the graph has no home.
LEMMA MintLeaf ==
  ASSUME Graph(tree), NEW n \in DOMAIN tree, tree[n].k = "mint", NEW ec, NEW s, Asked(n, ec, s),
         minted \in 2..3
  PROVE  Neat(n, s, Mint(n, s))
<1> DEFINE x == tree[n].on[1]
           v == [v |-> <<x, minted>>, home |-> Nowhere]
           c == <<n, 1>>
           u == Put(s, c, v, {})
<1>0. s \in States(tree) /\ s.ok /\ c \in Cells(tree) /\ x \in Slots
  BY SingleOf, LeafCells, OwnOf DEF Leaves, OwnCells, Asked
<1>1. v.v \in Contents /\ v.home = Nowhere /\ v.home \in Slots \cup {Nowhere}
  BY <1>0 DEF Contents, Buffers
<1>2. Mint(n, s) = Failed(s) \/ Mint(n, s) = u
  BY DEF Mint
<1>3. Neat(n, s, Failed(s))
  BY <1>0, FailedOf, StoppedLeaf
<1> HIDE DEF v, c
<1>4. u \in States(tree) /\ u.slots = s.slots /\ u.cbs = s.cbs /\ u.ok = s.ok
  <2>1. u \in States(tree)
    BY <1>0, <1>1, PutOf
  <2>2. u.slots = s.slots /\ u.cbs = s.cbs /\ u.ok = s.ok
    BY <1>0, <1>1, PutKeeps
  <2> QED  BY <2>1, <2>2
<1>5. u.pipe[c] # None /\ u.pipe[c].v = v.v /\ u.pipe[c].home = v.home
  BY <1>0, <1>1, PutOf
<1>6. \A d \in Cells(tree) : d # c => u.pipe[d] = s.pipe[d]
  BY <1>0, <1>1, PutOf
<1>7. Sound(u.pipe[c]) /\ u.pipe[c].home = Nowhere
  BY <1>1, <1>5 DEF Sound
<1> HIDE DEF u
<1>8. Neat(n, s, u)
  BY <1>0, <1>4, <1>5, <1>6, <1>7, MadeLeaf DEF c
<1> QED  BY <1>2, <1>3, <1>8

\* An upload makes a buffer and enqueues the transfer to it.
LEMMA UploadLeaf ==
  ASSUME Graph(tree), NEW n \in DOMAIN tree, tree[n].k = "upload", NEW ec, NEW s, Asked(n, ec, s)
  PROVE  Neat(n, s, Upload(n, s))
<1> DEFINE x == tree[n].on[1]
           v == [v |-> <<x, 0>>, home |-> x]
           c == <<n, 1>>
           t == [s EXCEPT !.slots[x] = None]
           u == Enqueue(t, n, {v.v}, {})
           e == Newest(u)
           z == WaitFor(u, {e})
<1>0. s \in States(tree) /\ s.ok /\ c \in Cells(tree) /\ x \in Slots /\ n \in Nat
  BY SingleOf, LeafCells, OwnOf, NodesOf DEF Leaves, OwnCells, Asked
<1>1. v.v \in Contents /\ v.v # None /\ v.home = x /\ v.home \in Slots \cup {Nowhere}
  BY <1>0, NamesAssumption DEF Contents, Buffers
<1>2. \/ Upload(n, s) = Failed(s) \/ Upload(n, s) = Put(t, c, v, {})
      \/ Upload(n, s) = Put(z, c, v, {})
  BY DEF Upload
<1>3. Neat(n, s, Failed(s))
  BY <1>0, FailedOf, StoppedLeaf
<1>4. /\ t \in States(tree) /\ t.cbs = s.cbs /\ t.pipe = s.pipe /\ t.ok = s.ok
      /\ \A y \in Slots : y # x => t.slots[y] = s.slots[y]
  <2> DEFINE at == [s.slots EXCEPT ![x] = None]
  <2>1. at \in [Slots -> Contents] /\ \A y \in Slots : y # x => at[y] = s.slots[y]
    BY <1>0, StateOf DEF Contents
  <2>2. t = [s EXCEPT !.slots = at]
    OBVIOUS
  <2> HIDE DEF at, t
  <2> QED  BY <1>0, <2>1, <2>2, SetSlots
<1>5. ASSUME NEW w \in States(tree), w.slots = t.slots, w.cbs = t.cbs, w.pipe = t.pipe, w.ok = t.ok
      PROVE  Neat(n, s, Put(w, c, v, {}))
  <2> DEFINE p == Put(w, c, v, {})
  <2> HIDE DEF v, c, t, x
  <2>1. p \in States(tree) /\ p.slots = w.slots /\ p.cbs = w.cbs /\ p.ok = w.ok
    <3>1. p \in States(tree)
      BY <1>0, <1>1, PutOf
    <3>2. p.slots = w.slots /\ p.cbs = w.cbs /\ p.ok = w.ok
      BY <1>0, <1>1, PutKeeps
    <3> QED  BY <3>1, <3>2
  <2>2. p.pipe[c] # None /\ p.pipe[c].v = v.v /\ p.pipe[c].home = v.home
    BY <1>0, <1>1, PutOf
  <2>3. \A d \in Cells(tree) : d # c => p.pipe[d] = w.pipe[d]
    BY <1>0, <1>1, PutOf
  <2> HIDE DEF p
  <2>4. Sound(p.pipe[c]) /\ p.pipe[c].home = x
    BY <1>1, <2>2 DEF Sound
  <2>5. \A y \in Slots : y # x => p.slots[y] = s.slots[y]
    BY <1>4, <1>5, <2>1
  <2>6. \A d \in Cells(tree) : d # c => p.pipe[d] = s.pipe[d]
    BY <1>4, <1>5, <2>3
  <2>7. p.cbs = s.cbs /\ p.ok
    BY <1>0, <1>4, <1>5, <2>1
  <2>8. Neat(n, s, p)
    BY <2>1, <2>2, <2>4, <2>5, <2>6, <2>7, MadeLeaf DEF c, x
  <2> QED  BY <2>8 DEF p
<1>6. {v.v} \in SUBSET Contents
  BY <1>1
<1> HIDE DEF t, v
<1>7. u \in States(tree) /\ u.slots = t.slots /\ u.cbs = t.cbs /\ u.pipe = t.pipe /\ u.ok = t.ok
  BY <1>0, <1>4, <1>6, EnqueueOf
<1> HIDE DEF u
<1>8. e \in Nat
  BY <1>7, NewestOf
<1> HIDE DEF e
<1>9. z \in States(tree) /\ z.slots = t.slots /\ z.cbs = t.cbs /\ z.pipe = t.pipe /\ z.ok = t.ok
  BY <1>7, <1>8, WaitForOf
<1> HIDE DEF z
<1>10. Neat(n, s, Put(t, c, v, {})) /\ Neat(n, s, Put(z, c, v, {}))
  BY <1>4, <1>5, <1>9
<1> QED  BY <1>2, <1>3, <1>10

\* A download sends its buffer home and delivers host memory.
LEMMA DownloadLeaf ==
  ASSUME Graph(tree), NEW n \in DOMAIN tree, tree[n].k = "download", NEW ec, NEW mode, NEW s,
         Asked(n, ec, s)
  PROVE  Neat(n, s, Download(n, mode, s))
<1> DEFINE v == Value(s, In(n)[1])
           w == LentAll(s, n)
           t == RehomeAll(w, <<v>>)
           u == Enqueue(t, n, {v.v}, v.deps)
           e == Newest(u)
           z == WaitFor(u, {e})
           host == [v |-> None, home |-> Nowhere]
           c == <<n, 1>>
<1>0. /\ tree[n].k \in Takers /\ s \in States(tree) /\ Len(tree[n].on) = 1 /\ n \in Nat
      /\ c \in Cells(tree) /\ v \in Held /\ Sound(v) /\ v.deps \in SUBSET Nat /\ {v.v} \in SUBSET Contents
      /\ Values(s, n) = <<v>> /\ s.ok
  BY InputOf DEF Asked
<1>1. /\ w \in States(tree) /\ w.cbs = s.cbs /\ w.ok
      /\ \A y \in Slots : w.slots[y] = IF y \in UsedSlots(tree, n) THEN None ELSE s.slots[y]
      /\ \A d \in Cells(tree) : w.pipe[d] = IF d \in UsedCells(tree, n) THEN None ELSE s.pipe[d]
  BY <1>0, LentOf
<1>2. \/ Download(n, mode, s) = Failed(t) \/ Download(n, mode, s) = Put(z, c, host, {})
      \/ Download(n, mode, s) = Put(u, c, host, {e})
  BY DEF Download
<1>3. Neat(n, s, Failed(t))
  <2>1. Failed(t) = Failed(RehomeAll(LentAll(s, n), Values(s, n)))
    BY <1>0
  <2> HIDE DEF t
  <2> QED  BY <1>0, <2>1, RefusedLeaf
<1> HIDE DEF v, w
<1>4. Range(<<v>>) = {v}
  BY DEF Range
<1>5. /\ t \in States(tree) /\ t.cbs = w.cbs /\ t.pipe = w.pipe /\ t.ok = w.ok
      /\ \A y \in Slots : w.slots[y] # None \/ v.home = y => t.slots[y] # None
  <2> DEFINE vs == <<v>>
  <2>1. Range(vs) \subseteq Held /\ \A b \in Range(vs) : Sound(b)
    BY <1>0, <1>4
  <2>2. v \in Range(vs)
    BY <1>4
  <2>0. t = RehomeAll(w, vs)
    OBVIOUS
  <2> HIDE DEF vs, t
  <2>3. t \in States(tree) /\ t.cbs = w.cbs /\ t.pipe = w.pipe /\ t.ok = w.ok
    BY <1>1, <2>0, <2>1, RehomeAllOf
  <2>4. \A y \in Slots : w.slots[y] # None \/ (\E b \in Range(vs) : b.home = y) => t.slots[y] # None
    BY <1>1, <2>0, <2>1, RehomeAllOf
  <2> QED  BY <2>2, <2>3, <2>4
<1> HIDE DEF t
<1>6. u \in States(tree) /\ u.slots = t.slots /\ u.cbs = t.cbs /\ u.pipe = t.pipe /\ u.ok = t.ok
  BY <1>0, <1>5, EnqueueOf
<1> HIDE DEF u
<1>7. e \in Nat
  BY <1>6, NewestOf
<1> HIDE DEF e
<1>8. z \in States(tree) /\ z.slots = t.slots /\ z.cbs = t.cbs /\ z.pipe = t.pipe /\ z.ok = t.ok
  BY <1>6, <1>7, WaitForOf
<1> HIDE DEF z
<1>9. host.v \in Contents /\ host.home \in Slots \cup {Nowhere} /\ host.home = Nowhere
  BY DEF Contents
<1> HIDE DEF host
<1>10. ASSUME NEW y \in States(tree), y.slots = t.slots, y.cbs = t.cbs, y.pipe = t.pipe, y.ok = t.ok,
              NEW D \in SUBSET Nat
       PROVE  Neat(n, s, Put(y, c, host, D))
  <2> DEFINE p == Put(y, c, host, D)
  <2>0. \A d \in Cells(tree) : d[1] = n => d = c
    BY <1>0, LeafCells DEF OwnCells, Takers
  <2>a. \A d \in Cells(tree) : d[1] # n => d # c
    OBVIOUS
  <2> HIDE DEF c
  <2>1. p \in States(tree) /\ p.slots = y.slots /\ p.cbs = y.cbs /\ p.ok = y.ok
    <3>1. p \in States(tree)
      BY <1>0, <1>9, PutOf
    <3>2. c \in Cells(tree) /\ y \in States(tree) /\ D \in SUBSET Nat
      BY <1>0, <1>10
    <3>3. host.v \in Contents /\ host.home \in Slots \cup {Nowhere}
      BY <1>9
    <3> HIDE DEF p
    <3>4. LET z0 == Put(y, c, host, D) IN
          z0 \in States(tree) /\ z0.slots = y.slots /\ z0.cbs = y.cbs /\ z0.ok = y.ok
      BY ONLY <3>2, <3>3, PutKeeps
    <3> USE DEF p
    <3> QED  BY <3>1, <3>4
  <2>2. p.pipe[c] # None /\ p.pipe[c].home = host.home
    BY <1>0, <1>9, PutOf
  <2>3. \A d \in Cells(tree) : d # c => p.pipe[d] = y.pipe[d]
    BY <1>0, <1>9, PutOf
  <2> HIDE DEF p
  <2>4. Sound(p.pipe[c]) /\ p.pipe[c].home = Nowhere
    BY <1>9, <2>2 DEF Sound
  <2>5. p.ok /\ p.cbs = s.cbs
    BY <1>1, <1>5, <1>10, <2>1
  <2>6. \A d \in Cells(tree) : d[1] # n => p.pipe[d] = IF d \in UsedCells(tree, n) THEN None ELSE s.pipe[d]
    BY <1>1, <1>5, <1>10, <2>a, <2>3
  <2>7. p.ok /\ \A d \in OwnCells(tree, n) :
          p.pipe[d] # None /\ p.pipe[d].home \in {Nowhere, Letter(tree, d)} /\ Sound(p.pipe[d])
    BY <2>0, <2>2, <2>4, <2>5 DEF OwnCells
  <2>8. \A x \in Slots : x \notin UsedSlots(tree, n) /\ s.slots[x] # None => p.slots[x] # None
    BY <1>1, <1>5, <1>10, <2>1
  <2>9. \A i \in 1..Len(tree[n].on) : \A x \in Slots :
          Values(s, n)[i].home = x =>
            \/ p.slots[x] # None
            \/ \E d \in OwnCells(tree, n) : p.pipe[d] # None /\ p.pipe[d].home = x
    <3>1. \A i \in 1..Len(tree[n].on) : Values(s, n)[i] = v
      BY <1>0
    <3> QED  BY <3>1, <1>5, <1>10, <2>1
  <2>10. Neat(n, s, p)
    BY <1>0, <2>1, <2>5, <2>6, <2>7, <2>8, <2>9, MovedLeaf
  <2> QED  BY <2>10 DEF p
<1>11. Neat(n, s, Put(z, c, host, {})) /\ Neat(n, s, Put(u, c, host, {e}))
  <2> HIDE DEF c
  <2> QED  BY <1>6, <1>7, <1>8, <1>10 DEF c
<1> QED  BY <1>2, <1>3, <1>11

\* The execution of a leaf, of any kind.
LEMMA LeafExecutes ==
  ASSUME Graph(tree), minted \in 2..3, NEW n \in DOMAIN tree, tree[n].k \in Leaves,
         NEW w, NEW ec, NEW mode, NEW s, Asked(n, ec, s)
  PROVE  Neat(n, s, Execute(n, w, ec, mode, s))
<1> DEFINE u == Execute(n, w, ec, mode, s)
<1>1. CASE tree[n].k \in {"fill", "copy"}
  <2>1. u = Addables(n, ec, mode, s)
    BY <1>1 DEF Execute
  <2> QED  BY <1>1, <2>1, AddablesLeaf
<1>2. CASE tree[n].k = "write"
  <2>1. u = Write(n, mode, s)
    BY <1>2 DEF Execute
  <2> QED  BY <1>2, <2>1, WriteLeaf
<1>3. CASE tree[n].k \in {"lift", "forward"}
  <2>1. u = Pass(n, ec, s)
    BY <1>3 DEF Execute
  <2> QED  BY <1>3, <2>1, PassLeaf
<1>4. CASE tree[n].k = "pipe"
  <2>1. u = s
    BY <1>4 DEF Execute
  <2> QED  BY <1>4, <2>1, PipeLeaf
<1>5. CASE tree[n].k = "mint"
  <2>1. u = Mint(n, s)
    BY <1>5 DEF Execute
  <2> QED  BY <1>5, <2>1, MintLeaf
<1>6. CASE tree[n].k = "upload"
  <2>1. u = Upload(n, s)
    BY <1>6 DEF Execute
  <2> QED  BY <1>6, <2>1, UploadLeaf
<1>7. CASE tree[n].k = "download"
  <2>1. u = Download(n, mode, s)
    BY <1>7 DEF Execute
  <2> QED  BY <1>7, <2>1, DownloadLeaf
<1> QED  BY <1>1, <1>2, <1>3, <1>4, <1>5, <1>6, <1>7 DEF Leaves

-----------------------------------------------------------------------------
(* What is gathered                                                        *)

\* The fields of a result.
LEMMA ResultOf ==
  ASSUME NEW s, NEW got, NEW D
  PROVE  Result(s, got, D).s = s /\ Result(s, got, D).got = got /\ Result(s, got, D).deps = D
BY DEF Result

\* The values of a handle.
LEMMA FittingOf ==
  ASSUME NEW vs, NEW cells, Fitting(vs, cells), Len(cells) \in Nat
  PROVE  /\ vs \in Seq(Held) /\ DOMAIN vs = 1..Len(cells) /\ Range(vs) \subseteq Held
         /\ \A v \in Range(vs) : Sound(v)
<1>1. vs \in Seq(Held) /\ Len(vs) = Len(cells) /\ \A i \in 1..Len(cells) : Sound(vs[i])
  BY DEF Fitting
<1>2. DOMAIN vs = 1..Len(cells)
  BY <1>1
<1>3. \A i \in 1..Len(cells) : vs[i] \in Held
  BY <1>1, ElementOfSeq
<1> QED  BY <1>1, <1>2, <1>3 DEF Range

\* What a node executed is taken from its cells.
LEMMA TakenOf ==
  ASSUME Graph(tree), NEW n \in DOMAIN tree, NEW s, NEW u, Executes(n, s, u)
  PROVE  Gathers(n, s, Taken(u, OutCells(tree)[n]))
<1> DEFINE cells == OutCells(tree)[n]
           r == Taken(u, cells)
<1>0. /\ u \in States(tree) /\ Sane(u) /\ cells \in Seq(Cells(tree)) /\ Len(cells) \in Nat
      /\ DOMAIN cells = 1..Len(cells) /\ Range(cells) \subseteq Gives(tree, n)
  BY OutCellsOf, GivesWithin DEF Executes, Kept
<1> HIDE DEF cells
<1>1. CASE ~u.ok
  <2>1. r = Result(u, <<>>, {})
    BY <1>1 DEF Taken
  <2>2. r.s = u /\ r.got = <<>> /\ r.deps = {}
    BY <2>1, ResultOf
  <2> HIDE DEF r
  <2>3. Kept(n, s, r.s) /\ ~r.s.ok /\ \A x \in Slots : ~ByValue(x) /\ Owned(s, x) => Owned(r.s, x)
    BY <1>1, <2>2 DEF Executes
  <2>4. Gathers(n, s, r)
    BY <2>2, <2>3 DEF Gathers
  <2> QED  BY <2>4 DEF r, cells
<1>2. CASE u.ok
  <2> DEFINE vs == [i \in DOMAIN cells |-> u.pipe[cells[i]]]
             pipe == [c \in DOMAIN u.pipe |-> IF c \in Range(cells) THEN None ELSE u.pipe[c]]
             v == [u EXCEPT !.pipe = pipe]
  <2>1. r = Result(v, vs, DepsOf(vs))
    BY <1>2 DEF Taken
  <2>2. u.pipe \in [Cells(tree) -> {None} \cup Held]
    BY <1>0, StateOf
  <2>3. /\ pipe \in [Cells(tree) -> {None} \cup Held]
        /\ \A c \in Cells(tree) : pipe[c] = IF c \in Range(cells) THEN None ELSE u.pipe[c]
    BY <2>2
  <2> HIDE DEF pipe
  <2>4. v \in States(tree) /\ v.slots = u.slots /\ v.cbs = u.cbs /\ v.pipe = pipe /\ v.ok = u.ok
    BY <1>0, <2>3, SetPipe
  <2> HIDE DEF v
  <2>5. Full(u) = Filled(n, s) /\ Range(cells) \subseteq Full(u)
    BY <1>0, <1>2 DEF Executes, Filled
  <2>6. Full(v) = Full(u) \ Range(cells) /\ \A c \in Full(v) : v.pipe[c] = u.pipe[c]
    BY <2>3, <2>4 DEF Full
  <2>7. Sane(v)
    BY <1>0, <2>6 DEF Sane
  <2>8. Kept(n, s, v)
    BY <2>4, <2>6, <2>7 DEF Executes, Kept
  <2>9. ASSUME NEW i \in 1..Len(cells)
        PROVE  /\ vs[i] = u.pipe[cells[i]] /\ cells[i] \in Full(u) /\ vs[i] \in Held
               /\ vs[i].home \in {Nowhere, Letter(tree, cells[i])} /\ Sound(vs[i])
    <3>1. vs[i] = u.pipe[cells[i]] /\ cells[i] \in Range(cells)
      BY <1>0 DEF Range
    <3>2. cells[i] \in Full(u)
      BY <2>5, <3>1
    <3>3. u.pipe[cells[i]] \in Held
      BY <2>2, <3>2 DEF Full
    <3> QED  BY <1>0, <3>1, <3>2, <3>3 DEF Sane
  <2>10. vs \in Seq(Held) /\ Len(vs) = Len(cells) /\ DOMAIN vs = 1..Len(cells)
    BY <1>0, <2>9
  <2> HIDE DEF vs
  <2>11. Fitting(vs, cells)
    BY <2>9, <2>10 DEF Fitting
  <2>12. DepsOf(vs) \in SUBSET Nat
    <3>1. \A i \in 1..Len(cells) : vs[i].deps \in SUBSET Nat
      BY <2>9 DEF Held
    <3> QED  BY <2>10, <3>1 DEF DepsOf
  <2>13. ASSUME NEW x \in Slots, Owned(u, x)
         PROVE  Owned(v, x) \/ \E i \in DOMAIN vs : vs[i].home = x
    <3>1. CASE u.slots[x] # None
      BY <2>4, <3>1 DEF Owned
    <3>2. CASE \E c \in Full(u) : u.pipe[c].home = x
      <4>1. PICK c \in Full(u) : u.pipe[c].home = x
        BY <3>2
      <4>2. CASE c \in Range(cells)
        <5>1. PICK i \in 1..Len(cells) : cells[i] = c
          BY <1>0, <4>2 DEF Range
        <5> QED  BY <2>9, <2>10, <4>1, <5>1
      <4>3. CASE c \notin Range(cells)
        BY <2>6, <4>1, <4>3 DEF Owned
      <4> QED  BY <4>2, <4>3
    <3> QED  BY <2>13, <3>1, <3>2 DEF Owned
  <2>14. r.s = v /\ r.got = vs /\ r.deps = DepsOf(vs)
    BY <2>1, ResultOf
  <2> HIDE DEF r
  <2>15. Full(r.s) = Filled(n, s) \ Range(OutCells(tree)[n]) /\ Fitting(r.got, OutCells(tree)[n])
    BY <2>5, <2>6, <2>11, <2>14 DEF cells
  <2>16. \A x \in Slots : ~ByValue(x) /\ Owned(s, x) =>
           Owned(r.s, x) \/ \E i \in DOMAIN r.got : r.got[i].home = x
    BY <2>13, <2>14 DEF Executes
  <2>17. Kept(n, s, r.s) /\ r.deps \in SUBSET Nat /\ r.s.ok
    BY <1>2, <2>4, <2>8, <2>12, <2>14
  <2>18. Gathers(n, s, r)
    BY <2>15, <2>16, <2>17 DEF Gathers
  <2> QED  BY <2>18 DEF r, cells
<1> QED  BY <1>1, <1>2

\* What was gathered when the walk failed goes home.
LEMMA LostOf ==
  ASSUME NEW n, NEW s, NEW u, Kept(n, s, u), ~u.ok,
         NEW got, Range(got) \subseteq Held, \A v \in Range(got) : Sound(v),
         \A x \in Slots : ~ByValue(x) /\ Owned(s, x) => Owned(u, x) \/ \E i \in DOMAIN got : got[i].home = x
  PROVE  Gathers(n, s, Lost(Result(u, got, {})))
<1> DEFINE v == RehomeAll(u, got)
           r == Lost(Result(u, got, {}))
<1>1. r = Result(v, <<>>, {})
  BY ResultOf DEF Lost
<1>2. u \in States(tree) /\ Sane(u)
  BY DEF Kept
<1>3. v \in States(tree) /\ v.cbs = u.cbs /\ v.pipe = u.pipe /\ v.ok = u.ok
  BY <1>2, RehomeAllOf
<1>4. \A x \in Slots : u.slots[x] # None \/ (\E b \in Range(got) : b.home = x) => v.slots[x] # None
  BY <1>2, RehomeAllOf
<1> HIDE DEF v
<1>5. Full(v) = Full(u) /\ Sane(v)
  BY <1>2, <1>3 DEF Full, Sane
<1>6. Kept(n, s, v)
  BY <1>3, <1>4, <1>5 DEF Kept
<1>7. ASSUME NEW x \in Slots, ~ByValue(x), Owned(s, x) PROVE Owned(v, x)
  <2>1. CASE Owned(u, x)
    BY <2>1, <1>3, <1>4, <1>5 DEF Owned
  <2>2. CASE \E i \in DOMAIN got : got[i].home = x
    <3>1. \E b \in Range(got) : b.home = x
      BY <2>2 DEF Range
    <3> QED  BY <3>1, <1>4 DEF Owned
  <2> QED  BY <1>7, <2>1, <2>2
<1>8. r.s = v /\ r.got = <<>> /\ r.deps = {}
  BY <1>1, ResultOf
<1> HIDE DEF r
<1>9. Gathers(n, s, r)
  BY <1>3, <1>6, <1>7, <1>8 DEF Gathers
<1> QED  BY <1>9 DEF r

\* A step that moves no value, after a node has been gathered.
LEMMA CalmGathers ==
  ASSUME NEW n, NEW s, NEW r, Gathers(n, s, r), NEW v, Calm(r.s, v), v.ok, NEW D \in SUBSET Nat
  PROVE  Gathers(n, s, Result(v, r.got, D))
<1> DEFINE q == Result(v, r.got, D)
<1>1. q.s = v /\ q.got = r.got /\ q.deps = D
  BY ResultOf
<1>2. Kept(n, s, r.s)
  BY DEF Gathers
<1>3. Kept(n, s, v) /\ Full(v) = Full(r.s) /\ r.s.ok /\ \A x : Owned(r.s, x) <=> Owned(v, x)
  BY <1>2, CalmKept, CalmSame
<1> HIDE DEF q
<1>4. Gathers(n, s, q)
  BY <1>1, <1>3 DEF Gathers
<1> QED  BY <1>4 DEF q

\* One event for what was gathered, or all of it goes home.
LEMMA GatheredOf ==
  ASSUME Graph(tree), NEW n \in DOMAIN tree, NEW s, NEW r, Gathers(n, s, r), r.s.ok, NEW v, Calm(r.s, v)
  PROVE  Gathers(n, s, Gathered(v, r.got))
<1>0. v \in States(tree) /\ v.ok \in BOOLEAN
  BY StateOf DEF Calm
<1>1. CASE v.ok
  <2>1. Gathered(v, r.got) = Result(v, r.got, {Newest(v)})
    BY <1>1 DEF Gathered
  <2>2. {Newest(v)} \in SUBSET Nat
    BY <1>0, NewestOf
  <2> QED  BY <1>1, <2>1, <2>2, CalmGathers
<1>2. CASE ~v.ok
  <2>1. Gathered(v, r.got) = Lost(Result(v, r.got, {}))
    BY <1>2 DEF Gathered
  <2>2. Kept(n, s, r.s) /\ Fitting(r.got, OutCells(tree)[n])
    BY DEF Gathers
  <2>3. Kept(n, s, v) /\ \A x : Owned(r.s, x) <=> Owned(v, x)
    BY <2>2, CalmKept, CalmSame
  <2>4. Range(r.got) \subseteq Held /\ \A b \in Range(r.got) : Sound(b)
    BY <2>2, OutCellsOf, FittingOf
  <2>5. \A x \in Slots : ~ByValue(x) /\ Owned(s, x) => Owned(v, x) \/ \E i \in DOMAIN r.got : r.got[i].home = x
    BY <2>3 DEF Gathers
  <2> QED  BY <1>2, <2>1, <2>3, <2>4, <2>5, LostOf
<1> QED  BY <1>1, <1>2

\* The end of a boundary.
LEMMA EndGatherOf ==
  ASSUME Graph(tree), NEW n \in Heads(tree), NEW s, NEW r, Gathers(n, s, r), NEW ec,
         ec.cb = "lend" => r.s.cbs[n] # None
  PROVE  Gathers(n, s, EndGather(n, ec, r))
<1>0. r.s \in States(tree) /\ n \in DOMAIN tree
  BY DEF Gathers, Kept, Heads
<1>1. EndGather(n, ec, r) = r \/ (r.s.ok /\ EndGather(n, ec, r) = Gathered(Ends(n, ec, r.s), r.got))
  BY DEF EndGather
<1>2. CASE EndGather(n, ec, r) = r
  BY <1>2
<1>3. CASE r.s.ok /\ EndGather(n, ec, r) = Gathered(Ends(n, ec, r.s), r.got)
  <2>1. Calm(r.s, Ends(n, ec, r.s))
    BY <1>0, EndsOf
  <2> QED  BY <1>0, <1>3, <2>1, GatheredOf
<1> QED  BY <1>1, <1>2, <1>3

\* And before the walk of a node.
LEMMA CalmBeforeGathers ==
  ASSUME NEW s, NEW u, NEW r, NEW n, Calm(s, u), Gathers(n, u, r)
  PROVE  Gathers(n, s, r)
<1>1. u.slots = s.slots /\ Full(u) = Full(s) /\ \A x : Owned(s, x) <=> Owned(u, x)
  BY CalmSame
<1>2. \A f \in Heads(tree) : s.cbs[f] # None => u.cbs[f] # None
  BY DEF Calm
<1>3. Kept(n, s, r.s)
  BY <1>1, <1>2 DEF Gathers, Kept
<1> QED  BY <1>1, <1>3 DEF Gathers, Filled

-----------------------------------------------------------------------------
(* A chain or a bundle: two kids, one after the other                      *)

\* What is under a pair, and what is reclaimed there.
LEMMA PairOf ==
  ASSUME Graph(tree), NEW n, Pair(n)
  PROVE  LET a == Source(tree, n)
             b == Follow(tree, n)
         IN /\ n \in DOMAIN tree /\ a \in DOMAIN tree /\ b \in DOMAIN tree
            /\ CellsUnder(tree, a) \subseteq CellsUnder(tree, n)
            /\ CellsUnder(tree, b) \subseteq CellsUnder(tree, n)
            /\ CellsUnder(tree, a) \cap CellsUnder(tree, b) = {}
            /\ Undelivered(tree)[n] = Undelivered(tree)[a] \cup Undelivered(tree)[b]
<1> DEFINE a == Source(tree, n)
           b == Follow(tree, n)
<1>1. n \in DOMAIN tree /\ tree[n].k \in {"then", "bundle"}
  BY DEF Pair
<1>2. a \in DOMAIN tree /\ b \in DOMAIN tree
  BY <1>1, NodesOf
<1>3. /\ Under(tree, n) = Under(tree, a) \cup Under(tree, b) \cup {n}
      /\ Under(tree, a) \cap Under(tree, b) = {}
  BY <1>1, UnderOf
<1>4. Undelivered(tree)[n] = Undelivered(tree)[a] \cup Undelivered(tree)[b]
  BY <1>1, UndeliveredIs DEF Source, Follow
<1> HIDE DEF a, b
<1>5. /\ CellsUnder(tree, a) \subseteq CellsUnder(tree, n)
      /\ CellsUnder(tree, b) \subseteq CellsUnder(tree, n)
      /\ CellsUnder(tree, a) \cap CellsUnder(tree, b) = {}
  BY <1>3 DEF CellsUnder
<1> QED  BY <1>1, <1>2, <1>4, <1>5 DEF a, b

\* The first is asked what the pair is, in the same context or outside it.
LEMMA FirstAsked ==
  ASSUME Graph(tree), NEW n, Pair(n), NEW ec, NEW s, Asked(n, ec, s)
  PROVE  Asked(Source(tree, n), ec, s)
<1> DEFINE a == Source(tree, n)
           b == Follow(tree, n)
<1>1. CellsUnder(tree, a) \subseteq CellsUnder(tree, n)
  BY PairOf
<1>2. UsedCells(tree, a) \subseteq UsedCells(tree, n) /\ UsedSlots(tree, a) \subseteq UsedSlots(tree, n)
  BY FlowBetween DEF Pair
<1> HIDE DEF a, b
<1>3. Asked(a, ec, s)
  BY <1>1, <1>2 DEF Asked
<1> QED  BY <1>3 DEF a

\* What may be asked with recording on may be asked with it off.
LEMMA AskedOff ==
  ASSUME NEW n, NEW ec, NEW s, Asked(n, ec, s)
  PROVE  Asked(n, Off, s)
<1>1. Off \in Contexts(tree) /\ Off.cb = "off"
  BY DEF Off, Contexts
<1> QED  BY <1>1 DEF Asked

\* What the first has kept, the pair has.
LEMMA KeptFirst ==
  ASSUME Graph(tree), NEW n, Pair(n), NEW s, NEW t, Kept(Source(tree, n), s, t)
  PROVE  Kept(n, s, t)
<1> DEFINE a == Source(tree, n)
           b == Follow(tree, n)
<1>1. CellsUnder(tree, a) \subseteq CellsUnder(tree, n) /\ Undelivered(tree)[a] \subseteq Undelivered(tree)[n]
  BY PairOf
<1>2. UsedSlots(tree, a) \subseteq UsedSlots(tree, n)
  BY FlowBetween DEF Pair
<1>3. Kept(a, s, t)
  OBVIOUS
<1> HIDE DEF a, b
<1> QED  BY <1>1, <1>2, <1>3 DEF Kept

\* What both of a pair keep, the pair keeps.
LEMMA KeptPair ==
  ASSUME Graph(tree), NEW n, Pair(n), NEW s, NEW t, NEW u,
         Kept(Source(tree, n), s, t), Kept(Follow(tree, n), t, u)
  PROVE  Kept(n, s, u)
<1> DEFINE a == Source(tree, n)
           b == Follow(tree, n)
<1>1. /\ CellsUnder(tree, a) \subseteq CellsUnder(tree, n) /\ CellsUnder(tree, b) \subseteq CellsUnder(tree, n)
      /\ Undelivered(tree)[n] = Undelivered(tree)[a] \cup Undelivered(tree)[b]
  BY PairOf
<1>2. UsedSlots(tree, n) = UsedSlots(tree, a) \cup UsedSlots(tree, b)
  BY FlowBetween DEF Pair
<1>3. Kept(a, s, t) /\ Kept(b, t, u)
  OBVIOUS
<1> HIDE DEF a, b
<1>4. \A f \in Heads(tree) : s.cbs[f] # None => u.cbs[f] # None
  BY <1>3 DEF Kept
<1>5. \A x \in Slots \ UsedSlots(tree, n) : s.slots[x] # None => u.slots[x] # None
  BY <1>2, <1>3 DEF Kept
<1>6. Full(u) \ Full(s) \subseteq CellsUnder(tree, n) \cap (Undelivered(tree)[n] \cup Exempt)
  <2>1. /\ Full(t) \ Full(s) \subseteq CellsUnder(tree, a) \cap (Undelivered(tree)[a] \cup Exempt)
        /\ Full(u) \ Full(t) \subseteq CellsUnder(tree, b) \cap (Undelivered(tree)[b] \cup Exempt)
    BY <1>3 DEF Kept
  <2> QED  BY <1>1, <2>1
<1>7. u \in States(tree) /\ Sane(u)
  BY <1>3 DEF Kept
<1> QED  BY <1>4, <1>5, <1>6, <1>7 DEF Kept

\* Where the first ends well, the second finds what it needs, if what is taken
\* from the output of the first in between is not for it.
LEMMA SecondAsked ==
  ASSUME Graph(tree), NEW n, Pair(n), NEW ec, NEW s, Asked(n, ec, s),
         NEW t, Kept(Source(tree, n), s, t), t.ok,
         NEW out, out \cap UsedCells(tree, Follow(tree, n)) = {},
         Full(t) = Filled(Source(tree, n), s) \ out
  PROVE  Asked(Follow(tree, n), ec, t)
<1> DEFINE a == Source(tree, n)
           b == Follow(tree, n)
<1>1. /\ a \in DOMAIN tree
      /\ CellsUnder(tree, a) \subseteq CellsUnder(tree, n) /\ CellsUnder(tree, b) \subseteq CellsUnder(tree, n)
      /\ CellsUnder(tree, a) \cap CellsUnder(tree, b) = {}
  BY PairOf
<1>2. /\ UsedCells(tree, n) = UsedCells(tree, a) \cup (UsedCells(tree, b) \ Gives(tree, a))
      /\ UsedCells(tree, a) \cap UsedCells(tree, b) \subseteq Gives(tree, a)
  BY FlowBetween DEF Pair
<1>3. UsedSlots(tree, n) = UsedSlots(tree, a) \cup UsedSlots(tree, b) /\ UsedSlots(tree, a) \cap UsedSlots(tree, b) = {}
  BY FlowBetween DEF Pair
<1>4. Gives(tree, a) \subseteq CellsUnder(tree, a) \cup UsedCells(tree, a)
  BY <1>1, GivesWithin
<1>5. Kept(a, s, t) /\ Full(t) = Filled(a, s) \ out /\ out \cap UsedCells(tree, b) = {}
  OBVIOUS
<1> HIDE DEF a, b
<1>6. Full(t) = ((Full(s) \ UsedCells(tree, a)) \cup Gives(tree, a)) \ out
  BY <1>5 DEF Filled
<1>7. UsedCells(tree, n) \subseteq Full(s) /\ Full(s) \cap CellsUnder(tree, n) = {}
  BY DEF Asked
<1>8. UsedCells(tree, b) \subseteq Full(t)
  BY <1>2, <1>5, <1>6, <1>7
<1>9. Full(t) \cap CellsUnder(tree, b) = {}
  BY <1>1, <1>2, <1>4, <1>6, <1>7
<1>10. \A x \in UsedSlots(tree, b) : t.slots[x] # None
  <2>1. \A x \in UsedSlots(tree, b) : x \in Slots \ UsedSlots(tree, a) /\ s.slots[x] # None
    BY <1>3 DEF Asked, UsedSlots
  <2> QED  BY <1>5, <2>1 DEF Kept
<1>11. /\ t \in States(tree) /\ Sane(t) /\ ec \in Contexts(tree) /\ (ec.cb # "off" => ec.f \in Heads(tree))
       /\ (ec.cb = "lend" => t.cbs[ec.f] # None)
  BY <1>5 DEF Kept, Asked
<1>12. Asked(b, ec, t)
  BY <1>8, <1>9, <1>10, <1>11 DEF Asked
<1> QED  BY <1>12 DEF b

\* The cells that are full after both.
LEMMA FilledPair ==
  ASSUME Graph(tree), NEW n, Pair(n), NEW ec, NEW s, Asked(n, ec, s), NEW t, Full(t) = Filled(Source(tree, n), s)
  PROVE  Filled(Follow(tree, n), t) = Filled(n, s)
<1> DEFINE a == Source(tree, n)
           b == Follow(tree, n)
<1>1. a \in DOMAIN tree /\ CellsUnder(tree, a) \subseteq CellsUnder(tree, n)
  BY PairOf
<1>2. /\ UsedCells(tree, n) = UsedCells(tree, a) \cup (UsedCells(tree, b) \ Gives(tree, a))
      /\ Gives(tree, n) = (Gives(tree, a) \ UsedCells(tree, b)) \cup Gives(tree, b)
  BY FlowBetween DEF Pair
<1>3. Gives(tree, a) \subseteq CellsUnder(tree, a) \cup UsedCells(tree, a)
  BY <1>1, GivesWithin
<1>4. Full(t) = Filled(a, s)
  OBVIOUS
<1> HIDE DEF a, b
<1>5. Full(s) \cap CellsUnder(tree, n) = {}
  BY DEF Asked
<1>6. Filled(b, t) = (((Full(s) \ UsedCells(tree, a)) \cup Gives(tree, a)) \ UsedCells(tree, b)) \cup Gives(tree, b)
  BY <1>4 DEF Filled
<1>7. Filled(n, s) = (Full(s) \ UsedCells(tree, n)) \cup Gives(tree, n)
  BY DEF Filled
<1>8. Filled(b, t) = Filled(n, s)
  BY <1>1, <1>2, <1>3, <1>5, <1>6, <1>7
<1> QED  BY <1>8 DEF b

\* A pair that stops at the first; one executed; a chain gathered.
LEMMA PairStops ==
  ASSUME Graph(tree), NEW n, Pair(n), NEW s, NEW t, Executes(Source(tree, n), s, t), ~t.ok
  PROVE  Executes(n, s, t) /\ Gathers(n, s, Result(t, <<>>, {}))
<1>1. Kept(n, s, t)
  BY KeptFirst DEF Executes
<1>2. \A x \in Slots : ~ByValue(x) /\ Owned(s, x) => Owned(t, x)
  BY DEF Executes
<1>3. Executes(n, s, t)
  BY <1>1, <1>2 DEF Executes
<1> DEFINE r == Result(t, <<>>, {})
<1>4. r.s = t /\ r.got = <<>> /\ r.deps = {}
  BY ResultOf
<1> HIDE DEF r
<1>5. Gathers(n, s, r)
  BY <1>1, <1>2, <1>4 DEF Gathers
<1> QED  BY <1>3, <1>5 DEF r

\* Two executions in a row are an execution of the pair.
LEMMA PairExecutes ==
  ASSUME Graph(tree), NEW n, Pair(n), NEW ec, NEW s, Asked(n, ec, s), NEW t, NEW u,
         Executes(Source(tree, n), s, t), t.ok, Executes(Follow(tree, n), t, u)
  PROVE  Executes(n, s, u)
<1>1. Kept(n, s, u)
  BY KeptPair DEF Executes
<1>2. Filled(Follow(tree, n), t) = Filled(n, s)
  BY FilledPair DEF Executes
<1>3. u.ok => Full(u) = Filled(n, s)
  BY <1>2 DEF Executes
<1>4. \A x \in Slots : ~ByValue(x) /\ Owned(s, x) => Owned(u, x)
  BY DEF Executes
<1> QED  BY <1>1, <1>3, <1>4 DEF Executes

\* A chain hands on what its follower gathers.
LEMMA ChainGathers ==
  ASSUME Graph(tree), NEW n, Pair(n), tree[n].k = "then", NEW ec, NEW s, Asked(n, ec, s), NEW t, NEW r,
         Executes(Source(tree, n), s, t), t.ok, Gathers(Follow(tree, n), t, r)
  PROVE  Gathers(n, s, r)
<1>1. Kept(n, s, r.s)
  BY KeptPair DEF Executes, Gathers
<1>2. Filled(Follow(tree, n), t) = Filled(n, s)
  BY FilledPair DEF Executes
<1>3. OutCells(tree)[n] = OutCells(tree)[Follow(tree, n)]
  <2>1. n \in DOMAIN tree /\ tree[n].k = "then" /\ tree[n].k \notin Leaves /\ tree[n].k \notin Wrappers
    BY DEF Pair, Leaves, Wrappers
  <2> QED  BY <2>1, OutCellsIs DEF Follow
<1>4. \A x \in Slots : ~ByValue(x) /\ Owned(s, x) =>
        Owned(r.s, x) \/ \E i \in DOMAIN r.got : r.got[i].home = x
  BY DEF Executes, Gathers
<1> QED  BY <1>1, <1>2, <1>3, <1>4 DEF Gathers

\* The values of two handles, one after the other.
LEMMA FittingJoin ==
  ASSUME NEW a \in Seq(Cells(tree)), NEW b \in Seq(Cells(tree)), NEW v, NEW w, Fitting(v, a), Fitting(w, b)
  PROVE  /\ Fitting(v \o w, a \o b) /\ Range(a \o b) = Range(a) \cup Range(b)
         /\ \A x : Brings(v, x) \/ Brings(w, x) => Brings(v \o w, x)
<1> DEFINE J == Len(a)
           K == Len(b)
           vw == v \o w
           ab == a \o b
<1>1. /\ J \in Nat /\ K \in Nat /\ v \in Seq(Held) /\ w \in Seq(Held) /\ Len(v) = J /\ Len(w) = K
      /\ \A i \in 1..J : v[i].home \in {Nowhere, Letter(tree, a[i])} /\ Sound(v[i])
      /\ \A i \in 1..K : w[i].home \in {Nowhere, Letter(tree, b[i])} /\ Sound(w[i])
  BY DEF Fitting
<1>2. /\ vw \in Seq(Held) /\ Len(vw) = J + K /\ ab \in Seq(Cells(tree)) /\ Len(ab) = J + K
  <2>1. v \in Seq(Held) /\ w \in Seq(Held) /\ Len(v) = J /\ Len(w) = K
    BY <1>1
  <2>2. vw \in Seq(Held)
    BY <2>1, ConcatProperties
  <2>4. Len(vw) = Len(v) + Len(w)
    BY <2>1, ConcatProperties
  <2>3. ab \in Seq(Cells(tree)) /\ Len(ab) = J + K
    BY ConcatProperties
  <2> QED  BY <2>1, <2>2, <2>3, <2>4
<1>3. \A i \in 1..(J + K) : /\ vw[i] = IF i <= J THEN v[i] ELSE w[i - J]
                            /\ ab[i] = IF i <= J THEN a[i] ELSE b[i - J]
  BY <1>1
<1>4. DOMAIN v = 1..J /\ DOMAIN w = 1..K /\ DOMAIN vw = 1..(J + K) /\ DOMAIN a = 1..J /\ DOMAIN b = 1..K
      /\ DOMAIN ab = 1..(J + K)
  BY <1>1, <1>2
<1> HIDE DEF vw, ab, J, K
<1>5. ASSUME NEW i \in 1..(J + K)
      PROVE  vw[i].home \in {Nowhere, Letter(tree, ab[i])} /\ Sound(vw[i])
  <2>1. CASE i <= J
    BY <2>1, <1>1, <1>3
  <2>2. CASE ~(i <= J)
    <3>1. i - J \in 1..K
      BY <2>2, <1>1
    <3> QED  BY <2>2, <3>1, <1>1, <1>3
  <2> QED  BY <2>1, <2>2
<1>6. Fitting(vw, ab)
  BY <1>2, <1>5 DEF Fitting
<1>7. \A i \in 1..K : i + J \in 1..(J + K) /\ ~(i + J <= J) /\ (i + J) - J = i
  BY <1>1
<1>8. \A i \in 1..J : i \in 1..(J + K) /\ i <= J
  BY <1>1
<1>9. /\ \A i \in 1..J : vw[i] = v[i] /\ ab[i] = a[i]
      /\ \A i \in 1..K : vw[i + J] = w[i] /\ ab[i + J] = b[i]
  BY <1>3, <1>7, <1>8
<1>10. ASSUME NEW x, (\E i \in DOMAIN v : v[i].home = x) \/ (\E i \in DOMAIN w : w[i].home = x)
       PROVE  \E i \in DOMAIN vw : vw[i].home = x
  <2>1. CASE \E i \in DOMAIN v : v[i].home = x
    BY <2>1, <1>4, <1>8, <1>9
  <2>2. CASE \E i \in DOMAIN w : w[i].home = x
    <3>1. PICK i \in 1..K : w[i].home = x
      BY <2>2, <1>4
    <3> QED  BY <3>1, <1>4, <1>7, <1>9
  <2> QED  BY <1>10, <2>1, <2>2
<1>11. Range(ab) = Range(a) \cup Range(b)
  <2>1. Range(ab) \subseteq Range(a) \cup Range(b)
    <3> SUFFICES ASSUME NEW i \in 1..(J + K) PROVE ab[i] \in Range(a) \cup Range(b)
      BY <1>4 DEF Range
    <3>1. CASE i <= J
      <4>1. i \in 1..J
        BY <3>1, <1>1
      <4> QED  BY <4>1, <1>4, <1>9 DEF Range
    <3>2. CASE ~(i <= J)
      <4>1. i - J \in 1..K
        BY <3>2, <1>1
      <4> QED  BY <3>2, <4>1, <1>3, <1>4 DEF Range
    <3> QED  BY <3>1, <3>2
  <2>2. Range(a) \subseteq Range(ab)
    BY <1>4, <1>8, <1>9 DEF Range
  <2>3. Range(b) \subseteq Range(ab)
    <3> SUFFICES ASSUME NEW i \in 1..K PROVE b[i] \in Range(ab)
      BY <1>4 DEF Range
    <3> QED  BY <1>4, <1>7, <1>9 DEF Range
  <2> QED  BY <2>1, <2>2, <2>3
<1> QED  BY <1>6, <1>10, <1>11 DEF vw, ab, Brings

\* Both branches of a bundle gathered.
LEMMA JoinGathers ==
  ASSUME Graph(tree), NEW n, Pair(n), tree[n].k = "bundle", NEW ec, NEW s, Asked(n, ec, s), NEW l, NEW r,
         Gathers(Source(tree, n), s, l), l.s.ok, Gathers(Follow(tree, n), l.s, r)
  PROVE  Gathers(n, s, JoinBranches(n, l, r))
<1> DEFINE a == Source(tree, n)
           b == Follow(tree, n)
           oa == OutCells(tree)[a]
           ob == OutCells(tree)[b]
<1>0. n \in DOMAIN tree /\ a \in DOMAIN tree /\ b \in DOMAIN tree
  BY PairOf
<1>1. oa \in Seq(Cells(tree)) /\ ob \in Seq(Cells(tree)) /\ Len(oa) \in Nat /\ Len(ob) \in Nat
  BY <1>0, OutCellsOf
<1>2. OutCells(tree)[n] = oa \o ob
  <2>1. tree[n].k \notin Leaves /\ tree[n].k \notin Wrappers /\ tree[n].k # "then"
    BY DEF Leaves, Wrappers
  <2> QED  BY <1>0, <2>1, OutCellsIs DEF Source, Follow
<1>3. Kept(n, s, r.s)
  BY KeptPair DEF Gathers
<1>4. /\ Gathers(a, s, l) /\ l.s.ok /\ Gathers(b, l.s, r) /\ Fitting(l.got, oa)
  BY DEF Gathers
<1>5. CASE ~r.s.ok
  <2>1. JoinBranches(n, l, r) = Lost(Result(r.s, l.got, {}))
    BY <1>5 DEF JoinBranches
  <2> HIDE DEF oa
  <2>2. Range(l.got) \subseteq Held /\ \A v \in Range(l.got) : Sound(v)
    BY <1>1, <1>4, FittingOf
  <2>3. r.got = <<>>
    BY <1>4, <1>5 DEF Gathers
  <2>4. ASSUME NEW x \in Slots, ~ByValue(x), Owned(s, x)
        PROVE  Owned(r.s, x) \/ \E i \in DOMAIN l.got : l.got[i].home = x
    <3>1. CASE \E i \in DOMAIN l.got : l.got[i].home = x
      BY <3>1
    <3>2. CASE Owned(l.s, x)
      <4>1. Owned(r.s, x) \/ \E i \in DOMAIN r.got : r.got[i].home = x
        BY <1>4, <2>4, <3>2 DEF Gathers
      <4>2. DOMAIN r.got = {}
        BY <2>3
      <4> QED  BY <4>1, <4>2
    <3> QED  BY <1>4, <2>4, <3>1, <3>2 DEF Gathers
  <2> QED  BY <1>3, <1>5, <2>1, <2>2, <2>4, LostOf
<1>6. CASE r.s.ok
  <2> DEFINE got == l.got \o r.got
             D == l.deps \cup r.deps
             k == Join(r.s, D)
             j == IF Meets(r.s, "join", n) THEN Failed(r.s) ELSE k
             q == Result(r.s, got, D)
  <2>1. JoinBranches(n, l, r) = Gathered(j, got)
    BY <1>6 DEF JoinBranches
  <2>2. D \in SUBSET Nat /\ r.s \in States(tree) /\ Fitting(r.got, ob)
    BY <1>4, <1>6 DEF Gathers, Kept
  <2>3. Fitting(got, oa \o ob) /\ Range(oa \o ob) = Range(oa) \cup Range(ob)
        /\ \A x : Brings(l.got, x) \/ Brings(r.got, x) => Brings(got, x)
    <3> DEFINE v == l.got
               w == r.got
    <3>1. Fitting(v, oa) /\ Fitting(w, ob)
      BY <1>4, <2>2
    <3> HIDE DEF oa, ob, v, w
    <3>2. Fitting(v \o w, oa \o ob)
      BY <1>1, <3>1, FittingJoin
    <3>3. Range(oa \o ob) = Range(oa) \cup Range(ob)
      BY <1>1, <3>1, FittingJoin
    <3>4. \A x : Brings(v, x) \/ Brings(w, x) => Brings(v \o w, x)
      BY <1>1, <3>1, FittingJoin
    <3> QED  BY <3>2, <3>3, <3>4 DEF v, w
  <2>4. Full(r.s) = Filled(n, s) \ Range(oa \o ob)
    <3>1. /\ UsedCells(tree, n) = UsedCells(tree, a) \cup (UsedCells(tree, b) \ Gives(tree, a))
          /\ Gives(tree, n) = (Gives(tree, a) \ UsedCells(tree, b)) \cup Gives(tree, b)
          /\ UsedCells(tree, a) \cap UsedCells(tree, b) \subseteq Gives(tree, a)
          /\ Gives(tree, a) \cap UsedCells(tree, b) = {}
      BY FlowBetween DEF Pair
    <3>2. /\ Gives(tree, a) \subseteq CellsUnder(tree, a) \cup UsedCells(tree, a) /\ Range(oa) \subseteq Gives(tree, a)
          /\ Gives(tree, b) \subseteq CellsUnder(tree, b) \cup UsedCells(tree, b) /\ Range(ob) \subseteq Gives(tree, b)
      BY <1>0, GivesWithin
    <3>3. /\ CellsUnder(tree, a) \subseteq CellsUnder(tree, n) /\ CellsUnder(tree, b) \subseteq CellsUnder(tree, n)
          /\ CellsUnder(tree, a) \cap CellsUnder(tree, b) = {}
      BY PairOf
    <3>4. UsedCells(tree, n) \subseteq Full(s) /\ Full(s) \cap CellsUnder(tree, n) = {}
      BY DEF Asked
    <3>5. Full(l.s) = ((Full(s) \ UsedCells(tree, a)) \cup Gives(tree, a)) \ Range(oa)
      BY <1>4 DEF Gathers, Filled
    <3>6. Full(r.s) = ((Full(l.s) \ UsedCells(tree, b)) \cup Gives(tree, b)) \ Range(ob)
      BY <1>4, <1>6 DEF Gathers, Filled
    <3>7. Filled(n, s) = (Full(s) \ UsedCells(tree, n)) \cup Gives(tree, n)
      BY DEF Filled
    <3> HIDE DEF oa, ob, a, b
    <3>8. Gives(tree, a) \cap Gives(tree, b) = {}
      BY <3>1, <3>2, <3>3, <3>4
    <3> QED  BY <2>3, <3>1, <3>2, <3>3, <3>4, <3>5, <3>6, <3>7, <3>8
  <2>5. q.s = r.s /\ q.got = got /\ q.deps = D
    <3> HIDE DEF got, D
    <3> QED  BY ResultOf
  <2>6. ASSUME NEW x \in Slots, ~ByValue(x), Owned(s, x)
        PROVE  Owned(r.s, x) \/ \E i \in DOMAIN got : got[i].home = x
    <3>1. Owned(l.s, x) \/ \E i \in DOMAIN l.got : l.got[i].home = x
      BY <1>4, <2>6 DEF Gathers
    <3>2. Owned(l.s, x) => Owned(r.s, x) \/ \E i \in DOMAIN r.got : r.got[i].home = x
      BY <1>4, <2>6 DEF Gathers
    <3> HIDE DEF got
    <3> QED  BY <3>1, <3>2, <2>3 DEF Brings
  <2>7. Calm(r.s, j)
    <3>1. k \in States(tree) /\ k.slots = r.s.slots /\ k.cbs = r.s.cbs /\ k.pipe = r.s.pipe /\ k.ok = r.s.ok
      BY <2>2, JoinOf
    <3> HIDE DEF k
    <3>2. Calm(r.s, k)
      BY <3>1, CalmIs
    <3>3. Calm(r.s, Failed(r.s))
      BY <2>2, FailedOf, CalmIs
    <3> QED  BY <3>2, <3>3
  <2> HIDE DEF q, got, D, j
  <2>8. Gathers(n, s, q)
    <3>1. Full(q.s) = Filled(n, s) \ Range(OutCells(tree)[n]) /\ Fitting(q.got, OutCells(tree)[n])
      BY <1>2, <2>3, <2>4, <2>5
    <3>2. Kept(n, s, q.s) /\ q.deps \in SUBSET Nat /\ q.s.ok
      BY <1>3, <1>6, <2>2, <2>5
    <3>3. \A x \in Slots : ~ByValue(x) /\ Owned(s, x) =>
            Owned(q.s, x) \/ \E i \in DOMAIN q.got : q.got[i].home = x
      BY <2>5, <2>6
    <3> QED  BY <3>1, <3>2, <3>3 DEF Gathers
  <2>9. Gathers(n, s, Gathered(j, q.got))
    BY <1>0, <1>6, <2>5, <2>7, <2>8, GatheredOf
  <2> QED  BY <2>1, <2>5, <2>9
<1> QED  BY <1>5, <1>6

\* A bundle that stops at the first branch.
LEMMA JoinStops ==
  ASSUME Graph(tree), NEW n, Pair(n), NEW s, NEW l, Gathers(Source(tree, n), s, l), ~l.s.ok
  PROVE  Gathers(n, s, l)
<1>1. Kept(n, s, l.s)
  BY KeptFirst DEF Gathers
<1> QED  BY <1>1 DEF Gathers

-----------------------------------------------------------------------------
(* Wrappers: one kid                                                       *)

\* The cells of a wrapper are those of its kid and its own.
LEMMA WrapOf ==
  ASSUME Graph(tree), NEW n \in DOMAIN tree, tree[n].k \in Wrappers
  PROVE  LET a == Source(tree, n)
             out == OutCells(tree)[a]
         IN /\ a \in DOMAIN tree /\ n \in Nat
            /\ CellsUnder(tree, n) = CellsUnder(tree, a) \cup OwnCells(tree, n)
            /\ OwnCells(tree, n) \cap CellsUnder(tree, a) = {}
            /\ UsedCells(tree, n) = UsedCells(tree, a) /\ UsedSlots(tree, n) = UsedSlots(tree, a)
            /\ Gives(tree, n) = (Gives(tree, a) \ Range(out)) \cup OwnCells(tree, n)
            /\ Undelivered(tree)[n] = IF tree[n].k = "host" THEN OwnCells(tree, n) \cup Undelivered(tree)[a]
                                      ELSE OwnCells(tree, n)
            /\ OutCells(tree)[n] = Own(tree, n) /\ Range(Own(tree, n)) = OwnCells(tree, n)
<1> DEFINE a == Source(tree, n)
           out == OutCells(tree)[a]
<1>1. a \in DOMAIN tree /\ n \in Nat
  BY NodesOf
<1>2. Under(tree, n) = Under(tree, a) \cup {n} /\ n \notin Under(tree, a)
  BY UnderOf
<1>3. OutCells(tree)[n] = Own(tree, n) /\ Range(Own(tree, n)) = OwnCells(tree, n)
  BY OutCellsOf, OwnOf
<1>4. Uses(tree, n) = Uses(tree, a) /\ Gives(tree, n) = (Gives(tree, a) \ Range(out)) \cup OwnCells(tree, n)
  BY FlowOf
<1>5. Undelivered(tree)[n] = IF tree[n].k = "host" THEN OwnCells(tree, n) \cup Undelivered(tree)[a]
                             ELSE OwnCells(tree, n)
  <2>1. tree[n].k \notin {"then", "bundle"}
    BY DEF Wrappers
  <2>2. Undelivered(tree)[n] = IF tree[n].k = "host" THEN Range(Own(tree, n)) \cup Undelivered(tree)[tree[n].kids[1]]
                               ELSE Range(OutCells(tree)[n])
    BY <2>1, UndeliveredIs
  <2> QED  BY <2>2, <1>3 DEF Source
<1> HIDE DEF a
<1>6. /\ CellsUnder(tree, n) = CellsUnder(tree, a) \cup OwnCells(tree, n)
      /\ OwnCells(tree, n) \cap CellsUnder(tree, a) = {}
  BY <1>2 DEF CellsUnder, OwnCells
<1>7. UsedCells(tree, n) = UsedCells(tree, a) /\ UsedSlots(tree, n) = UsedSlots(tree, a)
  BY <1>4 DEF UsedCells, UsedSlots
<1> QED  BY <1>1, <1>3, <1>4, <1>5, <1>6, <1>7 DEF a

\* The handle of a wrapper is for the buffers of its kid's.
LEMMA WrapHandle ==
  ASSUME Graph(tree), NEW n \in DOMAIN tree, tree[n].k \in Wrappers
  PROVE  LET out == OutCells(tree)[Source(tree, n)] IN
         /\ out \in Seq(Cells(tree)) /\ Len(out) \in Nat /\ Len(tree[n].on) = Len(out)
         /\ Len(Own(tree, n)) = Len(out)
         /\ \A p \in 1..Len(out) : /\ tree[n].on[p] = Letter(tree, out[p])
                                   /\ Own(tree, n)[p] = <<n, p>>
                                   /\ Letter(tree, Own(tree, n)[p]) = Letter(tree, out[p])
         /\ tree[n].k # "host" => Len(out) = 1
<1> DEFINE out == OutCells(tree)[Source(tree, n)]
<1>1. Source(tree, n) \in DOMAIN tree
  BY WrapOf
<1>2. out \in Seq(Cells(tree)) /\ Len(out) \in Nat /\ DOMAIN out = 1..Len(out)
  BY <1>1, OutCellsOf
<1>3. Wired(tree, n)
  BY DEF Graph
<1>4. tree[n].on = [p \in DOMAIN out |-> Letter(tree, out[p])] /\ (tree[n].k # "host" => Len(out) = 1)
  BY <1>3 DEF Wired
<1> HIDE DEF out
<1>5. Len(tree[n].on) = Len(out) /\ \A p \in 1..Len(out) : tree[n].on[p] = Letter(tree, out[p])
  BY <1>2, <1>4
<1>6. /\ Len(Own(tree, n)) = Len(tree[n].on)
      /\ \A p \in 1..Len(tree[n].on) : Own(tree, n)[p] = <<n, p>> /\ Letter(tree, <<n, p>>) = tree[n].on[p]
  BY OwnOf
<1>7. \A p \in 1..Len(out) : /\ tree[n].on[p] = Letter(tree, out[p])
                             /\ Own(tree, n)[p] = <<n, p>>
                             /\ Letter(tree, Own(tree, n)[p]) = Letter(tree, out[p])
  BY <1>5, <1>6
<1> QED  BY <1>2, <1>4, <1>5, <1>6, <1>7 DEF out

\* What a wrapper is asked, its kid is asked.
LEMMA WrapAsked ==
  ASSUME Graph(tree), NEW n \in DOMAIN tree, tree[n].k \in Wrappers, NEW ec, NEW s, Asked(n, ec, s)
  PROVE  Asked(Source(tree, n), ec, s)
<1> DEFINE a == Source(tree, n)
<1>0. CellsUnder(tree, n) = CellsUnder(tree, a) \cup OwnCells(tree, n)
  BY WrapOf
<1>1. UsedCells(tree, n) = UsedCells(tree, a) /\ UsedSlots(tree, n) = UsedSlots(tree, a)
  BY WrapOf
<1> HIDE DEF a
<1>2. Asked(a, ec, s)
  BY <1>0, <1>1 DEF Asked
<1> QED  BY <1>2 DEF a

\* Without the cells of its handle, a wrapper leaves full what its kid leaves.
LEMMA WrapFilled ==
  ASSUME Graph(tree), NEW n \in DOMAIN tree, tree[n].k \in Wrappers, NEW ec, NEW s, Asked(n, ec, s)
  PROVE  LET a == Source(tree, n)
             left == Filled(a, s) \ Range(OutCells(tree)[a])
         IN left = Filled(n, s) \ OwnCells(tree, n) /\ Filled(n, s) = left \cup OwnCells(tree, n)
            /\ left \subseteq Full(s) \cup (Gives(tree, a) \ Range(OutCells(tree)[a]))
<1> DEFINE a == Source(tree, n)
           out == Range(OutCells(tree)[a])
<1>1. /\ a \in DOMAIN tree
      /\ CellsUnder(tree, n) = CellsUnder(tree, a) \cup OwnCells(tree, n)
      /\ OwnCells(tree, n) \cap CellsUnder(tree, a) = {}
      /\ UsedCells(tree, n) = UsedCells(tree, a)
      /\ Gives(tree, n) = (Gives(tree, a) \ out) \cup OwnCells(tree, n)
  BY WrapOf
<1>2. Gives(tree, a) \subseteq CellsUnder(tree, a) \cup UsedCells(tree, a) /\ out \subseteq Gives(tree, a)
  BY <1>1, GivesWithin
<1>3. UsedCells(tree, n) \subseteq Full(s) /\ Full(s) \cap CellsUnder(tree, n) = {}
  BY DEF Asked
<1> HIDE DEF a, out
<1>4. /\ Filled(a, s) = (Full(s) \ UsedCells(tree, a)) \cup Gives(tree, a)
      /\ Filled(n, s) = (Full(s) \ UsedCells(tree, n)) \cup Gives(tree, n)
  BY DEF Filled
<1> DEFINE left == Filled(a, s) \ out
<1>5. left = Filled(n, s) \ OwnCells(tree, n)
  BY <1>1, <1>2, <1>3, <1>4
<1>6. Filled(n, s) = left \cup OwnCells(tree, n)
  BY <1>1, <1>2, <1>3, <1>4
<1>7. left \subseteq Full(s) \cup (Gives(tree, a) \ out)
  BY <1>4
<1> QED  BY <1>5, <1>6, <1>7 DEF a, out

\* What is under a value that goes by value is for slots that need not come back.
LEMMA ExemptOf ==
  ASSUME Graph(tree), NEW n \in DOMAIN tree, tree[n].k \in {"arced", "route"}
  PROVE  CellsUnder(tree, n) \subseteq Exempt /\ \A i \in 1..Len(tree[n].on) : ByValue(tree[n].on[i])
<1>1. ASSUME NEW m \in Under(tree, n), NEW i \in DOMAIN tree[m].on PROVE ByValue(tree[m].on[i])
  BY <1>1 DEF ByValue
<1>2. ASSUME NEW c \in CellsUnder(tree, n) PROVE c \in Exempt
  <2>1. c \in Cells(tree) /\ c[1] \in Under(tree, n) /\ c[2] \in DOMAIN tree[c[1]].on
    BY CellsOf DEF CellsUnder
  <2> QED  BY <1>1, <2>1 DEF Exempt, Letter
<1>3. ASSUME NEW i \in 1..Len(tree[n].on) PROVE ByValue(tree[n].on[i])
  <2>1. n \in Under(tree, n) /\ i \in DOMAIN tree[n].on
    BY UnderOf, OwnOf
  <2> QED  BY <1>1, <2>1
<1> QED  BY <1>2, <1>3

\* What the kid has kept, a host seam has, and so has what goes by value.
LEMMA KeptWrap ==
  ASSUME Graph(tree), NEW n \in DOMAIN tree, tree[n].k \in {"host", "arced", "route"}, NEW s, NEW t,
         Kept(Source(tree, n), s, t)
  PROVE  Kept(n, s, t)
<1> DEFINE a == Source(tree, n)
<1>1. tree[n].k \in Wrappers
  BY DEF Wrappers
<1>2. /\ CellsUnder(tree, n) = CellsUnder(tree, a) \cup OwnCells(tree, n) /\ UsedSlots(tree, n) = UsedSlots(tree, a)
      /\ Undelivered(tree)[n] = IF tree[n].k = "host" THEN OwnCells(tree, n) \cup Undelivered(tree)[a]
                                ELSE OwnCells(tree, n)
  BY <1>1, WrapOf
<1>3. Kept(a, s, t)
  OBVIOUS
<1> HIDE DEF a
<1>4. CellsUnder(tree, a) \cap (Undelivered(tree)[a] \cup Exempt) \subseteq
      CellsUnder(tree, n) \cap (Undelivered(tree)[n] \cup Exempt)
  <2>1. CASE tree[n].k = "host"
    BY <2>1, <1>2
  <2>2. CASE tree[n].k \in {"arced", "route"}
    <3>1. CellsUnder(tree, n) \subseteq Exempt
      BY <2>2, ExemptOf
    <3> QED  BY <3>1, <1>2
  <2> QED  BY <2>1, <2>2
<1>5. Full(t) \ Full(s) \subseteq CellsUnder(tree, n) \cap (Undelivered(tree)[n] \cup Exempt)
  BY <1>3, <1>4 DEF Kept
<1> QED  BY <1>2, <1>3, <1>5 DEF Kept

\* The values that a kid hands over are for the cells of its wrapper.
LEMMA WrapFits ==
  ASSUME Graph(tree), NEW n \in DOMAIN tree, tree[n].k \in Wrappers, NEW s, NEW r,
         Gathers(Source(tree, n), s, r), r.s.ok
  PROVE  /\ Fitting(r.got, OutCells(tree)[n]) /\ Len(r.got) = Len(tree[n].on)
         /\ r.got \in Seq(Held) /\ DOMAIN r.got = 1..Len(tree[n].on) /\ Len(tree[n].on) \in Nat
         /\ \A i \in 1..Len(tree[n].on) :
              r.got[i] \in Held /\ r.got[i].home \in {Nowhere, tree[n].on[i]} /\ Sound(r.got[i])
<1> DEFINE out == OutCells(tree)[Source(tree, n)]
           own == OutCells(tree)[n]
           L == Len(tree[n].on)
<1>1. own = Own(tree, n)
  BY WrapOf
<1>2. /\ Len(out) \in Nat /\ L = Len(out) /\ Len(own) = Len(out)
      /\ \A p \in 1..Len(out) : tree[n].on[p] = Letter(tree, out[p]) /\ Letter(tree, own[p]) = Letter(tree, out[p])
  BY <1>1, WrapHandle
<1>3. Fitting(r.got, out)
  BY DEF Gathers
<1> HIDE DEF out, own
<1>4. /\ r.got \in Seq(Held) /\ Len(r.got) = Len(out)
      /\ \A i \in 1..Len(out) : r.got[i].home \in {Nowhere, Letter(tree, out[i])} /\ Sound(r.got[i])
  BY <1>3 DEF Fitting
<1>5. DOMAIN r.got = 1..L /\ L \in Nat
  BY <1>2, <1>4
<1>6. ASSUME NEW i \in 1..L
      PROVE  /\ r.got[i] \in Held /\ r.got[i].home \in {Nowhere, tree[n].on[i]} /\ Sound(r.got[i])
             /\ r.got[i].home \in {Nowhere, Letter(tree, own[i])}
  <2>1. r.got[i] \in Held
    BY <1>2, <1>4, <1>6, ElementOfSeq
  <2> QED  BY <1>2, <1>4, <1>6, <2>1
<1>7. Fitting(r.got, own)
  BY <1>2, <1>4, <1>6 DEF Fitting
<1> QED  BY <1>2, <1>4, <1>5, <1>6, <1>7 DEF own

\* A host seam: one command after what was gathered.
LEMMA SeamOf ==
  ASSUME Graph(tree), NEW n \in DOMAIN tree, tree[n].k = "host", NEW ec, NEW s, Asked(n, ec, s), NEW r,
         Gathers(Source(tree, n), s, r)
  PROVE  Gathers(n, s, SeamAfter(n, r))
<1> DEFINE a == Source(tree, n)
           out == OutCells(tree)[a]
           u == Enqueue(r.s, n, Bufs(r.got), r.deps)
           v == Reaches(u, n, out)
<1>1. tree[n].k \in Wrappers
  BY DEF Wrappers
<1>2. Kept(a, s, r.s) /\ r.s \in States(tree) /\ r.deps \in SUBSET Nat
  BY DEF Gathers, Kept
<1>3. Kept(n, s, r.s)
  BY <1>2, KeptWrap
<1>4. \A x \in Slots : ~ByValue(x) /\ Owned(s, x) =>
        Owned(r.s, x) \/ \E i \in DOMAIN r.got : r.got[i].home = x
  BY DEF Gathers
<1>5. CASE ~r.s.ok
  <2>1. r.got = <<>>
    BY <1>5 DEF Gathers
  <2>2. Gathers(n, s, r)
    BY <1>2, <1>3, <1>4, <1>5, <2>1 DEF Gathers
  <2> QED  BY <1>5, <2>2 DEF SeamAfter
<1>6. CASE r.s.ok
  <2>1. Fitting(r.got, OutCells(tree)[n]) /\ Range(OutCells(tree)[n]) = OwnCells(tree, n)
    BY <1>1, <1>6, WrapFits, WrapOf
  <2>2. Full(r.s) = Filled(a, s) \ Range(out)
    BY <1>6 DEF Gathers
  <2>3. Filled(a, s) \ Range(out) = Filled(n, s) \ OwnCells(tree, n)
    BY <1>1, WrapFilled
  <2> HIDE DEF a
  <2>4. Gathers(n, s, r)
    BY <1>2, <1>3, <1>4, <1>6, <2>1, <2>2, <2>3 DEF Gathers
  <2>5. Bufs(r.got) \in SUBSET Contents
    <3>1. \A i \in DOMAIN r.got : r.got[i].v \in Contents
      BY <1>1, <1>6, WrapFits DEF Held
    <3> QED  BY <3>1 DEF Bufs
  <2>6. n \in Nat /\ out \in Seq(Cells(tree)) /\ Len(tree[n].on) = Len(out)
    BY <1>1, NodesOf, WrapHandle DEF a
  <2>7. u \in States(tree) /\ u.slots = r.s.slots /\ u.cbs = r.s.cbs /\ u.pipe = r.s.pipe /\ u.ok = r.s.ok
    BY <1>2, <2>5, <2>6, EnqueueOf
  <2> HIDE DEF u, out
  <2>8. v \in States(tree) /\ v.slots = u.slots /\ v.cbs = u.cbs /\ v.pipe = u.pipe /\ v.ok = u.ok
    BY <2>6, <2>7, ReachesOf
  <2>9. Calm(r.s, v)
    BY <2>7, <2>8, CalmIs
  <2>10. SeamAfter(n, r) = Gathered(v, r.got)
    BY <1>6 DEF SeamAfter, u, out, a
  <2> HIDE DEF v
  <2> QED  BY <1>6, <2>4, <2>9, <2>10, GatheredOf
<1> QED  BY <1>5, <1>6

\* A host seam executed puts what it gathered into its cells.
LEMMA ExecutedOf ==
  ASSUME Graph(tree), NEW n \in DOMAIN tree, tree[n].k \in Wrappers, NEW ec, NEW s, Asked(n, ec, s), NEW r,
         Gathers(n, s, r)
  PROVE  Executes(n, s, Executed(n, r))
<1> DEFINE D == r.deps
           u == PutAll(r.s, n, r.got, D)
           own == OutCells(tree)[n]
<1>1. Kept(n, s, r.s) /\ r.s \in States(tree) /\ Sane(r.s) /\ D \in SUBSET Nat
  BY DEF Gathers, Kept
<1>2. CASE ~r.s.ok
  <2>1. r.got = <<>>
    BY <1>2 DEF Gathers
  <2>2. \A x \in Slots : ~ByValue(x) /\ Owned(s, x) => Owned(r.s, x)
    BY <2>1 DEF Gathers
  <2> QED  BY <1>1, <1>2, <2>2 DEF Executed, Executes
<1>3. CASE r.s.ok
  <2>1. own = Own(tree, n) /\ Range(own) = OwnCells(tree, n)
    BY WrapOf
  <2>2. /\ Len(tree[n].on) \in Nat /\ Len(own) = Len(tree[n].on)
        /\ \A i \in 1..Len(tree[n].on) : own[i] = <<n, i>> /\ Letter(tree, own[i]) = tree[n].on[i]
    <3> HIDE DEF own
    <3>1. /\ Len(tree[n].on) \in Nat /\ Len(Own(tree, n)) = Len(tree[n].on)
          /\ \A i \in 1..Len(tree[n].on) : Own(tree, n)[i] = <<n, i>> /\ Letter(tree, <<n, i>>) = tree[n].on[i]
      BY OwnOf
    <3> QED  BY <2>1, <3>1
  <2>3. Fitting(r.got, own) /\ Full(r.s) = Filled(n, s) \ OwnCells(tree, n)
    BY <1>3, <2>1 DEF Gathers
  <2> HIDE DEF own
  <2>4. /\ r.got \in Seq(Held) /\ Len(r.got) = Len(tree[n].on) /\ DOMAIN r.got = 1..Len(tree[n].on)
        /\ \A i \in 1..Len(tree[n].on) : r.got[i].home \in {Nowhere, tree[n].on[i]} /\ Sound(r.got[i])
    BY <2>2, <2>3 DEF Fitting
  <2>5. /\ u \in States(tree) /\ u.slots = r.s.slots /\ u.cbs = r.s.cbs /\ u.ok = r.s.ok
        /\ \A c \in Cells(tree) :
             /\ c[1] = n => u.pipe[c] # None /\ u.pipe[c].v = r.got[c[2]].v /\ u.pipe[c].home = r.got[c[2]].home
             /\ c[1] # n => u.pipe[c] = r.s.pipe[c]
    BY <1>1, <2>4, PutAllOf
  <2>6. Executed(n, r) = u
    BY <1>3 DEF Executed
  <2> HIDE DEF u
  <2>7. OwnCells(tree, n) \subseteq Cells(tree)
        /\ \A c \in Cells(tree) : c \in OwnCells(tree, n) <=> c[1] = n
    BY DEF OwnCells
  <2>8. \A c \in OwnCells(tree, n) : c[2] \in 1..Len(tree[n].on) /\ Letter(tree, c) = tree[n].on[c[2]]
    BY <2>2, CellsOf DEF OwnCells, Letter
  <2>9. Full(u) = Full(r.s) \cup OwnCells(tree, n)
    BY <2>5, <2>7 DEF Full
  <2>10. OwnCells(tree, n) \subseteq Filled(n, s)
    BY <2>1, GivesWithin DEF Filled, own
  <2>11. Full(u) = Filled(n, s)
    BY <2>3, <2>9, <2>10
  <2>12. Sane(u)
    <3> SUFFICES ASSUME NEW c \in Full(u)
                 PROVE  u.pipe[c].home \in {Nowhere, Letter(tree, c)} /\ Sound(u.pipe[c])
      BY DEF Sane
    <3>0. c \in Cells(tree)
      BY DEF Full
    <3>1. CASE c[1] = n
      BY <3>0, <3>1, <2>4, <2>5, <2>7, <2>8 DEF Sound
    <3>2. CASE c[1] # n
      BY <3>0, <3>2, <1>1, <2>5, <2>7, <2>9 DEF Sane
    <3> QED  BY <3>1, <3>2
  <2>13. OwnCells(tree, n) \subseteq CellsUnder(tree, n) \cap Undelivered(tree)[n]
    <3>1. CellsUnder(tree, n) = CellsUnder(tree, Source(tree, n)) \cup OwnCells(tree, n)
      BY WrapOf
    <3>2. Undelivered(tree)[n] = IF tree[n].k = "host"
                                 THEN OwnCells(tree, n) \cup Undelivered(tree)[Source(tree, n)]
                                 ELSE OwnCells(tree, n)
      BY WrapOf
    <3> QED  BY <3>1, <3>2
  <2>14. Kept(n, s, u)
    <3>1. Full(u) \ Full(s) \subseteq CellsUnder(tree, n) \cap (Undelivered(tree)[n] \cup Exempt)
      BY <1>1, <2>9, <2>13 DEF Kept
    <3> QED  BY <1>1, <2>5, <2>12, <3>1 DEF Kept
  <2>15. ASSUME NEW x \in Slots, ~ByValue(x), Owned(s, x) PROVE Owned(u, x)
    <3>1. CASE Owned(r.s, x)
      <4>1. CASE r.s.slots[x] # None
        BY <4>1, <2>5 DEF Owned
      <4>2. CASE \E c \in Full(r.s) : r.s.pipe[c].home = x
        <5>1. PICK c \in Full(r.s) : r.s.pipe[c].home = x
          BY <4>2
        <5>2. c \in Cells(tree) /\ c[1] # n /\ c \in Full(u)
          BY <5>1, <2>3, <2>7, <2>9 DEF Full
        <5> QED  BY <5>1, <5>2, <2>5 DEF Owned
      <4> QED  BY <3>1, <4>1, <4>2 DEF Owned
    <3>2. CASE \E i \in DOMAIN r.got : r.got[i].home = x
      <4>1. PICK i \in 1..Len(tree[n].on) : r.got[i].home = x
        BY <2>4, <3>2
      <4>2. <<n, i>> \in OwnCells(tree, n)
        BY <2>1, <2>2, CellsOf, OwnOf DEF OwnCells
      <4>3. <<n, i>> \in Full(u) /\ <<n, i>> \in Cells(tree)
        BY <4>2, <2>7, <2>9
      <4>4. u.pipe[<<n, i>>].home = r.got[i].home
        BY <4>3, <2>5
      <4> QED  BY <4>1, <4>3, <4>4 DEF Owned
    <3> QED  BY <2>15, <3>1, <3>2 DEF Gathers
  <2> QED  BY <2>6, <2>11, <2>14, <2>15 DEF Executes
<1> QED  BY <1>2, <1>3

\* What is left full when a kid has been gathered, and its value put into the
\* only cell of its wrapper.
LEMMA WrapPut ==
  ASSUME Graph(tree), NEW n \in DOMAIN tree, tree[n].k \in Wrappers, Len(tree[n].on) = 1,
         NEW ec, NEW s, Asked(n, ec, s), NEW r, Gathers(Source(tree, n), s, r), r.s.ok,
         NEW t \in States(tree), t.slots = r.s.slots, t.cbs = r.s.cbs, t.pipe = r.s.pipe, t.ok,
         NEW v, v.v \in Contents, v.home \in {Nowhere, tree[n].on[1]}, Sound(v), NEW D \in SUBSET Nat,
         \A x \in Slots : ~ByValue(x) /\ r.got[1].home = x => v.home = x,
         Full(r.s) \ Full(s) \subseteq CellsUnder(tree, n) \cap (Undelivered(tree)[n] \cup Exempt)
  PROVE  Executes(n, s, Put(t, <<n, 1>>, v, D))
<1> DEFINE c0 == <<n, 1>>
           u == Put(t, c0, v, D)
           a == Source(tree, n)
           out == Range(OutCells(tree)[a])
<1>1. /\ c0 \in Cells(tree) /\ Letter(tree, c0) = tree[n].on[1] /\ OwnCells(tree, n) = {c0}
      /\ tree[n].on[1] \in Slots
  <2>1. /\ tree[n].on \in Seq(Slots) /\ DOMAIN tree[n].on = 1..1
        /\ Letter(tree, <<n, 1>>) = tree[n].on[1]
    BY OwnOf
  <2>2. \A c \in Cells(tree) : c[2] \in DOMAIN tree[c[1]].on /\ c = <<c[1], c[2]>>
    BY CellsOf
  <2>3. <<n, 1>> \in Cells(tree)
    BY <2>1, CellsOf
  <2> QED  BY <2>1, <2>2, <2>3 DEF OwnCells
<1>2. /\ u \in States(tree) /\ u.slots = t.slots /\ u.cbs = t.cbs /\ u.ok = t.ok
      /\ u.pipe[c0] # None /\ u.pipe[c0].v = v.v /\ u.pipe[c0].home = v.home
      /\ \A d \in Cells(tree) : d # c0 => u.pipe[d] = t.pipe[d]
  <2>1. v.home \in Slots \cup {Nowhere}
    BY <1>1
  <2> HIDE DEF c0
  <2>2. u.pipe[c0] # None /\ u.pipe[c0].v = v.v /\ u.pipe[c0].home = v.home
      /\ \A d \in Cells(tree) : d # c0 => u.pipe[d] = t.pipe[d]
    BY <1>1, <2>1, PutOf
  <2>3. u \in States(tree) /\ u.slots = t.slots /\ u.cbs = t.cbs /\ u.ok = t.ok
    BY <1>1, <2>1, PutKeeps
  <2> QED  BY <2>2, <2>3
<1>3. Kept(a, s, r.s) /\ Full(r.s) = Filled(a, s) \ out
  BY DEF Gathers
<1>4. Filled(a, s) \ out = Filled(n, s) \ OwnCells(tree, n)
  BY WrapFilled
<1>5. Filled(n, s) = (Filled(a, s) \ out) \cup OwnCells(tree, n)
  BY WrapFilled
<1>6. OwnCells(tree, n) \subseteq CellsUnder(tree, n) \cap Undelivered(tree)[n]
    /\ UsedSlots(tree, n) = UsedSlots(tree, a)
  <2>1. CellsUnder(tree, n) = CellsUnder(tree, a) \cup OwnCells(tree, n)
        /\ UsedSlots(tree, n) = UsedSlots(tree, a)
    BY WrapOf
  <2>2. Undelivered(tree)[n] = IF tree[n].k = "host" THEN OwnCells(tree, n) \cup Undelivered(tree)[a]
                               ELSE OwnCells(tree, n)
    BY WrapOf
  <2> QED  BY <2>1, <2>2
<1>7. \A x \in Slots : ~ByValue(x) /\ Owned(s, x) =>
        Owned(r.s, x) \/ \E i \in DOMAIN r.got : r.got[i].home = x
  BY DEF Gathers
<1>8. DOMAIN r.got = 1..1
  BY WrapFits
<1> HIDE DEF a, out, u, c0
<1>9. Full(u) = Full(r.s) \cup {c0}
  BY <1>1, <1>2 DEF Full
<1>10. Full(u) = Filled(n, s) /\ c0 \notin Full(r.s)
  BY <1>1, <1>3, <1>4, <1>5, <1>9
<1>11. Sane(u)
  <2> SUFFICES ASSUME NEW c \in Full(u)
               PROVE  u.pipe[c].home \in {Nowhere, Letter(tree, c)} /\ Sound(u.pipe[c])
    BY DEF Sane
  <2>0. c \in Cells(tree)
    BY DEF Full
  <2>1. CASE c = c0
    BY <2>1, <1>1, <1>2 DEF Sound
  <2>2. CASE c # c0
    <3>1. c \in Full(r.s) /\ u.pipe[c] = r.s.pipe[c]
      BY <2>0, <2>2, <1>2, <1>9
    <3>2. Sane(r.s)
      BY <1>3 DEF Kept
    <3> QED  BY <3>1, <3>2 DEF Sane
  <2> QED  BY <2>1, <2>2
<1>12. Full(u) \ Full(s) \subseteq CellsUnder(tree, n) \cap (Undelivered(tree)[n] \cup Exempt)
  BY <1>1, <1>6, <1>9
<1>13. Kept(n, s, u)
  <2>1. /\ \A f \in Heads(tree) : s.cbs[f] # None => u.cbs[f] # None
        /\ \A x \in Slots \ UsedSlots(tree, n) : s.slots[x] # None => u.slots[x] # None
    BY <1>2, <1>3, <1>6 DEF Kept
  <2> QED  BY <1>2, <1>11, <1>12, <2>1 DEF Kept
<1>14. ASSUME NEW x \in Slots, ~ByValue(x), Owned(s, x) PROVE Owned(u, x)
  <2>1. CASE r.s.slots[x] # None
    BY <2>1, <1>2 DEF Owned
  <2>2. CASE \E c \in Full(r.s) : r.s.pipe[c].home = x
    <3>1. PICK c \in Full(r.s) : r.s.pipe[c].home = x
      BY <2>2
    <3>2. c \in Cells(tree) /\ c # c0 /\ c \in Full(u)
      BY <3>1, <1>9, <1>10 DEF Full
    <3> QED  BY <3>1, <3>2, <1>2 DEF Owned
  <2>3. CASE \E i \in DOMAIN r.got : r.got[i].home = x
    <3>1. r.got[1].home = x
      BY <2>3, <1>8
    <3>2. v.home = x /\ c0 \in Full(u)
      BY <3>1, <1>9, <1>14
    <3> QED  BY <3>2, <1>2 DEF Owned
  <2> QED  BY <1>7, <1>14, <2>1, <2>2, <2>3 DEF Owned
<1>15. Executes(n, s, u)
  BY <1>2, <1>10, <1>13, <1>14 DEF Executes
<1> QED  BY <1>15 DEF u, c0

\* A value that goes by value, without its home.
LEMMA HomelessOf ==
  ASSUME Graph(tree), NEW n \in DOMAIN tree, tree[n].k \in {"arced", "route"},
         NEW ec, NEW s, Asked(n, ec, s), NEW r, Gathers(Source(tree, n), s, r)
  PROVE  /\ ~r.s.ok => Executes(n, s, r.s)
         /\ r.s.ok => \A D \in SUBSET Nat : Executes(n, s, Put(r.s, <<n, 1>>, Homeless(r.got[1]), D))
         /\ r.s \in States(tree) /\ r.deps \in SUBSET Nat
<1>1. tree[n].k \in Wrappers /\ tree[n].k # "host"
  BY DEF Wrappers
<1>2. Kept(Source(tree, n), s, r.s) /\ r.s \in States(tree) /\ r.deps \in SUBSET Nat
  BY DEF Gathers, Kept
<1>3. Kept(n, s, r.s)
  BY <1>2, KeptWrap
<1>4. ASSUME ~r.s.ok PROVE Executes(n, s, r.s)
  <2>1. r.got = <<>>
    BY <1>4 DEF Gathers
  <2>2. \A x \in Slots : ~ByValue(x) /\ Owned(s, x) => Owned(r.s, x)
    BY <2>1 DEF Gathers
  <2> QED  BY <1>3, <1>4, <2>2 DEF Executes
<1>5. ASSUME r.s.ok, NEW D \in SUBSET Nat
      PROVE  Executes(n, s, Put(r.s, <<n, 1>>, Homeless(r.got[1]), D))
  <2> DEFINE v == Homeless(r.got[1])
  <2>1. Len(tree[n].on) = 1
    BY <1>1, WrapHandle
  <2>2. r.got[1] \in Held /\ r.got[1].home \in {Nowhere, tree[n].on[1]}
    BY <1>1, <1>5, <2>1, WrapFits
  <2>3. v.v = r.got[1].v /\ v.home = Nowhere
    BY <2>2 DEF Homeless, Held
  <2>4. v.v \in Contents /\ v.home \in {Nowhere, tree[n].on[1]} /\ Sound(v)
    BY <2>2, <2>3 DEF Held, Sound
  <2> HIDE DEF v
  <2>5. \A x \in Slots : ~ByValue(x) /\ r.got[1].home = x => v.home = x
    <3>1. ByValue(tree[n].on[1])
      BY <2>1, ExemptOf
    <3>2. Nowhere \notin Slots
      BY NamesAssumption
    <3> QED  BY <3>1, <3>2, <2>2
  <2>6. Full(r.s) \ Full(s) \subseteq CellsUnder(tree, n) \cap (Undelivered(tree)[n] \cup Exempt)
    BY <1>3 DEF Kept
  <2>7. Executes(n, s, Put(r.s, <<n, 1>>, v, D))
    BY <1>1, <1>2, <1>5, <2>1, <2>4, <2>5, <2>6, WrapPut
  <2> QED  BY <2>7 DEF v
<1> QED  BY <1>2, <1>4, <1>5

\* An Arc made of what its kid hands on: no home, the buffer once more.
LEMMA ArcedOf ==
  ASSUME Graph(tree), NEW n \in DOMAIN tree, tree[n].k = "arced",
         NEW ec, NEW s, Asked(n, ec, s), NEW r, Gathers(Source(tree, n), s, r)
  PROVE  Executes(n, s, ArcedAfter(n, ec, r))
<1> DEFINE from == OutCells(tree)[Source(tree, n)]
           u(D) == Put(r.s, <<n, 1>>, Homeless(r.got[1]), D)
           x == Aliased(u({}), n, ec, from[1])
<1>1. /\ ~r.s.ok => Executes(n, s, r.s)
      /\ r.s.ok => \A D \in SUBSET Nat : Executes(n, s, u(D))
      /\ r.s \in States(tree) /\ r.deps \in SUBSET Nat
  BY HomelessOf
<1>2. ec.cb \in {"off", "build", "lend"} /\ r.s.ok \in BOOLEAN
  BY <1>1, StateOf DEF Asked, Contexts
<1>3. CASE ~r.s.ok
  BY <1>1, <1>3 DEF ArcedAfter
<1>4. CASE r.s.ok /\ ec.cb = "off"
  <2>1. ArcedAfter(n, ec, r) = u(r.deps)
    BY <1>4 DEF ArcedAfter
  <2> HIDE DEF u
  <2> QED  BY <1>1, <1>4, <2>1
<1>5. CASE r.s.ok /\ ec.cb = "lend"
  <2>1. ArcedAfter(n, ec, r) = u({})
    BY <1>5 DEF ArcedAfter
  <2> HIDE DEF u
  <2> QED  BY <1>1, <1>5, <2>1
<1>6. CASE r.s.ok /\ ec.cb = "build"
  <2>1. ArcedAfter(n, ec, r) = x
    BY <1>6 DEF ArcedAfter
  <2>2. tree[n].k \in Wrappers /\ tree[n].k # "host"
    BY DEF Wrappers
  <2>3. from \in Seq(Cells(tree)) /\ Len(from) = 1 /\ Len(tree[n].on) = 1
    BY <2>2, WrapHandle
  <2>4. from[1] \in Cells(tree) /\ n \in Nat /\ <<n, 1>> \in Cells(tree) /\ ec.f \in Heads(tree)
    <3>1. 1 \in DOMAIN tree[n].on
      BY <2>3, OwnOf
    <3>2. from[1] \in Cells(tree)
      BY <2>3, ElementOfSeq
    <3> QED  BY <3>1, <3>2, <1>6, NodesOf, CellsOf DEF Asked
  <2> HIDE DEF u, from
  <2>5. Executes(n, s, u({}))
    BY <1>1, <1>6
  <2>6. u({}) \in States(tree)
    BY <2>5 DEF Executes, Kept
  <2>7. x \in States(tree) /\ x.slots = u({}).slots /\ x.cbs = u({}).cbs /\ x.pipe = u({}).pipe /\ x.ok = u({}).ok
    BY <2>4, <2>6, AliasedOf
  <2>8. Calm(u({}), x)
    BY <2>7, CalmIs
  <2> HIDE DEF x
  <2> QED  BY <2>1, <2>5, <2>8, CalmExecutes
<1> QED  BY <1>2, <1>3, <1>4, <1>5, <1>6

\* A re-routed output loses its home.
LEMMA RouteOf ==
  ASSUME Graph(tree), NEW n \in DOMAIN tree, tree[n].k = "route",
         NEW ec, NEW s, Asked(n, ec, s), NEW r, Gathers(Source(tree, n), s, r)
  PROVE  Executes(n, s, RouteAfter(n, r)) /\ Executes(n, s, Failed(s))
<1> DEFINE u(D) == Put(r.s, <<n, 1>>, Homeless(r.got[1]), D)
<1>1. /\ ~r.s.ok => Executes(n, s, r.s)
      /\ r.s.ok => \A D \in SUBSET Nat : Executes(n, s, u(D))
      /\ r.deps \in SUBSET Nat
  BY HomelessOf
<1>2. RouteAfter(n, r) = IF r.s.ok THEN u(r.deps) ELSE r.s
  BY DEF RouteAfter
<1> HIDE DEF u
<1>3. s \in States(tree)
  BY DEF Asked
<1>4. Neat(n, s, Failed(s))
  BY <1>3, FailedOf, StoppedLeaf
<1> QED  BY <1>1, <1>2, <1>4 DEF Neat

\* The value of a profiled leaf keeps its home.
LEMMA ProfiledOf ==
  ASSUME Graph(tree), NEW n \in DOMAIN tree, tree[n].k = "profiled", tree[Source(tree, n)].k \in Leaves,
         NEW ec, NEW s, Asked(n, ec, s), NEW r, Gathers(Source(tree, n), s, r),
         ~r.s.ok => Full(r.s) \subseteq Full(s), Faults \cap {"profile", "callback"} = {}
  PROVE  Executes(n, s, ProfiledAfter(n, r))
<1> DEFINE a == Source(tree, n)
           t == Join(r.s, r.deps)
           v == r.got[1]
           D == {Newest(t)}
<1>1. tree[n].k \in Wrappers /\ tree[n].k # "host"
  BY DEF Wrappers
<1>2. Kept(a, s, r.s) /\ r.s \in States(tree) /\ r.deps \in SUBSET Nat /\ UsedSlots(tree, n) = UsedSlots(tree, a)
  <2>1. Kept(a, s, r.s) /\ r.s \in States(tree) /\ r.deps \in SUBSET Nat
    BY DEF Gathers, Kept
  <2>2. UsedSlots(tree, n) = UsedSlots(tree, a)
    BY <1>1, WrapOf
  <2> QED  BY <2>1, <2>2
<1>3. CASE ~r.s.ok
  <2>1. r.got = <<>> /\ Full(r.s) \subseteq Full(s)
    BY <1>3 DEF Gathers
  <2>2. \A x \in Slots : ~ByValue(x) /\ Owned(s, x) => Owned(r.s, x)
    BY <2>1 DEF Gathers
  <2>3. Kept(n, s, r.s)
    BY <1>2, <2>1 DEF Kept
  <2> QED  BY <1>3, <2>2, <2>3 DEF Executes, ProfiledAfter
<1>4. CASE r.s.ok
  <2>1. t \in States(tree) /\ t.slots = r.s.slots /\ t.cbs = r.s.cbs /\ t.pipe = r.s.pipe /\ t.ok = r.s.ok
    BY <1>2, JoinOf
  <2>2. ProfiledAfter(n, r) = Put(t, <<n, 1>>, v, D)
    <3>1. r.s.fault \in Faults \X Nat
      BY <1>2 DEF States
    <3>2. ~Meets(r.s, "profile", n) /\ ~Meets(r.s, "callback", n)
      BY <3>1 DEF Meets
    <3> QED  BY <1>4, <3>2 DEF ProfiledAfter
  <2> HIDE DEF t
  <2>3. D \in SUBSET Nat
    BY <2>1, NewestOf
  <2>4. Len(tree[n].on) = 1
    BY <1>1, WrapHandle
  <2>5. v \in Held /\ v.home \in {Nowhere, tree[n].on[1]} /\ Sound(v)
    BY <1>1, <1>4, <2>4, WrapFits
  <2>6. v.v \in Contents
    BY <2>5 DEF Held
  <2>7. Full(r.s) \subseteq Full(s)
    <3>1. a \in DOMAIN tree
      BY <1>1, WrapOf
    <3>2. Gives(tree, a) = Range(OutCells(tree)[a])
      BY <3>1, FlowOf
    <3>3. Full(r.s) = Filled(a, s) \ Range(OutCells(tree)[a])
      BY <1>4 DEF Gathers
    <3> HIDE DEF a
    <3> QED  BY <3>2, <3>3 DEF Filled
  <2> HIDE DEF v, D
  <2>8. \A x \in Slots : ~ByValue(x) /\ r.got[1].home = x => v.home = x
    BY DEF v
  <2>9. Full(r.s) \ Full(s) \subseteq CellsUnder(tree, n) \cap (Undelivered(tree)[n] \cup Exempt)
    BY <2>7
  <2>10. t.ok
    BY <1>4, <2>1
  <2>11. Executes(n, s, Put(t, <<n, 1>>, v, D))
    BY <1>1, <1>4, <2>1, <2>3, <2>4, <2>5, <2>6, <2>8, <2>9, <2>10, WrapPut
  <2> QED  BY <2>2, <2>11
<1> QED  BY <1>3, <1>4

-----------------------------------------------------------------------------
(* Nodes with kids                                                         *)

\* A context is left, or a boundary is opened in it.
LEMMA OutsideAsked ==
  ASSUME NEW n, NEW ec, NEW s, Asked(n, ec, s)
  PROVE  Asked(n, Outside(ec, s), s) /\ Asked(n, SourceWalk(n, ec), s)
<1>1. Asked(n, Off, s)
  BY AskedOff
<1> QED  BY <1>1 DEF Outside, SourceWalk

\* A boundary walks its node in the context it makes for it; it lends only a command buffer.
LEMMA BoundaryAsked ==
  ASSUME Graph(tree), NEW n \in Heads(tree), NEW ec, NEW s, Asked(n, ec, s)
  PROVE  Asked(n, BoundaryWalk(n, s), s) /\ (BoundaryWalk(n, s).cb = "lend" => s.cbs[n] # None)
<1> DEFINE b == BoundaryWalk(n, s)
<1>1. n \in DOMAIN tree /\ n \in 0..Len(tree)
  BY NodesOf DEF Heads
<1>2. \/ s.cbs[n] # None /\ b = Walk("lend", n)
      \/ s.cbs[n] = None /\ b = Suppressed(n)
      \/ s.cbs[n] = None /\ b = Walk("build", n)
  BY DEF BoundaryWalk
<1>3. CASE s.cbs[n] # None /\ b = Walk("lend", n)
  <2>1. b \in Contexts(tree) /\ b.cb = "lend" /\ b.f = n
    BY <1>1, <1>3 DEF Walk, Contexts
  <2> HIDE DEF b
  <2>2. Asked(n, b, s)
    BY <1>3, <2>1 DEF Asked
  <2> QED  BY <1>3, <2>2 DEF b
<1>4. CASE s.cbs[n] = None /\ b = Suppressed(n)
  <2>1. b \in Contexts(tree) /\ b.cb = "off"
    BY <1>1, <1>4 DEF Suppressed, Off, Contexts
  <2> HIDE DEF b
  <2>2. Asked(n, b, s)
    BY <2>1 DEF Asked
  <2> QED  BY <2>1, <2>2 DEF b
<1>5. CASE s.cbs[n] = None /\ b = Walk("build", n)
  <2>1. b \in Contexts(tree) /\ b.cb = "build" /\ b.f = n
    BY <1>1, <1>5 DEF Walk, Contexts
  <2> HIDE DEF b
  <2>2. Asked(n, b, s)
    BY <2>1 DEF Asked
  <2> QED  BY <2>1, <2>2 DEF b
<1> QED  BY <1>2, <1>3, <1>4, <1>5

\* What a boundary does at its end keeps the contract.
LEMMA BoundaryEnds ==
  ASSUME Graph(tree), NEW n \in Heads(tree), NEW s, NEW ec, ec.cb = "lend" => s.cbs[n] # None
  PROVE  /\ \A u : Executes(n, s, u) => Executes(n, s, EndExec(n, ec, u))
         /\ \A r : Gathers(n, s, r) => Gathers(n, s, EndGather(n, ec, r))
<1>1. ASSUME NEW u, Executes(n, s, u) PROVE Executes(n, s, EndExec(n, ec, u))
  <2>1. u \in States(tree) /\ (ec.cb = "lend" => u.cbs[n] # None)
    BY <1>1 DEF Executes, Kept
  <2>2. Calm(u, EndExec(n, ec, u))
    BY <2>1, EndExecOf
  <2> QED  BY <1>1, <2>2, CalmExecutes
<1>2. ASSUME NEW r, Gathers(n, s, r) PROVE Gathers(n, s, EndGather(n, ec, r))
  <2>1. ec.cb = "lend" => r.s.cbs[n] # None
    BY <1>2 DEF Gathers, Kept
  <2> QED  BY <1>2, <2>1, EndGatherOf
<1> QED  BY <1>1, <1>2

\* A kid that obeys, called through its boundary, executes and gathers.
LEMMA ChildOf ==
  ASSUME Graph(tree), NEW n, NEW v, Obeys(v, n), NEW ec, NEW mode \in Modes, NEW s, Asked(n, ec, s)
  PROVE  Executes(n, s, ExecChild(n, v, ec, mode, s)) /\ Gathers(n, s, GatherChild(n, v, ec, mode, s))
<1> DEFINE e == Outside(ec, s)
           b == BoundaryWalk(n, s)
<1>1. Asked(n, e, s)
  BY OutsideAsked
<1> HIDE DEF e
<1>2. CASE OpensBoundary(n, e, s)
  <2>1. n \in Heads(tree)
    BY <1>2 DEF OpensBoundary
  <2>2. Asked(n, b, s) /\ (b.cb = "lend" => s.cbs[n] # None)
    BY <2>1, BoundaryAsked
  <2>3. ExecChild(n, v, ec, mode, s) = EndExec(n, b, Exec(v, b, mode, s))
        /\ GatherChild(n, v, ec, mode, s) = EndGather(n, b, Gather(v, b, mode, s))
    BY <1>2 DEF e, ExecChild, GatherChild, BoundaryExec, BoundaryGather
  <2> HIDE DEF b
  <2>4. Executes(n, s, Exec(v, b, mode, s)) /\ Gathers(n, s, Gather(v, b, mode, s))
    BY <2>2 DEF Obeys
  <2> QED  BY <2>1, <2>2, <2>3, <2>4, BoundaryEnds
<1>3. CASE ~OpensBoundary(n, e, s)
  <2>1. ExecChild(n, v, ec, mode, s) = Exec(v, e, mode, s)
        /\ GatherChild(n, v, ec, mode, s) = Gather(v, e, mode, s)
    BY <1>3 DEF e, ExecChild, GatherChild
  <2>2. Executes(n, s, Exec(v, e, mode, s)) /\ Gathers(n, s, Gather(v, e, mode, s))
    BY <1>1 DEF Obeys
  <2> QED  BY <2>1, <2>2
<1> QED  BY <1>2, <1>3

\* The source of a chain, with the close of its span.
LEMMA SourcedOf ==
  ASSUME Graph(tree), NEW n, Pair(n), NEW w, Obeys(w[1], Source(tree, n)), NEW ec, NEW s, Asked(n, ec, s)
  PROVE  Executes(Source(tree, n), s, Sourced(n, w, ec, s))
<1> DEFINE a == Source(tree, n)
           e == SourceWalk(a, ec)
           t == ExecChild(a, w[1], e, "pipelined", s)
<1>1. Asked(a, ec, s)
  BY FirstAsked
<1>2. Asked(a, e, s)
  BY <1>1, OutsideAsked
<1>3. "pipelined" \in Modes
  BY DEF Modes
<1> HIDE DEF e
<1>4. Executes(a, s, t)
  BY <1>2, <1>3, ChildOf
<1>5. Sourced(n, w, ec, s) = IF t.ok /\ Closes(Follow(tree, n), ec) THEN CloseSpan(a, ec, t) ELSE t
  BY DEF Sourced, e
<1> HIDE DEF a, t
<1>6. CASE t.ok /\ Closes(Follow(tree, n), ec)
  <2>1. ec.cb \in {"build", "lend"} /\ ec.f \in Heads(tree) /\ (ec.cb = "lend" => s.cbs[ec.f] # None)
    BY <1>1, <1>6 DEF Closes, Asked, Contexts
  <2>2. t \in States(tree) /\ (ec.cb = "lend" => t.cbs[ec.f] # None)
    BY <1>4, <2>1 DEF Executes, Kept
  <2>3. Calm(t, CloseSpan(a, ec, t))
    BY <2>1, <2>2, CloseSpanOf
  <2>4. Executes(a, s, CloseSpan(a, ec, t))
    BY <1>4, <2>3, CalmExecutes
  <2> QED  BY <1>5, <1>6, <2>4 DEF a
<1>7. CASE ~(t.ok /\ Closes(Follow(tree, n), ec))
  BY <1>4, <1>5, <1>7 DEF a
<1> QED  BY <1>6, <1>7

\* Two in sequence, executed and gathered.
LEMMA NextAsked ==
  ASSUME Graph(tree), NEW n, Pair(n), NEW ec, NEW s, Asked(n, ec, s), NEW t,
         Executes(Source(tree, n), s, t), t.ok
  PROVE  Asked(Follow(tree, n), ec, t) /\ Asked(Follow(tree, n), Off, t)
<1>1. Kept(Source(tree, n), s, t) /\ Full(t) = Filled(Source(tree, n), s) \ {}
  BY DEF Executes
<1>2. {} \cap UsedCells(tree, Follow(tree, n)) = {}
  OBVIOUS
<1>3. Asked(Follow(tree, n), ec, t)
  BY <1>1, <1>2, SecondAsked
<1> QED  BY <1>3, AskedOff

\* The execution of a chain: its source, then its follower unless the source failed.
LEMMA ThenExecOf ==
  ASSUME Graph(tree), NEW n, Pair(n), NEW w, Obeys(w[1], Source(tree, n)), Obeys(w[2], Follow(tree, n)),
         NEW ec, NEW mode \in Modes, NEW s, Asked(n, ec, s)
  PROVE  Executes(n, s, ThenExec(n, w, ec, mode, s))
<1> DEFINE b == Follow(tree, n)
           t == Sourced(n, w, ec, s)
           u == ExecNext(n, w, ec, mode, t)
<1>1. Executes(Source(tree, n), s, t)
  BY SourcedOf
<1>2. ThenExec(n, w, ec, mode, s) = IF t.ok THEN u ELSE t
  BY DEF ThenExec
<1> HIDE DEF t
<1>3. CASE ~t.ok
  BY <1>1, <1>2, <1>3, PairStops
<1>4. CASE t.ok
  <2>1. Asked(b, ec, t) /\ Asked(b, Off, t)
    BY <1>1, <1>4, NextAsked
  <2>2. u = IF Closes(b, ec) THEN Exec(w[2], Off, mode, t) ELSE ExecChild(b, w[2], ec, mode, t)
    BY DEF ExecNext
  <2>3. Executes(b, t, Exec(w[2], Off, mode, t))
    BY <2>1 DEF Obeys
  <2> HIDE DEF u
  <2>4. Executes(b, t, ExecChild(b, w[2], ec, mode, t))
    BY <2>1, ChildOf
  <2>5. Executes(b, t, u)
    BY <2>2, <2>3, <2>4
  <2> QED  BY <1>1, <1>2, <1>4, <2>5, PairExecutes
<1> QED  BY <1>3, <1>4

\* The same where the chain gathers or collects.
LEMMA ThenGatherOf ==
  ASSUME Graph(tree), NEW n, Pair(n), tree[n].k = "then",
         NEW w, Obeys(w[1], Source(tree, n)), Obeys(w[2], Follow(tree, n)),
         NEW ec, NEW mode \in Modes, NEW s, Asked(n, ec, s)
  PROVE  Gathers(n, s, ThenGather(n, w, ec, mode, s)) /\ Gathers(n, s, ThenCollect(n, w, ec, mode, s))
<1> DEFINE b == Follow(tree, n)
           t == Sourced(n, w, ec, s)
<1>1. Executes(Source(tree, n), s, t)
  BY SourcedOf
<1>2. /\ ThenGather(n, w, ec, mode, s) =
           IF ~t.ok THEN Result(t, <<>>, {})
           ELSE IF Closes(b, ec) THEN Gather(w[2], Off, mode, t) ELSE GatherChild(b, w[2], ec, mode, t)
      /\ ThenCollect(n, w, ec, mode, s) =
           IF ~t.ok THEN Result(t, <<>>, {})
           ELSE IF Closes(b, ec) THEN Collect(w[2], Off, mode, t) ELSE Collect(w[2], ec, mode, t)
  BY DEF ThenGather, ThenCollect
<1> HIDE DEF t
<1>3. CASE ~t.ok
  BY <1>1, <1>2, <1>3, PairStops
<1>4. CASE t.ok
  <2>1. Asked(b, ec, t) /\ Asked(b, Off, t)
    BY <1>1, <1>4, NextAsked
  <2>2. /\ Gathers(b, t, Gather(w[2], Off, mode, t)) /\ Gathers(b, t, Collect(w[2], Off, mode, t))
        /\ Gathers(b, t, Collect(w[2], ec, mode, t))
    BY <2>1 DEF Obeys
  <2>3. Gathers(b, t, GatherChild(b, w[2], ec, mode, t))
    BY <2>1, ChildOf
  <2>4. \A r : Gathers(b, t, r) => Gathers(n, s, r)
    BY <1>1, <1>4, ChainGathers
  <2> QED  BY <1>2, <1>4, <2>2, <2>3, <2>4
<1> QED  BY <1>3, <1>4

\* Two side by side.
LEMMA BundleExecOf ==
  ASSUME Graph(tree), NEW n, Pair(n), NEW w, Obeys(w[1], Source(tree, n)), Obeys(w[2], Follow(tree, n)),
         NEW ec, NEW s, Asked(n, ec, s)
  PROVE  Executes(n, s, BundleExec(n, w, ec, s))
<1> DEFINE a == Source(tree, n)
           b == Follow(tree, n)
           t == ExecChild(a, w[1], ec, "pipelined", s)
           u == ExecChild(b, w[2], ec, "pipelined", t)
<1>1. "pipelined" \in Modes
  BY DEF Modes
<1>2. Asked(a, ec, s)
  BY FirstAsked
<1>3. Executes(a, s, t)
  BY <1>1, <1>2, ChildOf
<1>4. BundleExec(n, w, ec, s) = IF t.ok THEN u ELSE t
  BY DEF BundleExec, Source, Follow
<1> HIDE DEF t
<1>5. CASE ~t.ok
  BY <1>3, <1>4, <1>5, PairStops
<1>6. CASE t.ok
  <2>1. Asked(b, ec, t)
    BY <1>3, <1>6, NextAsked
  <2>2. Executes(b, t, u)
    BY <1>1, <2>1, ChildOf
  <2> HIDE DEF u
  <2> QED  BY <1>3, <1>4, <1>6, <2>2, PairExecutes
<1> QED  BY <1>5, <1>6

\* A bundle gathers from both branches; what it got from the first it keeps if the second fails.
LEMMA BundleGatherOf ==
  ASSUME Graph(tree), NEW n, Pair(n), tree[n].k = "bundle",
         NEW w, Obeys(w[1], Source(tree, n)), Obeys(w[2], Follow(tree, n)), NEW ec, NEW s, Asked(n, ec, s)
  PROVE  Gathers(n, s, BundleGather(n, w, ec, s))
<1> DEFINE a == Source(tree, n)
           b == Follow(tree, n)
           l == GatherChild(a, w[1], ec, "pipelined", s)
           r == GatherChild(b, w[2], ec, "pipelined", l.s)
<1>1. "pipelined" \in Modes
  BY DEF Modes
<1>2. Asked(a, ec, s)
  BY FirstAsked
<1>3. Gathers(a, s, l)
  BY <1>1, <1>2, ChildOf
<1>4. BundleGather(n, w, ec, s) = IF ~l.s.ok THEN l ELSE JoinBranches(n, l, r)
  BY DEF BundleGather, Source, Follow
<1> HIDE DEF l
<1>5. CASE ~l.s.ok
  BY <1>3, <1>4, <1>5, JoinStops
<1>6. CASE l.s.ok
  <2> DEFINE out == Range(OutCells(tree)[a])
  <2>1. out \cap UsedCells(tree, b) = {}
    <3>1. Gives(tree, a) \cap UsedCells(tree, b) = {}
      BY FlowBetween DEF Pair
    <3>2. out \subseteq Gives(tree, a)
      BY PairOf, GivesWithin
    <3> QED  BY <3>1, <3>2
  <2>2. Kept(a, s, l.s) /\ Full(l.s) = Filled(a, s) \ out
    BY <1>3, <1>6 DEF Gathers
  <2> HIDE DEF out
  <2>3. Asked(b, ec, l.s)
    BY <1>6, <2>1, <2>2, SecondAsked
  <2>4. Gathers(b, l.s, r)
    BY <1>1, <2>3, ChildOf
  <2> HIDE DEF r
  <2> QED  BY <1>3, <1>4, <1>6, <2>4, JoinGathers
<1> QED  BY <1>5, <1>6

-----------------------------------------------------------------------------
(* The whole walk                                                          *)

\* A wrapper of a kid that obeys executes, and a host seam gathers.
LEMMA WrapperObeys ==
  ASSUME Graph(tree), ProfilesKeep(tree), NEW n \in DOMAIN tree, tree[n].k \in Wrappers,
         NEW w, KidsObey(n, w), NEW ec, NEW mode \in Modes, NEW s, Asked(n, ec, s)
  PROVE  /\ Executes(n, s, Execute(n, w, ec, mode, s))
         /\ tree[n].k = "host" => Gathers(n, s, Seam(n, w, s))
<1> DEFINE a == Source(tree, n)
<1>1. Obeys(w[1], a)
  <2>1. tree[n].kids = <<n - 1>>
    BY NodesOf
  <2>2. tree[n].kids # <<>>
    BY <2>1
  <2> QED  BY <2>2 DEF KidsObey
<1>2. Asked(a, ec, s) /\ Asked(a, Off, s) /\ "pipelined" \in Modes
  BY WrapAsked, AskedOff DEF Modes
<1>3. Gathers(a, s, Collect(w[1], ec, "pipelined", s)) /\ Gathers(a, s, Collect(w[1], Off, mode, s))
      /\ Gathers(a, s, GatherChild(a, w[1], Off, "pipelined", s))
  <2>1. Gathers(a, s, Collect(w[1], ec, "pipelined", s)) /\ Gathers(a, s, Collect(w[1], Off, mode, s))
    BY <1>1, <1>2 DEF Obeys
  <2>2. Gathers(a, s, GatherChild(a, w[1], Off, "pipelined", s))
    BY <1>1, <1>2, ChildOf
  <2> QED  BY <2>1, <2>2
<1>4. CASE tree[n].k = "arced"
  <2>1. Execute(n, w, ec, mode, s) = ArcedAfter(n, ec, Collect(w[1], ec, "pipelined", s))
    BY <1>4 DEF Execute, Arced
  <2> QED  BY <1>3, <1>4, <2>1, ArcedOf
<1>5. CASE tree[n].k = "route"
  <2>1. \/ Execute(n, w, ec, mode, s) = RouteAfter(n, Collect(w[1], Off, mode, s))
        \/ Execute(n, w, ec, mode, s) = Failed(s)
    BY <1>5 DEF Execute, Route
  <2> QED  BY <1>3, <1>5, <2>1, RouteOf
<1>6. CASE tree[n].k = "profiled"
  <2> DEFINE r == Collect(w[1], ec, "pipelined", s)
  <2>1. Execute(n, w, ec, mode, s) = ProfiledAfter(n, r)
    BY <1>6 DEF Execute, Profiled
  <2>2. tree[a].k \in Leaves
    BY <1>6 DEF ProfilesKeep, ProfilesLeaves
  <2>3. ~r.s.ok => Full(r.s) \subseteq Full(s)
    BY <1>1, <1>2, <2>2 DEF Obeys
  <2> HIDE DEF r
  <2>4. Gathers(a, s, r)
    BY <1>3 DEF r
  <2>5. Executes(n, s, ProfiledAfter(n, r))
    BY <1>6, <2>2, <2>3, <2>4, ProfiledOf DEF ProfilesKeep
  <2> QED  BY <1>6, <2>1, <2>5
<1>7. CASE tree[n].k = "host"
  <2>1. Seam(n, w, s) = SeamAfter(n, GatherChild(a, w[1], Off, "pipelined", s))
    BY DEF Seam
  <2>2. Gathers(n, s, Seam(n, w, s))
    BY <1>3, <1>7, <2>1, SeamOf
  <2>3. Execute(n, w, ec, mode, s) = Executed(n, Seam(n, w, s))
    BY <1>7 DEF Execute
  <2>4. Executes(n, s, Executed(n, Seam(n, w, s)))
    BY <2>2, ExecutedOf
  <2> QED  BY <2>2, <2>3, <2>4
<1> QED  BY <1>4, <1>5, <1>6, <1>7 DEF Wrappers

\* A chain or a bundle of kids that obey executes and gathers.
LEMMA PairObeys ==
  ASSUME Graph(tree), NEW n, Pair(n), NEW w, KidsObey(n, w),
         NEW ec, NEW mode \in Modes, NEW s, Asked(n, ec, s)
  PROVE  /\ Executes(n, s, Execute(n, w, ec, mode, s)) /\ Gathers(n, s, GatherCheckouts(n, w, ec, mode, s))
         /\ tree[n].k = "then" => Gathers(n, s, Collected(n, w, ec, mode, s))
<1> DEFINE b == BoundaryWalk(n, s)
<1>1. Obeys(w[1], Source(tree, n)) /\ Obeys(w[2], Follow(tree, n))
  <2>1. tree[n].kids = <<First(tree)[n - 1] - 1, n - 1>>
    BY NodesOf DEF Pair
  <2>2. tree[n].kids # <<>>
    BY <2>1
  <2> QED  BY <2>2 DEF KidsObey, Pair
<1>0. tree[n].k \notin Leaves \cup {"arced", "route", "profiled"}
  BY DEF Pair, Leaves
<1>2. n \in Heads(tree)
  BY DEF Pair, Heads
<1>3. Asked(n, b, s) /\ (b.cb = "lend" => s.cbs[n] # None)
  BY <1>2, BoundaryAsked
<1> HIDE DEF b
<1>4. CASE tree[n].k = "then"
  <2>1. Executes(n, s, ThenExec(n, w, b, mode, s)) /\ Executes(n, s, ThenExec(n, w, ec, mode, s))
    BY <1>1, <1>3, ThenExecOf
  <2>2. Gathers(n, s, ThenGather(n, w, b, mode, s)) /\ Gathers(n, s, ThenGather(n, w, ec, mode, s))
    BY <1>1, <1>3, <1>4, ThenGatherOf
  <2>6. Gathers(n, s, Collected(n, w, ec, mode, s))
    BY <1>1, <1>4, ThenGatherOf DEF Collected
  <2>3. Executes(n, s, EndExec(n, b, ThenExec(n, w, b, mode, s)))
        /\ Gathers(n, s, EndGather(n, b, ThenGather(n, w, b, mode, s)))
    BY <1>2, <1>3, <2>1, <2>2, BoundaryEnds
  <2>4. CASE OpensSpan(n, ec, s)
    <3>1. Execute(n, w, ec, mode, s) = EndExec(n, b, ThenExec(n, w, b, mode, s))
      BY <1>4, <2>4 DEF Execute, b
    <3>2. GatherCheckouts(n, w, ec, mode, s) = EndGather(n, b, ThenGather(n, w, b, mode, s))
      BY <1>0, <1>4, <2>4 DEF GatherCheckouts, b
    <3> QED  BY <2>3, <2>6, <3>1, <3>2
  <2>5. CASE ~OpensSpan(n, ec, s)
    <3>1. Execute(n, w, ec, mode, s) = ThenExec(n, w, ec, mode, s)
      BY <1>4, <2>5 DEF Execute
    <3>2. GatherCheckouts(n, w, ec, mode, s) = ThenGather(n, w, ec, mode, s)
      BY <1>0, <1>4, <2>5 DEF GatherCheckouts
    <3> QED  BY <2>1, <2>2, <2>6, <3>1, <3>2
  <2> QED  BY <2>4, <2>5
<1>5. CASE tree[n].k = "bundle"
  <2>1. Executes(n, s, BundleExec(n, w, b, s)) /\ Executes(n, s, BundleExec(n, w, ec, s))
    BY <1>1, <1>3, BundleExecOf
  <2>2. Gathers(n, s, BundleGather(n, w, ec, s))
    BY <1>1, <1>5, BundleGatherOf
  <2>3. Executes(n, s, EndExec(n, b, BundleExec(n, w, b, s)))
    BY <1>2, <1>3, <2>1, BoundaryEnds
  <2>4. GatherCheckouts(n, w, ec, mode, s) = BundleGather(n, w, ec, s)
    BY <1>0, <1>5 DEF GatherCheckouts
  <2>5. CASE OpensBundle(n, ec, s)
    <3>1. Execute(n, w, ec, mode, s) = EndExec(n, b, BundleExec(n, w, b, s))
      BY <1>5, <2>5 DEF Execute, b
    <3> QED  BY <1>5, <2>2, <2>3, <2>4, <3>1
  <2>6. CASE ~OpensBundle(n, ec, s)
    <3>1. Execute(n, w, ec, mode, s) = BundleExec(n, w, ec, s)
      BY <1>5, <2>6 DEF Execute
    <3> QED  BY <1>5, <2>1, <2>2, <2>4, <3>1
  <2> QED  BY <2>5, <2>6
<1> QED  BY <1>4, <1>5 DEF Pair

\* What is executed is taken from its cells: where a leaf or a wrapper gathers,
\* and where anything but a chain collects.
LEMMA TakerObeys ==
  ASSUME Graph(tree), NEW n \in DOMAIN tree,
         NEW w, NEW ec, NEW mode, NEW s, Executes(n, s, Execute(n, w, ec, mode, s))
  PROVE  LET u == Execute(n, w, ec, mode, s)
             x == Taken(u, OutCells(tree)[n])
         IN /\ Gathers(n, s, x) /\ (~x.s.ok => x.s = u)
            /\ tree[n].k # "then" => Collected(n, w, ec, mode, s) = x
            /\ tree[n].k \in Leaves \cup {"arced", "route", "profiled"} =>
                 GatherCheckouts(n, w, ec, mode, s) = x
<1> DEFINE u == Execute(n, w, ec, mode, s)
           x == Taken(u, OutCells(tree)[n])
<1>1. tree[n].k # "then" => Collected(n, w, ec, mode, s) = x
  BY DEF Collected
<1>2. tree[n].k \in Leaves \cup {"arced", "route", "profiled"} => GatherCheckouts(n, w, ec, mode, s) = x
  BY DEF GatherCheckouts, Leaves
<1> HIDE DEF u
<1>3. Gathers(n, s, x)
  BY TakenOf DEF u
<1>4. ~x.s.ok => x.s = u
  <2>1. CASE u.ok
    <3>0. u \in States(tree)
      BY DEF u, Executes, Kept
    <3> DEFINE cells == OutCells(tree)[n]
               pipe == [c \in DOMAIN u.pipe |-> IF c \in Range(cells) THEN None ELSE u.pipe[c]]
               v == [u EXCEPT !.pipe = pipe]
               vs == [i \in DOMAIN cells |-> u.pipe[cells[i]]]
    <3>1. x = Result(v, vs, DepsOf(vs))
      BY <2>1 DEF Taken
    <3>2. x.s = v
      BY <3>1, ResultOf
    <3> HIDE DEF pipe
    <3>3. v.ok = u.ok
      BY <3>0 DEF States
    <3> QED  BY <2>1, <3>2, <3>3
  <2>2. CASE ~u.ok
    <3>1. x = Result(u, <<>>, {})
      BY <2>2 DEF Taken
    <3> QED  BY <3>1, ResultOf
  <2> QED  BY <2>1, <2>2
<1> HIDE DEF x
<1> QED  BY <1>1, <1>2, <1>3, <1>4 DEF u, x

\* Every operation keeps the contract if its kids do: the step of the induction over the graph.
LEMMA NodeObeys ==
  ASSUME Graph(tree), ProfilesKeep(tree), minted \in 2..3, NEW n \in DOMAIN tree, NEW w, KidsObey(n, w),
         NEW ec, NEW mode \in Modes, NEW s, Asked(n, ec, s)
  PROVE  LET r == GatherCheckouts(n, w, ec, mode, s)
             z == Collected(n, w, ec, mode, s)
         IN /\ Executes(n, s, Execute(n, w, ec, mode, s)) /\ Gathers(n, s, r) /\ Gathers(n, s, z)
            /\ tree[n].k \in Leaves /\ ~z.s.ok => Full(z.s) \subseteq Full(s)
<1> DEFINE u == Execute(n, w, ec, mode, s)
           r == GatherCheckouts(n, w, ec, mode, s)
           z == Collected(n, w, ec, mode, s)
           x == Taken(u, OutCells(tree)[n])
<1>1. CASE tree[n].k \in Leaves
  <2>1. Neat(n, s, u)
    BY <1>1, LeafExecutes
  <2>2. Executes(n, s, u) /\ (u.ok \/ Full(u) \subseteq Full(s))
    BY <2>1 DEF Neat
  <2>3. tree[n].k # "then"
    BY <1>1 DEF Leaves
  <2>4. Gathers(n, s, x) /\ (~x.s.ok => x.s = u) /\ r = x /\ z = x
    BY <1>1, <2>2, <2>3, TakerObeys
  <2> HIDE DEF u, r, z, x
  <2> QED  BY <2>2, <2>4 DEF u, r, z
<1>2. CASE tree[n].k \in Wrappers
  <2>0. tree[n].k \notin Leaves /\ tree[n].k # "then"
    BY <1>2 DEF Wrappers, Leaves
  <2>1. Executes(n, s, u)
    BY <1>2, WrapperObeys
  <2>2. Gathers(n, s, z)
    BY <2>0, <2>1, TakerObeys
  <2>3. Gathers(n, s, r)
    <3>1. CASE tree[n].k = "host"
      BY <1>2, <2>0, <3>1, WrapperObeys DEF GatherCheckouts
    <3>2. CASE tree[n].k # "host"
      <4>1. tree[n].k \in Leaves \cup {"arced", "route", "profiled"}
        BY <1>2, <3>2 DEF Wrappers
      <4> QED  BY <2>1, <4>1, TakerObeys
    <3> QED  BY <3>1, <3>2
  <2> HIDE DEF u, r, z
  <2> QED  BY <2>0, <2>1, <2>2, <2>3 DEF u, r, z
<1>3. CASE tree[n].k \in {"then", "bundle"}
  <2>0. tree[n].k \notin Leaves
    BY <1>3 DEF Leaves
  <2>1. Executes(n, s, u) /\ Gathers(n, s, r) /\ (tree[n].k = "then" => Gathers(n, s, z))
    BY <1>3, PairObeys DEF Pair
  <2>2. tree[n].k # "then" => Gathers(n, s, z)
    BY <2>1, TakerObeys
  <2> HIDE DEF u, r, z
  <2> QED  BY <2>0, <2>1, <2>2 DEF u, r, z
<1> QED  BY <1>1, <1>2, <1>3, NodesOf

\* The walk is the function that its definition says.
LEMMA VisitIs ==
  ASSUME Graph(tree)
  PROVE  Visit = [n \in DOMAIN tree |->
             [q \in Questions(tree) |-> Answer(n, [i \in DOMAIN tree[n].kids |-> Visit[tree[n].kids[i]]], q)]]
<1> DEFINE t == tree
           N == Len(t)
           Answers(n, f) == [i \in DOMAIN t[n].kids |-> f[t[n].kids[i]]]
           Body(n, f) == [q \in Questions(tree) |-> Answer(n, Answers(n, f), q)]
           Upto(m, f) == f = [n \in 1..m |-> Body(n, f)]
           T == {m \in 0..N : \E f : Upto(m, f)}
<1>0. N \in Nat /\ DOMAIN t = 1..N /\ \A n \in 1..N : Kids(t, n) \subseteq 1..(n - 1)
  BY DEF Graph, Shaped
<1>1. ASSUME NEW n \in 1..N, NEW f, NEW h, \A k \in 1..(n - 1) : f[k] = h[k]
      PROVE  Body(n, f) = Body(n, h)
  <2>1. ASSUME NEW i \in DOMAIN t[n].kids PROVE f[t[n].kids[i]] = h[t[n].kids[i]]
    <3>1. t[n].kids[i] \in 1..(n - 1)
      BY <2>1, <1>0 DEF Kids, Range
    <3> QED  BY <3>1, <1>1
  <2>2. Answers(n, f) = Answers(n, h)
    BY <2>1
  <2> HIDE DEF Answers
  <2> QED  BY <2>2
<1>6. Visit = CHOOSE visit : visit = [n \in DOMAIN t |-> Body(n, visit)]
  BY DEF Visit
<1> HIDE DEF Body
<1>2. 0 \in T
  <2>1. Upto(0, [n \in 1..0 |-> 0])
    OBVIOUS
  <2>2. \E f : Upto(0, f)
    BY <2>1
  <2> HIDE DEF Upto
  <2> QED  BY <1>0, <2>2
<1>3. ASSUME NEW m \in 1..N, m - 1 \in T PROVE m \in T
  <2>1. PICK f : Upto(m - 1, f)
    BY <1>3
  <2> DEFINE h == [n \in 1..m |-> IF n = m THEN Body(m, f) ELSE f[n]]
  <2>2. m \in Nat /\ m >= 1 /\ \A n \in 1..m : n # m => n \in 1..(m - 1)
    BY <1>0
  <2>3. \A k \in 1..(m - 1) : h[k] = f[k] /\ f[k] = Body(k, f)
    BY <2>1, <2>2
  <2>4. ASSUME NEW n \in 1..m PROVE h[n] = Body(n, h)
    <3>1. n \in 1..N /\ \A k \in 1..(n - 1) : f[k] = h[k]
      BY <2>2, <2>3, <1>0
    <3>2. Body(n, f) = Body(n, h)
      BY <3>1, <1>1
    <3>3. h[n] = Body(n, f)
      <4> HIDE DEF Upto
      <4> QED  BY <2>2, <2>3
    <3> QED  BY <3>2, <3>3
  <2>5. h = [n \in 1..m |-> h[n]]
    OBVIOUS
  <2> HIDE DEF h
  <2>6. Upto(m, h)
    BY <2>4, <2>5
  <2>7. m \in 0..N /\ \E g : Upto(m, g)
    BY <2>6, <1>0
  <2> HIDE DEF Upto
  <2> QED  BY <2>7
<1>4. N \in T
  <2> HIDE DEF T
  <2> QED  BY <1>0, <1>2, <1>3, Climb
<1>5. \E f : f = [n \in DOMAIN t |-> Body(n, f)]
  <2>1. PICK f : Upto(N, f)
    BY <1>4
  <2> QED  BY <2>1, <1>0
<1>7. Visit = [n \in DOMAIN t |-> Body(n, Visit)]
  BY <1>5, <1>6
<1> QED  BY <1>7 DEF Body

\* What a node that is asked answers.
LEMMA AnswerOf ==
  ASSUME NEW n, NEW w, NEW v, v = [q \in Questions(tree) |-> Answer(n, w, q)],
         NEW ec, NEW s, NEW mode \in Modes, Asked(n, ec, s)
  PROVE  /\ Exec(v, ec, mode, s) = Execute(n, w, ec, mode, s)
         /\ Gather(v, ec, mode, s) = GatherCheckouts(n, w, ec, mode, s)
         /\ Collect(v, ec, mode, s) = Collected(n, w, ec, mode, s)
<1> DEFINE e == [how |-> "execute", ec |-> ec, mode |-> mode, s |-> s]
           g == [how |-> "gather", ec |-> ec, mode |-> mode, s |-> s]
           c == [how |-> "collect", ec |-> ec, mode |-> mode, s |-> s]
<1>1. e \in Questions(tree) /\ g \in Questions(tree) /\ c \in Questions(tree)
  BY DEF Questions, Asked, Modes
<1>2. /\ Exec(v, ec, mode, s) = Answer(n, w, e).s /\ Gather(v, ec, mode, s) = Answer(n, w, g)
      /\ Collect(v, ec, mode, s) = Answer(n, w, c)
  BY <1>1 DEF Exec, Gather, Collect
<1>3. /\ Answer(n, w, e) = Result(Execute(n, w, ec, mode, s), <<>>, {})
      /\ Answer(n, w, g) = GatherCheckouts(n, w, ec, mode, s)
      /\ Answer(n, w, c) = Collected(n, w, ec, mode, s)
  BY DEF Answer
<1> HIDE DEF e, g, c
<1> QED  BY <1>2, <1>3, ResultOf

\* Every node of the walk obeys.
LEMMA VisitObeys ==
  ASSUME Graph(tree), ProfilesKeep(tree), minted \in 2..3
  PROVE  \A n \in DOMAIN tree : Obeys(Visit[n], n)
<1> DEFINE N == Len(tree)
           T == {n \in 1..N : Obeys(Visit[n], n)}
<1>0. N \in Nat /\ DOMAIN tree = 1..N
  BY DEF Graph
<1>1. ASSUME NEW n \in 1..N, \A k \in 1..(n - 1) : k \in T PROVE n \in T
  <2> DEFINE kids == tree[n].kids
             w == [i \in DOMAIN kids |-> Visit[kids[i]]]
             v == Visit[n]
  <2>0. n \in DOMAIN tree
    BY <1>0
  <2>1. \A k \in 1..(n - 1) : Obeys(Visit[k], k)
    BY <1>1
  <2>2. v = [q \in Questions(tree) |-> Answer(n, w, q)]
    BY <2>0, VisitIs
  <2>3. KidsObey(n, w)
    <3>1. CASE tree[n].k \in Leaves
      <4>1. kids = <<>> /\ tree[n].k \notin {"then", "bundle"}
        BY <2>0, <3>1, NodesOf DEF Leaves
      <4> QED  BY <4>1 DEF KidsObey
    <3>2. CASE tree[n].k \in Wrappers
      <4>1. /\ kids = <<n - 1>> /\ n - 1 \in 1..(n - 1) /\ Source(tree, n) = n - 1
            /\ tree[n].k \notin {"then", "bundle"}
        BY <2>0, <3>2, NodesOf DEF Wrappers
      <4>2. w[1] = Visit[n - 1]
        BY <4>1
      <4>3. Obeys(w[1], Source(tree, n))
        BY <2>1, <4>1, <4>2
      <4> QED  BY <4>1, <4>3 DEF KidsObey
    <3>3. CASE tree[n].k \in {"then", "bundle"}
      <4>1. /\ kids = <<First(tree)[n - 1] - 1, n - 1>>
            /\ Source(tree, n) = First(tree)[n - 1] - 1 /\ Follow(tree, n) = n - 1
            /\ Source(tree, n) \in 1..(n - 1) /\ Follow(tree, n) \in 1..(n - 1)
        BY <2>0, <3>3, NodesOf
      <4>2. w[1] = Visit[Source(tree, n)] /\ w[2] = Visit[Follow(tree, n)]
        BY <4>1
      <4>3. Obeys(w[1], Source(tree, n)) /\ Obeys(w[2], Follow(tree, n))
        BY <2>1, <4>1, <4>2
      <4> QED  BY <4>3 DEF KidsObey
    <3> QED  BY <2>0, <3>1, <3>2, <3>3, NodesOf
  <2> HIDE DEF kids, w, v
  <2>4. ASSUME NEW ec, NEW s, NEW mode \in Modes, Asked(n, ec, s)
        PROVE  /\ Executes(n, s, Exec(v, ec, mode, s)) /\ Gathers(n, s, Gather(v, ec, mode, s))
               /\ Gathers(n, s, Collect(v, ec, mode, s))
               /\ tree[n].k \in Leaves /\ ~Collect(v, ec, mode, s).s.ok =>
                    Full(Collect(v, ec, mode, s).s) \subseteq Full(s)
    <3> DEFINE r == GatherCheckouts(n, w, ec, mode, s)
               z == Collected(n, w, ec, mode, s)
    <3>1. /\ Exec(v, ec, mode, s) = Execute(n, w, ec, mode, s)
          /\ Gather(v, ec, mode, s) = r /\ Collect(v, ec, mode, s) = z
      BY <2>2, <2>4, AnswerOf
    <3>2. /\ Executes(n, s, Execute(n, w, ec, mode, s)) /\ Gathers(n, s, r) /\ Gathers(n, s, z)
          /\ tree[n].k \in Leaves /\ ~z.s.ok => Full(z.s) \subseteq Full(s)
      BY <2>0, <2>3, <2>4, NodeObeys
    <3> HIDE DEF r, z
    <3> QED  BY <3>1, <3>2
  <2>5. Obeys(v, n)
    BY <2>4 DEF Obeys
  <2> QED  BY <2>5 DEF v
<1> HIDE DEF T
<1>2. \A n \in 1..N : n \in T
  BY <1>0, <1>1, FromBelow
<1> QED  BY <1>0, <1>2 DEF T

\* What is reclaimed is cells.
LEMMA UndeliveredWithin ==
  ASSUME NEW t, Graph(t)
  PROVE  \A n \in DOMAIN t : Undelivered(t)[n] \subseteq Cells(t)
<1> DEFINE N == Len(t)
           T == {m \in 1..N : Undelivered(t)[m] \subseteq Cells(t)}
           At(m) == IF t[m].k \in {"then", "bundle"}
                    THEN Undelivered(t)[t[m].kids[1]] \cup Undelivered(t)[t[m].kids[2]]
                    ELSE IF t[m].k = "host" THEN Range(Own(t, m)) \cup Undelivered(t)[t[m].kids[1]]
                    ELSE Range(OutCells(t)[m])
<1>0. N \in Nat /\ DOMAIN t = 1..N
  BY DEF Graph
<1>1. ASSUME NEW m \in 1..N, \A k \in 1..(m - 1) : k \in T PROVE m \in T
  <2>0. m \in DOMAIN t
    BY <1>0
  <2>1. Undelivered(t)[m] = At(m)
    BY <2>0, UndeliveredIs
  <2>2. \A k \in 1..(m - 1) : Undelivered(t)[k] \subseteq Cells(t)
    BY <1>1
  <2>3. CASE t[m].k \in {"then", "bundle"}
    <3>1. Source(t, m) \in 1..(m - 1) /\ Follow(t, m) \in 1..(m - 1)
      BY <2>0, <2>3, NodesOf
    <3>2. At(m) = Undelivered(t)[Source(t, m)] \cup Undelivered(t)[Follow(t, m)]
      BY <2>3 DEF Source, Follow
    <3> HIDE DEF At
    <3> QED  BY <2>1, <2>2, <3>1, <3>2
  <2>4. CASE t[m].k = "host"
    <3>1. t[m].k \in Wrappers
      BY <2>4 DEF Wrappers
    <3>2. Source(t, m) \in 1..(m - 1)
      BY <2>0, <3>1, NodesOf
    <3>3. Range(Own(t, m)) \subseteq Cells(t)
      BY <2>0, OwnOf DEF OwnCells
    <3>4. At(m) = Range(Own(t, m)) \cup Undelivered(t)[Source(t, m)]
      BY <2>4 DEF Source
    <3> HIDE DEF At
    <3> QED  BY <2>1, <2>2, <3>2, <3>3, <3>4
  <2>5. CASE t[m].k \notin {"then", "bundle", "host"}
    <3>1. At(m) = Range(OutCells(t)[m])
      BY <2>5
    <3>2. OutCells(t)[m] \in Seq(Cells(t))
      BY <2>0, OutCellsOf
    <3>3. Range(OutCells(t)[m]) \subseteq Cells(t)
      BY <3>2 DEF Range
    <3> HIDE DEF At
    <3> QED  BY <2>1, <3>1, <3>3
  <2> HIDE DEF At
  <2> QED  BY <2>3, <2>4, <2>5
<1> HIDE DEF T
<1>2. \A n \in 1..N : n \in T
  BY <1>0, <1>1, FromBelow
<1> QED  BY <1>0, <1>2 DEF T

\* What nobody took is waited for and goes home.
LEMMA ReclaimOf ==
  ASSUME Graph(tree), NEW s \in States(tree), Sane(s), NEW D \in SUBSET Nat
  PROVE  LET z == Reclaim(WaitFor(s, D)) IN
         /\ z.slots \in [Slots -> Contents] /\ z.cbs = s.cbs /\ z.off \in BOOLEAN /\ z.ok = s.ok
         /\ \A x \in Slots : s.slots[x] # None => z.slots[x] # None
         /\ \A c \in Undelivered(tree)[Root(tree)] : s.pipe[c] # None =>
              \A x \in Slots : s.pipe[c].home = x => z.slots[x] # None
<1> DEFINE und == Undelivered(tree)[Root(tree)]
           t == WaitFor(s, D)
           E == UNION {t.pipe[c].deps : c \in Left(t)}
           u == WaitFor(t, E)
           V == {u.pipe[c] : c \in Left(u)}
           at == Rehomed(u.slots, V)
           pipe == [c \in DOMAIN u.pipe |-> IF c \in Left(u) THEN None ELSE u.pipe[c]]
           z == [u EXCEPT !.slots = at, !.pipe = pipe]
<1>0. Reclaim(WaitFor(s, D)) = z
  BY DEF Reclaim, Drained
<1>1. und \subseteq Cells(tree)
  <2>1. Root(tree) \in DOMAIN tree
    BY DEF Root, Graph
  <2> QED  BY <2>1, UndeliveredWithin
<1> HIDE DEF und
<1>2. t \in States(tree) /\ t.slots = s.slots /\ t.cbs = s.cbs /\ t.pipe = s.pipe /\ t.ok = s.ok
  BY WaitForOf
<1> HIDE DEF t
<1>3. Left(t) = {c \in und : s.pipe[c] # None}
  BY <1>2 DEF Left, und
<1>4. s.pipe \in [Cells(tree) -> {None} \cup Held]
  BY StateOf
<1>5. \A c \in Left(t) : c \in Full(s) /\ t.pipe[c] = s.pipe[c] /\ s.pipe[c] \in Held /\ Sound(s.pipe[c])
  BY <1>1, <1>2, <1>3, <1>4 DEF Full, Sane
<1>6. E \in SUBSET Nat
  <2>1. \A c \in Left(t) : t.pipe[c].deps \in SUBSET Nat
    BY <1>5 DEF Held
  <2> QED  BY <2>1
<1> HIDE DEF E
<1>7. u \in States(tree) /\ u.slots = t.slots /\ u.cbs = t.cbs /\ u.pipe = t.pipe /\ u.ok = t.ok
  BY <1>2, <1>6, WaitForOf
<1> HIDE DEF u
<1>8. Left(u) = Left(t)
  BY <1>7 DEF Left
<1>9. V \subseteq Held /\ \A v \in V : Sound(v)
  BY <1>5, <1>7, <1>8, <1>2
<1>10. u.slots \in [Slots -> Contents] /\ u.off \in BOOLEAN
  BY <1>7, StateOf
<1>11. ASSUME NEW c \in und, s.pipe[c] # None PROVE s.pipe[c] \in V
  BY <1>2, <1>3, <1>7, <1>8, <1>11
<1> HIDE DEF V
<1>12. /\ at \in [Slots -> Contents]
       /\ \A x \in Slots : u.slots[x] # None \/ (\E v \in V : v.home = x) => at[x] # None
  BY <1>9, <1>10, HomesOf
<1> HIDE DEF at, pipe
<1>13. z.slots = at /\ z.cbs = u.cbs /\ z.off = u.off /\ z.ok = u.ok
  BY <1>7 DEF States
<1> HIDE DEF z
<1>14. \A x \in Slots : s.slots[x] # None => z.slots[x] # None
  BY <1>2, <1>7, <1>12, <1>13
<1>15. ASSUME NEW c \in und, s.pipe[c] # None, NEW x \in Slots, s.pipe[c].home = x PROVE z.slots[x] # None
  <2>1. s.pipe[c] \in V
    BY <1>11, <1>15
  <2> QED  BY <2>1, <1>12, <1>13, <1>15
<1>16. z.slots \in [Slots -> Contents] /\ z.cbs = s.cbs /\ z.off \in BOOLEAN /\ z.ok = s.ok
  BY <1>2, <1>7, <1>10, <1>12, <1>13
<1> QED  BY <1>0, <1>14, <1>15, <1>16 DEF und

\* The fresh state of a sync, and the start gate.
LEMMA FreshOf ==
  ASSUME Graph(tree), slots \in [Slots -> Contents], cbs \in [Heads(tree) -> {None} \cup Baked],
         off \in BOOLEAN, Ready, NEW fault \in Faults \X Nat
  PROVE  /\ Asked(Root(tree), Off, Fresh(fault)) /\ Full(Fresh(fault)) = {} /\ Root(tree) \in DOMAIN tree
         /\ \A x \in Slots : Owned(Fresh(fault), x)
<1> DEFINE s == Fresh(fault)
           root == Root(tree)
<1>1. root \in DOMAIN tree
  BY DEF Root, Graph
<1>2. Frame \in Frames
  BY DEF Frame, Frames
<1>3. /\ s \in States(tree) /\ s.ok /\ s.slots = slots /\ s.cbs = cbs
      /\ \A c \in Cells(tree) : s.pipe[c] = None
  <2>1. /\ [c \in Cells(tree) |-> None] \in [Cells(tree) -> {None} \cup Held]
        /\ [c \in Cells(tree) |-> {}] \in [Cells(tree) -> SUBSET Slots]
        /\ [f \in Heads(tree) |-> [c \in Cells(tree) |-> {}]] \in [Heads(tree) -> [Cells(tree) -> SUBSET Nat]]
        /\ [f \in Heads(tree) |-> Frame] \in [Heads(tree) -> Frames]
        /\ <<>> \in Seq(Entries)
    BY <1>2
  <2>2. s \in States(tree)
    BY <2>1 DEF Fresh, States
  <2> QED  BY <2>2 DEF Fresh
<1> HIDE DEF s
<1>4. Full(s) = {} /\ Sane(s)
  BY <1>3 DEF Full, Sane
<1>5. UsedCells(tree, root) = {}
  <2>1. Uses(tree, root) \subseteq {"slot"} \X Slots
    BY DEF Graph
  <2> QED  BY <2>1 DEF UsedCells
<1>6. \A x \in Slots : s.slots[x] # None
  BY <1>3 DEF Ready
<1>7. Off \in Contexts(tree) /\ Off.cb = "off"
  BY DEF Off, Contexts, Graph
<1>8. Asked(root, Off, s)
  BY <1>3, <1>4, <1>5, <1>6, <1>7 DEF Asked, UsedSlots
<1>9. \A x \in Slots : Owned(s, x)
  BY <1>6 DEF Owned
<1> QED  BY <1>1, <1>4, <1>8, <1>9 DEF s, root

\* The start gate, a user event ahead of every command, moves no value.
LEMMA GateOf ==
  ASSUME NEW s \in States(tree)
  PROVE  LET u == [Enqueue(s, 0, {}, {}) EXCEPT !.gate = {1}] IN Calm(s, u) /\ u.ok = s.ok
<1> DEFINE t == Enqueue(s, 0, {}, {})
           G == {1}
           u == [t EXCEPT !.gate = G]
<1>1. t \in States(tree) /\ t.slots = s.slots /\ t.cbs = s.cbs /\ t.pipe = s.pipe /\ t.ok = s.ok
  BY EnqueueOf
<1>0. G \in SUBSET Nat
  OBVIOUS
<1> HIDE DEF t, G
<1>2. u \in States(tree) /\ u.slots = t.slots /\ u.cbs = t.cbs /\ u.pipe = t.pipe /\ u.ok = t.ok
  BY <1>0, <1>1 DEF States
<1> HIDE DEF u
<1>3. Calm(s, u) /\ u.ok = s.ok
  BY <1>1, <1>2, CalmIs
<1> QED  BY <1>3 DEF u, t, G

\* The root gathers, behind the start gate, as one command buffer or walked.
LEMMA RootedOf ==
  ASSUME Graph(tree), ProfilesKeep(tree), minted \in 2..3, Root(tree) \in DOMAIN tree,
         NEW s, Asked(Root(tree), Off, s)
  PROVE  Gathers(Root(tree), s, Rooted(s))
<1> DEFINE n == Root(tree)
           v == Visit[n]
           u == [Enqueue(s, 0, {}, {}) EXCEPT !.gate = {1}]
           b == BoundaryWalk(n, s)
<1>1. Obeys(v, n)
  BY VisitObeys
<1>2. "pipelined" \in Modes /\ "blocking" \in Modes
  BY DEF Modes
<1>3. Rooted(s) = IF HasSeam(tree) THEN Gather(v, Off, "pipelined", u)
                  ELSE IF OpensBoundary(n, Off, s) THEN EndGather(n, b, Gather(v, b, "blocking", s))
                  ELSE Gather(v, Off, "blocking", s)
  BY DEF Rooted, RootOf, BoundaryGather
<1>0. Asked(n, Off, s) /\ s \in States(tree) /\ s.ok /\ n \in DOMAIN tree
  BY DEF Asked
<1> HIDE DEF n, v, u, b
<1>4. Gathers(n, s, Gather(v, Off, "pipelined", u))
  <2>1. Calm(s, u) /\ u.ok
    BY <1>0, GateOf DEF u
  <2>2. Asked(n, Off, u)
    BY <1>0, <2>1, CalmAsked
  <2>3. Gathers(n, u, Gather(v, Off, "pipelined", u))
    BY <1>1, <1>2, <2>2 DEF Obeys
  <2> QED  BY <2>1, <2>3, CalmBeforeGathers
<1>5. Gathers(n, s, Gather(v, Off, "blocking", s))
  BY <1>0, <1>1, <1>2 DEF Obeys
<1>6. ASSUME OpensBoundary(n, Off, s) PROVE Gathers(n, s, EndGather(n, b, Gather(v, b, "blocking", s)))
  <2>1. n \in Heads(tree)
    BY <1>6 DEF OpensBoundary
  <2>2. Asked(n, b, s) /\ (b.cb = "lend" => s.cbs[n] # None)
    BY <1>0, <2>1, BoundaryAsked DEF b
  <2>3. Gathers(n, s, Gather(v, b, "blocking", s))
    BY <1>1, <1>2, <2>2 DEF Obeys
  <2> QED  BY <2>1, <2>2, <2>3, BoundaryEnds
<1>7. Gathers(n, s, Rooted(s))
  BY <1>3, <1>4, <1>5, <1>6
<1> QED  BY <1>7 DEF n

\* One sync: what its slots and its checkouts are at the end.
LEMMA SyncOf ==
  ASSUME Graph(tree), ProfilesKeep(tree), minted \in 2..3, slots \in [Slots -> Contents],
         cbs \in [Heads(tree) -> {None} \cup Baked], off \in BOOLEAN, Ready, NEW fault \in Faults \X Nat
  PROVE  LET r == Rooted(Fresh(fault))
             z == Reclaim(Waited(r))
             out == IF z.ok THEN r.got ELSE <<>>
         IN /\ z.slots \in [Slots -> Contents] /\ z.cbs \in [Heads(tree) -> {None} \cup Baked]
            /\ z.off \in BOOLEAN /\ out \in Seq(Held) /\ \A i \in DOMAIN out : Sound(out[i])
            /\ \A x \in Slots : z.slots[x] # None \/ ByValue(x) \/ \E o \in Range(out) : o.home = x
<1> DEFINE n == Root(tree)
           s == Fresh(fault)
           r == Rooted(s)
           z == Reclaim(Waited(r))
           out == IF z.ok THEN r.got ELSE <<>>
<1>1. Asked(n, Off, s) /\ Full(s) = {} /\ n \in DOMAIN tree /\ \A x \in Slots : Owned(s, x)
  BY FreshOf
<1>2. Gathers(n, s, r)
  BY <1>1, RootedOf
<1> HIDE DEF s, r
<1>3. /\ r.s \in States(tree) /\ Sane(r.s) /\ r.deps \in SUBSET Nat
      /\ Full(r.s) \subseteq Undelivered(tree)[n] \cup Exempt
  BY <1>1, <1>2 DEF Gathers, Kept
<1>4. /\ z.slots \in [Slots -> Contents] /\ z.cbs = r.s.cbs /\ z.off \in BOOLEAN /\ z.ok = r.s.ok
      /\ \A x \in Slots : r.s.slots[x] # None => z.slots[x] # None
      /\ \A c \in Undelivered(tree)[n] : r.s.pipe[c] # None =>
           \A x \in Slots : r.s.pipe[c].home = x => z.slots[x] # None
  BY <1>3, ReclaimOf DEF Waited
<1> HIDE DEF z
<1>5. z.cbs \in [Heads(tree) -> {None} \cup Baked] /\ r.s.ok \in BOOLEAN
  BY <1>3, <1>4, StateOf
<1>6. \A x \in Slots : ~ByValue(x) => Owned(r.s, x) \/ \E i \in DOMAIN r.got : r.got[i].home = x
  BY <1>1, <1>2 DEF Gathers
<1>8. r.got \in Seq(Held) /\ \A i \in DOMAIN r.got : Sound(r.got[i])
  <2>1. CASE r.s.ok
    <3>1. Fitting(r.got, OutCells(tree)[n]) /\ Len(OutCells(tree)[n]) \in Nat
      BY <1>1, <1>2, <2>1, OutCellsOf DEF Gathers
    <3> QED  BY <3>1 DEF Fitting
  <2>2. CASE ~r.s.ok
    <3>1. r.got = <<>>
      BY <1>2, <2>2 DEF Gathers
    <3> QED  BY <3>1
  <2> QED  BY <1>5, <2>1, <2>2
<1>9. out = IF r.s.ok THEN r.got ELSE <<>>
  BY <1>4
<1>10. out = r.got
  <2>1. ~r.s.ok => r.got = <<>>
    BY <1>2 DEF Gathers
  <2> QED  BY <1>9, <2>1
<1> HIDE DEF out
<1>11. ASSUME NEW x \in Slots, ~ByValue(x)
       PROVE  z.slots[x] # None \/ \E o \in Range(out) : o.home = x
  <2>1. CASE r.s.slots[x] # None
    BY <2>1, <1>4
  <2>2. CASE \E c \in Full(r.s) : r.s.pipe[c].home = x
    <3>1. PICK c \in Full(r.s) : r.s.pipe[c].home = x
      BY <2>2
    <3>2. c \notin Exempt
      <4>1. Letter(tree, c) = x
        <5>1. x # Nowhere
          BY NamesAssumption
        <5> QED  BY <1>3, <3>1, <5>1 DEF Sane
      <4> QED  BY <4>1, <1>11 DEF Exempt
    <3>3. c \in Undelivered(tree)[n] /\ r.s.pipe[c] # None
      BY <1>3, <3>1, <3>2 DEF Full
    <3> QED  BY <1>4, <3>1, <3>3
  <2>3. CASE \E i \in DOMAIN r.got : r.got[i].home = x
    BY <2>3, <1>10 DEF Range
  <2> QED  BY <1>6, <1>11, <2>1, <2>2, <2>3 DEF Owned
<1> QED  BY <1>4, <1>5, <1>8, <1>10, <1>11 DEF s, r, z, out

-----------------------------------------------------------------------------
(* Every sync leaves the graph ready to run once more                      *)

\* A graph that has not run: every slot holds a buffer, nothing is recorded.
LEMMA InitHolds == Init => IInv
<1> SUFFICES ASSUME Init PROVE IInv
  OBVIOUS
<1>1. tree \in Trees
  BY DEF Init
<1>2. ASSUME NEW x \in Slots
      PROVE  slots[x] \in {New, <<x, 0>>} /\ <<x, 0>> \in Buffers
  BY DEF Init, Buffers
<1>3. \A x \in Slots : slots[x] \in Contents /\ slots[x] # None
  BY <1>2, NamesAssumption DEF Contents
<1>4. DOMAIN slots = Slots /\ slots = [x \in Slots |-> slots[x]]
  BY DEF Init
<1>5. slots \in [Slots -> Contents]
  BY <1>3, <1>4
<1>6. cbs \in [Heads(tree) -> {None} \cup Baked] /\ off \in BOOLEAN /\ minted \in 2..3
  <2>1. cbs = [n \in Heads(tree) |-> None] /\ off = FALSE /\ minted = 2
    BY DEF Init
  <2>2. [n \in Heads(tree) |-> None] \in [Heads(tree) -> {None} \cup Baked]
    OBVIOUS
  <2>3. off \in BOOLEAN
    BY <2>1
  <2>4. minted \in 2..3
    BY <2>1
  <2> QED  BY <2>1, <2>2, <2>3, <2>4
<1>7. outs \in Seq(Held) /\ \A i \in DOMAIN outs : Sound(outs[i])
  BY DEF Init
<1>8. Rearmed
  BY <1>3 DEF Rearmed
<1> QED  BY <1>1, <1>5, <1>6, <1>7, <1>8 DEF IInv, Holds

\* A fault is a kind and a node.
LEMMA FaultOf ==
  ASSUME Graph(tree), NEW fault \in FaultsOf(tree)
  PROVE  fault \in Faults \X Nat
<1>1. DOMAIN tree \subseteq Nat
  BY DEF Graph
<1>2. fault[1] \in Faults /\ \E c, b : fault = <<c, b>> /\ b \in {0} \cup DOMAIN tree
  BY DEF FaultsOf
<1> QED  BY <1>1, <1>2

\* A sync, whatever fails in it, leaves every value it took in a slot, in a handle or discarded.
LEMMA SyncHolds ==
  ASSUME tree \in Trees, ProfilesKeep(tree), Holds, NEW fault \in FaultsOf(tree), Sync(fault)
  PROVE  Holds'
<1> DEFINE r == Rooted(Fresh(fault))
           z == Reclaim(Waited(r))
           out == IF z.ok THEN r.got ELSE <<>>
<1>1. Graph(tree) /\ tree' = tree
  BY GraphsAssumption DEF Sync
<1>2. fault \in Faults \X Nat
  BY <1>1, FaultOf
<1>3. /\ z.slots \in [Slots -> Contents] /\ z.cbs \in [Heads(tree) -> {None} \cup Baked]
      /\ z.off \in BOOLEAN /\ out \in Seq(Held) /\ \A i \in DOMAIN out : Sound(out[i])
      /\ \A x \in Slots : z.slots[x] # None \/ ByValue(x) \/ \E o \in Range(out) : o.home = x
  BY <1>1, <1>2, SyncOf DEF Holds, Sync
<1>4. slots' = z.slots /\ cbs' = z.cbs /\ off' = z.off /\ outs' = out
  BY DEF Sync, Ended
<1>5. minted' \in 2..3
  BY DEF Sync, Holds
<1> HIDE DEF r, z, out
<1>6. Heads(tree') = Heads(tree) /\ \A x : ByValue(x)' <=> ByValue(x)
  BY <1>1 DEF ByValue
<1>7. Rearmed'
  BY <1>3, <1>4, <1>6 DEF Rearmed
<1> QED  BY <1>1, <1>3, <1>4, <1>5, <1>7 DEF Holds

\* Dropping the output takes what has a home to its slot, which was empty.
LEMMA SettleHolds ==
  ASSUME Holds, Settle
  PROVE  Holds'
<1> DEFINE at == Rehomed(slots, Range(outs))
<1>1. slots' = at /\ outs' = <<>> /\ UNCHANGED <<tree, cbs, off, minted>>
  BY DEF Settle
<1>2. Range(outs) \subseteq Held /\ \A v \in Range(outs) : Sound(v)
  BY DEF Holds, Range
<1>3. slots \in [Slots -> Contents]
  BY DEF Holds
<1>4. /\ at \in [Slots -> Contents]
      /\ \A x \in Slots : slots[x] # None \/ (\E v \in Range(outs) : v.home = x) => at[x] # None
  BY <1>2, <1>3, HomesOf
<1> HIDE DEF at
<1>5. \A x : ByValue(x)' <=> ByValue(x)
  BY <1>1 DEF ByValue
<1>6. Rearmed'
  BY <1>1, <1>4, <1>5 DEF Holds, Rearmed
<1>7. outs' \in Seq(Held) /\ \A i \in DOMAIN outs' : Sound(outs'[i])
  BY <1>1
<1> QED  BY <1>1, <1>4, <1>6, <1>7 DEF Holds

\* A rebinding drops the command buffers of its slot.
LEMMA RebindHolds ==
  ASSUME Holds, NEW x \in Slots, Rebind(x)
  PROVE  Holds'
<1>1. /\ slots' = [slots EXCEPT ![x] = Other(slots[x])] /\ UNCHANGED <<tree, off, run, minted, outs>>
      /\ cbs' = [n \in DOMAIN cbs |-> IF cbs[n] # None /\ x \in cbs[n].slots THEN None ELSE cbs[n]]
      /\ slots[x] \notin {None, New}
  BY DEF Rebind
<1>2. slots \in [Slots -> Contents] /\ cbs \in [Heads(tree) -> {None} \cup Baked]
  BY DEF Holds
<1>3. slots[x] \in Buffers
  BY <1>1, <1>2 DEF Contents
<1>4. Other(slots[x]) \in Buffers
  BY <1>3 DEF Other, Buffers
<1>5. Other(slots[x]) \in Contents /\ Other(slots[x]) # None
  BY <1>4, NamesAssumption DEF Contents
<1>6. slots' \in [Slots -> Contents] /\ \A y \in Slots : slots[y] # None => slots'[y] # None
  BY <1>1, <1>2, <1>5
<1>7. cbs' \in [Heads(tree) -> {None} \cup Baked]
  BY <1>1, <1>2
<1>8. \A y : ByValue(y)' <=> ByValue(y)
  BY <1>1 DEF ByValue
<1>9. Rearmed'
  BY <1>1, <1>6, <1>8 DEF Holds, Rearmed
<1> QED  BY <1>1, <1>6, <1>7, <1>9 DEF Holds

LEMMA NextHolds == IInv /\ [Next]_vars => IInv'
<1> SUFFICES ASSUME IInv, [Next]_vars PROVE IInv'
  OBVIOUS
<1>1. tree' = tree
  BY DEF Next, Sync, Settle, Rebind, vars
<1>2. ASSUME ProfilesKeep(tree) PROVE Holds'
  <2>0. Holds /\ tree \in Trees
    BY <1>2 DEF IInv
  <2>1. CASE \E fault \in FaultsOf(tree) : Sync(fault)
    BY <1>2, <2>0, <2>1, SyncHolds
  <2>2. CASE Settle
    BY <2>0, <2>2, SettleHolds
  <2>3. CASE \E x \in Slots : Rebind(x)
    BY <2>0, <2>3, RebindHolds
  <2>4. CASE UNCHANGED vars
    <3>1. \A x : ByValue(x)' <=> ByValue(x)
      BY <2>4 DEF vars, ByValue
    <3>2. Rearmed'
      BY <2>0, <2>4, <3>1 DEF vars, Holds, Rearmed
    <3> QED  BY <2>0, <2>4, <3>2 DEF vars, Holds
  <2> QED  BY <2>1, <2>2, <2>3, <2>4 DEF Next
<1>3. ProfilesKeep(tree)' => ProfilesKeep(tree)
  BY <1>1 DEF ProfilesKeep, ProfilesLeaves
<1> QED  BY <1>1, <1>2, <1>3 DEF IInv

\* After a sync, failed or not, every slot is full but those that a checkout
\* brings home and those whose buffer went by value: the home invariant
\* (eager.rs: Pipe::take, reclaim_undelivered), for every graph whose profiled
\* operations are leaves, whatever the fault, if it is not that of a profile or of
\* its callback, and however often it has run.
THEOREM SlotsRearmed == Spec => [](ProfilesKeep(tree) => Rearmed)
<1>1. Init => IInv
  BY InitHolds
<1>2. IInv /\ [Next]_vars => IInv'
  BY NextHolds
<1>3. IInv => (ProfilesKeep(tree) => Rearmed)
  BY DEF IInv, Holds
<1> QED  BY <1>1, <1>2, <1>3, PTL DEF Spec

-----------------------------------------------------------------------------
(* How often a sync enqueues a command                                     *)

LEMMA TimesOf ==
  ASSUME NEW S, NEW q \in Seq(S), NEW m
  PROVE  /\ Times(q, m) \in Nat /\ IsFiniteSet({i \in DOMAIN q : q[i].n = m})
         /\ Times(<<>>, m) = 0
<1>1. Len(q) \in Nat /\ DOMAIN q = 1..Len(q)
  OBVIOUS
<1>2. IsFiniteSet(1..Len(q))
  BY <1>1, FS_Interval
<1>3. {i \in DOMAIN q : q[i].n = m} \in SUBSET (1..Len(q))
  BY <1>1
<1> DEFINE T == {i \in DOMAIN q : q[i].n = m}
<1> HIDE DEF T
<1>4. IsFiniteSet(T) /\ Cardinality(T) \in Nat
  BY <1>2, <1>3, FS_Subset, FS_CardinalityType DEF T
<1>5. {i \in DOMAIN <<>> : <<>>[i].n = m} = {}
  OBVIOUS
<1>6. Times(<<>>, m) = 0
  BY <1>5, FS_EmptySet DEF Times
<1> QED  BY <1>4, <1>6 DEF Times, T

\* One more at the end.
LEMMA TimesAppend ==
  ASSUME NEW S, NEW q \in Seq(S), NEW e \in S, NEW m
  PROVE  Times(Append(q, e), m) = Times(q, m) + IF e.n = m THEN 1 ELSE 0
<1> DEFINE p == Append(q, e)
           T == {i \in DOMAIN q : q[i].n = m}
           U == {i \in DOMAIN p : p[i].n = m}
           x == Len(q) + 1
<1>1. Len(q) \in Nat /\ DOMAIN q = 1..Len(q) /\ DOMAIN p = 1..x /\ p[x] = e /\ x \notin 1..Len(q)
      /\ \A i \in 1..Len(q) : p[i] = q[i]
  OBVIOUS
<1>2. IsFiniteSet(T) /\ Times(q, m) = Cardinality(T) /\ Times(p, m) = Cardinality(U) /\ Cardinality(T) \in Nat
  <2>1. IsFiniteSet(T) /\ Times(q, m) \in Nat
    BY TimesOf
  <2>2. Times(q, m) = Cardinality(T) /\ Times(p, m) = Cardinality(U)
    BY DEF Times
  <2> QED  BY <2>1, <2>2
<1>3. x \notin T
  BY <1>1
<1>4. CASE e.n = m
  <2>1. U = T \cup {x}
    <3> HIDE DEF p
    <3> QED  BY <1>1, <1>4
  <2> HIDE DEF T, U, p, x
  <2>2. Cardinality(U) = Cardinality(T) + 1
    BY <1>2, <1>3, <2>1, FS_AddElement
  <2>3. Times(p, m) = Times(q, m) + IF e.n = m THEN 1 ELSE 0
    BY <2>2, <1>2, <1>4
  <2> QED  BY <2>3 DEF p
<1>5. CASE e.n # m
  <2>1. U = T
    <3> HIDE DEF p
    <3> QED  BY <1>1, <1>5
  <2> HIDE DEF T, U, p, x
  <2>2. Times(p, m) = Times(q, m) + IF e.n = m THEN 1 ELSE 0
    BY <2>1, <1>2, <1>5
  <2> QED  BY <2>2 DEF p
<1> QED  BY <1>4, <1>5

\* One after the other.
LEMMA TimesConcat ==
  ASSUME NEW S, NEW p \in Seq(S), NEW q \in Seq(S), NEW m
  PROVE  Times(p \o q, m) = Times(p, m) + Times(q, m)
<1> DEFINE F(k) == SubSeq(q, 1, k)
           T == {k \in 0..Len(q) : Times(p \o F(k), m) = Times(p, m) + Times(F(k), m)}
<1>1. Len(q) \in Nat
  OBVIOUS
<1>2. 0 \in T
  <2> DEFINE z == F(0)
  <2>1. z = <<>> /\ p \o z = p
    OBVIOUS
  <2>2. Times(p, m) \in Nat /\ Times(<<>>, m) = 0
    BY TimesOf
  <2> HIDE DEF z
  <2>3. Times(p \o z, m) = Times(p, m) + Times(z, m)
    BY <2>1, <2>2
  <2> QED  BY <1>1, <2>3 DEF z
<1>3. ASSUME NEW k \in 1..Len(q), k - 1 \in T PROVE k \in T
  <2> DEFINE g == F(k - 1)
             h == F(k)
             e == q[k]
  <2>1. e \in S /\ g \in Seq(S) /\ h = Append(g, e)
    OBVIOUS
  <2>2. Times(p \o g, m) = Times(p, m) + Times(g, m)
    BY <1>3
  <2>3. k \in 0..Len(q)
    OBVIOUS
  <2> HIDE DEF g, h, e
  <2> DEFINE pg == p \o g
  <2>4. p \o h = Append(pg, e) /\ pg \in Seq(S)
    BY <2>1
  <2> HIDE DEF pg
  <2>5. Times(p \o h, m) = Times(pg, m) + IF e.n = m THEN 1 ELSE 0
    BY <2>1, <2>4, TimesAppend
  <2>6. Times(h, m) = Times(g, m) + IF e.n = m THEN 1 ELSE 0
    BY <2>1, TimesAppend
  <2>7. Times(p, m) \in Nat /\ Times(g, m) \in Nat
    BY <2>1, TimesOf
  <2>8. Times(p \o h, m) = Times(p, m) + Times(h, m)
    BY <2>2, <2>5, <2>6, <2>7 DEF pg
  <2> QED  BY <2>3, <2>8 DEF h
<1>4. Len(q) \in T
  <2> HIDE DEF T
  <2> QED  BY <1>1, <1>2, <1>3, Climb
<1>5. F(Len(q)) = q
  OBVIOUS
<1> QED  BY <1>4, <1>5

\* What may be enqueued by two parts of a graph that share no command.
LEMMA AmountsOf ==
  ASSUME NEW m, NEW A, NEW B, A \cap B = {}, NEW a \in Amounts(m, A), NEW b \in Amounts(m, B)
  PROVE  a + b \in Amounts(m, A \cup B) /\ a \in Nat /\ b \in Nat
<1>1. CASE m \in A
  BY <1>1 DEF Amounts
<1>2. CASE m \in B
  BY <1>2 DEF Amounts
<1>3. CASE m \notin A /\ m \notin B
  BY <1>3 DEF Amounts
<1> QED  BY <1>1, <1>2, <1>3

LEMMA IsOf ==
  ASSUME NEW m, NEW A, NEW B, A \cap B = {}
  PROVE  Is(m, A \cup B) = Is(m, A) + Is(m, B) /\ Is(m, A) \in Nat /\ Is(m, B) \in Nat /\ Is(m, {}) = 0
BY DEF Is
-----------------------------------------------------------------------------
(* What a frame records                                                    *)

\* What a frame records, from what the kids record.
LEMMA SpansIs ==
  ASSUME NEW t, Graph(t)
  PROVE  Spans(t) = [n \in DOMAIN t |->
             IF t[n].k \in {"fill", "copy"} THEN [in |-> {n}, cut |-> 0]
             ELSE IF t[n].k \in {"arced", "profiled"} THEN Spans(t)[t[n].kids[1]]
             ELSE IF t[n].k \in {"then", "bundle"}
             THEN SpanPair(t, n, SpanSource(t, n, Spans(t)[t[n].kids[1]]), Spans(t)[t[n].kids[2]])
             ELSE Alone]
<1> DEFINE N == Len(t)
           Body(n, f) ==
             IF t[n].k \in {"fill", "copy"} THEN [in |-> {n}, cut |-> 0]
             ELSE IF t[n].k \in {"arced", "profiled"} THEN f[t[n].kids[1]]
             ELSE IF t[n].k \in {"then", "bundle"}
             THEN SpanPair(t, n, SpanSource(t, n, f[t[n].kids[1]]), f[t[n].kids[2]])
             ELSE Alone
           Fixed(m, f) == f = [n \in 1..m |-> Body(n, f)]
           T == {m \in 0..N : \E f : Fixed(m, f)}
<1>0. N \in Nat /\ DOMAIN t = 1..N /\ \A n \in 1..N : Kids(t, n) \subseteq 1..(n - 1)
  BY DEF Graph, Shaped
<1>1. ASSUME NEW n \in 1..N, NEW f, NEW h, \A k \in 1..(n - 1) : f[k] = h[k]
      PROVE  Body(n, f) = Body(n, h)
  <2>0. n \in DOMAIN t
    BY <1>0
  <2>1. CASE t[n].k \in {"arced", "profiled"}
    <3>1. t[n].k \in Wrappers
      BY <2>1 DEF Wrappers
    <3>2. t[n].kids[1] \in 1..(n - 1)
      BY <2>0, <3>1, NodesOf
    <3>3. f[t[n].kids[1]] = h[t[n].kids[1]]
      BY <3>2, <1>1
    <3> QED  BY <3>3, <2>1
  <2>2. CASE t[n].k \in {"then", "bundle"}
    <3>1. t[n].kids[1] \in 1..(n - 1) /\ t[n].kids[2] \in 1..(n - 1)
      BY <2>0, <2>2, NodesOf
    <3>2. f[t[n].kids[1]] = h[t[n].kids[1]] /\ f[t[n].kids[2]] = h[t[n].kids[2]]
      BY <3>1, <1>1
    <3> QED  BY <3>2, <2>2
  <2>3. CASE t[n].k \notin {"arced", "profiled", "then", "bundle"}
    BY <2>3
  <2> HIDE DEF Body
  <2> QED  BY <2>1, <2>2, <2>3
<1> HIDE DEF Body
<1>2. 0 \in T
  <2>1. Fixed(0, [n \in 1..0 |-> 0])
    OBVIOUS
  <2>2. \E f : Fixed(0, f)
    BY <2>1
  <2> HIDE DEF Fixed
  <2> QED  BY <1>0, <2>2
<1>3. ASSUME NEW m \in 1..N, m - 1 \in T PROVE m \in T
  <2>1. PICK f : Fixed(m - 1, f)
    BY <1>3
  <2> DEFINE h == [n \in 1..m |-> IF n = m THEN Body(m, f) ELSE f[n]]
  <2>2. m \in Nat /\ m >= 1 /\ \A n \in 1..m : n # m => n \in 1..(m - 1)
    BY <1>0
  <2>3. \A k \in 1..(m - 1) : h[k] = f[k] /\ f[k] = Body(k, f)
    BY <2>1, <2>2
  <2>4. ASSUME NEW n \in 1..m PROVE h[n] = Body(n, h)
    <3>1. n \in 1..N /\ \A k \in 1..(n - 1) : f[k] = h[k]
      BY <2>2, <2>3, <1>0
    <3>2. Body(n, f) = Body(n, h)
      BY <3>1, <1>1
    <3>3. h[n] = Body(n, f)
      <4> HIDE DEF Fixed
      <4> QED  BY <2>2, <2>3
    <3> QED  BY <3>2, <3>3
  <2>5. h = [n \in 1..m |-> h[n]]
    OBVIOUS
  <2> HIDE DEF h
  <2>6. Fixed(m, h)
    BY <2>4, <2>5
  <2>7. m \in 0..N /\ \E g : Fixed(m, g)
    BY <2>6, <1>0
  <2> HIDE DEF Fixed
  <2> QED  BY <2>7
<1>4. N \in T
  <2> HIDE DEF T
  <2> QED  BY <1>0, <1>2, <1>3, Climb
<1>5. \E f : f = [n \in DOMAIN t |-> Body(n, f)]
  <2>1. PICK f : Fixed(N, f)
    BY <1>4
  <2> QED  BY <2>1, <1>0
<1>6. Spans(t) = CHOOSE sp : sp = [n \in DOMAIN t |-> Body(n, sp)]
  BY DEF Spans, Body
<1>7. Spans(t) = [n \in DOMAIN t |-> Body(n, Spans(t))]
  BY <1>5, <1>6
<1> QED  BY <1>7 DEF Body

\* The commands below a node, from those below its kids.
LEMMA BelowOf ==
  ASSUME Graph(tree), NEW n \in DOMAIN tree
  PROVE  /\ tree[n].k \in Leaves => Below(n) = Commands(tree) \cap {n}
         /\ tree[n].k \in Wrappers =>
              /\ Below(n) = Below(Source(tree, n)) \cup (IF tree[n].k = "host" THEN {n} ELSE {})
              /\ n \notin Below(Source(tree, n))
         /\ tree[n].k \in {"then", "bundle"} =>
              /\ Below(n) = Below(Source(tree, n)) \cup Below(Follow(tree, n))
              /\ Below(Source(tree, n)) \cap Below(Follow(tree, n)) = {}
<1>1. n \in Commands(tree) <=> tree[n].k \in {"fill", "copy", "write", "host", "upload", "download"}
  BY DEF Commands
<1>2. CASE tree[n].k \in Leaves
  BY <1>2, UnderOf DEF Below, Leaves, Wrappers
<1>3. CASE tree[n].k \in Wrappers
  <2>1. Under(tree, n) = Under(tree, Source(tree, n)) \cup {n} /\ n \notin Under(tree, Source(tree, n))
    BY <1>3, UnderOf
  <2>2. n \in Commands(tree) <=> tree[n].k = "host"
    BY <1>1, <1>3 DEF Wrappers
  <2> QED  BY <1>3, <2>1, <2>2 DEF Below, Leaves, Wrappers
<1>4. CASE tree[n].k \in {"then", "bundle"}
  <2>1. /\ Under(tree, n) = Under(tree, Source(tree, n)) \cup Under(tree, Follow(tree, n)) \cup {n}
        /\ Under(tree, Source(tree, n)) \cap Under(tree, Follow(tree, n)) = {}
    BY <1>4, UnderOf
  <2>2. n \notin Commands(tree)
    BY <1>1, <1>4
  <2> QED  BY <1>4, <2>1, <2>2 DEF Below, Leaves, Wrappers
<1>5. tree[n].k \in Leaves \/ tree[n].k \in Wrappers \/ tree[n].k \in {"then", "bundle"}
  BY NodesOf
<1> QED  BY <1>2, <1>3, <1>4, <1>5

LEMMA SpansOf ==
  ASSUME Graph(tree), NEW n \in DOMAIN tree
  PROVE  /\ tree[n].k \in {"fill", "copy"} => Span(n) = {n} /\ Cut(n) = 0
         /\ tree[n].k \in (Leaves \cup {"host", "route"}) \ {"fill", "copy"} => Span(n) = {} /\ Cut(n) = 0
         /\ tree[n].k \in {"arced", "profiled"} => Span(n) = Span(Source(tree, n)) /\ Cut(n) = Cut(Source(tree, n))
         /\ tree[n].k \in {"then", "bundle"} =>
              LET l == SpanSource(tree, n, Spans(tree)[Source(tree, n)])
                  p == SpanPair(tree, n, l, Spans(tree)[Follow(tree, n)])
              IN Span(n) = p.in /\ Cut(n) = p.cut
<1>1. Spans(tree)[n] =
        IF tree[n].k \in {"fill", "copy"} THEN [in |-> {n}, cut |-> 0]
        ELSE IF tree[n].k \in {"arced", "profiled"} THEN Spans(tree)[tree[n].kids[1]]
        ELSE IF tree[n].k \in {"then", "bundle"}
        THEN SpanPair(tree, n, SpanSource(tree, n, Spans(tree)[tree[n].kids[1]]), Spans(tree)[tree[n].kids[2]])
        ELSE Alone
  BY SpansIs
<1> QED  BY <1>1 DEF Span, Cut, Source, Follow, Alone, Leaves

\* A frame records commands below the node, and a span is closed or is not.
LEMMA SpanWithin ==
  ASSUME Graph(tree)
  PROVE  \A n \in DOMAIN tree : Span(n) \subseteq Below(n) /\ Cut(n) \in {0, 1}
<1> DEFINE T == {n \in DOMAIN tree : Span(n) \subseteq Below(n) /\ Cut(n) \in {0, 1}}
<1>0. Len(tree) \in Nat /\ DOMAIN tree = 1..Len(tree)
  BY DEF Graph
<1>1. ASSUME NEW n \in 1..Len(tree), \A k \in 1..(n - 1) : k \in T PROVE n \in T
  <2>0. n \in DOMAIN tree
    BY <1>0
  <2>1. CASE tree[n].k \in {"fill", "copy"}
    <3>1. Below(n) = {n} /\ Span(n) = {n} /\ Cut(n) = 0
      BY <2>0, <2>1, BelowOf, SpansOf DEF Leaves, Commands
    <3> QED  BY <2>0, <3>1
  <2>2. CASE tree[n].k \in (Leaves \cup {"host", "route"}) \ {"fill", "copy"}
    <3>1. Span(n) = {} /\ Cut(n) = 0
      BY <2>0, <2>2, SpansOf
    <3> QED  BY <2>0, <3>1
  <2>3. CASE tree[n].k \in {"arced", "profiled"}
    <3>1. tree[n].k \in Wrappers
      BY <2>3 DEF Wrappers
    <3>2. Source(tree, n) \in 1..(n - 1)
      BY <2>0, <3>1, NodesOf
    <3>3. Source(tree, n) \in T
      BY <3>2, <1>1
    <3>4. Span(n) = Span(Source(tree, n)) /\ Cut(n) = Cut(Source(tree, n))
      BY <2>0, <2>3, SpansOf
    <3>5. Below(Source(tree, n)) \subseteq Below(n)
      BY <2>0, <3>1, BelowOf
    <3> QED  BY <2>0, <3>3, <3>4, <3>5
  <2>4. CASE tree[n].k \in {"then", "bundle"}
    <3> DEFINE a == Source(tree, n)
               b == Follow(tree, n)
               l == SpanSource(tree, n, Spans(tree)[a])
               p == SpanPair(tree, n, l, Spans(tree)[b])
    <3>1. a \in 1..(n - 1) /\ b \in 1..(n - 1)
      BY <2>0, <2>4, NodesOf
    <3>2. a \in T /\ b \in T
      BY <3>1, <1>1
    <3>3. Span(n) = p.in /\ Cut(n) = p.cut
      BY <2>0, <2>4, SpansOf
    <3>4. Below(a) \subseteq Below(n) /\ Below(b) \subseteq Below(n)
      BY <2>0, <2>4, BelowOf
    <3>5. l.in \subseteq Below(a)
      BY <3>2 DEF SpanSource, Alone, Span
    <3> HIDE DEF l
    <3>6. p.in \subseteq Below(a) \cup Below(b) /\ p.cut \in {0, 1}
      BY <3>2, <3>5 DEF SpanPair, Span, Cut
    <3> HIDE DEF p, a, b
    <3> QED  BY <2>0, <3>3, <3>4, <3>6
  <2> HIDE DEF T
  <2>5. tree[n].k \in Leaves \/ tree[n].k \in Wrappers \/ tree[n].k \in {"then", "bundle"}
    BY <2>0, NodesOf
  <2> QED  BY <2>1, <2>2, <2>3, <2>4, <2>5 DEF Wrappers
<1>2. \A n \in 1..Len(tree) : n \in T
  <2> HIDE DEF T
  <2> QED  BY <1>0, <1>1, FromBelow
<1> QED  BY <1>0, <1>2
-----------------------------------------------------------------------------
(* Steps that enqueue and record nothing                                   *)

LEMMA FieldsOf ==
  ASSUME NEW s \in States(tree)
  PROVE  Fields \subseteq DOMAIN s
BY DEF States, Fields

LEMMA StillTrans ==
  ASSUME NEW s, NEW u, NEW v, Still(s, u), Still(u, v)
  PROVE  Still(s, v)
BY DEF Still

LEMMA StillWaited ==
  ASSUME NEW s, Fields \subseteq DOMAIN s, NEW D
  PROVE  Still(s, WaitFor(s, D))
BY DEF WaitFor, Still, Fields

LEMMA StillMoved ==
  ASSUME NEW s, Fields \subseteq DOMAIN s, NEW at, NEW pipe
  PROVE  /\ Still(s, [s EXCEPT !.slots = at]) /\ Still(s, [s EXCEPT !.pipe = pipe])
         /\ Still(s, [s EXCEPT !.slots = at, !.pipe = pipe])
BY DEF Still, Fields

LEMMA StillHomes ==
  ASSUME NEW s, Fields \subseteq DOMAIN s, NEW vs, NEW n
  PROVE  Still(s, RehomeAll(s, vs)) /\ Still(s, LentAll(s, n))
BY StillMoved DEF RehomeAll, LentAll

LEMMA StillPut ==
  ASSUME NEW s, Fields \subseteq DOMAIN s, NEW c, NEW v, NEW D, NEW n
  PROVE  Still(s, Put(s, c, v, D)) /\ Still(s, PutAll(s, n, v, D)) /\ Still(s, Restamp(s, n, D))
<1>1. Still(s, Put(s, c, v, D))
  BY StillMoved DEF Put
<1>2. Still(s, PutAll(s, n, v, D))
  BY StillMoved DEF PutAll
<1>3. Still(s, Restamp(s, n, D))
  BY StillMoved DEF Restamp
<1> QED  BY <1>1, <1>2, <1>3

LEMMA StillTraced ==
  ASSUME NEW s, Fields \subseteq DOMAIN s, NEW c, NEW D, NEW n, NEW from, NEW ec, NEW sp
  PROVE  /\ Still(s, Extend(s, c, D)) /\ Still(s, Reaches(s, n, from)) /\ Still(s, Aliased(s, n, ec, from))
         /\ Still(s, [s EXCEPT !.sp = sp])
<1>1. ASSUME NEW x, NEW O PROVE Still(s, Extend(s, x, O))
  BY DEF Extend, Still, Fields
<1>2. Still(s, Reaches(s, n, from))
  <2>1. Still(s, s)
    BY DEF Still
  <2> QED  BY <1>1, <2>1 DEF Reaches
<1>3. Still(s, Aliased(s, n, ec, from))
  <2> DEFINE v == Extend(s, <<n, 1>>, s.reach[from])
             D2 == v.sp[ec.f][<<n, 1>>] \cup s.sp[ec.f][from]
             z == [v.sp EXCEPT ![ec.f] = [v.sp[ec.f] EXCEPT ![<<n, 1>>] = D2]]
  <2>1. Aliased(s, n, ec, from) = [v EXCEPT !.sp = z]
    BY DEF Aliased
  <2>2. Still(s, v)
    BY <1>1
  <2> HIDE DEF v, z
  <2>3. Still(s, [v EXCEPT !.sp = z])
    BY <2>2 DEF Still, Fields
  <2> QED  BY <2>1, <2>3
<1>4. Still(s, [s EXCEPT !.sp = sp])
  BY DEF Still, Fields
<1> QED  BY <1>1, <1>2, <1>3, <1>4

LEMMA StillStamped ==
  ASSUME NEW s, Fields \subseteq DOMAIN s, NEW n
  PROVE  Still(s, Stamped(s, n))
<1>1. Still(s, s)
  BY DEF Still
<1>2. Still(s, Restamp(s, n, {Newest(s)}))
  BY StillPut
<1> QED  BY <1>1, <1>2 DEF Stamped

\* What a failure, an enqueue and a frame change.
LEMMA FailedFields ==
  ASSUME NEW s, Fields \subseteq DOMAIN s
  PROVE  LET u == Failed(s) IN
         /\ Fields \subseteq DOMAIN u /\ u.ok = FALSE /\ u.fault = s.fault
         /\ u.log = s.log /\ u.cbs = s.cbs /\ u.fr = s.fr
BY DEF Failed, Fields

LEMMA EnqueueFields ==
  ASSUME NEW s, Fields \subseteq DOMAIN s, NEW n, NEW on, NEW D
  PROVE  LET u == Enqueue(s, n, on, D) IN
         Fields \subseteq DOMAIN u /\ u.ok = s.ok /\ u.fault = s.fault /\ u.cbs = s.cbs /\ u.fr = s.fr
BY DEF Enqueue, Fields

LEMMA FrameFields ==
  ASSUME NEW s, Fields \subseteq DOMAIN s, NEW fr
  PROVE  LET u == [s EXCEPT !.fr = fr] IN
         /\ Fields \subseteq DOMAIN u /\ u.ok = s.ok /\ u.fault = s.fault /\ u.cbs = s.cbs
         /\ u.log = s.log /\ u.fr = fr
BY DEF Fields

\* Each command enqueued is one entry of the log.
LEMMA EnqueueTimes ==
  ASSUME NEW s \in States(tree), NEW n \in Nat, NEW on \in SUBSET Contents, NEW D \in SUBSET Nat, NEW m
  PROVE  Times(Enqueue(s, n, on, D).log, m) = Times(s.log, m) + Is(m, {n})
<1> DEFINE e == [n |-> n, on |-> on, before |-> Over(s, D)]
<1>1. e \in Entries /\ e.n = n
  BY OverOf DEF Entries
<1>2. s.log \in Seq(Entries)
  BY StateOf
<1>3. Enqueue(s, n, on, D).log = Append(s.log, e)
  BY FieldsOf DEF Enqueue, Fields
<1> HIDE DEF e
<1>4. Times(Append(s.log, e), m) = Times(s.log, m) + (IF e.n = m THEN 1 ELSE 0)
  BY <1>1, <1>2, TimesAppend
<1>5. Times(Append(s.log, e), m) = Times(s.log, m) + Is(m, {n})
  BY <1>1, <1>4 DEF Is
<1> QED  BY <1>3, <1>5
-----------------------------------------------------------------------------
(* How a command buffer is enqueued                                        *)

LEMMA RefusedHarms ==
  ASSUME NEW s, NEW n, Refused(s, n)
  PROVE  ~Harmless(s)
BY DEF Refused, Meets, Harmless

LEMMA EnqueuedThen ==
  ASSUME NEW m, NEW s \in States(tree), NEW u, NEW v, NEW k \in Nat, NEW l \in Nat,
         Enqueued(m, s, u, k), Enqueued(m, u, v, l)
  PROVE  Enqueued(m, s, v, k + l)
<1>1. Times(s.log, m) \in Nat
  BY StateOf, TimesOf
<1> QED  BY <1>1 DEF Enqueued, Harmless

LEMMA EnqueueCbTimes ==
  ASSUME NEW s \in States(tree), NEW cmds \in Seq(Recorded), NEW ext \in SUBSET Nat, NEW m \in Nat \ {0}
  PROVE  LET u == EnqueueCb(s, cmds, ext) IN
         Enqueued(m, s, u, Times(cmds, m)) /\ u.cbs = s.cbs /\ u.fr = s.fr
<1> DEFINE base == Over(s, ext)
           first == Newest(s)
           after == After(cmds, first)
           all == [i \in DOMAIN cmds |->
                     [n |-> cmds[i].n, on |-> cmds[i].on, before |-> base \cup after[i]]]
           done == [n |-> 0, on |-> {}, before |-> base \cup {first + i : i \in DOMAIN cmds}]
           log == s.log \o Append(all, done)
<1>0. EnqueueCb(s, cmds, ext) \in States(tree) /\ Fields \subseteq DOMAIN s /\ s.log \in Seq(Entries)
  BY EnqueueCbOf, FieldsOf, StateOf
<1>1. EnqueueCb(s, cmds, ext) = IF s.fault[1] = "enqueue_cb" THEN Failed(s) ELSE [s EXCEPT !.log = log]
  BY DEF EnqueueCb
<1>2. first \in Nat /\ base \in SUBSET Nat /\ after \in [0..Len(cmds) -> SUBSET Nat]
  BY NewestOf, OverOf, AfterOf
<1> HIDE DEF base, first, after
<1>3. all \in Seq(Entries) /\ Times(all, m) = Times(cmds, m)
  <2>1. Len(cmds) \in Nat /\ DOMAIN cmds = 1..Len(cmds)
    OBVIOUS
  <2>2. \A i \in 1..Len(cmds) : /\ cmds[i] \in Recorded /\ after[i] \in SUBSET Nat
    BY <1>2
  <2>3. \A i \in 1..Len(cmds) : all[i] \in Entries /\ all[i].n = cmds[i].n
    BY <2>1, <2>2, <1>2 DEF Recorded, Entries
  <2>4. all = [i \in 1..Len(cmds) |-> all[i]] /\ DOMAIN all = DOMAIN cmds
    BY <2>1
  <2> HIDE DEF all
  <2>5. {i \in DOMAIN all : all[i].n = m} = {i \in DOMAIN cmds : cmds[i].n = m}
    BY <2>1, <2>3, <2>4
  <2>6. Times(all, m) = Times(cmds, m)
    BY <2>5 DEF Times
  <2> QED  BY <2>1, <2>3, <2>4, <2>6
<1>4. done \in Entries /\ done.n # m
  <2>1. {first + i : i \in DOMAIN cmds} \in SUBSET Nat
    BY <1>2
  <2> QED  BY <1>2, <2>1 DEF Entries
<1> HIDE DEF all, done
<1>5. Times(log, m) = Times(s.log, m) + Times(cmds, m)
  <2> DEFINE tail == Append(all, done)
  <2>1. tail \in Seq(Entries)
    BY <1>3, <1>4
  <2>2. Times(tail, m) = Times(all, m) + (IF done.n = m THEN 1 ELSE 0)
    BY <1>3, <1>4, TimesAppend
  <2>3. Times(all, m) \in Nat
    BY <1>3, TimesOf
  <2> HIDE DEF tail
  <2>4. Times(s.log \o tail, m) = Times(s.log, m) + Times(tail, m)
    BY <1>0, <2>1, TimesConcat
  <2> QED  BY <1>3, <1>4, <2>2, <2>3, <2>4 DEF tail
<1> HIDE DEF log
<1>6. CASE s.fault[1] = "enqueue_cb"
  <2>1. EnqueueCb(s, cmds, ext) = Failed(s) /\ ~Harmless(s)
    BY <1>1, <1>6 DEF Harmless
  <2> QED  BY <1>0, <2>1, FailedFields DEF Enqueued
<1>7. CASE s.fault[1] # "enqueue_cb"
  <2> DEFINE u == [s EXCEPT !.log = log]
  <2>1. EnqueueCb(s, cmds, ext) = u
    BY <1>1, <1>7
  <2>2. u.ok = s.ok /\ u.fault = s.fault /\ u.cbs = s.cbs /\ u.fr = s.fr /\ u.log = log
    BY <1>0 DEF Fields
  <2> HIDE DEF u
  <2> QED  BY <1>0, <1>5, <2>1, <2>2 DEF Enqueued
<1> QED  BY <1>6, <1>7

\* One command more.
LEMMA EnqueueEnqueues ==
  ASSUME NEW m, NEW a \in States(tree), NEW n \in Nat, NEW on \in SUBSET Contents, NEW D \in SUBSET Nat
  PROVE  LET u == Enqueue(a, n, on, D) IN
         Enqueued(m, a, u, Is(m, {n})) /\ u.cbs = a.cbs /\ u.fr = a.fr
<1> DEFINE u == Enqueue(a, n, on, D)
<1>1. u \in States(tree)
  BY EnqueueOf
<1>2. Fields \subseteq DOMAIN a
  BY FieldsOf
<1>3. u.ok = a.ok /\ u.fault = a.fault /\ u.cbs = a.cbs /\ u.fr = a.fr
  BY <1>2, EnqueueFields
<1>4. Times(u.log, m) = Times(a.log, m) + Is(m, {n})
  BY EnqueueTimes
<1> HIDE DEF u
<1>5. Enqueued(m, a, u, Is(m, {n}))
  BY <1>1, <1>3, <1>4 DEF Enqueued
<1> QED  BY <1>3, <1>5 DEF u

\* One step of a replay, which a failure before has stopped or a refusal stops.
LEMMA ReplayStepTimes ==
  ASSUME NEW m, NEW s, NEW f, NEW a \in States(tree), NEW c,
         c.n \in Nat, c.on \in SUBSET Contents, WaitsOf(s, f, c) \in SUBSET Nat
  PROVE  LET b == ReplayStep(s, f, a, c) IN
         Enqueued(m, a, b, Is(m, {c.n})) /\ b.cbs = a.cbs /\ b.fr = a.fr
<1> DEFINE b == ReplayStep(s, f, a, c)
<1>1. CASE ~a.ok
  <2>1. b = a
    BY <1>1 DEF ReplayStep
  <2> HIDE DEF b
  <2>2. Enqueued(m, a, b, Is(m, {c.n})) /\ b.cbs = a.cbs /\ b.fr = a.fr
    BY <1>1, <2>1 DEF Enqueued
  <2> QED  BY <2>2 DEF b
<1>2. CASE a.ok /\ Refused(a, c.n)
  <2>1. b = Failed(a) /\ ~Harmless(a)
    BY <1>2, RefusedHarms DEF ReplayStep
  <2>2. b \in States(tree) /\ Fields \subseteq DOMAIN a
    BY <2>1, FailedOf, FieldsOf
  <2>3. b.ok = FALSE /\ b.fault = a.fault /\ b.cbs = a.cbs /\ b.fr = a.fr
    BY <2>1, <2>2, FailedFields
  <2> HIDE DEF b
  <2>4. Enqueued(m, a, b, Is(m, {c.n}))
    BY <2>1, <2>2, <2>3 DEF Enqueued
  <2> QED  BY <2>3, <2>4 DEF b
<1>3. CASE a.ok /\ ~Refused(a, c.n)
  <2> DEFINE n == c.n
             on == c.on
             D == WaitsOf(s, f, c)
  <2>1. b = Enqueue(a, n, on, D)
    BY <1>3 DEF ReplayStep
  <2>2. n \in Nat /\ on \in SUBSET Contents /\ D \in SUBSET Nat
    OBVIOUS
  <2> HIDE DEF b, on, D, n
  <2>3. LET u == Enqueue(a, n, on, D) IN Enqueued(m, a, u, Is(m, {n})) /\ u.cbs = a.cbs /\ u.fr = a.fr
    BY <2>2, EnqueueEnqueues
  <2>4. Enqueued(m, a, b, Is(m, {n})) /\ b.cbs = a.cbs /\ b.fr = a.fr
    BY <2>1, <2>3
  <2> QED  BY <2>4 DEF b, n
<1> QED  BY <1>1, <1>2, <1>3

\* A replay enqueues what was recorded, once each.
LEMMA ReplayedTimes ==
  ASSUME NEW s \in States(tree), NEW f \in Heads(tree), NEW m
  PROVE  LET u == Replayed(s, f) IN
         Enqueued(m, s, u, Times(s.fr[f].rec, m)) /\ u.cbs = s.cbs /\ u.fr = s.fr
<1> DEFINE cmds == s.fr[f].rec
           N == Len(cmds)
           F(k) == SubSeq(cmds, 1, k)
<1>1. /\ cmds \in Seq(Recorded)
      /\ \A i \in 1..N : cmds[i].n \in Nat /\ cmds[i].on \in SUBSET Contents /\ WaitsOf(s, f, cmds[i]) \in SUBSET Nat
  BY ReplayedIs
<1>2. PICK g : Replays(s, f, g) /\ Replayed(s, f) = g[N]
  BY ReplayedIs
<1>8. /\ g[0] = s /\ \A i \in 0..N : g[i] \in States(tree)
      /\ \A i \in 1..N : g[i] = ReplayStep(s, f, g[i - 1], cmds[i])
  BY <1>2 DEF Replays
<1> HIDE DEF cmds
<1>3. N \in Nat
  BY <1>1
<1> DEFINE Right(k) == Enqueued(m, s, g[k], Times(F(k), m)) /\ g[k].cbs = s.cbs /\ g[k].fr = s.fr
           T == {k \in 0..N : Right(k)}
<1>4. 0 \in T
  <2> DEFINE z == F(0)
  <2>1. z = <<>>
    OBVIOUS
  <2> HIDE DEF z
  <2>2. Times(z, m) = 0 /\ Times(s.log, m) \in Nat
    BY <2>1, StateOf, TimesOf
  <2>3. Enqueued(m, s, s, Times(z, m))
    BY <2>2 DEF Enqueued
  <2> QED  BY <1>8, <1>3, <2>3 DEF z
<1>5. ASSUME NEW k \in 1..N, k - 1 \in T PROVE k \in T
  <2> DEFINE a == g[k - 1]
             b == g[k]
             c == cmds[k]
             p == F(k - 1)
             q == F(k)
  <2>1. Enqueued(m, s, a, Times(p, m)) /\ a.cbs = s.cbs /\ a.fr = s.fr
    BY <1>5
  <2>2. c \in Recorded /\ p \in Seq(Recorded) /\ q = Append(p, c) /\ k \in 0..N /\ k - 1 \in 0..N
    BY <1>1
  <2>3. b = ReplayStep(s, f, a, c) /\ a \in States(tree)
    BY <1>8, <2>2
  <2>5. c.n \in Nat /\ c.on \in SUBSET Contents /\ WaitsOf(s, f, c) \in SUBSET Nat
    BY <1>1
  <2> HIDE DEF a, b, c, p, q
  <2>6. Times(q, m) = Times(p, m) + (IF c.n = m THEN 1 ELSE 0) /\ Times(p, m) \in Nat
    BY <2>2, TimesAppend, TimesOf
  <2>7. Times(q, m) = Times(p, m) + Is(m, {c.n}) /\ Is(m, {c.n}) \in Nat
    BY <2>6 DEF Is
  <2>8. LET z == ReplayStep(s, f, a, c) IN Enqueued(m, a, z, Is(m, {c.n})) /\ z.cbs = a.cbs /\ z.fr = a.fr
    BY <2>3, <2>5, ReplayStepTimes
  <2>9. Enqueued(m, a, b, Is(m, {c.n})) /\ b.cbs = a.cbs /\ b.fr = a.fr
    BY <2>3, <2>8
  <2> DEFINE i == Times(p, m)
             j == Is(m, {c.n})
  <2>10. i \in Nat /\ j \in Nat /\ Enqueued(m, s, a, i) /\ Enqueued(m, a, b, j)
    BY <2>1, <2>6, <2>7, <2>9
  <2> HIDE DEF i, j
  <2>11. Enqueued(m, s, b, i + j)
    BY <2>3, <2>10, EnqueuedThen
  <2>12. Enqueued(m, s, b, Times(q, m))
    BY <2>7, <2>11 DEF i, j
  <2> QED  BY <2>1, <2>2, <2>9, <2>12 DEF b, q
<1>6. N \in T
  <2> HIDE DEF T
  <2> QED  BY <1>3, <1>4, <1>5, Climb
<1>7. F(N) = cmds
  BY <1>1
<1> QED  BY <1>2, <1>6, <1>7 DEF cmds

LEMMA SealedIs ==
  ASSUME NEW s \in States(tree), NEW f \in Heads(tree), NEW u, u.fr = [s.fr EXCEPT ![f].sealed = TRUE]
  PROVE  Sealed(f, s, u)
<1>1. s.fr \in [Heads(tree) -> Frames] /\ s.fr[f] \in Frames
  BY StateOf
<1>2. u.fr[f] = [s.fr[f] EXCEPT !.sealed = TRUE] /\ \A g \in Heads(tree) \ {f} : u.fr[g] = s.fr[g]
  BY <1>1
<1>3. u.fr[f].sealed /\ u.fr[f].rec = s.fr[f].rec /\ u.fr[f].closed = s.fr[f].closed
  BY <1>1, <1>2 DEF Frames
<1> QED  BY <1>2, <1>3 DEF Sealed

\* So is a frame replayed in software.
LEMMA ReplayTimes ==
  ASSUME NEW s \in States(tree), NEW f \in Heads(tree), NEW m \in Nat \ {0}
  PROVE  LET u == Replay(s, f) IN
         Enqueued(m, s, u, Times(s.fr[f].rec, m)) /\ u.cbs = s.cbs /\ Sealed(f, s, u)
<1> DEFINE b == s.off \/ s.fr[f].driver
           v == [s EXCEPT !.off = b]
           fr == [s.fr EXCEPT ![f].sealed = TRUE]
           w == [v EXCEPT !.fr = fr]
           t == Replayed(w, f)
           E == {Newest(s) + i : i \in DOMAIN s.fr[f].rec}
           u == Replay(s, f)
<1>1. b \in BOOLEAN /\ u \in States(tree)
  BY ReplayOf
<1>2. u = IF t.ok THEN Enqueue(t, 0, {}, E) ELSE t
  <2>1. [s EXCEPT !.off = b, !.fr[f].sealed = TRUE] = w
    OBVIOUS
  <2> HIDE DEF w
  <2> QED  BY <2>1 DEF Replay
<1>3. E \in SUBSET Nat
  <2>1. s.fr[f] \in Frames /\ Newest(s) \in Nat
    BY StateOf, NewestOf
  <2>2. s.fr[f].rec \in Seq(Recorded)
    BY <2>1 DEF Frames
  <2>3. DOMAIN s.fr[f].rec \subseteq Nat
    BY <2>2
  <2> QED  BY <2>1, <2>3
<1> HIDE DEF b, E
<1>4. /\ v \in States(tree) /\ v.cbs = s.cbs /\ v.ok = s.ok /\ v.fr = s.fr
      /\ v.fault = s.fault /\ v.log = s.log
  <2>1. v \in States(tree) /\ v.cbs = s.cbs /\ v.ok = s.ok /\ v.fr = s.fr
    BY <1>1, SetOff
  <2>2. v.fault = s.fault /\ v.log = s.log
    BY DEF States
  <2> QED  BY <2>1, <2>2
<1> HIDE DEF v
<1>5. /\ w \in States(tree) /\ w.cbs = s.cbs /\ w.ok = s.ok
      /\ w.fault = s.fault /\ w.log = s.log /\ w.fr = fr
  <2>1. w = [v EXCEPT !.fr[f].sealed = TRUE]
    BY <1>4
  <2>2. w \in States(tree)
    BY <1>4, <2>1, SetSealed
  <2>3. Fields \subseteq DOMAIN v
    BY <1>4, FieldsOf
  <2> HIDE DEF fr
  <2>4. w.ok = v.ok /\ w.fault = v.fault /\ w.cbs = v.cbs /\ w.log = v.log /\ w.fr = fr
    BY <2>3, FrameFields
  <2> HIDE DEF w
  <2> QED  BY <1>4, <2>2, <2>4
<1>6. Sealed(f, s, w)
  BY <1>5, SealedIs
<1>7. w.fr[f].rec = s.fr[f].rec
  BY <1>6 DEF Sealed
<1> HIDE DEF w, fr
<1> DEFINE k == Times(s.fr[f].rec, m)
<1>8. Enqueued(m, w, t, k) /\ t.cbs = w.cbs /\ t.fr = w.fr
  BY <1>5, <1>7, ReplayedTimes
<1> HIDE DEF k
<1>9. Enqueued(m, s, t, k) /\ t.cbs = s.cbs /\ Sealed(f, s, t)
  <2>1. Enqueued(m, s, t, k)
    BY <1>5, <1>8 DEF Enqueued, Harmless
  <2>2. Sealed(f, s, t)
    BY <1>6, <1>8 DEF Sealed
  <2> QED  BY <1>5, <1>8, <2>1, <2>2
<1> HIDE DEF t
<1>10. CASE ~t.ok
  BY <1>2, <1>9, <1>10 DEF k
<1>11. CASE t.ok
  <2>1. u = Enqueue(t, 0, {}, E) /\ t \in States(tree) /\ {} \in SUBSET Contents /\ 0 \in Nat
    BY <1>2, <1>9, <1>11 DEF Enqueued
  <2>2. Enqueued(m, t, u, Is(m, {0})) /\ u.cbs = t.cbs /\ u.fr = t.fr
    BY <1>3, <2>1, EnqueueEnqueues
  <2>3. Is(m, {0}) = 0
    BY DEF Is
  <2> HIDE DEF u
  <2>4. Enqueued(m, s, u, k)
    <3>1. k \in Nat
      <4>1. s.fr[f] \in Frames
        BY StateOf
      <4>2. s.fr[f].rec \in Seq(Recorded)
        BY <4>1 DEF Frames
      <4> QED  BY <4>2, TimesOf DEF k
    <3>2. Enqueued(m, t, u, 0)
      BY <2>2, <2>3
    <3>3. Enqueued(m, s, u, k + 0)
      BY <1>9, <2>1, <3>1, <3>2, EnqueuedThen
    <3> QED  BY <3>1, <3>3
  <2>5. Sealed(f, s, u)
    BY <1>9, <2>2 DEF Sealed
  <2> QED  BY <1>9, <2>2, <2>4, <2>5 DEF u, k
<1> QED  BY <1>10, <1>11

\* What a seal bakes is what the frame has recorded; and it enqueues that.
LEMMA SealTimes ==
  ASSUME NEW s \in States(tree), NEW f \in Heads(tree), NEW m \in Nat \ {0}
  PROVE  LET u == Seal(s, f) IN
         /\ Enqueued(m, s, u, Times(s.fr[f].rec, m)) /\ Sealed(f, s, u)
         /\ \A g \in Heads(tree) \ {f} : u.cbs[g] = s.cbs[g]
         /\ u.cbs[f] = s.cbs[f] \/ u.cbs[f].rec = s.fr[f].rec
<1> DEFINE fr == s.fr[f]
           refused == s.fault[1] = "finalize"
           baked == [rec |-> fr.rec, slots |-> fr.slots]
           frs == [s.fr EXCEPT ![f].sealed = TRUE]
           v == [s EXCEPT !.fr = frs]
           w == [v EXCEPT !.cbs[f] = baked]
           b == fr.driver \/ (fr.eligible /\ refused)
           d == [s EXCEPT !.fr[f].driver = b]
           u == Seal(s, f)
           k == Times(fr.rec, m)
<1>1. fr \in Frames /\ s.fr \in [Heads(tree) -> Frames] /\ s.cbs \in [Heads(tree) -> {None} \cup Baked]
  BY StateOf
<1>2. fr.rec \in Seq(Recorded) /\ fr.ext \in SUBSET Nat /\ baked \in Baked /\ b \in BOOLEAN /\ baked.rec = fr.rec
  BY <1>1 DEF Frames, Baked
<1>3. u = IF fr.eligible /\ ~refused THEN EnqueueCb(w, fr.rec, fr.ext) ELSE Replay(d, f)
  <2>1. [s EXCEPT !.fr[f].sealed = TRUE, !.cbs[f] = baked] = w
    OBVIOUS
  <2> HIDE DEF w
  <2> QED  BY <2>1 DEF Seal
<1>4. /\ w \in States(tree) /\ w.ok = s.ok /\ w.fault = s.fault /\ w.log = s.log /\ w.fr = frs
      /\ w.cbs = [s.cbs EXCEPT ![f] = baked]
  <2>1. v = [s EXCEPT !.fr[f].sealed = TRUE]
    OBVIOUS
  <2>2. v \in States(tree)
    BY <2>1, SetSealed
  <2>3. Fields \subseteq DOMAIN s
    BY FieldsOf
  <2> HIDE DEF frs
  <2>4. v.ok = s.ok /\ v.fault = s.fault /\ v.cbs = s.cbs /\ v.log = s.log /\ v.fr = frs
    BY <2>3, FrameFields
  <2> HIDE DEF v, baked
  <2>5. w \in States(tree)
    BY <1>2, <2>2, SetCb
  <2>6. w.ok = v.ok /\ w.fault = v.fault /\ w.log = v.log /\ w.fr = v.fr /\ w.cbs = [v.cbs EXCEPT ![f] = baked]
    BY <2>2 DEF States
  <2> QED  BY <2>4, <2>5, <2>6
<1>5. /\ d \in States(tree) /\ d.ok = s.ok /\ d.fault = s.fault /\ d.log = s.log /\ d.cbs = s.cbs
      /\ d.fr[f].rec = fr.rec /\ d.fr[f].closed = fr.closed /\ \A g \in Heads(tree) \ {f} : d.fr[g] = s.fr[g]
  <2> DEFINE z == [s.fr[f] EXCEPT !.driver = b]
             zs == [s.fr EXCEPT ![f] = z]
  <2>0. d = [s EXCEPT !.fr = zs]
    OBVIOUS
  <2>1. d \in States(tree)
    <3> HIDE DEF b
    <3> QED  BY <1>2, SetDriver
  <2>2. z.rec = fr.rec /\ z.closed = fr.closed
    BY <1>1 DEF Frames
  <2> HIDE DEF z, fr
  <2>3. zs[f] = z /\ \A g \in Heads(tree) \ {f} : zs[g] = s.fr[g]
    BY <1>1
  <2> HIDE DEF zs, d
  <2>4. Fields \subseteq DOMAIN s
    BY FieldsOf
  <2>5. d.ok = s.ok /\ d.fault = s.fault /\ d.cbs = s.cbs /\ d.log = s.log /\ d.fr = zs
    BY <2>0, <2>4, FrameFields
  <2> QED  BY <2>1, <2>2, <2>3, <2>5
<1>6. Sealed(f, s, w)
  <2> HIDE DEF w
  <2> QED  BY <1>4, SealedIs
<1> HIDE DEF w, d, u, baked, frs
<1>7. CASE fr.eligible /\ ~refused
  <2> HIDE DEF fr
  <2>1. u = EnqueueCb(w, fr.rec, fr.ext)
    BY <1>3, <1>7
  <2>2. Enqueued(m, w, u, k) /\ u.cbs = w.cbs /\ u.fr = w.fr
    BY <1>2, <1>4, <2>1, EnqueueCbTimes
  <2> HIDE DEF k, refused
  <2>3. Enqueued(m, s, u, k)
    BY <1>4, <2>2 DEF Enqueued, Harmless
  <2>4. Sealed(f, s, u)
    BY <1>6, <2>2 DEF Sealed
  <2>5. u.cbs[f] = baked /\ \A g \in Heads(tree) \ {f} : u.cbs[g] = s.cbs[g]
    BY <1>1, <1>4, <2>2
  <2> QED  BY <1>2, <2>3, <2>4, <2>5 DEF fr, k, u
<1>8. CASE ~(fr.eligible /\ ~refused)
  <2> HIDE DEF fr
  <2>1. u = Replay(d, f)
    BY <1>3, <1>8
  <2>2. Enqueued(m, d, u, Times(d.fr[f].rec, m)) /\ u.cbs = d.cbs /\ Sealed(f, d, u)
    BY <1>5, <2>1, ReplayTimes
  <2>3. Enqueued(m, d, u, k)
    BY <1>5, <2>2
  <2> HIDE DEF k, refused
  <2>4. Enqueued(m, s, u, k)
    BY <1>5, <2>3 DEF Enqueued, Harmless
  <2>5. Sealed(f, s, u)
    BY <1>5, <2>2 DEF Sealed, fr
  <2> QED  BY <1>5, <2>2, <2>4, <2>5 DEF fr, k, u
<1> QED  BY <1>7, <1>8

-----------------------------------------------------------------------------
(* What a walk adds to the log                                             *)

\* Where nothing is enqueued or recorded, nothing changes.
LEMMA StillLoose ==
  ASSUME NEW m, NEW R, NEW s, NEW t, NEW u, NEW v, NEW D, Still(s, t), Loose(m, R, t, u, D), Still(u, v)
  PROVE  Loose(m, R, s, v, D)
BY DEF Still, Loose, Steady, Harmless, Apart, AllFit, Fit, Grows

LEMMA StillSpanned ==
  ASSUME NEW m, NEW R, NEW ec, NEW s, NEW t, NEW u, NEW v, NEW D, NEW P, NEW cut,
         Still(s, t), Spanned(m, R, ec, t, u, D, P, cut), Still(u, v)
  PROVE  Spanned(m, R, ec, s, v, D, P, cut)
<1>1. /\ s.fault = t.fault /\ s.ok = t.ok /\ s.log = t.log /\ s.cbs = t.cbs /\ s.fr = t.fr
      /\ v.fault = u.fault /\ v.ok = u.ok /\ v.log = u.log /\ v.cbs = u.cbs /\ v.fr = u.fr
  BY DEF Still
<1>2. Steady(s, v) /\ Apart(R \cup {ec.f}, s, v) /\ AllFit(m, R \ {ec.f}, v)
  BY <1>1 DEF Spanned, Steady, Harmless, Apart, AllFit, Fit
<1>3. ec.cb = "lend" => Lends(m, ec, s, v, P, cut)
  BY <1>1 DEF Spanned, Lends
<1>4. ec.cb = "build" => Builds(m, ec, s, v, P, cut)
  BY <1>1 DEF Spanned, Builds
<1>5. Owes(m, ec, s, P) = Owes(m, ec, t, P)
  BY <1>1 DEF Owes
<1>6. cut = 0 => Grows(m, s, v, D, 0)
  BY <1>1 DEF Spanned, Grows
<1>7. cut = 1 => Grows(m, s, v, D, Owes(m, ec, s, P))
  BY <1>1, <1>5 DEF Spanned, Grows
<1> QED  BY <1>2, <1>3, <1>4, <1>6, <1>7 DEF Spanned

LEMMA SteadyThen ==
  ASSUME NEW s, NEW t, NEW u, Steady(s, t), t.ok, Steady(t, u)
  PROVE  Steady(s, u)
BY DEF Steady, Harmless

LEMMA GrowsThen ==
  ASSUME NEW m, NEW s \in States(tree), NEW t, NEW u, NEW A, NEW B, A \cap B = {}, NEW k \in Nat,
         Grows(m, s, t, A, 0), t.ok, Grows(m, t, u, B, k)
  PROVE  Grows(m, s, u, A \cup B, k)
<1> SUFFICES ASSUME u.ok PROVE \E d \in Amounts(m, A \cup B) : Times(u.log, m) = Times(s.log, m) + d + k
  BY DEF Grows
<1>1. PICK a \in Amounts(m, A) : Times(t.log, m) = Times(s.log, m) + a + 0
  BY DEF Grows
<1>2. PICK b \in Amounts(m, B) : Times(u.log, m) = Times(t.log, m) + b + k
  BY DEF Grows
<1>3. Times(s.log, m) \in Nat
  BY StateOf, TimesOf
<1>4. a + b \in Amounts(m, A \cup B) /\ a \in Nat /\ b \in Nat
  BY AmountsOf
<1> DEFINE d == a + b
<1>5. Times(u.log, m) = Times(s.log, m) + d + k
  BY <1>1, <1>2, <1>3, <1>4
<1> HIDE DEF d
<1>6. d \in Amounts(m, A \cup B)
  BY <1>4 DEF d
<1> QED  BY <1>5, <1>6

\* The same walk seen as part of a larger one.
LEMMA LooseWider ==
  ASSUME NEW m, NEW A, NEW R, A \subseteq R, NEW s, NEW u, NEW D, NEW E, Loose(m, A, s, u, D), AllFit(m, R, s),
         u.ok => E = D
  PROVE  Loose(m, R, s, u, E)
<1>1. Steady(s, u) /\ Apart(R, s, u)
  BY DEF Loose, Apart
<1>2. AllFit(m, R, u)
  BY DEF Loose, Apart, AllFit, Fit
<1>3. Grows(m, s, u, E, 0)
  BY DEF Loose, Grows
<1> QED  BY <1>1, <1>2, <1>3 DEF Loose

LEMMA SpannedWider ==
  ASSUME NEW m, NEW A, NEW R, A \subseteq R, NEW ec, NEW s, NEW u, NEW D, NEW P, NEW cut, cut = 0 \/ cut = 1,
         NEW E, NEW Q, NEW end, end = 0 \/ end = 1, Spanned(m, A, ec, s, u, D, P, cut), AllFit(m, R \ {ec.f}, s),
         u.ok => E = D /\ Q = P /\ end = cut, cut = 1 => end = 1 /\ Q = P
  PROVE  Spanned(m, R, ec, s, u, E, Q, end)
<1>1. Steady(s, u) /\ Apart(R \cup {ec.f}, s, u)
  BY DEF Spanned, Apart
<1>2. AllFit(m, R \ {ec.f}, u)
  BY DEF Spanned, Apart, AllFit, Fit
<1>3. ec.cb = "lend" => Lends(m, ec, s, u, Q, end)
  BY DEF Spanned, Lends
<1>4. ec.cb = "build" => Builds(m, ec, s, u, Q, end)
  <2> SUFFICES ASSUME ec.cb = "build" PROVE Builds(m, ec, s, u, Q, end)
    OBVIOUS
  <2>1. Builds(m, ec, s, u, P, cut)
    BY DEF Spanned
  <2>2. CASE cut = 1 \/ u.ok
    <3>1. Q = P /\ end = cut
      BY <2>2
    <3> QED  BY <2>1, <3>1
  <2>3. CASE cut = 0 /\ ~u.ok
    <3>1. u.cbs[ec.f] = None
      BY <2>1, <2>3 DEF Builds
    <3> QED  BY <2>3, <3>1, Zenon DEF Builds
  <2> QED  BY <2>2, <2>3
<1>5. end = 0 => Grows(m, s, u, E, 0)
  BY DEF Spanned, Grows
<1>6. end = 1 => Grows(m, s, u, E, Owes(m, ec, s, Q))
  BY DEF Spanned, Grows
<1> QED  BY <1>1, <1>2, <1>3, <1>4, <1>5, <1>6 DEF Spanned

\* One walk after another.
LEMMA LooseThen ==
  ASSUME NEW m, NEW A, NEW B, NEW R, A \cup B \subseteq R, A \cap B = {}, NEW s \in States(tree), NEW t, NEW u,
         NEW D, NEW E, D \cap E = {}, AllFit(m, R, s), Loose(m, A, s, t, D), t.ok, Loose(m, B, t, u, E)
  PROVE  Loose(m, R, s, u, D \cup E)
<1>1. Steady(s, u)
  BY SteadyThen DEF Loose
<1>2. Apart(R, s, u)
  BY DEF Loose, Apart
<1>3. AllFit(m, R, u)
  BY DEF Loose, Apart, AllFit, Fit
<1>4. Grows(m, s, u, D \cup E, 0)
  BY GrowsThen DEF Loose
<1> QED  BY <1>1, <1>2, <1>3, <1>4 DEF Loose

\* What is owed is a number.
LEMMA OwesOf ==
  ASSUME NEW m, NEW ec, ec.f \in Heads(tree), NEW s \in States(tree), ec.cb = "lend" => s.cbs[ec.f] # None, NEW P
  PROVE  Owes(m, ec, s, P) \in Nat /\ Times(s.fr[ec.f].rec, m) \in Nat /\ s.fr[ec.f].rec \in Seq(Recorded)
<1>1. s.fr[ec.f] \in Frames /\ s.cbs[ec.f] \in {None} \cup Baked
  BY StateOf
<1>2. s.fr[ec.f].rec \in Seq(Recorded) /\ (ec.cb = "lend" => s.cbs[ec.f].rec \in Seq(Recorded))
  BY <1>1 DEF Frames, Baked
<1>3. Times(s.fr[ec.f].rec, m) \in Nat /\ (ec.cb = "lend" => Times(s.cbs[ec.f].rec, m) \in Nat)
  BY <1>2, TimesOf
<1> QED  BY <1>2, <1>3 DEF Owes, Is

\* In a frame, while the span is open,
LEMMA SpannedThen ==
  ASSUME NEW m, NEW A, NEW B, NEW R, A \cup B \subseteq R, A \cap B = {}, NEW ec, ec.f \notin A \cup B,
         ec.f \in Heads(tree), ec.cb \in {"build", "lend"}, NEW s \in States(tree),
         NEW t \in States(tree), ec.cb = "lend" => s.cbs[ec.f] # None, NEW u,
         NEW D, NEW E, D \cap E = {}, NEW P, NEW Q, P \cap Q = {}, NEW cut, cut = 0 \/ cut = 1, AllFit(m, R \ {ec.f}, s),
         Spanned(m, A, ec, s, t, D, P, 0), t.ok, Spanned(m, B, ec, t, u, E, Q, cut)
  PROVE  Spanned(m, R, ec, s, u, D \cup E, P \cup Q, cut)
<1> DEFINE f == ec.f
<1>0. /\ Is(m, P \cup Q) = Is(m, P) + Is(m, Q) /\ Is(m, P) \in Nat /\ Is(m, Q) \in Nat
      /\ Times(s.fr[f].rec, m) \in Nat
  BY IsOf, OwesOf
<1>1. Steady(s, u)
  BY SteadyThen DEF Spanned
<1>2. Apart(R \cup {f}, s, u)
  BY DEF Spanned, Apart
<1>3. AllFit(m, R \ {f}, u)
  BY DEF Spanned, Apart, AllFit, Fit
<1>4. ec.cb = "lend" => Lends(m, ec, s, u, P \cup Q, cut)
  BY DEF Spanned, Lends
<1>5. ASSUME ec.cb = "build"
      PROVE  /\ Times(t.fr[f].rec, m) = Times(s.fr[f].rec, m) + Is(m, P)
             /\ Builds(m, ec, s, u, P \cup Q, cut)
             /\ Owes(m, ec, t, Q) = Owes(m, ec, s, P \cup Q)
  <2>1. Times(t.fr[f].rec, m) = Times(s.fr[f].rec, m) + Is(m, P)
    BY <1>5 DEF Spanned, Builds
  <2>2. Times(t.fr[f].rec, m) + Is(m, Q) = Times(s.fr[f].rec, m) + Is(m, P \cup Q)
    BY <1>0, <2>1
  <2>3. Builds(m, ec, t, u, Q, cut)
    BY <1>5 DEF Spanned
  <2>4. Builds(m, ec, s, u, P \cup Q, cut)
    BY <2>2, <2>3 DEF Builds
  <2>5. Owes(m, ec, t, Q) = Owes(m, ec, s, P \cup Q)
    BY <1>5, <2>2 DEF Owes
  <2> QED  BY <2>1, <2>4, <2>5
<1>6. Owes(m, ec, t, Q) = Owes(m, ec, s, P \cup Q)
  BY <1>5 DEF Spanned, Lends, Owes
<1>7. Owes(m, ec, s, P \cup Q) \in Nat
  BY OwesOf
<1>8. Grows(m, s, t, D, 0)
  BY DEF Spanned
<1>9. cut = 0 => Grows(m, s, u, D \cup E, 0)
  BY <1>8, GrowsThen DEF Spanned
<1>10. cut = 1 => Grows(m, s, u, D \cup E, Owes(m, ec, s, P \cup Q))
  <2> DEFINE k == Owes(m, ec, s, P \cup Q)
  <2>1. cut = 1 => Grows(m, t, u, E, k)
    BY <1>6 DEF Spanned
  <2>2. k \in Nat
    BY <1>7
  <2> HIDE DEF k
  <2>3. cut = 1 => Grows(m, s, u, D \cup E, k)
    BY <1>8, <2>1, <2>2, GrowsThen
  <2> QED  BY <2>3 DEF k
<1> QED  BY <1>1, <1>2, <1>3, <1>4, <1>5, <1>9, <1>10 DEF Spanned

\* and when it is closed.
LEMMA SpannedCut ==
  ASSUME NEW m, NEW A, NEW B, NEW R, A \cup B \subseteq R, A \cap B = {}, NEW ec, ec.f \notin A \cup B,
         ec.f \in Heads(tree), NEW s \in States(tree), ec.cb = "lend" => s.cbs[ec.f] # None, NEW t, NEW u,
         NEW D, NEW E, D \cap E = {}, NEW P, AllFit(m, R \ {ec.f}, s),
         Spanned(m, A, ec, s, t, D, P, 1), t.ok, Loose(m, B, t, u, E)
  PROVE  Spanned(m, R, ec, s, u, D \cup E, P, 1)
<1> DEFINE f == ec.f
<1>0. u.fr[f] = t.fr[f] /\ u.cbs[f] = t.cbs[f]
  BY DEF Loose, Apart
<1>1. Steady(s, u)
  BY SteadyThen DEF Spanned, Loose
<1>2. Apart(R \cup {f}, s, u)
  BY DEF Spanned, Loose, Apart
<1>3. AllFit(m, R \ {f}, u)
  BY DEF Spanned, Loose, Apart, AllFit, Fit
<1>4. ec.cb = "lend" => Lends(m, ec, s, u, P, 1)
  BY <1>0 DEF Spanned, Lends
<1>5. ec.cb = "build" => Builds(m, ec, s, u, P, 1)
  BY <1>0 DEF Spanned, Builds
<1> DEFINE k == Owes(m, ec, s, P)
<1>6. Grows(m, s, t, D, k) /\ Grows(m, t, u, E, 0) /\ k \in Nat
  BY OwesOf DEF Spanned, Loose
<1> HIDE DEF k
<1>7. Grows(m, s, u, D \cup E, k)
  <2> SUFFICES ASSUME u.ok PROVE \E d \in Amounts(m, D \cup E) : Times(u.log, m) = Times(s.log, m) + d + k
    BY DEF Grows
  <2>1. PICK a \in Amounts(m, D) : Times(t.log, m) = Times(s.log, m) + a + k
    BY <1>6 DEF Grows
  <2>2. PICK b \in Amounts(m, E) : Times(u.log, m) = Times(t.log, m) + b + 0
    BY <1>6 DEF Grows
  <2>3. Times(s.log, m) \in Nat
    BY StateOf, TimesOf
  <2>4. a + b \in Amounts(m, D \cup E) /\ a \in Nat /\ b \in Nat
    BY AmountsOf
  <2> DEFINE d == a + b
  <2>5. Times(u.log, m) = Times(s.log, m) + d + k
    BY <1>6, <2>1, <2>2, <2>3, <2>4
  <2> HIDE DEF d
  <2>6. d \in Amounts(m, D \cup E)
    BY <2>4 DEF d
  <2> QED  BY <2>5, <2>6
<1> QED  BY <1>1, <1>2, <1>3, <1>4, <1>5, <1>7 DEF Spanned, k

\* A walk outside the frame, while the frame is open.
LEMMA Aside ==
  ASSUME NEW m, NEW A, NEW ec, ec.f \notin A, ec.f \in Heads(tree), NEW s \in States(tree),
         ec.cb = "lend" => s.cbs[ec.f] # None, NEW u, NEW D, Loose(m, A, s, u, D), Open(ec, s)
  PROVE  Spanned(m, A, ec, s, u, D, {}, 0)
<1> DEFINE f == ec.f
<1>0. u.fr[f] = s.fr[f] /\ u.cbs[f] = s.cbs[f]
  BY DEF Loose, Apart
<1>1. Times(s.fr[f].rec, m) \in Nat /\ Is(m, {}) = 0
  BY OwesOf DEF Is
<1>2. Steady(s, u) /\ Apart(A \cup {f}, s, u) /\ AllFit(m, A \ {f}, u) /\ Grows(m, s, u, D, 0)
  BY DEF Loose, Apart, AllFit
<1>3. ec.cb = "lend" => Lends(m, ec, s, u, {}, 0)
  BY <1>0 DEF Open, Lends
<1>4. ec.cb = "build" => Builds(m, ec, s, u, {}, 0)
  <2>1. Times(u.fr[f].rec, m) = Times(s.fr[f].rec, m) + Is(m, {})
    BY <1>0, <1>1
  <2>2. ec.cb = "build" => ~u.fr[f].closed /\ ~u.fr[f].sealed /\ u.cbs[f] = None
    BY <1>0 DEF Open
  <2>3. ~(0 = 1)
    OBVIOUS
  <2> QED  BY <2>1, <2>2, <2>3, Zenon DEF Builds
<1> QED  BY <1>2, <1>3, <1>4 DEF Spanned

\* A frame whose span is not closed is open.
LEMMA OpenStill ==
  ASSUME NEW m, NEW R, NEW ec, NEW s, NEW u, NEW D, NEW P, Spanned(m, R, ec, s, u, D, P, 0), u.ok,
         ec.cb \in {"build", "lend"}
  PROVE  Open(ec, u)
BY DEF Spanned, Lends, Builds, Open

-----------------------------------------------------------------------------
(* The end of a span                                                       *)

\* A frame is closed; what it recorded stays.
LEMMA ClosedIs ==
  ASSUME NEW s \in States(tree), NEW f \in Heads(tree)
  PROVE  LET u == [s EXCEPT !.fr[f].closed = TRUE] IN
         /\ u \in States(tree) /\ u.ok = s.ok /\ u.fault = s.fault /\ u.log = s.log /\ u.cbs = s.cbs
         /\ u.fr[f].closed /\ u.fr[f].rec = s.fr[f].rec /\ u.fr[f].sealed = s.fr[f].sealed
         /\ \A g \in Heads(tree) \ {f} : u.fr[g] = s.fr[g]
<1> DEFINE z == [s.fr[f] EXCEPT !.closed = TRUE]
           fr == [s.fr EXCEPT ![f] = z]
           u == [s EXCEPT !.fr = fr]
<1>1. s.fr \in [Heads(tree) -> Frames] /\ s.fr[f] \in Frames /\ Fields \subseteq DOMAIN s
  BY StateOf, FieldsOf
<1>2. z.closed /\ z.rec = s.fr[f].rec /\ z.sealed = s.fr[f].sealed
  BY <1>1 DEF Frames
<1>3. u = [s EXCEPT !.fr[f].closed = TRUE]
  OBVIOUS
<1>4. u \in States(tree)
  BY <1>3, SetClosed
<1> HIDE DEF z
<1>5. fr[f] = z /\ \A g \in Heads(tree) \ {f} : fr[g] = s.fr[g]
  BY <1>1
<1> HIDE DEF fr
<1>6. u.ok = s.ok /\ u.fault = s.fault /\ u.cbs = s.cbs /\ u.log = s.log /\ u.fr = fr
  BY <1>1, FrameFields
<1> HIDE DEF u
<1> QED  BY <1>2, <1>3, <1>4, <1>5, <1>6

LEMMA GrowsBy ==
  ASSUME NEW m, NEW s \in States(tree), NEW t, NEW u, NEW D, NEW k \in Nat,
         Grows(m, s, t, D, 0), t.ok, Enqueued(m, t, u, k)
  PROVE  Grows(m, s, u, D, k)
<1> SUFFICES ASSUME u.ok PROVE \E d \in Amounts(m, D) : Times(u.log, m) = Times(s.log, m) + d + k
  BY DEF Grows
<1>1. PICK d \in Amounts(m, D) : Times(t.log, m) = Times(s.log, m) + d + 0
  BY DEF Grows
<1>2. Times(u.log, m) = Times(t.log, m) + k
  BY DEF Enqueued
<1>3. d \in Nat /\ Times(s.log, m) \in Nat
  <2>1. s.log \in Seq(Entries)
    BY StateOf
  <2>2. Times(s.log, m) \in Nat
    BY <2>1, TimesOf
  <2> QED  BY <2>2 DEF Amounts
<1> QED  BY <1>1, <1>2, <1>3

\* What is owed is enqueued as the span ends.
LEMMA SpannedEnds ==
  ASSUME NEW m, NEW A, NEW ec, ec.f \in Heads(tree), NEW s \in States(tree), ec.cb = "lend" => s.cbs[ec.f] # None,
         NEW t, NEW u, NEW D, NEW P, Spanned(m, A, ec, s, t, D, P, 0), t.ok,
         Enqueued(m, t, u, Owes(m, ec, s, P)), Apart({ec.f}, t, u), u.ok => u.fr[ec.f].closed,
         ec.cb = "lend" => u.cbs[ec.f] = t.cbs[ec.f],
         ec.cb = "build" => u.cbs[ec.f] = None \/ Times(u.cbs[ec.f].rec, m) = Times(s.fr[ec.f].rec, m) + Is(m, P),
         ec.cb = "build" /\ u.ok => u.fr[ec.f].sealed \/ u.fr[ec.f].rec = <<>>
  PROVE  Spanned(m, A, ec, s, u, D, P, 1)
<1>1. Steady(s, u)
  <2>1. Steady(t, u)
    BY DEF Enqueued, Steady
  <2> QED  BY <2>1, SteadyThen DEF Spanned
<1>2. Apart(A \cup {ec.f}, s, u)
  BY DEF Spanned, Apart
<1>3. AllFit(m, A \ {ec.f}, u)
  BY DEF Spanned, Apart, AllFit, Fit
<1>4. ec.cb = "lend" => Lends(m, ec, s, u, P, 1)
  BY DEF Spanned, Lends
<1>5. ec.cb = "build" => Builds(m, ec, s, u, P, 1)
  BY DEF Spanned, Builds
<1> DEFINE k == Owes(m, ec, s, P)
<1>6. k \in Nat /\ Grows(m, s, t, D, 0) /\ Enqueued(m, t, u, k)
  BY OwesOf DEF Spanned
<1> HIDE DEF k
<1>7. Grows(m, s, u, D, k)
  BY <1>6, GrowsBy
<1> QED  BY <1>1, <1>2, <1>3, <1>4, <1>5, <1>7 DEF Spanned, k

\* A span closes at the first operation that cannot be recorded, if it has not before.
LEMMA CloseSpanTimes ==
  ASSUME NEW m \in Nat \ {0}, NEW A, NEW ec, ec.f \in Heads(tree), ec.cb \in {"build", "lend"}, NEW s \in States(tree),
         ec.cb = "lend" => s.cbs[ec.f] # None, NEW t \in States(tree), NEW D, NEW P, NEW cut, cut = 0 \/ cut = 1,
         Spanned(m, A, ec, s, t, D, P, cut), t.ok, NEW source
  PROVE  Spanned(m, A, ec, s, CloseSpan(source, ec, t), D, P, 1)
<1> DEFINE f == ec.f
           c == [t EXCEPT !.fr[f].closed = TRUE]
           cmds == t.cbs[f].rec
           ext == t.fr[f].ext
           e == EnqueueCb(c, cmds, ext)
           b == Seal(c, f)
           u == CloseSpan(source, ec, t)
<1>1. u = IF t.fr[f].closed THEN t
          ELSE IF ec.cb = "lend" THEN Stamped(e, source)
          ELSE IF t.fr[f].rec = <<>> THEN c
          ELSE Stamped(b, source)
  BY DEF CloseSpan
<1>2. /\ c \in States(tree) /\ c.ok = t.ok /\ c.fault = t.fault /\ c.log = t.log /\ c.cbs = t.cbs
      /\ c.fr[f].closed /\ c.fr[f].rec = t.fr[f].rec /\ c.fr[f].sealed = t.fr[f].sealed
      /\ \A g \in Heads(tree) \ {f} : c.fr[g] = t.fr[g]
  BY ClosedIs
<1> HIDE DEF u, c
<1>3. t.fr[f].closed <=> cut = 1
  BY DEF Spanned, Lends, Builds
<1>4. CASE cut = 1
  <2>1. u = t
    BY <1>1, <1>3, <1>4
  <2> QED  BY <1>4, <2>1 DEF u
<1>5. CASE cut = 0 /\ ec.cb = "lend"
  <2>1. u = Stamped(e, source)
    BY <1>1, <1>3, <1>5
  <2>2. t.cbs[f] = s.cbs[f]
    BY <1>5 DEF Spanned, Lends
  <2>3. cmds \in Seq(Recorded) /\ ext \in SUBSET Nat
    <3>1. t.cbs[f] \in Baked /\ t.fr[f] \in Frames
      BY <1>5, <2>2, StateOf
    <3> QED  BY <3>1 DEF Baked, Frames
  <2>4. Times(cmds, m) = Owes(m, ec, s, P)
    BY <1>5, <2>2 DEF Owes
  <2> HIDE DEF cmds, ext, e
  <2>5. Enqueued(m, c, e, Times(cmds, m)) /\ e.cbs = c.cbs /\ e.fr = c.fr
    BY <1>2, <2>3, EnqueueCbTimes DEF e
  <2>6. Enqueued(m, t, e, Owes(m, ec, s, P))
    BY <1>2, <2>4, <2>5 DEF Enqueued, Harmless
  <2>7. Apart({f}, t, e) /\ e.fr[f].closed /\ e.cbs[f] = t.cbs[f]
    BY <1>2, <2>5 DEF Apart
  <2>8. ec.cb # "build"
    BY <1>5
  <2>9. Spanned(m, A, ec, s, e, D, P, 1)
    BY <1>5, <2>6, <2>7, <2>8, SpannedEnds
  <2>10. Still(e, Stamped(e, source))
    BY <2>5, FieldsOf, StillStamped DEF Enqueued
  <2>11. Still(s, s)
    BY FieldsOf DEF Still
  <2> QED  BY <2>1, <2>9, <2>10, <2>11, StillSpanned DEF u
<1>6. CASE cut = 0 /\ ec.cb = "build"
  <2> HIDE DEF e
  <2>1. Times(t.fr[f].rec, m) = Owes(m, ec, s, P) /\ t.cbs[f] = None /\ ec.cb # "lend"
    BY <1>6 DEF Spanned, Builds, Owes
  <2>2. Owes(m, ec, s, P) = Times(s.fr[f].rec, m) + Is(m, P)
    BY <1>6 DEF Owes
  <2>3. CASE t.fr[f].rec = <<>>
    <3>1. u = c
      BY <1>1, <1>3, <1>6, <2>3
    <3>2. Times(t.log, m) \in Nat /\ Times(<<>>, m) = 0
      BY StateOf, TimesOf
    <3>3. Enqueued(m, t, c, Owes(m, ec, s, P))
      BY <1>2, <2>1, <2>3, <3>2 DEF Enqueued
    <3>4. Apart({f}, t, c) /\ c.fr[f].closed /\ c.cbs[f] = None /\ c.fr[f].rec = <<>>
      BY <1>2, <2>1, <2>3 DEF Apart
    <3>5. Spanned(m, A, ec, s, c, D, P, 1)
      BY <1>6, <2>1, <3>3, <3>4, SpannedEnds
    <3> QED  BY <3>1, <3>5 DEF u
  <2>4. CASE t.fr[f].rec # <<>>
    <3> DEFINE k == Times(c.fr[f].rec, m)
    <3>1. u = Stamped(b, source)
      BY <1>1, <1>3, <1>6, <2>4
    <3>2. /\ Enqueued(m, c, b, k) /\ Sealed(f, c, b)
          /\ \A g \in Heads(tree) \ {f} : b.cbs[g] = c.cbs[g]
          /\ b.cbs[f] = c.cbs[f] \/ b.cbs[f].rec = c.fr[f].rec
      BY <1>2, SealTimes
    <3>3. k = Owes(m, ec, s, P)
      BY <1>2, <2>1
    <3> HIDE DEF b, k
    <3>4. Enqueued(m, t, b, Owes(m, ec, s, P))
      BY <1>2, <3>2, <3>3 DEF Enqueued, Harmless
    <3>5. Apart({f}, t, b) /\ b.fr[f].closed /\ b.fr[f].sealed
      BY <1>2, <3>2 DEF Apart, Sealed
    <3>6. b.cbs[f] = None \/ Times(b.cbs[f].rec, m) = Times(s.fr[f].rec, m) + Is(m, P)
      BY <1>2, <2>1, <2>2, <3>2, <3>3 DEF k
    <3>7. Spanned(m, A, ec, s, b, D, P, 1)
      BY <1>6, <2>1, <3>4, <3>5, <3>6, SpannedEnds
    <3>8. Still(b, Stamped(b, source))
      BY <3>2, FieldsOf, StillStamped DEF Enqueued
    <3>9. Still(s, s)
      BY FieldsOf DEF Still
    <3> QED  BY <3>1, <3>7, <3>8, <3>9, StillSpanned DEF u
  <2> QED  BY <2>3, <2>4
<1> QED  BY <1>4, <1>5, <1>6

-----------------------------------------------------------------------------
(* The contract of a node                                                  *)

LEMMA TimesNone ==
  ASSUME NEW m
  PROVE  Times(<<>>, m) = 0
<1>1. <<>> \in Seq(Entries)
  OBVIOUS
<1> QED  BY <1>1, TimesOf

LEMMA PoisedFits ==
  ASSUME NEW m, NEW n, NEW ec, NEW s, Poised(m, n, ec, s)
  PROVE  /\ AllFit(m, Under(tree, n) \ {ec.f}, s) /\ s \in States(tree) /\ s.ok
         /\ ec.cb # "off" => ec.cb \in {"build", "lend"} /\ ec.f \in Heads(tree)
         /\ ec.cb = "lend" => s.cbs[ec.f] # None
BY DEF Poised, Asked, AllFit, Contexts

\* Outside a frame nothing is left out.
LEMMA PoisedOff ==
  ASSUME Graph(tree), NEW m, NEW n, NEW ec, NEW s, Poised(m, n, ec, s), ec.cb = "off"
  PROVE  AllFit(m, Under(tree, n), s) /\ \A g \in Heads(tree) \cap Under(tree, n) : s.fr[g] = Frame
<1>1. 0 \notin Heads(tree)
  BY DEF Heads, Graph
<1> QED  BY <1>1 DEF Poised, AllFit

\* A command buffer that is kept enqueues what its frame has recorded.
LEMMA SpanPaid ==
  ASSUME Graph(tree), NEW n \in DOMAIN tree, NEW m, NEW s \in States(tree), NEW u,
         Grows(m, s, u, Below(n) \ Span(n), Is(m, Span(n)))
  PROVE  Grows(m, s, u, Below(n), 0)
<1> SUFFICES ASSUME u.ok PROVE \E d \in Amounts(m, Below(n)) : Times(u.log, m) = Times(s.log, m) + d + 0
  BY DEF Grows
<1> DEFINE A == Below(n) \ Span(n)
           B == Span(n)
           b == Is(m, B)
<1>1. PICK a \in Amounts(m, A) : Times(u.log, m) = Times(s.log, m) + a + b
  BY DEF Grows
<1>2. A \cup B = Below(n) /\ A \cap B = {}
  BY SpanWithin
<1>3. b \in Amounts(m, B)
  BY DEF Is, Amounts
<1> HIDE DEF A, B, b
<1>4. a + b \in Amounts(m, A \cup B) /\ a \in Nat /\ b \in Nat
  BY <1>2, <1>3, AmountsOf
<1>5. Times(s.log, m) \in Nat
  <2>1. s.log \in Seq(Entries)
    BY StateOf
  <2> QED  BY <2>1, TimesOf
<1> DEFINE d == a + b
<1>6. Times(u.log, m) = Times(s.log, m) + d + 0
  BY <1>1, <1>4, <1>5
<1> HIDE DEF d
<1>7. d \in Amounts(m, Below(n))
  BY <1>2, <1>4 DEF d
<1> QED  BY <1>6, <1>7

\* A boundary walks its node in a frame of its own, which no one has used.
LEMMA BoundaryPoised ==
  ASSUME Graph(tree), NEW m, NEW n \in Heads(tree), NEW ec, NEW s, Poised(m, n, ec, s), ec.cb = "off"
  PROVE  LET b == BoundaryWalk(n, s) IN
         /\ Poised(m, n, b, s) /\ n \in Under(tree, n) /\ s.fr[n] = Frame
         /\ b.cb # "off" => b.f = n
<1> DEFINE b == BoundaryWalk(n, s)
<1>1. n \in DOMAIN tree /\ n \in Under(tree, n) /\ n \in Nat
  <2>1. n \in DOMAIN tree
    BY DEF Heads
  <2> QED  BY <2>1, UnderOf DEF Graph
<1>2. AllFit(m, Under(tree, n), s) /\ \A g \in Heads(tree) \cap Under(tree, n) : s.fr[g] = Frame
  BY PoisedOff
<1>3. s.fr[n] = Frame
  BY <1>1, <1>2
<1>4. Asked(n, b, s)
  BY BoundaryAsked DEF Poised
<1>5. \/ s.cbs[n] # None /\ b = Walk("lend", n)
      \/ s.cbs[n] = None /\ b = Suppressed(n)
      \/ s.cbs[n] = None /\ b = Walk("build", n)
  BY DEF BoundaryWalk
<1>6. \A g \in Heads(tree) \cap Under(tree, n) : g # b.f => s.fr[g] = Frame /\ Fit(s, g, m)
  BY <1>2 DEF AllFit
<1>7. ~Frame.closed /\ ~Frame.sealed
  BY DEF Frame
<1>8. CASE s.cbs[n] # None /\ b = Walk("lend", n)
  <2>1. b.cb = "lend" /\ b.f = n
    BY <1>8 DEF Walk
  <2> HIDE DEF b
  <2>2. Open(b, s)
    BY <1>3, <1>7, <2>1 DEF Open
  <2> QED  BY <1>1, <1>3, <1>4, <1>6, <2>1, <2>2 DEF b, Poised
<1>9. CASE s.cbs[n] = None /\ b = Suppressed(n)
  <2>1. b.cb = "off" /\ b.f = 0
    BY <1>9 DEF Suppressed, Off
  <2> HIDE DEF b
  <2> QED  BY <1>1, <1>3, <1>4, <1>6, <2>1 DEF b, Poised
<1>10. CASE s.cbs[n] = None /\ b = Walk("build", n)
  <2>1. b.cb = "build" /\ b.f = n
    BY <1>10 DEF Walk
  <2> HIDE DEF b
  <2>2. Open(b, s)
    BY <1>3, <1>7, <1>10, <2>1 DEF Open
  <2> QED  BY <1>1, <1>3, <1>4, <1>6, <2>1, <2>2 DEF b, Poised
<1> QED  BY <1>5, <1>8, <1>9, <1>10

\* A kept command buffer is for what its frame recorded.
LEMMA FitsOwn ==
  ASSUME NEW m, NEW n \in Heads(tree), n \in Under(tree, n), NEW s, NEW u, AllFit(m, Under(tree, n) \ {n}, u), Fit(u, n, m)
  PROVE  AllFit(m, Under(tree, n), u)
BY DEF AllFit

\* A boundary that walks its node in its frame is one walk outside any.
LEMMA BoundaryTallies ==
  ASSUME Graph(tree), NEW m \in Nat \ {0}, NEW n \in Heads(tree), NEW ec, NEW s, Poised(m, n, ec, s), ec.cb = "off",
         NEW u \in States(tree), NEW z,
         LET b == BoundaryWalk(n, s) IN Tallied(m, n, b, s, u) /\ Finish(n, b, u, z)
  PROVE  Loose(m, Under(tree, n), s, z, Below(n))
<1> DEFINE b == BoundaryWalk(n, s)
           R == Under(tree, n)
           P == Span(n)
           D == Below(n) \ P
           cut == Cut(n)
           e == Ends(n, b, u)
<1>0. Tallied(m, n, b, s, u) /\ Finish(n, b, u, z) /\ n \in DOMAIN tree
  BY DEF Heads
<1>1. /\ Poised(m, n, b, s) /\ n \in R /\ s.fr[n] = Frame
      /\ b.cb # "off" => b.f = n
  BY BoundaryPoised
<1>2. /\ s \in States(tree) /\ AllFit(m, R, s)
      /\ b.cb # "off" => b.cb \in {"build", "lend"}
      /\ b.cb = "lend" => s.cbs[n] # None
  <2>1. AllFit(m, R, s)
    BY PoisedOff
  <2> HIDE DEF b
  <2>2. s \in States(tree) /\ (b.cb # "off" => b.cb \in {"build", "lend"}) /\ (b.cb = "lend" => s.cbs[b.f] # None)
    BY <1>1, PoisedFits
  <2>3. b.cb = "lend" => s.cbs[n] # None
    BY <1>1, <2>2
  <2> QED  BY <2>1, <2>2, <2>3
<1> HIDE DEF b
<1>3. cut \in {0, 1}
  BY <1>0, SpanWithin
<1>4. Still(s, s)
  BY <1>2, FieldsOf DEF Still
<1>5. CASE b.cb = "off"
  <2>1. Loose(m, R, s, u, Below(n))
    BY <1>0, <1>5 DEF Tallied
  <2>2. Still(u, z)
    BY <1>0, <1>5 DEF Finish
  <2> QED  BY <1>4, <2>1, <2>2, StillLoose
<1>6. ASSUME b.cb # "off"
      PROVE  /\ Steady(s, u) /\ Apart(R, s, u) /\ AllFit(m, R, u) /\ Owes(m, b, s, P) = Is(m, P)
             /\ Spanned(m, R, b, s, u, D, P, cut) /\ Times(s.fr[n].rec, m) = 0
  <2>1. Spanned(m, R, b, s, u, D, P, cut) /\ b.f = n /\ b.cb \in {"build", "lend"}
    BY <1>0, <1>1, <1>2, <1>6 DEF Tallied
  <2>2. Times(s.fr[n].rec, m) = 0 /\ Is(m, P) \in Nat
    <3>1. s.fr[n].rec = <<>>
      BY <1>1 DEF Frame
    <3>2. Times(<<>>, m) = 0
      BY TimesNone
    <3> QED  BY <3>1, <3>2 DEF Is
  <2>3. Owes(m, b, s, P) = Is(m, P)
    <3>1. CASE b.cb = "lend"
      BY <1>1, <1>2, <2>1, <3>1 DEF Owes, AllFit, Fit
    <3>2. CASE b.cb = "build"
      BY <2>1, <2>2, <3>2 DEF Owes
    <3> QED  BY <2>1, <3>1, <3>2
  <2>4. Fit(u, n, m)
    <3>1. CASE b.cb = "lend"
      <4>1. u.cbs[n] = s.cbs[n]
        BY <2>1, <3>1 DEF Spanned, Lends
      <4> QED  BY <1>1, <1>2, <4>1 DEF AllFit, Fit
    <3>2. CASE b.cb = "build"
      <4>1. u.cbs[n] = None \/ Times(u.cbs[n].rec, m) = Times(s.fr[n].rec, m) + Is(m, P)
        BY <2>1, <3>2 DEF Spanned, Builds
      <4> QED  BY <2>2, <4>1 DEF Fit
    <3> QED  BY <2>1, <3>1, <3>2
  <2>5. AllFit(m, R \ {n}, u)
    BY <2>1 DEF Spanned
  <2>6. AllFit(m, R, u)
    BY <1>1, <2>4, <2>5, FitsOwn
  <2>7. Steady(s, u) /\ Apart(R, s, u)
    <3>1. R \cup {n} = R
      BY <1>1
    <3> QED  BY <2>1, <3>1 DEF Spanned
  <2> QED  BY <2>1, <2>2, <2>3, <2>6, <2>7
<1>7. CASE b.cb # "off" /\ ~u.ok
  <2>1. Loose(m, R, s, u, Below(n))
    BY <1>6, <1>7 DEF Loose, Grows
  <2>2. Still(u, z)
    BY <1>0, <1>7 DEF Finish
  <2> QED  BY <1>4, <2>1, <2>2, StillLoose
<1>8. CASE b.cb # "off" /\ u.ok /\ ~Enqueues(n, b, u)
  <2>1. Spanned(m, R, b, s, u, D, P, cut) /\ b.f = n /\ Owes(m, b, s, P) = Is(m, P)
    BY <1>1, <1>6, <1>8
  <2>2. Grows(m, s, u, D, Is(m, P))
    <3>1. CASE cut = 1
      BY <2>1, <3>1 DEF Spanned
    <3>2. CASE cut = 0
      <4>1. b.cb = "build" /\ ~u.fr[n].sealed /\ Times(u.fr[n].rec, m) = Times(s.fr[n].rec, m) + Is(m, P)
        BY <1>2, <1>8, <2>1, <3>2 DEF Spanned, Lends, Builds, Enqueues
      <4>2. u.fr[n].rec = <<>>
        BY <1>8, <4>1 DEF Enqueues
      <4>3. Times(<<>>, m) = 0 /\ Is(m, P) \in Nat
        BY TimesNone DEF Is
      <4>4. Is(m, P) = 0
        BY <1>6, <1>8, <4>1, <4>2, <4>3
      <4>5. Grows(m, s, u, D, 0)
        BY <2>1, <3>2 DEF Spanned
      <4> QED  BY <4>4, <4>5
    <3> QED  BY <1>3, <3>1, <3>2
  <2>3. Grows(m, s, u, Below(n), 0)
    BY <1>0, <1>2, <2>2, SpanPaid
  <2>4. Loose(m, R, s, u, Below(n))
    BY <1>6, <1>8, <2>3 DEF Loose
  <2>5. Still(u, z)
    BY <1>0, <1>8 DEF Finish
  <2> QED  BY <1>4, <2>4, <2>5, StillLoose
<1>9. CASE b.cb # "off" /\ u.ok /\ Enqueues(n, b, u)
  <2>1. Spanned(m, R, b, s, u, D, P, cut) /\ b.f = n /\ Owes(m, b, s, P) = Is(m, P)
    BY <1>1, <1>6, <1>9
  <2>2. cut = 0 /\ Grows(m, s, u, D, 0)
    <3>1. cut # 1
      BY <1>2, <1>9, <2>1 DEF Spanned, Lends, Builds, Enqueues
    <3>2. cut = 0
      BY <1>3, <3>1
    <3> QED  BY <2>1, <3>2 DEF Spanned
  <2>3. Is(m, P) \in Nat
    BY DEF Is
  <2>4. Enqueued(m, u, e, Is(m, P)) /\ Apart({n}, u, e) /\ Fit(e, n, m)
    <3>1. CASE b.cb = "lend"
      <4> DEFINE cmds == u.cbs[n].rec
                 ext == u.fr[n].ext
      <4>1. e = EnqueueCb(u, cmds, ext)
        BY <3>1 DEF Ends
      <4>2. u.cbs[n] = s.cbs[n] /\ s.cbs[n] # None
        BY <1>2, <2>1, <3>1 DEF Spanned, Lends
      <4>3. cmds \in Seq(Recorded) /\ ext \in SUBSET Nat
        <5>1. u.cbs[n] \in Baked /\ u.fr[n] \in Frames
          BY <4>2, StateOf
        <5> QED  BY <5>1 DEF Baked, Frames
      <4>4. Times(cmds, m) = Is(m, P)
        BY <1>1, <1>2, <4>2 DEF AllFit, Fit
      <4> HIDE DEF cmds, ext, e
      <4>5. Enqueued(m, u, e, Times(cmds, m)) /\ e.cbs = u.cbs /\ e.fr = u.fr
        BY <4>1, <4>3, EnqueueCbTimes
      <4>6. Apart({n}, u, e)
        BY <4>5 DEF Apart
      <4>7. Fit(u, n, m)
        BY <1>1, <1>6, <1>9 DEF AllFit
      <4> QED  BY <4>4, <4>5, <4>6, <4>7 DEF Fit
    <3>2. CASE b.cb = "build"
      <4> DEFINE k == Times(u.fr[n].rec, m)
      <4>1. e = Seal(u, n)
        BY <3>2 DEF Ends
      <4>2. k = Times(s.fr[n].rec, m) + Is(m, P) /\ u.cbs[n] = None
        BY <1>9, <2>1, <2>2, <3>2 DEF Spanned, Builds
      <4>3. k = Is(m, P)
        BY <1>6, <1>9, <2>3, <4>2
      <4> HIDE DEF e
      <4>4. /\ Enqueued(m, u, e, k) /\ Sealed(n, u, e)
            /\ \A g \in Heads(tree) \ {n} : e.cbs[g] = u.cbs[g]
            /\ e.cbs[n] = u.cbs[n] \/ e.cbs[n].rec = u.fr[n].rec
        BY <4>1, SealTimes
      <4>5. Apart({n}, u, e)
        BY <4>4 DEF Apart, Sealed
      <4>6. Fit(e, n, m)
        BY <4>2, <4>3, <4>4 DEF Fit
      <4> QED  BY <4>3, <4>4, <4>5, <4>6
    <3> QED  BY <1>2, <1>9, <3>1, <3>2
  <2> HIDE DEF e
  <2>5. Grows(m, s, e, D, Is(m, P))
    BY <1>2, <1>9, <2>2, <2>3, <2>4, GrowsBy
  <2>6. Grows(m, s, e, Below(n), 0)
    BY <1>0, <1>2, <2>5, SpanPaid
  <2>7. Steady(s, e)
    <3>1. Steady(u, e)
      BY <2>4 DEF Enqueued, Steady
    <3> QED  BY <1>6, <1>9, <3>1, SteadyThen
  <2>8. Apart(R, s, e)
    BY <1>1, <1>6, <1>9, <2>4 DEF Apart
  <2>9. AllFit(m, R, e)
    <3>1. \A g \in Heads(tree) \ {n} : e.cbs[g] = u.cbs[g]
      BY <2>4 DEF Apart
    <3>2. AllFit(m, R \ {n}, e)
      BY <1>6, <1>9, <3>1 DEF AllFit, Fit
    <3> QED  BY <1>1, <2>4, <3>2, FitsOwn
  <2>10. Loose(m, R, s, e, Below(n))
    BY <2>6, <2>7, <2>8, <2>9 DEF Loose
  <2>11. Still(e, z)
    BY <1>0, <1>9 DEF Finish, e
  <2> QED  BY <1>4, <2>10, <2>11, StillLoose
<1> QED  BY <1>5, <1>7, <1>8, <1>9

\* Both ends of a boundary are such.
LEMMA ExecFinish ==
  ASSUME NEW n, NEW ec, NEW u \in States(tree), Ends(n, ec, u) \in States(tree)
  PROVE  Finish(n, ec, u, EndExec(n, ec, u))
<1>1. Still(u, u)
  BY FieldsOf DEF Still
<1>2. Still(u, Restamp(u, n, u.fr[n].ext))
  BY FieldsOf, StillPut
<1>3. Still(Ends(n, ec, u), Stamped(Ends(n, ec, u), n))
  BY FieldsOf, StillStamped
<1> QED  BY <1>1, <1>2, <1>3 DEF EndExec, Finish

LEMMA GatherFinish ==
  ASSUME NEW n, NEW ec, NEW r, r.s \in States(tree), Ends(n, ec, r.s) \in States(tree)
  PROVE  Finish(n, ec, r.s, EndGather(n, ec, r).s)
<1> DEFINE e == Ends(n, ec, r.s)
<1>1. Still(r.s, r.s)
  BY FieldsOf DEF Still
<1>2. Still(e, Gathered(e, r.got).s)
  <2>1. Fields \subseteq DOMAIN e /\ Still(e, e)
    BY FieldsOf DEF Still
  <2> HIDE DEF e
  <2>2. CASE e.ok
    <3>1. Gathered(e, r.got).s = e
      BY <2>2, ResultOf DEF Gathered
    <3> QED  BY <2>1, <3>1
  <2>3. CASE ~e.ok
    <3> DEFINE l == Result(e, r.got, {})
    <3>1. l.s = e /\ l.got = r.got
      BY ResultOf
    <3> HIDE DEF l
    <3>2. Gathered(e, r.got) = Lost(l)
      BY <2>3 DEF Gathered, l
    <3>3. Lost(l).s = RehomeAll(e, r.got)
      BY <3>1, ResultOf DEF Lost
    <3>4. Still(e, RehomeAll(e, r.got))
      BY <2>1, StillHomes
    <3> QED  BY <3>2, <3>3, <3>4
  <2> QED  BY <2>2, <2>3
<1> HIDE DEF e
<1> QED  BY <1>1, <1>2 DEF EndGather, Finish, e

-----------------------------------------------------------------------------
(* Two in sequence                                                         *)

LEMMA StillQuiet ==
  ASSUME NEW m, NEW s, NEW u, Still(s, u)
  PROVE  Quiet(m, s, u)
BY DEF Still, Quiet

LEMMA StoppedQuiet ==
  ASSUME NEW m, NEW s \in States(tree), ~Harmless(s)
  PROVE  Quiet(m, s, Failed(s)) /\ Failed(s) \in States(tree)
<1>1. Fields \subseteq DOMAIN s /\ Failed(s) \in States(tree)
  BY FieldsOf, FailedOf
<1> DEFINE u == [s EXCEPT !.ok = FALSE]
<1>2. u.ok = FALSE /\ u.fault = s.fault /\ u.cbs = s.cbs /\ u.fr = s.fr /\ u.log = s.log
  BY <1>1 DEF Fields
<1> HIDE DEF u
<1> QED  BY <1>1, <1>2 DEF Quiet, Failed, u

LEMMA QuietLoose ==
  ASSUME NEW m, NEW R, NEW s, NEW t, NEW u, NEW v, NEW D, Quiet(m, s, t), Loose(m, R, t, u, D), Quiet(m, u, v)
  PROVE  Loose(m, R, s, v, D)
BY DEF Quiet, Loose, Steady, Harmless, Apart, AllFit, Fit, Grows

LEMMA StoppedLoose ==
  ASSUME NEW m, NEW R, NEW s \in States(tree), AllFit(m, R, s), NEW D, ~Harmless(s), Quiet(m, s, Failed(s))
  PROVE  Loose(m, R, s, Failed(s), D)
<1>1. Failed(s).ok = FALSE
  BY FailedOf
<1> QED  BY <1>1 DEF Quiet, Loose, Steady, Apart, AllFit, Fit, Grows

LEMMA QuietSpanned ==
  ASSUME NEW m, NEW R, NEW ec, NEW s, NEW u, NEW v, NEW D, NEW P, NEW cut,
         Spanned(m, R, ec, s, u, D, P, cut), Quiet(m, u, v)
  PROVE  Spanned(m, R, ec, s, v, D, P, cut)
<1>1. /\ v.fault = u.fault /\ (v.ok => u.ok) /\ (Harmless(u) /\ u.ok => v.ok)
      /\ Times(v.log, m) = Times(u.log, m) /\ v.cbs = u.cbs /\ v.fr = u.fr
  BY DEF Quiet
<1>2. Steady(s, v) /\ Apart(R \cup {ec.f}, s, v) /\ AllFit(m, R \ {ec.f}, v)
  BY <1>1 DEF Spanned, Steady, Harmless, Apart, AllFit, Fit
<1>3. ec.cb = "lend" => Lends(m, ec, s, v, P, cut)
  BY <1>1 DEF Spanned, Lends
<1>4. ec.cb = "build" => Builds(m, ec, s, v, P, cut)
  BY <1>1 DEF Spanned, Builds
<1>5. cut = 0 => Grows(m, s, v, D, 0)
  BY <1>1 DEF Spanned, Grows
<1>6. cut = 1 => Grows(m, s, v, D, Owes(m, ec, s, P))
  BY <1>1 DEF Spanned, Grows
<1> QED  BY <1>2, <1>3, <1>4, <1>5, <1>6 DEF Spanned

LEMMA QuietTallied ==
  ASSUME NEW m, NEW n, NEW ec, NEW s, NEW u, NEW v, Tallied(m, n, ec, s, u), Quiet(m, u, v)
  PROVE  Tallied(m, n, ec, s, v)
<1>1. Quiet(m, s, s)
  BY DEF Quiet
<1> QED  BY <1>1, QuietLoose, QuietSpanned DEF Tallied

\* A kid is asked in the frame of its parent or outside, when the frames of
\* other kids may have been used.
LEMMA KidPoised ==
  ASSUME Graph(tree), NEW m, NEW n \in DOMAIN tree, NEW ec, NEW s, Poised(m, n, ec, s),
         NEW c \in 1..(n - 1), Under(tree, c) \subseteq Under(tree, n),
         NEW R, R \cap Under(tree, c) = {}, NEW t, Apart(R \cup {ec.f}, s, t),
         NEW e, Asked(c, e, t), e.cb = "off" => e.f = 0, e.cb # "off" => e = ec /\ Open(ec, t)
  PROVE  Poised(m, c, e, t)
<1>0. n \in Nat /\ n >= 1 /\ DOMAIN tree = 1..Len(tree) /\ Len(tree) \in Nat /\ c \in DOMAIN tree
  BY DEF Graph
<1>1. Under(tree, c) \subseteq 1..c
  BY <1>0, UnderOf DEF Under
<1>2. ec.f \in Nat
  BY <1>0 DEF Poised, Asked, Contexts
<1>3. ASSUME NEW g \in Heads(tree) \cap Under(tree, c)
      PROVE  t.fr[g] = Frame /\ Fit(t, g, m)
  <2>1. g \in 1..c /\ g \in Under(tree, n)
    BY <1>1
  <2>2. g # ec.f
    BY <1>0, <1>2, <2>1 DEF Poised
  <2>3. s.fr[g] = Frame /\ Fit(s, g, m)
    BY <2>1, <2>2 DEF Poised
  <2>4. t.fr[g] = s.fr[g] /\ t.cbs[g] = s.cbs[g]
    BY <2>2 DEF Apart
  <2> QED  BY <2>3, <2>4 DEF Fit
<1>4. e.cb # "off" => e.f >= c /\ Open(e, t)
  <2>1. ec.cb # "off" => ec.f >= n
    BY DEF Poised
  <2> QED  BY <1>0, <1>2, <2>1
<1> QED  BY <1>3, <1>4 DEF Poised

\* A kid that keeps the contract, called through its boundary.
LEMMA ChildTallies ==
  ASSUME Graph(tree), NEW m \in Nat \ {0}, NEW n, NEW v, Obeys(v, n), Tallies(m, v, n),
         NEW ec, NEW mode \in Modes, NEW s, Poised(m, n, ec, s)
  PROVE  /\ Tallied(m, n, ec, s, ExecChild(n, v, ec, mode, s))
         /\ Tallied(m, n, ec, s, GatherChild(n, v, ec, mode, s).s)
<1> DEFINE b == BoundaryWalk(n, s)
<1>1. Outside(ec, s) = ec
  <2>1. ~SpanClosed(ec, s)
    BY DEF SpanClosed, Poised, Open
  <2> QED  BY <2>1 DEF Outside
<1>2. CASE ~OpensBoundary(n, ec, s)
  <2>1. ExecChild(n, v, ec, mode, s) = Exec(v, ec, mode, s) /\ GatherChild(n, v, ec, mode, s) = Gather(v, ec, mode, s)
    BY <1>1, <1>2 DEF ExecChild, GatherChild
  <2> QED  BY <2>1 DEF Tallies
<1>3. CASE OpensBoundary(n, ec, s)
  <2> DEFINE u == Exec(v, b, mode, s)
             r == Gather(v, b, mode, s)
             x == EndExec(n, b, u)
             y == EndGather(n, b, r)
  <2>1. n \in Heads(tree) /\ ec.cb = "off"
    BY <1>3 DEF OpensBoundary
  <2>2. ExecChild(n, v, ec, mode, s) = x /\ GatherChild(n, v, ec, mode, s) = y
    BY <1>1, <1>3 DEF ExecChild, GatherChild, BoundaryExec, BoundaryGather
  <2>3. Asked(n, b, s) /\ (b.cb = "lend" => s.cbs[n] # None)
    BY <2>1, BoundaryAsked DEF Poised
  <2>4. Poised(m, n, b, s)
    BY <2>1, BoundaryPoised
  <2> HIDE DEF b
  <2>5. Tallied(m, n, b, s, u) /\ Tallied(m, n, b, s, r.s)
    BY <2>4 DEF Tallies
  <2>6. Executes(n, s, u) /\ Gathers(n, s, r)
    BY <2>3 DEF Obeys
  <2> HIDE DEF u, r
  <2>7. /\ u \in States(tree) /\ r.s \in States(tree)
        /\ b.cb = "lend" => u.cbs[n] # None /\ r.s.cbs[n] # None
    BY <2>1, <2>3, <2>6 DEF Executes, Gathers, Kept
  <2>8. Ends(n, b, u) \in States(tree) /\ Ends(n, b, r.s) \in States(tree)
    BY <2>1, <2>7, EndsOf
  <2>9. Finish(n, b, u, x) /\ Finish(n, b, r.s, y.s)
    BY <2>7, <2>8, ExecFinish, GatherFinish
  <2> HIDE DEF x, y
  <2>10. Loose(m, Under(tree, n), s, x, Below(n)) /\ Loose(m, Under(tree, n), s, y.s, Below(n))
    BY <2>1, <2>5, <2>7, <2>9, BoundaryTallies DEF b
  <2> QED  BY <2>1, <2>2, <2>10 DEF Tallied
<1> QED  BY <1>2, <1>3

\* Where the span of a frame is closed, a kid is called as outside it.
LEMMA ChildOutside ==
  ASSUME NEW n, NEW v, NEW ec, NEW mode, NEW s, ec.cb # "off", s.fr[ec.f].closed
  PROVE  /\ ExecChild(n, v, ec, mode, s) = ExecChild(n, v, Off, mode, s)
         /\ GatherChild(n, v, ec, mode, s) = GatherChild(n, v, Off, mode, s)
<1>1. Outside(ec, s) = Off
  BY DEF Outside, SpanClosed
<1>2. Outside(Off, s) = Off
  BY DEF Outside, SpanClosed, Off
<1> QED  BY <1>1, <1>2 DEF ExecChild, GatherChild

LEMMA PairSpans ==
  ASSUME Graph(tree), NEW n, Pair(n)
  PROVE  LET a == Source(tree, n)
             b == Follow(tree, n)
             P == First1(n).in
         IN /\ P \subseteq Below(a) /\ First1(n).cut \in {0, 1} /\ (First1(n).cut = 1 => Ends1(n) = 1)
            /\ Below(n) = Below(a) \cup Below(b) /\ Below(a) \cap Below(b) = {}
            /\ Span(b) \subseteq Below(b) /\ Cut(b) \in {0, 1}
            /\ Ends1(n) = 1 => Span(n) = P /\ Cut(n) = 1
            /\ Ends1(n) # 1 => Span(n) = P \cup Span(b) /\ Cut(n) = Cut(b)
<1> DEFINE a == Source(tree, n)
           b == Follow(tree, n)
<1>1. n \in DOMAIN tree /\ tree[n].k \in {"then", "bundle"} /\ a \in DOMAIN tree /\ b \in DOMAIN tree
  BY PairOf DEF Pair
<1>2. Span(a) \subseteq Below(a) /\ Cut(a) \in {0, 1} /\ Span(b) \subseteq Below(b) /\ Cut(b) \in {0, 1}
  BY <1>1, SpanWithin
<1>3. Below(n) = Below(a) \cup Below(b) /\ Below(a) \cap Below(b) = {}
  BY <1>1, BelowOf
<1>4. First1(n).in \subseteq Below(a) /\ First1(n).cut \in {0, 1}
  BY <1>2 DEF First1, SpanSource, Alone, Span, Cut
<1>5. LET p == SpanPair(tree, n, First1(n), Spans(tree)[b]) IN Span(n) = p.in /\ Cut(n) = p.cut
  BY <1>1, SpansOf DEF First1
<1>6. SpanEnds(tree, n, First1(n)) => Span(n) = First1(n).in /\ Cut(n) = 1
  BY <1>5 DEF SpanPair
<1>7. ~SpanEnds(tree, n, First1(n)) => Span(n) = First1(n).in \cup Span(b) /\ Cut(n) = Cut(b)
  BY <1>5 DEF SpanPair, Span, Cut
<1>8. First1(n).cut = 1 => SpanEnds(tree, n, First1(n))
  BY DEF SpanEnds
<1> HIDE DEF a, b
<1> QED  BY <1>2, <1>3, <1>4, <1>6, <1>7, <1>8 DEF Ends1, a, b

\* A pair outside any frame, and a pair in one.
LEMMA PairLoose ==
  ASSUME Graph(tree), NEW m, NEW n, Pair(n), NEW ec, NEW s, Poised(m, n, ec, s), ec.cb = "off", NEW t, NEW u,
         Loose(m, Under(tree, Source(tree, n)), s, t, Below(Source(tree, n))), ~t.ok => Quiet(m, t, u),
         t.ok => Loose(m, Under(tree, Follow(tree, n)), t, u, Below(Follow(tree, n)))
  PROVE  Tallied(m, n, ec, s, u)
<1> DEFINE a == Source(tree, n)
           b == Follow(tree, n)
           A == Under(tree, a)
           B == Under(tree, b)
           R == Under(tree, n)
<1>1. A \cup B \subseteq R /\ A \cap B = {}
  BY UnderOf DEF Pair
<1>2. Below(n) = Below(a) \cup Below(b) /\ Below(a) \cap Below(b) = {}
  BY PairSpans
<1>3. s \in States(tree) /\ AllFit(m, R, s)
  BY PoisedFits, PoisedOff
<1>4. Loose(m, A, s, t, Below(a)) /\ (~t.ok => Quiet(m, t, u)) /\ (t.ok => Loose(m, B, t, u, Below(b)))
  OBVIOUS
<1> HIDE DEF a, b, A, B, R
<1>5. CASE t.ok
  <2>1. Loose(m, R, s, u, Below(a) \cup Below(b))
    BY <1>1, <1>2, <1>3, <1>4, <1>5, LooseThen
  <2> QED  BY <1>2, <2>1 DEF Tallied, R
<1>6. CASE ~t.ok
  <2>1. Loose(m, R, s, t, Below(n))
    BY <1>1, <1>3, <1>4, <1>6, LooseWider
  <2>2. Quiet(m, s, s)
    BY DEF Quiet
  <2>3. Loose(m, R, s, u, Below(n))
    BY <1>4, <1>6, <2>1, <2>2, QuietLoose
  <2> QED  BY <2>3 DEF Tallied, R
<1> QED  BY <1>5, <1>6

LEMMA PairSpanned ==
  ASSUME Graph(tree), NEW m, NEW n, Pair(n), NEW ec, NEW s, Poised(m, n, ec, s), ec.cb # "off",
         NEW t \in States(tree), NEW u,
         Spanned(m, Under(tree, Source(tree, n)), ec, s, t, Below(Source(tree, n)) \ First1(n).in, First1(n).in, Ends1(n)),
         ~t.ok => Quiet(m, t, u),
         t.ok /\ Ends1(n) = 1 => Loose(m, Under(tree, Follow(tree, n)), t, u, Below(Follow(tree, n))),
         t.ok /\ Ends1(n) # 1 =>
           Spanned(m, Under(tree, Follow(tree, n)), ec, t, u,
                   Below(Follow(tree, n)) \ Span(Follow(tree, n)), Span(Follow(tree, n)), Cut(Follow(tree, n)))
  PROVE  Tallied(m, n, ec, s, u)
<1> DEFINE a == Source(tree, n)
           b == Follow(tree, n)
           A == Under(tree, a)
           B == Under(tree, b)
           R == Under(tree, n)
           P == First1(n).in
           D == Below(a) \ P
           Q == Span(b)
           E == Below(b) \ Q
<1>1. n \in DOMAIN tree /\ A \cup B \subseteq R /\ A \cap B = {} /\ A \cup B \subseteq 1..(n - 1)
  <2>1. n \in DOMAIN tree /\ tree[n].k \in {"then", "bundle"}
    BY DEF Pair
  <2>2. A \cup B \subseteq R /\ A \cap B = {}
    BY <2>1, UnderOf
  <2>3. a \in DOMAIN tree /\ b \in DOMAIN tree /\ a \in 1..(n - 1) /\ b \in 1..(n - 1) /\ n \in Nat
    BY <2>1, NodesOf DEF Graph
  <2>4. A \subseteq 1..a /\ B \subseteq 1..b
    BY <2>3, UnderOf DEF Under
  <2> HIDE DEF a, b, A, B
  <2>5. 1..a \subseteq 1..(n - 1) /\ 1..b \subseteq 1..(n - 1)
    BY <2>3
  <2> QED  BY <2>1, <2>2, <2>4, <2>5
<1>2. /\ P \subseteq Below(a) /\ Below(n) = Below(a) \cup Below(b) /\ Below(a) \cap Below(b) = {} /\ Q \subseteq Below(b)
      /\ Cut(b) \in {0, 1} /\ (Ends1(n) = 1 => Span(n) = P /\ Cut(n) = 1)
      /\ (Ends1(n) # 1 => Span(n) = P \cup Q /\ Cut(n) = Cut(b))
  BY PairSpans
<1>3. /\ s \in States(tree) /\ AllFit(m, R \ {ec.f}, s) /\ ec.cb \in {"build", "lend"} /\ ec.f \in Heads(tree)
      /\ ec.cb = "lend" => s.cbs[ec.f] # None
  BY PoisedFits
<1>4. ec.f \notin A \cup B
  <2>1. ec.f >= n /\ n \in Nat
    BY <1>1 DEF Poised, Graph
  <2> HIDE DEF A, B
  <2> QED  BY <1>1, <2>1
<1>5. /\ Spanned(m, A, ec, s, t, D, P, Ends1(n)) /\ (~t.ok => Quiet(m, t, u))
      /\ t.ok /\ Ends1(n) = 1 => Loose(m, B, t, u, Below(b))
      /\ t.ok /\ Ends1(n) # 1 => Spanned(m, B, ec, t, u, E, Q, Cut(b))
  OBVIOUS
<1>6. Ends1(n) \in {0, 1}
  BY DEF Ends1
<1> DEFINE E2 == Below(b)
           end == Ends1(n)
           c == Cut(n)
           c2 == Cut(b)
           N == Below(n)
           S == Span(n)
           Z == N \ S
<1> HIDE DEF a, b, A, B, R, P, Q
<1>7. D \cap E2 = {} /\ D \cap E = {} /\ P \cap Q = {}
  BY <1>2
<1>8. /\ end = 1 => D \cup E2 = Z /\ S = P /\ c = 1
      /\ end # 1 => D \cup E = Z /\ S = P \cup Q /\ c = c2
      /\ c2 \in {0, 1} /\ c \in {0, 1}
  BY <1>2, <1>6
<1>12. /\ Spanned(m, A, ec, s, t, D, P, end) /\ (~t.ok => Quiet(m, t, u))
       /\ t.ok /\ end = 1 => Loose(m, B, t, u, E2)
       /\ t.ok /\ end # 1 => Spanned(m, B, ec, t, u, E, Q, c2)
  BY <1>5
<1>13. Spanned(m, R, ec, s, u, Z, S, c) => Tallied(m, n, ec, s, u)
  BY <1>3 DEF Tallied, R
<1> HIDE DEF D, E, E2, end, c, c2, N, S, Z
<1>14. A \subseteq R /\ A \cup B \subseteq R /\ A \cap B = {} /\ ec.f \notin A \cup B
  BY <1>1, <1>4
<1>15. end \in {0, 1}
  BY <1>6 DEF end
<1>9. CASE ~t.ok
  <2>1. (t.ok => Z = D /\ S = P /\ c = end) /\ (end = 1 => c = 1 /\ S = P)
    BY <1>8, <1>9
  <2>4. A \subseteq R /\ (end = 0 \/ end = 1) /\ (c = 0 \/ c = 1)
    BY <1>8, <1>14, <1>15
  <2>5. Spanned(m, A, ec, s, t, D, P, end)
    BY <1>12
  <2>6. AllFit(m, R \ {ec.f}, s)
    BY <1>3
  <2>2. Spanned(m, R, ec, s, t, Z, S, c)
    BY <2>1, <2>4, <2>5, <2>6, SpannedWider
  <2>3. Spanned(m, R, ec, s, u, Z, S, c)
    BY <1>9, <1>12, <2>2, QuietSpanned
  <2> QED  BY <1>13, <2>3
<1>10. CASE t.ok /\ end = 1
  <2>1. Spanned(m, A, ec, s, t, D, P, 1) /\ Loose(m, B, t, u, E2)
    BY <1>10, <1>12
  <2>2. Spanned(m, R, ec, s, u, D \cup E2, P, 1)
    BY <1>3, <1>7, <1>10, <1>14, <2>1, SpannedCut
  <2> QED  BY <1>8, <1>10, <1>13, <2>2
<1>11. CASE t.ok /\ end = 0
  <2>1. Spanned(m, A, ec, s, t, D, P, 0) /\ Spanned(m, B, ec, t, u, E, Q, c2)
    BY <1>11, <1>12
  <2>2. t \in States(tree) /\ t.ok /\ D \cap E = {} /\ P \cap Q = {} /\ (c2 = 0 \/ c2 = 1)
    BY <1>7, <1>8, <1>11
  <2>4. A \cup B \subseteq R /\ A \cap B = {} /\ ec.f \notin A \cup B
    BY <1>14
  <2>5. /\ s \in States(tree) /\ AllFit(m, R \ {ec.f}, s) /\ ec.cb \in {"build", "lend"} /\ ec.f \in Heads(tree)
        /\ ec.cb = "lend" => s.cbs[ec.f] # None
    BY <1>3
  <2>3. Spanned(m, R, ec, s, u, D \cup E, P \cup Q, c2)
    BY <2>1, <2>2, <2>4, <2>5, SpannedThen
  <2> QED  BY <1>8, <1>11, <1>13, <2>3
<1> QED  BY <1>9, <1>10, <1>11, <1>15

-----------------------------------------------------------------------------
(* A chain                                                                 *)

\* The kids of a pair, where it is asked.
LEMMA FirstPoised ==
  ASSUME Graph(tree), NEW m, NEW n, Pair(n), NEW ec, NEW s, Poised(m, n, ec, s)
  PROVE  Poised(m, Source(tree, n), ec, s) /\ Poised(m, Source(tree, n), Off, s)
<1> DEFINE a == Source(tree, n)
           R == {}
<1>1. /\ n \in DOMAIN tree /\ a \in 1..(n - 1) /\ Under(tree, a) \subseteq Under(tree, n)
  <2>1. n \in DOMAIN tree /\ tree[n].k \in {"then", "bundle"}
    BY DEF Pair
  <2>2. Under(tree, n) = Under(tree, a) \cup Under(tree, Follow(tree, n)) \cup {n}
    BY <2>1, UnderOf
  <2>3. a \in 1..(n - 1)
    BY <2>1, NodesOf
  <2> HIDE DEF a
  <2> QED  BY <2>1, <2>2, <2>3
<1>2. Asked(a, ec, s) /\ Asked(a, Off, s)
  <2>1. Asked(a, ec, s)
    BY FirstAsked DEF Poised
  <2> QED  BY <2>1, AskedOff
<1>3. R \cap Under(tree, a) = {} /\ Apart(R \cup {ec.f}, s, s)
  BY DEF Apart
<1>4. Off.cb = "off" /\ Off.f = 0
  BY DEF Off
<1>5. (ec.cb = "off" => ec.f = 0) /\ (ec.cb # "off" => ec = ec /\ Open(ec, s))
  BY DEF Poised
<1> HIDE DEF a, R
<1>6. Poised(m, a, ec, s)
  BY <1>1, <1>2, <1>3, <1>5, KidPoised
<1> DEFINE e == Off
<1>7. Asked(a, e, s) /\ (e.cb = "off" => e.f = 0) /\ (e.cb # "off" => e = ec /\ Open(ec, s))
  BY <1>2, <1>4
<1> HIDE DEF e
<1>8. Poised(m, a, e, s)
  BY <1>1, <1>3, <1>7, KidPoised
<1> QED  BY <1>6, <1>8 DEF a, e

LEMMA SecondPoised ==
  ASSUME Graph(tree), NEW m, NEW n, Pair(n), NEW ec, NEW s, Poised(m, n, ec, s),
         NEW t, Apart(Under(tree, Source(tree, n)) \cup {ec.f}, s, t)
  PROVE  /\ Asked(Follow(tree, n), Off, t) => Poised(m, Follow(tree, n), Off, t)
         /\ Asked(Follow(tree, n), ec, t) /\ (ec.cb # "off" => Open(ec, t)) => Poised(m, Follow(tree, n), ec, t)
<1> DEFINE b == Follow(tree, n)
           R == Under(tree, Source(tree, n))
<1>1. n \in DOMAIN tree /\ b \in 1..(n - 1) /\ Under(tree, b) \subseteq Under(tree, n) /\ R \cap Under(tree, b) = {}
  <2>1. n \in DOMAIN tree /\ tree[n].k \in {"then", "bundle"}
    BY DEF Pair
  <2>2. Under(tree, n) = R \cup Under(tree, b) \cup {n} /\ R \cap Under(tree, b) = {}
    BY <2>1, UnderOf
  <2>3. b \in 1..(n - 1)
    BY <2>1, NodesOf
  <2> HIDE DEF b
  <2> QED  BY <2>1, <2>2, <2>3
<1>2. Off.cb = "off" /\ Off.f = 0
  BY DEF Off
<1>3. (ec.cb = "off" => ec.f = 0) /\ Apart(R \cup {ec.f}, s, t)
  BY DEF Poised
<1> HIDE DEF b, R
<1>4. ASSUME Asked(b, ec, t), ec.cb # "off" => Open(ec, t) PROVE Poised(m, b, ec, t)
  BY <1>1, <1>3, <1>4, KidPoised
<1> DEFINE e == Off
<1>5. ASSUME Asked(b, e, t) PROVE Poised(m, b, e, t)
  <2>1. (e.cb = "off" => e.f = 0) /\ (e.cb # "off" => e = ec /\ Open(ec, t))
    BY <1>2
  <2> HIDE DEF e
  <2> QED  BY <1>1, <1>3, <1>5, <2>1, KidPoised
<1> QED  BY <1>4, <1>5 DEF b, e

\* The first of a pair, walked outside the frame if it has nothing to record.
LEMMA FirstTallies ==
  ASSUME Graph(tree), NEW m \in Nat \ {0}, NEW n, Pair(n), NEW ec, NEW s, Poised(m, n, ec, s), ec.cb # "off",
         NEW e, e = IF tree[n].k = "then" THEN SourceWalk(Source(tree, n), ec) ELSE ec,
         NEW t, Tallied(m, Source(tree, n), e, s, t)
  PROVE  LET P == First1(n).in IN
         Spanned(m, Under(tree, Source(tree, n)), ec, s, t, Below(Source(tree, n)) \ P, P, First1(n).cut)
<1> DEFINE a == Source(tree, n)
           A == Under(tree, a)
           D == Below(a)
<1>1. /\ s \in States(tree) /\ ec.f \in Heads(tree) /\ (ec.cb = "lend" => s.cbs[ec.f] # None) /\ Open(ec, s)
  <2>1. Open(ec, s)
    BY DEF Poised
  <2> QED  BY <2>1, PoisedFits
<1>2. ec.f \notin A
  <2>1. n \in DOMAIN tree /\ tree[n].k \in {"then", "bundle"}
    BY DEF Pair
  <2>2. a \in DOMAIN tree /\ a \in 1..(n - 1) /\ n \in Nat
    BY <2>1, NodesOf DEF Graph
  <2>3. A \subseteq 1..a
    BY <2>2, UnderOf DEF Under
  <2>4. ec.f >= n /\ ec.f \in Nat
    BY <1>1 DEF Poised, Heads, Graph
  <2> HIDE DEF a, A
  <2> QED  BY <2>2, <2>3, <2>4
<1>3. First1(n) = IF e = Off THEN Alone ELSE Spans(tree)[a]
  <2>1. Off # ec
    BY DEF Off
  <2> QED  BY <2>1, Zenon DEF First1, SpanSource, SourceWalk, Pair
<1>4. CASE e = Off
  <2>1. Loose(m, A, s, t, D)
    BY <1>4 DEF Tallied, Off
  <2> HIDE DEF a, A, D
  <2>2. Spanned(m, A, ec, s, t, D, {}, 0)
    BY <1>1, <1>2, <2>1, Aside
  <2>3. First1(n).in = {} /\ First1(n).cut = 0 /\ D \ {} = D
    BY <1>3, <1>4 DEF Alone
  <2> QED  BY <2>2, <2>3 DEF a, A, D
<1>5. CASE e # Off
  <2>1. e = ec
    BY <1>5 DEF SourceWalk
  <2>2. Spanned(m, A, ec, s, t, D \ Span(a), Span(a), Cut(a))
    BY <2>1 DEF Tallied
  <2>3. First1(n).in = Span(a) /\ First1(n).cut = Cut(a)
    BY <1>3, <1>5 DEF Span, Cut
  <2> QED  BY <2>2, <2>3
<1> QED  BY <1>4, <1>5

\* The source of a chain, and the end of the span.
LEMMA SourcedTallies ==
  ASSUME Graph(tree), NEW m \in Nat \ {0}, NEW n, Pair(n), tree[n].k = "then", NEW w, Obeys(w[1], Source(tree, n)),
         Tallies(m, w[1], Source(tree, n)), NEW ec, NEW s, Poised(m, n, ec, s)
  PROVE  LET a == Source(tree, n)
             P == First1(n).in
             t == Sourced(n, w, ec, s)
         IN /\ ec.cb = "off" => Loose(m, Under(tree, a), s, t, Below(a))
            /\ ec.cb # "off" => Spanned(m, Under(tree, a), ec, s, t, Below(a) \ P, P, Ends1(n))
<1> DEFINE a == Source(tree, n)
           b == Follow(tree, n)
           A == Under(tree, a)
           P == First1(n).in
           D == Below(a) \ P
           e == SourceWalk(a, ec)
           t == ExecChild(a, w[1], e, "pipelined", s)
           u == CloseSpan(a, ec, t)
           z == Sourced(n, w, ec, s)
<1>1. Poised(m, a, ec, s) /\ Poised(m, a, Off, s) /\ (e = ec \/ (e = Off /\ ec.cb # "off"))
  BY FirstPoised DEF SourceWalk
<1>2. Poised(m, a, e, s) /\ "pipelined" \in Modes
  BY <1>1 DEF Modes
<1>3. z = IF t.ok /\ Closes(b, ec) THEN u ELSE t
  BY DEF Sourced
<1>4. Obeys(w[1], a) /\ Tallies(m, w[1], a) /\ e = SourceWalk(a, ec)
  OBVIOUS
<1> HIDE DEF e, z
<1>5. Tallied(m, a, e, s, t)
  <2> HIDE DEF a, t
  <2> QED  BY <1>2, <1>4, ChildTallies DEF t
<1>6. t \in States(tree)
  <2>1. Asked(a, e, s)
    BY <1>2 DEF Poised
  <2> HIDE DEF a, t
  <2>2. Executes(a, s, t)
    BY <1>2, <1>4, <2>1, ChildOf DEF t
  <2> QED  BY <2>2 DEF Executes, Kept
<1> HIDE DEF t
<1>7. CASE ec.cb = "off"
  <2>1. e = ec /\ z = t
    BY <1>1, <1>3, <1>7 DEF Closes
  <2>2. Loose(m, A, s, t, Below(a))
    BY <1>5, <1>7, <2>1 DEF Tallied
  <2> QED  BY <1>7, <2>1, <2>2 DEF z
<1>8. CASE ec.cb # "off"
  <2> DEFINE cut == First1(n).cut
             end == Ends1(n)
  <2>1. /\ s \in States(tree) /\ ec.f \in Heads(tree) /\ (ec.cb = "lend" => s.cbs[ec.f] # None)
        /\ ec.cb \in {"build", "lend"} /\ AllFit(m, A \ {ec.f}, s)
    BY <1>1, <1>8, PoisedFits
  <2>2. Spanned(m, A, ec, s, t, D, P, cut)
    BY <1>4, <1>5, <1>8, FirstTallies
  <2>3. (cut = 0 \/ cut = 1) /\ (end = 0 \/ end = 1) /\ (cut = 1 => end = 1) /\ (Closes(b, ec) => end = 1)
        /\ (~Closes(b, ec) => end = cut)
    <3>1. cut \in {0, 1}
      BY PairSpans
    <3>2. SpanEnds(tree, n, First1(n)) <=> cut = 1 \/ Closes(b, ec)
      BY <1>8 DEF SpanEnds, Closes
    <3> QED  BY <3>1, <3>2 DEF Ends1
  <2> HIDE DEF a, b, A, P, D, u, cut, end
  <2>4. CASE t.ok /\ Closes(b, ec)
    <3>1. Spanned(m, A, ec, s, u, D, P, 1)
      BY <1>6, <2>1, <2>2, <2>3, <2>4, CloseSpanTimes DEF u
    <3>2. z = u /\ end = 1
      BY <1>3, <2>3, <2>4
    <3> QED  BY <1>8, <3>1, <3>2 DEF z, a, A, P, D, end
  <2>5. CASE ~(t.ok /\ Closes(b, ec))
    <3>1. (t.ok => D = D /\ P = P /\ end = cut) /\ (cut = 1 => end = 1 /\ P = P) /\ A \subseteq A
      BY <2>3, <2>5
    <3>2. Spanned(m, A, ec, s, t, D, P, end)
      BY <2>1, <2>2, <2>3, <3>1, SpannedWider
    <3>3. z = t
      BY <1>3, <2>5
    <3> QED  BY <1>8, <3>2, <3>3 DEF z, a, A, P, D, end
  <2> QED  BY <2>4, <2>5
<1> QED  BY <1>7, <1>8

-----------------------------------------------------------------------------
(* What follows                                                            *)

LEMMA BegunApart ==
  ASSUME NEW m, NEW n, NEW ec, NEW s, NEW t, Begun(m, n, ec, s, t)
  PROVE  /\ Apart(Under(tree, Source(tree, n)) \cup {ec.f}, s, t)
         /\ t.ok /\ ec.cb \in {"build", "lend"} => (t.fr[ec.f].closed <=> Ends1(n) = 1)
<1>1. CASE ec.cb = "off"
  <2>1. Loose(m, Under(tree, Source(tree, n)), s, t, Below(Source(tree, n)))
    BY <1>1 DEF Begun
  <2> QED  BY <1>1, <2>1 DEF Loose, Apart
<1>2. CASE ec.cb # "off"
  <2> DEFINE A == Under(tree, Source(tree, n))
             P == First1(n).in
             D == Below(Source(tree, n)) \ P
             end == Ends1(n)
  <2>1. Spanned(m, A, ec, s, t, D, P, end)
    BY <1>2 DEF Begun
  <2> HIDE DEF A, P, D, end
  <2>2. Apart(A \cup {ec.f}, s, t)
    BY <2>1 DEF Spanned
  <2>3. t.ok /\ ec.cb \in {"build", "lend"} => (t.fr[ec.f].closed <=> end = 1)
    BY <2>1 DEF Spanned, Lends, Builds
  <2> QED  BY <2>2, <2>3 DEF A, end
<1> QED  BY <1>1, <1>2

\* A kid called outside any frame.
LEMMA CallsOff ==
  ASSUME Graph(tree), NEW m \in Nat \ {0}, NEW b, NEW v, Obeys(v, b), Tallies(m, v, b), NEW mode \in Modes,
         NEW t, Poised(m, b, Off, t),
         NEW u, \/ u = ExecChild(b, v, Off, mode, t) \/ u = GatherChild(b, v, Off, mode, t).s
                \/ u = Exec(v, Off, mode, t) \/ u = Gather(v, Off, mode, t).s \/ u = Collect(v, Off, mode, t).s
  PROVE  Loose(m, Under(tree, b), t, u, Below(b))
<1> DEFINE e == Off
<1>1. e.cb = "off" /\ Poised(m, b, e, t)
  BY DEF Off
<1>2. \/ u = ExecChild(b, v, e, mode, t) \/ u = GatherChild(b, v, e, mode, t).s
      \/ u = Exec(v, e, mode, t) \/ u = Gather(v, e, mode, t).s \/ u = Collect(v, e, mode, t).s
  OBVIOUS
<1> HIDE DEF e
<1>3. Tallied(m, b, e, t, ExecChild(b, v, e, mode, t)) /\ Tallied(m, b, e, t, GatherChild(b, v, e, mode, t).s)
  BY <1>1, ChildTallies
<1>4. /\ Tallied(m, b, e, t, Exec(v, e, mode, t)) /\ Tallied(m, b, e, t, Gather(v, e, mode, t).s)
      /\ Tallied(m, b, e, t, Collect(v, e, mode, t).s)
  BY <1>1 DEF Tallies
<1>5. Tallied(m, b, e, t, u)
  BY <1>2, <1>3, <1>4
<1> QED  BY <1>1, <1>5 DEF Tallied

LEMMA SecondTallies ==
  ASSUME Graph(tree), NEW m \in Nat \ {0}, NEW n, Pair(n), NEW v, Obeys(v, Follow(tree, n)),
         Tallies(m, v, Follow(tree, n)), NEW ec, NEW mode \in Modes, NEW s, Poised(m, n, ec, s),
         NEW t, Begun(m, n, ec, s, t), t.ok, Asked(Follow(tree, n), ec, t), NEW u, Calls(n, v, ec, mode, t, u)
  PROVE  LET b == Follow(tree, n) IN
         /\ ec.cb = "off" \/ Ends1(n) = 1 => Loose(m, Under(tree, b), t, u, Below(b))
         /\ ec.cb # "off" /\ Ends1(n) # 1 =>
              Spanned(m, Under(tree, b), ec, t, u, Below(b) \ Span(b), Span(b), Cut(b))
<1> DEFINE b == Follow(tree, n)
<1>1. /\ Apart(Under(tree, Source(tree, n)) \cup {ec.f}, s, t)
      /\ ec.cb # "off" => ec.cb \in {"build", "lend"} /\ (t.fr[ec.f].closed <=> Ends1(n) = 1)
  BY BegunApart, PoisedFits
<1>2. Asked(b, Off, t) /\ Poised(m, b, Off, t)
  BY <1>1, AskedOff, SecondPoised
<1>3. ec.cb = "off" \/ Ends1(n) # 1 => Poised(m, b, ec, t)
  <2>1. CASE ec.cb = "off"
    BY <1>1, <2>1, SecondPoised
  <2>2. CASE ec.cb # "off" /\ Ends1(n) # 1
    <3> DEFINE A == Under(tree, Source(tree, n))
               P == First1(n).in
               D == Below(Source(tree, n)) \ P
    <3>1. Ends1(n) = 0
      BY <2>2 DEF Ends1
    <3>2. Spanned(m, A, ec, s, t, D, P, 0)
      BY <2>2, <3>1 DEF Begun
    <3> HIDE DEF A, P, D
    <3>3. Open(ec, t)
      BY <1>1, <2>2, <3>2, OpenStill
    <3> QED  BY <1>1, <3>3, SecondPoised
  <2> QED  BY <2>1, <2>2
<1>4. Obeys(v, b) /\ Tallies(m, v, b)
  OBVIOUS
<1>5. \/ u = ExecChild(b, v, ec, mode, t) \/ u = GatherChild(b, v, ec, mode, t).s
      \/ /\ ec.cb # "off" /\ Ends1(n) = 1
         /\ u = Exec(v, Off, mode, t) \/ u = Gather(v, Off, mode, t).s \/ u = Collect(v, Off, mode, t).s
      \/ (ec.cb = "off" \/ (Ends1(n) = 0 /\ Unbroken(tree, b))) /\ u = Collect(v, ec, mode, t).s
  BY DEF Calls
<1> HIDE DEF b
<1>6. CASE ec.cb = "off" \/ Ends1(n) # 1
  <2>1. Tallied(m, b, ec, t, ExecChild(b, v, ec, mode, t)) /\ Tallied(m, b, ec, t, GatherChild(b, v, ec, mode, t).s)
    BY <1>3, <1>4, <1>6, ChildTallies
  <2>3. ec.cb = "off" \/ Unbroken(tree, b) => Tallied(m, b, ec, t, Collect(v, ec, mode, t).s)
    BY <1>3, <1>4, <1>6 DEF Tallies
  <2>2. Tallied(m, b, ec, t, u)
    BY <1>5, <1>6, <2>1, <2>3
  <2> QED  BY <1>6, <2>2 DEF Tallied, b
<1>7. CASE ec.cb # "off" /\ Ends1(n) = 1
  <2>1. /\ ExecChild(b, v, ec, mode, t) = ExecChild(b, v, Off, mode, t)
        /\ GatherChild(b, v, ec, mode, t) = GatherChild(b, v, Off, mode, t)
    BY <1>1, <1>7, ChildOutside
  <2>2. \/ u = ExecChild(b, v, Off, mode, t) \/ u = GatherChild(b, v, Off, mode, t).s
        \/ u = Exec(v, Off, mode, t) \/ u = Gather(v, Off, mode, t).s \/ u = Collect(v, Off, mode, t).s
    BY <1>5, <1>7, <2>1
  <2>3. Loose(m, Under(tree, b), t, u, Below(b))
    BY <1>2, <1>4, <2>2, CallsOff
  <2> QED  BY <1>7, <2>3 DEF b
<1> QED  BY <1>6, <1>7

\* The two together.
LEMMA PairTallies ==
  ASSUME Graph(tree), NEW m \in Nat \ {0}, NEW n, Pair(n), NEW v, Obeys(v, Follow(tree, n)),
         Tallies(m, v, Follow(tree, n)), NEW ec, NEW mode \in Modes, NEW s, Poised(m, n, ec, s),
         NEW t \in States(tree), Begun(m, n, ec, s, t), t.ok => Asked(Follow(tree, n), ec, t),
         NEW u, IF t.ok THEN Calls(n, v, ec, mode, t, u) ELSE u = t
  PROVE  Tallied(m, n, ec, s, u)
<1>1. ~t.ok => Quiet(m, t, u)
  BY DEF Quiet
<1>2. CASE ec.cb = "off"
  <2>1. Loose(m, Under(tree, Source(tree, n)), s, t, Below(Source(tree, n)))
    BY <1>2 DEF Begun
  <2>2. t.ok => Loose(m, Under(tree, Follow(tree, n)), t, u, Below(Follow(tree, n)))
    BY <1>2, SecondTallies
  <2> QED  BY <1>1, <1>2, <2>1, <2>2, PairLoose
<1>3. CASE ec.cb # "off"
  <2>1. Spanned(m, Under(tree, Source(tree, n)), ec, s, t, Below(Source(tree, n)) \ First1(n).in, First1(n).in, Ends1(n))
    BY <1>3 DEF Begun
  <2>2. t.ok /\ Ends1(n) = 1 => Loose(m, Under(tree, Follow(tree, n)), t, u, Below(Follow(tree, n)))
    BY <1>3, SecondTallies
  <2>3. t.ok /\ Ends1(n) # 1 =>
           Spanned(m, Under(tree, Follow(tree, n)), ec, t, u,
                   Below(Follow(tree, n)) \ Span(Follow(tree, n)), Span(Follow(tree, n)), Cut(Follow(tree, n)))
    BY <1>3, SecondTallies
  <2> QED  BY <1>1, <1>3, <2>1, <2>2, <2>3, PairSpanned
<1> QED  BY <1>2, <1>3

-----------------------------------------------------------------------------
(* Chains and bundles                                                      *)

\* A chain that may be asked to collect in a frame records on only in an open span.
LEMMA UnbrokenNext ==
  ASSUME Graph(tree), NEW n, Pair(n), tree[n].k = "then", Unbroken(tree, n), SpineHead(tree)[Follow(tree, n)]
  PROVE  Ends1(n) = 0 /\ Unbroken(tree, Follow(tree, n))
<1> DEFINE b == Follow(tree, n)
<1>1. n \in DOMAIN tree /\ n \in Nat /\ b = n - 1 /\ b \in DOMAIN tree
  BY NodesOf, PairOf DEF Pair
<1>2. n \in Under(tree, n) /\ Under(tree, b) \subseteq Under(tree, n)
  BY <1>1, UnderOf DEF Pair
<1>3. First1(n).cut = 0
  <2>1. \A i \in n..n : tree[i].k = "then"
    BY <1>1
  <2> QED  BY <1>2, <2>1 DEF Unbroken, First1
<1>4. Ends1(n) = 0
  BY <1>3 DEF Ends1, SpanEnds
<1>5. ASSUME NEW j \in Under(tree, b), \A i \in j..b : tree[i].k = "then" PROVE \A i \in j..n : tree[i].k = "then"
  BY <1>1, <1>5
<1> HIDE DEF b
<1> QED  BY <1>2, <1>4, <1>5 DEF Unbroken, b

LEMMA ThenTallies ==
  ASSUME Graph(tree), NEW m \in Nat \ {0}, NEW n, Pair(n), tree[n].k = "then",
         NEW w, Obeys(w[1], Source(tree, n)), Obeys(w[2], Follow(tree, n)),
         Tallies(m, w[1], Source(tree, n)), Tallies(m, w[2], Follow(tree, n)),
         NEW ec, NEW mode \in Modes, NEW s, Poised(m, n, ec, s)
  PROVE  /\ Tallied(m, n, ec, s, ThenExec(n, w, ec, mode, s))
         /\ Tallied(m, n, ec, s, ThenGather(n, w, ec, mode, s).s)
         /\ ec.cb = "off" \/ Unbroken(tree, n) => Tallied(m, n, ec, s, ThenCollect(n, w, ec, mode, s).s)
<1> DEFINE b == Follow(tree, n)
           v == w[2]
           t == Sourced(n, w, ec, s)
           u == ThenExec(n, w, ec, mode, s)
           r == ThenGather(n, w, ec, mode, s)
           q == ThenCollect(n, w, ec, mode, s)
<1>1. Asked(n, ec, s)
  BY DEF Poised
<1>2. Executes(Source(tree, n), s, t)
  BY <1>1, SourcedOf
<1>3. Begun(m, n, ec, s, t)
  BY SourcedTallies DEF Begun
<1>4. u = IF t.ok THEN ExecNext(n, w, ec, mode, t) ELSE t
  BY DEF ThenExec
<1>5. r = IF ~t.ok THEN Result(t, <<>>, {})
          ELSE IF Closes(b, ec) THEN Gather(v, Off, mode, t) ELSE GatherChild(b, v, ec, mode, t)
  BY DEF ThenGather
<1>15. q = IF ~t.ok THEN Result(t, <<>>, {})
           ELSE IF Closes(b, ec) THEN Collect(v, Off, mode, t) ELSE Collect(v, ec, mode, t)
  BY DEF ThenCollect
<1>6. ExecNext(n, w, ec, mode, t) = IF Closes(b, ec) THEN Exec(v, Off, mode, t) ELSE ExecChild(b, v, ec, mode, t)
  BY DEF ExecNext
<1> HIDE DEF t, u, r, q
<1>7. t \in States(tree) /\ (t.ok => Asked(b, ec, t))
  BY <1>1, <1>2, NextAsked DEF Executes, Kept
<1>8. Closes(b, ec) => ec.cb # "off" /\ Ends1(n) = 1
  BY DEF Closes, Ends1, SpanEnds
<1>9. Obeys(v, b) /\ Tallies(m, v, b)
  OBVIOUS
<1> HIDE DEF v
<1>10. IF t.ok THEN Calls(n, v, ec, mode, t, u) ELSE u = t
  BY <1>4, <1>6, <1>8 DEF Calls
<1>11. IF t.ok THEN Calls(n, v, ec, mode, t, r.s) ELSE r.s = t
  BY <1>5, <1>8, ResultOf DEF Calls
<1>12. Tallied(m, n, ec, s, u)
  BY <1>3, <1>7, <1>9, <1>10, PairTallies
<1> DEFINE y == r.s
<1>13. IF t.ok THEN Calls(n, v, ec, mode, t, y) ELSE y = t
  BY <1>11
<1> HIDE DEF y
<1>14. Tallied(m, n, ec, s, y)
  BY <1>3, <1>7, <1>9, <1>13, PairTallies
<1>16. ASSUME ec.cb = "off" \/ Unbroken(tree, n) PROVE Tallied(m, n, ec, s, q.s)
  <2>1. ec.cb = "off" \/ Closes(b, ec) \/ (Ends1(n) = 0 /\ Unbroken(tree, b))
    BY <1>16, UnbrokenNext DEF Closes
  <2> DEFINE x == q.s
  <2>2. IF t.ok THEN Calls(n, v, ec, mode, t, x) ELSE x = t
    BY <1>8, <1>15, <2>1, ResultOf DEF Calls
  <2> HIDE DEF x
  <2>3. Tallied(m, n, ec, s, x)
    BY <1>3, <1>7, <1>9, <2>2, PairTallies
  <2> QED  BY <2>3 DEF x
<1> QED  BY <1>12, <1>14, <1>16 DEF u, r, q, y

\* A branch of a bundle.
LEMMA BranchTallies ==
  ASSUME Graph(tree), NEW m \in Nat \ {0}, NEW n, Pair(n), tree[n].k = "bundle", NEW ec, NEW s, Poised(m, n, ec, s),
         NEW t, Tallied(m, Source(tree, n), ec, s, t)
  PROVE  Begun(m, n, ec, s, t)
<1>1. CASE ec.cb = "off"
  BY <1>1 DEF Tallied, Begun
<1>2. CASE ec.cb # "off"
  <2> DEFINE e == ec
  <2>1. e = IF tree[n].k = "then" THEN SourceWalk(Source(tree, n), ec) ELSE ec
    BY Zenon
  <2>2. Tallied(m, Source(tree, n), e, s, t)
    OBVIOUS
  <2> HIDE DEF e
  <2> DEFINE P == First1(n).in
             cut == First1(n).cut
  <2>3. Spanned(m, Under(tree, Source(tree, n)), ec, s, t, Below(Source(tree, n)) \ P, P, cut)
    BY <1>2, <2>1, <2>2, FirstTallies
  <2>4. cut \in {0, 1} /\ (SpanEnds(tree, n, First1(n)) <=> cut = 1)
    BY PairSpans DEF SpanEnds
  <2>5. Ends1(n) = cut
    BY <2>4 DEF Ends1
  <2> QED  BY <1>2, <2>3, <2>5 DEF Begun
<1> QED  BY <1>1, <1>2

\* What a join enqueues is a marker.
LEMMA JoinQuiet ==
  ASSUME NEW m \in Nat \ {0}, NEW s \in States(tree), NEW deps \in SUBSET Nat
  PROVE  Quiet(m, s, Join(s, deps)) /\ Join(s, deps) \in States(tree)
<1> DEFINE D == IF deps = {} THEN 1..Newest(s) ELSE deps
           z == 0
           on == {}
           u == Enqueue(s, z, on, D)
<1>1. D \in SUBSET Nat /\ z \in Nat /\ on \in SUBSET Contents
  BY NewestOf
<1>2. Join(s, deps) = u
  BY DEF Join
<1>3. z # m
  OBVIOUS
<1> HIDE DEF D, z, on
<1>4. Enqueued(m, s, u, Is(m, {z})) /\ u.cbs = s.cbs /\ u.fr = s.fr
  BY <1>1, EnqueueEnqueues
<1>5. u.ok = s.ok
  BY <1>1, EnqueueFields, FieldsOf
<1>6. u \in States(tree) /\ u.fault = s.fault
  BY <1>4 DEF Enqueued
<1>7. Times(u.log, m) = Times(s.log, m) + Is(m, {z})
  BY <1>1, EnqueueTimes
<1>8. Is(m, {z}) = 0 /\ Times(s.log, m) \in Nat
  <2>1. s.log \in Seq(Entries)
    BY StateOf
  <2> QED  BY <1>3, <2>1, TimesOf DEF Is
<1> HIDE DEF u
<1>9. Times(u.log, m) = Times(s.log, m)
  BY <1>7, <1>8
<1> QED  BY <1>2, <1>4, <1>5, <1>6, <1>9 DEF Quiet

LEMMA LostStill ==
  ASSUME NEW r, Fields \subseteq DOMAIN r.s
  PROVE  Still(r.s, Lost(r).s)
<1>1. Lost(r).s = RehomeAll(r.s, r.got)
  BY ResultOf DEF Lost
<1> QED  BY <1>1, StillHomes

LEMMA GatheredStill ==
  ASSUME NEW s, Fields \subseteq DOMAIN s, NEW got
  PROVE  Still(s, Gathered(s, got).s)
<1>1. CASE s.ok
  <2>1. Gathered(s, got).s = s
    BY <1>1, ResultOf DEF Gathered
  <2> QED  BY <2>1 DEF Still
<1>2. CASE ~s.ok
  <2> DEFINE r == Result(s, got, {})
  <2>1. r.s = s
    BY ResultOf
  <2>2. Gathered(s, got) = Lost(r)
    BY <1>2 DEF Gathered
  <2> HIDE DEF r
  <2> QED  BY <2>1, <2>2, LostStill
<1> QED  BY <1>1, <1>2

LEMMA QuietThen ==
  ASSUME NEW m, NEW s, NEW u, NEW v, Quiet(m, s, u), Quiet(m, u, v)
  PROVE  Quiet(m, s, v)
BY DEF Quiet, Harmless

LEMMA JoinBranchesQuiet ==
  ASSUME NEW m \in Nat \ {0}, NEW n, NEW l, NEW r, r.s \in States(tree), l.deps \in SUBSET Nat, r.deps \in SUBSET Nat
  PROVE  Quiet(m, r.s, JoinBranches(n, l, r).s)
<1>1. CASE ~r.s.ok
  <2> DEFINE x == Result(r.s, l.got, {})
  <2>1. x.s = r.s /\ JoinBranches(n, l, r) = Lost(x)
    BY <1>1, ResultOf DEF JoinBranches
  <2> HIDE DEF x
  <2>2. Still(r.s, JoinBranches(n, l, r).s)
    BY <2>1, FieldsOf, LostStill
  <2> QED  BY <2>2, StillQuiet
<1>2. CASE r.s.ok
  <2> DEFINE D == l.deps \cup r.deps
             meets == Meets(r.s, "join", n)
             u == IF meets THEN Failed(r.s) ELSE Join(r.s, D)
             got == l.got \o r.got
  <2>1. JoinBranches(n, l, r) = Gathered(u, got)
    BY <1>2 DEF JoinBranches
  <2>2. D \in SUBSET Nat /\ (meets => ~Harmless(r.s))
    BY DEF Meets, Harmless
  <2> HIDE DEF D, got, meets
  <2>3. Quiet(m, r.s, u) /\ u \in States(tree)
    BY <2>2, JoinQuiet, StoppedQuiet
  <2> HIDE DEF u
  <2>4. Quiet(m, u, Gathered(u, got).s)
    BY <2>3, FieldsOf, GatheredStill, StillQuiet
  <2> QED  BY <2>1, <2>3, <2>4, QuietThen
<1> QED  BY <1>1, <1>2

LEMMA BundleTallies ==
  ASSUME Graph(tree), NEW m \in Nat \ {0}, NEW n, Pair(n), tree[n].k = "bundle",
         NEW w, Obeys(w[1], Source(tree, n)), Obeys(w[2], Follow(tree, n)),
         Tallies(m, w[1], Source(tree, n)), Tallies(m, w[2], Follow(tree, n)), NEW ec, NEW s, Poised(m, n, ec, s)
  PROVE  /\ Tallied(m, n, ec, s, BundleExec(n, w, ec, s))
         /\ Tallied(m, n, ec, s, BundleGather(n, w, ec, s).s)
<1> DEFINE a == Source(tree, n)
           b == Follow(tree, n)
           v == w[2]
           mode == "pipelined"
           t == ExecChild(a, w[1], ec, mode, s)
           u == BundleExec(n, w, ec, s)
           l == GatherChild(a, w[1], ec, mode, s)
           r == GatherChild(b, v, ec, mode, l.s)
           z == BundleGather(n, w, ec, s)
<1>1. Asked(n, ec, s) /\ Poised(m, a, ec, s) /\ mode \in Modes
  BY FirstPoised DEF Poised, Modes
<1>2. Asked(a, ec, s)
  BY <1>1 DEF Poised
<1>3. u = IF t.ok THEN ExecChild(b, v, ec, mode, t) ELSE t
  BY DEF BundleExec, Source, Follow
<1>4. z = IF ~l.s.ok THEN l ELSE JoinBranches(n, l, r)
  BY DEF BundleGather, Source, Follow
<1>5. Obeys(v, b) /\ Tallies(m, v, b) /\ Obeys(w[1], a) /\ Tallies(m, w[1], a)
  OBVIOUS
<1> HIDE DEF v, mode, t, u, l, z
<1>6. Begun(m, n, ec, s, t) /\ Begun(m, n, ec, s, l.s)
  <2>1. Tallied(m, a, ec, s, t) /\ Tallied(m, a, ec, s, l.s)
    BY <1>1, <1>5, ChildTallies DEF t, l
  <2> QED  BY <2>1, BranchTallies
<1>7. Executes(a, s, t) /\ Gathers(a, s, l)
  BY <1>1, <1>2, <1>5, ChildOf DEF t, l
<1>8. t \in States(tree) /\ l.s \in States(tree) /\ l.deps \in SUBSET Nat
  BY <1>7 DEF Executes, Gathers, Kept
<1>9. t.ok => Asked(b, ec, t)
  BY <1>1, <1>7, NextAsked
<1>10. l.s.ok => Asked(b, ec, l.s)
  <2> SUFFICES ASSUME l.s.ok PROVE Asked(b, ec, l.s)
    OBVIOUS
  <2> DEFINE out == Range(OutCells(tree)[a])
  <2>1. out \cap UsedCells(tree, b) = {}
    <3>1. Gives(tree, a) \cap UsedCells(tree, b) = {}
      BY FlowBetween DEF Pair
    <3>2. out \subseteq Gives(tree, a)
      BY PairOf, GivesWithin
    <3> QED  BY <3>1, <3>2
  <2>2. Kept(a, s, l.s) /\ Full(l.s) = Filled(a, s) \ out
    BY <1>7 DEF Gathers
  <2> HIDE DEF out
  <2> QED  BY <1>1, <2>1, <2>2, SecondAsked
<1>11. Tallied(m, n, ec, s, u)
  <2>1. IF t.ok THEN Calls(n, v, ec, mode, t, u) ELSE u = t
    BY <1>3 DEF Calls
  <2> QED  BY <1>1, <1>5, <1>6, <1>8, <1>9, <2>1, PairTallies
<1>12. Tallied(m, n, ec, s, z.s)
  <2> DEFINE x == l.s
             y == IF x.ok THEN r.s ELSE x
  <2>1. x \in States(tree) /\ Begun(m, n, ec, s, x) /\ (x.ok => Asked(b, ec, x))
    BY <1>6, <1>8, <1>10
  <2>2. IF x.ok THEN Calls(n, v, ec, mode, x, y) ELSE y = x
    BY DEF Calls
  <2> HIDE DEF x, y
  <2>3. Tallied(m, n, ec, s, y)
    BY <1>1, <1>5, <2>1, <2>2, PairTallies
  <2>4. CASE x.ok
    <3>1. Gathers(b, x, r)
      BY <1>1, <1>5, <2>1, <2>4, ChildOf DEF x
    <3>2. y = r.s /\ z = JoinBranches(n, l, r)
      BY <1>4, <2>4 DEF x, y
    <3>3. r.s \in States(tree) /\ r.deps \in SUBSET Nat
      BY <3>1 DEF Gathers, Kept
    <3> HIDE DEF r
    <3>4. Quiet(m, r.s, z.s)
      BY <1>8, <3>2, <3>3, JoinBranchesQuiet
    <3> QED  BY <2>3, <3>2, <3>4, QuietTallied
  <2>5. CASE ~x.ok
    <3>1. z.s = x /\ y = x
      BY <1>4, <2>5 DEF x, y
    <3> QED  BY <2>3, <3>1
  <2> QED  BY <2>4, <2>5
<1> QED  BY <1>11, <1>12 DEF u, z

\* A pair that opens a command buffer of its own.
LEMMA OwnTallies ==
  ASSUME Graph(tree), NEW m \in Nat \ {0}, NEW n \in Heads(tree), NEW ec, NEW s, Poised(m, n, ec, s), ec.cb = "off",
         NEW b, b = BoundaryWalk(n, s)
  PROVE  /\ \A u : Tallied(m, n, b, s, u) /\ Executes(n, s, u) => Tallied(m, n, ec, s, EndExec(n, b, u))
         /\ \A r : Tallied(m, n, b, s, r.s) /\ Gathers(n, s, r) => Tallied(m, n, ec, s, EndGather(n, b, r).s)
<1>1. Asked(n, b, s) /\ (b.cb = "lend" => s.cbs[n] # None)
  BY BoundaryAsked DEF Poised
<1>2. ASSUME NEW u, Tallied(m, n, b, s, u), Executes(n, s, u)
      PROVE  Tallied(m, n, ec, s, EndExec(n, b, u))
  <2> DEFINE z == EndExec(n, b, u)
  <2>1. u \in States(tree) /\ (b.cb = "lend" => u.cbs[n] # None)
    BY <1>1, <1>2 DEF Executes, Kept
  <2>2. Ends(n, b, u) \in States(tree)
    BY <2>1, EndsOf
  <2>3. Finish(n, b, u, z)
    BY <2>1, <2>2, ExecFinish
  <2> HIDE DEF z
  <2>4. Loose(m, Under(tree, n), s, z, Below(n))
    BY <1>2, <2>1, <2>3, BoundaryTallies
  <2> QED  BY <2>4 DEF Tallied, z
<1>3. ASSUME NEW r, Tallied(m, n, b, s, r.s), Gathers(n, s, r)
      PROVE  Tallied(m, n, ec, s, EndGather(n, b, r).s)
  <2> DEFINE u == r.s
             z == EndGather(n, b, r).s
  <2>1. u \in States(tree) /\ (b.cb = "lend" => u.cbs[n] # None)
    BY <1>1, <1>3 DEF Gathers, Kept
  <2>2. Ends(n, b, u) \in States(tree)
    BY <2>1, EndsOf
  <2>3. Finish(n, b, u, z)
    BY <2>1, <2>2, GatherFinish
  <2>4. Tallied(m, n, b, s, u)
    BY <1>3
  <2> HIDE DEF u, z
  <2>5. Loose(m, Under(tree, n), s, z, Below(n))
    BY <2>1, <2>3, <2>4, BoundaryTallies
  <2> QED  BY <2>5 DEF Tallied, z
<1> QED  BY <1>2, <1>3

LEMMA PairKeeps ==
  ASSUME Graph(tree), NEW m \in Nat \ {0}, NEW n, Pair(n), NEW w, KidsObey(n, w), KidsTally(m, n, w),
         NEW ec, NEW mode \in Modes, NEW s, Poised(m, n, ec, s)
  PROVE  /\ Tallied(m, n, ec, s, Execute(n, w, ec, mode, s))
         /\ Tallied(m, n, ec, s, GatherCheckouts(n, w, ec, mode, s).s)
         /\ tree[n].k = "then" /\ (ec.cb = "off" \/ Unbroken(tree, n)) =>
              Tallied(m, n, ec, s, Collected(n, w, ec, mode, s).s)
<1> DEFINE b == BoundaryWalk(n, s)
<1>1. /\ Obeys(w[1], Source(tree, n)) /\ Obeys(w[2], Follow(tree, n))
      /\ Tallies(m, w[1], Source(tree, n)) /\ Tallies(m, w[2], Follow(tree, n))
  <2>1. tree[n].kids = <<First(tree)[n - 1] - 1, n - 1>>
    BY NodesOf DEF Pair
  <2>2. tree[n].kids # <<>>
    BY <2>1
  <2> QED  BY <2>2 DEF KidsObey, KidsTally, Pair
<1>0. tree[n].k \notin Leaves \cup {"arced", "route", "profiled"}
  BY DEF Pair, Leaves
<1>2. n \in Heads(tree)
  BY DEF Pair, Heads
<1>3. ec.cb = "off" => Poised(m, n, b, s) /\ Asked(n, b, s)
  <2> HIDE DEF b
  <2>1. ec.cb = "off" => Poised(m, n, b, s)
    BY <1>2, BoundaryPoised DEF b
  <2> QED  BY <2>1 DEF Poised
<1>4. b = BoundaryWalk(n, s)
  OBVIOUS
<1> HIDE DEF b
<1>5. CASE tree[n].k = "then"
  <2>1. /\ Tallied(m, n, ec, s, ThenExec(n, w, ec, mode, s))
        /\ Tallied(m, n, ec, s, ThenGather(n, w, ec, mode, s).s)
        /\ ec.cb = "off" \/ Unbroken(tree, n) => Tallied(m, n, ec, s, ThenCollect(n, w, ec, mode, s).s)
    BY <1>1, <1>5, ThenTallies
  <2>4. Collected(n, w, ec, mode, s) = ThenCollect(n, w, ec, mode, s)
    BY <1>5 DEF Collected
  <2>2. CASE OpensSpan(n, ec, s)
    <3> DEFINE u == ThenExec(n, w, b, mode, s)
               r == ThenGather(n, w, b, mode, s)
    <3>1. ec.cb = "off" /\ Poised(m, n, b, s) /\ Asked(n, b, s)
      BY <1>3, <2>2 DEF OpensSpan
    <3>2. Tallied(m, n, b, s, u) /\ Tallied(m, n, b, s, r.s)
      BY <1>1, <1>5, <3>1, ThenTallies
    <3>3. Executes(n, s, u) /\ Gathers(n, s, r)
      BY <1>1, <1>5, <3>1, ThenExecOf, ThenGatherOf
    <3>4. Execute(n, w, ec, mode, s) = EndExec(n, b, u)
      BY <1>4, <1>5, <2>2 DEF Execute
    <3>5. GatherCheckouts(n, w, ec, mode, s) = EndGather(n, b, r)
      BY <1>0, <1>4, <1>5, <2>2 DEF GatherCheckouts
    <3> HIDE DEF u, r
    <3>6. Tallied(m, n, ec, s, EndExec(n, b, u)) /\ Tallied(m, n, ec, s, EndGather(n, b, r).s)
      BY <1>2, <1>4, <3>1, <3>2, <3>3, OwnTallies
    <3> QED  BY <2>1, <2>4, <3>4, <3>5, <3>6
  <2>3. CASE ~OpensSpan(n, ec, s)
    <3>1. Execute(n, w, ec, mode, s) = ThenExec(n, w, ec, mode, s)
      BY <1>5, <2>3 DEF Execute
    <3>2. GatherCheckouts(n, w, ec, mode, s) = ThenGather(n, w, ec, mode, s)
      BY <1>0, <1>5, <2>3 DEF GatherCheckouts
    <3> QED  BY <2>1, <2>4, <3>1, <3>2
  <2> QED  BY <2>2, <2>3
<1>6. CASE tree[n].k = "bundle"
  <2>1. /\ Tallied(m, n, ec, s, BundleExec(n, w, ec, s))
        /\ Tallied(m, n, ec, s, BundleGather(n, w, ec, s).s)
    BY <1>1, <1>6, BundleTallies
  <2>2. GatherCheckouts(n, w, ec, mode, s) = BundleGather(n, w, ec, s)
    BY <1>0, <1>6 DEF GatherCheckouts
  <2>3. CASE OpensBundle(n, ec, s)
    <3> DEFINE u == BundleExec(n, w, b, s)
    <3>1. ec.cb = "off" /\ Poised(m, n, b, s) /\ Asked(n, b, s)
      BY <1>3, <2>3 DEF OpensBundle, OpensBoundary
    <3>2. Tallied(m, n, b, s, u)
      BY <1>1, <1>6, <3>1, BundleTallies
    <3>3. Executes(n, s, u)
      BY <1>1, <3>1, BundleExecOf
    <3>4. Execute(n, w, ec, mode, s) = EndExec(n, b, u)
      BY <1>4, <1>6, <2>3 DEF Execute
    <3> HIDE DEF u
    <3>6. Tallied(m, n, ec, s, EndExec(n, b, u))
      BY <1>2, <1>4, <3>1, <3>2, <3>3, OwnTallies
    <3> QED  BY <1>6, <2>1, <2>2, <3>4, <3>6
  <2>4. CASE ~OpensBundle(n, ec, s)
    <3>1. Execute(n, w, ec, mode, s) = BundleExec(n, w, ec, s)
      BY <1>6, <2>4 DEF Execute
    <3> QED  BY <1>6, <2>1, <2>2, <3>1
  <2> QED  BY <2>3, <2>4
<1> QED  BY <1>5, <1>6 DEF Pair

-----------------------------------------------------------------------------
(* Wrappers                                                                *)

LEMMA WrapPoised ==
  ASSUME Graph(tree), NEW m, NEW n \in DOMAIN tree, tree[n].k \in Wrappers, NEW ec, NEW s, Poised(m, n, ec, s)
  PROVE  Poised(m, Source(tree, n), ec, s) /\ Poised(m, Source(tree, n), Off, s)
<1> DEFINE a == Source(tree, n)
           R == {}
<1>1. a \in 1..(n - 1) /\ Under(tree, a) \subseteq Under(tree, n)
  <2>1. Under(tree, n) = Under(tree, a) \cup {n}
    BY UnderOf
  <2>2. a \in 1..(n - 1)
    BY NodesOf
  <2> HIDE DEF a
  <2> QED  BY <2>1, <2>2
<1>2. Asked(a, ec, s) /\ Asked(a, Off, s)
  <2>1. Asked(a, ec, s)
    BY WrapAsked DEF Poised
  <2> QED  BY <2>1, AskedOff
<1>3. R \cap Under(tree, a) = {} /\ Apart(R \cup {ec.f}, s, s)
  BY DEF Apart
<1>4. Off.cb = "off" /\ Off.f = 0
  BY DEF Off
<1>5. (ec.cb = "off" => ec.f = 0) /\ (ec.cb # "off" => ec = ec /\ Open(ec, s))
  BY DEF Poised
<1> HIDE DEF a, R
<1>6. Poised(m, a, ec, s)
  BY <1>1, <1>2, <1>3, <1>5, KidPoised
<1> DEFINE e == Off
<1>7. Asked(a, e, s) /\ (e.cb = "off" => e.f = 0) /\ (e.cb # "off" => e = ec /\ Open(ec, s))
  BY <1>2, <1>4
<1> HIDE DEF e
<1>8. Poised(m, a, e, s)
  BY <1>1, <1>3, <1>7, KidPoised
<1> QED  BY <1>6, <1>8 DEF a, e

\* A node that records nothing, walked outside the frame.
LEMMA AsideTallied ==
  ASSUME Graph(tree), NEW m, NEW n \in DOMAIN tree \ Heads(tree), Span(n) = {}, Cut(n) = 0,
         NEW ec, NEW s, Poised(m, n, ec, s), NEW u, Loose(m, Under(tree, n), s, u, Below(n))
  PROVE  Tallied(m, n, ec, s, u)
<1> DEFINE R == Under(tree, n)
           D == Below(n)
<1>1. CASE ec.cb = "off"
  BY <1>1 DEF Tallied
<1>2. CASE ec.cb # "off"
  <2>1. /\ s \in States(tree) /\ ec.f \in Heads(tree) /\ (ec.cb = "lend" => s.cbs[ec.f] # None)
    BY <1>2, PoisedFits
  <2>2. Open(ec, s) /\ ec.f >= n
    BY <1>2 DEF Poised
  <2>3. ec.f \notin R
    <3>1. ec.f # n /\ ec.f \in Nat /\ n \in Nat
      BY <2>1 DEF Heads, Graph
    <3>2. R \subseteq 1..n
      BY UnderOf DEF Under
    <3> HIDE DEF R
    <3> QED  BY <2>2, <3>1, <3>2
  <2>4. Loose(m, R, s, u, D) /\ D \ Span(n) = D
    OBVIOUS
  <2> HIDE DEF R, D
  <2>5. Spanned(m, R, ec, s, u, D, {}, 0)
    BY <2>1, <2>2, <2>3, <2>4, Aside
  <2> QED  BY <1>2, <2>4, <2>5 DEF Tallied, R, D
<1> QED  BY <1>1, <1>2

\* A wrapper that walks its kid as it is asked.
LEMMA PassesOn ==
  ASSUME Graph(tree), NEW m, NEW n \in DOMAIN tree, tree[n].k \in {"arced", "profiled"},
         NEW ec, NEW s, Poised(m, n, ec, s), NEW t, Tallied(m, Source(tree, n), ec, s, t), NEW u, Quiet(m, t, u)
  PROVE  Tallied(m, n, ec, s, u)
<1> DEFINE a == Source(tree, n)
           A == Under(tree, a)
           R == Under(tree, n)
<1>0. tree[n].k \in Wrappers /\ tree[n].k # "host"
  BY DEF Wrappers
<1>1. A \subseteq R
  BY <1>0, UnderOf
<1>2. Below(n) = Below(a) /\ Span(n) = Span(a) /\ Cut(n) = Cut(a) /\ Cut(n) \in {0, 1}
  BY <1>0, BelowOf, SpansOf, SpanWithin
<1>3. Tallied(m, a, ec, s, t)
  OBVIOUS
<1>4. Tallied(m, n, ec, s, t)
  <2>1. CASE ec.cb = "off"
    <3>1. Loose(m, A, s, t, Below(n)) /\ AllFit(m, R, s)
      BY <1>2, <1>3, <2>1, PoisedOff DEF Tallied
    <3> HIDE DEF A, R
    <3>2. Loose(m, R, s, t, Below(n))
      BY <1>1, <3>1, LooseWider
    <3> QED  BY <2>1, <3>2 DEF Tallied, R
  <2>2. CASE ec.cb # "off"
    <3> DEFINE P == Span(n)
               D == Below(n) \ P
               cut == Cut(n)
    <3>1. Spanned(m, A, ec, s, t, D, P, cut) /\ AllFit(m, R \ {ec.f}, s)
      BY <1>2, <1>3, <2>2, PoisedFits DEF Tallied
    <3>2. cut = 0 \/ cut = 1
      BY <1>2
    <3> HIDE DEF A, R, P, D, cut
    <3>3. (t.ok => D = D /\ P = P /\ cut = cut) /\ (cut = 1 => cut = 1 /\ P = P)
      OBVIOUS
    <3>4. Spanned(m, R, ec, s, t, D, P, cut)
      BY <1>1, <3>1, <3>2, <3>3, SpannedWider
    <3> QED  BY <2>2, <3>4 DEF Tallied, R, P, D, cut
  <2> QED  BY <2>1, <2>2
<1> QED  BY <1>4, QuietTallied

\* A wrapper that walks its kid outside any frame.
LEMMA WalksAside ==
  ASSUME Graph(tree), NEW m, NEW n \in DOMAIN tree, tree[n].k \in {"host", "route"},
         NEW ec, NEW s, Poised(m, n, ec, s)
  PROVE  LET a == Source(tree, n) IN
         /\ n \notin Heads(tree) /\ Span(n) = {} /\ Cut(n) = 0 /\ s \in States(tree) /\ AllFit(m, Under(tree, n), s)
         /\ Under(tree, a) \subseteq Under(tree, n)
         /\ Below(n) = Below(a) \cup (IF tree[n].k = "host" THEN {n} ELSE {}) /\ n \notin Below(a)
<1> DEFINE a == Source(tree, n)
<1>0. tree[n].k \in Wrappers /\ n \notin Heads(tree) /\ tree[n].k \notin {"fill", "copy"}
  BY DEF Wrappers, Heads
<1>1. Under(tree, n) = Under(tree, a) \cup {n}
  BY <1>0, UnderOf
<1>2. Below(n) = Below(a) \cup (IF tree[n].k = "host" THEN {n} ELSE {}) /\ n \notin Below(a)
  BY <1>0, BelowOf
<1>3. Span(n) = {} /\ Cut(n) = 0
  BY <1>0, SpansOf
<1>4. s \in States(tree) /\ AllFit(m, Under(tree, n), s)
  <2>1. s \in States(tree) /\ AllFit(m, Under(tree, n) \ {ec.f}, s)
    BY PoisedFits
  <2>2. ec.f \in Heads(tree) \cap Under(tree, n) => FALSE
    <3>1. CASE ec.cb = "off"
      <4>1. ec.f = 0
        BY <3>1 DEF Poised
      <4> QED  BY <4>1 DEF Heads, Graph
    <3>2. CASE ec.cb # "off"
      <4>1. ec.f >= n /\ ec.f \in Heads(tree)
        BY <3>2, PoisedFits DEF Poised
      <4>2. ec.f \in Nat /\ n \in Nat /\ ec.f # n /\ Under(tree, n) \subseteq 1..n
        BY <1>0, <4>1, UnderOf DEF Heads, Graph, Under
      <4> QED  BY <4>1, <4>2
    <3> QED  BY <3>1, <3>2
  <2> QED  BY <2>1, <2>2 DEF AllFit
<1> HIDE DEF a
<1> QED  BY <1>0, <1>1, <1>2, <1>3, <1>4 DEF a

\* One command.
LEMMA OneMore ==
  ASSUME NEW m, NEW n, NEW A, NEW s \in States(tree), NEW u, AllFit(m, A, s),
         Enqueued(m, s, u, Is(m, {n})), u.cbs = s.cbs, u.fr = s.fr
  PROVE  Loose(m, A, s, u, {n})
<1>1. Is(m, {n}) \in Amounts(m, {n})
  BY DEF Is, Amounts
<1> DEFINE d == Is(m, {n})
<1>2. d \in Nat /\ (u.ok => Times(u.log, m) = Times(s.log, m) + d)
  BY DEF Is, Enqueued
<1>3. Times(s.log, m) \in Nat
  <2>1. s.log \in Seq(Entries)
    BY StateOf
  <2> QED  BY <2>1, TimesOf
<1>4. d \in Amounts(m, {n})
  BY <1>1
<1> HIDE DEF d
<1>5. u.ok => Times(u.log, m) = Times(s.log, m) + d + 0
  BY <1>2, <1>3
<1>6. Grows(m, s, u, {n}, 0)
  BY <1>4, <1>5 DEF Grows
<1>7. Steady(s, u)
  BY DEF Steady, Enqueued
<1>8. Apart(A, s, u) /\ AllFit(m, A, u)
  BY DEF Apart, AllFit, Fit
<1> QED  BY <1>6, <1>7, <1>8 DEF Loose

\* What follows once a value has been put or waited for.
LEMMA PutStill ==
  ASSUME NEW s, NEW t, Still(s, t), NEW c, NEW v, NEW D, NEW n
  PROVE  Still(s, Put(t, c, v, D)) /\ Still(s, PutAll(t, n, v, D)) /\ Still(s, WaitFor(t, D))
<1>1. Fields \subseteq DOMAIN t
  BY DEF Still
<1>2. Still(t, Put(t, c, v, D)) /\ Still(t, PutAll(t, n, v, D)) /\ Still(t, WaitFor(t, D))
  BY <1>1, StillPut, StillWaited
<1> DEFINE x == Put(t, c, v, D)
           y == PutAll(t, n, v, D)
           z == WaitFor(t, D)
<1> HIDE DEF x, y, z
<1>3. Still(s, x) /\ Still(s, y) /\ Still(s, z)
  BY <1>2, StillTrans DEF x, y, z
<1> QED  BY <1>3 DEF x, y, z

\* A host seam: its one command after those below it.
LEMMA SeamTallies ==
  ASSUME Graph(tree), NEW m, NEW n \in DOMAIN tree, tree[n].k = "host", NEW ec, NEW s, Poised(m, n, ec, s),
         NEW r, Gathers(Source(tree, n), s, r),
         Loose(m, Under(tree, Source(tree, n)), s, r.s, Below(Source(tree, n)))
  PROVE  LET z == SeamAfter(n, r).s IN Loose(m, Under(tree, n), s, z, Below(n)) /\ Fields \subseteq DOMAIN z
<1> DEFINE a == Source(tree, n)
           A == Under(tree, a)
           B == {}
           R == Under(tree, n)
           D == Below(a)
           t == r.s
           on == Bufs(r.got)
           deps == r.deps
           out == OutCells(tree)[a]
           u == Enqueue(t, n, on, deps)
           v == Reaches(u, n, out)
           z == SeamAfter(n, r).s
<1>1. s \in States(tree) /\ AllFit(m, R, s) /\ A \subseteq R /\ Below(n) = D \cup {n} /\ n \notin D
  BY WalksAside
<1>2. t \in States(tree) /\ deps \in SUBSET Nat
  BY DEF Gathers, Kept
<1>3. Loose(m, A, s, t, D) /\ Fields \subseteq DOMAIN t
  BY <1>2, FieldsOf
<1>4. CASE ~t.ok
  <2>1. z = t
    BY <1>4 DEF SeamAfter
  <2> HIDE DEF z, A, R, D
  <2>2. Loose(m, R, s, t, Below(n))
    BY <1>1, <1>3, <1>4, LooseWider
  <2> QED  BY <1>3, <2>1, <2>2 DEF z, R
<1>5. CASE t.ok
  <2>1. on \in SUBSET Contents
    <3>1. tree[n].k \in Wrappers
      BY DEF Wrappers
    <3>2. \A i \in DOMAIN r.got : r.got[i].v \in Contents
      BY <1>5, <3>1, WrapFits DEF Held
    <3> QED  BY <3>2 DEF Bufs
  <2>2. n \in Nat /\ SeamAfter(n, r) = Gathered(v, r.got)
    BY <1>5 DEF Graph, SeamAfter
  <2>3. A \cup B \subseteq R /\ A \cap B = {} /\ D \cap {n} = {} /\ AllFit(m, B, t)
    BY <1>1 DEF AllFit
  <2> HIDE DEF A, B, R, D, t, on, deps, u, v, out, z
  <2>4. Enqueued(m, t, u, Is(m, {n})) /\ u.cbs = t.cbs /\ u.fr = t.fr
    BY <1>2, <2>1, <2>2, EnqueueEnqueues DEF u
  <2>5. Loose(m, B, t, u, {n})
    BY <1>2, <2>2, <2>3, <2>4, OneMore
  <2>6. Loose(m, R, s, u, D \cup {n})
    BY <1>1, <1>3, <1>5, <2>3, <2>5, LooseThen
  <2>7. Still(u, v)
    <3>1. Fields \subseteq DOMAIN u
      BY <2>4, FieldsOf DEF Enqueued
    <3> QED  BY <3>1, StillTraced DEF v
  <2>8. Fields \subseteq DOMAIN v
    BY <2>7 DEF Still
  <2>9. Still(v, z)
    BY <2>2, <2>8, GatheredStill DEF z
  <2>10. Still(u, z) /\ Still(s, s)
    BY <1>1, <2>7, <2>9, StillTrans, FieldsOf DEF Still
  <2>11. Loose(m, R, s, z, D \cup {n})
    BY <2>6, <2>10, StillLoose
  <2> QED  BY <1>1, <2>9, <2>11 DEF Still, R, z
<1> QED  BY <1>4, <1>5

LEMMA WrapperTallies ==
  ASSUME Graph(tree), ProfilesKeep(tree), ArcsUnbroken(tree), NEW m \in Nat \ {0},
         NEW n \in DOMAIN tree, tree[n].k \in Wrappers, NEW w, Obeys(w[1], Source(tree, n)), Tallies(m, w[1], Source(tree, n)),
         NEW ec, NEW mode \in Modes, NEW s, Poised(m, n, ec, s)
  PROVE  /\ Tallied(m, n, ec, s, Execute(n, w, ec, mode, s))
         /\ tree[n].k = "host" => Tallied(m, n, ec, s, Seam(n, w, s).s)
<1> DEFINE a == Source(tree, n)
           v == w[1]
<1>1. Poised(m, a, ec, s) /\ Poised(m, a, Off, s) /\ "pipelined" \in Modes
  BY WrapPoised DEF Modes
<1>2. Asked(a, ec, s) /\ Asked(a, Off, s)
  BY <1>1 DEF Poised
<1>3. Obeys(v, a) /\ Tallies(m, v, a)
  OBVIOUS
<1>4. ASSUME NEW e, Poised(m, a, e, s), NEW how \in Modes
      PROVE  LET r == Collect(v, e, how, s) IN
             /\ e.cb = "off" \/ Unbroken(tree, a) => Tallied(m, a, e, s, r.s)
             /\ r.s \in States(tree) /\ r.deps \in SUBSET Nat /\ Fields \subseteq DOMAIN r.s
  <2> DEFINE r == Collect(v, e, how, s)
  <2>1. e.cb = "off" \/ Unbroken(tree, a) => Tallied(m, a, e, s, r.s)
    BY <1>3, <1>4 DEF Tallies
  <2>2. Gathers(a, s, r)
    <3>1. Asked(a, e, s)
      BY <1>4 DEF Poised
    <3> QED  BY <1>3, <1>4, <3>1 DEF Obeys
  <2> HIDE DEF r
  <2>3. r.s \in States(tree) /\ r.deps \in SUBSET Nat
    BY <2>2 DEF Gathers, Kept
  <2> QED  BY <2>1, <2>3, FieldsOf DEF r
<1>5. CASE tree[n].k = "arced"
  <2> DEFINE r == Collect(v, ec, "pipelined", s)
             from == OutCells(tree)[a]
             u(D) == Put(r.s, <<n, 1>>, Homeless(r.got[1]), D)
             z == ArcedAfter(n, ec, r)
  <2>0. Unbroken(tree, a)
    BY <1>5 DEF ArcsUnbroken
  <2>1. Tallied(m, a, ec, s, r.s) /\ r.s \in States(tree) /\ Fields \subseteq DOMAIN r.s
    BY <1>1, <1>4, <2>0
  <2>2. Execute(n, w, ec, mode, s) = z
    BY <1>5 DEF Execute, Arced
  <2>3. ec.cb \in {"off", "build", "lend"} /\ r.s.ok \in BOOLEAN
    BY <1>2, <2>1, StateOf DEF Asked, Contexts
  <2>4. \/ z = r.s \/ z = u(r.deps) \/ z = u({}) \/ z = Aliased(u({}), n, ec, from[1])
    <3> HIDE DEF r
    <3> QED  BY <2>3 DEF ArcedAfter
  <2> HIDE DEF r, z, from
  <2>5. ASSUME NEW D PROVE Still(r.s, u(D))
    BY <2>1, StillPut
  <2> HIDE DEF u
  <2>6. Still(u({}), Aliased(u({}), n, ec, from[1]))
    <3>1. Fields \subseteq DOMAIN u({})
      BY <2>5 DEF Still
    <3> QED  BY <3>1, StillTraced
  <2>7. Still(r.s, Aliased(u({}), n, ec, from[1])) /\ Still(r.s, r.s)
    BY <2>1, <2>5, <2>6, StillTrans DEF Still
  <2>8. Still(r.s, z)
    BY <2>4, <2>5, <2>7
  <2>9. Quiet(m, r.s, z)
    BY <2>8, StillQuiet
  <2> DEFINE t == r.s
  <2>10. Tallied(m, a, ec, s, t) /\ Quiet(m, t, z)
    BY <2>1, <2>9
  <2> HIDE DEF t
  <2>11. Tallied(m, n, ec, s, z)
    BY <1>5, <2>10, PassesOn
  <2> QED  BY <1>5, <2>2, <2>11
<1>6. CASE tree[n].k = "profiled"
  <2> DEFINE r == Collect(v, ec, "pipelined", s)
             t == r.s
             deps == r.deps
             j == Join(t, deps)
             x == Put(j, <<n, 1>>, r.got[1], {Newest(j)})
             z == ProfiledAfter(n, r)
  <2>0. Unbroken(tree, a)
    <3>1. tree[a].k # "then" /\ a \in Nat /\ \A i \in Under(tree, a) : i \in Nat /\ i <= a
      <4>1. tree[a].k \in Leaves /\ a \in DOMAIN tree /\ a \in Nat
        BY <1>6, WrapOf, NodesOf DEF ProfilesKeep, ProfilesLeaves, Wrappers
      <4> QED  BY <4>1, UnderOf DEF Leaves
    <3>2. \A i \in Under(tree, a) : a \in i..a
      BY <3>1
    <3> QED  BY <3>1, <3>2 DEF Unbroken
  <2>1. Tallied(m, a, ec, s, t) /\ t \in States(tree) /\ deps \in SUBSET Nat
    BY <1>1, <1>4, <2>0
  <2>2. Execute(n, w, ec, mode, s) = z
    BY <1>6 DEF Execute, Profiled
  <2>3. z = t \/ z = x \/ (~Harmless(t) /\ (z = Failed(t) \/ z = Failed(j)))
    <3>1. Meets(t, "profile", n) \/ Meets(t, "callback", n) => ~Harmless(t)
      <4> HIDE DEF t
      <4> QED  BY DEF Meets, Harmless
    <3> HIDE DEF r
    <3> QED  BY <3>1 DEF ProfiledAfter
  <2> HIDE DEF r, t, deps, z
  <2>4. Quiet(m, t, j) /\ j \in States(tree)
    BY <2>1, JoinQuiet
  <2> HIDE DEF j
  <2>5. Quiet(m, j, x)
    BY <2>4, FieldsOf, StillPut, StillQuiet
  <2>6. ~Harmless(t) => Quiet(m, t, Failed(t)) /\ Quiet(m, j, Failed(j))
    <3>1. Harmless(t) <=> Harmless(j)
      BY <2>4 DEF Quiet, Harmless
    <3> QED  BY <2>1, <2>4, <3>1, StoppedQuiet
  <2> HIDE DEF x
  <2>7. Quiet(m, t, z)
    <3>1. Quiet(m, t, t)
      BY DEF Quiet
    <3> QED  BY <2>3, <2>4, <2>5, <2>6, <3>1, QuietThen
  <2>8. Tallied(m, n, ec, s, z)
    BY <1>6, <2>1, <2>7, PassesOn
  <2> QED  BY <1>6, <2>2, <2>8
<1>7. CASE tree[n].k = "route"
  <2> DEFINE r == Collect(v, Off, mode, s)
             t == r.s
             z == RouteAfter(n, r)
             R == Under(tree, n)
  <2>1. Tallied(m, a, Off, s, t) /\ Fields \subseteq DOMAIN t
    BY <1>1, <1>4 DEF Off
  <2>2. Execute(n, w, ec, mode, s) = z \/ (~Harmless(s) /\ Execute(n, w, ec, mode, s) = Failed(s))
    BY <1>7 DEF Execute, Route, Meets, Harmless
  <2>3. z = IF t.ok THEN Put(t, <<n, 1>>, Homeless(r.got[1]), r.deps) ELSE t
    BY DEF RouteAfter
  <2>4. /\ n \notin Heads(tree) /\ Span(n) = {} /\ Cut(n) = 0 /\ s \in States(tree) /\ AllFit(m, R, s)
        /\ Under(tree, a) \subseteq R /\ Below(n) = Below(a)
    <3>1. /\ n \notin Heads(tree) /\ Span(n) = {} /\ Cut(n) = 0 /\ s \in States(tree) /\ AllFit(m, R, s)
          /\ Under(tree, a) \subseteq R
          /\ Below(n) = Below(a) \cup (IF tree[n].k = "host" THEN {n} ELSE {})
      BY <1>7, WalksAside
    <3>2. tree[n].k # "host"
      BY <1>7
    <3> QED  BY <3>1, <3>2
  <2> HIDE DEF r, t, z
  <2>5. Still(t, z)
    <3>1. Still(t, t)
      BY <2>1 DEF Still
    <3> QED  BY <2>3, <3>1, PutStill
  <2>6. Loose(m, Under(tree, a), s, t, Below(n)) /\ Still(s, s)
    BY <2>1, <2>4, FieldsOf DEF Tallied, Off, Still
  <2>7. Loose(m, R, s, t, Below(n))
    <3> DEFINE A == Under(tree, a)
               D == Below(n)
    <3>1. Loose(m, A, s, t, D) /\ A \subseteq R
      BY <2>4, <2>6
    <3> HIDE DEF A, D, R
    <3>2. Loose(m, R, s, t, D)
      BY <2>4, <3>1, LooseWider
    <3> QED  BY <3>2 DEF D
  <2>8. Loose(m, R, s, z, Below(n))
    BY <2>5, <2>6, <2>7, StillLoose
  <2>9. Tallied(m, n, ec, s, z)
    BY <2>4, <2>8, AsideTallied
  <2>10. ASSUME ~Harmless(s) PROVE Tallied(m, n, ec, s, Failed(s))
    <3>1. Quiet(m, s, Failed(s))
      BY <2>4, <2>10, StoppedQuiet
    <3>2. Loose(m, R, s, Failed(s), Below(n))
      BY <2>4, <2>10, <3>1, StoppedLoose
    <3> QED  BY <2>4, <3>2, AsideTallied
  <2> QED  BY <1>7, <2>2, <2>9, <2>10
<1>8. CASE tree[n].k = "host"
  <2> DEFINE r == GatherChild(a, v, Off, "pipelined", s)
             q == SeamAfter(n, r)
             z == q.s
             y == Executed(n, q)
  <2>1. Seam(n, w, s) = q /\ Execute(n, w, ec, mode, s) = y
    BY <1>8 DEF Seam, Execute
  <2>2. Gathers(a, s, r)
    BY <1>1, <1>2, <1>3, ChildOf
  <2>3. Loose(m, Under(tree, a), s, r.s, Below(a))
    <3> DEFINE u == r.s
               mo == "pipelined"
    <3>1. u = GatherChild(a, v, Off, mo, s).s /\ mo \in Modes
      BY <1>1
    <3> HIDE DEF r, a, v, u, mo
    <3>2. Loose(m, Under(tree, a), s, u, Below(a))
      BY <1>1, <1>3, <3>1, CallsOff
    <3> QED  BY <3>2 DEF u
  <2> HIDE DEF r
  <2>4. Loose(m, Under(tree, n), s, z, Below(n)) /\ Fields \subseteq DOMAIN z
    BY <1>8, <2>2, <2>3, SeamTallies
  <2>5. n \notin Heads(tree) /\ Span(n) = {} /\ Cut(n) = 0
    BY <1>8, WalksAside
  <2> HIDE DEF q
  <2>6. Tallied(m, n, ec, s, z)
    <3> HIDE DEF z
    <3> QED  BY <2>4, <2>5, AsideTallied
  <2>7. Quiet(m, z, y)
    <3>1. Still(z, z)
      BY <2>4 DEF Still
    <3>2. y = IF z.ok THEN PutAll(z, n, q.got, q.deps) ELSE z
      BY DEF Executed
    <3> HIDE DEF z, y
    <3> QED  BY <3>1, <3>2, PutStill, StillQuiet
  <2> HIDE DEF z, y
  <2>8. Tallied(m, n, ec, s, y)
    BY <2>6, <2>7, QuietTallied
  <2> QED  BY <2>1, <2>6, <2>8 DEF z
<1> QED  BY <1>5, <1>6, <1>7, <1>8 DEF Wrappers

-----------------------------------------------------------------------------
(* Leaves: their own command                                               *)

LEMMA LeafAlone ==
  ASSUME Graph(tree), NEW m, NEW n \in DOMAIN tree, tree[n].k \in Leaves, NEW ec, NEW s, Asked(n, ec, s)
  PROVE  /\ Under(tree, n) = {n} /\ n \notin Heads(tree) /\ Below(n) = Commands(tree) \cap {n}
         /\ s \in States(tree) /\ s.ok /\ n \in Nat /\ Still(s, s) /\ \A u : AllFit(m, Under(tree, n), u)
<1>1. n \notin Heads(tree)
  BY DEF Heads, Leaves
<1>2. Under(tree, n) = {n} /\ Below(n) = Commands(tree) \cap {n}
  BY UnderOf, BelowOf
<1>3. s \in States(tree) /\ s.ok /\ n \in Nat
  BY NodesOf DEF Asked
<1> QED  BY <1>1, <1>2, <1>3, FieldsOf DEF Still, AllFit

\* One that enqueues nothing, as an upload that allocates; one that is refused;
\* one that is enqueued.
LEMMA LeafNone ==
  ASSUME Graph(tree), NEW m, NEW n \in DOMAIN tree, tree[n].k \in Leaves, NEW ec, NEW s, Asked(n, ec, s),
         Below(n) = {} \/ tree[n].k = "upload", NEW z, Still(s, z)
  PROVE  Loose(m, Under(tree, n), s, z, Below(n))
<1> DEFINE R == Under(tree, n)
           D == Below(n)
<1>1. /\ s \in States(tree) /\ s.ok /\ (\A u : AllFit(m, R, u)) /\ D \subseteq {n}
  BY LeafAlone
<1>2. 0 \in Amounts(m, D)
  BY <1>1 DEF Amounts
<1> HIDE DEF R, D
<1>3. Times(s.log, m) \in Nat
  <2>1. s.log \in Seq(Entries)
    BY <1>1, StateOf
  <2> QED  BY <2>1, TimesOf
<1>4. Times(z.log, m) = Times(s.log, m) + 0 + 0
  BY <1>3 DEF Still
<1>5. Grows(m, s, z, D, 0)
  BY <1>2, <1>4 DEF Grows
<1> QED  BY <1>1, <1>5 DEF Loose, Steady, Apart, Still, Harmless, R, D

LEMMA LeafRefused ==
  ASSUME Graph(tree), NEW m, NEW n \in DOMAIN tree, tree[n].k \in Leaves, NEW ec, NEW s, Asked(n, ec, s),
         Refused(s, n), NEW t, Still(s, t)
  PROVE  Loose(m, Under(tree, n), s, Failed(t), Below(n))
<1> DEFINE z == Failed(t)
<1>1. z.ok = FALSE /\ z.fault = s.fault /\ z.cbs = s.cbs /\ z.fr = s.fr
  BY FailedFields DEF Still
<1>2. ~Harmless(s) /\ \A u : AllFit(m, Under(tree, n), u)
  BY RefusedHarms, LeafAlone
<1> HIDE DEF z
<1> QED  BY <1>1, <1>2 DEF Loose, Steady, Apart, Grows, z

LEMMA LeafOnce ==
  ASSUME Graph(tree), NEW m, NEW n \in DOMAIN tree, tree[n].k \in Leaves, NEW ec, NEW s, Asked(n, ec, s),
         Below(n) = {n}, NEW t \in States(tree), Still(s, t), NEW on \in SUBSET Contents, NEW D \in SUBSET Nat,
         NEW z, Still(Enqueue(t, n, on, D), z)
  PROVE  Loose(m, Under(tree, n), s, z, Below(n))
<1> DEFINE u == Enqueue(t, n, on, D)
           R == Under(tree, n)
<1>1. n \in Nat /\ Still(s, s) /\ AllFit(m, R, t)
  BY LeafAlone
<1>2. Enqueued(m, t, u, Is(m, {n})) /\ u.cbs = t.cbs /\ u.fr = t.fr /\ Still(u, z)
  BY <1>1, EnqueueEnqueues
<1> HIDE DEF u, R
<1>3. Loose(m, R, t, u, {n})
  BY <1>1, <1>2, OneMore
<1> QED  BY <1>1, <1>2, <1>3, StillLoose DEF R

LEMMA LentStill ==
  ASSUME Graph(tree), NEW n \in DOMAIN tree, tree[n].k \in Takers, NEW ec, NEW s, Asked(n, ec, s), NEW vs
  PROVE  LET t == LentAll(s, n) IN
         /\ t \in States(tree) /\ Still(s, t) /\ Still(s, RehomeAll(t, vs))
<1> DEFINE t == LentAll(s, n)
<1>1. s \in States(tree)
  BY DEF Asked
<1>2. t \in States(tree)
  BY <1>1, LentOf
<1>3. Still(s, t)
  BY <1>1, FieldsOf, StillHomes
<1> HIDE DEF t
<1>4. Still(t, RehomeAll(t, vs))
  BY <1>2, FieldsOf, StillHomes
<1>5. Still(s, RehomeAll(t, vs))
  BY <1>3, <1>4, StillTrans
<1> QED  BY <1>2, <1>3, <1>5 DEF t

LEMMA WriteTallies ==
  ASSUME Graph(tree), NEW m, NEW n \in DOMAIN tree, tree[n].k = "write", NEW ec, NEW mode, NEW s, Asked(n, ec, s)
  PROVE  Loose(m, Under(tree, n), s, Write(n, mode, s), Below(n))
<1> DEFINE vs == Values(s, n)
           t == LentAll(s, n)
           D == DepsOf(vs)
           B == Bufs(vs)
           u == Enqueue(t, n, B, D)
           e == Newest(u)
<1>0. tree[n].k \in Takers /\ tree[n].k \in Leaves
  BY DEF Takers, Leaves
<1>1. D \in SUBSET Nat /\ B \in SUBSET Contents
  BY <1>0, ValuesOf
<1>2. t \in States(tree) /\ Still(s, t) /\ Still(s, RehomeAll(t, vs))
  BY <1>0, LentStill
<1>3. \/ Refused(s, n) /\ Write(n, mode, s) = Failed(RehomeAll(t, vs))
      \/ Write(n, mode, s) = PutAll(WaitFor(u, {e}), n, vs, {})
      \/ Write(n, mode, s) = PutAll(u, n, vs, {e})
  BY DEF Write
<1>4. Below(n) = {n}
  BY <1>0, LeafAlone DEF Commands
<1> HIDE DEF vs, t, D, B
<1>5. CASE Refused(s, n) /\ Write(n, mode, s) = Failed(RehomeAll(t, vs))
  BY <1>0, <1>2, <1>5, LeafRefused
<1>6. Still(u, u)
  <2>1. u \in States(tree)
    BY <1>0, <1>1, <1>2, LeafAlone, EnqueueOf
  <2> HIDE DEF u
  <2> QED  BY <2>1, FieldsOf DEF Still
<1>7. ASSUME NEW z, Still(u, z) PROVE Loose(m, Under(tree, n), s, z, Below(n))
  BY <1>0, <1>1, <1>2, <1>4, <1>7, LeafOnce
<1> HIDE DEF u, e
<1>8. Still(u, PutAll(u, n, vs, {e})) /\ Still(u, WaitFor(u, {e}))
  BY <1>6, PutStill
<1>9. Still(u, PutAll(WaitFor(u, {e}), n, vs, {}))
  BY <1>8, PutStill
<1> QED  BY <1>3, <1>5, <1>7, <1>8, <1>9

LEMMA MintTallies ==
  ASSUME Graph(tree), NEW m, NEW n \in DOMAIN tree, tree[n].k = "mint", NEW ec, NEW s, Asked(n, ec, s)
  PROVE  Loose(m, Under(tree, n), s, Mint(n, s), Below(n))
<1> DEFINE v == [v |-> <<tree[n].on[1], minted>>, home |-> Nowhere]
           z == Put(s, <<n, 1>>, v, {})
<1>0. tree[n].k \in Leaves /\ Still(s, s)
  BY LeafAlone DEF Leaves
<1>1. Below(n) = {}
  BY <1>0, LeafAlone DEF Commands
<1>2. (Refused(s, n) /\ Mint(n, s) = Failed(s)) \/ Mint(n, s) = z
  BY DEF Mint
<1> HIDE DEF v
<1>3. Still(s, z)
  BY <1>0, PutStill
<1> HIDE DEF z
<1>4. Loose(m, Under(tree, n), s, z, Below(n))
  BY <1>0, <1>1, <1>3, LeafNone
<1>5. Refused(s, n) => Loose(m, Under(tree, n), s, Failed(s), Below(n))
  BY <1>0, LeafRefused
<1> QED  BY <1>2, <1>4, <1>5

LEMMA UploadTallies ==
  ASSUME Graph(tree), NEW m, NEW n \in DOMAIN tree, tree[n].k = "upload", NEW ec, NEW s, Asked(n, ec, s)
  PROVE  Loose(m, Under(tree, n), s, Upload(n, s), Below(n))
<1> DEFINE x == tree[n].on[1]
           v == [v |-> <<x, 0>>, home |-> x]
           c == <<n, 1>>
           t == [s EXCEPT !.slots[x] = None]
           on == {v.v}
           D == {}
           u == Enqueue(t, n, on, D)
           e == Newest(u)
           y == Put(t, c, v, {})
           z == Put(WaitFor(u, {e}), c, v, {})
<1>0. tree[n].k \in Leaves /\ s \in States(tree) /\ x \in Slots /\ n \in Nat /\ Still(s, s)
  <2>1. tree[n].k \in Leaves
    BY DEF Leaves
  <2>2. x \in Slots
    BY <2>1, SingleOf, OwnOf
  <2> HIDE DEF x
  <2> QED  BY <2>1, <2>2, LeafAlone
<1>1. Below(n) = {n}
  BY <1>0, LeafAlone DEF Commands
<1>2. s.slots[x] # None
  <2>1. Uses(tree, n) = {<<"slot", x>>}
    BY <1>0, InletsOf, FlowOf DEF Inlets
  <2>2. x \in UsedSlots(tree, n)
    BY <1>0, <2>1 DEF UsedSlots
  <2> QED  BY <2>2 DEF Asked
<1>3. /\ t \in States(tree) /\ Still(s, t)
  <2> DEFINE at == [s.slots EXCEPT ![x] = None]
  <2>1. at \in [Slots -> Contents]
    BY <1>0, StateOf DEF Contents
  <2>2. t = [s EXCEPT !.slots = at]
    OBVIOUS
  <2> HIDE DEF at, t
  <2> QED  BY <1>0, <2>1, <2>2, SetSlots, FieldsOf, StillMoved
<1>4. on \in SUBSET Contents /\ D \in SUBSET Nat
  BY <1>0 DEF Contents, Buffers
<1>5. (Refused(s, n) /\ Upload(n, s) = Failed(s)) \/ Upload(n, s) = y \/ Upload(n, s) = z
  BY <1>2 DEF Upload
<1> HIDE DEF x, v, t, on, D, c
<1>6. u \in States(tree)
  BY <1>0, <1>3, <1>4, EnqueueOf
<1>7. ASSUME NEW w, Still(u, w) PROVE Loose(m, Under(tree, n), s, w, Below(n))
  BY <1>0, <1>1, <1>3, <1>4, <1>7, LeafOnce
<1> HIDE DEF u, e
<1>8. Still(u, z) /\ Still(s, y)
  <2>1. Still(u, u)
    BY <1>6, FieldsOf DEF Still
  <2>2. Still(u, WaitFor(u, {e}))
    BY <2>1, PutStill
  <2> QED  BY <1>3, <2>2, PutStill
<1> HIDE DEF y, z
<1>9. Loose(m, Under(tree, n), s, y, Below(n))
  BY <1>0, <1>8, LeafNone
<1>10. Refused(s, n) => Loose(m, Under(tree, n), s, Failed(s), Below(n))
  BY <1>0, LeafRefused
<1> QED  BY <1>5, <1>7, <1>8, <1>9, <1>10

LEMMA DownloadTallies ==
  ASSUME Graph(tree), NEW m, NEW n \in DOMAIN tree, tree[n].k = "download", NEW ec, NEW mode, NEW s, Asked(n, ec, s)
  PROVE  Loose(m, Under(tree, n), s, Download(n, mode, s), Below(n))
<1> DEFINE v == Value(s, In(n)[1])
           w == LentAll(s, n)
           vs == <<v>>
           t == RehomeAll(w, vs)
           on == {v.v}
           D == v.deps
           u == Enqueue(t, n, on, D)
           e == Newest(u)
           host == [v |-> None, home |-> Nowhere]
           c == <<n, 1>>
           y == Put(WaitFor(u, {e}), c, host, {})
           z == Put(u, c, host, {e})
<1>0. /\ tree[n].k \in Takers /\ tree[n].k \in Leaves /\ n \in Nat
      /\ v \in Held /\ Sound(v) /\ D \in SUBSET Nat /\ on \in SUBSET Contents
  BY InputOf DEF Leaves
<1>1. Below(n) = {n}
  BY <1>0, LeafAlone DEF Commands
<1>2. (Refused(s, n) /\ Download(n, mode, s) = Failed(t)) \/ Download(n, mode, s) = y \/ Download(n, mode, s) = z
  BY DEF Download
<1>3. w \in States(tree) /\ Still(s, t)
  BY <1>0, LentStill
<1>4. t \in States(tree)
  <2>1. Range(vs) = {v}
    BY DEF Range
  <2>2. Range(vs) \subseteq Held /\ \A b \in Range(vs) : Sound(b)
    BY <1>0, <2>1
  <2> HIDE DEF vs, w
  <2> QED  BY <1>3, <2>2, RehomeAllOf
<1> HIDE DEF v, w, vs, t, on, D, host, c
<1>5. u \in States(tree)
  BY <1>0, <1>4, EnqueueOf
<1>6. ASSUME NEW q, Still(u, q) PROVE Loose(m, Under(tree, n), s, q, Below(n))
  BY <1>0, <1>1, <1>3, <1>4, <1>6, LeafOnce
<1> HIDE DEF u, e
<1>7. Still(u, y) /\ Still(u, z)
  <2>1. Still(u, u)
    BY <1>5, FieldsOf DEF Still
  <2>2. Still(u, WaitFor(u, {e}))
    BY <2>1, PutStill
  <2> QED  BY <2>1, <2>2, PutStill
<1> HIDE DEF y, z
<1>8. Refused(s, n) => Loose(m, Under(tree, n), s, Failed(t), Below(n))
  BY <1>0, <1>3, LeafRefused
<1> QED  BY <1>2, <1>6, <1>7, <1>8

LEMMA FramedStill ==
  ASSUME NEW m, NEW f, NEW s, NEW t, NEW u, NEW v, NEW k, Still(s, t), Framed(m, f, t, u, k), Still(u, v)
  PROVE  Framed(m, f, s, v, k)
BY DEF Still, Framed

LEMMA FramedThen ==
  ASSUME NEW m, NEW f \in Heads(tree), NEW s \in States(tree), NEW t, NEW u, NEW k \in Nat,
         Framed(m, f, s, t, k), Framed(m, f, t, u, 0)
  PROVE  Framed(m, f, s, u, k)
<1>1. Times(s.fr[f].rec, m) \in Nat
  <2>1. s.fr[f].rec \in Seq(Recorded)
    BY StateOf DEF Frames
  <2> QED  BY <2>1, TimesOf
<1>2. Times(u.fr[f].rec, m) = Times(s.fr[f].rec, m) + k
  BY <1>1 DEF Framed
<1> QED  BY <1>2 DEF Framed

\* What a leaf records in an open frame, or leaves to what is kept.
LEMMA FramedSpanned ==
  ASSUME Graph(tree), NEW m, NEW n \in DOMAIN tree, tree[n].k \in Leaves, NEW ec, NEW s, Asked(n, ec, s),
         ec.cb # "off", Open(ec, s), NEW P, Below(n) \ P = {}, NEW u,
         NEW k \in Nat, Framed(m, ec.f, s, u, k), ec.cb = "build" => k = Is(m, P)
  PROVE  Spanned(m, Under(tree, n), ec, s, u, Below(n) \ P, P, 0)
<1> DEFINE R == Under(tree, n)
           f == ec.f
           D == Below(n) \ P
<1>1. s \in States(tree) /\ D = {} /\ \A q : AllFit(m, R, q)
  BY LeafAlone
<1> HIDE DEF R, D
<1>2. Times(s.log, m) \in Nat
  <2>1. s.log \in Seq(Entries)
    BY <1>1, StateOf
  <2> QED  BY <2>1, TimesOf
<1>3. Grows(m, s, u, D, 0)
  <2>1. 0 \in Amounts(m, D)
    BY <1>1 DEF Amounts
  <2>2. Times(u.log, m) = Times(s.log, m) + 0 + 0
    BY <1>2 DEF Framed
  <2> QED  BY <2>1, <2>2 DEF Grows
<1>4. Steady(s, u) /\ Apart(R \cup {f}, s, u) /\ AllFit(m, R \ {f}, u)
  BY <1>1 DEF Steady, Apart, AllFit, Framed, Harmless
<1>5. ec.cb = "lend" => Lends(m, ec, s, u, P, 0)
  BY DEF Lends, Framed, Open
<1>6. ec.cb = "build" => Builds(m, ec, s, u, P, 0)
  BY DEF Builds, Framed, Open
<1> QED  BY <1>3, <1>4, <1>5, <1>6 DEF Spanned, R, D

LEMMA ExternalFramed ==
  ASSUME NEW m, NEW s \in States(tree), NEW ec, ec.f \in Heads(tree), NEW D
  PROVE  Framed(m, ec.f, s, External(s, ec, D), 0)
<1> DEFINE f == ec.f
           z == [s.fr[f] EXCEPT !.ext = @ \cup D]
           fr == [s.fr EXCEPT ![f] = z]
           u == [s EXCEPT !.fr = fr]
<1>1. s.fr \in [Heads(tree) -> Frames] /\ s.fr[f] \in Frames /\ Fields \subseteq DOMAIN s
  BY StateOf, FieldsOf
<1>2. z.closed = s.fr[f].closed /\ z.rec = s.fr[f].rec /\ z.sealed = s.fr[f].sealed
  BY <1>1 DEF Frames
<1>3. u = External(s, ec, D)
  BY DEF External
<1>4. Times(s.fr[f].rec, m) \in Nat
  <2>1. s.fr[f].rec \in Seq(Recorded)
    BY <1>1 DEF Frames
  <2> QED  BY <2>1, TimesOf
<1> HIDE DEF z
<1>5. fr[f] = z /\ \A g \in Heads(tree) \ {f} : fr[g] = s.fr[g]
  BY <1>1
<1> HIDE DEF fr
<1>6. /\ Fields \subseteq DOMAIN u /\ u.ok = s.ok /\ u.fault = s.fault /\ u.cbs = s.cbs /\ u.log = s.log
      /\ u.fr = fr
  BY <1>1, FrameFields
<1> HIDE DEF u
<1>7. Times(z.rec, m) = Times(s.fr[f].rec, m) + 0
  BY <1>2, <1>4
<1> QED  BY <1>2, <1>3, <1>5, <1>6, <1>7 DEF Framed

LEMMA RecordFramed ==
  ASSUME Graph(tree), NEW m, NEW n \in DOMAIN tree, tree[n].k \in Takers, NEW ec, ec.f \in Heads(tree),
         NEW s \in States(tree), NEW vs, Bufs(vs) \in SUBSET Contents
  PROVE  Framed(m, ec.f, s, Record(s, ec, n, vs), Is(m, {n}))
<1> DEFINE ins == In(n)
           L == Len(tree[n].on)
           f == ec.f
           waits == UNION {Points(s, ec, ins[i]) : i \in DOMAIN ins}
           origins == UNION {Origins(s, ins[i]) : i \in DOMAIN ins}
           e == Len(s.fr[f].rec) + 1
           cmd == [n |-> n, on |-> Bufs(vs), waits |-> waits]
           able == s.fault \notin {"record", "decline", "reject"} \X {n}
           driven == Meets(s, "record", n)
           g == [s.fr[f] EXCEPT !.rec = Append(@, cmd), !.slots = @ \cup origins,
                                !.eligible = @ /\ able, !.driver = @ \/ driven]
           fr == [s.fr EXCEPT ![f] = g]
           reach == [c \in DOMAIN s.reach |-> IF c[1] = n THEN s.reach[c] \cup Origins(s, ins[c[2]]) ELSE s.reach[c]]
           row == [c \in DOMAIN s.sp[f] |-> IF c[1] = n THEN {e} ELSE s.sp[f][c]]
           sp == [s.sp EXCEPT ![f] = row]
<1>0. /\ s.fr \in [Heads(tree) -> Frames] /\ s.fr[f] \in Frames /\ n \in Nat /\ L \in Nat
      /\ Fields \subseteq DOMAIN s
  BY NodesOf, StateOf, OwnOf, FieldsOf
<1>1. ins \in Seq(Inputs) /\ Len(ins) = L
  BY InletsOf DEF Takers, In
<1>3. ASSUME NEW i \in 1..L
      PROVE  Points(s, ec, ins[i]) \in SUBSET Nat
  BY PointsOf
<1>4. DOMAIN ins = 1..L
  BY <1>0, <1>1
<1>5. Record(s, ec, n, vs) = [[[s EXCEPT !.fr = fr] EXCEPT !.reach = reach] EXCEPT !.sp = sp]
  <2> DEFINE at(c) == Origins(s, ins[c[2]])
             a == [s EXCEPT !.fr[f] = g]
             b == [a EXCEPT !.reach = reach]
  <2>1. Record(s, ec, n, vs) = [s EXCEPT !.fr[f] = g, !.reach = reach, !.sp[f] = row]
    BY DEF Record
  <2> HIDE DEF f, g, reach, row
  <2>2. a = [s EXCEPT !.fr = fr]
    OBVIOUS
  <2>3. b.sp = s.sp /\ Record(s, ec, n, vs) = [b EXCEPT !.sp[f] = row]
    BY <2>1
  <2>4. [b EXCEPT !.sp[f] = row] = [b EXCEPT !.sp = [b.sp EXCEPT ![f] = row]]
    OBVIOUS
  <2> QED  BY <2>2, <2>3, <2>4
<1> HIDE DEF ins
<1>6. waits \in SUBSET Nat
  BY <1>3, <1>4
<1> HIDE DEF waits, origins
<1>7. s.fr[f].rec \in Seq(Recorded) /\ cmd \in Recorded /\ cmd.n = n
  BY <1>0, <1>6 DEF Frames, Recorded
<1> HIDE DEF cmd, e, able, driven
<1>8. g.rec = Append(s.fr[f].rec, cmd) /\ g.closed = s.fr[f].closed /\ g.sealed = s.fr[f].sealed
  BY <1>0 DEF Frames
<1> HIDE DEF g
<1>9. Times(g.rec, m) = Times(s.fr[f].rec, m) + Is(m, {n})
  <2>1. Times(Append(s.fr[f].rec, cmd), m) = Times(s.fr[f].rec, m) + (IF cmd.n = m THEN 1 ELSE 0)
    BY <1>7, TimesAppend
  <2>2. (IF cmd.n = m THEN 1 ELSE 0) = Is(m, {n})
    BY <1>7 DEF Is
  <2> QED  BY <1>8, <2>1, <2>2
<1>10. fr[f] = g /\ \A h \in Heads(tree) \ {f} : fr[h] = s.fr[h]
  BY <1>0
<1> HIDE DEF fr, reach, sp
<1> DEFINE a == [s EXCEPT !.fr = fr]
           b == [a EXCEPT !.reach = reach]
           u == [b EXCEPT !.sp = sp]
<1>11. /\ Fields \subseteq DOMAIN a /\ a.ok = s.ok /\ a.fault = s.fault /\ a.cbs = s.cbs /\ a.log = s.log
       /\ a.fr = fr
  BY <1>0, FrameFields
<1> HIDE DEF a
<1>12. /\ Fields \subseteq DOMAIN b /\ b.ok = s.ok /\ b.fault = s.fault /\ b.cbs = s.cbs /\ b.log = s.log
       /\ b.fr = fr
  BY <1>11 DEF Fields
<1> HIDE DEF b
<1>13. /\ Fields \subseteq DOMAIN u /\ u.ok = s.ok /\ u.fault = s.fault /\ u.cbs = s.cbs /\ u.log = s.log
       /\ u.fr = fr
  BY <1>12 DEF Fields
<1>14. Record(s, ec, n, vs) = u
  BY <1>5 DEF a, b
<1> HIDE DEF u
<1> QED  BY <1>8, <1>9, <1>10, <1>13, <1>14 DEF Framed

\* A fill or a copy is recorded, is in what is kept, or is enqueued.
LEMMA AddablesTallies ==
  ASSUME Graph(tree), NEW m, NEW n \in DOMAIN tree, tree[n].k \in {"fill", "copy"}, NEW ec, NEW mode, NEW s,
         Poised(m, n, ec, s)
  PROVE  Tallied(m, n, ec, s, Addables(n, ec, mode, s))
<1> DEFINE vs == Values(s, n)
           t == LentAll(s, n)
           D == DepsOf(vs)
           B == Bufs(vs)
           f == ec.f
<1>0. tree[n].k \in Takers /\ tree[n].k \in Leaves /\ Asked(n, ec, s)
  BY DEF Takers, Leaves, Poised
<1>1. D \in SUBSET Nat /\ B \in SUBSET Contents
  BY <1>0, ValuesOf
<1>2. t \in States(tree) /\ Still(s, t) /\ Still(s, RehomeAll(t, vs))
  BY <1>0, LentStill
<1>3. Below(n) = {n} /\ Span(n) = {n} /\ Cut(n) = 0
  BY <1>0, LeafAlone, SpansOf DEF Commands
<1>4. ec.cb # "off" => ec.cb \in {"build", "lend"} /\ f \in Heads(tree) /\ Open(ec, s)
  BY <1>0 DEF Poised, Asked, Contexts
<1>5. ASSUME ec.cb # "off", NEW z, NEW k \in Nat, Framed(m, f, s, z, k), ec.cb = "build" => k = Is(m, {n})
      PROVE  Tallied(m, n, ec, s, z)
  <2>1. Below(n) \ {n} = {} /\ Open(ec, s)
    BY <1>3, <1>4, <1>5
  <2>2. Spanned(m, Under(tree, n), ec, s, z, Below(n) \ {n}, {n}, 0)
    BY <1>0, <1>5, <2>1, FramedSpanned
  <2> QED  BY <1>3, <1>5, <2>2 DEF Tallied
<1>6. CASE ec.cb = "build"
  <2> DEFINE r == Record(t, ec, n, vs)
             w == External(r, ec, D)
             z == PutAll(w, n, vs, {})
             k == Is(m, {n})
  <2>1. Addables(n, ec, mode, s) = z
    BY <1>6 DEF Addables
  <2>2. f \in Heads(tree) /\ k \in Nat
    BY <1>4, <1>6 DEF Is
  <2> HIDE DEF t, vs, D
  <2>3. r \in States(tree) /\ Framed(m, f, t, r, k)
    BY <1>0, <1>1, <1>2, <2>2, RecordOf, RecordFramed
  <2> HIDE DEF r
  <2>4. Framed(m, f, r, w, 0)
    BY <2>2, <2>3, ExternalFramed
  <2> HIDE DEF w, k
  <2>5. Framed(m, f, t, w, k)
    BY <1>2, <2>2, <2>3, <2>4, FramedThen
  <2>6. Still(w, z)
    <3>1. Fields \subseteq DOMAIN w
      BY <2>5 DEF Framed
    <3> QED  BY <3>1, StillPut
  <2> HIDE DEF z
  <2>7. Framed(m, f, s, z, k)
    BY <1>2, <2>5, <2>6, FramedStill
  <2>8. Tallied(m, n, ec, s, z)
    <3>1. ec.cb # "off" /\ (ec.cb = "build" => k = Is(m, {n}))
      BY <1>6 DEF k
    <3> QED  BY <1>5, <2>2, <2>7, <3>1
  <2> QED  BY <2>1, <2>8
<1>7. CASE ec.cb = "lend"
  <2> DEFINE w == External(t, ec, D)
             z == PutAll(w, n, vs, {})
  <2>1. Addables(n, ec, mode, s) = z
    BY <1>7 DEF Addables
  <2> HIDE DEF t, vs, D
  <2>2. Framed(m, f, t, w, 0)
    BY <1>2, <1>4, <1>7, ExternalFramed
  <2> HIDE DEF w
  <2>3. Still(w, z)
    <3>1. Fields \subseteq DOMAIN w
      BY <2>2 DEF Framed
    <3> QED  BY <3>1, StillPut
  <2> HIDE DEF z
  <2>4. Framed(m, f, s, z, 0)
    BY <1>2, <2>2, <2>3, FramedStill
  <2>5. Tallied(m, n, ec, s, z)
    <3>1. ec.cb # "off" /\ ec.cb # "build"
      BY <1>7
    <3> QED  BY <1>5, <2>4, <3>1
  <2> QED  BY <2>1, <2>5
<1>8. CASE ec.cb = "off" /\ Refused(s, n)
  <2>1. Addables(n, ec, mode, s) = Failed(RehomeAll(t, vs))
    BY <1>8 DEF Addables
  <2> HIDE DEF t, vs
  <2>2. Loose(m, Under(tree, n), s, Failed(RehomeAll(t, vs)), Below(n))
    BY <1>0, <1>2, <1>8, LeafRefused
  <2> QED  BY <1>8, <2>1, <2>2 DEF Tallied
<1>9. CASE ec.cb = "off" /\ ~Refused(s, n)
  <2> DEFINE e == Newest(s) + 1
             u == Enqueue(t, n, B, D)
  <2>1. \/ Addables(n, ec, mode, s) = PutAll(WaitFor(u, {e}), n, vs, {})
        \/ Addables(n, ec, mode, s) = PutAll(u, n, vs, {e})
    BY <1>9 DEF Addables
  <2> HIDE DEF t, vs, B, D, e
  <2>2. Still(u, u)
    <3>1. u \in States(tree)
      BY <1>0, <1>1, <1>2, LeafAlone, EnqueueOf
    <3> HIDE DEF u
    <3> QED  BY <3>1, FieldsOf DEF Still
  <2>3. ASSUME NEW z, Still(u, z) PROVE Tallied(m, n, ec, s, z)
    <3>1. Loose(m, Under(tree, n), s, z, Below(n))
      BY <1>0, <1>1, <1>2, <1>3, <2>3, LeafOnce
    <3> QED  BY <1>9, <3>1 DEF Tallied
  <2> HIDE DEF u
  <2>4. Still(u, PutAll(u, n, vs, {e})) /\ Still(u, WaitFor(u, {e}))
    BY <2>2, PutStill
  <2>5. Still(u, PutAll(WaitFor(u, {e}), n, vs, {}))
    BY <2>4, PutStill
  <2> QED  BY <2>1, <2>3, <2>4, <2>5
<1> QED  BY <1>4, <1>6, <1>7, <1>8, <1>9

\* A value that passes.
LEMMA PassTallies ==
  ASSUME Graph(tree), NEW m, NEW n \in DOMAIN tree, tree[n].k \in {"lift", "forward"}, NEW ec, NEW s,
         Poised(m, n, ec, s)
  PROVE  Tallied(m, n, ec, s, Pass(n, ec, s))
<1> DEFINE in == In(n)[1]
           v == Value(s, in)
           t == LentAll(s, n)
           c == <<n, 1>>
           D == v.deps
           x == External(t, ec, D)
           f == ec.f
<1>0. tree[n].k \in Takers /\ tree[n].k \in Leaves /\ Asked(n, ec, s)
  BY DEF Takers, Leaves, Poised
<1>1. t \in States(tree) /\ Still(s, t)
  BY <1>0, LentStill
<1>2. Below(n) = {} /\ Span(n) = {} /\ Cut(n) = 0
  <2>1. Span(n) = {} /\ Cut(n) = 0
    BY <1>0, SpansOf
  <2>2. Below(n) = {}
    BY <1>0, LeafAlone DEF Commands
  <2> QED  BY <2>1, <2>2
<1>3. ec.cb # "off" => ec.cb \in {"build", "lend"} /\ f \in Heads(tree) /\ Open(ec, s)
  BY <1>0 DEF Poised, Asked, Contexts
<1>4. ASSUME ec.cb # "off", NEW z, Framed(m, f, s, z, 0)
      PROVE  Tallied(m, n, ec, s, z)
  <2> DEFINE P == {}
  <2>1. Below(n) \ P = {} /\ Open(ec, s) /\ (ec.cb = "build" => 0 = Is(m, P)) /\ 0 \in Nat
    BY <1>2, <1>3, <1>4 DEF Is
  <2>0. P = {}
    OBVIOUS
  <2> HIDE DEF P
  <2>2. Spanned(m, Under(tree, n), ec, s, z, Below(n) \ P, P, 0)
    BY <1>0, <1>4, <2>1, FramedSpanned
  <2> QED  BY <1>2, <1>4, <2>0, <2>2 DEF Tallied
<1> HIDE DEF in, v, t, c, D
<1>5. ASSUME ec.cb # "off" PROVE Framed(m, f, t, x, 0) /\ Fields \subseteq DOMAIN x
  <2>1. Framed(m, f, t, x, 0)
    BY <1>1, <1>3, <1>5, ExternalFramed
  <2> HIDE DEF x
  <2> QED  BY <2>1 DEF Framed
<1>6. CASE ec.cb = "off"
  <2>1. Pass(n, ec, s) = Put(t, c, v, D)
    BY <1>6 DEF Pass, t, c, v, D, in
  <2> DEFINE z == Put(t, c, v, D)
  <2>2. Still(s, z)
    BY <1>1, PutStill
  <2> HIDE DEF z
  <2>3. Loose(m, Under(tree, n), s, z, Below(n))
    BY <1>0, <1>2, <2>2, LeafNone
  <2> QED  BY <1>6, <2>1, <2>3 DEF Tallied, z
<1>7. CASE ec.cb = "lend"
  <2> DEFINE z == Put(x, c, v, {})
  <2>1. Pass(n, ec, s) = z
    BY <1>7 DEF Pass, t, c, v, D, in
  <2> HIDE DEF x
  <2>2. Still(x, z)
    BY <1>5, <1>7, StillPut
  <2> HIDE DEF z
  <2>3. Framed(m, f, s, z, 0)
    BY <1>1, <1>5, <1>7, <2>2, FramedStill
  <2> QED  BY <1>4, <1>7, <2>1, <2>3
<1>8. CASE ec.cb = "build"
  <2> DEFINE O == Origins(s, in)
             P == Points(s, ec, in)
             y == Extend(x, c, O)
             sp == [y.sp EXCEPT ![f] = [y.sp[f] EXCEPT ![c] = P]]
             w == [y EXCEPT !.sp = sp]
             z == Put(w, c, v, {})
  <2>1. Pass(n, ec, s) = z
    <3>1. Pass(n, ec, s) = Put([y EXCEPT !.sp[f][c] = P], c, v, {})
      BY <1>8 DEF Pass, t, c, v, D, in
    <3> HIDE DEF y, f, c, P
    <3>2. [y EXCEPT !.sp[f][c] = P] = w
      OBVIOUS
    <3> QED  BY <3>1, <3>2
  <2> HIDE DEF x, O, P
  <2>2. Still(x, y)
    BY <1>5, <1>8, StillTraced
  <2> HIDE DEF y, sp
  <2>3. Still(y, w)
    <3>1. Fields \subseteq DOMAIN y
      BY <2>2 DEF Still
    <3> QED  BY <3>1, StillTraced
  <2> HIDE DEF w
  <2>4. Still(w, z)
    <3>1. Fields \subseteq DOMAIN w
      BY <2>3 DEF Still
    <3> QED  BY <3>1, StillPut
  <2> HIDE DEF z
  <2>5. Still(x, z)
    BY <2>2, <2>3, <2>4, StillTrans
  <2>6. Framed(m, f, s, z, 0)
    BY <1>1, <1>5, <1>8, <2>5, FramedStill
  <2> QED  BY <1>4, <1>8, <2>1, <2>6
<1> QED  BY <1>3, <1>6, <1>7, <1>8

\* The execution of a leaf, of any kind.
LEMMA LeafTallies ==
  ASSUME Graph(tree), NEW m, NEW n \in DOMAIN tree, tree[n].k \in Leaves,
         NEW w, NEW ec, NEW mode, NEW s, Poised(m, n, ec, s)
  PROVE  Tallied(m, n, ec, s, Execute(n, w, ec, mode, s))
<1> DEFINE u == Execute(n, w, ec, mode, s)
<1>0. Asked(n, ec, s) /\ n \notin Heads(tree) /\ Still(s, s)
  <2>1. Asked(n, ec, s)
    BY DEF Poised
  <2> QED  BY <2>1, LeafAlone
<1>1. CASE tree[n].k \in {"fill", "copy"}
  <2>1. u = Addables(n, ec, mode, s)
    BY <1>1 DEF Execute
  <2> QED  BY <1>1, <2>1, AddablesTallies
<1>2. CASE tree[n].k \in {"lift", "forward"}
  <2>1. u = Pass(n, ec, s)
    BY <1>2 DEF Execute
  <2> QED  BY <1>2, <2>1, PassTallies
<1>3. ASSUME tree[n].k \notin {"fill", "copy"}, Loose(m, Under(tree, n), s, u, Below(n))
      PROVE  Tallied(m, n, ec, s, u)
  <2>1. Span(n) = {} /\ Cut(n) = 0
    BY <1>3, SpansOf
  <2> HIDE DEF u
  <2> QED  BY <1>0, <1>3, <2>1, AsideTallied
<1>4. CASE tree[n].k = "write"
  <2>1. u = Write(n, mode, s)
    BY <1>4 DEF Execute
  <2>2. Loose(m, Under(tree, n), s, u, Below(n))
    BY <1>0, <1>4, <2>1, WriteTallies
  <2> QED  BY <1>3, <1>4, <2>2
<1>5. CASE tree[n].k = "pipe"
  <2>1. u = s
    BY <1>5 DEF Execute
  <2>2. Below(n) = {}
    BY <1>0, <1>5, LeafAlone DEF Commands
  <2>3. Loose(m, Under(tree, n), s, u, Below(n))
    BY <1>0, <2>1, <2>2, LeafNone
  <2> QED  BY <1>3, <1>5, <2>3
<1>6. CASE tree[n].k = "mint"
  <2>1. u = Mint(n, s)
    BY <1>6 DEF Execute
  <2>2. Loose(m, Under(tree, n), s, u, Below(n))
    BY <1>0, <1>6, <2>1, MintTallies
  <2> QED  BY <1>3, <1>6, <2>2
<1>7. CASE tree[n].k = "upload"
  <2>1. u = Upload(n, s)
    BY <1>7 DEF Execute
  <2>2. Loose(m, Under(tree, n), s, u, Below(n))
    BY <1>0, <1>7, <2>1, UploadTallies
  <2> QED  BY <1>3, <1>7, <2>2
<1>8. CASE tree[n].k = "download"
  <2>1. u = Download(n, mode, s)
    BY <1>8 DEF Execute
  <2>2. Loose(m, Under(tree, n), s, u, Below(n))
    BY <1>0, <1>8, <2>1, DownloadTallies
  <2> QED  BY <1>3, <1>8, <2>2
<1> QED  BY <1>1, <1>2, <1>4, <1>5, <1>6, <1>7, <1>8 DEF Leaves

-----------------------------------------------------------------------------
(* The whole graph                                                         *)

\* What is taken from its cells was executed.
LEMMA TakerTallies ==
  ASSUME Graph(tree), NEW m, NEW n \in DOMAIN tree, NEW ec, NEW s, NEW u, Executes(n, s, u), Tallied(m, n, ec, s, u)
  PROVE  Tallied(m, n, ec, s, Taken(u, OutCells(tree)[n]).s)
<1> DEFINE cells == OutCells(tree)[n]
           pipe == [c \in DOMAIN u.pipe |-> IF c \in Range(cells) THEN None ELSE u.pipe[c]]
           v == [u EXCEPT !.pipe = pipe]
           vs == [i \in DOMAIN cells |-> u.pipe[cells[i]]]
           z == Taken(u, cells).s
<1>3. u \in States(tree) /\ Tallied(m, n, ec, s, u)
  BY DEF Executes, Kept
<1>4. Taken(u, cells) = IF ~u.ok THEN Result(u, <<>>, {}) ELSE Result(v, vs, DepsOf(vs))
  BY DEF Taken
<1> HIDE DEF cells, pipe, vs
<1>5. z = IF ~u.ok THEN u ELSE v
  BY <1>4, ResultOf
<1>6. Still(u, v) /\ Still(u, u)
  <2>1. Fields \subseteq DOMAIN u
    BY <1>3, FieldsOf
  <2>2. Still(u, v)
    BY <2>1, StillMoved
  <2> HIDE DEF v
  <2> QED  BY <2>1, <2>2 DEF Still
<1> HIDE DEF v, z
<1>7. Quiet(m, u, z)
  BY <1>5, <1>6, StillQuiet
<1>8. Tallied(m, n, ec, s, z)
  BY <1>3, <1>7, QuietTallied
<1> QED  BY <1>8 DEF z, cells

\* Every operation keeps the contract if its kids do: the step of the induction over the graph.
LEMMA NodeTallies ==
  ASSUME Graph(tree), ProfilesKeep(tree), ArcsUnbroken(tree), minted \in 2..3, NEW m \in Nat \ {0}, NEW n \in DOMAIN tree,
         NEW w, KidsObey(n, w), KidsTally(m, n, w), NEW ec, NEW mode \in Modes, NEW s, Poised(m, n, ec, s)
  PROVE  /\ Tallied(m, n, ec, s, Execute(n, w, ec, mode, s))
         /\ Tallied(m, n, ec, s, GatherCheckouts(n, w, ec, mode, s).s)
         /\ ec.cb = "off" \/ Unbroken(tree, n) => Tallied(m, n, ec, s, Collected(n, w, ec, mode, s).s)
<1> DEFINE u == Execute(n, w, ec, mode, s)
           x == Taken(u, OutCells(tree)[n])
<1>0. Executes(n, s, u)
  BY NodeObeys DEF Poised
<1>4. /\ tree[n].k # "then" => Collected(n, w, ec, mode, s) = x
      /\ tree[n].k \in Leaves \cup {"arced", "route", "profiled"} => GatherCheckouts(n, w, ec, mode, s) = x
  BY <1>0, TakerObeys
<1>5. Tallied(m, n, ec, s, u) => Tallied(m, n, ec, s, x.s)
  BY <1>0, TakerTallies
<1>1. CASE tree[n].k \in Leaves
  <2>1. Tallied(m, n, ec, s, u)
    BY <1>1, LeafTallies
  <2>2. tree[n].k # "then"
    BY <1>1 DEF Leaves
  <2> HIDE DEF u, x
  <2> QED  BY <1>1, <1>4, <1>5, <2>1, <2>2 DEF u
<1>2. CASE tree[n].k \in Wrappers
  <2>0. tree[n].k \notin Leaves /\ tree[n].k # "then"
    BY <1>2 DEF Wrappers, Leaves
  <2>1. Obeys(w[1], Source(tree, n)) /\ Tallies(m, w[1], Source(tree, n))
    <3>0. tree[n].kids = <<n - 1>>
      BY <1>2, NodesOf
    <3>1. tree[n].kids # <<>>
      BY <3>0
    <3> QED  BY <3>1 DEF KidsObey, KidsTally
  <2>2. Tallied(m, n, ec, s, u) /\ (tree[n].k = "host" => Tallied(m, n, ec, s, Seam(n, w, s).s))
    BY <1>2, <2>1, WrapperTallies
  <2>3. tree[n].k = "host" => GatherCheckouts(n, w, ec, mode, s) = Seam(n, w, s)
    BY <2>0 DEF GatherCheckouts
  <2>4. tree[n].k = "host" \/ tree[n].k \in Leaves \cup {"arced", "route", "profiled"}
    BY <1>2 DEF Wrappers
  <2> HIDE DEF u, x
  <2> QED  BY <1>4, <1>5, <2>0, <2>2, <2>3, <2>4 DEF u
<1>3. CASE tree[n].k \in {"then", "bundle"}
  <2>1. /\ Tallied(m, n, ec, s, u) /\ Tallied(m, n, ec, s, GatherCheckouts(n, w, ec, mode, s).s)
        /\ tree[n].k = "then" /\ (ec.cb = "off" \/ Unbroken(tree, n)) =>
             Tallied(m, n, ec, s, Collected(n, w, ec, mode, s).s)
    BY <1>3, PairKeeps DEF Pair
  <2> HIDE DEF u, x
  <2> QED  BY <1>4, <1>5, <2>1 DEF u
<1> QED  BY <1>1, <1>2, <1>3, NodesOf

LEMMA VisitTallies ==
  ASSUME Graph(tree), ProfilesKeep(tree), ArcsUnbroken(tree), minted \in 2..3, NEW m \in Nat \ {0}
  PROVE  \A n \in DOMAIN tree : Tallies(m, Visit[n], n)
<1> DEFINE N == Len(tree)
           T == {n \in 1..N : Tallies(m, Visit[n], n)}
<1>0. N \in Nat /\ DOMAIN tree = 1..N
  BY DEF Graph
<1>1. ASSUME NEW n \in 1..N, \A k \in 1..(n - 1) : k \in T PROVE n \in T
  <2> DEFINE kids == tree[n].kids
             w == [i \in DOMAIN kids |-> Visit[kids[i]]]
             v == Visit[n]
  <2>0. n \in DOMAIN tree /\ n \in Nat
    BY <1>0
  <2>1. \A k \in 1..(n - 1) : Tallies(m, Visit[k], k) /\ Obeys(Visit[k], k)
    <3>1. \A k \in 1..(n - 1) : Tallies(m, Visit[k], k) /\ k \in DOMAIN tree
      BY <1>0, <1>1
    <3> QED  BY <3>1, VisitObeys
  <2>2. v = [q \in Questions(tree) |-> Answer(n, w, q)]
    BY <2>0, VisitIs
  <2>3. KidsObey(n, w) /\ KidsTally(m, n, w)
    <3>1. CASE tree[n].k \in Leaves
      <4>1. kids = <<>> /\ tree[n].k \notin {"then", "bundle"}
        BY <2>0, <3>1, NodesOf DEF Leaves
      <4> QED  BY <4>1 DEF KidsObey, KidsTally
    <3>2. CASE tree[n].k \in Wrappers
      <4>1. /\ kids = <<n - 1>> /\ n - 1 \in 1..(n - 1) /\ Source(tree, n) = n - 1
            /\ tree[n].k \notin {"then", "bundle"}
        BY <2>0, <3>2, NodesOf DEF Wrappers
      <4>2. w[1] = Visit[n - 1]
        BY <4>1
      <4>3. Obeys(w[1], Source(tree, n)) /\ Tallies(m, w[1], Source(tree, n))
        BY <2>1, <4>1, <4>2
      <4> QED  BY <4>1, <4>3 DEF KidsObey, KidsTally
    <3>3. CASE tree[n].k \in {"then", "bundle"}
      <4>1. /\ kids = <<First(tree)[n - 1] - 1, n - 1>>
            /\ Source(tree, n) = First(tree)[n - 1] - 1 /\ Follow(tree, n) = n - 1
            /\ Source(tree, n) \in 1..(n - 1) /\ Follow(tree, n) \in 1..(n - 1)
        BY <2>0, <3>3, NodesOf
      <4>2. w[1] = Visit[Source(tree, n)] /\ w[2] = Visit[Follow(tree, n)]
        BY <4>1
      <4>3. /\ Obeys(w[1], Source(tree, n)) /\ Obeys(w[2], Follow(tree, n))
            /\ Tallies(m, w[1], Source(tree, n)) /\ Tallies(m, w[2], Follow(tree, n))
        BY <2>1, <4>1, <4>2
      <4> QED  BY <4>3 DEF KidsObey, KidsTally
    <3> QED  BY <2>0, <3>1, <3>2, <3>3, NodesOf
  <2> HIDE DEF kids, w, v
  <2>4. ASSUME NEW ec, NEW s, NEW mode \in Modes, Poised(m, n, ec, s)
        PROVE  /\ Tallied(m, n, ec, s, Exec(v, ec, mode, s)) /\ Tallied(m, n, ec, s, Gather(v, ec, mode, s).s)
               /\ ec.cb = "off" \/ Unbroken(tree, n) => Tallied(m, n, ec, s, Collect(v, ec, mode, s).s)
    <3> DEFINE z == GatherCheckouts(n, w, ec, mode, s)
               c == Collected(n, w, ec, mode, s)
    <3>0. Asked(n, ec, s)
      BY <2>4 DEF Poised
    <3>1. Exec(v, ec, mode, s) = Execute(n, w, ec, mode, s) /\ Gather(v, ec, mode, s) = z /\ Collect(v, ec, mode, s) = c
      BY <2>2, <2>4, <3>0, AnswerOf
    <3>2. /\ Tallied(m, n, ec, s, Execute(n, w, ec, mode, s)) /\ Tallied(m, n, ec, s, z.s)
          /\ ec.cb = "off" \/ Unbroken(tree, n) => Tallied(m, n, ec, s, c.s)
      BY <2>0, <2>3, <2>4, NodeTallies
    <3> HIDE DEF z, c
    <3> QED  BY <3>1, <3>2
  <2>5. Tallies(m, v, n)
    BY <2>4 DEF Tallies
  <2> QED  BY <2>5 DEF v
<1> HIDE DEF T
<1>2. \A n \in 1..N : n \in T
  BY <1>0, <1>1, FromBelow
<1> QED  BY <1>0, <1>2 DEF T

\* The start gate is a marker.
LEMMA GateQuiet ==
  ASSUME NEW m \in Nat \ {0}, NEW n, NEW s, Poised(m, n, Off, s)
  PROVE  LET u == [Enqueue(s, 0, {}, {}) EXCEPT !.gate = {1}] IN Quiet(m, s, u) /\ Poised(m, n, Off, u)
<1> DEFINE none == {}
           t == Enqueue(s, 0, none, none)
           G == {1}
           u == [t EXCEPT !.gate = G]
<1>0. s \in States(tree) /\ s.ok /\ Asked(n, Off, s)
  BY DEF Poised, Asked
<1>1. none \in SUBSET Contents /\ none \in SUBSET Nat /\ 0 \in Nat
  OBVIOUS
<1>2. u = [Enqueue(s, 0, {}, {}) EXCEPT !.gate = {1}]
  OBVIOUS
<1> HIDE DEF none
<1>3. Times(t.log, m) = Times(s.log, m) + Is(m, {0})
  BY <1>0, <1>1, EnqueueTimes
<1>4. Fields \subseteq DOMAIN t /\ t.ok = s.ok /\ t.fault = s.fault /\ t.cbs = s.cbs /\ t.fr = s.fr
  <2>1. Fields \subseteq DOMAIN s
    BY <1>0, FieldsOf
  <2> DEFINE zero == 0
  <2>2. t = Enqueue(s, zero, none, none)
    OBVIOUS
  <2> HIDE DEF t, zero
  <2> QED  BY <2>1, <2>2, EnqueueFields
<1>5. Is(m, {0}) = 0 /\ Times(s.log, m) \in Nat
  <2>1. s.log \in Seq(Entries)
    BY <1>0, StateOf
  <2> QED  BY <2>1, TimesOf DEF Is
<1> HIDE DEF t, G
<1>6. u.ok = t.ok /\ u.fault = t.fault /\ u.cbs = t.cbs /\ u.fr = t.fr /\ u.log = t.log
  BY <1>4 DEF Fields
<1> HIDE DEF u
<1>7. Quiet(m, s, u)
  BY <1>3, <1>4, <1>5, <1>6 DEF Quiet
<1>8. Asked(n, Off, u)
  <2>1. Calm(s, u) /\ u.ok
    BY <1>0, <1>2, GateOf
  <2> QED  BY <1>0, <2>1, CalmAsked
<1>9. Poised(m, n, Off, u)
  BY <1>4, <1>6, <1>8 DEF Poised, Fit, Open, Off
<1> QED  BY <1>2, <1>7, <1>9

\* The root of the graph, behind the start gate, as one command buffer or walked.
LEMMA RootedTallies ==
  ASSUME Graph(tree), ProfilesKeep(tree), ArcsUnbroken(tree), minted \in 2..3, NEW m \in Nat \ {0}, Root(tree) \in DOMAIN tree,
         NEW s, Poised(m, Root(tree), Off, s)
  PROVE  Loose(m, Under(tree, Root(tree)), s, Rooted(s).s, Below(Root(tree)))
<1> DEFINE n == Root(tree)
           v == Visit[n]
           u == [Enqueue(s, 0, {}, {}) EXCEPT !.gate = {1}]
           bl == "blocking"
           pi == "pipelined"
           z == Rooted(s).s
<1>1. Obeys(v, n) /\ Tallies(m, v, n) /\ n \in DOMAIN tree
  BY VisitObeys, VisitTallies
<1>2. pi \in Modes /\ bl \in Modes
  BY DEF Modes
<1>3. Outside(Off, s) = Off
  BY DEF Outside, SpanClosed, Off
<1>4. z = IF HasSeam(tree) THEN Gather(v, Off, pi, u).s ELSE GatherChild(n, v, Off, bl, s).s
  BY <1>3 DEF Rooted, RootOf, GatherChild
<1>5. Quiet(m, s, u) /\ Poised(m, n, Off, u) /\ Poised(m, n, Off, s)
  BY GateQuiet
<1> HIDE DEF n, v, u, bl, pi, z
<1>6. CASE HasSeam(tree)
  <2>1. z = Gather(v, Off, pi, u).s
    BY <1>4, <1>6
  <2>2. Loose(m, Under(tree, n), u, z, Below(n))
    BY <1>1, <1>2, <1>5, <2>1, CallsOff
  <2>3. Quiet(m, z, z)
    BY DEF Quiet
  <2>4. Loose(m, Under(tree, n), s, z, Below(n))
    BY <1>5, <2>2, <2>3, QuietLoose
  <2> QED  BY <2>4 DEF n, z
<1>7. CASE ~HasSeam(tree)
  <2>1. z = GatherChild(n, v, Off, bl, s).s
    BY <1>4, <1>7
  <2>2. Loose(m, Under(tree, n), s, z, Below(n))
    BY <1>1, <1>2, <1>5, <2>1, CallsOff
  <2> QED  BY <2>2 DEF n, z
<1> QED  BY <1>6, <1>7

\* Every node is below the root.
LEMMA RootOver ==
  ASSUME Graph(tree)
  PROVE  /\ Root(tree) \in DOMAIN tree /\ Under(tree, Root(tree)) = DOMAIN tree /\ Heads(tree) \subseteq DOMAIN tree
         /\ Below(Root(tree)) = Commands(tree)
<1>1. DOMAIN tree = 1..Len(tree) /\ Len(tree) \in Nat /\ Len(tree) >= 1 /\ First(tree)[Root(tree)] = 1
  BY DEF Graph
<1>2. Under(tree, Root(tree)) = 1..Len(tree)
  BY <1>1 DEF Under, Root
<1> QED  BY <1>1, <1>2 DEF Root, Heads, Commands, Below

LEMMA SyncTallies ==
  ASSUME Graph(tree), ProfilesKeep(tree), ArcsUnbroken(tree), minted \in 2..3, slots \in [Slots -> Contents],
         cbs \in [Heads(tree) -> {None} \cup Baked], off \in BOOLEAN, Ready, NEW fault \in Faults \X Nat, Faithful,
         NEW m \in Nat \ {0}
  PROVE  LET z == Reclaim(Waited(Rooted(Fresh(fault)))) IN
         /\ fault[1] \in {"none", "create", "finalize", "record", "decline"} => z.ok
         /\ z.ok => Times(z.log, m) \in Amounts(m, Commands(tree))
         /\ \A g \in Heads(tree) : z.cbs[g] # None => Times(z.cbs[g].rec, m) = Is(m, Span(g))
<1> DEFINE n == Root(tree)
           s == Fresh(fault)
           r == Rooted(s)
           t == r.s
           z == Reclaim(Waited(r))
<1>1. /\ n \in DOMAIN tree /\ Under(tree, n) = DOMAIN tree /\ Heads(tree) \subseteq DOMAIN tree
      /\ Below(n) = Commands(tree)
  BY RootOver
<1>2. Asked(n, Off, s)
  BY FreshOf
<1>3. /\ s.cbs = cbs /\ s.log = <<>> /\ s.fault = fault /\ s.ok
      /\ \A g \in Heads(tree) : s.fr[g] = Frame
  BY DEF Fresh
<1> HIDE DEF s
<1>4. Poised(m, n, Off, s)
  <2>1. \A g \in Heads(tree) : Fit(s, g, m)
    BY <1>3 DEF Faithful, Fit
  <2> QED  BY <1>2, <1>3, <2>1 DEF Poised, Off
<1> HIDE DEF n
<1>5. Loose(m, DOMAIN tree, s, t, Commands(tree))
  <2> HIDE DEF t
  <2>1. Loose(m, Under(tree, n), s, Rooted(s).s, Below(n))
    BY <1>1, <1>4, RootedTallies DEF n
  <2> QED  BY <1>1, <2>1 DEF t
<1>6. t \in States(tree)
  <2>1. Gathers(n, s, r)
    BY <1>1, <1>2, RootedOf DEF n
  <2> HIDE DEF r
  <2> QED  BY <2>1 DEF Gathers, Kept
<1>7. Still(t, z)
  <2> DEFINE D == r.deps
             a == WaitFor(t, D)
             E == UNION {a.pipe[c].deps : c \in Left(a)}
             b == WaitFor(a, E)
             at == Rehomed(b.slots, {b.pipe[c] : c \in Left(b)})
             pipe == [c \in DOMAIN b.pipe |-> IF c \in Left(b) THEN None ELSE b.pipe[c]]
  <2>1. z = [b EXCEPT !.slots = at, !.pipe = pipe]
    BY DEF Reclaim, Drained, Waited
  <2> HIDE DEF t, D
  <2>2. Still(t, a)
    BY <1>6, FieldsOf, StillWaited
  <2> HIDE DEF a, E
  <2>3. Still(a, b)
    <3>1. Fields \subseteq DOMAIN a
      BY <2>2 DEF Still
    <3> QED  BY <3>1, StillWaited
  <2> HIDE DEF b, at, pipe, z
  <2>4. Still(b, z)
    <3>1. Fields \subseteq DOMAIN b
      BY <2>3 DEF Still
    <3> QED  BY <2>1, <3>1, StillMoved
  <2> QED  BY <2>2, <2>3, <2>4, StillTrans
<1> HIDE DEF t, z
<1>8. Harmless(s) => z.ok
  BY <1>3, <1>5, <1>7 DEF Loose, Steady, Still
<1>9. \A g \in Heads(tree) : z.cbs[g] # None => Times(z.cbs[g].rec, m) = Is(m, Span(g))
  BY <1>1, <1>5, <1>7 DEF Loose, AllFit, Fit, Still
<1>10. ASSUME z.ok PROVE Times(z.log, m) \in Amounts(m, Commands(tree))
  <2>1. PICK d \in Amounts(m, Commands(tree)) : Times(t.log, m) = Times(s.log, m) + d + 0
    BY <1>5, <1>7, <1>10 DEF Loose, Grows, Still
  <2>2. Times(s.log, m) = 0
    BY <1>3, TimesNone
  <2>3. d \in Nat
    BY DEF Amounts
  <2> QED  BY <1>7, <2>1, <2>2, <2>3 DEF Still
<1>11. fault[1] \in {"none", "create", "finalize", "record", "decline"} => z.ok
  BY <1>3, <1>8 DEF Harmless
<1> QED  BY <1>9, <1>10, <1>11 DEF z, r, s

-----------------------------------------------------------------------------
(* Every sync that succeeds runs the graph once                            *)

LEMMA SyncRuns ==
  ASSUME tree \in Trees, ProfilesKeep(tree), ArcsUnbroken(tree), Holds, Faithful, NEW fault \in FaultsOf(tree), Sync(fault)
  PROVE  Faithful' /\ OnlyRefusalsFail' /\ EachOnce'
<1> DEFINE z == Reclaim(Waited(Rooted(Fresh(fault))))
<1>1. Graph(tree) /\ tree' = tree /\ Ready
  BY GraphsAssumption DEF Sync
<1>2. fault \in Faults \X Nat
  BY <1>1, FaultOf
<1>3. \A m \in Nat \ {0} :
         /\ fault[1] \in {"none", "create", "finalize", "record", "decline"} => z.ok
         /\ z.ok => Times(z.log, m) \in Amounts(m, Commands(tree))
         /\ \A g \in Heads(tree) : z.cbs[g] # None => Times(z.cbs[g].rec, m) = Is(m, Span(g))
  BY <1>1, <1>2, SyncTallies DEF Holds
<1>4. cbs' = z.cbs /\ run'.ok = z.ok /\ run'.fault = fault /\ run'.log = z.log
  BY DEF Sync, Ended
<1> HIDE DEF z
<1>5. Heads(tree)' = Heads(tree) /\ Commands(tree)' = Commands(tree) /\ \A g : Span(g)' = Span(g)
  BY <1>1 DEF Span
<1>6. Faithful'
  <2>1. ASSUME NEW m \in Nat \ {0}, NEW g \in Heads(tree), z.cbs[g] # None
        PROVE  Times(z.cbs[g].rec, m) = Is(m, Span(g))
    BY <1>3, <2>1
  <2> QED  BY <1>4, <1>5, <2>1 DEF Faithful, Times, Is
<1>7. OnlyRefusalsFail'
  <2>1. 1 \in Nat \ {0}
    OBVIOUS
  <2> QED  BY <1>3, <1>4, <2>1 DEF OnlyRefusalsFail
<1>8. EachOnce'
  <2>1. DOMAIN tree \subseteq Nat \ {0}
    BY <1>1 DEF Graph
  <2>2. ASSUME z.ok, NEW n \in DOMAIN tree PROVE Times(z.log, n) \in Amounts(n, Commands(tree))
    BY <1>3, <2>1, <2>2
  <2>3. \A n : Cardinality(Mine(n)') = Times(z.log, n)
    BY <1>4 DEF Mine, Times
  <2>4. \A n : Cardinality(Mine(n))' = Cardinality(Mine(n)')
    OBVIOUS
  <2> QED  BY <1>1, <1>4, <2>2, <2>3, <2>4 DEF EachOnce, Amounts
<1> QED  BY <1>6, <1>7, <1>8

\* The other steps end the run, and at most drop command buffers.
LEMMA OtherRuns ==
  ASSUME cbs \in [Heads(tree) -> {None} \cup Baked], Faithful, OnlyRefusalsFail, EachOnce,
         Settle \/ (\E x \in Slots : Rebind(x)) \/ UNCHANGED vars
  PROVE  Faithful' /\ OnlyRefusalsFail' /\ EachOnce'
<1>1. tree' = tree
  BY DEF Settle, Rebind, vars
<1>2. Heads(tree)' = Heads(tree) /\ \A g : Span(g)' = Span(g)
  BY <1>1 DEF Span
<1>3. CASE UNCHANGED vars
  <2>1. run' = run /\ cbs' = cbs
    BY <1>3 DEF vars
  <2>2. Faithful'
    BY <1>2, <2>1 DEF Faithful, Times, Is
  <2>3. OnlyRefusalsFail' /\ EachOnce'
    BY <1>1, <2>1 DEF OnlyRefusalsFail, EachOnce, Ran, Mine
  <2> QED  BY <2>2, <2>3
<1>4. CASE Settle
  <2>1. run' = NoRun /\ cbs' = cbs
    BY <1>4 DEF Settle
  <2>2. Faithful'
    BY <1>2, <2>1 DEF Faithful, Times, Is
  <2>3. OnlyRefusalsFail' /\ EachOnce'
    BY <2>1 DEF OnlyRefusalsFail, EachOnce, Ran
  <2> QED  BY <2>2, <2>3
<1>5. ASSUME NEW x \in Slots, Rebind(x) PROVE Faithful' /\ OnlyRefusalsFail' /\ EachOnce'
  <2>1. /\ run' = NoRun
        /\ cbs' = [n \in DOMAIN cbs |-> IF cbs[n] # None /\ x \in cbs[n].slots THEN None ELSE cbs[n]]
    BY <1>5 DEF Rebind
  <2>2. Faithful'
    <3>1. \A g \in Heads(tree) : cbs'[g] # None => cbs'[g] = cbs[g]
      BY <2>1
    <3> QED  BY <1>2, <3>1 DEF Faithful, Times, Is
  <2>3. OnlyRefusalsFail' /\ EachOnce'
    BY <2>1 DEF OnlyRefusalsFail, EachOnce, Ran
  <2> QED  BY <2>2, <2>3
<1> QED  BY <1>3, <1>4, <1>5

LEMMA RunsHold ==
  /\ Init => IRuns
  /\ IInv /\ IRuns /\ [Next]_vars => IRuns'
<1>1. ASSUME Init PROVE IRuns
  <2>1. run = NoRun /\ \A g \in Heads(tree) : cbs[g] = None
    BY <1>1 DEF Init
  <2> QED  BY <2>1 DEF IRuns, Faithful, OnlyRefusalsFail, EachOnce, Ran
<1>2. ASSUME IInv, IRuns, [Next]_vars PROVE IRuns'
  <2>1. tree' = tree
    BY <1>2 DEF Next, Sync, Settle, Rebind, vars
  <2>2. (ProfilesKeep(tree) /\ ArcsUnbroken(tree))' => ProfilesKeep(tree) /\ ArcsUnbroken(tree)
    BY <2>1 DEF ProfilesKeep, ProfilesLeaves, ArcsUnbroken, Unbroken
  <2>3. ASSUME ProfilesKeep(tree), ArcsUnbroken(tree) PROVE Faithful' /\ OnlyRefusalsFail' /\ EachOnce'
    <3>1. tree \in Trees /\ Holds /\ Faithful /\ OnlyRefusalsFail /\ EachOnce
      BY <1>2, <2>3 DEF IInv, IRuns
    <3>2. CASE \E fault \in FaultsOf(tree) : Sync(fault)
      BY <2>3, <3>1, <3>2, SyncRuns
    <3>3. CASE Settle \/ (\E x \in Slots : Rebind(x)) \/ UNCHANGED vars
      BY <3>1, <3>3, OtherRuns DEF Holds
    <3> QED  BY <1>2, <3>2, <3>3 DEF Next
  <2> QED  BY <2>2, <2>3 DEF IRuns
<1> QED  BY <1>1, <1>2

\* A sync that succeeds has enqueued every command of its graph once and no
\* other, whichever of them a command buffer replayed, and whichever were
\* recorded in a build that failed; and a sync fails only if a call that enqueues is refused:
\* when a command buffer cannot be made, or cannot be built, its commands are enqueued
\* one by one (cb.rs: cb_boundary_gather, cb_replay).  For every graph whose profiled
\* operations are leaves and no Arc of which is of a chain that goes on after its span
\* has closed, however often it has run, if no profile is refused.
THEOREM CommandsOnce == Spec => [](ProfilesKeep(tree) /\ ArcsUnbroken(tree) => RunsOnce)
<1>1. Init => IInv /\ IRuns
  BY InitHolds, RunsHold
<1>2. IInv /\ IRuns /\ [Next]_vars => (IInv /\ IRuns)'
  BY NextHolds, RunsHold
<1>3. IRuns => (ProfilesKeep(tree) /\ ArcsUnbroken(tree) => RunsOnce)
  BY DEF IRuns, RunsOnce
<1> QED  BY <1>1, <1>2, <1>3, PTL DEF Spec
=============================================================================
