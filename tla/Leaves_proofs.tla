---------------------------- MODULE Leaves_proofs ----------------------------
(***************************************************************************)
(* Proofs about the leaves of a graph (Leaves), for every graph the types  *)
(* of the code admit and any number of runs.                               *)
(*                                                                         *)
(* First what each buffer and each command on the device may be; then the  *)
(* wait lists (Ordered), the memory of the caller (BorrowOver), what a     *)
(* finished sync covers (SyncCovers), the seeds (SeedsHold), and the cells *)
(* between runs (Rearmed, Replays).                                        *)
(***************************************************************************)
EXTENDS Leaves, TLAPS

Pairs == Nat \X Nat
Payloads == [buf : Pairs, home : Pairs, deps : SUBSET Pairs]
Commands == [id : Pairs, reads : SUBSET Pairs, writes : SUBSET Pairs, after : SUBSET Pairs]
Pipes == (DOMAIN graph) \X (1..4)

-----------------------------------------------------------------------------
(* Types.                                                                  *)

\* Every variable has its type.
TypeOK ==
  /\ graph \in Programs /\ run \in Nat /\ excused \in BOOLEAN
  /\ pc \in {"idle", "walk", "inside", "failed", "mopup", "unwind", "wait"}
  /\ at \in DOMAIN graph
  /\ cells \in [CellsOf(graph) -> {"new", "full", "out", "taken"}]
  /\ pipes \in [Pipes -> Payloads]
  /\ held \subseteq [buf : Pairs, home : Pairs]
  /\ DOMAIN inline.outs \in {{}, {1}, {1, 2}}
  /\ \A p \in DOMAIN inline.outs : inline.outs[p] \in Payloads
  /\ inline.back \subseteq Pairs
  /\ pend \subseteq Commands /\ dirty \subseteq Pairs /\ noted \subseteq Pairs

\* What WellTyped says of one leaf.
LEMMA LeafShape ==
  ASSUME graph \in Programs, NEW k \in DOMAIN graph
  PROVE  /\ Final \in Nat \ {0} /\ DOMAIN graph = 1..Final /\ k \in Nat \ {0}
         /\ Args(k) \in {{}, {1}, {1, 2}} /\ Outs(k) \in {{1}, {1, 2}}
         /\ \A p \in Outs(k) : Op(k).give[p] \in {Made, HostValue} \cup Args(k)
         /\ \A p, q \in Outs(k) : p # q => Op(k).give[p] # Op(k).give[q]
         /\ Op(k).reads \cup Op(k).writes \subseteq {Made} \cup Args(k)
         /\ Op(k).seeds => Args(k) = {} /\ Outs(k) = {1} /\ Op(k).give = <<Made>> /\ Op(k).does = "try"
<1>1. WellTyped(graph)  BY ProgramAssumption
<1>2. Len(graph) \in Nat \ {0} /\ DOMAIN graph = 1..Len(graph)  BY <1>1 DEF WellTyped
<1> DEFINE op == graph[k].op
           args == DOMAIN graph[k].in
<1>3. args \in {{}, {1}, {1, 2}} /\ DOMAIN op.give \in {{1}, {1, 2}}  BY <1>1 DEF WellTyped
<1>4. \A p \in DOMAIN op.give : op.give[p] \in {Made, HostValue} \cup args  BY <1>1 DEF WellTyped
<1>5. \A p, q \in DOMAIN op.give : p # q => op.give[p] # op.give[q]  BY <1>1 DEF WellTyped
<1>6. op.reads \cup op.writes \subseteq {Made} \cup args  BY <1>1 DEF WellTyped
<1>7. op.seeds => args = {} /\ op.give = <<Made>> /\ op.does = "try"  BY <1>1 DEF WellTyped
<1>8. op.seeds => DOMAIN op.give = {1}
  <2> HIDE DEF op
  <2>1. DOMAIN <<Made>> = {1}  OBVIOUS
  <2> QED  BY <1>7, <2>1
<1> HIDE DEF op, args
<1> QED
  <2>1. Final = Len(graph) /\ Args(k) = args /\ Outs(k) = DOMAIN op.give /\ Op(k) = op
    BY DEF Final, Args, Outs, Op, Leaf, op, args
  <2>2. k \in Nat \ {0}  BY <1>2
  <2> QED  BY <2>1, <2>2, <1>2, <1>3, <1>4, <1>5, <1>6, <1>7, <1>8

\* Where an operand comes from.
LEMMA OperandShape ==
  ASSUME graph \in Programs, NEW k \in DOMAIN graph, NEW i \in Args(k)
  PROVE  /\ From(k, i) \in {"cell", "slot", "pipe", "lent"}
         /\ From(k, i) = "pipe" =>
              /\ PipeOf(k, i) = Leaf(k).in[i].of
              /\ PipeOf(k, i) \in Pipes /\ PipeOf(k, i)[1] \in 1..(k - 1) /\ PipeOf(k, i)[2] \in {1, 2}
              /\ PipeOf(k, i)[2] \in Outs(PipeOf(k, i)[1])
              /\ Op(PipeOf(k, i)[1]).give[PipeOf(k, i)[2]] # HostValue
         /\ From(k, i) = "lent" => PipeOf(k, i) = <<k, 2 + i>> /\ PipeOf(k, i) \in Pipes
         /\ From(k, i) # "pipe" => <<k, i>> \in CellsOf(graph)
         /\ i \in {1, 2}
<1>1. WellTyped(graph)  BY ProgramAssumption
<1>2. i \in DOMAIN graph[k].in /\ Args(k) \in {{}, {1}, {1, 2}} /\ k \in 1..Len(graph) /\ Len(graph) \in Nat
       /\ DOMAIN graph = 1..Len(graph)
  BY <1>1, LeafShape DEF Args, Leaf, WellTyped
<1>3. \/ graph[k].in[i].from \in {"cell", "slot", "lent"}
      \/ /\ graph[k].in[i].from = "pipe" /\ graph[k].in[i].of \in (1..(k - 1)) \X {1, 2}
         /\ graph[k].in[i].of[2] \in DOMAIN graph[graph[k].in[i].of[1]].op.give
         /\ graph[graph[k].in[i].of[1]].op.give[graph[k].in[i].of[2]] # HostValue
  BY <1>1, <1>2 DEF WellTyped
<1>4. i \in {1, 2}  BY <1>2 DEF Args, Leaf
<1>5. graph[k].in[i].from # "pipe" => <<k, i>> \in CellsOf(graph)
  <2> SUFFICES ASSUME graph[k].in[i].from # "pipe" PROVE <<k, i>> \in CellsOf(graph)
    OBVIOUS
  <2> DEFINE Of(l) == {<<l, h>> : h \in {j \in DOMAIN graph[l].in : graph[l].in[j].from # "pipe"}}
  <2>1. <<k, i>> \in Of(k)  BY <1>2
  <2>2. <<k, i>> \in UNION {Of(l) : l \in DOMAIN graph}  BY <2>1
  <2> QED  BY <2>2 DEF CellsOf
<1>6. From(k, i) = graph[k].in[i].from  BY DEF From, Leaf
<1>7. CASE graph[k].in[i].from = "pipe"
  <2>1. PipeOf(k, i) = graph[k].in[i].of  BY <1>7, <1>6 DEF PipeOf, Leaf
  <2> DEFINE of == graph[k].in[i].of
  <2>2. of \in (1..(k - 1)) \X {1, 2} /\ of[2] \in DOMAIN graph[of[1]].op.give
        /\ graph[of[1]].op.give[of[2]] # HostValue
    BY <1>3, <1>7
  <2> HIDE DEF of
  <2>3. of \in Pipes /\ of[1] \in 1..(k - 1) /\ of[2] \in {1, 2}  BY <2>2, <1>2 DEF Pipes
  <2>4. of[2] \in Outs(of[1]) /\ Op(of[1]).give[of[2]] # HostValue  BY <2>2 DEF Outs, Op, Leaf
  <2>5. Leaf(k).in[i].of = of /\ PipeOf(k, i) = of  BY <2>1 DEF of, Leaf
  <2> QED  BY <2>3, <2>4, <2>5, <1>4, <1>6, <1>7
<1>8. CASE graph[k].in[i].from \in {"cell", "slot", "lent"}
  BY <1>8, <1>4, <1>5, <1>6, <1>2 DEF PipeOf, Inlet, Pipes
<1> QED  BY <1>3, <1>7, <1>8

LEMMA FromShape ==
  ASSUME graph \in Programs, NEW k \in DOMAIN graph, NEW i \in Args(k)
  PROVE  /\ i \in {1, 2} /\ k \in Nat \ {0}
         /\ OwnCell(k, i) \/ From(k, i) = "pipe" \/ From(k, i) = "lent"
         /\ From(k, i) # "pipe" => <<k, i>> \in CellsOf(graph)
BY OperandShape, LeafShape DEF OwnCell

LEMMA PipeShape ==
  ASSUME graph \in Programs, NEW k \in DOMAIN graph, NEW i \in Args(k), From(k, i) = "pipe"
  PROVE  /\ PipeOf(k, i) = Leaf(k).in[i].of
         /\ PipeOf(k, i) \in Pipes /\ PipeOf(k, i)[1] \in 1..(k - 1) /\ PipeOf(k, i)[2] \in {1, 2}
         /\ PipeOf(k, i)[2] \in Outs(PipeOf(k, i)[1])
         /\ Op(PipeOf(k, i)[1]).give[PipeOf(k, i)[2]] # HostValue
BY OperandShape

LEMMA InletShape ==
  ASSUME graph \in Programs, NEW k \in DOMAIN graph, NEW i \in Args(k), From(k, i) = "lent"
  PROVE  /\ PipeOf(k, i) = <<k, 2 + i>> /\ PipeOf(k, i) \in Pipes
         /\ PipeOf(k, i)[1] = k /\ PipeOf(k, i)[2] = 2 + i
<1>1. PipeOf(k, i) = <<k, 2 + i>>  BY DEF PipeOf, Inlet
<1>2. PipeOf(k, i) \in Pipes
  <2>1. i = 1 \/ i = 2  BY FromShape
  <2>2. 2 + i \in 1..4  BY <2>1
  <2> QED  BY <1>1, <2>2 DEF Pipes
<1> QED  BY <1>1, <1>2

\* No two operands drain one pipe.
LEMMA PipesInjective ==
  ASSUME graph \in Programs, NEW k \in DOMAIN graph, NEW i \in Args(k),
         NEW l \in DOMAIN graph, NEW j \in Args(l),
         ~OwnCell(k, i), ~OwnCell(l, j), PipeOf(k, i) = PipeOf(l, j)
  PROVE  k = l /\ i = j
<1>1. WellTyped(graph)  BY ProgramAssumption
<1>2. From(k, i) \in {"pipe", "lent"} /\ From(l, j) \in {"pipe", "lent"}  BY FromShape
<1>a. i \in {1, 2} /\ j \in {1, 2}  BY FromShape
<1>3. CASE From(k, i) = "lent" /\ From(l, j) = "lent"
  <2>1. PipeOf(k, i)[1] = k /\ PipeOf(k, i)[2] = 2 + i  BY <1>3, InletShape
  <2>2. PipeOf(l, j)[1] = l /\ PipeOf(l, j)[2] = 2 + j  BY <1>3, InletShape
  <2> QED  BY <2>1, <2>2, <1>a
<1>4. CASE From(k, i) = "pipe" /\ From(l, j) = "pipe"
  <2>1. graph[k].in[i].of = graph[l].in[j].of  BY <1>4 DEF PipeOf, From, Leaf
  <2>2. graph[k].in[i].from = "pipe" /\ graph[l].in[j].from = "pipe"  BY <1>4 DEF From, Leaf
  <2>3. i \in DOMAIN graph[k].in /\ j \in DOMAIN graph[l].in  BY DEF Args, Leaf
  <2>4. \A x, y \in DOMAIN graph : \A a \in DOMAIN graph[x].in, b \in DOMAIN graph[y].in :
          graph[x].in[a].from = "pipe" /\ graph[y].in[b].from = "pipe" /\ graph[x].in[a].of = graph[y].in[b].of
            => x = y /\ a = b
    BY <1>1 DEF WellTyped
  <2> QED  BY <2>1, <2>2, <2>3, <2>4
<1>5. CASE From(k, i) = "lent" /\ From(l, j) = "pipe"
  <2>1. PipeOf(k, i)[2] = 2 + i  BY <1>5, InletShape
  <2>2. PipeOf(l, j)[2] \in {1, 2}  BY <1>5, PipeShape
  <2> QED  BY <2>1, <2>2, <1>a
<1>6. CASE From(k, i) = "pipe" /\ From(l, j) = "lent"
  <2>1. PipeOf(l, j)[2] = 2 + j  BY <1>6, InletShape
  <2>2. PipeOf(k, i)[2] \in {1, 2}  BY <1>6, PipeShape
  <2> QED  BY <2>1, <2>2, <1>a
<1> QED  BY <1>2, <1>3, <1>4, <1>5, <1>6

\* A cell is named for a leaf, and for an operand of it or for the leaf itself.
LEMMA CellShape ==
  ASSUME graph \in Programs, NEW c \in CellsOf(graph)
  PROVE  /\ c \in Pairs /\ c[1] \in DOMAIN graph /\ c[2] \in 0..2 /\ c = <<c[1], c[2]>>
         /\ c[2] = 0 => Op(c[1]).seeds
         /\ c[2] # 0 => c[2] \in Args(c[1]) /\ From(c[1], c[2]) # "pipe"
<1>1. CASE \E k \in DOMAIN graph : c \in {<<k, i>> : i \in {j \in DOMAIN graph[k].in : graph[k].in[j].from # "pipe"}}
  <2>1. PICK k \in DOMAIN graph : c \in {<<k, i>> : i \in {j \in DOMAIN graph[k].in : graph[k].in[j].from # "pipe"}}
    BY <1>1
  <2>2. PICK i \in DOMAIN graph[k].in : c = <<k, i>> /\ graph[k].in[i].from # "pipe"  BY <2>1
  <2>3. i \in Args(k) /\ From(k, i) # "pipe"  BY <2>2 DEF Args, Leaf, From
  <2>4. i \in {1, 2} /\ k \in Nat \ {0}  BY <2>3, FromShape
  <2>5. c[1] = k /\ c[2] = i  BY <2>2
  <2> QED  BY <2>2, <2>3, <2>4, <2>5 DEF Pairs
<1>2. CASE \E k \in DOMAIN graph : graph[k].op.seeds /\ c = <<k, 0>>
  <2>1. PICK k \in DOMAIN graph : graph[k].op.seeds /\ c = <<k, 0>>  BY <1>2
  <2>2. k \in Nat \ {0}  BY LeafShape
  <2>3. c[1] = k /\ c[2] = 0 /\ Op(k).seeds  BY <2>1 DEF Op, Leaf
  <2> QED  BY <2>1, <2>2, <2>3 DEF Pairs
<1> QED
  <2> DEFINE Of(k) == {<<k, i>> : i \in {j \in DOMAIN graph[k].in : graph[k].in[j].from # "pipe"}}
  <2> DEFINE Own == UNION {Of(k) : k \in DOMAIN graph}
             Kept == {<<k, 0>> : k \in {l \in DOMAIN graph : graph[l].op.seeds}}
  <2>0. CellsOf(graph) = Own \cup Kept  BY DEF CellsOf
  <2>1. c \in Own \/ c \in Kept
    <3> HIDE DEF Own, Kept
    <3> QED  BY <2>0
  <2>2. (\E k \in DOMAIN graph : c \in Of(k)) \/ (\E k \in DOMAIN graph : graph[k].op.seeds /\ c = <<k, 0>>)
    <3> HIDE DEF Of
    <3> QED  BY <2>1
  <2> QED  BY <2>2, <1>1, <1>2

LEMMA SeedCell ==
  ASSUME graph \in Programs, NEW k \in DOMAIN graph, Op(k).seeds
  PROVE  <<k, 0>> \in CellsOf(graph)
<1>1. k \in {l \in DOMAIN graph : graph[l].op.seeds}  BY DEF Op, Leaf
<1> DEFINE Own == UNION {{<<l, i>> : i \in {j \in DOMAIN graph[l].in : graph[l].in[j].from # "pipe"}} : l \in DOMAIN graph}
           Kept == {<<m, 0>> : m \in {l \in DOMAIN graph : graph[l].op.seeds}}
<1>2. <<k, 0>> \in Kept  BY <1>1
<1>3. CellsOf(graph) = Own \cup Kept  BY DEF CellsOf
<1> HIDE DEF Own, Kept
<1> QED  BY <1>2, <1>3

LEMMA PairTyped == ASSUME NEW a \in Nat, NEW b \in Nat PROVE <<a, b>> \in Pairs
BY DEF Pairs

LEMMA NothingTyped == Nothing \in Payloads /\ None \in Pairs
BY DEF Nothing, None, Payloads, Pairs

\* The operands of a leaf, and what it deposits.
LEMMA OperandTyped ==
  ASSUME TypeOK, NEW k \in DOMAIN graph, NEW i \in Args(k)
  PROVE  Operand(k, i) \in Payloads /\ HomeOf(k, i) \in Pairs
<1>1. CASE OwnCell(k, i)
  <2>0. graph \in Programs  BY DEF TypeOK
  <2>1. i \in {1, 2} /\ k \in Nat  BY <2>0, FromShape
  <2>2. <<k, i>> \in Pairs  BY <2>1, PairTyped
  <2> QED  BY <1>1, <2>2, NothingTyped DEF Operand, Payloads, HomeOf
<1>2. CASE ~OwnCell(k, i)
  <2>1. PipeOf(k, i) \in Pipes  BY <1>2, FromShape, PipeShape, InletShape DEF TypeOK
  <2>2. Operand(k, i) = pipes[PipeOf(k, i)]  BY <1>2 DEF Operand
  <2>3. Operand(k, i) \in Payloads  BY <2>1, <2>2 DEF TypeOK
  <2> QED  BY <2>3, NothingTyped DEF HomeOf, Payloads
<1> QED  BY <1>1, <1>2

LEMMA BufTyped ==
  ASSUME TypeOK, NEW k \in DOMAIN graph, NEW j \in {Made} \cup Args(k)
  PROVE  Buf(k, j) \in Pairs
<1>1. CASE j = Made
  <2>1. k \in Nat /\ run \in Nat  BY LeafShape DEF TypeOK
  <2>2. <<k, 0>> \in Pairs /\ Minted(k) \in Pairs  BY <2>1, PairTyped DEF Minted
  <2> QED  BY <1>1, <2>2 DEF Buf
<1>2. CASE j # Made
  BY <1>2, OperandTyped DEF Buf, Payloads
<1> QED  BY <1>1, <1>2

LEMMA DepsTyped ==
  ASSUME TypeOK, NEW k \in DOMAIN graph
  PROVE  OperandDeps(k) \subseteq Pairs /\ <<k, run>> \in Pairs /\ OutDeps(k) \subseteq Pairs
<1>1. OperandDeps(k) \subseteq Pairs  BY OperandTyped DEF OperandDeps, Payloads
<1>2. <<k, run>> \in Pairs  BY LeafShape, PairTyped DEF TypeOK
<1> QED  BY <1>1, <1>2 DEF OutDeps

LEMMA OutputParts ==
  ASSUME graph \in Programs, NEW k \in DOMAIN graph, NEW p
  PROVE  /\ Output(k, p).deps = OutDeps(k)
         /\ Output(k, p).buf = IF Op(k).give[p] = HostValue THEN None ELSE Buf(k, Op(k).give[p])
         /\ Op(k).give[p] \in Args(k) => Output(k, p).home = HomeOf(k, Op(k).give[p])
         /\ Op(k).give[p] \notin Args(k) => Output(k, p).home = IF Op(k).give[p] = Made /\ Op(k).seeds THEN <<k, 0>> ELSE None
<1> DEFINE j == Op(k).give[p]
<1>1. j \in Args(k) => j # Made  BY LeafShape DEF Made
<1>2. Output(k, p).home = CASE j \in Args(k) -> HomeOf(k, j) [] j = Made /\ Op(k).seeds -> <<k, 0>> [] OTHER -> None
  BY DEF Output
<1>3. Output(k, p).deps = OutDeps(k) /\ Output(k, p).buf = IF j = HostValue THEN None ELSE Buf(k, j)
  BY DEF Output
<1>4. j \in Args(k) => Output(k, p).home = HomeOf(k, j)  BY <1>1, <1>2
<1>5. j \notin Args(k) => Output(k, p).home = IF j = Made /\ Op(k).seeds THEN <<k, 0>> ELSE None  BY <1>2
<1> QED  BY <1>3, <1>4, <1>5

LEMMA OutputTyped ==
  ASSUME TypeOK, NEW k \in DOMAIN graph, NEW p \in Outs(k)
  PROVE  Output(k, p) \in Payloads
<1> DEFINE j == Op(k).give[p]
<1>1. j \in {Made, HostValue} \cup Args(k)  BY LeafShape DEF TypeOK
<1>2. j # HostValue => Buf(k, j) \in Pairs  BY <1>1, BufTyped
<1>3. j \in Args(k) => HomeOf(k, j) \in Pairs  BY OperandTyped
<1>4. <<k, 0>> \in Pairs  BY LeafShape, PairTyped DEF TypeOK
<1>5. Output(k, p).buf \in Pairs /\ Output(k, p).home \in Pairs /\ Output(k, p).deps \in SUBSET Pairs
  BY <1>2, <1>3, <1>4, NothingTyped, DepsTyped DEF Output
<1> QED  BY <1>5 DEF Output, Payloads

LEMMA CommandTyped ==
  ASSUME TypeOK, NEW k \in DOMAIN graph
  PROVE  Command(k) \in Commands
<1>1. Op(k).reads \cup Op(k).writes \subseteq {Made} \cup Args(k)  BY LeafShape DEF TypeOK
<1>2. {Buf(k, j) : j \in Op(k).reads} \subseteq Pairs /\ {Buf(k, j) : j \in Op(k).writes} \subseteq Pairs
  BY <1>1, BufTyped
<1>3. OperandDeps(k) \cap Pending \subseteq Pairs  BY DepsTyped
<1> QED  BY <1>2, <1>3, DepsTyped DEF Command, Commands

LEMMA FilledTyped ==
  ASSUME NEW ps \in [Pipes -> Payloads], NEW k, NEW outs, \A p \in DOMAIN outs : outs[p] \in Payloads
  PROVE  Filled(ps, k, outs) \in [Pipes -> Payloads]
BY DEF Filled

LEMMA LessTyped ==
  ASSUME TypeOK, NEW k, NEW is
  PROVE  /\ CellsLess(k, is) \in [CellsOf(graph) -> {"new", "full", "out", "taken"}]
         /\ PipesLess(k, is) \in [Pipes -> Payloads]
BY NothingTyped DEF TypeOK, CellsLess, PipesLess

LEMMA RefillTyped ==
  ASSUME NEW S, NEW cs \in [S -> {"new", "full", "out", "taken"}], NEW homes
  PROVE  Refill(cs, homes) \in [S -> {"new", "full", "out", "taken"}]
BY DEF Refill

\* No action changes the graph, and so no index of its leaves or pipes.
LEMMA SameGraph == ASSUME Next PROVE graph' = graph
BY DEF Next, StartSync, Inside, Transfers, Mopped, SyncReturns, Unready, Runs, Refused, Seeds, SeedFails,
  Reclaim, DropCheckout, IntoInner, Device, Finish

LEMMA OutsideEmpty == DOMAIN Outside.outs = {} /\ Outside.back = {}
<1>1. Outside.outs = <<>>  BY DEF Outside
<1>2. Outside.back = {}  BY DEF Outside
<1> QED  BY <1>1, <1>2

LEMMA TypeInit == Init => TypeOK
<1> SUFFICES ASSUME Init PROVE TypeOK
  OBVIOUS
<1>1. graph \in Programs  BY DEF Init
<1>0. WellTyped(graph)  BY <1>1, ProgramAssumption
<1>2. 1 \in DOMAIN graph
  <2>1. Len(graph) \in Nat \ {0} /\ DOMAIN graph = 1..Len(graph)  BY <1>0 DEF WellTyped
  <2> QED  BY <2>1
<1>3. \A x \in Pipes : x[1] \in Nat /\ x[2] \in 1..4  BY <1>2, <1>1, LeafShape DEF Pipes
<1>4. \A x \in Pipes : pipes[x] \in Payloads
  <2> SUFFICES ASSUME NEW x \in Pipes PROVE pipes[x] \in Payloads
    OBVIOUS
  <2>1. x[1] \in Nat /\ x[2] \in 1..4 /\ x[1] \in DOMAIN graph  BY <1>3 DEF Pipes
  <2>2. pipes[x] = IF \E i \in Args(x[1]) : From(x[1], i) = "lent" /\ x = Inlet(x[1], i)
                   THEN [buf |-> <<x[1], x[2] - 2>>, home |-> <<x[1], x[2] - 2>>, deps |-> {}]
                   ELSE Nothing
    BY DEF Init, Pipes
  <2>3. CASE \E i \in Args(x[1]) : From(x[1], i) = "lent" /\ x = Inlet(x[1], i)
    <3>1. PICK i \in Args(x[1]) : From(x[1], i) = "lent" /\ x = Inlet(x[1], i)  BY <2>3
    <3>2. i = 1 \/ i = 2  BY <1>1, <2>1, FromShape
    <3>3. x[2] = 2 + i  BY <3>1 DEF Inlet
    <3>4. x[2] - 2 \in Nat  BY <3>2, <3>3
    <3>5. <<x[1], x[2] - 2>> \in Pairs  BY <2>1, <3>4, PairTyped
    <3> QED  BY <2>2, <2>3, <3>5 DEF Payloads
  <2>4. CASE ~\E i \in Args(x[1]) : From(x[1], i) = "lent" /\ x = Inlet(x[1], i)
    BY <2>2, <2>4, NothingTyped
  <2> QED  BY <2>3, <2>4
<1>5. pipes \in [Pipes -> Payloads]  BY <1>4 DEF Init, Pipes
<1>6. cells \in [CellsOf(graph) -> {"new", "full", "out", "taken"}]  BY DEF Init
<1>7. DOMAIN inline.outs = {} /\ inline.back = {}  BY OutsideEmpty DEF Init
<1> QED  BY <1>1, <1>2, <1>5, <1>6, <1>7 DEF Init, TypeOK

LEMMA NextLeafTyped ==
  ASSUME TypeOK, Next1
  PROVE  pc' \in {"walk", "mopup"} /\ at' \in DOMAIN graph
<1>1. DOMAIN graph = 1..Final /\ Final \in Nat  BY LeafShape DEF TypeOK
<1>2. at \in 1..Final  BY <1>1 DEF TypeOK
<1> QED  BY <1>1, <1>2 DEF Next1

LEMMA RunsTyped ==
  ASSUME TypeOK, NEW k \in DOMAIN graph, Runs(k)
  PROVE  TypeOK'
<1> DEFINE outs == [p \in Outs(k) |-> Output(k, p)]
           ps == PipesLess(k, Args(k))
<1>1. ps \in [Pipes -> Payloads] /\ CellsLess(k, Args(k)) \in [CellsOf(graph) -> {"new", "full", "out", "taken"}]
  BY LessTyped
<1>2. DOMAIN outs = Outs(k) /\ \A p \in DOMAIN outs : outs[p] \in Payloads  BY OutputTyped
<1>3. Filled(ps, k, outs) \in [Pipes -> Payloads]
  <2> HIDE DEF outs, ps
  <2> QED  BY <1>1, <1>2, FilledTyped
<1>4. pend' \subseteq Commands  BY CommandTyped DEF Runs, TypeOK
<1>5. \A S : Refill(CellsLess(k, Args(k)), S) \in [CellsOf(graph) -> {"new", "full", "out", "taken"}]
  <2> HIDE DEF outs, ps
  <2> QED  BY <1>1, RefillTyped
<1>6. Noted(k) \subseteq Pairs  BY DepsTyped DEF Noted, TypeOK
<1>7. graph' = graph /\ run' = run /\ held' = held /\ dirty' = dirty /\ excused' = excused  BY DEF Runs
<1>8. Outs(k) \in {{1}, {1, 2}}  BY LeafShape DEF TypeOK
<1>9. CASE WaitsInside(k)
  <2>1. inline' = [outs |-> outs, back |-> {HomeOf(k, i) : i \in Args(k)}]
        /\ pc' = "inside" /\ at' = at /\ cells' = CellsLess(k, Args(k)) /\ pipes' = ps /\ noted' = noted
    BY <1>9 DEF Runs
  <2>2. {HomeOf(k, i) : i \in Args(k)} \subseteq Pairs  BY OperandTyped
  <2>3. inline'.outs = outs /\ inline'.back = {HomeOf(k, i) : i \in Args(k)}  BY <2>1
  <2> HIDE DEF outs, ps
  <2> QED  BY <1>1, <1>2, <1>4, <1>7, <1>8, <2>1, <2>2, <2>3 DEF TypeOK, Pipes
<1>10. CASE ~WaitsInside(k)
  <2>1. pipes' = Filled(ps, k, outs) /\ cells' = Refill(CellsLess(k, Args(k)), Consumed(k) \cup Overwritten(ps, k, outs))
        /\ noted' = Noted(k) /\ Next1 /\ inline' = inline
    BY <1>10 DEF Runs
  <2> HIDE DEF outs, ps
  <2>2. pc' \in {"walk", "mopup"} /\ at' \in DOMAIN graph  BY <2>1, NextLeafTyped
  <2>3. cells' \in [CellsOf(graph) -> {"new", "full", "out", "taken"}] /\ pipes' \in [Pipes -> Payloads] /\ noted' \subseteq Pairs
    BY <2>1, <1>3, <1>5, <1>6
  <2> QED  BY <1>4, <1>7, <2>1, <2>2, <2>3 DEF TypeOK, Pipes
<1> QED  BY <1>9, <1>10

LEMMA TypeStep ==
  ASSUME TypeOK, Next
  PROVE  TypeOK'
<1> DEFINE States == [CellsOf(graph) -> {"new", "full", "out", "taken"}]
<1> USE DEF Pipes
<1>1. ASSUME StartSync PROVE TypeOK'
  <2>1. 1 \in DOMAIN graph  BY LeafShape DEF TypeOK
  <2>2. Lacking \in BOOLEAN  BY DEF Lacking
  <2>3. excused' \in BOOLEAN  BY <1>1, <2>2, Zenon DEF StartSync
  <2> QED  BY <1>1, <2>1, <2>3 DEF StartSync, TypeOK
<1>2. ASSUME Inside PROVE TypeOK'
  <2>1. Filled(pipes, Final, inline.outs) \in [Pipes -> Payloads]  BY FilledTyped DEF TypeOK
  <2>2. \A S : Refill(cells, S) \in States  BY RefillTyped DEF TypeOK
  <2>3. cells' \in States /\ pipes' \in [Pipes -> Payloads]  BY <1>2, <2>1, <2>2 DEF Inside, TypeOK
  <2>4. pc' \in {"walk", "mopup", "failed"} /\ at' \in DOMAIN graph
    <3>1. CASE Next1  BY <3>1, NextLeafTyped
    <3>2. CASE Fails  BY <3>2 DEF Fails, TypeOK
    <3> QED  BY <1>2, <3>1, <3>2 DEF Inside
  <2>5. excused' \in BOOLEAN  BY <1>2 DEF Inside, TypeOK
  <2>6. DOMAIN inline'.outs = {} /\ inline'.back = {}  BY <1>2, OutsideEmpty DEF Inside
  <2>7. \A p \in DOMAIN inline'.outs : inline'.outs[p] \in Payloads  BY <2>6
  <2>8. graph' = graph /\ run' = run /\ held' = held /\ pend' = pend /\ dirty' = dirty /\ noted' = noted
    BY <1>2 DEF Inside
  <2>9. DOMAIN inline'.outs \in {{}, {1}, {1, 2}} /\ inline'.back \subseteq Pairs  BY <2>6
  <2> QED  BY <2>3, <2>4, <2>5, <2>7, <2>8, <2>9 DEF TypeOK
<1>3. ASSUME Transfers PROVE TypeOK'
  BY <1>3 DEF Transfers, TypeOK
<1>4. ASSUME Mopped PROVE TypeOK'
  BY <1>4 DEF Mopped, TypeOK
<1>5. ASSUME SyncReturns PROVE TypeOK'
  <2>1. \A S : Refill(cells, S) \in States  BY RefillTyped DEF TypeOK
  <2>2. cells' \in States  BY <1>5, <2>1 DEF SyncReturns, TypeOK
  <2>3. pipes' \in [Pipes -> Payloads]  BY <1>5, NothingTyped DEF SyncReturns, TypeOK
  <2>4. Checkouts \subseteq Payloads
    <3>1. Delivered \subseteq Pipes
      <4>1. Final \in DOMAIN graph /\ Outs(Final) \subseteq 1..4  BY LeafShape DEF TypeOK
      <4> QED  BY <4>1 DEF Delivered
    <3> QED  BY <3>1 DEF Checkouts, TypeOK
  <2>5. held' \subseteq [buf : Pairs, home : Pairs]  BY <1>5, <2>4 DEF SyncReturns, TypeOK, Payloads
  <2> QED  BY <1>5, <2>2, <2>3, <2>5 DEF SyncReturns, TypeOK
<1>6. ASSUME NEW k \in DOMAIN graph, Unready(k) PROVE TypeOK'
  BY <1>6, LessTyped DEF Unready, TypeOK, Fails
<1>7. ASSUME NEW k \in DOMAIN graph, Runs(k) PROVE TypeOK'
  BY <1>7, RunsTyped
<1>8. ASSUME NEW k \in DOMAIN graph, Refused(k) PROVE TypeOK'
  <2>1. cells' \in States  BY <1>8, LessTyped, RefillTyped DEF Refused
  <2> QED  BY <1>8, <2>1, LessTyped DEF Refused, TypeOK, Fails
<1>9. ASSUME NEW k \in DOMAIN graph, Seeds(k) PROVE TypeOK'
  <2> DEFINE outs == <<Output(k, 1)>>
  <2>1. 1 \in Outs(k)  BY LeafShape DEF TypeOK
  <2>2. DOMAIN outs = {1} /\ outs[1] \in Payloads  BY <2>1, OutputTyped
  <2>3. pipes' = Filled(pipes, k, outs) /\ cells' = [cells EXCEPT ![<<k, 0>>] = "out"] /\ Next1 /\ dirty' \subseteq dirty
    BY <1>9 DEF Seeds
  <2> HIDE DEF outs
  <2>4. pipes' \in [Pipes -> Payloads]  BY <2>2, <2>3, FilledTyped DEF TypeOK
  <2>5. cells' \in States  BY <2>3 DEF TypeOK
  <2>6. pc' \in {"walk", "mopup"} /\ at' \in DOMAIN graph  BY <2>3, NextLeafTyped
  <2> QED  BY <1>9, <2>3, <2>4, <2>5, <2>6 DEF Seeds, TypeOK
<1>10. ASSUME NEW k \in DOMAIN graph, SeedFails(k) PROVE TypeOK'
  BY <1>10 DEF SeedFails, TypeOK, Fails
<1>11. ASSUME NEW x \in Undelivered, Reclaim(x) PROVE TypeOK'
  <2>1. cells' \in States  BY <1>11, RefillTyped DEF Reclaim, TypeOK
  <2>2. pipes' \in [Pipes -> Payloads]  BY <1>11, NothingTyped DEF Reclaim, TypeOK
  <2> QED  BY <1>11, <2>1, <2>2 DEF Reclaim, TypeOK
<1>12. ASSUME NEW h \in held, DropCheckout(h) PROVE TypeOK'
  <2>1. cells' \in States  BY <1>12, RefillTyped DEF DropCheckout, TypeOK
  <2> QED  BY <1>12, <2>1 DEF DropCheckout, TypeOK
<1>13. ASSUME NEW h \in held, IntoInner(h) PROVE TypeOK'
  BY <1>13 DEF IntoInner, TypeOK
<1>14. ASSUME NEW c \in pend, Finish(c) PROVE TypeOK'
  <2>1. c.writes \subseteq Pairs  BY DEF TypeOK, Commands
  <2>2. dirty' \subseteq Pairs /\ pend' \subseteq Commands  BY <1>14, <2>1 DEF Finish, TypeOK
  <2> QED  BY <1>14, <2>2 DEF Finish, TypeOK
<1> QED  BY <1>1, <1>2, <1>3, <1>4, <1>5, <1>6, <1>7, <1>8, <1>9, <1>10, <1>11, <1>12, <1>13, <1>14 DEF Next, Device

\* Every variable has its type, in every reachable state.
THEOREM Typing == Spec => []TypeOK
<1>1. ASSUME TypeOK, [Next]_vars PROVE TypeOK'
  <2>1. CASE Next  BY <1>1, <2>1, TypeStep
  <2>2. CASE UNCHANGED vars  BY <1>1, <2>2 DEF vars, TypeOK, Pipes
  <2> QED  BY <1>1, <2>1, <2>2
<1> QED  BY TypeInit, <1>1, PTL DEF Spec

-----------------------------------------------------------------------------
(* Where a run stands.                                                     *)

Phases ==
  /\ pc \in {"inside", "mopup", "wait"} => at = Final
  /\ pc = "inside" => WaitsInside(Final) /\ DOMAIN inline.outs = Outs(Final)
  /\ pc # "inside" => inline = Outside
  /\ pc # "idle" => run > 0
  /\ \A p \in DOMAIN inline.outs : inline.outs[p].deps = {}

LEMMA FinalLeaf == ASSUME TypeOK PROVE Final \in DOMAIN graph /\ Final \in Nat \ {0} /\ DOMAIN graph = 1..Final
<1>1. Final \in Nat \ {0} /\ DOMAIN graph = 1..Final  BY LeafShape DEF TypeOK
<1> QED  BY <1>1

LEMMA PhasesInit == Init => Phases
BY OutsideEmpty DEF Init, Phases

LEMMA PhasesStep ==
  ASSUME TypeOK, Phases, Next
  PROVE  Phases'
<1>0. graph' = graph  BY SameGraph
<1>f. Final' = Final  BY <1>0 DEF Final
<1>w. (WaitsInside(Final) <=> WaitsInside(Final)') /\ Outs(Final)' = Outs(Final)
  BY <1>0 DEF WaitsInside, Final, Op, Leaf, Outs
<1>o. DOMAIN Outside.outs = {}  BY OutsideEmpty
<1>n. Next1 => pc' # "inside" /\ pc' # "idle" /\ pc' # "wait" /\ (pc' = "mopup" => at' = Final)
  BY DEF Next1
<1>1. ASSUME StartSync PROVE Phases'
  BY <1>1, <1>f, <1>w DEF StartSync, Phases, TypeOK
<1>2. ASSUME Inside PROVE Phases'
  <2>1. inline' = Outside /\ run' = run /\ pc = "inside" /\ (Next1 \/ Fails)  BY <1>2 DEF Inside
  <2>2. pc' # "inside" /\ pc' # "wait" /\ (pc' = "mopup" => at' = Final)  BY <2>1, <1>n DEF Fails
  <2> QED  BY <2>1, <2>2, <1>f, <1>o DEF Phases
<1>3. ASSUME NEW k \in DOMAIN graph, Runs(k) PROVE Phases'
  <2>1. pc = "walk" /\ inline = Outside /\ run > 0 /\ run' = run  BY <1>3 DEF Runs, Ready, Walking, Phases
  <2>2. CASE WaitsInside(k)
    <3> DEFINE outs == [p \in Outs(k) |-> Output(k, p)]
    <3>1. k = Final /\ at = Final /\ at' = at /\ pc' = "inside"
      BY <1>3, <2>2 DEF Runs, Ready, Walking, WaitsInside
    <3>2. inline' = [outs |-> outs, back |-> {HomeOf(k, i) : i \in Args(k)}]  BY <1>3, <2>2 DEF Runs
    <3>3. inline'.outs = outs  BY <3>2
    <3>a. OutDeps(k) = {}  BY <2>2 DEF OutDeps
    <3>4. \A p \in Outs(k) : outs[p].deps = {}  BY <3>a, OutputParts DEF TypeOK
    <3>5. DOMAIN outs = Outs(k)  OBVIOUS
    <3> HIDE DEF outs
    <3> QED  BY <2>1, <2>2, <3>1, <3>3, <3>4, <3>5, <1>f, <1>w DEF Phases
  <2>3. CASE ~WaitsInside(k)
    <3>1. Next1 /\ inline' = inline  BY <1>3, <2>3 DEF Runs
    <3> QED  BY <2>1, <3>1, <1>n, <1>f, <1>o DEF Phases
  <2> QED  BY <2>2, <2>3
<1>4. ASSUME NEW k \in DOMAIN graph, Seeds(k) PROVE Phases'
  <2>1. Next1 /\ inline' = inline /\ run' = run /\ pc = "walk"  BY <1>4 DEF Seeds, Walking
  <2> QED  BY <2>1, <1>n, <1>f DEF Phases
<1>5. CASE UNCHANGED <<pc, at, inline, run>>
  BY <1>5, <1>f, <1>w DEF Phases
<1>6. CASE pc' \in {"failed", "unwind", "idle", "wait"} /\ pc \in {"walk", "failed", "mopup", "unwind", "wait"}
           /\ (pc' = "wait" => pc = "mopup") /\ UNCHANGED <<at, inline, run>>
  BY <1>6, <1>f DEF Phases
<1> QED
  BY <1>1, <1>2, <1>3, <1>4, <1>5, <1>6 DEF Next, Transfers, Mopped, SyncReturns, Unready, Refused, Ready, Walking,
     Fails, SeedFails, Reclaim, DropCheckout, IntoInner, Device, Finish

-----------------------------------------------------------------------------
(* Custody: where the buffers are.  A place is a pipe, or, for p = 1 or 2,  *)
(* <<0, p>>: what the leaf that waits inside execute will deposit.  While a *)
(* leaf runs, <<-1, j>> is its hand on operand j, or on what it made.       *)

Places == Pipes \cup {<<0, 1>>, <<0, 2>>}
Loads ==
  [x \in Places |-> IF x[1] # 0 THEN pipes[x]
                    ELSE IF x[2] \in DOMAIN inline.outs THEN inline.outs[x[2]] ELSE Nothing]

\* No buffer is in two places; a buffer of a cell that is in some place, or that a
\* Checkout holds, is out of its cell; a home is the cell of the buffer it is with.
Apart(L, cs, hs) ==
  /\ \A x \in DOMAIN L : L[x].home \in {None, L[x].buf} /\ (L[x].home # None => L[x].home \in DOMAIN cs)
  /\ \A x, y \in DOMAIN L : x # y /\ L[x].buf = L[y].buf => L[x].buf[1] = 0
  /\ \A x \in DOMAIN L : L[x].buf \in DOMAIN cs => cs[L[x].buf] = "out"
  /\ \A h \in hs : /\ h.home = h.buf /\ h.home \in DOMAIN cs /\ cs[h.home] = "out"
                   /\ \A x \in DOMAIN L : L[x].buf # h.buf

Unused(L, src, y) == \A x \in DOMAIN L : L[x].buf[1] # 0 => src[x] # y

\* Payloads move from place to place, some are dropped, some buffers go home and some
\* reach the caller.
Rearranged(L1, c1, hs1, src, homes, L2, c2, hs2) ==
  /\ \A x \in DOMAIN L2 :
       \/ L2[x].buf[1] = 0 /\ L2[x].home = None
       \/ /\ src[x] \in DOMAIN L1 /\ L2[x].buf = L1[src[x]].buf
          /\ L2[x].home \in {None, L1[src[x]].home}
  /\ \A x, y \in DOMAIN L2 : x # y /\ L2[x].buf[1] # 0 /\ L2[y].buf[1] # 0 => src[x] # src[y]
  /\ DOMAIN c2 = DOMAIN c1 /\ \A c \in DOMAIN c1 \ homes : c2[c] = c1[c]
  /\ \A h \in hs2 : \/ h \in hs1
                    \/ /\ h.home = h.buf /\ h.home \in DOMAIN c1
                       /\ \E y \in DOMAIN L1 : L1[y].home = h.home /\ Unused(L2, src, y)
  /\ \A c \in homes \cap DOMAIN c1 :
       /\ \A h \in hs2 : h.home # c
       /\ \/ \A x \in DOMAIN L2 : L2[x].buf # c
          \/ \E h \in hs1 : h.home = c
          \/ \E y \in DOMAIN L1 : L1[y].home = c /\ Unused(L2, src, y)

\* If what goes home or to the caller is left in no place, and in no two hands,
\* nothing is shared.
LEMMA Rearrange ==
  ASSUME NEW L1, NEW L2, NEW c1, NEW c2, NEW hs1, NEW hs2, NEW src, NEW homes,
         Apart(L1, c1, hs1), \A c \in DOMAIN c1 : c[1] # 0,
         Rearranged(L1, c1, hs1, src, homes, L2, c2, hs2)
  PROVE  Apart(L2, c2, hs2)
<1> USE DEF Rearranged
<1>0. \A c \in DOMAIN c1 : c # None  BY DEF None
<1>1. \A y \in DOMAIN L1 : \A c \in DOMAIN c1 : L1[y].home = c => L1[y].buf = c
  BY <1>0 DEF Apart
<1>2. ASSUME NEW y \in DOMAIN L1, Unused(L2, src, y), NEW c \in DOMAIN c1, L1[y].home = c
      PROVE  /\ \A x \in DOMAIN L2 : L2[x].buf # c
             /\ c1[c] = "out"
  <2>1. L1[y].buf = c /\ c[1] # 0  BY <1>1, <1>2
  <2>2. c1[c] = "out"  BY <2>1 DEF Apart
  <2>3. ASSUME NEW x \in DOMAIN L2, L2[x].buf = c PROVE FALSE
    <3>1. src[x] \in DOMAIN L1 /\ L1[src[x]].buf = c  BY <2>1, <2>3
    <3>2. src[x] # y  BY <1>2, <2>1, <2>3 DEF Unused
    <3> QED  BY <2>1, <3>1, <3>2 DEF Apart
  <2> QED  BY <2>2, <2>3
<1>3. \A c \in homes \cap DOMAIN c1 : (\A x \in DOMAIN L2 : L2[x].buf # c) /\ (\A h \in hs2 : h.home # c)
  <2> SUFFICES ASSUME NEW c \in homes \cap DOMAIN c1 PROVE (\A x \in DOMAIN L2 : L2[x].buf # c)
    OBVIOUS
  <2>1. CASE \E h \in hs1 : h.home = c
    <3>1. PICK h \in hs1 : h.home = c  BY <2>1
    <3>2. \A y \in DOMAIN L1 : L1[y].buf # c  BY <3>1 DEF Apart
    <3> QED  BY <3>2
  <2>2. CASE \E y \in DOMAIN L1 : L1[y].home = c /\ Unused(L2, src, y)
    BY <2>2, <1>2
  <2> QED  BY <2>1, <2>2
<1>4. \A x \in DOMAIN L2 : L2[x].home \in {None, L2[x].buf} /\ (L2[x].home # None => L2[x].home \in DOMAIN c2)
  BY DEF Apart
<1>5. \A x, y \in DOMAIN L2 : x # y /\ L2[x].buf = L2[y].buf => L2[x].buf[1] = 0
  BY DEF Apart
<1>6. \A x \in DOMAIN L2 : L2[x].buf \in DOMAIN c2 => c2[L2[x].buf] = "out"
  BY <1>3 DEF Apart
<1>7. \A h \in hs2 : /\ h.home = h.buf /\ h.home \in DOMAIN c2 /\ c2[h.home] = "out"
                     /\ \A x \in DOMAIN L2 : L2[x].buf # h.buf
  <2> TAKE h \in hs2
  <2>1. CASE h \in hs1
    <3>1. h.home = h.buf /\ h.home \in DOMAIN c1 /\ c1[h.home] = "out" /\ \A y \in DOMAIN L1 : L1[y].buf # h.buf
      BY <2>1 DEF Apart
    <3>2. h.home \notin homes  BY <1>3, <3>1
    <3>3. \A x \in DOMAIN L2 : L2[x].buf # h.buf  BY <3>1
    <3> QED  BY <3>1, <3>2, <3>3
  <2>2. CASE h \notin hs1
    <3>1. PICK y \in DOMAIN L1 : L1[y].home = h.home /\ Unused(L2, src, y)  BY <2>2
    <3>2. h.home = h.buf /\ h.home \in DOMAIN c1  BY <2>2
    <3>3. c1[h.home] = "out" /\ \A x \in DOMAIN L2 : L2[x].buf # h.home  BY <1>2, <3>1, <3>2
    <3>4. h.home \notin homes  BY <1>3, <3>2
    <3> QED  BY <3>2, <3>3, <3>4
  <2> QED  BY <2>1, <2>2
<1> QED  BY <1>4, <1>5, <1>6, <1>7 DEF Apart

LEMMA HomeNotHeld ==
  ASSUME NEW L, NEW cs, NEW hs, Apart(L, cs, hs), NEW y \in DOMAIN L, L[y].home # None
  PROVE  L[y].home = L[y].buf /\ L[y].home \in DOMAIN cs /\ cs[L[y].home] = "out" /\ \A h \in hs : h.home # L[y].home
BY DEF Apart

\* While leaf k runs: it has drained the pipes of the operands it took, and holds
\* them, and the buffer it made, in its hands.
Piece(k, j) == IF j = Made THEN [buf |-> Minted(k), home |-> None, deps |-> {}] ELSE Operand(k, j)
Drained(k, is, x) == \E i \in is : ~OwnCell(k, i) /\ x = PipeOf(k, i)
Hands == {<<-1, Made>>, <<-1, 1>>, <<-1, 2>>}
InHand(k, is) ==
  [x \in Places \cup Hands |->
     IF x[1] = -1 THEN IF x[2] \in {Made} \cup is THEN Piece(k, x[2]) ELSE Nothing
     ELSE IF Drained(k, is, x) THEN Nothing ELSE Loads[x]]

\* A buffer that a run made is of a leaf the walk has passed; every other is of a cell.
PosOf(x) == IF x[1] = 0 THEN Final ELSE x[1]
Bears(q, b) ==
  b[1] # 0 =>
    /\ b[1] \in 1..q
    /\ \/ b \in DOMAIN cells
       \/ b[2] \in 11..(10 + run) /\ (pc = "walk" /\ b[2] = 10 + run => b[1] < at)
Born == \A x \in Places : Bears(PosOf(x), Loads[x].buf)

LEMMA PlaceShape ==
  ASSUME graph \in Programs
  PROVE  /\ \A x \in Pipes : x[1] \in DOMAIN graph /\ x[1] \in Nat \ {0} /\ x[2] \in 1..4 /\ x = <<x[1], x[2]>>
         /\ \A x \in Places : x[1] \in Nat /\ x = <<x[1], x[2]>> /\ (x[1] # 0 <=> x \in Pipes)
         /\ \A x \in Pipes : Loads[x] = pipes[x]
         /\ DOMAIN Loads = Places
<1>1. \A x \in Pipes : x[1] \in DOMAIN graph /\ x[2] \in 1..4 /\ x = <<x[1], x[2]>>  BY DEF Pipes
<1>2. \A x \in Pipes : x[1] \in Nat \ {0}  BY <1>1, LeafShape
<1> QED  BY <1>1, <1>2 DEF Places, Loads

LEMMA LoadsTyped ==
  ASSUME TypeOK
  PROVE  \A x \in Places : Loads[x] \in Payloads
BY PlaceShape, NothingTyped DEF Loads, TypeOK

\* A minted buffer is new.
LEMMA MintedNew ==
  ASSUME TypeOK, Born, NEW k \in DOMAIN graph, Walking(k), Apart(Loads, cells, held)
  PROVE  /\ Minted(k) \notin DOMAIN cells
         /\ \A x \in Places : Loads[x].buf # Minted(k)
         /\ \A h \in held : h.buf # Minted(k)
<1> DEFINE m == Minted(k)
<1>1. m[1] = k /\ m[2] = 10 + run /\ k \in Nat \ {0} /\ run \in Nat /\ pc = "walk" /\ at = k
  BY LeafShape DEF Minted, Walking, TypeOK
<1>2. m \notin DOMAIN cells
  <2>1. DOMAIN cells = CellsOf(graph)  BY DEF TypeOK
  <2>2. \A c \in CellsOf(graph) : c[2] \in 0..2  BY CellShape DEF TypeOK
  <2>3. m[2] \notin 0..2  BY <1>1
  <2> QED  BY <2>1, <2>2, <2>3
<1> HIDE DEF m
<1>3. \A x \in Places : Loads[x].buf # m  BY <1>1, <1>2 DEF Born, Bears
<1>4. \A h \in held : h.buf # m  BY <1>2 DEF Apart
<1> QED  BY <1>2, <1>3, <1>4 DEF m

LEMMA PipePlace ==
  ASSUME TypeOK, NEW k \in DOMAIN graph, NEW i \in Args(k), ~OwnCell(k, i)
  PROVE  PipeOf(k, i) \in Pipes /\ Operand(k, i) = Loads[PipeOf(k, i)] /\ PipeOf(k, i)[1] \in 1..k
<1>1. graph \in Programs  BY DEF TypeOK
<1>2. From(k, i) = "pipe" \/ From(k, i) = "lent"  BY <1>1, FromShape
<1>3. k \in Nat \ {0}  BY <1>1, LeafShape
<1>4. PipeOf(k, i) \in Pipes /\ PipeOf(k, i)[1] \in 1..k
  BY <1>1, <1>2, <1>3, PipeShape, InletShape
<1>5. Operand(k, i) = pipes[PipeOf(k, i)]  BY DEF Operand
<1> QED  BY <1>1, <1>4, <1>5, PlaceShape

\* Taking operands shares nothing.
LEMMA InHandApart ==
  ASSUME TypeOK, Born, Apart(Loads, cells, held), NEW k \in DOMAIN graph, Walking(k),
         NEW is \in SUBSET Args(k), \A i \in is : Resolvable(k, i)
  PROVE  Apart(InHand(k, is), CellsLess(k, is), held)
<1> DEFINE L1 == InHand(k, is)
           cs == CellsLess(k, is)
<1>1. graph \in Programs /\ DOMAIN cells = CellsOf(graph)  BY DEF TypeOK
<1>2. DOMAIN L1 = Places \cup Hands  BY DEF InHand
<1>3. \A x \in Places : x[1] # -1  BY <1>1, PlaceShape
<1>4. \A x \in Places : L1[x] = IF Drained(k, is, x) THEN Nothing ELSE Loads[x]  BY <1>3 DEF InHand
<1>5. \A j \in {Made, 1, 2} : L1[<<-1, j>>] = IF j \in {Made} \cup is THEN Piece(k, j) ELSE Nothing
  BY DEF InHand, Hands, Made
<1>6. \A c \in DOMAIN cells : cs[c] = IF \E i \in is : OwnCell(k, i) /\ c = <<k, i>> THEN "out" ELSE cells[c]
  BY DEF CellsLess
<1>7. DOMAIN cs = DOMAIN cells  BY DEF CellsLess
<1>8. \A i \in is : i \in {1, 2} /\ i \in Args(k)  BY <1>1, FromShape
<1>9. \A i \in is : OwnCell(k, i) =>
        /\ Operand(k, i).buf = <<k, i>> /\ Operand(k, i).home = <<k, i>> /\ <<k, i>> \in DOMAIN cells
        /\ cells[<<k, i>>] = "full"
  BY <1>1, FromShape DEF Operand, OwnCell, Resolvable
<1>10. \A i \in is : ~OwnCell(k, i) => PipeOf(k, i) \in Places /\ Operand(k, i) = Loads[PipeOf(k, i)] /\ Drained(k, is, PipeOf(k, i))
  BY PipePlace DEF Places, Drained
<1>11. \A i, j \in is : ~OwnCell(k, i) /\ ~OwnCell(k, j) /\ PipeOf(k, i) = PipeOf(k, j) => i = j
  BY <1>1, PipesInjective
<1>12. DOMAIN Loads = Places  BY <1>1, PlaceShape
<1>13. Nothing.buf[1] = 0 /\ Nothing.home = None /\ \A c \in DOMAIN cells : c[1] # 0
  <2>1. \A c \in CellsOf(graph) : c[1] \in DOMAIN graph  BY <1>1, CellShape
  <2>2. \A l \in DOMAIN graph : l # 0  BY <1>1, LeafShape
  <2> QED  BY <1>1, <2>1, <2>2 DEF Nothing
<1>14. /\ Minted(k) \notin DOMAIN cells
       /\ \A x \in Places : Loads[x].buf # Minted(k)
       /\ \A h \in held : h.buf # Minted(k)
  BY MintedNew
<1>15. Piece(k, Made).buf = Minted(k) /\ Piece(k, Made).home = None /\ \A i \in {1, 2} : Piece(k, i) = Operand(k, i)
  BY DEF Piece, Made
\* One operand against the rest.
<1>16. \A i \in is : \A x \in Places : ~Drained(k, is, x) /\ Loads[x].buf = Operand(k, i).buf => Operand(k, i).buf[1] = 0
  <2> TAKE i \in is
  <2> TAKE x \in Places
  <2> SUFFICES ASSUME ~Drained(k, is, x), Loads[x].buf = Operand(k, i).buf PROVE Operand(k, i).buf[1] = 0
    OBVIOUS
  <2>1. CASE OwnCell(k, i)
    <3>1. Loads[x].buf \in DOMAIN cells /\ cells[Loads[x].buf] = "full"  BY <2>1, <1>9
    <3>2. cells[Loads[x].buf] = "out"  BY <3>1, <1>12 DEF Apart
    <3> QED  BY <3>1, <3>2
  <2>2. CASE ~OwnCell(k, i)
    <3>1. PipeOf(k, i) \in Places /\ Operand(k, i) = Loads[PipeOf(k, i)] /\ PipeOf(k, i) # x  BY <2>2, <1>10
    <3> QED  BY <3>1, <1>12 DEF Apart
  <2> QED  BY <2>1, <2>2
<1>17. \A i, j \in is : i # j /\ Operand(k, i).buf = Operand(k, j).buf => Operand(k, i).buf[1] = 0
  <2>0. ASSUME NEW i \in is, NEW j \in is, OwnCell(k, i), ~OwnCell(k, j), Operand(k, i).buf = Operand(k, j).buf
        PROVE FALSE
    <3> DEFINE x == PipeOf(k, j)
    <3>1. x \in Places /\ Operand(k, j) = Loads[x]  BY <2>0, <1>10
    <3> HIDE DEF x
    <3>2. Loads[x].buf \in DOMAIN cells /\ cells[Loads[x].buf] = "full"  BY <2>0, <3>1, <1>9
    <3>3. cells[Loads[x].buf] = "out"  BY <3>1, <3>2, <1>12 DEF Apart
    <3> QED  BY <3>2, <3>3
  <2> SUFFICES ASSUME NEW i \in is, NEW j \in is, i # j, Operand(k, i).buf = Operand(k, j).buf
               PROVE Operand(k, i).buf[1] = 0
    OBVIOUS
  <2>1. CASE OwnCell(k, i) /\ OwnCell(k, j)
    <3>1. <<k, i>> = <<k, j>>  BY <2>1, <1>9
    <3> QED  BY <3>1
  <2>2. CASE OwnCell(k, i) /\ ~OwnCell(k, j)  BY <2>0, <2>2
  <2>3. CASE ~OwnCell(k, i) /\ OwnCell(k, j)  BY <2>0, <2>3
  <2>4. CASE ~OwnCell(k, i) /\ ~OwnCell(k, j)
    <3>1. PipeOf(k, i) \in Places /\ Operand(k, i) = Loads[PipeOf(k, i)]  BY <2>4, <1>10
    <3>2. PipeOf(k, j) \in Places /\ Operand(k, j) = Loads[PipeOf(k, j)]  BY <2>4, <1>10
    <3>3. PipeOf(k, i) # PipeOf(k, j)  BY <2>4, <1>11
    <3> QED  BY <3>1, <3>2, <3>3, <1>12 DEF Apart
  <2> QED  BY <2>1, <2>2, <2>3, <2>4
<1>18. \A i \in is : Operand(k, i).buf # Minted(k)
  BY <1>9, <1>10, <1>14
<1>19. \A i \in is : /\ Operand(k, i).home \in {None, Operand(k, i).buf}
                     /\ Operand(k, i).home # None => Operand(k, i).home \in DOMAIN cells
                     /\ Operand(k, i).buf \in DOMAIN cells => cs[Operand(k, i).buf] = "out"
                     /\ \A h \in held : Operand(k, i).buf # h.buf
  <2> TAKE i \in is
  <2>1. CASE OwnCell(k, i)  BY <2>1, <1>6, <1>9 DEF Apart
  <2>2. CASE ~OwnCell(k, i)  BY <2>2, <1>6, <1>10, <1>12 DEF Apart
  <2> QED  BY <2>1, <2>2
<1> HIDE DEF L1, cs
<1>20. \A x \in DOMAIN L1 : \/ x \in Places
                            \/ x = <<-1, Made>> /\ L1[x].buf = Minted(k) /\ L1[x].home = None
                            \/ \E i \in is : x = <<-1, i>> /\ L1[x] = Operand(k, i)
                            \/ L1[x] = Nothing
  BY <1>2, <1>5, <1>8, <1>15 DEF Hands
<1>21. \A x \in DOMAIN L1 : L1[x].home \in {None, L1[x].buf} /\ (L1[x].home # None => L1[x].home \in DOMAIN cs)
  BY <1>4, <1>7, <1>12, <1>13, <1>19, <1>20 DEF Apart
<1>22. \A x, y \in DOMAIN L1 : x # y /\ L1[x].buf = L1[y].buf => L1[x].buf[1] = 0
  <2> SUFFICES ASSUME NEW x \in DOMAIN L1, NEW y \in DOMAIN L1, x # y, L1[x].buf = L1[y].buf, L1[x].buf[1] # 0
               PROVE FALSE
    OBVIOUS
  <2>1. CASE x \in Places /\ y \in Places  BY <2>1, <1>4, <1>12, <1>13 DEF Apart
  <2>2. CASE x \in Places /\ y \notin Places  BY <2>2, <1>4, <1>13, <1>14, <1>16, <1>20
  <2>3. CASE x \notin Places /\ y \in Places  BY <2>3, <1>4, <1>13, <1>14, <1>16, <1>20
  <2>4. CASE x \notin Places /\ y \notin Places  BY <2>4, <1>13, <1>17, <1>18, <1>20
  <2> QED  BY <2>1, <2>2, <2>3, <2>4
<1>23. \A x \in DOMAIN L1 : L1[x].buf \in DOMAIN cs => cs[L1[x].buf] = "out"
  <2> SUFFICES ASSUME NEW x \in DOMAIN L1, L1[x].buf \in DOMAIN cs PROVE cs[L1[x].buf] = "out"
    OBVIOUS
  <2>1. CASE x \in Places
    <3>1. L1[x] = Loads[x]  BY <2>1, <1>4, <1>7, <1>13
    <3>2. cells[L1[x].buf] = "out"  BY <2>1, <3>1, <1>7, <1>12 DEF Apart
    <3> QED  BY <3>2, <1>6, <1>7
  <2>2. CASE x \notin Places  BY <2>2, <1>7, <1>13, <1>14, <1>19, <1>20
  <2> QED  BY <2>1, <2>2
<1>24. \A h \in held : /\ h.home = h.buf /\ h.home \in DOMAIN cs /\ cs[h.home] = "out"
                       /\ \A x \in DOMAIN L1 : L1[x].buf # h.buf
  <2> TAKE h \in held
  <2>1. h.home = h.buf /\ h.home \in DOMAIN cs /\ cells[h.home] = "out" /\ \A x \in Places : Loads[x].buf # h.buf
    BY <1>7, <1>12 DEF Apart
  <2>2. cs[h.home] = "out"  BY <2>1, <1>6, <1>7
  <2>3. \A x \in DOMAIN L1 : L1[x].buf # h.buf
    BY <2>1, <1>4, <1>7, <1>13, <1>14, <1>19, <1>20
  <2> QED  BY <2>1, <2>2, <2>3
<1>25. Apart(L1, cs, held)  BY <1>21, <1>22, <1>23, <1>24 DEF Apart
<1> QED  BY <1>25 DEF L1, cs

LEMMA Refilled ==
  ASSUME NEW cs, NEW homes
  PROVE  /\ DOMAIN Refill(cs, homes) = DOMAIN cs
         /\ \A c \in DOMAIN cs : Refill(cs, homes)[c] = IF c \in homes THEN "full" ELSE cs[c]
BY DEF Refill

\* The buffers a leaf that waits inside execute will send home.
Backs ==
  \A c \in inline.back \ {None} :
    /\ c \in DOMAIN cells /\ cells[c] = "out"
    /\ \A x \in Pipes : pipes[x].buf # c
    /\ \A h \in held : h.home # c
    /\ \A p \in DOMAIN inline.outs : inline.outs[p].buf = c => inline.outs[p].home = c

Custody == Apart(Loads, cells, held) /\ Backs /\ Born

LEMMA CellsNotNone ==
  ASSUME TypeOK
  PROVE  DOMAIN cells = CellsOf(graph) /\ \A c \in DOMAIN cells : c[1] # 0 /\ c # None
<1>1. DOMAIN cells = CellsOf(graph) /\ graph \in Programs  BY DEF TypeOK
<1>2. \A c \in CellsOf(graph) : c[1] \in DOMAIN graph  BY <1>1, CellShape
<1>3. \A l \in DOMAIN graph : l # 0  BY <1>1, LeafShape
<1> QED  BY <1>1, <1>2, <1>3 DEF None

\* What a leaf that ran deposits, as what it had in hand.
Source(k, x) == <<-1, Op(k).give[x[2]]>>

LEMMA OutputPiece ==
  ASSUME TypeOK, NEW k \in DOMAIN graph, ~Op(k).seeds, NEW p \in Outs(k)
  PROVE  \/ Output(k, p).buf = None /\ Output(k, p).home = None
         \/ /\ Source(k, <<k, p>>) \in Hands /\ Op(k).give[p] \in {Made} \cup Args(k)
            /\ Output(k, p).buf = InHand(k, Args(k))[Source(k, <<k, p>>)].buf
            /\ Output(k, p).home \in {None, InHand(k, Args(k))[Source(k, <<k, p>>)].home}
<1> DEFINE j == Op(k).give[p]
<1>1. j \in {Made, HostValue} \cup Args(k) /\ Args(k) \in {{}, {1}, {1, 2}} /\ graph \in Programs
  BY LeafShape DEF TypeOK
<1>2. Source(k, <<k, p>>) = <<-1, j>>  BY DEF Source
<1>3. CASE j = HostValue
  <2>1. j \notin Args(k) /\ j # Made  BY <1>1, <1>3 DEF HostValue, Made
  <2> QED  BY <1>1, <1>3, <2>1, OutputParts
<1>4. CASE j \in {Made} \cup Args(k)
  <2>1. j # HostValue /\ <<-1, j>> \in Hands  BY <1>1, <1>4 DEF HostValue, Made, Hands
  <2>2. InHand(k, Args(k))[<<-1, j>>] = Piece(k, j)  BY <2>1, <1>4 DEF InHand
  <2>3. Output(k, p).buf = Buf(k, j)  BY <1>1, <2>1, OutputParts
  <2>4. CASE j = Made
    <3>1. j \notin Args(k)  BY <1>1, <2>4 DEF Made
    <3>2. Output(k, p).home = None  BY <1>1, <3>1, OutputParts
    <3>3. Buf(k, j) = Minted(k) /\ Piece(k, j).buf = Minted(k)  BY <2>4 DEF Buf, Piece
    <3> QED  BY <1>2, <1>4, <2>1, <2>2, <2>3, <3>2, <3>3
  <2>5. CASE j # Made
    <3>1. Output(k, p).home = HomeOf(k, j)  BY <1>1, <1>4, <2>5, OutputParts
    <3>2. HomeOf(k, j) \in {None, Operand(k, j).home}  BY DEF HomeOf
    <3>3. Buf(k, j) = Operand(k, j).buf /\ Piece(k, j) = Operand(k, j)  BY <2>5 DEF Buf, Piece
    <3> QED  BY <1>2, <1>4, <2>1, <2>2, <2>3, <3>1, <3>2, <3>3
  <2> QED  BY <2>4, <2>5
<1> QED  BY <1>1, <1>3, <1>4

\* Homes of operands that a leaf does not hand on.
LEMMA HomeInHand ==
  ASSUME TypeOK, NEW k \in DOMAIN graph, NEW is \in SUBSET Args(k), NEW i \in is
  PROVE  /\ <<-1, i>> \in Hands /\ InHand(k, is)[<<-1, i>>] = Operand(k, i) /\ <<-1, i>> \notin Places
         /\ HomeOf(k, i) \in {None, Operand(k, i).home}
<1>1. i \in {1, 2} /\ graph \in Programs  BY FromShape DEF TypeOK
<1>2. <<-1, i>> \in Hands  BY <1>1 DEF Hands
<1>3. InHand(k, is)[<<-1, i>>] = Piece(k, i)  BY <1>1, <1>2 DEF InHand
<1>4. Piece(k, i) = Operand(k, i)  BY <1>1 DEF Piece, Made
<1>5. <<-1, i>> \notin Places  BY <1>1, PlaceShape
<1> QED  BY <1>2, <1>3, <1>4, <1>5 DEF HomeOf

LEMMA OutPipe ==
  ASSUME graph \in Programs, NEW k \in DOMAIN graph, NEW p \in Outs(k)
  PROVE  p \in {1, 2} /\ <<k, p>> \in Pipes /\ <<0, p>> \in Places \ Pipes
<1>1. p \in {1, 2} /\ k # 0  BY LeafShape
<1>2. <<k, p>> \in Pipes  BY <1>1 DEF Pipes
<1>3. <<0, p>> \in Places  BY <1>1 DEF Places
<1>4. <<0, p>> \notin Pipes  BY PlaceShape
<1> QED  BY <1>1, <1>2, <1>3, <1>4

\* Its own drained pipes aside, a leaf leaves the pipes of others as they are.
LEMMA LessPipes ==
  ASSUME TypeOK, Phases, NEW k \in DOMAIN graph, Walking(k), NEW is \in SUBSET Args(k)
  PROVE  /\ \A x \in Pipes : PipesLess(k, is)[x] = InHand(k, is)[x]
         /\ \A x \in Places \ Pipes : InHand(k, is)[x] = Nothing
         /\ DOMAIN PipesLess(k, is) = Pipes
         /\ DOMAIN InHand(k, is) = Places \cup Hands
<1>1. graph \in Programs /\ DOMAIN pipes = Pipes  BY DEF TypeOK
<1>2. \A x \in Places : x[1] # -1 /\ (x[1] # 0 <=> x \in Pipes)  BY <1>1, PlaceShape
<1>3. \A x \in Pipes : Loads[x] = pipes[x] /\ x \in Places  BY <1>1, PlaceShape DEF Places
<1>4. \A x \in Places : InHand(k, is)[x] = IF Drained(k, is, x) THEN Nothing ELSE Loads[x]  BY <1>2 DEF InHand
<1>5. \A x \in Pipes : PipesLess(k, is)[x] = IF Drained(k, is, x) THEN Nothing ELSE pipes[x]
  BY <1>1 DEF PipesLess, Drained
<1>6. \A x \in Places \ Pipes : Loads[x] = Nothing
  <2>1. DOMAIN inline.outs = {}  BY OutsideEmpty DEF Phases, Walking
  <2> QED  BY <2>1, <1>2 DEF Loads
<1> QED  BY <1>1, <1>3, <1>4, <1>5, <1>6 DEF PipesLess, InHand

LEMMA RunsApart ==
  ASSUME TypeOK, Phases, Custody, NEW k \in DOMAIN graph, Runs(k), graph' = graph
  PROVE  Apart(Loads, cells, held)'
<1> DEFINE is == Args(k)
           L1 == InHand(k, is)
           c1 == CellsLess(k, is)
           outs == [p \in Outs(k) |-> Output(k, p)]
           ps == PipesLess(k, is)
<1>1. Walking(k) /\ ~Op(k).seeds /\ (\A i \in is : Resolvable(k, i)) /\ graph \in Programs
  BY DEF Runs, Ready, TypeOK
<1>2. Apart(L1, c1, held)  BY <1>1, InHandApart DEF Custody
<1>3. DOMAIN c1 = DOMAIN cells /\ \A c \in DOMAIN c1 : c[1] # 0 /\ c # None  BY CellsNotNone DEF CellsLess
<1>4. /\ \A x \in Pipes : ps[x] = L1[x]
      /\ \A x \in Places \ Pipes : L1[x] = Nothing
      /\ DOMAIN ps = Pipes /\ DOMAIN L1 = Places \cup Hands
  BY <1>1, LessPipes
<1>5. Pipes' = Pipes /\ Places' = Places  BY DEF Pipes, Places
<1>6. DOMAIN Loads' = Places  BY <1>5 DEF Loads
<1>7. \A x \in Places : Loads'[x] = IF x \in Pipes THEN pipes'[x]
                                   ELSE IF x[2] \in DOMAIN inline'.outs THEN inline'.outs[x[2]] ELSE Nothing
  BY <1>1, <1>5, PlaceShape DEF Loads
<1>8. \A p \in Outs(k) :
        /\ p \in {1, 2} /\ <<k, p>> \in Pipes /\ <<0, p>> \in Places \ Pipes
        /\ \/ Output(k, p).buf[1] = 0 /\ Output(k, p).home = None
           \/ /\ <<-1, Op(k).give[p]>> \in Hands
              /\ Output(k, p).buf = L1[<<-1, Op(k).give[p]>>].buf
              /\ Output(k, p).home \in {None, L1[<<-1, Op(k).give[p]>>].home}
  <2> HIDE DEF L1
  <2> TAKE p \in Outs(k)
  <2>1. p \in {1, 2} /\ <<k, p>> \in Pipes /\ <<0, p>> \in Places \ Pipes  BY <1>1, OutPipe
  <2>2. Source(k, <<k, p>>) = <<-1, Op(k).give[p]>> /\ None[1] = 0  BY DEF Source, None
  <2>3. \/ Output(k, p).buf = None /\ Output(k, p).home = None
        \/ /\ Source(k, <<k, p>>) \in Hands
           /\ Output(k, p).buf = L1[Source(k, <<k, p>>)].buf
           /\ Output(k, p).home \in {None, L1[Source(k, <<k, p>>)].home}
    BY <1>1, OutputPiece DEF L1
  <2> QED  BY <2>1, <2>2, <2>3
<1>9. \A p, q \in Outs(k) : p # q => Op(k).give[p] # Op(k).give[q]  BY <1>1, LeafShape
<1>10. \A x \in Places : x[1] # -1 /\ x = <<x[1], x[2]>> /\ (x[1] # 0 <=> x \in Pipes)  BY <1>1, PlaceShape
<1>11. Nothing.buf[1] = 0 /\ Nothing.home = None  BY DEF Nothing
<1>12. \A y \in Hands : y[1] = -1 /\ y \notin Places  BY <1>10 DEF Hands
<1>13. DOMAIN outs = Outs(k) /\ \A p \in Outs(k) : outs[p] = Output(k, p)  OBVIOUS
<1>14. held' = held  BY DEF Runs
<1>15. CASE WaitsInside(k)
  <2>1. inline'.outs = outs /\ pipes' = ps /\ cells' = c1
    BY <1>15 DEF Runs
  <2> DEFINE src == [x \in Places |-> IF x \in Pipes THEN x ELSE Source(k, x)]
  <2> HIDE DEF outs, ps, L1, c1, is
  <2>2. \A x \in Places : \/ x \in Pipes /\ Loads'[x] = L1[x] /\ src[x] = x
                          \/ x \notin Pipes /\ Loads'[x] = Nothing
                          \/ /\ x \notin Pipes /\ x[2] \in Outs(k) /\ x = <<0, x[2]>>
                             /\ Loads'[x] = Output(k, x[2]) /\ src[x] = <<-1, Op(k).give[x[2]]>>
    BY <1>4, <1>7, <1>10, <1>13, <2>1 DEF Source
  <2> HIDE DEF src
  <2>3. \A x \in DOMAIN Loads' :
          \/ Loads'[x].buf[1] = 0 /\ Loads'[x].home = None
          \/ /\ src[x] \in DOMAIN L1 /\ Loads'[x].buf = L1[src[x]].buf
             /\ Loads'[x].home \in {None, L1[src[x]].home}
    <3> TAKE x \in DOMAIN Loads'
    <3>1. CASE x \in Pipes  BY <1>4, <1>6, <2>2, <3>1
    <3>2. CASE x \notin Pipes /\ Loads'[x] = Nothing  BY <1>11, <3>2
    <3>3. CASE /\ x[2] \in Outs(k) /\ Loads'[x] = Output(k, x[2])
               /\ src[x] = <<-1, Op(k).give[x[2]]>>
      <4>1. Hands \subseteq DOMAIN L1  BY <1>4
      <4> QED  BY <1>8, <3>3, <4>1
    <3> QED  BY <1>6, <2>2, <3>1, <3>2, <3>3
  <2>4. \A x, y \in DOMAIN Loads' : x # y /\ Loads'[x].buf[1] # 0 /\ Loads'[y].buf[1] # 0 => src[x] # src[y]
    BY <1>6, <1>9, <1>10, <1>11, <2>2
  <2>5. Rearranged(L1, c1, held, src, {}, Loads', c1, held)  BY <2>3, <2>4 DEF Rearranged
  <2>6. Apart(Loads', c1, held)
    <3> HIDE DEF Loads
    <3> QED  BY <1>2, <1>3, <2>5, Rearrange
  <2> QED  BY <2>1, <2>6, <1>14
<1>16. CASE ~WaitsInside(k)
  <2> DEFINE homes == Consumed(k) \cup Overwritten(ps, k, outs)
             src == [x \in Places |-> IF x[1] = k /\ x[2] \in Outs(k) THEN Source(k, x) ELSE x]
  <2>1. inline' = inline /\ pipes' = Filled(ps, k, outs) /\ cells' = Refill(c1, homes)
    BY <1>16 DEF Runs
  <2>2. DOMAIN inline.outs = {}  BY <1>1, OutsideEmpty DEF Phases, Walking
  <2> HIDE DEF outs, ps, L1, c1, is
  <2>3. \A x \in Pipes : pipes'[x] = IF x[1] = k /\ x[2] \in Outs(k) THEN Output(k, x[2]) ELSE ps[x]
    BY <1>4, <1>13, <2>1 DEF Filled
  <2>4. k # 0  BY <1>1, LeafShape
  <2>5. \A x \in Places : \/ x \notin Pipes /\ Loads'[x] = Nothing
                          \/ /\ x[1] = k /\ x[2] \in Outs(k)
                             /\ Loads'[x] = Output(k, x[2]) /\ src[x] = <<-1, Op(k).give[x[2]]>>
                          \/ ~(x[1] = k /\ x[2] \in Outs(k)) /\ Loads'[x] = L1[x] /\ src[x] = x
    BY <1>4, <1>7, <1>10, <2>1, <2>2, <2>3, <2>4 DEF Source
  <2>6. \A y \in Places : y[1] = k /\ y[2] \in Outs(k) => \A x \in Places : src[x] # y
    BY <1>10 DEF Source
  <2>7. \A i \in is : \A x \in Places : src[x] = <<-1, i>> => x[2] \in Outs(k) /\ i = Op(k).give[x[2]]
    BY <1>10 DEF Source
  <2> HIDE DEF src
  <2>8. \A x \in DOMAIN Loads' :
          \/ Loads'[x].buf[1] = 0 /\ Loads'[x].home = None
          \/ /\ src[x] \in DOMAIN L1 /\ Loads'[x].buf = L1[src[x]].buf
             /\ Loads'[x].home \in {None, L1[src[x]].home}
    <3> TAKE x \in DOMAIN Loads'
    <3>1. x \in Places /\ Places \subseteq DOMAIN L1 /\ Hands \subseteq DOMAIN L1  BY <1>4, <1>6
    <3>2. CASE x \notin Pipes /\ Loads'[x] = Nothing  BY <1>11, <3>2
    <3>3. CASE /\ x[1] = k /\ x[2] \in Outs(k)
               /\ Loads'[x] = Output(k, x[2]) /\ src[x] = <<-1, Op(k).give[x[2]]>>
      BY <1>8, <3>1, <3>3
    <3>4. CASE Loads'[x] = L1[x] /\ src[x] = x  BY <3>1, <3>4
    <3> QED  BY <2>5, <3>1, <3>2, <3>3, <3>4
  <2>9. \A x, y \in DOMAIN Loads' : x # y /\ Loads'[x].buf[1] # 0 /\ Loads'[y].buf[1] # 0 => src[x] # src[y]
    BY <1>6, <1>9, <1>10, <1>11, <2>5
  <2>10. \A c \in homes \cap DOMAIN c1 : \E y \in DOMAIN L1 : L1[y].home = c /\ Unused(Loads', src, y)
    <3> SUFFICES ASSUME NEW c \in homes \cap DOMAIN c1
                 PROVE  \E y \in DOMAIN L1 : L1[y].home = c /\ Unused(Loads', src, y)
      OBVIOUS
    <3>1. c # None  BY <1>3
    <3>2. CASE c \in Consumed(k)
      <4>1. PICK i \in is \ {Op(k).give[p] : p \in Outs(k)} : c = HomeOf(k, i)  BY <3>2 DEF Consumed, is
      <4>2. <<-1, i>> \in DOMAIN L1 /\ L1[<<-1, i>>].home = c
        BY <1>4, <3>1, <4>1, HomeInHand DEF L1, is
      <4>3. Unused(Loads', src, <<-1, i>>)  BY <1>6, <2>7, <4>1 DEF Unused
      <4> QED  BY <4>2, <4>3
    <3>3. CASE c \in Overwritten(ps, k, outs)
      <4>1. PICK p \in Outs(k) : c = ps[<<k, p>>].home  BY <1>13, <3>3 DEF Overwritten
      <4>2. <<k, p>> \in Pipes /\ <<k, p>> \in DOMAIN L1 /\ L1[<<k, p>>].home = c
        BY <1>4, <1>8, <4>1 DEF Places
      <4>3. Unused(Loads', src, <<k, p>>)  BY <1>6, <2>6, <4>2 DEF Unused, Places
      <4> QED  BY <4>2, <4>3
    <3> QED  BY <3>2, <3>3 DEF homes
  <2>11. \A c \in homes \cap DOMAIN c1 : \A h \in held : h.home # c
    BY <1>2, <1>3, <2>10, HomeNotHeld
  <2>12. DOMAIN cells' = DOMAIN c1 /\ \A c \in DOMAIN c1 \ homes : cells'[c] = c1[c]  BY <2>1, Refilled
  <2> HIDE DEF homes
  <2>13. Rearranged(L1, c1, held, src, homes, Loads', cells', held)
    BY <2>8, <2>9, <2>10, <2>11, <2>12 DEF Rearranged
  <2>14. Apart(Loads', cells', held)
    <3> HIDE DEF Loads
    <3> QED  BY <1>2, <1>3, <2>13, Rearrange
  <2> QED  BY <2>14, <1>14
<1> QED  BY <1>15, <1>16

\* The same, when no payload moves: some are dropped.
Left(L, y) == y \notin DOMAIN L \/ L[y] = Nothing
Emptied(L1, c1, hs1, homes, L2, c2, hs2) ==
  /\ DOMAIN L2 \subseteq DOMAIN L1 /\ \A x \in DOMAIN L2 : L2[x] \in {L1[x], Nothing}
  /\ DOMAIN c2 = DOMAIN c1 /\ \A c \in DOMAIN c1 \ homes : c2[c] = c1[c]
  /\ \A h \in hs2 : \/ h \in hs1
                    \/ /\ h.home = h.buf /\ h.home \in DOMAIN c1
                       /\ \E y \in DOMAIN L1 : L1[y].home = h.home /\ Left(L2, y)
  /\ \A c \in homes \cap DOMAIN c1 :
       /\ \A h \in hs2 : h.home # c
       /\ \/ \A x \in DOMAIN L2 : L2[x].buf # c
          \/ \E h \in hs1 : h.home = c
          \/ \E y \in DOMAIN L1 : L1[y].home = c /\ Left(L2, y)

LEMMA Empty ==
  ASSUME NEW L1, NEW L2, NEW c1, NEW c2, NEW hs1, NEW hs2, NEW homes,
         Apart(L1, c1, hs1), \A c \in DOMAIN c1 : c[1] # 0,
         Emptied(L1, c1, hs1, homes, L2, c2, hs2)
  PROVE  Apart(L2, c2, hs2)
<1> DEFINE src == [x \in DOMAIN L2 |-> x]
<1>1. Nothing.buf[1] = 0 /\ Nothing.home = None  BY DEF Nothing
<1>2. \A x \in DOMAIN L2 : src[x] = x  OBVIOUS
<1> HIDE DEF src
<1>3. \A y : Left(L2, y) => Unused(L2, src, y)  BY <1>1, <1>2 DEF Left, Unused
<1>4. \A x \in DOMAIN L2 :
        \/ L2[x].buf[1] = 0 /\ L2[x].home = None
        \/ /\ src[x] \in DOMAIN L1 /\ L2[x].buf = L1[src[x]].buf
           /\ L2[x].home \in {None, L1[src[x]].home}
  BY <1>1, <1>2 DEF Emptied
<1>5. \A x, y \in DOMAIN L2 : x # y => src[x] # src[y]  BY <1>2
<1>6. Rearranged(L1, c1, hs1, src, homes, L2, c2, hs2)
  BY <1>3, <1>4, <1>5 DEF Emptied, Rearranged
<1> QED  BY <1>6, Rearrange

\* What the places hold after a step.
LEMMA NextLoads ==
  ASSUME TypeOK, graph' = graph
  PROVE  /\ Pipes' = Pipes /\ Places' = Places /\ DOMAIN Loads' = Places /\ DOMAIN Loads = Places
         /\ \A x \in Places : Loads'[x] = IF x \in Pipes THEN pipes'[x]
                                          ELSE IF x[2] \in DOMAIN inline'.outs THEN inline'.outs[x[2]] ELSE Nothing
         /\ \A x \in Places : Loads[x] = IF x \in Pipes THEN pipes[x]
                                          ELSE IF x[2] \in DOMAIN inline.outs THEN inline.outs[x[2]] ELSE Nothing
<1>1. Pipes' = Pipes /\ Places' = Places  BY DEF Pipes, Places
<1>2. graph \in Programs  BY DEF TypeOK
<1> QED  BY <1>1, <1>2, PlaceShape DEF Loads

LEMMA Unmoved ==
  ASSUME TypeOK, Apart(Loads, cells, held), graph' = graph, UNCHANGED <<cells, pipes, held, inline>>
  PROVE  Apart(Loads, cells, held)'
<1>1. Loads' = Loads  BY DEF Loads, Places, Pipes
<1> QED  BY <1>1

LEMMA UnreadyApart ==
  ASSUME TypeOK, Phases, Custody, NEW k \in DOMAIN graph, Unready(k), graph' = graph
  PROVE  Apart(Loads, cells, held)'
<1>1. PICK i \in Args(k) :
        /\ ~Resolvable(k, i) /\ \A j \in 1..(i - 1) : Resolvable(k, j)
        /\ cells' = CellsLess(k, 1..(i - 1)) /\ pipes' = PipesLess(k, 1..(i - 1))
  BY DEF Unready
<1> DEFINE is == 1..(i - 1)
           L1 == InHand(k, is)
<1>2. Walking(k) /\ inline' = inline /\ held' = held /\ graph \in Programs  BY DEF Unready, TypeOK
<1>3. is \subseteq Args(k)
  <2>1. Args(k) \in {{1}, {1, 2}} /\ (i = 1 \/ i = 2)  BY <1>1, <1>2, LeafShape, FromShape
  <2> QED  BY <1>1, <2>1
<1>4. Apart(L1, cells', held)
  <2> HIDE DEF is
  <2> QED  BY <1>1, <1>2, <1>3, InHandApart DEF is, Custody
<1>5. /\ \A x \in Pipes : PipesLess(k, is)[x] = L1[x]
      /\ \A x \in Places \ Pipes : L1[x] = Nothing
      /\ DOMAIN L1 = Places \cup Hands
  BY <1>2, <1>3, LessPipes
<1>6. DOMAIN inline'.outs = {}  BY <1>2, OutsideEmpty DEF Phases, Walking
<1> HIDE DEF is, L1
<1>7. \A x \in Places : Loads'[x] = L1[x]  BY <1>1, <1>5, <1>6, NextLoads DEF is
<1>8. DOMAIN Loads' = Places  BY NextLoads
<1>9. Emptied(L1, cells', held, {}, Loads', cells', held)  BY <1>5, <1>7, <1>8 DEF Emptied
<1>10. \A c \in DOMAIN cells' : c[1] # 0  BY <1>1, CellsNotNone DEF CellsLess
<1>11. Apart(Loads', cells', held)
  <2> HIDE DEF Loads
  <2> QED  BY <1>4, <1>9, <1>10, Empty
<1> QED  BY <1>2, <1>11

LEMMA RefusedApart ==
  ASSUME TypeOK, Phases, Custody, NEW k \in DOMAIN graph, Refused(k), graph' = graph
  PROVE  Apart(Loads, cells, held)'
<1> DEFINE is == Args(k)
           L1 == InHand(k, is)
           c1 == CellsLess(k, is)
<1>1. Walking(k) /\ (\A i \in is : Resolvable(k, i)) /\ inline' = inline /\ held' = held
      /\ cells' = Refill(c1, GoHome(k)) /\ pipes' = PipesLess(k, is)
  BY DEF Refused, Ready
<1>2. Apart(L1, c1, held)  BY <1>1, InHandApart DEF Custody
<1>3. DOMAIN c1 = DOMAIN cells /\ \A c \in DOMAIN c1 : c[1] # 0 /\ c # None  BY CellsNotNone DEF CellsLess
<1>4. /\ \A x \in Pipes : PipesLess(k, is)[x] = L1[x]
      /\ \A x \in Places \ Pipes : L1[x] = Nothing
      /\ DOMAIN L1 = Places \cup Hands
  BY <1>1, LessPipes
<1>5. DOMAIN inline'.outs = {}  BY <1>1, OutsideEmpty DEF Phases, Walking
<1> HIDE DEF L1, c1
<1>6. \A x \in Places : Loads'[x] = L1[x]  BY <1>1, <1>4, <1>5, NextLoads
<1>7. DOMAIN Loads' = Places  BY NextLoads
<1>8. \A c \in GoHome(k) \cap DOMAIN c1 : \E y \in DOMAIN L1 : L1[y].home = c /\ Left(Loads', y)
  <2> SUFFICES ASSUME NEW c \in GoHome(k) \cap DOMAIN c1 PROVE \E y \in DOMAIN L1 : L1[y].home = c /\ Left(Loads', y)
    OBVIOUS
  <2>1. PICK i \in is : c = HomeOf(k, i)  BY DEF GoHome
  <2>2. <<-1, i>> \in DOMAIN L1 /\ L1[<<-1, i>>].home = c /\ <<-1, i>> \notin Places
    BY <1>3, <1>4, <2>1, HomeInHand DEF L1
  <2> QED  BY <1>7, <2>2 DEF Left
<1>9. \A c \in GoHome(k) \cap DOMAIN c1 : \A h \in held : h.home # c
  BY <1>2, <1>3, <1>8, HomeNotHeld
<1>10. DOMAIN cells' = DOMAIN c1 /\ \A c \in DOMAIN c1 \ GoHome(k) : cells'[c] = c1[c]  BY <1>1, Refilled
<1>11. Emptied(L1, c1, held, GoHome(k), Loads', cells', held)
  BY <1>4, <1>6, <1>7, <1>8, <1>9, <1>10 DEF Emptied
<1>12. Apart(Loads', cells', held)
  <2> HIDE DEF Loads
  <2> QED  BY <1>2, <1>3, <1>11, Empty
<1> QED  BY <1>1, <1>12

LEMMA InsideApart ==
  ASSUME TypeOK, Phases, Custody, Inside, graph' = graph
  PROVE  Apart(Loads, cells, held)'
<1>1. Final \in DOMAIN graph /\ Final # 0 /\ graph \in Programs  BY FinalLeaf DEF TypeOK
<1>2. DOMAIN inline.outs = Outs(Final) /\ inline' = Outside /\ held' = held /\ DOMAIN inline'.outs = {}
  BY OutsideEmpty DEF Inside, Phases
<1>3. Apart(Loads, cells, held)  BY DEF Custody
<1>4. DOMAIN Loads' = Places /\ DOMAIN Loads = Places /\ DOMAIN cells = CellsOf(graph) /\ DOMAIN pipes = Pipes
  BY NextLoads DEF TypeOK
<1>5. \A c \in DOMAIN cells : c[1] # 0 /\ c # None  BY CellsNotNone
<1>6. \A p \in Outs(Final) : p \in {1, 2} /\ <<Final, p>> \in Pipes /\ <<0, p>> \in Places \ Pipes
  BY <1>1, OutPipe
<1>7. \A x \in Places : x = <<x[1], x[2]>>  BY <1>1, PlaceShape
<1>8. Pipes \subseteq Places  BY DEF Places
<1>9. \A p \in Outs(Final) : Loads[<<0, p>>] = inline.outs[p]  BY <1>2, <1>6, NextLoads
<1>10. \A c \in inline.back \cap DOMAIN cells :
         /\ \A x \in Pipes : pipes[x].buf # c
         /\ \A h \in held : h.home # c
         /\ \A p \in Outs(Final) : inline.outs[p].buf = c => inline.outs[p].home = c
  BY <1>2, <1>5 DEF Custody, Backs
<1>11. Nothing.buf[1] = 0 /\ Nothing.home = None  BY DEF Nothing
<1>12. CASE pipes' = Filled(pipes, Final, inline.outs)
            /\ cells' = Refill(cells, Overwritten(pipes, Final, inline.outs) \cup
                     (inline.back \ {inline.outs[p].home : p \in DOMAIN inline.outs}))
  <2> DEFINE back == inline.back \ {inline.outs[p].home : p \in DOMAIN inline.outs}
             homes == Overwritten(pipes, Final, inline.outs) \cup back
             src == [x \in Places |-> IF x[1] = Final /\ x[2] \in Outs(Final) THEN <<0, x[2]>> ELSE x]
  <2>1. \A x \in Pipes : pipes'[x] = IF x[1] = Final /\ x[2] \in Outs(Final) THEN inline.outs[x[2]] ELSE pipes[x]
    BY <1>2, <1>4, <1>12 DEF Filled
  <2>2. \A x \in Places : \/ x \notin Pipes /\ Loads'[x] = Nothing
                          \/ /\ x[1] = Final /\ x[2] \in Outs(Final) /\ x \in Pipes
                             /\ Loads'[x] = Loads[<<0, x[2]>>] /\ Loads'[x] = inline.outs[x[2]] /\ src[x] = <<0, x[2]>>
                          \/ ~(x[1] = Final /\ x[2] \in Outs(Final)) /\ x \in Pipes
                             /\ Loads'[x] = Loads[x] /\ Loads'[x] = pipes[x] /\ src[x] = x
    <3> TAKE x \in Places
    <3>0. x[1] = Final /\ x[2] \in Outs(Final) => x \in Pipes  BY <1>6, <1>7
    <3>1. Loads'[x] = IF x \in Pipes THEN pipes'[x] ELSE Nothing  BY <1>2, NextLoads
    <3>2. x \in Pipes => Loads[x] = pipes[x]  BY NextLoads
    <3>3. src[x] = IF x[1] = Final /\ x[2] \in Outs(Final) THEN <<0, x[2]>> ELSE x  OBVIOUS
    <3> QED  BY <1>9, <2>1, <3>0, <3>1, <3>2, <3>3
  <2>3. \A y \in Pipes : y[1] = Final /\ y[2] \in Outs(Final) => \A x \in Places : src[x] # y
    BY <1>6
  <2>4. \A x, y \in Places : x \in Pipes /\ y \in Pipes /\ x # y => src[x] # src[y]
    BY <1>6, <1>7
  <2> HIDE DEF src, homes, back
  <2>5. \A x \in DOMAIN Loads' :
          \/ Loads'[x].buf[1] = 0 /\ Loads'[x].home = None
          \/ /\ src[x] \in DOMAIN Loads /\ Loads'[x].buf = Loads[src[x]].buf
             /\ Loads'[x].home \in {None, Loads[src[x]].home}
    <3> TAKE x \in DOMAIN Loads'
    <3>1. CASE Loads'[x] = Nothing  BY <1>11, <3>1
    <3>2. CASE /\ x[1] = Final /\ x[2] \in Outs(Final)
               /\ Loads'[x] = Loads[<<0, x[2]>>] /\ src[x] = <<0, x[2]>>
      BY <1>4, <1>6, <3>2
    <3>3. CASE Loads'[x] = Loads[x] /\ src[x] = x  BY <1>4, <3>3
    <3> QED  BY <1>4, <2>2, <3>1, <3>2, <3>3
  <2>6. \A x, y \in DOMAIN Loads' : x # y /\ Loads'[x].buf[1] # 0 /\ Loads'[y].buf[1] # 0 => src[x] # src[y]
    <3>1. \A x \in Places : Loads'[x].buf[1] # 0 => x \in Pipes  BY <1>6, <1>11, <2>2
    <3> QED  BY <1>4, <2>4, <3>1
  <2>7. \A c \in homes \cap DOMAIN cells :
          \/ \A x \in DOMAIN Loads' : Loads'[x].buf # c
          \/ \E y \in DOMAIN Loads : Loads[y].home = c /\ Unused(Loads', src, y)
    <3> SUFFICES ASSUME NEW c \in homes \cap DOMAIN cells
                 PROVE  \/ \A x \in DOMAIN Loads' : Loads'[x].buf # c
                        \/ \E y \in DOMAIN Loads : Loads[y].home = c /\ Unused(Loads', src, y)
      OBVIOUS
    <3>1. c # None /\ c[1] # 0  BY <1>5
    <3>2. CASE c \in back
      <4>1. \A p \in Outs(Final) : inline.outs[p].buf # c  BY <1>2, <1>10, <3>2 DEF back
      <4>2. \A x \in Pipes : pipes[x].buf # c  BY <1>10, <3>2 DEF back
      <4>3. Nothing.buf # c  BY <3>1, <1>11
      <4>4. ASSUME NEW x \in Places PROVE Loads'[x].buf # c
        <5>1. CASE Loads'[x] = Nothing  BY <4>3, <5>1
        <5>2. CASE x[2] \in Outs(Final) /\ Loads'[x] = inline.outs[x[2]]  BY <4>1, <5>2
        <5>3. CASE x \in Pipes /\ Loads'[x] = pipes[x]  BY <4>2, <5>3
        <5> QED  BY <2>2, <5>1, <5>2, <5>3
      <4> QED  BY <1>4, <4>4
    <3>3. CASE c \in Overwritten(pipes, Final, inline.outs)
      <4>1. PICK p \in Outs(Final) : c = pipes[<<Final, p>>].home  BY <1>2, <3>3 DEF Overwritten
      <4>2. <<Final, p>> \in Pipes /\ <<Final, p>> \in DOMAIN Loads /\ Loads[<<Final, p>>].home = c
        BY <1>4, <1>6, <1>8, <4>1, NextLoads
      <4>3. Unused(Loads', src, <<Final, p>>)  BY <1>4, <2>3, <4>2 DEF Unused
      <4> QED  BY <4>2, <4>3
    <3> QED  BY <3>2, <3>3 DEF homes
  <2>8. \A c \in homes \cap DOMAIN cells : \A h \in held : h.home # c
    <3> SUFFICES ASSUME NEW c \in homes \cap DOMAIN cells PROVE \A h \in held : h.home # c
      OBVIOUS
    <3>1. CASE c \in back  BY <1>10, <3>1 DEF back
    <3>2. CASE c \in Overwritten(pipes, Final, inline.outs)
      <4>1. PICK p \in Outs(Final) : c = pipes[<<Final, p>>].home  BY <1>2, <3>2 DEF Overwritten
      <4>2. <<Final, p>> \in DOMAIN Loads /\ Loads[<<Final, p>>].home = c  BY <1>4, <1>6, <1>8, <4>1, NextLoads
      <4>3. c # None  BY <1>5
      <4> HIDE DEF Loads
      <4> QED  BY <1>3, <4>2, <4>3, HomeNotHeld
    <3> QED  BY <3>1, <3>2 DEF homes
  <2>9. DOMAIN cells' = DOMAIN cells /\ \A c \in DOMAIN cells \ homes : cells'[c] = cells[c]
    BY <1>12, Refilled DEF homes, back
  <2>10. Rearranged(Loads, cells, held, src, homes, Loads', cells', held)
    BY <2>5, <2>6, <2>7, <2>8, <2>9 DEF Rearranged
  <2>11. Apart(Loads', cells', held)
    <3> HIDE DEF Loads
    <3> QED  BY <1>3, <1>5, <2>10, Rearrange
  <2> QED  BY <1>2, <2>11
<1>13. CASE pipes' = pipes /\ cells' = Refill(cells, IF Op(Final).guard THEN inline.back ELSE {})
  <2> DEFINE homes == IF Op(Final).guard THEN inline.back ELSE {}
  <2>1. \A x \in Places : Loads'[x] \in {Loads[x], Nothing}  BY <1>2, <1>13, NextLoads
  <2>2. \A x \in Places : Loads'[x] = IF x \in Pipes THEN pipes[x] ELSE Nothing  BY <1>2, <1>13, NextLoads
  <2>3. \A c \in homes \cap DOMAIN cells : /\ \A x \in DOMAIN Loads' : Loads'[x].buf # c
                                           /\ \A h \in held : h.home # c
    BY <1>4, <1>5, <1>10, <1>11, <2>2
  <2>4. DOMAIN cells' = DOMAIN cells /\ \A c \in DOMAIN cells \ homes : cells'[c] = cells[c]
    BY <1>13, Refilled
  <2> HIDE DEF homes
  <2>5. Emptied(Loads, cells, held, homes, Loads', cells', held)
    BY <1>4, <2>1, <2>3, <2>4 DEF Emptied
  <2>6. Apart(Loads', cells', held)
    <3> HIDE DEF Loads
    <3> QED  BY <1>3, <1>5, <2>5, Empty
  <2> QED  BY <1>2, <2>6
<1> QED  BY <1>12, <1>13 DEF Inside

LEMMA SeedsApart ==
  ASSUME TypeOK, Phases, Custody, NEW k \in DOMAIN graph, Seeds(k), graph' = graph
  PROVE  Apart(Loads, cells, held)'
<1> DEFINE c == <<k, 0>>
           out == <<Output(k, 1)>>
<1>1. graph \in Programs /\ Op(k).seeds /\ cells[c] # "out" /\ held' = held /\ inline' = inline
      /\ cells' = [cells EXCEPT ![c] = "out"] /\ pipes' = Filled(pipes, k, out)
  BY DEF Seeds, TypeOK
<1>2. Outs(k) = {1} /\ Op(k).give[1] = Made /\ 1 \in Outs(k) /\ Made \notin Args(k) /\ k # 0
  BY <1>1, LeafShape DEF Made
<1>3. Output(k, 1).buf = c /\ Output(k, 1).home = c
  BY <1>1, <1>2, OutputParts DEF Made, HostValue, Buf
<1>4. c \in DOMAIN cells /\ DOMAIN pipes = Pipes /\ DOMAIN cells' = DOMAIN cells
  BY <1>1, SeedCell DEF TypeOK
<1>5. DOMAIN Loads' = Places /\ DOMAIN Loads = Places  BY NextLoads
<1>6. <<k, 1>> \in Pipes /\ <<k, 1>> \in Places  BY <1>1, <1>2, OutPipe DEF Places
<1>7. DOMAIN out = {1} /\ out[1] = Output(k, 1)  OBVIOUS
<1> HIDE DEF out
<1>8. \A x \in Places : x = <<x[1], x[2]>>  BY <1>1, PlaceShape
<1>9. \A x \in Places : IF x = <<k, 1>> THEN Loads'[x] = Output(k, 1) ELSE Loads'[x] = Loads[x]
  BY <1>1, <1>4, <1>6, <1>7, <1>8, NextLoads DEF Filled
<1>10. Apart(Loads, cells, held) /\ \A b \in DOMAIN cells : b # None  BY CellsNotNone DEF Custody
<1>11. \A x \in Places : Loads[x].buf # c  BY <1>1, <1>4, <1>5, <1>10 DEF Apart
<1>12. \A h \in held : h.home # c /\ h.buf # c  BY <1>1, <1>10 DEF Apart
<1>13. \A b \in DOMAIN cells : cells'[b] = IF b = c THEN "out" ELSE cells[b]  BY <1>1
<1> HIDE DEF c
<1>14. \A x \in Places : Loads'[x].home \in {None, Loads'[x].buf} /\ (Loads'[x].home # None => Loads'[x].home \in DOMAIN cells)
  BY <1>3, <1>4, <1>5, <1>9, <1>10 DEF Apart
<1>15. \A x, y \in Places : x # y /\ Loads'[x].buf = Loads'[y].buf => Loads'[x].buf[1] = 0
  BY <1>3, <1>5, <1>9, <1>10, <1>11 DEF Apart
<1>16. \A x \in Places : Loads'[x].buf \in DOMAIN cells => cells'[Loads'[x].buf] = "out"
  BY <1>3, <1>5, <1>9, <1>10, <1>13 DEF Apart
<1>17. \A h \in held : /\ h.home = h.buf /\ h.home \in DOMAIN cells /\ cells'[h.home] = "out"
                       /\ \A x \in Places : Loads'[x].buf # h.buf
  BY <1>3, <1>5, <1>9, <1>10, <1>12, <1>13 DEF Apart
<1> HIDE DEF Loads
<1> QED  BY <1>1, <1>4, <1>5, <1>14, <1>15, <1>16, <1>17 DEF Apart

LEMMA ReclaimApart ==
  ASSUME TypeOK, Custody, NEW z \in Undelivered, Reclaim(z), graph' = graph
  PROVE  Apart(Loads, cells, held)'
<1>1. z \in Pipes /\ z \in Places /\ DOMAIN pipes = Pipes  BY DEF Undelivered, TypeOK, Places
<1>2. inline' = inline /\ held' = held /\ pipes' = [pipes EXCEPT ![z] = Nothing]
      /\ cells' = Refill(cells, {pipes[z].home})
  BY DEF Reclaim
<1>3. DOMAIN Loads' = Places /\ DOMAIN Loads = Places  BY NextLoads
<1>4. \A x \in Places : Loads'[x] \in {Loads[x], Nothing}  BY <1>1, <1>2, NextLoads
<1>5. Loads'[z] = Nothing /\ Loads[z].home = pipes[z].home  BY <1>1, <1>2, NextLoads
<1>6. Apart(Loads, cells, held) /\ \A c \in DOMAIN cells : c[1] # 0 /\ c # None  BY CellsNotNone DEF Custody
<1> HIDE DEF Loads
<1>7. Left(Loads', z)  BY <1>5 DEF Left
<1>8. \A c \in {pipes[z].home} \cap DOMAIN cells : \A h \in held : h.home # c
  BY <1>1, <1>3, <1>5, <1>6, HomeNotHeld
<1>9. DOMAIN cells' = DOMAIN cells /\ \A c \in DOMAIN cells \ {pipes[z].home} : cells'[c] = cells[c]  BY <1>2, Refilled
<1>10. Emptied(Loads, cells, held, {pipes[z].home}, Loads', cells', held)
  BY <1>1, <1>3, <1>4, <1>5, <1>7, <1>8, <1>9 DEF Emptied
<1>11. Apart(Loads', cells', held)  BY <1>6, <1>10, Empty
<1> QED  BY <1>2, <1>11

LEMMA SyncReturnsApart ==
  ASSUME TypeOK, Phases, Custody, SyncReturns, graph' = graph
  PROVE  Apart(Loads, cells, held)'
<1>1. inline' = inline /\ pipes' = [p \in DOMAIN pipes |-> IF p \in Delivered THEN Nothing ELSE pipes[p]]
      /\ DOMAIN pipes = Pipes
  BY DEF SyncReturns, TypeOK
<1>2. Delivered \subseteq Pipes /\ Delivered \subseteq Places
  <2>1. Final \in DOMAIN graph /\ graph \in Programs  BY FinalLeaf DEF TypeOK
  <2>2. \A p \in Outs(Final) : <<Final, p>> \in Pipes  BY <2>1, OutPipe
  <2> QED  BY <2>2 DEF Delivered, Places
<1>3. DOMAIN Loads' = Places /\ DOMAIN Loads = Places  BY NextLoads
<1>4. \A x \in Places : Loads'[x] \in {Loads[x], Nothing}  BY <1>1, NextLoads
<1>5. \A x \in Delivered : Loads'[x] = Nothing /\ Loads[x] = pipes[x]  BY <1>1, <1>2, NextLoads
<1>6. Apart(Loads, cells, held) /\ \A c \in DOMAIN cells : c[1] # 0 /\ c # None  BY CellsNotNone DEF Custody
<1> HIDE DEF Loads
<1>7. CASE cells' = cells /\ held' = held \cup {[buf |-> c.buf, home |-> c.home] : c \in {d \in Checkouts : d.home # None}}
  <2>1. \A h \in held' : \/ h \in held
                         \/ /\ h.home = h.buf /\ h.home \in DOMAIN cells
                            /\ \E y \in DOMAIN Loads : Loads[y].home = h.home /\ Left(Loads', y)
    <3> SUFFICES ASSUME NEW h \in held', h \notin held
                 PROVE  /\ h.home = h.buf /\ h.home \in DOMAIN cells
                        /\ \E y \in DOMAIN Loads : Loads[y].home = h.home /\ Left(Loads', y)
      OBVIOUS
    <3>1. PICK c \in Checkouts : c.home # None /\ h = [buf |-> c.buf, home |-> c.home]  BY <1>7
    <3>2. PICK y \in Delivered : c = pipes[y]  BY DEF Checkouts
    <3>3. y \in DOMAIN Loads /\ Loads[y] = c /\ Left(Loads', y)  BY <1>2, <1>3, <1>5, <3>2 DEF Left
    <3>4. h.home = c.home /\ h.buf = c.buf  BY <3>1
    <3>5. c.home = c.buf /\ c.home \in DOMAIN cells  BY <1>6, <3>1, <3>3 DEF Apart
    <3> QED  BY <3>3, <3>4, <3>5
  <2>2. Emptied(Loads, cells, held, {}, Loads', cells, held')  BY <1>3, <1>4, <2>1 DEF Emptied
  <2>3. Apart(Loads', cells, held')  BY <1>6, <2>2, Empty
  <2> QED  BY <1>7, <2>3
<1>8. CASE cells' = Refill(cells, {c.home : c \in Checkouts}) /\ held' = held
  <2> DEFINE homes == {c.home : c \in Checkouts}
  <2>1. \A c \in homes \cap DOMAIN cells : \E y \in DOMAIN Loads : Loads[y].home = c /\ Left(Loads', y)
    <3> SUFFICES ASSUME NEW c \in homes \cap DOMAIN cells
                 PROVE  \E y \in DOMAIN Loads : Loads[y].home = c /\ Left(Loads', y)
      OBVIOUS
    <3>1. PICK y \in Delivered : c = pipes[y].home  BY DEF Checkouts
    <3> QED  BY <1>2, <1>3, <1>5, <3>1 DEF Left
  <2>2. DOMAIN cells' = DOMAIN cells /\ \A c \in DOMAIN cells \ homes : cells'[c] = cells[c]  BY <1>8, Refilled
  <2> HIDE DEF homes
  <2>3. \A c \in homes \cap DOMAIN cells : \A h \in held : h.home # c  BY <1>6, <2>1, HomeNotHeld
  <2>4. Emptied(Loads, cells, held, homes, Loads', cells', held)
    BY <1>3, <1>4, <2>1, <2>2, <2>3 DEF Emptied
  <2>5. Apart(Loads', cells', held)  BY <1>6, <2>4, Empty
  <2> QED  BY <1>8, <2>5
<1> QED  BY <1>7, <1>8 DEF SyncReturns

\* A Checkout that the caller is done with was the only one of its buffer.
LEMMA CheckoutAlone ==
  ASSUME TypeOK, Apart(Loads, cells, held), NEW h \in held, NEW g \in held, g.home = h.home
  PROVE  g = h
<1>1. h.home = h.buf /\ g.home = g.buf  BY DEF Apart
<1>2. h \in [buf : Pairs, home : Pairs] /\ g \in [buf : Pairs, home : Pairs]  BY DEF TypeOK
<1> QED  BY <1>1, <1>2

LEMMA CheckoutApart ==
  ASSUME TypeOK, Custody, NEW h \in held, held' = held \ {h}, UNCHANGED <<graph, pipes, inline>>,
         DOMAIN cells' = DOMAIN cells, \A c \in DOMAIN cells \ {h.home} : cells'[c] = cells[c]
  PROVE  Apart(Loads, cells, held)'
<1>1. Loads' = Loads  BY DEF Loads, Places, Pipes
<1>2. Apart(Loads, cells, held) /\ \A c \in DOMAIN cells : c[1] # 0  BY CellsNotNone DEF Custody
<1>3. \A g \in held' : g.home # h.home  BY <1>2, CheckoutAlone
<1> HIDE DEF Loads
<1>4. Emptied(Loads, cells, held, {h.home}, Loads', cells', held')  BY <1>1, <1>3 DEF Emptied
<1>5. Apart(Loads', cells', held')  BY <1>2, <1>4, Empty
<1> QED  BY <1>5

LEMMA ApartStep ==
  ASSUME TypeOK, Phases, Custody, Next
  PROVE  Apart(Loads, cells, held)'
<1>1. graph' = graph  BY SameGraph
<1>2. CASE UNCHANGED <<cells, pipes, held, inline>>  BY <1>1, <1>2, Unmoved DEF Custody
<1>3. ASSUME NEW h \in held, DropCheckout(h) PROVE Apart(Loads, cells, held)'
  <2>1. DOMAIN cells' = DOMAIN cells /\ \A c \in DOMAIN cells \ {h.home} : cells'[c] = cells[c]
    BY <1>3, Refilled DEF DropCheckout
  <2> QED  BY <1>3, <2>1, CheckoutApart DEF DropCheckout
<1>4. ASSUME NEW h \in held, IntoInner(h) PROVE Apart(Loads, cells, held)'
  <2>1. DOMAIN cells' = DOMAIN cells /\ \A c \in DOMAIN cells \ {h.home} : cells'[c] = cells[c]
    BY <1>4 DEF IntoInner, TypeOK
  <2> QED  BY <1>4, <2>1, CheckoutApart DEF IntoInner
<1> QED
  BY <1>1, <1>2, <1>3, <1>4, RunsApart, UnreadyApart, RefusedApart, InsideApart, SeedsApart, ReclaimApart,
     SyncReturnsApart DEF Next, StartSync, Transfers, Mopped, SeedFails, Device, Finish

LEMMA BacksStep ==
  ASSUME TypeOK, Phases, Custody, Next
  PROVE  Backs'
<1>1. graph' = graph /\ Pipes' = Pipes  BY SameGraph DEF Pipes
<1>2. \A c \in DOMAIN cells : c # None  BY CellsNotNone
<1>3. ASSUME NEW k \in DOMAIN graph, Runs(k), WaitsInside(k) PROVE Backs'
  <2> DEFINE is == Args(k)
             L1 == InHand(k, is)
             c1 == CellsLess(k, is)
             outs == [p \in Outs(k) |-> Output(k, p)]
             back == {HomeOf(k, i) : i \in is}
  <2>1. Walking(k) /\ ~Op(k).seeds /\ (\A i \in is : Resolvable(k, i)) /\ graph \in Programs /\ held' = held
    BY <1>3 DEF Runs, Ready, TypeOK
  <2>2. inline'.outs = outs /\ inline'.back = back /\ cells' = c1 /\ pipes' = PipesLess(k, is)
    BY <1>3 DEF Runs
  <2>3. Apart(L1, c1, held)  BY <2>1, InHandApart DEF Custody
  <2>4. /\ \A x \in Pipes : PipesLess(k, is)[x] = L1[x]
        /\ DOMAIN L1 = Places \cup Hands /\ Pipes \subseteq Places
    BY <2>1, LessPipes DEF Places
  <2>5. \A i \in is : /\ <<-1, i>> \in Hands /\ L1[<<-1, i>>] = Operand(k, i) /\ <<-1, i>> \notin Places
                      /\ HomeOf(k, i) \in {None, Operand(k, i).home}
    BY HomeInHand
  <2>6. Minted(k) \notin DOMAIN cells /\ DOMAIN c1 = DOMAIN cells  BY <2>1, MintedNew DEF Custody, CellsLess
  <2>7. DOMAIN outs = Outs(k) /\ \A p \in Outs(k) : outs[p] = Output(k, p)  OBVIOUS
  <2>8. \A p \in Outs(k) : Op(k).give[p] \in {Made, HostValue} \cup is  BY <2>1, LeafShape
  <2>9. HostValue \notin is /\ Made \notin is /\ Made # HostValue
    <3>1. is \in {{}, {1}, {1, 2}}  BY <2>1, LeafShape
    <3> QED  BY <3>1 DEF HostValue, Made
  <2>10. Buf(k, Made) = Minted(k)  BY <2>1 DEF Buf
  <2>11. \A i \in is : Buf(k, i) = Operand(k, i).buf  BY <2>9 DEF Buf
  <2> HIDE DEF is, L1, c1, outs
  <2>12. ASSUME NEW c \in back \ {None}
         PROVE  /\ c \in DOMAIN c1 /\ c1[c] = "out"
                /\ \A x \in Pipes : PipesLess(k, is)[x].buf # c
                /\ \A h \in held : h.home # c
                /\ \A p \in Outs(k) : outs[p].buf = c => outs[p].home = c
    <3>1. PICK i \in is : c = HomeOf(k, i)  BY <2>12
    <3>2. <<-1, i>> \in DOMAIN L1 /\ L1[<<-1, i>>].home = c /\ c # None  BY <2>4, <2>5, <2>12, <3>1
    <3>3. L1[<<-1, i>>].buf = c /\ c \in DOMAIN c1 /\ c1[c] = "out" /\ \A h \in held : h.home # c
      BY <2>3, <3>2, HomeNotHeld
    <3>4. c[1] # 0  BY <2>6, <3>3, CellsNotNone
    <3>5. \A y \in DOMAIN L1 : L1[y].buf = c => y = <<-1, i>>  BY <2>3, <3>2, <3>3, <3>4 DEF Apart
    <3>6. \A x \in Pipes : PipesLess(k, is)[x].buf # c  BY <2>4, <2>5, <3>5
    <3>7. ASSUME NEW p \in Outs(k), outs[p].buf = c PROVE outs[p].home = c
      <4> DEFINE j == Op(k).give[p]
      <4>1. Output(k, p).buf = c  BY <2>7, <3>7
      <4>2. j # HostValue  BY <2>1, <3>2, <4>1, OutputParts
      <4>3. Output(k, p).buf = Buf(k, j)  BY <2>1, <4>2, OutputParts
      <4>4. j # Made  BY <2>6, <2>10, <3>3, <4>1, <4>3
      <4>5. j \in is  BY <2>8, <4>2, <4>4
      <4>6. L1[<<-1, j>>].buf = c /\ <<-1, j>> \in DOMAIN L1  BY <2>4, <2>5, <2>11, <4>1, <4>3, <4>5
      <4>7. j = i
        <5>1. <<-1, j>> = <<-1, i>>  BY <3>5, <4>6
        <5> QED  BY <5>1
      <4>8. Output(k, p).home = HomeOf(k, j)  BY <2>1, <4>5, OutputParts DEF is
      <4> QED  BY <2>7, <3>1, <4>7, <4>8
    <3> QED  BY <3>3, <3>6, <3>7
  <2> QED  BY <1>1, <2>1, <2>2, <2>7, <2>12 DEF Backs
<1>4. CASE inline'.back = {}  BY <1>4 DEF Backs
<1>5. ASSUME UNCHANGED <<pipes, inline>>, held' \subseteq held, NEW h \in held,
             DOMAIN cells' = DOMAIN cells, \A c \in DOMAIN cells \ {h.home} : cells'[c] = cells[c]
      PROVE  Backs'
  BY <1>1, <1>5 DEF Backs, Custody
<1>6. ASSUME NEW h \in held, DropCheckout(h) PROVE Backs'
  <2>1. DOMAIN cells' = DOMAIN cells /\ \A c \in DOMAIN cells \ {h.home} : cells'[c] = cells[c]
    BY <1>6, Refilled DEF DropCheckout
  <2> QED  BY <1>5, <1>6, <2>1 DEF DropCheckout
<1>7. ASSUME NEW h \in held, IntoInner(h) PROVE Backs'
  <2>1. DOMAIN cells' = DOMAIN cells /\ \A c \in DOMAIN cells \ {h.home} : cells'[c] = cells[c]
    BY <1>7 DEF IntoInner, TypeOK
  <2> QED  BY <1>5, <1>7, <2>1 DEF IntoInner
<1>8. ASSUME NEW c \in pend, Finish(c) PROVE Backs'
  BY <1>1, <1>8 DEF Finish, Backs, Custody
<1>9. CASE pc # "inside" /\ inline' = inline
  BY <1>4, <1>9, OutsideEmpty DEF Phases
<1>10. ASSUME Inside PROVE Backs'
  BY <1>4, <1>10, OutsideEmpty DEF Inside
<1>11. ASSUME NEW k \in DOMAIN graph, Runs(k), ~WaitsInside(k) PROVE Backs'
  BY <1>9, <1>11 DEF Runs, Ready, Walking
<1> QED
  BY <1>3, <1>6, <1>7, <1>8, <1>9, <1>10, <1>11 DEF Next, StartSync, Transfers, Mopped, SyncReturns, Unready,
     Refused, Ready, Walking, Seeds, SeedFails, Reclaim, Device

\* Bears of the next state.
WillBear(q, b) ==
  b[1] # 0 =>
    /\ b[1] \in 1..q
    /\ \/ b \in DOMAIN cells'
       \/ b[2] \in 11..(10 + run') /\ (pc' = "walk" /\ b[2] = 10 + run' => b[1] < at')
Onward ==
  \/ run' = run /\ pc' # "walk"
  \/ run' = run /\ pc = "walk" /\ at <= at'
  \/ run' = run + 1

LEMMA BornStep ==
  ASSUME TypeOK, Phases, Custody, Next, TypeOK'
  PROVE  Born'
<1>1. graph' = graph /\ graph \in Programs /\ Final' = Final /\ DOMAIN cells' = DOMAIN cells /\ Born
  BY SameGraph DEF TypeOK, Final, Custody
<1>2. Places' = Places /\ \A x \in Places : PosOf(x)' = PosOf(x)  BY <1>1, NextLoads DEF PosOf
<1>3. run \in Nat /\ run' \in Nat /\ at \in Nat /\ at' \in Nat /\ Final \in Nat /\ DOMAIN graph = 1..Final
      /\ at \in 1..Final /\ at' \in 1..Final
  <2>1. DOMAIN graph = 1..Final /\ Final \in Nat  BY FinalLeaf
  <2> QED  BY <1>1, <2>1 DEF TypeOK
<1>4. \A x \in Places : Loads[x] \in Payloads /\ Loads[x].buf \in Pairs  BY LoadsTyped DEF Payloads
<1>5. Nothing.buf[1] = 0 /\ None[1] = 0  BY DEF Nothing, None
<1>6. \A x \in Places : PosOf(x) \in 1..Final
  BY <1>1, <1>3, PlaceShape, FinalLeaf DEF PosOf
<1>7. \A x \in Places : Bears(PosOf(x), Loads[x].buf)  BY <1>1 DEF Born
<1>8. ASSUME Onward, NEW q \in Nat, NEW r \in Nat, q <= r, NEW b \in Pairs, Bears(q, b)
      PROVE  WillBear(r, b)
  BY <1>1, <1>3, <1>8 DEF Bears, WillBear, Pairs, Onward
<1>9. ASSUME \A x \in Places : WillBear(PosOf(x), Loads'[x].buf) PROVE Born'
  BY <1>2, <1>9 DEF Born, Bears, WillBear
<1>10. \A q, b : b[1] = 0 => WillBear(q, b)  BY DEF WillBear
<1>11. ASSUME Onward, NEW x \in Places, NEW y \in Places, PosOf(y) <= PosOf(x), Loads'[x].buf = Loads[y].buf
       PROVE  WillBear(PosOf(x), Loads'[x].buf)
  BY <1>3, <1>4, <1>6, <1>7, <1>8, <1>11
<1>12. ASSUME Onward, \A x \in Places : Loads'[x] \in {Loads[x], Nothing} PROVE Born'
  <2>1. \A x \in Places : PosOf(x) <= PosOf(x)  BY <1>3, <1>6
  <2>2. ASSUME NEW x \in Places PROVE WillBear(PosOf(x), Loads'[x].buf)
    BY <1>5, <1>10, <1>11, <1>12, <2>1
  <2> QED  BY <1>9, <2>2
<1>13. pc = "walk" /\ run' = run /\ Next1 => Onward  BY <1>3 DEF Next1, Onward
\* The buffer of an operand of leaf k may be wherever the leaf puts it.
<1>14. ASSUME Onward, NEW k \in DOMAIN graph, NEW i \in Args(k), NEW q \in Nat, k <= q
       PROVE  WillBear(q, Operand(k, i).buf)
  <2>1. CASE OwnCell(k, i)
    <3>1. Operand(k, i).buf = <<k, i>>  BY <2>1 DEF Operand
    <3>2. <<k, i>> \in DOMAIN cells  BY <1>1, <2>1, FromShape DEF OwnCell, TypeOK
    <3>3. k \in 1..q  BY <1>3, <1>14
    <3>4. <<k, i>>[1] = k  OBVIOUS
    <3> QED  BY <1>1, <3>1, <3>2, <3>3, <3>4 DEF WillBear
  <2>2. CASE ~OwnCell(k, i)
    <3> DEFINE y == PipeOf(k, i)
    <3>1. y \in Pipes /\ Operand(k, i) = Loads[y] /\ y[1] \in 1..k  BY <2>2, PipePlace
    <3>2. y \in Places /\ PosOf(y) = y[1]  BY <3>1 DEF Places, PosOf
    <3>3. PosOf(y) \in Nat /\ PosOf(y) <= q  BY <1>3, <1>14, <3>1, <3>2
    <3> HIDE DEF y
    <3> QED  BY <1>4, <1>7, <1>8, <1>14, <3>1, <3>2, <3>3
  <2> QED  BY <2>1, <2>2
<1>15. ASSUME NEW k \in DOMAIN graph, Runs(k), Onward, NEW p \in Outs(k), NEW q \in Nat, k <= q,
              pc' = "walk" => k < at'
       PROVE  WillBear(q, Output(k, p).buf)
  <2> DEFINE j == Op(k).give[p]
  <2>1. j \in {Made, HostValue} \cup Args(k)  BY <1>1, LeafShape
  <2>2. CASE j = HostValue  BY <1>1, <1>5, <1>10, <2>2, OutputParts
  <2>3. CASE j # HostValue /\ j = Made
    <3>1. Output(k, p).buf = Minted(k)  BY <1>1, <1>15, <2>3, OutputParts DEF Buf, Runs, Ready
    <3>2. Minted(k)[1] = k /\ Minted(k)[2] = 10 + run /\ k \in 1..q  BY <1>3, <1>15 DEF Minted
    <3>3. run' = run /\ run > 0  BY <1>15 DEF Runs, Ready, Walking, Phases
    <3> QED  BY <1>3, <1>15, <3>1, <3>2, <3>3 DEF WillBear
  <2>4. CASE j # HostValue /\ j # Made
    <3>1. Output(k, p).buf = Operand(k, j).buf /\ j \in Args(k)  BY <1>1, <2>1, <2>4, OutputParts DEF Buf
    <3> QED  BY <1>14, <1>15, <3>1
  <2> QED  BY <2>2, <2>3, <2>4
<1>16. ASSUME NEW k \in DOMAIN graph, Runs(k) PROVE Born'
  <2> DEFINE outs == [p \in Outs(k) |-> Output(k, p)]
             ps == PipesLess(k, Args(k))
  <2>1. Walking(k) /\ run' = run /\ pc = "walk" /\ at = k /\ inline = Outside /\ DOMAIN inline.outs = {}
    BY <1>16, OutsideEmpty DEF Runs, Ready, Walking, Phases
  <2>2. DOMAIN outs = Outs(k) /\ \A p \in Outs(k) : outs[p] = Output(k, p)  OBVIOUS
  <2>3. DOMAIN ps = Pipes /\ \A x \in Pipes : ps[x] \in {Loads[x], Nothing}
    BY <1>1, PlaceShape DEF PipesLess, TypeOK
  <2>4. \A x \in Places : x = <<x[1], x[2]>> /\ (x[1] # 0 <=> x \in Pipes)  BY <1>1, PlaceShape
  <2>5. k \in Nat /\ k <= Final  BY <1>3
  <2>6. CASE WaitsInside(k)
    <3>1. inline'.outs = outs /\ pipes' = ps /\ pc' = "inside"  BY <1>16, <2>6 DEF Runs
    <3> HIDE DEF outs, ps
    <3>2. Onward  BY <2>1, <3>1 DEF Onward
    <3>3. ASSUME NEW x \in Places PROVE WillBear(PosOf(x), Loads'[x].buf)
      <4>1. CASE x \in Pipes
        <5>1. Loads'[x] \in {Loads[x], Nothing} /\ PosOf(x) <= PosOf(x)
          BY <1>1, <1>3, <1>6, <2>3, <3>1, <4>1, NextLoads
        <5> QED  BY <1>5, <1>10, <1>11, <3>2, <5>1
      <4>2. CASE x \notin Pipes /\ x[2] \in Outs(k)
        <5>1. Loads'[x] = Output(k, x[2]) /\ PosOf(x) = Final
          BY <1>1, <2>2, <2>4, <3>1, <4>2, NextLoads DEF PosOf
        <5>2. WillBear(Final, Output(k, x[2]).buf)  BY <1>3, <1>15, <1>16, <2>5, <3>1, <3>2, <4>2
        <5> QED  BY <5>1, <5>2
      <4>3. CASE x \notin Pipes /\ x[2] \notin Outs(k)
        <5>1. Loads'[x] = Nothing  BY <1>1, <2>2, <3>1, <4>3, NextLoads
        <5> QED  BY <1>5, <1>10, <5>1
      <4> QED  BY <4>1, <4>2, <4>3
    <3> QED  BY <1>9, <3>3
  <2>7. CASE ~WaitsInside(k)
    <3>1. inline' = inline /\ pipes' = Filled(ps, k, outs) /\ Next1  BY <1>16, <2>7 DEF Runs
    <3> HIDE DEF outs, ps
    <3>2. Onward /\ (pc' = "walk" => k < at')  BY <1>3, <1>13, <2>1, <3>1 DEF Next1
    <3>3. ASSUME NEW x \in Places PROVE WillBear(PosOf(x), Loads'[x].buf)
      <4>1. CASE x \notin Pipes
        <5>1. Loads'[x] = Nothing  BY <1>1, <2>1, <3>1, <4>1, NextLoads
        <5> QED  BY <1>5, <1>10, <5>1
      <4>2. CASE x \in Pipes /\ x[1] = k /\ x[2] \in Outs(k)
        <5>1. pipes'[x] = Output(k, x[2])  BY <2>2, <2>3, <3>1, <4>2 DEF Filled
        <5>2. Loads'[x] = Output(k, x[2]) /\ PosOf(x) = k  BY <1>1, <2>4, <4>2, <5>1, NextLoads DEF PosOf
        <5>3. k <= k  BY <2>5
        <5>4. WillBear(k, Output(k, x[2]).buf)  BY <1>15, <1>16, <2>5, <3>2, <4>2, <5>3
        <5> QED  BY <5>2, <5>4
      <4>3. CASE x \in Pipes /\ ~(x[1] = k /\ x[2] \in Outs(k))
        <5>1. pipes'[x] = ps[x]  BY <2>2, <2>3, <3>1, <4>3 DEF Filled
        <5>2. Loads'[x] \in {Loads[x], Nothing} /\ PosOf(x) <= PosOf(x)
          BY <1>1, <1>3, <1>6, <2>3, <4>3, <5>1, NextLoads
        <5> QED  BY <1>5, <1>10, <1>11, <3>2, <5>2
      <4> QED  BY <4>1, <4>2, <4>3
    <3> QED  BY <1>9, <3>3
  <2> QED  BY <2>6, <2>7
<1>17. ASSUME NEW k \in DOMAIN graph, Seeds(k) PROVE Born'
  <2> DEFINE out == <<Output(k, 1)>>
  <2>1. Walking(k) /\ Op(k).seeds /\ run' = run /\ inline' = inline /\ pipes' = Filled(pipes, k, out) /\ Next1
        /\ pc = "walk"
    BY <1>17 DEF Seeds, Walking
  <2>2. Outs(k) = {1} /\ Op(k).give[1] = Made /\ 1 \in Outs(k)  BY <1>1, <2>1, LeafShape
  <2>3. Output(k, 1).buf = <<k, 0>>
    <3>1. Op(k).give[1] # HostValue  BY <2>2 DEF Made, HostValue
    <3>2. Output(k, 1).buf = Buf(k, Made)  BY <1>1, <2>2, <3>1, OutputParts
    <3> QED  BY <2>1, <3>2 DEF Buf
  <2>4. <<k, 0>> \in DOMAIN cells' /\ k \in 1..k /\ <<k, 0>>[1] = k
    BY <1>1, <1>3, <2>1, SeedCell DEF TypeOK
  <2>5. WillBear(k, Output(k, 1).buf)  BY <2>3, <2>4 DEF WillBear
  <2>6. DOMAIN out = {1} /\ out[1] = Output(k, 1) /\ DOMAIN pipes = Pipes  BY DEF TypeOK
  <2>7. Onward  BY <1>13, <2>1
  <2>8. \A x \in Places : x = <<x[1], x[2]>> /\ (x[1] # 0 <=> x \in Pipes)  BY <1>1, PlaceShape
  <2> HIDE DEF out
  <2>9. ASSUME NEW x \in Places PROVE WillBear(PosOf(x), Loads'[x].buf)
    <3>1. CASE x \in Pipes /\ x[1] = k /\ x[2] = 1
      <4>1. pipes'[x] = Output(k, 1)  BY <2>1, <2>6, <3>1 DEF Filled
      <4>2. Loads'[x] = Output(k, 1) /\ PosOf(x) = k  BY <1>1, <2>8, <3>1, <4>1, NextLoads DEF PosOf
      <4> QED  BY <2>5, <4>2
    <3>2. CASE ~(x \in Pipes /\ x[1] = k /\ x[2] = 1)
      <4>1. x \in Pipes => pipes'[x] = pipes[x]  BY <2>1, <2>6, <3>2 DEF Filled
      <4>2. Loads'[x] = Loads[x] /\ PosOf(x) <= PosOf(x)  BY <1>1, <1>3, <1>6, <2>1, <4>1, NextLoads
      <4> QED  BY <1>11, <2>7, <4>2
    <3> QED  BY <3>1, <3>2
  <2> QED  BY <1>9, <2>9
<1>18. ASSUME Inside PROVE Born'
  <2>1. inline' = Outside /\ DOMAIN inline'.outs = {} /\ DOMAIN inline.outs = Outs(Final) /\ run' = run
        /\ pc' # "walk" /\ DOMAIN pipes = Pipes
    BY <1>18, OutsideEmpty DEF Inside, Phases, Next1, Fails, TypeOK
  <2>2. Onward  BY <2>1 DEF Onward
  <2>3. pipes' = Filled(pipes, Final, inline.outs) \/ pipes' = pipes  BY <1>18 DEF Inside
  <2>4. \A x \in Places : x = <<x[1], x[2]>> /\ (x[1] # 0 <=> x \in Pipes)  BY <1>1, PlaceShape
  <2>5. \A p \in Outs(Final) : <<0, p>> \in Places \ Pipes  BY <1>1, FinalLeaf, OutPipe
  <2>6. ASSUME NEW x \in Places PROVE WillBear(PosOf(x), Loads'[x].buf)
    <3>1. CASE x \notin Pipes
      <4>1. Loads'[x] = Nothing  BY <1>1, <2>1, <3>1, NextLoads
      <4> QED  BY <1>5, <1>10, <4>1
    <3>2. CASE x \in Pipes /\ x[1] = Final /\ x[2] \in Outs(Final) /\ pipes'[x] = inline.outs[x[2]]
      <4>1. Loads'[x] = Loads[<<0, x[2]>>]  BY <1>1, <2>1, <2>5, <3>2, NextLoads
      <4>2. <<0, x[2]>> \in Places /\ PosOf(<<0, x[2]>>) = Final /\ PosOf(x) = Final
        BY <1>1, <2>4, <2>5, <3>2 DEF PosOf
      <4>3. Final <= Final  BY <1>3
      <4> QED  BY <1>11, <2>2, <4>1, <4>2, <4>3
    <3>3. CASE x \in Pipes /\ pipes'[x] = pipes[x]
      <4>1. Loads'[x] = Loads[x] /\ PosOf(x) <= PosOf(x)  BY <1>1, <1>3, <1>6, <3>3, NextLoads
      <4> QED  BY <1>11, <2>2, <4>1
    <3>4. x \in Pipes => pipes'[x] = pipes[x] \/ (x[1] = Final /\ x[2] \in Outs(Final) /\ pipes'[x] = inline.outs[x[2]])
      BY <2>1, <2>3 DEF Filled
    <3> QED  BY <3>1, <3>2, <3>3, <3>4
  <2> QED  BY <1>9, <2>6
<1>19. ASSUME inline' = inline, \A x \in Pipes : pipes'[x] \in {pipes[x], Nothing} PROVE \A x \in Places : Loads'[x] \in {Loads[x], Nothing}
  BY <1>1, <1>19, NextLoads
<1>20. CASE UNCHANGED <<pipes, inline>> /\ Onward
  BY <1>12, <1>19, <1>20
<1>21. ASSUME NEW k \in DOMAIN graph, Unready(k) PROVE Born'
  <2>1. \A x \in Pipes : pipes'[x] \in {pipes[x], Nothing}  BY <1>21 DEF Unready, PipesLess, TypeOK
  <2> QED  BY <1>12, <1>19, <1>21, <2>1 DEF Unready, Fails, Onward
<1>22. ASSUME NEW k \in DOMAIN graph, Refused(k) PROVE Born'
  <2>1. \A x \in Pipes : pipes'[x] \in {pipes[x], Nothing}  BY <1>22 DEF Refused, PipesLess, TypeOK
  <2> QED  BY <1>12, <1>19, <1>22, <2>1 DEF Refused, Fails, Onward
<1>23. ASSUME NEW z \in Undelivered, Reclaim(z) PROVE Born'
  <2>1. \A x \in Pipes : pipes'[x] \in {pipes[x], Nothing}  BY <1>23 DEF Reclaim, TypeOK
  <2> QED  BY <1>12, <1>19, <1>23, <2>1 DEF Reclaim, Onward
<1>24. ASSUME SyncReturns PROVE Born'
  <2>1. \A x \in Pipes : pipes'[x] \in {pipes[x], Nothing}  BY <1>24 DEF SyncReturns, TypeOK
  <2> QED  BY <1>12, <1>19, <1>24, <2>1 DEF SyncReturns, Onward
<1>25. ASSUME pc' = pc, at' = at, run' = run, UNCHANGED <<pipes, inline>> PROVE Born'
  <2>1. Onward  BY <1>3, <1>25 DEF Onward
  <2> QED  BY <1>20, <1>25, <2>1
<1> QED
  BY <1>16, <1>17, <1>18, <1>20, <1>21, <1>22, <1>23, <1>24, <1>25 DEF Onward, Next, StartSync, Transfers,
     Mopped, SeedFails, Fails, DropCheckout, IntoInner, Device, Finish

\* An inlet holds what it was loaded with, or nothing; the rest that is no output of a
\* leaf holds nothing.
Lent(x) == [buf |-> <<x[1], x[2] - 2>>, home |-> <<x[1], x[2] - 2>>, deps |-> {}]
Inlets == \A x \in Pipes : x[2] \notin Outs(x[1]) => pipes[x] = Nothing \/ (x[2] > 2 /\ pipes[x] = Lent(x))

LEMMA InitPipes ==
  ASSUME Init, NEW x \in Pipes
  PROVE  \/ pipes[x] = Nothing
         \/ /\ pipes[x] = Lent(x) /\ x[2] \in {3, 4} /\ x[2] - 2 \in Args(x[1])
            /\ From(x[1], x[2] - 2) = "lent"
<1>1. graph \in Programs  BY DEF Init
<1>2. x[1] \in DOMAIN graph /\ x[1] \in Nat \ {0} /\ x[2] \in 1..4  BY <1>1, PlaceShape
<1>3. pipes[x] = IF \E i \in Args(x[1]) : From(x[1], i) = "lent" /\ x = Inlet(x[1], i)
                 THEN Lent(x) ELSE Nothing
  BY DEF Init, Pipes, Lent
<1>4. CASE \E i \in Args(x[1]) : From(x[1], i) = "lent" /\ x = Inlet(x[1], i)
  <2>1. PICK i \in Args(x[1]) : From(x[1], i) = "lent" /\ x = Inlet(x[1], i)  BY <1>4
  <2>2. i = 1 \/ i = 2  BY <1>1, <1>2, FromShape
  <2>3. x[2] = 2 + i  BY <2>1 DEF Inlet
  <2>4. x[2] - 2 = i  BY <2>2, <2>3
  <2> QED  BY <1>3, <1>4, <2>1, <2>2, <2>3, <2>4
<1> QED  BY <1>3, <1>4

LEMMA CustodyInit == Init => Custody /\ Inlets
<1> SUFFICES ASSUME Init PROVE Custody /\ Inlets
  OBVIOUS
<1>1. graph \in Programs /\ held = {} /\ TypeOK /\ inline = Outside /\ DOMAIN inline.outs = {}
  BY TypeInit, OutsideEmpty DEF Init
<1>2. \A x \in Pipes : /\ x[1] \in DOMAIN graph /\ x[1] \in Nat \ {0} /\ x[2] \in 1..4 /\ x = <<x[1], x[2]>>
                       /\ x \in Places /\ PosOf(x) = x[1]
  BY <1>1, PlaceShape DEF Places, PosOf
<1>3. DOMAIN Loads = Places /\ (\A x \in Pipes : Loads[x] = pipes[x]) /\ \A x \in Places \ Pipes : Loads[x] = Nothing
  BY <1>1, PlaceShape DEF Loads
<1>4. Nothing.buf[1] = 0 /\ Nothing.home = None  BY DEF Nothing
<1>5. \A c \in DOMAIN cells : c[1] # 0 /\ c # None  BY <1>1, CellsNotNone
<1>6. ASSUME NEW x \in Places, Loads[x] # Nothing
      PROVE  /\ x \in Pipes /\ Loads[x] = Lent(x) /\ Loads[x].buf = <<x[1], x[2] - 2>> /\ Loads[x].home = Loads[x].buf
             /\ Loads[x].buf \in DOMAIN cells /\ cells[Loads[x].buf] = "out" /\ Loads[x].buf[1] = x[1]
             /\ Loads[x].buf[2] = x[2] - 2
  <2>1. x \in Pipes /\ pipes[x] # Nothing  BY <1>3, <1>6
  <2>2. /\ pipes[x] = Lent(x) /\ x[2] \in {3, 4} /\ x[2] - 2 \in Args(x[1])
        /\ From(x[1], x[2] - 2) = "lent"
    BY <2>1, InitPipes
  <2> DEFINE b == <<x[1], x[2] - 2>>
  <2>3. b \in CellsOf(graph)  BY <1>1, <1>2, <2>1, <2>2, FromShape
  <2>4. b[1] = x[1] /\ b[2] = x[2] - 2 /\ b[2] # 0  BY <2>2
  <2>5. Lent(x).buf = b /\ Lent(x).home = b  BY DEF Lent
  <2>6. ~OwnCell(b[1], b[2])  BY <2>2, <2>4 DEF OwnCell
  <2> HIDE DEF b
  <2>7. b \in DOMAIN cells /\ cells[b] = "out"  BY <2>3, <2>4, <2>6 DEF Init
  <2> QED  BY <1>3, <2>1, <2>2, <2>4, <2>5, <2>7 DEF b
<1>7. Apart(Loads, cells, held)
  <2>1. \A x \in Places : Loads[x].home \in {None, Loads[x].buf} /\ (Loads[x].home # None => Loads[x].home \in DOMAIN cells)
    BY <1>4, <1>6
  <2>2. \A x, y \in Places : x # y /\ Loads[x].buf = Loads[y].buf => Loads[x].buf[1] = 0
    <3> SUFFICES ASSUME NEW x \in Places, NEW y \in Places, x # y, Loads[x].buf = Loads[y].buf, Loads[x].buf[1] # 0
                 PROVE  FALSE
      OBVIOUS
    <3>1. Loads[x] # Nothing /\ Loads[y] # Nothing  BY <1>4
    <3>2. x[1] = y[1] /\ x[2] - 2 = y[2] - 2 /\ x \in Pipes /\ y \in Pipes  BY <1>6, <3>1
    <3>3. x[2] = y[2]  BY <1>2, <3>2
    <3> QED  BY <1>2, <3>2, <3>3
  <2>3. \A x \in Places : Loads[x].buf \in DOMAIN cells => cells[Loads[x].buf] = "out"
    BY <1>4, <1>5, <1>6
  <2> QED  BY <1>1, <1>3, <2>1, <2>2, <2>3 DEF Apart
<1>8. Backs  BY <1>1, OutsideEmpty DEF Backs
<1>9. Born
  <2> SUFFICES ASSUME NEW x \in Places, Loads[x].buf[1] # 0 PROVE Bears(PosOf(x), Loads[x].buf)
    BY DEF Born, Bears
  <2>1. Loads[x].buf \in DOMAIN cells /\ Loads[x].buf[1] = x[1] /\ x \in Pipes  BY <1>4, <1>6
  <2>2. x[1] \in 1..x[1] /\ PosOf(x) = x[1]  BY <1>2, <2>1
  <2> QED  BY <2>1, <2>2 DEF Bears
<1>10. Inlets  BY InitPipes DEF Inlets
<1> QED  BY <1>7, <1>8, <1>9, <1>10 DEF Custody

\* What a step does to the pipes that are not the outputs of the leaf it runs.
LEMMA PipeStep ==
  ASSUME TypeOK, Phases, Next, NEW x \in Pipes
  PROVE  \/ pipes'[x] = pipes[x]
         \/ pipes'[x] = Nothing
         \/ x[2] \in Outs(x[1]) /\ x[1] = at /\ pc \in {"walk", "inside"}
<1>1. DOMAIN pipes = Pipes /\ x = <<x[1], x[2]>> /\ graph \in Programs  BY PlaceShape DEF TypeOK
<1>2. ASSUME NEW k \in DOMAIN graph, Runs(k)
      PROVE  pipes'[x] \in {pipes[x], Nothing} \/ (x[2] \in Outs(x[1]) /\ x[1] = at /\ pc = "walk")
  <2>1. pc = "walk" /\ at = k  BY <1>2 DEF Runs, Ready, Walking
  <2>2. PipesLess(k, Args(k))[x] \in {pipes[x], Nothing} /\ DOMAIN PipesLess(k, Args(k)) = Pipes  BY <1>1 DEF PipesLess
  <2>3. CASE WaitsInside(k)  BY <1>2, <2>2, <2>3 DEF Runs
  <2>4. CASE ~WaitsInside(k)
    <3> DEFINE outs == [p \in Outs(k) |-> Output(k, p)]
    <3>1. pipes' = Filled(PipesLess(k, Args(k)), k, outs) /\ DOMAIN outs = Outs(k)  BY <1>2, <2>4 DEF Runs
    <3> HIDE DEF outs
    <3> QED  BY <2>1, <2>2, <3>1 DEF Filled
  <2> QED  BY <2>3, <2>4
<1>3. ASSUME NEW k \in DOMAIN graph, Seeds(k)
      PROVE  pipes'[x] = pipes[x] \/ (x[2] \in Outs(x[1]) /\ x[1] = at /\ pc = "walk")
  <2> DEFINE out == <<Output(k, 1)>>
  <2>1. pipes' = Filled(pipes, k, out) /\ pc = "walk" /\ at = k /\ Op(k).seeds  BY <1>3 DEF Seeds, Walking
  <2>2. DOMAIN out = {1} /\ Outs(k) = {1}  BY <1>1, <2>1, LeafShape
  <2> HIDE DEF out
  <2> QED  BY <1>1, <2>1, <2>2 DEF Filled
<1>4. ASSUME Inside
      PROVE  pipes'[x] = pipes[x] \/ (x[2] \in Outs(x[1]) /\ x[1] = at /\ pc = "inside")
  BY <1>1, <1>4 DEF Inside, Filled, Phases
<1>5. ASSUME NEW k \in DOMAIN graph, Unready(k) PROVE pipes'[x] \in {pipes[x], Nothing}
  BY <1>1, <1>5 DEF Unready, PipesLess
<1>6. ASSUME NEW k \in DOMAIN graph, Refused(k) PROVE pipes'[x] \in {pipes[x], Nothing}
  BY <1>1, <1>6 DEF Refused, PipesLess
<1>7. ASSUME NEW z \in Undelivered, Reclaim(z) PROVE pipes'[x] \in {pipes[x], Nothing}
  BY <1>1, <1>7 DEF Reclaim
<1>8. ASSUME SyncReturns PROVE pipes'[x] \in {pipes[x], Nothing}
  BY <1>1, <1>8 DEF SyncReturns
<1>9. CASE pipes' = pipes
  BY <1>9
<1> QED
  BY <1>2, <1>3, <1>4, <1>5, <1>6, <1>7, <1>8, <1>9 DEF Next, StartSync, Transfers, Mopped, SeedFails,
     DropCheckout, IntoInner, Device, Finish

LEMMA InletsStep ==
  ASSUME TypeOK, Phases, Inlets, Next
  PROVE  Inlets'
<1>1. Pipes' = Pipes /\ graph \in Programs  BY SameGraph DEF Pipes, TypeOK
<1>2. \A x \in Pipes : Lent(x)' = Lent(x) /\ Outs(x[1])' = Outs(x[1])
  BY SameGraph DEF Lent, Outs, Op, Leaf
<1>3. \A x \in Pipes : x[2] \notin Outs(x[1]) => pipes'[x] \in {pipes[x], Nothing}  BY PipeStep
<1> QED  BY <1>1, <1>2, <1>3 DEF Inlets

\* The base of every proof below.
Base == TypeOK /\ Phases /\ Custody /\ Inlets

LEMMA BaseInit == Init => Base
BY TypeInit, PhasesInit, CustodyInit DEF Base

LEMMA BaseStep ==
  ASSUME Base, [Next]_vars
  PROVE  Base'
<1>1. CASE Next
  <2>1. TypeOK'  BY <1>1, TypeStep DEF Base
  <2>2. Phases' /\ Inlets'  BY <1>1, PhasesStep, InletsStep DEF Base
  <2>3. Apart(Loads, cells, held)'  BY <1>1, ApartStep DEF Base
  <2>4. Backs' /\ Born'  BY <1>1, <2>1, BacksStep, BornStep DEF Base
  <2> QED  BY <2>1, <2>2, <2>3, <2>4 DEF Base, Custody
<1>2. CASE UNCHANGED vars
  <2>1. TypeOK'  BY <1>2 DEF vars, Base, TypeOK, Pipes
  <2>2. Phases'  BY <1>2 DEF vars, Base, Phases, WaitsInside, Final, Op, Leaf, Outs
  <2>3. Inlets'  BY <1>2 DEF vars, Base, Inlets, Pipes, Lent, Outs, Op, Leaf
  <2>4. Loads' = Loads /\ Pipes' = Pipes /\ Places' = Places  BY <1>2 DEF vars, Loads, Pipes, Places
  <2>5. Backs'  BY <1>2, <2>4 DEF vars, Base, Custody, Backs
  <2>6. Final' = Final  BY <1>2 DEF vars, Final
  <2>7. Born'  BY <1>2, <2>4, <2>6 DEF vars, Base, Custody, Born, Bears, PosOf
  <2> QED  BY <1>2, <2>1, <2>2, <2>3, <2>4, <2>5, <2>7 DEF vars, Base, Custody
<1> QED  BY <1>1, <1>2

\* A buffer is in one place, or in its cell, or with the caller, in every reachable state.
THEOREM BuffersApart == Spec => []Base
BY BaseInit, BaseStep, PTL DEF Spec

-----------------------------------------------------------------------------
(* Reach: the commands that a set of events waits for.                     *)

LEMMA PendingMember == \A c \in pend : c.id \in Pending
BY DEF Pending

LEMMA ReachSelf ==
  ASSUME NEW D
  PROVE  D \cap Pending \subseteq Reach(D) /\ Reach(D) \subseteq Pending /\ Closed(Reach(D))
<1>1. D \cap Pending \subseteq Reach(D) /\ Reach(D) \subseteq Pending  BY DEF Reach
<1>2. ASSUME NEW c \in pend, c.id \in Reach(D), NEW i \in c.after \cap Pending PROVE i \in Reach(D)
  <2> SUFFICES ASSUME NEW S \in SUBSET Pending, D \cap Pending \subseteq S, Closed(S) PROVE i \in S
    BY <1>2 DEF Reach
  <2>1. c.id \in S  BY <1>2 DEF Reach
  <2> QED  BY <1>2, <2>1 DEF Closed
<1> QED  BY <1>1, <1>2 DEF Closed

\* Reach is the least such set.
LEMMA ReachLeast ==
  ASSUME NEW D, NEW S, S \subseteq Pending, D \cap Pending \subseteq S, Closed(S)
  PROVE  Reach(D) \subseteq S
BY DEF Reach

LEMMA ReachWithin ==
  ASSUME NEW D, NEW E, D \cap Pending \subseteq Reach(E)
  PROVE  Reach(D) \subseteq Reach(E)
BY ReachSelf, ReachLeast

LEMMA ReachMonotone ==
  ASSUME NEW D, NEW E, D \cap Pending \subseteq E
  PROVE  Reach(D) \subseteq Reach(E)
BY ReachSelf, ReachWithin

LEMMA ReachNothing ==
  ASSUME NEW D, D \cap Pending = {}
  PROVE  Reach(D) = {}
<1>1. Closed({})  BY DEF Closed
<1>2. Reach(D) \subseteq {}  BY <1>1, ReachLeast
<1> QED  BY <1>2

\* Reach of the next state.
WillClosed(S) == \A c \in pend' : c.id \in S => c.after \cap Pending' \subseteq S
WillReach(D) ==
  {i \in Pending' : \A S \in SUBSET Pending' : D \cap Pending' \subseteq S /\ WillClosed(S) => i \in S}

LEMMA WillReachSelf ==
  ASSUME NEW D
  PROVE  D \cap Pending' \subseteq WillReach(D) /\ WillReach(D) \subseteq Pending' /\ WillClosed(WillReach(D))
<1>1. D \cap Pending' \subseteq WillReach(D) /\ WillReach(D) \subseteq Pending'  BY DEF WillReach
<1>2. ASSUME NEW c \in pend', c.id \in WillReach(D), NEW i \in c.after \cap Pending' PROVE i \in WillReach(D)
  <2> SUFFICES ASSUME NEW S \in SUBSET Pending', D \cap Pending' \subseteq S, WillClosed(S) PROVE i \in S
    BY <1>2 DEF WillReach
  <2>1. c.id \in S  BY <1>2 DEF WillReach
  <2> QED  BY <1>2, <2>1 DEF WillClosed
<1> QED  BY <1>1, <1>2 DEF WillClosed

LEMMA WillReachWithin ==
  ASSUME NEW D, NEW E, D \cap Pending' \subseteq WillReach(E)
  PROVE  WillReach(D) \subseteq WillReach(E)
BY WillReachSelf DEF WillReach

LEMMA WillReachMonotone ==
  ASSUME NEW D, NEW E, D \cap Pending' \subseteq E
  PROVE  WillReach(D) \subseteq WillReach(E)
BY WillReachSelf, WillReachWithin

\* A command that joins the others takes nothing from what they wait for, and waits for all
\* that its operands' events do.
LEMMA ReachGrows ==
  ASSUME NEW c, pend' = pend \cup {c}, NEW E, c.after = E \cap Pending, c.id \notin Pending
  PROVE  /\ Pending' = Pending \cup {c.id}
         /\ \A D : Reach(D) \subseteq WillReach(D)
         /\ \A D : c.id \in D => Reach(E) \subseteq WillReach(D) /\ c.id \in WillReach(D)
<1>1. Pending' = Pending \cup {c.id}  BY DEF Pending
<1>2. ASSUME NEW S, WillClosed(S) PROVE Closed(S \cap Pending)
  <2> SUFFICES ASSUME NEW d \in pend, d.id \in S, NEW i \in d.after \cap Pending PROVE i \in S \cap Pending
    BY DEF Closed
  <2> QED  BY <1>1, <1>2 DEF WillClosed
<1>3. ASSUME NEW D PROVE Reach(D) \subseteq WillReach(D)
  <2> SUFFICES ASSUME NEW i \in Reach(D), NEW S \in SUBSET Pending', D \cap Pending' \subseteq S, WillClosed(S)
               PROVE  i \in S
    BY <1>1, ReachSelf DEF WillReach
  <2>1. Closed(S \cap Pending)  BY <1>2
  <2>2. D \cap Pending \subseteq S \cap Pending  BY <1>1
  <2>3. Reach(D) \subseteq S \cap Pending  BY <2>1, <2>2, ReachLeast
  <2> QED  BY <2>3
<1>4. ASSUME NEW D, c.id \in D PROVE Reach(E) \subseteq WillReach(D) /\ c.id \in WillReach(D)
  <2>1. c.id \in WillReach(D)  BY <1>1, <1>4, WillReachSelf
  <2>2. c.after \cap Pending' \subseteq WillReach(D)  BY <2>1, WillReachSelf DEF WillClosed
  <2>3. E \cap Pending \subseteq WillReach(D)  BY <1>1, <2>2
  <2>4. Closed(WillReach(D) \cap Pending)  BY <1>2, WillReachSelf
  <2>5. Reach(E) \subseteq WillReach(D) \cap Pending  BY <2>3, <2>4, ReachLeast
  <2> QED  BY <2>1, <2>5
<1> QED  BY <1>1, <1>3, <1>4

\* A command that is over, and waited for nothing, takes only itself away.
LEMMA ReachShrinks ==
  ASSUME NEW c \in pend, c.after \cap Pending = {}, pend' = pend \ {c},
         \A d \in pend : d.id = c.id => d = c
  PROVE  /\ Pending' = Pending \ {c.id}
         /\ \A D : Reach(D) \ {c.id} \subseteq WillReach(D)
<1>1. Pending' = Pending \ {c.id}  BY DEF Pending
<1>2. ASSUME NEW D PROVE Reach(D) \ {c.id} \subseteq WillReach(D)
  <2> SUFFICES ASSUME NEW i \in Reach(D), i # c.id,
                      NEW S \in SUBSET Pending', D \cap Pending' \subseteq S, WillClosed(S)
               PROVE  i \in S
    BY <1>1, ReachSelf DEF WillReach
  <2> DEFINE T == S \cup {c.id}
  <2>1. T \subseteq Pending /\ D \cap Pending \subseteq T  BY <1>1, PendingMember
  <2>2. Closed(T)
    <3> SUFFICES ASSUME NEW d \in pend, d.id \in T, NEW j \in d.after \cap Pending PROVE j \in T
      BY DEF Closed
    <3>1. CASE d = c  BY <3>1
    <3>2. CASE d # c  BY <1>1, <3>2 DEF WillClosed
    <3> QED  BY <3>1, <3>2
  <2>3. Reach(D) \subseteq T
    <3> HIDE DEF T
    <3> QED  BY <2>1, <2>2, ReachLeast
  <2> QED  BY <2>3
<1> QED  BY <1>1, <1>2

\* A step that leaves the commands as they are leaves what they wait for.
LEMMA ReachSame ==
  ASSUME pend' = pend
  PROVE  Pending' = Pending /\ \A D : Reach(D) = WillReach(D)
<1>1. Pending' = Pending  BY DEF Pending
<1>2. \A S : WillClosed(S) <=> Closed(S)  BY <1>1 DEF WillClosed, Closed
<1> QED  BY <1>1, <1>2 DEF Reach, WillReach

-----------------------------------------------------------------------------
(* The commands on the device.                                             *)

Touched(c) == c.reads \cup c.writes

\* What is in a place is a buffer, unless it is a value of the host.
HostPlace(x) == x[2] \in Outs(PosOf(x)) /\ Op(PosOf(x)).give[x[2]] = HostValue
Real == \A x \in Places : Loads[x] # Nothing => Loads[x].buf[1] # 0 \/ HostPlace(x)

\* A command is of this run, of a leaf that the walk has passed, and works on buffers
\* that were there by then.
Sent ==
  /\ \A c \in pend : /\ c.id[2] = run /\ c.id[1] \in DOMAIN graph
                     /\ Enqueues(c.id[1]) /\ ~Op(c.id[1]).seeds
                     /\ pc = "walk" => c.id[1] < at
                     /\ \A b \in Touched(c) : b[1] \in 1..c.id[1] /\ (b \in DOMAIN cells => cells[b] # "new")
  /\ \A c, d \in pend : c.id = d.id => c = d

\* A buffer travels with events that cover every command on it.
Followed ==
  /\ \A c \in pend, x \in Pipes : pipes[x].buf \in Touched(c) =>
       c.id[1] <= x[1] /\ c.id \in Reach(pipes[x].deps)
  /\ pc = "inside" => \A c \in pend : \A p \in DOMAIN inline.outs :
       inline.outs[p].buf \in Touched(c) => c.id \in Reach({<<Final, run>>})

\* An operand is a buffer, made by then, and out of its cell or in it.
LEMMA OperandReal ==
  ASSUME Base, Real, NEW k \in DOMAIN graph, NEW i \in Args(k), Resolvable(k, i)
  PROVE  /\ Operand(k, i).buf[1] \in 1..k
         /\ Operand(k, i).buf \in DOMAIN cells => cells[Operand(k, i).buf] \in {"full", "out"}
<1>1. graph \in Programs /\ TypeOK /\ Born /\ Apart(Loads, cells, held)  BY DEF Base, TypeOK, Custody
<1>2. k \in Nat \ {0}  BY <1>1, LeafShape
<1>3. CASE OwnCell(k, i)
  <2>1. Operand(k, i).buf = <<k, i>> /\ cells[<<k, i>>] = "full"  BY <1>3 DEF Operand, Resolvable
  <2> QED  BY <1>2, <2>1
<1>4. CASE ~OwnCell(k, i)
  <2> DEFINE x == PipeOf(k, i)
  <2>1. x \in Pipes /\ Operand(k, i) = Loads[x] /\ x[1] \in 1..k /\ Loads[x] # Nothing /\ x \in Places
        /\ DOMAIN Loads = Places /\ PosOf(x) = x[1]
    BY <1>1, <1>4, PipePlace, PlaceShape DEF Resolvable, Operand, Places, PosOf
  <2>2. ~HostPlace(x)
    <3>1. CASE From(k, i) = "pipe"
      <4>1. Op(x[1]).give[x[2]] # HostValue  BY <1>1, <3>1, PipeShape
      <4> HIDE DEF x
      <4> QED  BY <2>1, <4>1 DEF HostPlace
    <3>2. CASE From(k, i) = "lent"
      <4>1. x[1] = k /\ x[2] = 2 + i  BY <1>1, <3>2, InletShape
      <4>2. i = 1 \/ i = 2  BY <1>1, FromShape
      <4>3. Outs(k) \in {{1}, {1, 2}}  BY <1>1, LeafShape
      <4> HIDE DEF x
      <4>4. x[2] \notin Outs(x[1])  BY <4>1, <4>2, <4>3
      <4> QED  BY <2>1, <4>4 DEF HostPlace
    <3> QED  BY <1>1, <1>4, <3>1, <3>2, FromShape
  <2> HIDE DEF x
  <2>3. Loads[x].buf[1] # 0  BY <2>1, <2>2 DEF Real
  <2>4. Loads[x].buf[1] \in 1..x[1]  BY <1>1, <2>1, <2>3 DEF Born, Bears
  <2>5. Loads[x].buf[1] \in 1..k  BY <1>2, <2>1, <2>4
  <2>6. Loads[x].buf \in DOMAIN cells => cells[Loads[x].buf] = "out"  BY <1>1, <2>1 DEF Apart
  <2> QED  BY <2>1, <2>5, <2>6
<1> QED  BY <1>3, <1>4

\* What the command of a leaf works on is in the leaf's hands.
LEMMA CommandShape ==
  ASSUME Base, Real, NEW k \in DOMAIN graph, Ready(k)
  PROVE  /\ Command(k).id = <<k, run>> /\ Command(k).after = OperandDeps(k) \cap Pending
         /\ \A b \in Touched(Command(k)) : \E j \in {Made} \cup Args(k) : b = Buf(k, j)
         /\ Buf(k, Made) = Minted(k) /\ \A i \in Args(k) : Buf(k, i) = Operand(k, i).buf
         /\ \A j \in {Made} \cup Args(k) :
              /\ <<-1, j>> \in Hands /\ Buf(k, j) = InHand(k, Args(k))[<<-1, j>>].buf /\ Buf(k, j)[1] \in 1..k
              /\ Buf(k, j) \in DOMAIN cells => cells[Buf(k, j)] # "new"
<1>1. graph \in Programs /\ TypeOK /\ Born /\ Apart(Loads, cells, held) /\ ~Op(k).seeds /\ Walking(k)
      /\ \A i \in Args(k) : Resolvable(k, i)
  BY DEF Base, TypeOK, Custody, Ready
<1>2. Op(k).reads \cup Op(k).writes \subseteq {Made} \cup Args(k) /\ Args(k) \in {{}, {1}, {1, 2}} /\ k \in Nat \ {0}
  BY <1>1, LeafShape
<1>3. Command(k).id = <<k, run>> /\ Command(k).after = OperandDeps(k) \cap Pending  BY DEF Command
<1>4. \A b \in Touched(Command(k)) : \E j \in {Made} \cup Args(k) : b = Buf(k, j)
  BY <1>2 DEF Touched, Command
<1>5. Buf(k, Made) = Minted(k) /\ \A i \in Args(k) : Buf(k, i) = Operand(k, i).buf
  BY <1>1, <1>2 DEF Buf, Made
<1>6. \A j \in {Made} \cup Args(k) : <<-1, j>> \in Hands /\ InHand(k, Args(k))[<<-1, j>>] = Piece(k, j)
  BY <1>2 DEF Hands, InHand, Made
<1>7. Piece(k, Made).buf = Minted(k) /\ \A i \in Args(k) : Piece(k, i) = Operand(k, i)  BY <1>2 DEF Piece, Made
<1>8. Minted(k)[1] = k /\ k \in 1..k /\ Minted(k) \notin DOMAIN cells  BY <1>1, <1>2, MintedNew DEF Minted
<1>9. \A i \in Args(k) : Operand(k, i).buf[1] \in 1..k /\ (Operand(k, i).buf \in DOMAIN cells => cells[Operand(k, i).buf] # "new")
  BY <1>1, OperandReal
<1> QED  BY <1>3, <1>4, <1>5, <1>6, <1>7, <1>8, <1>9

\* An earlier command on a buffer that a leaf takes is among those its operands' events
\* wait for.
LEMMA OlderReached ==
  ASSUME Base, Real, Sent, Followed, NEW k \in DOMAIN graph, Ready(k), NEW d \in pend,
         NEW j \in {Made} \cup Args(k), Buf(k, j) \in Touched(d)
  PROVE  j \in Args(k) /\ d.id[1] <= k /\ d.id \in Reach(OperandDeps(k))
<1>1. graph \in Programs /\ TypeOK /\ pc = "walk" /\ at = k  BY DEF Base, TypeOK, Ready, Walking
<1>2. DOMAIN graph = 1..Final /\ Final \in Nat  BY <1>1, FinalLeaf
<1>3. d.id[1] \in 1..Final /\ d.id[1] < k /\ Buf(k, j)[1] \in 1..d.id[1] /\ k \in 1..Final
  BY <1>1, <1>2 DEF Sent
<1>4. Buf(k, j)[1] # k  BY <1>2, <1>3
<1>5. j \in Args(k)
  <2>1. Buf(k, Made)[1] = k  BY CommandShape DEF Minted
  <2> QED  BY <1>4, <2>1
<1>6. Buf(k, j) = Operand(k, j).buf  BY <1>5, CommandShape
<1>7. ~OwnCell(k, j)
  <2>1. OwnCell(k, j) => Operand(k, j).buf[1] = k  BY DEF Operand
  <2> QED  BY <1>4, <1>6, <2>1
<1>8. PipeOf(k, j) \in Pipes /\ Operand(k, j) = pipes[PipeOf(k, j)]
  BY <1>1, <1>5, <1>7, PipePlace DEF Operand
<1>9. d.id \in Reach(Operand(k, j).deps)  BY <1>6, <1>8 DEF Followed
<1>10. Operand(k, j).deps \subseteq OperandDeps(k)  BY <1>5 DEF OperandDeps
<1>11. d.id \in Reach(OperandDeps(k))  BY <1>9, <1>10, ReachMonotone
<1> QED  BY <1>2, <1>3, <1>5, <1>11

\* Where what a place holds after a step comes from.
Deposits(k, x) ==
  /\ x[2] \in Outs(k) /\ PosOf(x) = k /\ (x \in Pipes => x[1] = k)
  /\ Loads'[x] = Output(k, x[2])
LEMMA LoadStep ==
  ASSUME TypeOK, Phases, Next, NEW x \in Places
  PROVE  \/ Loads'[x] = Nothing
         \/ Loads'[x] = Loads[x]
         \/ \E k \in DOMAIN graph : (Runs(k) \/ Seeds(k)) /\ Deposits(k, x)
         \/ /\ Inside /\ x[1] = Final /\ x[2] \in Outs(Final) /\ <<0, x[2]>> \in Places /\ x \in Pipes
            /\ Loads'[x] = Loads[<<0, x[2]>>] /\ Loads'[x] = inline.outs[x[2]]
<1>1. graph' = graph /\ graph \in Programs /\ DOMAIN pipes = Pipes  BY SameGraph DEF TypeOK
<1>2. x = <<x[1], x[2]>> /\ (x[1] # 0 <=> x \in Pipes) /\ (x \in Pipes => x[1] = PosOf(x))
  BY <1>1, PlaceShape DEF PosOf
<1>3. /\ Loads'[x] = IF x \in Pipes THEN pipes'[x]
                     ELSE IF x[2] \in DOMAIN inline'.outs THEN inline'.outs[x[2]] ELSE Nothing
      /\ Loads[x] = IF x \in Pipes THEN pipes[x]
                    ELSE IF x[2] \in DOMAIN inline.outs THEN inline.outs[x[2]] ELSE Nothing
  BY <1>1, NextLoads
<1>4. ASSUME NEW k \in DOMAIN graph, Runs(k)
      PROVE  Loads'[x] = Nothing \/ Loads'[x] = Loads[x] \/ Deposits(k, x)
  <2> DEFINE outs == [p \in Outs(k) |-> Output(k, p)]
             ps == PipesLess(k, Args(k))
  <2>1. inline = Outside /\ DOMAIN inline.outs = {}
    BY <1>4, OutsideEmpty DEF Runs, Ready, Walking, Phases
  <2>2. DOMAIN outs = Outs(k) /\ \A p \in Outs(k) : outs[p] = Output(k, p)  OBVIOUS
  <2>3. DOMAIN ps = Pipes /\ (x \in Pipes => ps[x] \in {pipes[x], Nothing})  BY <1>1 DEF PipesLess
  <2>4. CASE WaitsInside(k)
    <3>1. inline'.outs = outs /\ pipes' = ps /\ k = Final  BY <1>4, <2>4 DEF Runs, WaitsInside
    <3> HIDE DEF outs, ps
    <3>2. x \notin Pipes => PosOf(x) = Final  BY <1>2 DEF PosOf
    <3> QED  BY <1>3, <2>2, <2>3, <3>1, <3>2 DEF Deposits
  <2>5. CASE ~WaitsInside(k)
    <3>1. inline' = inline /\ pipes' = Filled(ps, k, outs)  BY <1>4, <2>5 DEF Runs
    <3> HIDE DEF outs, ps
    <3>2. CASE x \notin Pipes  BY <1>3, <2>1, <3>1, <3>2
    <3>3. CASE x \in Pipes /\ x[1] = k /\ x[2] \in Outs(k)
      <4>1. pipes'[x] = Output(k, x[2])  BY <2>2, <2>3, <3>1, <3>3 DEF Filled
      <4> QED  BY <1>2, <1>3, <3>3, <4>1 DEF Deposits
    <3>4. CASE x \in Pipes /\ ~(x[1] = k /\ x[2] \in Outs(k))
      <4>1. pipes'[x] = ps[x]  BY <2>2, <2>3, <3>1, <3>4 DEF Filled
      <4> QED  BY <1>3, <2>3, <3>4, <4>1
    <3> QED  BY <3>2, <3>3, <3>4
  <2> QED  BY <2>4, <2>5
<1>5. ASSUME NEW k \in DOMAIN graph, Seeds(k)
      PROVE  Loads'[x] = Loads[x] \/ Deposits(k, x)
  <2> DEFINE out == <<Output(k, 1)>>
  <2>1. inline' = inline /\ pipes' = Filled(pipes, k, out) /\ Op(k).seeds  BY <1>5 DEF Seeds
  <2>2. DOMAIN out = {1} /\ out[1] = Output(k, 1)  OBVIOUS
  <2>3. Outs(k) = {1}  BY <1>1, <2>1, LeafShape
  <2> HIDE DEF out
  <2>4. CASE x \in Pipes /\ x[1] = k /\ x[2] = 1
    <3>1. pipes'[x] = Output(k, 1)  BY <1>1, <2>1, <2>2, <2>4 DEF Filled
    <3> QED  BY <1>2, <1>3, <2>3, <2>4, <3>1 DEF Deposits
  <2>5. CASE ~(x \in Pipes /\ x[1] = k /\ x[2] = 1)
    <3>1. x \in Pipes => pipes'[x] = pipes[x]  BY <1>1, <2>1, <2>2, <2>5 DEF Filled
    <3> QED  BY <1>3, <2>1, <3>1
  <2> QED  BY <2>4, <2>5
<1>6. ASSUME Inside
      PROVE  \/ Loads'[x] = Nothing
             \/ Loads'[x] = Loads[x]
             \/ /\ x[1] = Final /\ x[2] \in Outs(Final) /\ <<0, x[2]>> \in Places /\ x \in Pipes
                /\ Loads'[x] = Loads[<<0, x[2]>>] /\ Loads'[x] = inline.outs[x[2]]
  <2>1. DOMAIN inline'.outs = {} /\ DOMAIN inline.outs = Outs(Final)
    BY <1>6, OutsideEmpty DEF Inside, Phases
  <2>2. pipes' = Filled(pipes, Final, inline.outs) \/ pipes' = pipes  BY <1>6 DEF Inside
  <2>3. CASE x \notin Pipes  BY <1>3, <2>1, <2>3
  <2>4. CASE x \in Pipes /\ x[1] = Final /\ x[2] \in Outs(Final) /\ pipes' = Filled(pipes, Final, inline.outs)
    <3>1. pipes'[x] = inline.outs[x[2]]  BY <1>1, <2>1, <2>4 DEF Filled
    <3>2. <<0, x[2]>> \in Places \ Pipes  BY <1>1, <2>4, FinalLeaf, OutPipe
    <3>3. Loads[<<0, x[2]>>] = inline.outs[x[2]]  BY <1>1, <2>1, <2>4, <3>2, NextLoads
    <3> QED  BY <1>3, <2>4, <3>1, <3>2, <3>3
  <2>5. CASE x \in Pipes /\ pipes'[x] = pipes[x]  BY <1>3, <2>5
  <2>6. x \in Pipes /\ ~(x[1] = Final /\ x[2] \in Outs(Final)) => pipes'[x] = pipes[x]
    BY <1>1, <2>1, <2>2 DEF Filled
  <2> QED  BY <2>2, <2>3, <2>4, <2>5, <2>6
<1>7. ASSUME inline' = inline, x \in Pipes => pipes'[x] \in {pipes[x], Nothing}
      PROVE  Loads'[x] = Nothing \/ Loads'[x] = Loads[x]
  BY <1>3, <1>7
<1>8. ASSUME NEW k \in DOMAIN graph, Unready(k) PROVE Loads'[x] = Nothing \/ Loads'[x] = Loads[x]
  BY <1>1, <1>7, <1>8 DEF Unready, PipesLess
<1>9. ASSUME NEW k \in DOMAIN graph, Refused(k) PROVE Loads'[x] = Nothing \/ Loads'[x] = Loads[x]
  BY <1>1, <1>7, <1>9 DEF Refused, PipesLess
<1>10. ASSUME NEW z \in Undelivered, Reclaim(z) PROVE Loads'[x] = Nothing \/ Loads'[x] = Loads[x]
  BY <1>1, <1>7, <1>10 DEF Reclaim
<1>11. ASSUME SyncReturns PROVE Loads'[x] = Nothing \/ Loads'[x] = Loads[x]
  BY <1>1, <1>7, <1>11 DEF SyncReturns
<1>12. CASE UNCHANGED <<pipes, inline>>
  BY <1>7, <1>12
<1> QED
  BY <1>4, <1>5, <1>6, <1>8, <1>9, <1>10, <1>11, <1>12 DEF Next, StartSync, Transfers, Mopped, SeedFails,
     DropCheckout, IntoInner, Device, Finish

LEMMA RealInit == Init => Real
<1> SUFFICES ASSUME Init, NEW x \in Places, Loads[x] # Nothing PROVE Loads[x].buf[1] # 0
  BY DEF Real
<1>1. graph \in Programs /\ TypeOK /\ DOMAIN inline.outs = {}  BY TypeInit, OutsideEmpty DEF Init
<1>2. x \in Pipes /\ pipes[x] = Loads[x]  BY <1>1, PlaceShape DEF Loads
<1>3. Loads[x] = Lent(x) /\ x[1] # 0  BY <1>1, <1>2, InitPipes, PlaceShape
<1> QED  BY <1>3 DEF Lent

LEMMA RealStep ==
  ASSUME Base, Real, Next
  PROVE  Real'
<1>1. graph' = graph /\ graph \in Programs /\ TypeOK /\ Phases  BY SameGraph DEF Base, TypeOK
<1>2. Places' = Places /\ \A x \in Places : HostPlace(x)' <=> HostPlace(x)
  BY <1>1, NextLoads DEF HostPlace, PosOf, Outs, Op, Leaf, Final
<1>3. ASSUME NEW k \in DOMAIN graph, NEW x \in Places, Runs(k) \/ Seeds(k), Deposits(k, x)
      PROVE  Loads'[x].buf[1] # 0 \/ HostPlace(x)
  <2> DEFINE j == Op(k).give[x[2]]
  <2>1. j \in {Made, HostValue} \cup Args(k) /\ k # 0  BY <1>1, <1>3, LeafShape DEF Deposits
  <2>2. CASE j = HostValue  BY <1>3, <2>2 DEF Deposits, HostPlace
  <2>3. CASE j # HostValue
    <3>1. Loads'[x].buf = Buf(k, j)  BY <1>1, <1>3, <2>3, OutputParts DEF Deposits
    <3>2. CASE j = Made  BY <2>1, <3>1, <3>2 DEF Buf, Minted
    <3>3. CASE j \in Args(k) /\ j # Made
      <4>1. Runs(k)
        <5>1. Op(k).seeds => Args(k) = {}  BY <1>1, LeafShape
        <5> QED  BY <1>3, <3>3, <5>1 DEF Seeds
      <4>2. Resolvable(k, j)  BY <3>3, <4>1 DEF Runs, Ready
      <4>3. Operand(k, j).buf[1] \in 1..k  BY <3>3, <4>2, OperandReal
      <4> QED  BY <3>1, <3>3, <4>3 DEF Buf
    <3> QED  BY <2>1, <2>3, <3>2, <3>3
  <2> QED  BY <2>2, <2>3
<1>4. ASSUME NEW x \in Places, Loads'[x] # Nothing PROVE Loads'[x].buf[1] # 0 \/ HostPlace(x)
  <2>1. CASE Loads'[x] = Loads[x]  BY <1>4, <2>1 DEF Real
  <2>2. CASE \E k \in DOMAIN graph : (Runs(k) \/ Seeds(k)) /\ Deposits(k, x)  BY <1>3, <2>2
  <2>3. CASE x[1] = Final /\ <<0, x[2]>> \in Places /\ Loads'[x] = Loads[<<0, x[2]>>]
    <3>1. HostPlace(<<0, x[2]>>) <=> HostPlace(x)  BY <2>3 DEF HostPlace, PosOf
    <3> QED  BY <1>4, <2>3, <3>1 DEF Real
  <2> QED  BY <1>1, <1>4, <2>1, <2>2, <2>3, LoadStep
<1> QED  BY <1>2, <1>4 DEF Real

\* No step makes a cell "new".
LEMMA NeverNew ==
  ASSUME TypeOK, Next
  PROVE  DOMAIN cells' = DOMAIN cells /\ \A c \in DOMAIN cells : cells'[c] = "new" => cells[c] = "new"
<1>1. ASSUME NEW cs, NEW S, DOMAIN cs = DOMAIN cells, \A c \in DOMAIN cells : cs[c] = "new" => cells[c] = "new"
      PROVE  /\ DOMAIN Refill(cs, S) = DOMAIN cells
             /\ \A c \in DOMAIN cells : Refill(cs, S)[c] = "new" => cells[c] = "new"
  BY <1>1 DEF Refill
<1>2. ASSUME NEW k, NEW is
      PROVE  /\ DOMAIN CellsLess(k, is) = DOMAIN cells
             /\ \A c \in DOMAIN cells : CellsLess(k, is)[c] = "new" => cells[c] = "new"
  BY DEF CellsLess
<1>3. ASSUME NEW k \in DOMAIN graph, Runs(k) \/ Refused(k) \/ Unready(k)
      PROVE  DOMAIN cells' = DOMAIN cells /\ \A c \in DOMAIN cells : cells'[c] = "new" => cells[c] = "new"
  BY <1>1, <1>2, <1>3 DEF Runs, Refused, Unready
<1>4. CASE Inside  BY <1>1, <1>4 DEF Inside
<1>5. CASE SyncReturns  BY <1>1, <1>5 DEF SyncReturns
<1>6. ASSUME NEW k \in DOMAIN graph, Seeds(k)
      PROVE  DOMAIN cells' = DOMAIN cells /\ \A c \in DOMAIN cells : cells'[c] = "new" => cells[c] = "new"
  BY <1>6 DEF Seeds
<1>7. ASSUME NEW z \in Undelivered, Reclaim(z)
      PROVE  DOMAIN cells' = DOMAIN cells /\ \A c \in DOMAIN cells : cells'[c] = "new" => cells[c] = "new"
  BY <1>1, <1>7 DEF Reclaim
<1>8. ASSUME NEW h \in held, DropCheckout(h) \/ IntoInner(h)
      PROVE  DOMAIN cells' = DOMAIN cells /\ \A c \in DOMAIN cells : cells'[c] = "new" => cells[c] = "new"
  BY <1>1, <1>8 DEF DropCheckout, IntoInner
<1>9. CASE cells' = cells
  BY <1>9
<1> QED
  BY <1>3, <1>4, <1>5, <1>6, <1>7, <1>8, <1>9 DEF Next, StartSync, Transfers, Mopped, SeedFails, Device, Finish

\* The commands on the device after a step.
LEMMA PendStep ==
  ASSUME Next
  PROVE  \/ pend' = pend
         \/ \E c \in pend : Finish(c)
         \/ \E k \in DOMAIN graph : Runs(k) /\ Enqueues(k) /\ pend' = pend \cup {Command(k)}
BY DEF Next, StartSync, Inside, Transfers, Mopped, SyncReturns, Unready, Runs, Refused, Seeds, SeedFails,
  Reclaim, DropCheckout, IntoInner, Device

\* The walk only moves on, but for a run that starts when no command is on the device.
LEMMA WalkStep ==
  ASSUME TypeOK, Next
  PROVE  \/ run' = run + 1 /\ pend = {} /\ pend' = pend
         \/ /\ run' = run
            /\ pc' = "walk" => pc \in {"walk", "inside"} /\ (pc = "walk" => at <= at') /\ (pc = "inside" => at # Final)
<1>1. at \in Nat
  <2>1. DOMAIN graph = 1..Final /\ Final \in Nat  BY FinalLeaf
  <2> QED  BY <2>1 DEF TypeOK
<1>2. ASSUME run' = run, UNCHANGED at, pc' = "walk" => pc = "walk"
      PROVE  pc' = "walk" => pc \in {"walk", "inside"} /\ (pc = "walk" => at <= at') /\ (pc = "inside" => at # Final)
  BY <1>1, <1>2
<1>3. ASSUME Next1, pc \in {"walk", "inside"}
      PROVE  pc' = "walk" => pc \in {"walk", "inside"} /\ (pc = "walk" => at <= at') /\ (pc = "inside" => at # Final)
  BY <1>1, <1>3 DEF Next1
<1>4. CASE StartSync  BY <1>4 DEF StartSync
<1>5. CASE Inside  BY <1>3, <1>5 DEF Inside, Fails
<1>6. CASE \E k \in DOMAIN graph : Runs(k)  BY <1>3, <1>6 DEF Runs, Ready, Walking
<1>7. CASE \E k \in DOMAIN graph : Seeds(k)  BY <1>3, <1>7 DEF Seeds, Walking
<1>8. CASE Transfers \/ Mopped \/ SyncReturns  BY <1>2, <1>8 DEF Transfers, Mopped, SyncReturns
<1>9. CASE \E k \in DOMAIN graph : Unready(k) \/ Refused(k) \/ SeedFails(k)
  BY <1>2, <1>9 DEF Unready, Refused, SeedFails, Fails
<1>10. CASE UNCHANGED <<run, at, pc>>  BY <1>2, <1>10
<1> QED
  BY <1>4, <1>5, <1>6, <1>7, <1>8, <1>9, <1>10 DEF Next, Reclaim, DropCheckout, IntoInner, Device, Finish

LEMMA SentStep ==
  ASSUME Base, Real, Sent, Next
  PROVE  Sent'
<1>1. graph' = graph /\ graph \in Programs /\ TypeOK /\ Phases  BY SameGraph DEF Base, TypeOK
<1>2. \A l : (Enqueues(l)' <=> Enqueues(l)) /\ (Op(l).seeds)' = Op(l).seeds  BY <1>1 DEF Enqueues, Op, Leaf
<1>3. DOMAIN cells' = DOMAIN cells /\ \A b \in DOMAIN cells : cells'[b] = "new" => cells[b] = "new"  BY <1>1, NeverNew
<1>4. DOMAIN graph = 1..Final /\ Final \in Nat /\ at \in 1..Final  BY <1>1, FinalLeaf DEF TypeOK
<1>5. ASSUME NEW c \in pend
      PROVE  /\ run' = run => c.id[2] = run'
             /\ c.id[1] \in DOMAIN graph' /\ Enqueues(c.id[1])' /\ ~(Op(c.id[1]).seeds)'
             /\ run' = run /\ pc' = "walk" => c.id[1] < at'
             /\ \A b \in Touched(c) : b[1] \in 1..c.id[1] /\ (b \in DOMAIN cells' => cells'[b] # "new")
             /\ run' = run \/ pend = {}
  <2>1. /\ c.id[2] = run /\ c.id[1] \in 1..Final /\ Enqueues(c.id[1]) /\ ~Op(c.id[1]).seeds
        /\ pc = "walk" => c.id[1] < at
        /\ \A b \in Touched(c) : b[1] \in 1..c.id[1] /\ (b \in DOMAIN cells => cells[b] # "new")
    BY <1>4 DEF Sent
  <2>2. run' = run /\ pc' = "walk" => c.id[1] < at'
    <3>1. at' \in Nat
      <4>1. TypeOK'  BY <1>1, TypeStep
      <4>2. at' \in DOMAIN graph  BY <1>1, <4>1 DEF TypeOK
      <4> QED  BY <1>4, <4>2
    <3>2. run \in Nat  BY <1>1 DEF TypeOK
    <3>3. pc = "inside" => at = Final  BY <1>1 DEF Phases
    <3> QED  BY <1>1, <1>4, <2>1, <3>1, <3>2, <3>3, WalkStep
  <2>3. run' = run \/ pend = {}  BY <1>1, WalkStep
  <2> QED  BY <1>1, <1>2, <1>3, <1>4, <2>1, <2>2, <2>3
<1>6. CASE pend' = pend
  BY <1>1, <1>2, <1>5, <1>6 DEF Sent, Touched
<1>7. ASSUME NEW d \in pend, Finish(d) PROVE Sent'
  <2>1. pend' \subseteq pend  BY <1>7 DEF Finish
  <2> QED  BY <1>1, <1>2, <1>5, <2>1 DEF Sent, Touched
<1>8. ASSUME NEW k \in DOMAIN graph, Runs(k), Enqueues(k), pend' = pend \cup {Command(k)} PROVE Sent'
  <2>1. Ready(k) /\ ~Op(k).seeds /\ pc = "walk" /\ at = k /\ run' = run  BY <1>8 DEF Runs, Ready, Walking
  <2>2. Command(k).id = <<k, run>> /\ Command(k).id[1] = k /\ Command(k).id[2] = run  BY DEF Command
  <2>3. \A b \in Touched(Command(k)) : b[1] \in 1..k /\ (b \in DOMAIN cells => cells[b] # "new")
    BY <2>1, CommandShape
  <2>4. pc' = "walk" => k < at'
    <3>1. pc' = "walk" => at' = at + 1  BY <1>8 DEF Runs, Next1
    <3> QED  BY <1>4, <2>1, <3>1
  <2>5. \A d \in pend : d.id[1] < k /\ d.id # Command(k).id  BY <1>4, <2>1, <2>2 DEF Sent
  <2>6. PICK c : c = Command(k)  OBVIOUS
  <2>7. \A e, d \in pend' : e.id = d.id => e = d  BY <1>8, <2>5 DEF Sent
  <2>8. /\ c.id[2] = run' /\ c.id[1] \in DOMAIN graph' /\ Enqueues(c.id[1])' /\ ~(Op(c.id[1]).seeds)'
        /\ pc' = "walk" => c.id[1] < at'
        /\ \A b \in Touched(c) : b[1] \in 1..c.id[1] /\ (b \in DOMAIN cells' => cells'[b] # "new")
    BY <1>1, <1>2, <1>3, <1>8, <2>1, <2>2, <2>3, <2>4, <2>6
  <2>9. pend' = pend \cup {c}  BY <1>8, <2>6
  <2> HIDE DEF Command
  <2> QED  BY <1>1, <1>2, <1>5, <2>1, <2>7, <2>8, <2>9 DEF Sent, Touched
<1> QED  BY <1>6, <1>7, <1>8, PendStep

\* Followed of the next state.
WillFollow ==
  /\ \A c \in pend', x \in Pipes : pipes'[x].buf \in Touched(c) =>
       c.id[1] <= x[1] /\ c.id \in WillReach(pipes'[x].deps)
  /\ pc' = "inside" => \A c \in pend' : \A p \in DOMAIN inline'.outs :
       inline'.outs[p].buf \in Touched(c) => c.id \in WillReach({<<Final, run>>})

\* The commands that a leaf finds or sends are behind the events of what it deposits.
LEMMA DepositFollowed ==
  ASSUME Base, Real, Sent, Followed, NEW k \in DOMAIN graph, Runs(k), NEW p \in Outs(k),
         NEW c \in pend', Output(k, p).buf \in Touched(c)
  PROVE  c.id[1] <= k /\ c.id \in WillReach(IF Enqueues(k) THEN {<<k, run>>} ELSE OperandDeps(k))
<1> DEFINE j == Op(k).give[p]
<1>1. graph \in Programs /\ TypeOK /\ Ready(k) /\ pc = "walk" /\ at = k /\ k \in Nat
  BY LeafShape DEF Base, TypeOK, Runs, Ready, Walking
<1>2. j \in {Made, HostValue} \cup Args(k) /\ Made # HostValue  BY <1>1, LeafShape DEF Made, HostValue
<1>3. Command(k).id = <<k, run>> /\ Command(k).after = OperandDeps(k) \cap Pending  BY DEF Command
<1>4. \A d \in pend : d.id[1] < k /\ \A b \in Touched(d) : b[1] # 0  BY <1>1 DEF Sent
<1>5. \A b \in Touched(Command(k)) : b[1] # 0
  <2>1. \A b \in Touched(Command(k)) : b[1] \in 1..k  BY <1>1, CommandShape
  <2> QED  BY <2>1
<1>6. pend' = IF Enqueues(k) THEN pend \cup {Command(k)} ELSE pend  BY DEF Runs
<1>7. j # HostValue
  <2>1. j = HostValue => Output(k, p).buf = None  BY <1>1, OutputParts
  <2>2. \A b \in Touched(c) : b[1] # 0  BY <1>4, <1>5, <1>6
  <2> QED  BY <2>1, <2>2 DEF None
<1>8. j \in {Made} \cup Args(k) /\ Output(k, p).buf = Buf(k, j)  BY <1>1, <1>2, <1>7, OutputParts
<1> HIDE DEF j
<1>9. c \in pend => c.id[1] <= k /\ c.id \in Reach(OperandDeps(k))  BY <1>1, <1>8, OlderReached
<1>10. CASE ~Enqueues(k)
  <2>1. pend' = pend  BY <1>6, <1>10
  <2> QED  BY <1>9, <1>10, <2>1, ReachSame
<1>11. CASE Enqueues(k)
  <2>1. pend' = pend \cup {Command(k)} /\ Command(k).id \notin Pending
    <3>1. \A d \in pend : d.id # <<k, run>>  BY <1>1, <1>4
    <3> QED  BY <1>3, <1>6, <1>11, <3>1 DEF Pending
  <2>2. \A D : Command(k).id \in D => Reach(OperandDeps(k)) \subseteq WillReach(D) /\ Command(k).id \in WillReach(D)
    BY <1>3, <2>1, ReachGrows
  <2>3. Reach(OperandDeps(k)) \subseteq WillReach({<<k, run>>}) /\ Command(k).id \in WillReach({<<k, run>>})
    BY <1>3, <2>2
  <2>4. Command(k).id[1] = k  BY <1>3
  <2>5. CASE c \in pend  BY <1>9, <1>11, <2>3, <2>5
  <2>6. CASE c = Command(k)
    <3>1. c.id[1] <= k  BY <1>1, <2>4, <2>6
    <3> QED  BY <1>11, <2>3, <2>6, <3>1
  <2> QED  BY <2>1, <2>5, <2>6
<1> QED  BY <1>10, <1>11

\* A pipe that a leaf leaves alone does not hold what the leaf works on.
LEMMA OthersUntouched ==
  ASSUME Base, Real, NEW k \in DOMAIN graph, Ready(k), NEW x \in Pipes,
         PipesLess(k, Args(k))[x].buf \in Touched(Command(k))
  PROVE  FALSE
<1> DEFINE L1 == InHand(k, Args(k))
           b == PipesLess(k, Args(k))[x].buf
<1>1. TypeOK /\ Phases /\ graph \in Programs /\ Walking(k) /\ Born /\ Apart(Loads, cells, held)
      /\ \A i \in Args(k) : Resolvable(k, i)
  BY DEF Base, TypeOK, Custody, Ready
<1>2. Apart(L1, CellsLess(k, Args(k)), held)  BY <1>1, InHandApart
<1>3. L1[x].buf = b /\ x \in DOMAIN L1 /\ DOMAIN L1 = Places \cup Hands  BY <1>1, LessPipes DEF Places
<1>4. PICK j \in {Made} \cup Args(k) : b = Buf(k, j)  BY CommandShape
<1>5. <<-1, j>> \in Hands /\ Buf(k, j) = L1[<<-1, j>>].buf /\ Buf(k, j)[1] \in 1..k  BY CommandShape
<1>6. x # <<-1, j>>
  <2>1. x[1] \in Nat  BY <1>1, PlaceShape
  <2> QED  BY <2>1
<1>7. b[1] = 0
  <2> HIDE DEF L1, b
  <2> QED  BY <1>2, <1>3, <1>4, <1>5, <1>6 DEF Apart
<1> QED  BY <1>4, <1>5, <1>7

LEMMA RunsFollowed ==
  ASSUME Base, Real, Sent, Followed, NEW k \in DOMAIN graph, Runs(k)
  PROVE  WillFollow
<1> DEFINE outs == [p \in Outs(k) |-> Output(k, p)]
           ps == PipesLess(k, Args(k))
<1>1. graph \in Programs /\ TypeOK /\ Ready(k) /\ pc = "walk" /\ at = k /\ DOMAIN pipes = Pipes
  BY DEF Base, TypeOK, Runs, Ready, Walking
<1>2. pend' = IF Enqueues(k) THEN pend \cup {Command(k)} ELSE pend  BY DEF Runs
<1>3. DOMAIN outs = Outs(k) /\ \A p \in Outs(k) : outs[p] = Output(k, p)  OBVIOUS
<1>4. DOMAIN ps = Pipes /\ \A x \in Pipes : ps[x] \in {pipes[x], Nothing}  BY <1>1 DEF PipesLess
<1>5. \A D : Reach(D) \subseteq WillReach(D)
  <2>1. CASE Enqueues(k)
    <3>1. Command(k).id = <<k, run>> /\ Command(k).after = OperandDeps(k) \cap Pending  BY DEF Command
    <3>2. \A d \in pend : d.id # <<k, run>>  BY <1>1, LeafShape DEF Sent
    <3>3. pend' = pend \cup {Command(k)} /\ Command(k).id \notin Pending  BY <1>2, <2>1, <3>1, <3>2 DEF Pending
    <3> QED  BY <3>1, <3>3, ReachGrows
  <2>2. CASE ~Enqueues(k)  BY <1>2, <2>2, ReachSame
  <2> QED  BY <2>1, <2>2
<1>6. \A c \in pend : \A b \in Touched(c) : b[1] # 0  BY DEF Sent
<1>7. ASSUME NEW c \in pend', NEW x \in Pipes, pipes'[x] = ps[x], pipes'[x].buf \in Touched(c)
      PROVE  c.id[1] <= x[1] /\ c.id \in WillReach(pipes'[x].deps)
  <2>1. c \in pend
    <3>1. c # Command(k)  BY <1>1, <1>7, OthersUntouched
    <3> QED  BY <1>2, <3>1
  <2>2. pipes'[x] = pipes[x]  BY <1>4, <1>6, <1>7, <2>1 DEF Nothing
  <2> QED  BY <1>5, <1>7, <2>1, <2>2 DEF Followed
<1>8. CASE WaitsInside(k)
  <2>1. inline'.outs = outs /\ pipes' = ps /\ k = Final /\ Enqueues(k)  BY <1>8 DEF Runs, WaitsInside, Enqueues
  <2> HIDE DEF outs, ps
  <2> QED  BY <1>3, <1>7, <2>1, DepositFollowed DEF WillFollow
<1>9. CASE ~WaitsInside(k)
  <2>1. pipes' = Filled(ps, k, outs) /\ pc' # "inside"  BY <1>9 DEF Runs, Next1
  <2> HIDE DEF outs, ps
  <2>2. OutDeps(k) = IF Enqueues(k) THEN {<<k, run>>} ELSE OperandDeps(k)  BY <1>9 DEF OutDeps
  <2>3. ASSUME NEW c \in pend', NEW x \in Pipes, x[1] = k, x[2] \in Outs(k), pipes'[x].buf \in Touched(c)
        PROVE  c.id[1] <= x[1] /\ c.id \in WillReach(pipes'[x].deps)
    <3>1. pipes'[x] = Output(k, x[2])  BY <1>3, <1>4, <2>1, <2>3 DEF Filled
    <3>2. pipes'[x].deps = OutDeps(k)  BY <1>1, <3>1, OutputParts
    <3> QED  BY <2>2, <2>3, <3>1, <3>2, DepositFollowed
  <2>4. \A x \in Pipes : ~(x[1] = k /\ x[2] \in Outs(k)) => pipes'[x] = ps[x]
    BY <1>3, <1>4, <2>1 DEF Filled
  <2> QED  BY <1>7, <2>1, <2>3, <2>4 DEF WillFollow
<1> QED  BY <1>8, <1>9

LEMMA FollowedStep ==
  ASSUME Base, Real, Sent, Followed, Next
  PROVE  Followed'
<1>1. graph' = graph /\ graph \in Programs /\ TypeOK /\ Phases /\ Pipes' = Pipes /\ Final' = Final
      /\ DOMAIN pipes = Pipes
  BY SameGraph DEF Base, TypeOK, Pipes, Final
<1>2. \A c \in pend : c.id[1] \in Nat /\ \A b \in Touched(c) : b[1] # 0 /\ b[1] <= c.id[1]
  <2>1. DOMAIN graph = 1..Final /\ Final \in Nat  BY <1>1, FinalLeaf
  <2> QED  BY <2>1 DEF Sent
<1>3. ASSUME pend' \subseteq pend, NEW x \in Pipes, pipes'[x] \in {pipes[x], Nothing},
             \A c \in pend' : \A D : c.id \in Reach(D) => c.id \in WillReach(D)
      PROVE  \A c \in pend' : pipes'[x].buf \in Touched(c) =>
               c.id[1] <= x[1] /\ c.id \in WillReach(pipes'[x].deps)
  BY <1>2, <1>3 DEF Followed, Nothing
<1>4. ASSUME pend' \subseteq pend, pc = "inside", inline' = inline,
             \A c \in pend' : \A D : c.id \in Reach(D) => c.id \in WillReach(D)
      PROVE  \A c \in pend' : \A p \in DOMAIN inline'.outs :
               inline'.outs[p].buf \in Touched(c) => c.id \in WillReach({<<Final, run>>})
  BY <1>4 DEF Followed
<1>5. pend' = pend => \A c \in pend' : \A D : c.id \in Reach(D) => c.id \in WillReach(D)  BY ReachSame
<1>6. ASSUME NEW k \in DOMAIN graph, Seeds(k) PROVE WillFollow
  <2> DEFINE out == <<Output(k, 1)>>
  <2>1. pipes' = Filled(pipes, k, out) /\ pend' = pend /\ pc = "walk" /\ at = k /\ Op(k).seeds /\ pc' # "inside"
    BY <1>6 DEF Seeds, Walking, Next1
  <2>2. DOMAIN out = {1} /\ out[1] = Output(k, 1)  OBVIOUS
  <2>3. Output(k, 1).buf = <<k, 0>>
    <3>1. Op(k).give[1] = Made
      <4>1. Op(k).give = <<Made>>  BY <1>1, <2>1, LeafShape
      <4> QED  BY <4>1
    <3>2. Made # HostValue  BY DEF Made, HostValue
    <3>3. Output(k, 1).buf = IF Op(k).give[1] = HostValue THEN None ELSE Buf(k, Op(k).give[1])  BY <1>1, OutputParts
    <3> QED  BY <2>1, <3>1, <3>2, <3>3 DEF Buf
  <2> HIDE DEF out
  <2>4. \A x \in Pipes : pipes'[x] = pipes[x] \/ pipes'[x] = Output(k, 1)  BY <1>1, <2>1, <2>2 DEF Filled
  <2>5. \A c \in pend : Output(k, 1).buf \notin Touched(c)
    <3>1. \A c \in pend : c.id[1] < k  BY <2>1 DEF Sent
    <3>2. <<k, 0>>[1] = k /\ k \in Nat  BY <1>1, LeafShape
    <3> QED  BY <1>2, <2>3, <3>1, <3>2
  <2> QED  BY <1>3, <1>5, <2>1, <2>4, <2>5 DEF WillFollow
<1>7. ASSUME Inside PROVE WillFollow
  <2>1. pend' = pend /\ pc' # "inside" /\ <<Final, run>> \notin Pending /\ pc = "inside"
    BY <1>7 DEF Inside, Next1, Fails
  <2>2. Reach({<<Final, run>>}) = {}  BY <2>1, ReachNothing
  <2>3. \A c \in pend : \A p \in DOMAIN inline.outs : inline.outs[p].buf \notin Touched(c)
    BY <2>1, <2>2 DEF Followed
  <2>4. \A x \in Pipes : pipes'[x] = pipes[x] \/ \E p \in DOMAIN inline.outs : pipes'[x] = inline.outs[p]
    BY <1>1, <1>7 DEF Inside, Filled
  <2> QED  BY <1>3, <1>5, <2>1, <2>3, <2>4 DEF WillFollow
<1>8. ASSUME NEW d \in pend, Finish(d) PROVE WillFollow
  <2>1. pend' = pend \ {d} /\ d.after \cap Pending = {} /\ pipes' = pipes /\ inline' = inline /\ pc' = pc
    BY <1>8 DEF Finish
  <2>2. \A c \in pend : c.id = d.id => c = d  BY DEF Sent
  <2>3. \A D : Reach(D) \ {d.id} \subseteq WillReach(D)  BY <2>1, <2>2, ReachShrinks
  <2>4. \A c \in pend' : \A D : c.id \in Reach(D) => c.id \in WillReach(D)  BY <2>1, <2>2, <2>3
  <2> QED  BY <1>3, <1>4, <2>1, <2>4 DEF WillFollow
<1>9. ASSUME pend' = pend, \A x \in Pipes : pipes'[x] \in {pipes[x], Nothing},
             pc' = "inside" => pc = "inside" /\ inline' = inline
      PROVE  WillFollow
  BY <1>3, <1>4, <1>5, <1>9 DEF WillFollow
<1>10. ASSUME NEW k \in DOMAIN graph, Unready(k) \/ Refused(k) PROVE WillFollow
  <2>1. \A is : \A x \in Pipes : PipesLess(k, is)[x] \in {pipes[x], Nothing}  BY <1>1 DEF PipesLess
  <2>2. \A x \in Pipes : pipes'[x] \in {pipes[x], Nothing}  BY <1>10, <2>1 DEF Unready, Refused
  <2> QED  BY <1>9, <1>10, <2>2 DEF Unready, Refused, Fails
<1>11. ASSUME NEW z \in Undelivered, Reclaim(z) PROVE WillFollow
  BY <1>1, <1>9, <1>11 DEF Reclaim
<1>12. ASSUME SyncReturns PROVE WillFollow
  BY <1>1, <1>9, <1>12 DEF SyncReturns
<1>14. ASSUME UNCHANGED <<pend, pipes, inline>>, pc' = "inside" => pc = "inside" PROVE WillFollow
  BY <1>9, <1>14
<1>15. WillFollow
  <2>1. CASE \/ StartSync \/ Transfers \/ Mopped \/ (\E k \in DOMAIN graph : SeedFails(k))
             \/ (\E h \in held : DropCheckout(h)) \/ (\E h \in held : IntoInner(h))
    BY <1>14, <2>1 DEF StartSync, Transfers, Mopped, SeedFails, Fails, DropCheckout, IntoInner
  <2> QED  BY <1>6, <1>7, <1>8, <1>10, <1>11, <1>12, <2>1, RunsFollowed DEF Next, Device
<1>16. pc' = "inside" => run' = run
  BY <1>1, WalkStep DEF Next, StartSync, Inside, Transfers, Mopped, SyncReturns, Unready, Runs, Refused, Seeds,
    SeedFails, Reclaim, DropCheckout, IntoInner, Device, Finish
<1> QED  BY <1>1, <1>15, <1>16 DEF Followed, WillFollow, Touched, Reach, WillReach, Closed, WillClosed, Pending

\* What the proofs below know of the commands and of the buffers they work on.
Tracked == Base /\ Real /\ Sent /\ Followed

LEMMA TrackedInit == Init => Tracked
<1> SUFFICES ASSUME Init PROVE Tracked
  OBVIOUS
<1>1. pend = {} /\ pc = "idle"  BY DEF Init
<1>2. Sent /\ Followed  BY <1>1 DEF Sent, Followed
<1> QED  BY <1>2, BaseInit, RealInit DEF Tracked

LEMMA TrackedStep ==
  ASSUME Tracked, [Next]_vars
  PROVE  Tracked'
<1>1. CASE Next
  <2>1. Base'  BY <1>1, BaseStep DEF Tracked
  <2>2. Real'  BY <1>1, RealStep DEF Tracked
  <2>3. Sent'  BY <1>1, SentStep DEF Tracked
  <2>4. Followed'  BY <1>1, FollowedStep DEF Tracked
  <2> QED  BY <2>1, <2>2, <2>3, <2>4 DEF Tracked
<1>2. CASE UNCHANGED vars
  <2>1. Base'  BY <1>2, BaseStep DEF Tracked
  <2>2. Loads' = Loads /\ Places' = Places /\ Pipes' = Pipes /\ Final' = Final
    BY <1>2 DEF vars, Loads, Places, Pipes, Final
  <2>3. Real'  BY <1>2, <2>2 DEF vars, Tracked, Real, HostPlace, PosOf, Outs, Op, Leaf
  <2>4. Sent'  BY <1>2 DEF vars, Tracked, Sent, Enqueues, Op, Leaf, Touched
  <2>5. Followed'  BY <1>2, <2>2 DEF vars, Tracked, Followed, Reach, Closed, Pending, Touched
  <2> QED  BY <2>1, <2>3, <2>4, <2>5 DEF Tracked
<1> QED  BY <1>1, <1>2

-----------------------------------------------------------------------------
(* Wait lists.                                                             *)

LEMMA OrderedStep ==
  ASSUME Tracked, Ordered, [Next]_vars
  PROVE  Ordered'
<1>1. (\A D : Reach(D)' = WillReach(D)) /\ \A c, d \in pend : c.id = d.id => c = d
  BY DEF Reach, WillReach, Closed, WillClosed, Pending, Tracked, Sent
<1> DEFINE Waits(c, d) == c.id \in WillReach(d.after) \/ d.id \in WillReach(c.after)
<1>2. SUFFICES ASSUME NEW c \in pend', NEW d \in pend', c # d, Conflict(c, d)
               PROVE  Waits(c, d)
  BY DEF Ordered, Conflict, Before, Reach, WillReach, Closed, WillClosed, Pending
<1>3. ASSUME c \in pend, d \in pend PROVE c.id \in Reach(d.after) \/ d.id \in Reach(c.after)
  BY <1>2, <1>3 DEF Ordered, Before
<1>4. CASE pend' = pend
  BY <1>3, <1>4, ReachSame
<1>5. ASSUME NEW f \in pend, Finish(f) PROVE Waits(c, d)
  <2>1. pend' = pend \ {f} /\ f.after \cap Pending = {}  BY <1>5 DEF Finish
  <2>2. \A D : Reach(D) \ {f.id} \subseteq WillReach(D)  BY <1>1, <2>1, ReachShrinks
  <2>3. c.id # f.id /\ d.id # f.id  BY <1>1, <2>1
  <2> QED  BY <1>3, <2>1, <2>2, <2>3
<1>6. ASSUME NEW k \in DOMAIN graph, Runs(k), Enqueues(k), pend' = pend \cup {Command(k)} PROVE Waits(c, d)
  <2>1. graph \in Programs /\ Ready(k) /\ pc = "walk" /\ at = k  BY <1>6 DEF Tracked, Base, TypeOK, Runs, Ready, Walking
  <2>2. Command(k).id = <<k, run>> /\ Command(k).after = OperandDeps(k) \cap Pending  BY DEF Command
  <2>3. Command(k).id \notin Pending
    <3>1. \A e \in pend : e.id # <<k, run>>  BY <2>1, LeafShape DEF Tracked, Sent
    <3> QED  BY <2>2, <3>1 DEF Pending
  <2>4. \A D : Reach(D) \subseteq WillReach(D)  BY <1>6, <2>2, <2>3, ReachGrows
  <2>5. ASSUME NEW e \in pend, NEW b \in Touched(Command(k)), b \in Touched(e)
        PROVE  e.id \in WillReach(Command(k).after)
    <3>1. PICK j \in {Made} \cup Args(k) : b = Buf(k, j)  BY <2>1, CommandShape DEF Tracked
    <3>2. e.id \in Reach(OperandDeps(k))  BY <2>1, <2>5, <3>1, OlderReached DEF Tracked
    <3>3. Reach(OperandDeps(k)) \subseteq Reach(Command(k).after)  BY <2>2, ReachMonotone
    <3> QED  BY <2>4, <3>2, <3>3
  <2>6. \E b : b \in Touched(c) /\ b \in Touched(d)  BY <1>2 DEF Conflict, Touched
  <2>7. CASE c \in pend /\ d \in pend  BY <1>3, <2>4, <2>7
  <2>8. CASE c \in pend /\ d = Command(k)  BY <2>5, <2>6, <2>8
  <2>9. CASE c = Command(k) /\ d \in pend  BY <2>5, <2>6, <2>9
  <2> QED  BY <1>2, <1>6, <2>7, <2>8, <2>9
<1>7. CASE UNCHANGED vars  BY <1>4, <1>7 DEF vars
<1> QED  BY <1>4, <1>5, <1>6, <1>7, PendStep

\* Of two commands on the device that conflict on a buffer one waits for the other, in
\* every graph that the types of the code admit: the wait lists handed from leaf to leaf
\* lose no event.
THEOREM CommandsOrdered == Spec => []Ordered
<1>1. Init => Tracked /\ Ordered
  <2>1. Init => Ordered  BY DEF Init, Ordered
  <2> QED  BY <2>1, TrackedInit
<1>2. Tracked /\ Ordered /\ [Next]_vars => (Tracked /\ Ordered)'  BY TrackedStep, OrderedStep
<1> QED  BY <1>1, <1>2, PTL DEF Spec

-----------------------------------------------------------------------------
(* Memory that the caller lends to a command.                              *)

\* While a command uses memory of the caller, sync is under way and has it noted, or
\* waits for it inside execute.
Borrowed ==
  \A c \in pend : Op(c.id[1]).borrows =>
    /\ pc \notin {"idle", "unwind"}
    /\ c.id \in noted \/ (pc = "inside" /\ c.id = <<Final, run>>)

LEMMA BorrowedStep ==
  ASSUME Base, Borrowed, [Next]_vars
  PROVE  Borrowed'
<1>1. graph' = graph /\ Final' = Final  BY SameGraph DEF vars, Final
<1>2. SUFFICES ASSUME NEW c \in pend', Op(c.id[1]).borrows
               PROVE  /\ pc' \notin {"idle", "unwind"}
                      /\ c.id \in noted' \/ (pc' = "inside" /\ c.id = <<Final, run'>>)
  BY <1>1 DEF Borrowed, Op, Leaf
<1> DEFINE Kept == /\ pc' \notin {"idle", "unwind"}
                   /\ c.id \in noted' \/ (pc' = "inside" /\ c.id = <<Final, run'>>)
<1>3. c \in pend => c.id \in Pending /\ pc \notin {"idle", "unwind"}
                    /\ (c.id \in noted \/ (pc = "inside" /\ c.id = <<Final, run>>))
  BY <1>2 DEF Borrowed, Pending
<1>4. CASE StartSync  BY <1>3, <1>4 DEF StartSync
<1>5. CASE Inside
  <2>1. pend' = pend /\ noted' = noted /\ <<Final, run>> \notin Pending /\ pc' \in {"walk", "mopup", "failed"}
    BY <1>5 DEF Inside, Next1, Fails
  <2>2. c.id \in noted  BY <1>2, <1>3, <2>1
  <2> QED  BY <2>1, <2>2
<1>6. CASE Transfers  BY <1>3, <1>6 DEF Transfers
<1>7. CASE Mopped  BY <1>3, <1>7 DEF Mopped
<1>8. CASE SyncReturns
  <2>1. pc = "wait" /\ pend' = pend  BY <1>8 DEF SyncReturns
  <2> DEFINE all == {d.deps : d \in Checkouts} \cup {noted}
  <2>2. noted \in all /\ (UNION all) \cap Pending = {}  BY <1>8 DEF SyncReturns
  <2> HIDE DEF all
  <2>3. noted \cap Pending = {}  BY <2>2
  <2> QED  BY <1>3, <2>1, <2>3
<1>9. ASSUME NEW k \in DOMAIN graph, Runs(k) PROVE Kept
  <2>1. pc = "walk" /\ run' = run /\ pend' = IF Enqueues(k) THEN pend \cup {Command(k)} ELSE pend
    BY <1>9 DEF Runs, Ready, Walking
  <2>2. Command(k).id = <<k, run>> /\ Command(k).id[1] = k  BY DEF Command
  <2>3. CASE WaitsInside(k)
    <3>1. pc' = "inside" /\ noted' = noted /\ k = Final  BY <1>9, <2>3 DEF Runs, WaitsInside
    <3> QED  BY <1>3, <2>1, <2>2, <3>1
  <2>4. CASE ~WaitsInside(k)
    <3>1. noted' = Noted(k) /\ pc' \in {"walk", "mopup"}  BY <1>9, <2>4 DEF Runs, Next1
    <3>2. CASE c \in pend  BY <1>3, <2>1, <3>1, <3>2 DEF Noted
    <3>3. CASE c = Command(k)  BY <1>2, <2>2, <3>1, <3>3 DEF Noted
    <3> QED  BY <2>1, <3>2, <3>3
  <2> QED  BY <2>3, <2>4
<1>10. ASSUME NEW k \in DOMAIN graph, Unready(k) \/ Refused(k) \/ SeedFails(k) PROVE Kept
  BY <1>3, <1>10 DEF Unready, Refused, SeedFails, Walking, Ready, Fails
<1>11. ASSUME NEW k \in DOMAIN graph, Seeds(k) PROVE Kept
  BY <1>3, <1>11 DEF Seeds, Walking, Next1
<1>12. CASE UNCHANGED <<pc, run, noted>> /\ pend' \subseteq pend  BY <1>3, <1>12
<1> QED
  BY <1>4, <1>5, <1>6, <1>7, <1>8, <1>9, <1>10, <1>11, <1>12 DEF Next, Reclaim, DropCheckout, IntoInner, Device,
     Finish, vars

\* However sync ends, no command on the device uses memory that the caller lent to it.
THEOREM BorrowsEnd == Spec => []BorrowOver
<1>1. Init => Base /\ Borrowed
  <2>1. Init => Borrowed  BY DEF Init, Borrowed
  <2> QED  BY <2>1, BaseInit
<1>2. Base /\ Borrowed /\ [Next]_vars => (Base /\ Borrowed)'  BY BaseStep, BorrowedStep
<1>3. Base /\ Borrowed => BorrowOver  BY DEF Borrowed, BorrowOver
<1> QED  BY <1>1, <1>2, <1>3, PTL DEF Spec

-----------------------------------------------------------------------------
(* What a sync that returns has waited for.                                *)

OutPipes == {x \in Pipes : x[2] \in Outs(x[1])}

\* Between runs no output is left in a pipe, and the walk finds those of the leaves ahead
\* of it empty; when sync waits, only the outputs of the last leaf are left.
Clean ==
  /\ pc = "idle" => \A x \in OutPipes : pipes[x] = Nothing
  /\ pc \in {"walk", "inside", "failed", "unwind"} => \A x \in OutPipes : x[1] >= at => pipes[x] = Nothing
  /\ pc = "wait" => \A x \in OutPipes : x[1] # Final => pipes[x] = Nothing

LEMMA CleanInit == Init => Clean
<1> SUFFICES ASSUME Init, NEW x \in OutPipes PROVE pipes[x] = Nothing
  BY DEF Init, Clean
<1>1. x \in Pipes /\ x[2] \in {1, 2}
  <2>1. graph \in Programs  BY DEF Init
  <2> QED  BY <2>1, PlaceShape, OutPipe DEF OutPipes
<1> QED  BY <1>1, InitPipes

LEMMA SameOutPipes == ASSUME Next PROVE OutPipes' = OutPipes /\ Pipes' = Pipes /\ Final' = Final
BY SameGraph DEF OutPipes, Pipes, Outs, Op, Leaf, Final

\* When nothing is left to reclaim, nothing is left but what the caller gets.
LEMMA MoppedClean ==
  ASSUME TypeOK, DrainsAll(graph), Undelivered = {}, NEW x \in OutPipes, x[1] # Final
  PROVE  pipes[x] = Nothing
<1>1. x \in Pipes /\ x[1] \in DOMAIN graph /\ x[2] \in Outs(x[1]) /\ DOMAIN pipes = Pipes
  BY PlaceShape DEF OutPipes, TypeOK
<1>2. DOMAIN graph = 1..Final /\ Final \in Nat  BY FinalLeaf
<1>3. x[1] \in 1..(Len(graph) - 1)  BY <1>1, <1>2 DEF Final
<1>4. Op(x[1]).reclaims  BY <1>3 DEF DrainsAll, Op, Leaf
<1>5. x \notin Delivered  BY DEF Delivered
<1> QED  BY <1>1, <1>4, <1>5 DEF Undelivered

LEMMA CleanStep ==
  ASSUME Base, DrainsAll(graph), Clean, [Next]_vars
  PROVE  Clean'
<1>1. TypeOK /\ Phases /\ DOMAIN pipes = Pipes /\ OutPipes \subseteq Pipes  BY DEF Base, TypeOK, OutPipes
<1>2. DOMAIN graph = 1..Final /\ Final \in Nat /\ at \in 1..Final  BY <1>1, FinalLeaf DEF TypeOK
<1>3. \A x \in OutPipes : x[1] \in 1..Final  BY <1>1, <1>2, PlaceShape DEF TypeOK
<1>4. Clean' <=> /\ pc' = "idle" => \A x \in OutPipes : pipes'[x] = Nothing
                 /\ pc' \in {"walk", "inside", "failed", "unwind"} => \A x \in OutPipes : x[1] >= at' => pipes'[x] = Nothing
                 /\ pc' = "wait" => \A x \in OutPipes : x[1] # Final => pipes'[x] = Nothing
  BY SameOutPipes DEF Clean, vars, OutPipes, Pipes, Outs, Op, Leaf, Final
<1>5. ASSUME \A x \in OutPipes : pipes'[x] \in {pipes[x], Nothing}, UNCHANGED <<at, pc>> PROVE Clean'
  BY <1>4, <1>5 DEF Clean
<1>6. ASSUME \A x \in OutPipes : pipes'[x] \in {pipes[x], Nothing}, UNCHANGED at, pc \in {"walk", "inside", "failed"},
             pc' \in {"failed", "inside", "unwind"}
      PROVE  Clean'
  BY <1>4, <1>6 DEF Clean
<1>7. CASE StartSync
  BY <1>4, <1>7 DEF StartSync, Clean
<1>8. ASSUME Next1, pc = "walk", \A x \in OutPipes : x[1] # at => pipes'[x] \in {pipes[x], Nothing}
      PROVE  Clean'
  <2>1. pc' = "mopup" \/ (pc' = "walk" /\ at' = at + 1)  BY <1>8 DEF Next1
  <2>2. ASSUME at' = at + 1, NEW x \in OutPipes, x[1] >= at' PROVE pipes'[x] = Nothing
    <3>1. x[1] # at /\ x[1] >= at  BY <1>2, <1>3, <2>2
    <3> QED  BY <1>8, <2>2, <3>1 DEF Clean
  <2> QED  BY <1>4, <2>1, <2>2
<1>9. ASSUME NEW k \in DOMAIN graph, Runs(k) PROVE Clean'
  <2>1. pc = "walk" /\ at = k  BY <1>9 DEF Runs, Ready, Walking
  <2>2. CASE WaitsInside(k)
    <3>1. \A x \in OutPipes : pipes'[x] \in {pipes[x], Nothing}
      BY <1>1, <1>9, <2>2 DEF Runs, PipesLess
    <3> QED  BY <1>6, <1>9, <2>1, <2>2, <3>1 DEF Runs
  <2>3. CASE ~WaitsInside(k)
    <3>1. Next /\ Next1  BY <1>9, <2>3 DEF Next, Runs
    <3>2. \A x \in OutPipes : x[1] # at => pipes'[x] \in {pipes[x], Nothing}  BY <1>1, <3>1, PipeStep
    <3> QED  BY <1>8, <2>1, <3>1, <3>2
  <2> QED  BY <2>2, <2>3
<1>10. ASSUME NEW k \in DOMAIN graph, Seeds(k) PROVE Clean'
  <2>1. Next /\ Next1 /\ pc = "walk"  BY <1>10 DEF Next, Seeds, Walking
  <2>2. \A x \in OutPipes : x[1] # at => pipes'[x] \in {pipes[x], Nothing}  BY <1>1, <2>1, PipeStep
  <2> QED  BY <1>8, <2>1, <2>2
<1>11. CASE Inside
  <2>1. pc = "inside" /\ at = Final /\ (pc' = "mopup" \/ (pc' = "failed" /\ UNCHANGED <<at, pipes>>))
    BY <1>1, <1>11 DEF Inside, Next1, Fails, Phases
  <2> QED  BY <1>4, <1>6, <2>1
<1>12. ASSUME NEW k \in DOMAIN graph, Unready(k) \/ Refused(k) \/ SeedFails(k) PROVE Clean'
  <2>1. \A is : \A x \in OutPipes : PipesLess(k, is)[x] \in {pipes[x], Nothing}  BY <1>1 DEF PipesLess
  <2>2. \A x \in OutPipes : pipes'[x] \in {pipes[x], Nothing}  BY <1>12, <2>1 DEF Unready, Refused, SeedFails
  <2> QED  BY <1>6, <1>12, <2>2 DEF Unready, Refused, SeedFails, Walking, Ready, Fails
<1>13. CASE Transfers
  BY <1>6, <1>13 DEF Transfers
<1>14. CASE Mopped
  <2>1. \A x \in OutPipes : x[1] # Final => pipes[x] = Nothing  BY <1>1, <1>14, MoppedClean DEF Mopped
  <2>2. pipes' = pipes /\ \/ pc = "unwind" /\ pc' = "idle"
                          \/ pc' = "wait"
    BY <1>14 DEF Mopped
  <2>3. pc = "unwind" => \A x \in OutPipes : x[1] = Final => pipes[x] = Nothing  BY <1>2 DEF Clean
  <2> QED  BY <1>4, <2>1, <2>2, <2>3
<1>15. CASE SyncReturns
  <2>1. pc = "wait" /\ pc' = "idle" /\ pipes' = [p \in DOMAIN pipes |-> IF p \in Delivered THEN Nothing ELSE pipes[p]]
    BY <1>15 DEF SyncReturns
  <2>2. \A x \in OutPipes : x[1] = Final => x \in Delivered
    <3>1. \A x \in OutPipes : x = <<x[1], x[2]>> /\ x[2] \in Outs(x[1])  BY <1>1, PlaceShape DEF OutPipes, TypeOK
    <3> QED  BY <2>1, <3>1 DEF Delivered
  <2> QED  BY <1>1, <1>4, <2>1, <2>2 DEF Clean
<1>16. ASSUME NEW z \in Undelivered, Reclaim(z) PROVE Clean'
  BY <1>1, <1>5, <1>16 DEF Reclaim
<1>17. CASE UNCHANGED <<at, pc, pipes>>
  BY <1>5, <1>17
<1> QED
  BY <1>7, <1>9, <1>10, <1>11, <1>12, <1>13, <1>14, <1>15, <1>16, <1>17 DEF Next, DropCheckout, IntoInner, Device,
     Finish, vars

\* The events that the terminal still knows of.
AllDeps == (UNION {pipes[x].deps : x \in Pipes}) \cup noted \cup (IF pc = "inside" THEN {<<Final, run>>} ELSE {})

\* They cover every command on the device.
Coverage == pc \in {"walk", "inside", "mopup", "wait"} => Pending \subseteq Reach(AllDeps)
WillAllDeps ==
  (UNION {pipes'[x].deps : x \in Pipes}) \cup noted' \cup (IF pc' = "inside" THEN {<<Final, run'>>} ELSE {})

LEMMA RunsCovered ==
  ASSUME Tracked, Clean, Coverage, NEW k \in DOMAIN graph, Runs(k)
  PROVE  Pending' \subseteq WillReach(WillAllDeps)
<1> DEFINE outs == [p \in Outs(k) |-> Output(k, p)]
           ps == PipesLess(k, Args(k))
<1>1. graph \in Programs /\ TypeOK /\ Ready(k) /\ pc = "walk" /\ at = k /\ run' = run /\ DOMAIN pipes = Pipes
      /\ k \in Nat
  BY LeafShape DEF Tracked, Base, TypeOK, Runs, Ready, Walking
<1>2. Command(k).id = <<k, run>> /\ Command(k).after = OperandDeps(k) \cap Pending  BY DEF Command
<1>3. pend' = IF Enqueues(k) THEN pend \cup {Command(k)} ELSE pend  BY DEF Runs
<1>4. Command(k).id \notin Pending
  <2>1. \A e \in pend : e.id # <<k, run>>  BY <1>1 DEF Tracked, Sent
  <2> QED  BY <1>2, <2>1 DEF Pending
<1>5. DOMAIN outs = Outs(k) /\ \A p \in Outs(k) : outs[p] = Output(k, p)  OBVIOUS
<1>6. 1 \in Outs(k) /\ <<k, 1>> \in Pipes
  <2>1. Outs(k) \in {{1}, {1, 2}}  BY <1>1, LeafShape
  <2> QED  BY <1>1, <2>1, OutPipe
<1>7. Nothing.deps = {}  BY DEF Nothing
\* The events of the operands are among those of what the leaf deposits.
<1>8. (IF Enqueues(k) THEN {<<k, run>>} ELSE OperandDeps(k)) \subseteq WillAllDeps
  <2>1. CASE WaitsInside(k)
    <3>1. pc' = "inside" /\ k = Final /\ Enqueues(k)  BY <2>1 DEF Runs, WaitsInside, Enqueues
    <3> QED  BY <1>1, <3>1 DEF WillAllDeps
  <2>2. CASE ~WaitsInside(k)
    <3>1. pipes' = Filled(ps, k, outs) /\ DOMAIN ps = Pipes  BY <1>1, <2>2 DEF Runs, PipesLess
    <3> HIDE DEF outs, ps
    <3>2. pipes'[<<k, 1>>] = Output(k, 1)  BY <1>5, <1>6, <3>1 DEF Filled
    <3>3. pipes'[<<k, 1>>].deps = OutDeps(k)  BY <1>1, <3>2, OutputParts
    <3>4. OutDeps(k) = IF Enqueues(k) THEN {<<k, run>>} ELSE OperandDeps(k)  BY <2>2 DEF OutDeps
    <3>5. pipes'[<<k, 1>>].deps \subseteq UNION {pipes'[x].deps : x \in Pipes}  BY <1>6
    <3> QED  BY <3>3, <3>4, <3>5 DEF WillAllDeps
  <2> QED  BY <2>1, <2>2
\* The rest stays.
<1>9. ASSUME NEW i \in AllDeps PROVE i \in OperandDeps(k) \/ i \in WillAllDeps
  <2>1. CASE i \in noted
    <3>1. noted \subseteq noted'  BY DEF Runs, Noted
    <3> QED  BY <2>1, <3>1 DEF WillAllDeps
  <2>2. CASE i \in UNION {pipes[x].deps : x \in Pipes}
    <3>1. PICK x \in Pipes : i \in pipes[x].deps  BY <2>2
    <3>2. CASE \E a \in Args(k) : ~OwnCell(k, a) /\ x = PipeOf(k, a)
      <4>1. PICK a \in Args(k) : ~OwnCell(k, a) /\ x = PipeOf(k, a)  BY <3>2
      <4>2. i \in Operand(k, a).deps  BY <3>1, <4>1 DEF Operand
      <4> QED  BY <4>2 DEF OperandDeps
    <3>3. CASE ~\E a \in Args(k) : ~OwnCell(k, a) /\ x = PipeOf(k, a)
      <4>1. ps[x] = pipes[x] /\ DOMAIN ps = Pipes  BY <1>1, <3>3 DEF PipesLess
      <4>2. ~(x[1] = k /\ x[2] \in Outs(k))
        <5>1. x[1] = k /\ x[2] \in Outs(k) => pipes[x] = Nothing  BY <1>1 DEF Clean, OutPipes
        <5> QED  BY <1>7, <3>1, <5>1
      <4>3. pipes' = ps \/ pipes' = Filled(ps, k, outs)  BY DEF Runs
      <4> HIDE DEF outs, ps
      <4>4. pipes'[x] = pipes[x]  BY <1>5, <4>1, <4>2, <4>3 DEF Filled
      <4>5. i \in UNION {pipes'[y].deps : y \in Pipes}  BY <3>1, <4>4
      <4> QED  BY <4>5 DEF WillAllDeps
    <3> QED  BY <3>2, <3>3
  <2> QED  BY <1>1, <2>1, <2>2 DEF AllDeps
<1> HIDE DEF outs, ps
<1>10. Pending \subseteq Reach(AllDeps)  BY <1>1 DEF Coverage
<1>11. OperandDeps(k) \cap Pending \subseteq Reach(OperandDeps(k))  BY ReachSelf
<1>12. CASE Enqueues(k)
  <2>1. pend' = pend \cup {Command(k)}  BY <1>3, <1>12
  <2>2. /\ Pending' = Pending \cup {<<k, run>>}
        /\ \A D : Reach(D) \subseteq WillReach(D)
        /\ \A D : <<k, run>> \in D => Reach(OperandDeps(k)) \subseteq WillReach(D) /\ <<k, run>> \in WillReach(D)
    BY <1>2, <1>4, <2>1, ReachGrows
  <2>3. Reach(OperandDeps(k)) \subseteq WillReach(WillAllDeps) /\ <<k, run>> \in WillReach(WillAllDeps)
    BY <1>8, <1>12, <2>2
  <2>4. WillAllDeps \cap Pending' \subseteq WillReach(WillAllDeps)  BY WillReachSelf
  <2>5. AllDeps \cap Pending' \subseteq WillReach(WillAllDeps)  BY <1>9, <1>11, <2>2, <2>3, <2>4
  <2>6. WillReach(AllDeps) \subseteq WillReach(WillAllDeps)  BY <2>5, WillReachWithin
  <2> QED  BY <1>10, <2>2, <2>3, <2>6
<1>13. CASE ~Enqueues(k)
  <2>1. Pending' = Pending /\ \A D : Reach(D) = WillReach(D)  BY <1>3, <1>13, ReachSame
  <2>2. AllDeps \subseteq WillAllDeps  BY <1>8, <1>9, <1>13
  <2>3. WillReach(AllDeps) \subseteq WillReach(WillAllDeps)  BY <2>2, WillReachMonotone
  <2> QED  BY <1>10, <2>1, <2>3
<1> QED  BY <1>12, <1>13

LEMMA CoverageStep ==
  ASSUME Tracked, Clean, Coverage, [Next]_vars
  PROVE  Coverage'
<1>1. TypeOK /\ Phases /\ graph \in Programs /\ DOMAIN pipes = Pipes  BY DEF Tracked, Base, TypeOK
<1>2. SUFFICES ASSUME pc' \in {"walk", "inside", "mopup", "wait"} PROVE Pending' \subseteq WillReach(WillAllDeps)
  BY SameOutPipes
  DEF Coverage, WillReach, Reach, WillClosed, Closed, Pending, AllDeps, WillAllDeps, vars, Pipes, Final
<1>3. ASSUME pend' = pend, Pending \subseteq Reach(AllDeps), AllDeps \cap Pending \subseteq WillAllDeps
      PROVE  Pending' \subseteq WillReach(WillAllDeps)
  <2>1. Pending' = Pending /\ \A D : Reach(D) = WillReach(D)  BY <1>3, ReachSame
  <2>2. WillReach(AllDeps) \subseteq WillReach(WillAllDeps)  BY <1>3, <2>1, WillReachMonotone
  <2> QED  BY <1>3, <2>1, <2>2
<1>4. ASSUME \A x \in Pipes : \/ pipes[x].deps \subseteq pipes'[x].deps
                              \/ pipes[x].deps \cap Pending = {},
             noted \subseteq noted', run' = run, pc' = "inside" <=> pc = "inside"
      PROVE  AllDeps \cap Pending \subseteq WillAllDeps
  <2> SUFFICES ASSUME NEW i \in AllDeps, i \in Pending PROVE i \in WillAllDeps
    OBVIOUS
  <2>1. CASE i \in UNION {pipes[x].deps : x \in Pipes}
    <3>1. PICK x \in Pipes : i \in pipes[x].deps  BY <2>1
    <3>2. i \in pipes'[x].deps  BY <1>4, <3>1
    <3>3. i \in UNION {pipes'[y].deps : y \in Pipes}  BY <3>2
    <3> QED  BY <3>3 DEF WillAllDeps
  <2>2. CASE i \in noted  BY <1>4, <2>2 DEF WillAllDeps
  <2>3. CASE pc = "inside" /\ i = <<Final, run>>  BY <1>4, <2>3 DEF WillAllDeps
  <2> QED  BY <2>1, <2>2, <2>3 DEF AllDeps
<1>5. CASE StartSync
  <2>1. Pending' = {}  BY <1>5 DEF StartSync, Pending
  <2> QED  BY <2>1
<1>6. CASE Inside
  <2>1. pc = "inside" /\ pend' = pend /\ noted' = noted /\ run' = run /\ <<Final, run>> \notin Pending
        /\ pipes' = Filled(pipes, Final, inline.outs) /\ at = Final /\ DOMAIN inline.outs = Outs(Final)
    BY <1>1, <1>2, <1>6 DEF Inside, Fails, Phases
  <2>2. ASSUME NEW x \in Pipes PROVE pipes[x].deps \subseteq pipes'[x].deps
    <3>1. CASE x[1] = Final /\ x[2] \in Outs(Final)
      <4>1. pipes[x] = Nothing
        <5>1. x \in OutPipes  BY <3>1 DEF OutPipes
        <5>2. x[1] >= at  BY <1>1, <2>1, <3>1, FinalLeaf
        <5> QED  BY <2>1, <5>1, <5>2 DEF Clean
      <4> QED  BY <4>1 DEF Nothing
    <3>2. CASE ~(x[1] = Final /\ x[2] \in Outs(Final))
      <4>1. pipes'[x] = pipes[x]  BY <1>1, <2>1, <3>2 DEF Filled
      <4> QED  BY <4>1
    <3> QED  BY <3>1, <3>2
  <2>3. AllDeps \cap Pending \subseteq WillAllDeps
    <3> SUFFICES ASSUME NEW i \in AllDeps, i \in Pending PROVE i \in WillAllDeps
      OBVIOUS
    <3>1. CASE i \in UNION {pipes[x].deps : x \in Pipes}
      <4>1. PICK x \in Pipes : i \in pipes[x].deps  BY <3>1
      <4>2. i \in pipes'[x].deps  BY <2>2, <4>1
      <4>3. i \in UNION {pipes'[y].deps : y \in Pipes}  BY <4>2
      <4> QED  BY <4>3 DEF WillAllDeps
    <3>2. CASE i \in noted  BY <2>1, <3>2 DEF WillAllDeps
    <3> QED  BY <2>1, <3>1, <3>2 DEF AllDeps
  <2> QED  BY <1>3, <2>1, <2>3 DEF Coverage
<1>7. ASSUME NEW k \in DOMAIN graph, Seeds(k) PROVE Pending' \subseteq WillReach(WillAllDeps)
  <2> DEFINE out == <<Output(k, 1)>>
  <2>1. pc = "walk" /\ at = k /\ pend' = pend /\ noted' = noted /\ run' = run /\ pipes' = Filled(pipes, k, out)
        /\ Op(k).seeds /\ pc' # "inside"
    BY <1>7 DEF Seeds, Walking, Next1
  <2>2. DOMAIN out = {1}  OBVIOUS
  <2> HIDE DEF out
  <2>3. ASSUME NEW x \in Pipes PROVE pipes[x].deps \subseteq pipes'[x].deps
    <3>1. CASE x[1] = k /\ x[2] = 1
      <4>1. x \in OutPipes
        <5>1. Outs(k) = {1}  BY <1>1, <2>1, LeafShape
        <5> QED  BY <3>1, <5>1 DEF OutPipes
      <4>2. x[1] >= at  BY <1>1, <2>1, <3>1, LeafShape
      <4>3. pipes[x] = Nothing  BY <2>1, <4>1, <4>2 DEF Clean
      <4> QED  BY <4>3 DEF Nothing
    <3>2. CASE ~(x[1] = k /\ x[2] = 1)
      <4>1. pipes'[x] = pipes[x]  BY <1>1, <2>1, <2>2, <3>2 DEF Filled
      <4> QED  BY <4>1
    <3> QED  BY <3>1, <3>2
  <2> QED  BY <1>3, <1>4, <2>1, <2>3 DEF Coverage
<1>8. ASSUME NEW z \in Undelivered, Reclaim(z) PROVE Pending' \subseteq WillReach(WillAllDeps)
  <2>1. pend' = pend /\ noted' = noted /\ run' = run /\ pc' = pc /\ pipes[z].deps \cap Pending = {}
        /\ pipes' = [pipes EXCEPT ![z] = Nothing]
    BY <1>8 DEF Reclaim
  <2>2. \A x \in Pipes : pipes[x].deps \subseteq pipes'[x].deps \/ pipes[x].deps \cap Pending = {}
    BY <1>1, <2>1
  <2> QED  BY <1>2, <1>3, <1>4, <2>1, <2>2 DEF Coverage
<1>9. ASSUME UNCHANGED <<pend, noted, run, pipes>>, pc' = "inside" <=> pc = "inside",
             pc \in {"walk", "inside", "mopup", "wait"}
      PROVE  Pending' \subseteq WillReach(WillAllDeps)
  BY <1>3, <1>4, <1>9 DEF Coverage
<1>10. ASSUME NEW d \in pend, Finish(d) PROVE Pending' \subseteq WillReach(WillAllDeps)
  <2>1. pend' = pend \ {d} /\ d.after \cap Pending = {} /\ pipes' = pipes /\ noted' = noted /\ pc' = pc /\ run' = run
        /\ graph' = graph
    BY <1>10 DEF Finish
  <2>2. \A c \in pend : c.id = d.id => c = d  BY DEF Tracked, Sent
  <2>3. Pending' = Pending \ {d.id} /\ Reach(AllDeps) \ {d.id} \subseteq WillReach(AllDeps)  BY <2>1, <2>2, ReachShrinks
  <2>4. AllDeps = WillAllDeps  BY <2>1 DEF AllDeps, WillAllDeps
  <2> QED  BY <1>2, <2>1, <2>3, <2>4 DEF Coverage
<1>11. CASE Mopped
  BY <1>2, <1>9, <1>11 DEF Mopped
<1>12. CASE UNCHANGED <<pend, noted, run, pipes, pc>>
  BY <1>2, <1>9, <1>12
<1>13. ~Transfers /\ ~SyncReturns /\ \A k \in DOMAIN graph : ~Unready(k) /\ ~Refused(k) /\ ~SeedFails(k)
  BY <1>2 DEF Transfers, SyncReturns, Unready, Refused, SeedFails, Fails
<1> QED
  BY <1>5, <1>6, <1>7, <1>8, <1>10, <1>11, <1>12, <1>13, RunsCovered DEF Next, DropCheckout, IntoInner, Device, vars

LEMMA SyncCoversStep ==
  ASSUME Tracked, Clean, Coverage, [Next]_vars, pc = "wait", pc' = "idle"
  PROVE  pend = {}
<1>1. TypeOK /\ graph \in Programs  BY DEF Tracked, Base, TypeOK
<1>2. SyncReturns
  <2>1. \A z \in Undelivered : ~Reclaim(z)  BY DEF Reclaim
  <2> QED  BY <2>1 DEF Next, StartSync, Inside, Transfers, Mopped, Unready, Runs, Refused, Seeds, SeedFails, Ready, Walking,
    DropCheckout, IntoInner, Device, Finish, vars
<1> DEFINE all == {c.deps : c \in Checkouts} \cup {noted}
<1>3. (UNION all) \cap Pending = {}  BY <1>2 DEF SyncReturns
<1>4. ASSUME NEW x \in Pipes, NEW i \in pipes[x].deps PROVE i \in UNION all
  <2>1. x[2] \in Outs(x[1])
    <3>1. x[2] \notin Outs(x[1]) => pipes[x] \in {Nothing, Lent(x)}  BY DEF Tracked, Base, Inlets
    <3> QED  BY <1>4, <3>1 DEF Lent, Nothing
  <2>2. x[1] = Final
    <3>1. x[1] # Final => pipes[x] = Nothing  BY <2>1 DEF Clean, OutPipes
    <3> QED  BY <1>4, <3>1 DEF Nothing
  <2>3. x = <<Final, x[2]>>  BY <1>1, <2>2, PlaceShape
  <2>4. x \in Delivered  BY <2>1, <2>2, <2>3 DEF Delivered
  <2>5. pipes[x] \in Checkouts  BY <2>4 DEF Checkouts
  <2> QED  BY <1>4, <2>5
<1>5. noted \in all  OBVIOUS
<1> HIDE DEF all
<1>6. AllDeps \cap Pending = {}
  <2> SUFFICES ASSUME NEW i \in AllDeps, i \in Pending PROVE FALSE
    OBVIOUS
  <2>1. i \in UNION all
    <3>1. CASE i \in noted  BY <1>5, <3>1
    <3>2. CASE i \in UNION {pipes[x].deps : x \in Pipes}  BY <1>4, <3>2
    <3> QED  BY <3>1, <3>2 DEF AllDeps
  <2> QED  BY <1>3, <2>1
<1>7. Pending = {}
  <2>1. Reach(AllDeps) = {}  BY <1>6, ReachNothing
  <2> QED  BY <2>1 DEF Coverage
<1> QED  BY <1>7, PendingMember

\* A sync that returns has waited for every command of its run, in every graph all of
\* whose leaves but the last reclaim the outputs that nothing takes.
THEOREM SyncWaitsForAll == (\A g \in Programs : DrainsAll(g)) => (Spec => SyncCovers)
<1> SUFFICES ASSUME \A g \in Programs : DrainsAll(g) PROVE Spec => SyncCovers
  OBVIOUS
<1>1. Init => Tracked /\ Clean /\ Coverage
  <2>1. Init => Coverage  BY DEF Init, Coverage
  <2> QED  BY <2>1, TrackedInit, CleanInit
<1>2. Tracked => Base /\ DrainsAll(graph)  BY DEF Tracked, Base, TypeOK
<1>3. Tracked /\ Clean /\ Coverage /\ [Next]_vars => (Tracked /\ Clean /\ Coverage)'
  BY <1>2, TrackedStep, CleanStep, CoverageStep
<1>4. Tracked /\ Clean /\ Coverage /\ [Next]_vars => [pc = "wait" /\ pc' = "idle" => \A c \in pend : c.id[2] # run]_vars
  BY SyncCoversStep
<1> QED  BY <1>1, <1>3, <1>4, PTL DEF Spec, SyncCovers

-----------------------------------------------------------------------------
(* Seeds.                                                                  *)

\* The outputs through which those buffers may go (SeedKept).
SafeOuts(g) == CHOOSE RO : SeedKept(g, RO)

Once(k) == Op(k).seeds /\ ~Reseeds(Leaf(k).mark)
SeedInv ==
  /\ \A k \in DOMAIN graph : Op(k).seeds =>
       (pipes[<<k, 1>>].buf = <<k, 0>> \/ cells[<<k, 0>>] = "new" => <<k, 0>> \notin dirty)
  /\ \A k \in DOMAIN graph : Once(k) =>
       /\ <<k, 0>> \notin dirty /\ \A c \in pend : <<k, 0>> \notin c.writes
       /\ \A x \in Places : Loads[x].buf = <<k, 0>> => <<PosOf(x), x[2]>> \in SafeOuts(graph)

LEMMA ROShape ==
  ASSUME SeedSafe(graph), NEW k \in DOMAIN graph
  PROVE  /\ Once(k) => <<k, 1>> \in SafeOuts(graph)
         /\ \A i \in Args(k) : From(k, i) = "pipe" /\ PipeOf(k, i) \in SafeOuts(graph) =>
              i \notin Op(k).writes /\ \A p \in Outs(k) : Op(k).give[p] = i => <<k, p>> \in SafeOuts(graph)
<1>1. SeedKept(graph, SafeOuts(graph))  BY DEF SeedSafe, SafeOuts
<1> QED  BY <1>1 DEF SeedKept, Once, Op, Leaf, Args, Outs, From, PipeOf

LEMMA SeedInit == ASSUME Init PROVE SeedInv
<1>1. TypeOK /\ graph \in Programs /\ dirty = {} /\ pend = {} /\ DOMAIN inline.outs = {}
  BY TypeInit, OutsideEmpty DEF Init
<1>2. ASSUME NEW k \in DOMAIN graph, NEW x \in Places PROVE Loads[x].buf # <<k, 0>>
  <2>1. k \in Nat \ {0}  BY <1>1, LeafShape
  <2>2. CASE Loads[x] = Nothing  BY <2>1, <2>2 DEF Nothing
  <2>3. CASE Loads[x] # Nothing
    <3>1. x \in Pipes /\ pipes[x] = Loads[x]  BY <1>1, <2>3, PlaceShape DEF Loads
    <3>2. Loads[x] = Lent(x) /\ x[2] \in {3, 4}  BY <2>3, <3>1, InitPipes
    <3>3. Loads[x].buf[2] # 0  BY <3>2 DEF Lent
    <3> QED  BY <3>3
  <2> QED  BY <2>2, <2>3
<1> QED  BY <1>1, <1>2 DEF SeedInv

\* A buffer that a leaf keeps comes to another leaf through a pipe only.
LEMMA KeptOperand ==
  ASSUME Base, Real, NEW l \in DOMAIN graph, Ready(l), NEW j \in {Made} \cup Args(l), NEW k \in DOMAIN graph,
         Op(k).seeds, Buf(l, j) = <<k, 0>>
  PROVE  /\ j \in Args(l) /\ From(l, j) = "pipe" /\ PipeOf(l, j) \in Pipes
         /\ PosOf(PipeOf(l, j)) = PipeOf(l, j)[1]
         /\ PipeOf(l, j) = <<PipeOf(l, j)[1], PipeOf(l, j)[2]>>
         /\ Loads[PipeOf(l, j)].buf = <<k, 0>>
<1>1. graph \in Programs /\ TypeOK /\ Walking(l) /\ ~Op(l).seeds /\ Born /\ Apart(Loads, cells, held)
      /\ \A i \in Args(l) : Resolvable(l, i)
  BY DEF Base, TypeOK, Custody, Ready
<1>2. <<k, 0>> \in DOMAIN cells  BY <1>1, SeedCell DEF TypeOK
<1>3. j \in Args(l) /\ j # Made
  <2>1. Minted(l) \notin DOMAIN cells  BY <1>1, MintedNew
  <2>2. j = Made => Buf(l, j) = Minted(l)  BY <1>1 DEF Buf
  <2> QED  BY <1>2, <2>1, <2>2
<1>4. Operand(l, j).buf = <<k, 0>>  BY <1>3 DEF Buf
<1>5. j \in {1, 2}  BY <1>1, <1>3, FromShape
<1>6. ~OwnCell(l, j)
  <2>1. OwnCell(l, j) => Operand(l, j).buf[2] = j  BY DEF Operand
  <2> QED  BY <1>4, <1>5, <2>1
<1>7. PipeOf(l, j) \in Pipes /\ Operand(l, j) = Loads[PipeOf(l, j)] /\ pipes[PipeOf(l, j)] # Nothing
      /\ pipes[PipeOf(l, j)] = Loads[PipeOf(l, j)]
  BY <1>1, <1>3, <1>6, PipePlace, PlaceShape DEF Resolvable
<1>8. From(l, j) # "lent"
  <2> SUFFICES ASSUME From(l, j) = "lent" PROVE FALSE
    OBVIOUS
  <2>1. PipeOf(l, j)[1] = l /\ PipeOf(l, j)[2] = 2 + j  BY <1>1, <1>3, InletShape
  <2>2. Outs(l) \in {{1}, {1, 2}}  BY <1>1, LeafShape
  <2> DEFINE x == PipeOf(l, j)
  <2>3. x[2] \notin Outs(x[1]) /\ x[2] - 2 = j  BY <1>5, <2>1, <2>2
  <2> HIDE DEF x
  <2>4. pipes[x] = Lent(x)  BY <1>7, <2>3 DEF x, Base, Inlets
  <2>5. pipes[x].buf[2] = j  BY <2>3, <2>4 DEF Lent
  <2> QED  BY <1>4, <1>5, <1>7, <2>5 DEF x
<1>9. From(l, j) = "pipe"  BY <1>1, <1>3, <1>6, <1>8, FromShape
<1> QED  BY <1>1, <1>3, <1>4, <1>7, <1>9, PlaceShape DEF PosOf

LEMMA SeedStep ==
  ASSUME Tracked, SeedSafe(graph), SeedInv, [Next]_vars
  PROVE  SeedInv'
<1>1. TypeOK /\ Phases /\ graph \in Programs /\ DOMAIN pipes = Pipes /\ Base /\ Real
  BY DEF Tracked, Base, TypeOK
<1>2. CASE UNCHANGED vars
  <2>1. Loads' = Loads /\ Places' = Places /\ Final' = Final
    BY <1>2 DEF vars, Loads, Places, Pipes, Final
  <2> QED  BY <1>2, <2>1 DEF vars, SeedInv, Once, Op, Leaf, PosOf
<1>3. CASE Next
  <2>1. graph' = graph /\ Final' = Final /\ Places' = Places
    BY <1>1, <1>3, SameGraph, NextLoads DEF Final
  <2>2. \A l : Op(l)' = Op(l) /\ Leaf(l)' = Leaf(l) /\ (Once(l)' <=> Once(l))  BY <2>1 DEF Op, Leaf, Once
  <2>3. \A x : PosOf(x)' = PosOf(x)  BY <2>1 DEF PosOf
  <2>4. DOMAIN cells' = DOMAIN cells /\ \A c \in DOMAIN cells : cells'[c] = "new" => cells[c] = "new"
    BY <1>1, <1>3, NeverNew
  <2>5. \A k \in DOMAIN graph : Op(k).seeds => <<k, 0>> \in DOMAIN cells /\ k \in Nat \ {0} /\ Outs(k) = {1} /\ Args(k) = {}
                                  /\ Op(k).does = "try" /\ <<k, 1>> \in Pipes
    <3>1. \A k \in DOMAIN graph : Op(k).seeds => <<k, 0>> \in DOMAIN cells  BY <1>1, SeedCell DEF TypeOK
    <3>2. \A k \in DOMAIN graph : Op(k).seeds => k \in Nat \ {0} /\ Outs(k) = {1} /\ Args(k) = {} /\ Op(k).does = "try"
      BY <1>1, LeafShape
    <3>3. \A k \in DOMAIN graph : Op(k).seeds => <<k, 1>> \in Pipes  BY <1>1, <3>2, OutPipe
    <3> QED  BY <3>1, <3>2, <3>3
\* What dirties a buffer.
  <2>6. ASSUME NEW k \in DOMAIN graph, Op(k).seeds, <<k, 0>> \in dirty', <<k, 0>> \notin dirty
        PROVE  \E c \in pend : Finish(c) /\ <<k, 0>> \in c.writes
    BY <1>3, <2>6 DEF Next, StartSync, Inside, Transfers, Mopped, SyncReturns, Unready, Runs, Refused, Seeds, SeedFails,
      Reclaim, DropCheckout, IntoInner, Device, Finish
  <2>7. ASSUME NEW k \in DOMAIN graph, Op(k).seeds, NEW c \in pend, <<k, 0>> \in c.writes
        PROVE  cells[<<k, 0>>] # "new" /\ pipes[<<k, 1>>].buf # <<k, 0>>
    <3>1. <<k, 0>> \in Touched(c)  BY <2>7 DEF Touched
    <3>2. cells[<<k, 0>>] # "new" /\ <<k, 0>>[1] \in 1..c.id[1] /\ c.id[1] \in DOMAIN graph /\ ~Op(c.id[1]).seeds
      BY <2>5, <2>7, <3>1 DEF Tracked, Sent
    <3>3. c.id[1] \in Nat /\ c.id[1] >= k  BY <1>1, <2>5, <2>7, <3>2, LeafShape
    <3>4. c.id[1] # k  BY <2>7, <3>2
    <3>5. pipes[<<k, 1>>].buf = <<k, 0>> => c.id[1] <= k
      <4>1. <<k, 1>> \in Pipes /\ <<k, 1>>[1] = k  BY <2>5, <2>7
      <4> QED  BY <3>1, <4>1 DEF Tracked, Followed
    <3> QED  BY <2>5, <2>7, <3>2, <3>3, <3>4, <3>5
\* A leaf that seeds its buffer hands it on clean.
  <2>8. ASSUME NEW k \in DOMAIN graph, Op(k).seeds,
               pipes'[<<k, 1>>].buf = <<k, 0>> \/ cells'[<<k, 0>>] = "new"
        PROVE  <<k, 0>> \notin dirty'
    <3>1. CASE Seeds(k)
      <4>1. cells[<<k, 0>>] = "new" \/ ~Reseeds(Leaf(k).mark) => <<k, 0>> \notin dirty
        BY <2>8 DEF SeedInv, Once
      <4> QED  BY <3>1, <4>1 DEF Seeds
    <3>2. CASE ~Seeds(k)
      <4>1. pipes'[<<k, 1>>] \in {pipes[<<k, 1>>], Nothing}
        <5>1. ASSUME pc \in {"walk", "inside"}, at = k PROVE pipes'[<<k, 1>>] \in {pipes[<<k, 1>>], Nothing}
          <6>1. ~WaitsInside(k)  BY <2>5, <2>8 DEF WaitsInside
          <6>2. pc = "walk"  BY <1>1, <5>1, <6>1 DEF Phases
          <6>3. \A l \in DOMAIN graph : ~Runs(l) /\ ~Refused(l)  BY <2>8, <5>1 DEF Runs, Refused, Ready, Walking
          <6>4. \A l \in DOMAIN graph : ~Unready(l)  BY <2>5, <2>8, <5>1 DEF Unready, Walking
          <6>5. \A l \in DOMAIN graph : ~Seeds(l)  BY <3>2, <5>1 DEF Seeds, Walking
          <6> QED  BY <1>3, <6>2, <6>3, <6>4, <6>5 DEF Next, StartSync, Inside, Transfers, Mopped, SyncReturns, SeedFails,
            Reclaim, DropCheckout, IntoInner, Device, Finish
        <5>2. <<k, 1>> \in Pipes /\ <<k, 1>>[1] = k  BY <2>5, <2>8
        <5> QED  BY <1>1, <1>3, <5>1, <5>2, PipeStep
      <4>2. pipes[<<k, 1>>].buf = <<k, 0>> \/ cells[<<k, 0>>] = "new"
        <5>1. Nothing.buf # <<k, 0>>  BY DEF Nothing
        <5> QED  BY <2>4, <2>5, <2>8, <4>1, <5>1
      <4>3. <<k, 0>> \notin dirty  BY <2>8, <4>2 DEF SeedInv
      <4> QED  BY <2>6, <2>7, <2>8, <4>2, <4>3
    <3> QED  BY <3>1, <3>2
\* One that seeds its buffer only once finds it as it was.
  <2>9. ASSUME NEW k \in DOMAIN graph, Once(k), NEW l \in DOMAIN graph, Ready(l), NEW j \in {Made} \cup Args(l),
               Buf(l, j) = <<k, 0>>
        PROVE  j \notin Op(l).writes /\ \A p \in Outs(l) : Op(l).give[p] = j => <<l, p>> \in SafeOuts(graph)
    <3>1. /\ j \in Args(l) /\ From(l, j) = "pipe" /\ PipeOf(l, j) \in Places
          /\ <<PosOf(PipeOf(l, j)), PipeOf(l, j)[2]>> = PipeOf(l, j)
          /\ Loads[PipeOf(l, j)].buf = <<k, 0>>
      BY <1>1, <2>9, KeptOperand DEF Once, Places
    <3>2. PipeOf(l, j) \in SafeOuts(graph)
      <4> DEFINE x == PipeOf(l, j)
      <4>1. x \in Places /\ <<PosOf(x), x[2]>> = x /\ Loads[x].buf = <<k, 0>>  BY <3>1
      <4> HIDE DEF x
      <4>2. x \in SafeOuts(graph)  BY <2>9, <4>1 DEF SeedInv
      <4> QED  BY <4>2 DEF x
    <3> QED  BY <3>1, <3>2, ROShape
  <2>10. ASSUME NEW k \in DOMAIN graph, Once(k) PROVE \A c \in pend' : <<k, 0>> \notin c.writes
    <3>1. \A c \in pend : <<k, 0>> \notin c.writes  BY <2>10 DEF SeedInv
    <3>2. ASSUME NEW l \in DOMAIN graph, Runs(l) PROVE <<k, 0>> \notin Command(l).writes
      <4>1. Ready(l) /\ Op(l).writes \subseteq {Made} \cup Args(l)  BY <1>1, <3>2, LeafShape DEF Runs
      <4>2. Command(l).writes = {Buf(l, j) : j \in Op(l).writes}  BY DEF Command
      <4> QED  BY <2>9, <2>10, <4>1, <4>2
    <3> QED  BY <1>3, <3>1, <3>2, PendStep DEF Finish
  <2>11. ASSUME NEW k \in DOMAIN graph, Once(k) PROVE <<k, 0>> \notin dirty'
    <3>1. <<k, 0>> \notin dirty /\ \A c \in pend : <<k, 0>> \notin c.writes  BY <2>11 DEF SeedInv
    <3> QED  BY <2>6, <2>11, <3>1 DEF Once
  <2>12. ASSUME NEW k \in DOMAIN graph, Once(k), NEW x \in Places, Loads'[x].buf = <<k, 0>>
         PROVE  <<PosOf(x), x[2]>> \in SafeOuts(graph)
    <3>0. k # 0 /\ Op(k).seeds  BY <1>1, <2>12, LeafShape DEF Once
    <3>1. CASE Loads'[x] = Nothing  BY <2>12, <3>0, <3>1 DEF Nothing
    <3>2. CASE Loads'[x] = Loads[x]  BY <2>12, <3>2 DEF SeedInv
    <3>3. ASSUME NEW l \in DOMAIN graph, Seeds(l), Deposits(l, x) PROVE <<PosOf(x), x[2]>> \in SafeOuts(graph)
      <4>1. Op(l).seeds /\ Op(l).give = <<Made>> /\ Outs(l) = {1}  BY <1>1, <3>3, LeafShape DEF Seeds
      <4>2. x[2] = 1 /\ Op(l).give[1] = Made /\ PosOf(x) = l  BY <3>3, <4>1 DEF Deposits
      <4>3. Made # HostValue  BY DEF Made, HostValue
      <4>4. Output(l, 1).buf = IF Op(l).give[1] = HostValue THEN None ELSE Buf(l, Op(l).give[1])  BY <1>1, OutputParts
      <4>5. Loads'[x].buf = <<l, 0>>  BY <3>3, <4>1, <4>2, <4>3, <4>4 DEF Deposits, Buf
      <4>6. l = k  BY <2>12, <4>5
      <4> QED  BY <2>12, <4>2, <4>6, ROShape
    <3>4. ASSUME NEW l \in DOMAIN graph, Runs(l), Deposits(l, x) PROVE <<PosOf(x), x[2]>> \in SafeOuts(graph)
      <4> DEFINE j == Op(l).give[x[2]]
      <4>1. x[2] \in Outs(l) /\ PosOf(x) = l /\ Loads'[x] = Output(l, x[2])  BY <3>4 DEF Deposits
      <4>2. j \in {Made, HostValue} \cup Args(l)  BY <1>1, <4>1, LeafShape
      <4>3. Output(l, x[2]).buf = IF j = HostValue THEN None ELSE Buf(l, j)  BY <1>1, OutputParts
      <4>4. j # HostValue /\ Buf(l, j) = <<k, 0>>
        <5>1. Output(l, x[2]).buf = <<k, 0>> /\ k # 0  BY <2>12, <3>0, <4>1
        <5> HIDE DEF j
        <5> QED  BY <4>3, <5>1 DEF None
      <4>5. Ready(l) /\ j \in {Made} \cup Args(l)  BY <3>4, <4>2, <4>4 DEF Runs
      <4> QED  BY <2>9, <2>12, <4>1, <4>4, <4>5
    <3>5. CASE x[1] = Final /\ <<0, x[2]>> \in Places /\ Loads'[x] = Loads[<<0, x[2]>>]
      <4>1. PosOf(<<0, x[2]>>) = Final /\ PosOf(x) = Final /\ <<0, x[2]>>[2] = x[2]  BY <3>5 DEF PosOf
      <4>2. <<PosOf(<<0, x[2]>>), <<0, x[2]>>[2]>> \in SafeOuts(graph)  BY <2>12, <3>5 DEF SeedInv
      <4> QED  BY <4>1, <4>2
    <3> QED  BY <1>1, <1>3, <3>1, <3>2, <3>3, <3>4, <3>5, LoadStep
  <2> QED  BY <2>1, <2>2, <2>3, <2>8, <2>10, <2>11, <2>12 DEF SeedInv
<1> QED  BY <1>2, <1>3

\* A buffer that a leaf hands on as its seed holds the seed, in every run of every graph
\* in which nothing writes to what is seeded only once.
THEOREM SeedsAlwaysHold == (\A g \in Programs : SeedSafe(g)) => (Spec => []SeedsHold)
<1> SUFFICES ASSUME \A g \in Programs : SeedSafe(g) PROVE Spec => []SeedsHold
  OBVIOUS
<1>1. Init => Tracked /\ SeedInv  BY TrackedInit, SeedInit
<1>2. Tracked /\ SeedInv /\ [Next]_vars => (Tracked /\ SeedInv)'
  <2>1. Tracked => SeedSafe(graph)  BY DEF Tracked, Base, TypeOK
  <2> QED  BY <2>1, TrackedStep, SeedStep
<1>3. Tracked /\ SeedInv => SeedsHold
  <2> SUFFICES ASSUME Tracked, SeedInv, NEW k \in DOMAIN graph, Op(k).seeds, pipes[<<k, 1>>].home = <<k, 0>>
               PROVE  <<k, 0>> \notin dirty
    BY DEF SeedsHold
  <2>1. graph \in Programs /\ Apart(Loads, cells, held)  BY DEF Tracked, Base, TypeOK, Custody
  <2>2. k # 0 /\ Outs(k) = {1}  BY <2>1, LeafShape
  <2>3. <<k, 1>> \in Pipes  BY <2>1, <2>2, OutPipe
  <2>4. <<k, 1>> \in DOMAIN Loads /\ Loads[<<k, 1>>] = pipes[<<k, 1>>]  BY <2>1, <2>3, PlaceShape DEF Places
  <2>5. pipes[<<k, 1>>].buf = <<k, 0>>  BY <2>1, <2>2, <2>4 DEF Apart, None
  <2> QED  BY <2>5 DEF SeedInv
<1> QED  BY <1>1, <1>2, <1>3, PTL DEF Spec

-----------------------------------------------------------------------------
(* The cells between runs.                                                 *)

\* The outputs through which a buffer with a home may go (HomesKept), and does.
HomeOuts(g) == CHOOSE H : HomesKept(g, H)

HomesIn ==
  \A x \in Places : x[2] \in Outs(PosOf(x)) /\ Loads[x].home # None => <<PosOf(x), x[2]>> \in HomeOuts(graph)

\* A cell that is out is claimed by a Checkout, a pipe, or the leaf that waits.
Claimed ==
  /\ \A c \in DOMAIN cells : cells[c] = "out" =>
       \/ \E h \in held : h.home = c
       \/ \E x \in Pipes : pipes[x].home = c
       \/ c \in inline.back
  /\ MayRefuse /\ pc = "inside" /\ ~Op(Final).guard => inline.back \subseteq {None}

\* The walk finds ahead of it all it needs, but for lent pipes that are spent.
Fed ==
  pc = "walk" => \A k \in DOMAIN graph : \A i \in Args(k) : k >= at =>
    /\ OwnCell(k, i) => cells[<<k, i>>] = "full"
    /\ From(k, i) = "pipe" /\ PipeOf(k, i)[1] < at => pipes[PipeOf(k, i)] # Nothing
    /\ From(k, i) = "lent" /\ pipes[PipeOf(k, i)] = Nothing => excused

LEMMA HomeShape ==
  ASSUME HomeSafe(graph), NEW k \in DOMAIN graph
  PROVE  /\ Op(k).seeds => <<k, 1>> \in HomeOuts(graph)
         /\ \A i \in Args(k) : From(k, i) # "pipe" \/ PipeOf(k, i) \in HomeOuts(graph) =>
              /\ Op(k).take[i] = "home"
              /\ Op(k).guard \/ Op(k).does = "host" \/ ~MayRefuse
              /\ \A p \in Outs(k) : Op(k).give[p] = i => <<k, p>> \in HomeOuts(graph)
<1>1. HomesKept(graph, HomeOuts(graph))  BY DEF HomeSafe, HomeOuts
<1>2. \A i \in Args(k) : PipeOf(k, i) \in HomeOuts(graph) /\ From(k, i) = "pipe" => graph[k].in[i].of \in HomeOuts(graph)
  BY DEF PipeOf, From, Leaf
<1> QED  BY <1>1, <1>2 DEF HomesKept, Op, Leaf, Args, Outs, From

\* An operand that has a home keeps it.
LEMMA HomeTaken ==
  ASSUME Base, HomeSafe(graph), HomesIn, NEW k \in DOMAIN graph, NEW i \in Args(k), Operand(k, i).home # None
  PROVE  /\ HomeOf(k, i) = Operand(k, i).home
         /\ Op(k).guard \/ Op(k).does = "host" \/ ~MayRefuse
         /\ \A p \in Outs(k) : Op(k).give[p] = i => <<k, p>> \in HomeOuts(graph)
<1>1. graph \in Programs /\ TypeOK  BY DEF Base, TypeOK
<1>2. From(k, i) # "pipe" \/ PipeOf(k, i) \in HomeOuts(graph)
  <2> SUFFICES ASSUME From(k, i) = "pipe" PROVE PipeOf(k, i) \in HomeOuts(graph)
    OBVIOUS
  <2> DEFINE x == PipeOf(k, i)
  <2>1. x \in Pipes /\ x[2] \in Outs(x[1]) /\ ~OwnCell(k, i)  BY <1>1, PipeShape DEF OwnCell
  <2>2. x = <<x[1], x[2]>> /\ x \in Places /\ PosOf(x) = x[1] /\ Loads[x] = pipes[x]
    BY <1>1, <2>1, PlaceShape DEF Places, PosOf
  <2>3. Loads[x].home # None  BY <2>1, <2>2 DEF Operand
  <2> HIDE DEF x
  <2>4. x \in HomeOuts(graph)  BY <2>1, <2>2, <2>3 DEF HomesIn
  <2> QED  BY <2>4 DEF x
<1>3. /\ Op(k).take[i] = "home"
      /\ Op(k).guard \/ Op(k).does = "host" \/ ~MayRefuse
      /\ \A p \in Outs(k) : Op(k).give[p] = i => <<k, p>> \in HomeOuts(graph)
  BY <1>2, HomeShape
<1> QED  BY <1>3 DEF HomeOf

LEMMA HomesInit == ASSUME Init PROVE HomesIn
<1> SUFFICES ASSUME NEW x \in Places, x[2] \in Outs(PosOf(x)) PROVE Loads[x] = Nothing
  BY DEF HomesIn, Nothing
<1>1. graph \in Programs /\ TypeOK /\ DOMAIN inline.outs = {}  BY TypeInit, OutsideEmpty DEF Init
<1>2. CASE x \notin Pipes  BY <1>1, <1>2, PlaceShape DEF Loads
<1>3. CASE x \in Pipes
  <2>1. PosOf(x) = x[1] /\ x[1] \in DOMAIN graph /\ Loads[x] = pipes[x]  BY <1>1, <1>3, PlaceShape DEF PosOf
  <2>2. x[2] \in {1, 2}  BY <1>1, <2>1, OutPipe
  <2> QED  BY <1>3, <2>1, <2>2, InitPipes
<1> QED  BY <1>2, <1>3

LEMMA HomesStep ==
  ASSUME Base, HomeSafe(graph), HomesIn, [Next]_vars
  PROVE  HomesIn'
<1>1. graph \in Programs /\ TypeOK /\ Phases  BY DEF Base, TypeOK
<1>2. CASE UNCHANGED vars
  <2>1. Loads' = Loads /\ Places' = Places /\ Final' = Final  BY <1>2 DEF vars, Loads, Places, Pipes, Final
  <2> QED  BY <1>2, <2>1 DEF vars, HomesIn, Outs, Op, Leaf, PosOf
<1>3. CASE Next
  <2>1. graph' = graph /\ Places' = Places /\ Final' = Final  BY <1>1, <1>3, SameGraph, NextLoads DEF Final
  <2>2. SUFFICES ASSUME NEW x \in Places, x[2] \in Outs(PosOf(x)), Loads'[x].home # None
                 PROVE  <<PosOf(x), x[2]>> \in HomeOuts(graph)
    BY <2>1 DEF HomesIn, Outs, Op, Leaf, PosOf
  <2>3. CASE Loads'[x] = Nothing  BY <2>2, <2>3 DEF Nothing
  <2>4. CASE Loads'[x] = Loads[x]  BY <2>2, <2>4 DEF HomesIn
  <2>5. ASSUME NEW k \in DOMAIN graph, Deposits(k, x) PROVE <<PosOf(x), x[2]>> \in HomeOuts(graph)
    <3> DEFINE j == Op(k).give[x[2]]
    <3>1. x[2] \in Outs(k) /\ PosOf(x) = k /\ Loads'[x] = Output(k, x[2])  BY <2>5 DEF Deposits
    <3>2. j \in {Made, HostValue} \cup Args(k)  BY <1>1, <3>1, LeafShape
    <3>3. CASE j \in Args(k)
      <4>1. Output(k, x[2]).home = HomeOf(k, j)  BY <1>1, <3>3, OutputParts
      <4>2. Operand(k, j).home # None
        <5>1. HomeOf(k, j) # None  BY <2>2, <3>1, <4>1
        <5> QED  BY <5>1 DEF HomeOf
      <4> QED  BY <3>1, <3>3, <4>2, HomeTaken
    <3>4. CASE j \notin Args(k)
      <4>1. Output(k, x[2]).home = IF j = Made /\ Op(k).seeds THEN <<k, 0>> ELSE None  BY <1>1, <3>4, OutputParts
      <4>2. Op(k).seeds  BY <2>2, <3>1, <4>1
      <4>3. Outs(k) = {1}  BY <1>1, <4>2, LeafShape
      <4>4. x[2] = 1  BY <3>1, <4>3
      <4> QED  BY <3>1, <4>2, <4>4, HomeShape
    <3> QED  BY <3>3, <3>4
  <2>6. CASE x[1] = Final /\ x[2] \in Outs(Final) /\ <<0, x[2]>> \in Places /\ Loads'[x] = Loads[<<0, x[2]>>]
    <3> DEFINE y == <<0, x[2]>>
    <3>1. PosOf(y) = Final /\ PosOf(x) = Final /\ y[2] = x[2]  BY <2>6 DEF PosOf
    <3>2. y \in Places /\ y[2] \in Outs(PosOf(y)) /\ Loads[y].home # None  BY <2>2, <2>6, <3>1
    <3> HIDE DEF y
    <3>3. <<PosOf(y), y[2]>> \in HomeOuts(graph)  BY <3>2 DEF HomesIn
    <3> QED  BY <3>1, <3>3
  <2> QED  BY <1>1, <1>3, <2>3, <2>4, <2>5, <2>6, LoadStep
<1> QED  BY <1>2, <1>3

\* What claims the cells when a leaf has taken its operands.
LEMMA TakenClaimed ==
  ASSUME TypeOK, Claimed, NEW k \in DOMAIN graph, NEW is \in SUBSET Args(k), NEW c \in DOMAIN cells,
         CellsLess(k, is)[c] = "out"
  PROVE  \/ \E h \in held : h.home = c
         \/ \E x \in Pipes : PipesLess(k, is)[x] = pipes[x] /\ pipes[x].home = c
         \/ c \in inline.back
         \/ \E i \in is : Operand(k, i).home = c
<1>1. DOMAIN pipes = Pipes  BY DEF TypeOK
<1>2. CASE \E i \in is : OwnCell(k, i) /\ c = <<k, i>>
  BY <1>2 DEF Operand
<1>3. CASE ~\E i \in is : OwnCell(k, i) /\ c = <<k, i>>
  <2>1. cells[c] = "out"  BY <1>3 DEF CellsLess
  <2>2. ASSUME NEW x \in Pipes, pipes[x].home = c
        PROVE  PipesLess(k, is)[x] = pipes[x] \/ \E i \in is : Operand(k, i).home = c
    <3>1. CASE \E i \in is : ~OwnCell(k, i) /\ x = PipeOf(k, i)  BY <2>2, <3>1 DEF Operand
    <3>2. CASE ~\E i \in is : ~OwnCell(k, i) /\ x = PipeOf(k, i)  BY <1>1, <3>2 DEF PipesLess
    <3> QED  BY <3>1, <3>2
  <2> QED  BY <2>1, <2>2 DEF Claimed
<1> QED  BY <1>2, <1>3

LEMMA RefillOut ==
  ASSUME NEW cs, NEW S, NEW c \in DOMAIN cs, Refill(cs, S)[c] = "out"
  PROVE  cs[c] = "out" /\ c \notin S
BY DEF Refill

LEMMA ClaimedInit == ASSUME Init PROVE Claimed
<1>1. TypeOK /\ graph \in Programs /\ pc = "idle"  BY TypeInit DEF Init
<1>2. ASSUME NEW c \in DOMAIN cells, cells[c] = "out" PROVE \E x \in Pipes : pipes[x].home = c
  <2>1. c \in CellsOf(graph)  BY <1>1, <1>2 DEF TypeOK
  <2>2. c[2] # 0 /\ ~OwnCell(c[1], c[2])
    <3>1. cells[c] = IF c[2] = 0 THEN "new" ELSE IF OwnCell(c[1], c[2]) THEN "full" ELSE "out"  BY <2>1 DEF Init
    <3> QED  BY <1>2, <3>1
  <2> DEFINE k == c[1]
             i == c[2]
             x == PipeOf(k, i)
  <2>3. k \in DOMAIN graph /\ i \in Args(k) /\ From(k, i) # "pipe" /\ c = <<k, i>>  BY <1>1, <2>1, <2>2, CellShape
  <2>4. From(k, i) = "lent"  BY <1>1, <2>2, <2>3, FromShape
  <2>5. x \in Pipes /\ x[1] = k /\ x[2] = 2 + i /\ x = Inlet(k, i)  BY <1>1, <2>3, <2>4, InletShape DEF Inlet
  <2>6. i = 1 \/ i = 2  BY <1>1, <2>3, FromShape
  <2>7. x[2] - 2 = i  BY <2>5, <2>6
  <2>8. \E a \in Args(x[1]) : From(x[1], a) = "lent" /\ x = Inlet(x[1], a)  BY <2>3, <2>4, <2>5
  <2> HIDE DEF x
  <2>9. pipes[x] = Lent(x)  BY <2>5, <2>8 DEF Init, Lent, Pipes
  <2>10. pipes[x].home = c  BY <2>3, <2>5, <2>7, <2>9 DEF Lent
  <2> QED  BY <2>5, <2>10
<1> QED  BY <1>1, <1>2 DEF Claimed

\* Claimed of the next state.
WillClaim(c) ==
  \/ \E h \in held' : h.home = c
  \/ \E x \in Pipes : pipes'[x].home = c
  \/ c \in inline'.back

\* What a leaf that runs takes, it hands on, sends home, or keeps for the end of its wait.
LEMMA RunsClaimed ==
  ASSUME Base, HomeSafe(graph), HomesIn, Claimed, NEW k \in DOMAIN graph, Runs(k), NEW c \in DOMAIN cells, cells'[c] = "out"
  PROVE  WillClaim(c)
<1> DEFINE outs == [p \in Outs(k) |-> Output(k, p)]
           ps == PipesLess(k, Args(k))
<1>1. graph \in Programs /\ TypeOK /\ DOMAIN pipes = Pipes /\ held' = held /\ inline.back = {}
      /\ \A x \in DOMAIN cells : x # None
  BY OutsideEmpty, CellsNotNone DEF Base, TypeOK, Phases, Runs, Ready, Walking
<1>2. DOMAIN outs = Outs(k) /\ (\A p \in Outs(k) : outs[p] = Output(k, p)) /\ DOMAIN ps = Pipes
  BY <1>1 DEF PipesLess
<1>3. DOMAIN CellsLess(k, Args(k)) = DOMAIN cells  BY DEF CellsLess
<1>4. CASE WaitsInside(k)
  <2>1. cells' = CellsLess(k, Args(k)) /\ pipes' = ps /\ inline'.back = {HomeOf(k, i) : i \in Args(k)}
    BY <1>4 DEF Runs
  <2>2. ASSUME NEW i \in Args(k), Operand(k, i).home = c PROVE c \in inline'.back
    BY <1>1, <2>1, <2>2, HomeTaken
  <2> HIDE DEF ps
  <2>3. \/ \E h \in held : h.home = c
        \/ \E x \in Pipes : ps[x] = pipes[x] /\ pipes[x].home = c
        \/ \E i \in Args(k) : Operand(k, i).home = c
    BY <1>1, <2>1, TakenClaimed DEF ps
  <2> QED  BY <1>1, <2>1, <2>2, <2>3 DEF WillClaim
<1>5. CASE ~WaitsInside(k)
  <2>1. cells' = Refill(CellsLess(k, Args(k)), Consumed(k) \cup Overwritten(ps, k, outs)) /\ pipes' = Filled(ps, k, outs)
    BY <1>5 DEF Runs
  <2>2. CellsLess(k, Args(k))[c] = "out" /\ c \notin Consumed(k) /\ c \notin Overwritten(ps, k, outs)
    BY <1>3, <2>1, RefillOut
  <2> HIDE DEF outs
  <2>3. ASSUME NEW i \in Args(k), Operand(k, i).home = c PROVE \E x \in Pipes : pipes'[x].home = c
    <3>1. HomeOf(k, i) = c  BY <1>1, <2>3, HomeTaken
    <3>2. i \in {Op(k).give[p] : p \in Outs(k)}  BY <2>2, <3>1 DEF Consumed
    <3>3. PICK p \in Outs(k) : Op(k).give[p] = i  BY <3>2
    <3>4. <<k, p>> \in Pipes  BY <1>1, OutPipe
    <3> HIDE DEF ps
    <3>5. pipes'[<<k, p>>] = Output(k, p)  BY <1>2, <2>1, <3>4 DEF Filled
    <3>6. Output(k, p).home = c  BY <1>1, <3>1, <3>3, OutputParts
    <3> QED  BY <3>4, <3>5, <3>6
  <2>4. ASSUME NEW x \in Pipes, ps[x] = pipes[x], pipes[x].home = c PROVE pipes'[x].home = c
    <3> HIDE DEF ps
    <3>1. ~(x[1] = k /\ x[2] \in Outs(k))
      <4> SUFFICES ASSUME x[1] = k, x[2] \in Outs(k) PROVE FALSE
        OBVIOUS
      <4>1. x = <<k, x[2]>>  BY <1>1, PlaceShape
      <4>2. ps[<<k, x[2]>>] # Nothing /\ ps[<<k, x[2]>>].home = c  BY <1>1, <2>4, <4>1 DEF Nothing
      <4>3. c \in Overwritten(ps, k, outs)  BY <1>2, <4>2 DEF Overwritten
      <4> QED  BY <2>2, <4>3
    <3>2. pipes'[x] = pipes[x]  BY <1>2, <2>1, <2>4, <3>1 DEF Filled
    <3> QED  BY <2>4, <3>2
  <2>5. \/ \E h \in held : h.home = c
        \/ \E x \in Pipes : ps[x] = pipes[x] /\ pipes[x].home = c
        \/ \E i \in Args(k) : Operand(k, i).home = c
    BY <1>1, <2>2, TakenClaimed
  <2> HIDE DEF ps
  <2> QED  BY <1>1, <2>3, <2>4, <2>5 DEF WillClaim
<1> QED  BY <1>4, <1>5

\* Only a lent pipe can be missing.
LEMMA MissingLent ==
  ASSUME TypeOK, Fed, NEW k \in DOMAIN graph, Walking(k), NEW i \in Args(k), ~Resolvable(k, i)
  PROVE  From(k, i) = "lent" /\ excused
<1>1. graph \in Programs /\ k \in Nat  BY LeafShape DEF TypeOK
<1>2. pc = "walk" /\ k >= at /\ k = at  BY <1>1 DEF Walking
<1>3. OwnCell(k, i) => cells[<<k, i>>] = "full"  BY <1>2 DEF Fed
<1>4. ~OwnCell(k, i) /\ pipes[PipeOf(k, i)] = Nothing  BY <1>3 DEF Resolvable
<1>5. From(k, i) # "pipe"
  <2> SUFFICES ASSUME From(k, i) = "pipe" PROVE FALSE
    OBVIOUS
  <2>1. PipeOf(k, i)[1] \in 1..(k - 1)  BY <1>1, PipeShape
  <2>2. PipeOf(k, i)[1] < at  BY <1>1, <1>2, <2>1
  <2> QED  BY <1>2, <1>4, <2>2 DEF Fed
<1>6. From(k, i) = "lent"  BY <1>1, <1>4, <1>5, FromShape
<1> QED  BY <1>2, <1>4, <1>6 DEF Fed

LEMMA ClaimedStep ==
  ASSUME Base, HomeSafe(graph), LentFirst(graph), HomesIn, Clean, Fed, Claimed, [Next]_vars
  PROVE  Claimed'
<1>1. graph \in Programs /\ TypeOK /\ Phases /\ DOMAIN pipes = Pipes  BY DEF Base, TypeOK
<1>2. \A c \in DOMAIN cells : c # None  BY <1>1, CellsNotNone
<1>3. graph' = graph /\ Pipes' = Pipes /\ Final' = Final  BY SameGraph DEF vars, Pipes, Final
<1>4. DOMAIN cells' = DOMAIN cells
  <2>1. UNCHANGED vars => DOMAIN cells' = DOMAIN cells  BY DEF vars
  <2> QED  BY <1>1, <2>1, NeverNew
<1>5. MayRefuse /\ pc' = "inside" /\ ~Op(Final).guard => inline'.back \subseteq {None}
  <2> SUFFICES ASSUME MayRefuse, pc' = "inside", ~Op(Final).guard PROVE inline'.back \subseteq {None}
    OBVIOUS
  <2>1. CASE \E k \in DOMAIN graph : Runs(k)
    <3>1. PICK k \in DOMAIN graph : Runs(k)  BY <2>1
    <3>2. WaitsInside(k)  BY <3>1 DEF Runs, Next1
    <3>3. inline'.back = {HomeOf(k, i) : i \in Args(k)} /\ k = Final /\ Op(k).does = "wait"
      BY <3>1, <3>2 DEF Runs, WaitsInside
    <3>4. \A i \in Args(k) : HomeOf(k, i) = None
      <4>1. \A i \in Args(k) : Operand(k, i).home = None  BY <3>3, HomeTaken
      <4> QED  BY <4>1 DEF HomeOf
    <3> QED  BY <3>3, <3>4
  <2>2. CASE ~\E k \in DOMAIN graph : Runs(k)
    <3>1. pc = "inside" /\ inline' = inline
      BY <2>2 DEF Next, StartSync, Inside, Transfers, Mopped, SyncReturns, Unready, Refused, Seeds, SeedFails, Next1, Fails,
        Reclaim, DropCheckout, IntoInner, Device, Finish, vars
    <3> QED  BY <3>1 DEF Claimed
  <2> QED  BY <2>1, <2>2
<1>6. SUFFICES ASSUME NEW c \in DOMAIN cells, cells'[c] = "out" PROVE WillClaim(c)
  BY <1>3, <1>4, <1>5 DEF Claimed, WillClaim, Op, Leaf
<1>7. cells[c] = "out" => \/ \E h \in held : h.home = c
                          \/ \E x \in Pipes : pipes[x].home = c
                          \/ c \in inline.back
  BY DEF Claimed
<1>8. CASE Inside
  <2>1. held' = held /\ pc = "inside" /\ DOMAIN inline.outs = Outs(Final) /\ Final \in DOMAIN graph
    BY <1>1, <1>8, FinalLeaf DEF Inside, Phases
  <2>2. CASE pipes' = Filled(pipes, Final, inline.outs)
             /\ cells' = Refill(cells, Overwritten(pipes, Final, inline.outs) \cup
                          (inline.back \ {inline.outs[p].home : p \in DOMAIN inline.outs}))
    <3>1. cells[c] = "out" /\ c \notin Overwritten(pipes, Final, inline.outs)
          /\ c \notin (inline.back \ {inline.outs[p].home : p \in DOMAIN inline.outs})
      BY <1>6, <2>2, RefillOut
    <3>2. ASSUME NEW x \in Pipes, pipes[x].home = c PROVE pipes'[x].home = c
      <4>1. ~(x[1] = Final /\ x[2] \in Outs(Final))
        <5> SUFFICES ASSUME x[1] = Final, x[2] \in Outs(Final) PROVE FALSE
          OBVIOUS
        <5>1. x = <<Final, x[2]>>  BY <1>1, PlaceShape
        <5>2. pipes[<<Final, x[2]>>] # Nothing /\ pipes[<<Final, x[2]>>].home = c  BY <1>2, <3>2, <5>1 DEF Nothing
        <5>3. c \in Overwritten(pipes, Final, inline.outs)  BY <2>1, <5>2 DEF Overwritten
        <5> QED  BY <3>1, <5>3
      <4>2. pipes'[x] = pipes[x]  BY <1>1, <2>1, <2>2, <4>1 DEF Filled
      <4> QED  BY <3>2, <4>2
    <3>3. ASSUME c \in inline.back PROVE \E x \in Pipes : pipes'[x].home = c
      <4>1. PICK p \in Outs(Final) : c = inline.outs[p].home  BY <2>1, <3>1, <3>3
      <4>2. <<Final, p>> \in Pipes  BY <1>1, <2>1, OutPipe
      <4>3. pipes'[<<Final, p>>] = inline.outs[p]  BY <1>1, <2>1, <2>2, <4>2 DEF Filled
      <4> QED  BY <4>1, <4>2, <4>3
    <3> QED  BY <1>7, <2>1, <3>1, <3>2, <3>3 DEF WillClaim
  <2>3. CASE MayRefuse /\ pipes' = pipes /\ cells' = Refill(cells, IF Op(Final).guard THEN inline.back ELSE {})
    <3>1. cells[c] = "out" /\ (Op(Final).guard => c \notin inline.back)  BY <1>6, <2>3, RefillOut
    <3>2. c \notin inline.back  BY <1>2, <2>1, <2>3, <3>1 DEF Claimed
    <3> QED  BY <1>7, <2>1, <2>3, <3>1, <3>2 DEF WillClaim
  <2> QED  BY <1>8, <2>2, <2>3 DEF Inside
<1>9. ASSUME NEW k \in DOMAIN graph, Refused(k) PROVE WillClaim(c)
  <2>1. held' = held /\ inline' = inline /\ pipes' = PipesLess(k, Args(k)) /\ Op(k).does # "host"
        /\ cells' = Refill(CellsLess(k, Args(k)), GoHome(k)) /\ DOMAIN CellsLess(k, Args(k)) = DOMAIN cells /\ MayRefuse
    BY <1>9 DEF Refused, CellsLess
  <2>2. CellsLess(k, Args(k))[c] = "out" /\ c \notin GoHome(k)  BY <1>6, <2>1, RefillOut
  <2>3. ASSUME NEW i \in Args(k), Operand(k, i).home = c PROVE FALSE
    <3>1. HomeOf(k, i) = c /\ Op(k).guard  BY <1>2, <2>1, <2>3, HomeTaken
    <3> QED  BY <2>2, <3>1 DEF GoHome
  <2>4. \/ \E h \in held : h.home = c
        \/ \E x \in Pipes : PipesLess(k, Args(k))[x] = pipes[x] /\ pipes[x].home = c
        \/ c \in inline.back
        \/ \E i \in Args(k) : Operand(k, i).home = c
    BY <1>1, <2>2, TakenClaimed
  <2> QED  BY <2>1, <2>3, <2>4 DEF WillClaim
<1>10. ASSUME NEW k \in DOMAIN graph, Unready(k) PROVE WillClaim(c)
  <2>1. PICK i \in Args(k) : /\ ~Resolvable(k, i)
                             /\ cells' = CellsLess(k, 1..(i - 1)) /\ pipes' = PipesLess(k, 1..(i - 1))
    BY <1>10 DEF Unready
  <2>2. From(k, i) = "lent"  BY <1>1, <1>10, <2>1, MissingLent DEF Unready
  <2>3. i = 1  BY <2>2 DEF LentFirst, From, Leaf, Args
  <2>4. 1..(i - 1) = {}  BY <2>3
  <2>5. cells'[c] = cells[c] /\ \A x \in Pipes : pipes'[x] = pipes[x]  BY <1>1, <2>1, <2>4 DEF CellsLess, PipesLess
  <2> QED  BY <1>6, <1>7, <1>10, <2>5 DEF WillClaim, Unready
<1>11. ASSUME NEW k \in DOMAIN graph, Seeds(k) PROVE WillClaim(c)
  <2> DEFINE out == <<Output(k, 1)>>
  <2>1. held' = held /\ inline' = inline /\ cells' = [cells EXCEPT ![<<k, 0>>] = "out"] /\ pipes' = Filled(pipes, k, out)
        /\ Op(k).seeds /\ pc = "walk" /\ at = k
    BY <1>11 DEF Seeds, Walking
  <2>2. DOMAIN out = {1} /\ out[1] = Output(k, 1)  OBVIOUS
  <2> HIDE DEF out
  <2>3. Outs(k) = {1} /\ Op(k).give = <<Made>> /\ Args(k) = {}  BY <1>1, <2>1, LeafShape
  <2>4. <<k, 1>> \in Pipes  BY <1>1, <2>3, OutPipe
  <2>5. pipes'[<<k, 1>>] = Output(k, 1)  BY <1>1, <2>1, <2>2, <2>4 DEF Filled
  <2>6. Output(k, 1).home = <<k, 0>>
    <3>1. Op(k).give[1] = Made  BY <2>3
    <3> QED  BY <1>1, <2>1, <2>3, <3>1, OutputParts
  <2>7. CASE c = <<k, 0>>  BY <2>4, <2>5, <2>6, <2>7 DEF WillClaim
  <2>8. CASE c # <<k, 0>>
    <3>1. cells[c] = "out"  BY <1>6, <2>1, <2>8
    <3>2. ASSUME NEW x \in Pipes, pipes[x].home = c PROVE pipes'[x].home = c
      <4>1. ~(x[1] = k /\ x[2] = 1)
        <5>1. x[1] = k /\ x[2] = 1 => pipes[x] = Nothing
          <6>1. k >= k  BY <1>1, LeafShape
          <6> QED  BY <2>1, <2>3, <6>1 DEF Clean, OutPipes
        <5> QED  BY <1>2, <3>2, <5>1 DEF Nothing
      <4> QED  BY <1>1, <2>1, <2>2, <3>2, <4>1 DEF Filled
    <3> QED  BY <1>7, <2>1, <3>1, <3>2 DEF WillClaim
  <2> QED  BY <2>7, <2>8
<1>12. ASSUME NEW z \in Undelivered, Reclaim(z) PROVE WillClaim(c)
  <2>1. held' = held /\ inline' = inline /\ cells' = Refill(cells, {pipes[z].home}) /\ pipes' = [pipes EXCEPT ![z] = Nothing]
    BY <1>12 DEF Reclaim
  <2>2. cells[c] = "out" /\ c # pipes[z].home  BY <1>6, <2>1, RefillOut
  <2>3. \A x \in Pipes : pipes[x].home = c => pipes'[x].home = c  BY <1>1, <2>1, <2>2
  <2> QED  BY <1>7, <2>1, <2>2, <2>3 DEF WillClaim
<1>13. CASE SyncReturns
  <2>1. inline' = inline /\ pipes' = [p \in DOMAIN pipes |-> IF p \in Delivered THEN Nothing ELSE pipes[p]]
    BY <1>13 DEF SyncReturns
  <2>2. CASE held' = held \cup {[buf |-> d.buf, home |-> d.home] : d \in {e \in Checkouts : e.home # None}} /\ cells' = cells
    <3>1. ASSUME NEW x \in Pipes, pipes[x].home = c, x \in Delivered PROVE \E h \in held' : h.home = c
      <4> DEFINE h == [buf |-> pipes[x].buf, home |-> pipes[x].home]
      <4>1. pipes[x] \in {e \in Checkouts : e.home # None}  BY <1>2, <3>1 DEF Checkouts
      <4>2. h \in held'  BY <2>2, <4>1
      <4> QED  BY <3>1, <4>2
    <3> QED  BY <1>1, <1>6, <1>7, <2>1, <2>2, <3>1 DEF WillClaim
  <2>3. CASE cells' = Refill(cells, {e.home : e \in Checkouts}) /\ held' = held
    <3>1. cells[c] = "out" /\ c \notin {e.home : e \in Checkouts}  BY <1>6, <2>3, RefillOut
    <3>2. \A x \in Pipes : pipes[x].home = c => x \notin Delivered  BY <3>1 DEF Checkouts
    <3> QED  BY <1>1, <1>7, <2>1, <2>3, <3>1, <3>2 DEF WillClaim
  <2> QED  BY <1>13, <2>2, <2>3 DEF SyncReturns
<1>14. ASSUME NEW h \in held, DropCheckout(h) \/ IntoInner(h) PROVE WillClaim(c)
  <2>1. held' = held \ {h} /\ pipes' = pipes /\ inline' = inline  BY <1>14 DEF DropCheckout, IntoInner
  <2>2. cells[c] = "out" /\ c # h.home
    <3>1. CASE DropCheckout(h)  BY <1>6, <3>1, RefillOut DEF DropCheckout
    <3>2. CASE IntoInner(h)  BY <1>6, <3>2 DEF IntoInner
    <3> QED  BY <1>14, <3>1, <3>2
  <2> QED  BY <1>7, <2>1, <2>2 DEF WillClaim
<1>15. CASE UNCHANGED <<cells, pipes, held, inline>>
  BY <1>6, <1>7, <1>15 DEF WillClaim
<1> QED
  BY <1>6, <1>8, <1>9, <1>10, <1>11, <1>12, <1>13, <1>14, <1>15, RunsClaimed DEF Next, StartSync, Transfers, Mopped,
    SeedFails, Device, Finish, vars

\* What a leaf deposits for another to take is no empty pipe.
LEMMA DepositFull ==
  ASSUME Base, Real, NEW k \in DOMAIN graph, Ready(k), NEW p \in Outs(k), Op(k).give[p] # HostValue
  PROVE  Output(k, p) # Nothing
<1> DEFINE j == Op(k).give[p]
<1>1. graph \in Programs /\ TypeOK  BY DEF Base, TypeOK
<1>2. j \in {Made} \cup Args(k)  BY <1>1, LeafShape
<1>3. Buf(k, j)[1] \in 1..k  BY <1>2, CommandShape
<1>4. Output(k, p).buf = Buf(k, j)  BY <1>1, OutputParts
<1> QED  BY <1>3, <1>4 DEF Nothing

LEMMA FedStep ==
  ASSUME Base, Real, Fed, [Next]_vars
  PROVE  Fed'
<1>1. graph \in Programs /\ TypeOK /\ Phases /\ DOMAIN pipes = Pipes /\ Apart(Loads, cells, held)
  BY DEF Base, TypeOK, Custody
<1>2. graph' = graph  BY SameGraph DEF vars
<1> DEFINE Has(l, i) ==
             /\ OwnCell(l, i) => cells'[<<l, i>>] = "full"
             /\ From(l, i) = "pipe" /\ PipeOf(l, i)[1] < at' => pipes'[PipeOf(l, i)] # Nothing
             /\ From(l, i) = "lent" /\ pipes'[PipeOf(l, i)] = Nothing => excused'
<1>3. SUFFICES ASSUME pc' = "walk", NEW l \in DOMAIN graph, NEW i \in Args(l), l >= at' PROVE Has(l, i)
  BY <1>2 DEF Fed, OwnCell, From, PipeOf, Inlet, Leaf, Args
<1>4. l \in Nat \ {0} /\ i \in {1, 2} /\ (OwnCell(l, i) => <<l, i>> \in DOMAIN cells)
      /\ DOMAIN graph = 1..Final /\ Final \in Nat
  BY <1>1, FromShape, FinalLeaf DEF TypeOK, OwnCell
<1>5. /\ From(l, i) = "pipe" => /\ PipeOf(l, i) \in Pipes /\ PipeOf(l, i)[1] \in 1..(l - 1)
                                /\ PipeOf(l, i)[2] \in Outs(PipeOf(l, i)[1])
                                /\ Op(PipeOf(l, i)[1]).give[PipeOf(l, i)[2]] # HostValue
      /\ From(l, i) = "lent" => PipeOf(l, i) \in Pipes /\ PipeOf(l, i)[1] = l /\ PipeOf(l, i)[2] = 2 + i
  BY <1>1, PipeShape, InletShape
<1>6. ASSUME pc = "walk", l >= at
      PROVE  /\ OwnCell(l, i) => cells[<<l, i>>] = "full"
             /\ From(l, i) = "pipe" /\ PipeOf(l, i)[1] < at => pipes[PipeOf(l, i)] # Nothing
             /\ From(l, i) = "lent" /\ pipes[PipeOf(l, i)] = Nothing => excused
  BY <1>6 DEF Fed
<1>7. CASE StartSync
  <2>1. at' = 1 /\ pipes' = pipes /\ cells' = cells /\ excused' = Lacking /\ CheckReady  BY <1>7 DEF StartSync
  <2>2. OwnCell(l, i) => cells'[<<l, i>>] = "full"  BY <2>1 DEF CheckReady
  <2>3. From(l, i) = "pipe" => ~(PipeOf(l, i)[1] < at')
    <3>1. From(l, i) = "pipe" => PipeOf(l, i)[1] \in Nat \ {0}  BY <1>4, <1>5
    <3> QED  BY <2>1, <3>1
  <2>4. ASSUME From(l, i) = "lent", pipes[PipeOf(l, i)] = Nothing PROVE Lacking
    <3>1. pipes[Inlet(l, i)] = Nothing  BY <2>4 DEF PipeOf
    <3> QED  BY <2>4, <3>1 DEF Lacking
  <2>5. ASSUME From(l, i) = "lent", pipes'[PipeOf(l, i)] = Nothing PROVE excused'
    <3>1. Lacking  BY <2>1, <2>4, <2>5
    <3> QED  BY <2>1, <3>1, Zenon
  <2> QED  BY <2>2, <2>3, <2>5
<1>8. ASSUME NEW k \in DOMAIN graph, Runs(k) PROVE Has(l, i)
  <2> DEFINE outs == [p \in Outs(k) |-> Output(k, p)]
             ps == PipesLess(k, Args(k))
             homes == Consumed(k) \cup Overwritten(ps, k, outs)
  <2>1. Ready(k) /\ pc = "walk" /\ at = k /\ at' = k + 1 /\ pipes' = Filled(ps, k, outs) /\ excused' = excused
        /\ cells' = Refill(CellsLess(k, Args(k)), homes)
    BY <1>3, <1>8 DEF Runs, Ready, Walking, Next1
  <2>2. DOMAIN outs = Outs(k) /\ (\A p \in Outs(k) : outs[p] = Output(k, p)) /\ DOMAIN ps = Pipes
    BY <1>1 DEF PipesLess
  <2>3. l > k /\ l # k /\ l >= at /\ k \in Nat  BY <1>1, <1>3, <1>4, <2>1, LeafShape
  <2>4. OwnCell(l, i) => cells'[<<l, i>>] = "full"
    <3> HIDE DEF homes
    <3>1. OwnCell(l, i) => cells[<<l, i>>] = "full"  BY <1>6, <2>1, <2>3
    <3>2. OwnCell(l, i) => CellsLess(k, Args(k))[<<l, i>>] = "full"  BY <1>4, <2>3, <3>1 DEF CellsLess
    <3>3. OwnCell(l, i) => <<l, i>> \in DOMAIN CellsLess(k, Args(k))  BY <1>4 DEF CellsLess
    <3> QED  BY <2>1, <3>2, <3>3 DEF Refill
  <2>5. ~OwnCell(l, i) => ps[PipeOf(l, i)] = pipes[PipeOf(l, i)]
    <3> SUFFICES ASSUME ~OwnCell(l, i) PROVE ps[PipeOf(l, i)] = pipes[PipeOf(l, i)]
      OBVIOUS
    <3>1. From(l, i) = "pipe" \/ From(l, i) = "lent"  BY <1>1, FromShape
    <3>2. PipeOf(l, i) \in Pipes  BY <1>5, <3>1
    <3>3. ~\E a \in Args(k) : ~OwnCell(k, a) /\ PipeOf(l, i) = PipeOf(k, a)  BY <1>1, <2>3, PipesInjective
    <3> QED  BY <1>1, <3>2, <3>3 DEF PipesLess
  <2>6. ASSUME From(l, i) = "pipe", PipeOf(l, i)[1] < at' PROVE pipes'[PipeOf(l, i)] # Nothing
    <3> DEFINE x == PipeOf(l, i)
    <3>1. x \in Pipes /\ x[1] \in Nat /\ x[2] \in Outs(x[1]) /\ Op(x[1]).give[x[2]] # HostValue
      BY <1>4, <1>5, <2>6
    <3>2. ps[x] = pipes[x]  BY <2>5, <2>6 DEF OwnCell
    <3>3. x[1] < at => pipes[x] # Nothing  BY <1>6, <2>1, <2>3, <2>6
    <3>4. x[1] < k + 1  BY <2>1, <2>6
    <3> HIDE DEF x, outs, ps
    <3>5. CASE x[1] = k
      <4>1. pipes'[x] = Output(k, x[2])  BY <2>1, <2>2, <3>1, <3>5 DEF Filled
      <4> QED  BY <2>1, <3>1, <3>5, <4>1, DepositFull DEF x
    <3>6. CASE x[1] # k
      <4>1. x[1] < at  BY <2>1, <2>3, <3>1, <3>4, <3>6
      <4>2. pipes'[x] = ps[x]  BY <2>1, <2>2, <3>1, <3>6 DEF Filled
      <4> QED  BY <3>2, <3>3, <4>1, <4>2 DEF x
    <3> QED  BY <3>5, <3>6
  <2>7. ASSUME From(l, i) = "lent", pipes'[PipeOf(l, i)] = Nothing PROVE excused'
    <3> DEFINE x == PipeOf(l, i)
    <3>1. x \in Pipes /\ x[1] # k /\ ps[x] = pipes[x]  BY <1>5, <2>3, <2>5, <2>7 DEF OwnCell
    <3> HIDE DEF x, outs, ps
    <3>2. pipes'[x] = pipes[x]  BY <2>1, <2>2, <3>1 DEF Filled
    <3>3. pipes[PipeOf(l, i)] = Nothing  BY <2>7, <3>2 DEF x
    <3>4. excused  BY <1>6, <2>1, <2>3, <2>7, <3>3
    <3> QED  BY <2>1, <3>4, Zenon
  <2> HIDE DEF outs, ps, homes
  <2> QED  BY <2>4, <2>6, <2>7
<1>9. ASSUME NEW k \in DOMAIN graph, Seeds(k) PROVE Has(l, i)
  <2> DEFINE out == <<Output(k, 1)>>
  <2>1. pc = "walk" /\ at = k /\ at' = k + 1 /\ pipes' = Filled(pipes, k, out) /\ excused' = excused
        /\ cells' = [cells EXCEPT ![<<k, 0>>] = "out"] /\ Op(k).seeds
    BY <1>3, <1>9 DEF Seeds, Walking, Next1
  <2>2. DOMAIN out = {1} /\ out[1] = Output(k, 1)  OBVIOUS
  <2> HIDE DEF out
  <2>3. l > k /\ l # k /\ l >= at /\ k \in Nat \ {0}  BY <1>1, <1>3, <1>4, <2>1, LeafShape
  <2>4. OwnCell(l, i) => cells'[<<l, i>>] = "full"  BY <1>4, <1>6, <2>1, <2>3
  <2>5. Output(k, 1) # Nothing
    <3>1. Op(k).give = <<Made>>  BY <1>1, <2>1, LeafShape
    <3>2. Op(k).give[1] = Made  BY <3>1
    <3>3. Made # HostValue  BY DEF Made, HostValue
    <3>4. Output(k, 1).buf = IF Op(k).give[1] = HostValue THEN None ELSE Buf(k, Op(k).give[1])  BY <1>1, OutputParts
    <3>5. Output(k, 1).buf = <<k, 0>>  BY <2>1, <3>2, <3>3, <3>4 DEF Buf
    <3> QED  BY <2>3, <3>5 DEF Nothing
  <2>6. ASSUME From(l, i) = "pipe", PipeOf(l, i)[1] < at' PROVE pipes'[PipeOf(l, i)] # Nothing
    <3> DEFINE x == PipeOf(l, i)
    <3>1. x \in Pipes /\ x[1] \in Nat  BY <1>4, <1>5, <2>6
    <3>2. x[1] < at => pipes[x] # Nothing  BY <1>6, <2>1, <2>3, <2>6
    <3>3. x[1] < k + 1  BY <2>1, <2>6
    <3> HIDE DEF x
    <3>4. CASE x[1] = k /\ x[2] = 1  BY <1>1, <2>1, <2>2, <2>5, <3>1, <3>4 DEF x, Filled
    <3>5. CASE x[1] = k /\ x[2] # 1
      <4>1. Outs(k) = {1}  BY <1>1, <2>1, LeafShape
      <4> QED  BY <1>5, <2>6, <3>5, <4>1 DEF x
    <3>6. CASE x[1] # k
      <4>1. x[1] < at  BY <2>1, <2>3, <3>1, <3>3, <3>6
      <4>2. pipes'[x] = pipes[x]  BY <1>1, <2>1, <2>2, <3>1, <3>6 DEF Filled
      <4> QED  BY <3>2, <4>1, <4>2 DEF x
    <3> QED  BY <3>4, <3>5, <3>6
  <2>7. ASSUME From(l, i) = "lent", pipes'[PipeOf(l, i)] = Nothing PROVE excused'
    <3> DEFINE x == PipeOf(l, i)
    <3>1. x \in Pipes /\ x[1] # k  BY <1>5, <2>3, <2>7
    <3> HIDE DEF x
    <3>2. pipes'[x] = pipes[x]  BY <1>1, <2>1, <2>2, <3>1 DEF Filled
    <3>3. pipes[PipeOf(l, i)] = Nothing  BY <2>7, <3>2 DEF x
    <3>4. excused  BY <1>6, <2>1, <2>3, <2>7, <3>3
    <3> QED  BY <2>1, <3>4, Zenon
  <2> QED  BY <2>4, <2>6, <2>7
<1>10. ASSUME pc = "walk", UNCHANGED <<at, pipes>>, excused => excused',
              OwnCell(l, i) => cells'[<<l, i>>] = cells[<<l, i>>]
       PROVE  Has(l, i)
  BY <1>3, <1>6, <1>10
<1>11. ASSUME NEW h \in held, DropCheckout(h) \/ IntoInner(h) PROVE Has(l, i)
  <2>1. pc = "walk" /\ l >= at /\ UNCHANGED <<at, pipes>> /\ (excused => excused')
    BY <1>3, <1>11 DEF DropCheckout, IntoInner
  <2>2. OwnCell(l, i) => cells[<<l, i>>] = "full"  BY <1>6, <2>1
  <2>3. h.home \in DOMAIN cells /\ cells[h.home] = "out"  BY <1>1 DEF Apart
  <2>4. OwnCell(l, i) => <<l, i>> # h.home  BY <2>2, <2>3
  <2>5. OwnCell(l, i) => cells'[<<l, i>>] = cells[<<l, i>>]  BY <1>4, <1>11, <2>4 DEF DropCheckout, IntoInner, Refill
  <2> QED  BY <1>10, <2>1, <2>5
<1>12. CASE UNCHANGED <<pc, at, pipes, cells, excused>>
  <2>1. excused => excused'  BY <1>12, Zenon
  <2> QED  BY <1>3, <1>10, <1>12, <2>1
<1>13. ~Transfers /\ ~Mopped /\ ~SyncReturns /\ ~Inside
       /\ (\A k \in DOMAIN graph : ~Unready(k) /\ ~Refused(k) /\ ~SeedFails(k)) /\ (\A z \in Undelivered : ~Reclaim(z))
  <2>1. ~Inside  BY <1>1, <1>3 DEF Inside, Next1, Fails, Phases
  <2> QED  BY <1>3, <2>1 DEF Transfers, Mopped, SyncReturns, Unready, Refused, SeedFails, Fails, Reclaim
<1> QED
  BY <1>7, <1>8, <1>9, <1>11, <1>12, <1>13 DEF Next, Device, Finish, vars

LEMMA RearmedBetween ==
  ASSUME Base, Clean, Claimed
  PROVE  Rearmed
<1>1. graph \in Programs /\ TypeOK /\ DOMAIN pipes = Pipes  BY DEF Base, TypeOK
<1>2. SUFFICES ASSUME pc = "idle", NEW c \in DOMAIN cells, cells[c] = "out"
               PROVE  \/ \E h \in held : h.home = c
                      \/ \E p \in DOMAIN pipes : p[2] \notin Outs(p[1]) /\ pipes[p].home = c
  BY DEF Rearmed
<1>3. c # None  BY <1>1, CellsNotNone
<1>4. inline.back = {}  BY <1>2, OutsideEmpty DEF Base, Phases
<1>5. ASSUME NEW x \in Pipes, pipes[x].home = c PROVE x[2] \notin Outs(x[1])
  <2>1. pipes[x] # Nothing  BY <1>3, <1>5 DEF Nothing
  <2> QED  BY <1>2, <2>1 DEF Clean, OutPipes
<1> QED  BY <1>1, <1>2, <1>4, <1>5 DEF Claimed

\* Rearmed: a graph whose leaves keep the homes of what they take has every cell back, or
\* on its way, when sync returns, whatever was refused on the way.
THEOREM CellsRearmed ==
  (\A g \in Programs : DrainsAll(g) /\ HomeSafe(g) /\ LentFirst(g)) => (Spec => []Rearmed)
<1> SUFFICES ASSUME \A g \in Programs : DrainsAll(g) /\ HomeSafe(g) /\ LentFirst(g) PROVE Spec => []Rearmed
  OBVIOUS
<1> DEFINE IInv == Tracked /\ Clean /\ HomesIn /\ Fed /\ Claimed
<1>1. Init => IInv
  <2>1. Init => Fed  BY DEF Init, Fed
  <2> QED  BY <2>1, TrackedInit, CleanInit, HomesInit, ClaimedInit
<1>2. IInv /\ [Next]_vars => IInv'
  <2> SUFFICES ASSUME IInv, [Next]_vars PROVE IInv'
    OBVIOUS
  <2>1. Base /\ Real /\ DrainsAll(graph) /\ HomeSafe(graph) /\ LentFirst(graph)  BY DEF Tracked, Base, TypeOK
  <2> QED  BY <2>1, TrackedStep, CleanStep, HomesStep, FedStep, ClaimedStep
<1>3. IInv => Rearmed  BY RearmedBetween DEF Tracked
<1> HIDE DEF IInv
<1> QED  BY <1>1, <1>2, <1>3, PTL DEF Spec

-----------------------------------------------------------------------------
(* Failed runs.                                                            *)

\* Until something is refused or kept, the walk finds the buffers of the leaves ahead of it
\* in their cells.
KeptIn ==
  pc = "walk" /\ ~excused =>
    \A k \in DOMAIN graph : Op(k).seeds /\ k >= at => cells[<<k, 0>>] \in {"new", "full"}

LEMMA KeptInStep ==
  ASSUME Base, Rearmed, KeptIn, [Next]_vars
  PROVE  KeptIn'
<1>1. graph \in Programs /\ TypeOK /\ Phases /\ Inlets /\ DOMAIN pipes = Pipes  BY DEF Base, TypeOK
<1>2. graph' = graph  BY SameGraph DEF vars
<1>3. SUFFICES ASSUME pc' = "walk", ~excused', NEW l \in DOMAIN graph, Op(l).seeds, l >= at'
               PROVE  cells'[<<l, 0>>] \in {"new", "full"}
  BY <1>2 DEF KeptIn, Op, Leaf
<1>4. l \in Nat \ {0} /\ <<l, 0>> \in DOMAIN cells /\ cells[<<l, 0>>] \in {"new", "full", "out", "taken"}
      /\ DOMAIN graph = 1..Final /\ Final \in Nat
  BY <1>1, <1>3, SeedCell, FinalLeaf, LeafShape DEF TypeOK
<1>5. ASSUME pc = "walk", l >= at, ~excused PROVE cells[<<l, 0>>] \in {"new", "full"}
  BY <1>3, <1>5 DEF KeptIn
<1>6. CASE StartSync
  <2>1. pc = "idle" /\ cells' = cells  BY <1>6 DEF StartSync
  <2>2. ~Lacking
    <3>1. excused' = Lacking  BY <1>6 DEF StartSync
    <3> QED  BY <1>3, <3>1, Zenon
  <2>3. held = {} /\ cells[<<l, 0>>] # "taken"  BY <1>4, <2>2 DEF Lacking
  <2>4. cells[<<l, 0>>] # "out"
    <3> SUFFICES ASSUME cells[<<l, 0>>] = "out" PROVE FALSE
      OBVIOUS
    <3>1. PICK x \in Pipes : x[2] \notin Outs(x[1]) /\ pipes[x].home = <<l, 0>>
      BY <1>1, <1>4, <2>1, <2>3 DEF Rearmed
    <3>2. pipes[x] # Nothing  BY <1>4, <3>1 DEF Nothing, None
    <3>3. x[2] > 2 /\ pipes[x] = Lent(x)  BY <1>1, <3>1, <3>2 DEF Inlets
    <3>4. pipes[x].home[2] = x[2] - 2  BY <3>3 DEF Lent
    <3>5. x[2] \in 1..4  BY <1>1, PlaceShape
    <3> QED  BY <3>1, <3>3, <3>4, <3>5
  <2> QED  BY <1>4, <2>1, <2>3, <2>4
<1>7. ASSUME NEW k \in DOMAIN graph, Runs(k) PROVE cells'[<<l, 0>>] \in {"new", "full"}
  <2> DEFINE homes == Consumed(k) \cup Overwritten(PipesLess(k, Args(k)), k, [p \in Outs(k) |-> Output(k, p)])
  <2>1. pc = "walk" /\ at = k /\ at' = k + 1 /\ excused' = excused /\ cells' = Refill(CellsLess(k, Args(k)), homes)
    BY <1>3, <1>7 DEF Runs, Ready, Walking, Next1
  <2> HIDE DEF homes
  <2>2. l >= at /\ ~excused
    <3>1. k \in Nat  BY <1>1, LeafShape
    <3>2. l >= at  BY <1>3, <1>4, <2>1, <3>1
    <3>3. ~excused  BY <1>3, <2>1, Zenon
    <3> QED  BY <3>2, <3>3
  <2>3. cells[<<l, 0>>] \in {"new", "full"}  BY <1>5, <2>1, <2>2
  <2>4. ASSUME NEW i \in Args(k) PROVE i # 0
    <3>1. i \in {1, 2}  BY <1>1, FromShape
    <3> QED  BY <3>1
  <2>5. CellsLess(k, Args(k))[<<l, 0>>] = cells[<<l, 0>>] /\ <<l, 0>> \in DOMAIN CellsLess(k, Args(k))
    BY <1>4, <2>4 DEF CellsLess
  <2> QED  BY <2>1, <2>3, <2>5 DEF Refill
<1>8. ASSUME NEW k \in DOMAIN graph, Seeds(k) PROVE cells'[<<l, 0>>] \in {"new", "full"}
  <2>1. pc = "walk" /\ at = k /\ at' = k + 1 /\ excused' = excused /\ cells' = [cells EXCEPT ![<<k, 0>>] = "out"]
    BY <1>3, <1>8 DEF Seeds, Walking, Next1
  <2>2. k \in Nat  BY <1>1, LeafShape
  <2>3. l >= at /\ l # k  BY <1>3, <1>4, <2>1, <2>2
  <2>4. ~excused  BY <1>3, <2>1, Zenon
  <2> QED  BY <1>4, <1>5, <2>1, <2>3, <2>4
<1>9. ASSUME NEW h \in held, DropCheckout(h) PROVE cells'[<<l, 0>>] \in {"new", "full"}
  <2>1. pc = "walk" /\ l >= at /\ excused' = excused /\ cells' = Refill(cells, {h.home})
    BY <1>3, <1>9 DEF DropCheckout
  <2>2. ~excused  BY <1>3, <2>1, Zenon
  <2> QED  BY <1>4, <1>5, <2>1, <2>2 DEF Refill
<1>10. ASSUME NEW h \in held, IntoInner(h) PROVE FALSE
  <2>1. excused' = TRUE  BY <1>10 DEF IntoInner
  <2> QED  BY <1>3, <2>1, Zenon
<1>11. CASE UNCHANGED <<pc, at, cells, excused>>
  <2>1. ~excused  BY <1>3, <1>11, Zenon
  <2> QED  BY <1>3, <1>5, <1>11, <2>1
<1>12. ~Transfers /\ ~Mopped /\ ~SyncReturns /\ ~Inside
       /\ (\A k \in DOMAIN graph : ~Unready(k) /\ ~Refused(k) /\ ~SeedFails(k)) /\ (\A z \in Undelivered : ~Reclaim(z))
  <2>1. ~Inside  BY <1>1, <1>3, <1>4 DEF Inside, Next1, Fails, Phases
  <2> QED  BY <1>3, <2>1 DEF Transfers, Mopped, SyncReturns, Unready, Refused, SeedFails, Fails, Reclaim
<1> QED
  BY <1>6, <1>7, <1>8, <1>9, <1>10, <1>11, <1>12 DEF Next, Device, Finish, vars

LEMMA ReplaysStep ==
  ASSUME Base, SeedMarks(graph), Fed, KeptIn, Replays, [Next]_vars
  PROVE  Replays'
<1>1. graph \in Programs /\ TypeOK /\ Phases  BY DEF Base, TypeOK
<1>2. SUFFICES ASSUME pc' = "failed" PROVE excused'
  BY DEF Replays
<1>3. CASE Inside
  <2>1. excused' = TRUE  BY <1>2, <1>3 DEF Inside, Next1
  <2> QED  BY <2>1, Zenon
<1>4. ASSUME NEW k \in DOMAIN graph, Refused(k) PROVE excused'
  <2>1. excused' = TRUE  BY <1>4 DEF Refused
  <2> QED  BY <2>1, Zenon
<1>5. ASSUME NEW k \in DOMAIN graph, Unready(k) PROVE excused'
  <2>1. PICK i \in Args(k) : ~Resolvable(k, i)  BY <1>5 DEF Unready
  <2>2. excused /\ excused' = excused  BY <1>1, <1>5, <2>1, MissingLent DEF Unready
  <2> QED  BY <2>2, Zenon
<1>6. ASSUME NEW k \in DOMAIN graph, SeedFails(k) PROVE excused'
  <2>1. pc = "walk" /\ at = k /\ Op(k).seeds /\ k \in Nat  BY <1>1, <1>6, LeafShape DEF SeedFails, Walking
  <2>2. CASE excused' = TRUE  BY <2>2, Zenon
  <2>3. CASE /\ \/ cells[<<k, 0>>] \in {"out", "taken"}
                \/ cells[<<k, 0>>] = "full" /\ Reseeds(Leaf(k).mark) /\ ~HostWritable(Leaf(k).mark)
             /\ excused' = excused
    <3>1. Reseeds(Leaf(k).mark) => HostWritable(Leaf(k).mark)  BY <2>1 DEF SeedMarks, Op, Leaf
    <3>2. cells[<<k, 0>>] \in {"out", "taken"}  BY <2>3, <3>1
    <3>3. k >= at  BY <2>1
    <3>4. ~(~excused)  BY <2>1, <3>2, <3>3 DEF KeptIn
    <3> QED  BY <2>3, <3>4, Zenon
  <2> QED  BY <1>6, <2>2, <2>3 DEF SeedFails
<1>7. CASE UNCHANGED <<pc, excused>>
  <2>1. excused  BY <1>2, <1>7 DEF Replays
  <2> QED  BY <1>7, <2>1, Zenon
<1>8. ASSUME NEW h \in held, IntoInner(h) PROVE excused'
  <2>1. excused' = TRUE  BY <1>8 DEF IntoInner
  <2> QED  BY <2>1, Zenon
<1>9. /\ ~StartSync /\ ~Transfers /\ ~Mopped /\ ~SyncReturns
      /\ \A k \in DOMAIN graph : ~Runs(k) /\ ~Seeds(k)
  BY <1>2 DEF StartSync, Transfers, Mopped, SyncReturns, Runs, Seeds, Next1
<1> QED
  BY <1>3, <1>4, <1>5, <1>6, <1>7, <1>8, <1>9 DEF Next, Reclaim, DropCheckout, Device, Finish, vars

\* Replays: such a graph, whose host may write what it seeds at each run, runs again and
\* again, unless the driver refuses something or the caller keeps what the run needs.
THEOREM RunsReplay ==
  (\A g \in Programs : DrainsAll(g) /\ HomeSafe(g) /\ LentFirst(g) /\ SeedMarks(g)) => (Spec => []Replays)
<1> SUFFICES ASSUME \A g \in Programs : DrainsAll(g) /\ HomeSafe(g) /\ LentFirst(g) /\ SeedMarks(g)
             PROVE  Spec => []Replays
  OBVIOUS
<1> DEFINE IInv == Tracked /\ Fed /\ KeptIn /\ Replays
<1>1. Spec => []Rearmed  BY CellsRearmed
<1>2. Init => IInv
  <2>1. Init => Fed /\ KeptIn /\ Replays  BY DEF Init, Fed, KeptIn, Replays
  <2> QED  BY <2>1, TrackedInit
<1>3. IInv /\ Rearmed /\ [Next]_vars => IInv'
  <2> SUFFICES ASSUME IInv, Rearmed, [Next]_vars PROVE IInv'
    OBVIOUS
  <2>1. Base /\ Real /\ SeedMarks(graph)  BY DEF Tracked, Base, TypeOK
  <2> QED  BY <2>1, TrackedStep, FedStep, KeptInStep, ReplaysStep
<1>4. IInv => Replays  OBVIOUS
<1> HIDE DEF IInv
<1> QED  BY <1>1, <1>2, <1>3, <1>4, PTL DEF Spec
===============================================================================
