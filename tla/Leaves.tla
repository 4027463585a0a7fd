------------------------------- MODULE Leaves -------------------------------
(***************************************************************************)
(* The leaves of a graph, outside command buffers, under the blocking      *)
(* terminal: where each finds its operands, what it enqueues on them, and  *)
(* what becomes of the buffers and of the cells they were lent from when   *)
(* an enqueue is refused, a value is discarded, or the graph runs again.   *)
(* (src/claspr/src/eager/leaves.rs, eager/combinators.rs, eager.rs,        *)
(* image.rs, copy.rs, and the code src/claspr-macros/src/lib.rs emits for  *)
(* a kernel)                                                               *)
(*                                                                         *)
(* A graph is a sequence of leaves in walk order, each [op, mark, in]: the *)
(* kind of the leaf, the access marker of the buffer it makes, and where   *)
(* each operand comes from.  The outputs of the last leaf become the       *)
(* caller's Checkouts; those of others that no operand names are           *)
(* discarded.  A cell belongs to one operand, <<leaf, operand>>, or, for a *)
(* leaf that keeps the buffer it made, to the leaf, <<leaf, 0>>.           *)
(*                                                                         *)
(* The caller lets the device finish before it runs a graph again.         *)
(***************************************************************************)
EXTENDS Integers, Sequences, FiniteSets

CONSTANTS
  Programs,  \* the graphs, a set
  MaxRuns,   \* how often a graph is run
  MayRefuse  \* the driver may refuse an enqueue, or report a command's failure

VARIABLES
  graph,   \* the graph
  run,     \* the number of its run
  pc,      \* what the thread that runs it does next
  at,      \* the leaf its walk has reached
  cells,   \* cells[c]: "new" (never filled), "full", "out" or "taken"
  pipes,   \* pipes[<<k, p>>]: what output p of leaf k, or a lent pipe, holds
  held,    \* the Checkouts in the caller's hands
  inline,  \* what a leaf that waits inside execute will deposit
  pend,    \* the commands enqueued and not finished
  dirty,   \* the kept buffers that no longer hold what they were seeded with
  noted,   \* note_host_transfer: commands on memory the caller lends
  excused  \* the run may fail: something it needs is out, or was refused

vars == <<graph, run, pc, at, cells, pipes, held, inline, pend, dirty, noted, excused>>

Leaf(k) == graph[k]
Op(k) == graph[k].op
Final == Len(graph)
None == <<0, 0>>      \* no buffer, or no home
Nothing == [buf |-> <<0, 1>>, home |-> None, deps |-> {}]   \* an empty pipe
Outside == [outs |-> <<>>, back |-> {}]                     \* no leaf waits inside
Minted(k) == <<k, 10 + run>>
Inlet(k, i) == <<k, 2 + i>> \* the pipe Input::lent loads for an operand
Args(k) == DOMAIN Leaf(k).in
Outs(k) == DOMAIN Op(k).give

-----------------------------------------------------------------------------
(* The kinds of leaves.  For each operand, `take` says whether its home is *)
(* kept or dropped; for each output, `give` says which operand it is, or   *)
(* Made (a buffer the leaf made) or HostValue.  `does` is "nothing",       *)
(* "host" (work of the host that cannot fail), "try" (that can), "enqueue",*)
(* or "wait" (a leaf the terminal drives in Blocking mode waits for its    *)
(* command inside execute).  `guard`: when it fails the operands go home.  *)
(* `seeds`: the leaf keeps its buffer and seeds it.  `borrows`: the command*)
(* uses memory the caller lends.  `reclaims`: reclaim_undelivered drains   *)
(* its pipes.                                                              *)

Made == 0
HostValue == 3

Plain == [take |-> <<>>, give |-> <<Made>>, reads |-> {}, writes |-> {}, does |-> "try",
          guard |-> FALSE, seeds |-> FALSE, borrows |-> FALSE, reclaims |-> TRUE]
InPlace == [Plain EXCEPT !.take = <<"home">>, !.give = <<1>>, !.does = "enqueue", !.guard = TRUE]
Homeless == [InPlace EXCEPT !.take = <<"drop">>, !.guard = FALSE]

\* Heads: they keep a buffer and seed it, or make one at each run.
Upload == [Plain EXCEPT !.seeds = TRUE]
ScalarUpload == Upload
UploadTensor == Upload
UsmSlice == Upload
AllocZero == Plain
AllocUninit == Plain
ImageUpload == [Plain EXCEPT !.does = "enqueue", !.writes = {Made}]

\* No work.
Value == [Plain EXCEPT !.give = <<HostValue>>, !.does = "host"]
Lift == [InPlace EXCEPT !.does = "host"]
Forward == Lift

\* In place.
Fill == [InPlace EXCEPT !.writes = {1}, !.does = "wait"]
FillMapped == Fill
WriteDevice == Fill
WriteMapped == Fill
TransferToDevice == [InPlace EXCEPT !.reads = {1}]
ReadInto == [InPlace EXCEPT !.reads = {1}, !.does = "wait", !.borrows = TRUE]
ImageWrite == [InPlace EXCEPT !.writes = {1}, !.does = "wait", !.borrows = TRUE]
ImageRead == ReadInto
ImageFill == [InPlace EXCEPT !.writes = {1}]

\* Into a host value: the buffer goes home at once.
Download == [InPlace EXCEPT !.give = <<HostValue>>, !.reads = {1}, !.does = "wait"]
ImageDownload == [Homeless EXCEPT !.give = <<HostValue>>, !.reads = {1}]

\* From uninitialised to initialised storage, and to and from a host view.
FillDeviceUninit == [Homeless EXCEPT !.writes = {1}, !.does = "wait"]
FillMappedUninit == FillDeviceUninit
WriteDeviceUninit == FillDeviceUninit
WriteMappedUninit == FillDeviceUninit
FillUsmUninit == [Homeless EXCEPT !.does = "host"]
WriteUsmUninit == [FillUsmUninit EXCEPT !.does = "try"]
AcquireView == [Homeless EXCEPT !.writes = {1}]
ReleaseView == AcquireView

\* Two operands, two outputs.
CopyTo2 == [InPlace EXCEPT !.take = <<"home", "home">>, !.give = <<1, 2>>, !.reads = {1}, !.writes = {2}]
\* It has no reclaim_undelivered of its own, and no output_pipe for the default.
ImageCopy == [CopyTo2 EXCEPT !.reclaims = FALSE]
\* A kernel with one output drops its buffer when the launch is refused; with
\* several it sends them home.
Kernel1 == [InPlace EXCEPT !.writes = {1}, !.guard = FALSE]
KernelN == CopyTo2

-----------------------------------------------------------------------------
(* What the types of the code ask of a graph: operands are those its leaves *)
(* take, an output is moved to at most one later leaf, and a leaf that      *)
(* keeps a buffer has no operand.                                           *)

WellTyped(g) ==
  /\ Len(g) \in Nat \ {0} /\ DOMAIN g = 1..Len(g)
  /\ \A k \in DOMAIN g :
       LET op == g[k].op
           args == DOMAIN g[k].in
       IN
       /\ args \in {{}, {1}, {1, 2}} /\ DOMAIN op.take = args
       /\ DOMAIN op.give \in {{1}, {1, 2}}
       /\ \A p \in DOMAIN op.give : op.give[p] \in {Made, HostValue} \cup args
       /\ \A p, q \in DOMAIN op.give : p # q => op.give[p] # op.give[q]
       /\ op.reads \cup op.writes \subseteq {Made} \cup args
       /\ op.seeds => args = {} /\ op.give = <<Made>> /\ op.does = "try"
       /\ \A i \in args :
            \/ g[k].in[i].from \in {"cell", "slot", "lent"}
            \/ /\ g[k].in[i].from = "pipe" /\ g[k].in[i].of \in (1..(k - 1)) \X {1, 2}
               /\ LET p == g[k].in[i].of IN
                  p[2] \in DOMAIN g[p[1]].op.give /\ g[p[1]].op.give[p[2]] # HostValue
  /\ \A k, l \in DOMAIN g : \A i \in DOMAIN g[k].in, j \in DOMAIN g[l].in :
       g[k].in[i].from = "pipe" /\ g[l].in[j].from = "pipe" /\ g[k].in[i].of = g[l].in[j].of
         => k = l /\ i = j

ASSUME ProgramAssumption == \A g \in Programs : WellTyped(g)

-----------------------------------------------------------------------------
(* Operands.                                                               *)

From(k, i) == Leaf(k).in[i].from      \* "cell", "slot", "pipe" or "lent"
PipeOf(k, i) == IF From(k, i) = "lent" THEN Inlet(k, i) ELSE Leaf(k).in[i].of
OwnCell(k, i) == From(k, i) \in {"cell", "slot"}

\* resolve_home, lend_from_cell, lend_slot: an operand is taken out of its cell,
\* with that cell as its home, or drained from its pipe.
Resolvable(k, i) ==
  IF OwnCell(k, i) THEN cells[<<k, i>>] = "full" ELSE pipes[PipeOf(k, i)] # Nothing
Operand(k, i) ==
  IF OwnCell(k, i) THEN [buf |-> <<k, i>>, home |-> <<k, i>>, deps |-> {}] ELSE pipes[PipeOf(k, i)]

\* The home an operand goes back to, when the leaf kept it.
HomeOf(k, i) == IF Op(k).take[i] = "home" THEN Operand(k, i).home ELSE None

\* The cells and pipes when operands of leaf k have been taken.
CellsLess(k, is) ==
  [c \in DOMAIN cells |-> IF \E i \in is : OwnCell(k, i) /\ c = <<k, i>> THEN "out" ELSE cells[c]]
PipesLess(k, is) ==
  [p \in DOMAIN pipes |-> IF \E i \in is : ~OwnCell(k, i) /\ p = PipeOf(k, i) THEN Nothing ELSE pipes[p]]

\* Buffers go home: Rehome::rehome, of a cell or a slot.
Refill(cs, homes) == [c \in DOMAIN cs |-> IF c \in homes THEN "full" ELSE cs[c]]

Pending == {c.id : c \in pend}
Buf(k, j) == IF j = Made THEN (IF Op(k).seeds THEN <<k, 0>> ELSE Minted(k)) ELSE Operand(k, j).buf
OperandDeps(k) == UNION {Operand(k, i).deps : i \in Args(k)}

\* A mutant of Command: the second operand's events are forgotten.
CommandFirst(k) ==
  [id |-> <<k, run>>, reads |-> {Buf(k, j) : j \in Op(k).reads},
   writes |-> {Buf(k, j) : j \in Op(k).writes},
   after |-> IF 1 \in Args(k) THEN Operand(k, 1).deps \cap Pending ELSE {}]

\* The command of leaf k waits for the events of its operands.
Command(k) ==
  [id |-> <<k, run>>, reads |-> {Buf(k, j) : j \in Op(k).reads},
   writes |-> {Buf(k, j) : j \in Op(k).writes}, after |-> OperandDeps(k) \cap Pending]
Enqueues(k) == Op(k).does \in {"enqueue", "wait"}

\* execute is in Blocking mode in the last leaf.
WaitsInside(k) == Op(k).does = "wait" /\ k = Final

\* A mutant of OutDeps: work of the host forgets the events it was handed.
OutDepsForgotten(k) == IF Enqueues(k) /\ ~WaitsInside(k) THEN {<<k, run>>} ELSE {}

\* The events that go with what a leaf deposits.
OutDeps(k) ==
  CASE WaitsInside(k) -> {}
    [] Enqueues(k) /\ ~WaitsInside(k) -> {<<k, run>>}
    [] OTHER -> OperandDeps(k)

\* What output p of leaf k deposits: put_home of an operand, put of the rest.
Output(k, p) ==
  LET j == Op(k).give[p] IN
  [buf |-> IF j = HostValue THEN None ELSE Buf(k, j),
   home |-> CASE j \in Args(k) -> HomeOf(k, j)
              [] j = Made /\ Op(k).seeds -> <<k, 0>>
              [] OTHER -> None,
   deps |-> OutDeps(k)]

\* Pipes with new payloads, and the homes of those they overwrite.
Filled(ps, k, outs) == [p \in DOMAIN ps |-> IF p[1] = k /\ p[2] \in DOMAIN outs THEN outs[p[2]] ELSE ps[p]]
Overwritten(ps, k, outs) == {ps[<<k, p>>].home : p \in {q \in DOMAIN outs : ps[<<k, q>>] # Nothing}}

-----------------------------------------------------------------------------
(* The walk.                                                               *)

\* check_ready: every cell a leaf lends from is full; a pipe always passes,
\* and so does a leaf that keeps its buffer.
CheckReady == \A k \in DOMAIN graph : \A i \in Args(k) : OwnCell(k, i) => cells[<<k, i>>] = "full"

\* The run needs something that is out: a buffer that the caller keeps, or a
\* lent pipe, which an earlier run has drained.
Lacking ==
  \/ held # {} \/ \E c \in DOMAIN cells : cells[c] = "taken"
  \/ \E k \in DOMAIN graph : \E i \in Args(k) : From(k, i) = "lent" /\ pipes[Inlet(k, i)] = Nothing

StartSync ==
  /\ pc = "idle" /\ run < MaxRuns /\ pend = {}
  /\ CheckReady
  /\ run' = run + 1 /\ pc' = "walk" /\ at' = 1
  /\ noted' = {} /\ excused' = Lacking
  /\ UNCHANGED <<graph, cells, pipes, held, inline, pend, dirty>>

Walking(k) == pc = "walk" /\ at = k
Next1 == IF at = Final THEN pc' = "mopup" /\ UNCHANGED at ELSE pc' = "walk" /\ at' = at + 1
Fails == pc' = "failed" /\ UNCHANGED at

\* An operand cannot be resolved: those before it are dropped, and their homes.
Unready(k) ==
  /\ Walking(k)
  /\ \E i \in Args(k) :
       /\ ~Resolvable(k, i) /\ \A j \in 1..(i - 1) : Resolvable(k, j)
       /\ cells' = CellsLess(k, 1..(i - 1)) /\ pipes' = PipesLess(k, 1..(i - 1))
  /\ Fails
  /\ UNCHANGED <<graph, run, held, inline, pend, dirty, noted, excused>>

Ready(k) == Walking(k) /\ ~Op(k).seeds /\ \A i \in Args(k) : Resolvable(k, i)

\* Homes to which buffers return as soon as the leaf has run: rehome_consumed.
Consumed(k) == {HomeOf(k, i) : i \in Args(k) \ {Op(k).give[p] : p \in Outs(k)}}

\* A mutant of Noted: a transfer of the caller's memory is not noted.
NotedNever(k) == noted

\* note_host_transfer: the command uses memory the caller lends.
Noted(k) == IF Op(k).borrows THEN noted \cup {<<k, run>>} ELSE noted

Runs(k) ==
  /\ Ready(k)
  /\ LET outs == [p \in Outs(k) |-> Output(k, p)]
         ps == PipesLess(k, Args(k))
     IN
     /\ pend' = IF Enqueues(k) THEN pend \cup {Command(k)} ELSE pend
     /\ IF WaitsInside(k)
        THEN /\ inline' = [outs |-> outs, back |-> {HomeOf(k, i) : i \in Args(k)}]
             /\ pc' = "inside" /\ UNCHANGED at
             /\ cells' = CellsLess(k, Args(k)) /\ pipes' = ps /\ UNCHANGED noted
        ELSE /\ pipes' = Filled(ps, k, outs)
             /\ cells' = Refill(CellsLess(k, Args(k)), Consumed(k) \cup Overwritten(ps, k, outs))
             /\ noted' = Noted(k)
             /\ Next1 /\ UNCHANGED inline
  /\ UNCHANGED <<graph, run, held, dirty, excused>>

\* A mutant of GoHome: a leaf that fails drops what it was lent.
GoHomeNever(k) == {}

\* LentGuard, or the rehome_consumed of a kernel or a copy.
GoHome(k) == IF Op(k).guard THEN {HomeOf(k, i) : i \in Args(k)} ELSE {}

\* The work of leaf k is refused.
Refused(k) ==
  /\ MayRefuse /\ Ready(k) /\ Op(k).does # "host"
  /\ cells' = Refill(CellsLess(k, Args(k)), GoHome(k)) /\ pipes' = PipesLess(k, Args(k))
  /\ excused' = TRUE
  /\ Fails
  /\ UNCHANGED <<graph, run, held, inline, pend, dirty, noted>>

\* The wait inside execute returns.
Inside ==
  /\ pc = "inside" /\ <<Final, run>> \notin Pending
  /\ inline' = Outside
  /\ \/ /\ pipes' = Filled(pipes, Final, inline.outs)
        /\ cells' = Refill(cells, Overwritten(pipes, Final, inline.outs) \cup
                     (inline.back \ {inline.outs[p].home : p \in DOMAIN inline.outs}))
        /\ Next1 /\ UNCHANGED excused
     \/ /\ MayRefuse
        /\ cells' = Refill(cells, IF Op(Final).guard THEN inline.back ELSE {})
        /\ Fails /\ excused' = TRUE /\ UNCHANGED pipes
  /\ UNCHANGED <<graph, run, held, pend, dirty, noted>>

-----------------------------------------------------------------------------
(* A leaf that keeps its buffer.                                           *)

\* UploadReseed::RESEED_ON_REPLAY, and whether the host may write the buffer.
Reseeds(mark) == mark \notin {"ReadOnly", "Frozen"}
HostWritable(mark) == mark \notin {"HostReadOnly", "Frozen", "DeviceScratch"}

\* A mutant of Seeds: seeded at the first run only.
SeedsOnce(k) ==
  /\ Walking(k) /\ Op(k).seeds /\ cells[<<k, 0>>] \in {"new", "full"}
  /\ cells' = [cells EXCEPT ![<<k, 0>>] = "out"]
  /\ dirty' = dirty
  /\ pipes' = Filled(pipes, k, <<Output(k, 1)>>)
  /\ Next1
  /\ UNCHANGED <<graph, run, held, inline, pend, noted, excused>>

\* It makes the buffer at the first run; later it writes the seed again, before
\* it returns and after nothing, unless the marker says that no kernel writes it.
Seeds(k) ==
  /\ Walking(k) /\ Op(k).seeds
  /\ \/ cells[<<k, 0>>] = "new" /\ UNCHANGED dirty
     \/ /\ cells[<<k, 0>>] = "full" /\ (Reseeds(Leaf(k).mark) => HostWritable(Leaf(k).mark))
        /\ dirty' = IF Reseeds(Leaf(k).mark) THEN dirty \ {<<k, 0>>} ELSE dirty
  /\ cells' = [cells EXCEPT ![<<k, 0>>] = "out"]
  /\ pipes' = Filled(pipes, k, <<Output(k, 1)>>)
  /\ Next1
  /\ UNCHANGED <<graph, run, held, inline, pend, noted, excused>>

\* The allocation or the write is refused, the buffer put back in its cell; or
\* an earlier run has not brought it back.
SeedFails(k) ==
  /\ Walking(k) /\ Op(k).seeds
  /\ \/ MayRefuse /\ (cells[<<k, 0>>] = "full" => Reseeds(Leaf(k).mark)) /\ excused' = TRUE
     \/ /\ \/ cells[<<k, 0>>] \in {"out", "taken"}
           \/ cells[<<k, 0>>] = "full" /\ Reseeds(Leaf(k).mark) /\ ~HostWritable(Leaf(k).mark)
        /\ UNCHANGED excused
  /\ Fails
  /\ UNCHANGED <<graph, run, cells, pipes, held, inline, pend, dirty, noted>>

-----------------------------------------------------------------------------
(* The end of a run.                                                       *)

\* wait_host_transfers of a run that failed.
Transfers ==
  /\ pc = "failed" /\ noted \cap Pending = {}
  /\ pc' = "unwind"
  /\ UNCHANGED <<graph, run, at, cells, pipes, held, inline, pend, dirty, noted, excused>>

Delivered == IF pc = "unwind" THEN {} ELSE {<<Final, p>> : p \in Outs(Final)}
\* A mutant of Undelivered: a run that failed leaves its pipes as they are.
UndeliveredMopped ==
  IF pc = "unwind" THEN {}
  ELSE {p \in DOMAIN pipes : /\ pipes[p] # Nothing /\ p[2] \in Outs(p[1]) /\ Op(p[1]).reclaims} \ Delivered

\* reclaim_undelivered: the pipes the walk filled that nothing has drained.
Undelivered ==
  {p \in DOMAIN pipes : /\ pipes[p] # Nothing /\ p[2] \in Outs(p[1]) /\ Op(p[1]).reclaims} \ Delivered

\* A discarded value goes home, after the work that made it.
Reclaim(p) ==
  /\ pc \in {"mopup", "unwind"}
  /\ pipes[p].deps \cap Pending = {}
  /\ cells' = Refill(cells, {pipes[p].home})
  /\ pipes' = [pipes EXCEPT ![p] = Nothing]
  /\ UNCHANGED <<graph, run, pc, at, held, inline, pend, dirty, noted, excused>>

Mopped ==
  /\ pc \in {"mopup", "unwind"} /\ Undelivered = {}
  /\ pc' = IF pc = "unwind" THEN "idle" ELSE "wait"
  /\ UNCHANGED <<graph, run, at, cells, pipes, held, inline, pend, dirty, noted, excused>>

Checkouts == {pipes[p] : p \in Delivered}

\* wait_deps_reconcile and wait_host_transfers: the Checkouts reach the caller,
\* or are dropped when a command has failed.
SyncReturns ==
  /\ pc = "wait"
  /\ (UNION ({c.deps : c \in Checkouts} \cup {noted})) \cap Pending = {}
  /\ \/ /\ held' = held \cup {[buf |-> c.buf, home |-> c.home] : c \in {d \in Checkouts : d.home # None}}
        /\ UNCHANGED cells
     \/ MayRefuse /\ cells' = Refill(cells, {c.home : c \in Checkouts}) /\ UNCHANGED held
  /\ pipes' = [p \in DOMAIN pipes |-> IF p \in Delivered THEN Nothing ELSE pipes[p]]
  /\ pc' = "idle"
  /\ UNCHANGED <<graph, run, at, inline, pend, dirty, noted, excused>>

\* What a caller does with a Checkout, from any thread: `drop` and `into_inner`.
DropCheckout(h) ==
  /\ held' = held \ {h} /\ cells' = Refill(cells, {h.home})
  /\ UNCHANGED <<graph, run, pc, at, pipes, inline, pend, dirty, noted, excused>>

IntoInner(h) ==
  /\ held' = held \ {h} /\ cells' = [cells EXCEPT ![h.home] = "taken"]
  /\ excused' = TRUE
  /\ UNCHANGED <<graph, run, pc, at, pipes, inline, pend, dirty, noted>>

\* The device runs a command when those it waits for are over.
Finish(c) ==
  /\ c.after \cap Pending = {}
  /\ pend' = pend \ {c}
  /\ dirty' = dirty \cup {b \in c.writes : b \in DOMAIN cells /\ b[2] = 0}
  /\ UNCHANGED <<graph, run, pc, at, cells, pipes, held, inline, noted, excused>>

-----------------------------------------------------------------------------

\* The cells of a graph: of its operands, of the leaves that keep a buffer, and
\* of the graphs elsewhere whose pipes it was lent.
CellsOf(g) ==
  (UNION {{<<k, i>> : i \in {j \in DOMAIN g[k].in : g[k].in[j].from # "pipe"}} : k \in DOMAIN g})
    \cup {<<k, 0>> : k \in {l \in DOMAIN g : g[l].op.seeds}}

\* A fresh graph: own cells are full, lent pipes loaded from cells elsewhere.
Init ==
  /\ graph \in Programs
  /\ run = 0 /\ pc = "idle" /\ at = 1
  /\ cells = [c \in CellsOf(graph) |-> IF c[2] = 0 THEN "new" ELSE IF OwnCell(c[1], c[2]) THEN "full" ELSE "out"]
  /\ pipes = [p \in (DOMAIN graph) \X (1..4) |->
       IF \E i \in Args(p[1]) : From(p[1], i) = "lent" /\ p = Inlet(p[1], i)
       THEN [buf |-> <<p[1], p[2] - 2>>, home |-> <<p[1], p[2] - 2>>, deps |-> {}]
       ELSE Nothing]
  /\ held = {} /\ inline = Outside /\ pend = {} /\ dirty = {} /\ noted = {} /\ excused = FALSE

Device == \E c \in pend : Finish(c)

Next ==
  \/ StartSync \/ Inside \/ Transfers \/ Mopped \/ SyncReturns
  \/ \E k \in DOMAIN graph : Unready(k)
  \/ \E k \in DOMAIN graph : Runs(k)
  \/ \E k \in DOMAIN graph : Refused(k)
  \/ \E k \in DOMAIN graph : Seeds(k)
  \/ \E k \in DOMAIN graph : SeedFails(k)
  \/ \E p \in Undelivered : Reclaim(p)
  \/ \E h \in held : DropCheckout(h)
  \/ \E h \in held : IntoInner(h)
  \/ Device

Spec == Init /\ [][Next]_vars

-----------------------------------------------------------------------------
(* What the theorems about a graph ask of it, beyond its types.            *)

\* Every leaf but the last has its discarded outputs reclaimed.  (A copy between images
\* does not: see ImageCopy.)
DrainsAll(g) == \A k \in 1..(Len(g) - 1) : g[k].op.reclaims

\* RO holds the outputs through which the buffers may go that a leaf seeds only once:
\* nothing that takes one of them writes to it.  (The access markers see to it.)
SeedKept(g, RO) ==
  /\ \A k \in DOMAIN g : g[k].op.seeds /\ ~Reseeds(g[k].mark) => <<k, 1>> \in RO
  /\ \A k \in DOMAIN g : \A i \in DOMAIN g[k].in :
       g[k].in[i].from = "pipe" /\ g[k].in[i].of \in RO =>
         /\ i \notin g[k].op.writes
         /\ \A p \in DOMAIN g[k].op.give : g[k].op.give[p] = i => <<k, p>> \in RO
SeedSafe(g) == \E RO \in SUBSET ((DOMAIN g) \X {1, 2}) : SeedKept(g, RO)

\* H holds the outputs through which a buffer with a home may go: a leaf that takes one of
\* them, or lends from a cell, keeps the home, and sends the buffer home when it fails.
HomesKept(g, H) ==
  /\ \A k \in DOMAIN g : g[k].op.seeds => <<k, 1>> \in H
  /\ \A k \in DOMAIN g : \A i \in DOMAIN g[k].in :
       g[k].in[i].from # "pipe" \/ g[k].in[i].of \in H =>
         /\ g[k].op.take[i] = "home"
         /\ g[k].op.guard \/ g[k].op.does = "host" \/ ~MayRefuse
         /\ \A p \in DOMAIN g[k].op.give : g[k].op.give[p] = i => <<k, p>> \in H
HomeSafe(g) == \E H \in SUBSET ((DOMAIN g) \X {1, 2}) : HomesKept(g, H)

\* A lent pipe is the first operand of its leaf: nothing is taken before it is missed.
LentFirst(g) == \A k \in DOMAIN g : \A i \in DOMAIN g[k].in : g[k].in[i].from = "lent" => i = 1

\* The host may write the buffers that are seeded at each run.
SeedMarks(g) == \A k \in DOMAIN g : g[k].op.seeds /\ Reseeds(g[k].mark) => HostWritable(g[k].mark)

-----------------------------------------------------------------------------

\* The commands on the device that those of D wait for, at any remove: the least
\* set that holds them and, with a command, what it waits for.
Closed(S) == \A c \in pend : c.id \in S => c.after \cap Pending \subseteq S
Reach(D) ==
  {i \in Pending : \A S \in SUBSET Pending : D \cap Pending \subseteq S /\ Closed(S) => i \in S}
Before(c) == Reach(c.after)

Conflict(c, d) == (c.writes \cap (d.reads \cup d.writes)) \cup (d.writes \cap c.reads) # {}

\* Of two commands on the device that conflict on a buffer, one waits for the
\* other: no wait list lost an event on the way from leaf to leaf.
Ordered == \A c, d \in pend : c # d /\ Conflict(c, d) => c.id \in Before(d) \/ d.id \in Before(c)

\* Once sync has returned from a whole walk, none of its commands is on the
\* device: what it waited for covers every leaf, discarded values included.
SyncCovers == [][pc = "wait" /\ pc' = "idle" => \A c \in pend : c.id[2] # run]_vars

\* When sync is over, however it ended, no command uses memory of the caller.
BorrowOver == pc = "idle" => \A c \in pend : ~Op(c.id[1]).borrows

\* A buffer that a leaf hands on as its seed holds the seed, in every run.
SeedsHold == \A k \in DOMAIN graph : Op(k).seeds /\ pipes[<<k, 1>>].home = <<k, 0>> => <<k, 0>> \notin dirty

\* After a run, however it ended, every cell has its buffer back, or a Checkout
\* will bring it; a cell lent from a pipe that is still loaded waits for a run.
Rearmed ==
  pc = "idle" => \A c \in DOMAIN cells : cells[c] = "out" =>
    \/ \E h \in held : h.home = c
    \/ \E p \in DOMAIN pipes : p[2] \notin Outs(p[1]) /\ pipes[p].home = c

\* A run fails only when the driver refuses something, or the caller keeps
\* something the run needs.
Replays == pc = "failed" => excused

=============================================================================
