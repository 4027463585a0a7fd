# claspr in TLA+

claspr is a Rust host library for OpenCL. A program composes *device ops* into
an op-tree (an eager graph), binds typed slots of the graph to buffers and
scalars, and runs it: `sync` blocks, `submit_*` hands back an event, `run` a
future. A graph is reusable: a run lends the buffers it needs, hands the outputs
out in `Checkout`s, and a dropped `Checkout` returns its buffer to the graph.
Where the driver has `cl_khr_command_buffer`, the commands of a seam-free region
are recorded once and replayed.

This directory holds models of the parts of `src/claspr/src` where state is
shared, ordered or cached, the configurations that check them with TLC, and
proofs for TLAPS.

## Inventory

| Component | State | Operations | Hard behaviour | What makes it correct |
|---|---|---|---|---|
| Graph inputs and homes (`eager.rs`, `eager/slots.rs`, the walks of `eager/combinators.rs`) | a cell per input (`SlotState`, `Cell`), a pipe per edge, one `BoxedHome` per lent buffer, the sink of deferred bind errors | `bind`, `call`, `feed`, `mutate_bind`, `mutate_call`, `sync`, `Checkout::drop`, `into_inner`, `Input::lent` | Checkouts dropped on any thread, at any point; binds that partly refuse; runs that fail in mid-walk | a lent buffer has one home and returns there; a failed run leaves the graph ready; a refused tuple bind changes nothing |
| Keyed command-buffer cache (`eager/cb.rs`) | per node: `bound`, `current`, `parked`; per run: `CbReach`; per context: `cb_disabled` | seed, rotate, build, replay, fall back | staleness over long sequences of binds; a refused bind; a replayed region in front of a rebuilt one | what is replayed was recorded for the values bound now |
| Host seams (`run_host_seam`, `wait_on`'s start gate) | user events `start`, `fire`, `proceed`; worker threads; the stashed error | walk, release, worker steps, join | workers, device and caller run concurrently; errors cascade through events | a run returns, reports the first failure, and no closure runs after a cancel |
| Walks, recording and software replay (`combinators.rs`, `leaves.rs`, `cb.rs`, `record.rs`, `exec_ctx.rs`) | the mode of the walk (`CbWalk`), sync points and traced slots per cell, the recorded list, the command buffer kept at a node | walk, record, seal at a seam, restamp, replay, reclaim | a span closed in mid-walk; a driver that refuses a command; nodes nobody gathers | every command runs once, on the buffers bound now, in the order of the data |
| Non-blocking terminals (`submit_*`, `op.rs`, `pending.rs`) | completion event, keep-alive callbacks, reaper | submit, wait, drop | a value outliving its terminal; a walk that fails half way | nothing is released before its event; a borrow ends with its transfers |
| Async futures (`future.rs`, `DeviceChainFuture`) | `done`, waker, worker handles | poll, callback, drop | callback racing poll; queues nobody flushes | no lost wakeup |
| Mapped, USM, host views (`mapped.rs`, `usm.rs`, `host_view.rs`, `buffer.rs`, `util.rs`) | the record of uses of an allocation, its guards | launch, map, view, deref, drop | a view over memory in use; an unmap nobody waits for | the host looks at memory no kernel uses; the free is last |
| Leaves (`eager/leaves.rs`, `image.rs`, `copy.rs`, `access.rs`, the code `claspr-macros` emits) | a kept buffer per upload, a pipe per output, `host_transfers` | `execute`, `reclaim_undelivered` of some forty kinds of leaf | each kind resolves, guards, hands on and brings home in its own way | every buffer comes home; borrowed memory is quiet when `sync` is over; a graph runs again |
| Context, devices, queues (`context.rs`, `queue.rs`) | a `OnceLock` and a `Mutex<Option>` per device, counted driver handles | look up, create, retain, invalidate, drop | races for a slot; a queue thrown away while others hold it | the driver's counts are those of the owners; one in-order queue per device; a failed one is not handed out |
| Tensor shapes, launch geometry (`tensor.rs`, `launch.rs`, the device side written by `claspr-build`) | the views, tiles and launches alive | slice, tile, split, join, rect, check, launch | wrapping arithmetic, overlapping strides, empty and ragged grids | tiles are disjoint; a rectangle copy moves the view; an unchecked kernel stays inside |

Interactions. `sync` calls `check_ready` and the walk (`gather_checkouts`),
which lends from cells and fills pipes; a `Checkout`'s drop writes a cell through
its home from whatever thread drops it. The bind verbs walk the same cells and
then broadcast a binding delta to the command-buffer caches of the nodes. A
boundary node replays or records while the walk lends. A host seam puts a worker
thread between two regions; it talks to the terminal by events, by the stash and
by being joined. Every walk ends in leaves, which enqueue on a queue of the
Context; a failed `run` throws that queue away. A kernel leaf checks its grid
against its buffers before it launches the variant without bounds checks.

## Modules

| Module | Models |
|---|---|
| `SlotGraph` | cells, pipes, homes and Checkouts of a set of graphs; the bind verbs; the blocking terminal of graphs without host seams |
| `Custody` | the abstract promise about each buffer that `SlotGraph` implements |
| `CbCache` | `CbLru` of every region of a graph, the bind verbs that feed it, the boundary protocol of a run |
| `HostSeam` | one run of a graph with host seams: start gate, workers, events, the error stash, the `sync` and `run` terminals |
| `OpTree` | one `sync` of a whole graph: its walk, command buffers, spans, seams, wrappers, fallback and reclaim; rebinds between syncs |
| `Storage` | one allocation, the commands on it, the record of uses, guards, views, derefs, the free |
| `Terminals` | the terminals that do not block, what keeps their values alive, the future |
| `Leaves` | every kind of leaf outside command buffers, as a table, and the runs of a sequence of them under `sync` |
| `Geometry` | tensor views, tiles, rectangle copies, and the checks of a launch against what its work-items touch |
| `Queues` | the default queues of a Context: creation, races, counted handles, invalidation, drop |
| `SlotGraph_proofs` | theorems about homes, runs, `Custody` and `mutate_call` |
| `OpTreeContracts` | what a walk of `OpTree` owes its caller, and the invariants between syncs: definitions that the proofs are about |
| `CbCache_proofs`, `HostSeam_proofs`, `OpTree_proofs`, `Storage_proofs`, `Leaves_proofs`, `Geometry_proofs` | theorems about these modules |
| `HostCalls_proofs` | theorems about `Terminals` and about `Queues`, whose definitions have names of their own (`QInit`, `QNext`, `QSpec`) |
| `MC*` | finite instances for TLC |

### SlotGraph

`st` is the state of every cell (`SlotState`; a concrete `Cell` is `Bound` or
`Taken`), `src` the pipe that feeds a slot. `place[b]` says where buffer `b` is
(a cell, a pipe, the tuple a terminal is gathering, a caller's hands) and which
cell its `BoxedHome` names. Rust's ownership makes `place` a function; that the
cells agree with it is the business of `Homed`, `SlotHome`, `LentGuard` and the
bind matrix, and is what is checked. A bind verb composes the moves `Sever`,
`Put` and `Drop` on a *world* (`st`, `src`, `place`). A verb is one step: a graph
is not `Sync`, and `&self` verbs on one thread cannot overlap. A Checkout is
`Send`, so drops and `into_inner` interleave with a run, leaf by leaf.

`sync` is `StartSync` (the pre-pass `check_ready`), one step per leaf
(`LeafRuns`, `LeafUnready`, `LeafRefused`), then on failure the gathered
Checkouts are dropped one by one (`Unwind`), in every case the pipes are
reclaimed (`Reclaim`, which waits for the producing command), and a run that
did not fail waits for the completion events (`SyncOk`, `SyncErr`).

Leaves are in place: what goes in comes out. The run of a leaf stands for any
leaf that carries its buffer onward (fill, kernels' buffer arguments). Leaves that
consume, mint or retype a buffer are in `Leaves`, with one graph and no bind verbs.

`Custody` states the promise for one buffer: armed, running, out, raw or
released, with at most one claim on a cell. `KeepsCustody` checks that each step
of `SlotGraph` is a step of `Custody` or leaves it alone.

### CbCache

A graph is a sequence of regions, each with the cells it bakes itself (`Own`)
and those whose buffer reaches it across a seam (`Through`). A value stands for
its `slot_digest`. `bound`, `current` and `parked` are the fields of `CbLru`;
a recording keeps its queue, its captured slots, its key and, for the property,
the values it really baked. `MutateBind` rotates (`CbLru::apply`),
`MutateBindRefused` is the error return of `fold_bind`, which skips the
broadcast. A run takes one step per region: `PerOp` (recording disabled or one
command), `Replay`, `Build`, `BuildRefused` (the software replay of a refused
recording), `BuildFails`. `reached` is what `CbReach` knows in this run.

Abstracted: a hash collision and a `cl_mem` handle reused after release (a value
is its digest); the arm of `apply` for an unkeyable cell, which no broadcasting
binder produces (`value_digest` is always set); one span collecting the digests
of cells beyond its own; feeding a pipe to a slot after a recording.

### HostSeam

One run of a graph with host seams. Nodes stand in walk order; a device node is
one command (a kernel, or the command buffer of a region), a seam is a node of
its own. `ev` holds the status of every event: the start event, a command or a
seam's map per node, and a seam's unmap, `fire` and `proceed`. `Gate`, `Deps` and
`Outs` are the wait lists the code builds.

The caller walks (`Enqueue`, `EnqueueSeam`, or a refusal: `Refused`, `MapRefused`,
`UnmapRefused`), enqueues the marker for `run` (`WalkEnds`, `MarkerRefused`),
completes the start event on every path (`Release`), waits (`WaitEnds`), joins the
workers (`Join`), reads the stash and reclaims (`Return`). A worker follows
`run_host_worker`: it waits for its source and reads the committed status
(`WorkerCancelled`, `WorkerSourceOk`), then its maps (`WorkerMapped`,
`WorkerMapFailed`), runs the closure (`ClosureReturns`, `ClosureFails`), stashes an
error (`Stash`), then completes `fire` and `proceed` (`Fire`, `SignalProceed`).
`fault` is a ghost: the seams whose own map or closure failed. `place` says where
each lent buffer is.

The driver runs a command when its wait list is complete and fails it at any time
once an event of the list has failed. `Strict` drivers also refuse to enqueue on
a failed event (rusticl). A wait may lose the failure of a seam (NEO, pocl); the
committed status of an event is always true.

Abstracted: one run of one graph; every map and unmap of a value as one command;
the joining marker of a bundle (its branches' events are waited for directly);
seams moved to another device; refused user events, failed flushes and a refused
keep-alive callback; the async future is polled to its end (dropped futures and
failed flushes are in `Terminals`). A node feeds one node: the events of a value two nodes read
are not shared.

### OpTree

The state between syncs is the graph, its slots and the command buffers its nodes
keep; `Sync` is one step, computed by `Exec`, `Gather` and `Collect`, which follow `execute`,
`gather_checkouts` and `collect` (or `collect_home`) of each node over a record of the walk: the log of
commands, the cells, the sync points of each frame, the traced slots. `ec` is the
execution context: per op, building or lending at a head, or suppressed in its
own fallback. The log says for each command what is over when it starts, whether
events, sync points or a host wait brought that about. A `Sync` may meet one
fault: an enqueue refused, a command the driver or claspr does not record, a
command buffer that cannot be created, sealed or enqueued, the marker of a bundle
(`"join"`), the queue of another device (`"queue"`), profiling or its marker
(`"profile"`), the callback of a profile (`"callback"`).

A wrapper (`Arced`, `Route`, `Profiled`) asks what it wraps to collect. A chain that is asked
to gather or to execute opens a span of its own or a command buffer for its tail, and looks
whether the span it is in has closed (`OpensSpan`, `GatherChild`, `SpanClosed`); one that is asked to collect
does neither (`ThenCollect`): its tail is asked in the same context, and a chain that goes on behind
a seam goes on recording into the command buffer that the seam sealed.

`MCOpTree` builds the graphs from sequences of operations, in every nesting of
`then`. `TameTrees` leaves out the shapes whose divergences are listed below, each
by a bound with a name (`Near`, `NoBarePass`, `NoPipes`, `NoBakedMint`,
`NoSplitArced`, `NoWrappedDiscard`). `NoSplitArced` leaves out every Arc of a chain whose span closes
inside it. Of these the code loses a command when the chain goes on to record behind the seam
(`optree_arc`), and when it does not, `Arced` still deposits its value without the
events of what ran after the seam, so that `Ordered` fails: then(arced(then(fill, write)), copy).

Abstracted: branches of a bundle beyond two; device images; the marker of a
bundle waits for what the code gives it, with no distinction of queues.
A graph is the sequence of its nodes, kids before their parent, so that what depends on
the kids is a recursive function of the nodes (`Addable`, `Weight`, `OutCells`, ...), and so is
the walk: `Visit[n]` maps what node `n` may be asked (`Questions`: to execute or to gather, in which
context, mode and state) to what it answers. `Graph` says what Rust's types make
true of every graph: an output is moved into one later node at most, a
slot is lent to one leaf, kids and operands fit, every node is below the last. TLC checks it of every graph of a run, as an
assumption.

### Storage

`cmds` are the commands enqueued on one allocation and `st` their states; `uses` is
the record (`in_use`, `last_use`, `in_flight`) that `record_use` prunes, `held` what
the caller has. Each map waits for `PendingUses`. A dropped guard leaves an
unmap (`GuardDrop`), a released one an event (`GuardRelease`, `Release`). The free of
an SVM allocation is a command behind its uses, a `cl_mem` is kept by the driver,
a `USMSlice` waits on the host. The flag and the list of a `USMSlice` are separate
steps (`Take`, `Clear`). A caller keeps the events of the unmaps it was handed by a
release and puts them in front of what it enqueues next, as `buffer.rs:1152` asks.

### Terminals

A graph is a sequence of leaves. The caller's thread walks, waits for transfers
on borrowed memory, enqueues a marker over every event (`MarkAfter`), flushes,
registers the callback that keeps the graph, and returns an event, a value, a
`Pending` or a future. `mem[k]` says who holds the value of leaf *k*. `poll` is
four steps between which the callback may fire.

### Leaves

A graph is a sequence of leaves, each with its kind, the access marker of what it
makes and the source of each operand: a concrete cell, a slot, the pipe of an
earlier leaf, or a pipe lent from elsewhere (`Input::lent`). A kind is a record
that says what the `execute` of that leaf does, read from each of them: whether
the home of an operand is kept or dropped (`take`), what each output is (`give`),
what the command reads and writes, whether the work can fail and whether a leaf
that ends the graph waits inside `execute` (`does`), whether a failure sends the
operands home (`guard`), whether it keeps and seeds a buffer (`seeds`), whether the
command uses memory of the caller (`borrows`), and whether the leaf drains its own
pipes (`reclaims`). The actions are the steps of a `sync`: `StartSync`, a leaf that
runs, is unready, is refused or fails to seed, the wait inside the last leaf
(`Inside`), then either `Transfers` and the reclaim of a failed run or the reclaim
(`Reclaim`, `Mopped`) and the final wait (`SyncReturns`). The device finishes commands
in any order their wait lists allow, between any two of these.

Wait lists are kept as the code builds them, from the events that come with each
operand, so `Ordered` compares them with what the commands really read and write.
`excused` is a ghost: the driver refused something in this run, or the caller keeps
something it needs.

`WellTyped` is what Rust's types ask of a graph: a leaf is handed what it takes, an output is
moved into at most one later leaf (a `Pipe` is not `Clone`), and a leaf that keeps its buffer
has no operand. `ProgramAssumption` asks it of every graph. `DrainsAll`, `SeedSafe`, `HomeSafe`,
`LentFirst` and `SeedMarks` are the provisos of the theorems; `MCLeaves` checks that the graphs
of the run meet them.

Abstracted: the data, host pointers and strides; a caller lets the device finish
between two runs of a graph; wrappers and bundles (in `OpTree`).

### Geometry

`Shape` is a record with an offset, extents and strides; the operators follow its
methods one by one, with the wrapping of `usize` where the code multiplies without a
check (`w`), and without it where it checks. Loops over the axes are recursive functions
(`Sum`, `Product`, `TileAt`). `Injective` follows the loop of `is_injective` by what it has
added up when it comes to an axis: `Span`, over the axes `Faster` than it. A view is any `IsShape`;
`ViewsAssumption` and `GridsAssumption` give the types of the constants, `BuffersFit` says that
a buffer has at most `isize::MAX` elements, and `CellsFit` that a view, or a grid with its halo, has no more cells
than a `usize` counts (beyond that the products of the checks wrap in a release build). `Tiles`, `Split`, `Join` and `DropTile` move the
ownership of a buffer between a `Tensor` and the tiles that share its `TileSet`.
`Launch` is what the host lets through, `Owns` and `Loads` are the elements the device
types of `claspr-build` then touch without bounds checks. The references are the set
of elements of a view and what `clEnqueueReadBufferRect` reads, which no code here
computes.

### Queues

`refs` is the driver's reference count of each queue made. A lookup of an in-order
queue takes a step to read the `OnceLock`, one to create, one to set (`SetInorder`,
where the loser goes on with the winner's queue) and one to retain; an
out-of-order lookup holds its mutex and is one step. `FailsEarly` and `Invalidate` are
the two halves of a failing `run`, with other threads between them; `FailsLate` is a
failure of `sync`, or of a run that had returned. `spoiled` and `lost` are ghosts: the
queues whose commands were terminated under a terminal that has returned, and those that
lost the race for a slot.

## Runs

| Run | Instance | Shows |
|---|---|---|
| `swap` | graph *g* with slots A, B; graph *h* reads a lent Checkout; 3 buffers | homes survive every order of drop, take-out, re-bind, crossed `mutate_call` and lending onward; the device is done with a buffer that is in a cell or a caller's hands; `Custody` is implemented |
| `twin` | graph *g* with tag A at two sites, slot B, and slot C fed by B's pipe or bound; graph *k* with one concrete cell; refusable enqueues; 3 buffers; fairness | binds that partly refuse change nothing; a run is whole, or fails with nothing left in its pipes; a poisoned graph never runs; a sync that starts returns |
| `pair` | two regions sharing a scalar tag, two queues, cap 2 | the cache never replays a stale recording, never holds twins, and drops only the oldest |
| `seam` | `sync` and `run`: a discarded kernel; two seamed branches joined by a kernel; a seam after it. Closures and launches fail; under `sync` commands fail on the device, under `run` maps, unmaps and the marker are refused; a wait may hide a seam's failure | the caller gets the cause and every buffer; no closure behind a failure, no kernel on mapped memory, nothing before the start event; always returns |
| `storage` | each kind of allocation, two queues, four commands and the free, one thread | no host access while a kernel uses the memory, no kernel while it is mapped, no unmap before its map, the free last |
| `terminals` | every terminal, graphs of three leaves with at most one seam, every set of outputs; every call may fail while no download is in flight | host memory is freed or handed out after its command; borrows end; a future resolves and then its graph and its workers are over |
| `optree` | the tame graphs of two and three operations of three alphabets in every nesting, four of two; one fault per sync (all but those of a profile), any number of syncs, and of rebinds of the graphs that are one command buffer | commands on one buffer are ordered however they were enqueued; each runs once, on the buffers bound now; only a refused call fails a sync; discarded outputs are waited for; every buffer comes home |
| `leaves` | every legal graph of two steps, and of three that end in a transfer, on two buffers from any source; two runs; anything the driver does may be refused | wait lists carry every event; borrowed memory is quiet when `sync` is over; kept buffers hold their seed; cells get their buffers back; a run fails for a reason only; success covers every command |
| `geometry` | layouts of one to three axes over 8 and 12 elements, `usize` of 7 bits; tiles of 0, 1 and 2; two tensors whose tiles mix; grids of up to three axes, six kinds of argument, three halos | tiles are disjoint, inside, and exclude their tensor; the rectangle is the view in gather order; unchecked kernels stay inside and apart |
| `queues` | two devices, two threads, five queues; refusals; failures in `run` and after it | counts are those of the owners; racing threads go on with one queue; a queue thrown away is not handed out again |
| `optree_mint` | alloc_zero, two kernels | **violated**: a later sync replays on the buffer of the first |
| `optree_arc` | fill, write and fill, shared as an Arc with a copy, in every nesting | **violated**: the fill behind the write is recorded into the command buffer that the write closed; it never runs, and the sync succeeds |

Seven more configurations show divergences of the code from its comments that are listed
below; they are checked by hand (`tlc -config X.cfg M`), and each ends in a violation:
`SlotGraphPending` and `CbCachePartial` (with `MCSlotGraph`, `MCCbCache`),
`HostSeamBlind` (`MCHostSeam`), `OpTreeFar` and `OpTreeProfile` (`MCOpTree`), `LeavesKernel` (`MCLeaves`),
`QueuesFailed` (`Queues`).

Bounds. The bookkeeping of homes is about at most two claims on one cell and a
tuple of two Checkouts: two or three buffers and two or three sites give every
combination of them, with a second graph for a buffer that leaves. Buffers are
interchangeable, so `swap` uses symmetry (it checks safety only). The cache
instance has more binding states than `Cap`, so that eviction, promotion and
a miss all occur; `Cap` is 2 there and 4 in the code, and no comparison
depends on its value. The seam shapes have a seam behind a seam (a cancellation
crosses a seam), two side by side (two workers, one slot) and a discarded one; a
longer chain repeats the middle of a shorter one. In `seam`, commands fail on the
device under `sync` only (`run` does not see it: `HostSeamBlind`) and a map or unmap is
refused under `run` only (under `sync` it loses a buffer: see below). A span needs
two recorded operations and something that ends it, so three operations meet every
close; four, with one kind of blocker, put a second close behind the first. Four
commands in `storage` are a kernel, a map, its unmap and a kernel behind it.
Three leaves in `terminals` are a discarded value, an output and a seam. In `leaves`
an event can be lost only between a leaf and the next that uses its buffer, so two
steps behind two sources meet every hand-over of kinds, and the third puts a
transfer behind it; `MaxRuns = 2` is the first run and a replay. Kinds of leaf with the
same row of the table are represented by one. In `geometry` a `usize` has 128 values:
every product that can wrap there wraps for some view, and the layouts include
strides 0, equal strides, overlapping and interleaved axes. In `queues` two threads
race for each slot and `MaxQueues` lets a slot be made, thrown away and made again
twice.

The runs end (a graph has run `MaxRuns` times, every command or queue is used up, a
caller has lost every buffer), so most have `CHECK_DEADLOCK FALSE`; `Returns`,
`RunsReturn` and `FutureResolves` are the statements about being stuck.

Fairness. `FairSpec` assumes that a thread inside `sync` keeps executing and that
the device completes each enqueued command. Nothing else is fair: nobody has to
drop a Checkout or call a verb. In `HostSeam` the caller's thread and each worker
keep executing, a closure returns (a closure of a user that loops for ever hangs
its terminal, in the code as in the model), and the device gets on with each
command. In `Terminals` the caller's
thread, the worker, the reaper and the callbacks run on, a woken task is polled,
and the device runs what is flushed: a caller who was handed an event flushes at
last, one who awaits a future never does. The code adds no timeout and no
retry, so neither is modelled. `Storage`, `Leaves`, `Geometry`, `Queues`, `CbCache` and
`OpTree` state safety only.

## Proofs

Each proof module proves that an inductive invariant `IInv` of its component holds
for every value of the constants, and derives the theorems from it. The assumptions
used are the named `ASSUME`s of the modules, which TLC evaluates in every run, and
the provisos stated in the theorems. A proviso on what a caller or the driver does is
real: without it TLC violates the property (see Findings). `WellPiped` says which graphs are
built, and `NoneIsNothing` is about the encoding.

`SlotGraph_proofs`, under `~FeedOverLent`: `TypeCorrect` (`TypeOK`) and `HomeSafe`
(`HomeInvariant`). `IInv == TypeOK /\ HomeInvariant`. `HomeInvariant` is stated on a
world (`Consistent(w)`: `CellsHoldOne`, `HomesAwaitOne`, `LentIsOwed`), so the argument is
by moves: a lemma for each says that it takes a consistent world to a consistent one
(`PutConsistent`, `DropConsistent`, `SeverConsistent`, `FoldConsistent`,
`LendConsistent`, `CarryConsistent`), and a verb is a composition of moves. Each of the
three conjuncts needs the others: a returning buffer lands on an empty cell because
its home awaits it and no other, and a bind cannot fill an awaited cell because it is
Lent exactly while it is owed.

The runs, on top of `IInv`. A step is one of a few kinds (`StepKinds`): it
starts a run, moves one leaf of one graph, or is a verb, which returns buffers to cells and
otherwise shifts only cells and hands (`Shift`, `Returns`).
`NothingStranded` (`~FeedOverLent`) follows from `RunInv`, which says of each phase of a run what is
in its pipes and in its tuple. `SyncAtomic` and `HomeIsQuiet` assume `WellPiped` as well: a
pipe has one reader, later in the same graph, and a lent Checkout is the first input of its
graph (`then` moves the upstream op into the downstream one, so an unshared pipe is made this
way; that a lent input stands first is a restriction, see the second divergence below).
`SyncAtomic` assumes that no graph reads a lent Checkout and rests on `FeedInv`: a site yet to walk is ready, and the site behind its pipe is yet to walk or
has filled it. `HomeIsQuiet` assumes that the driver refuses nothing (`~EnqueueMayFail`;
finding 3 is the other case) and rests on `QuietInv`: only the first leaf of a walk can find
its input missing, and then the run has gathered nothing that could be in flight.

Its last part, under `~FeedOverLent`: `CustodyKept`, the refinement of `Custody` (initial
states map to initial states, each step to a step or a stutter, by `LentHasHome`: what a run
has lent has a cell to return to), and `MutateCallAtomic`, from `HomeInvariant` and
`SlotsKeepTrack` (a slot is never `Taken`, so a Checkout of the tuple that is dropped rearms its
slot).

`CbCache_proofs`, under `Provisos`: a region bakes only slots under it (`OwnSlotsOnly`; a region
reached through another is the divergence of `CbReach` below), a move-only tag has one site
(`OneSiteEach`; finding 4 is the other case), and `None` is no command buffer (`NoneIsNothing`, which
the model values of an instance satisfy). `NoStaleReplay` and `OneRecordingPerState` follow from
`CInv`: what a node believes of a slot is what the slot holds (`Believes`), and on the shelves of
a node (`Shelved`) the current command buffer is keyed by those beliefs, no parked one has its key
or that of another, and with no current one none is keyed by them. That last clause is what
makes the property inductive: without it, a recording could be made for a state that a parked
one is keyed by, and a rotation that promotes the first match would leave a twin behind.
All of it is conditional on a graph that is not poisoned, since a refused `bind` seeds the caches
with a value that no slot took, and a poisoned graph never runs.

`HostSeam_proofs`: for every graph and every set of faults,
`HostIsAlone`, `StartGates`, `WorkersAreJoined`, `FaultsAreReported`; `SuccessWasWaitedFor`
when no command of a `run` fails on the device, and `FailedSyncRearms` when no map or
unmap is refused under `sync`. `IInv` says what has been enqueued (`Fresh`), that a
command that has started had its wait list complete (`Behind`), where each worker
stands and what it has committed (`Steps`), that the stash names a first fault
(`Faults`, `Causes`), what the terminal has waited for (`Waited`, `Joined`) and
where the buffers are (`Homes`). That a success reaches everything upstream is by the
least node that contradicts it (`UpstreamIsOver`).

`Storage_proofs`: `ViewsAreQuiet` with one thread and `~HastyReseed`; `FreesAreLast` with
`~LoosePending` and `~HastyReseed`; `UnmapsAfterMaps` with `~LoosePending`; `DeviceIsAlone`
with `~CrossQueue`. `IInv` accounts for every unfinished
command: it is in the record of uses, in the wait list of what the caller holds, or
ordered before something that is (`Accounted`, `Mapped`, `Frees`, `Undoes`, `Guards`,
`Unmapped`).

`Leaves_proofs`, for any well-typed graphs, any number of runs and any refusals. `Base`
accounts for every buffer: it is in one pipe, cell or Checkout, its home is its own cell, and that
cell waits empty for it (`Custody`; a leaf takes its operands in hand and deposits outputs, and each step is a
`Rearranged` of such places). From it, without provisos, `BuffersApart`, `CommandsOrdered` and `BorrowsEnd`.
`Ordered` is not inductive: a new command is ordered behind the older ones only because
the events that travel with a buffer cover every command on it, at any remove. `Followed` says so of
each pipe, by `Reach`, the least set closed under wait lists; it grows by the command that is enqueued
(`ReachGrows`) and loses the one that finishes (`ReachShrinks`). It needs `Real` (no two empty pipes
are taken for one buffer) and `Sent` (a command is of this run, of a leaf the walk has passed).
`BorrowOver` rests on `noted` or the events of a pipe reaching each command that borrows.

The others have provisos on the graph, each a place where the code does not
keep the promise for every graph the types admit (see Findings). `SyncWaitsForAll` assumes
`DrainsAll` (`ImageCopy`), and rests on `Clean`, no output outlives its run, and `Coverage`, the
pipes' events reach every command. `SeedsAlwaysHold` assumes `SeedSafe`: nothing writes to a buffer
whose marker keeps it from being seeded again. `SeedInv` follows such a buffer through the pipes.
`CellsRearmed` assumes `DrainsAll`, `HomeSafe` and `LentFirst`: leaves that take a buffer with a
home keep the home and send it back when they fail. A kernel with one output meets it only when
nothing is refused (`~MayRefuse`; finding 7 is the other case), and a lent input stands first.
It rests on `Claimed`, a cell that is out is claimed by a Checkout, by a pipe or by the leaf that waits,
and on `Fed`, the walk has ahead of it all that `check_ready` saw. `RunsReplay` assumes
`SeedMarks` as well, and adds `KeptIn` (the kept buffers are in their cells) to
`Rearmed`.

`OpTree_proofs`, for any graph that `Graph` admits, of any size and nesting, any sequence of syncs and
rebinds, and any fault in each: `SlotsRearmed`, that `Rearmed` holds at every state. A sync is one
step of the model, so `IInv` (types, the values in the checkouts, and `Rearmed` itself) is close to
what is stated; the work is in that step, which is a walk of the whole graph. It is an
induction over the nodes (`FromBelow`) of a contract: whoever calls an operation that may be run
(`Asked`: its inputs are there, its own cells are empty, the frame of its context is a head) finds it
executed (`Executes`) or its outputs gathered (`Gathers`), whether it succeeded or failed.
Both say that no slot is emptied that is not an input; that a cell left full by a failure is one that
`reclaim_undelivered` reaches, or holds a buffer that went by value (`Kept`);
which cells are full after a success (`Filled`); and that a slot whose value was in it or in a
cell has it still in the slot, in a cell or in what was gathered (`Owned`). `NodeObeys` is the step of the
induction: an operation keeps the contract if its kids do. Commands,
waits, sync points, sealing, replay and spans do not move values (`Calm`), so that none of the ways in which
a command buffer is built, refused, closed early or replayed can lose a buffer. What
the graph's types guarantee is in `Flow`: what the two kids of a chain take is disjoint but for
what one hands to the other.

The proviso `ProfilesKeep` has two parts, each a place where the code does not keep
the contract. What is `profiled` is a leaf (`ProfilesLeaves`): `Profiled` does not forward `reclaim_undelivered`, so what fails
below it stays in a cell. The kernels that `profiled()` is meant for are leaves. And neither
profiling nor its callback is refused: `Profiled::execute` has then taken the value and its home, and drops
both apart (`OpTreeProfile`, see Findings). In `optree`, whose faults are not those of a profile,
1170 of the 1206 graphs meet it; the others satisfy `Rearmed` too, for lack of a discard below a wrapper
(`NoWrappedDiscard`).

`CommandsOnce`, that `RunsOnce` holds at every state, has the same proviso and `ArcsUnbroken`: no Arc is of a chain that
goes on after its span has closed, which is where the code loses a command (`optree_arc`). It is weaker than
`NoSplitArced`: an Arc may be of a chain whose last operation closes the span. All 1206 graphs meet it. What makes the
theorem hard is that a command may be recorded by one sync and replayed by
another, that a span may close in mid-walk so that the rest is enqueued one by one, and that what a failed build has
recorded is run command by command. `IRuns` adds to `IInv` what outlives a sync: a command buffer kept at
a node holds each command of the node's span once (`Faithful`). The span is a function of the graph
(`Spans`), though the walk finds it by opening and closing a frame. The induction is again over the nodes, and over the three questions each may be asked, for one
command *m* at a time: `Tallied` says how many entries of *m* a walk adds to the log (`Grows`: one
if *m* is below the node and due in this context, none otherwise, and what a frame owed when its span
closed: `Owes`), what it records in the frame it is in (`Builds`; a walk over a kept command
buffer records nothing, `Lends`), that the frames of other nodes are left alone (`Apart`) and that a
fault which only prevents a command buffer fails nothing (`Steady`). `BoundaryTallies` puts a frame
and its end together: sealed and enqueued, replayed in software, or closed early.

`Geometry_proofs`, for views of any rank, extents and strides, any sizes of tiles, grids and halos.
A loop over the axes is a recursive function; that it exists and is
what its equations say is proved by the least number of steps for which it would not be
(`Induction`, from `WFMin`), since the induction theorems of the library are out of reach. `InjectiveApart`:
of two indices of a view that `is_injective` accepts, take the slowest axis on which they differ;
it steps farther than all the faster ones reach (`SlowestDecides`), so the elements differ.
`TilesStayApart` rests on `TilesCut`, which is inductive where `TilesApart` is not: the tiles that live
were cut from one view to one size (`Cut`), and no whole Tensor has any. An element of a tile is an element of
its view whose index has the tile's position for a quotient on each axis (`TileElement`), so that two
tiles share none (`BlocksApart`, by `InjectiveApart`). `RectanglesAreViews` writes both sides with the digits of
the row-major index (`RectDigits`); that the pitches do not wrap follows from the view being
in a buffer of at most `isize::MAX` elements (`RectPitches`). `LaunchesApart`: the checks of a launch
hold while it runs (`LaunchChecked`), and a linear index is a number of three digits (`LinearApart`, `LinearExists`).

`HostCalls_proofs`, about `Terminals`: `ResolvedWaited` always; `DownloadsOutlive` and `BorrowsEnd` under
`~Hasty`. `IInv` relates the position of the walk to what is enqueued (`Ahead`, `Passed`), the
holders of each value to the phase (`Held`) and the error paths to a quiet device (`Calm`,
`Borrowed`).

And about `Queues`, for any devices, finitely many threads and any failures: `CountsBalance`,
`InorderIsStable`, `FreshAfterRun`. `QInv` adds to these that no queue is in two slots, nor in
a slot and on its way into one (`Apart`), what each thread's place says about the
queue it names (`Own`, `Sound`), and that whoever holds a Queue keeps the Context
(`Alive`). A count moves with its set of owners (`OwnersMove`, `BalancedMove`).

Only model-checked: liveness (`RunsReturn`, `Returns`, `FutureResolves`) and
`ENABLED`, which are out of the prover's reach; the other three properties of `OpTree`.
`Ordered` and `OnTheBuffersBound` do not hold of every graph (findings 6 and 1, and `ArcTrees`), nor does
`Covered` of one that discards below a wrapper: what they need is a class of graphs such as `TameTrees`,
whose bounds are on the construction of the graph and not on its nodes. The safety properties of `CbCache` with a shared move-only tag or a region
reached through a pipe do not hold in general (see Findings).

## Findings

Each violation run is a place where the code does something a comment or document
of the repository says it does not; `PROJECT.json` quotes both.

1. `optree_mint`: a minted buffer is baked into a command buffer.
2. `optree_arc`: what `Arced`, `OnDevice` and `Profiled` wrap is asked to `collect`
   (`combinators.rs:1058`, `:2196`, `:2764`), and `AndThen::collect` asks its tail in the context of a span
   that may have closed (`:122`, `:154`). A command recorded there is lost; `cb.rs:803` says that nothing is added to
   a span once it has closed. `OnDevice` asks outside any span, and is not affected.

The same, in configurations beside the runs:

3. `SlotGraphPending`, `QuietAtHome` (a run that fails with work in flight): error paths
   rehome a gathered Checkout (`eager.rs:574`) without waiting for the device;
   `eager.rs:611` says of the same move that it is "a data race for the caller".
4. `CbCachePartial`, `CurrentIsFaithful` (one move-only tag at two sites, one checked out):
   `fold_bind` returns its error before it tells the caches (`eager.rs:2650`), though a later
   site was filled; the stale command buffer is replayed, against `cb.rs:81`.
5. `HostSeamBlind`, `SuccessIsReal` (`run` when a command fails on the device):
   `completion_thunk` ignores the status it is given (`future.rs:55`), so the future
   resolves Ok; `combinators.rs:2910` says "Marker resolved Err: a host worker (or a CL
   command) failed".
6. `OpTreeFar`, `Ordered` (fill(a), fill(b), write(a)): the close of a span stamps only the
   last node's cells (`cb.rs:842`), so the write does not wait for the command buffer;
   `cb.rs:823` says that those are what the seam reads.
7. `LeavesKernel`, `Rearmed`: the `execute` emitted for a kernel with one output drops its
   operands and their homes when the launch is refused (`claspr-macros/src/lib.rs:2372`, the
   `?` of `submit`), so their cells stay Lent and the graph never runs again; almost every
   other leaf has a `LentGuard`, whose comment (`eager.rs:674`) counts "every kernel launch"
   among those it is for.

8. `OpTreeProfile`, `Rearmed` (a profiled kernel): on a context without profiling, or when its marker or its
   callback is refused, `Profiled` returns with the value and the home it has collected, which
   are dropped apart (`combinators.rs:2767`, `:2776`, `:2786`): the buffer is gone and its slot stays
   Lent. `ARCHITECTURE.md:121` says "never destroy a lent buffer; rehome it".
9. `QueuesFailed`, `FreshAfterFailure` (one thread, a `sync` that fails): `sync` does not throw the queue of a
   failed chain away (`eager.rs:2988`), though `context.rs:308` and `:343` say so, and the next `sync` is handed
   the queue of the terminated commands. Neither do `wait_on`, nor the future of a run that
   fails after `run` has returned, nor does any of them look at the queues of other devices that
   `OnDevice` used.

Divergences between a comment and the code that have no configuration of their own:

- A feed over a Lent slot (`slots.rs:1884`) is lost when the Checkout returns;
  `slots.rs:1875` says it cannot occur and would be sound. With `FeedOverLent =
  TRUE`, TLC finds `HomeInvariant` violated; it is the proviso of the theorems.
- `check_ready` (`eager.rs:1383`) accepts a lent pipe an earlier run drained, and
  the walk then fails after earlier leaves were enqueued; `ARCHITECTURE.md:128`
  says that every input is validated before any enqueue. With a lent input behind
  another leaf, `SyncIsAtomic` is violated.
- `resolve_home` (`eager.rs:1303`), `upload` and `value` thread no start event, so
  such an entry runs before the terminal completes it; `exec_ctx.rs:491` says that
  nothing does. With a device node in `Ungated`, `NothingBeforeStart` is violated.
- `cb_lookup_cached` (`cb.rs:615`) keeps the parked command buffers of another queue
  when there is no current one; `cb.rs:608` says that they belong to the queue of
  the current one. Replay compares queues, so nothing stale runs.
- The doc of `bind` (`eager.rs:2569`) says that a deferred error is reported once;
  the code reports it at every sync, as `poisoned` does in `SlotGraph`.
- A refused map or unmap in a seam drops the value and its homes apart
  (`combinators.rs:2580`): the buffer is gone and its cell stays Lent, against
  `ARCHITECTURE.md:121`. With `"sync"` in `SetupFails`, `FailureRearms` is violated.
- In a walk that only lends no leaf extends the reach map (`combinators.rs:2557`
  says region 1's Build pass "just ran"): a region recorded behind one that
  replays is not invalidated by a rebind, and `CurrentIsFaithful` is violated in an
  instance with a region reached through another.
- `Arced::execute` deposits no events in a Build walk even when the wrapped chain
  closed the span (`combinators.rs:1053`); `ArcTrees` violates `Ordered` as well.
- `Arced`, `ArcSplit`, `OnDevice` and `Profiled` do not forward
  `reclaim_undelivered` and `undelivered_deps` to what they wrap; without
  `NoWrappedDiscard`, `Covered` is violated.
- `DownloadOp` brings its buffer home while it is read (`leaves.rs:680`), and the
  next run may write it; within one graph the events still order it.
- Two threads that deref one `USMSlice` (`usm.rs:53` promises that this is sound): one
  takes the list, the other reads the cleared flag and enters. With two
  `Threads`, `ViewIsQuiet` is violated.
- A guard's unmap and a kernel on another queue (`CrossQueue`; `mapped.rs:5`), a
  `MapPending` dropped on an out-of-order queue (`LoosePending`;
  `map_primitive.rs:53`) and a re-seed that fails on its first event
  (`HastyReseed`) violate `DeviceAlone`, `UnmapAfterMap` and `FreeIsLast`.
- An error met by `submit_*`, `run` or a poll while a download is in flight drops its
  Vec at once (`pending.rs:10` says that dropping waits). With `Hasty`,
  `NeverFreedEarly` is violated.
- `once_lock_get_or_try_init` (`context.rs:153`) drops what a losing thread made. The slot type is
  `ManuallyDrop<CommandQueue>`, so the loser's queue is never released, and it keeps its
  `cl_context`; `context.rs` elsewhere takes care that no context leaks. `Balanced` counts
  such a queue in `lost`.
- `ImageCopy` (`image.rs:1045`) has two outputs, so `output_pipe` is `None` and the default
  `reclaim_undelivered` drains nothing, and it overrides neither that nor
  `undelivered_deps`. With `ImageCopy` and then `ImageFill` on the destination in `Programs`,
  `Rearmed` is violated: the source's pipe is never drained.
- An upload with marker `HostReadOnly` or `DeviceScratch` seeds its buffer again on replay
  (`access.rs:181`) by a host write that the marker forbids, and fails: with a kernel
  behind it, `Replays` is violated at the second run. One with marker `ReadOnly` is not seeded
  again (`access.rs:188`), and a `write` in place is not refused: `SeedsHold` is violated.
- A leaf with two operands drops the first, and its home, when the second cannot be
  resolved (`leaves.rs:2959`); the acquire and release of a view, the download of an image and
  the leaves on uninitialised storage resolve their operand without its home.
- A `Shape` whose extents multiply to 0 modulo 2^64 passes `check_tensor_shape` as an empty one
  (`tensor.rs:53`, `:209`); `CellsFit` excludes it. `Shape::rect` divides by a slice
  pitch that wrapped to 0 only for views that do not fit their buffer.

## Not modelled

- The generation of code: parsing in `claspr-macros`, `tier2_macros.rs`, the compilation of kernels
  in `claspr-build`. What the generated code does at run time is modelled: the leaf of a kernel
  (`Leaves`), its launch checks and the device types (`Geometry`).
- Device discovery, programs and kernels, error values and their text, image formats,
  `ppm.rs`, the examples: no shared or persistent state, or pure I/O.
- `finish_all_outoforder_queues`; the `OnceLock` of the fill program, which is set as that of
  an in-order queue is. Flushes are in `Terminals`.
- Command buffers around each leaf of `Leaves`: `OpTree` has one leaf per family. Host seams and
  `mutate_call` in one graph; a cache under a graph whose leaves retype buffers.
- The reuse of a `cl_mem` handle after its release, and collisions of digests (`CbCache`).
- Shapes whose number of cells wraps (`CellsFit`).

The driver is the environment: a command completes, fails or is refused, in any order the
events and the queues allow.
