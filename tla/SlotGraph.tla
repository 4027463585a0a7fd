----------------------------- MODULE SlotGraph -----------------------------
(***************************************************************************)
(* Reusable eager graphs: the input cells they keep, the buffers they lend *)
(* to a run, the Checkouts that bring those buffers home, the verbs that   *)
(* bind a typed slot, and the blocking terminal `sync`.                    *)
(* (src/claspr/src/eager.rs, src/claspr/src/eager/slots.rs, and the walks  *)
(* of src/claspr/src/eager/combinators.rs)                                 *)
(*                                                                         *)
(* A graph is a set of in-place leaves, one per input site, walked in the  *)
(* order Pos.  A leaf takes its buffer from its own cell (a typed slot or  *)
(* a concrete cell) or from a pipe, enqueues one command on it and leaves  *)
(* it either in its output pipe or, for a Delivered leaf, in the tuple of  *)
(* Checkouts the terminal is gathering.                                    *)
(*                                                                         *)
(* A buffer is a move-only Rust value: it is in one place at a time, so    *)
(* `place` is a function.  What the code has to get right, and what is     *)
(* checked here, is the bookkeeping of the cells against those places.     *)
(***************************************************************************)
EXTENDS Naturals, FiniteSets

CONSTANTS
  Buffers,      \* device buffers
  Graphs,       \* op-trees
  Slots,        \* slot!(Tag) positions: Input::Slot cells
  Concretes,    \* positions built from an owned buffer: Input::Concrete cells
  PipeHeads,    \* positions built from a pipe: Input::Pipe
  Inlets,       \* pipes pre-loaded with a Checkout by Input::lent
  Tags,         \* slot tags
  None,         \* no home / nothing
  GraphOf,      \* the graph a site belongs to
  Pos,          \* the place of a site in its graph's walk
  TagOf,        \* the tag of a slot
  HeadOf,       \* the pipe a pipe-head site reads
  Delivered,    \* sites whose output the terminal gathers as a Checkout
  FeedSources,  \* the pipes a caller may feed to a tag
  FeedOverLent, \* whether callers feed a tag one of whose slots is Lent
  EnqueueMayFail \* whether an enqueue may be refused by the driver

Sites == Slots \cup Concretes \cup PipeHeads
Cells == Slots \cup Concretes
Pipes == Sites \cup Inlets

ASSUME SitesDisjoint ==
  /\ Slots \cap Concretes = {} /\ Slots \cap PipeHeads = {}
  /\ Concretes \cap PipeHeads = {} /\ Sites \cap Inlets = {}
ASSUME NoneIsFresh == None \notin Buffers \cup Graphs \cup Pipes
ASSUME ShapeAssumption ==
  /\ GraphOf \in [Pipes -> Graphs]
  /\ Pos \in [Sites -> Nat]
  /\ \A s, t \in Sites : GraphOf[s] = GraphOf[t] /\ Pos[s] = Pos[t] => s = t
  /\ TagOf \in [Slots -> Tags]
  /\ HeadOf \in [PipeHeads -> Pipes]
  /\ FeedSources \in [Tags -> SUBSET Pipes]
  /\ Delivered \subseteq Sites
ASSUME SwitchAssumption == FeedOverLent \in BOOLEAN /\ EnqueueMayFail \in BOOLEAN

VARIABLES
  st,       \* st[s]: the state of the cell at site s
  src,      \* src[s]: the pipe that feeds site s while it is FedByPipe
  place,    \* place[b]: where buffer b is, and the cell its drop returns it to
  phase,    \* phase[g]: what the thread running g is doing
  todo,     \* todo[g]: the sites of g the current run has not executed yet
  failed,   \* failed[g]: the run is returning an error
  poisoned, \* poisoned[g]: a deferred bind error is in g's sink
  busy      \* busy[b]: an enqueued command on b has not completed

vars == <<st, src, place, phase, todo, failed, poisoned, busy>>
runVars == <<phase, todo, failed>>

SitesOf(g) == {s \in Sites : GraphOf[s] = g}
Matching(g, t) == {s \in Slots : GraphOf[s] = g /\ TagOf[s] = t}
First(S) == CHOOSE s \in S : \A r \in S : Pos[s] <= Pos[r]

-----------------------------------------------------------------------------
(* The cells, the places and the primitive moves on them.  A world is the  *)
(* part of the state that ownership is about; a verb composes moves.       *)

CellStates == {"Unbound", "Bound", "Lent", "Severed", "FedByPipe", "Taken"}
Kinds == {"cell", "pipe", "gathered", "held", "gone"}
Places == [at : Kinds, in : Pipes \cup Graphs \cup {None}, home : Cells \cup {None}]

Worlds == [st : [Sites -> CellStates],
           src : [Sites -> Pipes \cup {None}],
           place : [Buffers -> Places]]

World == [st |-> st, src |-> src, place |-> place]
Become(w) == st' = w.st /\ src' = w.src /\ place' = w.place

Gone == [at |-> "gone", in |-> None, home |-> None]
Raw == [at |-> "held", in |-> None, home |-> None]
InCell(s) == [at |-> "cell", in |-> s, home |-> None]

\* An owner outside the cells: a pipe payload, a gathered or a live Checkout.
Away(w, b) == w.place[b].at \in {"pipe", "gathered", "held"}
Held(b) == place[b].at = "held"

\* Overwriting a cell drops the value it holds.
Evict(w, S) == [b \in Buffers |->
  IF w.place[b].at = "cell" /\ w.place[b].in \in S THEN Gone ELSE w.place[b]]

\* Store b in the cell of s, whatever the cell holds.
Put(w, s, b) ==
  [st |-> [w.st EXCEPT ![s] = "Bound"],
   src |-> [w.src EXCEPT ![s] = None],
   place |-> [Evict(w, {s}) EXCEPT ![b] = InCell(s)]]

\* A mutant of Drop: the home obligation is not fired.
DropLeaks(w, b) == [w EXCEPT !.place[b] = Gone]

\* Drop an owned buffer: a homed one returns to its cell, a homeless one dies.
Drop(w, b) ==
  IF w.place[b].home = None
  THEN [w EXCEPT !.place[b] = Gone]
  ELSE Put(w, w.place[b].home, b)

\* A mutant of Sever: the home is not told that its value left.
SeverSilently(w, b) == [w EXCEPT !.place[b] = Raw]

\* Take a value out of its Checkout: a slot home is left Severed, the sever of
\* a concrete cell does nothing, and so does that of a raw buffer.
Sever(w, b) ==
  LET h == w.place[b].home IN
  IF h \in Slots
  THEN [st |-> [w.st EXCEPT ![h] = "Severed"],
        src |-> [w.src EXCEPT ![h] = None],
        place |-> [Evict(w, {h}) EXCEPT ![b] = Raw]]
  ELSE [w EXCEPT !.place[b] = Raw]

-----------------------------------------------------------------------------
(* The bind verbs.  A move-only binder walks the matching slots in order   *)
(* and moves its value into the first one whose state takes it; a state    *)
(* that does not records an error and the walk goes on.                    *)

Takes(mode, state) ==
  \/ state = "Unbound"
  \/ /\ mode = "Mutate"
     /\ state \in {"Bound", "Severed", "FedByPipe"}

Fold(w, mode, M, b) ==
  LET takers == {s \in M : Takes(mode, w.st[s])} IN
  IF takers = {} THEN [w EXCEPT !.place[b] = Gone] ELSE Put(w, First(takers), b)

\* No matching slot before the one that takes the value refuses it.
FoldClean(w, mode, M) == M # {} /\ Takes(mode, w.st[First(M)])

Idle(g) == phase[g] = "idle"

\* bind / call with a value: infallible, so an error is left in the graph's
\* sink (a graph with no slot has no sink).
Bind(g, t, b) ==
  LET w == Sever(World, b)
      M == Matching(g, t)
  IN /\ Idle(g) /\ Held(b)
     /\ Become(Fold(w, "Set", M, b))
     /\ poisoned' = [poisoned EXCEPT ![g] =
          @ \/ (~FoldClean(w, "Set", M) /\ SitesOf(g) \cap Slots # {})]
     /\ UNCHANGED <<runVars, busy>>

\* bind / call with a pipe: every matching slot becomes FedByPipe, whatever its
\* state.
Feed(g, t, p) ==
  LET M == Matching(g, t) IN
  /\ Idle(g) /\ p \in FeedSources[t]
  /\ FeedOverLent \/ \A s \in M : st[s] # "Lent"
  /\ st' = [s \in Sites |-> IF s \in M THEN "FedByPipe" ELSE st[s]]
  /\ src' = [s \in Sites |-> IF s \in M THEN p ELSE src[s]]
  /\ place' = Evict(World, M)
  /\ poisoned' = [poisoned EXCEPT ![g] = @ \/ (M = {} /\ SitesOf(g) \cap Slots # {})]
  /\ UNCHANGED <<runVars, busy>>

MutateBind(g, t, b) ==
  /\ Idle(g) /\ Held(b)
  /\ Become(Fold(Sever(World, b), "Mutate", Matching(g, t), b))
  /\ UNCHANGED <<runVars, poisoned, busy>>

\* A mutant of Probe: a Lent slot is not looked at.
ProbePresence(g, t, severable) == Matching(g, t) # {}

\* The read-only probe of mutate_call: is tag t present, with every Lent slot
\* one that a Checkout of the same tuple is going to sever?
Probe(g, t, severable) ==
  /\ Matching(g, t) # {}
  /\ \A s \in Matching(g, t) : st[s] = "Lent" => s \in severable

ProbeAll(g, t, b, u, c) ==
  LET severable == {place[b].home, place[c].home} \cap Slots
  IN Probe(g, t, severable) /\ Probe(g, u, severable)

\* mutate_call((T(b), U(c))): probe every element, sever every source, bind
\* every element; a probe error drops the untouched tuple.
MutateCall(g, t, b, u, c) ==
  /\ Idle(g) /\ Held(b) /\ Held(c) /\ b # c
  /\ IF ProbeAll(g, t, b, u, c)
     THEN LET severed == Sever(Sever(World, b), c)
              one == Fold(severed, "Mutate", Matching(g, t), b)
          IN Become(Fold(one, "Mutate", Matching(g, u), c))
     ELSE Become(Drop(Drop(World, b), c))
  /\ UNCHANGED <<runVars, poisoned, busy>>

-----------------------------------------------------------------------------
(* The blocking terminal.                                                  *)

Ready(s) == st[s] \in {"Bound", "FedByPipe"}
Loaded(p) == {b \in Buffers : place[b].at = "pipe" /\ place[b].in = p}
Gathered(g) == {b \in Buffers : place[b].at = "gathered" /\ place[b].in = g}
OutPipes(g) == {b \in Buffers : place[b].at = "pipe" /\ place[b].in \in SitesOf(g)}

\* A mutant of StartSync: without check_ready.
StartSyncUnchecked(g) ==
  /\ Idle(g) /\ SitesOf(g) # {}
  /\ phase' = [phase EXCEPT ![g] = "walk"]
  /\ todo' = [todo EXCEPT ![g] = SitesOf(g)]
  /\ failed' = [failed EXCEPT ![g] = FALSE]
  /\ UNCHANGED <<st, src, place, poisoned, busy>>

\* sync: every input is checked before anything is lent or enqueued.
StartSync(g) ==
  /\ Idle(g) /\ SitesOf(g) # {}
  /\ ~poisoned[g] /\ \A s \in SitesOf(g) : Ready(s)
  /\ phase' = [phase EXCEPT ![g] = "walk"]
  /\ todo' = [todo EXCEPT ![g] = SitesOf(g)]
  /\ failed' = [failed EXCEPT ![g] = FALSE]
  /\ UNCHANGED <<st, src, place, poisoned, busy>>

\* A lent slot is marked Lent, a lent concrete cell is left empty.
Vacated(s) == IF s \in Slots THEN "Lent" ELSE "Taken"

\* What resolve_home can lend to the leaf at s: a bound cell lends its buffer,
\* a pipe its payload.
Lendable(s) ==
  IF st[s] = "FedByPipe" THEN Loaded(src[s])
  ELSE {b \in Buffers : st[s] = "Bound" /\ place[b] = InCell(s)}

\* The world after resolve_home took b for the leaf at s, b put at dest.
Lend(s, b, at, in) ==
  [st |-> IF st[s] = "FedByPipe" THEN st
          ELSE [st EXCEPT ![s] = Vacated(s)],
   src |-> src,
   place |-> [place EXCEPT ![b] =
     [at |-> at, in |-> in,
      home |-> IF st[s] = "FedByPipe" THEN place[b].home ELSE s]]]

Walking(g, s) == phase[g] = "walk" /\ s = First(todo[g])

LeafRuns(g, s, b) ==
  /\ Walking(g, s) /\ b \in Lendable(s)
  /\ Become(IF s \in Delivered THEN Lend(s, b, "gathered", g) ELSE Lend(s, b, "pipe", s))
  /\ busy' = [busy EXCEPT ![b] = TRUE]
  /\ todo' = [todo EXCEPT ![g] = @ \ {s}]
  /\ phase' = [phase EXCEPT ![g] = IF todo[g] = {s} THEN "mopup" ELSE "walk"]
  /\ UNCHANGED <<failed, poisoned>>

Fail(g) ==
  /\ phase' = [phase EXCEPT ![g] = "unwind"]
  /\ failed' = [failed EXCEPT ![g] = TRUE]
  /\ todo' = [todo EXCEPT ![g] = {}]

\* An input the walk finds missing: SlotUnbound / PipeDrained in mid-run.
LeafUnready(g, s) ==
  /\ Walking(g, s) /\ Lendable(s) = {}
  /\ Fail(g)
  /\ UNCHANGED <<st, src, place, poisoned, busy>>

\* The driver refuses the command: the guard over the lent buffer drops it.
LeafRefused(g, s, b) ==
  /\ EnqueueMayFail
  /\ Walking(g, s) /\ b \in Lendable(s)
  /\ LET lent == Lend(s, b, "held", None) IN Become(Drop(lent, b))
  /\ Fail(g)
  /\ UNCHANGED <<poisoned, busy>>

\* A failing run drops the Checkouts it has gathered ...
Unwind(g, b) ==
  /\ phase[g] = "unwind" /\ b \in Gathered(g)
  /\ Become(Drop(World, b))
  /\ UNCHANGED <<runVars, poisoned, busy>>

UnwindDone(g) ==
  /\ phase[g] = "unwind" /\ Gathered(g) = {}
  /\ phase' = [phase EXCEPT ![g] = "mopup"]
  /\ UNCHANGED <<st, src, place, todo, failed, poisoned, busy>>

\* ... and every run reclaims what its pipes still hold, after the device work
\* that produced it.
Reclaim(g, b) ==
  /\ phase[g] = "mopup" /\ b \in OutPipes(g) /\ ~busy[b]
  /\ Become(Drop(World, b))
  /\ UNCHANGED <<runVars, poisoned, busy>>

\* Mutants of ReclaimDone: the pipes are not reclaimed; the delivered outputs are
\* waited for as if they were undelivered.
ReclaimSkipped(g) ==
  /\ phase[g] = "mopup"
  /\ phase' = [phase EXCEPT ![g] = IF failed[g] THEN "idle" ELSE "wait"]
  /\ UNCHANGED <<st, src, place, todo, failed, poisoned, busy>>

ReclaimAll(g) ==
  /\ phase[g] = "mopup" /\ OutPipes(g) \cup Gathered(g) = {}
  /\ phase' = [phase EXCEPT ![g] = IF failed[g] THEN "idle" ELSE "wait"]
  /\ UNCHANGED <<st, src, place, todo, failed, poisoned, busy>>

ReclaimDone(g) ==
  /\ phase[g] = "mopup" /\ OutPipes(g) = {}
  /\ phase' = [phase EXCEPT ![g] = IF failed[g] THEN "idle" ELSE "wait"]
  /\ UNCHANGED <<st, src, place, todo, failed, poisoned, busy>>

\* A mutant of Waited: the terminal does not wait for the completion events.
NotWaited(g) == phase[g] = "wait"

Waited(g) == phase[g] = "wait" /\ \A b \in Gathered(g) : ~busy[b]

\* Every completion event has fired: the caller gets the Checkouts.
SyncOk(g) ==
  /\ Waited(g)
  /\ place' = [b \in Buffers |->
       IF b \in Gathered(g) THEN [place[b] EXCEPT !.at = "held", !.in = None]
       ELSE place[b]]
  /\ phase' = [phase EXCEPT ![g] = "idle"]
  /\ UNCHANGED <<st, src, todo, failed, poisoned, busy>>

\* A completion event carries an error: the Checkouts are dropped.
SyncErr(g) == Waited(g) /\ Fail(g) /\ UNCHANGED <<st, src, place, poisoned, busy>>

DeviceDone(b) ==
  /\ busy[b]
  /\ busy' = [busy EXCEPT ![b] = FALSE]
  /\ UNCHANGED <<st, src, place, runVars, poisoned>>

-----------------------------------------------------------------------------
(* What a caller does with a Checkout, from any thread.                    *)

DropCheckout(b) ==
  /\ Held(b)
  /\ Become(Drop(World, b))
  /\ UNCHANGED <<runVars, poisoned, busy>>

IntoInner(b) ==
  /\ Held(b) /\ place[b].home # None
  /\ Become(Sever(World, b))
  /\ UNCHANGED <<runVars, poisoned, busy>>

\* A Checkout passed to an op of another graph: the obligation moves into the
\* pipe that graph reads, without firing.
LentOnward(b, p) ==
  /\ Held(b) /\ place[b].home # None
  /\ p \in Inlets /\ Loaded(p) = {} /\ Idle(GraphOf[p])
  /\ place' = [place EXCEPT ![b] = [at |-> "pipe", in |-> p, home |-> @.home]]
  /\ UNCHANGED <<st, src, runVars, poisoned, busy>>

\* A new buffer, under the identity of one that is gone and no longer in use.
Alloc(b) ==
  /\ place[b] = Gone /\ ~busy[b]
  /\ place' = [place EXCEPT ![b] = Raw]
  /\ UNCHANGED <<st, src, runVars, poisoned, busy>>

\* The graph that holds a lent Checkout is dropped without running.
DropInlet(b, p) ==
  /\ p \in Inlets /\ b \in Loaded(p) /\ Idle(GraphOf[p])
  /\ Become(Drop(World, b))
  /\ UNCHANGED <<runVars, poisoned, busy>>

-----------------------------------------------------------------------------
(* Slots may have been bound before the graph was composed, so each starts *)
(* Unbound or Bound; a concrete cell is built around its buffer.           *)
Init ==
  /\ place \in [Buffers -> {Raw} \cup {InCell(s) : s \in Cells}]
  /\ \A b, c \in Buffers : place[b] = place[c] /\ place[b] # Raw => b = c
  /\ \A s \in Concretes : \E b \in Buffers : place[b] = InCell(s)
  /\ st = [s \in Sites |->
       IF s \in PipeHeads THEN "FedByPipe"
       ELSE IF \E b \in Buffers : place[b] = InCell(s) THEN "Bound" ELSE "Unbound"]
  /\ src = [s \in Sites |-> IF s \in PipeHeads THEN HeadOf[s] ELSE None]
  /\ phase = [g \in Graphs |-> "idle"]
  /\ todo = [g \in Graphs |-> {}]
  /\ failed = [g \in Graphs |-> FALSE]
  /\ poisoned = [g \in Graphs |-> FALSE]
  /\ busy = [b \in Buffers |-> FALSE]

RunStep(g) ==
  \/ \E s \in Sites :
       \/ \E b \in Buffers : LeafRuns(g, s, b) \/ LeafRefused(g, s, b)
       \/ LeafUnready(g, s)
  \/ \E b \in Buffers : Unwind(g, b) \/ Reclaim(g, b)
  \/ UnwindDone(g) \/ ReclaimDone(g) \/ SyncOk(g) \/ SyncErr(g)

Verb(g) ==
  \E t \in Tags :
    \/ \E b \in Buffers : Bind(g, t, b) \/ MutateBind(g, t, b)
    \/ \E p \in Pipes : Feed(g, t, p)
    \/ \E u \in Tags, b, c \in Buffers : MutateCall(g, t, b, u, c)

CallerStep(b) ==
  \/ DropCheckout(b) \/ IntoInner(b) \/ Alloc(b)
  \/ \E p \in Inlets : LentOnward(b, p) \/ DropInlet(b, p)

Next ==
  \/ \E g \in Graphs : StartSync(g) \/ RunStep(g) \/ Verb(g)
  \/ \E b \in Buffers : CallerStep(b) \/ DeviceDone(b)

\* A thread that called sync keeps executing, and the device completes what was
\* enqueued; nobody is obliged to call anything.
Fairness ==
  /\ \A g \in Graphs : WF_vars(RunStep(g))
  /\ \A b \in Buffers : WF_vars(DeviceDone(b))

Spec == Init /\ [][Next]_vars
FairSpec == Spec /\ Fairness

-----------------------------------------------------------------------------
(* Properties.                                                             *)

Phases == {"idle", "walk", "unwind", "mopup", "wait"}

\* Every variable has its type, and a run has work left exactly while it walks.
TypeOK ==
  /\ World \in Worlds
  /\ phase \in [Graphs -> Phases]
  /\ todo \in [Graphs -> SUBSET Sites]
  /\ failed \in [Graphs -> BOOLEAN]
  /\ poisoned \in [Graphs -> BOOLEAN]
  /\ busy \in [Buffers -> BOOLEAN]
  /\ \A g \in Graphs : todo[g] \subseteq SitesOf(g)
  /\ \A g \in Graphs : phase[g] = "walk" <=> todo[g] # {}

\* A buffer in a cell: the cell is Bound, and holds no other.
CellsHoldOne(w) ==
  /\ \A b \in Buffers : w.place[b].at = "cell" =>
       w.place[b].in \in Cells /\ w.st[w.place[b].in] = "Bound"
  /\ \A b, c \in Buffers :
       w.place[b].at = "cell" /\ w.place[c].at = "cell"
         /\ w.place[b].in = w.place[c].in => b = c
  /\ \A s \in Sites : w.st[s] = "Bound" =>
       \E b \in Buffers : w.place[b].at = "cell" /\ w.place[b].in = s

\* A buffer away from home: its home cell waits for it, and for no other.
HomesAwaitOne(w) ==
  /\ \A b \in Buffers : w.place[b].home # None =>
       Away(w, b) /\ w.st[w.place[b].home] = Vacated(w.place[b].home)
  /\ \A b, c \in Buffers :
       w.place[b].home = w.place[c].home /\ w.place[b].home # None => b = c

\* A Lent slot has an owner that will return or sever it.
LentIsOwed(w) ==
  \A s \in Sites : w.st[s] = "Lent" => \E b \in Buffers : w.place[b].home = s

Consistent(w) == CellsHoldOne(w) /\ HomesAwaitOne(w) /\ LentIsOwed(w)

\* The home invariant: every Lent slot is owed exactly one buffer by one payload
\* or Checkout, a returning buffer never lands on another one, and a Bound cell
\* holds exactly one.  (Homed, SlotHome and Cell as Rehome; the bind matrix)
HomeInvariant == Consistent(World)

\* Between runs a graph's own pipes and tuple are empty, so no buffer is stuck
\* in a half-finished run, and a pipe never holds two payloads.
\* (reclaim_undelivered, LentGuard, Pipe::put_home)
NoStranding ==
  /\ \A g \in Graphs : Idle(g) => OutPipes(g) = {} /\ Gathered(g) = {}
  /\ \A p \in Pipes : Cardinality(Loaded(p)) <= 1

\* A sync that passed check_ready never finds an input missing later on.
\* (the check_ready pre-pass of wait_on)
SyncIsAtomic ==
  \A g \in Graphs, s \in Sites : Walking(g, s) => Lendable(s) # {}

\* A buffer in its cell, in a lent pipe or in a caller's hands has no device
\* work in flight.  (wait_on waits before it hands out; Pipe::reclaim before it
\* rehomes)
QuietAtHome ==
  \A b \in Buffers :
    place[b].at \in {"cell", "held"} \/ (\E p \in Inlets : b \in Loaded(p)) => ~busy[b]

LandedIn(b, M) == \E s \in M : place'[b] = InCell(s)

\* mutate_call binds every element, or leaves the graph and every buffer that is
\* not in the tuple as they were, each Checkout of the tuple returning home.
\* (BindAll::mutate_all: probe, sever, bind)
MutateCallAllOrNothing ==
  [][\A g \in Graphs, t, u \in Tags, b, c \in Buffers :
       MutateCall(g, t, b, u, c) =>
         \/ /\ LandedIn(c, Matching(g, u))
            /\ t = u \/ LandedIn(b, Matching(g, t))
         \/ /\ \A s \in Sites :
                 st'[s] = st[s] \/ (st'[s] = "Bound" /\ s \in {place[b].home, place[c].home})
            /\ \A x \in Buffers \ {b, c} : place'[x] = place[x]
            /\ \A x \in {b, c} : place[x].home # None => place'[x] = InCell(place[x].home)]_vars

\* A run that started returns.  (wait_on)
RunsReturn == \A g \in Graphs : ~Idle(g) ~> Idle(g)

CustodyOf(b) ==
  LET p == place[b]
      claim(k, s) == [k |-> k, cell |-> s]
  IN CASE p.at = "cell" -> claim("armed", p.in)
       [] p.at \in {"pipe", "gathered"} -> claim("running", p.home)
       [] p.at = "held" -> IF p.home = None THEN claim("raw", None) ELSE claim("out", p.home)
       [] p.at = "gone" -> claim("released", None)

Promise == INSTANCE Custody WITH custody <- [b \in Buffers |-> CustodyOf(b)]

\* The graphs keep the promise of Custody.
KeepsCustody == Promise!Spec
=============================================================================
