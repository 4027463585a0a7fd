------------------------------ MODULE CbCache ------------------------------
(***************************************************************************)
(* The keyed command-buffer cache of an eager graph: what each CB-homing   *)
(* node records, when a recording is replayed, and how a rebind of a slot  *)
(* parks, promotes and drops recordings.                                   *)
(* (src/claspr/src/eager/cb.rs, the bind verbs of src/claspr/src/eager.rs) *)
(*                                                                         *)
(* A graph is a sequence of regions: the maximal seam-free subtrees that   *)
(* home a command buffer (CB), in walk order.  A region bakes the values   *)
(* of the slots under it (Own) and of the slots whose buffer reaches it    *)
(* through a pipe, across a host seam (Through).  A value stands for its   *)
(* digest: the code keys by SlotEq::slot_digest, which tells apart exactly *)
(* the values slot_eq tells apart, up to a hash collision.                 *)
(*                                                                         *)
(* DeviceOp is Send and not Sync: one thread binds and runs a graph, so a  *)
(* verb is one step and a run takes one step per region.                   *)
(***************************************************************************)
EXTENDS Naturals, Sequences, FiniteSets, SequencesExt

CONSTANTS
  Cells,     \* slot cells
  Tags,      \* slot tags
  FanOut,    \* the tags whose values clone into every matching cell
  TagOf,     \* the tag of a cell
  Pos,       \* the place of a cell in the walk
  ValuesOf,  \* the values a tag's slots may be bound to
  Delivered, \* cells whose buffer a run hands out in a Checkout
  NR,        \* number of regions
  Own,       \* the cells under a region's boundary
  Through,   \* the cells whose buffer a region reads from a pipe
  Single,    \* the regions with one command, which never record
  Queues,    \* command queues a caller may sync on
  Cap,       \* CB_LRU_CAP
  Unbound, Severed, \* states of a cell that holds no value
  None

Regions == 1..NR
Values == UNION {ValuesOf[t] : t \in Tags}
Bakes(n) == Own[n] \cup Through[n]

ASSUME TagAssumption ==
  /\ FanOut \subseteq Tags
  /\ TagOf \in [Cells -> Tags]
  /\ Pos \in [Cells -> Nat]
  /\ \A c, d \in Cells : Pos[c] = Pos[d] => c = d
ASSUME RegionAssumption ==
  /\ NR \in Nat \ {0} /\ Cap \in Nat \ {0}
  /\ Own \in [Regions -> SUBSET Cells] /\ Through \in [Regions -> SUBSET Cells]
  /\ Single \subseteq Regions
  /\ \A m, n \in Regions : m # n => Own[m] \cap Own[n] = {}
ASSUME BufferAssumption ==
  \A c \in Delivered \cup UNION {Through[n] : n \in Regions} :
    c \in Cells /\ TagOf[c] \notin FanOut
ASSUME ValueAssumption ==
  /\ None \notin Values \cup {Unbound, Severed}
  /\ Unbound \notin Values /\ Severed \notin Values /\ Unbound # Severed

VARIABLES
  cell,     \* cell[c]: the value bound at c, Unbound or Severed
  out,      \* the cells whose value is in a live Checkout
  poisoned, \* a deferred bind error is in the graph's sink
  bound,    \* bound[n][c]: what the cache of n believes c is bound to
  current,  \* current[n]: the CB the boundary of n replays
  parked,   \* parked[n]: its other CBs, most recently parked first
  disabled, \* the context has stopped recording
  at,       \* the region the run is about to walk; 0 between runs
  queue,    \* the queue of the run
  reached   \* the regions whose Build pass has extended this run's CbReach

graphVars == <<cell, out, poisoned>>
cacheVars == <<bound, current, parked>>
runVars == <<at, queue, reached>>
vars == <<graphVars, cacheVars, disabled, runVars>>

Idle == at = 0
Matching(t) == {c \in Cells : TagOf[c] = t}
First(S) == CHOOSE c \in S : \A d \in S : Pos[c] <= Pos[d]
Holds(c) == cell[c] \notin {Unbound, Severed}
Ready(c) == Holds(c) /\ c \notin out

-----------------------------------------------------------------------------
(* CbLru.                                                                  *)

Touches(cb, V) == cb # None /\ cb.slots \cap V # {}

Touched(n, V) ==
  Touches(current[n], V) \/ \E i \in DOMAIN parked[n] : Touches(parked[n][i], V)

\* A mutant of MatchesNow: any keyed CB is promoted.
MatchesAny(cb, b) == cb.key # None

\* matches_now: every cell the CB baked is bound to what it was recorded with.
MatchesNow(cb, b) == cb.key # None /\ \A c \in cb.slots : b[c] = cb.key[c]

\* key_for: a CB that baked a cell with no known binding is not keyable.
KeyFor(slots, b) ==
  IF \E c \in slots : b[c] = None THEN None ELSE [c \in slots |-> b[c]]

\* A delta binds v at the cells V.
Overlay(b, V, v) == [c \in Cells |-> IF c \in V THEN v ELSE b[c]]

\* A mutant of Truncate: one CB over the cap.
TruncateLate(s) == IF Len(s) > Cap + 1 THEN SubSeq(s, 1, Cap + 1) ELSE s

Truncate(s) == IF Len(s) > Cap THEN SubSeq(s, 1, Cap) ELSE s

\* Park the current CB; one without a key is dropped.
Shelf(n) ==
  IF current[n] # None /\ current[n].key # None
  THEN Truncate(<<current[n]>> \o parked[n]) ELSE parked[n]

\* apply(delta, rotate = true): a node none of whose CBs baked a changed cell
\* keeps them; another parks its current CB and promotes the first match.
Rotated(n, V, b) ==
  LET shelf == Shelf(n)
      hits == {i \in DOMAIN shelf : MatchesNow(shelf[i], b)}
      hit == CHOOSE i \in hits : \A j \in hits : i <= j
  IN IF ~Touched(n, V) THEN [current |-> current[n], parked |-> parked[n]]
     ELSE IF hits = {} THEN [current |-> None, parked |-> shelf]
     ELSE [current |-> shelf[hit], parked |-> RemoveAt(shelf, hit)]

-----------------------------------------------------------------------------
(* The bind verbs.  A fan-out binder visits every matching cell and clones *)
(* its value into those that take it; a move-only binder stops at the      *)
(* first cell that takes its value.  A visited cell that does not take it  *)
(* records an error, unless it already holds that value.                   *)

Taking(mode, t) ==
  {c \in Matching(t) : cell[c] = Unbound \/ (mode = "Mutate" /\ c \notin out)}

Taken(mode, t) ==
  LET S == Taking(mode, t) IN IF t \in FanOut \/ S = {} THEN S ELSE {First(S)}

Visited(mode, t) ==
  LET S == Taking(mode, t) IN
  IF t \in FanOut \/ S = {} THEN Matching(t)
  ELSE {c \in Matching(t) : Pos[c] <= Pos[First(S)]}

Refused(mode, t, v) == {c \in Visited(mode, t) \ Taken(mode, t) : cell[c] # v}

\* A buffer is owned, so the one being bound is in no cell.
Bindable(t, v) == v \in ValuesOf[t] /\ (t \in FanOut \/ \A c \in Cells : cell[c] # v)

Fill(mode, t, v) ==
  cell' = [c \in Cells |-> IF c \in Taken(mode, t) THEN v ELSE cell[c]]

\* bind / call: seeds what every cache believes, without moving a CB.
Bind(t, v) ==
  /\ Idle /\ Bindable(t, v)
  /\ Fill("Set", t, v)
  /\ bound' = [n \in Regions |-> Overlay(bound[n], Visited("Set", t), v)]
  /\ poisoned' = (poisoned \/ Refused("Set", t, v) # {} \/ Matching(t) = {})
  /\ UNCHANGED <<out, current, parked, disabled, runVars>>

\* mutate_bind: rotates every cache of the graph.
MutateBind(t, v) ==
  /\ Idle /\ Bindable(t, v) /\ Matching(t) # {} /\ Refused("Mutate", t, v) = {}
  /\ Fill("Mutate", t, v)
  /\ LET V == Visited("Mutate", t) IN
     /\ bound' = [n \in Regions |-> Overlay(bound[n], V, v)]
     /\ current' = [n \in Regions |-> Rotated(n, V, bound'[n]).current]
     /\ parked' = [n \in Regions |-> Rotated(n, V, bound'[n]).parked]
  /\ UNCHANGED <<out, poisoned, disabled, runVars>>

\* mutate_bind that returns SlotCheckedOut: the error leaves fold_bind before it
\* broadcasts, whatever the walk has filled.
MutateBindRefused(t, v) ==
  /\ Idle /\ Bindable(t, v) /\ Refused("Mutate", t, v) # {}
  /\ Fill("Mutate", t, v)
  /\ UNCHANGED <<out, poisoned, cacheVars, disabled, runVars>>

DropCheckout(c) ==
  /\ c \in out
  /\ out' = out \ {c}
  /\ UNCHANGED <<cell, poisoned, cacheVars, disabled, runVars>>

IntoInner(c) ==
  /\ c \in out
  /\ out' = out \ {c}
  /\ cell' = [cell EXCEPT ![c] = Severed]
  /\ UNCHANGED <<poisoned, cacheVars, disabled, runVars>>

-----------------------------------------------------------------------------
(* A run: the boundary protocol, region by region.                         *)

StartSync(q) ==
  /\ Idle /\ ~poisoned /\ \A c \in Cells : Ready(c)
  /\ at' = 1 /\ queue' = q /\ reached' = {}
  /\ UNCHANGED <<graphVars, cacheVars, disabled>>

Walking(n) == at = n
Next1 == at' = at + 1 /\ UNCHANGED <<queue>>

\* A region opens a boundary when it holds two commands or more and the context
\* records; otherwise its commands are enqueued one by one, in Off mode.
Opens(n) == ~disabled /\ n \notin Single

\* cb_lookup_cached: the current CB is replayed on its own queue only ...
Hit(n) == current[n] # None /\ current[n].queue = queue
\* ... and on another one it is dropped with every parked CB.
ParkedOnMiss(n) == IF current[n] # None THEN <<>> ELSE parked[n]

PerOp(n) ==
  /\ Walking(n) /\ ~Opens(n)
  /\ Next1
  /\ UNCHANGED <<graphVars, cacheVars, disabled, reached>>

\* LendOnly: the walk lends the buffers and the recorded CB is enqueued.
Replay(n) ==
  /\ Walking(n) /\ Opens(n) /\ Hit(n)
  /\ Next1
  /\ UNCHANGED <<graphVars, cacheVars, disabled, reached>>

\* cb_origins_of: a buffer read from a pipe is traced to its slot when every
\* region it came through was walked in Build mode by this run.
Traced(n) ==
  {c \in Through[n] : \A m \in Regions : m < n /\ c \in Bakes(m) => m \in reached}
Captured(n) == Own[n] \cup Traced(n)

\* install: the cells under the boundary are read again before the CB is keyed.
Seeded(n) == [c \in Cells |-> IF c \in Own[n] THEN cell[c] ELSE bound[n][c]]

Recording(n) ==
  [queue |-> queue, slots |-> Captured(n),
   baked |-> [c \in Bakes(n) |-> cell[c]],
   key |-> KeyFor(Captured(n), Seeded(n))]

Build(n) ==
  /\ Walking(n) /\ Opens(n) /\ ~Hit(n)
  /\ bound' = [bound EXCEPT ![n] = Seeded(n)]
  /\ current' = [current EXCEPT ![n] = Recording(n)]
  /\ parked' = [parked EXCEPT ![n] = ParkedOnMiss(n)]
  /\ reached' = reached \cup {n}
  /\ Next1
  /\ UNCHANGED <<graphVars, disabled>>

Dropped(n) ==
  /\ current' = [current EXCEPT ![n] = None]
  /\ parked' = [parked EXCEPT ![n] = ParkedOnMiss(n)]
  /\ UNCHANGED bound

\* The recording is refused, by the driver or by claspr: what was recorded runs
\* directly; after a refusal by the driver the context stops recording.
BuildRefused(n) ==
  /\ Walking(n) /\ Opens(n) /\ ~Hit(n)
  /\ Dropped(n)
  /\ disabled' \in {disabled, TRUE}
  /\ reached' = reached \cup {n}
  /\ Next1
  /\ UNCHANGED graphVars

\* The walk of the Build pass returns an error.
BuildFails(n) ==
  /\ Walking(n) /\ Opens(n) /\ ~Hit(n)
  /\ Dropped(n)
  /\ at' = 0
  /\ UNCHANGED <<graphVars, disabled, queue, reached>>

\* Any other error of the run: a lend, an enqueue, a host seam, a failed event.
RunFails ==
  /\ ~Idle /\ at' = 0
  /\ UNCHANGED <<graphVars, cacheVars, disabled, queue, reached>>

SyncOk ==
  /\ at = NR + 1 /\ at' = 0
  /\ out' = Delivered
  /\ UNCHANGED <<cell, poisoned, cacheVars, disabled, queue, reached>>

-----------------------------------------------------------------------------
\* A slot may have been bound on a subgraph before the nodes that home its CBs
\* were composed over it: their caches do not know of that binding.
Init ==
  /\ cell \in [Cells -> Values \cup {Unbound}]
  /\ \A c \in Cells : Holds(c) => cell[c] \in ValuesOf[TagOf[c]]
  /\ \A c, d \in Cells :
       TagOf[c] \notin FanOut /\ Holds(c) /\ cell[c] = cell[d] => c = d
  /\ out = {} /\ poisoned = FALSE /\ disabled = FALSE
  /\ bound = [n \in Regions |-> [c \in Cells |-> None]]
  /\ current = [n \in Regions |-> None]
  /\ parked = [n \in Regions |-> <<>>]
  /\ at = 0 /\ queue \in Queues /\ reached = {}

Verb ==
  \/ \E t \in Tags, v \in Values : Bind(t, v) \/ MutateBind(t, v) \/ MutateBindRefused(t, v)
  \/ \E c \in Cells : DropCheckout(c) \/ IntoInner(c)

RunStep ==
  \/ \E n \in Regions :
       PerOp(n) \/ Replay(n) \/ Build(n) \/ BuildRefused(n) \/ BuildFails(n)
  \/ RunFails \/ SyncOk

Next == Verb \/ RunStep \/ \E q \in Queues : StartSync(q)

Spec == Init /\ [][Next]_vars

-----------------------------------------------------------------------------
(* Properties.                                                             *)

\* The CB a boundary would replay has baked what every slot it depends on is
\* bound to now.  A cell that is checked out or severed must be bound again, or
\* returned, before the next run.  (CbLru::current: "The CB matching the CURRENT
\* binding state"; no stale CB survives a mutate)
CurrentIsFaithful ==
  ~poisoned => \A n \in Regions :
    current[n] # None /\ (\A c \in Bakes(n) : Holds(c)) =>
      \A c \in Bakes(n) : current[n].baked[c] = cell[c]

\* A node never holds two CBs for one binding state, nor more than the current
\* one and Cap parked ones.  (CB_LRU_CAP; "park A, record B, park B, find A")
NoTwins ==
  ~poisoned => \A n \in Regions :
    /\ Len(parked[n]) <= Cap
    /\ \A i \in DOMAIN parked[n] :
         /\ current[n] # None => parked[n][i].key # current[n].key
         /\ \A j \in DOMAIN parked[n] : i # j => parked[n][i].key # parked[n][j].key
=============================================================================
