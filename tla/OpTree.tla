------------------------------- MODULE OpTree -------------------------------
(***************************************************************************)
(* One `sync` of a graph of operations, as its walk performs it: which     *)
(* commands it enqueues, on which buffers and after which others.          *)
(* (src/claspr/src/eager.rs, eager/cb.rs, eager/combinators.rs,            *)
(* eager/leaves.rs, record.rs, exec_ctx.rs)                                *)
(*                                                                         *)
(* A walk enqueues its operations one by one ("off"), or records them into *)
(* a command buffer that a node of the graph keeps ("build"), or only      *)
(* lends the buffers and enqueues what was recorded before ("lend").  A    *)
(* command buffer spans a whole subtree, or closes at an operation that    *)
(* cannot be recorded.  Order comes from events outside command buffers    *)
(* and from sync points inside.                                            *)
(*                                                                         *)
(* A graph is the sequence of its nodes, in the order in which a walk      *)
(* leaves them: kids before their parent, the root last.  A node is a      *)
(* record [k, in, on, kids].  A leaf works on the buffers `on`; its inputs *)
(* are slots or cells <<node, port>> of earlier nodes.                     *)
(*   "fill", "copy"     a command, on one buffer or two, that can be       *)
(*                      recorded;  "write": one that cannot be             *)
(*   "lift", "forward"  no command;  "pipe": a cell used as an operation   *)
(*   "mint"             a new buffer at each run (alloc_zero)              *)
(*   "upload"           a buffer made at the first run and written at each *)
(*                      later one; its slot is a cell of its own           *)
(*   "download"         reads a buffer that goes home at once              *)
(* The others have kids: "then", "bundle", "host" (a host seam, here one   *)
(* command after its kid), and the wrappers "arced", "route" (OnDevice)    *)
(* and "profiled" of one kid.                                              *)
(***************************************************************************)
EXTENDS Integers, Sequences, FiniteSets, SequencesExt

CONSTANTS
  Slots,   \* the slots
  Trees,   \* the graphs to start from
  MayRebind(_), \* the graphs whose slots may be bound again
  Faults,  \* the kinds of fault a sync may meet
  None,    \* no buffer, no value, no command buffer
  New      \* the cell of an upload that has not run

VARIABLES
  tree,  \* the graph
  slots, \* slots[x]: the buffer in slot x, None while it is lent
  cbs,   \* cbs[n]: the command buffer kept at node n
  off,   \* the context has disabled command buffers
  run,   \* the last sync: [ok, fault, log, waited, bound, seeds]
  minted, \* names the buffers minted at the next sync
  outs   \* the checkouts of the last sync: [v, home]

vars == <<tree, slots, cbs, off, run, minted, outs>>

Nowhere == "" \* the home of a value that has none

\* A buffer is named for the slot it is for: 0 and 1 are bound, 2 and 3 minted.
Buffers == Slots \X (0..3)
Contents == Buffers \cup {None, New}

-----------------------------------------------------------------------------
(* The shape of a graph.  What depends on the kids of a node is a function *)
(* of the nodes.                                                           *)

Leaves == {"fill", "copy", "write", "lift", "forward", "pipe", "mint", "upload", "download"}
Wrappers == {"host", "arced", "route", "profiled"}
Kids(t, n) == Range(t[n].kids)
Source(t, n) == t[n].kids[1]
Follow(t, n) == t[n].kids[2]
Root(t) == Len(t)
\* The nodes that may keep a command buffer of two commands or more.
Heads(t) == {n \in DOMAIN t : t[n].k \in {"then", "bundle", "arced"}}
Commands(t) == {n \in DOMAIN t : t[n].k \in {"fill", "copy", "write", "host", "upload", "download"}}
Has(t, kind) == \E n \in DOMAIN t : t[n].k = kind

\* The nodes below a node, and itself, are those from First to it.
First(t) ==
  LET first[n \in DOMAIN t] == IF t[n].kids = <<>> THEN n ELSE first[t[n].kids[1]]
  IN first
Under(t, n) == First(t)[n]..n

\* cb_addable
Addable(t) ==
  LET a[n \in DOMAIN t] ==
        \/ t[n].k \in {"fill", "copy", "lift", "forward", "pipe"}
        \/ t[n].k \in {"then", "bundle", "arced"} /\ \A c \in Kids(t, n) : a[c]
  IN a

\* cbable_weight: the commands a command buffer could record.
Weight(t) ==
  LET w[n \in DOMAIN t] ==
        IF t[n].k \in {"fill", "copy"} THEN 1
        ELSE IF t[n].k \in {"then", "bundle"} THEN w[t[n].kids[1]] + w[t[n].kids[2]]
        ELSE IF t[n].k = "arced" THEN w[t[n].kids[1]]
        ELSE 0
  IN w

\* cb_spine_head_addable: the leftmost operation can be recorded.
SpineHead(t) ==
  LET h[n \in DOMAIN t] ==
        IF t[n].k \in {"then", "arced"} THEN h[t[n].kids[1]] ELSE Addable(t)[n]
  IN h

\* cb_suffix_weight: the commands after the last one that cannot be recorded.
SuffixWeight(t) ==
  LET w[n \in DOMAIN t] ==
        IF Addable(t)[n] THEN Weight(t)[n]
        ELSE IF t[n].k = "then" /\ Addable(t)[Follow(t, n)]
        THEN Weight(t)[Follow(t, n)] + w[t[n].kids[1]]
        ELSE 0
  IN w

HasSeam(t) == Has(t, "host")

\* The cells of a node's handle.
Own(t, n) == [p \in DOMAIN t[n].on |-> <<n, p>>]
Outlets(t, n) == IF t[n].k = "pipe" THEN <<t[n].in[1][2]>> ELSE Own(t, n)
OutCells(t) ==
  LET out[n \in DOMAIN t] ==
        IF t[n].k \in Leaves THEN Outlets(t, n)
        ELSE IF t[n].k \in Wrappers THEN Own(t, n)
        ELSE IF t[n].k = "then" THEN out[t[n].kids[2]]
        ELSE out[t[n].kids[1]] \o out[t[n].kids[2]]
  IN out

Cells(t) == UNION {{n} \X DOMAIN t[n].on : n \in DOMAIN t}

-----------------------------------------------------------------------------
(* What Rust's types ask of a graph: the output of a node is moved into at *)
(* most one later node, and a slot is lent to one.                         *)

Inputs == ({"slot"} \X Slots) \cup ({"cell"} \X (Nat \X Nat))
Nodes == [k : Leaves \cup Wrappers \cup {"then", "bundle"}, in : Seq(Inputs), on : Seq(Slots),
          kids : Seq(Nat)]
AsInputs(C) == {"cell"} \X C
Letter(t, c) == t[c[1]].on[c[2]]

\* What a leaf takes.
Inlets(t, n) ==
  IF t[n].k \in {"mint", "upload"} THEN {<<"slot", t[n].on[1]>>} ELSE Range(t[n].in)

\* What the execution of a node takes from outside, and the cells it leaves full.
Flow(t) ==
  LET flow[n \in DOMAIN t] ==
        LET a == flow[t[n].kids[1]]
            b == flow[t[n].kids[2]]
        IN IF t[n].k \in Leaves THEN [uses |-> Inlets(t, n), gives |-> Range(Outlets(t, n))]
           ELSE IF t[n].k \in Wrappers
           THEN [uses |-> a.uses,
                 gives |-> (a.gives \ Range(OutCells(t)[t[n].kids[1]])) \cup Range(Own(t, n))]
           ELSE [uses |-> a.uses \cup (b.uses \ AsInputs(a.gives)),
                 gives |-> {c \in a.gives : <<"cell", c>> \notin b.uses} \cup b.gives]
  IN flow
Uses(t, n) == Flow(t)[n].uses
Gives(t, n) == Flow(t)[n].gives

\* Kids are right before their parent.
Shaped(t, n) ==
  /\ Kids(t, n) \subseteq 1..(n - 1)
  /\ t[n].k \in Leaves => t[n].kids = <<>>
  /\ t[n].k \in Wrappers => t[n].kids = <<n - 1>>
  /\ t[n].k \in {"then", "bundle"} => t[n].kids = <<First(t)[n - 1] - 1, n - 1>>

\* An operand is for the buffer that it is of.
Fits(t, n, i) ==
  LET in == t[n].in[i] IN
  IF in[1] = "slot" THEN in[2] = t[n].on[i] ELSE in[2] \in Cells(t) /\ Letter(t, in[2]) = t[n].on[i]

Wired(t, n) ==
  /\ t[n].k \in {"mint", "upload"} => t[n].in = <<>> /\ Len(t[n].on) = 1
  /\ t[n].k \in Leaves \ {"mint", "upload"} =>
       /\ Len(t[n].in) = Len(t[n].on) /\ Len(t[n].in) > 0
       /\ \A i, j \in DOMAIN t[n].in : t[n].in[i] = t[n].in[j] => i = j
       /\ \A i \in DOMAIN t[n].in : Fits(t, n, i)
       /\ t[n].k \in {"lift", "forward", "pipe", "download"} => Len(t[n].in) = 1
       /\ t[n].k = "pipe" => t[n].in[1][1] = "cell"
  /\ t[n].k \in Wrappers =>
       LET out == OutCells(t)[Source(t, n)] IN
       /\ t[n].on = [p \in DOMAIN out |-> Letter(t, out[p])]
       /\ t[n].k # "host" => Len(out) = 1
  /\ t[n].k \in {"then", "bundle"} =>
       Uses(t, Source(t, n)) \cap Uses(t, Follow(t, n)) \subseteq AsInputs(Gives(t, Source(t, n)))
  /\ t[n].k = "bundle" => AsInputs(Gives(t, Source(t, n))) \cap Uses(t, Follow(t, n)) = {}

\* Every node is below the root.
Graph(t) ==
  /\ t \in Seq(Nodes) /\ t # <<>> /\ First(t)[Root(t)] = 1
  /\ \A n \in DOMAIN t : Shaped(t, n) /\ Wired(t, n)
  /\ Uses(t, Root(t)) \subseteq {"slot"} \X Slots

ASSUME GraphsAssumption == \A t \in Trees : Graph(t)

-----------------------------------------------------------------------------
(* A walk in progress is a record:                                         *)
(*   ok      no fault was met;      fault   the one that will be;          *)
(*   log     the commands enqueued: [n, on, before], `before` being those  *)
(*           that are over when it starts;                                 *)
(*   slots, cbs, off   as the variables;                                   *)
(*   pipe    pipe[c]: what cell c holds, [v, home, deps] or None;          *)
(*   reach   reach[c]: the slots the buffer in c is traced to;             *)
(*   sp      sp[f][c]: the sync points of c in frame f;                    *)
(*   fr      fr[f]: the command buffer being built, or replayed, at f;     *)
(*   waited  the commands the host has waited for;                         *)
(*   gate    the start gate, if there is one.                              *)
(* An event is the number of the command that completes it; a command is   *)
(* known by its node, 0 for a marker.                                      *)

Entries == [n : Nat, on : SUBSET Contents, before : SUBSET Nat]
Recorded == [n : Nat, on : SUBSET Contents, waits : SUBSET Nat]
Baked == [rec : Seq(Recorded), slots : SUBSET Slots]
Held == [v : Contents, home : Slots \cup {Nowhere}, deps : SUBSET Nat]
Frames == [ext : SUBSET Nat, closed : BOOLEAN, rec : Seq(Recorded), slots : SUBSET Slots,
           eligible : BOOLEAN, driver : BOOLEAN, sealed : BOOLEAN]
States(t) ==
  [ok : BOOLEAN, fault : Faults \X Nat, log : Seq(Entries), slots : [Slots -> Contents],
   cbs : [Heads(t) -> {None} \cup Baked], off : BOOLEAN,
   pipe : [Cells(t) -> {None} \cup Held], reach : [Cells(t) -> SUBSET Slots],
   sp : [Heads(t) -> [Cells(t) -> SUBSET Nat]], fr : [Heads(t) -> Frames],
   waited : SUBSET Nat, gate : SUBSET Nat]

ASSUME NamesAssumption ==
  /\ Slots \subseteq STRING /\ Nowhere \notin Slots
  /\ New # None /\ {None, New} \cap Buffers = {} /\ None \notin Held \cup Baked

Frame == [ext |-> {}, closed |-> FALSE, rec |-> <<>>, slots |-> {},
          eligible |-> TRUE, driver |-> FALSE, sealed |-> FALSE]

Fresh(fault) ==
  [ok |-> TRUE, fault |-> fault, log |-> <<>>, slots |-> slots, cbs |-> cbs, off |-> off,
   pipe |-> [c \in Cells(tree) |-> None], reach |-> [c \in Cells(tree) |-> {}],
   sp |-> [f \in Heads(tree) |-> [c \in Cells(tree) |-> {}]],
   fr |-> [f \in Heads(tree) |-> Frame], waited |-> {}, gate |-> {}]

Failed(s) == [s EXCEPT !.ok = FALSE]
Meets(s, kind, n) == s.fault = <<kind, n>>
Refused(s, n) == Meets(s, "enqueue", n) \/ Meets(s, "reject", n)

\* What is over when a command starts that waits for D.
Over(s, D) == D \cup s.waited \cup UNION {s.log[d].before : d \in D \cap DOMAIN s.log}
Newest(s) == Len(s.log)

Enqueue(s, n, on, D) ==
  [s EXCEPT !.log = Append(@, [n |-> n, on |-> on, before |-> Over(s, D)])]

WaitFor(s, D) == [s EXCEPT !.waited = Over(s, D)]

\* Values go back to their slots, if they have one.
Rehomed(at, V) ==
  [x \in Slots |-> IF \E v \in V : v.home = x THEN (CHOOSE v \in V : v.home = x).v ELSE at[x]]
RehomeAll(s, vs) == [s EXCEPT !.slots = Rehomed(@, Range(vs))]

Put(s, c, v, deps) == [s EXCEPT !.pipe[c] = [v |-> v.v, home |-> v.home, deps |-> deps]]
PutAll(s, n, vs, deps) ==
  [s EXCEPT !.pipe = [c \in DOMAIN @ |->
     IF c[1] = n THEN [v |-> vs[c[2]].v, home |-> vs[c[2]].home, deps |-> deps] ELSE @[c]]]

\* The contexts of a walk.
Contexts(t) == [cb : {"off", "build", "lend"}, f : 0..Len(t), sup : 0..Len(t)]
Off == [cb |-> "off", f |-> 0, sup |-> 0]
Suppressed(n) == [Off EXCEPT !.sup = n]
Walk(mode, n) == [cb |-> mode, f |-> n, sup |-> 0]

\* A mutant of SpanClosed: what follows a closed span is still recorded.
SpanClosedNever(ec, s) == FALSE

SpanClosed(ec, s) == ec.cb # "off" /\ s.fr[ec.f].closed

-----------------------------------------------------------------------------
(* Inputs and leaves.                                                      *)

In(n) == tree[n].in
Takes(n, kind, x) == \E i \in DOMAIN In(n) : In(n)[i] = <<kind, x>>

\* resolve_home: the value, its home and the events it comes with.
Value(s, in) ==
  IF in[1] = "slot" THEN [v |-> s.slots[in[2]], home |-> in[2], deps |-> s.gate] ELSE s.pipe[in[2]]

Values(s, n) == [i \in DOMAIN In(n) |-> Value(s, In(n)[i])]

LentAll(s, n) ==
  [s EXCEPT !.slots = [x \in DOMAIN @ |-> IF Takes(n, "slot", x) THEN None ELSE @[x]],
            !.pipe = [c \in DOMAIN @ |-> IF Takes(n, "cell", c) THEN None ELSE @[c]]]
DepsOf(vs) == UNION {vs[i].deps : i \in DOMAIN vs}
Bufs(vs) == {vs[i].v : i \in DOMAIN vs}

\* The sync points and the traced slots of an input.
Points(s, ec, in) == IF in[1] = "cell" THEN s.sp[ec.f][in[2]] ELSE {}
Origins(s, in) == IF in[1] = "cell" THEN s.reach[in[2]] ELSE {in[2]}
Extend(s, c, origins) == [s EXCEPT !.reach[c] = @ \cup origins]

\* cb_collect_external: what comes from outside the command buffer.
External(s, ec, deps) == [s EXCEPT !.fr[ec.f].ext = @ \cup deps]

\* cb_leaf_build, CbBuilder::log: a command that cannot be recorded makes the
\* build ineligible, and is logged all the same.
Record(s, ec, n, vs) ==
  LET ins == In(n)
      waits == UNION {Points(s, ec, ins[i]) : i \in DOMAIN ins}
      origins == UNION {Origins(s, ins[i]) : i \in DOMAIN ins}
      e == Len(s.fr[ec.f].rec) + 1
      logged == [s.fr[ec.f] EXCEPT
        !.rec = Append(@, [n |-> n, on |-> Bufs(vs), waits |-> waits]),
        !.slots = @ \cup origins,
        !.eligible = @ /\ s.fault \notin {"record", "decline", "reject"} \X {n},
        !.driver = @ \/ Meets(s, "record", n)]
  IN [s EXCEPT
        !.fr[ec.f] = logged,
        !.reach = [c \in DOMAIN @ |-> IF c[1] = n THEN @[c] \cup Origins(s, ins[c[2]]) ELSE @[c]],
        !.sp[ec.f] = [c \in DOMAIN @ |-> IF c[1] = n THEN {e} ELSE @[c]]]

\* Fill::execute, CopyTo2::execute.  A copy does not wait, whatever the mode.
Addables(n, ec, mode, s) ==
  LET vs == Values(s, n)
      t == LentAll(s, n)
      e == Newest(s) + 1
      u == Enqueue(t, n, Bufs(vs), DepsOf(vs))
  IN CASE ec.cb = "build" -> PutAll(External(Record(t, ec, n, vs), ec, DepsOf(vs)), n, vs, {})
       [] ec.cb = "lend" -> PutAll(External(t, ec, DepsOf(vs)), n, vs, {})
       [] ec.cb = "off" /\ Refused(s, n) -> Failed(RehomeAll(t, vs))
       [] ec.cb = "off" /\ ~Refused(s, n) ->
            IF mode = "blocking" /\ tree[n].k = "fill" THEN PutAll(WaitFor(u, {e}), n, vs, {})
            ELSE PutAll(u, n, vs, {e})

\* WriteDeviceOp::execute: there is no command to record.
Write(n, mode, s) ==
  LET vs == Values(s, n)
      t == LentAll(s, n)
      u == Enqueue(t, n, Bufs(vs), DepsOf(vs))
  IN IF Refused(s, n) THEN Failed(RehomeAll(t, vs))
     ELSE IF mode = "blocking" THEN PutAll(WaitFor(u, {Newest(u)}), n, vs, {})
     ELSE PutAll(u, n, vs, {Newest(u)})

\* Lift::execute, Forward::execute: the value passes, with its sync points.
Pass(n, ec, s) ==
  LET in == In(n)[1]
      v == Value(s, in)
      t == LentAll(s, n)
      c == <<n, 1>>
      x == External(t, ec, v.deps)
  IN CASE ec.cb = "off" -> Put(t, c, v, v.deps)
       [] ec.cb = "lend" -> Put(x, c, v, {})
       [] ec.cb = "build" -> Put([Extend(x, c, Origins(s, in)) EXCEPT !.sp[ec.f][c] = Points(s, ec, in)], c, v, {})

\* AllocZero::execute, impl_alloc_uninit: nothing remembers the buffer.
Mint(n, s) ==
  IF Refused(s, n) THEN Failed(s)
  ELSE Put(s, <<n, 1>>, [v |-> <<tree[n].on[1], minted>>, home |-> Nowhere], {})

\* Upload::execute: a refused write puts the buffer back.
Upload(n, s) ==
  LET x == tree[n].on[1]
      v == [v |-> <<x, 0>>, home |-> x]
      t == [s EXCEPT !.slots[x] = None]
      u == Enqueue(t, n, {v.v}, {})
  IN CASE s.slots[x] = None \/ Refused(s, n) -> Failed(s)
       [] s.slots[x] = New /\ ~Refused(s, n) -> Put(t, <<n, 1>>, v, {})
       [] s.slots[x] \notin {None, New} /\ ~Refused(s, n) -> Put(WaitFor(u, {Newest(u)}), <<n, 1>>, v, {})

\* DownloadOp::execute: the buffer goes home while it is read; the output is
\* host memory.
Download(n, mode, s) ==
  LET v == Value(s, In(n)[1])
      t == RehomeAll(LentAll(s, n), <<v>>)
      u == Enqueue(t, n, {v.v}, v.deps)
      host == [v |-> None, home |-> Nowhere]
  IN IF Refused(s, n) THEN Failed(t)
     ELSE IF mode = "blocking" THEN Put(WaitFor(u, {Newest(u)}), <<n, 1>>, host, {})
     ELSE Put(u, <<n, 1>>, host, {Newest(u)})

-----------------------------------------------------------------------------
(* Command buffers.                                                        *)

\* What is over when the commands of a command buffer start, by its sync points.
After(cmds, first) ==
  LET after[i \in 0..Len(cmds)] ==
        IF i = 0 THEN {} ELSE UNION {{first + w} \cup after[w] : w \in cmds[i].waits \cap 1..(i - 1)}
  IN after

\* FinalizedCb::enqueue: the events of outside order the command buffer as a
\* whole; its last entry stands for its completion.
EnqueueCb(s, cmds, ext) ==
  LET base == Over(s, ext)
      first == Newest(s)
      after == After(cmds, first)
      all == [i \in DOMAIN cmds |->
                [n |-> cmds[i].n, on |-> cmds[i].on, before |-> base \cup after[i]]]
      done == [n |-> 0, on |-> {}, before |-> base \cup {first + i : i \in DOMAIN cmds}]
  IN IF s.fault[1] = "enqueue_cb" THEN Failed(s) ELSE [s EXCEPT !.log = @ \o Append(all, done)]

\* cb_replay, CbBuilder::replay: the commands of the build, one by one.
Replayed(s, f) ==
  LET cmds == s.fr[f].rec
      one(u, c) ==
        IF ~u.ok THEN u
        ELSE IF Refused(u, c.n) THEN Failed(u)
        ELSE Enqueue(u, c.n, c.on, s.fr[f].ext \cup {Newest(s) + w : w \in c.waits})
      upto[i \in 0..Len(cmds)] == IF i = 0 THEN s ELSE one(upto[i - 1], cmds[i])
  IN upto[Len(cmds)]
Replay(s, f) ==
  LET t == Replayed([s EXCEPT !.off = @ \/ s.fr[f].driver, !.fr[f].sealed = TRUE], f)
  IN IF t.ok THEN Enqueue(t, 0, {}, {Newest(s) + i : i \in DOMAIN s.fr[f].rec}) ELSE t

\* finalize, install and enqueue, or run what was recorded.
Seal(s, f) ==
  LET fr == s.fr[f]
      refused == s.fault[1] = "finalize"
  IN IF fr.eligible /\ ~refused
     THEN EnqueueCb([s EXCEPT !.fr[f].sealed = TRUE, !.cbs[f] = [rec |-> fr.rec, slots |-> fr.slots]],
                    fr.rec, fr.ext)
     ELSE Replay([s EXCEPT !.fr[f].driver = @ \/ (fr.eligible /\ refused)], f)

\* A mutant of Restamp: only the first output is stamped.
RestampFirst(s, n, evs) ==
  LET c == OutCells(tree)[n][1] IN IF s.pipe[c] = None THEN s ELSE [s EXCEPT !.pipe[c].deps = evs]

\* cb_restamp: the outputs of node n now come with the events evs.
Restamp(s, n, evs) ==
  [s EXCEPT !.pipe = [c \in DOMAIN @ |->
     IF c \in Range(OutCells(tree)[n]) /\ @[c] # None THEN [@[c] EXCEPT !.deps = evs] ELSE @[c]]]

\* cb_close_before_seam, cb_close_span: at the first operation that cannot be
\* recorded; a span closes once, and an empty one without a command.
Closes(next, ec) == ec.cb # "off" /\ ~SpineHead(tree)[next]
Stamped(s, n) == IF s.ok THEN Restamp(s, n, {Newest(s)}) ELSE s
CloseSpan(source, ec, s) ==
  LET t == [s EXCEPT !.fr[ec.f].closed = TRUE] IN
  CASE s.fr[ec.f].closed -> s
    [] ~s.fr[ec.f].closed /\ ec.cb = "lend" ->
         Stamped(EnqueueCb(t, s.cbs[ec.f].rec, s.fr[ec.f].ext), source)
    [] ~s.fr[ec.f].closed /\ ec.cb = "build" ->
         IF s.fr[ec.f].rec = <<>> THEN t ELSE Stamped(Seal(t, ec.f), source)

-----------------------------------------------------------------------------
(* The walk: how a node is asked, and what it answers.                     *)

Questions(t) ==
  [how : {"execute", "gather", "collect"}, ec : Contexts(t), mode : {"blocking", "pipelined"},
   s : States(t)]
Result(s, got, deps) == [s |-> s, got |-> got, deps |-> deps]

\* A node below is a function v from questions to answers.
Exec(v, ec, mode, s) == v[[how |-> "execute", ec |-> ec, mode |-> mode, s |-> s]].s
Gather(v, ec, mode, s) == v[[how |-> "gather", ec |-> ec, mode |-> mode, s |-> s]]
Collect(v, ec, mode, s) == v[[how |-> "collect", ec |-> ec, mode |-> mode, s |-> s]]

\* cb_should_open_boundary: a child becomes one command buffer.
OpensBoundary(n, ec, s) ==
  /\ ec.cb = "off" /\ ~s.off
  /\ n \in Heads(tree) /\ Addable(tree)[n] /\ Weight(tree)[n] >= 2

\* A bundle opens its own, unless this is its own fallback.
OpensBundle(n, ec, s) == OpensBoundary(n, ec, s) /\ ec.sup # n

\* cb_should_open_span: a command buffer over the part of a chain before, or
\* after, what cannot be recorded.
OpensSpan(n, ec, s) ==
  /\ ec.cb = "off" /\ ~s.off /\ ec.sup # n
  /\ ~Addable(tree)[n] /\ Weight(tree)[n] >= 2
  /\ SpineHead(tree)[n] \/ SuffixWeight(tree)[n] >= 2

\* source_walk: a source with nothing to record is walked outside the span.
SourceWalk(n, ec) ==
  IF ec.cb # "off" /\ ~SpineHead(tree)[n] /\ SuffixWeight(tree)[n] = 0 THEN Off ELSE ec

\* What a boundary does once its subtree has been walked.
Enqueues(n, ec, s) ==
  /\ IF ec.cb = "lend" THEN ~s.fr[n].closed ELSE ~s.fr[n].sealed
  /\ ec.cb = "build" => s.fr[n].rec # <<>>
Ends(n, ec, s) ==
  IF ec.cb = "lend" THEN EnqueueCb(s, s.cbs[n].rec, s.fr[n].ext) ELSE Seal(s, n)

\* The contexts of a boundary: replay, build, or the fallback.
BoundaryWalk(n, s) ==
  CASE s.cbs[n] # None -> Walk("lend", n)
    [] s.cbs[n] = None /\ s.fault[1] = "create" -> Suppressed(n)
    [] s.cbs[n] = None /\ s.fault[1] # "create" -> Walk("build", n)

\* cb_boundary_execute: the event goes onto the outputs.
EndExec(n, ec, s) ==
  IF ~s.ok \/ ec.cb = "off" THEN s
  ELSE IF Enqueues(n, ec, s) THEN Stamped(Ends(n, ec, s), n)
  ELSE IF ec.cb = "build" /\ ~s.fr[n].sealed /\ s.fr[n].ext # {} THEN Restamp(s, n, s.fr[n].ext)
  ELSE s
BoundaryExec(n, v, mode, s) ==
  LET ec == BoundaryWalk(n, s) IN EndExec(n, ec, Exec(v, ec, mode, s))

\* A mutant of Lost: what was gathered is not brought home.
LostAway(r) == Result(r.s, <<>>, {})

Lost(r) == Result(RehomeAll(r.s, r.got), <<>>, {})

\* cb_boundary_gather: the event stands for the whole subtree.
Gathered(s, got) == IF s.ok THEN Result(s, got, {Newest(s)}) ELSE Lost(Result(s, got, {}))
EndGather(n, ec, r) ==
  IF ~r.s.ok \/ ec.cb = "off" \/ ~Enqueues(n, ec, r.s) THEN r
  ELSE Gathered(Ends(n, ec, r.s), r.got)
BoundaryGather(n, v, mode, s) ==
  LET ec == BoundaryWalk(n, s) IN EndGather(n, ec, Gather(v, ec, mode, s))

\* cb_exec_child, cb_gather_child: once its span has closed, a frame walks on
\* outside it.
Outside(ec, s) == IF SpanClosed(ec, s) THEN Off ELSE ec
ExecChild(n, v, ec, mode, s) ==
  IF OpensBoundary(n, Outside(ec, s), s) THEN BoundaryExec(n, v, mode, s)
  ELSE Exec(v, Outside(ec, s), mode, s)

GatherChild(n, v, ec, mode, s) ==
  IF OpensBoundary(n, Outside(ec, s), s) THEN BoundaryGather(n, v, mode, s)
  ELSE Gather(v, Outside(ec, s), mode, s)

-----------------------------------------------------------------------------
(* The operations with kids; w[i] is the i-th kid's answer.                *)

\* The source of a chain, and the close of the span if what follows ends it.
Sourced(n, w, ec, s) ==
  LET source == Source(tree, n)
      t == ExecChild(source, w[1], SourceWalk(source, ec), "pipelined", s)
  IN IF t.ok /\ Closes(Follow(tree, n), ec) THEN CloseSpan(source, ec, t) ELSE t

\* AndThenHost: the seam waits for its source and gates what follows; one
\* command stands for its map, its closure and its unmap.
Reaches(s, n, from) == IF Len(from) = 1 THEN Extend(s, <<n, 1>>, s.reach[from[1]]) ELSE s
SeamAfter(n, r) ==
  IF ~r.s.ok THEN r
  ELSE Gathered(Reaches(Enqueue(r.s, n, Bufs(r.got), r.deps), n, OutCells(tree)[Source(tree, n)]), r.got)
Seam(n, w, s) == SeamAfter(n, GatherChild(Source(tree, n), w[1], Off, "pipelined", s))

\* join_marker, Profiled: one event for several; without any a marker waits for
\* everything enqueued so far.
Join(s, deps) == Enqueue(s, 0, {}, IF deps = {} THEN 1..Newest(s) ELSE deps)

\* Arced::execute and OnDevice::execute take the value without its home, which
\* leaves the slot empty; Profiled::execute keeps it, behind a marker.
Homeless(v) == [v EXCEPT !.home = Nowhere]
Aliased(s, n, ec, from) ==
  [Extend(s, <<n, 1>>, s.reach[from]) EXCEPT !.sp[ec.f][<<n, 1>>] = @ \cup s.sp[ec.f][from]]

ArcedAfter(n, ec, r) ==
  CASE ~r.s.ok -> r.s
    [] r.s.ok /\ ec.cb = "off" -> Put(r.s, <<n, 1>>, Homeless(r.got[1]), r.deps)
    [] r.s.ok /\ ec.cb = "lend" -> Put(r.s, <<n, 1>>, Homeless(r.got[1]), {})
    [] r.s.ok /\ ec.cb = "build" ->
         Aliased(Put(r.s, <<n, 1>>, Homeless(r.got[1]), {}), n, ec, OutCells(tree)[Source(tree, n)][1])
Arced(n, w, ec, s) == ArcedAfter(n, ec, Collect(w[1], ec, "pipelined", s))

\* OnDevice needs a queue of its device first.
RouteAfter(n, r) == IF r.s.ok THEN Put(r.s, <<n, 1>>, Homeless(r.got[1]), r.deps) ELSE r.s
Route(n, w, mode, s) ==
  IF Meets(s, "queue", n) THEN Failed(s) ELSE RouteAfter(n, Collect(w[1], Off, mode, s))

\* Profiling is disabled or its marker refused, or its callback is: what was
\* collected is dropped, and its home apart from it.
ProfiledAfter(n, r) ==
  LET t == Join(r.s, r.deps) IN
  CASE ~r.s.ok -> r.s
    [] r.s.ok /\ Meets(r.s, "profile", n) -> Failed(r.s)
    [] r.s.ok /\ Meets(r.s, "callback", n) -> Failed(t)
    [] r.s.ok /\ ~Meets(r.s, "profile", n) /\ ~Meets(r.s, "callback", n) ->
         Put(t, <<n, 1>>, r.got[1], {Newest(t)})
Profiled(n, w, ec, s) == ProfiledAfter(n, Collect(w[1], ec, "pipelined", s))

\* execute
Executed(n, r) == IF r.s.ok THEN PutAll(r.s, n, r.got, r.deps) ELSE r.s
ExecNext(n, w, ec, mode, s) ==
  IF Closes(Follow(tree, n), ec) THEN Exec(w[2], Off, mode, s)
  ELSE ExecChild(Follow(tree, n), w[2], ec, mode, s)
ThenExec(n, w, ec, mode, s) ==
  LET t == Sourced(n, w, ec, s) IN IF t.ok THEN ExecNext(n, w, ec, mode, t) ELSE t
BundleExec(n, w, ec, s) ==
  LET t == ExecChild(tree[n].kids[1], w[1], ec, "pipelined", s)
  IN IF t.ok THEN ExecChild(tree[n].kids[2], w[2], ec, "pipelined", t) ELSE t
Execute(n, w, ec, mode, s) ==
  CASE tree[n].k \in {"fill", "copy"} -> Addables(n, ec, mode, s)
    [] tree[n].k = "write" -> Write(n, mode, s)
    [] tree[n].k \in {"lift", "forward"} -> Pass(n, ec, s)
    [] tree[n].k = "pipe" -> s
    [] tree[n].k = "mint" -> Mint(n, s)
    [] tree[n].k = "upload" -> Upload(n, s)
    [] tree[n].k = "download" -> Download(n, mode, s)
    [] tree[n].k = "arced" -> Arced(n, w, ec, s)
    [] tree[n].k = "route" -> Route(n, w, mode, s)
    [] tree[n].k = "profiled" -> Profiled(n, w, ec, s)
    [] tree[n].k = "host" -> Executed(n, Seam(n, w, s))
    [] tree[n].k = "bundle" /\ OpensBundle(n, ec, s) ->
         LET own == BoundaryWalk(n, s) IN EndExec(n, own, BundleExec(n, w, own, s))
    [] tree[n].k = "bundle" /\ ~OpensBundle(n, ec, s) -> BundleExec(n, w, ec, s)
    [] tree[n].k = "then" /\ OpensSpan(n, ec, s) ->
         LET own == BoundaryWalk(n, s) IN EndExec(n, own, ThenExec(n, w, own, mode, s))
    [] tree[n].k = "then" /\ ~OpensSpan(n, ec, s) -> ThenExec(n, w, ec, mode, s)

\* gather_checkouts
ThenGather(n, w, ec, mode, s) ==
  LET t == Sourced(n, w, ec, s) IN
  CASE ~t.ok -> Result(t, <<>>, {})
    [] t.ok /\ Closes(Follow(tree, n), ec) -> Gather(w[2], Off, mode, t)
    [] t.ok /\ ~Closes(Follow(tree, n), ec) -> GatherChild(Follow(tree, n), w[2], ec, mode, t)
JoinBranches(n, l, r) ==
  IF ~r.s.ok THEN Lost(Result(r.s, l.got, {}))
  ELSE Gathered(IF Meets(r.s, "join", n) THEN Failed(r.s) ELSE Join(r.s, l.deps \cup r.deps), l.got \o r.got)
BundleGather(n, w, ec, s) ==
  LET l == GatherChild(tree[n].kids[1], w[1], ec, "pipelined", s)
  IN IF ~l.s.ok THEN l
     ELSE JoinBranches(n, l, GatherChild(tree[n].kids[2], w[2], ec, "pipelined", l.s))
Taken(s, cells) ==
  IF ~s.ok THEN Result(s, <<>>, {})
  ELSE LET vs == [i \in DOMAIN cells |-> s.pipe[cells[i]]] IN
       Result([s EXCEPT !.pipe = [c \in DOMAIN @ |-> IF c \in Range(cells) THEN None ELSE @[c]]],
              vs, DepsOf(vs))
GatherCheckouts(n, w, ec, mode, s) ==
  CASE tree[n].k = "then" /\ OpensSpan(n, ec, s) ->
         LET own == BoundaryWalk(n, s) IN EndGather(n, own, ThenGather(n, w, own, mode, s))
    [] tree[n].k = "then" /\ ~OpensSpan(n, ec, s) -> ThenGather(n, w, ec, mode, s)
    [] tree[n].k = "bundle" -> BundleGather(n, w, ec, s)
    [] tree[n].k = "host" -> Seam(n, w, s)
    [] tree[n].k \in Leaves \cup {"arced", "route", "profiled"} ->
         Taken(Execute(n, w, ec, mode, s), OutCells(tree)[n])

\* collect, collect_home: a chain opens nothing, and its tail is asked to collect
\* where the chain is, whether or not the span there has closed.  The others
\* execute and drain their outputs (what a wrapper takes has one, so that no
\* bundle is asked).
ThenCollect(n, w, ec, mode, s) ==
  LET t == Sourced(n, w, ec, s) IN
  CASE ~t.ok -> Result(t, <<>>, {})
    [] t.ok /\ Closes(Follow(tree, n), ec) -> Collect(w[2], Off, mode, t)
    [] t.ok /\ ~Closes(Follow(tree, n), ec) -> Collect(w[2], ec, mode, t)
Collected(n, w, ec, mode, s) ==
  IF tree[n].k = "then" THEN ThenCollect(n, w, ec, mode, s)
  ELSE Taken(Execute(n, w, ec, mode, s), OutCells(tree)[n])

Answer(n, w, q) ==
  CASE q.how = "execute" -> Result(Execute(n, w, q.ec, q.mode, q.s), <<>>, {})
    [] q.how = "gather" -> GatherCheckouts(n, w, q.ec, q.mode, q.s)
    [] q.how = "collect" -> Collected(n, w, q.ec, q.mode, q.s)
Visit ==
  LET visit[n \in DOMAIN tree] ==
        [q \in Questions(tree) |-> Answer(n, [i \in DOMAIN tree[n].kids |-> visit[tree[n].kids[i]]], q)]
  IN visit

\* reclaim_undelivered: what nobody took is waited for and goes home.
Undelivered(t) ==
  LET und[n \in DOMAIN t] ==
        IF t[n].k \in {"then", "bundle"} THEN und[t[n].kids[1]] \cup und[t[n].kids[2]]
        ELSE IF t[n].k = "host" THEN Range(Own(t, n)) \cup und[t[n].kids[1]]
        ELSE Range(OutCells(t)[n])
  IN und

Left(s) == {c \in Undelivered(tree)[Root(tree)] : s.pipe[c] # None}
Drained(s) ==
  [s EXCEPT !.slots = Rehomed(@, {s.pipe[c] : c \in Left(s)}),
            !.pipe = [c \in DOMAIN @ |-> IF c \in Left(s) THEN None ELSE @[c]]]
\* A mutant of Reclaim: values go home without a wait.
ReclaimNow(s) == Drained(s)

Reclaim(s) == Drained(WaitFor(s, UNION {s.pipe[c].deps : c \in Left(s)}))

\* wait_on: the root, which answers as v, is one command buffer, or is walked;
\* with a seam, behind the start gate.
RootOf(v, s) ==
  LET root == Root(tree) IN
  IF HasSeam(tree)
  THEN Gather(v, Off, "pipelined", [Enqueue(s, 0, {}, {}) EXCEPT !.gate = {1}])
  ELSE IF OpensBoundary(root, Off, s) THEN BoundaryGather(root, v, "blocking", s)
  ELSE Gather(v, Off, "blocking", s)
Rooted(s) == RootOf(Visit[Root(tree)], s)

Waited(r) == WaitFor(r.s, r.deps)

-----------------------------------------------------------------------------

\* What a sync may meet: a command that cannot be enqueued, be recorded
\* ("record": the driver fails; "decline": it has no such call) or either
\* ("reject"), a command buffer that cannot be made, sealed or enqueued, a bundle
\* without a marker, a device without a queue, a profile or its callback refused.
FaultsOf(t) == {f \in
    {<<"none", 0>>, <<"create", 0>>, <<"finalize", 0>>, <<"enqueue_cb", 0>>} \cup
    ({"enqueue", "record", "decline", "reject"} \X
       {n \in DOMAIN t : t[n].k = "mint" \/ (n \in Commands(t) /\ t[n].k # "host")}) \cup
    ({"join"} \X {n \in DOMAIN t : t[n].k = "bundle"}) \cup
    ({"queue"} \X {n \in DOMAIN t : t[n].k = "route"}) \cup
    ({"profile", "callback"} \X {n \in DOMAIN t : t[n].k = "profiled"}) :
  f[1] \in Faults}

NoRun == [ok |-> TRUE, fault |-> <<"none", 0>>, log |-> <<>>, waited |-> {}, bound |-> None, seeds |-> {}]

\* The buffers of this run, and the uploads that make theirs.
Bound == [x \in Slots |->
  IF \E n \in DOMAIN tree : tree[n].k = "mint" /\ tree[n].on[1] = x THEN <<x, minted>>
  ELSE IF slots[x] = New THEN <<x, 0>> ELSE slots[x]]
Seeds == {x \in Slots : slots[x] = New}

Ended(fault, s, got) ==
  /\ slots' = s.slots /\ cbs' = s.cbs /\ off' = s.off
  /\ outs' = IF s.ok THEN got ELSE <<>>
  /\ run' = [ok |-> s.ok, fault |-> fault, log |-> s.log, waited |-> s.waited,
              bound |-> Bound, seeds |-> Seeds]

\* check_ready
Ready == \A x \in Slots : slots[x] # None

Sync(fault) ==
  /\ run = NoRun /\ Ready
  /\ \E r \in {Rooted(Fresh(fault))} : Ended(fault, Reclaim(Waited(r)), r.got)
  /\ minted' = IF Has(tree, "mint") THEN 5 - minted ELSE minted
  /\ UNCHANGED tree

\* The caller drops the checkouts and the result.
Settle ==
  /\ run # NoRun
  /\ slots' = Rehomed(slots, Range(outs))
  /\ outs' = <<>> /\ run' = NoRun
  /\ UNCHANGED <<tree, cbs, off, minted>>

\* mutate_bind: another buffer in slot x; the command buffers that captured
\* the slot are not current any more.
Other(b) == <<b[1], IF b[2] = 0 THEN 1 ELSE 0>>

\* A mutant of Rebind: the command buffers are kept.
RebindOnly(x) ==
  /\ run = NoRun /\ MayRebind(tree) /\ slots[x] \notin {None, New}
  /\ slots' = [slots EXCEPT ![x] = Other(@)]
  /\ UNCHANGED <<tree, cbs, off, run, minted, outs>>

Rebind(x) ==
  /\ run = NoRun /\ MayRebind(tree) /\ slots[x] \notin {None, New}
  /\ slots' = [slots EXCEPT ![x] = Other(@)]
  /\ cbs' = [n \in DOMAIN cbs |-> IF cbs[n] # None /\ x \in cbs[n].slots THEN None ELSE cbs[n]]
  /\ UNCHANGED <<tree, off, run, minted, outs>>

Init ==
  /\ tree \in Trees
  /\ slots = [x \in Slots |->
       IF \E n \in DOMAIN tree : tree[n].k = "upload" /\ tree[n].on[1] = x THEN New ELSE <<x, 0>>]
  /\ cbs = [n \in Heads(tree) |-> None]
  /\ off = FALSE /\ run = NoRun /\ minted = 2 /\ outs = <<>>

Next ==
  \/ \E fault \in FaultsOf(tree) : Sync(fault)
  \/ Settle
  \/ \E x \in Slots : Rebind(x)

Spec == Init /\ [][Next]_vars

-----------------------------------------------------------------------------

Ran == run # NoRun

\* Two commands of a sync that use the same buffer are ordered, whether each
\* was enqueued, recorded or replayed: the later one is not started before the
\* earlier one is over; nor is any before the start gate of a graph with a
\* seam, if all its buffers are lent from slots (cb.rs: cb_boundary_gather, cb_close_before_seam; eager.rs: wait_on).
Ordered ==
  \A j \in DOMAIN run.log : \A i \in 1..(j - 1) :
    \/ run.log[i].on \cap run.log[j].on # {}
    \/ HasSeam(tree) /\ i = 1 /\ run.log[j].n # 0 /\ ~Has(tree, "upload") /\ ~Has(tree, "mint")
    => i \in run.log[j].before

\* A sync that succeeds has enqueued every command of its graph once and no
\* other, though some were recorded long ago or tried before; an upload may do
\* without.  And what only stops a command buffer from being made, or from being built,
\* does not fail a sync (cb.rs: cb_boundary_gather, cb_replay, "correct results, no double-execute").
Mine(n) == {i \in DOMAIN run.log : run.log[i].n = n}
EachOnce == Ran /\ run.ok => \A n \in DOMAIN tree :
  Cardinality(Mine(n)) \in
    IF n \notin Commands(tree) THEN {0} ELSE IF tree[n].k = "upload" THEN {0, 1} ELSE {1}
OnlyRefusalsFail == Ran /\ run.fault[1] \in {"none", "create", "finalize", "record", "decline"} => run.ok
RunsOnce == EachOnce /\ OnlyRefusalsFail

\* It works on the buffers bound or minted now, whatever those were that its command
\* buffers were recorded with; what is left out is the upload into a buffer that this
\* run made from the data, and no other (eager.rs: mutate_bind; combinators.rs: AllocZero).
OnTheBuffersBound == Ran /\ run.ok => \A n \in Commands(tree) :
  /\ Mine(n) = {} <=> tree[n].k = "upload" /\ tree[n].on[1] \in run.seeds
  /\ \A i \in Mine(n) : run.log[i].on = {run.bound[x] : x \in Range(tree[n].on)}

\* When a sync succeeds every command it enqueued is over: those of outputs
\* that nobody took too (eager.rs: wait_on, reclaim_undelivered).
Covered ==
  Ran /\ run.ok => \A i \in DOMAIN run.log : run.log[i].n # 0 => i \in run.waited

\* After a sync, failed or not, every slot is full but those whose buffers
\* the checkouts hold and bring home, and those whose buffer went by value
\* into an Arc or onto another device: the graph can run once more (eager.rs:
\* the home invariant; Pipe::take).
ByValue(x) ==
  \E w \in {n \in DOMAIN tree : tree[n].k \in {"arced", "route"}} :
    \E n \in Under(tree, w) : \E i \in DOMAIN tree[n].on : tree[n].on[i] = x
Rearmed == \A x \in Slots :
  slots[x] # None \/ ByValue(x) \/ \E o \in Range(outs) : o.home = x
=============================================================================
