-------------------------- MODULE OpTreeContracts --------------------------
(***************************************************************************)
(* What a walk of OpTree owes whoever asks for it, and the invariants of   *)
(* the graph between two syncs: the vocabulary of the proofs.              *)
(***************************************************************************)
EXTENDS OpTree

-----------------------------------------------------------------------------
(* Where the buffers are                                                   *)

CellsUnder(t, n) == {c \in Cells(t) : c[1] \in Under(t, n)}
OwnCells(t, n) == {c \in Cells(t) : c[1] = n}
UsedCells(t, n) == {c \in Cells(t) : <<"cell", c>> \in Uses(t, n)}
UsedSlots(t, n) == {x \in Slots : <<"slot", x>> \in Uses(t, n)}

Full(s) == {c \in Cells(tree) : s.pipe[c] # None}

\* A step that moves no value: a command, a wait, a command buffer.
Calm(s, u) ==
  /\ u \in States(tree) /\ u.slots = s.slots /\ (u.ok => s.ok)
  /\ \A f \in Heads(tree) : s.cbs[f] # None => u.cbs[f] # None
  /\ \A c \in Cells(tree) :
       /\ u.pipe[c] = None <=> s.pipe[c] = None
       /\ s.pipe[c] # None => u.pipe[c].v = s.pipe[c].v /\ u.pipe[c].home = s.pipe[c].home

Sound(v) == v.home # Nowhere => v.v # None

\* A value of a cell has the home that the cell is for, or none.
Sane(s) == \A c \in Full(s) : s.pipe[c].home \in {Nowhere, Letter(tree, c)} /\ Sound(s.pipe[c])

\* The slot is full, or a cell holds what goes home to it.
Owned(s, x) == s.slots[x] # None \/ \E c \in Full(s) : s.pipe[c].home = x

\* Values for the given cells.
Fitting(vs, cells) ==
  /\ vs \in Seq(Held) /\ Len(vs) = Len(cells)
  /\ \A i \in 1..Len(cells) : vs[i].home \in {Nowhere, Letter(tree, cells[i])} /\ Sound(vs[i])

\* What is asked of a walk: the inputs of the node are there, it has not run.
Asked(n, ec, s) ==
  /\ s \in States(tree) /\ s.ok /\ Sane(s)
  /\ ec \in Contexts(tree) /\ (ec.cb # "off" => ec.f \in Heads(tree))
  /\ ec.cb = "lend" => s.cbs[ec.f] # None
  /\ UsedCells(tree, n) \subseteq Full(s) /\ \A x \in UsedSlots(tree, n) : s.slots[x] # None
  /\ Full(s) \cap CellsUnder(tree, n) = {}

Modes == {"blocking", "pipelined"}
Exempt == {c \in Cells(tree) : ByValue(Letter(tree, c))}

\* Whether it fails or not: no slot is emptied that is not an input, and a
\* cell that is filled and not reclaimed is for a buffer that went by value.
Kept(n, s, u) ==
  /\ u \in States(tree) /\ Sane(u)
  /\ \A f \in Heads(tree) : s.cbs[f] # None => u.cbs[f] # None
  /\ \A x \in Slots \ UsedSlots(tree, n) : s.slots[x] # None => u.slots[x] # None
  /\ Full(u) \ Full(s) \subseteq CellsUnder(tree, n) \cap (Undelivered(tree)[n] \cup Exempt)

Filled(n, s) == (Full(s) \ UsedCells(tree, n)) \cup Gives(tree, n)

Executes(n, s, u) ==
  /\ Kept(n, s, u) /\ (u.ok => Full(u) = Filled(n, s))
  /\ \A x \in Slots : ~ByValue(x) /\ Owned(s, x) => Owned(u, x)

Gathers(n, s, r) ==
  /\ Kept(n, s, r.s) /\ r.deps \in SUBSET Nat
  /\ r.s.ok => Full(r.s) = Filled(n, s) \ Range(OutCells(tree)[n]) /\ Fitting(r.got, OutCells(tree)[n])
  /\ ~r.s.ok => r.got = <<>>
  /\ \A x \in Slots : ~ByValue(x) /\ Owned(s, x) =>
       Owned(r.s, x) \/ \E i \in DOMAIN r.got : r.got[i].home = x

Takers == Leaves \ {"pipe", "mint", "upload"}

\* A leaf either ends well or leaves no cell full that was empty.
Neat(n, s, u) == Executes(n, s, u) /\ (u.ok \/ Full(u) \subseteq Full(s))

Pair(n) == n \in DOMAIN tree /\ tree[n].k \in {"then", "bundle"}

Brings(vs, x) == \E i \in DOMAIN vs : vs[i].home = x

\* A kid that obeys the contract, however it is asked.  A leaf that fails
\* leaves no cell full that was empty.
Obeys(v, n) ==
  \A ec, s : \A mode \in Modes : Asked(n, ec, s) =>
    /\ Executes(n, s, Exec(v, ec, mode, s)) /\ Gathers(n, s, Gather(v, ec, mode, s))
    /\ Gathers(n, s, Collect(v, ec, mode, s))
    /\ tree[n].k \in Leaves /\ ~Collect(v, ec, mode, s).s.ok => Full(Collect(v, ec, mode, s).s) \subseteq Full(s)

\* Profiled::execute leaves what a failed walk below it has left in the cells
\* where it is; below a leaf there is nothing (combinators.rs: Profiled has no
\* reclaim_undelivered of its own).  What it has collected itself is lost when its
\* marker or its callback is refused: a sync meets no such fault here.
ProfilesLeaves(t) == \A n \in DOMAIN t : t[n].k = "profiled" => t[Source(t, n)].k \in Leaves
ProfilesKeep(t) == ProfilesLeaves(t) /\ Faults \cap {"profile", "callback"} = {}

\* The kids of a node obey, and so does a node that answers as it does.
KidsObey(n, w) ==
  /\ tree[n].kids # <<>> => Obeys(w[1], Source(tree, n))
  /\ tree[n].k \in {"then", "bundle"} => Obeys(w[2], Follow(tree, n))

-----------------------------------------------------------------------------
(* How often command m is enqueued                                         *)

\* How often a node is in a log, or in what was recorded.
Times(q, m) == Cardinality({i \in DOMAIN q : q[i].n = m})
Is(m, S) == IF m \in S THEN 1 ELSE 0

\* How often m is enqueued where the commands in S are; an upload may only allocate.
Amounts(m, S) == IF m \notin S THEN {0} ELSE IF tree[m].k = "upload" THEN {0, 1} ELSE {1}

\* The nodes that a walk records in the frame it is in, and 1 if it closes the span.
Alone == [in |-> {}, cut |-> 0]
SpanSource(t, n, a) ==
  IF t[n].k = "then" /\ ~SpineHead(t)[Source(t, n)] /\ SuffixWeight(t)[Source(t, n)] = 0 THEN Alone ELSE a
SpanEnds(t, n, l) == l.cut = 1 \/ (t[n].k = "then" /\ ~SpineHead(t)[Follow(t, n)])
SpanPair(t, n, l, b) ==
  IF SpanEnds(t, n, l) THEN [in |-> l.in, cut |-> 1] ELSE [in |-> l.in \cup b.in, cut |-> b.cut]
Spans(t) ==
  LET sp[n \in DOMAIN t] ==
        IF t[n].k \in {"fill", "copy"} THEN [in |-> {n}, cut |-> 0]
        ELSE IF t[n].k \in {"arced", "profiled"} THEN sp[t[n].kids[1]]
        ELSE IF t[n].k \in {"then", "bundle"}
        THEN SpanPair(t, n, SpanSource(t, n, sp[t[n].kids[1]]), sp[t[n].kids[2]])
        ELSE Alone
  IN sp
Span(n) == Spans(tree)[n].in
Cut(n) == Spans(tree)[n].cut

\* A chain that is asked to collect records nothing after its span has closed:
\* AndThen::collect does not ask whether it has, and a command recorded then is
\* lost.  An Arc collects from what it is of.
Unbroken(t, n) ==
  \A m \in Under(t, n) : (\A i \in m..n : t[i].k = "then") /\ SpineHead(t)[Follow(t, m)] =>
    SpanSource(t, m, Spans(t)[Source(t, m)]).cut = 0
ArcsUnbroken(t) == \A n \in DOMAIN t : t[n].k = "arced" => Unbroken(t, Source(t, n))

\* The commands below a node, and those that its walk enqueues one by one.
Below(n) == Commands(tree) \cap Under(tree, n)
Due(n, ec) == IF ec.cb = "off" THEN Below(n) ELSE Below(n) \ Span(n)

Fields == {"ok", "fault", "log", "cbs", "fr"}
Still(s, u) ==
  /\ Fields \subseteq DOMAIN u /\ u.ok = s.ok /\ u.fault = s.fault
  /\ u.log = s.log /\ u.cbs = s.cbs /\ u.fr = s.fr

\* What only stops a command buffer from being made.
Harmless(s) == s.fault[1] \in {"none", "create", "finalize", "record", "decline"}

\* Unless it fails, which a harmless fault does not make it do, m is enqueued k times more.
Enqueued(m, s, u, k) ==
  /\ u \in States(tree) /\ u.fault = s.fault /\ (Harmless(s) /\ s.ok => u.ok)
  /\ u.ok => s.ok /\ Times(u.log, m) = Times(s.log, m) + k

\* A frame is sealed; what it recorded stays.
Sealed(f, s, u) ==
  /\ u.fr[f].sealed /\ u.fr[f].rec = s.fr[f].rec /\ u.fr[f].closed = s.fr[f].closed
  /\ \A g \in Heads(tree) \ {f} : u.fr[g] = s.fr[g]

\* A command buffer kept at g holds what the frame at g records.
Fit(s, g, m) == s.cbs[g] # None => Times(s.cbs[g].rec, m) = Is(m, Span(g))
AllFit(m, R, s) == \A g \in Heads(tree) \cap R : Fit(s, g, m)

\* A harmless fault fails nothing; the frames of other nodes are left alone;
\* m is enqueued where it is due, and k times more.
Steady(s, u) == u.fault = s.fault /\ (Harmless(s) /\ s.ok => u.ok)
Apart(R, s, u) == \A g \in Heads(tree) \ R : u.fr[g] = s.fr[g] /\ u.cbs[g] = s.cbs[g]
Grows(m, s, u, D, k) ==
  u.ok => \E d \in Amounts(m, D) : Times(u.log, m) = Times(s.log, m) + d + k

\* A walk outside any frame.
Loose(m, R, s, u, D) == Steady(s, u) /\ Apart(R, s, u) /\ AllFit(m, R, u) /\ Grows(m, s, u, D, 0)

\* A walk in a frame records the commands of P; it closes the span if cut is 1.
Open(ec, s) ==
  ~s.fr[ec.f].closed /\ (ec.cb = "build" => ~s.fr[ec.f].sealed /\ s.cbs[ec.f] = None)
Owes(m, ec, s, P) ==
  IF ec.cb = "lend" THEN Times(s.cbs[ec.f].rec, m) ELSE Times(s.fr[ec.f].rec, m) + Is(m, P)
Lends(m, ec, s, u, P, cut) ==
  u.cbs[ec.f] = s.cbs[ec.f] /\ (u.ok => (u.fr[ec.f].closed <=> cut = 1))
Builds(m, ec, s, u, P, cut) ==
  /\ \/ u.cbs[ec.f] = None
     \/ cut = 1 /\ Times(u.cbs[ec.f].rec, m) = Times(s.fr[ec.f].rec, m) + Is(m, P)
  /\ u.ok => (u.fr[ec.f].closed <=> cut = 1)
  /\ u.ok /\ cut = 0 => ~u.fr[ec.f].sealed /\ Times(u.fr[ec.f].rec, m) = Times(s.fr[ec.f].rec, m) + Is(m, P)
  /\ u.ok /\ cut = 1 => u.fr[ec.f].sealed \/ u.fr[ec.f].rec = <<>>
Spanned(m, R, ec, s, u, D, P, cut) ==
  /\ Steady(s, u) /\ Apart(R \cup {ec.f}, s, u) /\ AllFit(m, R \ {ec.f}, u)
  /\ ec.cb = "lend" => Lends(m, ec, s, u, P, cut)
  /\ ec.cb = "build" => Builds(m, ec, s, u, P, cut)
  /\ cut = 0 => Grows(m, s, u, D, 0)
  /\ cut = 1 => Grows(m, s, u, D, Owes(m, ec, s, P))

\* What is asked of a walk: the frames below are unused, what is kept there
\* fits, and the frame that it is in is open.
Poised(m, n, ec, s) ==
  /\ Asked(n, ec, s)
  /\ \A g \in Heads(tree) \cap Under(tree, n) : g # ec.f => s.fr[g] = Frame /\ Fit(s, g, m)
  /\ ec.cb = "off" => ec.f = 0
  /\ ec.cb # "off" => ec.f >= n /\ Open(ec, s)

Tallied(m, n, ec, s, u) ==
  /\ ec.cb = "off" => Loose(m, Under(tree, n), s, u, Below(n))
  /\ ec.cb # "off" => Spanned(m, Under(tree, n), ec, s, u, Below(n) \ Span(n), Span(n), Cut(n))

\* How a boundary ends, whether it executes or gathers.
Finish(n, ec, u, z) ==
  IF u.ok /\ ec.cb # "off" /\ Enqueues(n, ec, u) THEN Still(Ends(n, ec, u), z) ELSE Still(u, z)

\* A kid that keeps the contract, however it is asked.
Tallies(m, v, n) ==
  \A ec, s : \A mode \in Modes : Poised(m, n, ec, s) =>
    /\ Tallied(m, n, ec, s, Exec(v, ec, mode, s)) /\ Tallied(m, n, ec, s, Gather(v, ec, mode, s).s)
    /\ ec.cb = "off" \/ Unbroken(tree, n) => Tallied(m, n, ec, s, Collect(v, ec, mode, s).s)

\* A step that enqueues at most markers, and fails only on a fault that is not harmless.
Quiet(m, s, u) ==
  /\ (u.ok => s.ok) /\ (Harmless(s) /\ s.ok => u.ok)
  /\ u.fault = s.fault /\ Times(u.log, m) = Times(s.log, m) /\ u.cbs = s.cbs /\ u.fr = s.fr

\* What the first of a pair records, and whether the span ends after it.
First1(n) == SpanSource(tree, n, Spans(tree)[Source(tree, n)])
Ends1(n) == IF SpanEnds(tree, n, First1(n)) THEN 1 ELSE 0

\* What the first of a pair has enqueued and recorded.
Begun(m, n, ec, s, t) ==
  LET a == Source(tree, n)
      P == First1(n).in
  IN /\ ec.cb = "off" => Loose(m, Under(tree, a), s, t, Below(a))
     /\ ec.cb # "off" => Spanned(m, Under(tree, a), ec, s, t, Below(a) \ P, P, Ends1(n))

\* How the second is called: where the span has ended, it may be outside.
Calls(n, v, ec, mode, t, u) ==
  \/ u = ExecChild(Follow(tree, n), v, ec, mode, t) \/ u = GatherChild(Follow(tree, n), v, ec, mode, t).s
  \/ /\ ec.cb # "off" /\ Ends1(n) = 1
     /\ u = Exec(v, Off, mode, t) \/ u = Gather(v, Off, mode, t).s \/ u = Collect(v, Off, mode, t).s
  \/ /\ ec.cb = "off" \/ (Ends1(n) = 0 /\ Unbroken(tree, Follow(tree, n)))
     /\ u = Collect(v, ec, mode, t).s

\* A pair whose kids keep the contract keeps it.
KidsTally(m, n, w) ==
  /\ tree[n].kids # <<>> => Tallies(m, w[1], Source(tree, n))
  /\ tree[n].k \in {"then", "bundle"} => Tallies(m, w[2], Follow(tree, n))

\* A step that changes nothing but a frame, where it records m k times.
Framed(m, f, s, u, k) ==
  /\ Fields \subseteq DOMAIN u /\ u.ok = s.ok /\ u.fault = s.fault /\ u.log = s.log /\ u.cbs = s.cbs
  /\ u.fr[f].closed = s.fr[f].closed /\ u.fr[f].sealed = s.fr[f].sealed
  /\ Times(u.fr[f].rec, m) = Times(s.fr[f].rec, m) + k
  /\ \A g \in Heads(tree) \ {f} : u.fr[g] = s.fr[g]

-----------------------------------------------------------------------------
(* Between two syncs                                                       *)

\* What the checkouts will bring home is a buffer; what a node may keep is a
\* command buffer.
Holds ==
  /\ slots \in [Slots -> Contents] /\ cbs \in [Heads(tree) -> {None} \cup Baked] /\ off \in BOOLEAN
  /\ minted \in 2..3
  /\ outs \in Seq(Held) /\ \A i \in DOMAIN outs : Sound(outs[i])
  /\ Rearmed

\* The graph never changes, so what is asked of it once is asked for ever.
IInv == tree \in Trees /\ (ProfilesKeep(tree) => Holds)

\* What a node keeps is what its frame records.
Faithful == \A m \in Nat \ {0} : \A g \in Heads(tree) : cbs[g] # None => Times(cbs[g].rec, m) = Is(m, Span(g))

\* What the command buffers keep is what their spans record, and the last run was right.
IRuns == ProfilesKeep(tree) /\ ArcsUnbroken(tree) => Faithful /\ OnlyRefusalsFail /\ EachOnce
=============================================================================
