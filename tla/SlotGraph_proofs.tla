-------------------------- MODULE SlotGraph_proofs --------------------------
(***************************************************************************)
(* Proofs about SlotGraph, for any graphs, buffers and tags: the type      *)
(* invariant, and the home invariant of callers that do not feed a tag one *)
(* of whose slots is lent; that no buffer is stranded by a run, that a run *)
(* past its readiness check finds every input, and that a buffer at home   *)
(* has no device work in flight; that SlotGraph implements Custody; and    *)
(* what mutate_call promises.                                              *)
(*                                                                         *)
(* The moves on a world (Put, Drop, Sever, Fold, Lend) each keep a         *)
(* consistent world consistent; every action composes one to four moves.   *)
(* A verb, a Checkout's end and a reclaim do one thing to the runs: they   *)
(* take buffers out of pipes and tuples and refill waiting cells (Shift).  *)
(* Only a leaf, a lent Checkout and the end of a sync do more.             *)
(***************************************************************************)
EXTENDS SlotGraph, WellFoundedInduction, FiniteSetTheorems, TLAPS

-----------------------------------------------------------------------------
(* The walk order.                                                         *)

\* A nonempty set of sites has a first one.
LEMMA FirstIsMember ==
  ASSUME NEW S, S \subseteq Sites, S # {}
  PROVE  First(S) \in S /\ \A r \in S : Pos[First(S)] <= Pos[r]
<1>. DEFINE R == OpToRel(<, Nat)
            T == {Pos[s] : s \in S}
<1>1. T \subseteq Nat /\ T # {}
  BY ShapeAssumption
<1>2. PICK n \in T : \A m \in T : <<m, n>> \notin R
  <2>. HIDE DEF R, T
  <2>. QED  BY <1>1, WFMin, NatLessThanWellFounded DEF R
<1>3. PICK s \in S : Pos[s] = n
  OBVIOUS
<1>4. \A r \in S : Pos[s] <= Pos[r]
  <2>. TAKE r \in S
  <2>1. <<Pos[r], n>> \notin R
    BY <1>2
  <2>2. Pos[r] \in Nat /\ n \in Nat
    BY <1>1
  <2>. QED  BY <2>1, <2>2, <1>3 DEF OpToRel
<1>. QED  BY <1>4 DEF First

-----------------------------------------------------------------------------
(* The moves on a world.                                                   *)

\* The places a move may name are places a buffer can be.
LEMMA PlaceTypes ==
  /\ Gone \in Places /\ Raw \in Places
  /\ \A s \in Cells : InCell(s) \in Places
BY DEF Gone, Raw, InCell, Places, Kinds, Cells, Sites, Pipes

\* A value leaving a cell that is rebound leaves a world of the right type.
LEMMA EvictType ==
  ASSUME NEW w \in Worlds, NEW S
  PROVE  Evict(w, S) \in [Buffers -> Places]
BY PlaceTypes DEF Evict, Worlds

\* A value may be stored in a cell its owner is the one to refill, or in one
\* that waits for nobody.
LEMMA PutConsistent ==
  ASSUME NEW w \in Worlds, Consistent(w), NEW s \in Cells, NEW b \in Buffers,
         w.place[b].at # "cell",
         \/ w.place[b].home = s
         \/ w.place[b].home = None /\ w.st[s] # Vacated(s)
  PROVE  Put(w, s, b) \in Worlds /\ Consistent(Put(w, s, b))
<1>. DEFINE v == Put(w, s, b)
<1>1. v \in Worlds
  BY PlaceTypes, EvictType DEF Put, Worlds, Cells, Sites, Pipes, CellStates
<1>2. /\ v.st = [w.st EXCEPT ![s] = "Bound"]
      /\ v.place = [Evict(w, {s}) EXCEPT ![b] = InCell(s)]
  BY DEF Put
<1>3. s \in Sites /\ s # None /\ v.st[s] = "Bound"
  BY <1>2, NoneIsFresh DEF Cells, Sites, Worlds, Pipes
<1>4. \A t \in Sites : t # s => v.st[t] = w.st[t]
  BY <1>2 DEF Worlds
<1>5. v.place[b] = InCell(s)
  BY <1>2, EvictType
<1>6. \A x \in Buffers : x # b =>
        \/ w.place[x].at = "cell" /\ w.place[x].in = s /\ v.place[x] = Gone
        \/ ~(w.place[x].at = "cell" /\ w.place[x].in = s) /\ v.place[x] = w.place[x]
  BY <1>2, EvictType DEF Evict
<1>. HIDE DEF v
<1>7. CellsHoldOne(v)
  BY <1>3, <1>4, <1>5, <1>6 DEF Consistent, CellsHoldOne, InCell, Gone, Cells, Sites
<1>8. HomesAwaitOne(v)
  BY <1>3, <1>4, <1>5, <1>6
  DEF Consistent, HomesAwaitOne, InCell, Gone, Away, Cells, Sites, Worlds, Places
<1>9. LentIsOwed(v)
  BY <1>3, <1>4, <1>5, <1>6
  DEF Consistent, LentIsOwed, HomesAwaitOne, InCell, Gone, Away, Worlds, Places
<1>. QED  BY <1>1, <1>7, <1>8, <1>9 DEF Consistent, v

\* A buffer that nothing waits for may change its place outside the cells, or be
\* dropped.
LEMMA HomelessMove ==
  ASSUME NEW w \in Worlds, Consistent(w), NEW b \in Buffers,
         w.place[b].at # "cell", w.place[b].home = None,
         NEW p \in Places, p.at # "cell", p.home = None
  PROVE  /\ [w EXCEPT !.place[b] = p] \in Worlds
         /\ Consistent([w EXCEPT !.place[b] = p])
<1>. DEFINE v == [w EXCEPT !.place[b] = p]
<1>1. v \in Worlds /\ v.st = w.st /\ v.place = [w.place EXCEPT ![b] = p]
  BY DEF Worlds
<1>2. \A x \in Buffers : v.place[x] = IF x = b THEN p ELSE w.place[x]
  BY <1>1 DEF Worlds
<1>. HIDE DEF v
<1>. QED
  BY <1>1, <1>2, NoneIsFresh
  DEF v, Consistent, CellsHoldOne, HomesAwaitOne, LentIsOwed, Away, Sites, Pipes

\* Dropping a buffer that is not in a cell.
LEMMA DropConsistent ==
  ASSUME NEW w \in Worlds, Consistent(w), NEW b \in Buffers, Away(w, b)
  PROVE  Drop(w, b) \in Worlds /\ Consistent(Drop(w, b))
<1>1. w.place[b].at # "cell" /\ w.place[b] \in Places
  BY DEF Away, Worlds
<1>2. CASE w.place[b].home = None
  BY <1>1, <1>2, HomelessMove, PlaceTypes DEF Drop, Gone
<1>3. CASE w.place[b].home # None
  BY <1>1, <1>3, PutConsistent DEF Drop, Places
<1>. QED  BY <1>2, <1>3

\* Severing a Checkout, or a raw buffer.
LEMMA SeverConsistent ==
  ASSUME NEW w \in Worlds, Consistent(w), NEW b \in Buffers, Away(w, b)
  PROVE  /\ Sever(w, b) \in Worlds
         /\ Consistent(Sever(w, b))
         /\ Sever(w, b).place[b] = Raw
         /\ \A x \in Buffers : x # b /\ Away(w, x) => Sever(w, b).place[x] = w.place[x]
<1>. DEFINE h == w.place[b].home
            v == Sever(w, b)
<1>1. w.place[b] \in Places /\ h \in Cells \cup {None}
  BY DEF Worlds, Places
<1>2. CASE h \notin Slots
  <2>1. v = [w EXCEPT !.place[b] = Raw]
    BY <1>2 DEF Sever
  <2>2. v \in Worlds /\ v.st = w.st
        /\ \A x \in Buffers : v.place[x] = IF x = b THEN Raw ELSE w.place[x]
    BY <2>1, PlaceTypes DEF Worlds
  <2>. HIDE DEF v
  <2>3. \A s \in Sites : w.st[s] = "Lent" => s # h
    BY <1>1, <1>2, NoneIsFresh DEF Consistent, HomesAwaitOne, Vacated, Sites, Pipes
  <2>4. Consistent(v)
    BY <2>2, <2>3, NoneIsFresh
    DEF Consistent, CellsHoldOne, HomesAwaitOne, LentIsOwed, Away, Raw, Sites, Pipes
  <2>. QED  BY <2>2, <2>4 DEF v
<1>3. CASE h \in Slots
  <2>1. v = [st |-> [w.st EXCEPT ![h] = "Severed"],
             src |-> [w.src EXCEPT ![h] = None],
             place |-> [Evict(w, {h}) EXCEPT ![b] = Raw]]
    BY <1>3 DEF Sever
  <2>2. h \in Sites /\ h # None /\ w.st[h] = "Lent"
    BY <1>3, NoneIsFresh DEF Sites, Pipes, Consistent, HomesAwaitOne, Vacated
  <2>3. \A x \in Buffers : Evict(w, {h})[x] = w.place[x]
    BY <2>2 DEF Evict, Consistent, CellsHoldOne
  <2>4. v \in Worlds
    BY <2>1, <2>2, PlaceTypes, EvictType DEF Worlds, CellStates, Pipes
  <2>5. \A x \in Buffers : v.place[x] = IF x = b THEN Raw ELSE w.place[x]
    <3>1. v.place = [Evict(w, {h}) EXCEPT ![b] = Raw]
      BY <2>1
    <3>. HIDE DEF v, h
    <3>. QED  BY <3>1, <2>3, EvictType
  <2>6. \A s \in Sites : v.st[s] = IF s = h THEN "Severed" ELSE w.st[s]
    BY <2>1 DEF Worlds
  <2>. HIDE DEF v
  <2>7. CellsHoldOne(v)
    BY <2>2, <2>5, <2>6 DEF Consistent, CellsHoldOne, Raw, Away, Cells, Sites
  <2>8. HomesAwaitOne(v)
    <3>1. \A x \in Buffers : v.place[x].home # None => x # b /\ v.place[x] = w.place[x]
      BY <2>5 DEF Raw
    <3>2. \A x \in Buffers : v.place[x].home # None => v.place[x].home # h
      BY <3>1, <2>2 DEF Consistent, HomesAwaitOne
    <3>3. \A x \in Buffers : w.place[x].home # None => w.place[x].home \in Sites
      BY DEF Worlds, Places, Cells, Sites
    <3>. QED  BY <2>6, <3>1, <3>2, <3>3 DEF Consistent, HomesAwaitOne, Away
  <2>9. LentIsOwed(v)
    BY <2>2, <2>5, <2>6 DEF Consistent, LentIsOwed
  <2>. QED  BY <2>4, <2>5, <2>7, <2>8, <2>9 DEF v, Consistent, Away
<1>. QED  BY <1>2, <1>3

\* Binding a raw buffer to the slots of a tag.
LEMMA FoldConsistent ==
  ASSUME NEW w \in Worlds, Consistent(w), NEW b \in Buffers, w.place[b] = Raw,
         NEW mode, NEW M, M \subseteq Slots
  PROVE  /\ Fold(w, mode, M, b) \in Worlds
         /\ Consistent(Fold(w, mode, M, b))
         /\ \A x \in Buffers : x # b /\ Away(w, x) =>
              Fold(w, mode, M, b).place[x] = w.place[x]
<1>. DEFINE takers == {s \in M : Takes(mode, w.st[s])}
<1>1. CASE takers = {}
  <2>1. Fold(w, mode, M, b) = [w EXCEPT !.place[b] = Gone]
    BY <1>1 DEF Fold
  <2>2. Consistent([w EXCEPT !.place[b] = Gone]) /\ [w EXCEPT !.place[b] = Gone] \in Worlds
    BY HomelessMove, PlaceTypes DEF Gone, Raw
  <2>. QED  BY <2>1, <2>2 DEF Worlds
<1>2. CASE takers # {}
  <2>. DEFINE s == First(takers)
  <2>1. s \in takers
    BY <1>2, FirstIsMember DEF Sites
  <2>2. s \in Slots /\ s \in Cells /\ w.st[s] # "Lent"
    BY <2>1 DEF Takes, Cells
  <2>3. Fold(w, mode, M, b) = Put(w, s, b)
    BY <1>2 DEF Fold
  <2>4. Put(w, s, b) \in Worlds /\ Consistent(Put(w, s, b))
    <3>1. w.st[s] # Vacated(s) /\ w.place[b].at # "cell" /\ w.place[b].home = None
      BY <2>2 DEF Raw, Vacated
    <3>. HIDE DEF s
    <3>. QED  BY <2>2, <3>1, PutConsistent
  <2>5. \A x \in Buffers : x # b /\ Away(w, x) => Put(w, s, b).place[x] = w.place[x]
    BY DEF Put, Evict, Away
  <2>. QED  BY <2>3, <2>4, <2>5
<1>. QED  BY <1>1, <1>2

\* Lending the input of a leaf, its buffer put outside the cells.
LEMMA LendConsistent ==
  ASSUME TypeOK, Consistent(World), NEW s \in Sites, NEW b \in Lendable(s),
         NEW at \in {"pipe", "gathered", "held"}, NEW in \in Pipes \cup Graphs \cup {None}
  PROVE  /\ b \in Buffers
         /\ Lend(s, b, at, in) \in Worlds
         /\ Consistent(Lend(s, b, at, in))
         /\ Away(Lend(s, b, at, in), b)
<1>. DEFINE v == Lend(s, b, at, in)
<1>1. World \in Worlds /\ st \in [Sites -> CellStates] /\ place \in [Buffers -> Places]
  BY DEF TypeOK, World, Worlds
<1>2. b \in Buffers
  BY DEF Lendable, Loaded
<1>3. CASE st[s] = "FedByPipe"
  <2>1. /\ v.st = st /\ v.src = src
        /\ v.place = [place EXCEPT ![b] = [at |-> at, in |-> in, home |-> place[b].home]]
    BY <1>3 DEF Lend
  <2>2. place[b].at = "pipe"
    BY <1>3 DEF Lendable, Loaded
  <2>3. \A x \in Buffers : v.place[x] =
          IF x = b THEN [at |-> at, in |-> in, home |-> place[b].home] ELSE place[x]
    BY <2>1, <1>1
  <2>4. [at |-> at, in |-> in, home |-> place[b].home] \in Places
    BY <1>1, <1>2 DEF Places, Kinds
  <2>5. v \in Worlds
    BY <1>1, <1>3, <2>4 DEF Lend, World, Worlds
  <2>. HIDE DEF v
  <2>6. Consistent(v)
    BY <2>1, <2>2, <2>3, <1>2, <1>1
    DEF Consistent, CellsHoldOne, HomesAwaitOne, LentIsOwed, Away, World, Places
  <2>. QED  BY <1>2, <2>3, <2>5, <2>6 DEF v, Away
<1>4. CASE st[s] # "FedByPipe"
  <2>1. st[s] = "Bound" /\ place[b] = InCell(s)
    BY <1>4 DEF Lendable
  <2>2. s \in Cells /\ s # None
    BY <2>1, <1>2, NoneIsFresh DEF Consistent, CellsHoldOne, World, InCell, Sites, Pipes
  <2>3. /\ v.st = [st EXCEPT ![s] = Vacated(s)]
        /\ v.place = [place EXCEPT ![b] = [at |-> at, in |-> in, home |-> s]]
    BY <1>4 DEF Lend
  <2>4. [at |-> at, in |-> in, home |-> s] \in Places
    BY <2>2 DEF Places, Kinds
  <2>5. v \in Worlds
    BY <1>1, <1>4, <2>4 DEF Lend, World, Worlds, Vacated, CellStates
  <2>6. \A x \in Buffers : v.place[x] =
          IF x = b THEN [at |-> at, in |-> in, home |-> s] ELSE place[x]
    BY <2>3, <1>1
  <2>7. \A t \in Sites : v.st[t] = IF t = s THEN Vacated(s) ELSE st[t]
    BY <2>3, <1>1
  <2>8. \A x \in Buffers : place[x].home # s
    BY <2>1, <2>2 DEF Consistent, HomesAwaitOne, World, Vacated
  <2>9. \A x \in Buffers : place[x].home # None => place[x].home \in Sites
    BY <1>1 DEF Places, Cells, Sites
  <2>. HIDE DEF v
  <2>10. CellsHoldOne(v)
    BY <1>2, <2>1, <2>2, <2>6, <2>7
    DEF Consistent, CellsHoldOne, World, InCell, Vacated, Cells, Sites
  <2>11. HomesAwaitOne(v)
    BY <1>2, <2>2, <2>6, <2>7, <2>8, <2>9
    DEF Consistent, HomesAwaitOne, World, Away
  <2>12. LentIsOwed(v)
    BY <1>2, <2>1, <2>2, <2>6, <2>7, NoneIsFresh
    DEF Consistent, LentIsOwed, World, InCell, Sites, Pipes
  <2>. QED  BY <1>2, <2>5, <2>6, <2>10, <2>11, <2>12 DEF v, Consistent, Away
<1>. QED  BY <1>3, <1>4

\* Moving a buffer between a pipe, a tuple and a caller keeps its home.
LEMMA CarryConsistent ==
  ASSUME NEW w \in Worlds, Consistent(w), NEW p \in [Buffers -> Places],
         \A x \in Buffers :
           \/ p[x] = w.place[x]
           \/ /\ w.place[x].at \in {"pipe", "gathered", "held"}
              /\ p[x].at \in {"pipe", "gathered", "held"}
              /\ p[x].home = w.place[x].home
  PROVE  /\ [st |-> w.st, src |-> w.src, place |-> p] \in Worlds
         /\ Consistent([st |-> w.st, src |-> w.src, place |-> p])
<1>. DEFINE v == [st |-> w.st, src |-> w.src, place |-> p]
<1>1. v \in Worlds
  BY DEF Worlds
<1>2. v.st = w.st /\ \A x \in Buffers : v.place[x] = p[x]
  OBVIOUS
<1>. HIDE DEF v
<1>3. CellsHoldOne(v)
  BY <1>2 DEF Consistent, CellsHoldOne
<1>4. HomesAwaitOne(v)
  BY <1>2 DEF Consistent, HomesAwaitOne, Away
<1>5. LentIsOwed(v)
  BY <1>2 DEF Consistent, LentIsOwed
<1>. QED  BY <1>1, <1>3, <1>4, <1>5 DEF Consistent, v

-----------------------------------------------------------------------------
(* The invariant.                                                          *)

\* HomeInvariant is inductive with TypeOK.
IInv == TypeOK /\ HomeInvariant

\* What a verb or a run step leaves to be shown: the world it becomes is a
\* consistent one, and the bookkeeping of the runs keeps its type.
LEMMA BecomeConsistent ==
  ASSUME NEW v \in Worlds, Consistent(v), Become(v)
  PROVE  World' \in Worlds /\ HomeInvariant'
<1>1. World' = v
  BY DEF Become, World, Worlds
<1>2. Consistent(World') = Consistent(World)'
  OBVIOUS
<1>. QED  BY <1>1, <1>2 DEF HomeInvariant

RunTypeOK ==
  /\ phase \in [Graphs -> Phases]
  /\ todo \in [Graphs -> SUBSET Sites]
  /\ failed \in [Graphs -> BOOLEAN]
  /\ poisoned \in [Graphs -> BOOLEAN]
  /\ busy \in [Buffers -> BOOLEAN]
  /\ \A g \in Graphs : todo[g] \subseteq SitesOf(g)
  /\ \A g \in Graphs : phase[g] = "walk" <=> todo[g] # {}

\* The invariant, with the world apart from the bookkeeping of the runs.
LEMMA Split == IInv <=> World \in Worlds /\ RunTypeOK /\ HomeInvariant
BY DEF IInv, TypeOK, RunTypeOK

\* The graphs as they are built satisfy the invariant.
LEMMA InitIInv == Init => IInv
<1>. SUFFICES ASSUME Init PROVE IInv
  OBVIOUS
<1>1. place \in [Buffers -> Places]
  BY PlaceTypes DEF Init
<1>2. st \in [Sites -> CellStates]
  BY DEF Init, CellStates
<1>3. src \in [Sites -> Pipes \cup {None}]
  BY ShapeAssumption DEF Init
<1>4. World \in Worlds
  BY <1>1, <1>2, <1>3 DEF World, Worlds
<1>5. RunTypeOK
  BY DEF Init, RunTypeOK, Phases
<1>6. \A b \in Buffers : place[b] = Raw \/ \E s \in Cells : place[b] = InCell(s)
  BY DEF Init
<1>7. \A b \in Buffers : place[b].home = None
  <2>1. Raw.home = None /\ \A s \in Cells : InCell(s).home = None
    BY DEF Raw, InCell
  <2>. QED  BY <1>6, <2>1
<1>8. \A s \in Sites : st[s] = IF s \in PipeHeads THEN "FedByPipe"
                         ELSE IF \E b \in Buffers : place[b] = InCell(s)
                         THEN "Bound" ELSE "Unbound"
  BY DEF Init
<1>9. CellsHoldOne(World)
  <2>1. \A s \in Cells : s \in Sites /\ s \notin PipeHeads
    BY SitesDisjoint DEF Cells, Sites
  <2>2. \A b, c \in Buffers : place[b] = place[c] /\ place[b] # Raw => b = c
    BY DEF Init
  <2>3. Raw.at = "held" /\ \A s \in Cells : InCell(s).at = "cell" /\ InCell(s).in = s
    BY DEF Raw, InCell
  <2>4. ASSUME NEW b \in Buffers, place[b].at = "cell"
        PROVE  place[b].in \in Cells /\ place[b] = InCell(place[b].in)
    BY <1>6, <2>3, <2>4
  <2>5. ASSUME NEW b \in Buffers, place[b].at = "cell" PROVE st[place[b].in] = "Bound"
    BY <1>8, <2>1, <2>4, <2>5
  <2>6. ASSUME NEW s \in Sites, st[s] = "Bound"
        PROVE  \E b \in Buffers : place[b].at = "cell" /\ place[b].in = s
    <3>1. PICK b \in Buffers : place[b] = InCell(s)
      BY <1>8, <2>6
    <3>. QED  BY <3>1 DEF InCell
  <2>7. ASSUME NEW b \in Buffers, NEW c \in Buffers, place[b].at = "cell",
               place[c].at = "cell", place[b].in = place[c].in
        PROVE  b = c
    BY <2>2, <2>3, <2>4, <2>7
  <2>. QED  BY <2>4, <2>5, <2>6, <2>7 DEF CellsHoldOne, World
<1>10. HomesAwaitOne(World)
  BY <1>7 DEF HomesAwaitOne, World
<1>11. LentIsOwed(World)
  BY <1>8 DEF LentIsOwed, World
<1>. QED  BY <1>4, <1>5, <1>9, <1>10, <1>11, Split DEF HomeInvariant, Consistent

\* Every action of a graph, a caller or a run preserves the invariant.
LEMMA NextIInv ==
  ASSUME ~FeedOverLent, IInv, [Next]_vars
  PROVE  IInv'
<1>. USE DEF HomeInvariant
\* what has to be shown of a step
<1>0. ASSUME World' \in Worlds, HomeInvariant', RunTypeOK'
      PROVE  IInv'
  BY <1>0 DEF IInv, TypeOK, RunTypeOK
<1>1. World \in Worlds /\ Consistent(World) /\ RunTypeOK /\ TypeOK
  BY Split DEF IInv
<1>2. /\ st \in [Sites -> CellStates] /\ src \in [Sites -> Pipes \cup {None}]
      /\ place \in [Buffers -> Places]
      /\ World.st = st /\ World.src = src /\ World.place = place
  BY <1>1 DEF World, Worlds
<1>3. \A b \in Buffers : Held(b) => Away(World, b)
  BY <1>2 DEF Held, Away
\* a step that leaves the world alone
<1>4. ASSUME UNCHANGED <<st, src, place>>
      PROVE  World' \in Worlds /\ HomeInvariant'
  <2>1. Become(World)
    BY <1>2, <1>4 DEF Become
  <2>. QED  BY <2>1, <1>1, BecomeConsistent
\* a step that only moves buffers between owners
<1>5. ASSUME UNCHANGED <<st, src>>, place' \in [Buffers -> Places],
             \A x \in Buffers :
               \/ place'[x] = place[x]
               \/ /\ place[x].at \in {"pipe", "gathered", "held"}
                  /\ place'[x].at \in {"pipe", "gathered", "held"}
                  /\ place'[x].home = place[x].home
      PROVE  World' \in Worlds /\ HomeInvariant'
  <2>. DEFINE p == place'
              v == [st |-> st, src |-> src, place |-> p]
  <2>1. v \in Worlds /\ Consistent(v)
    <3>. HIDE DEF p
    <3>1. p \in [Buffers -> Places] /\ \A x \in Buffers :
               \/ p[x] = World.place[x]
               \/ /\ World.place[x].at \in {"pipe", "gathered", "held"}
                  /\ p[x].at \in {"pipe", "gathered", "held"}
                  /\ p[x].home = World.place[x].home
      BY <1>2, <1>5 DEF p
    <3>. QED  BY <1>1, <1>2, <3>1, CarryConsistent
  <2>2. Become(v)
    BY <1>5 DEF Become
  <2>. QED  BY <2>1, <2>2, BecomeConsistent
\* dropping a buffer some owner holds
<1>6. ASSUME NEW b \in Buffers, Away(World, b), Become(Drop(World, b))
      PROVE  World' \in Worlds /\ HomeInvariant'
  BY <1>1, <1>6, DropConsistent, BecomeConsistent
<1>7. ASSUME UNCHANGED <<runVars, poisoned, busy>>
      PROVE  RunTypeOK'
  BY <1>1, <1>7 DEF RunTypeOK, runVars
\* a run that fails
<1>8. ASSUME NEW g \in Graphs, Fail(g), UNCHANGED <<poisoned, busy>>
      PROVE  RunTypeOK'
  BY <1>1, <1>8 DEF RunTypeOK, Fail, Phases
\* a run that goes on to a phase other than the walk
<1>9. ASSUME NEW g \in Graphs, phase[g] # "walk", NEW n \in Phases \ {"walk"},
             phase' = [phase EXCEPT ![g] = n], UNCHANGED <<todo, failed, poisoned, busy>>
      PROVE  RunTypeOK'
  BY <1>1, <1>9 DEF RunTypeOK
<1>10. ASSUME NEW g \in Graphs, StartSync(g) PROVE IInv'
  <2>1. RunTypeOK'
    BY <1>1, <1>10 DEF StartSync, RunTypeOK, Phases, SitesOf
  <2>. QED  BY <1>4, <1>10, <2>1, <1>0 DEF StartSync
<1>11. ASSUME NEW g \in Graphs, NEW s \in Sites, NEW b \in Buffers, LeafRuns(g, s, b)
       PROVE  IInv'
  <2>1. RunTypeOK'
    BY <1>1, <1>11 DEF LeafRuns, Walking, RunTypeOK, Phases
  <2>2. g \in Pipes \cup Graphs \cup {None} /\ s \in Pipes \cup Graphs \cup {None}
    BY DEF Pipes
  <2>3. World' \in Worlds /\ HomeInvariant'
    BY <1>1, <1>11, <2>2, LendConsistent, BecomeConsistent DEF LeafRuns
  <2>. QED  BY <2>1, <2>3, <1>0
<1>12. ASSUME NEW g \in Graphs, NEW s \in Sites, NEW b \in Buffers, LeafRefused(g, s, b)
       PROVE  IInv'
  <2>. DEFINE lent == Lend(s, b, "held", None)
  <2>1. lent \in Worlds /\ Consistent(lent) /\ Away(lent, b)
    BY <1>1, <1>12, LendConsistent DEF LeafRefused
  <2>2. Become(Drop(lent, b))
    BY <1>12 DEF LeafRefused
  <2>3. World' \in Worlds /\ HomeInvariant'
    <3>. HIDE DEF lent
    <3>. QED  BY <2>1, <2>2, DropConsistent, BecomeConsistent
  <2>. QED  BY <1>8, <1>12, <2>3, <1>0 DEF LeafRefused
<1>13. ASSUME NEW g \in Graphs, NEW s \in Sites, LeafUnready(g, s) PROVE IInv'
  BY <1>4, <1>8, <1>13, <1>0 DEF LeafUnready
<1>14. ASSUME NEW g \in Graphs, NEW b \in Buffers, Unwind(g, b) \/ Reclaim(g, b)
       PROVE  IInv'
  <2>1. Away(World, b)
    BY <1>14, <1>2 DEF Unwind, Reclaim, Gathered, OutPipes, Away
  <2>. QED  BY <1>6, <1>7, <1>14, <2>1, <1>0 DEF Unwind, Reclaim
<1>15. ASSUME NEW g \in Graphs, UnwindDone(g) \/ ReclaimDone(g) PROVE IInv'
  <2>1. RunTypeOK'
    BY <1>9, <1>15 DEF UnwindDone, ReclaimDone, Phases
  <2>. QED  BY <1>4, <1>15, <2>1, <1>0 DEF UnwindDone, ReclaimDone
<1>16. ASSUME NEW g \in Graphs, SyncOk(g) PROVE IInv'
  <2>1. RunTypeOK'
    BY <1>9, <1>16 DEF SyncOk, Waited, Phases
  <2>2. World' \in Worlds /\ HomeInvariant'
    BY <1>2, <1>5, <1>16 DEF SyncOk, Gathered, Places, Kinds
  <2>. QED  BY <2>1, <2>2, <1>0
<1>17. ASSUME NEW g \in Graphs, SyncErr(g) PROVE IInv'
  BY <1>4, <1>8, <1>17, <1>0 DEF SyncErr
<1>18. ASSUME NEW g \in Graphs, NEW t \in Tags, NEW b \in Buffers,
              Bind(g, t, b) \/ MutateBind(g, t, b)
       PROVE  IInv'
  <2>. DEFINE w == Sever(World, b)
  <2>1. w \in Worlds /\ Consistent(w) /\ w.place[b] = Raw
    BY <1>1, <1>3, <1>18, SeverConsistent DEF Bind, MutateBind
  <2>2. PICK mode : Become(Fold(w, mode, Matching(g, t), b))
    BY <1>18 DEF Bind, MutateBind
  <2>3. Matching(g, t) \subseteq Slots
    BY DEF Matching
  <2>4. World' \in Worlds /\ HomeInvariant'
    <3>. HIDE DEF w
    <3>. QED  BY <2>1, <2>2, <2>3, FoldConsistent, BecomeConsistent
  <2>5. RunTypeOK'
    BY <1>1, <1>7, <1>18 DEF Bind, MutateBind, RunTypeOK, runVars
  <2>. QED  BY <2>4, <2>5, <1>0
<1>19. ASSUME NEW g \in Graphs, NEW t \in Tags, NEW p \in Pipes, Feed(g, t, p)
       PROVE  IInv'
  <2>. DEFINE M == Matching(g, t)
  <2>1. M \subseteq Slots /\ M \subseteq Sites /\ M \subseteq Cells /\ \A s \in M : st[s] # "Lent"
    BY <1>19 DEF Feed, Matching, Sites, Cells
  <2>2. /\ st' = [s \in Sites |-> IF s \in M THEN "FedByPipe" ELSE st[s]]
        /\ src' = [s \in Sites |-> IF s \in M THEN p ELSE src[s]]
        /\ place' = Evict(World, M)
    BY <1>19 DEF Feed
  <2>3. \A x \in Buffers :
          \/ place[x].at = "cell" /\ place[x].in \in M /\ place'[x] = Gone
          \/ ~(place[x].at = "cell" /\ place[x].in \in M) /\ place'[x] = place[x]
    BY <2>2, <1>2 DEF Evict
  <2>. HIDE DEF M
  <2>4. World' \in Worlds
    BY <1>1, <1>2, <2>2, EvictType DEF World, Worlds, CellStates
  <2>5. CellsHoldOne(World')
    BY <1>1, <1>2, <2>1, <2>2, <2>3 DEF Consistent, CellsHoldOne, World, Gone, Cells, Sites
  <2>6. HomesAwaitOne(World')
    <3>1. \A x \in Buffers : place'[x].home # None => place'[x] = place[x]
      BY <2>3 DEF Gone
    <3>2. \A x \in Buffers : place[x].home # None => place[x].home \in Sites \ M
      BY <1>1, <1>2, <2>1 DEF Consistent, HomesAwaitOne, World, Vacated, Places, Cells, Sites
    <3>3. \A s \in Sites \ M : st'[s] = st[s]
      BY <2>2
    <3>. QED  BY <1>1, <3>1, <3>2, <3>3 DEF Consistent, HomesAwaitOne, World, Away
  <2>7. LentIsOwed(World')
    <3>1. \A s \in Sites : st'[s] = "Lent" => st[s] = "Lent"
      BY <2>2
    <3>2. \A x \in Buffers : place[x].home # None => place'[x] = place[x]
      BY <1>1, <2>3 DEF Consistent, HomesAwaitOne, World, Away
    <3>. QED  BY <1>1, <3>1, <3>2, NoneIsFresh
         DEF Consistent, LentIsOwed, World, Sites, Pipes
  <2>8. RunTypeOK'
    BY <1>1, <1>19 DEF Feed, RunTypeOK, runVars
  <2>. QED  BY <2>4, <2>5, <2>6, <2>7, <2>8, <1>0 DEF Consistent
<1>20. ASSUME NEW g \in Graphs, NEW t \in Tags, NEW u \in Tags,
              NEW b \in Buffers, NEW c \in Buffers, MutateCall(g, t, b, u, c)
       PROVE  IInv'
  <2>. DEFINE w1 == Sever(World, b)
              w2 == Sever(w1, c)
              w3 == Fold(w2, "Mutate", Matching(g, t), b)
              d == Drop(World, b)
  <2>1. Held(b) /\ Held(c) /\ b # c /\ Away(World, b) /\ Away(World, c)
    BY <1>3, <1>20 DEF MutateCall
  <2>2. World' \in Worlds /\ HomeInvariant'
    <3>1. CASE ProbeAll(g, t, b, u, c)
      <4>1. /\ w1 \in Worlds /\ Consistent(w1)
            /\ w1.place[b] = Raw /\ w1.place[c] = World.place[c]
        BY <1>1, <2>1, SeverConsistent
      <4>2. Away(w1, c) /\ Away(w1, b)
        BY <2>1, <4>1 DEF Away, Raw
      <4>3. /\ w2 \in Worlds /\ Consistent(w2) /\ w2.place[b] = Raw /\ w2.place[c] = Raw
        <5>. HIDE DEF w1
        <5>. QED  BY <2>1, <4>1, <4>2, SeverConsistent
      <4>4. Matching(g, t) \subseteq Slots /\ Matching(g, u) \subseteq Slots
        BY DEF Matching
      <4>5. /\ w3 \in Worlds /\ Consistent(w3) /\ w3.place[c] = Raw
        <5>. HIDE DEF w1, w2
        <5>1. Away(w2, c)
          BY <4>3 DEF Away, Raw
        <5>. QED  BY <2>1, <4>3, <4>4, <5>1, FoldConsistent
      <4>6. Become(Fold(w3, "Mutate", Matching(g, u), c))
        BY <1>20, <3>1 DEF MutateCall
      <4>. HIDE DEF w1, w2, w3
      <4>. QED  BY <4>4, <4>5, <4>6, FoldConsistent, BecomeConsistent
    <3>2. CASE ~ProbeAll(g, t, b, u, c)
      <4>1. Become(Drop(d, c))
        BY <1>20, <3>2 DEF MutateCall
      <4>2. d \in Worlds /\ Consistent(d)
        BY <1>1, <2>1, DropConsistent
      <4>3. d.place[c] = World.place[c]
        BY <2>1, <1>2 DEF Drop, Put, Evict, Away
      <4>4. Away(d, c)
        BY <2>1, <4>3 DEF Away
      <4>. HIDE DEF d
      <4>. QED  BY <4>1, <4>2, <4>4, DropConsistent, BecomeConsistent
    <3>. QED  BY <3>1, <3>2
  <2>. QED  BY <1>7, <1>20, <2>2, <1>0 DEF MutateCall
<1>21. ASSUME NEW b \in Buffers, DropCheckout(b) PROVE IInv'
  BY <1>3, <1>6, <1>7, <1>21, <1>0 DEF DropCheckout
<1>22. ASSUME NEW b \in Buffers, IntoInner(b) PROVE IInv'
  BY <1>1, <1>3, <1>7, <1>22, SeverConsistent, BecomeConsistent, <1>0 DEF IntoInner
<1>23. ASSUME NEW b \in Buffers, Alloc(b) PROVE IInv'
  <2>1. /\ World.place[b].at # "cell" /\ World.place[b].home = None
        /\ Raw \in Places /\ Raw.at # "cell" /\ Raw.home = None
    BY <1>2, <1>23, PlaceTypes DEF Alloc, Gone, Raw
  <2>2. /\ [World EXCEPT !.place[b] = Raw] \in Worlds
        /\ Consistent([World EXCEPT !.place[b] = Raw])
    BY <1>1, <2>1, HomelessMove
  <2>3. Become([World EXCEPT !.place[b] = Raw])
    BY <1>23 DEF Alloc, Become, World
  <2>. QED  BY <1>7, <1>23, <2>2, <2>3, BecomeConsistent, <1>0 DEF Alloc
<1>24. ASSUME NEW b \in Buffers, NEW p \in Inlets, LentOnward(b, p) PROVE IInv'
  <2>1. place' = [place EXCEPT ![b] = [at |-> "pipe", in |-> p, home |-> place[b].home]]
    BY <1>24 DEF LentOnward
  <2>2. place' \in [Buffers -> Places]
    BY <1>2, <2>1 DEF Places, Kinds, Pipes
  <2>3. World' \in Worlds /\ HomeInvariant'
    <3>1. \A x \in Buffers : place'[x] =
            IF x = b THEN [at |-> "pipe", in |-> p, home |-> place[b].home] ELSE place[x]
      BY <1>2, <2>1
    <3>2. place[b].at = "held" /\ UNCHANGED <<st, src>>
      BY <1>24 DEF LentOnward, Held
    <3>. QED  BY <1>5, <2>2, <3>1, <3>2
  <2>. QED  BY <1>7, <1>24, <2>3, <1>0 DEF LentOnward
<1>25. ASSUME NEW b \in Buffers, NEW p \in Inlets, DropInlet(b, p) PROVE IInv'
  <2>1. Away(World, b)
    BY <1>2, <1>25 DEF DropInlet, Loaded, Away
  <2>. QED  BY <1>6, <1>7, <1>25, <2>1, <1>0 DEF DropInlet
<1>26. ASSUME NEW b \in Buffers, DeviceDone(b) PROVE IInv'
  <2>1. RunTypeOK'
    BY <1>1, <1>26 DEF DeviceDone, RunTypeOK, runVars
  <2>. QED  BY <1>4, <1>26, <2>1, <1>0 DEF DeviceDone
<1>27. CASE UNCHANGED vars
  BY <1>1, <1>4, <1>7, <1>27, <1>0 DEF vars, runVars
<1>. QED
  BY <1>10, <1>11, <1>12, <1>13, <1>14, <1>15, <1>16, <1>17, <1>18, <1>19, <1>20,
     <1>21, <1>22, <1>23, <1>24, <1>25, <1>26, <1>27
  DEF Next, RunStep, Verb, CallerStep

-----------------------------------------------------------------------------
(* The theorems.                                                           *)

\* Every variable keeps its type, and a run has work left exactly while it
\* walks, whatever the graphs.
THEOREM TypeCorrect == ASSUME ~FeedOverLent PROVE Spec => []TypeOK
<1>1. Init => IInv
  BY InitIInv
<1>2. IInv /\ [Next]_vars => IInv'
  BY NextIInv
<1>3. IInv => TypeOK
  BY DEF IInv
<1>. QED  BY <1>1, <1>2, <1>3, PTL DEF Spec

\* Every Lent slot is owed exactly one buffer by one payload or Checkout, and a
\* returning buffer never lands on another: however verbs, runs, failures and
\* Checkout drops interleave, as long as no caller feeds a pipe to a tag one of
\* whose slots is Lent.
THEOREM HomeSafe == ASSUME ~FeedOverLent PROVE Spec => []HomeInvariant
<1>1. Init => IInv
  BY InitIInv
<1>2. IInv /\ [Next]_vars => IInv'
  BY NextIInv
<1>3. IInv => HomeInvariant
  BY DEF IInv
<1>. QED  BY <1>1, <1>2, <1>3, PTL DEF Spec

-----------------------------------------------------------------------------
(* The shape of a graph.                                                   *)

\* The sites that read pipe p, or may be fed by it.
Readers(p) ==
  {s \in PipeHeads : HeadOf[s] = p} \cup {s \in Slots : p \in FeedSources[TagOf[s]]}

\* The site opens the walk of its graph.
Leads(s) == \A r \in SitesOf(GraphOf[s]) : Pos[s] <= Pos[r]

\* A pipe has one reader, later in the walk of the graph that fills it; a lent
\* Checkout is the first input of its graph.
WellPiped ==
  \A p \in Pipes : \A s \in Readers(p) :
    IF p \in Inlets THEN Leads(s)
    ELSE /\ GraphOf[p] = GraphOf[s] /\ Pos[p] < Pos[s]
         /\ p \notin Delivered /\ Readers(p) = {s}

-----------------------------------------------------------------------------
(* The invariants.                                                         *)

\* What a run leaves in its pipes and its tuple, phase by phase.
RunInv ==
  /\ \A g \in Graphs : phase[g] \in {"idle", "wait"} => OutPipes(g) = {}
  /\ \A g \in Graphs : phase[g] = "idle" \/ (phase[g] = "mopup" /\ failed[g]) => Gathered(g) = {}
  /\ \A g \in Graphs : phase[g] \in {"walk", "wait"} => ~failed[g]
  /\ \A b, c \in Buffers :
       place[b].at = "pipe" /\ place[c].at = "pipe" /\ place[b].in = place[c].in => b = c
  /\ \A g \in Graphs : \A s \in todo[g] : Loaded(s) = {}

\* A site a run has yet to walk has its input, or will find it in its pipe.
FeedInv ==
  /\ \A s \in Sites : st[s] = "FedByPipe" => src[s] \in Pipes /\ s \in Readers(src[s])
  /\ \A g \in Graphs : \A s \in todo[g] :
       /\ Ready(s)
       /\ st[s] = "FedByPipe" /\ src[s] \in Sites =>
            src[s] \in todo[g] \/ Loaded(src[s]) # {}

\* A run gathers nothing before its first leaf, and drops nothing in flight.
QuietInv ==
  /\ QuietAtHome
  /\ \A g \in Graphs : phase[g] = "unwind" => \A b \in Gathered(g) : ~busy[b]
  /\ \A g \in Graphs : \A s \in todo[g] : Leads(s) => Gathered(g) = {}

-----------------------------------------------------------------------------
(* What the moves on a world do to the runs.                               *)

\* From w to v, buffers of B end in a cell, in a caller's hands or nowhere, the
\* buffers they evict are gone, and cells of T are refilled or severed.
Shift(w, v, B, T) ==
  /\ \A x \in Buffers :
       \/ v.place[x] = w.place[x]
       \/ v.place[x] = Gone /\ w.place[x].at = "cell"
       \/ x \in B /\ v.place[x].at \in {"cell", "held", "gone"}
  /\ \A s \in Sites :
       \/ v.st[s] = w.st[s] /\ v.src[s] = w.src[s]
       \/ s \in T /\ v.st[s] \in {"Bound", "Severed"}

\* Where a shifted buffer ends up.
LEMMA EndPlaces ==
  Gone.at = "gone" /\ Raw.at = "held" /\ \A s \in Cells : InCell(s).at = "cell"
BY DEF Gone, Raw, InCell

\* One shift after another is a shift.
LEMMA ShiftTrans ==
  ASSUME NEW w, NEW v, NEW u, NEW B, NEW T, Shift(w, v, B, T), Shift(v, u, B, T)
  PROVE  Shift(w, u, B, T)
<1>1. \A x \in Buffers :
        \/ u.place[x] = w.place[x]
        \/ u.place[x] = Gone /\ w.place[x].at = "cell"
        \/ x \in B /\ u.place[x].at \in {"cell", "held", "gone"}
  BY EndPlaces DEF Shift
<1>2. \A s \in Sites :
        \/ u.st[s] = w.st[s] /\ u.src[s] = w.src[s]
        \/ s \in T /\ u.st[s] \in {"Bound", "Severed"}
  BY DEF Shift
<1>. QED  BY <1>1, <1>2 DEF Shift

LEMMA PutShift ==
  ASSUME NEW w \in Worlds, NEW s \in Cells, NEW b \in Buffers, NEW B, NEW T,
         b \in B, s \in T
  PROVE  Shift(w, Put(w, s, b), B, T)
<1>. DEFINE v == Put(w, s, b)
<1>1. /\ v.st = [w.st EXCEPT ![s] = "Bound"]
      /\ v.src = [w.src EXCEPT ![s] = None]
      /\ v.place = [Evict(w, {s}) EXCEPT ![b] = InCell(s)]
  BY DEF Put
<1>2. \A x \in Buffers : v.place[x] =
        IF x = b THEN InCell(s)
        ELSE IF w.place[x].at = "cell" /\ w.place[x].in = s THEN Gone ELSE w.place[x]
  BY <1>1, EvictType DEF Evict
<1>3. \A r \in Sites : r # s => v.st[r] = w.st[r] /\ v.src[r] = w.src[r]
  BY <1>1 DEF Worlds
<1>4. v.st[s] = "Bound"
  BY <1>1 DEF Worlds, Cells, Sites
<1>. HIDE DEF v
<1>5. Shift(w, v, B, T)
  BY <1>2, <1>3, <1>4, EndPlaces DEF Shift
<1>. QED  BY <1>5 DEF v

\* A buffer that moves without touching a cell.
LEMMA LooseShift ==
  ASSUME NEW w \in Worlds, NEW b \in Buffers, NEW B, NEW T, b \in B, NEW p \in {Gone, Raw}
  PROVE  Shift(w, [w EXCEPT !.place[b] = p], B, T)
<1>. DEFINE v == [w EXCEPT !.place[b] = p]
<1>1. v.st = w.st /\ v.src = w.src /\ \A x \in Buffers : v.place[x] = IF x = b THEN p ELSE w.place[x]
  BY DEF Worlds
<1>. HIDE DEF v
<1>2. Shift(w, v, B, T)
  BY <1>1, EndPlaces DEF Shift
<1>. QED  BY <1>2 DEF v

LEMMA DropShift ==
  ASSUME NEW w \in Worlds, NEW b \in Buffers, NEW B, NEW T,
         b \in B, w.place[b].home \in T \cup {None}
  PROVE  Shift(w, Drop(w, b), B, T)
<1>1. CASE w.place[b].home = None
  BY <1>1, LooseShift DEF Drop
<1>2. CASE w.place[b].home # None
  <2>1. w.place[b].home \in Cells
    BY <1>2 DEF Worlds, Places
  <2>. QED  BY <1>2, <2>1, PutShift DEF Drop
<1>. QED  BY <1>1, <1>2

LEMMA SeverShift ==
  ASSUME NEW w \in Worlds, NEW b \in Buffers, NEW B, NEW T,
         b \in B, w.place[b].home \in T \cup {None}
  PROVE  Shift(w, Sever(w, b), B, T)
<1>. DEFINE h == w.place[b].home
            v == Sever(w, b)
<1>1. CASE h \notin Slots
  BY <1>1, LooseShift DEF Sever
<1>2. CASE h \in Slots
  <2>1. /\ v.st = [w.st EXCEPT ![h] = "Severed"]
        /\ v.src = [w.src EXCEPT ![h] = None]
        /\ v.place = [Evict(w, {h}) EXCEPT ![b] = Raw]
    BY <1>2 DEF Sever
  <2>2. h \in Sites /\ h \in T
    BY <1>2, NoneIsFresh DEF Sites, Pipes
  <2>. HIDE DEF h
  <2>3. \A x \in Buffers : v.place[x] =
          IF x = b THEN Raw
          ELSE IF w.place[x].at = "cell" /\ w.place[x].in = h THEN Gone ELSE w.place[x]
    BY <2>1, EvictType DEF Evict
  <2>4. \A r \in Sites : r # h => v.st[r] = w.st[r] /\ v.src[r] = w.src[r]
    BY <2>1 DEF Worlds
  <2>5. v.st[h] = "Severed"
    BY <2>1, <2>2 DEF Worlds
  <2>. HIDE DEF v
  <2>6. Shift(w, v, B, T)
    BY <2>2, <2>3, <2>4, <2>5, EndPlaces DEF Shift
  <2>. QED  BY <2>6 DEF v
<1>. QED  BY <1>1, <1>2

LEMMA FoldShift ==
  ASSUME NEW w \in Worlds, NEW b \in Buffers, NEW mode, NEW M, M \subseteq Slots,
         NEW B, NEW T, b \in B, M \subseteq T
  PROVE  Shift(w, Fold(w, mode, M, b), B, T)
<1>. DEFINE takers == {s \in M : Takes(mode, w.st[s])}
<1>1. CASE takers = {}
  BY <1>1, LooseShift DEF Fold
<1>2. CASE takers # {}
  <2>. DEFINE s == First(takers)
  <2>1. s \in takers
    BY <1>2, FirstIsMember DEF Sites
  <2>2. s \in Cells /\ s \in T
    BY <2>1 DEF Cells
  <2>3. Fold(w, mode, M, b) = Put(w, s, b)
    BY <1>2 DEF Fold
  <2>. HIDE DEF s
  <2>. QED  BY <2>2, <2>3, PutShift
<1>. QED  BY <1>1, <1>2
-----------------------------------------------------------------------------
(* The steps, sorted by what they do to the runs.                          *)

\* Buffers a caller, a reclaim or an unwinding run lets go of, and new ones.
Released(B) ==
  \A x \in B :
    \/ Held(x)
    \/ place[x] = Gone /\ ~busy[x]
    \/ \E p \in Inlets : x \in Loaded(p)
    \/ \E g \in Graphs : phase[g] = "unwind" /\ x \in Gathered(g)
    \/ \E g \in Graphs : phase[g] = "mopup" /\ x \in OutPipes(g) /\ ~busy[x]

\* Cells that wait for a buffer, and slots of graphs that are not running.
Waiting(T) ==
  \A s \in T : st[s] \in {"Lent", "Taken"} \/ (s \in Sites /\ Idle(GraphOf[s]))

\* A verb, the end of a Checkout or a reclaim.
Returns ==
  /\ \E B \in SUBSET Buffers, T \in SUBSET Sites :
       Shift(World, World', B, T) /\ Released(B) /\ Waiting(T)
  /\ UNCHANGED <<runVars, busy>>

\* The home of a buffer that is away waits for it.
LEMMA HomeWaits ==
  ASSUME IInv, NEW b \in Buffers, place[b].home # None
  PROVE  /\ place[b].home \in Sites
         /\ st[place[b].home] \in {"Lent", "Taken"}
BY DEF IInv, TypeOK, HomeInvariant, Consistent, HomesAwaitOne, World, Worlds, Places,
       Vacated, Cells, Sites

\* The world a step becomes is the one its moves computed.
LEMMA BecomeShift ==
  ASSUME NEW w, Become(w), NEW B, NEW T, Shift(World, w, B, T)
  PROVE  Shift(World, World', B, T)
<1>1. World'.st = w.st /\ World'.src = w.src /\ World'.place = w.place
  BY DEF Become, World
<1>. QED  BY <1>1 DEF Shift

\* Dropping one buffer that is let go of.
LEMMA DropReturns ==
  ASSUME IInv, NEW b \in Buffers, Released({b}), Become(Drop(World, b)),
         UNCHANGED <<runVars, busy>>
  PROVE  Returns
<1>. DEFINE T == {place[b].home} \ {None}
<1>1. World \in Worlds /\ World.place = place
  BY DEF IInv, TypeOK, World
<1>2. Shift(World, Drop(World, b), {b}, T)
  BY <1>1, DropShift
<1>3. Shift(World, World', {b}, T)
  BY <1>2, BecomeShift
<1>4. Waiting(T) /\ T \in SUBSET Sites
  BY HomeWaits DEF Waiting
<1>. QED  BY <1>3, <1>4 DEF Returns

\* The slots a verb binds, and the homes of the buffers it moves.
LEMMA BoundWaits ==
  ASSUME IInv, NEW g \in Graphs, Idle(g), NEW S, S \subseteq Buffers,
         NEW t, NEW u
  PROVE  LET T == ({place[x].home : x \in S} \ {None}) \cup Matching(g, t) \cup Matching(g, u)
         IN  Waiting(T) /\ T \in SUBSET Sites
BY HomeWaits DEF Waiting, Matching, Sites

\* mutate_call lets go of its two buffers, whether or not it binds them.
LEMMA MutateCallReturns ==
  ASSUME IInv, NEW g \in Graphs, NEW t \in Tags, NEW u \in Tags,
         NEW b \in Buffers, NEW c \in Buffers, MutateCall(g, t, b, u, c)
  PROVE  Returns
<1>. DEFINE B == {b, c}
            T == ({place[x].home : x \in B} \ {None}) \cup Matching(g, t) \cup Matching(g, u)
            w1 == Sever(World, b)
            w2 == Sever(w1, c)
            w3 == Fold(w2, "Mutate", Matching(g, t), b)
            w4 == Fold(w3, "Mutate", Matching(g, u), c)
            d == Drop(World, b)
<1>1. World \in Worlds /\ World.place = place /\ World.st = st /\ Consistent(World)
  BY DEF IInv, TypeOK, World, HomeInvariant
<1>2. Held(b) /\ Held(c) /\ b # c /\ Away(World, b) /\ Away(World, c) /\ Idle(g)
  BY <1>1 DEF MutateCall, Held, Away
<1>3. place[b].home \in T \cup {None} /\ place[c].home \in T \cup {None}
  OBVIOUS
<1>4. Matching(g, t) \subseteq T /\ Matching(g, u) \subseteq T
      /\ Matching(g, t) \subseteq Slots /\ Matching(g, u) \subseteq Slots
  BY DEF Matching
<1>5. Waiting(T) /\ T \in SUBSET Sites
  BY <1>2, BoundWaits
<1>. HIDE DEF T
<1>6. Released(B) /\ B \in SUBSET Buffers
  BY <1>2 DEF Released
<1>7. CASE ProbeAll(g, t, b, u, c)
  <2>1. w1 \in Worlds /\ Consistent(w1) /\ w1.place[b] = Raw /\ w1.place[c] = place[c]
    BY <1>1, <1>2, SeverConsistent
  <2>2. Shift(World, w1, B, T)
    BY <1>1, <1>3, SeverShift
  <2>. HIDE DEF w1
  <2>3. Shift(w1, w2, B, T)
    BY <1>3, <2>1, SeverShift
  <2>4. Away(w1, c)
    BY <1>1, <1>2, <2>1 DEF Away
  <2>5. w2 \in Worlds /\ Consistent(w2) /\ w2.place[b] = Raw
    <3>1. Away(w1, b)
      BY <2>1 DEF Away, Raw
    <3>. QED  BY <1>2, <2>1, <2>4, <3>1, SeverConsistent
  <2>. HIDE DEF w2
  <2>6. Shift(w2, w3, B, T) /\ w3 \in Worlds
    BY <1>4, <2>5, FoldShift, FoldConsistent
  <2>. HIDE DEF w3
  <2>7. Shift(w3, w4, B, T)
    BY <1>4, <2>6, FoldShift
  <2>8. Become(w4)
    BY <1>7 DEF MutateCall, w1, w2, w3
  <2>. HIDE DEF w4
  <2>9. Shift(World, w4, B, T)
    BY <2>2, <2>3, <2>6, <2>7, ShiftTrans
  <2>10. Shift(World, World', B, T)
    BY <2>8, <2>9, BecomeShift
  <2>. QED  BY <1>5, <1>6, <2>10 DEF Returns, MutateCall
<1>8. CASE ~ProbeAll(g, t, b, u, c)
  <2>1. d \in Worlds /\ Shift(World, d, B, T)
    BY <1>1, <1>2, <1>3, DropConsistent, DropShift
  <2>2. d.place[c] = place[c]
    BY <1>1, <1>2 DEF Drop, Put, Evict, Away, Worlds
  <2>3. Become(Drop(d, c))
    BY <1>8 DEF MutateCall
  <2>. HIDE DEF d
  <2>4. Shift(d, Drop(d, c), B, T)
    BY <1>3, <2>1, <2>2, DropShift
  <2>5. Shift(World, World', B, T)
    BY <2>1, <2>3, <2>4, ShiftTrans, BecomeShift
  <2>. QED  BY <1>5, <1>6, <2>5 DEF Returns, MutateCall
<1>. QED  BY <1>7, <1>8

\* Every step is a verb or a return, a step of a run, a feed, a lent Checkout, or
\* the device's.
LEMMA StepKinds ==
  ASSUME IInv, Next
  PROVE
    \/ Returns
    \/ \E g \in Graphs :
         \/ StartSync(g) \/ UnwindDone(g) \/ ReclaimDone(g) \/ SyncOk(g) \/ SyncErr(g)
         \/ \E s \in Sites : LeafUnready(g, s)
         \/ \E s \in Sites, b \in Buffers : LeafRuns(g, s, b) \/ LeafRefused(g, s, b)
         \/ \E t \in Tags, p \in Pipes : Feed(g, t, p)
    \/ \E b \in Buffers : DeviceDone(b) \/ \E p \in Inlets : LentOnward(b, p)
<1>1. World \in Worlds /\ World.place = place /\ World.st = st /\ World.src = src
      /\ Consistent(World)
  BY DEF IInv, TypeOK, World, HomeInvariant
<1>2. ASSUME NEW g \in Graphs, NEW b \in Buffers, Unwind(g, b) \/ Reclaim(g, b)
      PROVE  Returns
  <2>1. Released({b})
    BY <1>2 DEF Unwind, Reclaim, Released
  <2>. QED  BY <1>2, <2>1, DropReturns DEF Unwind, Reclaim, runVars
<1>3. ASSUME NEW b \in Buffers, DropCheckout(b) PROVE Returns
  <2>1. Released({b})
    BY <1>3 DEF DropCheckout, Released
  <2>. QED  BY <1>3, <2>1, DropReturns DEF DropCheckout
<1>4. ASSUME NEW b \in Buffers, NEW p \in Inlets, DropInlet(b, p) PROVE Returns
  <2>1. Released({b})
    BY <1>4 DEF DropInlet, Released
  <2>. QED  BY <1>4, <2>1, DropReturns DEF DropInlet
<1>5. ASSUME NEW b \in Buffers, IntoInner(b) PROVE Returns
  <2>. DEFINE T == {place[b].home} \ {None}
  <2>1. Shift(World, Sever(World, b), {b}, T)
    BY <1>1, SeverShift
  <2>2. Shift(World, World', {b}, T)
    BY <1>5, <2>1, BecomeShift DEF IntoInner
  <2>3. Waiting(T) /\ T \in SUBSET Sites /\ Released({b})
    BY <1>5, HomeWaits DEF Waiting, Released, IntoInner
  <2>. QED  BY <1>5, <2>2, <2>3 DEF Returns, IntoInner
<1>6. ASSUME NEW b \in Buffers, Alloc(b) PROVE Returns
  <2>1. Shift(World, [World EXCEPT !.place[b] = Raw], {b}, {})
    <3>. DEFINE B == {b}  T == {}
    <3>1. b \in B
      OBVIOUS
    <3>. HIDE DEF B, T
    <3>2. Shift(World, [World EXCEPT !.place[b] = Raw], B, T)
      BY <1>1, <3>1, LooseShift
    <3>. QED  BY <3>2 DEF B, T
  <2>2. Shift(World, World', {b}, {})
    <3>1. Become([World EXCEPT !.place[b] = Raw])
      BY <1>6 DEF Alloc, Become, World
    <3>. QED  BY <2>1, <3>1, BecomeShift
  <2>3. Released({b}) /\ Waiting({})
    BY <1>6 DEF Alloc, Released, Waiting
  <2>. QED  BY <1>6, <2>2, <2>3 DEF Returns, Alloc
<1>7. ASSUME NEW g \in Graphs, NEW t \in Tags, NEW b \in Buffers,
             Bind(g, t, b) \/ MutateBind(g, t, b)
      PROVE  Returns
  <2>. DEFINE T == ({place[x].home : x \in {b}} \ {None}) \cup Matching(g, t) \cup Matching(g, t)
              w == Sever(World, b)
  <2>1. Held(b) /\ Idle(g) /\ Away(World, b)
    BY <1>1, <1>7 DEF Bind, MutateBind, Held, Away
  <2>2. PICK mode : Become(Fold(w, mode, Matching(g, t), b))
    BY <1>7 DEF Bind, MutateBind
  <2>3. Waiting(T) /\ T \in SUBSET Sites
    <3>1. {b} \subseteq Buffers
      OBVIOUS
    <3>. QED  BY <2>1, <3>1, BoundWaits
  <2>4. place[b].home \in T \cup {None} /\ Matching(g, t) \subseteq T
    OBVIOUS
  <2>5. Matching(g, t) \subseteq Slots
    BY DEF Matching
  <2>. HIDE DEF T
  <2>6. w \in Worlds /\ Shift(World, w, {b}, T)
    BY <1>1, <2>1, <2>4, SeverConsistent, SeverShift
  <2>. HIDE DEF w
  <2>7. Shift(w, Fold(w, mode, Matching(g, t), b), {b}, T)
    BY <2>4, <2>5, <2>6, FoldShift
  <2>8. Shift(World, World', {b}, T)
    BY <2>2, <2>6, <2>7, ShiftTrans, BecomeShift
  <2>9. Released({b})
    BY <2>1 DEF Released
  <2>. QED  BY <1>7, <2>3, <2>8, <2>9 DEF Returns, Bind, MutateBind
<1>. QED
  BY <1>2, <1>3, <1>4, <1>5, <1>6, <1>7, MutateCallReturns
  DEF Next, RunStep, Verb, CallerStep
\* The types the steps rely on.
LEMMA Types ==
  ASSUME IInv
  PROVE  /\ place \in [Buffers -> Places] /\ st \in [Sites -> CellStates]
         /\ src \in [Sites -> Pipes \cup {None}]
         /\ phase \in [Graphs -> Phases] /\ todo \in [Graphs -> SUBSET Sites]
         /\ failed \in [Graphs -> BOOLEAN] /\ busy \in [Buffers -> BOOLEAN]
         /\ \A g \in Graphs : todo[g] \subseteq SitesOf(g)
         /\ \A g \in Graphs : phase[g] = "walk" <=> todo[g] # {}
BY DEF IInv, TypeOK, World, Worlds

\* A shift leaves in the pipes and the tuples only what was there.
LEMMA ReturnsSettles ==
  ASSUME Returns
  PROVE  \A x \in Buffers :
           place'[x].at \in {"pipe", "gathered"} => place'[x] = place[x]
<1>1. PICK B, T : Shift(World, World', B, T)
  BY DEF Returns
<1>2. World.place = place /\ World'.place = place'
  BY DEF World
<1>. QED  BY <1>1, <1>2 DEF Shift, Gone

\* The leaf a run executes is one it has yet to walk.
LEMMA WalkingLeaf ==
  ASSUME IInv, NEW g \in Graphs, NEW s \in Sites, Walking(g, s)
  PROVE  /\ phase[g] = "walk" /\ s \in todo[g] /\ GraphOf[s] = g
         /\ s = First(todo[g])
BY Types, FirstIsMember DEF Walking, SitesOf

\* What LeafRuns does to the places and the run.
LEMMA LeafMoves ==
  ASSUME IInv, NEW g \in Graphs, NEW s \in Sites, NEW b \in Buffers, LeafRuns(g, s, b)
  PROVE  /\ \A x \in Buffers : x # b => place'[x] = place[x]
         /\ IF s \in Delivered THEN place'[b].at = "gathered" /\ place'[b].in = g
            ELSE place'[b].at = "pipe" /\ place'[b].in = s
         /\ \A h \in Graphs : h # g => phase'[h] = phase[h] /\ todo'[h] = todo[h]
         /\ todo'[g] = todo[g] \ {s}
         /\ phase'[g] = IF todo[g] = {s} THEN "mopup" ELSE "walk"
BY Types DEF LeafRuns, Lend, Become

-----------------------------------------------------------------------------
(* Nothing is stranded.                                                    *)

LEMMA InitRunInv == Init => RunInv
<1>. SUFFICES ASSUME Init PROVE RunInv
  OBVIOUS
<1>1. \A b \in Buffers : place[b].at \notin {"pipe", "gathered"}
  BY DEF Init, Raw, InCell
<1>. QED  BY <1>1 DEF Init, RunInv, OutPipes, Gathered, Loaded

LEMMA NextRunInv ==
  ASSUME IInv, RunInv, [Next]_vars
  PROVE  RunInv'
<1>. USE Types
\* a step that adds nothing to the pipes and the tuples
<1>1. ASSUME \A x \in Buffers : place'[x].at \in {"pipe", "gathered"} => place'[x] = place[x],
             UNCHANGED runVars
      PROVE  RunInv'
  BY <1>1 DEF RunInv, OutPipes, Gathered, Loaded, runVars
\* a run that fails
<1>2. ASSUME NEW g \in Graphs, Fail(g), phase[g] \in {"walk", "wait"},
             \A x \in Buffers : place'[x].at \in {"pipe", "gathered"} => place'[x] = place[x]
      PROVE  RunInv'
  BY <1>2 DEF RunInv, OutPipes, Gathered, Loaded, Fail
<1>3. CASE Returns
  BY <1>1, <1>3, ReturnsSettles DEF Returns
<1>4. ASSUME NEW g \in Graphs, StartSync(g) PROVE RunInv'
  <2>1. OutPipes(g) = {} /\ Gathered(g) = {}
    BY <1>4 DEF StartSync, Idle, RunInv
  <2>2. \A s \in SitesOf(g) : Loaded(s) = {}
    BY <2>1 DEF OutPipes, Loaded
  <2>. QED  BY <1>4, <2>1, <2>2 DEF StartSync, RunInv, OutPipes, Gathered, Loaded
<1>5. ASSUME NEW g \in Graphs, UnwindDone(g) \/ ReclaimDone(g) PROVE RunInv'
  BY <1>5 DEF UnwindDone, ReclaimDone, RunInv, OutPipes, Gathered, Loaded
<1>6. ASSUME NEW g \in Graphs, SyncOk(g) PROVE RunInv'
  <2>1. phase[g] = "wait" /\ OutPipes(g) = {} /\ UNCHANGED <<todo, failed>>
    BY <1>6 DEF SyncOk, Waited, RunInv
  <2>2. /\ \A x \in Buffers : place'[x].at \in {"pipe", "gathered"} => place'[x] = place[x]
        /\ \A x \in Gathered(g) : place'[x].at = "held"
    BY <1>6 DEF SyncOk, Gathered, Places
  <2>3. Gathered(g)' = {}
    BY <2>2 DEF Gathered
  <2>4. phase' = [phase EXCEPT ![g] = "idle"]
    BY <1>6 DEF SyncOk
  <2>. QED  BY <2>1, <2>2, <2>3, <2>4 DEF RunInv, OutPipes, Gathered, Loaded
<1>7. ASSUME NEW g \in Graphs, SyncErr(g) PROVE RunInv'
  BY <1>2, <1>7 DEF SyncErr, Waited
<1>8. ASSUME NEW g \in Graphs, NEW s \in Sites, LeafUnready(g, s) PROVE RunInv'
  BY <1>2, <1>8 DEF LeafUnready, Walking
<1>9. ASSUME NEW g \in Graphs, NEW s \in Sites, NEW b \in Buffers, LeafRefused(g, s, b)
      PROVE  RunInv'
  <2>. DEFINE lent == Lend(s, b, "held", None)
  <2>1. lent \in Worlds /\ lent.place[b].at = "held"
        /\ \A x \in Buffers : x # b => lent.place[x] = place[x]
    <3>1. TypeOK /\ Consistent(World)
      BY DEF IInv, HomeInvariant
    <3>2. lent \in Worlds
      BY <1>9, <3>1, LendConsistent DEF LeafRefused
    <3>. QED  BY <3>2 DEF Lend
  <2>2. Shift(lent, Drop(lent, b), {b}, Sites)
    <3>1. lent.place[b].home \in Sites \cup {None}
      BY <2>1 DEF Worlds, Places, Cells, Sites
    <3>. HIDE DEF lent
    <3>. QED  BY <2>1, <3>1, DropShift
  <2>3. place' = Drop(lent, b).place
    BY <1>9 DEF LeafRefused, Become
  <2>. HIDE DEF lent
  <2>4. \A x \in Buffers : place'[x].at \in {"pipe", "gathered"} => place'[x] = place[x]
    BY <2>1, <2>2, <2>3 DEF Shift, Gone
  <2>. QED  BY <1>2, <1>9, <2>4 DEF LeafRefused, Walking
<1>10. ASSUME NEW g \in Graphs, NEW s \in Sites, NEW b \in Buffers, LeafRuns(g, s, b)
       PROVE  RunInv'
  <2>1. s \in todo[g] /\ GraphOf[s] = g /\ phase[g] = "walk" /\ ~failed[g] /\ failed' = failed
    BY <1>10, WalkingLeaf DEF LeafRuns, RunInv
  <2>2. Loaded(s) = {}
    BY <2>1 DEF RunInv
  <2>3. \A h \in Graphs : h # g => OutPipes(h)' \subseteq OutPipes(h)
                                  /\ Gathered(h)' \subseteq Gathered(h)
    BY <1>10, <2>1, LeafMoves DEF OutPipes, Gathered, SitesOf
  <2>4. \A h \in Graphs : phase'[h] \in {"idle", "wait"} => OutPipes(h)' = {}
    BY <1>10, <2>3, LeafMoves DEF RunInv
  <2>5. \A h \in Graphs : phase'[h] = "idle" \/ (phase'[h] = "mopup" /\ failed'[h])
          => Gathered(h)' = {}
    BY <1>10, <2>1, <2>3, LeafMoves DEF RunInv
  <2>6. \A h \in Graphs : phase'[h] \in {"walk", "wait"} => ~failed'[h]
    BY <1>10, <2>1, LeafMoves DEF RunInv
  <2>7. \A x, y \in Buffers :
          place'[x].at = "pipe" /\ place'[y].at = "pipe" /\ place'[x].in = place'[y].in => x = y
    BY <1>10, <2>2, LeafMoves DEF RunInv, Loaded
  <2>8. \A h \in Graphs : \A r \in todo'[h] : Loaded(r)' = {}
    <3>1. \A h \in Graphs : \A r \in todo'[h] : r \in todo[h] /\ r # s
      BY <1>10, <2>1, LeafMoves DEF SitesOf
    <3>2. \A r : r # s => Loaded(r)' \subseteq Loaded(r)
      BY <1>10, LeafMoves DEF Loaded
    <3>. QED  BY <3>1, <3>2 DEF RunInv
  <2>. QED  BY <2>4, <2>5, <2>6, <2>7, <2>8 DEF RunInv
<1>11. ASSUME NEW g \in Graphs, NEW t \in Tags, NEW p \in Pipes, Feed(g, t, p)
       PROVE  RunInv'
  <2>1. \A x \in Buffers : place'[x] = place[x] \/ place'[x] = Gone
    BY <1>11 DEF Feed, Evict, World
  <2>. QED  BY <1>1, <1>11, <2>1 DEF Feed, Gone
<1>12. ASSUME NEW b \in Buffers, DeviceDone(b) PROVE RunInv'
  BY <1>1, <1>12 DEF DeviceDone
<1>13. ASSUME NEW b \in Buffers, NEW p \in Inlets, LentOnward(b, p) PROVE RunInv'
  <2>1. /\ \A x \in Buffers : x # b => place'[x] = place[x]
        /\ place'[b].at = "pipe" /\ place'[b].in = p /\ Loaded(p) = {}
        /\ UNCHANGED <<phase, todo, failed>>
    BY <1>13 DEF LentOnward, runVars
  <2>2. p \notin Sites
    BY SitesDisjoint
  <2>3. \A g \in Graphs : OutPipes(g)' \subseteq OutPipes(g) /\ Gathered(g)' \subseteq Gathered(g)
    BY <2>1, <2>2 DEF OutPipes, Gathered, SitesOf
  <2>4. \A r \in Sites : Loaded(r)' \subseteq Loaded(r)
    BY <2>1, <2>2 DEF Loaded
  <2>5. \A g \in Graphs : \A r \in todo'[g] : Loaded(r)' = {}
    BY <2>1, <2>4 DEF RunInv
  <2>6. \A x, y \in Buffers :
          place'[x].at = "pipe" /\ place'[y].at = "pipe" /\ place'[x].in = place'[y].in => x = y
    BY <2>1 DEF RunInv, Loaded
  <2>7. /\ \A g \in Graphs : phase'[g] \in {"idle", "wait"} => OutPipes(g)' = {}
        /\ \A g \in Graphs : phase'[g] = "idle" \/ (phase'[g] = "mopup" /\ failed'[g])
             => Gathered(g)' = {}
        /\ \A g \in Graphs : phase'[g] \in {"walk", "wait"} => ~failed'[g]
    BY <2>1, <2>3 DEF RunInv
  <2>. QED  BY <2>5, <2>6, <2>7 DEF RunInv
<1>14. CASE UNCHANGED vars
  BY <1>1, <1>14 DEF vars, runVars
<1>. QED
  BY <1>3, <1>4, <1>5, <1>6, <1>7, <1>8, <1>9, <1>10, <1>11, <1>12, <1>13, <1>14, StepKinds

\* No run leaves a buffer in its pipes or its tuple once it is over, and no pipe
\* ever holds two payloads, whatever fails and whoever drops what meanwhile.
THEOREM NothingStranded == ASSUME ~FeedOverLent PROVE Spec => []NoStranding
<1>1. Init => IInv /\ RunInv
  BY InitIInv, InitRunInv
<1>2. IInv /\ RunInv /\ [Next]_vars => (IInv /\ RunInv)'
  BY NextIInv, NextRunInv
<1>3. RunInv => NoStranding
  <2>. SUFFICES ASSUME RunInv PROVE NoStranding
    OBVIOUS
  <2>1. ASSUME NEW p \in Pipes PROVE Cardinality(Loaded(p)) <= 1
    <3>1. \A b, c \in Loaded(p) : b = c
      BY DEF RunInv, Loaded
    <3>2. Loaded(p) = {} \/ \E b : Loaded(p) = {b}
      BY <3>1
    <3>3. Cardinality({}) = 0 /\ \A b : Cardinality({b}) = 1
      BY FS_EmptySet, FS_Singleton
    <3>4. Cardinality(Loaded(p)) \in {0, 1}
      BY <3>2, <3>3
    <3>. QED  BY <3>4
  <2>. QED  BY <2>1 DEF NoStranding, RunInv, Idle
<1>. QED  BY <1>1, <1>2, <1>3, PTL DEF Spec
-----------------------------------------------------------------------------
(* Inputs are found.                                                       *)

\* A site's pipe, where it is not a lent Checkout, is filled by an earlier leaf of
\* the same walk, and nothing else reads it.
LEMMA PipeOfReader ==
  ASSUME WellPiped, FeedInv, NEW s \in Sites, st[s] = "FedByPipe", src[s] \in Sites
  PROVE  /\ GraphOf[src[s]] = GraphOf[s] /\ Pos[src[s]] < Pos[s]
         /\ src[s] \notin Delivered
         /\ \A r \in Sites : st[r] = "FedByPipe" /\ src[r] = src[s] => r = s
BY SitesDisjoint DEF WellPiped, FeedInv

LEMMA InitFeedInv == Init => FeedInv
<1>. SUFFICES ASSUME Init PROVE FeedInv
  OBVIOUS
<1>1. \A s \in Sites : st[s] = "FedByPipe" => s \in PipeHeads /\ src[s] = HeadOf[s]
  BY DEF Init
<1>2. \A g \in Graphs : todo[g] = {}
  BY DEF Init
<1>. QED  BY <1>1, <1>2, ShapeAssumption DEF FeedInv, Readers

\* A step that leaves the sites still to be walked and their pipes alone.
LEMMA FeedKeeps ==
  ASSUME IInv, FeedInv,
         \A s \in Sites : st'[s] = "FedByPipe" => st[s] = "FedByPipe" /\ src'[s] = src[s],
         \A g \in Graphs : todo'[g] \in {todo[g], {}},
         \A g \in Graphs : \A s \in todo'[g] :
           /\ st'[s] = st[s]
           /\ st[s] = "FedByPipe" /\ src[s] \in Sites =>
                \A x \in Loaded(src[s]) : place'[x] = place[x]
  PROVE  FeedInv'
<1>. USE Types
<1>1. \A s \in Sites : st'[s] = "FedByPipe" => src'[s] \in Pipes /\ s \in Readers(src'[s])
  BY DEF FeedInv
<1>2. ASSUME NEW g \in Graphs, NEW s \in todo'[g]
      PROVE  /\ Ready(s)'
             /\ st'[s] = "FedByPipe" /\ src'[s] \in Sites =>
                  \/ src'[s] \in todo'[g]
                  \/ \E x \in Buffers : place'[x].at = "pipe" /\ place'[x].in = src'[s]
  <2>1. todo'[g] = todo[g] /\ s \in todo[g] /\ s \in Sites
    BY <1>2
  <2>2. Ready(s) /\ st'[s] = st[s]
    BY <1>2, <2>1 DEF FeedInv
  <2>3. ASSUME st'[s] = "FedByPipe", src'[s] \in Sites, src'[s] \notin todo'[g]
        PROVE  \E x \in Buffers : place'[x].at = "pipe" /\ place'[x].in = src'[s]
    <3>1. st[s] = "FedByPipe" /\ src'[s] = src[s]
      BY <2>1, <2>3
    <3>2. PICK x : x \in Loaded(src[s])
      BY <2>1, <2>3, <3>1 DEF FeedInv
    <3>. QED  BY <1>2, <2>3, <3>1, <3>2 DEF Loaded
  <2>. QED  BY <2>2, <2>3 DEF Ready
<1>. QED  BY <1>1, <1>2 DEF FeedInv, Loaded

\* The payload a leaf lends is in no pipe another site reads.
LEMMA LendsOwn ==
  ASSUME WellPiped, IInv, FeedInv, NEW s \in Sites, NEW b \in Lendable(s),
         NEW r \in Sites, r # s, st[r] = "FedByPipe", src[r] \in Sites
  PROVE  b \notin Loaded(src[r])
<1>1. CASE st[s] = "FedByPipe"
  BY <1>1, PipeOfReader DEF Lendable, Loaded
<1>2. CASE st[s] # "FedByPipe"
  BY <1>2 DEF Lendable, Loaded, InCell
<1>. QED  BY <1>1, <1>2

LEMMA NextFeedInv ==
  ASSUME WellPiped, IInv, RunInv, FeedInv, [Next]_vars
  PROVE  FeedInv'
<1>. USE Types
<1>1. \A g \in Graphs : \A s \in todo[g] :
        phase[g] = "walk" /\ GraphOf[s] = g /\ st[s] \in {"Bound", "FedByPipe"} /\ s \in Sites
  BY DEF FeedInv, Ready, SitesOf
\* a step that leaves the world alone, and gives no run more to walk
<1>2. ASSUME UNCHANGED <<st, src, place>>, \A g \in Graphs : todo'[g] \in {todo[g], {}}
      PROVE  FeedInv'
  BY <1>2, FeedKeeps
<1>3. CASE Returns
  <2>1. PICK B \in SUBSET Buffers, T \in SUBSET Sites :
          Shift(World, World', B, T) /\ Released(B) /\ Waiting(T)
    BY <1>3 DEF Returns
  <2>2. \A s \in Sites :
          \/ st'[s] = st[s] /\ src'[s] = src[s]
          \/ s \in T /\ st'[s] \in {"Bound", "Severed"}
    BY <2>1 DEF Shift, World
  <2>3. UNCHANGED <<phase, todo>>
    BY <1>3 DEF Returns, runVars
  <2>4. \A g \in Graphs : \A s \in todo[g] : s \notin T
    BY <1>1, <2>1 DEF Waiting, Idle
  <2>5. ASSUME NEW g \in Graphs, NEW s \in todo[g], st[s] = "FedByPipe", src[s] \in Sites,
               NEW x \in Loaded(src[s])
        PROVE  place'[x] = place[x]
    <3>1. place[x].at = "pipe" /\ place[x].in = src[s] /\ x \in Buffers
      BY <2>5 DEF Loaded
    <3>2. phase[g] = "walk" /\ GraphOf[src[s]] = g
      BY <1>1, <2>5, PipeOfReader
    <3>3. x \notin B
      <4>1. src[s] \notin Inlets
        BY <2>5, SitesDisjoint
      <4>. QED  BY <2>1, <3>1, <3>2, <4>1
           DEF Released, Held, Gone, Loaded, Gathered, OutPipes, SitesOf
    <3>. QED  BY <2>1, <3>1, <3>3 DEF Shift, World
  <2>. QED  BY <1>1, <2>2, <2>3, <2>4, <2>5, FeedKeeps
<1>4. ASSUME NEW g \in Graphs, StartSync(g) PROVE FeedInv'
  <2>1. /\ UNCHANGED <<st, src, place>>
        /\ \A s \in SitesOf(g) : Ready(s)
        /\ \A h \in Graphs : todo'[h] = IF h = g THEN SitesOf(g) ELSE todo[h]
    BY <1>4 DEF StartSync
  <2>2. \A s \in SitesOf(g) : st[s] = "FedByPipe" /\ src[s] \in Sites => src[s] \in SitesOf(g)
    BY PipeOfReader DEF SitesOf
  <2>. QED  BY <2>1, <2>2 DEF FeedInv, Ready, Loaded
<1>5. ASSUME NEW g \in Graphs, UnwindDone(g) \/ ReclaimDone(g) PROVE FeedInv'
  BY <1>2, <1>5 DEF UnwindDone, ReclaimDone
<1>6. ASSUME NEW g \in Graphs, SyncOk(g) PROVE FeedInv'
  <2>1. \A p : \A x \in Loaded(p) : place'[x] = place[x]
    BY <1>6 DEF SyncOk, Gathered, Loaded
  <2>. QED  BY <1>6, <2>1, FeedKeeps DEF SyncOk
<1>7. ASSUME NEW g \in Graphs, SyncErr(g) PROVE FeedInv'
  BY <1>2, <1>7 DEF SyncErr, Fail
<1>8. ASSUME NEW g \in Graphs, NEW s \in Sites, LeafUnready(g, s) PROVE FeedInv'
  BY <1>2, <1>8 DEF LeafUnready, Fail
<1>9. ASSUME NEW g \in Graphs, NEW s \in Sites, NEW b \in Buffers, LeafRefused(g, s, b)
      PROVE  FeedInv'
  <2>. DEFINE lent == Lend(s, b, "held", None)
              T == {lent.place[b].home} \ {None}
  <2>1. lent \in Worlds /\ b \in Lendable(s)
    <3>1. TypeOK /\ Consistent(World)
      BY DEF IInv, HomeInvariant
    <3>. QED  BY <1>9, <3>1, LendConsistent DEF LeafRefused
  <2>2. /\ \A x \in Buffers : x # b => lent.place[x] = place[x]
        /\ \A r \in Sites : r # s => lent.st[r] = st[r]
        /\ lent.st[s] = "FedByPipe" => st[s] = "FedByPipe"
        /\ lent.src = src
        /\ lent.place[b].home = IF st[s] = "FedByPipe" THEN place[b].home ELSE s
    BY DEF Lend, Vacated
  <2>3. Shift(lent, Drop(lent, b), {b}, T)
    <3>1. lent.place[b].home \in T \cup {None}
      OBVIOUS
    <3>. HIDE DEF lent, T
    <3>. QED  BY <2>1, <3>1, DropShift
  <2>4. \A h \in Graphs : \A r \in todo'[h] : r \in todo[h] /\ h # g /\ r # s
    BY <1>1, <1>9, WalkingLeaf DEF LeafRefused, Fail
  <2>5. \A h \in Graphs : todo'[h] \in {todo[h], {}}
    BY <1>9 DEF LeafRefused, Fail
  <2>6. \A h \in Graphs : \A r \in todo'[h] : r \notin T
    BY <1>1, <2>2, <2>4, HomeWaits
  <2>7. Become(Drop(lent, b))
    BY <1>9 DEF LeafRefused
  <2>. HIDE DEF lent, T
  <2>8. \A r \in Sites :
          \/ st'[r] = lent.st[r] /\ src'[r] = src[r]
          \/ r \in T /\ st'[r] \in {"Bound", "Severed"}
    BY <2>2, <2>3, <2>7 DEF Shift, Become
  <2>9. ASSUME NEW h \in Graphs, NEW r \in todo'[h], st[r] = "FedByPipe", src[r] \in Sites,
               NEW x \in Loaded(src[r])
        PROVE  place'[x] = place[x]
    <3>1. x # b
      BY <1>1, <2>1, <2>4, <2>9, LendsOwn
    <3>2. x \in Buffers /\ place[x].at = "pipe"
      BY DEF Loaded
    <3>. QED  BY <2>2, <2>3, <2>7, <3>1, <3>2 DEF Shift, Become
  <2>10. \A r \in Sites : st'[r] = "FedByPipe" => st[r] = "FedByPipe" /\ src'[r] = src[r]
    BY <2>2, <2>8
  <2>11. \A h \in Graphs : \A r \in todo'[h] : st'[r] = st[r]
    BY <1>1, <2>2, <2>4, <2>6, <2>8
  <2>. QED  BY <2>5, <2>9, <2>10, <2>11, FeedKeeps
<1>10. ASSUME NEW g \in Graphs, NEW s \in Sites, NEW b \in Buffers, LeafRuns(g, s, b)
       PROVE  FeedInv'
  <2>1. /\ \A r \in Sites : r # s => st'[r] = st[r]
        /\ st'[s] = "FedByPipe" => st[s] = "FedByPipe"
        /\ src' = src
    BY <1>10 DEF LeafRuns, Lend, Become, Vacated
  <2>2. b \in Lendable(s) /\ s \in todo[g] /\ GraphOf[s] = g
    BY <1>10, WalkingLeaf DEF LeafRuns
  <2>3. ASSUME NEW h \in Graphs, NEW r \in todo'[h]
        PROVE  /\ r \in todo[h] /\ r # s /\ r \in Sites /\ st'[r] = st[r] /\ Ready(r)
    BY <1>1, <1>10, <2>1, <2>2, LeafMoves DEF FeedInv
  <2>4. ASSUME NEW h \in Graphs, NEW r \in todo'[h], st[r] = "FedByPipe", src[r] \in Sites,
               src[r] \notin todo'[h]
        PROVE  \E x \in Buffers : place'[x].at = "pipe" /\ place'[x].in = src[r]
    <3>1. CASE src[r] = s
      <4>1. s \notin Delivered
        BY <2>3, <2>4, <3>1, PipeOfReader
      <4>. QED  BY <1>10, <3>1, <4>1, LeafMoves
    <3>2. CASE src[r] # s
      <4>1. src[r] \notin todo[h]
        BY <1>10, <2>4, <3>2, LeafMoves
      <4>2. PICK x : x \in Loaded(src[r])
        BY <2>3, <2>4, <4>1 DEF FeedInv
      <4>3. x # b
        BY <2>2, <2>3, <2>4, <4>2, LendsOwn
      <4>. QED  BY <1>10, <4>2, <4>3, LeafMoves DEF Loaded
    <3>. QED  BY <3>1, <3>2
  <2>5. \A r \in Sites : st'[r] = "FedByPipe" => src'[r] \in Pipes /\ r \in Readers(src'[r])
    BY <2>1 DEF FeedInv
  <2>. QED  BY <2>1, <2>3, <2>4, <2>5 DEF FeedInv, Ready, Loaded
<1>11. ASSUME NEW g \in Graphs, NEW t \in Tags, NEW p \in Pipes, Feed(g, t, p)
       PROVE  FeedInv'
  <2>1. /\ Idle(g) /\ p \in FeedSources[t] /\ UNCHANGED todo
        /\ \A r \in Sites : IF r \in Matching(g, t) THEN src'[r] = p
                            ELSE st'[r] = st[r] /\ src'[r] = src[r]
        /\ \A x \in Buffers : place[x].at = "pipe" => place'[x] = place[x]
    BY <1>11 DEF Feed, Evict, World, runVars
  <2>2. \A r \in Matching(g, t) : r \in Readers(p) /\ GraphOf[r] = g
    BY <2>1 DEF Matching, Readers
  <2>3. \A h \in Graphs : \A r \in todo[h] : r \notin Matching(g, t)
    BY <1>1, <2>1, <2>2 DEF Idle
  <2>4. \A r \in Sites : st'[r] = "FedByPipe" => src'[r] \in Pipes /\ r \in Readers(src'[r])
    BY <2>1, <2>2 DEF FeedInv
  <2>5. ASSUME NEW h \in Graphs, NEW r \in todo[h]
        PROVE  st'[r] = st[r] /\ src'[r] = src[r] /\ r \in Sites
    BY <1>1, <2>1, <2>3
  <2>6. \A q : Loaded(q) # {} => \E x \in Buffers : place'[x].at = "pipe" /\ place'[x].in = q
    BY <2>1 DEF Loaded
  <2>. QED  BY <2>1, <2>4, <2>5, <2>6 DEF FeedInv, Ready, Loaded
<1>12. ASSUME NEW b \in Buffers, DeviceDone(b) PROVE FeedInv'
  BY <1>2, <1>12 DEF DeviceDone, runVars
<1>13. ASSUME NEW b \in Buffers, NEW p \in Inlets, LentOnward(b, p) PROVE FeedInv'
  <2>1. UNCHANGED <<st, src, todo>> /\ \A q : \A x \in Loaded(q) : place'[x] = place[x]
    BY <1>13 DEF LentOnward, runVars, Loaded, Held
  <2>. QED  BY <2>1, FeedKeeps
<1>14. CASE UNCHANGED vars
  BY <1>2, <1>14 DEF vars
<1>. QED
  BY <1>3, <1>4, <1>5, <1>6, <1>7, <1>8, <1>9, <1>10, <1>11, <1>12, <1>13, <1>14, StepKinds
\* The leaf a run comes to has its input, unless that is a lent Checkout.
LEMMA InputIsThere ==
  ASSUME WellPiped, IInv, FeedInv, NEW g \in Graphs, NEW s \in Sites, Walking(g, s),
         Lendable(s) = {}
  PROVE  st[s] = "FedByPipe" /\ src[s] \in Inlets
<1>. USE Types
<1>1. s \in todo[g] /\ \A r \in todo[g] : Pos[s] <= Pos[r]
  BY WalkingLeaf, FirstIsMember
<1>2. Ready(s)
  BY <1>1 DEF FeedInv
<1>3. ASSUME st[s] = "Bound" PROVE FALSE
  <2>1. PICK b \in Buffers : place[b].at = "cell" /\ place[b].in = s
    BY <1>3 DEF IInv, HomeInvariant, Consistent, CellsHoldOne, World
  <2>2. place[b].home = None
    BY <2>1 DEF IInv, HomeInvariant, Consistent, HomesAwaitOne, Away, World
  <2>3. place[b] = InCell(s)
    BY <2>1, <2>2 DEF Places, InCell
  <2>. QED  BY <1>3, <2>3 DEF Lendable
<1>4. st[s] = "FedByPipe" /\ src[s] \in Pipes /\ Loaded(src[s]) = {}
  BY <1>2, <1>3 DEF Ready, Lendable, FeedInv
<1>5. ASSUME src[s] \in Sites PROVE FALSE
  <2>1. src[s] \in todo[g]
    BY <1>1, <1>4, <1>5 DEF FeedInv
  <2>2. Pos[src[s]] < Pos[s]
    BY <1>4, <1>5, PipeOfReader
  <2>3. Pos[s] \in Nat /\ Pos[src[s]] \in Nat
    BY <1>5, ShapeAssumption
  <2>. QED  BY <1>1, <2>1, <2>2, <2>3
<1>. QED  BY <1>4, <1>5 DEF Pipes

\* What check_ready saw holds to the last leaf: with no lent Checkout to read, a run
\* that started never finds an input missing.
THEOREM SyncAtomic ==
  ASSUME ~FeedOverLent, WellPiped, \A p \in Inlets : Readers(p) = {}
  PROVE  Spec => []SyncIsAtomic
<1>1. Init => IInv /\ RunInv /\ FeedInv
  BY InitIInv, InitRunInv, InitFeedInv
<1>2. IInv /\ RunInv /\ FeedInv /\ [Next]_vars => (IInv /\ RunInv /\ FeedInv)'
  BY NextIInv, NextRunInv, NextFeedInv
<1>3. IInv /\ RunInv /\ FeedInv => SyncIsAtomic
  BY InputIsThere DEF SyncIsAtomic, FeedInv
<1>. QED  BY <1>1, <1>2, <1>3, PTL DEF Spec

-----------------------------------------------------------------------------
(* What is home is quiet.                                                  *)

LEMMA InitQuietInv == Init => QuietInv
<1>. SUFFICES ASSUME Init PROVE QuietInv
  OBVIOUS
<1>1. \A b \in Buffers : ~busy[b]
  BY DEF Init
<1>2. \A g \in Graphs : todo[g] = {} /\ phase[g] # "unwind"
  BY DEF Init
<1>. QED  BY <1>1, <1>2 DEF QuietInv, QuietAtHome

\* A step that puts no busy buffer in a cell, a hand or a lent pipe, and gathers
\* nothing.
LEMMA QuietKeeps ==
  ASSUME IInv, QuietInv, UNCHANGED busy,
         \A x \in Buffers :
           \/ place'[x] = place[x]
           \/ place'[x].at \in {"cell", "held", "gone", "pipe"} /\ ~busy[x]
           \/ place'[x] = Gone,
         \A g \in Graphs : todo'[g] \in {todo[g], {}},
         \A g \in Graphs : phase'[g] = "unwind" /\ phase[g] # "unwind" =>
           \A x \in Gathered(g) : ~busy[x]
  PROVE  QuietInv'
<1>. USE Types
<1>1. QuietAtHome'
  BY DEF QuietInv, QuietAtHome, Loaded, Gone
<1>2. \A g \in Graphs : Gathered(g)' \subseteq Gathered(g)
  BY DEF Gathered, Gone
<1>3. \A g \in Graphs : phase'[g] = "unwind" => \A b \in Gathered(g)' : ~busy'[b]
  BY <1>2 DEF QuietInv
<1>4. \A g \in Graphs : \A s \in todo'[g] : Leads(s) => Gathered(g)' = {}
  BY <1>2 DEF QuietInv
<1>5. \A g \in Graphs : \A s \in todo'[g] : Leads(s)' = Leads(s)
  BY DEF Leads, SitesOf
<1>. QED  BY <1>1, <1>3, <1>4, <1>5 DEF QuietInv

LEMMA NextQuietInv ==
  ASSUME WellPiped, ~EnqueueMayFail, IInv, RunInv, FeedInv, QuietInv, [Next]_vars
  PROVE  QuietInv'
<1>. USE Types
<1>1. CASE Returns
  <2>1. PICK B \in SUBSET Buffers, T \in SUBSET Sites :
          Shift(World, World', B, T) /\ Released(B)
    BY <1>1 DEF Returns
  <2>2. \A x \in B : ~busy[x]
    BY <2>1 DEF Released, Held, QuietInv, QuietAtHome
  <2>3. \A x \in Buffers :
          \/ place'[x] = place[x]
          \/ place'[x].at \in {"cell", "held", "gone", "pipe"} /\ ~busy[x]
          \/ place'[x] = Gone
    BY <2>1, <2>2 DEF Shift, World
  <2>. QED  BY <1>1, <2>3, QuietKeeps DEF Returns, runVars
<1>2. ASSUME NEW g \in Graphs, StartSync(g) PROVE QuietInv'
  <2>1. Gathered(g) = {}
    BY <1>2 DEF StartSync, Idle, RunInv
  <2>2. UNCHANGED <<place, busy>> /\ phase' = [phase EXCEPT ![g] = "walk"]
        /\ todo' = [todo EXCEPT ![g] = SitesOf(g)]
    BY <1>2 DEF StartSync
  <2>. QED  BY <2>1, <2>2 DEF QuietInv, QuietAtHome, Loaded, Gathered, Leads, SitesOf
<1>3. ASSUME NEW g \in Graphs, UnwindDone(g) \/ ReclaimDone(g) PROVE QuietInv'
  BY <1>3, QuietKeeps DEF UnwindDone, ReclaimDone
<1>4. ASSUME NEW g \in Graphs, SyncOk(g) PROVE QuietInv'
  <2>1. \A x \in Buffers :
          \/ place'[x] = place[x]
          \/ place'[x].at = "held" /\ ~busy[x]
    BY <1>4 DEF SyncOk, Waited, Gathered, Places
  <2>. QED  BY <1>4, <2>1, QuietKeeps DEF SyncOk
<1>5. ASSUME NEW g \in Graphs, SyncErr(g) PROVE QuietInv'
  BY <1>5, QuietKeeps DEF SyncErr, Waited, Fail
<1>6. ASSUME NEW g \in Graphs, NEW s \in Sites, LeafUnready(g, s) PROVE QuietInv'
  <2>1. Walking(g, s) /\ Lendable(s) = {} /\ Fail(g) /\ UNCHANGED <<place, busy>>
    BY <1>6 DEF LeafUnready
  <2>2. st[s] = "FedByPipe" /\ src[s] \in Inlets
    BY <2>1, InputIsThere
  <2>3. Leads(s)
    BY <2>2 DEF FeedInv, WellPiped
  <2>4. Gathered(g) = {}
    BY <2>1, <2>3, WalkingLeaf DEF QuietInv
  <2>. QED  BY <2>1, <2>4, QuietKeeps DEF Fail
<1>7. ASSUME NEW g \in Graphs, NEW s \in Sites, NEW b \in Buffers, LeafRuns(g, s, b)
      PROVE  QuietInv'
  <2>1. s \in todo[g] /\ GraphOf[s] = g /\ s = First(todo[g]) /\ phase[g] = "walk"
        /\ busy' = [busy EXCEPT ![b] = TRUE]
    BY <1>7, WalkingLeaf DEF LeafRuns
  <2>2. \A x \in Buffers : x # b => busy'[x] = busy[x]
    BY <2>1
  <2>3. s \notin Inlets
    BY SitesDisjoint
  <2>4. QuietAtHome'
    BY <1>7, <2>2, <2>3, LeafMoves DEF QuietInv, QuietAtHome, Loaded
  <2>5. \A h \in Graphs : h # g => Gathered(h)' \subseteq Gathered(h) \ {b}
    BY <1>7, LeafMoves DEF Gathered
  <2>6. \A h \in Graphs : phase'[h] = "unwind" => \A x \in Gathered(h)' : ~busy'[x]
    <3>1. phase'[g] # "unwind" /\ \A h \in Graphs : h # g => phase'[h] = phase[h]
      BY <1>7, LeafMoves
    <3>2. \A h \in Graphs : Gathered(h) \subseteq Buffers
      BY DEF Gathered
    <3>. QED  BY <2>2, <2>5, <3>1, <3>2 DEF QuietInv
  <2>7. \A r \in todo'[g] : ~Leads(r)
    <3>1. ASSUME NEW r \in todo[g], r # s, Leads(r) PROVE FALSE
      <4>1. r \in Sites /\ GraphOf[r] = g /\ Pos[s] <= Pos[r] /\ Pos[r] <= Pos[s]
        BY <2>1, <3>1, FirstIsMember DEF Leads, SitesOf
      <4>2. Pos[s] \in Nat /\ Pos[r] \in Nat
        BY <4>1, ShapeAssumption
      <4>. QED  BY <2>1, <3>1, <4>1, <4>2, ShapeAssumption
    <3>. QED  BY <1>7, <3>1, LeafMoves
  <2>8. \A h \in Graphs : \A r \in todo'[h] : Leads(r) => Gathered(h)' = {}
    BY <1>7, <2>5, <2>7, LeafMoves DEF QuietInv
  <2>9. \A r : Leads(r)' = Leads(r)
    BY DEF Leads, SitesOf
  <2>. QED  BY <2>4, <2>6, <2>8, <2>9 DEF QuietInv
<1>8. ASSUME NEW g \in Graphs, NEW t \in Tags, NEW p \in Pipes, Feed(g, t, p)
      PROVE  QuietInv'
  <2>1. \A x \in Buffers : place'[x] = place[x] \/ place'[x] = Gone
    BY <1>8 DEF Feed, Evict, World
  <2>. QED  BY <1>8, <2>1, QuietKeeps DEF Feed, runVars
<1>9. ASSUME NEW b \in Buffers, DeviceDone(b) PROVE QuietInv'
  <2>1. /\ UNCHANGED <<place, phase, todo>>
        /\ \A x \in Buffers : busy'[x] => busy[x]
    BY <1>9 DEF DeviceDone, runVars
  <2>2. \A g \in Graphs : Gathered(g) \subseteq Buffers
    BY DEF Gathered
  <2>. QED  BY <2>1, <2>2 DEF QuietInv, QuietAtHome, Gathered, Loaded, Leads, SitesOf
<1>10. ASSUME NEW b \in Buffers, NEW p \in Inlets, LentOnward(b, p) PROVE QuietInv'
  <2>1. /\ \A x \in Buffers : x # b => place'[x] = place[x]
        /\ place'[b].at = "pipe" /\ Held(b)
        /\ UNCHANGED <<phase, todo, busy>>
    BY <1>10 DEF LentOnward, runVars
  <2>2. ~busy[b]
    BY <2>1 DEF Held, QuietInv, QuietAtHome
  <2>. QED  BY <2>1, <2>2, QuietKeeps
<1>11. CASE UNCHANGED vars
  BY <1>11, QuietKeeps DEF vars
<1>12. ~\E g \in Graphs, s \in Sites, b \in Buffers : LeafRefused(g, s, b)
  BY DEF LeafRefused
<1>. QED
  BY <1>1, <1>2, <1>3, <1>4, <1>5, <1>6, <1>7, <1>8, <1>9, <1>10, <1>11, <1>12, StepKinds

\* While the driver accepts what it is given, a buffer in its cell, in a lent pipe
\* or in a caller's hands has no command of any run still in flight.
THEOREM HomeIsQuiet ==
  ASSUME ~FeedOverLent, ~EnqueueMayFail, WellPiped
  PROVE  Spec => []QuietAtHome
<1>1. Init => IInv /\ RunInv /\ FeedInv /\ QuietInv
  BY InitIInv, InitRunInv, InitFeedInv, InitQuietInv
<1>2. IInv /\ RunInv /\ FeedInv /\ QuietInv /\ [Next]_vars
        => (IInv /\ RunInv /\ FeedInv /\ QuietInv)'
  BY NextIInv, NextRunInv, NextFeedInv, NextQuietInv
<1>3. QuietInv => QuietAtHome
  BY DEF QuietInv
<1>. QED  BY <1>1, <1>2, <1>3, PTL DEF Spec

-----------------------------------------------------------------------------
(* Claims.  Every step of a verb, a run, a caller or the device is one of *)
(* the moves that Custody allows a claim, or leaves every claim as it was. *)

\* The claims the cells have on the buffers, as the refinement maps them.
ClaimMap == [b \in Buffers |-> CustodyOf(b)]

\* The claim that a buffer at place p is under.
ClaimAt(p) ==
  IF p.at = "cell" THEN Promise!Armed(p.in)
  ELSE IF p.at \in {"pipe", "gathered"} THEN Promise!Running(p.home)
  ELSE IF p.at = "gone" THEN Promise!Released
  ELSE IF p.home = None THEN Promise!Raw ELSE Promise!Out(p.home)

LEMMA ClaimOf ==
  ASSUME NEW b \in Buffers, place[b] \in Places
  PROVE  CustodyOf(b) = ClaimAt(place[b])
<1>1. place[b].at \in Kinds
  BY DEF Places
<1>. QED
  BY <1>1
  DEF CustodyOf, ClaimAt, Kinds, Promise!Claim, Promise!Armed, Promise!Running,
      Promise!Out, Promise!Raw, Promise!Released

\* Claims before and after a step.
LEMMA ClaimsOfStep ==
  ASSUME World \in Worlds, World' \in Worlds
  PROVE  /\ \A b \in Buffers : ClaimMap[b] = ClaimAt(place[b])
         /\ \A b \in Buffers : ClaimMap'[b] = ClaimAt(place'[b])
<1>1. place \in [Buffers -> Places] /\ place' \in [Buffers -> Places]
  BY DEF World, Worlds
<1>2. ASSUME NEW b \in Buffers PROVE CustodyOf(b)' = ClaimAt(place'[b])
  <2>1. place'[b].at \in Kinds
    BY <1>1 DEF Places
  <2>. QED
    BY <2>1
    DEF CustodyOf, ClaimAt, Kinds, Promise!Claim, Promise!Armed, Promise!Running,
        Promise!Out, Promise!Raw, Promise!Released
<1>. QED  BY <1>1, <1>2, ClaimOf DEF ClaimMap

\* One buffer's claim changes.
LEMMA OneMoves ==
  ASSUME NEW b \in Buffers, NEW to,
         \A x \in Buffers : ClaimMap'[x] = IF x = b THEN to ELSE ClaimMap[x]
  PROVE  Promise!Move(b, ClaimMap[b], to)
<1>1. ClaimMap' = [ClaimMap EXCEPT ![b] = to]
  BY DEF ClaimMap
<1>. QED  BY <1>1 DEF Promise!Move, ClaimMap

\* No claim changes.
LEMMA NoneMoves ==
  ASSUME \A x \in Buffers : ClaimMap'[x] = ClaimMap[x]
  PROVE  UNCHANGED ClaimMap
BY DEF ClaimMap

\* What a claim is, kind by kind.
LEMMA ClaimFields ==
  ASSUME NEW p \in Places
  PROVE  /\ p.at = "cell" => ClaimAt(p).k = "armed" /\ ClaimAt(p).cell = p.in
         /\ p.at \in {"pipe", "gathered"} => ClaimAt(p).k = "running" /\ ClaimAt(p).cell = p.home
         /\ p.at = "held" /\ p.home # None => ClaimAt(p).k = "out" /\ ClaimAt(p).cell = p.home
         /\ p.at = "held" /\ p.home = None => ClaimAt(p).k = "raw" /\ ClaimAt(p).cell = None
         /\ p.at = "gone" => ClaimAt(p).k = "released" /\ ClaimAt(p).cell = None
         /\ p.at \in {"cell", "pipe", "gathered", "held", "gone"}
BY DEF ClaimAt, Promise!Claim, Promise!Armed, Promise!Running, Promise!Out,
       Promise!Raw, Promise!Released, Places, Kinds

\* No cell has a claim on two buffers.
LEMMA ClaimsAreSingle ==
  ASSUME NEW w \in Worlds, Consistent(w), NEW a \in Buffers, NEW b \in Buffers,
         ClaimAt(w.place[a]).cell = ClaimAt(w.place[b]).cell,
         ClaimAt(w.place[a]).cell # None
  PROVE  a = b
<1>. DEFINE c == ClaimAt(w.place[a]).cell
<1>1. ASSUME NEW x \in Buffers, ClaimAt(w.place[x]).cell = c
      PROVE  \/ w.place[x].at = "cell" /\ w.place[x].in = c
             \/ w.place[x].at # "cell" /\ w.place[x].home = c
  <2>1. w.place[x] \in Places
    BY DEF Worlds
  <2>. QED  BY <1>1, <2>1, ClaimFields
<1>. HIDE DEF c
<1>2. c # None /\ ClaimAt(w.place[a]).cell = c /\ ClaimAt(w.place[b]).cell = c
  BY DEF c
<1>. QED  BY <1>1, <1>2 DEF Consistent, CellsHoldOne, HomesAwaitOne, Vacated

\* Every claim is one Custody knows.
LEMMA ClaimsTyped ==
  ASSUME NEW w \in Worlds, Consistent(w), NEW b \in Buffers,
         w.place[b].at \in {"pipe", "gathered"} => w.place[b].home # None
  PROVE  ClaimAt(w.place[b]) \in Promise!Claims
<1>1. w.place[b] \in Places
  BY DEF Worlds
<1>2. w.place[b].at = "cell" => w.place[b].in \in Cells
  BY DEF Consistent, CellsHoldOne
<1>3. w.place[b].home \in Cells \cup {None}
  BY <1>1 DEF Places
<1>. QED  BY <1>1, <1>2, <1>3 DEF ClaimAt, Promise!Claims

-----------------------------------------------------------------------------
(* Where the moves on a world leave the buffers.                           *)

LEMMA DropPlaces ==
  ASSUME NEW w \in Worlds, Consistent(w), NEW b \in Buffers, NEW x \in Buffers
  PROVE  Drop(w, b).place[x] =
           IF x = b THEN IF w.place[b].home = None THEN Gone ELSE InCell(w.place[b].home)
           ELSE w.place[x]
<1>. DEFINE h == w.place[b].home
<1>1. CASE h = None
  BY <1>1 DEF Drop, Worlds
<1>2. CASE h # None
  <2>1. \A y \in Buffers : ~(w.place[y].at = "cell" /\ w.place[y].in = h)
    BY <1>2 DEF Consistent, CellsHoldOne, HomesAwaitOne, Vacated
  <2>2. \A y \in Buffers : Evict(w, {h})[y] = w.place[y]
    BY <2>1 DEF Evict
  <2>3. Drop(w, b).place = [Evict(w, {h}) EXCEPT ![b] = InCell(h)]
    BY <1>2 DEF Drop, Put
  <2>. QED  BY <1>2, <2>2, <2>3, EvictType
<1>. QED  BY <1>1, <1>2

LEMMA SeverPlaces ==
  ASSUME NEW w \in Worlds, Consistent(w), NEW b \in Buffers, NEW x \in Buffers
  PROVE  Sever(w, b).place[x] = IF x = b THEN Raw ELSE w.place[x]
<1>. DEFINE h == w.place[b].home
<1>1. CASE h \notin Slots
  BY <1>1 DEF Sever, Worlds
<1>2. CASE h \in Slots
  <2>0. h # None
    BY <1>2, NoneIsFresh DEF Sites, Pipes
  <2>1. \A y \in Buffers : ~(w.place[y].at = "cell" /\ w.place[y].in = h)
    BY <2>0 DEF Consistent, CellsHoldOne, HomesAwaitOne, Vacated
  <2>2. \A y \in Buffers : Evict(w, {h})[y] = w.place[y]
    BY <2>1 DEF Evict
  <2>3. Sever(w, b).place = [Evict(w, {h}) EXCEPT ![b] = Raw]
    BY <1>2 DEF Sever
  <2>. QED  BY <2>2, <2>3, EvictType
<1>. QED  BY <1>1, <1>2

\* A buffer that is bound goes to one cell, whose buffer it evicts, or is dropped.
Binds(w, v, b) ==
  \/ \A x \in Buffers : v.place[x] = IF x = b THEN Gone ELSE w.place[x]
  \/ \E s \in Cells : \A x \in Buffers :
       v.place[x] = IF x = b THEN InCell(s)
                    ELSE IF w.place[x].at = "cell" /\ w.place[x].in = s THEN Gone
                    ELSE w.place[x]

LEMMA FoldPlaces ==
  ASSUME NEW w \in Worlds, NEW b \in Buffers, NEW mode, NEW M, M \subseteq Slots
  PROVE  Binds(w, Fold(w, mode, M, b), b)
<1>. DEFINE takers == {s \in M : Takes(mode, w.st[s])}
            v == Fold(w, mode, M, b)
<1>1. CASE takers = {}
  BY <1>1 DEF Fold, Worlds, Binds
<1>2. CASE takers # {}
  <2>. DEFINE s == First(takers)
  <2>1. s \in Cells
    BY <1>2, FirstIsMember DEF Sites, Cells
  <2>2. v.place = [Evict(w, {s}) EXCEPT ![b] = InCell(s)]
    BY <1>2 DEF Fold, Put
  <2>. HIDE DEF s, v
  <2>3. \A x \in Buffers :
          v.place[x] = IF x = b THEN InCell(s)
                       ELSE IF w.place[x].at = "cell" /\ w.place[x].in = s THEN Gone
                       ELSE w.place[x]
    BY <2>2, EvictType DEF Evict
  <2>4. Binds(w, v, b)
    BY <2>1, <2>3 DEF Binds
  <2>. QED  BY <2>4 DEF v
<1>. QED  BY <1>1, <1>2
\* What a bind does to the other buffers.
LEMMA BindsEvicts ==
  ASSUME NEW w, NEW v, NEW b \in Buffers, Binds(w, v, b)
  PROVE  /\ v.place[b].at \in {"cell", "gone"}
         /\ \A x \in Buffers \ {b} :
              \/ v.place[x] = w.place[x]
              \/ /\ w.place[x].at = "cell" /\ v.place[x] = Gone
                 /\ v.place[b].at = "cell" /\ v.place[b].in = w.place[x].in
<1>1. CASE \A x \in Buffers : v.place[x] = IF x = b THEN Gone ELSE w.place[x]
  BY <1>1 DEF Gone
<1>2. CASE \E s \in Cells : \A x \in Buffers :
             v.place[x] = IF x = b THEN InCell(s)
                          ELSE IF w.place[x].at = "cell" /\ w.place[x].in = s THEN Gone
                          ELSE w.place[x]
  <2>1. PICK s \in Cells : \A x \in Buffers :
             v.place[x] = IF x = b THEN InCell(s)
                          ELSE IF w.place[x].at = "cell" /\ w.place[x].in = s THEN Gone
                          ELSE w.place[x]
    BY <1>2
  <2>2. v.place[b].at = "cell" /\ v.place[b].in = s
    BY <2>1 DEF InCell
  <2>. QED  BY <2>1, <2>2
<1>. QED  BY <1>1, <1>2 DEF Binds

-----------------------------------------------------------------------------
(* Every step is a move of Custody.                                        *)

\* A buffer that a run has lent has a cell to return to.
LentHasHome ==
  \A b \in Buffers : place[b].at \in {"pipe", "gathered"} => place[b].home # None

LEMMA InitLent == Init => LentHasHome
BY DEF Init, LentHasHome, Raw, InCell

\* The state before and after a step, as the rest of the proofs use it.
StepOK == IInv /\ IInv' /\ LentHasHome /\ LentHasHome'

LEMMA StepFacts ==
  ASSUME StepOK
  PROVE  /\ World \in Worlds /\ Consistent(World) /\ World' \in Worlds /\ Consistent(World')
         /\ World.place = place /\ World.st = st /\ World'.place = place'
         /\ place \in [Buffers -> Places] /\ place' \in [Buffers -> Places]
         /\ \A b \in Buffers : ClaimMap[b] = ClaimAt(place[b])
         /\ \A b \in Buffers : ClaimMap'[b] = ClaimAt(place'[b])
<1>1. World \in Worlds /\ Consistent(World) /\ World' \in Worlds /\ Consistent(World')
  BY DEF StepOK, IInv, TypeOK, HomeInvariant
<1>2. World.place = place /\ World.st = st /\ World'.place = place'
  BY DEF World
<1>3. place \in [Buffers -> Places] /\ place' \in [Buffers -> Places]
  BY <1>1, <1>2 DEF Worlds
<1>. QED  BY <1>1, <1>2, <1>3, ClaimsOfStep

\* A step that leaves every buffer where it was, or under the same claim.
LEMMA SameClaims ==
  ASSUME StepOK, \A x \in Buffers : ClaimAt(place'[x]) = ClaimAt(place[x])
  PROVE  [Promise!Next]_ClaimMap
BY StepFacts, NoneMoves

\* A step that moves one buffer to another claim.
LEMMA OneClaimMoves ==
  ASSUME StepOK, NEW b \in Buffers, \A x \in Buffers : x # b => place'[x] = place[x]
  PROVE  Promise!Move(b, ClaimAt(place[b]), ClaimAt(place'[b]))
<1>1. \A x \in Buffers : ClaimMap'[x] = IF x = b THEN ClaimAt(place'[b]) ELSE ClaimMap[x]
  BY StepFacts
<1>2. Promise!Move(b, ClaimMap[b], ClaimAt(place'[b]))
  BY <1>1, OneMoves
<1>. QED  BY <1>2, StepFacts

\* Dropping a buffer that is away: it returns to its home, or is discarded.
LEMMA DropIsCustody ==
  ASSUME StepOK, NEW b \in Buffers, Away(World, b), Become(Drop(World, b))
  PROVE  [Promise!Next]_ClaimMap
<1>1. \A x \in Buffers : place'[x] =
        IF x = b THEN IF place[b].home = None THEN Gone ELSE InCell(place[b].home)
        ELSE place[x]
  BY StepFacts, DropPlaces DEF Become
<1>2. place[b] \in Places /\ place[b].home \in Cells \cup {None}
  BY StepFacts DEF Places
<1>3. Promise!Move(b, ClaimAt(place[b]), ClaimAt(place'[b]))
  BY <1>1, OneClaimMoves
<1>4. CASE place[b].home = None
  <2>1. ClaimAt(place[b]) = Promise!Raw /\ ClaimAt(place'[b]) = Promise!Released
    BY <1>1, <1>4, StepFacts DEF StepOK, LentHasHome, Away, ClaimAt, Gone
  <2>. QED  BY <1>3, <2>1 DEF Promise!Next, Promise!Discard
<1>5. CASE place[b].home # None
  <2>. DEFINE h == place[b].home
  <2>1. ClaimAt(place[b]) \in {Promise!Running(h), Promise!Out(h)}
    BY <1>5, StepFacts DEF Away, ClaimAt
  <2>2. ClaimAt(place'[b]) = Promise!Armed(h)
    BY <1>1, <1>5 DEF ClaimAt, InCell
  <2>. QED  BY <1>2, <1>3, <1>5, <2>1, <2>2 DEF Promise!Next, Promise!Return
<1>. QED  BY <1>4, <1>5

\* Binding buffers the caller holds.
LEMMA BindIsCustody ==
  ASSUME StepOK, NEW S \in SUBSET Buffers, S # {},
         \A b \in S : Held(b) /\ place'[b].at \in {"cell", "gone"},
         \A x \in Buffers \ S :
           \/ place'[x] = place[x]
           \/ /\ place[x].at = "cell" /\ place'[x] = Gone
              /\ \E c \in S : place'[c].at = "cell" /\ place'[c].in = place[x].in
  PROVE  [Promise!Next]_ClaimMap
<1>. USE StepFacts
<1>1. \A b \in S : ClaimMap[b].k \in {"raw", "out"} /\ ClaimMap'[b].k \in {"armed", "released"}
  BY ClaimFields DEF Held
<1>2. ClaimMap' \in [Buffers -> Promise!Claims]
  <2>1. \A b \in Buffers : ClaimMap'[b] \in Promise!Claims
    BY ClaimsTyped DEF StepOK, LentHasHome
  <2>. QED  BY <2>1 DEF ClaimMap
<1>3. ASSUME NEW x \in Buffers \ S
      PROVE  \/ ClaimMap'[x] = ClaimMap[x]
             \/ /\ ClaimMap[x].k = "armed" /\ ClaimMap'[x] = Promise!Released
                /\ \E c \in S : ClaimMap'[c] = ClaimMap[x]
  <2>1. CASE place'[x] = place[x]
    BY <2>1
  <2>2. CASE place[x].at = "cell" /\ place'[x] = Gone
    <3>1. PICK c \in S : place'[c].at = "cell" /\ place'[c].in = place[x].in
      BY <2>2 DEF Gone
    <3>2. ClaimMap'[c] = ClaimMap[x]
      BY <2>2, <3>1 DEF ClaimAt
    <3>3. ClaimMap'[x] = Promise!Released
      BY <2>2 DEF ClaimAt, Gone
    <3>. QED  BY <2>2, <3>2, <3>3, ClaimFields
  <2>. QED  BY <2>1, <2>2
<1>4. Promise!OneClaim(ClaimMap')
  BY ClaimsAreSingle DEF Promise!OneClaim
<1>5. Promise!Bind
  BY <1>1, <1>2, <1>3, <1>4 DEF Promise!Bind, Promise!WithCaller, ClaimMap
<1>. QED  BY <1>5 DEF Promise!Next
\* A lent buffer keeps a home: a leaf lends a buffer from its cell, or one lent
\* before; what a caller lends on is a Checkout.
LEMMA NextLent ==
  ASSUME IInv, LentHasHome, [Next]_vars
  PROVE  LentHasHome'
<1>. USE Types
<1>1. ASSUME \A x \in Buffers : place'[x].at \in {"pipe", "gathered"} => place'[x].home # None
                                  \/ place'[x] = place[x]
      PROVE  LentHasHome'
  BY <1>1 DEF LentHasHome
<1>2. ASSUME UNCHANGED place PROVE LentHasHome'
  BY <1>1, <1>2
<1>3. CASE Returns
  BY <1>1, <1>3, ReturnsSettles
<1>4. ASSUME NEW g \in Graphs, NEW s \in Sites, NEW b \in Buffers, LeafRuns(g, s, b)
      PROVE  LentHasHome'
  <2>1. place'[b].home = IF st[s] = "FedByPipe" THEN place[b].home ELSE s
    BY <1>4 DEF LeafRuns, Lend, Become
  <2>2. st[s] = "FedByPipe" => place[b].home # None
    BY <1>4 DEF LeafRuns, Lendable, Loaded, LentHasHome
  <2>3. s # None
    BY NoneIsFresh DEF Pipes
  <2>. QED  BY <1>1, <1>4, <2>1, <2>2, <2>3, LeafMoves
<1>5. ASSUME NEW g \in Graphs, NEW s \in Sites, NEW b \in Buffers, LeafRefused(g, s, b)
      PROVE  LentHasHome'
  <2>. DEFINE lent == Lend(s, b, "held", None)
  <2>1. lent \in Worlds
    <3>1. TypeOK /\ Consistent(World)
      BY DEF IInv, HomeInvariant
    <3>. QED  BY <1>5, <3>1, LendConsistent DEF LeafRefused
  <2>2. \A x \in Buffers : x # b => lent.place[x] = place[x]
    BY DEF Lend
  <2>3. lent.place[b].at = "held"
    BY DEF Lend
  <2>4. lent.place[b].home \in Sites \cup {None}
    BY <2>1 DEF Worlds, Places, Cells, Sites
  <2>5. Become(Drop(lent, b))
    BY <1>5 DEF LeafRefused
  <2>. HIDE DEF lent
  <2>6. Shift(lent, Drop(lent, b), {b}, Sites)
    BY <2>1, <2>4, DropShift
  <2>. QED  BY <1>1, <2>2, <2>3, <2>5, <2>6 DEF Shift, Become, Gone
<1>6. ASSUME NEW g \in Graphs, SyncOk(g) PROVE LentHasHome'
  BY <1>1, <1>6 DEF SyncOk, Gathered, Places
<1>7. ASSUME NEW g \in Graphs, NEW t \in Tags, NEW p \in Pipes, Feed(g, t, p)
      PROVE  LentHasHome'
  <2>1. \A x \in Buffers : place'[x] = place[x] \/ place'[x] = Gone
    BY <1>7 DEF Feed, Evict, World
  <2>. QED  BY <1>1, <2>1 DEF Gone
<1>8. ASSUME NEW b \in Buffers, NEW p \in Inlets, LentOnward(b, p) PROVE LentHasHome'
  BY <1>1, <1>8 DEF LentOnward
<1>9. ASSUME NEW g \in Graphs,
             \/ StartSync(g) \/ UnwindDone(g) \/ ReclaimDone(g) \/ SyncErr(g)
             \/ \E s \in Sites : LeafUnready(g, s)
      PROVE  LentHasHome'
  BY <1>2, <1>9 DEF StartSync, UnwindDone, ReclaimDone, SyncErr, LeafUnready
<1>10. ASSUME NEW b \in Buffers, DeviceDone(b) PROVE LentHasHome'
  BY <1>2, <1>10 DEF DeviceDone
<1>11. CASE UNCHANGED vars
  BY <1>2, <1>11 DEF vars
<1>. QED
  BY <1>3, <1>4, <1>5, <1>6, <1>7, <1>8, <1>9, <1>10, <1>11, StepKinds

\* mutate_call binds both of its buffers, or drops both.
LEMMA MutateCallIsCustody ==
  ASSUME StepOK, NEW g \in Graphs, NEW t \in Tags, NEW u \in Tags,
         NEW b \in Buffers, NEW c \in Buffers, MutateCall(g, t, b, u, c)
  PROVE  [Promise!Next]_ClaimMap
<1>. DEFINE w1 == Sever(World, b)
            w2 == Sever(w1, c)
            w3 == Fold(w2, "Mutate", Matching(g, t), b)
            w4 == Fold(w3, "Mutate", Matching(g, u), c)
            d == Drop(World, b)
<1>. USE StepFacts
<1>1. Held(b) /\ Held(c) /\ b # c /\ Away(World, b) /\ Away(World, c)
  BY DEF MutateCall, Held, Away
<1>2. Matching(g, t) \subseteq Slots /\ Matching(g, u) \subseteq Slots
  BY DEF Matching
<1>3. CASE ProbeAll(g, t, b, u, c)
  <2>1. /\ w1 \in Worlds /\ Consistent(w1) /\ Away(w1, b) /\ Away(w1, c)
        /\ \A x \in Buffers : w1.place[x] = IF x = b THEN Raw ELSE place[x]
    <3>1. w1 \in Worlds /\ Consistent(w1)
      BY <1>1, SeverConsistent
    <3>2. \A x \in Buffers : w1.place[x] = IF x = b THEN Raw ELSE place[x]
      BY SeverPlaces
    <3>. HIDE DEF w1
    <3>. QED  BY <1>1, <3>1, <3>2 DEF Away, Raw
  <2>. HIDE DEF w1
  <2>2. /\ w2 \in Worlds /\ Consistent(w2) /\ w2.place[b] = Raw
        /\ \A x \in Buffers : w2.place[x] = IF x \in {b, c} THEN Raw ELSE place[x]
    <3>1. w2 \in Worlds /\ Consistent(w2)
      BY <2>1, SeverConsistent
    <3>2. \A x \in Buffers : w2.place[x] = IF x = c THEN Raw ELSE w1.place[x]
      BY <2>1, SeverPlaces
    <3>. HIDE DEF w2
    <3>. QED  BY <2>1, <3>1, <3>2
  <2>. HIDE DEF w2
  <2>3. w3 \in Worlds /\ Binds(w2, w3, b)
    BY <1>2, <2>2, FoldConsistent, FoldPlaces
  <2>. HIDE DEF w3
  <2>4. Binds(w3, w4, c)
    BY <1>2, <2>3, FoldPlaces
  <2>5. place' = w4.place
    BY <1>3 DEF MutateCall, Become, w1, w2, w3
  <2>. HIDE DEF w4
  <2>. DEFINE Evicted(v, w, x, y) ==
                /\ w.place[x].at = "cell" /\ v.place[x] = Gone
                /\ v.place[y].at = "cell" /\ v.place[y].in = w.place[x].in
  <2>10. /\ w3.place[b].at \in {"cell", "gone"}
        /\ \A x \in Buffers \ {b} : w3.place[x] = w2.place[x] \/ Evicted(w3, w2, x, b)
    BY <2>3, BindsEvicts
  <2>11. /\ w4.place[c].at \in {"cell", "gone"}
        /\ \A x \in Buffers \ {c} : w4.place[x] = w3.place[x] \/ Evicted(w4, w3, x, c)
    BY <2>4, BindsEvicts
  <2>6. \A x \in {b, c} : place'[x].at \in {"cell", "gone"}
    BY <1>1, <2>10, <2>11, <2>5 DEF Gone
  <2>7. \A x \in Buffers \ {b, c} :
          \/ place'[x] = place[x]
          \/ /\ place[x].at = "cell" /\ place'[x] = Gone
             /\ \E y \in {b, c} : place'[y].at = "cell" /\ place'[y].in = place[x].in
    <3>. SUFFICES ASSUME NEW x \in Buffers \ {b, c}, place'[x] # place[x]
                  PROVE  /\ place[x].at = "cell" /\ place'[x] = Gone
                         /\ \E y \in {b, c} : place'[y].at = "cell" /\ place'[y].in = place[x].in
      OBVIOUS
    <3>1. w2.place[x] = place[x] /\ Gone.at # "cell"
      BY <2>2 DEF Gone
    <3>2. CASE w3.place[x] = w2.place[x]
      BY <2>11, <2>5, <3>1, <3>2
    <3>3. CASE Evicted(w3, w2, x, b)
      <4>1. place'[x] = Gone
        BY <2>11, <2>5, <3>1, <3>3
      <4>2. place'[b] = w3.place[b] \/ (place'[c].at = "cell" /\ place'[c].in = w3.place[b].in)
        BY <1>1, <2>11, <2>5
      <4>. QED  BY <3>1, <3>3, <4>1, <4>2
    <3>. QED  BY <2>10, <3>2, <3>3
  <2>8. {b, c} \in SUBSET Buffers /\ {b, c} # {}
    OBVIOUS
  <2>9. \A x \in {b, c} : Held(x)
    BY <1>1
  <2>. QED  BY <2>6, <2>7, <2>8, <2>9, BindIsCustody
<1>4. CASE ~ProbeAll(g, t, b, u, c)
  <2>1. /\ d \in Worlds /\ Consistent(d)
        /\ \A x \in Buffers : d.place[x] =
             IF x = b THEN IF place[b].home = None THEN Gone ELSE InCell(place[b].home)
             ELSE place[x]
    BY <1>1, DropConsistent, DropPlaces
  <2>2. Become(Drop(d, c))
    BY <1>4 DEF MutateCall
  <2>. HIDE DEF d
  <2>3. \A x \in Buffers : place'[x] =
          IF x = c THEN IF d.place[c].home = None THEN Gone ELSE InCell(d.place[c].home)
          ELSE d.place[x]
    BY <2>1, <2>2, DropPlaces DEF Become
  <2>4. \A x \in Buffers \ {b, c} : place'[x] = place[x]
    BY <2>1, <2>3
  <2>5. \A x \in {b, c} : place'[x].at \in {"cell", "gone"}
    BY <1>1, <2>1, <2>3 DEF InCell, Gone
  <2>6. {b, c} \in SUBSET Buffers /\ {b, c} # {}
    OBVIOUS
  <2>7. \A x \in {b, c} : Held(x)
    BY <1>1
  <2>. QED  BY <2>4, <2>5, <2>6, <2>7, BindIsCustody
<1>. QED  BY <1>3, <1>4

\* A leaf lends its buffer to the run; one it reads from a pipe is lent already.
LEMMA LeafIsCustody ==
  ASSUME StepOK, NEW g \in Graphs, NEW s \in Sites, NEW b \in Buffers, LeafRuns(g, s, b)
  PROVE  [Promise!Next]_ClaimMap
<1>. USE StepFacts
<1>1. /\ \A x \in Buffers : x # b => place'[x] = place[x]
      /\ place'[b].at \in {"pipe", "gathered"}
  BY LeafMoves DEF StepOK
<1>2. place'[b].home = IF st[s] = "FedByPipe" THEN place[b].home ELSE s
  BY DEF LeafRuns, Lend, Become
<1>3. b \in Lendable(s)
  BY DEF LeafRuns
<1>4. CASE st[s] = "FedByPipe"
  <2>1. ClaimAt(place'[b]) = ClaimAt(place[b])
    BY <1>1, <1>2, <1>3, <1>4 DEF Lendable, Loaded, ClaimAt
  <2>. QED  BY <1>1, <2>1, SameClaims
<1>5. CASE st[s] # "FedByPipe"
  <2>1. st[s] = "Bound" /\ place[b] = InCell(s)
    BY <1>3, <1>5 DEF Lendable
  <2>2. s \in Cells
    BY <2>1 DEF Consistent, CellsHoldOne, InCell
  <2>3. ClaimAt(place[b]) = Promise!Armed(s) /\ ClaimAt(place'[b]) = Promise!Running(s)
    BY <1>1, <1>2, <1>5, <2>1 DEF ClaimAt, InCell
  <2>4. Promise!Move(b, Promise!Armed(s), Promise!Running(s))
    BY <1>1, <2>3, OneClaimMoves
  <2>. QED  BY <2>2, <2>4 DEF Promise!Next, Promise!Lend
<1>. QED  BY <1>4, <1>5

\* A refused enqueue returns the buffer, or leaves it where it was.
LEMMA RefusalIsCustody ==
  ASSUME StepOK, NEW g \in Graphs, NEW s \in Sites, NEW b \in Buffers, LeafRefused(g, s, b)
  PROVE  [Promise!Next]_ClaimMap
<1>. DEFINE lent == Lend(s, b, "held", None)
<1>. USE StepFacts
<1>1. lent \in Worlds /\ Consistent(lent) /\ b \in Lendable(s)
  <2>1. TypeOK /\ Consistent(World)
    BY DEF StepOK, IInv, HomeInvariant
  <2>. QED  BY <2>1, LendConsistent DEF LeafRefused
<1>2. /\ \A x \in Buffers : x # b => lent.place[x] = place[x]
      /\ lent.place[b].home = IF st[s] = "FedByPipe" THEN place[b].home ELSE s
  BY DEF Lend
<1>3. Become(Drop(lent, b))
  BY DEF LeafRefused
<1>. HIDE DEF lent
<1>4. \A x \in Buffers : place'[x] =
        IF x = b THEN IF lent.place[b].home = None THEN Gone ELSE InCell(lent.place[b].home)
        ELSE place[x]
  BY <1>1, <1>2, <1>3, DropPlaces DEF Become
<1>5. CASE st[s] = "FedByPipe"
  <2>. DEFINE h == place[b].home
  <2>1. place[b].at = "pipe"
    BY <1>1, <1>5 DEF Lendable, Loaded
  <2>2. h # None /\ h \in Cells
    BY <2>1 DEF StepOK, LentHasHome, Places
  <2>3. ClaimAt(place[b]) = Promise!Running(h) /\ ClaimAt(place'[b]) = Promise!Armed(h)
    BY <1>2, <1>4, <1>5, <2>1, <2>2 DEF ClaimAt, InCell
  <2>4. Promise!Move(b, Promise!Running(h), Promise!Armed(h))
    BY <1>4, <2>3, OneClaimMoves
  <2>. QED  BY <2>2, <2>4 DEF Promise!Next, Promise!Return
<1>6. CASE st[s] # "FedByPipe"
  <2>1. place[b] = InCell(s)
    BY <1>1, <1>6 DEF Lendable
  <2>2. s # None
    BY NoneIsFresh DEF Pipes
  <2>3. \A x \in Buffers : place'[x] = place[x]
    BY <1>2, <1>4, <1>6, <2>1, <2>2
  <2>. QED  BY <2>3, SameClaims
<1>. QED  BY <1>5, <1>6

LEMMA NextCustody ==
  ASSUME StepOK, [Next]_vars
  PROVE  [Promise!Next]_ClaimMap
<1>. USE StepFacts
<1>1. ASSUME NEW g \in Graphs, NEW b \in Buffers, Unwind(g, b) \/ Reclaim(g, b)
      PROVE  [Promise!Next]_ClaimMap
  BY <1>1, DropIsCustody DEF Unwind, Reclaim, Gathered, OutPipes, Away
<1>2. ASSUME NEW b \in Buffers, DropCheckout(b) PROVE [Promise!Next]_ClaimMap
  BY <1>2, DropIsCustody DEF DropCheckout, Held, Away
<1>3. ASSUME NEW b \in Buffers, NEW p \in Inlets, DropInlet(b, p)
      PROVE  [Promise!Next]_ClaimMap
  BY <1>3, DropIsCustody DEF DropInlet, Loaded, Away
<1>4. ASSUME NEW b \in Buffers, IntoInner(b) PROVE [Promise!Next]_ClaimMap
  <2>. DEFINE h == place[b].home
  <2>1. \A x \in Buffers : place'[x] = IF x = b THEN Raw ELSE place[x]
    BY <1>4, SeverPlaces DEF IntoInner, Become
  <2>2. h \in Cells /\ ClaimAt(place[b]) = Promise!Out(h) /\ ClaimAt(place'[b]) = Promise!Raw
    BY <1>4, <2>1 DEF IntoInner, Held, Places, ClaimAt, Raw
  <2>3. Promise!Move(b, Promise!Out(h), Promise!Raw)
    BY <2>1, <2>2, OneClaimMoves
  <2>. QED  BY <2>2, <2>3 DEF Promise!Next, Promise!Take
<1>5. ASSUME NEW b \in Buffers, Alloc(b) PROVE [Promise!Next]_ClaimMap
  <2>1. \A x \in Buffers : place'[x] = IF x = b THEN Raw ELSE place[x]
    BY <1>5 DEF Alloc
  <2>2. ClaimAt(place[b]) = Promise!Released /\ ClaimAt(place'[b]) = Promise!Raw
    BY <1>5, <2>1 DEF Alloc, ClaimAt, Gone, Raw
  <2>3. Promise!Move(b, Promise!Released, Promise!Raw)
    BY <2>1, <2>2, OneClaimMoves
  <2>. QED  BY <2>3 DEF Promise!Next, Promise!Alloc
<1>6. ASSUME NEW g \in Graphs, NEW t \in Tags, NEW b \in Buffers,
             Bind(g, t, b) \/ MutateBind(g, t, b)
      PROVE  [Promise!Next]_ClaimMap
  <2>. DEFINE w == Sever(World, b)
  <2>1. Held(b) /\ Away(World, b)
    BY <1>6 DEF Bind, MutateBind, Held, Away
  <2>2. w \in Worlds /\ \A x \in Buffers : w.place[x] = IF x = b THEN Raw ELSE place[x]
    BY <2>1, SeverConsistent, SeverPlaces
  <2>3. PICK mode : Become(Fold(w, mode, Matching(g, t), b))
    BY <1>6 DEF Bind, MutateBind
  <2>. HIDE DEF w
  <2>4. Binds(w, Fold(w, mode, Matching(g, t), b), b)
    BY <2>2, FoldPlaces DEF Matching
  <2>5. /\ place'[b].at \in {"cell", "gone"}
        /\ \A x \in Buffers \ {b} :
             \/ place'[x] = place[x]
             \/ /\ place[x].at = "cell" /\ place'[x] = Gone
                /\ place'[b].at = "cell" /\ place'[b].in = place[x].in
    BY <2>2, <2>3, <2>4, BindsEvicts DEF Become
  <2>6. {b} \in SUBSET Buffers /\ {b} # {}
    OBVIOUS
  <2>. QED  BY <2>1, <2>5, <2>6, BindIsCustody
<1>7. ASSUME NEW g \in Graphs, NEW t \in Tags, NEW p \in Pipes, Feed(g, t, p)
      PROVE  [Promise!Next]_ClaimMap
  <2>. DEFINE S == {x \in Buffers : place[x].at = "cell" /\ place[x].in \in Matching(g, t)}
  <2>1. \A x \in Buffers : place'[x] = IF x \in S THEN Gone ELSE place[x]
    BY <1>7 DEF Feed, Evict
  <2>2. \A x \in Buffers : ClaimMap'[x] = IF x \in S THEN Promise!Released ELSE ClaimMap[x]
    BY <2>1 DEF ClaimAt, Gone
  <2>3. \A x \in S : ClaimMap[x].k = "armed"
    BY ClaimFields
  <2>4. Promise!Feed
    BY <2>2, <2>3 DEF Promise!Feed, ClaimMap
  <2>. QED  BY <2>4 DEF Promise!Next
<1>8. ASSUME NEW g \in Graphs, SyncOk(g) PROVE [Promise!Next]_ClaimMap
  <2>1. \A x \in Buffers : place'[x] =
          IF x \in Gathered(g) THEN [place[x] EXCEPT !.at = "held", !.in = None] ELSE place[x]
    BY <1>8 DEF SyncOk
  <2>2. \A x \in Gathered(g) : x \in Buffers /\ place[x].at = "gathered" /\ place[x].home # None
    BY DEF Gathered, StepOK, LentHasHome
  <2>3. \A x \in Gathered(g) : /\ ClaimMap[x].k = "running"
                               /\ ClaimMap'[x] = Promise!Out(ClaimMap[x].cell)
    <3>1. ASSUME NEW x \in Gathered(g)
          PROVE  place'[x].at = "held" /\ place'[x].home = place[x].home
      BY <2>1, <2>2 DEF Places
    <3>2. ASSUME NEW x \in Gathered(g)
          PROVE  ClaimAt(place'[x]) = Promise!Out(place[x].home)
      BY <2>2, <3>1 DEF ClaimAt
    <3>. QED  BY <2>2, <3>2, ClaimFields
  <2>4. \A x \in Buffers \ Gathered(g) : ClaimMap'[x] = ClaimMap[x]
    BY <2>1
  <2>5. Promise!Deliver
    <3>1. Gathered(g) \in SUBSET Buffers
      BY <2>2
    <3>2. ClaimMap' = [x \in Buffers |->
            IF x \in Gathered(g) THEN Promise!Out(ClaimMap[x].cell) ELSE ClaimMap[x]]
      BY <2>3, <2>4 DEF ClaimMap
    <3>. QED  BY <2>3, <3>1, <3>2 DEF Promise!Deliver, ClaimMap
  <2>. QED  BY <2>5 DEF Promise!Next
<1>9. ASSUME NEW b \in Buffers, NEW p \in Inlets, LentOnward(b, p)
      PROVE  [Promise!Next]_ClaimMap
  <2>. DEFINE h == place[b].home
  <2>1. /\ \A x \in Buffers : x # b => place'[x] = place[x]
        /\ place'[b].at = "pipe" /\ place'[b].home = h
        /\ place[b].at = "held" /\ h # None
    BY <1>9 DEF LentOnward, Held
  <2>2. h \in Cells /\ ClaimAt(place[b]) = Promise!Out(h) /\ ClaimAt(place'[b]) = Promise!Running(h)
    BY <2>1 DEF Places, ClaimAt
  <2>3. Promise!Move(b, Promise!Out(h), Promise!Running(h))
    BY <2>1, <2>2, OneClaimMoves
  <2>. QED  BY <2>2, <2>3 DEF Promise!Next, Promise!LendOnward
<1>10. ASSUME UNCHANGED place PROVE [Promise!Next]_ClaimMap
  BY <1>10, SameClaims
<1>11. ASSUME NEW g \in Graphs,
              \/ StartSync(g) \/ UnwindDone(g) \/ ReclaimDone(g) \/ SyncErr(g)
              \/ \E s \in Sites : LeafUnready(g, s)
       PROVE  [Promise!Next]_ClaimMap
  BY <1>10, <1>11 DEF StartSync, UnwindDone, ReclaimDone, SyncErr, LeafUnready
<1>12. ASSUME NEW b \in Buffers, DeviceDone(b) PROVE [Promise!Next]_ClaimMap
  BY <1>10, <1>12 DEF DeviceDone
<1>13. CASE UNCHANGED vars
  BY <1>10, <1>13 DEF vars
<1>. QED
  BY <1>1, <1>2, <1>3, <1>4, <1>5, <1>6, <1>7, <1>8, <1>9, <1>11, <1>12, <1>13,
     MutateCallIsCustody, LeafIsCustody, RefusalIsCustody
  DEF Next, RunStep, Verb, CallerStep

LEMMA InitCustody == Init => Promise!Init
<1>. SUFFICES ASSUME Init PROVE Promise!Init
  OBVIOUS
<1>1. World \in Worlds /\ Consistent(World) /\ place \in [Buffers -> Places]
  BY InitIInv DEF IInv, TypeOK, HomeInvariant, World, Worlds
<1>2. \A b \in Buffers : ClaimMap[b] = ClaimAt(place[b])
  BY <1>1, ClaimOf DEF ClaimMap
<1>3. \A b \in Buffers : ClaimMap[b] \in {Promise!Raw} \cup {Promise!Armed(s) : s \in Cells}
  <2>1. \A b \in Buffers : place[b] = Raw \/ \E s \in Cells : place[b] = InCell(s)
    BY DEF Init
  <2>2. ClaimAt(Raw) = Promise!Raw /\ \A s \in Cells : ClaimAt(InCell(s)) = Promise!Armed(s)
    BY DEF ClaimAt, Raw, InCell
  <2>. QED  BY <1>2, <2>1, <2>2
<1>4. Promise!OneClaim(ClaimMap)
  <2>1. World.place = place
    BY DEF World
  <2>. QED  BY <1>1, <1>2, <2>1, ClaimsAreSingle DEF Promise!OneClaim
<1>. QED  BY <1>3, <1>4 DEF Promise!Init, ClaimMap

\* The graphs keep the promise of Custody: a buffer a graph lends stays claimed by
\* the cell it came from until it returns there or its owner takes it out, and no
\* cell is ever claimed twice.
THEOREM CustodyKept == ASSUME ~FeedOverLent PROVE Spec => KeepsCustody
<1>1. Init => IInv /\ LentHasHome
  BY InitIInv, InitLent
<1>2. IInv /\ LentHasHome /\ [Next]_vars => (IInv /\ LentHasHome)'
  BY NextIInv, NextLent
<1>3. Init => Promise!Init
  BY InitCustody
<1>4. IInv /\ LentHasHome /\ [Next]_vars => [Promise!Next]_ClaimMap
  BY <1>2, NextCustody DEF StepOK
<1>. QED  BY <1>1, <1>2, <1>3, <1>4, PTL DEF Spec, KeepsCustody, Promise!Spec, ClaimMap
-----------------------------------------------------------------------------
(* mutate_call.                                                            *)

\* A slot that is lent is marked Lent: only a concrete cell is left empty.
SlotsKeepTrack == \A s \in Slots : st[s] # "Taken"

LEMMA InitTrack == Init => SlotsKeepTrack
<1>. SUFFICES ASSUME Init PROVE SlotsKeepTrack
  OBVIOUS
<1>1. \A s \in Sites : st[s] \in {"FedByPipe", "Bound", "Unbound"}
  BY DEF Init
<1>. QED  BY <1>1 DEF SlotsKeepTrack, Sites

LEMMA NextTrack ==
  ASSUME IInv, SlotsKeepTrack, [Next]_vars
  PROVE  SlotsKeepTrack'
<1>. USE Types
<1>1. ASSUME UNCHANGED st PROVE SlotsKeepTrack'
  BY <1>1 DEF SlotsKeepTrack
<1>2. CASE Returns
  <2>1. PICK B, T : Shift(World, World', B, T)
    BY <1>2 DEF Returns
  <2>2. \A s \in Sites : st'[s] = st[s] \/ st'[s] \in {"Bound", "Severed"}
    BY <2>1 DEF Shift, World
  <2>. QED  BY <2>2 DEF SlotsKeepTrack, Sites
<1>3. ASSUME NEW g \in Graphs, NEW s \in Sites, NEW b \in Buffers, LeafRuns(g, s, b)
      PROVE  SlotsKeepTrack'
  <2>1. \A r \in Sites : st'[r] = st[r] \/ (r = s /\ st'[r] = Vacated(s))
    BY <1>3 DEF LeafRuns, Lend, Become
  <2>. QED  BY <2>1 DEF SlotsKeepTrack, Vacated, Sites
<1>4. ASSUME NEW g \in Graphs, NEW s \in Sites, NEW b \in Buffers, LeafRefused(g, s, b)
      PROVE  SlotsKeepTrack'
  <2>. DEFINE lent == Lend(s, b, "held", None)
  <2>1. lent \in Worlds
    <3>1. TypeOK /\ Consistent(World)
      BY DEF IInv, HomeInvariant
    <3>. QED  BY <1>4, <3>1, LendConsistent DEF LeafRefused
  <2>2. \A r \in Sites : lent.st[r] = st[r] \/ (r = s /\ lent.st[r] = Vacated(s))
    BY DEF Lend
  <2>3. lent.place[b].home \in Sites \cup {None}
    BY <2>1, <1>4 DEF Worlds, Places, Cells, Sites
  <2>4. Become(Drop(lent, b))
    BY <1>4 DEF LeafRefused
  <2>. HIDE DEF lent
  <2>5. Shift(lent, Drop(lent, b), {b}, Sites)
    BY <2>1, <2>3, DropShift
  <2>6. \A r \in Sites : st'[r] = lent.st[r] \/ st'[r] \in {"Bound", "Severed"}
    BY <2>4, <2>5 DEF Shift, Become
  <2>. QED  BY <2>2, <2>6 DEF SlotsKeepTrack, Vacated, Sites
<1>5. ASSUME NEW g \in Graphs, NEW t \in Tags, NEW p \in Pipes, Feed(g, t, p)
      PROVE  SlotsKeepTrack'
  <2>1. \A s \in Sites : st'[s] = st[s] \/ st'[s] = "FedByPipe"
    BY <1>5 DEF Feed
  <2>. QED  BY <2>1 DEF SlotsKeepTrack, Sites
<1>6. ASSUME NEW g \in Graphs,
             \/ StartSync(g) \/ UnwindDone(g) \/ ReclaimDone(g) \/ SyncOk(g) \/ SyncErr(g)
             \/ \E s \in Sites : LeafUnready(g, s)
      PROVE  SlotsKeepTrack'
  BY <1>1, <1>6 DEF StartSync, UnwindDone, ReclaimDone, SyncOk, SyncErr, LeafUnready
<1>7. ASSUME NEW b \in Buffers, DeviceDone(b) \/ \E p \in Inlets : LentOnward(b, p)
      PROVE  SlotsKeepTrack'
  BY <1>1, <1>7 DEF DeviceDone, LentOnward
<1>8. CASE UNCHANGED vars
  BY <1>1, <1>8 DEF vars
<1>. QED  BY <1>2, <1>3, <1>4, <1>5, <1>6, <1>7, <1>8, StepKinds

\* Where a buffer that is bound lands, when no matching slot is Lent.
LEMMA FoldLands ==
  ASSUME NEW w \in Worlds, NEW b \in Buffers, NEW M, M \subseteq Slots, M # {},
         \A s \in M : w.st[s] \notin {"Lent", "Taken"}
  PROVE  \E s \in M :
           /\ \A x \in Buffers :
                Fold(w, "Mutate", M, b).place[x] =
                  IF x = b THEN InCell(s)
                  ELSE IF w.place[x].at = "cell" /\ w.place[x].in = s THEN Gone
                  ELSE w.place[x]
           /\ \A r \in Sites : Fold(w, "Mutate", M, b).st[r] = IF r = s THEN "Bound" ELSE w.st[r]
<1>. DEFINE takers == {s \in M : Takes("Mutate", w.st[s])}
            v == Fold(w, "Mutate", M, b)
            s == First(takers)
<1>1. takers = M
  BY DEF Takes, Worlds, CellStates, Sites
<1>2. s \in M
  BY <1>1, FirstIsMember DEF Sites
<1>3. /\ v.place = [Evict(w, {s}) EXCEPT ![b] = InCell(s)]
      /\ v.st = [w.st EXCEPT ![s] = "Bound"]
  BY <1>1 DEF Fold, Put
<1>. HIDE DEF s, v
<1>4. /\ \A x \in Buffers :
           v.place[x] = IF x = b THEN InCell(s)
                        ELSE IF w.place[x].at = "cell" /\ w.place[x].in = s THEN Gone
                        ELSE w.place[x]
      /\ \A r \in Sites : v.st[r] = IF r = s THEN "Bound" ELSE w.st[r]
  BY <1>3, EvictType DEF Evict, Worlds
<1>. QED  BY <1>2, <1>4 DEF v

\* What a sever does to the cells.
LEMMA SeverStates ==
  ASSUME NEW w \in Worlds, NEW b \in Buffers, NEW s \in Slots
  PROVE  Sever(w, b).st[s] = IF s = w.place[b].home THEN "Severed" ELSE w.st[s]
BY DEF Sever, Worlds, Sites

\* mutate_call binds both elements, or only returns its Checkouts to their homes.
LEMMA MutateCallStep ==
  ASSUME IInv, SlotsKeepTrack,
         NEW g \in Graphs, NEW t \in Tags, NEW u \in Tags,
         NEW b \in Buffers, NEW c \in Buffers, MutateCall(g, t, b, u, c)
  PROVE
    \/ /\ LandedIn(c, Matching(g, u))
       /\ t = u \/ LandedIn(b, Matching(g, t))
    \/ /\ \A s \in Sites :
            st'[s] = st[s] \/ (st'[s] = "Bound" /\ s \in {place[b].home, place[c].home})
       /\ \A x \in Buffers \ {b, c} : place'[x] = place[x]
       /\ \A x \in {b, c} : place[x].home # None => place'[x] = InCell(place[x].home)
<1>. DEFINE w1 == Sever(World, b)
            w2 == Sever(w1, c)
            w3 == Fold(w2, "Mutate", Matching(g, t), b)
            w4 == Fold(w3, "Mutate", Matching(g, u), c)
            d == Drop(World, b)
<1>1. World \in Worlds /\ Consistent(World) /\ World.place = place /\ World.st = st
  BY DEF IInv, TypeOK, HomeInvariant, World
<1>2. b # c /\ Away(World, b) /\ Away(World, c)
  BY <1>1 DEF MutateCall, Held, Away
<1>3. Matching(g, t) \subseteq Slots /\ Matching(g, u) \subseteq Slots
  BY DEF Matching
<1>4. CASE ProbeAll(g, t, b, u, c)
  <2>1. /\ w1 \in Worlds /\ Consistent(w1) /\ Away(w1, c) /\ w1.place[c] = place[c]
    <3>1. w1 \in Worlds /\ Consistent(w1) /\ w1.place[c] = place[c]
      BY <1>1, <1>2, SeverConsistent
    <3>. HIDE DEF w1
    <3>. QED  BY <1>1, <1>2, <3>1 DEF Away
  <2>2. \A s \in Slots : w1.st[s] = IF s = place[b].home THEN "Severed" ELSE st[s]
    BY <1>1, SeverStates
  <2>. HIDE DEF w1
  <2>3. w2 \in Worlds /\ Consistent(w2) /\ w2.place[b] = Raw
    <3>1. w1.place[b] = Raw
      BY <1>1, <1>2, SeverConsistent DEF w1
    <3>2. Away(w1, b)
      BY <3>1 DEF Away, Raw
    <3>. QED  BY <1>2, <2>1, <3>1, <3>2, SeverConsistent
  <2>4. \A s \in Slots : w2.st[s] = IF s = place[c].home THEN "Severed" ELSE w1.st[s]
    BY <2>1, SeverStates
  <2>. HIDE DEF w2
  <2>5. \A s \in Matching(g, t) \cup Matching(g, u) :
          st[s] = "Lent" => s \in {place[b].home, place[c].home}
    BY <1>4 DEF ProbeAll, Probe
  <2>6. \A s \in Matching(g, t) \cup Matching(g, u) : w2.st[s] \notin {"Lent", "Taken"}
    BY <1>3, <2>2, <2>4, <2>5 DEF SlotsKeepTrack
  <2>7. Matching(g, t) # {} /\ Matching(g, u) # {}
    BY <1>4 DEF ProbeAll, Probe
  <2>8. PICK s \in Matching(g, t) :
          /\ w3.place[b] = InCell(s)
          /\ \A r \in Sites : w3.st[r] = IF r = s THEN "Bound" ELSE w2.st[r]
    BY <1>3, <2>3, <2>6, <2>7, FoldLands
  <2>9. w3 \in Worlds
    BY <1>3, <2>3, FoldConsistent
  <2>. HIDE DEF w3
  <2>10. \A r \in Matching(g, u) : w3.st[r] \notin {"Lent", "Taken"}
    BY <1>3, <2>6, <2>8 DEF Sites
  <2>11. PICK r \in Matching(g, u) :
           \A x \in Buffers :
             w4.place[x] = IF x = c THEN InCell(r)
                           ELSE IF w3.place[x].at = "cell" /\ w3.place[x].in = r THEN Gone
                           ELSE w3.place[x]
    BY <1>3, <2>7, <2>9, <2>10, FoldLands
  <2>12. place' = w4.place
    BY <1>4 DEF MutateCall, Become, w1, w2, w3
  <2>. HIDE DEF w4
  <2>13. t # u => s # r
    BY DEF Matching
  <2>14. t # u => place'[b] = InCell(s)
    BY <1>2, <2>8, <2>11, <2>12, <2>13 DEF InCell
  <2>. QED  BY <2>11, <2>12, <2>14 DEF LandedIn
<1>5. CASE ~ProbeAll(g, t, b, u, c)
  <2>1. /\ d \in Worlds /\ Consistent(d)
        /\ \A x \in Buffers : d.place[x] =
             IF x = b THEN IF place[b].home = None THEN Gone ELSE InCell(place[b].home)
             ELSE place[x]
    BY <1>1, <1>2, DropConsistent, DropPlaces
  <2>2. \A s \in Sites : d.st[s] = st[s] \/ (d.st[s] = "Bound" /\ s = place[b].home)
    BY <1>1 DEF Drop, Put, Worlds
  <2>3. Become(Drop(d, c))
    BY <1>5 DEF MutateCall
  <2>. HIDE DEF d
  <2>4. /\ \A x \in Buffers : place'[x] =
             IF x = c THEN IF d.place[c].home = None THEN Gone ELSE InCell(d.place[c].home)
             ELSE d.place[x]
    BY <2>1, <2>3, DropPlaces DEF Become
  <2>5. \A s \in Sites : st'[s] = d.st[s] \/ (st'[s] = "Bound" /\ s = d.place[c].home)
    BY <2>1, <2>3 DEF Drop, Put, Worlds, Become
  <2>. QED  BY <1>2, <2>1, <2>2, <2>4, <2>5
<1>. QED  BY <1>4, <1>5

\* mutate_call binds every element, or leaves the graph and every buffer outside the
\* tuple as they were, each Checkout of the tuple back home: for any slots, Lent or
\* not, and any Checkouts, of this graph or of another.
THEOREM MutateCallAtomic == ASSUME ~FeedOverLent PROVE Spec => MutateCallAllOrNothing
<1>1. Init => IInv /\ SlotsKeepTrack
  BY InitIInv, InitTrack
<1>2. IInv /\ SlotsKeepTrack /\ [Next]_vars => (IInv /\ SlotsKeepTrack)'
  BY NextIInv, NextTrack
<1>3. IInv /\ SlotsKeepTrack /\ [Next]_vars =>
        [\A g \in Graphs, t, u \in Tags, b, c \in Buffers :
           MutateCall(g, t, b, u, c) =>
             \/ /\ LandedIn(c, Matching(g, u))
                /\ t = u \/ LandedIn(b, Matching(g, t))
             \/ /\ \A s \in Sites :
                     st'[s] = st[s] \/ (st'[s] = "Bound" /\ s \in {place[b].home, place[c].home})
                /\ \A x \in Buffers \ {b, c} : place'[x] = place[x]
                /\ \A x \in {b, c} : place[x].home # None => place'[x] = InCell(place[x].home)]_vars
  BY MutateCallStep
<1>. QED  BY <1>1, <1>2, <1>3, PTL DEF Spec, MutateCallAllOrNothing
=============================================================================
