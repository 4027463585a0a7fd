--------------------------- MODULE CbCache_proofs ---------------------------
(***************************************************************************)
(* Proofs about CbCache, for any regions, slots, values, queues and        *)
(* capacity: of a graph whose move-only tags have one site each and whose  *)
(* regions bake only the slots under them, the command buffer a region     *)
(* would replay is the one of the current bindings, and no region keeps    *)
(* two command buffers for one binding state.                              *)
(***************************************************************************)
EXTENDS CbCache, SequenceTheorems, WellFoundedInduction, TLAPS

-----------------------------------------------------------------------------
(* Sequences.                                                              *)

\* An element removed: those after it move up.
LEMMA RemoveAtProperties ==
  ASSUME NEW S, NEW s \in Seq(S), NEW i \in 1..Len(s)
  PROVE  /\ RemoveAt(s, i) \in Seq(S) /\ Len(RemoveAt(s, i)) = Len(s) - 1
         /\ \A j \in 1..(Len(s) - 1) : RemoveAt(s, i)[j] = s[IF j < i THEN j ELSE j + 1]
<1>. DEFINE a == SubSeq(s, 1, i - 1)
            z == SubSeq(s, i + 1, Len(s))
<1>1. a \in Seq(S) /\ Len(a) = i - 1 /\ \A j \in 1..(i - 1) : a[j] = s[j]
  BY SubSeqProperties
<1>2. z \in Seq(S) /\ Len(z) = Len(s) - i /\ \A j \in 1..(Len(s) - i) : z[j] = s[i + j]
  BY SubSeqProperties
<1>. HIDE DEF a, z
<1>3. /\ a \o z \in Seq(S) /\ Len(a \o z) = Len(a) + Len(z)
      /\ \A j \in 1..(Len(a) + Len(z)) :
           (a \o z)[j] = IF j <= Len(a) THEN a[j] ELSE z[j - Len(a)]
  BY <1>1, <1>2, ConcatProperties
<1>4. Len(s) \in Nat
  OBVIOUS
<1>5. ASSUME NEW j \in 1..(Len(s) - 1)
      PROVE  (a \o z)[j] = s[IF j < i THEN j ELSE j + 1]
  <2>1. CASE j < i
    BY <1>1, <1>2, <1>3, <1>4, <2>1
  <2>2. CASE ~(j < i)
    <3>1. (a \o z)[j] = z[j - (i - 1)] /\ j - (i - 1) \in 1..(Len(s) - i)
      BY <1>1, <1>2, <1>3, <1>4, <2>2
    <3>2. z[j - (i - 1)] = s[i + (j - (i - 1))] /\ i + (j - (i - 1)) = j + 1
      BY <1>2, <1>4, <3>1
    <3>. QED  BY <2>2, <3>1, <3>2
  <2>. QED  BY <2>1, <2>2
<1>6. RemoveAt(s, i) = a \o z
  BY DEF RemoveAt, a, z
<1>7. a \o z \in Seq(S) /\ Len(a \o z) = Len(s) - 1
  BY <1>1, <1>2, <1>3, <1>4
<1>. QED  BY <1>5, <1>6, <1>7

\* The first of the hits of a lookup.
LEMMA FirstHit ==
  ASSUME NEW H, H \subseteq Nat, H # {}
  PROVE  (CHOOSE i \in H : \A j \in H : i <= j) \in H
<1>1. PICK n \in H : \A m \in H : <<m, n>> \notin OpToRel(<, Nat)
  BY WFMin, NatLessThanWellFounded
<1>2. \A m \in H : n <= m
  <2>. TAKE m \in H
  <2>1. <<m, n>> \notin OpToRel(<, Nat) /\ m \in Nat /\ n \in Nat
    BY <1>1
  <2>. QED  BY <2>1 DEF OpToRel
<1>. QED  BY <1>2

\* The first of a set of cells.
LEMMA FirstCell ==
  ASSUME NEW S, S \subseteq Cells, S # {}
  PROVE  First(S) \in S
<1>. DEFINE P == {Pos[c] : c \in S}
<1>1. P \subseteq Nat /\ P # {}
  BY TagAssumption
<1>2. PICK n \in P : \A m \in P : <<m, n>> \notin OpToRel(<, Nat)
  <2>. HIDE DEF P
  <2>. QED  BY <1>1, WFMin, NatLessThanWellFounded
<1>3. PICK c \in S : Pos[c] = n
  OBVIOUS
<1>4. \A d \in S : Pos[c] <= Pos[d]
  <2>. TAKE d \in S
  <2>1. <<Pos[d], n>> \notin OpToRel(<, Nat) /\ Pos[d] \in Nat /\ n \in Nat
    BY <1>1, <1>2
  <2>. QED  BY <2>1, <1>3 DEF OpToRel
<1>. QED  BY <1>4 DEF First
-----------------------------------------------------------------------------
(* The graphs the theorems are about.                                      *)

\* A region bakes only the slots under its own boundary.
OwnSlotsOnly == \A n \in Regions : Through[n] = {}

\* A move-only tag has one site.
OneSiteEach == \A t \in Tags \ FanOut : \A c, d \in Matching(t) : c = d

\* What the node of region n may hold: a CB keyed by all that it baked.
CBsOf(n) ==
  [queue : Queues, slots : {Own[n]}, baked : [Own[n] -> Values], key : [Own[n] -> Values]]

\* None is neither a command buffer nor a key.
NoneIsNothing == \A n \in Regions : None \notin CBsOf(n) \cup [Own[n] -> Values]

Provisos == OwnSlotsOnly /\ OneSiteEach /\ NoneIsNothing

-----------------------------------------------------------------------------
(* The invariant.                                                          *)

\* Every variable has its type, a CB is keyed by what it baked, and during a run
\* every slot is bound and at home.
Shape ==
  /\ cell \in [Cells -> Values \cup {Unbound, Severed}]
  /\ out \subseteq Delivered /\ poisoned \in BOOLEAN
  /\ bound \in [Regions -> [Cells -> Values \cup {None}]]
  /\ current = [n \in Regions |-> current[n]] /\ parked = [n \in Regions |-> parked[n]]
  /\ ~poisoned => \A n \in Regions :
       /\ current[n] \in CBsOf(n) \cup {None} /\ parked[n] \in Seq(CBsOf(n))
       /\ current[n] # None => current[n].baked = current[n].key
       /\ \A i \in 1..Len(parked[n]) : parked[n][i].baked = parked[n][i].key
  /\ at \in 0..(NR + 1) /\ queue \in Queues
  /\ at # 0 => out = {} /\ \A c \in Cells : Holds(c)

Keyed(cb, n, b) == \A c \in Own[n] : b[c] = cb.key[c]

\* The CBs of one node, under the bindings b: the current one is keyed by them, a
\* parked one is not when there is no current one, and no two have one key.
Shelved(n, cb, shelf, b) ==
  /\ Len(shelf) <= Cap
  /\ \A i, j \in 1..Len(shelf) : i # j => shelf[i].key # shelf[j].key
  /\ cb # None => Keyed(cb, n, b) /\ \A i \in 1..Len(shelf) : shelf[i].key # cb.key
  /\ cb = None => \A i \in 1..Len(shelf) : ~Keyed(shelf[i], n, b)

\* What a node believes is what the slots hold, and it believes something of every
\* slot its CBs baked.
Believes(n) ==
  /\ \A c \in Cells : Holds(c) /\ bound[n][c] # None => bound[n][c] = cell[c]
  /\ current[n] # None \/ Len(parked[n]) > 0 =>
       \A c \in Own[n] : bound[n][c] # None /\ cell[c] # Unbound

CInv ==
  /\ Shape
  /\ ~poisoned => \A n \in Regions :
       Believes(n) /\ Shelved(n, current[n], parked[n], bound[n])
-----------------------------------------------------------------------------
(* The shelves.                                                            *)

\* What parking the current CB makes of the shelf.
LEMMA ShelfProperties ==
  ASSUME NoneIsNothing, Shape, ~poisoned, NEW n \in Regions, NEW b,
         Shelved(n, current[n], parked[n], b)
  PROVE  /\ Shelf(n) \in Seq(CBsOf(n)) /\ Len(Shelf(n)) <= Cap
         /\ \A i, j \in 1..Len(Shelf(n)) : i # j => Shelf(n)[i].key # Shelf(n)[j].key
         /\ \A i \in 1..Len(Shelf(n)) : Shelf(n)[i].baked = Shelf(n)[i].key
         /\ Len(Shelf(n)) > 0 => current[n] # None \/ Len(parked[n]) > 0
<1>. DEFINE cb == current[n]
            s == parked[n]
<1>1. s \in Seq(CBsOf(n)) /\ cb \in CBsOf(n) \cup {None} /\ Cap \in Nat \ {0}
  BY RegionAssumption DEF Shape
<1>2. CASE cb = None
  <2>1. Shelf(n) = s
    BY <1>2 DEF Shelf
  <2>. QED  BY <1>1, <2>1 DEF Shelved, Shape
<1>3. CASE cb # None
  <2>. DEFINE r == <<cb>> \o s
  <2>1. cb \in CBsOf(n) /\ cb.key # None /\ <<cb>> \in Seq(CBsOf(n)) /\ Len(<<cb>>) = 1
    BY <1>1, <1>3 DEF NoneIsNothing, CBsOf
  <2>2. /\ r \in Seq(CBsOf(n)) /\ Len(r) = Len(s) + 1
        /\ \A i \in 1..(Len(s) + 1) : r[i] = IF i = 1 THEN cb ELSE s[i - 1]
    <3>1. <<cb>>[1] = cb
      OBVIOUS
    <3>. HIDE DEF cb, s
    <3>2. /\ <<cb>> \o s \in Seq(CBsOf(n)) /\ Len(<<cb>> \o s) = 1 + Len(s)
          /\ \A i \in 1..(1 + Len(s)) :
               (<<cb>> \o s)[i] = IF i <= 1 THEN <<cb>>[i] ELSE s[i - 1]
      BY <1>1, <2>1, ConcatProperties
    <3>. QED  BY <3>1, <3>2
  <2>. HIDE DEF r
  <2>3. Len(s) \in Nat
    BY <1>1
  <2>4. /\ \A i, j \in 1..Len(r) : i # j => r[i].key # r[j].key
        /\ \A i \in 1..Len(r) : r[i].baked = r[i].key
    <3>1. \A i \in 1..Len(r) : i = 1 \/ i - 1 \in 1..Len(s)
      BY <2>2, <2>3
    <3>2. \A i \in 1..Len(r) : r[i] = IF i = 1 THEN cb ELSE s[i - 1]
      BY <2>2, <2>3
    <3>3. /\ \A i, j \in 1..Len(s) : i # j => s[i].key # s[j].key
          /\ \A i \in 1..Len(s) : s[i].key # cb.key /\ s[i].baked = s[i].key
          /\ cb.baked = cb.key
      BY <1>3 DEF Shelved, Shape
    <3>. HIDE DEF cb, s
    <3>4. ASSUME NEW i \in 1..Len(r), NEW j \in 1..Len(r), i # j PROVE r[i].key # r[j].key
      <4>1. i \in Int /\ j \in Int /\ i - 1 # j - 1
        BY <3>4
      <4>2. CASE i = 1
        BY <3>1, <3>2, <3>3, <3>4, <4>2
      <4>3. CASE j = 1
        BY <3>1, <3>2, <3>3, <3>4, <4>3
      <4>4. CASE i # 1 /\ j # 1
        <5>1. i - 1 \in 1..Len(s) /\ j - 1 \in 1..Len(s)
          BY <3>1, <4>4
        <5>2. r[i] = s[i - 1] /\ r[j] = s[j - 1]
          BY <3>2, <4>4
        <5>. HIDE DEF r
        <5>. QED  BY <3>3, <4>1, <5>1, <5>2
      <4>. QED  BY <4>2, <4>3, <4>4
    <3>5. \A i \in 1..Len(r) : r[i].baked = r[i].key
      BY <3>1, <3>2, <3>3
    <3>. QED  BY <3>4, <3>5
  <2>5. Shelf(n) = Truncate(r)
    BY <1>3, <2>1 DEF Shelf, r
  <2>6. /\ Truncate(r) \in Seq(CBsOf(n)) /\ Len(Truncate(r)) <= Cap
        /\ Len(Truncate(r)) <= Len(r)
        /\ \A i \in 1..Len(Truncate(r)) : Truncate(r)[i] = r[i]
    <3>1. CASE Len(r) > Cap
      <4>1. SubSeq(r, 1, Cap) \in Seq(CBsOf(n)) /\ Len(SubSeq(r, 1, Cap)) = Cap
            /\ \A i \in 1..Cap : SubSeq(r, 1, Cap)[i] = r[i]
        BY <1>1, <2>2, <2>3, <3>1, SubSeqProperties
      <4>. QED  BY <1>1, <2>2, <2>3, <3>1, <4>1 DEF Truncate
    <3>2. CASE ~(Len(r) > Cap)
      BY <1>1, <2>2, <2>3, <3>2 DEF Truncate
    <3>. QED  BY <3>1, <3>2
  <2>7. Len(Truncate(r)) \in Nat /\ Len(r) \in Nat
    BY <2>2, <2>6
  <2>8. \A i \in 1..Len(Truncate(r)) : i \in 1..Len(r)
    BY <2>6, <2>7
  <2>. QED  BY <1>3, <2>4, <2>5, <2>6, <2>8
<1>. QED  BY <1>2, <1>3

\* A promotion keeps the shelf, under the new bindings.
LEMMA RotateKeeps ==
  ASSUME NoneIsNothing, Shape, ~poisoned, NEW n \in Regions, NEW V \in SUBSET Cells,
         Shelved(n, current[n], parked[n], bound[n]),
         NEW b, \A c \in Cells \ V : b[c] = bound[n][c], Own[n] \subseteq Cells
  PROVE  LET r == Rotated(n, V, b) IN
         /\ r.current \in CBsOf(n) \cup {None} /\ r.parked \in Seq(CBsOf(n))
         /\ r.current # None => r.current.baked = r.current.key
         /\ \A i \in 1..Len(r.parked) : r.parked[i].baked = r.parked[i].key
         /\ Shelved(n, r.current, r.parked, b)
         /\ r.current # None \/ Len(r.parked) > 0 => current[n] # None \/ Len(parked[n]) > 0
<1>. DEFINE r == Rotated(n, V, b)
            s == Shelf(n)
            hits == {i \in DOMAIN s : MatchesNow(s[i], b)}
            hit == CHOOSE i \in hits : \A j \in hits : i <= j
<1>1. /\ s \in Seq(CBsOf(n)) /\ Len(s) <= Cap
      /\ \A i, j \in 1..Len(s) : i # j => s[i].key # s[j].key
      /\ \A i \in 1..Len(s) : s[i].baked = s[i].key
      /\ Len(s) > 0 => current[n] # None \/ Len(parked[n]) > 0
  BY ShelfProperties
<1>2. \A cb \in CBsOf(n) : MatchesNow(cb, b) <=> Keyed(cb, n, b)
  BY DEF NoneIsNothing, CBsOf, MatchesNow, Keyed
<1>3. CASE ~Touched(n, V)
  <2>1. r.current = current[n] /\ r.parked = parked[n]
    BY <1>3 DEF Rotated
  <2>2. \A cb \in CBsOf(n) : ~Touches(cb, V) => (Keyed(cb, n, b) <=> Keyed(cb, n, bound[n]))
    BY DEF Touches, CBsOf, Keyed, NoneIsNothing
  <2>3. /\ current[n] # None => ~Touches(current[n], V)
        /\ \A i \in 1..Len(parked[n]) : parked[n][i] \in CBsOf(n) /\ ~Touches(parked[n][i], V)
    BY <1>3 DEF Touched, Shape
  <2>. HIDE DEF r
  <2>. QED  BY <2>1, <2>2, <2>3 DEF Shelved, Shape, r
<1>4. CASE Touched(n, V) /\ hits = {}
  <2>1. r.current = None /\ r.parked = s
    BY <1>4 DEF Rotated
  <2>2. \A i \in 1..Len(s) : ~Keyed(s[i], n, b)
    BY <1>1, <1>2, <1>4
  <2>. HIDE DEF r, s
  <2>. QED  BY <1>1, <2>1, <2>2 DEF Shelved, r
<1>5. CASE Touched(n, V) /\ hits # {}
  <2>1. r.current = s[hit] /\ r.parked = RemoveAt(s, hit)
    BY <1>5 DEF Rotated
  <2>2. hit \in 1..Len(s) /\ MatchesNow(s[hit], b)
    <3>1. hits \subseteq Nat /\ DOMAIN s = 1..Len(s)
      BY <1>1
    <3>. HIDE DEF s
    <3>2. hit \in hits
      BY <1>5, <3>1, FirstHit
    <3>. QED  BY <3>1, <3>2
  <2>. HIDE DEF r, s, hit
  <2>3. /\ RemoveAt(s, hit) \in Seq(CBsOf(n)) /\ Len(RemoveAt(s, hit)) = Len(s) - 1
        /\ \A j \in 1..(Len(s) - 1) : RemoveAt(s, hit)[j] = s[IF j < hit THEN j ELSE j + 1]
    BY <1>1, <2>2, RemoveAtProperties
  <2>4. s[hit] \in CBsOf(n) /\ Keyed(s[hit], n, b) /\ Len(s) \in Nat /\ Cap \in Nat
    BY <1>1, <1>2, <2>2, RegionAssumption
  <2>5. \A j \in 1..(Len(s) - 1) :
          /\ (IF j < hit THEN j ELSE j + 1) \in 1..Len(s)
          /\ (IF j < hit THEN j ELSE j + 1) # hit
    BY <2>2, <2>4
  <2>6. Shelved(n, r.current, r.parked, b)
    <3>1. \A i, j \in 1..Len(r.parked) : i # j => r.parked[i].key # r.parked[j].key
      <4>1. \A i, j \in 1..(Len(s) - 1) :
              i # j => (IF i < hit THEN i ELSE i + 1) # (IF j < hit THEN j ELSE j + 1)
        BY <2>2, <2>4
      <4>2. ASSUME NEW i \in 1..(Len(s) - 1), NEW j \in 1..(Len(s) - 1), i # j
            PROVE  RemoveAt(s, hit)[i].key # RemoveAt(s, hit)[j].key
        <5>. DEFINE f(k) == IF k < hit THEN k ELSE k + 1
        <5>1. f(i) \in 1..Len(s) /\ f(j) \in 1..Len(s) /\ f(i) # f(j)
          BY <2>5, <4>1, <4>2
        <5>2. RemoveAt(s, hit)[i] = s[f(i)] /\ RemoveAt(s, hit)[j] = s[f(j)]
          BY <2>3
        <5>. HIDE DEF f
        <5>. QED  BY <1>1, <5>1, <5>2
      <4>. QED  BY <2>1, <2>3, <4>2
    <3>2. \A i \in 1..Len(r.parked) : r.parked[i].key # r.current.key
      <4>1. ASSUME NEW i \in 1..(Len(s) - 1)
            PROVE  RemoveAt(s, hit)[i].key # s[hit].key
        <5>. DEFINE f(k) == IF k < hit THEN k ELSE k + 1
        <5>1. f(i) \in 1..Len(s) /\ f(i) # hit
          BY <2>5
        <5>2. RemoveAt(s, hit)[i] = s[f(i)]
          BY <2>3
        <5>. HIDE DEF f
        <5>. QED  BY <1>1, <2>2, <5>1, <5>2
      <4>. QED  BY <2>1, <2>3, <4>1
    <3>3. Len(r.parked) <= Cap /\ r.current # None
      BY <1>1, <2>1, <2>3, <2>4 DEF NoneIsNothing
    <3>. QED  BY <2>1, <2>4, <3>1, <3>2, <3>3 DEF Shelved
  <2>7. \A i \in 1..Len(r.parked) : r.parked[i].baked = r.parked[i].key
    BY <1>1, <2>1, <2>3, <2>5
  <2>. QED  BY <1>1, <2>1, <2>2, <2>3, <2>4, <2>6, <2>7 DEF r
<1>. QED  BY <1>3, <1>4, <1>5
-----------------------------------------------------------------------------
(* The steps.                                                              *)

\* What a bind verb that refuses nothing writes.
LEMMA Filled ==
  ASSUME Shape, NEW t \in Tags, NEW v \in Values, NEW mode \in {"Set", "Mutate"},
         Refused(mode, t, v) = {}, Fill(mode, t, v)
  PROVE  /\ cell' \in [Cells -> Values \cup {Unbound, Severed}]
         /\ Visited(mode, t) \in SUBSET Cells
         /\ \A c \in Visited(mode, t) : cell'[c] = v /\ (c \in Taken(mode, t) \/ cell[c] = v)
         /\ \A c \in Cells \ Visited(mode, t) : cell'[c] = cell[c]
<1>1. cell \in [Cells -> Values \cup {Unbound, Severed}]
  BY DEF Shape
<1>2. Visited(mode, t) \subseteq Cells
  BY DEF Visited, Matching
<1>3. Taken(mode, t) \subseteq Visited(mode, t)
  <2>1. Taking(mode, t) \subseteq Cells /\ Taking(mode, t) \subseteq Matching(t)
    BY DEF Taking, Matching
  <2>2. Taking(mode, t) # {} => First(Taking(mode, t)) \in Taking(mode, t)
    BY <2>1, FirstCell
  <2>3. \A c \in Cells : Pos[c] \in Nat
    BY TagAssumption
  <2>. QED  BY <2>1, <2>2, <2>3 DEF Taken, Visited
<1>4. cell' = [c \in Cells |-> IF c \in Taken(mode, t) THEN v ELSE cell[c]]
  BY DEF Fill
<1>5. \A c \in Visited(mode, t) : c \in Taken(mode, t) \/ cell[c] = v
  BY DEF Refused
<1>. QED  BY <1>1, <1>2, <1>3, <1>4, <1>5

\* A step that changes no binding but a severed one, and no cache.
LEMMA CachesKept ==
  ASSUME CInv, Shape', UNCHANGED <<poisoned, bound, current, parked>>,
         \A c \in Cells : cell'[c] \in {cell[c], Severed}
  PROVE  CInv'
<1>1. \A c \in Cells : cell'[c] \notin {Unbound, Severed} => cell'[c] = cell[c]
  OBVIOUS
<1>2. \A c \in Cells : cell[c] # Unbound => cell'[c] # Unbound
  BY ValueAssumption
<1>3. \A n \in Regions : Own[n] \subseteq Cells
  BY RegionAssumption
<1>4. ~poisoned' => \A n \in Regions : Believes(n)'
  BY <1>1, <1>2, <1>3 DEF CInv, Believes, Holds
<1>. QED  BY <1>4 DEF CInv, Shelved, Keyed

\* Dropping the current CB, with the shelf of a node that had one.
LEMMA DropKeeps ==
  ASSUME Shape, ~poisoned, NEW n \in Regions, NEW b, Shelved(n, current[n], parked[n], b)
  PROVE  /\ Shelved(n, None, ParkedOnMiss(n), b)
         /\ ParkedOnMiss(n) \in Seq(CBsOf(n))
         /\ \A i \in 1..Len(ParkedOnMiss(n)) : ParkedOnMiss(n)[i].baked = ParkedOnMiss(n)[i].key
         /\ Len(ParkedOnMiss(n)) > 0 => current[n] = None /\ ParkedOnMiss(n) = parked[n]
<1>1. Cap \in Nat
  BY RegionAssumption
<1>2. CASE current[n] = None
  BY <1>2 DEF ParkedOnMiss, Shape
<1>3. CASE current[n] # None
  <2>1. ParkedOnMiss(n) = <<>>
    BY <1>3 DEF ParkedOnMiss
  <2>. QED  BY <1>1, <2>1 DEF Shelved
<1>. QED  BY <1>2, <1>3

LEMMA InitCInv == NoneIsNothing /\ Init => CInv
<1>. SUFFICES ASSUME NoneIsNothing, Init PROVE CInv
  OBVIOUS
<1>1. cell \in [Cells -> Values \cup {Unbound, Severed}]
  BY DEF Init
<1>2. /\ bound \in [Regions -> [Cells -> Values \cup {None}]]
      /\ current = [n \in Regions |-> None] /\ parked = [n \in Regions |-> <<>>]
  BY DEF Init
<1>3. \A n \in Regions : current[n] = None /\ parked[n] = <<>> /\ parked[n] \in Seq(CBsOf(n))
  BY <1>2
<1>4. current = [n \in Regions |-> current[n]] /\ parked = [n \in Regions |-> parked[n]]
  BY <1>2
<1>5. NR \in Nat /\ Cap \in Nat
  BY RegionAssumption
<1>6. out \subseteq Delivered /\ poisoned \in BOOLEAN /\ at = 0 /\ queue \in Queues
  BY DEF Init
<1>7. Shape
  <2>1. at \in 0..(NR + 1)
    BY <1>5, <1>6
  <2>. QED  BY <1>1, <1>2, <1>3, <1>4, <1>6, <2>1 DEF Shape
<1>8. \A n \in Regions : Believes(n)
  BY <1>3 DEF Init, Believes
<1>9. \A n \in Regions : Shelved(n, current[n], parked[n], bound[n])
  BY <1>3, <1>5 DEF Shelved
<1>. QED  BY <1>7, <1>8, <1>9 DEF CInv

\* A bind or a rotation, once the shelves are known to be in order.
LEMMA VerbKeeps ==
  ASSUME CInv, Provisos, NEW t \in Tags, NEW v \in Values, NEW mode \in {"Set", "Mutate"},
         Fill(mode, t, v), Shape',
         ~poisoned' => ~poisoned /\ Refused(mode, t, v) = {},
         bound' = [n \in Regions |-> Overlay(bound[n], Visited(mode, t), v)],
         ~poisoned' => \A n \in Regions :
           /\ Shelved(n, current'[n], parked'[n], bound'[n])
           /\ current'[n] # None \/ Len(parked'[n]) > 0 => current[n] # None \/ Len(parked[n]) > 0
  PROVE  CInv'
<1>1. SUFFICES ASSUME ~poisoned', NEW n \in Regions PROVE Believes(n)'
  BY DEF CInv, Shelved, Keyed
<1>2. ~poisoned /\ Refused(mode, t, v) = {} /\ Believes(n) /\ Shape
  BY <1>1 DEF CInv, Shape
<1>. DEFINE V == Visited(mode, t)
<1>3. /\ V \in SUBSET Cells
      /\ \A c \in V : cell'[c] = v
      /\ \A c \in Cells \ V : cell'[c] = cell[c]
  BY <1>2, Filled
<1>4. \A c \in Cells : bound'[n][c] = IF c \in V THEN v ELSE bound[n][c]
  BY DEF Overlay
<1>5. v # None /\ v # Unbound /\ v # Severed
  BY ValueAssumption
<1>. HIDE DEF V
<1>6. \A c \in Cells : cell'[c] \notin {Unbound, Severed} /\ bound'[n][c] # None => bound'[n][c] = cell'[c]
  BY <1>2, <1>3, <1>4 DEF Believes, Holds
<1>7. current'[n] # None \/ Len(parked'[n]) > 0 =>
        \A c \in Own[n] : bound'[n][c] # None /\ cell'[c] # Unbound
  BY <1>1, <1>2, <1>3, <1>4, <1>5, RegionAssumption DEF Believes
<1>. QED  BY <1>6, <1>7 DEF Believes, Holds

LEMMA BindKeeps ==
  ASSUME CInv, Provisos, NEW t \in Tags, NEW v \in Values, Bind(t, v)
  PROVE  CInv'
<1>. DEFINE V == Visited("Set", t)
<1>1. /\ Fill("Set", t, v) /\ UNCHANGED <<out, current, parked, runVars>> /\ at = 0
      /\ bound' = [n \in Regions |-> Overlay(bound[n], V, v)]
      /\ poisoned' = (poisoned \/ Refused("Set", t, v) # {} \/ Matching(t) = {})
  BY DEF Bind, Idle
<1>2. Shape
  BY DEF CInv
<1>3. bound' \in [Regions -> [Cells -> Values \cup {None}]]
  BY <1>1, <1>2 DEF Shape, Overlay
<1>4. cell' \in [Cells -> Values \cup {Unbound, Severed}]
  BY <1>1, <1>2 DEF Fill, Shape
<1>5. Shape'
  BY <1>1, <1>2, <1>3, <1>4 DEF Shape, runVars
<1>6. ASSUME ~poisoned', NEW n \in Regions
      PROVE  Shelved(n, current'[n], parked'[n], bound'[n])
  <2>1. /\ ~poisoned /\ Refused("Set", t, v) = {}
        /\ Believes(n) /\ Shelved(n, current[n], parked[n], bound[n])
    BY <1>1, <1>2, <1>6 DEF CInv, Shape
  <2>2. CASE current[n] = None /\ Len(parked[n]) = 0
    BY <1>1, <2>1, <2>2 DEF Shelved
  <2>3. CASE current[n] # None \/ Len(parked[n]) > 0
    <3>1. \A c \in Own[n] : c \in Cells /\ bound[n][c] # None /\ cell[c] # Unbound
      BY <2>1, <2>3, RegionAssumption DEF Believes
    <3>2. \A c \in Own[n] \cap V : cell[c] = v
      <4>1. \A c \in Taking("Set", t) : cell[c] = Unbound
        BY DEF Taking
      <4>2. Taken("Set", t) \subseteq Taking("Set", t)
        <5>1. Taking("Set", t) \subseteq Cells
          BY DEF Taking, Matching
        <5>. QED  BY <5>1, FirstCell DEF Taken
      <4>. QED  BY <1>1, <1>2, <2>1, <3>1, <4>1, <4>2, Filled
    <3>3. v \notin {Unbound, Severed}
      BY ValueAssumption
    <3>4. \A c \in Own[n] : bound'[n][c] = bound[n][c]
      BY <1>1, <2>1, <3>1, <3>2, <3>3 DEF Overlay, Believes, Holds
    <3>5. \A cb : Keyed(cb, n, bound'[n]) <=> Keyed(cb, n, bound[n])
      BY <3>4 DEF Keyed
    <3>. QED  BY <1>1, <2>1, <3>5 DEF Shelved
  <2>4. Len(parked[n]) \in Nat
    BY <1>2, <2>1 DEF Shape
  <2>. QED  BY <2>2, <2>3, <2>4
<1>7. poisoned \in BOOLEAN
  BY <1>2 DEF Shape
<1>. HIDE DEF V
<1>8. ~poisoned' => ~poisoned /\ Refused("Set", t, v) = {}
  BY <1>1
<1>. QED  BY <1>1, <1>5, <1>6, <1>8, VerbKeeps DEF V

LEMMA MutateBindKeeps ==
  ASSUME CInv, Provisos, NEW t \in Tags, NEW v \in Values, MutateBind(t, v)
  PROVE  CInv'
<1>. DEFINE V == Visited("Mutate", t)
<1>1. /\ Fill("Mutate", t, v) /\ UNCHANGED <<out, poisoned, runVars>> /\ at = 0
      /\ Refused("Mutate", t, v) = {}
      /\ bound' = [n \in Regions |-> Overlay(bound[n], V, v)]
      /\ current' = [n \in Regions |-> Rotated(n, V, bound'[n]).current]
      /\ parked' = [n \in Regions |-> Rotated(n, V, bound'[n]).parked]
  BY DEF MutateBind, Idle
<1>2. Shape /\ NoneIsNothing
  BY DEF CInv, Provisos
<1>3. bound' \in [Regions -> [Cells -> Values \cup {None}]]
  BY <1>1, <1>2 DEF Shape, Overlay
<1>4. cell' \in [Cells -> Values \cup {Unbound, Severed}]
  BY <1>1, <1>2 DEF Fill, Shape
<1>5. V \in SUBSET Cells
  BY DEF Visited, Matching
<1>6. ASSUME NEW n \in Regions
      PROVE  /\ current'[n] = Rotated(n, V, bound'[n]).current
             /\ parked'[n] = Rotated(n, V, bound'[n]).parked
             /\ \A c \in Cells \ V : bound'[n][c] = bound[n][c]
             /\ Own[n] \subseteq Cells
  BY <1>1, <1>5, RegionAssumption DEF Overlay
<1>. HIDE DEF V
<1>7. ASSUME ~poisoned, NEW n \in Regions
      PROVE  /\ current'[n] \in CBsOf(n) \cup {None} /\ parked'[n] \in Seq(CBsOf(n))
             /\ current'[n] # None => current'[n].baked = current'[n].key
             /\ \A i \in 1..Len(parked'[n]) : parked'[n][i].baked = parked'[n][i].key
             /\ Shelved(n, current'[n], parked'[n], bound'[n])
             /\ current'[n] # None \/ Len(parked'[n]) > 0 => current[n] # None \/ Len(parked[n]) > 0
  <2>1. Shelved(n, current[n], parked[n], bound[n])
    BY <1>7 DEF CInv
  <2>. QED  BY <1>2, <1>5, <1>6, <1>7, <2>1, RotateKeeps
<1>8. Shape'
  <2>1. /\ current' = [n \in Regions |-> current'[n]] /\ parked' = [n \in Regions |-> parked'[n]]
    BY <1>1
  <2>2. ~poisoned' => \A n \in Regions :
       /\ (current[n] \in CBsOf(n) \cup {None} /\ parked[n] \in Seq(CBsOf(n)))'
       /\ (current[n] # None => current[n].baked = current[n].key)'
       /\ (\A i \in 1..Len(parked[n]) : parked[n][i].baked = parked[n][i].key)'
    BY <1>1, <1>7 DEF CBsOf
  <2>. QED  BY <1>1, <1>2, <1>3, <1>4, <2>1, <2>2 DEF Shape, runVars
<1>. QED  BY <1>1, <1>7, <1>8, VerbKeeps DEF V

LEMMA MutateBindRefusedKeeps ==
  ASSUME CInv, Provisos, NEW t \in Tags, NEW v \in Values, MutateBindRefused(t, v)
  PROVE  CInv'
<1>1. Shape /\ OneSiteEach /\ UNCHANGED <<out, poisoned, cacheVars, disabled, runVars>>
  BY DEF CInv, Provisos, MutateBindRefused
<1>2. PICK c \in Visited("Mutate", t) \ Taken("Mutate", t) : TRUE
  BY DEF MutateBindRefused, Refused
<1>3. c \in Matching(t)
  BY <1>2 DEF Visited
<1>4. t \notin FanOut
  <2>1. SUFFICES ASSUME t \in FanOut PROVE FALSE
    OBVIOUS
  <2>2. c \in Cells /\ TagOf[c] = t /\ c \notin Taking("Mutate", t)
    BY <1>2, <1>3, <2>1 DEF Taken, Matching
  <2>3. c \in out
    BY <1>3, <2>2 DEF Taking
  <2>. QED  BY <1>1, <2>1, <2>2, <2>3, BufferAssumption DEF Shape
<1>5. Taken("Mutate", t) = {}
  <2>1. Taking("Mutate", t) \subseteq {c}
    BY <1>1, <1>3, <1>4 DEF OneSiteEach, Taking
  <2>2. Taken("Mutate", t) \subseteq {c}
    BY <1>3, <1>4, <2>1, FirstCell DEF Taken, Matching
  <2>. QED  BY <1>2, <2>2
<1>6. cell' = cell
  BY <1>1, <1>5 DEF MutateBindRefused, Fill, Shape
<1>7. Shape'
  BY <1>1, <1>6 DEF Shape, cacheVars, runVars, Holds, CBsOf
<1>. QED  BY <1>1, <1>6, <1>7, CachesKept DEF cacheVars

\* A step of a run that walks past a region or ends the run, or a checkout that
\* comes home.
LEMMA QuietKeeps ==
  ASSUME CInv,
         \/ \E c \in Cells : DropCheckout(c) \/ IntoInner(c)
         \/ \E n \in Regions : PerOp(n) \/ Replay(n)
         \/ RunFails \/ SyncOk \/ \E q \in Queues : StartSync(q)
  PROVE  CInv'
<1>1. Shape /\ NR \in Nat /\ UNCHANGED <<poisoned, bound, current, parked>>
  BY RegionAssumption
     DEF CInv, DropCheckout, IntoInner, PerOp, Replay, RunFails, SyncOk, StartSync,
         graphVars, cacheVars
<1>. SUFFICES Shape' /\ \A c \in Cells : cell'[c] \in {cell[c], Severed}
  BY <1>1, CachesKept
<1>2. ASSUME NEW c \in Cells, DropCheckout(c) \/ IntoInner(c)
      PROVE  /\ at = 0 /\ at' = at /\ queue' = queue /\ out' \subseteq out
             /\ cell' \in [Cells -> Values \cup {Unbound, Severed}]
             /\ \A d \in Cells : cell'[d] \in {cell[d], Severed}
  BY <1>1, <1>2 DEF DropCheckout, IntoInner, Shape, runVars
<1>3. ASSUME \/ \E n \in Regions : PerOp(n) \/ Replay(n)
             \/ RunFails \/ SyncOk \/ \E q \in Queues : StartSync(q)
      PROVE  /\ cell' = cell /\ at' \in 0..(NR + 1) /\ queue' \in Queues
             /\ out' \subseteq Delivered
             /\ at' # 0 => out' = {} /\ \A c \in Cells : Holds(c)
  <2>1. ASSUME NEW n \in Regions, PerOp(n) \/ Replay(n)
        PROVE  cell' = cell /\ out' = out /\ at = n /\ at' = n + 1 /\ queue' = queue
    BY <2>1 DEF PerOp, Replay, Walking, Next1, graphVars
  <2>2. ASSUME RunFails \/ SyncOk
        PROVE  /\ cell' = cell /\ at' = 0 /\ queue' = queue
               /\ out' = out \/ out' = Delivered
    BY <2>2 DEF RunFails, SyncOk, graphVars
  <2>3. ASSUME NEW q \in Queues, StartSync(q)
        PROVE  cell' = cell /\ at' = 1 /\ queue' \in Queues /\ out' = out
               /\ \A c \in Cells : Ready(c)
    BY <2>3 DEF StartSync, graphVars
  <2>4. CASE \E n \in Regions : PerOp(n) \/ Replay(n)
    <3>1. PICK n \in Regions : PerOp(n) \/ Replay(n)
      BY <2>4
    <3>2. n \in 1..NR
      BY DEF Regions
    <3>. QED  BY <1>1, <2>1, <3>1, <3>2 DEF Shape
  <2>5. CASE RunFails \/ SyncOk
    BY <1>1, <2>2, <2>5 DEF Shape
  <2>6. CASE \E q \in Queues : StartSync(q)
    <3>1. \A c \in Delivered : c \in Cells
      BY BufferAssumption
    <3>. QED  BY <1>1, <2>3, <2>6, <3>1 DEF Shape, Ready
  <2>. QED  BY <1>3, <2>4, <2>5, <2>6
<1>4. CASE \E c \in Cells : DropCheckout(c) \/ IntoInner(c)
  BY <1>1, <1>2, <1>4 DEF Shape, CBsOf
<1>5. CASE ~\E c \in Cells : DropCheckout(c) \/ IntoInner(c)
  <2>1. \A c \in Cells : cell[c] \in Values \cup {Unbound, Severed} /\ cell'[c] = cell[c]
    BY <1>1, <1>3, <1>5 DEF Shape
  <2>. QED  BY <1>1, <1>3, <1>5, <2>1 DEF Shape, CBsOf, Holds
<1>. QED  BY <1>4, <1>5

\* A walk that replaces what the node of one region holds.
LEMMA BuildStepKeeps ==
  ASSUME CInv, Provisos, NEW n \in Regions,
         Build(n) \/ BuildRefused(n) \/ BuildFails(n)
  PROVE  CInv'
<1>1. /\ Shape /\ NR \in Nat /\ OwnSlotsOnly /\ n \in 1..NR /\ n \in Nat
      /\ Own[n] \subseteq Cells /\ at = n /\ UNCHANGED <<cell, out, poisoned>>
  <2>1. at = n /\ UNCHANGED <<cell, out, poisoned>>
    BY DEF Build, BuildRefused, BuildFails, Walking, graphVars
  <2>2. NR \in Nat /\ n \in 1..NR /\ Own[n] \subseteq Cells
    BY RegionAssumption DEF Regions
  <2>. QED  BY <2>1, <2>2 DEF CInv, Provisos
<1>2. at' \in {0, n + 1} /\ queue' = queue /\ at' \in 0..(NR + 1)
  <2>1. at' \in {0, n + 1} /\ queue' = queue
    BY <1>1 DEF Build, BuildRefused, BuildFails, Next1
  <2>. QED  BY <1>1, <2>1
<1>3. out = {} /\ \A c \in Cells : cell[c] \in Values
  BY <1>1 DEF Shape, Holds
<1>4. /\ parked' = [parked EXCEPT ![n] = ParkedOnMiss(n)]
      /\ \E cb : current' = [current EXCEPT ![n] = cb]
      /\ \A m \in Regions \ {n} : bound'[m] = bound[m]
      /\ bound' \in [Regions -> [Cells -> Values \cup {None}]]
  <2>1. bound \in [Regions -> [Cells -> Values \cup {None}]]
    BY <1>1 DEF Shape
  <2>2. CASE Build(n)
    <3>1. Seeded(n) \in [Cells -> Values \cup {None}]
      BY <1>3, <2>1 DEF Seeded
    <3>. QED  BY <2>1, <2>2, <3>1 DEF Build
  <2>3. CASE BuildRefused(n) \/ BuildFails(n)
    BY <2>1, <2>3 DEF BuildRefused, BuildFails, Dropped
  <2>. QED  BY <2>2, <2>3
<1>5. /\ parked'[n] = ParkedOnMiss(n)
      /\ current' = [m \in Regions |-> current'[m]] /\ parked' = [m \in Regions |-> parked'[m]]
      /\ \A m \in Regions \ {n} : current'[m] = current[m] /\ parked'[m] = parked[m]
  BY <1>1, <1>4 DEF Shape
<1>6. ASSUME ~poisoned
      PROVE  /\ current'[n] \in CBsOf(n) \cup {None} /\ parked'[n] \in Seq(CBsOf(n))
             /\ current'[n] # None => current'[n].baked = current'[n].key
             /\ \A i \in 1..Len(parked'[n]) : parked'[n][i].baked = parked'[n][i].key
             /\ Shelved(n, current'[n], parked'[n], bound'[n]) /\ Believes(n)'
  <2>1. Shelved(n, current[n], parked[n], bound[n]) /\ Believes(n)
    BY <1>6 DEF CInv
  <2>2. /\ Shelved(n, None, ParkedOnMiss(n), bound[n])
        /\ ParkedOnMiss(n) \in Seq(CBsOf(n))
        /\ \A i \in 1..Len(ParkedOnMiss(n)) : ParkedOnMiss(n)[i].baked = ParkedOnMiss(n)[i].key
        /\ Len(ParkedOnMiss(n)) > 0 => current[n] = None /\ ParkedOnMiss(n) = parked[n]
    BY <1>1, <1>6, <2>1, DropKeeps
  <2>3. CASE Build(n)
    <3>. DEFINE k == [c \in Own[n] |-> cell[c]]
    <3>1. Captured(n) = Own[n] /\ Bakes(n) = Own[n]
      BY <1>1 DEF OwnSlotsOnly, Captured, Traced, Bakes
    <3>2. /\ bound'[n] = [c \in Cells |-> IF c \in Own[n] THEN cell[c] ELSE bound[n][c]]
          /\ current'[n] = Recording(n)
      BY <1>1, <2>3 DEF Build, Seeded, Shape
    <3>3. KeyFor(Own[n], Seeded(n)) = k
      <4>1. \A c \in Own[n] : Seeded(n)[c] = cell[c] /\ Seeded(n)[c] # None
        BY <1>1, <1>3, ValueAssumption DEF Seeded
      <4>. QED  BY <4>1 DEF KeyFor
    <3>4. current'[n] = [queue |-> queue, slots |-> Own[n], baked |-> k, key |-> k]
      BY <3>1, <3>2, <3>3 DEF Recording
    <3>5. k \in [Own[n] -> Values] /\ \A c \in Own[n] : k[c] = cell[c]
      BY <1>1, <1>3
    <3>. HIDE DEF k
    <3>6. /\ current'[n] \in CBsOf(n) /\ current'[n] # None
          /\ current'[n].key = k /\ current'[n].baked = k
      BY <1>1, <3>4, <3>5 DEF CBsOf, Shape, Provisos, NoneIsNothing
    <3>7. ASSUME NEW i \in 1..Len(ParkedOnMiss(n)) PROVE ParkedOnMiss(n)[i].key # k
      <4>1. Len(ParkedOnMiss(n)) \in Nat /\ Len(ParkedOnMiss(n)) > 0
        BY <2>2
      <4>2. \A c \in Own[n] : bound[n][c] # None /\ Holds(c)
        BY <1>1, <1>3, <2>1, <2>2, <4>1, ValueAssumption DEF Believes, Holds
      <4>3. \A c \in Own[n] : bound[n][c] = k[c]
        BY <1>1, <2>1, <3>5, <4>2 DEF Believes
      <4>. QED  BY <2>2, <4>3 DEF Shelved, Keyed
    <3>8. Shelved(n, current'[n], parked'[n], bound'[n])
      <4>1. Keyed(current'[n], n, bound'[n])
        BY <1>1, <3>2, <3>5, <3>6 DEF Keyed
      <4>. QED  BY <1>5, <2>2, <3>6, <3>7, <4>1 DEF Shelved
    <3>9. Believes(n)'
      <4>1. cell' = cell
        BY <1>1
      <4>2. \A c \in Cells : bound'[n][c] = IF c \in Own[n] THEN cell[c] ELSE bound[n][c]
        BY <3>2
      <4>3. \A c \in Cells : cell[c] \notin {None, Unbound, Severed}
        BY <1>3, ValueAssumption
      <4>. QED  BY <1>1, <2>1, <4>1, <4>2, <4>3 DEF Believes, Holds
    <3>. QED  BY <1>5, <2>2, <3>6, <3>8, <3>9
  <2>4. CASE BuildRefused(n) \/ BuildFails(n)
    <3>1. current'[n] = None /\ bound' = bound /\ cell' = cell
      BY <1>1, <2>4 DEF BuildRefused, BuildFails, Dropped, Shape
    <3>2. Believes(n)'
      BY <1>5, <2>1, <2>2, <3>1 DEF Believes, Holds
    <3>. QED  BY <1>5, <2>2, <3>1, <3>2
  <2>. QED  BY <2>3, <2>4
<1>7. Shape'
  <2>1. ~poisoned' => \A m \in Regions :
       /\ (current[m] \in CBsOf(m) \cup {None} /\ parked[m] \in Seq(CBsOf(m)))'
       /\ (current[m] # None => current[m].baked = current[m].key)'
       /\ (\A i \in 1..Len(parked[m]) : parked[m][i].baked = parked[m][i].key)'
    <3>1. SUFFICES ASSUME ~poisoned, NEW m \in Regions
          PROVE /\ current'[m] \in CBsOf(m) \cup {None} /\ parked'[m] \in Seq(CBsOf(m))
                /\ current'[m] # None => current'[m].baked = current'[m].key
                /\ \A i \in 1..Len(parked'[m]) : parked'[m][i].baked = parked'[m][i].key
      BY <1>1 DEF CBsOf
    <3>2. CASE m # n
      BY <1>1, <1>5, <3>1, <3>2 DEF Shape
    <3>3. CASE m = n
      BY <1>6, <3>1, <3>3
    <3>. QED  BY <3>2, <3>3
  <2>2. at' # 0 => out' = {} /\ (\A c \in Cells : Holds(c))'
    <3>1. \A c \in Cells : cell'[c] \notin {Unbound, Severed}
      BY <1>1, <1>3, ValueAssumption
    <3>2. out' = {}
      BY <1>1, <1>3
    <3>. QED  BY <3>1, <3>2 DEF Holds
  <2>. QED  BY <1>1, <1>2, <1>4, <1>5, <2>1, <2>2 DEF Shape
<1>8. ASSUME ~poisoned', NEW m \in Regions
      PROVE  (Believes(m) /\ Shelved(m, current[m], parked[m], bound[m]))'
  <2>1. ~poisoned /\ Believes(m) /\ Shelved(m, current[m], parked[m], bound[m])
    BY <1>1, <1>8 DEF CInv
  <2>2. CASE m # n
    BY <1>1, <1>4, <1>5, <2>1, <2>2 DEF Believes, Shelved, Keyed, Holds
  <2>3. CASE m = n
    BY <1>6, <2>1, <2>3 DEF Shelved, Keyed
  <2>. QED  BY <2>2, <2>3
<1>. QED  BY <1>7, <1>8 DEF CInv

\* The invariant holds in every state a graph under the provisos reaches.
LEMMA CInvHolds == Provisos => (Spec => []CInv)
<1>. SUFFICES ASSUME Provisos PROVE Spec => []CInv
  OBVIOUS
<1>1. Init => CInv
  BY InitCInv DEF Provisos
<1>2. ASSUME CInv, [Next]_vars PROVE CInv'
  <2>1. CASE UNCHANGED vars
    <3>1. UNCHANGED <<cell, out, poisoned, bound, current, parked, at, queue>>
      BY <2>1 DEF vars, graphVars, cacheVars, runVars
    <3>2. Shape'
      BY <1>2, <3>1 DEF CInv, Shape, Holds, CBsOf
    <3>. QED  BY <1>2, <3>1, <3>2, CachesKept
  <2>2. CASE \E t \in Tags, v \in Values : Bind(t, v) \/ MutateBind(t, v) \/ MutateBindRefused(t, v)
    BY <1>2, <2>2, BindKeeps, MutateBindKeeps, MutateBindRefusedKeeps
  <2>3. CASE \E n \in Regions : Build(n) \/ BuildRefused(n) \/ BuildFails(n)
    BY <1>2, <2>3, BuildStepKeeps
  <2>4. CASE \/ \E c \in Cells : DropCheckout(c) \/ IntoInner(c)
             \/ \E n \in Regions : PerOp(n) \/ Replay(n)
             \/ RunFails \/ SyncOk \/ \E q \in Queues : StartSync(q)
    BY <1>2, <2>4, QuietKeeps
  <2>. QED  BY <1>2, <2>1, <2>2, <2>3, <2>4 DEF Next, Verb, RunStep
<1>. QED  BY <1>1, <1>2, PTL DEF Spec

-----------------------------------------------------------------------------
(* The theorems.                                                           *)

\* The CB a boundary would replay has baked what its slots are bound to now: no
\* order of binds, rebinds, runs, failed runs, refusals, queues and checkouts leaves
\* a stale CB in front.  (CbLru::current, cb_lookup_cached in eager/cb.rs)
THEOREM NoStaleReplay == Provisos => (Spec => []CurrentIsFaithful)
<1>. SUFFICES ASSUME Provisos PROVE Spec => []CurrentIsFaithful
  OBVIOUS
<1>1. CInv => CurrentIsFaithful
  <2>1. SUFFICES ASSUME CInv, ~poisoned, NEW n \in Regions, current[n] # None,
                        \A c \in Bakes(n) : Holds(c), NEW c \in Bakes(n)
                 PROVE  current[n].baked[c] = cell[c]
    BY DEF CurrentIsFaithful
  <2>2. c \in Own[n] /\ c \in Cells
    BY <2>1, RegionAssumption DEF Provisos, OwnSlotsOnly, Bakes
  <2>3. current[n].baked = current[n].key /\ Believes(n) /\ Keyed(current[n], n, bound[n])
    BY <2>1 DEF CInv, Shape, Shelved
  <2>. QED  BY <2>1, <2>2, <2>3 DEF Believes, Keyed
<1>. QED  BY <1>1, CInvHolds, PTL

\* A node holds at most one CB for one binding state, and no more parked ones than
\* CB_LRU_CAP: what a rebind parks is found again instead of recorded again.
THEOREM OneRecordingPerState == Provisos => (Spec => []NoTwins)
<1>1. CInv => NoTwins
  <2>1. SUFFICES ASSUME CInv, ~poisoned, NEW n \in Regions
                 PROVE  /\ Len(parked[n]) <= Cap
                        /\ \A i \in DOMAIN parked[n] :
                             /\ current[n] # None => parked[n][i].key # current[n].key
                             /\ \A j \in DOMAIN parked[n] :
                                  i # j => parked[n][i].key # parked[n][j].key
    BY DEF NoTwins
  <2>2. Shelved(n, current[n], parked[n], bound[n]) /\ DOMAIN parked[n] = 1..Len(parked[n])
    BY <2>1 DEF CInv, Shape
  <2>. QED  BY <2>2 DEF Shelved
<1>. QED  BY <1>1, CInvHolds, PTL
=============================================================================
