-------------------------- MODULE Geometry_proofs --------------------------
(***************************************************************************)
(* Theorems about views, tiles and launches, for any ranks, extents,       *)
(* strides, grids, halos and lengths of buffers.                           *)
(*                                                                         *)
(* Loops over axes are recursive functions.  What is proved of them by     *)
(* induction is proved of the least number it would be false for.          *)
(***************************************************************************)
EXTENDS Geometry, WellFoundedInduction, FiniteSetTheorems, SequenceTheorems, TLAPS

-----------------------------------------------------------------------------
(* Induction and recursion                                                 *)

\* A nonempty set of numbers has a least one.
LEMMA LeastOf ==
  ASSUME NEW T \in SUBSET Nat, T # {}
  PROVE  \E n \in T : \A m \in T : n <= m
<1>1. PICK n \in T : \A m \in T : <<m, n>> \notin OpToRel(<, Nat)
  BY NatLessThanWellFounded, WFMin
<1>2. \A m \in T : ~ (m < n)
  BY <1>1 DEF OpToRel
<1> QED  BY <1>2

\* Induction, for the set of numbers something is true of.
LEMMA Induction ==
  ASSUME NEW n \in Nat, NEW T, 0 \in T, \A k \in 1..n : k - 1 \in T => k \in T
  PROVE  0..n \subseteq T
<1> DEFINE Bad == {k \in 0..n : k \notin T}
<1>1. SUFFICES ASSUME Bad # {} PROVE FALSE
  OBVIOUS
<1>2. Bad \in SUBSET Nat
  OBVIOUS
<1>3. PICK k \in Bad : \A m \in Bad : k <= m
  <2> HIDE DEF Bad
  <2> QED  BY <1>1, <1>2, LeastOf
<1>4. k \in 1..n /\ k - 1 \in 0..n /\ k - 1 \notin Bad
  BY <1>3
<1> QED  BY <1>3, <1>4

\* The values of a loop of n steps, each a function of the step's number and
\* of the value before.
Loop(f, n, S, start, step) ==
  /\ f \in [0..n -> S] /\ f[0] = start
  /\ \A k \in 1..n : f[k] = step[k][f[k - 1]]

\* There is a loop of any number of steps.
LEMMA LoopExists ==
  ASSUME NEW n \in Nat, NEW S, NEW start \in S, NEW step \in [1..n -> [S -> S]]
  PROVE  \E f : Loop(f, n, S, start, step)
<1> DEFINE T == {m \in 0..n : \E f : Loop(f, m, S, start, step)}
<1>1. 0 \in T
  <2> DEFINE f == [k \in 0..0 |-> start]
  <2>1. Loop(f, 0, S, start, step)
    BY DEF Loop
  <2> QED  BY <2>1
<1>2. ASSUME NEW m \in 1..n, m - 1 \in T PROVE m \in T
  <2>1. PICK f : Loop(f, m - 1, S, start, step)
    BY <1>2
  <2> DEFINE h == [k \in 0..m |-> IF k = m THEN step[m][f[m - 1]] ELSE f[k]]
  <2>2. f[m - 1] \in S /\ step[m][f[m - 1]] \in S
    BY <2>1 DEF Loop
  <2>3. h \in [0..m -> S] /\ h[0] = start
    BY <2>1, <2>2 DEF Loop
  <2>4. ASSUME NEW k \in 1..m PROVE h[k] = step[k][h[k - 1]]
    <3>1. CASE k = m
      <4>1. h[m] = step[m][f[m - 1]] /\ h[m - 1] = f[m - 1]
        OBVIOUS
      <4> QED  BY <4>1, <3>1
    <3>2. CASE k < m
      <4>1. k \in 1..(m - 1) /\ f[k] = step[k][f[k - 1]]
        BY <2>1, <3>2 DEF Loop
      <4>2. h[k] = f[k] /\ h[k - 1] = f[k - 1]
        BY <3>2
      <4> QED  BY <4>1, <4>2
    <3> QED  BY <3>1, <3>2
  <2>5. Loop(h, m, S, start, step)
    BY <2>3, <2>4 DEF Loop
  <2> QED  BY <2>5
<1>3. 0..n \subseteq T
  <2> HIDE DEF T
  <2> QED  BY <1>1, <1>2, Induction
<1>4. n \in T
  BY <1>3
<1> QED  BY <1>4

\* What computes the same from the same start is that loop.
LEMMA LoopUnique ==
  ASSUME NEW n \in Nat, NEW S, NEW start, NEW step, NEW f, Loop(f, n, S, start, step), NEW h,
         h[0] = start, \A k \in 1..n : h[k - 1] \in S => h[k] = step[k][h[k - 1]]
  PROVE  \A k \in 0..n : h[k] = f[k]
<1> DEFINE T == {k \in 0..n : h[k] = f[k]}
<1>1. 0 \in T
  BY DEF Loop
<1>2. ASSUME NEW k \in 1..n, k - 1 \in T PROVE k \in T
  <2>1. k - 1 \in 0..n /\ f[k - 1] \in S /\ f[k] = step[k][f[k - 1]]
    BY DEF Loop
  <2>2. h[k - 1] = f[k - 1]
    BY <1>2
  <2>3. h[k] = step[k][h[k - 1]]
    BY <2>1, <2>2
  <2> QED  BY <2>1, <2>2, <2>3
<1>3. 0..n \subseteq T
  <2> HIDE DEF T
  <2> QED  BY <1>1, <1>2, Induction
<1> QED  BY <1>3

\* Larger factors have a larger product.
LEMMA ProductsMonotone ==
  ASSUME NEW a \in Nat, NEW b \in Nat, NEW c \in Nat, NEW d \in Nat, a <= c, b <= d
  PROVE  a * b <= c * d
<1>1. a * (d - b) >= 0 /\ (c - a) * d >= 0
  OBVIOUS
<1>2. a * (d - b) = a * d - a * b /\ (c - a) * d = c * d - a * d
  OBVIOUS
<1>3. a * b \in Int /\ a * d \in Int /\ c * d \in Int
  OBVIOUS
<1> QED  BY <1>1, <1>2, <1>3

-----------------------------------------------------------------------------
(* Sums and products along the axes                                        *)

Adds(f, n, a) ==
  /\ f \in [0..n -> Int] /\ f[0] = 0
  /\ \A k \in 1..n : f[k] = f[k - 1] + a[k]

\* Sum is what a loop that adds ends with.
LEMMA SumAdds ==
  ASSUME NEW n \in Nat, NEW a \in [1..n -> Int]
  PROVE  \E f : Adds(f, n, a) /\ Sum(a) = f[n]
<1> DEFINE numbers == Int
           zero == 0
           step == [k \in 1..n |-> [x \in Int |-> x + a[k]]]
           Def(h) == h = [k \in 0..n |-> IF k = 0 THEN 0 ELSE h[k - 1] + a[k]]
           h == CHOOSE h : Def(h)
<1>1. /\ step \in [1..n -> [numbers -> numbers]] /\ zero \in numbers
      /\ \A k \in 1..n, x \in numbers : step[k][x] = x + a[k]
  OBVIOUS
<1>2. PICK f : Loop(f, n, numbers, zero, step)
  <2> HIDE DEF numbers, zero, step
  <2> QED  BY <1>1, LoopExists
<1>3. Adds(f, n, a)
  <2>1. f \in [0..n -> Int] /\ f[0] = 0
    BY <1>2 DEF Loop
  <2>2. ASSUME NEW k \in 1..n PROVE f[k] = f[k - 1] + a[k]
    <3>1. f[k - 1] \in numbers /\ f[k] = step[k][f[k - 1]]
      <4>1. k - 1 \in 0..n
        OBVIOUS
      <4> HIDE DEF step, numbers, zero
      <4> QED  BY <4>1, <1>2 DEF Loop
    <3> HIDE DEF step, numbers
    <3> QED  BY <3>1, <1>1
  <2> QED  BY <2>1, <2>2 DEF Adds
<1>4. Def(f)
  <2>1. \A k \in 0..n : f[k] = IF k = 0 THEN 0 ELSE f[k - 1] + a[k]
    BY <1>3 DEF Adds
  <2> QED  BY <2>1, <1>3 DEF Adds
<1>5. Def(h)
  BY <1>4
<1>6. Sum(a) = h[n]
  <2>1. Len(a) = n
    OBVIOUS
  <2> QED  BY <2>1 DEF Sum
<1> HIDE DEF h
<1>7. \A k \in 0..n : h[k] = IF k = 0 THEN 0 ELSE h[k - 1] + a[k]
  BY <1>5
<1>8. h[0] = zero /\ \A k \in 1..n : h[k - 1] \in numbers => h[k] = step[k][h[k - 1]]
  <2>1. ASSUME NEW k \in 1..n, h[k - 1] \in numbers PROVE h[k] = step[k][h[k - 1]]
    <3>1. h[k] = h[k - 1] + a[k]
      BY <1>7
    <3> HIDE DEF step, numbers
    <3> QED  BY <3>1, <2>1, <1>1
  <2>2. h[0] = zero
    BY <1>7
  <2> QED  BY <2>1, <2>2
<1>9. \A k \in 0..n : h[k] = f[k]
  <2> HIDE DEF step, numbers, zero, Def
  <2> QED  BY <1>2, <1>8, LoopUnique
<1>10. Sum(a) = f[n]
  BY <1>6, <1>9
<1> QED  BY <1>3, <1>10

\* Larger terms have a larger sum.
LEMMA SumMonotone ==
  ASSUME NEW n \in Nat, NEW a \in [1..n -> Int], NEW b \in [1..n -> Int],
         \A k \in 1..n : a[k] <= b[k]
  PROVE  Sum(a) <= Sum(b)
<1>1. PICK f : Adds(f, n, a) /\ Sum(a) = f[n]
  BY SumAdds
<1>2. PICK h : Adds(h, n, b) /\ Sum(b) = h[n]
  BY SumAdds
<1> DEFINE T == {k \in 0..n : f[k] <= h[k]}
<1>3. 0 \in T
  BY <1>1, <1>2 DEF Adds
<1>4. ASSUME NEW k \in 1..n, k - 1 \in T PROVE k \in T
  <2>1. /\ f[k] = f[k - 1] + a[k] /\ h[k] = h[k - 1] + b[k]
        /\ f[k - 1] \in Int /\ h[k - 1] \in Int /\ a[k] \in Int /\ b[k] \in Int
    BY <1>1, <1>2 DEF Adds
  <2> QED  BY <2>1, <1>4
<1>5. 0..n \subseteq T
  <2> HIDE DEF T
  <2> QED  BY <1>3, <1>4, Induction
<1> QED  BY <1>1, <1>2, <1>5

\* A sum of integers is one.
LEMMA SumInt ==
  ASSUME NEW n \in Nat, NEW a \in [1..n -> Int]
  PROVE  Sum(a) \in Int
BY SumAdds DEF Adds

\* A sum of naturals is one.
LEMMA SumNat ==
  ASSUME NEW n \in Nat, NEW a \in [1..n -> Nat]
  PROVE  Sum(a) \in Nat
<1>1. PICK f : Adds(f, n, a) /\ Sum(a) = f[n]
  BY SumAdds
<1> DEFINE T == {k \in 0..n : f[k] \in Nat}
<1>2. 0 \in T
  BY <1>1 DEF Adds
<1>3. ASSUME NEW k \in 1..n, k - 1 \in T PROVE k \in T
  BY <1>1, <1>3 DEF Adds
<1>4. 0..n \subseteq T
  <2> HIDE DEF T
  <2> QED  BY <1>2, <1>3, Induction
<1> QED  BY <1>1, <1>4

\* A step of such a loop.
LEMMA AddsStep ==
  ASSUME NEW n \in Nat, NEW a \in [1..n -> Int], NEW f, Adds(f, n, a), NEW k \in 1..n
  PROVE  f[k] = f[k - 1] + a[k] /\ f[k] \in Int /\ f[k - 1] \in Int /\ a[k] \in Int
<1>1. k \in 0..n /\ k - 1 \in 0..n
  OBVIOUS
<1>2. f \in [0..n -> Int] /\ f[k] = f[k - 1] + a[k]
  BY DEF Adds
<1> QED  BY <1>1, <1>2

\* The sum of two sequences, term by term.
TermByTerm(n, a, b, c) ==
  /\ n \in Nat /\ a \in [1..n -> Int] /\ b \in [1..n -> Int] /\ c \in [1..n -> Int]
  /\ \A k \in 1..n : c[k] = a[k] + b[k]

LEMMA SumPlus ==
  ASSUME NEW n, NEW a, NEW b, NEW c, TermByTerm(n, a, b, c)
  PROVE  Sum(c) = Sum(a) + Sum(b)
<1>0. /\ n \in Nat /\ a \in [1..n -> Int] /\ b \in [1..n -> Int] /\ c \in [1..n -> Int]
      /\ \A k \in 1..n : c[k] = a[k] + b[k]
  BY DEF TermByTerm
<1>1. PICK f : Adds(f, n, a) /\ Sum(a) = f[n]
  BY <1>0, SumAdds
<1>2. PICK h : Adds(h, n, b) /\ Sum(b) = h[n]
  BY <1>0, SumAdds
<1>3. PICK g : Adds(g, n, c) /\ Sum(c) = g[n]
  BY <1>0, SumAdds
<1> DEFINE T == {k \in 0..n : g[k] = f[k] + h[k]}
<1>4. 0 \in T
  <2>1. f[0] = 0
    BY <1>1 DEF Adds
  <2>2. h[0] = 0
    BY <1>2 DEF Adds
  <2>3. g[0] = 0
    BY <1>3 DEF Adds
  <2> QED  BY <1>0, <2>1, <2>2, <2>3
<1>5. ASSUME NEW k \in 1..n, k - 1 \in T PROVE k \in T
  <2>1. f[k] = f[k - 1] + a[k] /\ f[k - 1] \in Int /\ a[k] \in Int
    BY <1>0, <1>1, AddsStep
  <2>2. h[k] = h[k - 1] + b[k] /\ h[k - 1] \in Int /\ b[k] \in Int
    BY <1>0, <1>2, AddsStep
  <2>3. g[k] = g[k - 1] + c[k] /\ c[k] = a[k] + b[k]
    BY <1>0, <1>3, AddsStep
  <2> QED  BY <2>1, <2>2, <2>3, <1>5
<1>6. 0..n \subseteq T
  <2> HIDE DEF T
  <2> QED  BY <1>0, <1>4, <1>5, Induction
<1>7. n \in T
  <2> HIDE DEF T
  <2> QED  BY <1>0, <1>6
<1> QED  BY <1>1, <1>2, <1>3, <1>7

\* The sum of a sequence that is 0 but at one place.
LEMMA SumOne ==
  ASSUME NEW n \in Nat, NEW d \in 1..n, NEW v \in Int
  PROVE  Sum([k \in 1..n |-> IF k = d THEN v ELSE 0]) = v
<1> DEFINE a == [k \in 1..n |-> IF k = d THEN v ELSE 0]
<1>0. a \in [1..n -> Int]
  OBVIOUS
<1>1. PICK f : Adds(f, n, a) /\ Sum(a) = f[n]
  <2> HIDE DEF a
  <2> QED  BY <1>0, SumAdds
<1> DEFINE T == {k \in 0..n : f[k] = IF k < d THEN 0 ELSE v}
<1>2. 0 \in T
  BY <1>1 DEF Adds
<1>3. ASSUME NEW k \in 1..n, k - 1 \in T PROVE k \in T
  <2>1. f[k] = f[k - 1] + a[k] /\ f[k - 1] \in Int
    BY <1>1 DEF Adds
  <2>2. f[k - 1] = IF k - 1 < d THEN 0 ELSE v
    BY <1>3
  <2>3. a[k] = IF k = d THEN v ELSE 0
    OBVIOUS
  <2> QED  BY <2>1, <2>2, <2>3
<1>4. 0..n \subseteq T
  <2> HIDE DEF T
  <2> QED  BY <1>2, <1>3, Induction
<1>5. n \in T
  BY <1>4
<1> QED  BY <1>1, <1>5

Multiplies(f, n, a) ==
  /\ f \in [0..n -> Nat] /\ f[0] = 1
  /\ \A k \in 1..n : f[k] = f[k - 1] * a[k]

\* Total is what a loop that multiplies ends with.
LEMMA TotalMultiplies ==
  ASSUME NEW n \in Nat, NEW a \in [1..n -> Nat]
  PROVE  \E f : Multiplies(f, n, a) /\ Total(a) = f[n]
<1> DEFINE numbers == Nat
           one == 1
           step == [k \in 1..n |-> [x \in Nat |-> x * a[k]]]
           Def(h) == h = [k \in 0..n |-> IF k = 0 THEN 1 ELSE h[k - 1] * a[k]]
           h == CHOOSE h : Def(h)
<1>1. /\ step \in [1..n -> [numbers -> numbers]] /\ one \in numbers
      /\ \A k \in 1..n, x \in numbers : step[k][x] = x * a[k]
  OBVIOUS
<1>2. PICK f : Loop(f, n, numbers, one, step)
  <2> HIDE DEF numbers, one, step
  <2> QED  BY <1>1, LoopExists
<1>3. Multiplies(f, n, a)
  <2>1. f \in [0..n -> Nat] /\ f[0] = 1
    BY <1>2 DEF Loop
  <2>2. ASSUME NEW k \in 1..n PROVE f[k] = f[k - 1] * a[k]
    <3>1. f[k - 1] \in numbers /\ f[k] = step[k][f[k - 1]]
      <4>1. k - 1 \in 0..n
        OBVIOUS
      <4> HIDE DEF step, numbers, one
      <4> QED  BY <4>1, <1>2 DEF Loop
    <3> HIDE DEF step, numbers
    <3> QED  BY <3>1, <1>1
  <2> QED  BY <2>1, <2>2 DEF Multiplies
<1>4. Def(f)
  <2>1. \A k \in 0..n : f[k] = IF k = 0 THEN 1 ELSE f[k - 1] * a[k]
    BY <1>3 DEF Multiplies
  <2> QED  BY <2>1, <1>3 DEF Multiplies
<1>5. Def(h)
  BY <1>4
<1>6. Total(a) = h[n]
  <2>1. Len(a) = n
    OBVIOUS
  <2> QED  BY <2>1 DEF Total
<1> HIDE DEF h
<1>7. \A k \in 0..n : h[k] = IF k = 0 THEN 1 ELSE h[k - 1] * a[k]
  BY <1>5
<1>8. h[0] = one /\ \A k \in 1..n : h[k - 1] \in numbers => h[k] = step[k][h[k - 1]]
  <2>1. ASSUME NEW k \in 1..n, h[k - 1] \in numbers PROVE h[k] = step[k][h[k - 1]]
    <3>1. h[k] = h[k - 1] * a[k]
      BY <1>7
    <3> HIDE DEF step, numbers
    <3> QED  BY <3>1, <2>1, <1>1
  <2>2. h[0] = one
    BY <1>7
  <2> QED  BY <2>1, <2>2
<1>9. \A k \in 0..n : h[k] = f[k]
  <2> HIDE DEF step, numbers, one, Def
  <2> QED  BY <1>2, <1>8, LoopUnique
<1>10. Total(a) = f[n]
  BY <1>6, <1>9
<1> QED  BY <1>3, <1>10

\* The same of the product that wraps.
Wraps(f, n, a) ==
  /\ f \in [0..n -> Nat] /\ f[0] = 1
  /\ \A k \in 1..n : f[k] = w(f[k - 1] * a[k])

\* A number a usize can be is left alone.
LEMMA Wrapping ==
  ASSUME NEW x \in Nat, Wrap > 0
  PROVE  w(x) \in Nat /\ (x < Wrap => w(x) = x)
BY GridsAssumption DEF w

\* Product is what a loop that multiplies and wraps ends with.
LEMMA ProductWraps ==
  ASSUME NEW n \in Nat, NEW a \in [1..n -> Nat], Wrap > 0
  PROVE  \E f : Wraps(f, n, a) /\ Product(a) = f[n]
<1> DEFINE numbers == Nat
           one == 1
           step == [k \in 1..n |-> [x \in Nat |-> w(x * a[k])]]
           Def(h) == h = [k \in 0..n |-> IF k = 0 THEN 1 ELSE w(h[k - 1] * a[k])]
           h == CHOOSE h : Def(h)
<1>1. /\ step \in [1..n -> [numbers -> numbers]] /\ one \in numbers
      /\ \A k \in 1..n, x \in numbers : step[k][x] = w(x * a[k])
  <2>1. ASSUME NEW k \in 1..n, NEW x \in Nat PROVE w(x * a[k]) \in Nat
    <3>1. x * a[k] \in Nat
      OBVIOUS
    <3> QED  BY <3>1, Wrapping
  <2> QED  BY <2>1
<1>2. PICK f : Loop(f, n, numbers, one, step)
  <2> HIDE DEF numbers, one, step
  <2> QED  BY <1>1, LoopExists
<1>3. Wraps(f, n, a)
  <2>1. f \in [0..n -> Nat] /\ f[0] = 1
    BY <1>2 DEF Loop
  <2>2. ASSUME NEW k \in 1..n PROVE f[k] = w(f[k - 1] * a[k])
    <3>1. f[k - 1] \in numbers /\ f[k] = step[k][f[k - 1]]
      <4>1. k - 1 \in 0..n
        OBVIOUS
      <4> HIDE DEF step, numbers, one
      <4> QED  BY <4>1, <1>2 DEF Loop
    <3> HIDE DEF step, numbers
    <3> QED  BY <3>1, <1>1
  <2> QED  BY <2>1, <2>2 DEF Wraps
<1>4. Def(f)
  <2>1. \A k \in 0..n : f[k] = IF k = 0 THEN 1 ELSE w(f[k - 1] * a[k])
    BY <1>3 DEF Wraps
  <2> QED  BY <2>1, <1>3 DEF Wraps
<1>5. Def(h)
  BY <1>4
<1>6. Product(a) = h[n]
  <2>1. Len(a) = n
    OBVIOUS
  <2> QED  BY <2>1 DEF Product
<1> HIDE DEF h
<1>7. \A k \in 0..n : h[k] = IF k = 0 THEN 1 ELSE w(h[k - 1] * a[k])
  BY <1>5
<1>8. h[0] = one /\ \A k \in 1..n : h[k - 1] \in numbers => h[k] = step[k][h[k - 1]]
  <2>1. ASSUME NEW k \in 1..n, h[k - 1] \in numbers PROVE h[k] = step[k][h[k - 1]]
    <3>1. h[k] = w(h[k - 1] * a[k])
      BY <1>7
    <3> HIDE DEF step, numbers
    <3> QED  BY <3>1, <2>1, <1>1
  <2>2. h[0] = one
    BY <1>7
  <2> QED  BY <2>1, <2>2
<1>9. \A k \in 0..n : h[k] = f[k]
  <2> HIDE DEF step, numbers, one, Def
  <2> QED  BY <1>2, <1>8, LoopUnique
<1>10. Product(a) = f[n]
  BY <1>6, <1>9
<1> QED  BY <1>3, <1>10

\* A product of naturals is one.
LEMMA TotalNat ==
  ASSUME NEW n \in Nat, NEW a \in [1..n -> Nat]
  PROVE  Total(a) \in Nat
<1>1. PICK f : Multiplies(f, n, a) /\ Total(a) = f[n]
  BY TotalMultiplies
<1>2. n \in 0..n
  OBVIOUS
<1> QED  BY <1>1, <1>2 DEF Multiplies

\* Larger factors have a larger product.
LEMMA TotalMonotone ==
  ASSUME NEW n \in Nat, NEW a \in [1..n -> Nat], NEW b \in [1..n -> Nat],
         \A k \in 1..n : a[k] <= b[k]
  PROVE  Total(a) <= Total(b)
<1>1. PICK f : Multiplies(f, n, a) /\ Total(a) = f[n]
  BY TotalMultiplies
<1>2. PICK h : Multiplies(h, n, b) /\ Total(b) = h[n]
  BY TotalMultiplies
<1> DEFINE T == {k \in 0..n : f[k] <= h[k]}
<1>3. 0 \in T
  BY <1>1, <1>2 DEF Multiplies
<1>4. ASSUME NEW k \in 1..n, k - 1 \in T PROVE k \in T
  <2>1. /\ f[k] = f[k - 1] * a[k] /\ h[k] = h[k - 1] * b[k]
        /\ f[k - 1] \in Nat /\ h[k - 1] \in Nat /\ a[k] \in Nat /\ b[k] \in Nat
        /\ f[k - 1] <= h[k - 1] /\ a[k] <= b[k]
    BY <1>1, <1>2, <1>4 DEF Multiplies
  <2>2. f[k] <= h[k]
    BY <2>1, ProductsMonotone
  <2> QED  BY <2>2
<1>5. 0..n \subseteq T
  <2> HIDE DEF T
  <2> QED  BY <1>3, <1>4, Induction
<1> QED  BY <1>1, <1>2, <1>5

\* A product that fits and does not come out as 0 did not wrap on the way.
LEMMA ProductIsTotal ==
  ASSUME NEW n \in Nat, NEW a \in [1..n -> Nat], Total(a) < Wrap, Product(a) # 0
  PROVE  /\ \A k \in 1..n : a[k] >= 1
         /\ Product(a) = Total(a)
<1>1. PICK t : Multiplies(t, n, a) /\ Total(a) = t[n]
  BY TotalMultiplies
<1>2. Wrap \in Nat /\ Wrap > 0
  BY <1>1, GridsAssumption DEF Multiplies
<1>3. PICK p : Wraps(p, n, a) /\ Product(a) = p[n]
  BY <1>2, ProductWraps
<1>4. ASSUME NEW d \in 1..n PROVE a[d] >= 1
  <2> SUFFICES ASSUME a[d] = 0 PROVE FALSE
    OBVIOUS
  <2> DEFINE T == {k \in 0..n : k >= d => p[k] = 0}
  <2>1. 0 \in T
    OBVIOUS
  <2>2. ASSUME NEW k \in 1..n, k - 1 \in T PROVE k \in T
    <3>1. p[k] = w(p[k - 1] * a[k]) /\ p[k - 1] \in Nat /\ a[k] \in Nat
      BY <1>3 DEF Wraps
    <3>2. CASE k >= d
      <4>1. p[k - 1] = 0 \/ a[k] = 0
        BY <2>2, <3>2
      <4>2. p[k - 1] * a[k] = 0
        BY <3>1, <4>1
      <4>3. p[k] = 0
        BY <3>1, <4>2, <1>2, Wrapping
      <4> QED  BY <4>3
    <3> QED  BY <3>2
  <2>3. 0..n \subseteq T
    <3> HIDE DEF T
    <3> QED  BY <2>1, <2>2, Induction
  <2>4. n \in T
    BY <2>3
  <2> QED  BY <2>4, <1>3
<1>5. ASSUME NEW k \in 1..n PROVE t[k - 1] <= t[k]
  <2>1. t[k] = t[k - 1] * a[k] /\ t[k - 1] \in Nat /\ a[k] \in Nat /\ a[k] >= 1
    BY <1>1, <1>4 DEF Multiplies
  <2>2. t[k - 1] * 1 <= t[k - 1] * a[k]
    <3> DEFINE one == 1
    <3>1. one \in Nat /\ one <= a[k]
      BY <2>1
    <3>2. t[k - 1] <= t[k - 1]
      BY <2>1
    <3> HIDE DEF one
    <3>3. t[k - 1] * one <= t[k - 1] * a[k]
      BY <2>1, <3>1, <3>2, ProductsMonotone
    <3> QED  BY <3>3 DEF one
  <2> QED  BY <2>1, <2>2
<1>6. \A k \in 0..n : t[k] <= t[n]
  <2> DEFINE T == {j \in 0..n : t[n - j] <= t[n]}
  <2>1. 0 \in T /\ \A k \in 0..n : t[k] \in Nat
    BY <1>1 DEF Multiplies
  <2>2. ASSUME NEW j \in 1..n, j - 1 \in T PROVE j \in T
    <3>1. n - j + 1 \in 1..n /\ n - (j - 1) = n - j + 1 /\ n - j \in 0..n
      OBVIOUS
    <3>2. t[n - j] <= t[n - j + 1]
      BY <3>1, <1>5
    <3>3. t[n - j + 1] <= t[n]
      BY <2>2, <3>1
    <3> QED  BY <3>1, <3>2, <3>3, <2>1
  <2>3. 0..n \subseteq T
    <3> HIDE DEF T
    <3> QED  BY <2>1, <2>2, Induction
  <2>4. ASSUME NEW k \in 0..n PROVE t[k] <= t[n]
    <3>1. n - k \in T /\ n - (n - k) = k
      BY <2>3
    <3> QED  BY <3>1
  <2> QED  BY <2>4
<1>7. p[n] = t[n]
  <2> DEFINE T == {k \in 0..n : p[k] = t[k]}
  <2>1. 0 \in T
    BY <1>1, <1>3 DEF Multiplies, Wraps
  <2>2. ASSUME NEW k \in 1..n, k - 1 \in T PROVE k \in T
    <3>1. p[k] = w(t[k - 1] * a[k]) /\ t[k] = t[k - 1] * a[k] /\ t[k] \in Nat /\ t[n] \in Nat
      BY <1>1, <1>3, <2>2 DEF Multiplies, Wraps
    <3>2. t[k] < Wrap
      BY <1>1, <1>2, <1>6, <3>1
    <3>3. w(t[k]) = t[k]
      BY <3>1, <3>2, <1>2, Wrapping
    <3>4. p[k] = t[k]
      BY <3>1, <3>3
    <3> QED  BY <3>4
  <2>3. 0..n \subseteq T
    <3> HIDE DEF T
    <3> QED  BY <2>1, <2>2, Induction
  <2>4. n \in T
    BY <2>3
  <2> QED  BY <2>4
<1> QED  BY <1>1, <1>3, <1>4, <1>7

-----------------------------------------------------------------------------
(* Numbers written with two digits                                         *)

\* A digit below a, and the rest below b, make a number below a * b.
LEMMA DigitsBounded ==
  ASSUME NEW a \in Nat, NEW b \in Nat, NEW x \in 0..(a - 1), NEW y \in 0..(b - 1)
  PROVE  x + a * y \in 0..(a * b - 1)
<1>1. a * y >= 0 /\ a * (b - 1 - y) >= 0
  OBVIOUS
<1>2. a * (b - 1 - y) = a * b - a - a * y
  OBVIOUS
<1>3. a * b \in Int /\ a * y \in Int
  OBVIOUS
<1> QED  BY <1>1, <1>2, <1>3

\* They can be read off it.
Digits(n, a, x, y) == x \in 0..(a - 1) /\ y \in Int /\ n = x + a * y

\* A number has one pair of digits.
LEMMA DigitsApart ==
  ASSUME NEW a \in Nat, NEW n, NEW x, NEW y, Digits(n, a, x, y), NEW u, NEW v, Digits(n, a, u, v)
  PROVE  x = u /\ y = v
<1> USE DEF Digits
<1>0. a * y \in Int /\ a * v \in Int
  OBVIOUS
<1>1. ASSUME NEW k \in Int, NEW m \in Int, k < m
      PROVE  a * m >= a * k + a
  <2>1. a * (m - k - 1) >= 0
    BY <1>1
  <2>2. a * (m - k - 1) = a * m - a * k - a
    BY <1>1
  <2>3. a * m \in Int /\ a * k \in Int
    OBVIOUS
  <2> QED  BY <2>1, <2>2, <2>3
<1>2. CASE y < v
  BY <1>0, <1>2, <1>1
<1>3. CASE v < y
  BY <1>0, <1>3, <1>1
<1>4. CASE y = v
  BY <1>0, <1>4
<1> QED  BY <1>2, <1>3, <1>4

\* Every number below a * b has them.
LEMMA DigitsExist ==
  ASSUME NEW a \in Nat, NEW b \in Nat, NEW i \in 0..(a * b - 1)
  PROVE  \E x \in 0..(a - 1), y \in 0..(b - 1) : i = x + a * y
<1>0. a * b \in Int /\ i \in Nat /\ i < a * b
  OBVIOUS
<1>1. a > 0
  <2> SUFFICES ASSUME a = 0 PROVE FALSE
    OBVIOUS
  <2>1. a * b = 0
    OBVIOUS
  <2> QED  BY <2>1, <1>0
<1>2. DEFINE x == i % a
             y == i \div a
<1>3. x \in 0..(a - 1) /\ y \in Int /\ i = x + a * y
  BY <1>0, <1>1
<1>4. y >= 0 /\ y < b
  <2> HIDE DEF x, y
  <2>1. SUFFICES y \in Int /\ (y < 0 \/ y >= b => FALSE)
    BY <1>3
  <2>2. ASSUME y < 0 PROVE FALSE
    <3>1. a * (-1 - y) >= 0 /\ a * (-1 - y) = -a - a * y
      BY <2>2, <1>3
    <3>2. a * y \in Int
      BY <1>3
    <3> QED  BY <3>1, <3>2, <1>3, <1>0
  <2>3. ASSUME y >= b PROVE FALSE
    <3>1. a * (y - b) >= 0 /\ a * (y - b) = a * y - a * b
      BY <2>3, <1>3
    <3>2. a * y \in Int
      BY <1>3
    <3> QED  BY <3>1, <3>2, <1>3, <1>0
  <2> QED  BY <2>2, <2>3, <1>3
<1> HIDE DEF x, y
<1> QED  BY <1>3, <1>4

-----------------------------------------------------------------------------
(* Views                                                                   *)

\* The fields of a Shape.
LEMMA ShapeTyped ==
  ASSUME NEW s, IsShape(s)
  PROVE  /\ Len(s.ext) \in Nat /\ Axes(s) = 1..Len(s.ext)
         /\ s.offset \in Nat
         /\ s.ext \in [1..Len(s.ext) -> Nat]
         /\ s.stride \in [1..Len(s.ext) -> Nat]
BY DEF IsShape, Axes

\* An index is below the extent on every axis.
LEMMA CoordsTyped ==
  ASSUME NEW n \in Nat, NEW ext \in [1..n -> Nat], NEW i \in Coords(ext)
  PROVE  /\ i \in [1..n -> Nat]
         /\ \A d \in 1..n : i[d] \in 0..(ext[d] - 1)
<1>1. /\ DOMAIN ext = 1..n
      /\ i \in [1..n -> UNION {0..(ext[d] - 1) : d \in 1..n}]
      /\ \A d \in 1..n : i[d] < ext[d]
  BY DEF Coords
<1>2. ASSUME NEW d \in 1..n PROVE i[d] \in Nat
  <2>1. i[d] \in UNION {0..(ext[e] - 1) : e \in 1..n}
    BY <1>1
  <2>2. PICK e \in 1..n : i[d] \in 0..(ext[e] - 1)
    BY <2>1
  <2> QED  BY <2>2
<1>3. i \in [1..n -> Nat]
  BY <1>1, <1>2
<1>4. ASSUME NEW d \in 1..n PROVE i[d] \in 0..(ext[d] - 1)
  <2>1. i[d] < ext[d] /\ ext[d] \in Nat
    BY <1>1
  <2> QED  BY <2>1, <1>2
<1> QED  BY <1>3, <1>4

\* What is below the extent on every axis is an index.
LEMMA CoordsMade ==
  ASSUME NEW n \in Nat, NEW ext \in [1..n -> Nat], NEW i \in [1..n -> Nat],
         \A d \in 1..n : i[d] < ext[d]
  PROVE  i \in Coords(ext)
<1>1. DOMAIN ext = 1..n
  OBVIOUS
<1>2. \A d \in 1..n : i[d] \in UNION {0..(ext[e] - 1) : e \in 1..n}
  OBVIOUS
<1> QED  BY <1>1, <1>2 DEF Coords

\* The terms of the sum an element's place is.
Steps(s, i) == [d \in Axes(s) |-> i[d] * s.stride[d]]

\* The terms are naturals, and their sum is the place.
LEMMA StepsTyped ==
  ASSUME NEW s, IsShape(s), NEW i \in [Axes(s) -> Nat]
  PROVE  /\ Steps(s, i) \in [1..Len(s.ext) -> Nat]
         /\ Steps(s, i) \in [1..Len(s.ext) -> Int]
         /\ Sum(Steps(s, i)) \in Int
         /\ Element(s, i) = s.offset + Sum(Steps(s, i))
<1>1. ASSUME NEW d \in Axes(s) PROVE i[d] * s.stride[d] \in Nat
  <2>1. i[d] \in Nat /\ s.stride[d] \in Nat
    BY ShapeTyped
  <2> QED  BY <2>1
<1>2. /\ Steps(s, i) \in [1..Len(s.ext) -> Nat]
      /\ Steps(s, i) \in [1..Len(s.ext) -> Int]
  BY <1>1, ShapeTyped DEF Steps
<1>3. Sum(Steps(s, i)) \in Int
  BY <1>2, ShapeTyped, SumInt
<1> QED  BY <1>2, <1>3 DEF Element, Steps

\* Larger coordinates are farther in the buffer.
LEMMA ElementMonotone ==
  ASSUME NEW s, IsShape(s), NEW i \in [Axes(s) -> Nat], NEW j \in [Axes(s) -> Nat],
         \A d \in Axes(s) : i[d] <= j[d]
  PROVE  Element(s, i) <= Element(s, j)
<1>1. ASSUME NEW d \in 1..Len(s.ext) PROVE Steps(s, i)[d] <= Steps(s, j)[d]
  <2>1. i[d] \in Nat /\ j[d] \in Nat /\ s.stride[d] \in Nat /\ i[d] <= j[d] /\ d \in Axes(s)
    BY ShapeTyped
  <2>2. s.stride[d] <= s.stride[d]
    BY <2>1
  <2>3. i[d] * s.stride[d] <= j[d] * s.stride[d]
    BY <2>1, <2>2, ProductsMonotone
  <2> QED  BY <2>1, <2>3 DEF Steps
<1>2. Sum(Steps(s, i)) <= Sum(Steps(s, j))
  BY <1>1, StepsTyped, ShapeTyped, SumMonotone
<1> QED  BY <1>2, StepsTyped, ShapeTyped

\* A place is a natural number.
LEMMA ElementNat ==
  ASSUME NEW s, IsShape(s), NEW i \in [Axes(s) -> Nat]
  PROVE  Element(s, i) \in Nat
<1>1. Sum(Steps(s, i)) \in Nat
  BY StepsTyped, ShapeTyped, SumNat
<1> QED  BY <1>1, StepsTyped, ShapeTyped

\* A view that passed check_tensor_shape is inside its buffer, and the places
\* of its elements do not wrap.
LEMMA FitsInside ==
  ASSUME NEW s, IsShape(s), NEW n \in Nat, Fits(s, n), ~IsEmpty(s), NEW i \in Coords(s.ext)
  PROVE  Element(s, i) \in 0..(n - 1) /\ Element(s, i) < Wrap
<1> DEFINE last == [d \in Axes(s) |-> s.ext[d] - 1]
<1>1. i \in [Axes(s) -> Nat] /\ \A d \in Axes(s) : i[d] \in 0..(s.ext[d] - 1)
  BY ShapeTyped, CoordsTyped
<1>2. last \in [Axes(s) -> Nat] /\ \A d \in Axes(s) : i[d] <= last[d]
  <2>1. ASSUME NEW d \in Axes(s) PROVE s.ext[d] - 1 \in Nat /\ i[d] <= s.ext[d] - 1
    <3>1. i[d] \in 0..(s.ext[d] - 1) /\ s.ext[d] \in Nat
      BY <1>1, ShapeTyped
    <3> QED  BY <3>1
  <2> QED  BY <2>1
<1>3. Element(s, last) < Wrap /\ Element(s, last) < n
  <2> HIDE DEF last
  <2>1. MaxIndex(s) # None /\ MaxIndex(s) < n
    BY DEF Fits
  <2>2. Element(s, last) \in Nat
    BY <1>2, ElementNat
  <2> QED  BY <2>1, <2>2, GridsAssumption DEF MaxIndex, last
<1>4. Element(s, i) <= Element(s, last)
  <2> HIDE DEF last
  <2> QED  BY <1>1, <1>2, ElementMonotone
<1>5. Element(s, i) \in Nat /\ Element(s, last) \in Nat
  <2> HIDE DEF last
  <2> QED  BY <1>1, <1>2, ElementNat
<1> QED  BY <1>3, <1>4, <1>5, GridsAssumption

-----------------------------------------------------------------------------
(* Injective views                                                         *)

\* How far an axis is ahead, and how far behind it may be.
LEMMA StepAhead ==
  ASSUME NEW x \in Nat, NEW y \in Nat, NEW st \in Nat, y < x
  PROVE  y * st + st <= x * st
<1>1. (x - y - 1) * st >= 0 /\ (x - y - 1) * st = x * st - y * st - st
  OBVIOUS
<1>2. x * st \in Int /\ y * st \in Int
  OBVIOUS
<1> QED  BY <1>1, <1>2

\* An axis that lags behind lags by no more than it reaches.
LEMMA StepBehind ==
  ASSUME NEW x \in Nat, NEW y \in Nat, NEW st \in Nat, NEW m \in Nat, y <= m - 1
  PROVE  y * st <= x * st + st * (m - 1)
<1>1. (m - 1 - y) * st >= 0 /\ (m - 1 - y) * st = st * (m - 1) - y * st /\ x * st >= 0
  OBVIOUS
<1>2. x * st \in Int /\ y * st \in Int /\ st * (m - 1) \in Int
  OBVIOUS
<1> QED  BY <1>1, <1>2

\* Of two different indices, where the slowest axis on which they differ is
\* larger in one, that one is farther in the buffer.
LEMMA SlowestDecides ==
  ASSUME NEW s, IsShape(s), Injective(s),
         NEW i \in Coords(s.ext), NEW j \in Coords(s.ext), NEW d \in Axes(s), j[d] < i[d],
         \A e \in Axes(s) : i[e] # j[e] => e = d \/ Faster(s, e, d)
  PROVE  Element(s, j) < Element(s, i)
<1> DEFINE n == Len(s.ext)
           a == Steps(s, j)
           b == Steps(s, i)
           c == [e \in Axes(s) |-> IF e \in Wide(s) /\ Faster(s, e, d) THEN Reached(s, e) ELSE 0]
           u == [e \in 1..n |-> IF e = d THEN s.stride[d] ELSE 0]
           au == [e \in 1..n |-> a[e] + u[e]]
           bc == [e \in 1..n |-> b[e] + c[e]]
<1>1. n \in Nat /\ Axes(s) = 1..n /\ s.ext \in [1..n -> Nat] /\ s.stride \in [1..n -> Nat]
  BY ShapeTyped
<1>2. /\ i \in [Axes(s) -> Nat] /\ \A e \in Axes(s) : i[e] \in 0..(s.ext[e] - 1)
      /\ j \in [Axes(s) -> Nat] /\ \A e \in Axes(s) : j[e] \in 0..(s.ext[e] - 1)
  BY <1>1, CoordsTyped
<1>3. ASSUME NEW e \in Axes(s) PROVE Reached(s, e) \in Int
  <2>1. s.stride[e] \in Int /\ s.ext[e] - 1 \in Int
    BY <1>1
  <2> QED  BY <2>1 DEF Reached
<1>4. /\ a \in [1..n -> Int] /\ b \in [1..n -> Int] /\ c \in [1..n -> Int] /\ u \in [1..n -> Int]
      /\ au \in [1..n -> Int] /\ bc \in [1..n -> Int]
  <2>1. a \in [1..n -> Int] /\ b \in [1..n -> Int]
    BY <1>2, StepsTyped
  <2>2. c \in [1..n -> Int]
    BY <1>1, <1>3
  <2>3. u \in [1..n -> Int]
    BY <1>1
  <2> HIDE DEF a, b, c, u
  <2> QED  BY <2>1, <2>2, <2>3
<1>5. ASSUME NEW e \in 1..n PROVE au[e] <= bc[e]
  <2> DEFINE st == s.stride[e]
  <2>1. /\ e \in Axes(s) /\ i[e] \in Nat /\ j[e] \in Nat /\ st \in Nat /\ s.ext[e] \in Nat
        /\ i[e] <= s.ext[e] - 1 /\ j[e] <= s.ext[e] - 1
    <3>1. e \in Axes(s) /\ st \in Nat /\ s.ext[e] \in Nat
      BY <1>1
    <3>2. i[e] \in 0..(s.ext[e] - 1) /\ j[e] \in 0..(s.ext[e] - 1)
      BY <1>2, <3>1
    <3> HIDE DEF st
    <3> QED  BY <3>1, <3>2
  <2>2. a[e] = j[e] * st /\ b[e] = i[e] * st
    BY <2>1 DEF Steps
  <2>3. au[e] = a[e] + u[e] /\ bc[e] = b[e] + c[e]
    OBVIOUS
  <2>4. a[e] \in Int /\ b[e] \in Int /\ c[e] \in Int
    BY <1>4
  <2>5. CASE e = d
    <3>1. u[e] = st /\ c[e] = 0
      BY <2>1, <2>5 DEF Faster
    <3> HIDE DEF a, b, c, u, au, bc, st
    <3>2. a[e] + st <= b[e]
      BY <2>1, <2>2, <2>5, StepAhead
    <3> QED  BY <2>1, <2>3, <2>4, <3>1, <3>2
  <2>6. CASE e # d /\ i[e] # j[e]
    <3>1. u[e] = 0
      BY <2>6
    <3>2. Faster(s, e, d)
      BY <2>1, <2>6
    <3>3. e \in Wide(s)
      BY <2>1, <2>6 DEF Wide
    <3>4. c[e] = st * (s.ext[e] - 1)
      BY <2>1, <3>2, <3>3 DEF Reached
    <3> HIDE DEF a, b, c, u, au, bc, st
    <3>5. a[e] <= b[e] + c[e]
      BY <2>1, <2>2, <3>4, StepBehind
    <3> QED  BY <2>3, <2>4, <3>1, <3>5
  <2>7. CASE e # d /\ i[e] = j[e]
    <3>1. u[e] = 0
      BY <2>7
    <3>2. a[e] = b[e]
      BY <2>2, <2>7
    <3>3. c[e] >= 0
      <4>1. CASE e \in Wide(s)
        <5>1. st * (s.ext[e] - 1) >= 0
          BY <2>1, <4>1 DEF Wide
        <5> QED  BY <5>1, <2>1 DEF Reached
      <4>2. CASE e \notin Wide(s)
        BY <2>1, <4>2
      <4> QED  BY <4>1, <4>2
    <3> HIDE DEF a, b, c, u, au, bc, st
    <3> QED  BY <2>3, <2>4, <3>1, <3>2, <3>3
  <2> QED  BY <2>5, <2>6, <2>7
<1>6. Sum(au) <= Sum(bc)
  <2> HIDE DEF au, bc, n
  <2> QED  BY <1>1, <1>4, <1>5, SumMonotone
<1>7. Sum(au) = Sum(a) + Sum(u)
  <2>1. \A e \in 1..n : au[e] = a[e] + u[e]
    <3> HIDE DEF a, u
    <3> QED  OBVIOUS
  <2>2. n \in Nat /\ a \in [1..n -> Int] /\ u \in [1..n -> Int] /\ au \in [1..n -> Int]
    BY <1>1, <1>4
  <2> HIDE DEF au, a, u, n
  <2>3. TermByTerm(n, a, u, au)
    BY <2>1, <2>2 DEF TermByTerm
  <2> QED  BY <2>3, SumPlus
<1>8. Sum(bc) = Sum(b) + Sum(c)
  <2>1. \A e \in 1..n : bc[e] = b[e] + c[e]
    <3> HIDE DEF b, c
    <3> QED  OBVIOUS
  <2>2. n \in Nat /\ b \in [1..n -> Int] /\ c \in [1..n -> Int] /\ bc \in [1..n -> Int]
    BY <1>1, <1>4
  <2> HIDE DEF bc, b, c, n
  <2>3. TermByTerm(n, b, c, bc)
    BY <2>1, <2>2 DEF TermByTerm
  <2> QED  BY <2>3, SumPlus
<1>9. Sum(u) = s.stride[d]
  <2>1. s.stride[d] \in Int /\ d \in 1..n
    BY <1>1
  <2> HIDE DEF n
  <2> QED  BY <1>1, <2>1, SumOne
<1>10. s.stride[d] >= 1 + Sum(c)
  <2>1. d \in Wide(s)
    BY <1>1, <1>2 DEF Wide
  <2> QED  BY <2>1 DEF Injective, Span
<1>11. /\ Sum(a) \in Int /\ Sum(b) \in Int /\ Sum(c) \in Int
       /\ Element(s, j) = s.offset + Sum(a) /\ Element(s, i) = s.offset + Sum(b)
       /\ s.offset \in Int /\ s.stride[d] \in Int
  <2>1. Sum(c) \in Int
    <3> HIDE DEF c, n
    <3> QED  BY <1>1, <1>4, SumInt
  <2>2. /\ Sum(a) \in Int /\ Sum(b) \in Int
        /\ Element(s, j) = s.offset + Sum(a) /\ Element(s, i) = s.offset + Sum(b)
    BY <1>2, StepsTyped
  <2>3. s.offset \in Int /\ s.stride[d] \in Int
    BY <1>1, ShapeTyped
  <2> HIDE DEF a, b, c
  <2> QED  BY <2>1, <2>2, <2>3
<1> HIDE DEF a, b, c, u, au, bc
<1> QED  BY <1>6, <1>7, <1>8, <1>9, <1>10, <1>11

\* Two different indices differ on a slowest axis.
LEMMA SlowestExists ==
  ASSUME NEW s, IsShape(s), NEW D \in SUBSET Axes(s), D # {}
  PROVE  \E d \in D : \A e \in D : e = d \/ Faster(s, e, d)
<1> DEFINE n == Len(s.ext)
           Slowest(k) == \E d \in D : d <= k /\ \A e \in D : e <= k => e = d \/ Faster(s, e, d)
           T == {k \in 0..n : (\A e \in D : e > k) \/ Slowest(k)}
<1>1. n \in Nat /\ Axes(s) = 1..n /\ s.stride \in [1..n -> Nat]
  BY ShapeTyped
<1>2. 0 \in T
  BY <1>1
<1>3. ASSUME NEW k \in 1..n, k - 1 \in T PROVE k \in T
  <2>1. CASE k \notin D
    BY <1>1, <1>3, <2>1
  <2>2. CASE k \in D /\ \A e \in D : e > k - 1
    <3>1. \A e \in D : e <= k => e = k
      BY <1>1, <2>2
    <3>2. Slowest(k)
      BY <2>2, <3>1
    <3> QED  BY <3>2
  <2>3. CASE k \in D /\ Slowest(k - 1)
    <3>1. PICK d \in D : d <= k - 1 /\ \A e \in D : e <= k - 1 => e = d \/ Faster(s, e, d)
      BY <2>3
    <3>2. s.stride[k] \in Nat /\ \A e \in D : s.stride[e] \in Nat /\ e \in Nat
      BY <1>1
    <3>3. CASE s.stride[d] <= s.stride[k]
      <4>1. Faster(s, d, k)
        BY <3>1, <3>2, <3>3, <1>1 DEF Faster
      <4>2. ASSUME NEW e \in D, e <= k PROVE e = k \/ Faster(s, e, k)
        <5>1. e <= k - 1 \/ e = k
          BY <3>2, <4>2
        <5>2. e = k \/ e = d \/ Faster(s, e, d)
          BY <5>1, <3>1
        <5> QED  BY <5>1, <5>2, <4>1, <3>1, <3>2 DEF Faster
      <4>3. Slowest(k)
        BY <2>3, <4>2
      <4> QED  BY <4>3
    <3>4. CASE s.stride[k] < s.stride[d]
      <4>1. ASSUME NEW e \in D, e <= k PROVE e = d \/ Faster(s, e, d)
        <5>1. e <= k - 1 \/ e = k
          BY <3>2, <4>1
        <5> QED  BY <5>1, <3>1, <3>4 DEF Faster
      <4>2. d <= k
        BY <3>1, <3>2
      <4>3. Slowest(k)
        BY <4>1, <4>2
      <4> QED  BY <4>3
    <3> QED  BY <3>2, <3>3, <3>4
  <2> HIDE DEF Slowest
  <2> QED  BY <1>3, <2>1, <2>2, <2>3
<1>4. 0..n \subseteq T
  <2> HIDE DEF T, n
  <2> QED  BY <1>1, <1>2, <1>3, Induction
<1>5. n \in T
  <2> HIDE DEF T, n
  <2> QED  BY <1>1, <1>4
<1> QED  BY <1>1, <1>5

\* What Shape::is_injective accepts is injective: no element is reached by two
\* indices, for any rank, extents and strides.  The slowest axis on which two
\* indices differ steps farther than all the faster ones reach together.
THEOREM InjectiveApart ==
  ASSUME NEW s, IsShape(s), Injective(s), NEW i \in Coords(s.ext), NEW j \in Coords(s.ext),
         Element(s, i) = Element(s, j)
  PROVE  i = j
<1> SUFFICES ASSUME i # j PROVE FALSE
  OBVIOUS
<1>1. /\ i \in [Axes(s) -> Nat] /\ j \in [Axes(s) -> Nat]
  BY ShapeTyped, CoordsTyped
<1> DEFINE D == {e \in Axes(s) : i[e] # j[e]}
<1>2. D # {}
  BY <1>1
<1>3. PICK d \in D : \A e \in D : e = d \/ Faster(s, e, d)
  <2> HIDE DEF D
  <2>1. D \in SUBSET Axes(s)
    BY DEF D
  <2> QED  BY <1>2, <2>1, SlowestExists
<1>4. j[d] < i[d] \/ i[d] < j[d]
  BY <1>1
<1>5. Element(s, i) \in Nat
  BY <1>1, ElementNat
<1>6. CASE j[d] < i[d]
  <2>1. Element(s, j) < Element(s, i)
    BY <1>3, <1>6, SlowestDecides
  <2> QED  BY <2>1, <1>5
<1>7. CASE i[d] < j[d]
  <2>1. Element(s, i) < Element(s, j)
    BY <1>3, <1>7, SlowestDecides
  <2> QED  BY <2>1, <1>5
<1> QED  BY <1>4, <1>6, <1>7

-----------------------------------------------------------------------------
(* Tiles                                                                   *)

\* A sum of naturals only grows.
LEMMA PartialSums ==
  ASSUME NEW n \in Nat, NEW a \in [1..n -> Nat], NEW f, Adds(f, n, a)
  PROVE  \A k \in 0..n : f[k] \in Nat /\ f[k] <= f[n]
<1>1. ASSUME NEW k \in 1..n PROVE f[k - 1] <= f[k] /\ f[k] \in Int /\ f[k - 1] \in Int
  <2>1. f[k] = f[k - 1] + a[k] /\ f[k - 1] \in Int /\ f[k] \in Int /\ a[k] \in Nat
    BY DEF Adds
  <2> QED  BY <2>1
<1> DEFINE T == {k \in 0..n : f[k] \in Nat}
           U == {j \in 0..n : f[n - j] <= f[n]}
<1>2. 0 \in T
  BY DEF Adds
<1>3. ASSUME NEW k \in 1..n, k - 1 \in T PROVE k \in T
  BY <1>1, <1>3
<1>4. 0..n \subseteq T
  <2> HIDE DEF T
  <2> QED  BY <1>2, <1>3, Induction
<1>5. 0 \in U
  BY <1>4
<1>6. ASSUME NEW j \in 1..n, j - 1 \in U PROVE j \in U
  <2>1. n - j + 1 \in 1..n /\ n - (j - 1) = n - j + 1 /\ (n - j + 1) - 1 = n - j
    OBVIOUS
  <2>2. f[n - j] <= f[n - j + 1] /\ f[n - j] \in Int /\ f[n - j + 1] \in Int
    BY <2>1, <1>1
  <2>3. f[n - j + 1] <= f[n] /\ f[n] \in Int
    BY <1>6, <2>1 DEF Adds
  <2> QED  BY <2>2, <2>3
<1>7. 0..n \subseteq U
  <2> HIDE DEF U
  <2> QED  BY <1>5, <1>6, Induction
<1>8. ASSUME NEW k \in 0..n PROVE f[k] <= f[n]
  <2>1. n - k \in U /\ n - (n - k) = k
    BY <1>7
  <2> QED  BY <2>1
<1> QED  BY <1>4, <1>8

\* A tile begins inside the view,
LEMMA CeilDivBounds ==
  ASSUME NEW a \in Nat, NEW b \in Nat \ {0}
  PROVE  /\ CeilDiv(a, b) \in Nat
         /\ \A i \in Nat : i < CeilDiv(a, b) => i * b < a
<1> DEFINE q == CeilDiv(a, b)
<1>1. a + b - 1 \in Nat
  OBVIOUS
<1>2. q \in Int /\ b * q <= a + b - 1 /\ q >= 0
  <2> DEFINE m == a + b - 1
  <2>1. m \in Nat
    BY <1>1
  <2>2. q = m \div b
    BY DEF CeilDiv
  <2> HIDE DEF q, m
  <2>3. q \in Int /\ m = b * q + (m % b) /\ 0 <= (m % b) /\ (m % b) < b
    BY <2>1, <2>2
  <2>4. b * q <= m
    <3>1. b * q \in Int /\ (m % b) \in Int
      BY <2>1, <2>3
    <3> QED  BY <2>1, <2>3, <3>1
  <2>5. q >= 0
    BY <2>1, <2>2
  <2> QED  BY <2>3, <2>4, <2>5 DEF m
<1> HIDE DEF q
<1>3. ASSUME NEW i \in Nat, i < q PROVE i * b < a
  <2>1. (q - 1 - i) * b >= 0 /\ (q - 1 - i) * b = b * q - b - i * b
    BY <1>2, <1>3
  <2>2. b * q \in Int /\ i * b \in Int
    BY <1>2
  <2> QED  BY <2>1, <2>2, <1>2
<1> QED  BY <1>2, <1>3 DEF q

\* at its corner, and reaches to the next one or to the edge.
Corner(s, size, index) == [d \in Axes(s) |-> index[d] * size[d]]
Part(s, size, index) ==
  [d \in Axes(s) |-> Smaller((index[d] + 1) * size[d], s.ext[d]) - index[d] * size[d]]

\* Where a tile begins, and how much of the view is left for it.
LEMMA CornerInside ==
  ASSUME NEW s, IsShape(s), NEW size \in [Axes(s) -> Nat \ {0}], NEW index \in Coords(Counts(s, size))
  PROVE  /\ index \in [Axes(s) -> Nat]
         /\ Corner(s, size, index) \in [Axes(s) -> Nat]
         /\ Corner(s, size, index) \in Coords(s.ext)
         /\ Part(s, size, index) \in [Axes(s) -> Nat]
         /\ \A d \in Axes(s) : /\ Part(s, size, index)[d] <= size[d]
                               /\ Corner(s, size, index)[d] + Part(s, size, index)[d] <= s.ext[d]
<1> DEFINE n == Len(s.ext)
<1>1. n \in Nat /\ Axes(s) = 1..n /\ s.ext \in [1..n -> Nat]
  BY ShapeTyped
<1>2. Counts(s, size) \in [1..n -> Nat]
  BY <1>1, CeilDivBounds DEF Counts
<1>3. index \in [1..n -> Nat] /\ \A d \in 1..n : index[d] < Counts(s, size)[d]
  <2> HIDE DEF n
  <2>1. index \in [1..n -> Nat] /\ \A d \in 1..n : index[d] \in 0..(Counts(s, size)[d] - 1)
    BY <1>1, <1>2, CoordsTyped
  <2> QED  BY <2>1, <1>2
<1>4. ASSUME NEW d \in 1..n
      PROVE  /\ index[d] * size[d] \in Nat /\ index[d] * size[d] < s.ext[d]
             /\ Smaller((index[d] + 1) * size[d], s.ext[d]) - index[d] * size[d] \in 0..size[d]
             /\ Smaller((index[d] + 1) * size[d], s.ext[d]) <= s.ext[d]
  <2>1. index[d] \in Nat /\ size[d] \in Nat \ {0} /\ s.ext[d] \in Nat
    BY <1>1, <1>3
  <2>2. index[d] < CeilDiv(s.ext[d], size[d])
    BY <1>1, <1>3 DEF Counts
  <2>3. index[d] * size[d] < s.ext[d]
    BY <2>1, <2>2, CeilDivBounds
  <2>4. index[d] * size[d] \in Nat /\ (index[d] + 1) * size[d] = index[d] * size[d] + size[d]
    BY <2>1
  <2> DEFINE at == index[d] * size[d]
             end == (index[d] + 1) * size[d]
  <2>5. at \in Nat /\ end = at + size[d] /\ at < s.ext[d]
    BY <2>3, <2>4
  <2>6. Smaller(end, s.ext[d]) - at \in 0..size[d] /\ Smaller(end, s.ext[d]) <= s.ext[d]
    <3> HIDE DEF at, end
    <3> QED  BY <2>1, <2>5 DEF Smaller
  <2> QED  BY <2>5, <2>6
<1>5. Corner(s, size, index) \in [1..n -> Nat] /\ \A d \in 1..n : Corner(s, size, index)[d] < s.ext[d]
  BY <1>1, <1>4 DEF Corner
<1>6. Corner(s, size, index) \in Coords(s.ext)
  <2> HIDE DEF n
  <2> QED  BY <1>1, <1>5, CoordsMade
<1>7. \A d \in Axes(s) : Part(s, size, index)[d] \in 0..size[d]
  BY <1>1, <1>4 DEF Part
<1>8. Part(s, size, index) \in [Axes(s) -> Nat]
  <2>1. \A d \in Axes(s) : Part(s, size, index)[d] \in Nat
    BY <1>1, <1>7
  <2> QED  BY <2>1 DEF Part
<1>9. ASSUME NEW d \in Axes(s)
      PROVE  /\ Part(s, size, index)[d] <= size[d]
             /\ Corner(s, size, index)[d] + Part(s, size, index)[d] <= s.ext[d]
  <2> DEFINE at == index[d] * size[d]
             end == Smaller((index[d] + 1) * size[d], s.ext[d])
  <2>1. Part(s, size, index)[d] = end - at /\ Corner(s, size, index)[d] = at
    BY DEF Part, Corner
  <2>2. /\ d \in 1..n /\ size[d] \in Nat /\ s.ext[d] \in Nat
        /\ at \in Nat /\ end - at \in 0..size[d] /\ end <= s.ext[d]
    BY <1>1, <1>4
  <2>3. end \in Int
    BY <2>2, <1>3 DEF Smaller
  <2> HIDE DEF at, end
  <2> QED  BY <2>1, <2>2, <2>3
<1> QED  BY <1>1, <1>3, <1>5, <1>6, <1>8, <1>9

\* TileAt narrows the axes one by one.
LEMMA TileShape ==
  ASSUME NEW s, IsShape(s), NEW buf \in Nat, Fits(s, buf), ~IsEmpty(s),
         NEW size \in [Axes(s) -> Nat \ {0}], NEW index \in Coords(Counts(s, size))
  PROVE  TileAt(s, size, index) =
           [offset |-> Element(s, Corner(s, size, index)), ext |-> Part(s, size, index), stride |-> s.stride]
<1> DEFINE n == Len(s.ext)
           corner == Corner(s, size, index)
           part == Part(s, size, index)
           a == Steps(s, corner)
<1>1. n \in Nat /\ Axes(s) = 1..n /\ s.ext \in [1..n -> Nat] /\ s.stride \in [1..n -> Nat] /\ s.offset \in Nat
  BY ShapeTyped
<1>2. corner \in [1..n -> Nat] /\ corner \in Coords(s.ext) /\ part \in [1..n -> Nat]
  BY <1>1, CornerInside
<1>3. a \in [1..n -> Nat] /\ a \in [1..n -> Int] /\ Element(s, corner) = s.offset + Sum(a)
  BY <1>1, <1>2, StepsTyped
<1>4. PICK f : Adds(f, n, a) /\ Sum(a) = f[n]
  <2> HIDE DEF a, n
  <2> QED  BY <1>1, <1>3, SumAdds
<1>5. \A k \in 0..n : f[k] \in Nat /\ f[k] <= f[n]
  <2> HIDE DEF a, n
  <2> QED  BY <1>1, <1>3, <1>4, PartialSums
<1>6. s.offset + f[n] < Wrap
  <2> HIDE DEF a, corner
  <2> QED  BY <1>2, <1>3, <1>4, FitsInside
<1> DEFINE view(k) == [offset |-> s.offset + f[k],
                       ext |-> [d \in 1..n |-> IF d <= k THEN part[d] ELSE s.ext[d]],
                       stride |-> s.stride]
           next(v, k) == Narrowed(v, k, index[k] * size[k], Smaller((index[k] + 1) * size[k], s.ext[k]))
           Def(h) == h = [k \in 0..n |-> IF k = 0 THEN s ELSE next(h[k - 1], k)]
           g == [k \in 0..n |-> view(k)]
           h == CHOOSE h : Def(h)
<1>7. view(0) = s
  <2>1. [d \in 1..n |-> IF d <= 0 THEN part[d] ELSE s.ext[d]] = s.ext
    BY <1>1
  <2>2. s.offset + f[0] = s.offset
    BY <1>1, <1>4 DEF Adds
  <2>3. s = [offset |-> s.offset, ext |-> s.ext, stride |-> s.stride]
    BY DEF IsShape
  <2> QED  BY <2>1, <2>2, <2>3
<1>8. ASSUME NEW k \in 1..n PROVE view(k) = next(view(k - 1), k)
  <2>1. f[k] = f[k - 1] + a[k] /\ f[k] \in Nat /\ f[k - 1] \in Nat
    <3>1. k \in 0..n /\ k - 1 \in 0..n
      OBVIOUS
    <3>2. f[k] = f[k - 1] + a[k]
      <4> HIDE DEF a
      <4> QED  BY <1>4 DEF Adds
    <3> HIDE DEF a
    <3> QED  BY <3>1, <3>2, <1>5
  <2>2. a[k] = (index[k] * size[k]) * s.stride[k] /\ a[k] \in Nat
    BY <1>1, <1>3 DEF Steps, Corner
  <2>3. w(s.offset + f[k - 1] + (index[k] * size[k]) * s.stride[k]) = s.offset + f[k]
    <3>1. s.offset + f[k - 1] + (index[k] * size[k]) * s.stride[k] = s.offset + f[k]
      <4> HIDE DEF a
      <4> QED  BY <1>1, <2>1, <2>2
    <3>2. s.offset + f[k] \in Nat /\ s.offset + f[k] < Wrap
      <4>1. f[k] \in Nat /\ f[n] \in Nat /\ f[k] <= f[n]
        BY <1>1, <1>5
      <4> HIDE DEF n
      <4> QED  BY <4>1, <1>1, <1>6, GridsAssumption
    <3>3. Wrap > 0
      BY <3>2, GridsAssumption
    <3> QED  BY <3>1, <3>2, <3>3, Wrapping
  <2>4. part[k] = Smaller((index[k] + 1) * size[k], s.ext[k]) - index[k] * size[k]
    BY <1>1 DEF Part
  <2> DEFINE ext(j) == [d \in 1..n |-> IF d <= j THEN part[d] ELSE s.ext[d]]
  <2>5. ext(k) = [ext(k - 1) EXCEPT ![k] = part[k]]
    <3>1. \A d \in 1..n : (d <= k <=> d <= k - 1 \/ d = k)
      OBVIOUS
    <3> HIDE DEF part
    <3>2. \A d \in 1..n : ext(k)[d] = [ext(k - 1) EXCEPT ![k] = part[k]][d]
      BY <3>1
    <3>3. /\ DOMAIN ext(k) = 1..n /\ DOMAIN [ext(k - 1) EXCEPT ![k] = part[k]] = 1..n
          /\ ext(k) = [d \in DOMAIN ext(k) |-> ext(k)[d]]
      OBVIOUS
    <3> QED  BY <3>2, <3>3
  <2>6. next(view(k - 1), k) =
          [offset |-> w(s.offset + f[k - 1] + (index[k] * size[k]) * s.stride[k]),
           ext |-> [ext(k - 1) EXCEPT ![k] = Smaller((index[k] + 1) * size[k], s.ext[k]) - index[k] * size[k]],
           stride |-> s.stride]
    <3>1. view(k - 1) = [offset |-> s.offset + f[k - 1], ext |-> ext(k - 1), stride |-> s.stride]
      OBVIOUS
    <3> DEFINE from == index[k] * size[k]
               to == Smaller((index[k] + 1) * size[k], s.ext[k])
    <3>2. next(view(k - 1), k) =
            Narrowed([offset |-> s.offset + f[k - 1], ext |-> ext(k - 1), stride |-> s.stride], k, from, to)
      OBVIOUS
    <3> HIDE DEF view, ext, part, from, to
    <3>3. next(view(k - 1), k) =
            [offset |-> w(s.offset + f[k - 1] + from * s.stride[k]),
             ext |-> [ext(k - 1) EXCEPT ![k] = to - from], stride |-> s.stride]
      BY <3>2 DEF Narrowed
    <3> QED  BY <3>3 DEF from, to
  <2> QED  BY <2>3, <2>4, <2>5, <2>6
<1> HIDE DEF view, next
<1>9. Def(g)
  <2>1. \A k \in 0..n : g[k] = IF k = 0 THEN s ELSE next(g[k - 1], k)
    <3> SUFFICES ASSUME NEW k \in 0..n PROVE g[k] = IF k = 0 THEN s ELSE next(g[k - 1], k)
      OBVIOUS
    <3>1. CASE k = 0
      BY <1>7, <3>1
    <3>2. CASE k # 0
      <4>1. k \in 1..n /\ k - 1 \in 0..n
        BY <3>2
      <4> QED  BY <4>1, <1>8, <3>2
    <3> QED  BY <3>1, <3>2
  <2> QED  BY <2>1
<1>10. Def(h)
  BY <1>9
<1>11. TileAt(s, size, index) = h[n]
  BY DEF TileAt, next
<1> HIDE DEF h, g
<1>12. h[n] = g[n]
  <2> DEFINE T == {k \in 0..n : h[k] = g[k]}
  <2>1. /\ \A k \in 0..n : h[k] = IF k = 0 THEN s ELSE next(h[k - 1], k)
        /\ \A k \in 0..n : g[k] = IF k = 0 THEN s ELSE next(g[k - 1], k)
    BY <1>9, <1>10
  <2>2. 0 \in T
    BY <1>1, <2>1
  <2>3. ASSUME NEW k \in 1..n, k - 1 \in T PROVE k \in T
    BY <2>1, <2>3
  <2>4. 0..n \subseteq T
    <3> HIDE DEF T, n
    <3> QED  BY <1>1, <2>2, <2>3, Induction
  <2>5. n \in T
    <3> HIDE DEF T, n
    <3> QED  BY <1>1, <2>4
  <2> QED  BY <2>5
<1>13. g[n] = [offset |-> Element(s, corner), ext |-> part, stride |-> s.stride]
  <2>1. g[n] = view(n)
    BY <1>1 DEF g
  <2>2. [d \in 1..n |-> IF d <= n THEN part[d] ELSE s.ext[d]] = part
    <3> HIDE DEF part, n
    <3> QED  BY <1>1, <1>2
  <2> QED  BY <2>1, <2>2, <1>3, <1>4 DEF view
<1> QED  BY <1>11, <1>12, <1>13

\* A tile is a view of the same rank, and of no more elements.
LEMMA TileTyped ==
  ASSUME NEW s, IsShape(s), NEW buf \in Nat, Fits(s, buf), ~IsEmpty(s),
         NEW size \in [Axes(s) -> Nat \ {0}], NEW index \in Coords(Counts(s, size))
  PROVE  /\ IsShape(TileAt(s, size, index))
         /\ Axes(TileAt(s, size, index)) = Axes(s)
         /\ Total(TileAt(s, size, index).ext) <= Total(s.ext)
<1> DEFINE n == Len(s.ext)
           part == Part(s, size, index)
           corner == Corner(s, size, index)
           v == TileAt(s, size, index)
<1>1. n \in Nat /\ Axes(s) = 1..n /\ s.ext \in [1..n -> Nat] /\ s.stride \in [1..n -> Nat]
  BY ShapeTyped
<1>2. /\ part \in [1..n -> Nat] /\ corner \in [1..n -> Nat]
      /\ \A d \in 1..n : part[d] <= s.ext[d]
  <2>1. /\ part \in [1..n -> Nat] /\ corner \in [1..n -> Nat]
        /\ \A d \in 1..n : corner[d] + part[d] <= s.ext[d]
    BY <1>1, CornerInside
  <2>2. ASSUME NEW d \in 1..n PROVE part[d] <= s.ext[d]
    <3>1. part[d] \in Nat /\ corner[d] \in Nat /\ s.ext[d] \in Nat /\ corner[d] + part[d] <= s.ext[d]
      BY <1>1, <2>1
    <3> HIDE DEF part, corner
    <3> QED  BY <3>1
  <2> QED  BY <2>1, <2>2
<1>3. Element(s, corner) \in Nat
  BY <1>1, <1>2, ElementNat
<1>4. v = [offset |-> Element(s, corner), ext |-> part, stride |-> s.stride]
  BY TileShape
<1>5. part \in Seq(Nat) /\ Len(part) = n /\ s.stride \in Seq(Nat) /\ Len(s.stride) = n /\ DOMAIN part = 1..n
  <2>1. n \in Nat /\ part \in [1..n -> Nat] /\ s.stride \in [1..n -> Nat]
    BY <1>1, <1>2
  <2>2. s.stride \in Seq(Nat) /\ Len(s.stride) = n
    BY DEF IsShape
  <2> HIDE DEF part, n
  <2> QED  BY <2>1, <2>2
<1>6. Total(part) <= Total(s.ext)
  <2> HIDE DEF part, n
  <2> QED  BY <1>1, <1>2, TotalMonotone
<1> HIDE DEF v, part, corner
<1>7. IsShape(v)
  BY <1>3, <1>4, <1>5 DEF IsShape
<1> QED  BY <1>1, <1>4, <1>5, <1>6, <1>7 DEF v, Axes

\* An element of a tile is one of the view, whose coordinates are in the
\* tile's block.
LEMMA TileElement ==
  ASSUME NEW s, IsShape(s), NEW buf \in Nat, Fits(s, buf), ~IsEmpty(s),
         NEW size \in [Axes(s) -> Nat \ {0}], NEW index \in Coords(Counts(s, size)),
         NEW x \in Elements(TileAt(s, size, index))
  PROVE  \E j \in Coords(s.ext) :
           /\ x = Element(s, j)
           /\ \A d \in Axes(s) : \E r : Digits(j[d], size[d], r, index[d])
<1> DEFINE n == Len(s.ext)
           part == Part(s, size, index)
           corner == Corner(s, size, index)
           v == TileAt(s, size, index)
<1>1. n \in Nat /\ Axes(s) = 1..n /\ s.ext \in [1..n -> Nat] /\ s.stride \in [1..n -> Nat] /\ s.offset \in Nat
  BY ShapeTyped
<1>2. /\ part \in [1..n -> Nat] /\ corner \in [1..n -> Nat] /\ index \in [1..n -> Nat]
      /\ \A d \in 1..n : part[d] <= size[d] /\ corner[d] + part[d] <= s.ext[d]
  BY <1>1, CornerInside
<1>3. v = [offset |-> Element(s, corner), ext |-> part, stride |-> s.stride]
  BY TileShape
<1>4. IsShape(v) /\ Axes(v) = 1..n
  BY <1>1, TileTyped
<1>5. PICK idx \in Coords(v.ext) : x = Element(v, idx)
  BY DEF Elements
<1>6. idx \in [1..n -> Nat] /\ \A d \in 1..n : idx[d] \in 0..(part[d] - 1)
  <2>1. v.ext = part
    BY <1>3
  <2> HIDE DEF part, v, n
  <2> QED  BY <1>1, <1>2, <2>1, CoordsTyped
<1> DEFINE j == [d \in 1..n |-> idx[d] + corner[d]]
<1>7. ASSUME NEW d \in 1..n
      PROVE  /\ j[d] \in Nat /\ j[d] < s.ext[d] /\ j[d] = idx[d] + corner[d]
             /\ corner[d] = size[d] * index[d] /\ idx[d] \in 0..(size[d] - 1)
  <2>1. /\ idx[d] \in 0..(part[d] - 1) /\ corner[d] \in Nat /\ part[d] \in Nat
        /\ s.ext[d] \in Nat /\ size[d] \in Nat /\ index[d] \in Nat
        /\ part[d] <= size[d] /\ corner[d] + part[d] <= s.ext[d]
    BY <1>1, <1>2, <1>6
  <2>2. corner[d] = size[d] * index[d]
    BY <1>1, <2>1 DEF Corner
  <2>3. j[d] = idx[d] + corner[d]
    OBVIOUS
  <2> HIDE DEF corner, part, j
  <2> DEFINE a == idx[d]
             b == corner[d]
             c == part[d]
             e == s.ext[d]
             z == size[d]
  <2>4. a \in 0..(c - 1) /\ b \in Nat /\ c \in Nat /\ e \in Nat /\ z \in Nat /\ c <= z /\ b + c <= e
    BY <2>1
  <2> HIDE DEF a, b, c, e, z
  <2>5. a \in 0..(z - 1) /\ a + b \in Nat /\ a + b < e
    BY <2>4
  <2>6. idx[d] \in 0..(size[d] - 1) /\ j[d] \in Nat /\ j[d] < s.ext[d]
    BY <2>3, <2>5 DEF a, b, e, z
  <2> QED  BY <2>2, <2>3, <2>6
<1>8. j \in Coords(s.ext)
  <2>1. j \in [1..n -> Nat]
    BY <1>7
  <2> HIDE DEF j, n
  <2> QED  BY <1>1, <1>7, <2>1, CoordsMade
<1>9. ASSUME NEW d \in Axes(s) PROVE Digits(j[d], size[d], idx[d], index[d])
  <2>1. d \in 1..n /\ index[d] \in Int
    BY <1>1, <1>2
  <2>2. j[d] = idx[d] + size[d] * index[d] /\ idx[d] \in 0..(size[d] - 1)
    BY <2>1, <1>7
  <2> HIDE DEF j
  <2> QED  BY <2>1, <2>2 DEF Digits
<1>10. Element(v, idx) = Element(s, j)
  <2> DEFINE a == Steps(v, idx)
             b == Steps(s, corner)
             c == Steps(s, j)
  <2>1. /\ a \in [1..n -> Int] /\ Element(v, idx) = v.offset + Sum(a) /\ Sum(a) \in Int
    <3>1. Len(v.ext) = n
      BY <1>1, <1>4 DEF Axes, IsShape
    <3> HIDE DEF v, n
    <3> QED  BY <1>4, <1>6, <3>1, StepsTyped
  <2>2. /\ b \in [1..n -> Int] /\ Element(s, corner) = s.offset + Sum(b) /\ Sum(b) \in Int
    <3> HIDE DEF corner
    <3> QED  BY <1>1, <1>2, StepsTyped
  <2>3. /\ c \in [1..n -> Int] /\ Element(s, j) = s.offset + Sum(c)
    <3>1. j \in [Axes(s) -> Nat]
      BY <1>1, <1>7
    <3> HIDE DEF j
    <3> QED  BY <1>1, <3>1, StepsTyped
  <2>4. ASSUME NEW d \in 1..n PROVE c[d] = b[d] + a[d]
    <3>1. a[d] = idx[d] * s.stride[d]
      BY <1>3, <1>4 DEF Steps
    <3>2. b[d] = corner[d] * s.stride[d] /\ c[d] = j[d] * s.stride[d]
      BY <1>1 DEF Steps
    <3>3. idx[d] \in Nat /\ corner[d] \in Nat /\ s.stride[d] \in Nat /\ j[d] = idx[d] + corner[d]
      BY <1>1, <1>2, <1>6
    <3> HIDE DEF a, b, c, j, corner
    <3> QED  BY <3>1, <3>2, <3>3
  <2>5. Sum(c) = Sum(b) + Sum(a)
    <3>1. n \in Nat /\ a \in [1..n -> Int] /\ b \in [1..n -> Int] /\ c \in [1..n -> Int]
      BY <1>1, <2>1, <2>2, <2>3
    <3>2. \A d \in 1..n : c[d] = b[d] + a[d]
      <4> HIDE DEF a, b, c
      <4> QED  BY <2>4
    <3> HIDE DEF a, b, c, n
    <3>3. TermByTerm(n, b, a, c)
      BY <3>1, <3>2 DEF TermByTerm
    <3> QED  BY <3>3, SumPlus
  <2>6. v.offset = s.offset + Sum(b)
    <3>1. v.offset = Element(s, corner)
      BY <1>3
    <3> QED  BY <3>1, <2>2
  <2> HIDE DEF a, b, c, v, j
  <2> QED  BY <1>1, <2>1, <2>2, <2>3, <2>5, <2>6
<1> HIDE DEF j, v
<1> QED  BY <1>5, <1>8, <1>9, <1>10

\* Two tiles of one view have no element in common.
LEMMA BlocksApart ==
  ASSUME NEW s, IsShape(s), NEW buf \in Nat, Fits(s, buf), ~IsEmpty(s), Injective(s),
         NEW size \in [Axes(s) -> Nat \ {0}],
         NEW i \in Coords(Counts(s, size)), NEW j \in Coords(Counts(s, size)), i # j
  PROVE  Elements(TileAt(s, size, i)) \cap Elements(TileAt(s, size, j)) = {}
<1> SUFFICES ASSUME NEW x \in Elements(TileAt(s, size, i)), x \in Elements(TileAt(s, size, j))
             PROVE  FALSE
  OBVIOUS
<1>1. PICK k \in Coords(s.ext) :
        /\ x = Element(s, k)
        /\ \A d \in Axes(s) : \E r : Digits(k[d], size[d], r, i[d])
  BY TileElement
<1>2. PICK m \in Coords(s.ext) :
        /\ x = Element(s, m)
        /\ \A d \in Axes(s) : \E r : Digits(m[d], size[d], r, j[d])
  BY TileElement
<1>3. k = m
  BY <1>1, <1>2, InjectiveApart
<1>4. ASSUME NEW d \in Axes(s) PROVE i[d] = j[d]
  <2>1. PICK r : Digits(k[d], size[d], r, i[d])
    BY <1>1
  <2>2. PICK t : Digits(k[d], size[d], t, j[d])
    BY <1>2, <1>3
  <2>3. size[d] \in Nat
    OBVIOUS
  <2> QED  BY <2>1, <2>2, <2>3, DigitsApart
<1>5. i \in [Axes(s) -> Nat] /\ j \in [Axes(s) -> Nat]
  BY CornerInside
<1> QED  BY <1>4, <1>5

\* There are finitely many tiles.
LEMMA FunctionsFinite ==
  ASSUME NEW D, IsFiniteSet(D), NEW T, IsFiniteSet(T)
  PROVE  IsFiniteSet([D -> T])
<1> DEFINE graph(f) == {<<d, f[d]>> : d \in D}
           G == [f \in [D -> T] |-> graph(f)]
<1>1. IsFiniteSet(SUBSET (D \X T))
  BY FS_Product, FS_SUBSET
<1>2. G \in [[D -> T] -> SUBSET (D \X T)]
  <2>1. ASSUME NEW f \in [D -> T] PROVE graph(f) \in SUBSET (D \X T)
    OBVIOUS
  <2> HIDE DEF graph
  <2> QED  BY <2>1
<1>3. ASSUME NEW f \in [D -> T], NEW h \in [D -> T], G[f] = G[h] PROVE f = h
  <2>1. graph(f) = graph(h)
    BY <1>3
  <2>2. ASSUME NEW d \in D PROVE f[d] = h[d]
    <3>1. <<d, f[d]>> \in graph(h)
      BY <2>1
    <3>2. PICK e \in D : <<d, f[d]>> = <<e, h[e]>>
      BY <3>1
    <3> QED  BY <3>2
  <2> QED  BY <2>2
<1>4. G \in Injection([D -> T], SUBSET (D \X T))
  <2> HIDE DEF G
  <2> QED  BY <1>2, <1>3 DEF Injection, IsInjective
<1> HIDE DEF G
<1> QED  BY <1>1, <1>4, FS_Injection

\* There are finitely many indices.
LEMMA CoordsFinite ==
  ASSUME NEW n \in Nat, NEW ext \in [1..n -> Nat]
  PROVE  IsFiniteSet(Coords(ext))
<1> DEFINE S == {0..(ext[d] - 1) : d \in 1..n}
           F == [d \in 1..n |-> 0..(ext[d] - 1)]
<1>1. IsFiniteSet(1..n)
  BY FS_Interval
<1>2. F \in Surjection(1..n, S)
  BY DEF Surjection
<1>3. IsFiniteSet(S)
  <2> HIDE DEF F, S
  <2> QED  BY <1>1, <1>2, FS_Surjection
<1>4. \A T \in S : IsFiniteSet(T)
  <2> SUFFICES ASSUME NEW d \in 1..n PROVE IsFiniteSet(0..(ext[d] - 1))
    OBVIOUS
  <2>1. 0 \in Int /\ ext[d] - 1 \in Int
    OBVIOUS
  <2> QED  BY <2>1, FS_Interval
<1>5. IsFiniteSet(UNION S)
  <2> HIDE DEF S
  <2> QED  BY <1>3, <1>4, FS_UNION
<1>6. IsFiniteSet([1..n -> UNION S])
  <2> HIDE DEF S
  <2> QED  BY <1>1, <1>5, FunctionsFinite
<1>7. Coords(ext) \in SUBSET [1..n -> UNION S]
  <2>1. DOMAIN ext = 1..n
    OBVIOUS
  <2> QED  BY <2>1 DEF Coords
<1> HIDE DEF S
<1> QED  BY <1>6, <1>7, FS_Subset

-----------------------------------------------------------------------------
(* The invariant of tensors and tiles                                      *)

\* A view that holds elements counts them without wrapping.
ViewCounted(s) == IsShape(s) /\ Total(s.ext) < Wrap

\* A tile is what its size and index cut from a view that may be cut.
Cut(tile, s, size) ==
  /\ Fits(s, len) /\ Injective(s) /\ ~IsEmpty(s)
  /\ tile.index \in Coords(Counts(s, size))
  /\ tile = [of |-> tile.of, index |-> tile.index, shape |-> TileAt(s, size, tile.index)]

\* All the tiles of a Tensor are cut to one size, and the Tensor is gone.
TilesCut ==
  /\ len \in Lens /\ len \in Nat
  /\ whole \subseteq DOMAIN shape
  /\ \A t \in DOMAIN shape : ViewCounted(shape[t])
  /\ IsFiniteSet(tiles)
  /\ \A tile \in tiles : tile.of \in DOMAIN shape \ whole
  /\ \A t \in DOMAIN shape :
       \E size \in [Axes(shape[t]) -> Nat \ {0}] : \A tile \in tiles : tile.of = t => Cut(tile, shape[t], size)

\* No tile has been cut.
LEMMA CuttingInit == Init => TilesCut
<1> SUFFICES ASSUME Init PROVE TilesCut
  OBVIOUS
<1>1. len \in Lens /\ len \in Nat /\ whole = DOMAIN shape /\ tiles = {}
  BY BuffersFit DEF Init
<1>2. ASSUME NEW t \in DOMAIN shape
      PROVE  /\ ViewCounted(shape[t])
             /\ \E size \in [Axes(shape[t]) -> Nat \ {0}] : TRUE
  <2>1. ViewCounted(shape[t])
    BY ViewsAssumption, CellsFit DEF Init, ViewCounted
  <2>2. [d \in Axes(shape[t]) |-> 1] \in [Axes(shape[t]) -> Nat \ {0}]
    OBVIOUS
  <2> QED  BY <2>1, <2>2
<1>3. IsFiniteSet(tiles)
  BY <1>1, FS_EmptySet
<1> QED  BY <1>1, <1>2, <1>3 DEF TilesCut

\* Tensor::tiles cuts a Tensor to one size, once.
LEMMA CuttingTiles ==
  ASSUME TilesCut, NEW t, NEW size \in [Axes(shape[t]) -> Nat], Tiles(t, size)
  PROVE  TilesCut'
<1> DEFINE s == shape[t]
           at(i) == [of |-> t, index |-> i, shape |-> TileAt(s, size, i)]
           cut == {at(i) : i \in Coords(Counts(s, size))}
<1>1. /\ t \in DOMAIN shape /\ t \in whole /\ whole' = whole \ {t}
      /\ UNCHANGED <<len, shape>>
  BY DEF Tiles, TilesCut
<1>2. ViewCounted(s) /\ IsShape(s)
  BY <1>1 DEF TilesCut, ViewCounted
<1>3. \A tile \in tiles : tile.of \in DOMAIN shape \ whole /\ tile.of # t
  BY <1>1 DEF TilesCut
<1>4. CASE tiles' = tiles
  BY <1>1, <1>4 DEF TilesCut, Cut, ViewCounted, Fits
<1>5. CASE /\ 0 \notin Range(size) /\ Fits(s, len) /\ Injective(s) /\ ~IsEmpty(s)
           /\ tiles' = tiles \cup cut
  <2>1. size \in [Axes(s) -> Nat \ {0}]
    BY <1>5 DEF Range
  <2>2. IsFiniteSet(tiles')
    <3>1. IsFiniteSet(Coords(Counts(s, size)))
      <4>1. Len(s.ext) \in Nat /\ Counts(s, size) \in [1..Len(s.ext) -> Nat]
        BY <1>2, <2>1, ShapeTyped, CeilDivBounds DEF Counts
      <4> QED  BY <4>1, CoordsFinite
    <3> DEFINE C == Coords(Counts(s, size))
               F == [i \in C |-> at(i)]
    <3>2. F \in Surjection(C, cut)
      BY DEF Surjection
    <3>3. IsFiniteSet(cut)
      <4> HIDE DEF F, C, cut
      <4> QED  BY <3>1, <3>2, FS_Surjection DEF C
    <3> HIDE DEF cut
    <3> QED  BY <3>3, <1>5, FS_Union DEF TilesCut
  <2>3. ASSUME NEW tile \in cut PROVE tile.of = t /\ Cut(tile, s, size)
    <3>1. PICK i \in Coords(Counts(s, size)) : tile = at(i)
      OBVIOUS
    <3>2. tile.of = t /\ tile.index = i
      BY <3>1
    <3> QED  BY <1>5, <3>1, <3>2 DEF Cut
  <2>4. \A tile \in tiles' : tile.of \in DOMAIN shape \ whole'
    <3> HIDE DEF cut
    <3> QED  BY <1>1, <1>3, <1>5, <2>3
  <2>5. ASSUME NEW r \in DOMAIN shape
        PROVE  \E sz \in [Axes(shape[r]) -> Nat \ {0}] : \A tile \in tiles' : tile.of = r => Cut(tile, shape[r], sz)
    <3> HIDE DEF cut
    <3>1. CASE r = t
      BY <1>3, <1>5, <2>1, <2>3, <3>1
    <3>2. CASE r # t
      <4>1. PICK sz \in [Axes(shape[r]) -> Nat \ {0}] : \A tile \in tiles : tile.of = r => Cut(tile, shape[r], sz)
        BY DEF TilesCut
      <4>2. \A tile \in tiles' : tile.of = r => Cut(tile, shape[r], sz)
        BY <4>1, <1>5, <2>3, <3>2
      <4> QED  BY <4>2
    <3> QED  BY <3>1, <3>2
  <2>6. \A tile, r, sz : Cut(tile, shape[r], sz)' <=> Cut(tile, shape[r], sz)
    BY <1>1 DEF Cut, Fits
  <2>7. /\ len' \in Lens /\ len' \in Nat /\ whole' \subseteq DOMAIN shape'
        /\ \A r \in DOMAIN shape' : ViewCounted(shape'[r])
    BY <1>1 DEF TilesCut
  <2> HIDE DEF cut
  <2> QED  BY <1>1, <2>2, <2>4, <2>5, <2>6, <2>7 DEF TilesCut
<1> QED  BY <1>4, <1>5 DEF Tiles

\* The sizes a caller may ask for, and those Tensor::split computes.
LEMMA SizesTyped ==
  ASSUME TilesCut, NEW t \in whole, NEW size \in Sizes(shape[t])
  PROVE  /\ size \in [Axes(shape[t]) -> Nat]
         /\ 0 \notin Range(size) => PartSize(shape[t], size) \in [Axes(shape[t]) -> Nat]
<1>1. size \in [Axes(shape[t]) -> Nat]
  BY ViewsAssumption DEF Sizes
<1>2. ASSUME 0 \notin Range(size), NEW d \in Axes(shape[t])
      PROVE  Larger(CeilDiv(shape[t].ext[d], size[d]), 1) \in Nat
  <2>1. size[d] \in Nat \ {0}
    BY <1>1, <1>2 DEF Range
  <2>2. shape[t].ext[d] \in Nat
    <3>1. IsShape(shape[t])
      BY DEF TilesCut, ViewCounted
    <3> QED  BY <3>1, ShapeTyped
  <2>3. CeilDiv(shape[t].ext[d], size[d]) \in Nat
    BY <2>1, <2>2, CeilDivBounds
  <2> QED  BY <2>3 DEF Larger
<1> QED  BY <1>1, <1>2 DEF PartSize

\* Shape::slice: only a whole Tensor is narrowed, and no tile is of it.
LEMMA CuttingSlice ==
  ASSUME TilesCut, NEW t \in whole, NEW d \in Axes(shape[t]),
         NEW from \in 0..shape[t].ext[d], NEW to \in 0..shape[t].ext[d], Slice(t, d, from, to)
  PROVE  TilesCut'
<1> DEFINE s == shape[t]
           v == Narrowed(s, d, from, to)
           n == Len(s.ext)
<1>1. /\ t \in DOMAIN shape /\ from <= to /\ to <= s.ext[d]
      /\ shape' = [shape EXCEPT ![t] = v]
      /\ UNCHANGED <<len, whole, tiles>>
  BY DEF Slice, TilesCut
<1>2. IsShape(s) /\ Total(s.ext) < Wrap
  BY <1>1 DEF TilesCut, ViewCounted
<1>3. /\ n \in Nat /\ Axes(s) = 1..n /\ s.offset \in Nat
      /\ s.ext \in [1..n -> Nat] /\ s.stride \in [1..n -> Nat]
  BY <1>2, ShapeTyped
<1> DEFINE ext == [s.ext EXCEPT ![d] = to - from]
<1>4. ext \in [1..n -> Nat] /\ \A e \in 1..n : ext[e] <= s.ext[e]
  <2>1. to - from \in Nat /\ to - from <= s.ext[d]
    BY <1>1, <1>3
  <2> DEFINE e == s.ext
             f == to - from
  <2>2. e \in [1..n -> Nat] /\ f \in Nat /\ f <= e[d]
    BY <1>3, <2>1
  <2> HIDE DEF n, e, f
  <2> DEFINE g == [e EXCEPT ![d] = f]
  <2>3. g \in [1..n -> Nat]
    BY <2>2
  <2>4. ASSUME NEW k \in 1..n PROVE g[k] <= e[k]
    <3>1. CASE k = d
      BY <2>2, <3>1
    <3>2. CASE k # d
      <4>1. g[k] = e[k] /\ e[k] \in Nat
        BY <2>2, <3>2
      <4> HIDE DEF g
      <4> QED  BY <4>1
    <3> QED  BY <3>1, <3>2
  <2> QED  BY <2>3, <2>4 DEF e, f, g
<1>5. Total(s.ext) \in Nat
  <2> HIDE DEF n
  <2> QED  BY <1>3, TotalNat
<1>6. Total(ext) <= Total(s.ext)
  <2> HIDE DEF ext, n
  <2> QED  BY <1>3, <1>4, TotalMonotone
<1>7. Total(ext) \in Nat
  <2> HIDE DEF ext, n
  <2> QED  BY <1>3, <1>4, TotalNat
<1>8. w(s.offset + from * s.stride[d]) \in Nat
  <2>1. s.offset + from * s.stride[d] \in Nat
    <3> DEFINE a == s.stride[d]
    <3>1. from \in Nat /\ a \in Nat
      BY <1>3
    <3> HIDE DEF a
    <3>2. from * a \in Nat
      BY <3>1
    <3> DEFINE b == from * a
    <3> HIDE DEF b
    <3>3. s.offset + b \in Nat
      BY <3>2, <1>3 DEF b
    <3> QED  BY <3>3 DEF a, b
  <2>2. Wrap > 0
    BY <1>2, <1>5, GridsAssumption
  <2> QED  BY <2>1, <2>2, Wrapping
<1>9. v = [offset |-> w(s.offset + from * s.stride[d]), ext |-> ext, stride |-> s.stride]
  BY DEF Narrowed
<1>10. ViewCounted(v)
  <2>1. ext \in Seq(Nat) /\ Len(ext) = n /\ s.stride \in Seq(Nat) /\ Len(s.stride) = n
    <3>1. s.stride \in Seq(Nat) /\ Len(s.stride) = n
      BY <1>2 DEF IsShape
    <3> HIDE DEF ext, n
    <3> QED  BY <1>3, <1>4, <3>1
  <2> HIDE DEF v, ext
  <2> QED  BY <1>2, <1>5, <1>6, <1>7, <1>8, <1>9, <2>1, GridsAssumption DEF ViewCounted, IsShape
<1> HIDE DEF v
<1>11. /\ DOMAIN shape' = DOMAIN shape /\ shape'[t] = v
       /\ \A r \in DOMAIN shape \ {t} : shape'[r] = shape[r]
  BY <1>1
<1>12. \A tile \in tiles : tile.of # t /\ tile.of \in DOMAIN shape \ whole
  BY DEF TilesCut
<1>13. ASSUME NEW r \in DOMAIN shape
       PROVE  \E sz \in [Axes(shape'[r]) -> Nat \ {0}] : \A tile \in tiles : tile.of = r => Cut(tile, shape'[r], sz)
  <2>1. CASE r = t
    <3> DEFINE sz == [e \in Axes(shape'[r]) |-> 1]
    <3>1. sz \in [Axes(shape'[r]) -> Nat \ {0}]
      OBVIOUS
    <3> QED  BY <3>1, <2>1, <1>12
  <2>2. CASE r # t
    <3>1. shape'[r] = shape[r]
      BY <1>11, <2>2
    <3> QED  BY <3>1 DEF TilesCut
  <2> QED  BY <2>1, <2>2
<1>14. \A tile, r, sz : Cut(tile, shape[r], sz)' <=> Cut(tile, shape'[r], sz)
  BY <1>1 DEF Cut, Fits
<1>15. /\ len' \in Lens /\ len' \in Nat /\ whole' \subseteq DOMAIN shape'
       /\ IsFiniteSet(tiles') /\ \A tile \in tiles' : tile.of \in DOMAIN shape' \ whole'
  BY <1>1, <1>11 DEF TilesCut
<1>16. ASSUME NEW r \in DOMAIN shape PROVE ViewCounted(shape'[r])
  BY <1>10, <1>11 DEF TilesCut

<1>17. ASSUME NEW r \in DOMAIN shape'
       PROVE  (\E sz \in [Axes(shape[r]) -> Nat \ {0}] : \A tile \in tiles : tile.of = r => Cut(tile, shape[r], sz))'
  <2>1. PICK sz \in [Axes(shape'[r]) -> Nat \ {0}] : \A tile \in tiles : tile.of = r => Cut(tile, shape'[r], sz)
    BY <1>11, <1>13
  <2>2. \A tile \in tiles' : tile.of = r => Cut(tile, shape[r], sz)'
    BY <1>1, <1>14, <2>1
  <2> QED  BY <2>1, <2>2
<1>18. (\A r \in DOMAIN shape : ViewCounted(shape[r]))'
  BY <1>11, <1>16
<1> QED  BY <1>15, <1>17, <1>18 DEF TilesCut

\* Tiles given back are no longer there.
LEMMA CuttingFewer ==
  ASSUME TilesCut, NEW gone, tiles' = tiles \ gone, UNCHANGED <<len, shape>>,
         whole' \subseteq DOMAIN shape, \A tile \in tiles' : tile.of \notin whole'
  PROVE  TilesCut'
<1>1. IsFiniteSet(tiles')
  BY FS_Subset DEF TilesCut
<1> QED  BY <1>1 DEF TilesCut, Cut, Fits, ViewCounted

\* Tile::join gives a Tensor back with the last of its tiles.
LEMMA CuttingJoin ==
  ASSUME TilesCut, NEW given, Join(given)
  PROVE  TilesCut'
<1>1. /\ given \subseteq tiles /\ tiles' = tiles \ given /\ UNCHANGED <<len, shape>>
  BY DEF Join
<1>2. PICK first \in given :
        /\ \A tile \in given : tile.of = first.of
        /\ Cardinality(Siblings(first)) = Cardinality(given)
  BY DEF Join, Joins
<1>3. whole' = whole \cup {first.of}
  BY <1>2 DEF Join
<1>4. given = Siblings(first)
  <2>1. given \subseteq Siblings(first) /\ Siblings(first) \subseteq tiles
    BY <1>1, <1>2 DEF Siblings
  <2>2. IsFiniteSet(Siblings(first))
    BY <2>1, FS_Subset DEF TilesCut
  <2> QED  BY <1>2, <2>1, <2>2, FS_Subset
<1>5. \A tile \in tiles' : tile.of \notin whole'
  BY <1>1, <1>3, <1>4 DEF TilesCut, Siblings
<1>6. whole' \subseteq DOMAIN shape
  BY <1>1, <1>3 DEF TilesCut
<1> QED  BY <1>1, <1>5, <1>6, CuttingFewer

\* However views are sliced, split, dropped and joined.
LEMMA Cutting == Spec => []TilesCut
<1>1. TilesCut /\ [Next]_vars => TilesCut'
  <2> SUFFICES ASSUME TilesCut, [Next]_vars PROVE TilesCut'
    OBVIOUS
  <2>1. ASSUME NEW t \in whole, NEW size \in Sizes(shape[t]), Tiles(t, size) PROVE TilesCut'
    BY <2>1, SizesTyped, CuttingTiles
  <2>2. ASSUME NEW t \in whole, NEW size \in Sizes(shape[t]), Split(t, size) PROVE TilesCut'
    BY <2>2, SizesTyped, CuttingTiles DEF Split
  <2>3. ASSUME NEW t \in whole, NEW d \in Axes(shape[t]),
               NEW from \in 0..shape[t].ext[d], NEW to \in 0..shape[t].ext[d], Slice(t, d, from, to)
        PROVE  TilesCut'
    BY <2>3, CuttingSlice
  <2>4. ASSUME NEW tile \in tiles, DropTile(tile) PROVE TilesCut'
    <3>1. tiles' = tiles \ {tile} /\ UNCHANGED <<len, shape, whole>>
      BY <2>4 DEF DropTile
    <3> QED  BY <3>1, CuttingFewer DEF TilesCut
  <2>5. ASSUME NEW given, Join(given) PROVE TilesCut'
    BY <2>5, CuttingJoin
  <2>6. CASE UNCHANGED <<len, shape, whole, tiles>>
    BY <2>6 DEF TilesCut, Cut, Fits, ViewCounted
  <2>7. ASSUME NEW g, NEW arg, NEW p, Launch(g, arg, p) PROVE TilesCut'
    BY <2>6, <2>7 DEF Launch
  <2> QED  BY <2>1, <2>2, <2>3, <2>4, <2>5, <2>6, <2>7 DEF Next, Retire, vars
<1> QED  BY <1>1, CuttingInit, PTL DEF Spec

\* The tiles that live are apart.  (Tensor::tiles, Tensor::split, Tile::join)
LEMMA CutIsApart == TilesCut => TilesApart
<1> SUFFICES ASSUME TilesCut, NEW tile \in tiles
             PROVE  /\ Elements(tile.shape) \subseteq Elements(shape[tile.of]) \cap 0..(len - 1)
                    /\ tile.of \notin whole
                    /\ \A other \in Siblings(tile) \ {tile} :
                         Elements(tile.shape) \cap Elements(other.shape) = {}
  BY DEF TilesApart
<1> DEFINE s == shape[tile.of]
<1>1. /\ len \in Nat /\ tile.of \in DOMAIN shape /\ tile.of \notin whole
      /\ IsShape(s)
  BY DEF TilesCut, ViewCounted
<1>2. PICK size \in [Axes(s) -> Nat \ {0}] : \A other \in tiles : other.of = tile.of => Cut(other, s, size)
  BY <1>1 DEF TilesCut
<1> HIDE DEF s
<1>3. /\ Fits(s, len) /\ Injective(s) /\ ~IsEmpty(s)
      /\ tile.index \in Coords(Counts(s, size)) /\ tile.shape = TileAt(s, size, tile.index)
  <2>1. Cut(tile, s, size)
    BY <1>2
  <2>2. tile = [of |-> tile.of, index |-> tile.index, shape |-> TileAt(s, size, tile.index)]
    BY <2>1 DEF Cut
  <2>3. tile.shape = TileAt(s, size, tile.index)
    BY <2>2
  <2> QED  BY <2>1, <2>3 DEF Cut
<1>4. ASSUME NEW x \in Elements(tile.shape) PROVE x \in Elements(s) /\ x \in 0..(len - 1)
  <2>1. PICK j \in Coords(s.ext) : x = Element(s, j)
    BY <1>1, <1>2, <1>3, TileElement
  <2> QED  BY <2>1, <1>1, <1>3, FitsInside DEF Elements
<1>5. ASSUME NEW other \in Siblings(tile) \ {tile}
      PROVE  Elements(tile.shape) \cap Elements(other.shape) = {}
  <2>1. other \in tiles /\ other.of = tile.of /\ other # tile
    BY DEF Siblings
  <2>2. Cut(other, s, size) /\ Cut(tile, s, size)
    BY <1>2, <2>1
  <2>3. /\ other = [of |-> other.of, index |-> other.index, shape |-> TileAt(s, size, other.index)]
        /\ tile = [of |-> tile.of, index |-> tile.index, shape |-> TileAt(s, size, tile.index)]
        /\ other.index \in Coords(Counts(s, size))
    BY <2>2 DEF Cut
  <2>4. other.index # tile.index
    BY <2>1, <2>3
  <2>5. other.shape = TileAt(s, size, other.index)
    BY <2>3
  <2>6. Elements(TileAt(s, size, tile.index)) \cap Elements(TileAt(s, size, other.index)) = {}
    BY <1>1, <1>2, <1>3, <2>3, <2>4, BlocksApart
  <2> QED  BY <1>3, <2>5, <2>6
<1> QED  BY <1>1, <1>4, <1>5 DEF s

\* No element is in two tiles that live, none is outside its view or the buffer,
\* and a Tensor with a tile alive is not back with the program, however its view
\* was sliced and whatever was dropped or joined before.  (Tensor::tiles,
\* Tensor::split, Tile::join)
THEOREM TilesStayApart == Spec => []TilesApart
BY Cutting, CutIsApart, PTL


-----------------------------------------------------------------------------
(* Rectangle copies                                                        *)

\* Sums and products over the axes of a rectangle.
LEMMA SumShort ==
  ASSUME NEW n \in 1..3, NEW a \in [1..n -> Int]
  PROVE  /\ n = 1 => Sum(a) = a[1]
         /\ n = 2 => Sum(a) = a[1] + a[2]
         /\ n = 3 => Sum(a) = a[1] + a[2] + a[3]
<1>1. PICK f : Adds(f, n, a) /\ Sum(a) = f[n]
  BY SumAdds
<1>2. f[0] = 0 /\ \A k \in 1..n : f[k] = f[k - 1] + a[k]
  BY <1>1 DEF Adds
<1>3. f[1] = a[1]
  <2>1. 1 \in 1..n /\ 1 - 1 = 0
    OBVIOUS
  <2> QED  BY <1>2, <2>1
<1>4. n >= 2 => f[2] = a[1] + a[2]
  <2>1. n >= 2 => 2 \in 1..n /\ 2 - 1 = 1
    OBVIOUS
  <2> QED  BY <1>2, <1>3, <2>1
<1>5. n = 3 => f[3] = a[1] + a[2] + a[3]
  <2>1. n = 3 => 3 \in 1..n /\ 3 - 1 = 2
    OBVIOUS
  <2> QED  BY <1>2, <1>4, <2>1
<1> QED  BY <1>1, <1>3, <1>4, <1>5

\* The same of a product of up to three.
LEMMA TotalShort ==
  ASSUME NEW n \in 0..3, NEW a \in [1..n -> Nat]
  PROVE  /\ n = 0 => Total(a) = 1
         /\ n = 1 => Total(a) = a[1]
         /\ n = 2 => Total(a) = a[1] * a[2]
         /\ n = 3 => Total(a) = (a[1] * a[2]) * a[3]
<1>1. PICK f : Multiplies(f, n, a) /\ Total(a) = f[n]
  BY TotalMultiplies
<1>2. f[0] = 1 /\ \A k \in 1..n : f[k] = f[k - 1] * a[k] /\ a[k] \in Nat
  BY <1>1 DEF Multiplies
<1>3. n >= 1 => f[1] = a[1]
  <2>1. n >= 1 => 1 \in 1..n /\ 1 - 1 = 0
    OBVIOUS
  <2> QED  BY <1>2, <2>1
<1>4. n >= 2 => f[2] = a[1] * a[2]
  <2>1. n >= 2 => 2 \in 1..n /\ 2 - 1 = 1
    OBVIOUS
  <2> QED  BY <1>2, <1>3, <2>1
<1>5. n = 3 => f[3] = (a[1] * a[2]) * a[3]
  <2>1. n = 3 => 3 \in 1..n /\ 3 - 1 = 2
    OBVIOUS
  <2> QED  BY <1>2, <1>4, <2>1
<1> QED  BY <1>1, <1>2, <1>3, <1>4, <1>5

\* The digits of a row-major index.
LEMMA NthDigits ==
  ASSUME NEW n \in 1..3, NEW ext \in [1..n -> Nat], NEW m
  PROVE  /\ Nth(ext, m)[n] = (m \div 1) % ext[n]
         /\ n >= 2 => Nth(ext, m)[n - 1] = (m \div ext[n]) % ext[n - 1]
         /\ n = 3 => Nth(ext, m)[1] = (m \div (ext[2] * ext[3])) % ext[1]
<1> DEFINE rest(d) == SubSeq(ext, d + 1, Len(ext))
<1>1. Len(ext) = n /\ DOMAIN ext = 1..n /\ ext \in Seq(Nat)
  OBVIOUS
<1>2. ASSUME NEW d \in 1..n
      PROVE  /\ Nth(ext, m)[d] = (m \div Total(rest(d))) % ext[d]
             /\ rest(d) \in [1..(n - d) -> Nat] /\ n - d \in 0..3
             /\ \A k \in 1..(n - d) : rest(d)[k] = ext[d + k]
  <2>1. Nth(ext, m)[d] = (m \div Total(rest(d))) % ext[d]
    BY <1>1 DEF Nth
  <2>2. rest(d) \in [1..(n - d) -> Nat] /\ \A k \in 1..(n - d) : rest(d)[k] = ext[d + k]
    <3>1. d + 1 \in 1..(Len(ext) + 1) /\ Len(ext) \in ((d + 1) - 1)..Len(ext) /\ Len(ext) - (d + 1) + 1 = n - d
      BY <1>1
    <3> HIDE DEF rest
    <3>2. /\ rest(d) \in Seq(Nat) /\ Len(rest(d)) = n - d
          /\ \A k \in 1..(n - d) : rest(d)[k] = ext[(d + 1) + k - 1]
      BY <1>1, <3>1, SubSeqProperties DEF rest
    <3>3. rest(d) \in [1..(n - d) -> Nat]
      BY <3>2
    <3>4. ASSUME NEW k \in 1..(n - d) PROVE rest(d)[k] = ext[d + k]
      <4>1. (d + 1) + k - 1 = d + k
        OBVIOUS
      <4> QED  BY <3>2, <4>1
    <3> QED  BY <3>3, <3>4
  <2> QED  BY <2>1, <2>2
<1> HIDE DEF rest
<1>3. Nth(ext, m)[n] = (m \div 1) % ext[n]
  <2>1. n \in 1..n /\ n - n = 0
    OBVIOUS
  <2>2. Total(rest(n)) = 1
    <3> DEFINE zero == n - n
    <3>1. zero \in 0..3 /\ rest(n) \in [1..zero -> Nat] /\ zero = 0
      BY <1>2, <2>1
    <3> HIDE DEF zero
    <3> QED  BY <3>1, TotalShort
  <2> QED  BY <1>2, <2>1, <2>2
<1>4. ASSUME n >= 2 PROVE Nth(ext, m)[n - 1] = (m \div ext[n]) % ext[n - 1]
  <2>1. n - 1 \in 1..n /\ n - (n - 1) = 1 /\ 1 \in 1..(n - (n - 1)) /\ (n - 1) + 1 = n
    BY <1>4
  <2>2. Total(rest(n - 1)) = ext[n]
    <3> DEFINE one == n - (n - 1)
               r == rest(n - 1)
    <3>1. one \in 0..3 /\ r \in [1..one -> Nat] /\ one = 1 /\ r[1] = ext[n]
      BY <1>2, <2>1
    <3> HIDE DEF one, r
    <3>2. Total(r) = ext[n]
      BY <3>1, TotalShort
    <3> QED  BY <3>2 DEF r
  <2> QED  BY <1>2, <2>1, <2>2
<1>5. ASSUME n = 3 PROVE Nth(ext, m)[1] = (m \div (ext[2] * ext[3])) % ext[1]
  <2>1. 1 \in 1..n /\ n - 1 = 2 /\ 1 \in 1..(n - 1) /\ 2 \in 1..(n - 1)
    BY <1>5
  <2>2. Total(rest(1)) = ext[2] * ext[3]
    <3> DEFINE two == n - 1
               r == rest(1)
    <3>1. two \in 0..3 /\ r \in [1..two -> Nat] /\ two = 2
      BY <1>2, <2>1
    <3>2. r[1] = ext[1 + 1] /\ r[2] = ext[1 + 2]
      BY <1>2, <2>1
    <3>3. 1 + 1 = 2 /\ 1 + 2 = 3
      OBVIOUS
    <3> HIDE DEF two, r
    <3>4. Total(r) = ext[2] * ext[3]
      BY <3>1, <3>2, <3>3, TotalShort
    <3> QED  BY <3>4 DEF r
  <2> QED  BY <1>2, <2>1, <2>2
<1> QED  BY <1>3, <1>4, <1>5

\* An element's place, by its axes from the fastest.
Back(s, i, b) == IF b < Len(s.ext) THEN i[Len(s.ext) - b] ELSE 0

\* The place of an element of a view of up to three axes.
LEMMA ElementBack ==
  ASSUME NEW s, IsShape(s), Len(s.ext) \in 1..3, NEW i \in [Axes(s) -> Nat]
  PROVE  Element(s, i) = s.offset + Back(s, i, 2) * Stride(s, 2)
                           + Back(s, i, 1) * Stride(s, 1) + Back(s, i, 0) * Stride(s, 0)
<1> DEFINE n == Len(s.ext)
           a == Steps(s, i)
           part(b) == Back(s, i, b) * Stride(s, b)
<1>1. n \in 1..3 /\ Axes(s) = 1..n /\ s.offset \in Nat /\ s.stride \in [1..n -> Nat] /\ i \in [1..n -> Nat]
  BY ShapeTyped
<1>2. a \in [1..n -> Int] /\ Element(s, i) = s.offset + Sum(a)
  BY StepsTyped
<1>3. ASSUME NEW b \in 0..2
      PROVE  /\ part(b) \in Int
             /\ b < n => part(b) = a[n - b]
             /\ b >= n => part(b) = 0
  <2>1. CASE b < n
    <3>1. n - b \in 1..n
      BY <1>1, <2>1
    <3>2. Back(s, i, b) = i[n - b] /\ Stride(s, b) = s.stride[n - b]
      BY <2>1 DEF Back, Stride
    <3>3. part(b) = a[n - b]
      BY <1>1, <3>1, <3>2 DEF Steps
    <3>4. a[n - b] \in Int
      <4> HIDE DEF a, n
      <4> QED  BY <1>2, <3>1
    <3> QED  BY <2>1, <3>3, <3>4, <1>1
  <2>2. CASE b >= n
    <3>1. Back(s, i, b) = 0 /\ Stride(s, b) = 0
      BY <1>1, <2>2 DEF Back, Stride
    <3>2. part(b) = 0
      BY <3>1
    <3> QED  BY <2>2, <3>2, <1>1
  <2> QED  BY <1>1, <2>1, <2>2
<1> HIDE DEF n, a, part
<1>4. Sum(a) = part(2) + part(1) + part(0)
  <2>1. /\ part(0) \in Int /\ part(1) \in Int /\ part(2) \in Int
        /\ part(0) = a[n]
        /\ n >= 2 => part(1) = a[n - 1]
        /\ n = 3 => part(2) = a[1]
        /\ n = 1 => part(1) = 0
        /\ n <= 2 => part(2) = 0
    BY <1>1, <1>3
  <2>2. /\ n = 1 => Sum(a) = a[1]
        /\ n = 2 => Sum(a) = a[1] + a[2]
        /\ n = 3 => Sum(a) = a[1] + a[2] + a[3]
    BY <1>1, <1>2, SumShort
  <2>3. CASE n = 1
    BY <2>1, <2>2, <2>3
  <2>4. CASE n = 2
    BY <2>1, <2>2, <2>4
  <2>5. CASE n = 3
    BY <2>1, <2>2, <2>5
  <2> QED  BY <1>1, <2>3, <2>4, <2>5
<1>5. part(0) \in Int /\ part(1) \in Int /\ part(2) \in Int
  BY <1>3
<1>6. Element(s, i) = s.offset + part(2) + part(1) + part(0)
  BY <1>1, <1>2, <1>4, <1>5
<1> QED  BY <1>6 DEF part


\* A number is its remainder and its quotient.
LEMMA Division ==
  ASSUME NEW a \in Nat, NEW b \in Nat, b >= 1
  PROVE  a % b \in 0..(b - 1) /\ a \div b \in Nat /\ a = (a % b) + b * (a \div b)
<1>1. a % b \in 0..(b - 1) /\ a \div b \in Int /\ a = (a % b) + b * (a \div b)
  OBVIOUS
<1> DEFINE y == a \div b
           x == a % b
<1>2. y >= 0
  <2> HIDE DEF x, y
  <2> SUFFICES ASSUME y < 0 PROVE FALSE
    BY <1>1 DEF y
  <2>1. b * (-1 - y) >= 0 /\ b * (-1 - y) = -b - b * y /\ b * y \in Int
    BY <1>1 DEF y
  <2> QED  BY <1>1, <2>1 DEF x, y
<1> QED  BY <1>1, <1>2 DEF y

\* The axes of a rectangle, all of them there.
LEMMA RectAxes ==
  ASSUME NEW s, IsShape(s), Total(s.ext) < Wrap, HasRect(s)
  PROVE  /\ Len(s.ext) \in 1..3 /\ Product(s.ext) = Total(s.ext)
         /\ \A b \in 0..2 : Ext(s, b) \in Nat /\ Ext(s, b) >= 1 /\ Stride(s, b) \in Nat
         /\ Total(s.ext) = (Ext(s, 2) * Ext(s, 1)) * Ext(s, 0)
<1> DEFINE n == Len(s.ext)
<1>1. n \in 1..3 /\ s.ext \in [1..n -> Nat] /\ s.stride \in [1..n -> Nat]
  BY ShapeTyped DEF HasRect
<1>2. (\A d \in 1..n : s.ext[d] >= 1) /\ Product(s.ext) = Total(s.ext)
  <2>1. Product(s.ext) # 0
    BY DEF HasRect, IsEmpty
  <2>2. n \in Nat
    BY <1>1
  <2> HIDE DEF n
  <2> QED  BY <1>1, <2>1, <2>2, ProductIsTotal
<1>3. ASSUME NEW b \in 0..2
      PROVE  Ext(s, b) \in Nat /\ Ext(s, b) >= 1 /\ Stride(s, b) \in Nat
  <2>1. CASE b < n
    <3>1. n - b \in 1..n
      BY <1>1, <2>1
    <3> QED  BY <1>1, <1>2, <2>1, <3>1 DEF Ext, Stride
  <2>2. CASE b >= n
    <3>1. Ext(s, b) = 1 /\ Stride(s, b) = 0
      BY <1>1, <2>2 DEF Ext, Stride
    <3> QED  BY <3>1
  <2> QED  BY <1>1, <2>1, <2>2
<1>4. /\ Ext(s, 0) = s.ext[n]
      /\ Ext(s, 1) = IF n >= 2 THEN s.ext[n - 1] ELSE 1
      /\ Ext(s, 2) = IF n = 3 THEN s.ext[1] ELSE 1
  <2>1. \A b \in 0..2 : Ext(s, b) = IF b < n THEN s.ext[n - b] ELSE 1
    BY DEF Ext
  <2> HIDE DEF n
  <2>2. /\ 0 < n /\ n - 0 = n /\ (1 < n <=> n >= 2) /\ (2 < n <=> n = 3)
        /\ n = 3 => n - 2 = 1
    BY <1>1
  <2> QED  BY <2>1, <2>2
<1>5. Total(s.ext) = (Ext(s, 2) * Ext(s, 1)) * Ext(s, 0)
  <2> DEFINE e0 == Ext(s, 0)
             e1 == Ext(s, 1)
             e2 == Ext(s, 2)
             total == Total(s.ext)
  <2>1. e0 \in Nat /\ e1 \in Nat /\ e2 \in Nat
    BY <1>3
  <2>2. /\ n = 1 => total = s.ext[1]
        /\ n = 2 => total = s.ext[1] * s.ext[2]
        /\ n = 3 => total = (s.ext[1] * s.ext[2]) * s.ext[3]
    <3>1. n \in 0..3
      BY <1>1
    <3> HIDE DEF n
    <3> QED  BY <1>1, <3>1, TotalShort
  <2>3. CASE n = 1
    <3>1. total = e0 /\ e1 = 1 /\ e2 = 1
      BY <1>4, <2>2, <2>3
    <3> QED  BY <2>1, <3>1
  <2>4. CASE n = 2
    <3>1. total = e1 * e0 /\ e2 = 1
      BY <1>4, <2>2, <2>4
    <3>2. (e2 * e1) * e0 = e1 * e0
      BY <2>1, <3>1
    <3> QED  BY <3>1, <3>2
  <2>5. CASE n = 3
    <3>1. total = (e2 * e1) * e0
      BY <1>4, <2>2, <2>5
    <3> QED  BY <3>1
  <2> QED  BY <1>1, <2>3, <2>4, <2>5
<1> QED  BY <1>1, <1>2, <1>3, <1>5

\* A view that fits its buffer: its last element is in it.
LEMMA RectReach ==
  ASSUME NEW s, IsShape(s), Total(s.ext) < Wrap, HasRect(s), NEW n \in Nat, Fits(s, n)
  PROVE  s.offset + (Ext(s, 2) - 1) * Stride(s, 2)
           + (Ext(s, 1) - 1) * Stride(s, 1) + (Ext(s, 0) - 1) * Stride(s, 0) < n
<1> DEFINE last == [d \in Axes(s) |-> s.ext[d] - 1]
<1>1. /\ Axes(s) = 1..Len(s.ext) /\ Len(s.ext) \in 1..3 /\ s.ext \in [1..Len(s.ext) -> Nat]
      /\ Product(s.ext) = Total(s.ext) /\ ~IsEmpty(s)
  BY ShapeTyped, RectAxes DEF HasRect
<1>2. ASSUME NEW b \in 0..2
      PROVE  Back(s, last, b) = Ext(s, b) - 1
  <2>1. CASE b < Len(s.ext)
    <3>1. Len(s.ext) - b \in Axes(s)
      BY <1>1, <2>1
    <3> QED  BY <2>1, <3>1 DEF Back, Ext
  <2>2. CASE ~(b < Len(s.ext))
    BY <2>2 DEF Back, Ext
  <2> QED  BY <2>1, <2>2
<1>3. last \in [Axes(s) -> Nat]
  <2>1. ASSUME NEW d \in Axes(s) PROVE s.ext[d] >= 1
    <3>1. Len(s.ext) - d \in 0..2 /\ Len(s.ext) - (Len(s.ext) - d) = d /\ Len(s.ext) - d < Len(s.ext)
      <4> DEFINE l == Len(s.ext)
      <4>1. l \in 1..3 /\ d \in 1..l
        BY <1>1
      <4> HIDE DEF l
      <4>2. l - d \in 0..2 /\ l - (l - d) = d /\ l - d < l
        BY <4>1
      <4> QED  BY <4>2 DEF l
    <3>2. Ext(s, Len(s.ext) - d) = s.ext[d]
      BY <3>1 DEF Ext
    <3> QED  BY <3>1, <3>2, RectAxes
  <2> QED  BY <1>1, <2>1
<1> HIDE DEF last
<1>4. Element(s, last) < n
  <2>1. MaxIndex(s) # None /\ MaxIndex(s) < n
    BY <1>1 DEF Fits
  <2> QED  BY <2>1, <1>1 DEF MaxIndex, last
<1>5. Element(s, last) = s.offset + Back(s, last, 2) * Stride(s, 2)
                           + Back(s, last, 1) * Stride(s, 1) + Back(s, last, 0) * Stride(s, 0)
  BY <1>1, <1>3, ElementBack
<1>6. Back(s, last, 2) = Ext(s, 2) - 1 /\ Back(s, last, 1) = Ext(s, 1) - 1 /\ Back(s, last, 0) = Ext(s, 0) - 1
  BY <1>2
<1> QED  BY <1>4, <1>5, <1>6

\* Its pitches do not wrap.
LEMMA RectPitches ==
  ASSUME NEW s, IsShape(s), Total(s.ext) < Wrap, HasRect(s), NEW n \in Nat, 2 * n < Wrap, Fits(s, n)
  PROVE  /\ RowPitch(s) \in Nat /\ RowPitch(s) >= 1
         /\ SlicePitch(s) \in Nat /\ SlicePitch(s) >= 1
         /\ Ext(s, 1) > 1 => RowPitch(s) = Stride(s, 1)
         /\ Ext(s, 2) > 1 => SlicePitch(s) = Stride(s, 2)
         /\ Ext(s, 0) > 1 => Stride(s, 0) = 1
<1> DEFINE e0 == Ext(s, 0)
           e1 == Ext(s, 1)
           e2 == Ext(s, 2)
           t0 == Stride(s, 0)
           t1 == Stride(s, 1)
           t2 == Stride(s, 2)
           rp == RowPitch(s)
           sp == SlicePitch(s)
<1>1. /\ e0 \in Nat /\ e0 >= 1 /\ e1 \in Nat /\ e1 >= 1 /\ e2 \in Nat /\ e2 >= 1
      /\ t0 \in Nat /\ t1 \in Nat /\ t2 \in Nat /\ s.offset \in Nat
  BY RectAxes, ShapeTyped
<1>2. rp \in Nat /\ rp >= 1 /\ (e1 > 1 => rp = t1) /\ (e1 = 1 => rp = e0)
  BY <1>1 DEF RowPitch, HasRect
<1>3. /\ sp >= w(rp * e1) /\ (e2 > 1 => sp = t2) /\ (e2 = 1 => sp = w(rp * e1))
      /\ (e0 > 1 => t0 = 1)
  BY <1>1 DEF SlicePitch, HasRect
<1>4. s.offset + (e2 - 1) * t2 + (e1 - 1) * t1 + (e0 - 1) * t0 < n
  BY RectReach
<1>5. (e2 * e1) * e0 < Wrap
  BY RectAxes
<1> HIDE DEF e0, e1, e2, t0, t1, t2, rp, sp
<1>6. rp * e1 \in Nat /\ rp * e1 >= 1 /\ rp * e1 < Wrap
  <2>1. CASE e1 = 1
    <3>1. rp * e1 = e0
      BY <1>1, <1>2, <2>1
    <3>2. e0 <= (e2 * e1) * e0
      <4>1. (e2 * e1) * e0 = e2 * e0
        BY <2>1, <1>1
      <4>2. e2 * e0 = e0 + (e2 - 1) * e0
        BY <1>1
      <4>3. (e2 - 1) * e0 >= 0
        BY <1>1
      <4> DEFINE p == (e2 - 1) * e0
      <4>4. p \in Int
        BY <1>1
      <4> HIDE DEF p
      <4> QED  BY <4>1, <4>2, <4>3, <4>4, <1>1 DEF p
    <3> DEFINE p == (e2 * e1) * e0
    <3>3. p \in Int
      BY <1>1
    <3> HIDE DEF p
    <3> QED  BY <3>1, <3>2, <3>3, <1>1, <1>5, GridsAssumption DEF p
  <2>2. CASE e1 > 1
    <3> DEFINE p == (e1 - 1) * t1
               q == (e2 - 1) * t2
               r == (e0 - 1) * t0
    <3>1. p \in Nat /\ q \in Nat /\ r \in Nat
      <4>1. e1 - 1 \in Nat /\ e2 - 1 \in Nat /\ e0 - 1 \in Nat
        BY <1>1
      <4> QED  BY <4>1, <1>1
    <3>2. rp * e1 = p + t1
      BY <1>1, <1>2, <2>2
    <3>3. t1 <= p
      <4>1. p = t1 + (e1 - 2) * t1
        BY <1>1
      <4>2. e1 - 2 \in Nat
        BY <1>1, <2>2
      <4>3. (e1 - 2) * t1 \in Nat
        BY <1>1, <4>2
      <4> DEFINE z == (e1 - 2) * t1
      <4> HIDE DEF z, p
      <4> QED  BY <4>1, <4>3, <1>1, <3>1 DEF z
    <3>4. t1 >= 1
      BY <1>2, <2>2
    <3> DEFINE y == rp * e1
    <3> HIDE DEF p, q, r, y
    <3>5. p < n
      BY <1>1, <1>4, <3>1 DEF p, q, r
    <3>6. y = p + t1
      BY <3>2 DEF y
    <3>7. y \in Nat /\ y >= 1 /\ y < Wrap
      BY <3>1, <3>3, <3>4, <3>5, <3>6, <1>1, GridsAssumption
    <3> QED  BY <3>7 DEF y
  <2> QED  BY <1>1, <2>1, <2>2
<1>7. w(rp * e1) = rp * e1
  <2> DEFINE y == rp * e1
  <2> HIDE DEF y
  <2>1. y \in Nat /\ y < Wrap /\ Wrap \in Nat /\ Wrap > 0
    BY <1>6, GridsAssumption DEF y
  <2>2. w(y) = y
    BY <2>1, Wrapping
  <2> QED  BY <2>2 DEF y
<1>8. sp \in Nat /\ sp >= 1
  <2> DEFINE y == rp * e1
  <2>1. y \in Nat /\ y >= 1 /\ sp >= y /\ (e2 > 1 => sp = t2) /\ (e2 = 1 => sp = y)
    BY <1>3, <1>6, <1>7
  <2> HIDE DEF y
  <2> QED  BY <1>1, <2>1
<1> QED  BY <1>2, <1>3, <1>8 DEF e0, e1, e2, t0, t1, t2, rp, sp


\* The index of the axis that is so many from the fastest, counting row by row.
Digit(s, m, b) ==
  CASE b = 0 -> (m \div 1) % Ext(s, 0)
    [] b = 1 -> (m \div Ext(s, 0)) % Ext(s, 1)
    [] b = 2 -> (m \div (Ext(s, 1) * Ext(s, 0))) % Ext(s, 2)

\* An axis of extent 1 is never stepped along.
LEMMA DigitTyped ==
  ASSUME NEW s, IsShape(s), Total(s.ext) < Wrap, HasRect(s), NEW m \in Nat, NEW b \in 0..2
  PROVE  Digit(s, m, b) \in Nat /\ (Ext(s, b) = 1 => Digit(s, m, b) = 0)
<1> DEFINE e0 == Ext(s, 0)
           e1 == Ext(s, 1)
           under == IF b = 0 THEN 1 ELSE IF b = 1 THEN e0 ELSE e1 * e0
           e == Ext(s, b)
<1>1. /\ e0 \in Nat /\ e0 >= 1 /\ e1 \in Nat /\ e1 >= 1 /\ e \in Nat /\ e >= 1
  BY RectAxes
<1>2. Digit(s, m, b) = (m \div under) % e
  <2>1. CASE b = 0
    BY <2>1 DEF Digit
  <2>2. CASE b = 1
    BY <2>2 DEF Digit
  <2>3. CASE b = 2
    BY <2>3 DEF Digit
  <2> QED  BY <2>1, <2>2, <2>3
<1>3. under \in Nat /\ under >= 1
  <2> HIDE DEF e0, e1
  <2>1. e1 * e0 \in Nat
    BY <1>1
  <2>2. e1 * e0 = e0 + (e1 - 1) * e0 /\ e1 - 1 \in Nat
    BY <1>1
  <2> DEFINE p == (e1 - 1) * e0
             q == e1 * e0
  <2>3. p \in Nat
    BY <1>1, <2>2
  <2>4. q \in Nat /\ q = e0 + p
    BY <2>1, <2>2
  <2> HIDE DEF p, q
  <2>5. q \in Nat /\ q >= 1
    BY <1>1, <2>3, <2>4
  <2> QED  BY <1>1, <2>5 DEF q
<1> HIDE DEF under, e
<1>4. m \div under \in Nat
  BY <1>3, Division
<1> DEFINE x == m \div under
<1> HIDE DEF x
<1>5. x % e \in 0..(e - 1)
  BY <1>1, <1>4, Division DEF x
<1>6. x % e \in Nat /\ (e = 1 => x % e = 0)
  BY <1>1, <1>5
<1> QED  BY <1>2, <1>6 DEF x, e

\* Shape::for_each_index counts these digits.
LEMMA RectDigits ==
  ASSUME NEW s, IsShape(s), Total(s.ext) < Wrap, HasRect(s), NEW m \in Nat, NEW b \in 0..2
  PROVE  Back(s, Nth(s.ext, m), b) = Digit(s, m, b)
<1> DEFINE n == Len(s.ext)
           at == Nth(s.ext, m)
<1>1. n \in 1..3 /\ s.ext \in [1..n -> Nat]
  BY ShapeTyped, RectAxes
<1>2. \A a \in 0..2 : Ext(s, a) = IF a < n THEN s.ext[n - a] ELSE 1
  BY DEF Ext
<1>3. /\ at[n] = (m \div 1) % s.ext[n]
      /\ n >= 2 => at[n - 1] = (m \div s.ext[n]) % s.ext[n - 1]
      /\ n = 3 => at[1] = (m \div (s.ext[2] * s.ext[3])) % s.ext[1]
  <2> DEFINE e == s.ext
  <2>1. e \in [1..n -> Nat]
    BY <1>1
  <2> HIDE DEF n, e
  <2>2. /\ Nth(e, m)[n] = (m \div 1) % e[n]
        /\ n >= 2 => Nth(e, m)[n - 1] = (m \div e[n]) % e[n - 1]
        /\ n = 3 => Nth(e, m)[1] = (m \div (e[2] * e[3])) % e[1]
    BY <1>1, <2>1, NthDigits
  <2> QED  BY <2>2 DEF e
<1>4. Back(s, at, b) = IF b < n THEN at[n - b] ELSE 0
  BY DEF Back
<1> HIDE DEF n, at
<1>5. CASE b < n
  <2>1. CASE b = 0
    <3>1. 0 < n /\ n - 0 = n
      BY <1>1
    <3> QED  BY <1>2, <1>3, <1>4, <2>1, <3>1 DEF Digit, at
  <2>2. CASE b = 1
    <3>1. 0 < n /\ 1 < n /\ n - 0 = n /\ n >= 2
      BY <1>1, <1>5, <2>2
    <3>2. Ext(s, 0) = s.ext[n] /\ Ext(s, 1) = s.ext[n - 1]
      BY <1>2, <3>1
    <3> QED  BY <1>3, <1>4, <2>2, <3>1, <3>2 DEF Digit, at
  <2>3. CASE b = 2
    <3>1. n = 3 /\ 0 < 3 /\ 1 < 3 /\ 2 < 3 /\ 3 - 0 = 3 /\ 3 - 1 = 2 /\ 3 - 2 = 1
      BY <1>1, <1>5, <2>3
    <3>2. Ext(s, 0) = s.ext[3] /\ Ext(s, 1) = s.ext[2] /\ Ext(s, 2) = s.ext[1]
      BY <1>2, <3>1
    <3> QED  BY <1>3, <1>4, <2>3, <3>1, <3>2 DEF Digit, at
  <2> QED  BY <2>1, <2>2, <2>3
<1>6. CASE ~(b < n)
  <2>1. Ext(s, b) = 1
    BY <1>2, <1>6
  <2>2. Digit(s, m, b) = 0
    BY <2>1, DigitTyped
  <2>3. Back(s, at, b) = 0
    BY <1>4, <1>6
  <2> QED  BY <2>2, <2>3 DEF at
<1> QED  BY <1>5, <1>6

\* The copy of a rectangle reads the view's elements, in row-major order.
LEMMA RectReads ==
  ASSUME NEW s, IsShape(s), Total(s.ext) < Wrap, HasRect(s), NEW n \in Nat, 2 * n < Wrap, Fits(s, n)
  PROVE  RectRead(s) = Gather(s)
<1> DEFINE e0 == Ext(s, 0)
           e1 == Ext(s, 1)
           e2 == Ext(s, 2)
           rp == RowPitch(s)
           sp == SlicePitch(s)
           box == <<e2, e1, e0>>
           x == (s.offset % sp) % rp
           y == (s.offset % sp) \div rp
           z == s.offset \div sp
           place(k) == (z + Nth(box, k - 1)[1]) * sp + (y + Nth(box, k - 1)[2]) * rp + x + Nth(box, k - 1)[3]
<1>1. /\ e0 \in Nat /\ e1 \in Nat /\ e2 \in Nat /\ e0 >= 1 /\ e1 >= 1 /\ e2 >= 1
      /\ Product(s.ext) = (e2 * e1) * e0
  BY RectAxes
<1>2. /\ rp \in Nat /\ rp >= 1 /\ sp \in Nat /\ sp >= 1 /\ s.offset \in Nat
      /\ e1 > 1 => rp = Stride(s, 1)
      /\ e2 > 1 => sp = Stride(s, 2)
      /\ e0 > 1 => Stride(s, 0) = 1
  BY RectPitches, ShapeTyped
<1>3. RectRead(s) = [k \in 1..((e0 * e1) * e2) |-> place(k)]
  BY DEF RectRead, Rect
<1>4. (e0 * e1) * e2 = Product(s.ext)
  <2> HIDE DEF e0, e1, e2
  <2> QED  BY <1>1
<1>5. /\ x \in Nat /\ y \in Nat /\ z \in Nat
      /\ s.offset = z * sp + y * rp + x
  <2> DEFINE r == s.offset % sp
             off == s.offset
  <2> HIDE DEF e0, e1, e2, rp, sp, off
  <2>1. r \in 0..(sp - 1) /\ z \in Nat /\ off = r + sp * z
    BY <1>2, Division DEF off
  <2>2. r \in Nat
    BY <1>2, <2>1
  <2> HIDE DEF r
  <2>3. r % rp \in 0..(rp - 1) /\ r \div rp \in Nat /\ r = (r % rp) + rp * (r \div rp)
    BY <1>2, <2>2, Division
  <2>4. x = r % rp /\ y = r \div rp
    BY DEF r
  <2>5. x \in Nat /\ y \in Nat /\ r = x + rp * y
    BY <1>2, <2>3, <2>4
  <2> HIDE DEF x, y, z
  <2>6. off = z * sp + y * rp + x
    BY <1>2, <2>1, <2>5
  <2> QED  BY <2>1, <2>5, <2>6 DEF off
<1>6. ASSUME NEW k \in 1..Product(s.ext) PROVE place(k) = Element(s, Nth(s.ext, k - 1))
  <2> DEFINE d(b) == Digit(s, k - 1, b)
             t(b) == Stride(s, b)
             i == Nth(s.ext, k - 1)
  <2>1. k - 1 \in Nat
    <3>1. Product(s.ext) \in Int
      BY <1>1
    <3> QED  BY <3>1
  <2>2. /\ Nth(box, k - 1)[3] = d(0) /\ Nth(box, k - 1)[2] = d(1) /\ Nth(box, k - 1)[1] = d(2)
    <3> DEFINE three == 3
    <3> HIDE DEF e0, e1, e2
    <3>1. three \in 1..3 /\ box \in [1..three -> Nat] /\ three = 3 /\ three >= 2 /\ three - 1 = 2
      BY <1>1
    <3>2. box[1] = e2 /\ box[2] = e1 /\ box[3] = e0
      OBVIOUS
    <3> HIDE DEF box, three
    <3>3. /\ Nth(box, k - 1)[three] = ((k - 1) \div 1) % box[three]
          /\ Nth(box, k - 1)[three - 1] = ((k - 1) \div box[three]) % box[three - 1]
          /\ Nth(box, k - 1)[1] = ((k - 1) \div (box[2] * box[3])) % box[1]
      BY <3>1, NthDigits
    <3>4. /\ Nth(box, k - 1)[3] = ((k - 1) \div 1) % e0
          /\ Nth(box, k - 1)[2] = ((k - 1) \div e0) % e1
          /\ Nth(box, k - 1)[1] = ((k - 1) \div (e1 * e0)) % e2
      BY <3>1, <3>2, <3>3
    <3> QED  BY <3>4 DEF Digit, e0, e1, e2
  <2>3. Back(s, i, 0) = d(0) /\ Back(s, i, 1) = d(1) /\ Back(s, i, 2) = d(2)
    BY <2>1, RectDigits
  <2>4. i \in [Axes(s) -> Nat]
    <3> DEFINE l == Len(s.ext)
    <3>1. l \in 1..3 /\ Axes(s) = 1..l /\ DOMAIN s.ext = 1..l
      BY RectAxes, ShapeTyped
    <3>2. ASSUME NEW a \in 1..l PROVE i[a] \in Nat
      <4>1. l - a \in 0..2 /\ l - a < l /\ l - (l - a) = a
        <5> HIDE DEF l
        <5> QED  BY <3>1
      <4>2. Back(s, i, l - a) = i[a]
        BY <4>1 DEF Back
      <4>3. Back(s, i, l - a) = Digit(s, k - 1, l - a)
        <5> HIDE DEF l
        <5> QED  BY <2>1, <4>1, RectDigits
      <4>4. Digit(s, k - 1, l - a) \in Nat
        <5> HIDE DEF l
        <5> QED  BY <2>1, <4>1, DigitTyped
      <4> QED  BY <4>2, <4>3, <4>4
    <3>3. DOMAIN i = 1..l /\ i = [a \in 1..l |-> i[a]]
      BY <3>1 DEF Nth
    <3> HIDE DEF i, l
    <3> QED  BY <3>1, <3>2, <3>3
  <2>5. Element(s, i) = s.offset + d(2) * t(2) + d(1) * t(1) + d(0) * t(0)
    <3> HIDE DEF i, d
    <3>1. Len(s.ext) \in 1..3
      BY RectAxes
    <3>2. Element(s, i) = s.offset + Back(s, i, 2) * Stride(s, 2)
                           + Back(s, i, 1) * Stride(s, 1) + Back(s, i, 0) * Stride(s, 0)
      BY <2>4, <3>1, ElementBack
    <3> QED  BY <2>3, <3>2
  <2>6. /\ d(0) \in Nat /\ d(1) \in Nat /\ d(2) \in Nat
        /\ t(0) \in Nat /\ t(1) \in Nat /\ t(2) \in Nat
        /\ e0 = 1 => d(0) = 0
        /\ e1 = 1 => d(1) = 0
        /\ e2 = 1 => d(2) = 0
    BY <2>1, DigitTyped, RectAxes
  <2> HIDE DEF d, t, i, e0, e1, e2, rp, sp, x, y, z, box
  <2>7. /\ e0 > 1 => t(0) = 1
        /\ e1 > 1 => t(1) = rp
        /\ e2 > 1 => t(2) = sp
    BY <1>2 DEF t
  <2>8. d(0) * t(0) = d(0) /\ d(1) * t(1) = d(1) * rp /\ d(2) * t(2) = d(2) * sp
    <3>1. d(0) * t(0) = d(0)
      <4>1. CASE e0 = 1
        <5>1. d(0) = 0 /\ d(0) * t(0) = 0
          BY <2>6, <4>1
        <5> QED  BY <5>1
      <4>2. CASE e0 > 1
        BY <2>6, <2>7, <4>2
      <4> QED  BY <1>1, <4>1, <4>2
    <3>2. d(1) * t(1) = d(1) * rp
      <4>1. CASE e1 = 1
        <5>1. d(1) = 0 /\ d(1) * t(1) = 0 /\ d(1) * rp = 0
          BY <1>2, <2>6, <4>1
        <5> QED  BY <5>1
      <4>2. CASE e1 > 1
        BY <2>6, <2>7, <4>2
      <4> QED  BY <1>1, <4>1, <4>2
    <3>3. d(2) * t(2) = d(2) * sp
      <4>1. CASE e2 = 1
        <5>1. d(2) = 0 /\ d(2) * t(2) = 0 /\ d(2) * sp = 0
          BY <1>2, <2>6, <4>1
        <5> QED  BY <5>1
      <4>2. CASE e2 > 1
        BY <2>6, <2>7, <4>2
      <4> QED  BY <1>1, <4>1, <4>2
    <3> QED  BY <3>1, <3>2, <3>3
  <2>9. (z + d(2)) * sp = z * sp + d(2) * sp /\ (y + d(1)) * rp = y * rp + d(1) * rp
    BY <1>2, <1>5, <2>6
  <2>10. place(k) = (z + d(2)) * sp + (y + d(1)) * rp + x + d(0)
    BY <2>2
  <2> DEFINE p == z * sp
             q == y * rp
             u == d(2) * sp
             v == d(1) * rp
  <2>11. p \in Int /\ q \in Int /\ u \in Int /\ v \in Int
    BY <1>2, <1>5, <2>6
  <2>12. place(k) = p + u + (q + v) + x + d(0)
    BY <2>9, <2>10
  <2>13. Element(s, i) = (p + q + x) + u + v + d(0)
    BY <1>5, <2>5, <2>8
  <2> HIDE DEF p, q, u, v
  <2>14. place(k) = Element(s, i)
    BY <1>5, <2>6, <2>11, <2>12, <2>13
  <2> QED  BY <2>14 DEF i
<1>7. Gather(s) = [k \in 1..Product(s.ext) |-> Element(s, Nth(s.ext, k - 1))]
  BY DEF Gather
<1> HIDE DEF place
<1> QED  BY <1>3, <1>4, <1>6, <1>7

\* A view the code finds a rectangle for is moved by one copy with the elements,
\* and in the order, that a gather of the whole span would give: for every
\* Tensor and every tile in the program.  (Shape::rect, Shape::gather)
THEOREM RectanglesAreViews == Spec => []RectIsView
<1>1. TilesCut => RectIsView
  <2> SUFFICES ASSUME TilesCut,
                      NEW v \in Range(shape) \cup {tile.shape : tile \in tiles}, Fits(v, len), HasRect(v)
               PROVE  RectRead(v) = Gather(v)
    BY DEF RectIsView
  <2>1. len \in Nat /\ 2 * len < Wrap
    BY BuffersFit DEF TilesCut
  <2>2. ViewCounted(v)
    <3>1. CASE v \in Range(shape)
      <4>1. PICK t \in DOMAIN shape : v = shape[t]
        BY <3>1 DEF Range
      <4> QED  BY <4>1 DEF TilesCut
    <3>2. ASSUME NEW tile \in tiles, v = tile.shape PROVE ViewCounted(v)
      <4> DEFINE s == shape[tile.of]
      <4>1. tile.of \in DOMAIN shape /\ ViewCounted(s)
        BY DEF TilesCut
      <4>2. PICK size \in [Axes(s) -> Nat \ {0}] : \A other \in tiles : other.of = tile.of => Cut(other, s, size)
        BY <4>1 DEF TilesCut
      <4> HIDE DEF s
      <4>3. /\ Fits(s, len) /\ ~IsEmpty(s) /\ tile.index \in Coords(Counts(s, size))
            /\ tile = [of |-> tile.of, index |-> tile.index, shape |-> TileAt(s, size, tile.index)]
        BY <4>2 DEF Cut
      <4>4. v = TileAt(s, size, tile.index)
        BY <3>2, <4>3
      <4>5. IsShape(v) /\ Total(v.ext) <= Total(s.ext) /\ IsShape(s)
        BY <2>1, <4>1, <4>2, <4>3, <4>4, TileTyped DEF ViewCounted
      <4>6. Total(v.ext) \in Nat /\ Total(s.ext) \in Nat
        BY <4>5, ShapeTyped, TotalNat
      <4> QED  BY <4>1, <4>5, <4>6, GridsAssumption DEF ViewCounted
    <3> QED  BY <3>1, <3>2
  <2> QED  BY <2>1, <2>2, RectReads DEF ViewCounted
<1> QED  BY <1>1, Cutting, PTL


-----------------------------------------------------------------------------
(* Grids of three axes                                                     *)

\* A volume, face by face.
LEMMA VolumeOfFaces ==
  ASSUME NEW ext \in [1..3 -> Nat]
  PROVE  /\ ext[1] \in Nat /\ ext[2] \in Nat /\ ext[3] \in Nat
         /\ ext[2] * ext[3] \in Nat
         /\ Volume(ext) = ext[1] * (ext[2] * ext[3])
         /\ Volume(ext) \in Nat
<1>1. ext[1] \in Nat /\ ext[2] \in Nat /\ ext[3] \in Nat
  OBVIOUS
<1>2. ASSUME NEW a \in Nat, NEW b \in Nat, NEW c \in Nat
      PROVE  b * c \in Nat /\ a * b * c = a * (b * c) /\ a * b * c \in Nat
  <2>1. b * c \in Nat /\ a * b * c = a * (b * c)
    OBVIOUS
  <2>2. a * (b * c) \in Nat
    BY <2>1
  <2> QED  BY <2>1, <2>2
<1> QED  BY <1>1, <1>2 DEF Volume

\* A place of the grid has a number below the number of places,
LEMMA LinearBounded ==
  ASSUME NEW ext \in [1..3 -> Nat], NEW at,
         at[1] \in 0..(ext[1] - 1), at[2] \in 0..(ext[2] - 1), at[3] \in 0..(ext[3] - 1)
  PROVE  Linear(at, ext) \in 0..(Volume(ext) - 1)
<1>1. at[2] + ext[2] * at[3] \in 0..(ext[2] * ext[3] - 1)
  BY VolumeOfFaces, DigitsBounded
<1>2. at[1] + ext[1] * (at[2] + ext[2] * at[3]) \in 0..(ext[1] * (ext[2] * ext[3]) - 1)
  BY VolumeOfFaces, <1>1, DigitsBounded
<1> QED  BY <1>2, VolumeOfFaces DEF Linear

\* no other place has it,
LEMMA LinearApart ==
  ASSUME NEW ext \in [1..3 -> Nat], NEW at, NEW other,
         at[1] \in 0..(ext[1] - 1), at[2] \in 0..(ext[2] - 1), at[3] \in 0..(ext[3] - 1),
         other[1] \in 0..(ext[1] - 1), other[2] \in 0..(ext[2] - 1), other[3] \in 0..(ext[3] - 1),
         Linear(at, ext) = Linear(other, ext)
  PROVE  at[1] = other[1] /\ at[2] = other[2] /\ at[3] = other[3]
<1> DEFINE rest == at[2] + ext[2] * at[3]
           otherRest == other[2] + ext[2] * other[3]
<1>1. ext[1] \in Nat /\ ext[2] \in Nat /\ rest \in Int /\ otherRest \in Int
  BY VolumeOfFaces, DigitsBounded
<1>2. /\ Digits(Linear(at, ext), ext[1], at[1], rest)
      /\ Digits(Linear(at, ext), ext[1], other[1], otherRest)
  BY <1>1 DEF Linear, Digits
<1>3. at[1] = other[1] /\ rest = otherRest
  <2> HIDE DEF rest, otherRest
  <2> QED  BY <1>1, <1>2, DigitsApart
<1>4. /\ Digits(rest, ext[2], at[2], at[3])
      /\ Digits(rest, ext[2], other[2], other[3])
  BY <1>1, <1>3, VolumeOfFaces DEF Digits
<1>5. at[2] = other[2] /\ at[3] = other[3]
  <2> HIDE DEF rest, otherRest
  <2> QED  BY <1>4, <1>1, DigitsApart
<1> QED  BY <1>3, <1>5

\* and every such number is of a place.
LEMMA LinearExists ==
  ASSUME NEW ext \in [1..3 -> Nat], NEW i \in 0..(Volume(ext) - 1)
  PROVE  \E at \in Items(ext) : i = Linear(at, ext)
<1>1. PICK x \in 0..(ext[1] - 1), r \in 0..(ext[2] * ext[3] - 1) : i = x + ext[1] * r
  <2> DEFINE b == ext[2] * ext[3]
  <2>1. ext[1] \in Nat /\ b \in Nat /\ i \in 0..(ext[1] * b - 1)
    BY VolumeOfFaces
  <2> HIDE DEF b
  <2>2. \E x \in 0..(ext[1] - 1), r \in 0..(b - 1) : i = x + ext[1] * r
    BY <2>1, DigitsExist
  <2> QED  BY <2>2 DEF b
<1>2. PICK y \in 0..(ext[2] - 1), z \in 0..(ext[3] - 1) : r = y + ext[2] * z
  BY VolumeOfFaces, DigitsExist
<1>3. <<x, y, z>> \in Items(ext)
  BY DEF Items
<1>4. i = Linear(<<x, y, z>>, ext)
  BY <1>1, <1>2 DEF Linear
<1> QED  BY <1>3, <1>4

\* A work-item is inside its grid.
LEMMA ItemsTyped ==
  ASSUME NEW g \in [1..3 -> Nat], NEW at \in Items(g)
  PROVE  /\ at[1] \in 0..(g[1] - 1) /\ at[2] \in 0..(g[2] - 1) /\ at[3] \in 0..(g[3] - 1)
         /\ at = <<at[1], at[2], at[3]>>
BY DEF Items

-----------------------------------------------------------------------------
(* What the host checks                                                    *)

\* The product a check computes is the one it means, if that one fits: a first
\* product that wraps is multiplied by 0.
LEMMA CellsAreVolume ==
  ASSUME NEW ext \in [1..3 -> Nat], Volume(ext) < Wrap
  PROVE  Cells(ext) = Volume(ext)
<1>1. Wrap \in Nat /\ Wrap > 0
  BY VolumeOfFaces, GridsAssumption
<1>2. ASSUME NEW a \in Nat, NEW b \in Nat, NEW c \in Nat, a * b * c < Wrap
      PROVE  (((a * b) % Wrap) * c) % Wrap = a * b * c
  <2>1. a * b \in Nat /\ a * b * c \in Nat /\ (a * b) % Wrap \in Nat
    BY <1>1
  <2>2. CASE c = 0
    <3>1. ((a * b) % Wrap) * c = 0 /\ a * b * c = 0
      BY <2>1, <2>2
    <3> QED  BY <3>1, <1>1
  <2>3. CASE c > 0
    <3>1. a * b * (c - 1) >= 0 /\ a * b * (c - 1) = a * b * c - a * b
      BY <2>1, <2>3
    <3>2. a * b < Wrap
      BY <3>1, <1>2, <2>1, <1>1
    <3>3. (a * b) % Wrap = a * b /\ (a * b * c) % Wrap = a * b * c
      BY <3>2, <1>2, <2>1, <1>1
    <3> QED  BY <3>3
  <2> QED  BY <2>2, <2>3
<1> QED  BY <1>2, VolumeOfFaces DEF Cells, Volume, w

\* A grid with its halo is a grid.
LEMMA PaddedTyped ==
  ASSUME NEW g \in Grids, NEW p \in [1..3 -> Nat]
  PROVE  /\ Extents(g) \in [1..3 -> Nat] /\ Padded(g, p) \in [1..3 -> Nat]
         /\ \A i \in 1..3 : Padded(g, p)[i] = Extents(g)[i] + 2 * p[i]
BY GridsAssumption DEF Padded

\* A grid is no larger than the same with its halo.
LEMMA GridInPadded ==
  ASSUME NEW g \in Grids, NEW p \in Pads
  PROVE  Volume(Extents(g)) < Wrap /\ Volume(Padded(g, p)) < Wrap
<1> DEFINE e == Extents(g)
           f == Padded(g, p)
<1>1. /\ e \in [1..3 -> Nat] /\ f \in [1..3 -> Nat]
      /\ \A i \in 1..3 : e[i] <= f[i]
  BY PaddedTyped, GridsAssumption
<1>3. e[2] * e[3] <= f[2] * f[3]
  BY <1>1, ProductsMonotone
<1>4. Volume(e) <= Volume(f)
  <2> HIDE DEF e, f
  <2> QED  BY <1>1, <1>3, ProductsMonotone, VolumeOfFaces
<1>5. Volume(f) < Wrap
  BY CellsFit
<1> QED  BY <1>1, <1>4, <1>5, VolumeOfFaces, GridsAssumption

\* Rows of n elements follow each other without gap or overlap.
LEMMA RowsApart ==
  ASSUME NEW n \in Nat, NEW i \in Nat, NEW j \in Nat, i # j
  PROVE  ((i * n)..((i + 1) * n - 1)) \cap ((j * n)..((j + 1) * n - 1)) = {}
<1>1. ASSUME NEW k \in Nat, NEW m \in Nat, k < m
      PROVE  (k + 1) * n <= m * n
  <2>1. (m - k - 1) * n >= 0 /\ (m - k - 1) * n = m * n - (k + 1) * n
    BY <1>1
  <2>2. m * n \in Int /\ (k + 1) * n \in Int
    OBVIOUS
  <2> QED  BY <2>1, <2>2
<1>2. i * n \in Int /\ (i + 1) * n \in Int /\ j * n \in Int /\ (j + 1) * n \in Int
  OBVIOUS
<1>3. i < j \/ j < i
  OBVIOUS
<1>4. (i + 1) * n <= j * n \/ (j + 1) * n <= i * n
  BY <1>1, <1>3
<1> QED  BY <1>2, <1>4

\* The rows of a buffer are inside it.
LEMMA RowsInside ==
  ASSUME NEW n \in Nat, NEW rows \in Nat, NEW i \in 0..(rows - 1)
  PROVE  (i * n)..((i + 1) * n - 1) \subseteq 0..(rows * n - 1)
<1>1. /\ (rows - 1 - i) * n >= 0 /\ (rows - 1 - i) * n = rows * n - (i + 1) * n
      /\ i * n >= 0
  OBVIOUS
<1>2. rows * n \in Int /\ (i + 1) * n \in Int /\ i * n \in Int
  OBVIOUS
<1> QED  BY <1>1, <1>2

\* They cover it.
LEMMA RowsCover ==
  ASSUME NEW n \in Nat, NEW rows \in Nat, NEW e \in 0..(rows * n - 1)
  PROVE  \E i \in 0..(rows - 1) : e \in (i * n)..((i + 1) * n - 1)
<1>1. e \in 0..(n * rows - 1)
  OBVIOUS
<1>2. PICK x \in 0..(n - 1), i \in 0..(rows - 1) : e = x + n * i
  BY <1>1, DigitsExist
<1>3. n * i \in Int /\ (i + 1) * n = n * i + n /\ i * n = n * i
  OBVIOUS
<1>4. e \in (i * n)..((i + 1) * n - 1)
  BY <1>2, <1>3
<1> QED  BY <1>4

-----------------------------------------------------------------------------
(* The invariant                                                           *)

\* A launch the host has let through has passed the check of its argument.
LaunchChecked ==
  /\ len \in Nat
  /\ \A l \in launches :
       \E g \in Grids, arg \in Args, p \in Pads :
         /\ l = [grid |-> Extents(g), arg |-> arg, pad |-> p]
         /\ Checked(g, arg, p)

\* A launch the host let through was checked against its buffer.
LEMMA Checking == Spec => []LaunchChecked
<1>1. Init => LaunchChecked
  BY BuffersFit DEF Init, LaunchChecked
<1>2. LaunchChecked /\ [Next]_vars => LaunchChecked'
  <2> SUFFICES ASSUME LaunchChecked, [Next]_vars
               PROVE  LaunchChecked'
    OBVIOUS
  <2>1. len' = len
    BY DEF Next, vars, Tiles, Split, Slice, DropTile, Join, Launch, Retire
  <2>2. ASSUME NEW g \in Grids, NEW arg \in Args, NEW p \in Pads
        PROVE  Checked(g, arg, p)' <=> Checked(g, arg, p)
    BY <2>1 DEF Checked, ItemFits, RowFits, HaloFits, Cells, Extents, Padded, w
  <2>3. CASE launches' = launches
    BY <2>1, <2>2, <2>3 DEF LaunchChecked
  <2>4. CASE launches' = {}
    BY <2>1, <2>4 DEF LaunchChecked
  <2>5. ASSUME NEW g \in Grids, NEW arg \in Args, NEW p \in Pads, Launch(g, arg, p)
        PROVE  LaunchChecked'
    BY <2>1, <2>2, <2>5 DEF LaunchChecked, Launch
  <2> QED  BY <2>3, <2>4, <2>5 DEF Next, vars, Tiles, Split, Slice, DropTile, Join, Retire
<1> QED  BY <1>1, <1>2, PTL DEF Spec

-----------------------------------------------------------------------------
(* Launches, one kind of argument at a time                                *)

\* What ItemsApart says of a launch.
OwnsApart(l) ==
  \A at \in Items(l.grid) :
    /\ Owns(l, at) \subseteq 0..(len - 1)
    /\ \A other \in Items(l.grid) \ {at} : Owns(l, at) \cap Owns(l, other) = {}
OwnsAll(l) == UNION {Owns(l, at) : at \in Items(l.grid)} = 0..(len - 1)
LoadsInside(l) == \A at \in Items(l.grid) : Loads(l, at) \subseteq 0..(len - 1)

\* Two items have different numbers, in the grid and in the grid with its halo.
LEMMA ItemsNumbered ==
  ASSUME NEW g \in Grids, NEW p \in [1..3 -> Nat],
         NEW at \in Items(Extents(g))
  PROVE  /\ Linear(at, Extents(g)) \in 0..(Volume(Extents(g)) - 1)
         /\ Centre(at, Extents(g), p) \in 0..(Volume(Padded(Extents(g), p)) - 1)
         /\ \A other \in Items(Extents(g)) \ {at} :
              /\ Linear(at, Extents(g)) # Linear(other, Extents(g))
              /\ Centre(at, Extents(g), p) # Centre(other, Extents(g), p)
<1> DEFINE e == Extents(g)
           f == Padded(e, p)
           moved(x) == [i \in 1..3 |-> x[i] + p[i]]
<1>1. /\ e \in [1..3 -> Nat] /\ f \in [1..3 -> Nat]
      /\ \A i \in 1..3 : f[i] = e[i] + 2 * p[i]
  <2>1. e \in [1..3 -> Nat] /\ Extents(e) = e
    BY GridsAssumption DEF Extents
  <2> QED  BY <2>1 DEF Padded
<1>2. ASSUME NEW x \in Items(e)
      PROVE  /\ x[1] \in 0..(e[1] - 1) /\ moved(x)[1] \in 0..(f[1] - 1)
             /\ x[2] \in 0..(e[2] - 1) /\ moved(x)[2] \in 0..(f[2] - 1)
             /\ x[3] \in 0..(e[3] - 1) /\ moved(x)[3] \in 0..(f[3] - 1)
  <2>1. x[1] \in 0..(e[1] - 1) /\ x[2] \in 0..(e[2] - 1) /\ x[3] \in 0..(e[3] - 1)
    BY <1>1, ItemsTyped
  <2> QED  BY <2>1, <1>1
<1>3. Linear(at, e) \in 0..(Volume(e) - 1)
  BY <1>1, <1>2, LinearBounded
<1>4. Linear(moved(at), f) \in 0..(Volume(f) - 1)
  <2>0. at \in Items(e)
    OBVIOUS
  <2> HIDE DEF f, e, moved
  <2> QED  BY <2>0, <1>1, <1>2, LinearBounded
<1>5. ASSUME NEW other \in Items(e) \ {at}
      PROVE  Linear(at, e) # Linear(other, e) /\ Linear(moved(at), f) # Linear(moved(other), f)
  <2>1. at[1] # other[1] \/ at[2] # other[2] \/ at[3] # other[3]
    BY <1>1, <1>5, ItemsTyped
  <2>2. Linear(at, e) # Linear(other, e)
    BY <1>1, <1>2, <2>1, LinearApart
  <2>3. /\ moved(at)[1] # moved(other)[1] \/ moved(at)[2] # moved(other)[2] \/ moved(at)[3] # moved(other)[3]
    BY <1>1, <1>2, <2>1
  <2>4. Linear(moved(at), f) # Linear(moved(other), f)
    <3>0. at \in Items(e) /\ other \in Items(e)
      BY <1>5
    <3> HIDE DEF f, e, moved
    <3> QED  BY <3>0, <1>1, <1>2, <2>3, LinearApart
  <2> QED  BY <2>2, <2>4
<1> QED  BY <1>3, <1>4, <1>5 DEF Centre

\* An item, a row and an interior cell belong to one work-item.
LEMMA ItemLaunch ==
  ASSUME NEW g \in Grids, NEW p \in Pads, NEW l,
         l = [grid |-> Extents(g), arg |-> "item", pad |-> p], ItemFits(g, len)
  PROVE  OwnsApart(l) /\ OwnsAll(l)
<1>1. Extents(g) \in [1..3 -> Nat] /\ p \in [1..3 -> Nat]
  BY GridsAssumption
<1>2. len = Volume(Extents(g))
  BY <1>1, GridInPadded, CellsAreVolume DEF ItemFits
<1>3. \A at : Owns(l, at) = {Linear(at, l.grid)}
  BY DEF Owns
<1>4. OwnsApart(l)
  BY <1>1, <1>2, <1>3, ItemsNumbered DEF OwnsApart
<1>5. \A i \in 0..(len - 1) : \E at \in Items(l.grid) : i \in Owns(l, at)
  BY <1>1, <1>2, <1>3, LinearExists
<1> QED  BY <1>4, <1>5 DEF OwnsAll, OwnsApart

\* PerRow: each work-item owns a row of its own.
LEMMA RowLaunch ==
  ASSUME NEW g \in Grids, NEW p \in Pads, NEW l,
         l = [grid |-> Extents(g), arg |-> "row", pad |-> p], RowFits(g, len), len \in Nat
  PROVE  OwnsApart(l) /\ OwnsAll(l)
<1> DEFINE rows == Volume(Extents(g))
           n == len \div rows
           row(i) == (i * n)..((i + 1) * n - 1)
<1>1. Extents(g) \in [1..3 -> Nat] /\ p \in [1..3 -> Nat] /\ rows \in Nat
  BY GridsAssumption, VolumeOfFaces
<1>2. rows # 0 /\ len % rows = 0
  BY <1>1, GridInPadded, CellsAreVolume DEF RowFits
<1>3. n \in Nat /\ len = rows * n
  <2> HIDE DEF rows
  <2> QED  BY <1>1, <1>2
<1>4. \A at : Owns(l, at) = row(Linear(at, l.grid))
  BY DEF Owns
<1>5. \A at \in Items(l.grid) :
        /\ Linear(at, l.grid) \in 0..(rows - 1)
        /\ \A other \in Items(l.grid) \ {at} : Linear(at, l.grid) # Linear(other, l.grid)
  BY <1>1, ItemsNumbered
<1> HIDE DEF rows, n
<1>6. \A i \in 0..(rows - 1) :
        /\ row(i) \subseteq 0..(len - 1)
        /\ \A j \in 0..(rows - 1) : i # j => row(i) \cap row(j) = {}
  BY <1>1, <1>3, RowsInside, RowsApart
<1>7. \A e \in 0..(len - 1) : \E i \in 0..(rows - 1) : e \in row(i)
  BY <1>1, <1>3, RowsCover
<1>8. \A i \in 0..(rows - 1) : \E at \in Items(l.grid) : i = Linear(at, l.grid)
  BY <1>1, LinearExists DEF rows
<1> HIDE DEF row
<1>9. OwnsApart(l)
  BY <1>4, <1>5, <1>6 DEF OwnsApart
<1>10. \A e \in 0..(len - 1) : \E at \in Items(l.grid) : e \in Owns(l, at)
  BY <1>4, <1>7, <1>8
<1> QED  BY <1>9, <1>10 DEF OwnsAll, OwnsApart

\* Interior: each work-item owns a cell of its own, inside the halo.
LEMMA InteriorLaunch ==
  ASSUME NEW g \in Grids, NEW p \in Pads, NEW l,
         l = [grid |-> Extents(g), arg |-> "interior", pad |-> p], HaloFits(g, len, p)
  PROVE  OwnsApart(l)
<1>1. Extents(g) \in [1..3 -> Nat] /\ p \in [1..3 -> Nat] /\ Padded(g, p) \in [1..3 -> Nat]
  BY GridsAssumption, PaddedTyped
<1>2. len = Volume(Padded(g, p))
  BY <1>1, GridInPadded, CellsAreVolume DEF HaloFits
<1>3. Padded(Extents(g), p) = Padded(g, p)
  BY <1>1 DEF Padded, Extents
<1>4. \A at : Owns(l, at) = {Centre(at, l.grid, l.pad)}
  BY DEF Owns
<1> QED  BY <1>1, <1>2, <1>3, <1>4, ItemsNumbered DEF OwnsApart

\* A stencil loads inside its buffer: each axis stays inside, whatever the
\* offset Boundary::axis lets through.
LEMMA StencilLaunch ==
  ASSUME NEW g \in Grids, NEW p \in Pads, NEW arg \in {"halo", "periodic", "clamped"}, NEW l,
         l = [grid |-> Extents(g), arg |-> arg, pad |-> p], Checked(g, arg, p)
  PROVE  OwnsApart(l) /\ LoadsInside(l)
<1> DEFINE e == Extents(g)
           ext == IF arg = "halo" THEN Padded(e, p) ELSE e
           axis(at, off, i) == CASE l.arg = "halo" -> Shifted(at[i], off[i], l.pad[i])
                                 [] l.arg = "periodic" -> Wrapped(at[i], off[i], l.grid[i])
                                 [] l.arg = "clamped" -> Clamped(at[i], off[i], l.grid[i])
<1>1. /\ e \in [1..3 -> Nat] /\ p \in [1..3 -> Nat] /\ ext \in [1..3 -> Nat]
      /\ Padded(e, p) = Padded(g, p) /\ Padded(g, <<0, 0, 0>>) = e
      /\ \A i \in 1..3 : Padded(e, p)[i] = e[i] + 2 * p[i]
  <2>1. e \in [1..3 -> Nat] /\ p \in [1..3 -> Nat] /\ Extents(e) = e
    BY GridsAssumption DEF Extents
  <2>2. Padded(e, p) = Padded(g, p) /\ Padded(e, p) \in [1..3 -> Nat]
    BY <2>1 DEF Padded
  <2>3. Padded(g, <<0, 0, 0>>) = [i \in 1..3 |-> e[i]]
    BY <2>1 DEF Padded
  <2>4. Padded(g, <<0, 0, 0>>) = e
    BY <2>1, <2>3
  <2> QED  BY <2>1, <2>2, <2>4 DEF Padded
<1>2. len = Volume(ext)
  <2>1. CASE arg = "halo"
    <3>1. HaloFits(g, len, p) /\ ext = Padded(g, p)
      BY <1>1, <2>1 DEF Checked
    <3> QED  BY <1>1, <3>1, GridInPadded, CellsAreVolume DEF HaloFits
  <2>2. CASE arg # "halo"
    <3>1. HaloFits(g, len, <<0, 0, 0>>) /\ ext = e
      BY <2>2 DEF Checked
    <3> QED  BY <1>1, <3>1, GridInPadded, CellsAreVolume DEF HaloFits
  <2> QED  BY <2>1, <2>2
<1>3. ASSUME NEW at \in Items(l.grid), NEW off, NEW i \in 1..3, off[i] \in Offsets(l, i)
      PROVE  axis(at, off, i) \in 0..(ext[i] - 1)
  <2>1. at[i] \in 0..(e[i] - 1) /\ e[i] \in Nat /\ p[i] \in Nat
    BY <1>1, ItemsTyped
  <2>2. CASE arg = "halo"
    BY <1>1, <1>3, <2>1, <2>2 DEF Offsets, Reach, Shifted
  <2>3. CASE arg = "periodic"
    BY <1>1, <1>3, <2>1, <2>3 DEF Offsets, Reach, Wrapped
  <2>4. CASE arg = "clamped"
    BY <1>1, <1>3, <2>1, <2>4 DEF Offsets, Reach, Clamped
  <2> QED  BY <2>2, <2>3, <2>4
<1>4. ASSUME NEW at \in Items(l.grid),
             NEW dx \in Offsets(l, 1), NEW dy \in Offsets(l, 2), NEW dz \in Offsets(l, 3)
      PROVE  Load(l, at, <<dx, dy, dz>>) \in 0..(len - 1)
  <2> DEFINE off == <<dx, dy, dz>>
             place == [i \in 1..3 |-> axis(at, off, i)]
  <2>1. off[1] \in Offsets(l, 1) /\ off[2] \in Offsets(l, 2) /\ off[3] \in Offsets(l, 3)
    OBVIOUS
  <2>2. Load(l, at, off) = Linear(place, ext)
    BY DEF Load
  <2> HIDE DEF off, axis, ext
  <2>3. place[1] \in 0..(ext[1] - 1) /\ place[2] \in 0..(ext[2] - 1) /\ place[3] \in 0..(ext[3] - 1)
    BY <1>3, <2>1
  <2> HIDE DEF place
  <2>4. Linear(place, ext) \in 0..(Volume(ext) - 1)
    BY <1>1, <2>3, LinearBounded
  <2> QED  BY <2>2, <2>4, <1>2 DEF off
<1>5. LoadsInside(l)
  <2> SUFFICES ASSUME NEW at \in Items(l.grid), NEW i \in Loads(l, at)
               PROVE  i \in 0..(len - 1)
    BY DEF LoadsInside
  <2>1. PICK dx \in Offsets(l, 1), dy \in Offsets(l, 2), dz \in Offsets(l, 3) :
          i = Load(l, at, <<dx, dy, dz>>)
    BY DEF Loads
  <2> QED  BY <2>1, <1>4
<1>6. \A at : Owns(l, at) = {}
  BY DEF Owns
<1> QED  BY <1>5, <1>6 DEF OwnsApart

-----------------------------------------------------------------------------
(* Theorem                                                                 *)

\* Whatever the grids, the halos and the lengths of buffers, a launch the host
\* let through (check_per_item_grid, check_row_grid, check_halo_grid) needs no
\* bounds check on the device, and no two of its work-items own one element.
THEOREM LaunchesApart == Spec => []ItemsApart
<1>1. LaunchChecked => ItemsApart
  <2> SUFFICES ASSUME LaunchChecked, NEW l \in launches
               PROVE  /\ OwnsApart(l)
                      /\ l.arg \in {"item", "row"} => OwnsAll(l)
                      /\ l.arg \in {"halo", "periodic", "clamped"} => LoadsInside(l)
    BY DEF ItemsApart, OwnsApart, OwnsAll, LoadsInside
  <2>1. PICK g \in Grids, arg \in Args, p \in Pads :
          /\ l = [grid |-> Extents(g), arg |-> arg, pad |-> p]
          /\ Checked(g, arg, p)
    BY DEF LaunchChecked
  <2>2. l.arg = arg /\ len \in Nat
    BY <2>1 DEF LaunchChecked
  <2>3. CASE arg = "item"
    BY <2>1, <2>2, <2>3, ItemLaunch DEF Checked
  <2>4. CASE arg = "row"
    BY <2>1, <2>2, <2>4, RowLaunch DEF Checked
  <2>5. CASE arg = "interior"
    BY <2>1, <2>2, <2>5, InteriorLaunch DEF Checked
  <2>6. CASE arg \in {"halo", "periodic", "clamped"}
    BY <2>1, <2>2, <2>6, StencilLaunch
  <2> QED  BY <2>3, <2>4, <2>5, <2>6 DEF Args
<1> QED  BY <1>1, Checking, PTL

=============================================================================
