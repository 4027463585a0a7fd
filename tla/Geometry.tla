------------------------------ MODULE Geometry ------------------------------
(***************************************************************************)
(* Tensor views, the tiles a view is split into, the rectangle copies that *)
(* move a view, and the checks a launch makes before a kernel runs without *)
(* bounds checks.  (src/claspr/src/tensor.rs, src/claspr/src/launch.rs,    *)
(* and the device side that src/claspr-build/src/lib.rs writes into every  *)
(* kernel crate)                                                           *)
(*                                                                         *)
(* Sizes are usize: where the code does not use checked arithmetic they    *)
(* wrap at Wrap.  Axes are 1..R, the last one fastest.  A program without  *)
(* Tensors launches grids over a buffer.                                   *)
(***************************************************************************)
EXTENDS Integers, Sequences, FiniteSets, SequencesExt, FiniteSetsExt

CONSTANTS
  Wrap,      \* 2^w, the number of values of a usize
  Lens,      \* the lengths of buffers
  Tensors,   \* the Tensors of a program, each over a buffer of its own
  Views,     \* the programs' views: a Shape for each Tensor a program has
  TileSizes, \* the sizes a caller asks tiles to have, on an axis
  Grids,     \* the grids of launches: 1 to 3 extents
  Pads       \* the halos of stencils: 3 radii

\* A buffer has at most isize::MAX bytes.
ASSUME BuffersFit == \A n \in Lens : n \in Nat /\ 2 * n < Wrap

VARIABLES
  len,     \* the number of elements of each buffer
  shape,   \* the view of each Tensor, and of the TileSet it was split into
  whole,   \* the Tensors the program holds; the others are split, or gone
  tiles,   \* the Tiles alive, in the program or in a graph: [of, index, shape]
  launches \* the launch the host has let through, if any: [grid, arg, pad]

vars == <<len, shape, whole, tiles, launches>>

None == -1
w(n) == n % Wrap
Axes(s) == DOMAIN s.ext
Coords(ext) ==
  {i \in [DOMAIN ext -> UNION {0..(ext[d] - 1) : d \in DOMAIN ext}] : \A d \in DOMAIN ext : i[d] < ext[d]}

\* Loops over the axes of a sequence: a sum, a product and one that wraps.
Sum(q) == LET f[k \in 0..Len(q)] == IF k = 0 THEN 0 ELSE f[k - 1] + q[k] IN f[Len(q)]
Total(q) == LET f[k \in 0..Len(q)] == IF k = 0 THEN 1 ELSE f[k - 1] * q[k] IN f[Len(q)]
Product(q) == LET f[k \in 0..Len(q)] == IF k = 0 THEN 1 ELSE w(f[k - 1] * q[k]) IN f[Len(q)]

-----------------------------------------------------------------------------
(* Shape                                                                   *)

IsShape(s) ==
  /\ s \in [offset : Nat, ext : Seq(Nat), stride : Seq(Nat)]
  /\ Len(s.stride) = Len(s.ext)
IsEmpty(s) == Product(s.ext) = 0
Element(s, idx) == s.offset + Sum([d \in Axes(s) |-> idx[d] * s.stride[d]])
Elements(s) == {Element(s, i) : i \in Coords(s.ext)}

\* The largest index a view touches; None for an empty one, or on overflow.
MaxIndex(s) ==
  LET reach == Element(s, [d \in Axes(s) |-> s.ext[d] - 1])
  IN IF IsEmpty(s) \/ reach >= Wrap THEN None ELSE reach

\* What Shape::slice makes of one axis.
Narrowed(s, d, from, to) ==
  [offset |-> w(s.offset + from * s.stride[d]), ext |-> [s.ext EXCEPT ![d] = to - from],
   stride |-> s.stride]

\* The k-th index in row-major order, from 0: what for_each_index counts up to,
\* and the loop over the tiles of a split.
Nth(ext, k) ==
  [d \in DOMAIN ext |-> (k \div Total(SubSeq(ext, d + 1, Len(ext)))) % ext[d]]
Gather(s) == [k \in 1..Product(s.ext) |-> Element(s, Nth(s.ext, k - 1))]

\* A mutant of Injective: it looks for equal strides only.
InjectiveDistinct(s) ==
  \A d, e \in {a \in Axes(s) : s.ext[a] > 1} : d # e => s.stride[d] # s.stride[e]

\* Shape::is_injective.  By rising stride, each axis steps past all that the
\* faster ones reach together.
Wide(s) == {d \in Axes(s) : s.ext[d] > 1}
Faster(s, e, d) == s.stride[e] < s.stride[d] \/ (s.stride[e] = s.stride[d] /\ e < d)
Reached(s, d) == s.stride[d] * (s.ext[d] - 1)
Span(s, d) == 1 + Sum([e \in Axes(s) |-> IF e \in Wide(s) /\ Faster(s, e, d) THEN Reached(s, e) ELSE 0])
Injective(s) == \A d \in Wide(s) : s.stride[d] >= Span(s, d) /\ Span(s, d) + Reached(s, d) < Wrap

\* check_tensor_shape
Fits(s, n) == IsEmpty(s) \/ (MaxIndex(s) # None /\ MaxIndex(s) < n)

-----------------------------------------------------------------------------
(* Shape::rect, in elements, its axes counted from the fastest             *)

Ext(s, back) == IF back < Len(s.ext) THEN s.ext[Len(s.ext) - back] ELSE 1
Stride(s, back) == IF back < Len(s.ext) THEN s.stride[Len(s.ext) - back] ELSE 0
RowPitch(s) == IF Ext(s, 1) > 1 THEN Stride(s, 1) ELSE Ext(s, 0)
SlicePitch(s) == IF Ext(s, 2) > 1 THEN Stride(s, 2) ELSE w(RowPitch(s) * Ext(s, 1))

\* A mutant of HasRect: the innermost axis need not be dense.
HasRectSparse(s) ==
  /\ Len(s.ext) \in 1..3 /\ ~IsEmpty(s)
  /\ RowPitch(s) > 0 /\ RowPitch(s) >= Ext(s, 0)
  /\ SlicePitch(s) >= w(RowPitch(s) * Ext(s, 1)) /\ SlicePitch(s) % RowPitch(s) = 0

HasRect(s) ==
  /\ Len(s.ext) \in 1..3 /\ ~IsEmpty(s)
  /\ Ext(s, 0) > 1 => Stride(s, 0) = 1
  /\ RowPitch(s) > 0 /\ RowPitch(s) >= Ext(s, 0)
  /\ SlicePitch(s) >= w(RowPitch(s) * Ext(s, 1)) /\ SlicePitch(s) % RowPitch(s) = 0

Rect(s) ==
  [origin |-> <<(s.offset % SlicePitch(s)) % RowPitch(s), (s.offset % SlicePitch(s)) \div RowPitch(s),
                s.offset \div SlicePitch(s)>>,
   region |-> <<Ext(s, 0), Ext(s, 1), Ext(s, 2)>>]

\* What clEnqueueReadBufferRect reads, in the order of the host array.
RectRead(s) ==
  LET o == Rect(s).origin
      r == Rect(s).region
  IN [k \in 1..(r[1] * r[2] * r[3]) |->
        LET at == Nth(<<r[3], r[2], r[1]>>, k - 1)
        IN (o[3] + at[1]) * SlicePitch(s) + (o[2] + at[2]) * RowPitch(s) + o[1] + at[3]]

-----------------------------------------------------------------------------
(* Tensors and Tiles                                                       *)

CeilDiv(a, b) == (a + b - 1) \div b
Smaller(a, b) == IF a <= b THEN a ELSE b
Larger(a, b) == IF a >= b THEN a ELSE b

\* The tile at a position of the grid of tiles.
TileAt(s, size, index) ==
  LET view[k \in 0..Len(s.ext)] ==
        IF k = 0 THEN s
        ELSE Narrowed(view[k - 1], k, index[k] * size[k], Smaller((index[k] + 1) * size[k], s.ext[k]))
  IN view[Len(s.ext)]

\* How many tiles each axis is cut into.
Counts(s, size) == [d \in Axes(s) |-> CeilDiv(s.ext[d], size[d])]

\* Tensor::tiles: refused, the tensor is gone; an empty view has no tile, and
\* is gone too.
Tiles(t, size) ==
  LET s == shape[t] IN
  /\ t \in whole
  /\ whole' = whole \ {t}
  /\ tiles' = IF 0 \notin Range(size) /\ Fits(s, len) /\ Injective(s) /\ ~IsEmpty(s)
              THEN tiles \cup {[of |-> t, index |-> i, shape |-> TileAt(s, size, i)] :
                                  i \in Coords(Counts(s, size))}
              ELSE tiles
  /\ UNCHANGED <<len, shape, launches>>

\* Tensor::split: refused like a size of 0, the tensor gone, for 0 parts.
PartSize(s, parts) == [d \in Axes(s) |-> Larger(CeilDiv(s.ext[d], parts[d]), 1)]
Split(t, parts) == Tiles(t, IF 0 \in Range(parts) THEN parts ELSE PartSize(shape[t], parts))

\* A view of a whole tensor is narrowed, within the assert of Shape::slice.
Slice(t, d, from, to) ==
  /\ t \in whole
  /\ d \in Axes(shape[t]) /\ from <= to /\ to <= shape[t].ext[d]
  /\ shape' = [shape EXCEPT ![t] = Narrowed(@, d, from, to)]
  /\ UNCHANGED <<len, whole, tiles, launches>>

\* The program drops a tile, and its share of the TileSet.
DropTile(tile) ==
  /\ tile \in tiles
  /\ tiles' = tiles \ {tile}
  /\ UNCHANGED <<len, shape, whole, launches>>

Siblings(tile) == {other \in tiles : other.of = tile.of}

\* Tile::join asks that the tiles have one TileSet, which has no other owner.
Joins(given) ==
  \E first \in given :
    /\ \A tile \in given : tile.of = first.of
    /\ Cardinality(Siblings(first)) = Cardinality(given)

\* Tile::join: the tensor of the first tile, or the tiles handed back.
Join(given) ==
  /\ given # {} /\ given \subseteq tiles /\ Joins(given)
  /\ \E first \in given : whole' = whole \cup {first.of}
  /\ tiles' = tiles \ given
  /\ UNCHANGED <<len, shape, launches>>

-----------------------------------------------------------------------------
(* Launches                                                                *)

\* The three extents of a grid, x first, and with its halo.
Extents(g) == [i \in 1..3 |-> IF i <= Len(g) THEN g[i] ELSE 1]
Padded(g, p) == [i \in 1..3 |-> Extents(g)[i] + 2 * p[i]]

\* The product a check computes, and the one it means.
Cells(ext) == w(w(ext[1] * ext[2]) * ext[3])
Volume(ext) == ext[1] * ext[2] * ext[3]

ASSUME ViewsAssumption ==
  /\ TileSizes \subseteq Nat
  /\ \A v \in Views : \A t \in DOMAIN v : IsShape(v[t])
ASSUME GridsAssumption ==
  /\ Wrap \in Nat
  /\ \A g \in Grids : Extents(g) \in [1..3 -> Nat]
  /\ Pads \subseteq [1..3 -> Nat]

\* A grid, with its halo, and a view have no more cells than a usize counts:
\* the products the checks compute do not wrap.
ASSUME CellsFit ==
  /\ \A g \in Grids, p \in Pads : Volume(Padded(g, p)) < Wrap
  /\ \A v \in Views : \A t \in DOMAIN v : Total(v[t].ext) < Wrap

\* A mutant of RowFits: the rows need not be equal.
RowFitsRagged(g, n) == Cells(Extents(g)) # 0

\* check_per_item_grid, check_row_grid and check_halo_grid
ItemFits(g, n) == Cells(Extents(g)) = n
RowFits(g, n) == Cells(Extents(g)) # 0 /\ n % Cells(Extents(g)) = 0
HaloFits(g, n, p) == Cells(Padded(g, p)) = n

\* What each kind of argument is checked for, before the enqueue.
Checked(g, arg, p) ==
  CASE arg = "item" -> ItemFits(g, len)
    [] arg = "row"  -> RowFits(g, len)
    [] arg \in {"halo", "interior"} -> HaloFits(g, len, p)
    [] arg \in {"periodic", "clamped"} -> HaloFits(g, len, <<0, 0, 0>>)

Launch(g, arg, p) ==
  /\ DOMAIN shape = {} /\ launches = {} /\ Checked(g, arg, p)
  /\ launches' = {[grid |-> Extents(g), arg |-> arg, pad |-> p]}
  /\ UNCHANGED <<len, shape, whole, tiles>>

Retire ==
  /\ launches # {}
  /\ launches' = {}
  /\ UNCHANGED <<len, shape, whole, tiles>>

\* The work-items of a grid of three axes, x first.
Items(g) == {<<x, y, z>> : x \in 0..(g[1] - 1), y \in 0..(g[2] - 1), z \in 0..(g[3] - 1)}
Linear(at, ext) == at[1] + ext[1] * (at[2] + ext[2] * at[3])

\* The cell of a work-item in a buffer with halos.
Centre(at, g, p) == Linear([i \in 1..3 |-> at[i] + p[i]], Padded(g, p))

\* The elements a work-item owns: a PerItem, a PerRow, an Interior.
Owns(l, at) ==
  LET g == l.grid
      n == len \div Volume(g)
      i == Linear(at, g)
  IN CASE l.arg = "item" -> {i}
       [] l.arg = "row" -> (i * n)..((i + 1) * n - 1)
       [] l.arg = "interior" -> {Centre(at, g, l.pad)}
       [] OTHER -> {}

\* Boundary::axis of Padded, Wrap and Clamp, and how far each lets an offset be:
\* to Clamp any offset beyond the grid is like the next one.
Shifted(c, d, p) == c + p + d
Wrapped(c, d, ext) == IF c + d < 0 THEN c + d + ext ELSE IF c + d >= ext THEN c + d - ext ELSE c + d
Clamped(c, d, ext) == IF c + d < 0 THEN 0 ELSE IF c + d >= ext THEN ext - 1 ELSE c + d
Reach(l, i) ==
  CASE l.arg = "halo" -> l.pad[i]
    [] l.arg = "periodic" -> l.grid[i]
    [] l.arg = "clamped" -> l.grid[i] + 1

\* What Stencil::at loads, for a work-item and an offset.
Load(l, at, off) ==
  LET g == l.grid
      axis(i) == CASE l.arg = "halo" -> Shifted(at[i], off[i], l.pad[i])
                   [] l.arg = "periodic" -> Wrapped(at[i], off[i], g[i])
                   [] l.arg = "clamped" -> Clamped(at[i], off[i], g[i])
      ext == IF l.arg = "halo" THEN Padded(g, l.pad) ELSE g
  IN Linear([i \in 1..3 |-> axis(i)], ext)
Offsets(l, i) == (-Reach(l, i))..Reach(l, i)
Loads(l, at) ==
  {Load(l, at, <<dx, dy, dz>>) : dx \in Offsets(l, 1), dy \in Offsets(l, 2), dz \in Offsets(l, 3)}

-----------------------------------------------------------------------------

Init ==
  /\ len \in Lens
  /\ shape \in Views
  /\ whole = DOMAIN shape /\ tiles = {} /\ launches = {}

Sizes(s) == [Axes(s) -> TileSizes]
Args == {"item", "row", "interior", "halo", "periodic", "clamped"}

Next ==
  \/ \E t \in whole : \E size \in Sizes(shape[t]) : Tiles(t, size) \/ Split(t, size)
  \/ \E t \in whole : \E d \in Axes(shape[t]) : \E from, to \in 0..shape[t].ext[d] : Slice(t, d, from, to)
  \/ \E tile \in tiles : DropTile(tile)
  \/ \E given \in SUBSET tiles : Join(given)
  \/ \E g \in Grids, arg \in Args, p \in Pads : Launch(g, arg, p)
  \/ Retire

Spec == Init /\ [][Next]_vars

-----------------------------------------------------------------------------
(* Properties                                                              *)

\* Tiles are written at once, by kernels of graphs that know nothing of each
\* other: no element is in two of them, none is outside the view or the buffer,
\* and no Tensor is back while a tile of it is alive, in a graph say.  (the doc
\* of Tile: "Correct by construction")
TilesApart ==
  \A tile \in tiles :
    /\ Elements(tile.shape) \subseteq Elements(shape[tile.of]) \cap 0..(len - 1)
    /\ tile.of \notin whole
    /\ \A other \in Siblings(tile) \ {tile} : Elements(tile.shape) \cap Elements(other.shape) = {}

\* Where a view in its buffer has a rectangle copy, the copy moves the view's elements in the
\* order gather reads them, so a download does not depend on which was taken.
RectIsView ==
  \A s \in Range(shape) \cup {tile.shape : tile \in tiles} :
    Fits(s, len) /\ HasRect(s) => RectRead(s) = Gather(s)

\* A launch the host let through needs no bounds check on the device: what two
\* work-items own is inside the buffer and disjoint, and every element is owned
\* where the argument promises it; what a stencil loads is inside as well.
ItemsApart ==
  \A l \in launches :
    /\ \A at \in Items(l.grid) :
         /\ Owns(l, at) \subseteq 0..(len - 1)
         /\ \A other \in Items(l.grid) \ {at} : Owns(l, at) \cap Owns(l, other) = {}
    /\ l.arg \in {"item", "row"} =>
         UNION {Owns(l, at) : at \in Items(l.grid)} = 0..(len - 1)
    /\ l.arg \in {"halo", "periodic", "clamped"} =>
         \A at \in Items(l.grid) : Loads(l, at) \subseteq 0..(len - 1)

=============================================================================
