------------------------------- MODULE Shapes -------------------------------
(***************************************************************************)
(* Tensors in memory.  A shape is a sequence of extents, a content is a    *)
(* function on the flat indices 0 .. Numel(shape) - 1 in the stored order, *)
(* the last axis fastest.  Axes count from 1 here and from 0 in the code.  *)
(***************************************************************************)
EXTENDS Window, SequencesExt, FiniteSetsExt

\* The product of the extents of axes a .. b, 1 when there is none.
Span(shape, a, b) ==
    LET P[i \in 0 .. Len(shape)] == IF i < a THEN 1 ELSE shape[i] * P[i - 1]
    IN  P[b]

\* tigris_tensor_numel
Numel(shape) == Span(shape, 1, Len(shape))
Before(shape, a) == Span(shape, 1, a - 1)
After(shape, a) == Span(shape, a + 1, Len(shape))

\* The coordinates of the element at flat index i, and back.
Coords(shape, i) == [a \in DOMAIN shape |-> (i \div After(shape, a)) % shape[a]]
FlatIndex(shape, at) ==
    LET F[a \in 0 .. Len(shape)] == IF a = 0 THEN 0 ELSE F[a - 1] * shape[a] + at[a]
    IN  F[Len(shape)]

\* A shape with one axis cut to n, as a band cuts it.
Cut(shape, a, n) == [shape EXCEPT ![a] = n]

Indices(n) == 0 .. n - 1

-----------------------------------------------------------------------------
(* Values.  What matters of an element is where it comes from:             *)
(*   <<0, <<t, i>>>>   element i of tensor t, which no op of the stage made *)
(*   <<j, operands>>   computed by op j from a sequence of values          *)
(*   <<-1, <<>>>>      whatever was in memory                              *)
(*   <<-2, <<>>>>      the fill of a pad                                   *)
(*   <<-3, <<j, i>>>>  element i of op j's constant operand                *)
Source(t, i) == <<0, <<t, i>>>>
Junk == <<-1, <<>>>>
Filler == <<-2, <<>>>>
Constant(j, i) == <<-3, <<j, i>>>>

Blank(n) == [i \in Indices(n) |-> Junk]

\* A kernel's read; outside the buffer it may find anything.
Read(buffer, i) == IF i \in DOMAIN buffer THEN buffer[i] ELSE Junk

-----------------------------------------------------------------------------
(* A region maps the packed index of a band buffer to the index of the     *)
(* same element in the whole tensor.                                       *)

\* `band` rows from row `start` of every one of `batch` blocks of `rows` rows.
\* The strides of gather_row_band and scatter_row_band.
RowBand(batch, rows, start, band, row) ==
    [p \in Indices(batch * band * row) |->
        (p \div (band * row)) * rows * row + start * row + (p % (band * row))]

\* The rows and columns of a [n, h, w, c] tensor the rectangle covers: the
\* copies of tigris_mem_load_tile_2d and tigris_mem_spill_tile_2d.
Rectangle(shape, rect) ==
    LET packed == <<shape[1], rect.h.end - rect.h.first, rect.w.end - rect.w.first, shape[4]>>
    IN  [p \in Indices(Numel(packed)) |->
            LET at == Coords(packed, p)
            IN  FlatIndex(shape, <<at[1], rect.h.first + at[2], rect.w.first + at[3], at[4]>>)]

\* Mutant: a gather that reads the rows of the first block for every block.
GatheredFirstBlock(whole, region) ==
    [p \in DOMAIN region |-> Read(whole, region[p % (1 + ((Cardinality(DOMAIN region) - 1) \div 2))])]

\* gather_row_band: a packed copy of the region.
Gathered(whole, region) == [p \in DOMAIN region |-> Read(whole, region[p])]

\* scatter_row_band: the region overwritten with the packed copy.
Scattered(whole, region, buffer) ==
    LET at == [i \in {region[p] : p \in DOMAIN region} |-> CHOOSE p \in DOMAIN region : region[p] = i]
    IN  [i \in DOMAIN whole |-> IF i \in DOMAIN at THEN Read(buffer, at[i]) ELSE whole[i]]

=============================================================================
