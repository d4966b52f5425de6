---------------------------- MODULE BandKernels ----------------------------
(***************************************************************************)
(* What the kernels of src/src/tigris_kernels.c read and write under the   *)
(* tile context mem->tile that the band executors of module Bands set.     *)
(* With no tile active they run on whole tensors: NoTile.                  *)
(*                                                                         *)
(* A kernel is given x, the contents of its operands in order, and returns *)
(* the contents of its outputs in order, as long as it writes them.        *)
(***************************************************************************)
EXTENDS Bandable

\* mode is tile.row_tiled; block and outer are 0 unless transposed_tile, and
\* channels unless the executor walks a reduction's channels.
NoTile == [active |-> FALSE, mode |-> 0, in_h |-> 0, out_h |-> 0, in_w |-> 0, out_w |-> 0,
           origin |-> 0, pad_top |-> 0, pad_left |-> 0, width_tiled |-> FALSE,
           outer |-> 0, block |-> 0, carried |-> FALSE, first |-> FALSE, last |-> FALSE,
           channels |-> 0, positions |-> 0]

\* The shape a kernel that knows the band's axis sees.
Seen(shape, tile, n) == IF tile.active THEN Cut(shape, BandAxis(shape, tile.mode), n) ELSE shape

\* tigris_tile_numel
TileNumel(shape, tile) ==
    CASE ~tile.active -> Numel(shape)
      [] tile.active /\ tile.mode # Height ->
            (Numel(shape) \div shape[BandAxis(shape, tile.mode)]) * tile.out_h
      [] OTHER -> shape[1] * tile.out_h * (IF Len(shape) = 4 THEN tile.out_w ELSE 1) * Last(shape)

\* independent_band_numel
IndependentNumel(shape, tile) ==
    IF tile.active THEN (Numel(shape) \div shape[BandAxis(shape, tile.mode)]) * tile.out_h
    ELSE Numel(shape)

-----------------------------------------------------------------------------
(* Pointwise, normalization and matrix kernels *)

ReluOut(j, in, tile, x) == [i \in Indices(TileNumel(in, tile)) |-> <<j, <<Read(x[1], i)>>>>]

\* kern_softmax: an element and the row it is normalized over.
SoftmaxOut(j, in, tile, x) ==
    [i \in Indices(TileNumel(in, tile)) |->
        <<j, <<Read(x[1], i)>> \o [c \in 1 .. Last(in) |-> Read(x[1], i - (i % Last(in)) + c - 1)]>>]

\* kern_fully_connected: a row of the input and the weights of one output.
FullyConnectedOut(j, in, out, tile, x) ==
    LET rows == IF tile.active /\ tile.mode # Height THEN tile.out_h ELSE out[1]
        features == Numel(in) \div out[1]
    IN  [i \in Indices(rows * out[2]) |->
            <<j, [k \in 1 .. features |-> Read(x[1], (i \div out[2]) * features + k - 1)]
                 \o <<Constant(j, i % out[2])>>>>]

\* kern_matmul: the rows of every batch come from the band, the second operand
\* is whole.
MatmulOut(j, a, b, tile, x) ==
    LET rank == Len(a)
        depth == a[rank]
        cols == Last(b)
        rows == IF tile.active /\ tile.mode # Height THEN tile.out_h ELSE a[rank - 1]
    IN  [i \in Indices(Span(a, 1, rank - 2) * rows * cols) |->
            LET n == i \div (rows * cols)
            IN  <<j, [k \in 1 .. depth |-> Read(x[1], (i \div cols) * depth + k - 1)]
                     \o [k \in 1 .. depth |-> Read(x[2], (n * depth + k - 1) * cols + (i % cols))]>>]

-----------------------------------------------------------------------------
(* tigris_binary_operands: an operand is dense, repeats every period       *)
(* elements, or is read by output coordinate.                              *)

\* binary_operand_shape
Padded(s, rank) == [a \in 1 .. rank |-> IF a <= rank - Len(s) THEN 1 ELSE s[a - (rank - Len(s))]]

\* binary_operand_access
Mismatches(dims, out) == {a \in DOMAIN out : dims[a] # out[a]}
Repeats(dims, out) == \A a \in 1 .. Max(Mismatches(dims, out)) : dims[a] = 1
General(dims, out) == Mismatches(dims, out) # {} /\ ~Repeats(dims, out)

\* Mutant: a constant is read from its start in every band.
OperandIndexNoOrigin(dims, constant, out, tile, i) ==
    LET at == Coords(Seen(out, tile, tile.out_h), i)
        seen == [a \in DOMAIN dims |->
                    IF a = BandAxis(out, tile.mode) /\ dims[a] # 1 THEN tile.out_h ELSE dims[a]]
    IN  IF tile.active /\ tile.mode >= AxisBase
        THEN FlatIndex(seen, [a \in DOMAIN dims |-> IF dims[a] = 1 THEN 0 ELSE at[a]])
        ELSE i % Numel(dims)

\* The element of an operand output element i reads: binary_index, with the
\* strides and the constant's offset tigris_binary_operands gives it.
OperandIndex(dims, constant, out, tile, i) ==
    LET by_axis == tile.active /\ tile.mode >= AxisBase
        axis == BandAxis(out, tile.mode)
        at == Coords(IF by_axis THEN Cut(out, axis, tile.out_h) ELSE out, i)
        seen == [a \in DOMAIN dims |->
                    IF by_axis /\ a = axis /\ dims[a] # 1 /\ ~constant THEN tile.out_h ELSE dims[a]]
        from == [a \in DOMAIN dims |->
                    CASE dims[a] = 1 -> 0
                      [] dims[a] # 1 /\ by_axis /\ constant /\ a = axis -> at[a] + tile.origin
                      [] OTHER -> at[a]]
    IN  CASE by_axis \/ General(dims, out) -> FlatIndex(seen, from)
          [] ~by_axis /\ Mismatches(dims, out) = {} -> i
          [] OTHER -> i % Span(dims, Max(Mismatches(dims, out)) + 1, Len(dims))

\* The extents of operand k, the constant's for the second when there is one.
OperandDims(st, op, k) ==
    Padded(IF k <= Len(op.ins) THEN Shape(st, op.ins[k]) ELSE op.attr.shape, Rank(st, FirstOut(op)))

BinaryRefuses(st, op, tile) ==
    LET out == Shape(st, FirstOut(op))
        constant(k) == k > Len(op.ins)
    IN  /\ tile.active
        /\ \/ Len(out) \notin {3, 4} /\ ~(Len(out) = 2 /\ tile.mode # Height)
           \/ /\ tile.mode < AxisBase
              /\ \E k \in 1 .. 2 : \/ General(OperandDims(st, op, k), out)
                                   \/ constant(k) /\ OperandDims(st, op, k) = out

BinaryOut(st, j, op, tile, x) ==
    LET out == Shape(st, FirstOut(op))
        value(k, i) ==
            LET from == OperandIndex(OperandDims(st, op, k), k > Len(op.ins), out, tile, i)
            IN  IF k > Len(op.ins) THEN Constant(j, from) ELSE Read(x[k], from)
    IN  [i \in Indices(TileNumel(out, tile)) |-> <<j, <<value(1, i), value(2, i)>>>>]

-----------------------------------------------------------------------------
(* Kernels along one axis *)

\* Mutant: takes the extents of the whole tensor in a band.
AxisExtentsWhole(in, axis, tile) ==
    [outer |-> Before(in, axis), reduced |-> in[axis], inner |-> After(in, axis)]

\* axis_extents
AxisExtents(in, axis, tile) ==
    LET seen == Seen(in, tile, tile.in_h)
    IN  [outer |-> Before(seen, axis), reduced |-> in[axis], inner |-> After(seen, axis)]

\* kern_reduce_f32 and tigris_arg_execute: what the output element is made of.
ReduceOut(j, e, x) ==
    [i \in Indices(e.outer * e.inner) |->
        <<j, [r \in 1 .. e.reduced |->
                Read(x[1], ((i \div e.inner) * e.reduced + r - 1) * e.inner + (i % e.inner))]>>]

\* kern_cumsum_f32, forwards and inclusive.
CumsumOut(j, e, x) ==
    [i \in Indices(e.outer * e.reduced * e.inner) |->
        LET step == (i \div e.inner) % e.reduced
        IN  <<j, [r \in 1 .. step + 1 |-> Read(x[1], i - (step - r + 1) * e.inner)]>>]

\* kern_split: a run per position ahead of the axis.
SplitOut(st, op, k, tile, x) ==
    LET in == Shape(st, FirstIn(op))
        positions == Before(Seen(in, tile, tile.in_h), op.attr.axis)
        run(part) == TileNumel(Shape(st, op.outs[part]), tile) \div positions
        offset == MapThenSumSet(run, 1 .. k - 1)
    IN  [i \in Indices(positions * run(k)) |->
            Read(x[1], (i \div run(k)) * (TileNumel(in, tile) \div positions) + offset + (i % run(k)))]

\* tigris_concat_geometry and kern_concat: before the leading bands a tile cuts
\* the second axis, and only the last can be joined.
ConcatRefuses(st, op, tile) ==
    \/ op.attr.axis = 1
    \/ tile.active /\ tile.mode < Leading /\ op.attr.axis # Rank(st, FirstOut(op))
ConcatOut(st, op, tile, x) ==
    LET out == Shape(st, FirstOut(op))
        by_height == tile.active /\ tile.mode < Leading
        seen == IF tile.active /\ ~by_height THEN Seen(out, tile, tile.out_h) ELSE out
        axis == op.attr.axis
        inner == After(seen, axis)
        positions == IF by_height
                     THEN out[1] * tile.out_h * (IF Len(out) = 4 THEN tile.out_w ELSE 1)
                     ELSE Before(seen, axis)
        total == out[axis] * inner
        part(k) == Shape(st, op.ins[k])[axis] * inner
        offset(k) == MapThenSumSet(part, 1 .. k - 1)
    IN  [i \in Indices(positions * total) |->
            LET r == i % total
                k == Max({k \in DOMAIN op.ins : offset(k) <= r})
            IN  Read(x[k], (i \div total) * part(k) + r - offset(k))]

-----------------------------------------------------------------------------
(* Data movement *)

\* An index operand holds what the model's index tensor holds, at[n + 1].
Coordinate(op, v) == IF v = Junk THEN -1 ELSE op.attr.at[v[2][2] + 1]

\* movement_gather: the indices are whole, the data may be a band.
GatherRefuses(st, op, tile, x) ==
    LET seen == Seen(Shape(st, op.ins[1]), tile, tile.in_h)
    IN  \E n \in Indices(Numel(Shape(st, op.ins[2]))) :
            Coordinate(op, Read(x[2], n)) \notin Indices(seen[op.attr.axis])
GatherOut(st, op, tile, x) ==
    LET seen == Seen(Shape(st, op.ins[1]), tile, tile.in_h)
        axis == op.attr.axis
        batches == Span(seen, 1, op.attr.batch)
        outer == Span(seen, op.attr.batch + 1, axis - 1)
        inner == After(seen, axis)
        per_batch == Numel(Shape(st, op.ins[2])) \div batches
    IN  [i \in Indices(batches * outer * per_batch * inner) |->
            LET row == i \div (per_batch * inner)
                n == (row \div outer) * per_batch + ((i \div inner) % per_batch)
            IN  Read(x[1], (row * seen[axis] + Coordinate(op, Read(x[2], n))) * inner + (i % inner))]

\* Where along axis a of the source a movement finds coordinate c.
MovedFrom(op, a, extent, c) ==
    CASE op.kind = "slice" -> op.attr.begin[a] + c * op.attr.step[a]
      [] op.kind = "mirror" ->
            LET d == c - op.attr.pads[a][1]
            IN  CASE d < 0 -> -d - op.attr.edge
                  [] d >= extent -> 2 * extent - 2 + op.attr.edge - d
                  [] OTHER -> d
      [] op.kind = "reverse" -> IF a \in op.attr.axes THEN extent - 1 - c ELSE c

\* The walk over the output of tigris_movement_execute.
MovementOut(st, op, tile, x) ==
    LET in == Seen(Shape(st, FirstIn(op)), tile, tile.in_h)
        out == Seen(Shape(st, FirstOut(op)), tile, tile.out_h)
        from(i) == [a \in DOMAIN in |-> MovedFrom(op, a, in[a], Coords(out, i)[a])]
    IN  [i \in Indices(IndependentNumel(Shape(st, FirstOut(op)), tile)) |->
            IF \A a \in DOMAIN in : from(i)[a] \in Indices(in[a])
            THEN Read(x[1], FlatIndex(in, from(i))) ELSE Junk]

\* A dynamic update starts where its start operand says, moved inside; along
\* the banded axis it covers the band.
UpdateOut(st, op, tile, x) ==
    LET whole == Shape(st, FirstIn(op))
        in == Seen(whole, tile, tile.in_h)
        banded(a) == tile.active /\ a = BandAxis(whole, tile.mode)
        extents == [a \in DOMAIN in |-> IF banded(a) THEN tile.in_h ELSE op.attr.extents[a]]
        start(a) == CASE ~op.attr.dynamic -> op.attr.starts[a]
                      [] op.attr.dynamic /\ banded(a) -> 0
                      [] OTHER -> Larger(0, Smaller(Coordinate(op, Read(x[3], a - 1)), in[a] - extents[a]))
        inside(at) == \A a \in DOMAIN in : at[a] - start(a) \in Indices(extents[a])
    IN  [i \in Indices(IndependentNumel(whole, tile)) |->
            LET at == Coords(in, i)
            IN  IF inside(at) THEN Read(x[2], FlatIndex(extents, [a \in DOMAIN in |-> at[a] - start(a)]))
                ELSE Read(x[1], i)]

\* tigris_pad: fills the output, then copies the input over it.
PadOut(st, op, tile, x) ==
    LET in == Seen(Shape(st, FirstIn(op)), tile, tile.in_h)
        out == Seen(Shape(st, FirstOut(op)), tile, tile.out_h)
        from(i) == [a \in DOMAIN in |-> Coords(out, i)[a] - op.attr.pads[a][1]]
    IN  [i \in Indices(Numel(out)) |->
            IF \A a \in DOMAIN in : from(i)[a] \in Indices(in[a])
            THEN Read(x[1], FlatIndex(in, from(i))) ELSE Filler]

\* kern_reshape
ReshapeOut(in, tile, x) == [i \in Indices(TileNumel(in, tile)) |-> Read(x[1], i)]

\* transpose_matrix over the matrices of blocks a transposed tile hands over.
TransposedTileOut(tile, x) ==
    LET rows == tile.in_h
        cols == tile.in_w
        slice == rows * cols * tile.block
    IN  [i \in Indices(tile.outer * slice) |->
            LET c == (i % slice) \div (rows * tile.block)
                r == (i \div tile.block) % rows
            IN  Read(x[1], i - (i % slice) + (r * cols + c) * tile.block + (i % tile.block))]

\* The walk of tigris_transpose_execute: output axis a steps along perm[a].
TransposeOut(st, op, tile, x) ==
    LET cuts == tile.active /\ tile.mode >= AxisBase
        in == IF cuts THEN Seen(Shape(st, FirstIn(op)), tile, tile.in_h) ELSE Shape(st, FirstIn(op))
        out == IF cuts THEN Seen(Shape(st, FirstOut(op)), tile, tile.out_h) ELSE Shape(st, FirstOut(op))
        axis_of(a) == CHOOSE b \in DOMAIN op.attr.perm : op.attr.perm[b] = a
    IN  [i \in Indices(Numel(out)) |->
            Read(x[1], FlatIndex(in, [a \in DOMAIN in |-> Coords(out, i)[axis_of(a)]]))]

-----------------------------------------------------------------------------
(* Windows, reductions over positions, recurrences *)

\* tigris_window: the extents and pads of a tile, or of the whole tensors.
WindowGeometry(st, op, tile) ==
    LET in == Shape(st, FirstIn(op))
        out == Shape(st, FirstOut(op))
    IN  [in |-> IF tile.active THEN <<in[1], tile.in_h, tile.in_w, in[4]>> ELSE in,
         out |-> IF tile.active THEN <<out[1], tile.out_h, tile.out_w, out[4]>> ELSE out,
         top |-> IF tile.active THEN tile.pad_top ELSE op.attr.h.pad,
         left |-> IF tile.active /\ tile.width_tiled THEN tile.pad_left ELSE op.attr.w.pad]

\* kern_depthwise_conv2d and the pools: the taps inside the input.
WindowOut(st, j, op, tile, x) ==
    LET g == WindowGeometry(st, op, tile)
        taps(base, extent, w) ==
            LET range == TapRange(base, extent, w.taps, w.dilation) IN range.first .. range.last - 1
    IN  [i \in Indices(Numel(g.out)) |->
            LET at == Coords(g.out, i)
                h == at[2] * op.attr.h.stride - g.top
                w == at[3] * op.attr.w.stride - g.left
            IN  <<j, [k \in taps(h, g.in[2], op.attr.h) \X taps(w, g.in[3], op.attr.w) |->
                        Read(x[1], FlatIndex(g.in, <<at[1], h + k[1] * op.attr.h.dilation,
                                                     w + k[2] * op.attr.w.dilation, at[4]>>))]>>]

\* kern_conv_transpose, one channel to one: the taps whose position, counted
\* back, is a multiple of the stride inside the input.
TransposedConvOut(st, j, op, tile, x) ==
    LET g == WindowGeometry(st, op, tile)
        sources(at, pad, w, extent) ==
            {k \in 0 .. w.taps - 1 : /\ (at + pad - k) % w.stride = 0
                                     /\ (at + pad - k) \div w.stride \in Indices(extent)}
    IN  [i \in Indices(Numel(g.out)) |->
            LET at == Coords(g.out, i)
            IN  <<j, [k \in sources(at[2], g.top, op.attr.h, g.in[2])
                            \X sources(at[3], g.left, op.attr.w, g.in[3]) |->
                        Read(x[1], FlatIndex(g.in, <<at[1], (at[2] + g.top - k[1]) \div op.attr.h.stride,
                                                     (at[3] + g.left - k[2]) \div op.attr.w.stride, at[4]>>))]>>]

\* Mutant: every band of a reduction begins a new sum.
PoolSumsAlwaysFirst(in, tile, x, acc) ==
    [i \in Indices(in[1] * in[4]) |->
        [k \in 1 .. tile.in_h * in[3] |-> Read(x[1], ((i \div in[4]) * tile.in_h * in[3] + k - 1) * in[4] + (i % in[4]))]]

\* The sums of kern_global_avg_pool, by batch and channel: the samples added so
\* far, continued from the accumulator unless the band is the first.
PoolSums(in, tile, x, acc) ==
    LET walks_channels == tile.active /\ tile.channels > 0
        channels == IF walks_channels THEN tile.channels ELSE in[4]
        rows == CASE walks_channels -> tile.positions
                  [] ~walks_channels /\ tile.active -> tile.in_h * in[3]
                  [] OTHER -> in[2] * in[3]
    IN  [i \in Indices((IF walks_channels THEN 1 ELSE in[1]) * channels) |->
            (IF tile.carried /\ ~tile.first THEN acc[i] ELSE <<>>)
            \o [k \in 1 .. rows |-> Read(x[1], ((i \div channels) * rows + k - 1) * channels + (i % channels))]]

\* The output is written when no accumulator is carried, or on the last band.
PoolOut(j, sums, tile) ==
    [i \in IF tile.carried /\ ~tile.last THEN {} ELSE DOMAIN sums |-> <<j, sums[i]>>]

\* kern_lstm_f32: the hidden state of a batch row goes from step to step, and
\* every step's goes to the output.  One feature and one unit.
RecurrentOut(st, j, op, tile, x) ==
    LET in == Shape(st, FirstIn(op))
        steps == IF op.attr.time_major THEN in[1] ELSE in[2]
        batch == IF tile.active THEN tile.out_h ELSE IF op.attr.time_major THEN in[2] ELSE in[1]
        row(b, t) == IF op.attr.time_major THEN t * batch + b ELSE b * steps + t
        hidden(b) ==
            LET H[t \in 0 .. steps] ==
                    IF t = 0 THEN Read(x[2], b) ELSE <<j, <<Read(x[1], row(b, t - 1)), H[t - 1]>>>>
            IN  H
    IN  << [i \in Indices(batch * steps) |->
                IF op.attr.time_major THEN hidden(i % batch)[i \div batch + 1]
                ELSE hidden(i \div steps)[(i % steps) + 1]],
           [b \in Indices(batch) |-> hidden(b)[steps]] >>

-----------------------------------------------------------------------------
(* The kernel of op j *)

KernelRefuses(st, j, tile, x) ==
    LET op == st.ops[j]
        in == Shape(st, FirstIn(op))
    IN  CASE op.kind = "add" -> BinaryRefuses(st, op, tile)
          [] op.kind = "softmax" -> TileNumel(in, tile) % Last(in) # 0
          [] op.kind = "concat" -> ConcatRefuses(st, op, tile)
          [] op.kind \in {"reduce", "arg", "cumsum"} ->
                \/ op.kind # "arg" /\ Len(in) # 3
                \/ tile.active /\ ~IndependentBand(st, op, tile.mode)
          [] op.kind = "gather" ->
                (tile.active /\ ~IndependentBand(st, op, tile.mode)) \/ GatherRefuses(st, op, tile, x)
          [] op.kind \in {"pad", "mirror", "slice", "reverse", "update"} ->
                tile.active /\ ~IndependentBand(st, op, tile.mode)
          [] op.kind = "transpose" ->
                tile.active /\ tile.mode >= AxisBase /\ ~IndependentBand(st, op, tile.mode)
          [] OTHER -> FALSE

KernelOut(st, j, tile, x, acc) ==
    LET op == st.ops[j]
        in == Shape(st, FirstIn(op))
        out == Shape(st, FirstOut(op))
    IN  CASE op.kind = "relu" -> <<ReluOut(j, in, tile, x)>>
          [] op.kind = "softmax" -> <<SoftmaxOut(j, in, tile, x)>>
          [] op.kind = "fc" -> <<FullyConnectedOut(j, in, out, tile, x)>>
          [] op.kind = "matmul" -> <<MatmulOut(j, in, Shape(st, op.ins[2]), tile, x)>>
          [] op.kind = "add" -> <<BinaryOut(st, j, op, tile, x)>>
          [] op.kind \in {"reduce", "arg"} -> <<ReduceOut(j, AxisExtents(in, op.attr.axis, tile), x)>>
          [] op.kind = "cumsum" -> <<CumsumOut(j, AxisExtents(in, op.attr.axis, tile), x)>>
          [] op.kind = "split" -> [k \in DOMAIN op.outs |-> SplitOut(st, op, k, tile, x)]
          [] op.kind = "concat" -> <<ConcatOut(st, op, tile, x)>>
          [] op.kind = "gather" -> <<GatherOut(st, op, tile, x)>>
          [] op.kind \in {"slice", "mirror", "reverse"} -> <<MovementOut(st, op, tile, x)>>
          [] op.kind = "update" -> <<UpdateOut(st, op, tile, x)>>
          [] op.kind = "pad" -> <<PadOut(st, op, tile, x)>>
          [] op.kind = "reshape" -> <<ReshapeOut(in, tile, x)>>
          [] op.kind = "transpose" ->
                <<IF tile.active /\ tile.outer > 0 THEN TransposedTileOut(tile, x)
                  ELSE TransposeOut(st, op, tile, x)>>
          [] op.kind = "window" -> <<WindowOut(st, j, op, tile, x)>>
          [] op.kind = "transposed" -> <<TransposedConvOut(st, j, op, tile, x)>>
          [] op.kind = "globalavg" -> <<PoolOut(j, PoolSums(in, tile, x, acc), tile)>>
          [] op.kind = "recurrent" -> RecurrentOut(st, j, op, tile, x)

\* Every tensor of a stage when its ops run on whole tensors.
WholeStage(st, content) ==
    LET Run(now, j) ==
            LET op == st.ops[j]
                made == KernelOut(st, j, NoTile, [k \in DOMAIN op.ins |-> now[op.ins[k]]], <<>>)
            IN  [t \in DOMAIN now |-> IF t \in Range(op.outs)
                                      THEN made[CHOOSE k \in DOMAIN op.outs : op.outs[k] = t]
                                      ELSE now[t]]
    IN  FoldLeft(Run, content, [j \in DOMAIN st.ops |-> j])

=============================================================================
